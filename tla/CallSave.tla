------------------------------ MODULE CallSave ------------------------------
(***************************************************************************)
(* Saving registers around the calls of one basic block, as the uops are   *)
(* turned into instructions: UopCall::ToAsm, BeforeCall, Recover,          *)
(* RecoverCall and UseVirtReg.                                             *)
(*                                                                         *)
(* A caller-saved register that is live over a call is stored once, marked *)
(* Saving, and left in memory over the following calls too.  It comes back *)
(* when a uop uses it, or after the last call of the block.  The marks are *)
(* kept by the compiler, the values by the machine that runs what it       *)
(* emits; a step here does both for one uop.                               *)
(*                                                                         *)
(* Integer registers only.  A value is named by where it was made.         *)
(***************************************************************************)
EXTENDS Integers, Sequences, FiniteSets

CONSTANTS
    Vregs,      \* virtual registers of the block
    ArgRegs,    \* sequence of the argument registers, a0 first
    TmpRegs,    \* sequence of the t registers
    CalleeSave, \* s registers
    None,       \* no register
    Inputs      \* the blocks that may be emitted

RangeOf(s) == {s[i] : i \in DOMAIN s}

CallerSave == RangeOf(ArgRegs) \cup RangeOf(TmpRegs)
Regs == CallerSave \cup CalleeSave

ASSUME RegistersAssumption ==
    /\ ArgRegs \in Seq(RangeOf(ArgRegs)) /\ ArgRegs /= <<>>
    /\ \A i, j \in DOMAIN ArgRegs : ArgRegs[i] = ArgRegs[j] => i = j
    /\ TmpRegs \in Seq(RangeOf(TmpRegs)) /\ TmpRegs /= <<>>
    /\ RangeOf(ArgRegs) \cap RangeOf(TmpRegs) = {}
    /\ CallerSave \cap CalleeSave = {}
    /\ None \notin Vregs

(* kind: "op", "mv", "call", or "jump" for a tail call of the function     *)
(* itself that needs no stack arguments.                                   *)
Uop == [kind : {"op", "mv", "call", "jump"}, ops : Seq(Vregs), res : Vregs \cup {None}]

(* reg is the register each virtual register was given; onStk are those    *)
(* left on the stack, which only calls read here, the rest having been     *)
(* rewritten.                                                              *)
Block == [uops : Seq(Uop), reg : [Vregs -> Regs], onStk : SUBSET Vregs,
          liveIn : SUBSET Vregs, liveOut : SUBSET Vregs]

(* Live interval of v in a block b: from its definition, or the first uop, *)
(* to its last use, or past the last uop.                                  *)
Defs(b, v) == {i \in DOMAIN b.uops : b.uops[i].res = v}
Uses(b, v) == {i \in DOMAIN b.uops : v \in RangeOf(b.uops[i].ops)}
Born(b, v) == IF v \in b.liveIn THEN 1 ELSE CHOOSE i \in Defs(b, v) : \A j \in Defs(b, v) : i <= j
Dies(b, v) == IF v \in b.liveOut THEN Len(b.uops) + 1
              ELSE CHOOSE i \in Uses(b, v) : \A j \in Uses(b, v) : j <= i
Present(b, v) == v \in b.liveIn \/ Defs(b, v) /= {}
Wanted(b, v) == v \in b.liveOut \/ Uses(b, v) /= {}
LiveAt(b, v, i) == Present(b, v) /\ Wanted(b, v) /\ Born(b, v) <= i /\ i < Dies(b, v)

-----------------------------------------------------------------------------
(* What the passes before guarantee of a block: registers are written      *)
(* before they are read, and once; what was left on the stack is read by   *)
(* calls only; values that meet, in the block or where they come into it,  *)
(* have registers of their own; a result nobody reads is that of a call,   *)
(* in a0, which it prefers.                                                *)
Sound(b, i) ==
    LET u == b.uops[i]
        offStk == RangeOf(u.ops) \cap b.onStk = {}
    IN  /\ \A v \in RangeOf(u.ops) : v \in b.liveIn \/ \E j \in Defs(b, v) : j < i
        /\ u.res \notin b.liveIn \cup b.onStk
        /\ u.kind = "op" => offStk /\ (u.res = None \/ Wanted(b, u.res))
        /\ u.kind = "mv" => offStk /\ Len(u.ops) = 1 /\ u.res /= None /\ Wanted(b, u.res)
        /\ u.kind = "call" => u.res = None \/ Wanted(b, u.res) \/ b.reg[u.res] = ArgRegs[1]
        /\ u.kind = "jump" => u.res = None

Meet(b, v, w) == {v, w} \subseteq b.liveIn \/ \E i \in DOMAIN b.uops : LiveAt(b, v, i) /\ LiveAt(b, w, i)

WellFormed(b) ==
    /\ \A i \in DOMAIN b.uops : Sound(b, i)
    /\ \A i, j \in DOMAIN b.uops : b.uops[i].res = b.uops[j].res /\ b.uops[i].res /= None => i = j
    /\ \A v \in b.liveOut : Present(b, v)
    /\ \A v, w \in Vregs \ b.onStk : v /= w /\ Meet(b, v, w) => b.reg[v] /= b.reg[w]

ASSUME InputsAssumption == \A b \in Inputs : b \in Block /\ WellFormed(b)

(* No move after a call has one register on both sides. *)
NoMoveInPlace(b) ==
    \A i \in DOMAIN b.uops :
        b.uops[i].kind = "mv" /\ b.reg[b.uops[i].ops[1]] = b.reg[b.uops[i].res]
          => \A j \in 1 .. i - 1 : b.uops[j].kind /= "call"

-----------------------------------------------------------------------------
VARIABLES
    block,      \* the block being emitted; never changes
    pc,         \* the uop to emit
    hw,         \* registers, save slots, and save_stack_ with the marks
    value,      \* what each virtual register should hold
    got, want   \* operands of the last uop: as read, and as they should be

vars == <<block, pc, hw, value, got, want>>

-----------------------------------------------------------------------------

Junk == <<"junk", 0>>
Incoming(v) == <<"in", v>>
Made(i) == <<"made", i>>

Reg(v) == block.reg[v]
Last == Len(block.uops)
Here == block.uops[pc]

IsCall(i) == block.uops[i].kind \in {"call", "jump"}

(* living_regs_ of the call at i: GenerateCallInfo and PushLiver.          *)
Living(i) ==
    {v \in Vregs \ block.onStk : Reg(v) \in CallerSave /\ LiveAt(block, v, i)}
        \ {block.uops[i].res}

(* arg_param: arguments in caller-saved registers that die in the call.    *)
ArgParam(i) ==
    {v \in RangeOf(block.uops[i].ops) \ block.onStk : Reg(v) \in CallerSave} \ Living(i)

-----------------------------------------------------------------------------
(* Marks and slots.  save_stack_ gives each register it has met a slot;    *)
(* owner[r] is the virtual register saved there, or None.                  *)

(* UseVirtReg of each of vs.                                               *)
Reload(h, vs) ==
    LET back == {Reg(v) : v \in vs \cap h.saving}
    IN  [h EXCEPT !.regs = [r \in Regs |-> IF r \in back THEN h.slot[r] ELSE @[r]],
                  !.owner = [r \in DOMAIN @ |-> IF r \in back THEN None ELSE @[r]],
                  !.saving = @ \ vs]

(* Mutant of Save: a register that is marked is stored again. *)
Save_Again(h, vs) ==
    LET Owners(r) == {v \in vs : Reg(v) = r}
        touched == {Reg(v) : v \in vs}
    IN  [h EXCEPT !.slot = [r \in Regs |-> IF r \in touched THEN h.regs[r] ELSE @[r]],
                  !.owner = [r \in DOMAIN @ \cup touched |->
                                IF r \in touched THEN CHOOSE v \in Owners(r) : TRUE ELSE @[r]],
                  !.saving = @ \cup vs]

(* BeforeCall: those that are not saved yet are stored. *)
Save(h, vs) ==
    LET Owners(r) == {v \in vs \ h.saving : Reg(v) = r}
        touched == {Reg(v) : v \in vs \ h.saving}
    IN  [h EXCEPT !.slot = [r \in Regs |-> IF r \in touched THEN h.regs[r] ELSE @[r]],
                  !.owner = [r \in DOMAIN @ \cup touched |->
                                IF r \in touched THEN CHOOSE v \in Owners(r) : TRUE ELSE @[r]],
                  !.saving = @ \cup vs]

(* Mutant of Forget: the slot stays taken. *)
Forget_KeepsSlot(h, vs) == [h EXCEPT !.saving = @ \ vs]

(* Recover and SetSavingOff(0): the mark goes, nothing is loaded. *)
Forget(h, vs) ==
    [h EXCEPT !.owner = [r \in DOMAIN @ |-> IF \E v \in vs : Reg(v) = r THEN None ELSE @[r]],
              !.saving = @ \ vs]

(* RecoverCall, after the last call of the block. *)
RecoverAll(h) ==
    LET back == Reload(h, {h.owner[r] : r \in DOMAIN h.owner} \ {None})
    IN  [back EXCEPT !.owner = <<>>]

-----------------------------------------------------------------------------
(* Arguments, from the first: into argument registers while they last,     *)
(* then to the stack.  One that is in memory goes to the stack through a t *)
(* register.                                                               *)

InMemory(h, v) == v \in block.onStk \/ v \in h.saving

Source(h, regs, v) ==
    CASE v \in block.onStk -> value[v]
      [] v \in h.saving    -> h.slot[Reg(v)]
      [] OTHER             -> regs[Reg(v)]

(* The t register of argument i, taken in turn. *)
Carrier(h, ops, i) ==
    LET turn == Cardinality({j \in Len(ArgRegs) + 1 .. i - 1 : InMemory(h, ops[j])})
    IN  TmpRegs[1 + (turn % Len(TmpRegs))]

PassArg(h, ops, i, m) ==
    LET a == Source(h, m.regs, ops[i])
    IN  IF i <= Len(ArgRegs)
          THEN [m EXCEPT !.regs[ArgRegs[i]] = a]
        ELSE IF InMemory(h, ops[i])
          THEN [m EXCEPT !.regs[Carrier(h, ops, i)] = a, !.stack = Append(@, a)]
        ELSE [m EXCEPT !.stack = Append(@, a)]

(* Registers and stack after the first n arguments, for every n. *)
Passing(h, ops) ==
    LET After[n \in 0 .. Len(ops)] ==
          IF n = 0 THEN [regs |-> h.regs, stack |-> <<>>] ELSE PassArg(h, ops, n, After[n - 1])
    IN  After

PassArgs(h, ops) == Passing(h, ops)[Len(ops)]

(* What the callee finds. *)
Received(m, n) == [i \in 1 .. n |-> IF i <= Len(ArgRegs) THEN m.regs[ArgRegs[i]]
                                    ELSE m.stack[i - Len(ArgRegs)]]

-----------------------------------------------------------------------------

Init ==
    /\ block \in Inputs
    /\ pc = 1
    /\ value = [v \in Vregs |-> Incoming(v)]
    /\ hw = [regs |-> [r \in Regs |->
                         IF \E v \in block.liveIn \ block.onStk : Reg(v) = r
                           THEN Incoming(CHOOSE v \in block.liveIn \ block.onStk : Reg(v) = r)
                           ELSE Junk],
             slot |-> [r \in Regs |-> Junk], owner |-> <<>>, saving |-> {}]
    /\ got = <<>>
    /\ want = <<>>

Ideal(ops) == [i \in DOMAIN ops |-> value[ops[i]]]

SetReg(h, v, a) == IF v = None THEN h ELSE [h EXCEPT !.regs[Reg(v)] = a]

SetValue(v, a) == value' = IF v = None THEN value ELSE [value EXCEPT ![v] = a]

(* Mutant: UseVirtReg is missing. *)
EmitOp_NoUse ==
    /\ pc <= Last /\ Here.kind = "op"
    /\ hw' = SetReg(hw, Here.res, Made(pc))
    /\ got' = [i \in DOMAIN Here.ops |-> hw.regs[Reg(Here.ops[i])]]
    /\ want' = Ideal(Here.ops)
    /\ SetValue(Here.res, Made(pc))
    /\ pc' = pc + 1
    /\ UNCHANGED block

(* Every uop but the move: UseVirtReg of the operands, the instruction. *)
EmitOp ==
    /\ pc <= Last /\ Here.kind = "op"
    /\ LET h == Reload(hw, RangeOf(Here.ops))
       IN  /\ hw' = SetReg(h, Here.res, Made(pc))
           /\ got' = [i \in DOMAIN Here.ops |-> h.regs[Reg(Here.ops[i])]]
    /\ want' = Ideal(Here.ops)
    /\ SetValue(Here.res, Made(pc))
    /\ pc' = pc + 1
    /\ UNCHANGED block

(* UopMv: nothing at all is done when both sides have one register. *)
EmitMv ==
    /\ pc <= Last /\ Here.kind = "mv"
    /\ LET src == Here.ops[1]
       IN  /\ hw' = IF Reg(src) = Reg(Here.res) THEN hw
                    ELSE LET h == Reload(hw, {src}) IN SetReg(h, Here.res, h.regs[Reg(src)])
           /\ SetValue(Here.res, value[src])
    /\ got' = <<>>
    /\ want' = <<>>
    /\ pc' = pc + 1
    /\ UNCHANGED block

(* The callee may overwrite every caller-saved register; a0 has its result. *)
Returned(h) ==
    [h EXCEPT !.regs = [r \in Regs |-> IF r = ArgRegs[1] THEN Made(pc)
                                       ELSE IF r \in CallerSave THEN Junk ELSE @[r]]]

LastCall == \A i \in pc + 1 .. Last : ~IsCall(i)

AfterCall_NoRecover(h) == h

(* RLBasicBlock::ToAsm *)
AfterCall(h) == IF LastCall THEN RecoverAll(h) ELSE h

EmitCall ==
    /\ pc <= Last /\ Here.kind = "call"
    /\ LET saved == Save(Save(hw, Living(pc)), ArgParam(pc))
           m == PassArgs(saved, Here.ops)
           back == Returned(Forget([saved EXCEPT !.regs = m.regs], ArgParam(pc)))
       IN  /\ hw' = AfterCall(SetReg(back, Here.res, back.regs[ArgRegs[1]]))
           /\ got' = Received(m, Len(Here.ops))
    /\ want' = Ideal(Here.ops)
    /\ SetValue(Here.res, Made(pc))
    /\ pc' = pc + 1
    /\ UNCHANGED block

(* A tail call of the function itself: the arguments are put in place and  *)
(* the code jumps to the first block; what follows in this one never runs. *)
EmitJump ==
    /\ pc <= Last /\ Here.kind = "jump"
    /\ LET saved == Save(Save(hw, Living(pc)), ArgParam(pc))
           m == PassArgs(saved, Here.ops)
       IN  /\ hw' = RecoverAll(Forget([saved EXCEPT !.regs = m.regs], ArgParam(pc)))
           /\ got' = Received(m, Len(Here.ops))
    /\ want' = Ideal(Here.ops)
    /\ pc' = Last + 1
    /\ UNCHANGED <<block, value>>

Next == EmitOp \/ EmitMv \/ EmitCall \/ EmitJump

Spec == Init /\ [][Next]_vars

-----------------------------------------------------------------------------

(* Every instruction reads, and every callee receives, the values the uop  *)
(* names: no operand is read from a register a call has overwritten, no    *)
(* argument is overwritten by an earlier one on its way.                   *)
OperandsRight == got = want

Where(v) ==
    CASE v \in block.onStk -> value[v]
      [] v \in hw.saving   -> hw.slot[Reg(v)]
      [] OTHER             -> hw.regs[Reg(v)]

(* A value still needed is where its mark says it is, the slot or the      *)
(* register, over any sequence of calls and uses.                          *)
NothingLost ==
    \A v \in Vregs : pc <= Last /\ LiveAt(block, v, pc - 1) => Where(v) = value[v]

(* Registers that BeforeCall is about to store. *)
ToSave(i) == (Living(i) \cup ArgParam(i)) \ hw.saving

(* "should free before saving again" (riscv/ToAsm.cpp): the slot of a      *)
(* register is free whenever a call stores that register.                  *)
FreeBeforeSaving ==
    pc <= Last /\ IsCall(pc) =>
        \A v \in ToSave(pc) :
            /\ Reg(v) \in DOMAIN hw.owner => hw.owner[Reg(v)] = None
            /\ \A w \in ToSave(pc) : w /= v => Reg(w) /= Reg(v)

(* At the end of a block everything is back in registers, as the next      *)
(* block, whichever it is, expects.                                        *)
BlockEndsRestored ==
    pc = Last + 1 =>
        /\ hw.saving = {}
        /\ (\A i \in DOMAIN block.uops : block.uops[i].kind /= "jump")
             => \A v \in block.liveOut : Where(v) = value[v]
=============================================================================
