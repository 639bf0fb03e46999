------------------------------ MODULE Peephole ------------------------------
(***************************************************************************)
(* AsmBasicBlock::Peepholes: loads and stores of one block that repeat the *)
(* one before them, or that the next one makes useless, are erased from    *)
(* the list of instructions.  Two iterators walk the list; erasing leaves  *)
(* dangling the iterator of an element that is gone.                       *)
(***************************************************************************)
EXTENDS Naturals, SequencesExt

CONSTANTS
    Regs,      \* machine registers
    Blocks     \* the instruction lists to walk, none of them empty

(* A load is rd <- imm(rs), a store imm(rt) <- rs; every other instruction *)
(* computes rd from rs and rt, and imm tells them apart.                   *)
Ops == {"ld", "lw", "flw", "sd", "sw", "fsw", "other"}
Instruction == [op : Ops, rd : Regs, rs : Regs, rt : Regs, imm : Nat]

-----------------------------------------------------------------------------

(* A machine on symbolic values.  A register holds <<r>> at entry, a       *)
(* memory cell its own address <<base value, offset>>; an instruction that *)
(* is no load or store yields <<its number, operand, operand>>.            *)
StoreOf == [ld |-> "sd", lw |-> "sw", flw |-> "fsw"]
Loads == DOMAIN StoreOf
Stores == {StoreOf[l] : l \in Loads}

Read(m, a) == IF a \in DOMAIN m.mem THEN m.mem[a] ELSE a

(* The register that holds the address, and the address itself.            *)
Base(i) == IF i.op \in Loads THEN i.rs ELSE i.rt
Address(m, i) == <<m.reg[Base(i)], i.imm>>

Execute(m, i) ==
    CASE i.op \in Loads  -> [m EXCEPT !.reg[i.rd] = Read(m, Address(m, i))]
      [] i.op \in Stores -> [m EXCEPT !.mem = [a \in DOMAIN m.mem \cup {Address(m, i)} |->
                                                 IF a = Address(m, i) THEN m.reg[i.rs] ELSE m.mem[a]]]
      [] OTHER           -> [m EXCEPT !.reg[i.rd] = <<i.imm, m.reg[i.rs], m.reg[i.rt]>>]

Entry == [reg |-> [r \in Regs |-> <<r>>], mem |-> <<>>]

(* The machine after each instruction of s, and after them all.            *)
Trace(s) == LET after[n \in 0 .. Len(s)] == IF n = 0 THEN Entry ELSE Execute(after[n - 1], s[n])
            IN  after
Run(s) == Trace(s)[Len(s)]

(* The language has no pointers to pointers: what a load brings is not the *)
(* address of another access of the same width and register file.          *)
SameWidth(i, j) == i.op \in Loads /\ j.op \in {i.op, StoreOf[i.op]}
NoChase(s) ==
    LET after == Trace(s)
    IN  \A i, j \in DOMAIN s :
            i < j /\ SameWidth(s[i], s[j]) => after[j - 1].reg[Base(s[j])] /= after[i].reg[s[i].rd]

ASSUME BlocksAssumption ==
    /\ Blocks \subseteq Seq(Instruction) \ {<<>>}
    /\ \A s \in Blocks : NoChase(s)

-----------------------------------------------------------------------------

VARIABLES
    given,     \* the list as emitted
    insts,     \* insts_
    cur, nxt   \* cur_it, nxt_it: places in insts; one past it is end(), 0 dangles

vars == <<given, insts, cur, nxt>>

End == Len(insts) + 1

-----------------------------------------------------------------------------
(* What a pair of neighbours says of each other. *)

(* Both load, both store, a load and its store, a store and its load, of   *)
(* one width and register file.                                            *)
BothLoad(c, n)  == c.op \in Loads /\ n.op = c.op
BothStore(c, n) == c.op \in Stores /\ n.op = c.op
ThenStore(c, n) == c.op \in Loads /\ n.op = StoreOf[c.op]
ThenLoad(c, n)  == n.op \in Loads /\ c.op = StoreOf[n.op]

(* For the mutants. *)
NextRedundant_AnyOffset(c, n) ==
    \/ BothLoad(c, n)  /\ c.rd = n.rd /\ c.rs = n.rs
    \/ ThenStore(c, n) /\ c.rd = n.rs /\ c.rs = n.rt
    \/ ThenLoad(c, n)  /\ c.rs = n.rd /\ c.rt = n.rs

NextRedundant(c, n) ==
    /\ c.imm = n.imm
    /\ \/ BothLoad(c, n)  /\ c.rd = n.rd /\ c.rs = n.rs
       \/ ThenStore(c, n) /\ c.rd = n.rs /\ c.rs = n.rt
       \/ ThenLoad(c, n)  /\ c.rs = n.rd /\ c.rt = n.rs

CurRedundant(c, n) ==
    \/ BothLoad(c, n)  /\ c.rd = n.rd
    \/ BothStore(c, n) /\ c.rt = n.rt /\ c.imm = n.imm

-----------------------------------------------------------------------------

Init ==
    /\ given \in Blocks
    /\ insts = given
    /\ cur = 1
    /\ nxt = 2

(* The next use of an iterator is defined and the walk goes on. *)
Walking == cur /= 0 /\ nxt \notin {0, End}

(* The walk goes on with an iterator of an erased element.  What the build *)
(* makes of the freed list node is not modelled: the model stops here, and *)
(* no property says anything of it.                                        *)
Undefined == nxt = 0 \/ (cur = 0 /\ nxt /= End)

EraseNext_Advances ==
    /\ Walking
    /\ NextRedundant(insts[cur], insts[nxt])
    /\ insts' = RemoveAt(insts, nxt)
    /\ cur' = IF nxt > Len(insts') THEN cur ELSE nxt
    /\ nxt' = IF nxt > Len(insts') THEN nxt ELSE nxt + 1
    /\ UNCHANGED given

(* nxt_it = insts_.erase(nxt_it) *)
EraseNext ==
    /\ Walking
    /\ NextRedundant(insts[cur], insts[nxt])
    /\ insts' = RemoveAt(insts, nxt)
    /\ cur' = IF cur = nxt THEN 0 ELSE cur
    /\ UNCHANGED <<given, nxt>>

(* cur_it = insts_.erase(cur_it), which is the element after the erased    *)
(* one: cur_it catches up with nxt_it.                                     *)
EraseCur ==
    /\ Walking
    /\ ~NextRedundant(insts[cur], insts[nxt])
    /\ CurRedundant(insts[cur], insts[nxt])
    /\ insts' = RemoveAt(insts, cur)
    /\ nxt' = IF nxt = cur THEN 0 ELSE nxt - 1
    /\ UNCHANGED <<given, cur>>

Advance_NoIncrement ==
    /\ Walking
    /\ ~NextRedundant(insts[cur], insts[nxt])
    /\ ~CurRedundant(insts[cur], insts[nxt])
    /\ cur' = nxt
    /\ UNCHANGED <<given, insts, nxt>>

Advance ==
    /\ Walking
    /\ ~NextRedundant(insts[cur], insts[nxt])
    /\ ~CurRedundant(insts[cur], insts[nxt])
    /\ cur' = nxt
    /\ nxt' = nxt + 1
    /\ UNCHANGED <<given, insts>>

Next == EraseNext \/ EraseCur \/ Advance

(* One thread runs the pass. *)
Spec == Init /\ [][Next]_vars /\ WF_vars(Next)

-----------------------------------------------------------------------------

SameEffect(s, t) ==
    LET a == Run(s)
        b == Run(t)
    IN  /\ a.reg = b.reg
        /\ \A c \in DOMAIN a.mem \cup DOMAIN b.mem : Read(a, c) = Read(b, c)

(* Until an instruction has been compared with itself the block computes   *)
(* what it computed: whatever the walk erased before, in the order it did, *)
(* left every register and every memory cell with its value.               *)
NothingChanged == 0 < cur /\ cur <= nxt => SameEffect(insts, given)

(* Nothing that repeats its neighbour is left behind by a walk that comes  *)
(* to its end: the last erasure may make neighbours of two instructions    *)
(* that were not.                                                          *)
NoPairLeft ==
    nxt = End /\ cur /= 0 =>
        \A i \in 1 .. Len(insts) - 1 : ~NextRedundant(insts[i], insts[i + 1])

(* The walk ends, or is where the model stops. *)
Ends == <>(nxt = End \/ Undefined)

=============================================================================
