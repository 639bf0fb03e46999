----------------------------- MODULE CallFrames -----------------------------
(***************************************************************************)
(* A function that calls itself, on the frames of StackFrame: prologue,    *)
(* the registers saved below sp around a call, stack arguments, epilogue.  *)
(* Caller and callee compute the same addresses from different ends.       *)
(* Memory maps the address of a word to what was stored there last.        *)
(***************************************************************************)
EXTENDS StackFrame

CONSTANTS
    MaxDepth,   \* bound: frames at once
    MaxSaves,   \* bound: caller-saved registers live over a call
    MaxCalls    \* bound: calls in one behaviour

ASSUME BoundsAssumption == MaxDepth \in Nat /\ MaxSaves \in Nat /\ MaxCalls \in Nat

VARIABLES
    sp,
    memory,     \* address of a word -> <<what, depth, index>>
    frames,     \* one for each call that has not returned
    calls,      \* calls made so far
    at          \* "planning"; then "entry" of a function, its "body", "returned"; "stopped"

runVars == <<sp, memory, frames, calls, at>>
vars == <<planVars, runVars>>

Depth == Len(frames)
Top == frames[Depth]

(* A frame: sp after the prologue, how many registers save_stack_ has      *)
(* given a slot in the block, and whether the body has written variables.  *)
Frame == [sp : Int, saves : 0 .. MaxSaves, filled : BOOLEAN]

Words(address, len) == {a \in address .. address + len - 1 : (a - address) % 4 = 0}

(* Memory m after the stores of a set of records [at, len, value].         *)
Stored(m, stores) ==
    LET written == UNION {Words(s.at, s.len) : s \in stores}
    IN  [a \in DOMAIN m \cup written |->
            IF a \in written THEN (CHOOSE s \in stores : a \in Words(s.at, s.len)).value
                             ELSE m[a]]

Holds(m, address, len, value) ==
    \A a \in Words(address, len) : a \in DOMAIN m /\ m[a] = value

Arguments == {s \in Slots : IsParam(s)}

-----------------------------------------------------------------------------

(* What a function saves on entry, relative to sp there: ra, then the      *)
(* callee-saved registers in the order of the set.                         *)
SavedAt(i) == -8 * i

Passed(place, depth) ==
    {[at |-> place + 8 * slots[s].argument, len |-> 8, value |-> <<"argument", depth, s>>] :
        s \in Arguments}

Init ==
    /\ PlanInit
    /\ sp = 0
    /\ memory = <<>>
    /\ frames = <<>>
    /\ calls = 0
    /\ at = "planning"

PlanStep ==
    /\ at = "planning"
    /\ PlanNext
    /\ UNCHANGED runVars

(* The first caller passes its arguments at sp. *)
Start ==
    /\ at = "planning"
    /\ phase = "done"
    /\ memory' = Stored(memory, Passed(sp, 1))
    /\ at' = "entry"
    /\ UNCHANGED <<sp, frames, calls>>

(* RLPlanner::Init                                                         *)
Prologue ==
    /\ at = "entry"
    /\ memory' = Stored(memory, {[at |-> sp + SavedAt(i), len |-> 8, value |-> <<"saved", Depth + 1, i>>] :
                            i \in 1 .. SaveCount})
    /\ sp' = sp - total
    /\ frames' = Append(frames, [sp |-> sp', saves |-> 0, filled |-> FALSE])
    /\ at' = "body"
    /\ UNCHANGED calls

(* The body writes every variable: arrays through their address, spilled   *)
(* registers through the stores of spill code.                             *)
Fill ==
    /\ at = "body"
    /\ ~Top.filled
    /\ memory' = Stored(memory,
          {[at |-> sp + off[s], len |-> slots[s].len, value |-> <<"variable", Depth, s>>] :
              s \in Variables \ {a.slot : a \in access}}
          \cup {[at |-> sp + a.off, len |-> slots[a.slot].len, value |-> <<"variable", Depth, a.slot>>] :
              a \in {b \in access : ~IsParam(b.slot)}})
    /\ frames' = [frames EXCEPT ![Depth].filled = TRUE]
    /\ UNCHANGED <<sp, calls, at>>

(* Mutants: room is made for the arguments only; sp is not aligned.        *)
StackTop_NoSaves(saves) == RoundUp(16, 8 * Cardinality(Arguments))

StackTop_Unrounded(saves) == 8 * saves + 8 * Cardinality(Arguments)

(* How far UopCall lowers sp around the jump. *)
StackTop(saves) == RoundUp(16, 8 * saves + 8 * Cardinality(Arguments))

(* sp at the entry of frame d, counted from the frame of its caller.       *)
SpAt(f, d) == IF d = 1 THEN 0 ELSE f[d - 1].sp - StackTop(f[d - 1].saves)

(* BeforeCall, then UopCall: registers that have a slot keep it, others    *)
(* get the next one below; arguments go to the bottom of the area.         *)
Call ==
    /\ at = "body"
    /\ Depth < MaxDepth
    /\ calls < MaxCalls
    /\ \E n \in Top.saves .. MaxSaves :
          /\ memory' = Stored(memory,
                {[at |-> sp - 8 * i, len |-> 8, value |-> <<"kept", Depth, i>>] : i \in 1 .. n}
                \cup Passed(sp - StackTop(n), Depth + 1))
          /\ sp' = sp - StackTop(n)
          /\ frames' = [frames EXCEPT ![Depth].saves = n]
    /\ calls' = calls + 1
    /\ at' = "entry"

(* RecoverCall after the last call of a block. *)
Recover ==
    /\ at = "body"
    /\ Top.saves > 0
    /\ frames' = [frames EXCEPT ![Depth].saves = 0]
    /\ UNCHANGED <<sp, memory, calls, at>>

(* RecoverBeforeRet; sp is what the addresses of the reloads start from.   *)
Epilogue ==
    /\ at = "body"
    /\ sp' = sp + total
    /\ at' = "returned"
    /\ UNCHANGED <<memory, frames, calls>>

(* The rest of UopCall, if ra leads to one.                                *)
Return ==
    /\ at = "returned"
    /\ frames' = SubSeq(frames, 1, Depth - 1)
    /\ IF Depth = 1 THEN at' = "stopped" /\ UNCHANGED sp
       ELSE at' = "body" /\ sp' = sp + StackTop(frames[Depth - 1].saves)
    /\ UNCHANGED <<memory, calls>>

RunStep ==
    /\ Start \/ Prologue \/ Fill \/ Call \/ Recover \/ Epilogue \/ Return
    /\ UNCHANGED planVars

Next == PlanStep \/ RunStep

Spec == Init /\ [][Next]_vars

-----------------------------------------------------------------------------

(* The calling convention wants sp at a multiple of 16 wherever a function *)
(* may be entered.                                                         *)
TypeOK ==
    /\ PlanTypeOK
    /\ sp \in Int
    /\ sp % 16 = 0
    /\ \A a \in DOMAIN memory : a \in Int /\ a % 4 = 0
    /\ frames \in Seq(Frame)
    /\ calls \in 0 .. MaxCalls
    /\ at \in {"planning", "entry", "body", "returned", "stopped"}

(* Whatever is called in between, a frame finds its variables, the         *)
(* registers it saved around the call and its stack arguments, the latter  *)
(* at the place computed from its own frame: no frame, save area or        *)
(* argument of another call has been laid over them.                       *)
FramesIntact ==
    \A d \in 1 .. Depth :
        /\ frames[d].filled =>
              /\ \A s \in Variables : Holds(memory, frames[d].sp + off[s], slots[s].len, <<"variable", d, s>>)
              /\ \A a \in access :
                    ~IsParam(a.slot) => Holds(memory, frames[d].sp + a.off, 4, <<"variable", d, a.slot>>)
        /\ \A i \in 1 .. frames[d].saves : Holds(memory, frames[d].sp - 8 * i, 8, <<"kept", d, i>>)
        /\ \A a \in access :
              IsParam(a.slot) => Holds(memory, frames[d].sp + a.off, 8, <<"argument", d, a.slot>>)

(* The epilogue reloads ra and every callee-saved register from where the  *)
(* prologue of the same call put them, and sp is what the caller left.     *)
ReturnsRestored ==
    at = "returned" =>
        /\ \A i \in 1 .. SaveCount : Holds(memory, sp + SavedAt(i), 8, <<"saved", Depth, i>>)
        /\ sp = SpAt(frames, Depth)

=============================================================================
