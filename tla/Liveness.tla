------------------------------ MODULE Liveness ------------------------------
(***************************************************************************)
(* Backward liveness over the basic blocks of one function, as             *)
(* RLProgress::computeLivenessInfomation computes it before the live       *)
(* intervals are built.                                                    *)
(*                                                                         *)
(* A program is the lowered function: blocks 1..N in the order of rlbbs_   *)
(* (block 1 is the entry), the successor sets, the uops of every block and *)
(* the parameter registers.  A uop is reduced to the registers it reads    *)
(* (GetOperands) and the at most one register it writes (GetResult).       *)
(*                                                                         *)
(* The iteration stops when a whole pass leaves every live_out_ at its     *)
(* size; it never looks at live_in_.  That is enough only because of the   *)
(* order in which the frontend lays blocks out, which is what              *)
(* LayoutAssumption says.                                                  *)
(***************************************************************************)
EXTENDS Integers, Sequences

CONSTANTS
    N,          \* number of basic blocks of the function
    Vregs,      \* virtual register indices
    Programs    \* the functions the pass may be given

Blocks == 1 .. N

(* A uop: what InitCalculation reads of it. *)
Uop == [ops : SUBSET Vregs, res : SUBSET Vregs]

Program == [succ   : [Blocks -> SUBSET Blocks],
            code   : [Blocks -> Seq(Uop)],
            params : SUBSET Vregs]

(* GetSequentialNodes emits a block only after a block that precedes it in *)
(* the graph, and nothing branches back to the entry block.                *)
LaidOut(p) == \A b \in Blocks :
                 /\ 1 \notin p.succ[b]
                 /\ b > 1 => \E a \in 1 .. b - 1 : b \in p.succ[a]

ASSUME SizeAssumption == N \in Nat \ {0}

ASSUME ProgramAssumption == Programs \subseteq Program

ASSUME LayoutAssumption == \A p \in Programs : LaidOut(p)

VARIABLES
    prog,       \* the function being compiled; never changes
    phase,      \* "init" -> "flow" -> "done"
    cursor,     \* the block the running loop is at
    changed,    \* the flag of the do-while loop
    liveUse, liveDef, liveIn, liveOut

vars == <<prog, phase, cursor, changed, liveUse, liveDef, liveIn, liveOut>>

-----------------------------------------------------------------------------

(* Registers already in live_def_ when the uops of b are scanned.          *)
PresetDef(b) == IF b = 1 THEN prog.params ELSE {}

(* The registers some uop of b reads before any uop of b has written them. *)
UpwardExposed(b) ==
    {v \in Vregs \ PresetDef(b) :
        \E i \in 1 .. Len(prog.code[b]) :
            /\ v \in prog.code[b][i].ops
            /\ \A j \in 1 .. i - 1 : v \notin prog.code[b][j].res}

Written(b) ==
    {v \in Vregs : \E i \in 1 .. Len(prog.code[b]) : v \in prog.code[b][i].res}

(* live_in_ of a block whose live_out_ is out.  Mutant: the difference is  *)
(* taken last.                                                             *)
Transfer_KillsUses(b, out) == (liveUse[b] \cup out) \ liveDef[b]

Transfer(b, out) == liveUse[b] \cup (out \ liveDef[b])

(* live_out_ of b after the live_in_ of its successors is added to it. *)
Gather(b) == liveOut[b] \cup UNION {liveIn[s] : s \in prog.succ[b]}

-----------------------------------------------------------------------------

(* The four sets of a block hold nothing in the first round of             *)
(* DoAssignment and whatever the round before left there in a later one.   *)
Leftover == {[b \in Blocks |-> {}], [b \in Blocks |-> Vregs]}

Init ==
    /\ prog \in Programs
    /\ phase = "init"
    /\ cursor = 1
    /\ changed = FALSE
    /\ \E old \in Leftover :
         /\ liveUse = old
         /\ liveDef = old
         /\ liveIn = old
         /\ liveOut = old

(* Mutants of InitBlock: the sets of the last round stay; the walk runs    *)
(* one block too far.                                                      *)
InitBlock_NoClear ==
    /\ phase = "init"
    /\ liveUse' = [liveUse EXCEPT ![cursor] = UpwardExposed(cursor)]
    /\ liveDef' = [liveDef EXCEPT ![cursor] = PresetDef(cursor) \cup Written(cursor)]
    /\ IF cursor < N
         THEN cursor' = cursor + 1 /\ phase' = "init"
         ELSE cursor' = N /\ phase' = "flow"
    /\ UNCHANGED <<prog, changed, liveIn, liveOut>>

InitBlock_TooFar ==
    /\ phase = "init"
    /\ liveUse' = [liveUse EXCEPT ![cursor] = UpwardExposed(cursor)]
    /\ liveDef' = [liveDef EXCEPT ![cursor] = PresetDef(cursor) \cup Written(cursor)]
    /\ liveIn' = [liveIn EXCEPT ![cursor] = {}]
    /\ liveOut' = [liveOut EXCEPT ![cursor] = {}]
    /\ IF cursor <= N
         THEN cursor' = cursor + 1 /\ phase' = "init"
         ELSE cursor' = N /\ phase' = "flow"
    /\ UNCHANGED <<prog, changed>>

(* One turn of the first loop: ClearLiveSet, SetLiveDefParams for the      *)
(* entry, InitCalculation.                                                 *)
InitBlock ==
    /\ phase = "init"
    /\ liveUse' = [liveUse EXCEPT ![cursor] = UpwardExposed(cursor)]
    /\ liveDef' = [liveDef EXCEPT ![cursor] = PresetDef(cursor) \cup Written(cursor)]
    /\ liveIn' = [liveIn EXCEPT ![cursor] = {}]
    /\ liveOut' = [liveOut EXCEPT ![cursor] = {}]
    /\ IF cursor < N
         THEN cursor' = cursor + 1 /\ phase' = "init"
         ELSE cursor' = N /\ phase' = "flow"
    /\ UNCHANGED <<prog, changed>>

(* Mutant: the flag tells only of the last block of the pass. *)
Visit_LastBlockOnly ==
    /\ phase = "flow"
    /\ cursor >= 1
    /\ liveOut' = [liveOut EXCEPT ![cursor] = Gather(cursor)]
    /\ liveIn' = [liveIn EXCEPT ![cursor] = Transfer(cursor, Gather(cursor))]
    /\ changed' = (Gather(cursor) /= liveOut[cursor])
    /\ cursor' = cursor - 1
    /\ UNCHANGED <<prog, phase, liveUse, liveDef>>

(* CalculateLiveInOut on the block the reverse walk has reached. *)
Visit ==
    /\ phase = "flow"
    /\ cursor >= 1
    /\ liveOut' = [liveOut EXCEPT ![cursor] = Gather(cursor)]
    /\ liveIn' = [liveIn EXCEPT ![cursor] = Transfer(cursor, Gather(cursor))]
    /\ changed' = (Gather(cursor) /= liveOut[cursor] \/ changed)
    /\ cursor' = cursor - 1
    /\ UNCHANGED <<prog, phase, liveUse, liveDef>>

(* Mutant: the flag is not lowered before the next pass. *)
Again_FlagStays ==
    /\ phase = "flow"
    /\ cursor = 0
    /\ changed
    /\ cursor' = N
    /\ UNCHANGED <<prog, phase, changed, liveUse, liveDef, liveIn, liveOut>>

(* Some live_out_ grew: walk again. *)
Again ==
    /\ phase = "flow"
    /\ cursor = 0
    /\ changed
    /\ changed' = FALSE
    /\ cursor' = N
    /\ UNCHANGED <<prog, phase, liveUse, liveDef, liveIn, liveOut>>

(* The loop ends; SetLiveinParams makes the parameters live at the entry,  *)
(* whether or not they are used.                                           *)
Finish ==
    /\ phase = "flow"
    /\ cursor = 0
    /\ ~changed
    /\ liveIn' = [liveIn EXCEPT ![1] = @ \cup prog.params]
    /\ phase' = "done"
    /\ UNCHANGED <<prog, cursor, changed, liveUse, liveDef, liveOut>>

Next == InitBlock \/ Visit \/ Again \/ Finish

(* computeLivenessInfomation is straight-line code of one thread. *)
Spec == Init /\ [][Next]_vars /\ WF_vars(Next)

-----------------------------------------------------------------------------

TypeOK ==
    /\ prog \in Program
    /\ phase \in {"init", "flow", "done"}
    /\ cursor \in 0 .. N
    /\ changed \in BOOLEAN
    /\ liveUse \in [Blocks -> SUBSET Vregs]
    /\ liveDef \in [Blocks -> SUBSET Vregs]
    /\ liveIn \in [Blocks -> SUBSET Vregs]
    /\ liveOut \in [Blocks -> SUBSET Vregs]

(* What liveness is, independently of how it is computed: S assigns to     *)
(* every block registers that include those it reads first and those some  *)
(* successor needs and the block does not write.                           *)
Needed(S, b) == UpwardExposed(b) \cup
                  ((UNION {S[s] : s \in prog.succ[b]}) \ (PresetDef(b) \cup Written(b)))

IsSolution(S) == \A b \in Blocks : Needed(S, b) \subseteq S[b]

(* No register is ever reported live at a block where it is not: at every  *)
(* step of the iteration, whatever the last round left behind, the sets    *)
(* lie below every solution of the equations (parameters at the entry      *)
(* aside, which Finish adds).                                              *)
NeverTooMuch ==
    \A S \in [Blocks -> SUBSET Vregs] :
        phase /= "init" /\ IsSolution(S) =>
            \A b \in Blocks :
                /\ liveIn[b] \subseteq S[b] \cup PresetDef(b)
                /\ liveOut[b] \subseteq UNION {S[s] : s \in prog.succ[b]}

(* When the loop stops, the sets solve the equations: every register some  *)
(* successor needs is in live_out_, although the termination test compared *)
(* only live_out_ sizes and each live_in_ was read by predecessors visited *)
(* before it was last computed.                                            *)
StopsAtFixpoint ==
    phase = "done" =>
        \A b \in Blocks :
            /\ \A s \in prog.succ[b] : liveIn[s] \subseteq liveOut[b]
            /\ UpwardExposed(b) \cup (liveOut[b] \ (PresetDef(b) \cup Written(b)))
                 \subseteq liveIn[b]

(* Walks over at most N blocks: more would come by a block again. *)
Walks == UNION {[1 .. n -> Blocks] : n \in 1 .. N}

IsWalk(w) == \A i \in 1 .. Len(w) - 1 : w[i + 1] \in prog.succ[w[i]]

Touches(b) == PresetDef(b) \cup Written(b)

(* v is needed at the start of b: some walk from b reads v before writing  *)
(* it.                                                                     *)
NeededOnSomeWalk(v, b) ==
    \E w \in Walks :
        /\ w[1] = b
        /\ IsWalk(w)
        /\ v \in UpwardExposed(w[Len(w)])
        /\ \A i \in 1 .. Len(w) - 1 : v \notin Touches(w[i])

(* The result of the iteration is liveness as the rest of the backend uses *)
(* the word: a register is in live_in_ exactly when execution can reach,   *)
(* without writing it, a uop that reads it.  The parameters are added at   *)
(* the entry.                                                              *)
ResultIsReachableUse ==
    phase = "done" =>
        \A b \in Blocks :
            liveIn[b] = {v \in Vregs : NeededOnSomeWalk(v, b)} \cup PresetDef(b)

(* The do-while loop of computeLivenessInfomation ends. *)
Terminates == <>(phase = "done")
=============================================================================
