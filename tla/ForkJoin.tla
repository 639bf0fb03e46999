------------------------------ MODULE ForkJoin ------------------------------
(***************************************************************************)
(* What the thread library promises to a parallel loop: threads are added, *)
(* each updates the shared total any number of times, one update at a time *)
(* and none lost, each finishes, and the loop is joined only when no       *)
(* thread is left.  Then the next loop may start.                          *)
(***************************************************************************)
EXTENDS Naturals

CONSTANT Workers

VARIABLES
    joined,  \* the creator is past the join
    active,  \* threads created and not finished
    total    \* what the threads update under the lock

vars == <<joined, active, total>>

Init == joined = FALSE /\ active = {} /\ total = 0

Fork(w) ==
    /\ ~joined
    /\ w \notin active
    /\ active' = active \cup {w}
    /\ UNCHANGED <<joined, total>>

Update(w) ==
    /\ w \in active
    /\ total' = total + 1
    /\ UNCHANGED <<joined, active>>

Finish(w) ==
    /\ w \in active
    /\ active' = active \ {w}
    /\ UNCHANGED <<joined, total>>

Join ==
    /\ ~joined
    /\ active = {}
    /\ joined' = TRUE
    /\ UNCHANGED <<active, total>>

NextLoop ==
    /\ joined
    /\ joined' = FALSE
    /\ UNCHANGED <<active, total>>

Next == Join \/ NextLoop \/ \E w \in Workers : Fork(w) \/ Update(w) \/ Finish(w)

Spec == Init /\ [][Next]_vars
=============================================================================
