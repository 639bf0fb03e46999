----------------------------- MODULE PhiPlacement -----------------------------
(***************************************************************************)
(* InsertPhiFunction of ssa.cpp for one variable: which blocks begin with  *)
(* a phi for it, given the blocks that store to it.                        *)
(***************************************************************************)
EXTENDS Dominators

(* One turn of the loop over WorkList, which holds no block twice: those   *)
(* with a store are there from the start, the others come with their phi.  *)
(* In which order they leave makes no difference.                          *)
PlaceStep(df, defs, s) ==
    IF s.work = {} THEN s
    ELSE LET front == CHOOSE b \in s.work : TRUE
             new == df[front] \ s.phis
         IN  [work |-> (s.work \ {front}) \cup (new \ defs), phis |-> s.phis \cup new]

(* A turn for each block is all there can be.  The choice is of the one    *)
(* value there is; it has TLC compute it once.                             *)
Placing(df, defs) ==
    LET run[k \in 0 .. Cardinality(DOMAIN df)] ==
            IF k = 0 THEN [work |-> defs, phis |-> {}]
            ELSE CHOOSE r \in {PlaceStep(df, defs, s) : s \in {run[k - 1]}} : TRUE
    IN  run
PhiBlocks(df, defs) == Placing(df, defs)[Cardinality(DOMAIN df)].phis

-----------------------------------------------------------------------------
(* What it is for. *)

(* Of the blocks w enters before its last, the one at k is the last in S.  *)
LastOf(w, S, k) == k \in 1 .. Len(w) - 1 /\ w[k] \in S /\ \A j \in k + 1 .. Len(w) - 1 : w[j] \notin S

=============================================================================
