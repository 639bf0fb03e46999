-------------------------- MODULE MCGraphAllocation --------------------------
(***************************************************************************)
(* Up to MaxSegments segments of four registers, of which one may be a     *)
(* parameter, one a call result and one a temporary of spill code, and     *)
(* three machine registers, one of them saved by the callee.               *)
(***************************************************************************)
EXTENDS GraphAllocation

CONSTANTS par, ret, tmp, loc, Positions, MaxSegments

MCSegment == {s \in [bgn : 1 .. Positions, end : 1 .. Positions, owner : Vregs] :
                 s.bgn < s.end}

MCInputs == {S \in SUBSET MCSegment :
                /\ Cardinality(S) <= MaxSegments
                /\ \A s, t \in S : s /= t /\ s.owner = t.owner => s.bgn /= t.bgn}

(* The argument register. *)
A0 == Lowest(CallerSave)

(* A parameter wishes for the register it has (PreferWhichArg). *)
MCTraits ==
    {[fixed |-> [v \in Vregs |-> IF v \in params THEN A0 ELSE NoColor],
      wish  |-> [v \in Vregs |-> IF v \in params \cup {ret} THEN A0 ELSE NoColor],
      keep  |-> temps] : params \in SUBSET {par}, temps \in SUBSET {tmp}}
=============================================================================
