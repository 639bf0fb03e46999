-------------------------------- MODULE Sweep --------------------------------
(***************************************************************************)
(* The line sweep of RLPlanner::GraphAllocation that turns live segments   *)
(* into edges of the interference graph.  One register class is modelled;  *)
(* the code repeats the same loop for integer and float registers.         *)
(*                                                                         *)
(* Segments leave a priority queue by the position where they begin.  The  *)
(* segments still open are kept in a heap ordered by end; those that end   *)
(* at or before the current position are popped, and the owner of every    *)
(* other one is connected to the owner of the segment taken.               *)
(***************************************************************************)
EXTENDS VirtualRegisters, Integers

(* MakeSeg drops empty segments, so a segment has at least one position.   *)
Segment == {s \in [bgn : Nat, end : Nat, owner : Vregs] : s.bgn < s.end}

VARIABLES
    segments,   \* what the sweep was given; never changes
    pending,    \* ipq: segments not yet taken
    active,     \* irpq: segments taken and not yet popped
    conn        \* edges of the graph, as pairs in both directions

sweepVars == <<segments, pending, active, conn>>

(* [bgn, end) of both contain a common position. *)
Overlap(s, t) == s.bgn < t.end /\ t.bgn < s.end

(* Mutant: a segment that ends one position later is popped as well.       *)
StillOpen_EndsLater(s) == {a \in active : a.end > s.bgn + 1}

(* Segments of the heap that are still open when s begins. *)
StillOpen(s) == {a \in active : a.end > s.bgn}

(* Connect(a, b): each node records the other. *)
Edges(owners, v) == {<<o, v>> : o \in owners} \cup {<<v, o>> : o \in owners}

-----------------------------------------------------------------------------

(* ipq is filled with the segments S; the heap and the graph are fresh. *)
Fill(S) ==
    /\ segments' = S
    /\ pending' = S
    /\ active' = {}
    /\ conn' = {}

(* s is on top of ipq; equal begins leave it in any order. *)
Take(s) ==
    /\ s \in pending
    /\ \A t \in pending : s.bgn <= t.bgn
    /\ conn' = conn \cup Edges({a.owner : a \in StillOpen(s)}, s.owner)
    /\ active' = StillOpen(s) \cup {s}
    /\ pending' = pending \ {s}
    /\ UNCHANGED segments

(* The loop runs until the queue is empty. *)
SweepNext == \E s \in pending : Take(s)

-----------------------------------------------------------------------------

SweepTypeOK ==
    /\ segments \subseteq Segment
    /\ pending \subseteq segments
    /\ active \subseteq segments
    /\ conn \subseteq Vregs \X Vregs

(* Owners of two different segments of S that overlap. *)
Conflicts(S) ==
    {p \in Vregs \X Vregs :
        \E s, t \in S : s /= t /\ Overlap(s, t) /\ p = <<s.owner, t.owner>>}

(* When the queue is empty the edges are the overlaps, all of them: no     *)
(* segment popped from the heap could still have met a later one, and none *)
(* that stayed in it denies a register to a value that was already dead.   *)
EdgesAreOverlaps == pending = {} => conn = Conflicts(segments)

=============================================================================
