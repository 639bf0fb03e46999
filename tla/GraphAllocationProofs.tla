------------------------ MODULE GraphAllocationProofs ------------------------
(***************************************************************************)
(* For every set of segments, the sweep draws exactly the edges of         *)
(* overlapping segments.  For every interference graph and every set of    *)
(* machine registers, the colouring is proper, records the s registers it  *)
(* hands out, and spills only when it must.  The order of either queue     *)
(* plays no role, and both are served to their end.                        *)
(*                                                                         *)
(* The lemmas say what one step of either machine keeps true, whoever      *)
(* takes it: RegAllocProofs rests on them as well.  Their composition then *)
(* keeps registers with overlapping segments apart: the invariant is that  *)
(* of the sweep, that of the colouring, and that the graph coloured is the *)
(* one swept.                                                              *)
(***************************************************************************)
EXTENDS GraphAllocation, WellFoundedInduction, FiniteSetTheorems, TLAPS


Swept == segments \ pending

(* What was taken began no later than what is pending. *)
InOrder == \A s \in Swept : \A t \in pending : s.bgn <= t.bgn

(* A segment popped from the heap ends before anything pending begins. *)
PoppedAreOver == \A s \in Swept \ active : \A t \in pending : s.end <= t.bgn

(* The heap holds only taken segments. *)
HeapIsTaken == active \subseteq Swept

(* The edges drawn so far are the overlaps of the segments taken so far. *)
EdgesSoFar == conn = Conflicts(Swept)

SweepInv == SweepTypeOK /\ InOrder /\ PoppedAreOver /\ HeapIsTaken /\ EdgesSoFar

-----------------------------------------------------------------------------

LEMMA NothingSwept ==
    ASSUME segments \subseteq Segment, pending = segments, active = {}, conn = {}
    PROVE  SweepInv
<1>1. Swept = {}
    BY DEF Swept
<1>2. Conflicts({}) = {}
    BY DEF Conflicts
<1> QED
    BY <1>1, <1>2 DEF SweepTypeOK, SweepInv, InOrder, PoppedAreOver, HeapIsTaken, EdgesSoFar

LEMMA FillInv ==
    ASSUME NEW S, S \subseteq Segment, Fill(S)
    PROVE  SweepInv'
<1>1. Swept' = {}
    BY DEF Fill, Swept
<1>2. Conflicts({})' = {}
    BY DEF Conflicts
<1> QED
    BY <1>1, <1>2 DEF Fill, SweepTypeOK, SweepInv, InOrder, PoppedAreOver, HeapIsTaken, EdgesSoFar

(* Taking s adds to the overlaps exactly those of s with the open segments *)
(* of the heap.                                                            *)
LEMMA TakeAddsOverlaps ==
    ASSUME SweepInv, NEW s \in pending, \A t \in pending : s.bgn <= t.bgn
    PROVE  Conflicts(Swept \cup {s}) =
             Conflicts(Swept) \cup Edges({a.owner : a \in StillOpen(s)}, s.owner)
<1>1. \A t \in segments : t.bgn \in Int /\ t.end \in Int /\ t.bgn < t.end /\ t.owner \in Vregs
    BY DEF SweepInv, SweepTypeOK, Segment
<1>2. s \in segments /\ s \notin Swept /\ Swept \subseteq segments
    BY DEF SweepInv, SweepTypeOK, Swept
<1>3. \A a \in Swept : Overlap(a, s) <=> a \in StillOpen(s)
  <2> SUFFICES ASSUME NEW a \in Swept PROVE Overlap(a, s) <=> a \in StillOpen(s)
      OBVIOUS
  <2>1. a.bgn <= s.bgn
      BY DEF SweepInv, InOrder
  <2>2. Overlap(a, s) <=> a.end > s.bgn
      BY <1>1, <1>2, <2>1 DEF Overlap
  <2>3. a \notin active => a.end <= s.bgn
      BY DEF SweepInv, PoppedAreOver
  <2> QED
      BY <1>1, <1>2, <2>2, <2>3 DEF StillOpen
<1>4. \A a, b : Overlap(a, b) <=> Overlap(b, a)
    BY DEF Overlap
<1>5. StillOpen(s) \subseteq Swept
    BY DEF SweepInv, HeapIsTaken, StillOpen
<1>6. ASSUME NEW v \in Vregs, NEW w \in Vregs
      PROVE  <<v, w>> \in Conflicts(Swept \cup {s}) <=>
               <<v, w>> \in Conflicts(Swept)
                 \cup Edges({a.owner : a \in StillOpen(s)}, s.owner)
  <2>1. ASSUME <<v, w>> \in Conflicts(Swept \cup {s}), <<v, w>> \notin Conflicts(Swept)
        PROVE  <<v, w>> \in Edges({a.owner : a \in StillOpen(s)}, s.owner)
    <3>1. PICK a, b \in Swept \cup {s} :
              a /= b /\ Overlap(a, b) /\ a.owner = v /\ b.owner = w
        BY <2>1 DEF Conflicts
    <3>2. ~(a \in Swept /\ b \in Swept)
        BY <2>1, <3>1 DEF Conflicts
    <3>3. CASE a = s
        BY <1>3, <1>4, <3>1, <3>3 DEF Edges
    <3>4. CASE b = s
        BY <1>3, <3>1, <3>4 DEF Edges
    <3> QED
        BY <3>1, <3>2, <3>3, <3>4
  <2>2. ASSUME <<v, w>> \in Edges({a.owner : a \in StillOpen(s)}, s.owner)
        PROVE  <<v, w>> \in Conflicts(Swept \cup {s})
    <3>1. PICK a \in StillOpen(s) : \/ v = a.owner /\ w = s.owner
                                    \/ v = s.owner /\ w = a.owner
        BY <2>2 DEF Edges
    <3>2. a \in Swept /\ a /= s /\ Overlap(a, s) /\ Overlap(s, a)
        BY <1>2, <1>3, <1>4, <1>5
    <3> QED
        BY <3>1, <3>2 DEF Conflicts
  <2>3. <<v, w>> \in Conflicts(Swept) => <<v, w>> \in Conflicts(Swept \cup {s})
      BY DEF Conflicts
  <2> QED
      BY <2>1, <2>2, <2>3
<1>7. /\ Conflicts(Swept \cup {s}) \subseteq Vregs \X Vregs
      /\ Conflicts(Swept) \subseteq Vregs \X Vregs
      /\ Edges({a.owner : a \in StillOpen(s)}, s.owner) \subseteq Vregs \X Vregs
    BY <1>1, <1>2, <1>5 DEF Conflicts, Edges
<1> DEFINE Drawn == Conflicts(Swept) \cup Edges({a.owner : a \in StillOpen(s)}, s.owner)
<1>8. Drawn \subseteq Vregs \X Vregs
    BY <1>7
<1>9. \A v \in Vregs : \A w \in Vregs :
          <<v, w>> \in Conflicts(Swept \cup {s}) <=> <<v, w>> \in Drawn
    BY <1>6
<1> HIDE DEF Drawn
<1>10. Conflicts(Swept \cup {s}) = Drawn
    BY <1>7, <1>8, <1>9
<1> QED
    BY <1>10 DEF Drawn

(* One step of the sweep preserves the invariant. *)
LEMMA TakeStep ==
    ASSUME SweepInv, NEW s \in pending, Take(s)
    PROVE  SweepInv'
<1>1. \A t \in segments : t.bgn \in Int /\ t.end \in Int
    BY DEF SweepInv, SweepTypeOK, Segment
<1>2. \A t \in pending : s.bgn <= t.bgn
    BY DEF Take
<1>3. s \in segments /\ Swept' = Swept \cup {s} /\ Swept \subseteq segments
    BY DEF Take, SweepInv, SweepTypeOK, Swept
<1>4. InOrder'
    BY <1>2, <1>3 DEF Take, SweepInv, InOrder
<1>5. PoppedAreOver'
  <2> SUFFICES ASSUME NEW a \in Swept' \ active', NEW t \in pending'
               PROVE  a.end <= t.bgn
      BY DEF PoppedAreOver
  <2>1. t \in pending /\ t \in segments /\ s.bgn <= t.bgn
      BY <1>2 DEF Take, SweepInv, SweepTypeOK
  <2>2. a \in Swept /\ a \notin StillOpen(s)
      BY <1>3 DEF Take
  <2>3. CASE a \in active
    <3>1. a.end <= s.bgn
        BY <1>1, <1>3, <2>2, <2>3 DEF StillOpen
    <3> QED
        BY <1>1, <1>3, <2>1, <2>2, <3>1
  <2>4. CASE a \notin active
      BY <2>1, <2>2, <2>4 DEF SweepInv, PoppedAreOver
  <2> QED
      BY <2>3, <2>4
<1>6. HeapIsTaken'
    BY <1>3 DEF Take, SweepInv, HeapIsTaken, StillOpen
<1>7. EdgesSoFar'
  <2>1. Conflicts(Swept)' = Conflicts(Swept')
      BY DEF Conflicts, Overlap
  <2>2. Conflicts(Swept \cup {s}) =
          conn \cup Edges({a.owner : a \in StillOpen(s)}, s.owner)
      BY <1>2, TakeAddsOverlaps DEF SweepInv, EdgesSoFar
  <2> QED
      BY <1>3, <2>1, <2>2 DEF Take, EdgesSoFar
<1>8. SweepTypeOK'
  <2>1. conn' \subseteq Vregs \X Vregs
      BY <1>7 DEF EdgesSoFar, Conflicts
  <2> QED
      BY <2>1 DEF Take, SweepInv, SweepTypeOK, StillOpen
<1> QED
    BY <1>4, <1>5, <1>6, <1>7, <1>8 DEF SweepInv

LEMMA SweepNextInv == SweepInv /\ [SweepNext]_sweepVars => SweepInv'
<1> SUFFICES ASSUME SweepInv, UNCHANGED sweepVars PROVE SweepInv'
    BY TakeStep DEF SweepNext
<1> QED
    BY DEF sweepVars, SweepInv, SweepTypeOK, InOrder, PoppedAreOver, HeapIsTaken, EdgesSoFar, Swept, Conflicts

(* The sweep never connects registers whose segments are disjoint, at any  *)
(* time; at its end two registers are connected exactly when two of their  *)
(* segments overlap.                                                       *)
LEMMA SweepInvSuffices == SweepInv => EdgesAreOverlaps
    BY DEF SweepInv, EdgesSoFar, EdgesAreOverlaps, Conflicts, Swept

-----------------------------------------------------------------------------
(* Colouring. *)


(* A parameter has its arrival register from the start and to the end. *)
FixedKept ==
    \A n \in graph.nodes : graph.fixed[n] /= NoColor => color[n] = graph.fixed[n]

(* A node waits without a colour; once served it has one, is spilled, or   *)
(* ended the compilation.                                                  *)
Served ==
    /\ \A n \in todo : graph.fixed[n] = NoColor => color[n] = NoColor
    /\ \A n \in graph.nodes \ todo :
          color[n] /= NoColor \/ n \in spills \/ outcome = "panic"

ColorInv ==
    /\ ColorTypeOK
    /\ WellFormed(graph)
    /\ FixedKept
    /\ Served
    /\ ProperColoring
    /\ CalleeSavedRecorded
    /\ SpillOnlyUnderPressure
    /\ OkMeansAllColored

-----------------------------------------------------------------------------

(* Every non-empty set of numbers has a smallest one.                      *)
LEMMA LeastExists ==
    ASSUME NEW S \in SUBSET Nat, S /= {}
    PROVE  \E r \in S : \A q \in S : r <= q
<1> DEFINE Less == {p \in Nat \X Nat : p[1] < p[2]}
<1>1. IsWellFoundedOn(Less, Nat)
    BY NatLessThanWellFounded, Zenon DEF OpToRel
<1>2. \A q, r \in Nat : q < r => <<q, r>> \in Less
    OBVIOUS
<1> HIDE DEF Less
<1>3. PICK r \in S : \A q \in S : ~(<<q, r>> \in Less)
    BY <1>1, WFMin
<1>4. ASSUME NEW q \in S PROVE r <= q
  <2>1. q \in Nat /\ r \in Nat
      OBVIOUS
  <2>2. ~(q < r)
      BY <1>2, <1>3, <2>1
  <2> QED
      BY <2>1, <2>2
<1> QED
    BY <1>4

(* So begin() of a candidate set is a member of it.                        *)
LEMMA LowestIsMember ==
    ASSUME NEW S \in SUBSET Nat, S /= {}
    PROVE  Lowest(S) \in S
BY LeastExists DEF Lowest

LEMMA RegsAreNaturals == Regs \subseteq Nat /\ NoColor \notin Regs
    BY RegsAssumption DEF Regs

(* The register GiveFree picks is one, and no neighbour has it. *)
LEMMA FreeRegister ==
    ASSUME NEW n, Candidates(n) /= {}
    PROVE  /\ Lowest(Candidates(n)) \in Regs
           /\ Lowest(Candidates(n)) \notin Taken(n)
<1>1. Candidates(n) \subseteq Regs \ Taken(n)
    BY DEF Candidates, Regs
<1>2. Lowest(Candidates(n)) \in Candidates(n)
    BY <1>1, RegsAreNaturals, LowestIsMember
<1> QED
    BY <1>1, <1>2

(* Before the graph is there, nothing can be wrong with it. *)
LEMMA ColorIdleInv == Idle => ColorInv
<1> SUFFICES ASSUME Idle PROVE ColorInv
    OBVIOUS
<1>1. NoGraph \in Graph /\ NoGraph.nodes = {}
    BY DEF NoGraph, Graph
<1>2. NoGraph.fixed \in [Vregs -> Regs \cup {NoColor}]
    BY DEF NoGraph
<1> QED
    BY <1>1, <1>2
       DEF Idle, ColorInv, ColorTypeOK, WellFormed, FixedKept, Served, ProperColoring,
           CalleeSavedRecorded, SpillOnlyUnderPressure, OkMeansAllColored

(* The colouring may start from any well-formed graph. *)
LEMMA ColorStartInv ==
    ASSUME NEW g \in Graph, WellFormed(g), used \subseteq Regs, Start(g)
    PROVE  ColorInv'
<1>1. \A n \in g.nodes : n \in Vregs /\ g.fixed[n] \in CallerSave \cup {NoColor}
    BY DEF Graph
<1>2. ColorTypeOK'
  <2>1. g.fixed \in [Vregs -> Regs \cup {NoColor}]
      BY DEF Graph, Regs
  <2> QED
      BY <2>1 DEF Start, ColorTypeOK
<1>3. ProperColoring'
    BY DEF Start, ProperColoring, WellFormed
<1>4. CalleeSavedRecorded'
    BY <1>1, RegsAssumption DEF Start, CalleeSavedRecorded
<1> QED
    BY <1>2, <1>3, <1>4
       DEF Start, ColorInv, WellFormed, FixedKept, Served, SpillOnlyUnderPressure, OkMeansAllColored

(* Giving an uncoloured node a register none of its neighbours has keeps   *)
(* the colouring proper and takes nothing away from anybody.               *)
LEMMA GiveStep ==
    ASSUME ColorInv, NEW n \in graph.nodes, NEW r \in Regs,
           color[n] = NoColor, r \notin Taken(n),
           Give(n, r), graph' = graph, spills' = spills
    PROVE  /\ color' \in [Vregs -> Regs \cup {NoColor}]
           /\ color'[n] = r
           /\ \A m \in graph.nodes : m /= n => color'[m] = color[m]
           /\ ProperColoring'
           /\ SpillOnlyUnderPressure'
<1>1. color \in [Vregs -> Regs \cup {NoColor}] /\ graph.nodes \subseteq Vregs
      /\ \A m \in graph.nodes : graph.adj[m] \subseteq graph.nodes
    BY DEF ColorInv, ColorTypeOK, Graph, WellFormed
<1>2. r /= NoColor
    BY RegsAreNaturals
<1>3. color' \in [Vregs -> Regs \cup {NoColor}] /\ color'[n] = r
      /\ \A m \in Vregs : m /= n => color'[m] = color[m]
    BY <1>1 DEF Give
<1>4. \A m \in graph.adj[n] : color[m] /= r
    BY <1>2 DEF Taken
<1>5. ProperColoring'
  <2> SUFFICES ASSUME NEW a \in graph.nodes, NEW b \in graph.adj[a],
                      a /= b, color'[a] /= NoColor
               PROVE  color'[a] /= color'[b]
      BY DEF ProperColoring
  <2>1. b \in graph.nodes /\ a \in graph.adj[b]
      BY DEF ColorInv, WellFormed
  <2>2. CASE a = n
      BY <1>1, <1>3, <1>4, <2>1, <2>2
  <2>3. CASE b = n
      BY <1>1, <1>3, <1>4, <2>1, <2>3
  <2>4. CASE a /= n /\ b /= n
      BY <1>1, <1>3, <2>1, <2>4 DEF ColorInv, ProperColoring
  <2> QED
      BY <2>2, <2>3, <2>4
<1>6. SpillOnlyUnderPressure'
  <2> SUFFICES ASSUME NEW s \in spills PROVE Regs \subseteq Taken(s)'
      BY DEF SpillOnlyUnderPressure
  <2>1. Regs \subseteq Taken(s) /\ graph.adj[s] \subseteq graph.nodes
      BY <1>1 DEF ColorInv, ColorTypeOK, SpillOnlyUnderPressure
  <2>2. \A m \in graph.adj[s] : color[m] /= NoColor => color'[m] = color[m]
      BY <1>1, <1>3, <2>1
  <2> QED
      BY <2>1, <2>2 DEF Taken
<1> QED
    BY <1>1, <1>3, <1>5, <1>6

(* Steps that leave every colour alone. *)
LEMMA ColorsKept ==
    ASSUME ColorInv, UNCHANGED <<graph, color>>
    PROVE  ProperColoring' /\ FixedKept' /\ WellFormed(graph)'
BY DEF ColorInv, ProperColoring, FixedKept, WellFormed

LEMMA PopStep ==
    ASSUME ColorInv, NEW n \in todo, Pop(n)
    PROVE  /\ n \in graph.nodes /\ n \in Vregs
           /\ todo' = todo \ {n} /\ graph' = graph /\ outcome = "running"
           /\ graph.fixed[n] = NoColor => color[n] = NoColor
BY DEF ColorInv, ColorTypeOK, Graph, Served, Pop

(* Serving n with a register of its own choice or of the graph's wish. *)
LEMMA ServeStep ==
    ASSUME ColorInv, NEW n \in todo, NEW r \in Regs, Pop(n), graph.fixed[n] = NoColor,
           r \notin Taken(n), Give(n, r), spills' = spills, outcome' = outcome,
           used' \subseteq Regs, used \subseteq used', r \in CalleeSave => r \in used'
    PROVE  ColorInv'
<1>1. /\ n \in graph.nodes /\ n \in Vregs /\ todo' = todo \ {n}
      /\ graph' = graph /\ outcome = "running" /\ color[n] = NoColor
    BY PopStep
<1>2. /\ color' \in [Vregs -> Regs \cup {NoColor}]
      /\ color'[n] = r
      /\ \A m \in graph.nodes : m /= n => color'[m] = color[m]
      /\ ProperColoring'
      /\ SpillOnlyUnderPressure'
    BY <1>1, GiveStep
<1>3. r /= NoColor
    BY RegsAreNaturals
<1>4. ColorTypeOK'
    BY <1>1, <1>2 DEF ColorInv, ColorTypeOK
<1>5. WellFormed(graph)' /\ FixedKept'
    BY <1>1, <1>2 DEF ColorInv, WellFormed, FixedKept
<1>6. Served'
  <2>1. todo \subseteq graph.nodes
      BY DEF ColorInv, ColorTypeOK
  <2> QED
      BY <1>1, <1>2, <1>3, <2>1 DEF ColorInv, Served
<1>7. CalleeSavedRecorded'
    BY <1>1, <1>2 DEF ColorInv, CalleeSavedRecorded
<1>8. OkMeansAllColored'
    BY <1>1 DEF OkMeansAllColored
<1> QED
    BY <1>2, <1>4, <1>5, <1>6, <1>7, <1>8 DEF ColorInv

LEMMA ColorNextInv == ColorInv /\ [ColorNext]_colorVars => ColorInv'
<1> SUFFICES ASSUME ColorInv, [ColorNext]_colorVars PROVE ColorInv'
    OBVIOUS
<1>1. ASSUME NEW n \in todo, Skip(n) PROVE ColorInv'
  <2>1. /\ n \in graph.nodes /\ todo' = todo \ {n} /\ graph' = graph
        /\ color' = color /\ used' = used /\ spills' = spills
        /\ outcome = "running" /\ outcome' = outcome /\ graph.fixed[n] /= NoColor
      BY <1>1, PopStep DEF Skip
  <2>2. color[n] /= NoColor
      BY <2>1 DEF ColorInv, FixedKept
  <2>3. Served' /\ ColorTypeOK'
      BY <2>1, <2>2 DEF ColorInv, Served, ColorTypeOK
  <2>4. CalleeSavedRecorded' /\ SpillOnlyUnderPressure' /\ OkMeansAllColored'
      BY <2>1 DEF ColorInv, CalleeSavedRecorded, SpillOnlyUnderPressure, OkMeansAllColored, Taken
  <2> QED
      BY <2>1, <2>3, <2>4, ColorsKept DEF ColorInv
<1>2. ASSUME NEW n \in todo, GiveWish(n) PROVE ColorInv'
  <2>1. n \in Vregs
      BY DEF ColorInv, ColorTypeOK, Graph
  <2>2. graph.wish[n] \in CallerSave /\ graph.wish[n] \notin Taken(n)
      BY <1>2, <2>1 DEF GiveWish, WishGranted, ColorInv, ColorTypeOK, Graph
  <2>3. graph.wish[n] \in Regs /\ graph.wish[n] \notin CalleeSave
      BY <2>2, RegsAssumption DEF Regs
  <2> QED
      BY <1>2, <2>2, <2>3, ServeStep DEF GiveWish, ColorInv, ColorTypeOK
<1>3. ASSUME NEW n \in todo, GiveFree(n) PROVE ColorInv'
  <2>1. Lowest(Candidates(n)) \in Regs /\ Lowest(Candidates(n)) \notin Taken(n)
      BY <1>3, FreeRegister DEF GiveFree
  <2> QED
      BY <1>3, <2>1, ServeStep DEF GiveFree, ColorInv, ColorTypeOK
<1>4. ASSUME NEW n \in todo, Spill(n) PROVE ColorInv'
  <2>1. /\ n \in graph.nodes /\ todo' = todo \ {n} /\ graph' = graph
        /\ color' = color /\ used' = used /\ spills' = spills \cup {n}
        /\ outcome = "running" /\ outcome' = outcome
      BY <1>4, PopStep DEF Spill
  <2>2. Regs \subseteq Taken(n)
      BY <1>4 DEF Spill, Stuck, Candidates
  <2>3. Served' /\ ColorTypeOK'
      BY <2>1 DEF ColorInv, Served, ColorTypeOK
  <2>4. CalleeSavedRecorded' /\ SpillOnlyUnderPressure' /\ OkMeansAllColored'
      BY <2>1, <2>2
         DEF ColorInv, CalleeSavedRecorded, SpillOnlyUnderPressure, OkMeansAllColored, Taken
  <2> QED
      BY <2>1, <2>3, <2>4, ColorsKept DEF ColorInv
<1>5. ASSUME NEW n \in todo, Panic(n) PROVE ColorInv'
  <2>1. /\ n \in graph.nodes /\ todo' = todo \ {n} /\ graph' = graph
        /\ color' = color /\ used' = used /\ spills' = spills /\ outcome' = "panic"
      BY <1>5, PopStep DEF Panic
  <2>2. Served' /\ ColorTypeOK'
      BY <2>1 DEF ColorInv, Served, ColorTypeOK
  <2>3. CalleeSavedRecorded' /\ SpillOnlyUnderPressure' /\ OkMeansAllColored'
      BY <2>1 DEF ColorInv, CalleeSavedRecorded, SpillOnlyUnderPressure, OkMeansAllColored, Taken
  <2> QED
      BY <2>1, <2>2, <2>3, ColorsKept DEF ColorInv
<1>6. CASE Finish
  <2>1. /\ graph' = graph /\ color' = color /\ todo' = todo /\ used' = used
        /\ spills' = spills /\ todo = {} /\ outcome = "running"
        /\ outcome' \in {"ok", "spill"} /\ (outcome' = "ok" => spills = {})
      BY <1>6 DEF Finish
  <2>2. Served' /\ ColorTypeOK'
      BY <2>1 DEF ColorInv, Served, ColorTypeOK
  <2>3. OkMeansAllColored'
      BY <2>1 DEF ColorInv, Served, OkMeansAllColored
  <2>4. CalleeSavedRecorded' /\ SpillOnlyUnderPressure'
      BY <2>1 DEF ColorInv, CalleeSavedRecorded, SpillOnlyUnderPressure, Taken
  <2> QED
      BY <2>1, <2>2, <2>3, <2>4, ColorsKept DEF ColorInv
<1>7. CASE UNCHANGED colorVars
  <2>1. Served' /\ ColorTypeOK' /\ OkMeansAllColored' /\ CalleeSavedRecorded' /\ SpillOnlyUnderPressure'
      BY <1>7 DEF colorVars, ColorInv, Served, ColorTypeOK, OkMeansAllColored, CalleeSavedRecorded,
                  SpillOnlyUnderPressure, Taken
  <2> QED
      BY <1>7, <2>1, ColorsKept DEF colorVars, ColorInv
<1> QED
    BY <1>1, <1>2, <1>3, <1>4, <1>5, <1>6, <1>7 DEF ColorNext

-----------------------------------------------------------------------------
(* One allocation: the sweep, then the colouring of the graph it drew. *)

GraphIsSwept ==
    stage = "color" =>
        /\ pending = {}
        /\ graph = SweptGraph

AllocInv ==
    /\ trait \in Traits
    /\ stage \in {"sweep", "color"}
    /\ SweepInv
    /\ ColorInv
    /\ GraphIsSwept

-----------------------------------------------------------------------------

LEMMA AllocInitInv == AllocInit => AllocInv
    BY NothingSwept, ColorIdleInv, InputAssumption DEF AllocInit, AllocInv, GraphIsSwept

(* Edges are drawn at both ends, so the graph is well formed. *)
LEMMA SweptGraphIsWellFormed ==
    ASSUME AllocInv, pending = {}
    PROVE  SweptGraph \in Graph /\ WellFormed(SweptGraph)
<1>1. trait \in Trait /\ \A v, w \in Vregs :
          v /= w /\ trait.fixed[v] /= NoColor => trait.fixed[v] /= trait.fixed[w]
    BY TraitAssumption DEF AllocInv
<1>2. SweptGraph \in Graph
    BY <1>1 DEF SweptGraph, Graph, Trait
<1>3. conn = Conflicts(segments)
    BY SweepInvSuffices DEF AllocInv, EdgesAreOverlaps
<1>4. \A v, w \in Vregs : <<v, w>> \in conn => <<w, v>> \in conn
    BY <1>3 DEF Conflicts, Overlap
<1>5. \A n, m \in Vregs : m \in SweptGraph.adj[n] => n \in SweptGraph.adj[m]
    BY <1>4 DEF SweptGraph
<1>6. \A n \in Vregs : SweptGraph.adj[n] \subseteq Vregs
    BY DEF SweptGraph
<1> QED
    BY <1>1, <1>2, <1>5, <1>6 DEF WellFormed, SweptGraph

LEMMA AllocNextInv == AllocInv /\ [AllocNext]_allocVars => AllocInv'
<1> SUFFICES ASSUME AllocInv, [AllocNext]_allocVars PROVE AllocInv'
    OBVIOUS
<1>1. CASE AllocSweep
  <2>1. SweepInv'
      BY <1>1, SweepNextInv DEF AllocSweep, AllocInv
  <2>2. ColorInv'
      BY <1>1, ColorNextInv DEF AllocSweep, AllocInv
  <2> QED
      BY <1>1, <2>1, <2>2 DEF AllocSweep, AllocInv, GraphIsSwept
<1>2. CASE AllocStart
  <2>1. SweepInv'
      BY <1>2, SweepNextInv DEF AllocStart, AllocInv
  <2>2. used \subseteq Regs
      BY DEF AllocInv, ColorInv, ColorTypeOK
  <2>3. ColorInv'
      BY <1>2, <2>2, SweptGraphIsWellFormed, ColorStartInv DEF AllocStart
  <2>4. GraphIsSwept'
      BY <1>2 DEF AllocStart, Start, GraphIsSwept, SweptGraph, sweepVars
  <2> QED
      BY <1>2, <2>1, <2>3, <2>4 DEF AllocStart, AllocInv
<1>3. CASE AllocColor
  <2>1. SweepInv'
      BY <1>3, SweepNextInv DEF AllocColor, AllocInv
  <2>2. ColorInv'
      BY <1>3, ColorNextInv DEF AllocColor, AllocInv
  <2>3. graph' = graph
      BY <1>3 DEF AllocColor, ColorNext, Skip, GiveWish, GiveFree, Spill, Panic, Finish, Pop
  <2>4. GraphIsSwept'
      BY <1>3, <2>3 DEF AllocColor, AllocInv, GraphIsSwept, SweptGraph, sweepVars
  <2> QED
      BY <1>3, <2>1, <2>2, <2>4 DEF AllocColor, AllocInv
<1>4. CASE UNCHANGED allocVars
  <2>1. SweepInv' /\ ColorInv'
      BY <1>4, SweepNextInv, ColorNextInv DEF allocVars, AllocInv
  <2> QED
      BY <1>4, <2>1 DEF allocVars, sweepVars, colorVars, AllocInv, GraphIsSwept, SweptGraph
<1> QED
    BY <1>1, <1>2, <1>3, <1>4 DEF AllocNext

LEMMA AllocInvariance == AllocSpec => []AllocInv
    BY AllocInitInv, AllocNextInv, PTL DEF AllocSpec

-----------------------------------------------------------------------------

(* Queues, heap, graph and colours keep their types. *)
THEOREM AllocTypeCorrect == AllocSpec => []AllocTypeOK
<1>1. AllocInv => AllocTypeOK
    BY DEF AllocInv, AllocTypeOK, SweepInv, ColorInv
<1> QED
    BY AllocInvariance, <1>1, PTL

(* When the sweep is over, two registers are connected exactly when two of *)
(* their segments overlap.                                                 *)
THEOREM SweepIsExact == AllocSpec => []EdgesAreOverlaps
<1>1. AllocInv => EdgesAreOverlaps
    BY SweepInvSuffices DEF AllocInv
<1> QED
    BY AllocInvariance, <1>1, PTL

(* Registers with overlapping segments never hold one machine register,    *)
(* for every set of segments, every register file, and every order of      *)
(* either queue.                                                           *)
THEOREM LiveRangesKeptApart == AllocSpec => []OverlapsKeptApart
<1>1. ASSUME AllocInv PROVE OverlapsKeptApart
  <2> SUFFICES ASSUME stage = "color", NEW s \in segments, NEW t \in segments,
                      s.owner /= t.owner, Overlap(s, t), color[s.owner] /= NoColor
               PROVE  color[s.owner] /= color[t.owner]
      BY DEF OverlapsKeptApart
  <2>1. s.owner \in Vregs /\ t.owner \in Vregs
      BY <1>1 DEF AllocInv, SweepInv, SweepTypeOK, Segment
  <2>2. graph = SweptGraph /\ conn = Conflicts(segments)
      BY <1>1, SweepInvSuffices DEF AllocInv, GraphIsSwept, EdgesAreOverlaps
  <2>3. <<s.owner, t.owner>> \in conn
      BY <2>1, <2>2 DEF Conflicts
  <2>4. s.owner \in graph.nodes /\ t.owner \in graph.adj[s.owner]
      BY <2>1, <2>2, <2>3 DEF SweptGraph
  <2> QED
      BY <1>1, <2>4 DEF AllocInv, ColorInv, ProperColoring
<1> QED
    BY AllocInvariance, <1>1, PTL

(* The prologue learns of every s register the colouring hands out. *)
THEOREM PrologueKnows == AllocSpec => []CalleeSavedRecorded
<1>1. AllocInv => CalleeSavedRecorded
    BY DEF AllocInv, ColorInv
<1> QED
    BY AllocInvariance, <1>1, PTL

(* No node is spilled while a machine register is free for it, then or     *)
(* later in the same colouring.                                            *)
THEOREM SpillsAreForced == AllocSpec => []SpillOnlyUnderPressure
<1>1. AllocInv => SpillOnlyUnderPressure
    BY DEF AllocInv, ColorInv
<1> QED
    BY AllocInvariance, <1>1, PTL
-----------------------------------------------------------------------------
(* How many steps the two loops take. *)

(* Members of the queue not yet served; the graph to be made, with all its *)
(* registers, while the sweep lasts; the check of spills_ after the last.  *)
ServingsLeft ==
    IF stage = "sweep" THEN Cardinality(pending) + Cardinality(Vregs) + 2
    ELSE Cardinality(todo) + (IF outcome = "running" THEN 1 ELSE 0)

LEMMA SegmentsStayFinite ==
    ASSUME \A S \in Inputs : IsFiniteSet(S)
    PROVE  AllocSpec => []IsFiniteSet(segments)
<1>1. AllocInit => IsFiniteSet(segments)
    BY DEF AllocInit
<1>2. IsFiniteSet(segments) /\ [AllocNext]_allocVars => IsFiniteSet(segments)'
    BY DEF AllocNext, AllocSweep, SweepNext, Take, AllocStart, AllocColor, allocVars, sweepVars
<1> QED
    BY <1>1, <1>2, PTL DEF AllocSpec

LEMMA QueuesAreFinite ==
    ASSUME AllocInv, IsFiniteSet(Vregs), IsFiniteSet(segments)
    PROVE  /\ IsFiniteSet(pending) /\ Cardinality(pending) \in Nat
           /\ IsFiniteSet(todo) /\ Cardinality(todo) \in Nat
           /\ Cardinality(Vregs) \in Nat
<1>1. pending \in SUBSET segments /\ todo \in SUBSET Vregs
    BY DEF AllocInv, SweepInv, SweepTypeOK, ColorInv, ColorTypeOK, Graph
<1>2. IsFiniteSet(pending) /\ IsFiniteSet(todo)
    BY <1>1, FS_Subset
<1> QED
    BY <1>2, FS_CardinalityType

(* Every step serves a member of a queue nothing is pushed to.             *)
LEMMA ServingsFall ==
    ASSUME AllocInv, AllocInv', IsFiniteSet(Vregs), IsFiniteSet(segments),
           IsFiniteSet(segments'), AllocNext
    PROVE  ServingsLeft' < ServingsLeft
<1>1. /\ IsFiniteSet(pending) /\ Cardinality(pending) \in Nat
      /\ IsFiniteSet(todo) /\ Cardinality(todo) \in Nat
      /\ Cardinality(Vregs) \in Nat
    BY QueuesAreFinite
<1> DEFINE runs == IF outcome = "running" THEN 1 ELSE 0
<1>2. runs \in {0, 1} /\ runs' \in {0, 1}
    OBVIOUS
<1>3. /\ stage = "sweep" => ServingsLeft = Cardinality(pending) + Cardinality(Vregs) + 2
      /\ stage = "color" => ServingsLeft = Cardinality(todo) + runs
    BY DEF ServingsLeft
<1>4. /\ stage' = "sweep" => ServingsLeft' = Cardinality(pending') + Cardinality(Vregs) + 2
      /\ stage' = "color" => ServingsLeft' = Cardinality(todo') + runs'
    BY DEF ServingsLeft
<1>5. CASE AllocSweep
  <2>1. stage = "sweep" /\ stage' = "sweep"
      BY <1>5 DEF AllocSweep
  <2>2. PICK s \in pending : pending' = pending \ {s}
      BY <1>5 DEF AllocSweep, SweepNext, Take
  <2>3. Cardinality(pending') = Cardinality(pending) - 1
      BY <1>1, <2>2, FS_RemoveElement
  <2> HIDE DEF runs
  <2> QED
      BY <1>1, <1>3, <1>4, <2>1, <2>3
<1>6. CASE AllocStart
  <2>1. stage = "sweep" /\ stage' = "color" /\ pending = {} /\ todo' = Vregs
      BY <1>6 DEF AllocStart, Start, SweptGraph
  <2> HIDE DEF runs
  <2> QED
      BY <1>1, <1>2, <1>3, <1>4, <2>1
<1>7. CASE AllocColor
  <2>1. stage = "color" /\ stage' = "color"
      BY <1>7 DEF AllocColor
  <2>2. \/ runs = 1 /\ \E n \in todo : todo' = todo \ {n}
        \/ runs = 1 /\ runs' = 0 /\ todo' = todo
      BY <1>7 DEF AllocColor, ColorNext, Skip, GiveWish, GiveFree, Spill, Panic, Finish, Pop
  <2> HIDE DEF runs
  <2>3. CASE \E n \in todo : todo' = todo \ {n}
    <3>1. Cardinality(todo') = Cardinality(todo) - 1
        BY <1>1, <2>3, FS_RemoveElement
    <3> QED
        BY <1>1, <1>2, <1>3, <1>4, <2>1, <2>2, <3>1
  <2>4. CASE runs = 1 /\ runs' = 0 /\ todo' = todo
      BY <1>1, <1>3, <1>4, <2>1, <2>4
  <2> QED
      BY <2>2, <2>3, <2>4
<1> QED
    BY <1>5, <1>6, <1>7 DEF AllocNext

(* Both loops come to an end however the queues order their members: every *)
(* step serves one, and there are as many as segments and registers.  That *)
(* something is served at all, Settles, is the fairness of one thread.     *)
THEOREM ServingIsBounded ==
    ASSUME IsFiniteSet(Vregs), \A S \in Inputs : IsFiniteSet(S)
    PROVE  AllocSpec => [](ServingsLeft \in Nat) /\ [][ServingsLeft' < ServingsLeft]_allocVars
<1>1. ASSUME AllocInv, IsFiniteSet(segments) PROVE ServingsLeft \in Nat
  <2>1. /\ Cardinality(pending) \in Nat /\ Cardinality(todo) \in Nat
        /\ Cardinality(Vregs) \in Nat
      BY <1>1, QueuesAreFinite
  <2> QED
      BY <2>1 DEF ServingsLeft
<1>2. ASSUME AllocInv, AllocInv', IsFiniteSet(segments), IsFiniteSet(segments)',
             [AllocNext]_allocVars
      PROVE  [ServingsLeft' < ServingsLeft]_allocVars
    BY <1>2, ServingsFall
<1> QED
    BY AllocInvariance, SegmentsStayFinite, <1>1, <1>2, PTL DEF AllocSpec
=============================================================================
