------------------------------ MODULE Coloring ------------------------------
(***************************************************************************)
(* InterferenceGraph::KempeOptimistic: registers are given to the nodes of *)
(* one interference graph, node after node, with no second try.  A node    *)
(* that finds every register taken by its neighbours is spilled, unless it *)
(* is itself a temporary of earlier spill code: then the compiler panics.  *)
(*                                                                         *)
(* The graph comes from the sweep.  Parameters that arrive in a register   *)
(* are coloured before the loop starts and keep that register.             *)
(***************************************************************************)
EXTENDS VirtualRegisters, Integers, FiniteSets

CONSTANTS
    CallerSave,     \* a and t registers
    CalleeSave,     \* s registers
    NoColor         \* the color_ of a node without one, (size_t)-1

Regs == CallerSave \cup CalleeSave

(* nodes  registers that are not on the stack                              *)
(* adj    another_ of each                                                 *)
(* fixed  arrival register of each parameter, NoColor for other nodes      *)
(* wish   PreferWhichArg: the first argument register for a call result or *)
(*        a returned value, NoColor for other nodes                        *)
(* keep   nodes that may not be spilled (SetCanSpill(false))               *)
Graph == [nodes : SUBSET Vregs,
          adj   : [Vregs -> SUBSET Vregs],
          fixed : [Vregs -> CallerSave \cup {NoColor}],
          wish  : [Vregs -> CallerSave \cup {NoColor}],
          keep  : SUBSET Vregs]

(* Connect records an edge at both ends; two parameters never arrive in    *)
(* the same register (RegisterParams).                                     *)
WellFormed(g) ==
    /\ \A n \in g.nodes : g.adj[n] \subseteq g.nodes
    /\ \A n, m \in g.nodes : m \in g.adj[n] => n \in g.adj[m]
    /\ \A n, m \in g.nodes : n /= m /\ g.fixed[n] /= NoColor => g.fixed[n] /= g.fixed[m]

ASSUME RegsAssumption ==
    /\ CallerSave \subseteq Nat
    /\ CalleeSave \subseteq Nat
    /\ CallerSave \cap CalleeSave = {}
    /\ NoColor \notin Nat

VARIABLES
    graph,      \* the graph being coloured; never changes
    color,      \* color_ of every node
    todo,       \* the priority queue
    used,       \* used_real_regs_, which the prologue saves
    spills,     \* nodes that found no register
    outcome     \* "running", then "ok", "spill" or "panic"

colorVars == <<graph, color, todo, used, spills, outcome>>

-----------------------------------------------------------------------------

(* std::set begin(): the smallest register. *)
Lowest(S) == CHOOSE r \in S : \A q \in S : r <= q

(* InterferWith: colours already given to the neighbours of n. *)
Taken(n) == {color[m] : m \in graph.adj[n]} \ {NoColor}

Degree(n) == Cardinality(graph.adj[n])

(* IGNode::operator<.  Weights only break ties, and any tie may fall       *)
(* either way.                                                             *)
Below(n, m) ==
    /\ ~(n \in graph.keep /\ m \notin graph.keep)
    /\ Degree(n) > Degree(m)

(* What the priority queue may have on top.  With temporaries and ordinary *)
(* registers mixed, operator< is not a strict weak order (a temporary is   *)
(* never below an ordinary register, whatever the degrees; an ordinary     *)
(* register of small degree is not below a temporary either), and the heap *)
(* guarantees nothing.                                                     *)
MayPop(n) ==
    \/ \A m \in todo : ~Below(n, m)
    \/ todo \cap graph.keep /= {} /\ todo \ graph.keep /= {}

-----------------------------------------------------------------------------

(* The graph object before any register is entered. *)
NoGraph == [nodes |-> {}, adj |-> [v \in Vregs |-> {}], fixed |-> [v \in Vregs |-> NoColor],
            wish |-> [v \in Vregs |-> NoColor], keep |-> {}]

Idle ==
    /\ graph = NoGraph
    /\ color = NoGraph.fixed
    /\ todo = {}
    /\ used = {}
    /\ spills = {}
    /\ outcome = "running"

(* Mutant: the flags of the round before are not reset, so the nodes that  *)
(* had a colour are taken for allocated and do not enter the queue.        *)
Start_StaleFlags(g) ==
    /\ graph' = g
    /\ color' = g.fixed
    /\ todo' = {n \in g.nodes : color[n] = NoColor}
    /\ spills' = {}
    /\ outcome' = "running"
    /\ UNCHANGED used

(* The queue is filled with the nodes of g; used_real_regs_ belongs to the *)
(* planner and keeps what earlier rounds put there.                        *)
Start(g) ==
    /\ graph' = g
    /\ color' = g.fixed
    /\ todo' = g.nodes
    /\ spills' = {}
    /\ outcome' = "running"
    /\ UNCHANGED used

(* Mutant: the top of the queue stays there. *)
Pop_Stays(n) ==
    /\ outcome = "running"
    /\ n \in todo
    /\ MayPop(n)
    /\ UNCHANGED <<graph, todo>>

Pop(n) ==
    /\ outcome = "running"
    /\ n \in todo
    /\ MayPop(n)
    /\ todo' = todo \ {n}
    /\ UNCHANGED graph

Give(n, r) == color' = [color EXCEPT ![n] = r]

(* IsAllocated: a parameter. *)
Skip(n) ==
    /\ Pop(n)
    /\ graph.fixed[n] /= NoColor
    /\ UNCHANGED <<color, used, spills, outcome>>

(* Mutant: the preferred register is not looked up among the taken ones. *)
WishGranted_Always(n) == graph.wish[n] /= NoColor

WishGranted(n) == graph.wish[n] /= NoColor /\ graph.wish[n] \notin Taken(n)

(* SetColor with the preferred argument register; used_real_regs_ is not   *)
(* told.                                                                   *)
GiveWish(n) ==
    /\ Pop(n)
    /\ graph.fixed[n] = NoColor
    /\ WishGranted(n)
    /\ Give(n, graph.wish[n])
    /\ UNCHANGED <<used, spills, outcome>>

(* Mutant: there is no second choice. *)
Candidates_CalleeOnly(n) == CalleeSave \ Taken(n)

(* PreferCalleeSave is always true; only when no s register is free may    *)
(* any register do.                                                        *)
Candidates(n) ==
    IF CalleeSave \ Taken(n) /= {} THEN CalleeSave \ Taken(n) ELSE Regs \ Taken(n)

(* Mutants: UseRealRegister is not called; it is called with the colour    *)
(* the node had before.                                                    *)
GiveFree_Unrecorded(n) ==
    /\ Pop(n)
    /\ graph.fixed[n] = NoColor
    /\ ~WishGranted(n)
    /\ Candidates(n) /= {}
    /\ Give(n, Lowest(Candidates(n)))
    /\ UNCHANGED <<used, spills, outcome>>

GiveFree_RecordsOld(n) ==
    /\ Pop(n)
    /\ graph.fixed[n] = NoColor
    /\ ~WishGranted(n)
    /\ Candidates(n) /= {}
    /\ Give(n, Lowest(Candidates(n)))
    /\ used' = used \cup {color[n]}
    /\ UNCHANGED <<spills, outcome>>

GiveFree(n) ==
    /\ Pop(n)
    /\ graph.fixed[n] = NoColor
    /\ ~WishGranted(n)
    /\ Candidates(n) /= {}
    /\ Give(n, Lowest(Candidates(n)))
    /\ used' = used \cup {Lowest(Candidates(n))}
    /\ UNCHANGED <<spills, outcome>>

Stuck(n) == graph.fixed[n] = NoColor /\ ~WishGranted(n) /\ Candidates(n) = {}

Spill(n) ==
    /\ Pop(n)
    /\ Stuck(n)
    /\ n \notin graph.keep
    /\ spills' = spills \cup {n}
    /\ UNCHANGED <<color, used, outcome>>

(* panic("allocate ... failed") *)
Panic(n) ==
    /\ Pop(n)
    /\ Stuck(n)
    /\ n \in graph.keep
    /\ outcome' = "panic"
    /\ UNCHANGED <<color, used, spills>>

(* The queue is empty: the result is whether anything was spilled. *)
Finish ==
    /\ outcome = "running"
    /\ todo = {}
    /\ outcome' = IF spills = {} THEN "ok" ELSE "spill"
    /\ UNCHANGED <<graph, color, todo, used, spills>>

ColorNext ==
    \/ \E n \in todo : Skip(n) \/ GiveWish(n) \/ GiveFree(n) \/ Spill(n) \/ Panic(n)
    \/ Finish

-----------------------------------------------------------------------------

ColorTypeOK ==
    /\ graph \in Graph
    /\ color \in [Vregs -> Regs \cup {NoColor}]
    /\ todo \subseteq graph.nodes
    /\ used \subseteq Regs
    /\ spills \subseteq graph.nodes
    /\ outcome \in {"running", "ok", "spill", "panic"}

(* Two registers that are live at once never share a machine register,     *)
(* whatever order the queue served them in and whether or not they are     *)
(* parameters.                                                             *)
ProperColoring ==
    \A n \in graph.nodes : \A m \in graph.adj[n] :
        n /= m /\ color[n] /= NoColor => color[n] /= color[m]

(* Every s register handed out is one the prologue will save; preferred    *)
(* registers go unrecorded, but only argument registers are preferred.     *)
CalleeSavedRecorded ==
    \A n \in graph.nodes : color[n] \in CalleeSave => color[n] \in used

(* A register is sent to memory only when its neighbours hold all machine  *)
(* registers between them.                                                 *)
SpillOnlyUnderPressure == \A n \in spills : Regs \subseteq Taken(n)

(* "No spill" means that every register has one, in every round: none is   *)
(* skipped on the strength of a flag or a colour of the round before.      *)
OkMeansAllColored ==
    outcome = "ok" => \A n \in graph.nodes : color[n] /= NoColor

=============================================================================
