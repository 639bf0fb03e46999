------------------------------ MODULE Dominators ------------------------------
(***************************************************************************)
(* ComputeDominanceInfo and ComputeDominanceFrontier of dominance.cpp: the *)
(* dominator sets by iteration, the tree and the frontiers.                *)
(*                                                                         *)
(* f is a function, of which only its entry and its edges matter here;     *)
(* nodes are its blocks in the order GetSequentialNodes lays them out.     *)
(* A predecessor that is not laid out has nothing in its set.              *)
(***************************************************************************)
EXTENDS Layout

SetOf(dom, b) == IF b \in DOMAIN dom THEN dom[b] ELSE {}

(* The entry is passed over. *)
IntersectPredecessorsDom(f, dom, n) ==
    IF n = f.entry THEN dom
    ELSE [dom EXCEPT ![n] = {n} \cup {m \in @ : \A p \in Preds(f, n) : m \in SetOf(dom, p)}]

(* One turn of the loop: the blocks in order, each seeing what those       *)
(* before it were just given.  The choice is of the one value there is; it *)
(* has TLC compute it once.                                                *)
IntersectAll(f, nodes, dom) ==
    LET upto[k \in 0 .. Len(nodes)] ==
            IF k = 0 THEN dom
            ELSE CHOOSE r \in {IntersectPredecessorsDom(f, d, nodes[k]) : d \in {upto[k - 1]}} : TRUE
    IN  upto[Len(nodes)]

(* Turns until nothing changes.  TurnsEnough is a bound of the model's: a  *)
(* turn that changes something takes a block out of some set.              *)
TurnsEnough(nodes) == Len(nodes) * Len(nodes)
FullSets(f, nodes) == [n \in ToSet(nodes) |-> IF n = f.entry THEN {n} ELSE ToSet(nodes)]
Turns(f, nodes) ==
    LET turn[k \in 0 .. TurnsEnough(nodes) + 1] ==
            IF k = 0 THEN FullSets(f, nodes)
            ELSE CHOOSE r \in {IntersectAll(f, nodes, d) : d \in {turn[k - 1]}} : TRUE
    IN  turn
ComputeDominatorSet(f, nodes) ==
    LET turn == Turns(f, nodes)
    IN  turn[CHOOSE k \in 0 .. TurnsEnough(nodes) : turn[k + 1] = turn[k]]

ComputeImmediateDominator(f, dom) ==
    [n \in DOMAIN dom \ {f.entry} |-> CHOOSE d \in dom[n] \ {n} : dom[d] \cup {n} = dom[n]]

Children(dom, idom) == [b \in DOMAIN dom |-> {n \in DOMAIN idom : idom[n] = b}]

(* A join is in the frontier of all from its predecessors up to, but not   *)
(* including, its immediate dominator.  Above the entry there is nothing.  *)
Above(idom, b) == IF b \in DOMAIN idom THEN idom[b] ELSE b
Ancestors(idom, p) ==
    LET up[k \in 0 .. Cardinality(DOMAIN idom)] == IF k = 0 THEN p ELSE Above(idom, up[k - 1])
    IN  up
Runners(idom, p, stop) ==
    LET up == Ancestors(idom, p)
        turns == CHOOSE k \in 0 .. Cardinality(DOMAIN idom) : up[k] = stop /\ \A j \in 0 .. k - 1 : up[j] /= stop
    IN  {up[j] : j \in 0 .. turns - 1}
ComputeDominanceFrontier(f, idom) ==
    LET joins == {n \in DOMAIN idom : Cardinality(Preds(f, n)) > 1}
    IN  [b \in DOMAIN idom \cup {f.entry} |->
            {n \in joins : \E p \in Preds(f, n) : b \in Runners(idom, p, idom[n])}]

-----------------------------------------------------------------------------
(* What it is all meant to be, in terms of walks through the graph.        *)

WalksTo(f, n) ==
    {w \in Seq({f.entry} \cup {e[2] : e \in f.edge}) :
        /\ w /= <<>> /\ w[1] = f.entry /\ w[Len(w)] = n
        /\ \A k \in 1 .. Len(w) - 1 : <<w[k], w[k + 1]>> \in f.edge}
Passes(w, d) == \E k \in 1 .. Len(w) : w[k] = d
Dominates(f, d, n) == \A w \in WalksTo(f, n) : Passes(w, d)
StrictlyDominates(f, d, n) == d /= n /\ Dominates(f, d, n)

(* The entry is laid out, so is all a laid-out block can be entered from,  *)
(* and a walk goes to each of them.                                        *)
Connected(f, nodes) ==
    /\ f.entry \in ToSet(nodes)
    /\ \A e \in f.edge : e = <<e[1], e[2]>>
    /\ \A n \in ToSet(nodes) : Preds(f, n) \subseteq ToSet(nodes) /\ WalksTo(f, n) /= {}

=============================================================================
