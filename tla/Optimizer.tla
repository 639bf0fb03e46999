------------------------------ MODULE Optimizer ------------------------------
(***************************************************************************)
(* The compiler from the syntax tree to the IR the back end is given: the  *)
(* front end, the localisation of globals, and Optimization's passes, one  *)
(* function after the other in the order of the source, one step a pass.   *)
(*                                                                         *)
(* Blocks are kept in sets of pointers, so that the passes go through them *)
(* by address.  addresses says which way those grow; it is chosen once.    *)
(***************************************************************************)
EXTENDS Lowering, ControlFlow, ValueNumbering, Loops, Arrays, Combine

CONSTANTS Programs,    \* the syntax trees compiled
          Inputs,      \* what getint gives first
          Steps,       \* bound on calls and rounds of a run of the source
          Fuel         \* bound on block entries of a run of the IR

ASSUME BoundsAssumption == Inputs \subseteq Int /\ Steps \in Nat /\ Fuel \in Nat

VARIABLES program, addresses,   \* what is compiled
          unit,                 \* functions and globals
          todo,                 \* functions still to be optimised, the current one first
          done                  \* how many passes the current one has been through

vars == <<program, addresses, unit, todo, done>>

Source == INSTANCE SysY

Order == <<"SideEffect", "Dominance", "SSA", "DVNT", "LoopAnalysis", "LoopInvariant", "LoopMemset", "LoopUnrolling", "SCCP",
           "DCE", "DCE", "PeepHole4Gep", "HoistLocalArray", "PeepHoleOpt", "PeepHole4Gep", "DVNT", "PeepHoleOpt", "DCE",
           "InstCombine", "DVNT", "DynamicUnrolling", "DCE", "TailCall", "RecursionOpt", "EDP">>

Name(k) == program[k][2]
InSource(u) == SelectSeq([k \in DOMAIN program |-> Name(k)], LAMBDA x : x \in DOMAIN u.fun)

(* done is -2 before anything is compiled, -1 before the globals are.      *)
Init == /\ program \in Programs
        /\ addresses \in BOOLEAN
        /\ unit = NoUnit /\ todo = <<>> /\ done = -2

Lower == /\ done = -2
         /\ unit' = Compile(program, addresses)
         /\ done' = -1
         /\ UNCHANGED <<program, addresses, todo>>

Localise == /\ done = -1
            /\ unit' = GlbValueLocalization(unit)
            /\ todo' = InSource(unit)
            /\ done' = 0
            /\ UNCHANGED <<program, addresses>>

Current == Head(todo)
F == unit.fun[Current]

(* The last pass of a function brings up the next. *)
Turn(pass) == /\ done >= 0 /\ todo /= <<>> /\ Order[done + 1] = pass
              /\ IF done + 1 = Len(Order) THEN done' = 0 /\ todo' = Tail(todo) ELSE done' = done + 1 /\ UNCHANGED todo
              /\ UNCHANGED <<program, addresses>>
OnUnit(pass, u) == Turn(pass) /\ unit' = u
OnFunction(pass, g) == OnUnit(pass, [unit EXCEPT !.fun[Current] = g])

RunSideEffect == OnUnit("SideEffect", SideEffectAnalysis(unit, Current))
RunDominance == OnFunction("Dominance", DominanceAnalysis(F))
RunSSA == OnFunction("SSA", SSAConstruction(F))
RunDVNT == OnFunction("DVNT", DVNT(unit, F))
RunLoopAnalysis == OnFunction("LoopAnalysis", LoopAnalysis(F))
RunLoopInvariant == OnFunction("LoopInvariant", LoopInvariant(F))
RunLoopMemset == OnFunction("LoopMemset", LoopMemset(F, unit))
RunLoopUnrolling == OnFunction("LoopUnrolling", LoopUnrolling(F))
RunSCCP == OnFunction("SCCP", SCCP(F))
RunDCE == OnFunction("DCE", DCE(F))
RunPeepHole4Gep == OnFunction("PeepHole4Gep", PeepHole4Gep(unit, F))
RunHoistLocalArray == OnUnit("HoistLocalArray", HoistLocalArray(unit, Current))
RunPeepHoleOpt == OnFunction("PeepHoleOpt", PeepHoleOpt(unit, F))
RunInstCombine == OnFunction("InstCombine", InstCombine(F))
RunDynamicUnrolling == OnFunction("DynamicUnrolling", DynamicUnrolling(F))
RunTailCall == OnFunction("TailCall", TailCallAnalysis(F))
RunRecursion == OnFunction("RecursionOpt", DoRecursionOpt(unit, F))
RunEDP == OnUnit("EDP", EliminateDeadParameter(unit, Current))

Next == \/ Lower \/ Localise \/ RunSideEffect \/ RunDominance \/ RunSSA \/ RunDVNT \/ RunLoopAnalysis \/ RunLoopInvariant
        \/ RunLoopMemset \/ RunLoopUnrolling \/ RunSCCP \/ RunDCE \/ RunPeepHole4Gep \/ RunHoistLocalArray \/ RunPeepHoleOpt
        \/ RunInstCombine \/ RunDynamicUnrolling \/ RunTailCall \/ RunRecursion \/ RunEDP

Spec == Init /\ [][Next]_vars

-----------------------------------------------------------------------------
Compiled == done >= -1
AllFunctions == {unit.fun[n] : n \in DOMAIN unit.fun}
Optimised == {unit.fun[n] : n \in DOMAIN unit.fun \ ToSet(todo)}

(* Every pass leaves a program that does what the source says: what main   *)
(* returns and what it reads and prints, in order, for every input.  This  *)
(* is what the whole compiler is for; programs whose source has no meaning *)
(* (an index out of bounds, a division by zero) are left out.              *)
SameOutcome ==
    Compiled => \A x \in Inputs :
        LET Kept(want) == want.kind = "ok" => RunMain(unit, Fuel, x) = want
        IN  Kept(Source!Outcome(program, Steps, x))

PastRecursion == DOMAIN unit.fun \ {todo[k] : k \in {j \in DOMAIN todo : j = 1 => done < IndexOf(Order, "EDP") - 1}}
Jumps(g) == UNION {{b} \X ToSet(End(g, b).to) : b \in Blocks(g)}
GraphSound(g) ==
    LET live == Reach(Jumps(g), {g.entry})
    IN  /\ WellFormed(g)
        /\ g.edge \subseteq Jumps(g)
        /\ {e \in Jumps(g) : e[1] \in live} \subseteq g.edge
        /\ \A b \in live :
             /\ \A k \in DOMAIN g.code[b] : (g.code[b][k].op \in Ends) = (k = Len(g.code[b]))
             /\ \A k \in DOMAIN g.code[b] : LET i == g.code[b][k] IN IsPhi(i) =>
                   /\ \A j \in 1..(k - 1) : IsPhi(g.code[b][j])
                   /\ ToSet(i.to) = Preds(g, b) /\ Len(i.to) = Cardinality(Preds(g, b)) /\ Len(i.args) = Len(i.to)

LaidOut(g) ==
    LET nodes == GetSequentialNodes(g)
    IN  /\ Reach(Jumps(g), {g.entry}) \subseteq ToSet(nodes)
        /\ \A k \in DOMAIN nodes :
             /\ g.entry \notin ToSet(End(g, nodes[k]).to)
             /\ k > 1 => \E j \in 1 .. k - 1 : nodes[k] \in ToSet(End(g, nodes[j]).to)

(* The graph the passes keep in predecessors and successors is the one of  *)
(* the jumps, but for blocks no longer reached; jumps lead to blocks of    *)
(* the function; a block ends at its first jump; phis come first and have  *)
(* one operand for every predecessor.                                      *)
(* RecursionOpt gives the block before the exit no edge to it: a function  *)
(* that has been through it is left out.  When the back end lays a         *)
(* function out no block is lost and each comes after one that jumps to    *)
(* it, none before the entry: the iteration of liveness rests on that.     *)
GraphsMatchCode ==
    Compiled => /\ \A n \in DOMAIN unit.fun \ PastRecursion : GraphSound(unit.fun[n])
                /\ \A g \in Optimised : LaidOut(g)

(* Every value is set in one place, which every way to a use of it passes. *)
Around(g, b) == IF b = g.entry THEN {} ELSE Reach({e \in g.edge : b \notin {e[1], e[2]}}, {g.entry})
DefsBeforeUses(g) ==
    LET places == {p \in Places(g) : At(g, p).res /= None}
        around == [b \in Blocks(g) |-> Around(g, b)]
        Before(v, b, k) == \/ v \in ToSet(g.params)
                           \/ \E p \in places : /\ At(g, p).res = v
                                                /\ IF p[1] = b THEN p[2] < k ELSE b \notin around[p[1]]
        Seen(p, k) == LET i == At(g, p) IN IF IsPhi(i) THEN Before(i.args[k], i.to[k], Len(g.code[i.to[k]]) + 1)
                                                       ELSE Before(i.args[k], p[1], p[2])
    IN  /\ Cardinality({At(g, p).res : p \in places}) = Cardinality(places)
        /\ \A p \in Places(g) : \A k \in DOMAIN At(g, p).args : IsVariable(At(g, p).args[k]) => Seen(p, k)
StaticSingleAssignment == Compiled => \A g \in AllFunctions : DefsBeforeUses(g)

(* The dominator tree, when it has just been computed, has every block     *)
(* below the last of the blocks that all ways to it pass.                  *)
FreshTreeExact ==
    LET nodes == ToSet(GetSequentialNodes(F))
        over == [b \in nodes |-> {d \in nodes \ {b} : b \notin Around(F, d)}]
    IN  /\ \A n \in nodes : Preds(F, n) \subseteq nodes
        /\ nodes \subseteq Reach(F.edge, {F.entry})
        /\ \A b \in nodes : \A n \in nodes : n \in F.kids[b] <=> b \in over[n] /\ over[n] \ {b} \subseteq over[b]

(* The tree is computed once and walked in every round of DVNT, blocks and *)
(* edges having gone since.  It still serves: the walk from the entry      *)
(* comes to every block there is a way to, through removed ones if need    *)
(* be, and what is above a block in the tree is on every way to it.        *)
OldTreeServes ==
    LET live == Reach(F.edge, {F.entry})
        tree == UNION {{b} \X F.kids[b] : b \in DOMAIN F.kids}
    IN  /\ live \subseteq Reach(tree, {F.entry})
        /\ \A a \in live : Reach(tree, {a}) \cap live \cap Around(F, a) \subseteq {a}

(* Before SSA construction the tree is exact, before every round of value  *)
(* numbering what it says of the blocks that are left is still true.       *)
DominatorTreeRight ==
    (done >= 0 /\ todo /= <<>>) => /\ Order[done + 1] = "SSA" => FreshTreeExact
                                   /\ Order[done + 1] = "DVNT" => OldTreeServes

(* No assertion of the passes fails, and nothing they look up is missing:  *)
(* an operand's place, a dimension, the block or value a copy stands for.  *)
NoAssertionFails == \A n \in DOMAIN unit.fun : unit.fun[n].bad = {}

(* Of the two targets of a branch one is the block that follows it, in the *)
(* order the back end lays the blocks out: it panics when a branch goes    *)
(* elsewhere both ways.                                                    *)
BranchesFallThrough ==
    \A g \in (IF done >= 0 THEN Optimised ELSE {}) :
        LET nodes == GetSequentialNodes(g)
        IN  \A k \in DOMAIN nodes : End(g, nodes[k]).op = "branch" =>
                k < Len(nodes) /\ nodes[k + 1] \in ToSet(End(g, nodes[k]).to)

=============================================================================
