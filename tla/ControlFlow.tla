----------------------------- MODULE ControlFlow -----------------------------
(***************************************************************************)
(* Dead code elimination and sparse conditional constant propagation: the  *)
(* passes that change which blocks there are.                              *)
(***************************************************************************)
EXTENDS SSA

(* Blocks some phi names as incoming; a pass leaves them as they are. *)
PhiParamBlock(f) ==
    LET nodes == ToSet(GetSequentialNodes(f))
    IN  UNION {ToSet(At(f, p).to) : p \in {q \in Places(f) : q[1] \in nodes /\ IsPhi(At(f, q))}}

Without(f, b) == SetCode(f, b, Front(f.code[b]))
CombineBlkAttr(a, b) == LET all == a \cup b IN IF {"GoReturn", "Exit"} \subseteq all THEN all \ {"GoReturn"} ELSE all
OnlyTo(f, b, t) == [EndBlock(Without(f, b), b, Jump(t)) EXCEPT !.edge = @ \ {<<b, o>> : o \in Succs(f, b) \ {t}}]

(* A branch both of whose targets are one, or whose condition is constant. *)
Foldable(f, param, b) ==
    LET e == End(f, b)
    IN  /\ e.op = "branch"
        /\ \/ e.to[1] = e.to[2] /\ e.to[1] \notin param
           \/ e.args[1] = Bool(1) /\ e.to[1] \notin param
           \/ e.args[1] = Bool(0) /\ e.to[2] \notin param
FlodRedundantBranch(f, b) ==
    LET e == End(f, b) IN OnlyTo(f, b, IF e.to[1] = e.to[2] \/ e.args[1] = Bool(1) THEN e.to[1] ELSE e.to[2])

Redirect_NoEdge(f, i, j) ==
    [f EXCEPT !.code = [b \in DOMAIN @ |-> IF b \in Preds(f, i) THEN Append(Front(@[b]), Retarget(Last(@[b]), i, j)) ELSE @[b]]]

(* The predecessors of block i go to j instead. *)
Redirect(f, i, j) ==
    LET preds == Preds(f, i)
    IN  [f EXCEPT !.code = [b \in DOMAIN @ |->
                               IF b \in preds THEN Append(Front(@[b]), Retarget(Last(@[b]), i, j)) ELSE @[b]],
                  !.edge = @ \cup (preds \X {j})]

RemoveEmptyBlock(f, i, j) ==
    LET attr == [b \in DOMAIN f.attr |-> IF b \in Preds(f, i) THEN CombineBlkAttr(f.attr[b], f.attr[i]) ELSE f.attr[b]]
    IN  RemoveNodes([Redirect(f, i, j) EXCEPT !.attr = attr], {i})

CombineBlocks(f, i, j) ==
    LET both == SetCode(f, j, Front(f.code[i]) \o f.code[j])
        attr == CombineBlkAttr(f.attr[j], f.attr[i])
        moved == Redirect([both EXCEPT !.attr[j] = attr], i, j)
    IN  RemoveNodes([moved EXCEPT !.entry = IF "Entry" \in attr THEN j ELSE @], {i})

(* One block in its turn.  Whether anything changed is overwritten by every *)
(* branch that is looked at.                                               *)
OneBlock(s, param, i) ==
    IF i \in param THEN s
    ELSE LET fold == Foldable(s.f, param, i)
             f == IF fold THEN FlodRedundantBranch(s.f, i) ELSE s.f
             changed == IF End(s.f, i).op = "branch" THEN fold ELSE s.changed
             e == End(f, i)
         IN  CASE e.op = "jump" /\ Preds(f, i) /= {} /\ Len(f.code[i]) = 1 ->
                    [f |-> RemoveEmptyBlock(f, i, e.to[1]), changed |-> TRUE]
               [] e.op = "jump" /\ ~(Preds(f, i) /= {} /\ Len(f.code[i]) = 1) /\ Cardinality(Preds(f, e.to[1])) = 1 ->
                    [f |-> CombineBlocks(f, i, e.to[1]), changed |-> TRUE]
               [] OTHER -> [f |-> f, changed |-> changed]

RECURSIVE EliminateUselessControlFlow(_)
EliminateUselessControlFlow(f) ==
    LET g == EliminateUnreachableCode(f)
        param == PhiParamBlock(g)
        s == Along(LAMBDA t, i : OneBlock(t, param, i), [f |-> g, changed |-> FALSE], GetSequentialNodes(g))
    IN  IF s.changed THEN EliminateUselessControlFlow(s.f) ELSE s.f

DCE(f) == EliminateUselessControlFlow(EliminateUselessCode(f))

-----------------------------------------------------------------------------
(* SCCP.  The lattice of a value is Undefine, a constant, or Variable. *)

Undefine == <<"undefine">>
Variable == <<"variable">>
Meet(l, r) == CASE l = Undefine -> r [] r = Undefine -> l [] l = r -> l [] OTHER -> Variable

GetLattice(s, v) ==
    CASE v = None -> Variable
      [] v /= None /\ IsConstant(v) -> v
      [] OTHER -> IF v \in DOMAIN s.map THEN s.map[v] ELSE Undefine

(* A change puts the users of the value on the work list. *)
SetLattice(f, s, v, l) ==
    IF v = None \/ GetLattice(s, v) = l THEN s
    ELSE [s EXCEPT !.map = (v :> l) @@ @, !.ssa = FoldSet(LAMBDA p, list : Append(list, p), @, Users(f, v))]

EvaluateOnPhi(f, s, i) ==
    LET live == {k \in DOMAIN i.to : i.to[k] \in s.done}
    IN  SetLattice(f, s, i.res, FoldSet(LAMBDA k, l : Meet(l, GetLattice(s, i.args[k])), Undefine, live))

OneOprandLattice(s, i) ==
    LET l == GetLattice(s, i.args[1]) IN IF IsConstant(l) THEN DoUnaryFlod(i.op, l) ELSE Variable

TwoOprandLattice(s, i) ==
    LET known(v) == LET l == GetLattice(s, v) IN IF IsConstant(l) THEN l ELSE v
        r == DoBinaryFlod(i.op, known(i.args[1]), known(i.args[2]))
    IN  IF r = None THEN Variable ELSE GetLattice(s, r)

EvaluateOnAssign(f, s, i) ==
    CASE i.op = "jump" -> [s EXCEPT !.cfg = Append(@, i.to[1])]
      [] i.op = "branch" -> LET c == GetLattice(s, i.args[1])
                            IN  IF IsConstant(c) THEN [s EXCEPT !.cfg = Append(@, i.to[IF c[2] = 1 THEN 1 ELSE 2])]
                                ELSE [s EXCEPT !.cfg = @ \o i.to]
      [] IsPhi(i) -> EvaluateOnPhi(f, s, i)
      [] i.op \in OneOprand -> SetLattice(f, s, i.res, OneOprandLattice(s, i))
      [] i.op \in TwoOprand -> SetLattice(f, s, i.res, TwoOprandLattice(s, i))
      [] OTHER -> SetLattice(f, s, i.res, Variable)

(* Blocks first; instructions whose operand changed when no block waits. *)
RECURSIVE Propagate(_, _)
Propagate(f, s) ==
    IF s.cfg /= <<>>
    THEN LET b == Head(s.cfg)
             phis == SelectSeq(f.code[b], IsPhi)
             one == Along(LAMBDA t, i : EvaluateOnPhi(f, t, i), [s EXCEPT !.cfg = Tail(@)], phis)
         IN  Propagate(f, IF b \in s.done THEN one
                          ELSE Along(LAMBDA t, i : EvaluateOnAssign(f, t, i), [one EXCEPT !.done = @ \cup {b}], f.code[b]))
    ELSE IF s.ssa /= <<>>
    THEN LET p == Head(s.ssa)
             t == [s EXCEPT !.ssa = Tail(@)]
         IN  Propagate(f, IF p[1] \in s.done THEN EvaluateOnAssign(f, t, At(f, p)) ELSE t)
    ELSE s

(* Branches on constants become jumps. *)
Straighten(f, s, b) ==
    LET e == End(f, b)
        c == GetLattice(s, e.args[1])
    IN  CASE e.op /= "branch" -> f
          [] e.op = "branch" /\ e.to[1] = e.to[2] -> OnlyTo(f, b, e.to[1])
          [] e.op = "branch" /\ e.to[1] /= e.to[2] /\ IsConstant(c) -> OnlyTo(f, b, e.to[IF c[2] = 1 THEN 1 ELSE 2])
          [] OTHER -> f

(* Constants replace the values they were found for; a phi forgets the     *)
(* edges that are gone (its operands' user lists do not), and disappears   *)
(* when one is left.                                                       *)
RECURSIVE ReplaceConstants(_, _, _, _)
ReplaceConstants(f, s, b, k) ==
    IF k > Len(f.code[b]) THEN f
    ELSE LET i == f.code[b][k]
             l == GetLattice(s, i.res)
             gone == SetCode(f, b, RemoveAt(f.code[b], k))
             keep == Positions(i.to, LAMBDA j : i.to[j] \in s.done /\ i.to[j] \in Preds(f, b))
             args == Picked(i.args, keep)
             lost == {i.res} \X {v \in Uses(i) \ ToSet(args) : IsVariable(v) /\ <<i.res, v>> \notin f.unseen}
             less == [SetCode(f, b, [f.code[b] EXCEPT ![k] = Phi(i.res, args, Picked(i.to, keep))])
                         EXCEPT !.stale = @ \cup lost]
         IN  CASE IsConstant(l) -> ReplaceConstants(ReplaceSRC(gone, i.res, l), s, b, k)
               [] ~IsConstant(l) /\ IsPhi(i) /\ Len(keep) = 1 ->
                    ReplaceConstants(ReplaceSRC([gone EXCEPT !.stale = @ \cup lost], i.res, args[1]), s, b, k)
               [] ~IsConstant(l) /\ IsPhi(i) /\ Len(keep) /= 1 -> ReplaceConstants(less, s, b, k + 1)
               [] OTHER -> ReplaceConstants(IF l = Undefine THEN Fail(f, "SCCP") ELSE f, s, b, k + 1)

SCCP(f) ==
    LET vars == [p \in ToSet(f.params) |-> Variable]
        s == Propagate(f, [map |-> vars, done |-> {}, cfg |-> <<f.entry>>, ssa |-> <<>>])
        nodes == SelectSeq(GetSequentialNodes(f), LAMBDA b : b \in s.done)
        g == EliminateUnreachableCode(Along(LAMBDA t, b : Straighten(t, s, b), f, nodes))
    IN  Along(LAMBDA t, b : ReplaceConstants(t, s, b, 1), g, nodes)

=============================================================================
