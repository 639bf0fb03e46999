------------------------------- MODULE Combine -------------------------------
(***************************************************************************)
(* InstComb: an operation on the result of an operation of the same block  *)
(* becomes one operation, with the constants of both computed together.    *)
(* The instructions are changed in place, and the user lists with them.    *)
(***************************************************************************)
EXTENDS SSA

(* Constants go to the right of what commutes, then the lower address. *)
SwapOprand(f, i) ==
    LET l == i.args[1]
        r == i.args[2]
        after == (l[2] > r[2]) = f.asc
    IN  IF i.op \in Commutative /\ (IsConstant(l) \/ (IsVariable(l) /\ IsVariable(r) /\ l /= r /\ after))
        THEN [i EXCEPT !.args = <<r, l>>] ELSE i

IsZero(i, op) == i.op = op /\ i.args[2] \in {Const(0), Bool(0)}

(* Two operators with a constant each: the operator, the constant and      *)
(* whether it is on the left of the one operation that does for both, or   *)
(* <<>>.  l is the outer constant, r the inner; left says on which side    *)
(* they are.                                                               *)
Sum == {"add", "sub"}
Other(op) == IF op = "add" THEN "sub" ELSE "add"
Flod(op1, left1, l, op2, left2, r) ==
    LET sums == {op1, op2} \subseteq Sum
        agree == IF op1 = op2 THEN Wrap(l + r) ELSE Wrap(l - r)
        divides == l /= 0 /\ Rem(r, l) = 0
        op == IF left1 /\ left2 /\ op1 = "sub" THEN Other(op2) ELSE op2
    IN  CASE sums /\ ~left2 -> <<op1, agree, left1 /\ op1 = "sub">>
          [] sums /\ left2 -> <<op, IF op1 = "add" THEN Wrap(l + r) ELSE IF left1 THEN Wrap(l - r) ELSE Wrap(r - l), op = "sub">>
          [] op1 = "mul" /\ op2 = "mul" -> <<"mul", Wrap(l * r), FALSE>>
          [] op1 = "div" /\ op2 = "div" /\ ~left1 /\ ~left2 -> <<"div", Wrap(l * r), FALSE>>
          [] op1 = "div" /\ op2 = "mul" /\ ~left1 /\ ~left2 /\ r >= l /\ divides -> <<"div", Quot(r, l), FALSE>>
          [] op1 = "div" /\ op2 \in {"mul", "div"} /\ ~left1 /\ left2 /\ divides -> <<op2, Quot(r, l), op2 = "div">>
          [] OTHER -> <<>>

(* RemoveUser and InsertUser of an instruction's result in a value's list, *)
(* and a user that stays in the list of a value it does not use.           *)
Release(f, v, res) == [f EXCEPT !.unseen = @ \cup {<<res, v>>}, !.stale = @ \ {<<res, v>>}]
Enlist(f, v, res) == [f EXCEPT !.unseen = @ \ {<<res, v>>}, !.stale = @ \ {<<res, v>>}]
Linger(f, v, res) == [f EXCEPT !.stale = @ \cup ({<<res, v>>} \ f.unseen)]

Triple(f, p, y) == [Enlist(f, y, At(f, p).res) EXCEPT !.code[p[1]][p[2]] = [@ EXCEPT !.op = "mul", !.args = <<y, Const(3)>>]]

(* x + x + x and x + x * c.  A sum of three that is no sum of three loses  *)
(* its place in the user lists all the same.                               *)
Variables(f, p, l, r) ==
    LET i == At(f, p)
        x == i.args[1]
        y == i.args[2]
        combine1 == l.args = <<y, y>>
        combine2 == r.args = <<x, x>>
        free == Release(Release(f, x, i.res), y, i.res)
        more == Const(Wrap(r.args[2][2] + 1))
    IN  CASE combine1 -> IF i.op = "add" /\ l.op = "add" THEN Triple(free, p, y) ELSE free
          [] ~combine1 /\ combine2 -> IF i.op = "add" /\ r.op = "add" THEN Triple(free, p, x) ELSE free
          [] OTHER -> IF i.op = "add" /\ r.op = "mul" /\ r.args[1] = x /\ IsConstant(r.args[2])
                      THEN [Release(f, y, i.res) EXCEPT !.code[p[1]][p[2]] = [@ EXCEPT !.op = "mul", !.args = <<x, more>>]]
                      ELSE f

(* A variable and a constant, the variable the result of such another. *)
Constants(f, p, side, inner) ==
    LET i == At(f, p)
        c == 3 - side
        in == IF IsConstant(inner.args[1]) THEN 1 ELSE 2
        x == inner.args[3 - in]
        t == Flod(i.op, c = 1, i.args[c][2], inner.op, in = 1, inner.args[in][2])
        new == [i EXCEPT !.op = t[1], !.args = IF t[3] THEN <<Const(t[2]), x>> ELSE <<x, Const(t[2])>>]
        g == Linger(Enlist(Release(f, x, inner.res), x, i.res), i.args[side], i.res)
    IN  IF {IsConstant(inner.args[1]), IsConstant(inner.args[2])} /= BOOLEAN \/ t = <<>> THEN f
        ELSE SetCode(g, p[1], [g.code[p[1]] EXCEPT ![p[2]] = new])

(* A test for 0 of a test for 0 turns the inner one round, whoever else    *)
(* reads it.                                                               *)
Tests(f, i) ==
    LET q == PlaceOf(f, i.args[1])
        inner == At(f, q)
    IN  CASE inner.op \notin Compare -> f
          [] IsZero(i, "equ") /\ IsZero(inner, "equ") -> ReplaceSRC([f EXCEPT !.code[q[1]][q[2]].op = "neq"], i.res, inner.res)
          [] IsZero(i, "neq") /\ IsZero(inner, "neq") -> ReplaceSRC(f, i.res, inner.res)
          [] OTHER -> f

Linear == Sum \cup {"mul", "div"}
OneInst(f, p) ==
    LET i == At(f, p)
        near == {k \in {1, 2} : HasParent(f, i.args[k]) /\ PlaceOf(f, i.args[k])[1] = p[1] /\ At(f, PlaceOf(f, i.args[k])).op \in Linear}
        In(k) == At(f, PlaceOf(f, i.args[k]))
    IN  CASE i.op \in Compare /\ HasParent(f, i.args[1]) -> Tests(f, i)
          [] i.op \in Linear -> CASE near = {1, 2} -> Variables(f, p, In(1), In(2))
                                  [] near = {1} /\ IsConstant(i.args[2]) -> Constants(f, p, 1, In(1))
                                  [] near = {2} /\ IsConstant(i.args[1]) -> Constants(f, p, 2, In(2))
                                  [] OTHER -> f
          [] OTHER -> f

InstCombine(f) ==
    LET nodes == GetSequentialNodes(f)
        Swap(i) == IF i.op \in TwoOprand THEN SwapOprand(f, i) ELSE i
        swapped == [f EXCEPT !.code = [b \in DOMAIN @ |-> IF b \in ToSet(nodes) THEN Each(@[b], Swap) ELSE @[b]]]
        places == FlattenSeq([k \in DOMAIN nodes |-> [j \in DOMAIN f.code[nodes[k]] |-> <<nodes[k], j>>]])
    IN  EliminateUselessCode(Along(OneInst, swapped, places))

-----------------------------------------------------------------------------
(* RecursionOpt.  A function f(n) = if n ? k then 0 else e(f), with e of   *)
(* sums and products, is interpreted with f = 0, then with the result of   *)
(* that for f.  If that is 0 again, the function is taken to alternate,    *)
(* and becomes a test of n's lowest bit.                                   *)

(* One interpretation of the block's instructions; map lacks what has no   *)
(* value yet.  stop: the pattern does not fit; fail: an assertion does.    *)
Interpret(f, code, map, call, tag) ==
    LET Val(m, v) == IF IsConstant(v) \/ v[1] = "g" THEN v ELSE IF v \in DOMAIN m THEN m[v] ELSE None
        zero == Const(0)
        Sets(s, i, v) == [s EXCEPT !.map = (i.res :> v) @@ @]
        Other2(s, i, l, r) ==
            CASE i.op \in {"add", "sub"} /\ r = zero -> Sets(s, i, l)
              [] i.op = "add" /\ l = zero /\ r /= zero -> Sets(s, i, r)
              [] i.op = "sub" /\ l = r /\ r /= zero -> Sets(s, i, zero)
              [] i.op = "mul" -> IF zero \in {l, r} THEN Sets(s, i, zero) ELSE [s EXCEPT !.stop = TRUE]
              [] i.op \in {"div", "rem"} -> IF l = zero THEN Sets(s, i, zero)
                                            ELSE [s EXCEPT !.stop = TRUE, !.fail = r = zero]
              [] OTHER -> s
        Same(s, i) == \A v \in Uses(i) : Val(s.map, v) = v
        Inst2(s, i) ==
            CASE i.op = "call" -> Sets(s, i, IF i.fun = f.name THEN call ELSE i.res)
              [] i.op /= "call" /\ Same(s, i) -> Sets(s, i, i.res)
              [] OTHER -> IF i.op \in TwoOprand THEN Other2(s, i, Val(s.map, i.args[1]), Val(s.map, i.args[2]))
                          ELSE [s EXCEPT !.stop = TRUE, !.fail = TRUE]
        Step(s, i) ==
            IF s.stop \/ i.op \in Ends THEN s
            ELSE LET t == Inst2(s, i)
                 IN  IF i.op /= "call" /\ i.res = tag /\ ~t.stop THEN [t EXCEPT !.out = Val(t.map, tag)] ELSE t
    IN  Along(Step, [map |-> map, stop |-> FALSE, fail |-> FALSE, out |-> None], code)

(* The blocks that take the function's place.  The jumps to the new exit   *)
(* are created as the exit's own.                                          *)
LowestBit(f, n, odd, even) ==
    LET e == f.blk
        r == NewVar(f, "i")
        c == <<"b", f.var + 1>>
        v == <<"i", f.var + 2>>
        code == (e :> <<Inst("rem", r, <<n, Const(2)>>), Inst("neq", c, <<r, Const(0)>>), Branch(c, e + 1, e + 2)>>)
                @@ (e + 1 :> <<Jump(e + 3)>>) @@ (e + 2 :> <<Jump(e + 3)>>)
                @@ (e + 3 :> <<Phi(v, <<odd, even>>, <<e + 1, e + 2>>), Inst("ret", None, <<v>>)>>)
    IN  [f EXCEPT !.var = @ + 3, !.blk = @ + 4, !.entry = e, !.exit = e + 3, !.code = code, !.rec = FALSE,
                  !.attr = (e :> {"Entry"}) @@ (e + 1 :> {}) @@ (e + 2 :> {}) @@ (e + 3 :> {"Exit"}),
                  !.calls = @ \ {f.name}, !.edge = {<<e, e + 1>>, <<e, e + 2>>, <<e + 3, e + 3>>}]

DoSimpleRecOpt(f) ==
    LET cmp == f.code[f.entry][1]
        br == f.code[f.entry][2]
        v == End(f, f.exit).args[1]
        phi == At(f, PlaceOf(f, v))
        sound == cmp.op \in TwoOprand /\ (IsConstant(cmp.args[1]) \/ IsConstant(cmp.args[2]))
        at(b) == phi.args[IndexOf(phi.to, b)]
        lone == \A k \in DOMAIN phi.args : IsConstant(phi.args[k]) => Len(f.code[phi.to[k]]) = 1
        params == [p \in ToSet(f.params) |-> p]
        other == f.code[br.to[2]]
        tag == at(br.to[2])
        one == Interpret(f, other, params, Const(0), tag)
        two == Interpret(f, other, one.map, one.out, tag)
    IN  CASE Len(GetSequentialNodes(f)) /= 4 \/ Len(f.code[f.entry]) /= 2 -> f
          [] OTHER ->
             CASE ~sound -> Fail(f, "RecursionOpt")
               [] sound /\ (Cardinality(Succs(f, f.entry)) /= 2 \/ Cardinality(Preds(f, f.exit)) /= 2 \/ ~HasParent(f, v)) -> f
               [] OTHER ->
                  CASE ~IsPhi(phi) \/ (\A k \in DOMAIN phi.args : IsVariable(phi.args[k])) \/ ~lone \/ IsVariable(cmp.args[2]) -> f
                    [] OTHER ->
                       CASE ToSet(br.to) /= ToSet(phi.to) -> Fail(f, "null")
                         [] at(br.to[1]) /= Const(0) \/ one.stop \/ two.stop \/ two.out /= Const(0) ->
                               IF at(br.to[1]) = Const(0) /\ (one.fail \/ (~one.stop /\ two.fail)) THEN Fail(f, "RecursionOpt") ELSE f
                         [] OTHER -> LowestBit(f, cmp.args[1], Const(0), one.out)

DoRecursionOpt(unit, f) ==
    LET calls == {At(f, p) : p \in {q \in Places(f) : At(f, q).op = "call"}}
        effect == \E i \in calls : IF i.fun = f.name THEN f.side ELSE IF i.fun \in DOMAIN unit.fun THEN unit.fun[i.fun].side ELSE i.fun = "getint"
        tail == \E p \in f.tail : At(f, p).fun = f.name
    IN  IF ~f.rec \/ ~f.ret \/ (\E p \in ToSet(f.params) : p[1] = "p") \/ effect \/ tail THEN f ELSE DoSimpleRecOpt(f)

=============================================================================
