------------------------------- MODULE Arrays -------------------------------
(***************************************************************************)
(* PeepHole and HoistLocalArray: the passes over array addresses.  A local *)
(* array that is only filled with constants becomes a constant global, the *)
(* loads of constants at constant offsets go away, and a function computes *)
(* the address of every global array once, in its entry.                   *)
(*                                                                         *)
(* A gep has an address first and an offset last; one into an array has a  *)
(* 0 in between.                                                           *)
(***************************************************************************)
EXTENDS SSA, TLC

Parent(f, v) == At(f, PlaceOf(f, v))
IsA(f, v, op) == HasParent(f, v) /\ Parent(f, v).op = op
InLayout(f) ==
    LET nodes == GetSequentialNodes(f)
    IN  FlattenSeq([k \in DOMAIN nodes |-> [j \in DOMAIN f.code[nodes[k]] |-> <<nodes[k], j>>]])
ResultsOf(f, op) ==
    LET those == SelectSeq(InLayout(f), LAMBDA p : At(f, p).op = op)
    IN  [k \in DOMAIN those |-> At(f, those[k]).res]
Rebase(f, to) ==
    LET New(i) == IF i.op = "gep" /\ i.args[1] \in DOMAIN to THEN [i EXCEPT !.args[1] = to[@]] ELSE i
    IN  [f EXCEPT !.code = [b \in DOMAIN @ |-> Each(@[b], New)]]

-----------------------------------------------------------------------------
(* What is loaded at a constant offset from a constant array is known.     *)

PeepHoleOpt(unit, f) ==
    LET OfConstant(g, v) ==
            LET i == Parent(g, v)
                gep == Parent(g, i.args[1])
            IN  /\ IsA(g, i.args[1], "gep")
                /\ gep.args[1][1] = "g" /\ IsConstant(Last(gep.args))
                /\ unit.glb[gep.args[1][2]].kind = "constant"
        Loaded(g, v) == LET gep == Parent(g, Parent(g, v).args[1])
                        IN  Const(unit.glb[gep.args[1][2]].init[Last(gep.args)[2] + 1])
    IN  Along(LAMBDA g, v : IF OfConstant(g, v) THEN ReplaceSRC(g, v, Loaded(g, v)) ELSE g, f, ResultsOf(f, "load"))

-----------------------------------------------------------------------------
(* PeepHole4Gep.  All geps on a global array this function is noted to     *)
(* load or store start from one address computed in the entry.             *)

PreLoadGlbAddr(unit, f) ==
    LET noted == {p[1] : p \in {q \in unit.use \cup unit.def : q[2] = f.name}}
        arrays == SetToSeq({g \in noted : g[2] \in DOMAIN unit.glb /\ unit.glb[g[2]].kind /= "scalar"})
        v(k) == <<"p", f.var + k - 1>>
        geps == [k \in DOMAIN arrays |-> Inst("gep", v(k), <<arrays[k], Const(0), Const(0)>>)]
        g == Rebase(f, [a \in ToSet(arrays) |-> v(IndexOf(arrays, a))])
        code == g.code[f.entry]
    IN  [g EXCEPT !.var = @ + Len(arrays),
                  !.code[f.entry] = SelectSeq(code, IsPhi) \o geps \o SelectSeq(code, NotPhi)]

(* The geps from the array to this one. *)
RECURSIVE GepList(_, _)
GepList(f, v) == IF IsA(f, v, "gep") THEN Append(GepList(f, Parent(f, v).args[1]), v) ELSE <<>>

Skip(f, v) ==
    LET i == Parent(f, v)
    IN  [ReplaceSRC(f, v, i.args[1]) EXCEPT !.code = [b \in DOMAIN @ |-> SelectSeq(@[b], LAMBDA j : j.res /= v)]]

(* A step by 0 is left out of a chain of several, and so is a lone one     *)
(* from a pointer.  Constant steps are not added up, though there is code  *)
(* for it: all_constant is cleared whatever the offsets are.               *)
GepCombine(f, v) ==
    LET list == GepList(f, v)
        Offset(x) == Last(Parent(f, x).args)
        whole == Len(Parent(f, list[1]).args) = 3 /\ Offset(list[1]) = Const(0)
        steps == IF whole THEN Tail(list) ELSE list
        left == SelectSeq(steps, LAMBDA x : Offset(x) /= Const(0))
        g == Along(Skip, f, SelectSeq(steps, LAMBDA x : Offset(x) = Const(0)))
        lone == Parent(f, steps[1])
    IN  CASE ~IsA(f, v, "gep") -> f
          [] OTHER ->
             CASE Len(steps) > 1 /\ left /= steps -> g
               [] Len(steps) = 1 -> IF Len(lone.args) = 2 /\ lone.args[1][1] /= "g" /\ lone.args[2] = Const(0)
                                    THEN Skip(f, steps[1]) ELSE f
               [] OTHER -> f

PeepHole4Gep(unit, f) ==
    LET g == PreLoadGlbAddr(unit, f)
    IN  EliminateUselessCode(Along(GepCombine, g, ResultsOf(g, "gep")))

-----------------------------------------------------------------------------
(* HoistLocalArray.  An array qualifies when nothing but geps starts from  *)
(* it, no gep in another block or at a variable offset is stored to, and   *)
(* the geps of its own block store to an offset once, a constant, there.   *)
(* What fills it in that block, memset included, is deleted.  That nothing *)
(* is loaded before is not asked.                                          *)

RECURSIVE GepsFrom(_, _)
GepsFrom(f, values) ==
    LET next == values \cup {At(f, p).res : p \in {q \in UNION {Users(f, v) : v \in values} : At(f, q).op = "gep"}}
    IN  IF next = values THEN values ELSE GepsFrom(f, next)

SideEffect(unit, f, i) ==
    IF i.fun \in DOMAIN unit.fun THEN IF i.fun = f.name THEN f.side ELSE unit.fun[i.fun].side ELSE i.fun = "getint"

CanHoist(unit, f, a) ==
    LET node == PlaceOf(f, a)[1]
        geps == GepsFrom(f, {a}) \ {a}
        Home(v) == PlaceOf(f, v)[1] = node
        Offset(v) == Last(Parent(f, v).args)
        UsersBy(v, op) == {p \in Users(f, v) : At(f, p).op = op}
        called == \E v \in geps : \E p \in UsersBy(v, "call") : SideEffect(unit, f, At(f, p))
        Filled(v) ==
            \A p \in UsersBy(v, "store") : p[1] = node /\ IsConstant(At(f, p).args[2]) /\ UsersBy(v, "store") = {p}
    IN  /\ ~called
        /\ \A v \in geps : IF Home(v) /\ IsConstant(Offset(v)) THEN Filled(v) ELSE UsersBy(v, "store") = {}

(* The instructions to delete: the array, and, of every gep of its block   *)
(* at a constant offset, the store and the bitcasts with their one user.   *)
Fills(f, a) ==
    LET node == PlaceOf(f, a)[1]
        geps == {v \in GepsFrom(f, {a}) \ {a} : PlaceOf(f, v)[1] = node /\ IsConstant(Last(Parent(f, v).args))}
        By(op) == {p \in UNION {Users(f, v) : v \in geps} : At(f, p).op = op}
        memsets == UNION {Users(f, At(f, p).res) : p \in By("bitcast")}
    IN  [all |-> {PlaceOf(f, a)} \cup By("store") \cup By("bitcast") \cup memsets, node |-> node, stores |-> By("store"),
         one |-> \A p \in By("bitcast") : Cardinality(Users(f, At(f, p).res)) = 1]

HoistLocalArray(unit, name) ==
    LET f == unit.fun[name]
        those == SelectSeq(ResultsOf(f, "alloca"), LAMBDA a : CanHoist(unit, f, a))
        global(a) == name \o ".hoist." \o ToString(a[2])
        Fill(a) == Fills(f, a)
        Cell(a, k) ==
            LET there == {p \in Fill(a).stores : Last(Parent(f, At(f, p).args[1]).args) = Const(k - 1)}
            IN  IF there = {} THEN 0 ELSE At(f, CHOOSE p \in there : TRUE).args[2][2]
        dims(a) == [k \in DOMAIN Parent(f, a).args |-> Parent(f, a).args[k][2]]
        Array(a) == [kind |-> "constant", dims |-> dims(a), init |-> [k \in 1..FoldLeft(LAMBDA x, d : x * d, 1, dims(a)) |-> Cell(a, k)]]
        gone == UNION {Fill(a).all : a \in ToSet(those)}
        fine == \A a \in ToSet(those) : Fill(a).one /\ \A p \in Fill(a).all : p[1] = Fill(a).node
        g == Rebase(RemoveInsts(f, gone), [a \in ToSet(those) |-> <<"g", global(a)>>])
        globals == {global(a) : a \in ToSet(those)}
    IN  [unit EXCEPT !.fun[name] = IF fine THEN g ELSE Fail(g, "Hoist"),
                     !.glb = [x \in globals |-> Array(CHOOSE a \in ToSet(those) : global(a) = x)] @@ @,
                     !.use = @ \cup ({<<"g", x>> : x \in globals} \X {name})]

=============================================================================
