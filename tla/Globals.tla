------------------------------- MODULE Globals -------------------------------
(***************************************************************************)
(* The passes that look beyond one function: what a function may change    *)
(* besides its result, globals that need not be global, parameters nobody  *)
(* reads, and the calls that may be jumps.                                 *)
(***************************************************************************)
EXTENDS IR

LibSideEffect == {"getint"}

(* A store through a parameter, or through a gep that starts from it. *)
RECURSIVE GepsOf(_, _)
GepsOf(g, values) ==
    LET next == values \cup UNION {{At(g, p).res : p \in {q \in Users(g, v) : At(g, q).op = "gep"}} : v \in values}
    IN  IF next = values THEN values ELSE GepsOf(g, next)
StoredThrough(g, param) ==
    param[1] = "p" /\ \E v \in GepsOf(g, {param}) : \E p \in Users(g, v) : At(g, p).op = "store"

SideEffectAnalysis(unit, name) ==
    LET f == unit.fun[name]
        call == \E c \in f.calls : IF c \in DOMAIN unit.fun THEN unit.fun[c].side ELSE c \in LibSideEffect
        glb == \E d \in unit.def : d[2] = name /\ d[1][2] \in DOMAIN unit.glb
        arr == \E k \in DOMAIN f.params : StoredThrough(f, f.params[k])
    IN  [unit EXCEPT !.fun[name].side = call \/ glb \/ arr,
                     !.fun[name].se = [call_se_func |-> @.call_se_func \/ call, mod_glb_value |-> @.mod_glb_value \/ glb,
                                       mod_param_arr |-> @.mod_param_arr \/ arr]]

-----------------------------------------------------------------------------
(* Global value localization.  gone has the places, by function, of the    *)
(* instructions to delete, which happens when all globals were looked at.  *)

RECURSIVE AllUsers(_, _)
AllUsers(f, values) ==
    LET next == values \cup ({At(f, p).res : p \in UNION {Users(f, v) : v \in values}} \ {None})
    IN  IF next = values THEN values ELSE AllUsers(f, next)

NeverLoaded(unit, g) == /\ ~\E u \in unit.use : u[1] = g
                        /\ g \notin unit.par
Functions(pairs, g) == {p[2] : p \in {q \in pairs : q[1] = g}}
Dropped(unit, g) == [unit EXCEPT !.glb = [x \in DOMAIN @ \ {g[2]} |-> @[x]]]

(* Deleting what uses the global, and what uses that, and so on; one that  *)
(* is met twice is not there the second time.                              *)
WithoutUsers(f, g) ==
    LET values == AllUsers(f, {g})
        those == UNION {Users(f, v) : v \in values}
        twice == \E p \in those : Cardinality(Uses(At(f, p)) \cap values) > 1
    IN  IF twice THEN Fail(RemoveInsts(f, those), "GVL") ELSE RemoveInsts(f, those)

(* The global's pointers, and the loads of them, read its initial value. *)
PropagateInit(f, g, init) ==
    LET geps == {At(f, p).res : p \in Users(f, g)}
        loads == {At(f, p).res : p \in UNION {Users(f, v) : v \in geps}}
        g2 == FoldSet(LAMBDA v, h : ReplaceSRC(h, v, Const(init)), f, loads)
        Keep(i) == i.res \notin geps \cup loads
    IN  [g2 EXCEPT !.code = [b \in DOMAIN @ |-> SelectSeq(@[b], Keep)]]

(* The global becomes a variable of main. *)
Localize(f, g, init) ==
    LET a == NewVar(f, "p")
        geps == {At(f, p).res : p \in Users(f, g)}
        alloca == [Inst("alloca", a, <<>>) EXCEPT !.fun = "scalar"]
        there == [f EXCEPT !.var = @ + 1, !.code[f.entry] = <<alloca, Inst("store", None, <<a, Const(init)>>)>> \o @]
        g2 == FoldSet(LAMBDA v, h : ReplaceSRC(h, v, a), there, geps)
    IN  [g2 EXCEPT !.code = [b \in DOMAIN @ |-> SelectSeq(@[b], LAMBDA i : i.res \notin geps)]]

GlbValueLocalization(unit) ==
    LET One(u, x) ==
            LET g == <<"g", x>>
                def == Functions(u.def, g)
                use == Functions(u.use, g)
                init == u.glb[x].init[1]
                Everywhere(Op(_)) == [Dropped(u, g) EXCEPT !.fun = [n \in DOMAIN @ |-> Op(@[n])]]
            IN  CASE NeverLoaded(u, g) -> IF def = {} THEN Dropped(u, g) ELSE Everywhere(LAMBDA f : WithoutUsers(f, g))
                  [] ~NeverLoaded(u, g) /\ u.glb[x].kind = "scalar" /\ def = {} /\ use /= {} ->
                       Everywhere(LAMBDA f : PropagateInit(f, g, init))
                  [] ~NeverLoaded(u, g) /\ u.glb[x].kind = "scalar" /\ def = {"main"} /\ use = {"main"} ->
                       [Dropped(u, g) EXCEPT !.fun["main"] = Localize(@, g, init)]
                  [] OTHER -> u
    IN  Along(One, unit, SetToSeq(DOMAIN unit.glb))

-----------------------------------------------------------------------------
(* A parameter is dead when all that reads it is the function's own call,  *)
(* in the same position.  Callers lose the argument, but one that is a     *)
(* constant stays where it is.                                             *)

Active(f, k) ==
    \E p \in Users(f, f.params[k]) :
        LET i == At(f, p) IN i.op /= "call" \/ i.fun /= f.name \/ i.args[k] /= f.params[k]

EliminateDeadParameter(unit, name) ==
    LET f == unit.fun[name]
        active == {k \in DOMAIN f.params : Active(f, k)}
        Less(i) == IF i.op /= "call" \/ i.fun /= name THEN i
                   ELSE [i EXCEPT !.args = Picked(@, Positions(@, LAMBDA k : k \in active \/ ~IsVariable(i.args[k])))]
        Caller(g) == [g EXCEPT !.code = [b \in DOMAIN @ |-> Each(@[b], Less)]]
        u == [unit EXCEPT !.fun = [n \in DOMAIN @ |-> IF name \in @[n].calls THEN Caller(@[n]) ELSE @[n]]]
    IN  IF active = DOMAIN f.params THEN unit
        ELSE [u EXCEPT !.fun[name].params = Picked(@, Positions(@, LAMBDA k : k \in active))]

-----------------------------------------------------------------------------
(* The calls whose result the function returns at once. *)

FollowedByRet(f, p) == p[2] + 1 \in DOMAIN f.code[p[1]] /\ f.code[p[1]][p[2] + 1].op = "ret"

TailCalls(f) ==
    LET ret == End(f, f.exit)
        IsCall(p) == At(f, p).op = "call"
        second == <<f.exit, Len(f.code[f.exit]) - 1>>
        v == ret.args[1]
        p == PlaceOf(f, v)
        Given(i) == {k \in DOMAIN i.args : HasParent(f, i.args[k]) /\ IsCall(PlaceOf(f, i.args[k]))}
        JustBefore(b, x) == Len(f.code[b]) > 1 /\ f.code[b][Len(f.code[b]) - 1].res = x
    IN  CASE ret.args = <<>> -> IF second[2] > 0 /\ IsCall(second) THEN {second} ELSE {}
          [] ret.args /= <<>> /\ (~HasParent(f, v) \/ ~FollowedByRet(f, p)) -> {}
          [] OTHER -> CASE IsCall(p) -> {p}
                        [] IsPhi(At(f, p)) ->
                             {PlaceOf(f, At(f, p).args[k]) : k \in {j \in Given(At(f, p)) : JustBefore(At(f, p).to[j], At(f, p).args[j])}}
                        [] OTHER -> {}

(* tail has the places of those calls.  The block a call is given to the   *)
(* phi from must end in a jump.                                            *)
TailCallAnalysis(f) ==
    LET tail == TailCalls(f)
        ret == End(f, f.exit)
        bad == \E p \in Places(f) : /\ IsPhi(At(f, p)) /\ FollowedByRet(f, p) /\ At(f, p).res \in Uses(ret)
                                    /\ \E k \in DOMAIN At(f, p).args :
                                          /\ HasParent(f, At(f, p).args[k]) /\ At(f, PlaceOf(f, At(f, p).args[k])).op = "call"
                                          /\ End(f, At(f, p).to[k]).op /= "jump"
    IN  IF bad THEN Fail([f EXCEPT !.tail = tail], "TailCall") ELSE [f EXCEPT !.tail = tail]

=============================================================================
