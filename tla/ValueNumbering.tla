--------------------------- MODULE ValueNumbering ---------------------------
(***************************************************************************)
(* DVNT: value numbering over the dominator tree.  vn maps a value to the  *)
(* value that stands for it.  A scope knows the expressions of the blocks  *)
(* above it, and what memory is known to hold since its own block began.   *)
(***************************************************************************)
EXTENDS Globals

GetVN(s, v) == IF v \in DOMAIN s.vn THEN s.vn[v] ELSE v
SetVN(s, v, to) == [s EXCEPT !.vn = (v :> to) @@ @]
Erase(s, b, k) == [s EXCEPT !.f.code[b] = RemoveAt(@, k)]

(* What a pointer points into, and the last offsets of the geps on the way. *)
RECURSIVE Root(_, _)
IsGep(f, v) == HasParent(f, v) /\ At(f, PlaceOf(f, v)).op = "gep"
Root(f, v) ==
    IF ~IsGep(f, v) THEN [base |-> v, offsets |-> <<>>]
    ELSE LET i == At(f, PlaceOf(f, v))
             r == Root(f, i.args[1])
         IN  [r EXCEPT !.offsets = Append(@, Last(i.args))]

Keys(i) ==
    CASE i.op \in TwoOprand ->
           {<<i.op, i.args[1], i.args[2]>>} \cup (IF i.op \in Commutative THEN {<<i.op, i.args[2], i.args[1]>>} ELSE {})
      [] i.op = "gep" -> {<<"gep", Len(i.args), i.args[1], Last(i.args)>>}
      [] OTHER -> {<<i.op, i.args[1]>>}

(* The value an instruction need not be computed for, or None. *)
Get(f, scope, i) ==
    IF i.op = "load"
    THEN LET r == Root(f, i.args[1]) IN IF r \in DOMAIN scope.mem THEN scope.mem[r] ELSE None
    ELSE LET known == Keys(i) \cap DOMAIN scope.expr IN IF known = {} THEN None ELSE scope.expr[CHOOSE k \in known : TRUE]
Set(f, scope, i) ==
    IF i.op = "load" THEN [scope EXCEPT !.mem = (Root(f, i.args[1]) :> i.res) @@ @]
    ELSE [scope EXCEPT !.expr = [k \in Keys(i) |-> i.res] @@ @]

-----------------------------------------------------------------------------
(* Phi functions whose operands have one number, or that repeat another.   *)

IsMeaningLess(s, i) == Len(i.args) < 2 \/ Cardinality({GetVN(s, v) : v \in Uses(i)}) = 1
IsRedundant(s, b, i) ==
    \E k \in DOMAIN s.f.code[b] :
        LET o == s.f.code[b][k] IN IsPhi(o) /\ o.res /= i.res /\ GetVN(s, o.res) = GetVN(s, i.res)
IsPhiOprandSame(i) == Cardinality(Uses(i)) = 1

RECURSIVE Phis(_, _, _)
Phis(s, b, k) ==
    IF k > Len(s.f.code[b]) THEN s
    ELSE LET i == s.f.code[b][k]
         IN  CASE ~IsPhi(i) -> Phis(s, b, k + 1)
               [] IsPhi(i) /\ (IsMeaningLess(s, i) \/ IsRedundant(s, b, i)) ->
                    Phis(SetVN(Erase(s, b, k), i.res, GetVN(s, i.args[1])), b, k)
               [] IsPhi(i) /\ IsPhiOprandSame(i) /\ ~(IsMeaningLess(s, i) \/ IsRedundant(s, b, i)) ->
                    Phis(SetVN(Erase(s, b, k), i.res, i.args[1]), b, k)
               [] OTHER -> Phis(SetVN(s, i.res, i.res), b, k + 1)

-----------------------------------------------------------------------------
(* What a call does to what is known of memory. *)

Forget(mem, bases) == [r \in {x \in DOMAIN mem : x.base \notin bases} |-> mem[r]]

AfterCall_Given(unit, f, mem, i) ==
    IF i.fun \in DOMAIN unit.fun
    THEN LET g == IF i.fun = f.name THEN f ELSE unit.fun[i.fun]
         IN  Forget(mem, {Root(f, i.args[k]).base : k \in {j \in DOMAIN g.params : StoredThrough(g, g.params[j])}})
    ELSE IF i.fun \in LibSideEffect THEN <<>> ELSE mem

AfterCall(unit, f, mem, i) ==
    CASE i.fun \in LibSideEffect -> <<>>
      [] i.fun \in DOMAIN unit.fun ->
           LET g == IF i.fun = f.name THEN f ELSE unit.fun[i.fun]
               defined == {p[1] : p \in {q \in unit.def : q[2] = i.fun}}
               given == {Root(f, i.args[k]).base : k \in {j \in DOMAIN g.params : StoredThrough(g, g.params[j])}}
           IN  CASE ~g.side -> mem
                 [] g.side /\ g.se.call_se_func -> <<>>
                 [] g.side /\ ~g.se.call_se_func /\ g.se.mod_glb_value -> Forget(mem, defined)
                 [] OTHER -> Forget(mem, given)
      [] OTHER -> mem

AfterStore(f, mem, i) ==
    IF IsGep(f, i.args[1]) THEN Forget(mem, {Root(f, i.args[1]).base})
    ELSE ([base |-> i.args[1], offsets |-> <<>>] :> i.args[2]) @@ mem

(* Operands are replaced one after the other, their user lists with them.  *)
Renumber(s, b, k) ==
    LET i == s.f.code[b][k]
        changed == {v \in Uses(i) : GetVN(s, v) /= v}
        j == [i EXCEPT !.args = Along(LAMBDA args, v : Append(args, GetVN(s, v)), <<>>, @)]
        listed == {i.res} \X (changed \cup {GetVN(s, v) : v \in changed})
    IN  [s EXCEPT !.f.code[b][k] = j, !.f.unseen = @ \ listed, !.f.stale = @ \ listed]

RECURSIVE Code(_, _, _, _, _)
Code(unit, s0, b, k, scope) ==
    IF k > Len(s0.f.code[b]) THEN [s |-> s0, scope |-> scope]
    ELSE LET s == Renumber(s0, b, k)
             i == s.f.code[b][k]
             replacer == DoFlod(i)
             numbered == i.op \in TwoOprand \cup OneOprand \cup {"gep"}
             known == Get(s.f, scope, i)
             Next(t, sc) == Code(unit, t, b, k + 1, sc)
         IN  CASE replacer /= None -> Code(unit, [s EXCEPT !.f = ReplaceSRC(Erase(s, b, k).f, i.res, replacer)], b, k, scope)
               [] replacer = None /\ numbered /\ known /= None -> Code(unit, SetVN(Erase(s, b, k), i.res, known), b, k, scope)
               [] replacer = None /\ numbered /\ known = None -> Next(SetVN(s, i.res, i.res), Set(s.f, scope, i))
               [] i.op = "store" -> Next(s, [scope EXCEPT !.mem = AfterStore(s.f, @, i)])
               [] i.op = "call" -> Next(SetVN(s, i.res, i.res), [scope EXCEPT !.mem = AfterCall(unit, s.f, @, i)])
               [] OTHER -> Next(SetVN(s, i.res, i.res), scope)

(* A phi of a successor reads the number of what it gets from this block.  *)
(* The user lists are not told.                                            *)
AdjustPhi(s, b, t, k) ==
    LET i == s.f.code[t][k]
        j == IndexOf(i.to, b)
        old == i.args[j]
        new == GetVN(s, old)
    IN  IF ~IsPhi(i) \/ b \notin ToSet(i.to) \/ new = old THEN s
        ELSE [s EXCEPT !.f.code[t][k] = Subst(i, old, new),
                       !.f.unseen = (@ \ {<<i.res, old>>}) \cup
                            (IF new \in Uses(i) \/ <<i.res, new>> \in s.f.stale \/ ~IsVariable(new) THEN {} ELSE {<<i.res, new>>}),
                       !.f.stale = (@ \ {<<i.res, new>>}) \cup
                            (IF <<i.res, old>> \in s.f.unseen \/ ~IsVariable(old) THEN {} ELSE {<<i.res, old>>})]
AdjustPhiInst(s, b) ==
    Along(LAMBDA t, succ : Along(LAMBDA u, k : AdjustPhi(u, b, succ, k), t, [k \in DOMAIN t.f.code[succ] |-> k]),
             s, Ordered(s.f, Succs(s.f, b)))

RECURSIVE DoDVNT(_, _, _, _)
DoDVNT(unit, s, b, expr) ==
    LET r == IF b \notin Blocks(s.f) THEN [s |-> s, scope |-> [expr |-> expr, mem |-> <<>>]]
             ELSE Code(unit, Phis(s, b, 1), b, 1, [expr |-> expr, mem |-> <<>>])
        t == IF b \notin Blocks(s.f) THEN s ELSE AdjustPhiInst(r.s, b)
        kids == IF b \in DOMAIN s.f.kids THEN Ordered(s.f, s.f.kids[b]) ELSE <<>>
    IN  Along(LAMBDA u, c : DoDVNT(unit, u, c, r.scope.expr), t, kids)

DVNT(unit, f) == DoDVNT(unit, [f |-> f, vn |-> <<>>], f.entry, <<>>).f

=============================================================================
