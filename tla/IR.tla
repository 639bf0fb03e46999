--------------------------------- MODULE IR ---------------------------------
(***************************************************************************)
(* The intermediate representation: values, instructions, functions, the   *)
(* operations the passes share, and what running a function gives.         *)
(*                                                                         *)
(* A value is <<kind, which>>: "i" int, "b" bool, "p" pointer variable,    *)
(* "c" int constant, "t" bool constant, "g" global.  Floats and int        *)
(* differ in no control decision of the passes modelled and are not told   *)
(* apart.                                                                  *)
(*                                                                         *)
(* An instruction has an opcode, a result or None, operands, blocks (the   *)
(* targets of a jump or branch, the incoming blocks of a phi) and, for a   *)
(* call, the callee.                                                       *)
(*                                                                         *)
(* A function maps its blocks to instruction sequences; edge is the set    *)
(* of pairs kept in predecessors and successors, attr the attributes of    *)
(* every block, kids its dominator tree as it was last computed.  bad has  *)
(* the assertions that failed while it was compiled.  Sets of blocks are   *)
(* ordered by address; asc says whether addresses grow with the number.    *)
(***************************************************************************)
EXTENDS Layout, FiniteSetsExt

CONSTANT Width     \* bits of an int
ASSUME WidthAssumption == Width \in 4..16

None == <<"n", 0>>
Const(k) == <<"c", k>>
Bool(k) == <<"t", k>>
IsConstant(v) == v[1] \in {"c", "t"}
IsVariable(v) == v[1] \in {"i", "b", "p"}

Arith == {"add", "sub", "mul", "div", "rem", "shl", "shr"}
Compare == {"lth", "leq", "gth", "geq", "equ", "neq"}
TwoOprand == Arith \cup Compare
OneOprand == {"load", "bitcast", "zext"}
Commutative == {"add", "mul", "equ", "neq"}
Ends == {"ret", "jump", "branch"}
Critical == Ends \cup {"store", "call"}

Inst(op, res, args) == [op |-> op, res |-> res, args |-> args, to |-> <<>>, fun |-> ""]
Jump(b) == [Inst("jump", None, <<>>) EXCEPT !.to = <<b>>]
Branch(c, t, f) == [Inst("branch", None, <<c>>) EXCEPT !.to = <<t, f>>]
Call(res, f, args) == [Inst("call", res, args) EXCEPT !.fun = f]
Phi(res, args, from) == [Inst("phi", res, args) EXCEPT !.to = from]

Uses(i) == ToSet(i.args)
IsPhi(i) == i.op = "phi"
NotPhi(i) == i.op /= "phi"

-----------------------------------------------------------------------------
(* Functions. *)

Blocks(f) == DOMAIN f.code
RECURSIVE Ordered(_, _)
Ordered(f, S) ==
    LET first == CHOOSE a \in S : \A b \in S \ {a} : (a < b) = f.asc
    IN  IF S = {} THEN <<>> ELSE <<first>> \o Ordered(f, S \ {first})
Places(f) == UNION {{<<b, k>> : k \in DOMAIN f.code[b]} : b \in Blocks(f)}
At(f, p) == f.code[p[1]][p[2]]
Defs(f) == {At(f, p).res : p \in Places(f)} \ {None}
PlaceOf(f, v) == CHOOSE p \in Places(f) : At(f, p).res = v
HasParent(f, v) == \E p \in Places(f) : At(f, p).res = v

(* The instructions in a value's user list.  The lists are the operands    *)
(* seen the other way round, but for two sets of pairs of an instruction's *)
(* result and a value: unseen, operands the list of the value lacks, and   *)
(* stale, entries of instructions that do not use the value any more.      *)
Users(f, v) == {p \in Places(f) : v \in Uses(At(f, p)) /\ <<At(f, p).res, v>> \notin f.unseen}
Used(f, v) == Users(f, v) /= {} \/ \E q \in f.stale : q[2] = v

(* Appending to nothing has TLC compute the sequence at once. *)
Each(s, Op(_)) == <<>> \o [k \in DOMAIN s |-> Op(s[k])]
Positions(s, P(_)) == SelectSeq([k \in DOMAIN s |-> k], P)
Picked(s, ks) == Each(ks, LAMBDA k : s[k])

(* FoldLeft that has TLC compute what it has so far before it goes on.     *)
Along(Op(_, _), base, s) ==
    LET upto[k \in 0..Len(s)] == IF k = 0 THEN base ELSE CHOOSE r \in {Op(a, s[k]) : a \in {upto[k - 1]}} : TRUE
    IN  upto[Len(s)]

SetCode(f, b, code) == [f EXCEPT !.code[b] = code]
Subst(i, old, new) == [i EXCEPT !.args = Each(@, LAMBDA v : IF v = old THEN new ELSE v)]
Fail(f, what) == [f EXCEPT !.bad = @ \cup {what}]

(* Everything in the user list is given the new value, and must have had   *)
(* the old one.                                                            *)
ReplaceSRC(f, old, new) ==
    LET places == Users(f, old)
        now == {At(f, p).res : p \in places} \X {new}
        replaced == FoldSet(LAMBDA p, g : [g EXCEPT !.code[p[1]][p[2]] = Subst(@, old, new)], f, places)
        f2 == [replaced EXCEPT !.unseen = @ \ now, !.stale = @ \ now]
    IN  CASE old = new -> f
          [] old /= new /\ \E q \in f.stale : q[2] = old -> Fail(f2, "ReplaceSRC")
          [] OTHER -> f2

RemoveInsts(f, places) ==
    [f EXCEPT !.code = [b \in DOMAIN @ |-> Picked(@[b], Positions(f.code[b], LAMBDA k : <<b, k>> \notin places))]]

(* A new variable, a new block. *)
NewVar(f, kind) == <<kind, f.var>>
NewBlock(f, attr) ==
    [f EXCEPT !.blk = @ + 1, !.code = (f.blk :> <<>>) @@ @, !.attr = (f.blk :> attr) @@ @]

(* Ending a block by a jump or branch also records the edges. *)
EndBlock(f, b, end) ==
    [f EXCEPT !.code[b] = Append(@, end), !.edge = @ \cup {<<b, t>> : t \in ToSet(end.to)}]

Retarget(end, old, new) == [end EXCEPT !.to = Each(@, LAMBDA b : IF b = old THEN new ELSE b)]

(* Mutant: the block's children in the dominator tree are forgotten too,   *)
(* as its dominators are.                                                  *)
RemoveNodes_ClearsChildren(f, gone) ==
    [f EXCEPT !.code = [b \in DOMAIN @ \ gone |-> @[b]],
              !.attr = [b \in DOMAIN @ \ gone |-> @[b]],
              !.edge = {e \in @ : e[1] \notin gone /\ e[2] \notin gone},
              !.kids = [b \in DOMAIN @ |-> IF b \in gone THEN {} ELSE @[b]]]

(* RemoveNode: the block's instructions and edges go; nothing can name it. *)
RemoveNodes(f, gone) ==
    [f EXCEPT !.code = [b \in DOMAIN @ \ gone |-> @[b]],
              !.attr = [b \in DOMAIN @ \ gone |-> @[b]],
              !.edge = {e \in @ : e[1] \notin gone /\ e[2] \notin gone}]

(* Blocks that can still reach the exit but not be reached from the entry. *)
Reach(edge, from) == FoldSet(LAMBDA n, r : r \cup {e[2] : e \in {x \in edge : x[1] \in r}}, from, 1..Cardinality(edge))
EliminateUnreachableCode(f) ==
    LET back == {<<e[2], e[1]>> : e \in f.edge}
    IN  RemoveNodes(f, Reach(back, {f.exit}) \ (Reach(f.edge, {f.entry}) \cup {f.exit}))

-----------------------------------------------------------------------------
(* Arithmetic and folding. *)

Wrap(k) == LET m == k % (2 ^ Width)
           IN  IF m >= 2 ^ (Width - 1) THEN m - 2 ^ Width ELSE m
Quot(a, b) == LET q == (IF a < 0 THEN -a ELSE a) \div (IF b < 0 THEN -b ELSE b)
              IN  IF (a < 0) = (b < 0) THEN q ELSE -q
Rem(a, b) == a - b * Quot(a, b)
Truth(p) == IF p THEN 1 ELSE 0

Operate(op, a, b) ==
    CASE op = "add" -> Wrap(a + b)    [] op = "sub" -> Wrap(a - b)
      [] op = "mul" -> Wrap(a * b)    [] op = "div" -> Wrap(Quot(a, b))
      [] op = "rem" -> Wrap(Rem(a, b))
      [] op = "shl" -> Wrap(a * 2 ^ b) [] op = "shr" -> a \div (2 ^ b)
      [] op = "lth" -> Truth(a < b)   [] op = "leq" -> Truth(a <= b)
      [] op = "gth" -> Truth(a > b)   [] op = "geq" -> Truth(a >= b)
      [] op = "equ" -> Truth(a = b)   [] op = "neq" -> Truth(a /= b)

(* Both operands constant.  Dividing by a constant zero is undefined in    *)
(* the compiler itself; no program modelled does it.                       *)
BinaryOperate(op, l, r) ==
    IF op \in Compare THEN Bool(Operate(op, l[2], r[2])) ELSE Const(Operate(op, l[2], r[2]))

(* The value an instruction can be replaced by, or None. *)
DoBinaryFlod(op, l, r) ==
    LET zero(v) == v = Const(0)
        one(v) == v = Const(1)
    IN  CASE l = r /\ op \in {"sub", "rem"} -> Const(0)
          [] l = r /\ op = "div" -> Const(1)
          [] IsConstant(l) /\ IsConstant(r) /\ ~(l = r /\ op \in {"sub", "rem", "div"}) -> BinaryOperate(op, l, r)
          [] OTHER ->
               CASE op \in {"add", "sub"} /\ zero(r) -> l
                 [] op = "mul" /\ zero(r) -> r
                 [] op \in {"mul", "div"} /\ one(r) -> l
                 [] op = "rem" /\ one(r) -> Const(0)
                 [] op = "add" /\ zero(l) -> r
                 [] op \in {"mul", "div", "rem"} /\ zero(l) -> l
                 [] op = "mul" /\ one(l) -> r
                 [] OTHER -> None

DoUnaryFlod(op, v) == IF op = "zext" /\ IsConstant(v) THEN Const(v[2]) ELSE None

DoFlod(i) ==
    CASE i.op \in TwoOprand -> DoBinaryFlod(i.op, i.args[1], i.args[2])
      [] i.op \in OneOprand -> DoUnaryFlod(i.op, i.args[1])
      [] OTHER -> None

-----------------------------------------------------------------------------
(* Running a function of a unit u.  A state has the values of variables,   *)
(* memory by object, what was output, and how many blocks may still be     *)
(* entered.  A run ends as "ok", as "ub" (the source program has no        *)
(* meaning), as "long" (more blocks than the bound), or as "bad": a value  *)
(* used before it exists, a phi without the incoming block.                *)

Value(v, env) == IF IsConstant(v) THEN v[2] ELSE IF v[1] = "g" THEN <<v, 0>> ELSE env[v]
Known(i, env) == \A v \in Uses(i) : IsVariable(v) => v \in DOMAIN env
Stop(kind, st) == [st EXCEPT !.kind = kind, !.ret = 0]

LeadingPhis(code) == {k \in DOMAIN code : \A j \in 1..k : IsPhi(code[j])}
IndexOf(s, x) == CHOOSE k \in DOMAIN s : s[k] = x
InBounds(p, mem) == p[1] \in DOMAIN mem /\ p[2] + 1 \in DOMAIN mem[p[1]]
FreshObject(mem) == <<"o", Cardinality(DOMAIN mem)>>
Cells(n, k) == [j \in 1..n |-> k]

(* The effect of an instruction without control flow on the state. *)
Effect(i, st) ==
    LET x(k) == Value(i.args[k], st.env)
        Res(v) == [st EXCEPT !.env = (i.res :> v) @@ @]
    IN  CASE i.op \in TwoOprand -> Res(Operate(i.op, x(1), x(2)))
          [] i.op \in {"zext", "bitcast"} -> Res(x(1))
          [] i.op = "gep" -> Res(<<x(1)[1], x(1)[2] + x(Len(i.args))>>)
          [] i.op = "load" -> Res(st.mem[x(1)[1]][x(1)[2] + 1])
          [] i.op = "store" -> [st EXCEPT !.mem[x(1)[1]][x(1)[2] + 1] = x(2)]
          [] i.op = "alloca" -> LET o == FreshObject(st.mem)
                                IN  [Res(<<o, 0>>) EXCEPT !.mem = (o :> Cells(FoldLeft(LAMBDA a, d : a * d[2], 1, i.args), 0)) @@ @]
          [] i.fun = "getint" -> [Res(st.input + Len(st.out)) EXCEPT !.out = Append(@, <<"getint">>)]
          [] i.fun = "memset" ->
               LET p == x(1) IN [st EXCEPT !.mem[p[1]] =
                   [k \in DOMAIN @ |-> IF k > p[2] /\ k <= p[2] + x(3) THEN x(2) ELSE @[k]]]
          [] OTHER -> [st EXCEPT !.out = Append(@, <<i.fun, [k \in DOMAIN i.args |-> x(k)]>>)]

Defined(i, st) ==
    LET x(k) == Value(i.args[k], st.env)
    IN  /\ i.op \in {"div", "rem"} => x(2) /= 0
        /\ i.op \in {"load", "store"} => InBounds(x(1), st.mem)
        /\ i.op \in {"shl", "shr"} => x(2) \in 0..(Width - 1)
        /\ i.fun = "memset" => x(3) = 0 \/ (InBounds(x(1), st.mem) /\ InBounds(<<x(1)[1], x(1)[2] + x(3) - 1>>, st.mem))

RECURSIVE Exec(_, _, _, _), Enter(_, _, _, _, _), Run(_, _, _, _)
Enter(u, f, b, from, st) ==
    LET code == f.code[b]
        lead == LeadingPhis(code)
        In(k) == code[k].args[IndexOf(code[k].to, from)]
        NoValue(k) == from \notin ToSet(code[k].to) \/ (IsVariable(In(k)) /\ In(k) \notin DOMAIN st.env)
        Leave(after, end) ==
            IF end.op = "ret" THEN [after EXCEPT !.ret = IF end.args = <<>> THEN 0 ELSE Value(end.args[1], after.env)]
            ELSE Enter(u, f, end.to[IF end.op = "branch" /\ Value(end.args[1], after.env) = 0 THEN 2 ELSE 1], b, after)
        Onward(after) == IF after.kind = "ok" THEN Leave(after, code[after.at]) ELSE after
    IN  CASE st.fuel = 0 -> Stop("long", st)
          [] st.fuel > 0 /\ \E k \in lead : NoValue(k) -> Stop("bad", st)
          [] OTHER -> Onward(Exec(u, code, Cardinality(lead) + 1,
                        [st EXCEPT !.fuel = @ - 1,
                                   !.env = [v \in {code[k].res : k \in lead} |->
                                              Value(In(CHOOSE k \in lead : code[k].res = v), @)] @@ @]))

(* Up to the jump, branch or return, whose place is kept. *)
Exec(u, code, k, st) ==
    LET i == code[k]
        Returned(callee) ==
            IF callee.kind /= "ok" THEN callee
            ELSE Exec(u, code, k + 1, [callee EXCEPT !.env = IF i.res = None THEN st.env ELSE (i.res :> callee.ret) @@ st.env])
    IN  CASE k > Len(code) -> Stop("bad", st)
          [] k <= Len(code) /\ (IsPhi(i) \/ ~Known(i, st.env)) -> Stop("bad", st)
          [] OTHER ->
               CASE i.op \in Ends -> [st EXCEPT !.at = k]
                 [] i.op = "call" /\ i.fun \in DOMAIN u ->
                      Returned(Run(u, u[i.fun], [j \in DOMAIN i.args |-> Value(i.args[j], st.env)], st))
                 [] OTHER -> IF Defined(i, st) THEN Exec(u, code, k + 1, Effect(i, st)) ELSE Stop("ub", st)

Run(u, f, args, st) ==
    Enter(u, f, f.entry, 0, [st EXCEPT !.env = [v \in ToSet(f.params) |-> args[IndexOf(f.params, v)]]])

(* The outcome of a unit's main within so many block entries.  What is     *)
(* read grows from the input given with every event.                       *)
RunMain(unit, fuel, input) ==
    LET globals == [o \in {<<"g", g>> : g \in DOMAIN unit.glb} |-> unit.glb[o[2]].init]
        Seen(r) == [kind |-> r.kind, ret |-> r.ret, out |-> r.out]
    IN  Seen(Run(unit.fun, unit.fun["main"], <<>>, [env |-> <<>>, mem |-> globals, out |-> <<>>, fuel |-> fuel, input |-> input,
                                                    kind |-> "ok", ret |-> 0, at |-> 0]))

=============================================================================
