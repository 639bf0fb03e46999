------------------------------ MODULE Lowering ------------------------------
(***************************************************************************)
(* AstVisitor: a program's syntax tree becomes functions of the IR.        *)
(*                                                                         *)
(* An expression is <<"num", k>>, <<"lval", x, indices>>, <<"un", op, e>>, *)
(* <<"bin", op, e, e>> or <<"call", f, arguments>>; a condition may also   *)
(* be <<"and", c, c>> or <<"or", c, c>>.  A statement is a tuple with the  *)
(* name of its visitor first.  An initialiser is an expression or          *)
(* <<"list", initialisers>>.                                               *)
(*                                                                         *)
(* The visitor's members are the fields of a context: the function, the    *)
(* block instructions go to, the names in scope, and the blocks that end   *)
(* in a jump or branch whose target is not known yet.                      *)
(***************************************************************************)
EXTENDS IR

(* unit: fun, the functions compiled so far by name; glb, every global's   *)
(* kind and initial cells; def and use, the pairs of a global and a        *)
(* function noted to store to it or load it; par, the global arrays given  *)
(* to a function.                                                          *)
NoUnit == [fun |-> <<>>, glb |-> <<>>, def |-> {}, use |-> {}, par |-> {}]

Context(unit, f, table) ==
    [unit |-> unit, f |-> f, cur |-> f.entry, table |-> table, land |-> {}, lor |-> {},
     brk |-> {}, rets |-> {}, cont |-> 0, out |-> 0, inloop |-> FALSE, retaddr |-> None]

Emit(cx, i) == [cx EXCEPT !.f.code[cx.cur] = Append(@, i)]
Result(cx, v) == [v |-> v, cx |-> cx]
EmitRes(cx, kind, op, args) ==
    LET v == NewVar(cx.f, kind)
    IN  Result([Emit(cx, Inst(op, v, args)) EXCEPT !.f.var = @ + 1], v)
In(cx, b) == [cx EXCEPT !.cur = b]
StartBlock(cx) == [cx EXCEPT !.f = NewBlock(@, {}), !.cur = cx.f.blk]
Finish(cx, b, end) == [cx EXCEPT !.f = EndBlock(@, b, end)]
AddAttr(cx, b, a) == [cx EXCEPT !.f.attr[b] = @ \cup a]

(* SetTrueTarget, SetFalseTarget, SetTarget of the blocks that wait.       *)
Fill(cx, waiting, k, target) ==
    [cx EXCEPT !.f.code = [b \in DOMAIN @ |->
                              IF b \in waiting THEN [@[b] EXCEPT ![Len(@[b])].to[k] = target] ELSE @[b]],
               !.f.edge = @ \cup {<<b, target>> : b \in waiting}]
Wait(cx, end) == [cx EXCEPT !.f.code[cx.cur] = Append(@, end),
                            !.f.edge = @ \cup {<<cx.cur, t>> : t \in ToSet(end.to) \ {0}}]

-----------------------------------------------------------------------------
(* Operations on values, with the conversions between int and bool.        *)

IsBool(v) == v[1] \in {"t", "b"}

Convert(cx, tobool, v) ==
    CASE IsBool(v) = tobool -> Result(cx, v)
      [] IsBool(v) /= tobool /\ IsConstant(v) -> Result(cx, IF tobool THEN Bool(Truth(v[2] /= 0)) ELSE Const(v[2]))
      [] OTHER -> IF tobool THEN EmitRes(cx, "b", "neq", <<v, Const(0)>>) ELSE EmitRes(cx, "i", "zext", <<v>>)

Binary(cx, op, l, r) ==
    IF IsConstant(l) /\ IsConstant(r) THEN Result(cx, BinaryOperate(op, l, r))
    ELSE LET tobool == op \in Compare /\ (IsBool(l) \/ IsBool(r))
             Both(cl, cr) == EmitRes(cr.cx, IF op \in Compare THEN "b" ELSE "i", op, <<cl.v, cr.v>>)
             Left(cl) == Both(cl, Convert(cl.cx, tobool, r))
         IN  Left(Convert(cx, tobool, l))

Unary(cx, op, v) ==
    LET zero == IF IsBool(v) THEN Bool(0) ELSE Const(0)
    IN  CASE op = "plus" -> Result(cx, v)
          [] op = "minus" /\ IsConstant(v) -> Result(cx, Const(Wrap(-v[2])))
          [] op = "minus" -> Binary(cx, "sub", zero, v)
          [] op = "not" /\ IsConstant(v) -> Result(cx, Bool(Truth(v[2] = 0)))
          [] OTHER -> Binary(cx, "equ", v, zero)

(* A scalar global is reached through a pointer of its own; the function   *)
(* is noted as one that loads it or stores to it.                          *)
FromGlobal(f, a) ==
    IF a[1] = "g" THEN {a}
    ELSE {b \in {At(f, PlaceOf(f, v)).args[1] : v \in {x \in {a} : HasParent(f, x) /\ At(f, PlaceOf(f, x)).op = "gep"}} : b[1] = "g"}
Through(cx, a) == IF a[1] = "g" THEN EmitRes(cx, "p", "gep", <<a, Const(0)>>) ELSE Result(cx, a)

DoLoadValue(cx, a) ==
    LET Load(p) == EmitRes([p.cx EXCEPT !.unit.use = @ \cup (FromGlobal(p.cx.f, p.v) \X {cx.f.name})], "i", "load", <<p.v>>)
    IN  Load(Through(cx, a))

DoStoreValue(cx, a, v) ==
    LET Store(p, c) == Emit(c.cx, Inst("store", None, <<p.v, c.v>>))
        To(p) == Store(p, Convert([p.cx EXCEPT !.unit.def = @ \cup (FromGlobal(p.cx.f, p.v) \X {cx.f.name})], FALSE, v))
    IN  To(Through(cx, a))

StoreTo(a, x) == DoStoreValue(a.cx, a.v, x.v)

(* Variables declared in a loop live in the block before the outermost.    *)
AllocaIn(cx, kind, dims) ==
    LET v == NewVar(cx.f, "p")
        i == [Inst("alloca", v, [k \in DOMAIN dims |-> Const(dims[k])]) EXCEPT !.fun = kind]
    IN  Result([cx EXCEPT !.f.code[IF cx.inloop THEN cx.out ELSE cx.cur] = Append(@, i), !.f.var = @ + 1], v)

DimSize(dims) == [k \in DOMAIN dims |-> FoldLeft(LAMBDA a, d : a * d, 1, SubSeq(dims, k + 1, Len(dims)))]
Capacity(dims) == FoldLeft(LAMBDA a, d : a * d, 1, dims)

-----------------------------------------------------------------------------
(* Inline: the blocks of the callee in layout order are copied to new      *)
(* blocks of the caller; values maps what the callee's instructions read.  *)

InlineAttr(attr) ==
    (attr \ {"Entry", "GoReturn", "Exit"}) \cup (IF "GoReturn" \in attr THEN {"InlineGR"} ELSE {})

MapValue(values, v) == IF v \in DOMAIN values THEN values[v] ELSE v

InlineInst(s, i) ==
    LET cx == s.cx
        args == Each(i.args, LAMBDA v : MapValue(s.values, v))
        target(b) == s.blocks[b]
    IN  CASE i.op = "ret" -> [s EXCEPT !.v = IF args = <<>> THEN None ELSE args[1], !.retblock = cx.cur]
          [] i.op \in {"jump", "branch"} ->
               [s EXCEPT !.cx = Finish(cx, cx.cur, [i EXCEPT !.args = args, !.to = Each(@, target)])]
          [] i.op = "store" -> [s EXCEPT !.cx = DoStoreValue(cx, args[1], args[2])]
          [] i.op = "load" -> LET Loaded(r) == [s EXCEPT !.cx = r.cx, !.values = (i.res :> r.v) @@ @]
                              IN  Loaded(DoLoadValue(cx, args[1]))
          [] i.op = "alloca" ->
               LET v == NewVar(cx.f, "p")
                   home == IF cx.inloop THEN cx.out ELSE cx.cur
                   at == IF ~cx.inloop THEN Len(cx.f.code[home]) + 1 ELSE IF cx.f.code[home] = <<>> THEN 1 ELSE Len(cx.f.code[home])
               IN  [s EXCEPT !.cx.f.code[home] = InsertAt(@, at, [i EXCEPT !.res = v]),
                             !.cx.f.var = @ + 1, !.values = (i.res :> v) @@ @]
          [] OTHER ->
               IF i.res = None THEN [s EXCEPT !.cx = Emit(cx, [i EXCEPT !.args = args])]
               ELSE LET v == NewVar(cx.f, i.res[1])
                    IN  [s EXCEPT !.cx = [Emit(cx, [i EXCEPT !.res = v, !.args = args]) EXCEPT !.f.var = @ + 1],
                                  !.values = (i.res :> v) @@ @]

(* The blocks exist before anything is copied; the callee's exit is last   *)
(* and becomes the current block.                                          *)
Inline(cx, g, rparams, nodes) ==
    LET first == cx.f.blk
        block == [b \in ToSet(nodes) |-> first + IndexOf(nodes, b) - 1]
        fresh == Along(LAMBDA c, b : AddAttr(StartBlock(c), c.f.blk, InlineAttr(g.attr[b])), cx, nodes)
        start == [cx |-> Finish(fresh, cx.cur, Jump(first)), v |-> None, retblock |-> 0, blocks |-> block,
                  values |-> [v \in ToSet(g.params) |-> rparams[IndexOf(g.params, v)]]]
        Node(s, b) == Along(InlineInst, [s EXCEPT !.cx.cur = s.blocks[b]], g.code[b])
        Done(s) == Result([s.cx EXCEPT !.cur = s.retblock, !.f.calls = @ \cup g.calls], s.v)
    IN  Done(Along(Node, start, nodes))

(* What is noted of globals when g has been inlined: those it named become *)
(* the caller's; of an array given to it, what one step behind a gep does. *)
Noted(cx, g, rparams) ==
    LET move(pairs) == {<<p[1], IF p[2] = g.name THEN cx.f.name ELSE p[2]>> : p \in pairs}
        Does(k, op) == \E p \in Users(g, g.params[k]) : \E q \in Users(g, At(g, p).res) : At(g, q).op = op
        Given(op) == UNION {FromGlobal(cx.f, rparams[k]) : k \in {x \in DOMAIN rparams : Does(x, op)}}
    IN  [cx EXCEPT !.unit.use = move(@) \cup (Given("load") \X {cx.f.name}),
                   !.unit.def = move(@) \cup (Given("store") \X {cx.f.name}),
                   !.unit.par = @ \cup Given("call")]

-----------------------------------------------------------------------------
(* Expressions.  ptr: the address is wanted, not the value. *)

Library == [getint |-> [ret |-> TRUE, params |-> <<>>], putint |-> [ret |-> FALSE, params |-> <<"i">>]]

Callee(cx, name) == IF name = cx.f.name THEN cx.f ELSE cx.unit.fun[name]
ParamKinds(cx, name) ==
    IF name \in DOMAIN Library THEN Library[name].params
    ELSE [k \in DOMAIN Callee(cx, name).params |-> Callee(cx, name).params[k][1]]

DoCallFunction(cx, name, ret, args) ==
    LET called == [cx EXCEPT !.f.calls = @ \cup {name},
                             !.unit.par = @ \cup UNION {FromGlobal(cx.f, args[k]) : k \in DOMAIN args}]
        v == IF ret THEN NewVar(cx.f, "i") ELSE None
    IN  Result([Emit(called, Call(v, name, args)) EXCEPT !.f.var = @ + Truth(ret)], v)

(* A function that is not recursive is inlined. *)
CallOf(name, given) ==
    LET cx == given.cx
        g == Callee(cx, name)
        Inlined(in) == Result(Noted(in.cx, g, given.v), in.v)
    IN  CASE name \in DOMAIN Library -> DoCallFunction(cx, name, Library[name].ret, given.v)
          [] name = cx.f.name -> DoCallFunction([cx EXCEPT !.f.rec = TRUE], name, g.ret, given.v)
          [] OTHER -> IF g.rec THEN DoCallFunction(cx, name, g.ret, given.v)
                      ELSE Inlined(Inline(cx, g, given.v, GetSequentialNodes(g)))

Scaled(x, size) == Binary(x.cx, "mul", x.v, Const(size))
Add(s, x) == Binary(x.cx, "add", s.v, x.v)
Element(off, sym) ==
    EmitRes(off.cx, "p", "gep", (IF sym.kind = "param" THEN <<sym.v>> ELSE <<sym.v, Const(0)>>) \o <<off.v>>)
Read(a, ptr) == IF ptr THEN a ELSE DoLoadValue(a.cx, a.v)

RECURSIVE Expr(_, _, _)
Expr(cx, e, ptr) ==
    CASE e[1] = "num" -> Result(cx, Const(e[2]))
      [] e[1] = "un" -> LET Of(x) == Unary(x.cx, e[2], x.v) IN Of(Expr(cx, e[3], FALSE))
      [] e[1] = "bin" -> LET Of(l, r) == Binary(r.cx, e[2], l.v, r.v)
                             Left(l) == Of(l, Expr(l.cx, e[4], FALSE))
                         IN  Left(Expr(cx, e[3], FALSE))
      [] e[1] = "call" ->
           LET array(k) == ParamKinds(cx, e[2])[k] = "p"
               Given(s, c) == [cx |-> c.cx, v |-> Append(s.v, c.v)]
               Passed(x, k) == IF array(k) THEN x ELSE Convert(x.cx, FALSE, x.v)
               Arg(s, k) == Given(s, Passed(Expr(s.cx, e[3][k], array(k)), k))
           IN  CallOf(e[2], Along(Arg, [cx |-> cx, v |-> <<>>], [k \in DOMAIN e[3] |-> k]))
      [] e[1] = "lval" ->
           LET sym == cx.table[e[2]]
               Index(s, k) == Add(s, Scaled(Expr(s.cx, e[3][k], FALSE), DimSize(sym.dims)[k]))
           IN  CASE sym.kind = "const" -> Result(cx, sym.v)
                 [] sym.kind = "scalar" -> Read(Result(cx, sym.v), ptr)
                 [] OTHER -> Read(Element(Along(Index, Result(cx, Const(0)), [k \in DOMAIN e[3] |-> k]), sym), ptr)

ToBool(x) == Convert(x.cx, TRUE, x.v)

(* A block that ends in a branch with an open target waits in land or lor. *)
RECURSIVE Cond(_, _)
Cond(cx, c) ==
    CASE c[1] = "and" ->
           LET Right(l, t) == [In(Wait(In(StartBlock(l.cx), l.cx.cur), Branch(l.v, t, 0)), t)
                                  EXCEPT !.land = @ \cup {l.cx.cur}]
               Left(l) == Cond(Right(l, l.cx.f.blk), c[3])
           IN  Left(Cond(cx, c[2]))
      [] c[1] = "or" ->
           LET Filled(l, e) == Fill(In(StartBlock(l.cx), l.cx.cur), l.cx.land, 2, e)
               Right(l, e) == [In(Wait(Filled(l, e), Branch(l.v, 0, e)), e)
                                  EXCEPT !.land = cx.land, !.lor = @ \cup {l.cx.cur}]
               Left(l) == Cond(Right(l, l.cx.f.blk), c[3])
           IN  Left(Cond([cx EXCEPT !.land = {}], c[2]))
      [] OTHER -> ToBool(Expr(cx, c, FALSE))

-----------------------------------------------------------------------------
(* Initialisers: a nested list starts at the level of the largest part     *)
(* that what is already there fills whole times.                           *)

Level(cnt, level, size) ==
    IF cnt = 0 THEN level + 1 ELSE 1 + CHOOSE l \in 0..(Len(size) - 2) :
        cnt % size[l + 1] = 0 /\ \A m \in 0..(l - 1) : cnt % size[m + 1] /= 0

RECURSIVE Values(_, _, _)
Values(list, dims, level) ==
    LET size == DimSize(dims)
        total == Capacity(SubSeq(dims, level + 1, Len(dims)))
        Child(s, c) ==
            IF c[1] /= "list" THEN [s EXCEPT !.arr = Append(@, c[2]), !.cnt = @ + 1]
            ELSE LET l == Level(s.cnt, s.level, size)
                 IN  [arr |-> s.arr \o Values(c, dims, l), cnt |-> s.cnt + size[l], level |-> l]
        s == Along(Child, [arr |-> <<>>, cnt |-> 0, level |-> level], list[2])
    IN  IF total = 0 THEN <<>> ELSE s.arr \o Cells(total - s.cnt, 0)

StoreCell(x, base, at) == StoreTo(EmitRes(x.cx, "p", "gep", <<base, Const(0), Const(at)>>), x)

RECURSIVE Stores(_, _, _, _, _, _)
Stores(cx, list, dims, base, offset, level) ==
    LET Sublist(s, c, l, n) == [cx |-> Stores(s.cx, c, dims, base, s.offset, l), cnt |-> s.cnt + n,
                                offset |-> s.offset + n, level |-> l]
        Deeper(s, c, l) == Sublist(s, c, l, DimSize(dims)[l])
        Child(s, c) ==
            IF c[1] = "list" THEN Deeper(s, c, Level(s.cnt, s.level, DimSize(dims)))
            ELSE [s EXCEPT !.cx = StoreCell(Expr(s.cx, c, FALSE), base, s.offset), !.cnt = @ + 1, !.offset = @ + 1]
    IN  Along(Child, [cx |-> cx, cnt |-> 0, offset |-> offset, level |-> level], list[2]).cx

ParseLocalListInit(cx, list, dims, base) ==
    LET Clear(c) == DoCallFunction(c.cx, "memset", FALSE, <<c.v, Const(0), Const(Capacity(dims))>>)
        Cast(a) == EmitRes(a.cx, "p", "bitcast", <<a.v>>)
        cleared == Clear(Cast(EmitRes(cx, "p", "gep", <<base, Const(0), Const(0)>>)))
    IN  Stores(cleared.cx, list, dims, base, 0, 0)

-----------------------------------------------------------------------------
(* Statements. *)

Symbol(kind, v, dims) == [kind |-> kind, v |-> v, dims |-> dims]
Declare(cx, x, sym) == [cx EXCEPT !.table = (x :> sym) @@ @]

(* Of <<"decl", name, dims, init>>: x has the value of a scalar's          *)
(* initialiser, a is where the variable lives.                             *)
Kind(dims) == IF dims = <<>> THEN "scalar" ELSE "array"
Initialise(a, x, dims, init) ==
    CASE init = <<>> -> a.cx
      [] init /= <<>> /\ dims = <<>> -> StoreTo(a, x)
      [] OTHER -> ParseLocalListInit(a.cx, init, dims, a.v)
Introduce(a, x, s) == Declare(Initialise(a, x, s[3], s[4]), s[2], Symbol(Kind(s[3]), a.v, s[3]))
Allocate(x, s) == Introduce(AllocaIn(x.cx, Kind(s[3]), s[3]), x, s)
Decl(cx, s) == Allocate(IF s[3] = <<>> /\ s[4] /= <<>> THEN Expr(cx, s[4], FALSE) ELSE Result(cx, None), s)

Assign(x, lval) == StoreTo(Expr(x.cx, lval, TRUE), x)
SetReturn(x) == DoStoreValue(x.cx, x.cx.retaddr, x.v)
Leave(cx, attr) == StartBlock(AddAttr(cx, cx.cur, {attr}))

RECURSIVE Stmt(_, _), VisitIf(_, _), VisitWhile(_, _)
Stmt(cx, s) ==
    CASE s[1] = "assign" -> Assign(Expr(cx, s[3], FALSE), s[2])
      [] s[1] = "decl" -> Decl(cx, s)
      [] s[1] = "const" -> Declare(cx, s[2], Symbol("const", Const(s[3]), <<>>))
      [] s[1] = "exp" -> Expr(cx, s[2], FALSE).cx
      [] s[1] = "block" -> [Along(Stmt, cx, s[2]) EXCEPT !.table = cx.table]
      [] s[1] = "if" -> VisitIf(cx, s)
      [] s[1] = "while" -> VisitWhile(cx, s)
      [] s[1] = "continue" -> Leave(Finish(cx, cx.cur, Jump(cx.cont)), "Continue")
      [] s[1] = "break" -> [Leave(Wait(cx, Jump(0)), "Break") EXCEPT !.brk = @ \cup {cx.cur}]
      [] s[1] = "return" ->
           LET Go(c) == [Leave(Wait(c, Jump(0)), "GoReturn") EXCEPT !.rets = @ \cup {c.cur}]
           IN  Go(IF Len(s) = 1 THEN cx ELSE SetReturn(Expr(cx, s[2], FALSE)))

Branching(cx) == [cx EXCEPT !.land = {}, !.lor = {}]

(* The steps of a visitor, last first: c the condition, true, false and    *)
(* body the context after a part, t, e, b and out a block's number.        *)
VisitIf(cx, s) ==
    LET Close(c, true, false, t, e, out) ==
            LET filled == Fill(Fill(false, c.cx.land, 2, e), c.cx.lor, 1, t)
                branch == StartBlock(Finish(filled, c.cx.cur, Branch(c.v, t, e)))
            IN  [Finish(Finish(branch, true.cur, Jump(out)), false.cur, Jump(out))
                    EXCEPT !.table = cx.table, !.land = cx.land, !.lor = cx.lor]
        After(c, true, false) == Close(c, true, false, c.cx.f.blk, true.f.blk, false.f.blk)
        Else(c, true) ==
            LET apart == StartBlock([true EXCEPT !.table = cx.table])
            IN  After(c, true, IF Len(s) = 4 THEN Stmt(apart, s[4]) ELSE apart)
        Then(c) == Else(c, Stmt(StartBlock(c.cx), s[3]))
    IN  Then(Cond(Branching(cx), s[2]))

VisitWhile(cx, s) ==
    LET begin == cx.f.blk
        Close(c, body, b, out) ==
            LET ended == Finish(AddAttr(Finish(body, cx.cur, Jump(begin)), body.cur, {"Continue"}), body.cur, Jump(begin))
                after == AddAttr(StartBlock(ended), out, {"structure_out"})
                branch == Finish(after, c.cx.cur, Branch(c.v, b, out))
            IN  [Fill(Fill(Fill(branch, body.brk, 1, out), c.cx.land, 2, out), c.cx.lor, 1, b)
                    EXCEPT !.table = cx.table, !.land = cx.land, !.lor = cx.lor,
                           !.brk = cx.brk, !.cont = cx.cont, !.inloop = cx.inloop]
        After(c, body) == Close(c, body, c.cx.f.blk, body.f.blk)
        Body(c) ==
            After(c, Stmt(AddAttr(StartBlock(AddAttr(c.cx, c.cx.cur, {"cond_end"})), c.cx.f.blk, {"body_begin"}), s[3]))
        before == AddAttr(IF cx.inloop THEN cx ELSE [cx EXCEPT !.out = cx.cur], cx.cur, {"before_blk", "LoopTag"})
        start == AddAttr(StartBlock(before), begin, {"cond_begin"})
    IN  Body(Cond([Branching(start) EXCEPT !.inloop = TRUE, !.cont = begin, !.brk = {}], s[2]))

-----------------------------------------------------------------------------
(* Definitions of a program: <<"global", x, dims, init>> with the values of *)
(* an initialiser, and <<"func", name, returns, params, body>> where a     *)
(* parameter is <<x, "i">> or <<x, "p", inner dims>>.                      *)

NewFunction(name, returns, params, asc) ==
    [name |-> name, asc |-> asc, kids |-> <<>>, unseen |-> {}, stale |-> {}, bad |-> {}, tail |-> {}, loops |-> <<>>, gr |-> <<>>,
     side |-> FALSE, se |-> [call_se_func |-> FALSE, mod_glb_value |-> FALSE, mod_param_arr |-> FALSE],
     ret |-> returns, rec |-> FALSE, calls |-> {}, entry |-> 1, exit |-> 0,
     params |-> [k \in DOMAIN params |-> <<params[k][2], k>>], var |-> Len(params) + 1,
     code |-> (1 :> <<>>), edge |-> {}, attr |-> (1 :> {"Entry"}), blk |-> 2]

InitParamList(cx, params) ==
    LET Param(c, k) ==
            IF params[k][2] = "p" THEN Declare(c, params[k][1], Symbol("param", c.f.params[k], <<1>> \o params[k][3]))
            ELSE LET Copy(a) == Declare(DoStoreValue(a.cx, a.v, c.f.params[k]), params[k][1], Symbol("scalar", a.v, <<>>))
                 IN  Copy(AllocaIn(c, "scalar", <<>>))
    IN  Along(Param, cx, [k \in DOMAIN params |-> k])

VisitFuncDef(unit, table, d, asc) ==
    LET Place(cx) ==
            LET Kept(ret) == [ret.cx EXCEPT !.retaddr = ret.v]
            IN  IF d[3] THEN Kept(AllocaIn(cx, "scalar", <<>>)) ELSE cx
        Return(cx) ==
            LET Of(v) == Emit(v.cx, Inst("ret", None, <<v.v>>))
            IN  IF d[3] THEN Of(DoLoadValue(cx, cx.retaddr)) ELSE Emit(cx, Inst("ret", None, <<>>))
        Exit(body, exit) ==
            LET ended == Fill(Finish(StartBlock(body), body.cur, Jump(exit)), body.rets, 1, exit)
            IN  Return(In([AddAttr(ended, exit, {"Exit"}) EXCEPT !.f.exit = exit], exit))
        Body(body) == Exit(body, body.f.blk)
        Done(cx) == [cx.unit EXCEPT !.fun = (cx.f.name :> EliminateUnreachableCode(cx.f)) @@ @]
        start == Context(unit, NewFunction(d[2], d[3], d[4], asc), table)
    IN  Done(Body(Stmt(InitParamList(Place(start), d[4]), d[5])))

VisitGlobal(unit, d) ==
    LET cells == CASE d[4] = <<>> -> Cells(Capacity(d[3]), 0)
                   [] d[4] /= <<>> /\ d[3] = <<>> -> <<d[4][2]>>
                   [] OTHER -> Values(d[4], d[3], 0)
    IN  [unit EXCEPT !.glb = (d[2] :> [kind |-> Kind(d[3]), dims |-> d[3], init |-> cells]) @@ @]

(* Functions nobody calls are dropped. *)
Compile(program, asc) ==
    LET globals == {program[k] : k \in {j \in DOMAIN program : program[j][1] = "global"}}
        table == [x \in {d[2] : d \in globals} |->
                    LET d == CHOOSE g \in globals : g[2] = x IN Symbol(Kind(d[3]), <<"g", x>>, d[3])]
        Item(u, d) == IF d[1] = "global" THEN VisitGlobal(u, d) ELSE VisitFuncDef(u, table, d, asc)
        Called(fun) == {"main"} \cup UNION {fun[n].calls : n \in DOMAIN fun}
    IN  [Along(Item, NoUnit, program) EXCEPT !.fun = Restrict(@, Called(@) \cap DOMAIN @)]

=============================================================================
