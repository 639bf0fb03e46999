-------------------------------- MODULE SysY --------------------------------
(***************************************************************************)
(* What a SysY program means, read off its syntax tree and not off the     *)
(* compiler: the value main returns and the events it outputs.  It is the  *)
(* specification the compiler is compared with.                            *)
(*                                                                         *)
(* The state has the names in scope, memory by object, the events so far,  *)
(* the steps left, how the last statement ended and the value returned.    *)
(***************************************************************************)
EXTENDS Integers, FiniteSets, SequencesExt

CONSTANT Width

Wrapped(k) == ((k + 2 ^ (Width - 1)) % (2 ^ Width)) - 2 ^ (Width - 1)
Abs(k) == IF k < 0 THEN -k ELSE k
Quotient(a, b) == (IF (a < 0) = (b < 0) THEN 1 ELSE -1) * (Abs(a) \div Abs(b))
AsInt(p) == IF p THEN 1 ELSE 0

Meaning(op, a, b) ==
    CASE op = "add" -> Wrapped(a + b) [] op = "sub" -> Wrapped(a - b) [] op = "mul" -> Wrapped(a * b)
      [] op = "div" -> Wrapped(Quotient(a, b)) [] op = "rem" -> a - b * Quotient(a, b)
      [] op = "lth" -> AsInt(a < b)   [] op = "leq" -> AsInt(a <= b)
      [] op = "gth" -> AsInt(a > b)   [] op = "geq" -> AsInt(a >= b)
      [] op = "equ" -> AsInt(a = b)   [] op = "neq" -> AsInt(a /= b)

Product(dims) == FoldLeft(LAMBDA a, d : a * d, 1, dims)
Stride(dims, k) == Product(SubSeq(dims, k + 1, Len(dims)))

(* Where in an array of the given dimensions an initialiser puts values:   *)
(* a set of pairs of a cell and an expression.  A nested list starts the   *)
(* largest part that begins at the cell reached and is smaller than the    *)
(* part being filled.                                                      *)
RECURSIVE Placed(_, _, _)
Placed(list, dims, at) ==
    LET Step(s, c) ==
            IF c[1] /= "list" THEN [set |-> s.set \cup {<<s.cell, c>>}, cell |-> s.cell + 1]
            ELSE LET k == CHOOSE j \in 1..Len(dims) :
                            /\ (s.cell - at) % Stride(dims, j) = 0
                            /\ \A i \in 1..(j - 1) : (s.cell - at) % Stride(dims, i) /= 0
                 IN  [set |-> s.set \cup Placed(c, SubSeq(dims, k + 1, Len(dims)), s.cell), cell |-> s.cell + Stride(dims, k)]
    IN  FoldLeft(Step, [set |-> {}, cell |-> at], list[2]).set

-----------------------------------------------------------------------------

Ub(st) == [st EXCEPT !.flow = "ub"]
Going(st) == st.flow = "next"
New(st, x, cells, dims) ==
    LET o == <<"o", Cardinality(DOMAIN st.mem)>>
    IN  [st EXCEPT !.mem = (o :> cells) @@ @, !.env = (x :> [at |-> <<o, 0>>, dims |-> dims]) @@ @]
There(st, p) == p[1] \in DOMAIN st.mem /\ p[2] + 1 \in DOMAIN st.mem[p[1]]
Get(st, p) == IF There(st, p) THEN [v |-> st.mem[p[1]][p[2] + 1], st |-> st] ELSE [v |-> 0, st |-> Ub(st)]
Put(st, p, v) == IF There(st, p) THEN [st EXCEPT !.mem[p[1]][p[2] + 1] = v] ELSE Ub(st)

(* a is a place: whole when it has all its indices; x two operands. *)
Fetch(a, whole) == IF whole /\ Going(a.st) THEN Get(a.st, a.v) ELSE a
Write(a, v) == IF Going(a.st) THEN Put(a.st, a.v, v) ELSE a.st
Combined(op, x) ==
    CASE ~Going(x.st) -> x
      [] Going(x.st) /\ op \in {"div", "rem"} /\ x.v[2] = 0 -> [v |-> 0, st |-> Ub(x.st)]
      [] OTHER -> [x EXCEPT !.v = Meaning(op, @[1], @[2])]

RECURSIVE Eval(_, _, _), Address(_, _, _), Invoke(_, _, _), Do(_, _, _)

EvalAll(p, st, es) ==
    LET Also(s, x) == [v |-> Append(s.v, x.v), st |-> x.st]
    IN  FoldLeft(LAMBDA s, e : Also(s, Eval(p, s.st, e)), [v |-> <<>>, st |-> st], es)

Element(sym, x) ==
    LET off == FoldLeft(LAMBDA a, k : a + x.v[k] * Stride(sym.dims, k), 0, [k \in DOMAIN x.v |-> k])
    IN  [v |-> <<sym.at[1], sym.at[2] + off>>, st |-> x.st]
Address(p, st, e) == Element(st.env[e[2]], EvalAll(p, st, e[3]))

Eval(p, st, e) ==
    IF ~Going(st) THEN [v |-> 0, st |-> st]
    ELSE CASE e[1] = "num" -> [v |-> e[2], st |-> st]
           [] e[1] = "lval" /\ "k" \in DOMAIN st.env[e[2]] -> [v |-> st.env[e[2]].k, st |-> st]
           [] e[1] = "lval" /\ "k" \notin DOMAIN st.env[e[2]] ->
                Fetch(Address(p, st, e), Len(e[3]) = Len(st.env[e[2]].dims))
           [] e[1] = "un" ->
                [Eval(p, st, e[3]) EXCEPT !.v = IF e[2] = "not" THEN AsInt(@ = 0) ELSE IF e[2] = "minus" THEN Wrapped(-@) ELSE @]
           [] e[1] \in {"and", "or"} ->
                LET Right(x) == IF ~Going(x.st) \/ (x.v = 0) = (e[1] = "and") THEN x ELSE Eval(p, x.st, e[3])
                IN  [Right(Eval(p, st, e[2])) EXCEPT !.v = AsInt(@ /= 0)]
           [] e[1] = "bin" -> Combined(e[2], EvalAll(p, st, <<e[3], e[4]>>))
           [] e[1] = "call" -> Invoke(p, e[2], EvalAll(p, st, e[3]))

Invoke(p, name, given) ==
    LET st == given.st
        args == given.v
        Enter(d) ==
            LET Param(s, k) == IF d[4][k][2] = "i" THEN New(s, d[4][k][1], <<args[k]>>, <<>>)
                               ELSE [s EXCEPT !.env = (d[4][k][1] :> [at |-> args[k], dims |-> <<1>> \o d[4][k][3]]) @@ @]
            IN  Do(p, FoldLeft(Param, [st EXCEPT !.env = st.glb, !.steps = @ - 1], [k \in DOMAIN args |-> k]), d[5])
        Back(end) == [v |-> end.ret, st |-> [end EXCEPT !.env = st.env, !.ret = 0,
                                                        !.flow = IF @ \in {"next", "return"} THEN "next" ELSE @]]
    IN  CASE ~Going(st) -> given
          [] Going(st) /\ name = "getint" -> [v |-> st.input + Len(st.out), st |-> [st EXCEPT !.out = Append(@, <<"getint">>)]]
          [] Going(st) /\ name = "putint" -> [v |-> 0, st |-> [st EXCEPT !.out = Append(@, <<"putint", args>>)]]
          [] OTHER -> Back(Enter(CHOOSE x \in ToSet(p) : x[1] = "func" /\ x[2] = name))

Do(p, st, s) ==
    CASE st.flow /= "next" -> st
      [] st.flow = "next" /\ st.steps <= 0 -> [st EXCEPT !.flow = "long"]
      [] st.flow = "next" /\ st.steps > 0 ->
    CASE s[1] = "assign" -> LET To(x) == Write(Address(p, x.st, s[2]), x.v) IN To(Eval(p, st, s[3]))
      [] s[1] = "const" -> [st EXCEPT !.env = (s[2] :> [k |-> s[3]]) @@ @]
      [] s[1] = "decl" ->
           LET dims == s[3]
               zeros == [k \in 1..Product(dims) |-> 0]
               Scalar(x) == New(x.st, s[2], <<x.v>>, <<>>)
               Set(t, c) == LET At(y) == Put(y.st, <<t.env[s[2]].at[1], c[1]>>, y.v) IN At(Eval(p, t, c[2]))
           IN  CASE s[4] = <<>> -> New(st, s[2], zeros, dims)
                 [] s[4] /= <<>> /\ dims = <<>> -> Scalar(Eval(p, st, s[4]))
                 [] OTHER -> FoldLeft(Set, New(st, s[2], zeros, dims),
                                      SetToSortSeq(Placed(s[4], dims, 0), LAMBDA a, b : a[1] < b[1]))
      [] s[1] = "exp" -> Eval(p, st, s[2]).st
      [] s[1] = "block" -> [FoldLeft(LAMBDA t, x : Do(p, t, x), st, s[2]) EXCEPT !.env = st.env]
      [] s[1] = "if" ->
           LET Chosen(c) == CASE ~Going(c.st) -> c.st
                              [] Going(c.st) /\ c.v /= 0 -> Do(p, c.st, s[3])
                              [] OTHER -> IF Len(s) = 4 THEN Do(p, c.st, s[4]) ELSE c.st
           IN  [Chosen(Eval(p, st, s[2])) EXCEPT !.env = st.env]
      [] s[1] = "while" ->
           LET Round(c) == [Do(p, c.st, s[3]) EXCEPT !.env = st.env, !.steps = @ - 1]
               Again(b) == CASE b.flow \in {"next", "continue"} -> Do(p, [b EXCEPT !.flow = "next"], s)
                             [] b.flow = "break" -> [b EXCEPT !.flow = "next"]
                             [] OTHER -> b
               While(c) == IF ~Going(c.st) \/ c.v = 0 THEN c.st ELSE Again(Round(c))
           IN  While(Eval(p, st, s[2]))
      [] s[1] \in {"break", "continue"} -> [st EXCEPT !.flow = s[1]]
      [] s[1] = "return" ->
           IF Len(s) = 1 THEN [st EXCEPT !.flow = "return"]
           ELSE LET With(x) == IF Going(x.st) THEN [x.st EXCEPT !.flow = "return", !.ret = x.v] ELSE x.st
                IN  With(Eval(p, st, s[2]))

Globals(p) ==
    LET Item(st, d) ==
            CASE d[1] = "func" -> st
              [] d[1] = "global" ->
                   LET x == <<<<"g", d[2]>>, 0>>
                       n == Product(d[3])
                       placed == IF d[4] = <<>> THEN {} ELSE IF d[3] = <<>> THEN {<<0, d[4]>>} ELSE Placed(d[4], d[3], 0)
                       cells == [k \in 1..n |-> IF \E c \in placed : c[1] = k - 1
                                                THEN (CHOOSE c \in placed : c[1] = k - 1)[2][2] ELSE 0]
                   IN  [st EXCEPT !.mem = (x[1] :> cells) @@ @, !.glb = (d[2] :> [at |-> x, dims |-> d[3]]) @@ @]
    IN  FoldLeft(Item, [env |-> <<>>, glb |-> <<>>, mem |-> <<>>, out |-> <<>>, steps |-> 0, input |-> 0, flow |-> "next", ret |-> 0], p)

(* The outcome of a program in at most so many calls and loop rounds. *)
Outcome(p, steps, input) ==
    LET Seen(r) == [kind |-> IF r.st.flow = "next" THEN "ok" ELSE r.st.flow, ret |-> r.v, out |-> r.st.out]
    IN  Seen(Invoke(p, "main", [v |-> <<>>, st |-> [Globals(p) EXCEPT !.steps = steps, !.input = input]]))

=============================================================================
