-------------------------------- MODULE Loops --------------------------------
(***************************************************************************)
(* The tree of loops, and the passes over it: code motion out of loops,    *)
(* loops that fill an array turned into memset, and loops of a known       *)
(* number of rounds turned into straight code.                             *)
(*                                                                         *)
(* f.loops maps a loop's number to its blocks, its parent and its loops;   *)
(* loop 0 is the function.  The front end tags the blocks; the tree is     *)
(* built from the tags once.                                               *)
(***************************************************************************)
EXTENDS IR

Is(f, b, tag) == b \in Blocks(f) /\ tag \in f.attr[b]
Inst1(f, v) == At(f, PlaceOf(f, v))

(* The loops are nested as their blocks are in layout order. *)
NewLoop(parent, before) ==
    [parent |-> parent, before |-> before, begin |-> 0, end |-> 0, body |-> 0, exit |-> 0, subs |-> <<>>]

LoopAnalysis(f) ==
    LET Out(s, b) == IF Is(f, b, "structure_out") THEN [s EXCEPT !.loops[Last(s.stack)].exit = b, !.stack = Front(@)] ELSE s
        Tag(s, b, tag, field) == IF Is(f, b, tag) THEN [s EXCEPT !.loops[Last(s.stack)][field] = b] ELSE s
        Return(s, b) == IF Is(f, b, "GoReturn") \/ Is(f, b, "InlineGR") THEN [s EXCEPT !.gr = (b :> Last(s.stack)) @@ @] ELSE s
        Before(s, b) ==
            LET id == Cardinality(DOMAIN s.loops)
                top == Last(s.stack)
            IN  IF ~Is(f, b, "before_blk") THEN s
                ELSE [s EXCEPT !.loops = (id :> NewLoop(top, b)) @@ [@ EXCEPT ![top].subs = Append(@, id)], !.stack = Append(@, id)]
        Node(s, b) == Before(Return(Tag(Tag(Tag(Out(s, b), b, "cond_begin", "begin"), b, "cond_end", "end"), b, "body_begin", "body"), b), b)
        s == Along(Node, [loops |-> (0 :> NewLoop(0, 0)), stack |-> <<0>>, gr |-> <<>>], GetSequentialNodes(f))
    IN  [f EXCEPT !.loops = s.loops, !.gr = s.gr]

FindInNode2Loop(f, b) == {l \in DOMAIN f.loops : f.loops[l].begin = b}

-----------------------------------------------------------------------------
(* The blocks of a loop's condition or body, in an order in which a block  *)
(* comes after its predecessors; an inner loop is taken whole.  A block    *)
(* without predecessors, or a loop that is not known, fails an assertion:  *)
(* the list then has a 0.                                                  *)

RECURSIVE Walk(_, _, _, _, _), GetEntireStructure(_, _)
GetCondBodyBlks(f, id) ==
    LET list == Walk(f, id, TRUE, <<f.loops[id].begin>>, <<>>)
    IN  IF f.loops[id].end \in ToSet(list) THEN list ELSE Append(list, f.loops[id].end)
GetLoopBodyBlks(f, id) == Walk(f, id, FALSE, <<f.loops[id].body>>, <<>>)
GetEntireStructure(f, id) == GetCondBodyBlks(f, id) \o GetLoopBodyBlks(f, id)

Walk(f, id, cond, stack, list) ==
    IF stack = <<>> THEN list
    ELSE LET top == Last(stack)
             rest == Front(stack)
             seen == ToSet(list)
             first == Is(f, top, IF cond THEN "cond_begin" ELSE "body_begin")
             last == cond /\ Is(f, top, "cond_end")
             ready == first \/ (~last /\ \A p \in Preds(f, top) : (cond /\ Is(f, p, "Continue")) \/ p \in seen)
             end == End(f, top)
             Inside(b) == ~Is(f, b, "cond_begin") /\ ~Is(f, b, "structure_out") /\ ~(cond /\ Is(f, b, "body_begin"))
             to == end.to[1]
             sub == FindInNode2Loop(f, to)
             returns == ~cond /\ (Is(f, top, "GoReturn") \/ Is(f, top, "InlineGR")) /\ to \in DOMAIN f.gr /\ f.gr[to] = id
         IN  CASE top \in seen -> Walk(f, id, cond, rest, list)
               [] top \notin seen /\ ~first /\ ~last /\ Preds(f, top) = {} -> Append(list, 0)
               [] top \notin seen /\ ~ready /\ (last \/ Preds(f, top) /= {}) -> Walk(f, id, cond, rest, list)
               [] OTHER ->
                    LET more == Append(list, top)
                    IN  CASE end.op = "branch" -> Walk(f, id, cond, rest \o SelectSeq(<<end.to[2], end.to[1]>>, Inside), more)
                          [] end.op = "jump" /\ Is(f, to, "cond_begin") /\ sub = {} -> Append(more, 0)
                          [] end.op = "jump" /\ Is(f, to, "cond_begin") /\ sub /= {} /\ (cond \/ sub /= {id}) ->
                               LET l == CHOOSE x \in sub : TRUE
                               IN  Walk(f, id, cond, Append(rest, f.loops[l].exit), more \o GetEntireStructure(f, l))
                          [] end.op = "jump" /\ Inside(to) /\ ~returns -> Walk(f, id, cond, Append(rest, to), more)
                          [] OTHER -> Walk(f, id, cond, rest, more)

IsSimpleLoop(f, id) ==
    LET l == f.loops[id]
    IN  /\ Cardinality(Preds(f, l.begin)) = 2
        /\ Cardinality(Preds(f, l.exit)) = 1
        /\ Len(GetCondBodyBlks(f, id)) <= 1
        /\ \A b \in ToSet(GetEntireStructure(f, id)) \ {0} : ~Is(f, b, "GoReturn")

-----------------------------------------------------------------------------
(* Code motion: from the inner loops outward, what does not depend on a    *)
(* phi, call or load of the loop goes to the end of the block before it;   *)
(* then so do the stores of a block that a branch chooses, if all of them  *)
(* have an address and a value of that kind.                               *)

Variant == {"phi", "call", "jump", "branch", "load", "store", "ret"}

Spread_Seeds(f, values) == values

RECURSIVE Spread(_, _)
Spread(f, values) ==
    LET next == values \cup ({At(f, p).res : p \in UNION {Users(f, v) : v \in values}} \ {None})
    IN  IF next = values THEN values ELSE Spread(f, next)

PlacesIn(f, b, P(_)) == SelectSeq([k \in DOMAIN f.code[b] |-> <<b, k>>], P)

FindInvariant(s, id) ==
    LET f == s.f
        IsStore(p) == At(f, p).op = "store" /\ HasParent(f, At(f, p).args[1]) /\ Inst1(f, At(f, p).args[1]).op = "gep"
        Chosen(b) == \E p \in Preds(f, b) : Preds(f, b) = {p} /\ Cardinality(Succs(f, p)) /= 1
        Found(entire, fresh, variant) ==
            LET Moves(p) == At(f, p).op \notin Variant /\ At(f, p).res \notin variant
                Unless(those) == IF \A p \in ToSet(those) : Uses(At(f, p)) \cap variant = {} THEN those ELSE <<>>
                Stores(b) == IF Chosen(b) THEN Unless(PlacesIn(f, b, IsStore)) ELSE <<>>
            IN  [moved |-> FlattenSeq([k \in DOMAIN fresh |-> PlacesIn(f, fresh[k], Moves)])
                             \o FlattenSeq([k \in DOMAIN fresh |-> Stores(fresh[k])]),
                 s |-> [f |-> IF 0 \in ToSet(entire) THEN Fail(f, "Walk") ELSE f,
                        visit |-> s.visit \cup ToSet(entire), variant |-> variant]]
        Seeds(fresh) == {At(f, p).res : p \in {q \in Places(f) : q[1] \in ToSet(fresh) /\ At(f, q).op \in Variant}} \ {None}
        In(entire, fresh) == Found(entire, fresh, Spread(f, s.variant \cup Seeds(fresh)))
        Fresh(entire) == In(entire, SelectSeq(entire, LAMBDA b : b \notin s.visit))
    IN  Fresh(GetEntireStructure(f, id))

MoveTo(f, b, moved) ==
    LET those == ToSet(moved)
    IN  [RemoveInsts(f, those) EXCEPT !.code[b] = Front(@) \o [k \in DOMAIN moved |-> At(f, moved[k])] \o <<Last(@)>>]

RECURSIVE InvariantMotion(_, _)
InvariantMotion(s, id) ==
    LET Moved(r) == [r.s EXCEPT !.f = MoveTo(@, @.loops[id].before, r.moved)]
        This(t) == IF id = 0 THEN t ELSE Moved(FindInvariant(t, id))
    IN  This(Along(InvariantMotion, s, s.f.loops[id].subs))

LoopInvariant(f) == InvariantMotion([f |-> f, visit |-> {}, variant |-> {}], 0).f

-----------------------------------------------------------------------------
(* How often a loop goes round: 0 when that is not known, -1 for never.    *)
(* Walking back from the counter's next value to the counter asks for the  *)
(* same instruction again and again: a second one is never reached.        *)

ConstCheck_Second(i) == IF IsConstant(i.args[2]) THEN 2 ELSE 0
ConstCheck(i) ==
    CASE IsConstant(i.args[1]) /\ ~IsConstant(i.args[2]) -> 1
      [] IsConstant(i.args[2]) /\ ~IsConstant(i.args[1]) -> 2
      [] OTHER -> 0

Flip == [lth |-> "gth", leq |-> "geq", gth |-> "lth", geq |-> "leq", equ |-> "equ", neq |-> "neq"]
Going(op, gap) == CASE op = "geq" -> gap >= 0 [] op = "leq" -> gap <= 0 [] op = "gth" -> gap > 0 [] OTHER -> gap < 0
Backwards(op, step) == CASE op = "geq" -> step >= 0 [] op = "leq" -> step <= 0 [] op = "gth" -> step > 0 [] OTHER -> step < 0

NoCounter == [known |-> FALSE, fail |-> FALSE, op |-> "equ", init |-> 0, limit |-> 0, step |-> 0]

(* The counter a loop's condition compares, from body blocks: i is the     *)
(* comparison, side where its constant is, phi the counter, by what gives  *)
(* the counter its next value.                                             *)
Counter(f, c, blks) ==
    LET Stepped(there, by, key, side) ==
            IF side = 0 \/ by.args[3 - side] /= key THEN [NoCounter EXCEPT !.fail = TRUE]
            ELSE [there EXCEPT !.step = IF by.op = "add" THEN by.args[side][2] ELSE -by.args[side][2]]
        Next(there, by, key) == IF by.op \in {"add", "sub"} THEN Stepped(there, by, key, ConstCheck(by)) ELSE NoCounter
        From(i, side, phi, inner) ==
            LET init == phi.args[3 - inner]
                next == phi.args[inner]
                there == [NoCounter EXCEPT !.known = TRUE, !.op = IF side = 1 THEN Flip[i.op] ELSE i.op,
                                           !.init = init[2], !.limit = i.args[side][2]]
            IN  CASE ToSet(phi.to) \cap blks = {} \/ init[1] /= "c" -> NoCounter
                  [] next = phi.res -> there
                  [] OTHER -> IF HasParent(f, next) THEN Next(there, Inst1(f, next), phi.res) ELSE NoCounter
        By(i, side, phi) == IF IsPhi(phi) THEN From(i, side, phi, IF phi.to[1] \in blks THEN 1 ELSE 2) ELSE NoCounter
        Compared(i, side) ==
            IF side = 0 \/ i.args[side][1] /= "c" \/ ~HasParent(f, i.args[3 - side]) THEN NoCounter
            ELSE By(i, side, Inst1(f, i.args[3 - side]))
        Condition(i) == IF i.op \in Compare THEN Compared(i, ConstCheck(i)) ELSE NoCounter
    IN  IF HasParent(f, c) THEN Condition(Inst1(f, c)) ELSE NoCounter

Times(n) == [time |-> n, fail |-> FALSE]
LoopTime(f, id) ==
    LET l == f.loops[id]
        Count(c, gap) ==
            LET Never(t) == ~Going(c.op, gap + t * c.step)
            IN  CASE ~c.known \/ c.op \in {"equ", "neq"} -> [time |-> 0, fail |-> c.fail]
                  [] OTHER -> CASE ~Going(c.op, gap) -> Times(-1)
                                [] Going(c.op, gap) /\ Backwards(c.op, c.step) -> Times(0)
                                [] OTHER -> IF c.step = 0 THEN [time |-> 0, fail |-> TRUE]
                                            ELSE Times(CHOOSE t \in 1..(2 ^ Width) : Never(t) /\ \A u \in 1..(t - 1) : ~Never(u))
        By(c) == Count(c, c.init - c.limit)
        In(blks, end) ==
            IF Cardinality(Preds(f, l.begin)) > 2 \/ Cardinality(Succs(f, Last(blks))) > 1 \/ end.op /= "branch" THEN Times(0)
            ELSE By(Counter(f, end.args[1], ToSet(blks)))
    IN  In(GetLoopBodyBlks(f, id), End(f, l.end))

-----------------------------------------------------------------------------
(* A nest of loops that fills an array by 0 or -1 becomes a memset.  array *)
(* and level go from one loop to the next in the order of the traversal.   *)

IsArray(f, unit, v) == IF v[1] = "g" THEN unit.glb[v[2]].kind = "array" ELSE HasParent(f, v) /\ Inst1(f, v).op = "alloca"
ArrDims(f, unit, v) == IF v[1] = "g" THEN unit.glb[v[2]].dims ELSE [k \in DOMAIN Inst1(f, v).args |-> Inst1(f, v).args[k][2]]

(* The array the only store of a one-block loop goes to and the value, or  *)
(* <<>>.  That the index is the counter is not asked.                      *)
GetArrayInit(f, unit, id) ==
    LET l == f.loops[id]
        code == f.code[l.body]
        In3(v) == HasParent(f, v) /\ PlaceOf(f, v)[1] \in {l.body, l.begin, l.before}
        Variables(vs) == {v \in vs : ~IsConstant(v)}
        Near(left, operands) == Len(left) <= 1 /\ \A v \in operands \cup Variables(UNION {Uses(i) : i \in ToSet(left)}) : In3(v)
        Simple(gep, offs, operands) ==
            Near(SelectSeq(Front(code), LAMBDA i : i.op /= "store" /\ i.res /= gep.res /\ i.res \notin offs \cup operands), operands)
        Only(gep, offs) == Simple(gep, offs, Variables(UNION {Uses(Inst1(f, o)) : o \in offs}))
        Filled(store, gep) ==
            IF store.args[2] \in {Const(0), Const(-1)} /\ gep.op = "gep" /\ Only(gep, Variables(ToSet(Tail(gep.args))))
            THEN <<IF IsArray(f, unit, gep.args[1]) THEN gep.args[1] ELSE Inst1(f, gep.args[1]).args[1], store.args[2]>>
            ELSE <<>>
        One(stores) == IF Len(stores) = 1 THEN Filled(stores[1], Inst1(f, stores[1].args[1])) ELSE <<>>
    IN  IF IsSimpleLoop(f, id) /\ Len(GetLoopBodyBlks(f, id)) = 1 THEN One(SelectSeq(code, LAMBDA i : i.op = "store")) ELSE <<>>

CheckLoopStep(f, id) ==
    LET l == f.loops[id]
        e == End(f, l.begin)
        FromZero(c) == c.known /\ c.init = 0 /\ c.step = 1
    IN  e.op = "branch" /\ FromZero(Counter(f, e.args[1], ToSet(GetLoopBodyBlks(f, id))))

DoMemset(f, unit, id, array, value) ==
    LET l == f.loops[id]
        p == NewVar(f, "p")
        q == <<"p", f.var + 1>>
        cells == FoldLeft(LAMBDA a, d : a * d, 1, ArrDims(f, unit, array))
        fill == <<Inst("gep", p, <<array, Const(0), Const(0)>>), Inst("bitcast", q, <<p>>),
                  Call(None, "memset", <<q, value, Const(cells)>>)>>
        there == [f EXCEPT !.var = @ + 2, !.calls = @ \cup {"memset"}, !.code[l.before] = Front(@) \o fill]
    IN  EndBlock(there, l.before, Jump(l.exit))

(* The loop itself, after its own loops. *)
FillLoop(s, unit, id) ==
    LET f == s.f
        l == f.loops[id]
        reset == [s EXCEPT !.level = 0, !.array = None]
        Around(c, sub) == /\ ToSet(GetLoopBodyBlks(f, id)) = {sub.before, sub.exit} \cup ToSet(GetEntireStructure(f, c))
                          /\ Len(f.code[sub.before]) <= 3 /\ Len(f.code[sub.exit]) <= 3
        Level(dims, at) ==
            CASE at \notin DOMAIN dims -> [reset EXCEPT !.f = Fail(@, "at")]
              [] at \in DOMAIN dims /\ dims[at] /= LoopTime(f, id).time -> reset
              [] OTHER -> IF s.level = Len(dims)
                          THEN [reset EXCEPT !.f = DoMemset(@, unit, id, s.array, s.value), !.hit = TRUE]
                          ELSE [s EXCEPT !.level = @ + 1]
        Whole(dims) == Level(dims, Len(dims) - s.level + 1)
    IN  CASE id = 0 \/ s.array = None -> s
          [] OTHER -> IF /\ l.subs = <<>> \/ (Len(l.subs) = 1 /\ Around(l.subs[1], f.loops[l.subs[1]]))
                         /\ CheckLoopStep(f, id)
                      THEN Whole(ArrDims(f, unit, s.array))
                      ELSE reset

RECURSIVE LoopTreeTraversal(_, _, _)
LoopTreeTraversal(s0, unit, id) ==
    LET Without(t, c) ==
            IF ~t.hit THEN t
            ELSE [t EXCEPT !.hit = FALSE,
                           !.f = [RemoveNodes(@, ToSet(GetEntireStructure(@, c)))
                                     EXCEPT !.loops[id].subs = SelectSeq(@, LAMBDA x : x /= c)]]
        Sub(s, c) == Without(LoopTreeTraversal(s, unit, c), c)
        Leaf(init) == IF init = <<>> THEN s0
                      ELSE FillLoop([s0 EXCEPT !.array = init[1], !.value = init[2], !.level = @ + 1], unit, id)
    IN  CASE s0.f.loops[id].subs /= <<>> -> FillLoop(Along(Sub, s0, s0.f.loops[id].subs), unit, id)
          [] s0.f.loops[id].subs = <<>> /\ id = 0 -> s0
          [] OTHER -> Leaf(GetArrayInit(s0.f, unit, id))

LoopMemset(f, unit) ==
    LoopTreeTraversal([f |-> f, array |-> None, value |-> None, level |-> 0, hit |-> FALSE], unit, 0).f

-----------------------------------------------------------------------------
(* Full expansion of a loop of one condition block and one body block.     *)
(* new maps what the body defines, and the phis read on the way, to the    *)
(* copies.  A phi is what its value of the loop was last copied to, or, in *)
(* the first round and before that, its value from outside.                *)

OperandUpdate(s, v) ==
    LET in == s.in[v]
        now == CASE in \in DOMAIN s.new -> s.new[in]
                 [] in \notin DOMAIN s.new /\ s.first -> s.out[v]
                 [] OTHER -> None
    IN  IF v \notin DOMAIN s.in THEN [s |-> s, v |-> IF v \in DOMAIN s.new THEN s.new[v] ELSE v]
        ELSE [s |-> IF now = None THEN [s EXCEPT !.f = Fail(@, "null"), !.new = [x \in DOMAIN @ \ {v} |-> @[x]]]
                    ELSE [s EXCEPT !.new = (v :> now) @@ @], v |-> now]

InstCopy(s, i, b) ==
    LET Next(t, u) == [s |-> u.s, args |-> Append(t.args, u.v)]
        v == NewVar(s.f, i.res[1])
        Copy(a) ==
            IF i.res = None THEN [a.s EXCEPT !.f.code[b] = Append(@, [i EXCEPT !.args = a.args])]
            ELSE [a.s EXCEPT !.f.code[b] = Append(@, [i EXCEPT !.args = a.args, !.res = v]), !.f.var = @ + 1,
                             !.new = (i.res :> v) @@ @]
    IN  Copy(Along(LAMBDA t, k : Next(t, OperandUpdate(t.s, i.args[k])), [s |-> s, args |-> <<>>], [k \in DOMAIN i.args |-> k]))

(* The two blocks left of the loop become one, under the later's name. *)
JoinBlocks(f, b, e) ==
    LET so == Is(f, b, "structure_out")
        bb == Is(f, e, "before_blk")
        plain == (f.attr[b] \cup f.attr[e]) \ {"before_blk", "structure_out", "cond_begin", "cond_end", "body_begin"}
        attr == (IF {"GoReturn", "Exit"} \subseteq plain THEN plain \ {"GoReturn"} ELSE plain)
                  \cup (IF so \/ bb THEN {"before_blk"} ELSE {}) \cup (IF so /\ bb THEN {"structure_out"} ELSE {})
        preds == Preds(f, b)
        code == [c \in DOMAIN f.code |->
                    IF c = e THEN f.code[b] \o f.code[e]
                    ELSE IF c \in preds THEN Append(Front(f.code[c]), Retarget(Last(f.code[c]), b, e)) ELSE f.code[c]]
        odd == ~Is(f, b, "before_blk") \/ ~Is(f, e, "structure_out") \/ f.attr[b] \cap {"cond_begin", "cond_end"} /= {}
                 \/ f.attr[e] \cap {"cond_begin", "cond_end", "body_begin"} /= {}
        g == [f EXCEPT !.code = code, !.attr[e] = attr, !.edge = @ \cup (preds \X {e}), !.entry = IF "Entry" \in attr THEN e ELSE @]
    IN  RemoveNodes(IF odd THEN Fail(g, "FullyExpand") ELSE g, {b})

FullyExpand(f, time, id) ==
    LET l == f.loops[id]
        phis == {i \in ToSet(f.code[l.begin]) : IsPhi(i)}
        Phi1(v) == CHOOSE i \in phis : i.res = v
        Start(blks) ==
            LET Inner(i) == IF i.to[1] \in ToSet(blks) THEN 1 ELSE 2
            IN  [f |-> SetCode(f, l.before, Front(f.code[l.before])), new |-> <<>>, first |-> TRUE,
                 in |-> [v \in {i.res : i \in phis} |-> Phi1(v).args[Inner(Phi1(v))]],
                 out |-> [v \in {i.res : i \in phis} |-> Phi1(v).args[3 - Inner(Phi1(v))]]]
        Round(s, body) == [Along(LAMBDA t, i : InstCopy(t, i, l.before), s, Front(f.code[body])) EXCEPT !.first = FALSE]
        Final(s, v, g) == CASE s.in[v] \in DOMAIN s.new -> ReplaceSRC(g, v, s.new[s.in[v]])
                            [] s.in[v] \notin DOMAIN s.new /\ Used(g, v) -> Fail(g, "null")
                            [] OTHER -> g
        Replaced(s, g) == FoldSet(LAMBDA v, h : Final(s, v, h), g, DOMAIN s.in)
        Joined(s, blks) == Replaced(s, JoinBlocks(RemoveNodes(s.f, ToSet(blks)), l.before, l.exit))
        Body(g) == IF l.parent /= 0 /\ l.parent \in DOMAIN g.loops /\ g.loops[l.parent].body = l.before
                   THEN [g EXCEPT !.loops[l.parent].body = l.exit, !.attr[l.exit] = @ \cup {"body_begin"}] ELSE g
        Of(blks) == Body(Joined(Along(Round, Start(blks), [r \in 1..time |-> Last(blks)]), blks))
    IN  Of(GetEntireStructure(f, id))

(* Loop c of loop id is gone. *)
Forgotten(f, id, c) ==
    LET Rest(l) == [l EXCEPT !.subs = SelectSeq(@, LAMBDA x : x /= c)]
    IN  [f EXCEPT !.loops = [x \in DOMAIN @ \ {c} |-> IF x = id THEN Rest(@[x]) ELSE @[x]]]

(* The loop itself, after its own loops. *)
ExpandThis(s, id) ==
    LET f == s.f
        Turned(t) == CASE t.fail -> [s EXCEPT !.f = Fail(@, "LoopTime")]
                      [] ~t.fail /\ (t.time = 0 \/ t.time > 100) -> s
                      [] OTHER -> [s EXCEPT !.f = FullyExpand(@, t.time, id), !.hit = TRUE]
        Small(body) == Len(body) <= 1 /\ Len(f.code[body[1]]) <= 10
    IN  CASE s.count > 3 -> s
          [] s.count <= 3 /\ 0 \in ToSet(GetEntireStructure(f, id)) -> [s EXCEPT !.f = Fail(@, "Walk")]
          [] OTHER -> IF IsSimpleLoop(f, id) /\ Small(GetLoopBodyBlks(f, id)) /\ f.loops[id].subs = <<>>
                      THEN Turned(LoopTime(f, id)) ELSE s

RECURSIVE ExpandLoop(_, _)
ExpandLoop(s0, id) ==
    LET Expanded(t, c) == IF t.hit THEN [f |-> Forgotten(t.f, id, c), hit |-> FALSE, count |-> t.count + 1] ELSE t
        Sub(s, c) == IF s.count > 3 THEN s ELSE Expanded(ExpandLoop(s, c), c)
    IN  ExpandThis(Along(Sub, s0, s0.f.loops[id].subs), id)

LoopUnrolling(f) ==
    LET Expanded(t, c) == IF t.hit THEN Forgotten(t.f, 0, c) ELSE t.f
    IN  Along(LAMBDA g, c : Expanded(ExpandLoop([f |-> g, hit |-> FALSE, count |-> 0], c), c), f, f.loops[0].subs)

-----------------------------------------------------------------------------
(* A function that is one counting loop: s = (s + c) mod m repeated n      *)
(* times is computed at once.  Every other loop of the shape fails.        *)

From(i, b) == i.args[IF i.to[1] = b THEN 1 ELSE 2]
NotFrom(i, b) == i.args[IF i.to[1] = b THEN 2 ELSE 1]

Rewrite(f, cond, i, n, phi) ==
    LET user == At(f, CHOOSE p \in Users(f, i.res) : TRUE)
        c == i.args[2]
        m == user.args[2]
        v(k) == <<"i", f.var + k>>
        calc == <<Inst("rem", v(0), <<n, m>>), Inst("mul", v(1), <<v(0), c>>),
                  Inst("add", v(2), <<v(1), m>>), Inst("rem", v(3), <<v(2), m>>)>>
        there == [f EXCEPT !.var = @ + 4, !.code[f.entry] = Front(@) \o calc]
        g == ReplaceSRC(there, phi.res, v(3))
    IN  [EndBlock(g, f.entry, Jump(f.exit)) EXCEPT !.edge = @ \ {<<f.entry, cond>>, <<cond, f.exit>>}]

DynamicUnrolling(f) ==
    LET cond == CHOOSE b \in Succs(f, f.entry) : TRUE
        body == CHOOSE b \in Succs(f, cond) : b /= f.exit
        cmp == Inst1(f, End(f, cond).args[1])
        phi == Inst1(f, cmp.args[1])
        count == NotFrom(phi, f.entry)
        by == Inst1(f, count)
        step == IF by.args[1] = phi.res THEN by.args[2] ELSE by.args[1]
        Matters(i) == i.res /= count /\ i.op \in TwoOprand /\ ~IsVariable(i.args[2])
        first == SelectSeq(f.code[body], Matters)[1]
        sum == Inst1(f, first.args[1])
        users == Users(f, first.res)
        shape == /\ Len(GetSequentialNodes(f)) = 4
                 /\ Cardinality(Succs(f, f.entry)) = 1 /\ Cardinality(Preds(f, f.exit)) = 1
        loop == Cardinality(Preds(f, cond)) = 2 /\ Cardinality(Succs(f, cond)) = 2
    IN  CASE ~shape -> f
          [] shape /\ ~loop -> Fail(f, "DynamicUnrolling")
          [] OTHER ->
             CASE Len(f.code[body]) > 4 \/ ~HasParent(f, cmp.args[1]) \/ IsConstant(cmp.args[2]) -> f
               [] OTHER ->
                  CASE ~IsPhi(phi) \/ Len(phi.args) /= 2 \/ From(phi, f.entry) /= Const(0) \/ by.op \notin {"add", "sub"} \/ step /= Const(1) -> f
                    [] OTHER ->
                       CASE SelectSeq(f.code[body], Matters) = <<>> -> Fail(f, "DynamicUnrolling")
                         [] OTHER ->
                            CASE ~IsPhi(sum) \/ From(sum, f.entry) /= Const(0) \/ \E p \in users : At(f, p).op \notin TwoOprand -> f
                              [] OTHER -> LET g == Rewrite(f, cond, first, cmp.args[2], sum)
                                          IN  IF Len(SelectSeq(f.code[body], Matters)) > 1 THEN g ELSE Fail(g, "DynamicUnrolling")

=============================================================================
