--------------------------------- MODULE SSA ---------------------------------
(***************************************************************************)
(* Dominance, and the removal of memory accesses to scalar variables: phi  *)
(* functions at the dominance frontiers of their stores, then a walk over  *)
(* the blocks that replaces what is loaded by what was last stored.        *)
(***************************************************************************)
EXTENDS IR, PhiPlacement

Dominance(f) ==
    LET dom == ComputeDominatorSet(f, GetSequentialNodes(f))
        idom == ComputeImmediateDominator(f, dom)
    IN  [kids |-> Children(dom, idom), df |-> ComputeDominanceFrontier(f, idom)]

(* What later passes use of it is the tree. *)
DominanceAnalysis(f) ==
    [f EXCEPT !.kids = Dominance(f).kids]

-----------------------------------------------------------------------------
(* Instructions no critical one depends on are removed. *)

RECURSIVE Needed(_, _)
Needed(def, values) ==
    LET next == values \cup UNION {def[v] : v \in values \cap DOMAIN def}
    IN  IF next = values THEN values ELSE Needed(def, next)

EliminateUselessCode(f) ==
    LET nodes == ToSet(GetSequentialNodes(f))
        def == [v \in Defs(f) |-> Uses(At(f, PlaceOf(f, v)))]
        roots == UNION {Uses(At(f, p)) : p \in {q \in Places(f) : q[1] \in nodes /\ At(f, q).op \in Critical}}
        values == Needed(def, roots)
        Keep(i) == i.op \in Critical \/ i.res \in values
    IN  [f EXCEPT !.code = [b \in DOMAIN @ |-> IF b \in nodes THEN SelectSeq(@[b], Keep) ELSE @[b]]]

-----------------------------------------------------------------------------
(* Phi functions for the scalar variables, in the order of the allocas;    *)
(* every one goes to the front of its block.                               *)

ScalarAllocas(f) ==
    LET all == FlattenSeq(Each(GetSequentialNodes(f), LAMBDA b : f.code[b]))
        those == SelectSeq(all, LAMBDA i : i.op = "alloca" /\ i.fun = "scalar")
    IN  [k \in DOMAIN those |-> those[k].res]

StoresTo(f, a) == {b \in Blocks(f) : \E k \in DOMAIN f.code[b] : f.code[b][k].op = "store" /\ f.code[b][k].args[1] = a}

InsertPhiFunction(f, df) ==
    LET nodes == ToSet(GetSequentialNodes(f))
        At1(s, b, a) ==
            LET v == NewVar(s.f, "i")
            IN  [f |-> [SetCode(s.f, b, <<Phi(v, <<>>, <<>>)>> \o s.f.code[b]) EXCEPT !.var = @ + 1],
                 of |-> (v :> a) @@ s.of]
        For(s, a) ==
            LET defs == StoresTo(s.f, a) \cap nodes
                joins == PhiBlocks(df, defs)
            IN  Along(LAMBDA t, b : At1(t, b, a), s, Ordered(s.f, joins))
    IN  Along(For, [f |-> f, of |-> <<>>], ScalarAllocas(f))

(* Every edge into a block adds what its variables are there to its phis;  *)
(* the block itself is renamed the first time it is reached.  vals is what *)
(* each variable was last set to; one never set is 0.                      *)
RECURSIVE RenameCode(_, _, _, _, _)
RenameCode(f, of, b, k, vals) ==
    IF k > Len(f.code[b]) THEN [f |-> f, vals |-> vals]
    ELSE LET i == f.code[b][k]
             gone == SetCode(f, b, RemoveAt(f.code[b], k))
         IN  CASE i.op = "alloca" /\ i.res \in DOMAIN vals -> RenameCode(gone, of, b, k, vals)
               [] i.op = "load" /\ i.args[1] \in DOMAIN vals ->
                    RenameCode(ReplaceSRC(gone, i.res, vals[i.args[1]]), of, b, k, vals)
               [] i.op = "store" /\ i.args[1] \in DOMAIN vals ->
                    RenameCode(gone, of, b, k, [vals EXCEPT ![i.args[1]] = i.args[2]])
               [] IsPhi(i) -> RenameCode(f, of, b, k + 1, [vals EXCEPT ![of[i.res]] = i.res])
               [] OTHER -> RenameCode(f, of, b, k + 1, vals)

RECURSIVE VariableRename(_, _, _, _)
VariableRename(f, of, stack, done) ==
    IF stack = <<>> THEN f
    ELSE LET top == Last(stack)
             b == top.node
             Arrive(i) == IF IsPhi(i) THEN Phi(i.res, Append(i.args, top.vals[of[i.res]]), Append(i.to, top.pred)) ELSE i
             f1 == SetCode(f, b, Each(f.code[b], Arrive))
             r == RenameCode(f1, of, b, 1, top.vals)
             next == Ordered(f, Succs(f, b))
         IN  IF b \in done THEN VariableRename(f1, of, Front(stack), done)
             ELSE VariableRename(r.f, of,
                    Front(stack) \o [k \in DOMAIN next |-> [node |-> next[k], pred |-> b, vals |-> r.vals]], done \cup {b})

SSAConstruction(f) ==
    LET s == InsertPhiFunction(f, Dominance(f).df)
        zero == [a \in ToSet(ScalarAllocas(f)) |-> Const(0)]
    IN  EliminateUselessCode(VariableRename(s.f, s.of, <<[node |-> f.entry, pred |-> 0, vals |-> zero]>>, {}))

=============================================================================
