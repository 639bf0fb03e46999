---------------------------- MODULE MCPhiRemoval ----------------------------
(***************************************************************************)
(* Functions with phis in every shape, their constants taking every value  *)
(* of a small set: one that fits a uop, two that share an upper part, one  *)
(* of another upper part, a float.                                         *)
(***************************************************************************)
EXTENDS PhiRemoval

MCConsts == {Const("small", 0, 1), Const("int", 1, 1), Const("int", 1, 2),
             Const("int", 2, 1), Const("float", 3, 0)}

Datum(arg, from) == [arg |-> arg, from |-> from]
Fun(succ, code, n) == [succ |-> succ, code |-> code, vars |-> n]

(* if (1 has a value) r = c; else r = 2;  return r combined with e. *)
Diamond(c, d, e) ==
    Fun(<<{2, 3}, {4}, {4}, {}>>,
        << <<Op(1, <<>>), End(<<Var(1), d>>)>>,
           <<Op(2, <<Var(1), d>>), Op(5, <<Var(1), d>>), End(<<Var(2)>>)>>,
           <<End(<<>>)>>,
           <<Phi(3, <<Datum(c, 3), Datum(Var(2), 2)>>), Op(4, <<Var(3), e>>), End(<<Var(4)>>)>> >>, 5)

(* A loop that swaps two values on its back edge, and counts. *)
Swap(c, d, e) ==
    Fun(<<{2}, {2, 3}, {}>>,
        << <<Op(1, <<e>>), End(<<>>)>>,
           <<Phi(2, <<Datum(Var(1), 1), Datum(Var(3), 2)>>),
             Phi(3, <<Datum(c, 1), Datum(Var(2), 2)>>),
             Phi(4, <<Datum(d, 1), Datum(Var(5), 2)>>),
             Op(5, <<Var(4), d>>), End(<<Var(5), Var(2)>>)>>,
           <<End(<<Var(2), Var(3), Var(4)>>)>> >>, 5)

(* The value of a phi is needed after the loop that changes it, and a copy *)
(* for the outer loop is made where the inner one may go on.               *)
Nest(c, d, e) ==
    Fun(<<{2}, {3}, {3, 4}, {2, 5}, {}>>,
        << <<End(<<>>)>>,
           <<Phi(1, <<Datum(c, 1), Datum(Var(4), 4)>>), End(<<>>)>>,
           <<Phi(2, <<Datum(Var(1), 2), Datum(Var(3), 3)>>), Op(3, <<Var(2), d>>), End(<<Var(3), Var(1)>>)>>,
           <<Op(4, <<Var(2)>>), End(<<Var(4), e>>)>>,
           <<End(<<Var(2), Var(4)>>)>> >>, 4)

MCFunctions ==
    UNION {{Diamond(c, d, e), Swap(c, d, e), Nest(c, d, e)} : c, d, e \in MCConsts}

(* For the others, see Leaks. *)
MCNoLeak == {f \in MCFunctions : ~Leaks(f)}
=============================================================================
