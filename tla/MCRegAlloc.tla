----------------------------- MODULE MCRegAlloc -----------------------------
(***************************************************************************)
(* Register assignment of six small functions with three machine           *)
(* registers: two caller-saved, of which the first passes arguments and    *)
(* results, and one callee-saved.                                          *)
(***************************************************************************)
EXTENDS RegAlloc

Op(res, ops) == Uop("op", ops, res, 0)
Call(res, ops) == Uop("call", ops, res, 0)
Use(ops) == Op(0, ops)

(* A function of n registers; params arrive in argument registers.         *)
Fun(succ, code, n, params, stkParams, rets) ==
    [succ |-> succ, code |-> code, count |-> n, params |-> params,
     arrives |-> [v \in params |-> v], stkParams |-> stkParams, rets |-> rets]

(* Four values at once. *)
Pressure ==
    Fun(<<{}>>,
        << <<Op(1, <<>>), Op(2, <<>>), Op(3, <<1>>), Op(4, <<2>>), Use(<<1, 2>>), Use(<<3, 4>>)>> >>,
        4, {}, {}, {})

(* A loop that calls: 1 and 2 carry the counter and the sum around the     *)
(* back edge, 3 and 4 receive them; the last call's result is not used.    *)
LoopCalls ==
    Fun(<<{2}, {2, 3}, {}>>,
        << <<Op(1, <<>>), Op(2, <<>>)>>,
           <<Op(3, <<1>>), Op(4, <<2>>), Call(5, <<3>>), Op(6, <<4, 5>>),
             Op(1, <<3>>), Op(2, <<6>>), Use(<<3>>)>>,
           <<Call(7, <<>>), Use(<<6>>)>> >>,
        7, {}, {}, {5, 6, 7})

(* A phi of a diamond: 3 is the copy both branches write, 4 receives it.   *)
(* The parameter is needed on one side only.                               *)
Diamond ==
    Fun(<<{2, 3}, {4}, {4}, {}>>,
        << <<Op(2, <<1>>), Use(<<2>>)>>,
           <<Op(3, <<1>>)>>,
           <<Call(5, <<2>>), Op(3, <<5>>)>>,
           <<Op(4, <<3>>), Use(<<4>>)>> >>,
        5, {1}, {}, {4, 5})

(* Two parameters that arrive on the stack, read by a uop and by a call.   *)
StackParam ==
    Fun(<<{}>>,
        << <<Op(2, <<1, 5>>), Call(3, <<1, 2>>), Op(4, <<3, 2>>), Use(<<4>>)>> >>,
        5, {}, {1, 5}, {3, 4})

(* A parameter held over more values than there are registers left.        *)
ParamPressure ==
    Fun(<<{}>>,
        << <<Op(2, <<1>>), Op(3, <<>>), Op(4, <<>>), Use(<<2>>), Use(<<3>>),
             Use(<<4>>), Use(<<1>>)>> >>,
        4, {1}, {}, {})

(* Values held over calls that are spilled in a loop.                      *)
LoopPressure ==
    Fun(<<{2}, {2, 3}, {}>>,
        << <<Op(1, <<>>), Op(2, <<>>), Op(3, <<>>)>>,
           <<Op(4, <<1>>), Call(0, <<4, 2>>), Op(1, <<4>>), Use(<<1>>)>>,
           <<Use(<<2>>), Use(<<3>>), Use(<<1>>)>> >>,
        4, {}, {}, {})

MCVregs == 1 .. MaxVregs

MCPrograms == {Pressure, LoopCalls, Diamond, StackParam, ParamPressure, LoopPressure}
=============================================================================
