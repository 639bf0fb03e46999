----------------------------- MODULE MCCallSave -----------------------------
(***************************************************************************)
(* Blocks with up to four calls, in every assignment of two argument       *)
(* registers, one t and one s register that keeps live values apart.       *)
(***************************************************************************)
EXTENDS CallSave

MCArgRegs == <<10, 11>>
MCTmpRegs == <<5>>

Op(res, ops) == [kind |-> "op", ops |-> ops, res |-> res]
Mv(res, v) == [kind |-> "mv", ops |-> <<v>>, res |-> res]
Call(res, ops) == [kind |-> "call", ops |-> ops, res |-> res]
Jump(ops) == [kind |-> "jump", ops |-> ops, res |-> None]

Shape(uops, onStk, liveIn, liveOut) ==
    [uops |-> uops, onStk |-> onStk, liveIn |-> liveIn, liveOut |-> liveOut]

(* A result used at once and over a later call, three arguments, one of    *)
(* them passed on the stack.                                               *)
ArgsAndResults ==
    Shape(<<Call(3, <<1>>), Op(4, <<3, 1>>), Call(5, <<4, 1, 2>>), Op(None, <<5, 1>>)>>,
          {}, {1, 2}, {2})

(* Calls in a row; 1 is saved once for all, 2 dies as an argument. *)
Row ==
    Shape(<<Call(None, <<1>>), Call(None, <<1, 2>>), Call(3, <<1>>), Call(4, <<3, 3, 1>>), Op(None, <<1>>)>>,
          {}, {1, 2}, {4})

(* An argument that was left on the stack, twice; arguments that cross.    *)
Crossing ==
    Shape(<<Call(4, <<2, 1>>), Op(5, <<1>>), Call(None, <<1, 2, 3>>), Call(None, <<3, 4, 5>>), Op(None, <<2>>)>>,
          {3}, {1, 2, 3}, {})

(* A constant loaded once and copied for each of two calls (li).           *)
Copies ==
    Shape(<<Op(1, <<>>), Mv(2, 1), Call(None, <<2>>), Mv(3, 1), Call(None, <<3>>)>>, {}, {4}, {4})

(* A call and then the function itself again. *)
Loop ==
    Shape(<<Call(3, <<1>>), Op(4, <<1, 2>>), Jump(<<2, 4>>)>>, {}, {1, 2}, {})

-----------------------------------------------------------------------------

Colored(s) ==
    {b \in {[uops |-> s.uops, reg |-> f, onStk |-> s.onStk, liveIn |-> s.liveIn, liveOut |-> s.liveOut] :
               f \in [Vregs -> Regs]} : WellFormed(b) /\ \A v \in Vregs : ~Wanted(b, v) => b.reg[v] = ArgRegs[1]}

MCShapes == {ArgsAndResults, Row, Crossing, Copies, Loop}

MCInputs == {b \in UNION {Colored(s) : s \in MCShapes} : NoMoveInPlace(b)}

MCInPlace == Colored(Copies)
=============================================================================
