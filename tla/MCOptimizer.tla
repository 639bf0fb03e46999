----------------------------- MODULE MCOptimizer -----------------------------
(***************************************************************************)
(* The compiler on families of small programs, one family for a part of    *)
(* the language and the passes it meets.                                   *)
(***************************************************************************)
EXTENDS Optimizer

(* Programs are written with these. *)
num(k) == <<"num", k>>
var(x) == <<"lval", x, <<>>>>
at(x, i) == <<"lval", x, i>>
bin(op, l, r) == <<"bin", op, l, r>>
plus(x, k) == bin("add", var(x), num(k))
less(x, e) == bin("lth", var(x), e)
call(g, args) == <<"call", g, args>>
input == call("getint", <<>>)
let(x, e) == <<"decl", x, <<>>, e>>
array(x, dims, init) == <<"decl", x, dims, init>>
list(s) == <<"list", s>>
set(x, e) == <<"assign", var(x), e>>
put(x, i, e) == <<"assign", at(x, i), e>>
next(x) == set(x, plus(x, 1))
print(e) == <<"exp", call("putint", <<e>>)>>
return(e) == <<"return", e>>
block(s) == <<"block", s>>
when(c, s) == <<"if", c, block(s)>>
either(c, s, t) == <<"if", c, block(s), block(t)>>
while(c, s) == <<"while", c, block(s)>>
func(x, params, s) == <<"func", x, TRUE, params, block(s)>>
main(s) == func("main", <<>>, s)
global(x, dims, init) == <<"global", x, dims, init>>

(* Conditions with "and" and "or" in every nesting of three that the      *)
(* grammar has; the last of the three reads input when it is evaluated.    *)
Nested(a, b, c) ==
    {<<"and", <<"and", a, b>>, c>>, <<"or", <<"or", a, b>>, c>>, <<"or", <<"and", a, b>>, c>>, <<"or", a, <<"and", b, c>>>>}
Conditions ==
    { <<main(<<let("x", input), let("i", num(0)),
              while(around, <<either(inside, <<print(num(7)), when(bin("equ", var("i"), num(1)), <<<<"break">>>>)>>, <<print(var("i"))>>),
                              next("i"), when(bin("gth", var("i"), num(2)), <<<<"break">>>>)>>),
              return(var("i"))>>)>> :
        around \in Nested(less("i", num(2)), bin("geq", var("i"), var("x")), input),
        inside \in Nested(less("x", num(1)), bin("neq", var("i"), num(0)), bin("sub", input, num(2))) }

(* A loop up to a constant or to what was read, left early or continued;   *)
(* the first kind is unrolled.                                             *)
Rounds ==
    { <<main(<<let("n", input), let("i", num(0)), let("s", num(1)),
              while(less("i", limit), <<set("s", bin("add", bin("mul", var("s"), num(3)), var("i"))), print(var("s")),
                                        set("i", bin("add", num(1), var("i")))>> \o more),
              while(less("i", num(6)), <<when(bin("equ", var("i"), num(4)), <<set("i", plus("i", 2)), <<"continue">>>>), next("i")>>),
              return(bin("add", var("s"), var("i")))>>)>> :
        limit \in {num(3), var("n")},
        more \in {<<>>, <<when(bin("gth", var("s"), num(9)), <<<<"break">>>>)>>} }

(* Arrays: initialisers with lists inside lists, loops that set every      *)
(* element, elements that are constants.                                   *)
Filled ==
    { <<main(<<let("x", input), array("a", <<2, 3>>, list(init)), let("i", num(0)),
              while(less("i", num(2)), <<let("j", num(0)), while(less("j", num(3)),
                    <<put("a", <<var("i"), var("j")>>, e), next("j")>>), next("i")>>),
              print(at("a", <<num(0), bin("rem", var("x"), num(3))>>)), return(at("a", <<num(1), num(1)>>))>>)>> :
        init \in {<<var("x"), num(2), num(3), list(<<num(2)>>)>>},
        e \in {num(0), num(-1), num(5)} }
Constant ==
    { <<main(<<array("a", <<2, 2>>, list(<<list(<<num(4)>>), num(5)>>)), array("b", <<2>>, list(<<num(8), num(9)>>)), let("x", input),
              print(at("a", <<num(1), num(0)>>)), print(at("a", <<num(0), bin("rem", var("x"), num(2))>>)), return(at("b", <<num(1)>>))>>)>> }

(* Globals: read only, written only, used by main only, used by both; an   *)
(* array given to a function that is inlined.                              *)
Shared ==
    { << global("r", <<>>, num(3)), global("w", <<>>, num(0)), global("m", <<>>, num(1)), global("b", <<>>, num(2)),
         global("t", <<2, 2>>, list(<<num(1), num(2), list(<<num(6)>>)>>)),
         func("f", << <<"k", "i">>, <<"p", "p", <<2>>>> >>,
              << set("w", var("k")), set("b", bin("add", var("b"), var("r"))), when(less("k", num(1)), <<return(at("p", <<num(1), num(0)>>))>>),
                 put("p", <<num(0), num(1)>>, var("k")), return(at("p", <<num(0), bin("rem", var("k"), num(2))>>)) >>),
         main(<< let("x", input), set("m", bin("add", var("m"), var("x"))), print(call("f", <<var("x"), var("t")>>)),
                 print(call("f", <<var("m"), var("t")>>)), print(at("t", <<num(0), num(1)>>)), print(var("m")), return(var("b")) >>) >> }

(* Functions that call themselves, which are not inlined: with a parameter *)
(* that is only passed on, with one call that is the last thing done, with *)
(* a global and an array they set, without a result.                       *)
again(k, arg) == call("f", <<plus("k", -k), arg>>)
last(s) == when(less("k", num(1)), s)
Recursive ==
    { << func("f", << <<"k", "i">>, <<"d", "i">> >>, << when(bin("leq", var("k"), num(1)), <<return(var("k"))>>),
              return(bin("add", again(1, var("d")), again(2, var("d")))) >>),
         main(<< let("x", input), return(call("f", <<plus("x", 3), var("x")>>)) >>) >>,
      << func("f", << <<"k", "i">>, <<"a", "i">> >>, << last(<<return(var("a"))>>), return(again(1, bin("add", var("a"), var("k")))) >>),
         main(<< let("x", input), return(call("f", <<plus("x", 2), num(1)>>)) >>) >>,
      << global("b", <<>>, num(2)),
         func("f", << <<"k", "i">>, <<"a", "i">> >>,
              << last(<<return(var("b"))>>), set("b", bin("add", var("b"), var("k"))), return(again(1, var("b"))) >>),
         main(<< let("x", input), print(var("b")), let("y", call("f", <<plus("x", 1), var("x")>>)), print(var("b")), return(var("y")) >>) >>,
      << func("f", << <<"k", "i">>, <<"p", "p", <<>>>> >>,
              << last(<<return(at("p", <<num(0)>>))>>), put("p", <<bin("rem", var("k"), num(2))>>, var("k")), return(again(1, var("p"))) >>),
         main(<< let("x", input), array("a", <<2>>, list(<<var("x"), num(3)>>)), print(at("a", <<num(1)>>)),
                 print(call("f", <<plus("x", 1), var("a")>>)), print(at("a", <<num(1)>>)), return(at("a", <<num(0)>>)) >>) >>,
      << <<"func", "f", FALSE, << <<"k", "i">> >>,
           block(<< when(less("k", num(1)), <<<<"return">>>>), print(var("k")), <<"exp", call("f", <<plus("k", -1)>>)>> >>)>>,
         main(<< let("x", input), <<"exp", call("f", <<var("x")>>)>>, return(var("x")) >>) >>,
      << func("f", << <<"k", "i">>, <<"a", "i">> >>, << when(less("k", num(0)), <<return(num(0))>>), return(bin("sub", var("a"), again(1, var("a")))) >>),
         main(<< let("x", input), return(call("f", <<plus("x", 2), num(5)>>)) >>) >> }

storing(first) == while(bin("gth", var("x"), num(0)), first \o << put("a", <<num(1)>>, num(7)), set("x", plus("x", -1)) >>)
(* Loops around loops with work that is the same every time, in a function *)
(* that is inlined into one; a loop on a remainder, which is unrolled with *)
(* a test; conditions known when compiling; a store that is the same every *)
(* time in a loop that goes round at least once, after which it is read.   *)
Repeated ==
    { << func("g", << <<"x", "i">>, <<"n", "i">> >>,
              << let("i", num(0)), let("s", num(0)),
                 while(less("i", var("n")),
                       << let("t", bin("mul", var("x"), num(3))), let("j", num(0)),
                          while(less("j", var("i")), << set("s", bin("add", var("s"), bin(op, var("x"), num(2)))), next("j") >>),
                          either(bin("gth", var("t"), num(4)), <<set("s", bin("add", var("s"), var("t")))>>, <<set("s", bin("sub", var("s"), var("x")))>>),
                          next("i") >>),
                 return(var("s")) >>),
         main(<< let("x", input), let("k", num(0)),
                 while(less("k", num(3)), << print(call("g", <<var("x"), var("k")>>)), next("k") >>), return(var("k")) >>) >> : op \in {"mul", "sub"} }
    \cup { << main(<< let("n", input), let("s", num(0)), let("i", num(0)),
                     while(less("i", var("n")), << set("s", bin("rem", bin("add", var("s"), num(5)), num(7))), next("i") >>), return(var("s")) >>) >>,
            << main(<< <<"const", "c", 0>>, let("x", input), let("y", num(4)),
                     either(<<"and", bin("equ", var("c"), num(0)), less("x", num(2))>>, <<set("y", plus("y", 1))>>, <<set("y", num(5))>>),
                     when(bin("neq", var("c"), num(0)), <<print(var("y"))>>),
                     while(var("c"), <<set("x", num(0))>>), return(bin("sub", var("y"), var("x"))) >>) >>,
            << main(<< let("x", bin("add", input, num(1))), array("a", <<2>>, list(<<num(3)>>)), storing(<<>>), return(at("a", <<num(1)>>)) >>) >> }

(* Operations with constants, on one value or on two. *)
Sums ==
    { <<main(<<let("x", input), let("y", e), print(var("y")), return(g)>>)>> :
        e \in {bin(op1, bin(op2, var("x"), num(6)), num(3)) : op1 \in {"add", "sub", "mul"}, op2 \in {"add", "sub", "mul", "div"}}
              \cup {bin("sub", num(9), bin(op, var("x"), num(2))) : op \in {"add", "sub"}}
              \cup {bin("add", bin("sub", num(9), var("x")), num(2)), bin("add", bin("add", var("x"), var("x")), var("x"))},
        g \in {<<"un", "not", <<"un", "not", var("y")>>>>} }

MCPrograms == Conditions \cup Rounds \cup Filled \cup Constant \cup Shared \cup Recursive \cup Repeated \cup Sums

(* Programs that come out wrong: an element read before it is set, a       *)
(* product divided, a test read twice, an alternating function that starts *)
(* at 1, a constant given for a parameter that is dropped.                 *)
Wrong ==
    { << main(<< let("x", input), array("a", <<2>>, list(<<num(3)>>)), print(at("a", <<bin("rem", var("x"), num(2))>>)),
                 put("a", <<num(1)>>, num(7)), return(at("a", <<bin("rem", var("x"), num(2))>>)) >>) >>,
      << main(<< let("x", input), return(bin("div", bin("mul", var("x"), num(6)), num(3))) >>) >>,
      << main(<< let("x", input), let("y", <<"un", "not", var("x")>>), print(var("y")),
                 when(<<"un", "not", <<"un", "not", var("x")>>>>, <<print(num(8))>>), return(var("y")) >>) >>,
      << func("f", << <<"k", "i">>, <<"a", "i">> >>, << last(<<return(num(0))>>), return(bin("sub", var("a"), again(1, var("a")))) >>),
         main(<< let("x", input), return(call("f", <<plus("x", 2), num(5)>>)) >>) >>,
      << func("f", << <<"d", "i">>, <<"k", "i">> >>, << when(less("k", num(2)), <<return(var("k"))>>),
              return(bin("add", call("f", <<num(9), plus("k", -1)>>), call("f", <<num(8), plus("k", -2)>>))) >>),
         main(<< let("x", input), return(call("f", <<num(5), plus("x", 3)>>)) >>) >> }

(* Two more: the same store in a loop that may go round no time, and in    *)
(* one that reads its place first.  They go wrong sooner than those above, *)
(* in LoopInvariant, and are kept apart so that the array is shown.        *)
Moved ==
    { << main(<< let("x", input), array("a", <<2>>, list(<<num(3)>>)), storing(<<>>), return(at("a", <<num(1)>>)) >>) >>,
      << main(<< let("x", bin("add", input, num(1))), array("a", <<2>>, list(<<num(3)>>)),
                 storing(<<print(at("a", <<num(1)>>))>>), return(num(0)) >>) >> }

(* Programs that leave a loop by break or by return from both arms of an   *)
(* if: once the blocks that only jump are gone, the branches go to the     *)
(* block after the loop and to the exit.                                   *)
leave(k, out) == either(bin("gth", var("x"), num(k)), <<<<"break">>>>, <<out>>)
Left ==
    { << main(<< let("x", input),
                 while(bin("gth", var("x"), num(0)), <<either(bin("gth", var("x"), num(1)), <<leave(2, out)>>, <<leave(3, out)>>)>>),
                 print(var("x")), return(num(0)) >>) >> : out \in {<<"break">>, return(num(0)), return(var("x"))} }

=============================================================================
