-------------------------- MODULE PhiRemovalProofs --------------------------
(***************************************************************************)
(* On every path the uops compute what the function computes.  A block of  *)
(* uops is compared with the block it comes from at whatever values it is  *)
(* entered, so that the comparison can be carried from one step of the     *)
(* translation to the next, and at the end from block to block along a     *)
(* path.                                                                   *)
(***************************************************************************)
EXTENDS PhiRemoval, SequenceTheorems, WellFoundedInduction, TLAPS

-----------------------------------------------------------------------------

AnyUop == [do : {"li", "lui", "addi", "mv", "op", "end"}, res : Nat, regs : Seq(Nat),
           imm : [cls : {"var", "small", "int", "float"}, key : Nat, low : Nat]]

Data == Seq([arg : Operands(fn), from : Blocks]) \ {<<>>}

Shape ==
    /\ fn \in Functions
    /\ phase \in {"translate", "dephi", "done"}
    /\ block \in Blocks
    /\ inst \in 1 .. Len(fn.code[block]) + 1
    /\ uops \in [Blocks -> Seq(AnyUop)]
    /\ \A b \in Blocks : b > block => uops[b] = <<>>
    /\ count \in Nat /\ fn.vars <= count
    /\ phase = "translate" => datum = <<1, 1>>
    /\ phase /= "translate" => block = Len(fn.code) /\ inst = Len(fn.code[block]) + 1

(* The phis met so far, each with a register of its own.                   *)
PhisInv ==
    /\ phis \in Seq([data : Data, mux : fn.vars + 1 .. count])
    /\ \A p, q \in DOMAIN phis : phis[p].mux = phis[q].mux => p = q
    /\ \A p \in DOMAIN phis : \A m, n \in DOMAIN phis[p].data :
          phis[p].data[m].from = phis[p].data[n].from => m = n
    /\ datum \in (1 .. Len(phis) + 1) \X Nat
    /\ datum[1] \in DOMAIN phis => datum[2] \in DOMAIN phis[datum[1]].data

(* The first of them, or that there is none.                               *)
Headed(b) == fn.code[b][1].kind = "phi"
FirstInv ==
    IF phis = <<>> THEN \A b \in Blocks : b < block \/ (b = block /\ inst > 1) => ~Headed(b)
    ELSE \E b \in Blocks : /\ Headed(b) /\ phis[1].data = fn.code[b][1].data
                           /\ \A a \in Blocks : a < b => ~Headed(a)

(* What is in the caches is a constant of the block at hand, in a register *)
(* that nothing else is given to.                                          *)
Mentions(b, cls, key) ==
    \E i \in Range(fn.code[b]) :
        i.kind /= "phi" /\ \E k \in Consts(i) : i.args[k].cls = cls /\ i.args[k].key = key

CacheInv ==
    /\ \A key \in DOMAIN lui : lui[key] \in fn.vars + 1 .. count
    /\ \A key \in DOMAIN fimm : fimm[key] \in fn.vars + 1 .. count
    /\ datum = <<1, 1>> => /\ \A key \in DOMAIN lui : Mentions(block, "int", key)
                           /\ \A key \in DOMAIN fimm : Mentions(block, "float", key)
    /\ datum /= <<1, 1>> => lui = <<>> /\ fimm = <<>>

-----------------------------------------------------------------------------
(* A block of function f entered: D is the machine, E the values in SSA,   *)
(* its phis taken; c registers exist, ph is phi_vec.                       *)

IsPhi(f, b, k) == k \in DOMAIN f.code[b] /\ f.code[b][k].kind = "phi"

(* at[k] is where the phi k is in phi_vec, for the phis among the first n. *)
Listed(f, ph, b, n, at) ==
    \A k \in 1 .. n : IsPhi(f, b, k) => at[k] \in DOMAIN ph /\ ph[at[k]].data = f.code[b][k].data

Enters(f, ph, c, D, E, b, n, at) ==
    /\ 1 .. c \subseteq DOMAIN D.env
    /\ DOMAIN E.env = 1 .. f.vars
    /\ D.read = E.read
    /\ \A v \in 1 .. f.vars :
          (\A k \in 1 .. Len(f.code[b]) : IsPhi(f, b, k) => f.code[b][k].res /= v) => D.env[v] = E.env[v]
    /\ \A k \in 1 .. n : IsPhi(f, b, k) => D.env[ph[at[k]].mux] = E.env[f.code[b][k].res]

(* What is in the caches L and F is in the registers.                      *)
Upper(key) == Term("upper", key, <<>>)
CachesHold(L, F, env) ==
    /\ \A key \in DOMAIN L : env[L[key]] = Upper(key)
    /\ \A key \in DOMAIN F : env[F[key]] = ConstTerm(Const("float", key, 0))

(* d is the machine when n instructions have been translated and run, s    *)
(* the values when they have been executed.                                *)
Follows(f, c, L, F, D, E, b, n, d, s) ==
    /\ DOMAIN d.env = DOMAIN D.env /\ DOMAIN s.env = 1 .. f.vars
    /\ d.read = s.read
    /\ \A v \in 1 .. f.vars :
          (\A k \in n + 1 .. Len(f.code[b]) : IsPhi(f, b, k) => f.code[b][k].res /= v) => d.env[v] = s.env[v]
    /\ (\A k \in 1 .. n : IsPhi(f, b, k)) => s = E
    /\ \A r \in DOMAIN D.env : r \in Nat /\ r > c => d.env[r] = D.env[r]
    /\ CachesHold(L, F, d.env)

Open(f, ph, c, L, F, us, b, n, at) ==
    /\ Listed(f, ph, b, n, at)
    /\ \A D, E : Enters(f, ph, c, D, E, b, n, at) =>
          Follows(f, c, L, F, D, E, b, n, Ran(D, us), Meant(E, f.code[b], n))

OpenInv ==
    phase = "translate" /\ inst <= Len(fn.code[block]) =>
        \E at : Open(fn, phis, count, lui, fimm, uops[block], block, inst - 1, at)

(* A block translated to the end, with the copies it has got so far: d is  *)
(* the machine before its last uop u, and dt is how far dephi is.          *)
Copied(dt, p, j) == p < dt[1] \/ (p = dt[1] /\ j < dt[2])

Leaves(f, ph, dt, D, b, d, u, s) ==
    /\ DOMAIN d.env = DOMAIN D.env /\ DOMAIN s.env = 1 .. f.vars
    /\ \A v \in 1 .. f.vars : d.env[v] = s.env[v]
    /\ s.read = Append(d.read, [k \in DOMAIN u.regs |-> d.env[u.regs[k]]])
    /\ \A p \in DOMAIN ph : \A j \in DOMAIN ph[p].data :
          Copied(dt, p, j) /\ ph[p].data[j].from = b =>
              d.env[ph[p].mux] = Value(s.env, ph[p].data[j].arg)

(* body is the block without its last uop u.                               *)
Closed(f, ph, c, dt, body, u, b, at) ==
    /\ Listed(f, ph, b, Len(f.code[b]), at)
    /\ u.do = "end"
    /\ \A k \in DOMAIN u.regs : u.regs[k] \in 1 .. c /\ \A p \in DOMAIN ph : ph[p].mux /= u.regs[k]
    /\ \A D, E : Enters(f, ph, c, D, E, b, Len(f.code[b]), at) =>
          Leaves(f, ph, dt, D, b, Ran(D, body), u, Meant(E, f.code[b], Len(f.code[b])))

Complete(b) == b < block \/ (b = block /\ inst = Len(fn.code[block]) + 1)
ClosedInv ==
    \A b \in Blocks : Complete(b) =>
        /\ uops[b] /= <<>>
        /\ \E at : Closed(fn, phis, count, datum, Front(uops[b]), Last(uops[b]), b, at)

IInv == Shape /\ PhisInv /\ FirstInv /\ CacheInv /\ OpenInv /\ ClosedInv

-----------------------------------------------------------------------------
(* A set of numbers in which no number is the smallest is empty.           *)
LEMMA Smallest ==
    ASSUME NEW T \in SUBSET Nat, 0 \notin T, \A n \in Nat : n \notin T => n + 1 \notin T
    PROVE  T = {}
<1> SUFFICES ASSUME T /= {} PROVE FALSE
    OBVIOUS
<1>1. IsWellFoundedOn(OpToRel(<, Nat), Nat)
    BY NatLessThanWellFounded
<1>2. PICK r \in T : \A q \in T : <<q, r>> \notin OpToRel(<, Nat)
    BY <1>1, WFMin
<1>3. r \in Nat /\ r /= 0 /\ r - 1 \in Nat /\ r - 1 < r
    OBVIOUS
<1>4. r - 1 \notin T
    BY <1>2, <1>3 DEF OpToRel
<1>5. (r - 1) + 1 \notin T
    BY <1>3, <1>4
<1> QED
    BY <1>3, <1>5

(* A run of uops, one uop after the other.                                 *)
RanSteps(r, a, code) ==
    /\ r[0] = a
    /\ Ran(a, code) = r[Len(code)]
    /\ \A n \in 1 .. Len(code) : r[n] = Executed(r[n - 1], code[n])

LEMMA RanHasSteps ==
    ASSUME NEW U, NEW code \in Seq(U), NEW a
    PROVE  \E r : RanSteps(r, a, code)
<1> DEFINE Step(x, n) == Executed(x, code[n])
           Rule(f, n) == [i \in 0 .. n |-> IF i = 0 THEN a ELSE Step(f[i - 1], i)]
           T == {n \in Nat : ~\E f : f = Rule(f, n)}
<1>1. Ran(a, code) = (CHOOSE f : f = Rule(f, Len(code)))[Len(code)]
    BY DEF Ran
<1> HIDE DEF Step
<1>2. 0 \notin T
  <2>1. [i \in 0 .. 0 |-> a] = Rule([i \in 0 .. 0 |-> a], 0)
      OBVIOUS
  <2> QED
      BY <2>1
<1>3. ASSUME NEW n \in Nat, n \notin T PROVE n + 1 \notin T
  <2>1. PICK f : f = Rule(f, n)
      BY <1>3
  <2> DEFINE g == [i \in 0 .. n + 1 |-> IF i = n + 1 THEN Step(f[i - 1], i) ELSE f[i]]
  <2>2. ASSUME NEW i \in 0 .. n + 1
        PROVE g[i] = IF i = 0 THEN a ELSE Step(g[i - 1], i)
    <3>1. CASE i = n + 1
        BY <3>1
    <3>2. CASE i \in 1 .. n
      <4>1. g[i] = f[i] /\ g[i - 1] = f[i - 1]
          BY <3>2
      <4>2. f[i] = Step(f[i - 1], i)
          BY <2>1, <3>2
      <4> QED
          BY <3>2, <4>1, <4>2
    <3>3. CASE i = 0
        BY <2>1, <3>3
    <3> QED
        BY <3>1, <3>2, <3>3
  <2>3. g = Rule(g, n + 1)
      BY <2>2
  <2> QED
      BY <2>3
<1>4. T = {}
  <2> HIDE DEF T
  <2>1. T \subseteq Nat
      BY DEF T
  <2> QED
      BY <1>2, <1>3, <2>1, Smallest
<1>5. Len(code) \in Nat
    OBVIOUS
<1>6. \E f : f = Rule(f, Len(code))
    BY <1>4, <1>5
<1> DEFINE r == CHOOSE f : f = Rule(f, Len(code))
<1>7. r = Rule(r, Len(code))
    BY <1>6
<1> HIDE DEF r
<1>8. r[0] = a
    BY <1>5, <1>7
<1>9. ASSUME NEW n \in 1 .. Len(code) PROVE r[n] = Step(r[n - 1], n)
    BY <1>5, <1>7
<1> QED
    BY <1>1, <1>8, <1>9 DEF RanSteps, Step, r

LEMMA RanNothing == \A a : Ran(a, <<>>) = a
<1> SUFFICES ASSUME NEW a PROVE Ran(a, <<>>) = a
    OBVIOUS
<1>1. <<>> \in Seq({0}) /\ Len(<<>>) = 0
    OBVIOUS
<1>2. PICK r : RanSteps(r, a, <<>>)
    BY <1>1, RanHasSteps
<1> QED
    BY <1>1, <1>2 DEF RanSteps

LEMMA RanOneMore ==
    ASSUME NEW U, NEW code \in Seq(U), NEW u \in U, NEW a
    PROVE  Ran(a, Append(code, u)) = Executed(Ran(a, code), u)
<1> DEFINE more == Append(code, u)
<1>1. /\ more \in Seq(U) /\ Len(more) = Len(code) + 1 /\ Len(code) \in Nat
      /\ \A n \in 1 .. Len(code) : more[n] = code[n]
      /\ more[Len(code) + 1] = u
    OBVIOUS
<1>2. PICK r : RanSteps(r, a, code)
    BY RanHasSteps
<1>3. PICK q : RanSteps(q, a, more)
    BY <1>1, RanHasSteps
<1> HIDE DEF more
<1> DEFINE T == {n \in Nat : n <= Len(code) /\ q[n] /= r[n]}
<1>4. 0 \notin T
    BY <1>2, <1>3 DEF RanSteps
<1>5. ASSUME NEW n \in Nat, n \notin T PROVE n + 1 \notin T
  <2> SUFFICES ASSUME n + 1 <= Len(code) PROVE q[n + 1] = r[n + 1]
      OBVIOUS
  <2>1. n + 1 \in 1 .. Len(code) /\ n + 1 \in 1 .. Len(more) /\ (n + 1) - 1 = n /\ q[n] = r[n]
      BY <1>1, <1>5
  <2>2. more[n + 1] = code[n + 1]
      BY <1>1, <2>1
  <2>3. \A k \in 1 .. Len(more) : q[k] = Executed(q[k - 1], more[k])
      BY <1>3 DEF RanSteps
  <2>4. \A k \in 1 .. Len(code) : r[k] = Executed(r[k - 1], code[k])
      BY <1>2 DEF RanSteps
  <2> QED
      BY <2>1, <2>2, <2>3, <2>4
<1>6. T = {}
  <2> HIDE DEF T
  <2>1. T \subseteq Nat
      BY DEF T
  <2> QED
      BY <1>4, <1>5, <2>1, Smallest
<1>7. q[Len(code)] = r[Len(code)]
    BY <1>1, <1>6
<1>8. q[Len(code) + 1] = Executed(q[Len(code)], u)
  <2>1. \A k \in 1 .. Len(more) : q[k] = Executed(q[k - 1], more[k])
      BY <1>3 DEF RanSteps
  <2>2. Len(code) + 1 \in 1 .. Len(more) /\ (Len(code) + 1) - 1 = Len(code)
      BY <1>1
  <2> QED
      BY <1>1, <2>1, <2>2
<1>9. Ran(a, code) = r[Len(code)] /\ Ran(a, more) = q[Len(more)]
    BY <1>2, <1>3 DEF RanSteps
<1> QED
    BY <1>1, <1>7, <1>8, <1>9 DEF more

(* The same of the first instructions of a block.                          *)
MeantSteps(r, a, code, n) ==
    /\ r[0] = a
    /\ Meant(a, code, n) = r[n]
    /\ \A k \in 1 .. n : r[k] = Meaning(r[k - 1], code[k])

LEMMA MeantHasSteps ==
    ASSUME NEW code, NEW a, NEW m \in Nat
    PROVE  \E r : MeantSteps(r, a, code, m)
<1> DEFINE Step(x, n) == Meaning(x, code[n])
           Rule(f, n) == [i \in 0 .. n |-> IF i = 0 THEN a ELSE Step(f[i - 1], i)]
           T == {n \in Nat : ~\E f : f = Rule(f, n)}
<1>1. Meant(a, code, m) = (CHOOSE f : f = Rule(f, m))[m]
    BY DEF Meant
<1> HIDE DEF Step
<1>2. 0 \notin T
  <2>1. [i \in 0 .. 0 |-> a] = Rule([i \in 0 .. 0 |-> a], 0)
      OBVIOUS
  <2> QED
      BY <2>1
<1>3. ASSUME NEW n \in Nat, n \notin T PROVE n + 1 \notin T
  <2>1. PICK f : f = Rule(f, n)
      BY <1>3
  <2> DEFINE g == [i \in 0 .. n + 1 |-> IF i = n + 1 THEN Step(f[i - 1], i) ELSE f[i]]
  <2>2. ASSUME NEW i \in 0 .. n + 1
        PROVE g[i] = IF i = 0 THEN a ELSE Step(g[i - 1], i)
    <3>1. CASE i = n + 1
        BY <3>1
    <3>2. CASE i \in 1 .. n
      <4>1. g[i] = f[i] /\ g[i - 1] = f[i - 1]
          BY <3>2
      <4>2. f[i] = Step(f[i - 1], i)
          BY <2>1, <3>2
      <4> QED
          BY <3>2, <4>1, <4>2
    <3>3. CASE i = 0
        BY <2>1, <3>3
    <3> QED
        BY <3>1, <3>2, <3>3
  <2>3. g = Rule(g, n + 1)
      BY <2>2
  <2> QED
      BY <2>3
<1>4. T = {}
  <2> HIDE DEF T
  <2>1. T \subseteq Nat
      BY DEF T
  <2> QED
      BY <1>2, <1>3, <2>1, Smallest
<1>5. \E f : f = Rule(f, m)
    BY <1>4
<1> DEFINE r == CHOOSE f : f = Rule(f, m)
<1>6. r = Rule(r, m)
    BY <1>5
<1> HIDE DEF r
<1>7. r[0] = a
    BY <1>6
<1>8. ASSUME NEW n \in 1 .. m PROVE r[n] = Step(r[n - 1], n)
    BY <1>6
<1> QED
    BY <1>1, <1>7, <1>8 DEF MeantSteps, Step, r

LEMMA MeantNothing == \A a, code : Meant(a, code, 0) = a
<1> SUFFICES ASSUME NEW a, NEW code PROVE Meant(a, code, 0) = a
    OBVIOUS
<1>1. PICK r : MeantSteps(r, a, code, 0)
    BY MeantHasSteps
<1> QED
    BY <1>1 DEF MeantSteps

LEMMA MeantOneMore ==
    ASSUME NEW code, NEW a, NEW m \in Nat
    PROVE  Meant(a, code, m + 1) = Meaning(Meant(a, code, m), code[m + 1])
<1>1. PICK r : MeantSteps(r, a, code, m)
    BY MeantHasSteps
<1>2. PICK q : MeantSteps(q, a, code, m + 1)
    BY MeantHasSteps
<1> DEFINE T == {n \in Nat : n <= m /\ q[n] /= r[n]}
<1>3. 0 \notin T
    BY <1>1, <1>2 DEF MeantSteps
<1>4. ASSUME NEW n \in Nat, n \notin T PROVE n + 1 \notin T
  <2> SUFFICES ASSUME n + 1 <= m PROVE q[n + 1] = r[n + 1]
      OBVIOUS
  <2>1. n + 1 \in 1 .. m /\ n + 1 \in 1 .. m + 1 /\ (n + 1) - 1 = n /\ q[n] = r[n]
      BY <1>4
  <2>2. \A k \in 1 .. m + 1 : q[k] = Meaning(q[k - 1], code[k])
      BY <1>2 DEF MeantSteps
  <2>3. \A k \in 1 .. m : r[k] = Meaning(r[k - 1], code[k])
      BY <1>1 DEF MeantSteps
  <2> QED
      BY <2>1, <2>2, <2>3
<1>5. T = {}
  <2> HIDE DEF T
  <2>1. T \subseteq Nat
      BY DEF T
  <2> QED
      BY <1>3, <1>4, <2>1, Smallest
<1>6. q[m] = r[m]
    BY <1>5
<1>7. q[m + 1] = Meaning(q[m], code[m + 1])
  <2>1. \A k \in 1 .. m + 1 : q[k] = Meaning(q[k - 1], code[k])
      BY <1>2 DEF MeantSteps
  <2>2. m + 1 \in 1 .. m + 1 /\ (m + 1) - 1 = m
      OBVIOUS
  <2> QED
      BY <2>1, <2>2
<1>8. Meant(a, code, m) = r[m] /\ Meant(a, code, m + 1) = q[m + 1]
    BY <1>1, <1>2 DEF MeantSteps
<1> QED
    BY <1>6, <1>7, <1>8

-----------------------------------------------------------------------------
(* What uops do to the machine.                                            *)

(* e is the machine a with value in register r.                            *)
Wrote(a, r, value, e) ==
    /\ e.read = a.read
    /\ DOMAIN e.env = DOMAIN a.env
    /\ e.env[r] = value
    /\ \A x \in DOMAIN a.env : x /= r => e.env[x] = a.env[x]

LEMMA WriteRuns ==
    ASSUME NEW a, NEW u, u.do /= "end", u.res \in DOMAIN a.env
    PROVE  Wrote(a, u.res, Result(a.env, u), Executed(a, u))
<1>1. Executed(a, u) = [env |-> [a.env EXCEPT ![u.res] = Result(a.env, u)], read |-> a.read]
    BY DEF Executed
<1> QED
    BY <1>1 DEF Wrote

(* One uop after some others, and two.                                     *)
LEMMA ThenOne ==
    ASSUME NEW code \in Seq(AnyUop), NEW u \in AnyUop, NEW a
    PROVE  code \o <<u>> \in Seq(AnyUop) /\ Ran(a, code \o <<u>>) = Executed(Ran(a, code), u)
<1>1. Append(code, u) = code \o <<u>> /\ Append(code, u) \in Seq(AnyUop)
    BY AppendIsConcat, AppendProperties
<1> QED
    BY <1>1, RanOneMore

LEMMA ThenTwo ==
    ASSUME NEW code \in Seq(AnyUop), NEW u \in AnyUop, NEW v \in AnyUop, NEW a
    PROVE  /\ code \o <<u, v>> \in Seq(AnyUop)
           /\ Ran(a, code \o <<u, v>>) = Executed(Executed(Ran(a, code), u), v)
<1> DEFINE U == AnyUop
           x == <<u>>
           y == <<v>>
<1>1. x \in Seq(U) /\ y \in Seq(U) /\ code \in Seq(U) /\ <<u, v>> = x \o y
  <2>1. u \in U /\ v \in U /\ code \in Seq(U)
      OBVIOUS
  <2> HIDE DEF U
  <2>2. x \in Seq(U) /\ y \in Seq(U)
      BY <2>1
  <2>3. <<u, v>> = x \o y
    <3>1. <<u, v>> = Append(x, v)
        OBVIOUS
    <3> QED
        BY <2>1, <2>2, <3>1, AppendIsConcat
  <2> QED
      BY <2>1, <2>2, <2>3
<1> HIDE DEF x, y, U
<1>2. (code \o x) \o y = code \o (x \o y)
    BY <1>1, ConcatAssociative
<1>3. code \o <<u, v>> = (code \o <<u>>) \o <<v>>
    BY <1>1, <1>2 DEF x, y
<1> DEFINE first == code \o <<u>>
<1>4. first \in Seq(AnyUop) /\ Ran(a, first) = Executed(Ran(a, code), u)
    BY ThenOne
<1> HIDE DEF first
<1>5. first \o <<v>> \in Seq(AnyUop) /\ Ran(a, first \o <<v>>) = Executed(Ran(a, first), v)
    BY <1>4, ThenOne
<1> QED
    BY <1>3, <1>4, <1>5 DEF first

(* The uops of Load are uops, and Load gives out one register at most.     *)
LEMMA LoadType ==
    ASSUME NEW c \in Operands(fn), IsConst(c), NEW dst \in Nat, NEW fresh \in Nat,
           \A key \in DOMAIN lui : lui[key] \in Nat, \A key \in DOMAIN fimm : fimm[key] \in Nat
    PROVE  /\ c.cls \in {"small", "int", "float"} /\ c.key \in Nat /\ c.low \in Nat
           /\ c \in [cls : {"var", "small", "int", "float"}, key : Nat, low : Nat]
           /\ c.cls = "float" => c = Const("float", c.key, 0)
           /\ Uop("li", dst, <<>>, c) \in AnyUop /\ Uop("lui", fresh, <<>>, c) \in AnyUop
           /\ Uop("addi", dst, <<fresh>>, c) \in AnyUop
           /\ c.key \in DOMAIN lui => Uop("addi", dst, <<lui[c.key]>>, c) \in AnyUop
           /\ c.key \in DOMAIN fimm => Uop("mv", dst, <<fimm[c.key]>>, NoImm) \in AnyUop
<1>1. /\ c.cls \in {"small", "int", "float"} /\ c.key \in Nat /\ c.low \in Nat
      /\ c \in [cls : {"var", "small", "int", "float"}, key : Nat, low : Nat]
      /\ c.cls = "float" => c = Const("float", c.key, 0)
    BY DEF Operands, IsConst, Const
<1>2. \A r \in Nat : <<r>> \in Seq(Nat)
    OBVIOUS
<1>3. <<>> \in Seq(Nat) /\ NoImm \in [cls : {"var", "small", "int", "float"}, key : Nat, low : Nat]
    BY DEF NoImm, Var
<1> QED
    BY <1>1, <1>2, <1>3 DEF Uop, AnyUop

LEMMA LoadForms ==
    ASSUME NEW c \in Operands(fn), IsConst(c), NEW dst, NEW fresh
    PROVE  LET l == Load(c, dst, fresh)
           IN  \/ /\ c.cls = "small"
                  /\ l = [uops |-> <<Uop("li", dst, <<>>, c)>>, lui |-> lui, fimm |-> fimm, new |-> 0]
               \/ /\ c.cls = "int" /\ c.key \in DOMAIN lui
                  /\ l = [uops |-> <<Uop("addi", dst, <<lui[c.key]>>, c)>>, lui |-> lui, fimm |-> fimm, new |-> 0]
               \/ /\ c.cls = "int" /\ c.key \notin DOMAIN lui
                  /\ l = [uops |-> <<Uop("lui", fresh, <<>>, c), Uop("addi", dst, <<fresh>>, c)>>,
                          lui |-> Entering(lui, c.key, fresh), fimm |-> fimm, new |-> 1]
               \/ /\ c.cls = "float" /\ c.key \in DOMAIN fimm
                  /\ l = [uops |-> <<Uop("mv", dst, <<fimm[c.key]>>, NoImm)>>, lui |-> lui, fimm |-> fimm, new |-> 0]
               \/ /\ c.cls = "float" /\ c.key \notin DOMAIN fimm
                  /\ l = [uops |-> <<Uop("li", dst, <<>>, c)>>, lui |-> lui,
                          fimm |-> Entering(fimm, c.key, dst), new |-> 0]
<1>1. c.cls \in {"small", "int", "float"}
    BY DEF Operands, IsConst
<1>2. CASE c.cls = "small"
    BY <1>2 DEF Load
<1>3. CASE c.cls = "int" /\ c.key \in DOMAIN lui
    BY <1>3 DEF Load
<1>4. CASE c.cls = "int" /\ c.key \notin DOMAIN lui
    BY <1>4 DEF Load
<1>5. CASE c.cls = "float" /\ c.key \in DOMAIN fimm
    BY <1>5 DEF Load
<1>6. CASE c.cls = "float" /\ c.key \notin DOMAIN fimm
    BY <1>6 DEF Load
<1> QED
    BY <1>1, <1>2, <1>3, <1>4, <1>5, <1>6

(* e is the machine d with constant c loaded, and l what Load returned.    *)
Loaded(d, e, c, dst, fresh, l) ==
    /\ e.read = d.read
    /\ DOMAIN e.env = DOMAIN d.env
    /\ e.env[dst] = ConstTerm(c)
    /\ \A x \in DOMAIN d.env : x /= dst /\ (l.new = 1 => x /= fresh) => e.env[x] = d.env[x]
    /\ \A key \in DOMAIN l.lui : \/ key \in DOMAIN lui /\ l.lui[key] = lui[key]
                                 \/ l.new = 1 /\ l.lui[key] = fresh /\ e.env[fresh] = Upper(key)
    /\ \A key \in DOMAIN l.fimm : \/ key \in DOMAIN fimm /\ l.fimm[key] = fimm[key]
                                  \/ l.fimm[key] = dst /\ e.env[dst] = ConstTerm(Const("float", key, 0))

LEMMA LoadWorks ==
    ASSUME NEW c \in Operands(fn), IsConst(c), NEW dst \in Nat, NEW fresh \in Nat, dst /= fresh,
           \A key \in DOMAIN lui : lui[key] \in Nat, \A key \in DOMAIN fimm : fimm[key] \in Nat,
           NEW code \in Seq(AnyUop), NEW D,
           dst \in DOMAIN Ran(D, code).env,
           Load(c, dst, fresh).new = 1 => fresh \in DOMAIN Ran(D, code).env,
           c.cls = "int" /\ c.key \in DOMAIN lui => Ran(D, code).env[lui[c.key]] = Upper(c.key),
           c.cls = "float" /\ c.key \in DOMAIN fimm =>
               Ran(D, code).env[fimm[c.key]] = ConstTerm(Const("float", c.key, 0))
    PROVE  /\ code \o Load(c, dst, fresh).uops \in Seq(AnyUop)
           /\ Loaded(Ran(D, code), Ran(D, code \o Load(c, dst, fresh).uops), c, dst, fresh, Load(c, dst, fresh))
<1> DEFINE l == Load(c, dst, fresh)
           d == Ran(D, code)
           e == Ran(D, code \o l.uops)
           li == Uop("li", dst, <<>>, c)
           addi == Uop("addi", dst, <<fresh>>, c)
           lu == Uop("lui", fresh, <<>>, c)
           again == Uop("addi", dst, <<lui[c.key]>>, c)
           mv == Uop("mv", dst, <<fimm[c.key]>>, NoImm)
<1> USE DEF l
<1>1. /\ c.cls = "float" => c = Const("float", c.key, 0)
      /\ li \in AnyUop /\ lu \in AnyUop /\ addi \in AnyUop
      /\ c.key \in DOMAIN lui => again \in AnyUop
      /\ c.key \in DOMAIN fimm => mv \in AnyUop
    BY LoadType
<1>2. /\ \A env : Result(env, li) = ConstTerm(c) /\ Result(env, lu) = Upper(c.key)
      /\ \A env : env[fresh] = Upper(c.key) => Result(env, addi) = ConstTerm(c)
      /\ \A env : env[lui[c.key]] = Upper(c.key) => Result(env, again) = ConstTerm(c)
      /\ \A env : Result(env, mv) = env[fimm[c.key]]
    BY DEF Result, Uop, Upper
<1>3. /\ li.do /= "end" /\ lu.do /= "end" /\ addi.do /= "end" /\ again.do /= "end" /\ mv.do /= "end"
      /\ li.res = dst /\ lu.res = fresh /\ addi.res = dst /\ again.res = dst /\ mv.res = dst
    BY DEF Uop
<1> HIDE DEF d, li, addi, lu, again, mv
<1>4. dst \in DOMAIN d.env /\ dst /= fresh /\ (l.new = 1 => fresh \in DOMAIN d.env)
    BY DEF d
<1>5. ASSUME NEW u \in AnyUop, u.do /= "end", u.res = dst, Result(d.env, u) = ConstTerm(c),
             l.uops = <<u>>, l.new = 0, l.lui = lui,
             \/ l.fimm = fimm
             \/ l.fimm = Entering(fimm, c.key, dst) /\ c = Const("float", c.key, 0)
      PROVE  code \o l.uops \in Seq(AnyUop) /\ Loaded(d, e, c, dst, fresh, l)
  <2>1. code \o l.uops \in Seq(AnyUop) /\ e = Executed(d, u)
      BY <1>5, ThenOne DEF d
  <2>2. Wrote(d, dst, ConstTerm(c), e)
      BY <1>4, <1>5, <2>1, WriteRuns
  <2> HIDE DEF l, e
  <2> QED
      BY <1>4, <1>5, <2>1, <2>2 DEF Loaded, Wrote, Entering
<1>6. CASE c.cls = "small" /\ l = [uops |-> <<li>>, lui |-> lui, fimm |-> fimm, new |-> 0]
    BY <1>1, <1>2, <1>3, <1>5, <1>6 DEF d
<1>7. CASE /\ c.cls = "int" /\ c.key \in DOMAIN lui
           /\ l = [uops |-> <<again>>, lui |-> lui, fimm |-> fimm, new |-> 0]
  <2>1. d.env[lui[c.key]] = Upper(c.key)
      BY <1>7 DEF d
  <2> QED
      BY <1>1, <1>2, <1>3, <1>5, <1>7, <2>1 DEF d
<1>8. CASE /\ c.cls = "int" /\ c.key \notin DOMAIN lui
           /\ l = [uops |-> <<lu, addi>>, lui |-> Entering(lui, c.key, fresh), fimm |-> fimm, new |-> 1]
  <2> DEFINE m == Executed(d, lu)
  <2>1. code \o l.uops \in Seq(AnyUop) /\ e = Executed(m, addi)
      BY <1>1, <1>8, ThenTwo DEF d
  <2>2. fresh \in DOMAIN d.env
      BY <1>4, <1>8
  <2>3. Wrote(d, fresh, Upper(c.key), m)
      BY <1>2, <1>3, <2>2, WriteRuns
  <2> HIDE DEF m, l, e
  <2>4. dst \in DOMAIN m.env /\ m.env[fresh] = Upper(c.key)
      BY <1>4, <2>3 DEF Wrote
  <2>5. Wrote(m, dst, ConstTerm(c), e)
      BY <1>2, <1>3, <2>1, <2>4, WriteRuns
  <2>6. e.env[fresh] = Upper(c.key)
      BY <1>4, <2>2, <2>3, <2>4, <2>5 DEF Wrote
  <2>7. l.new = 1 /\ l.fimm = fimm /\ l.lui = Entering(lui, c.key, fresh)
      BY <1>8
  <2>8. \A key \in DOMAIN l.lui : \/ key \in DOMAIN lui /\ l.lui[key] = lui[key]
                                  \/ l.new = 1 /\ l.lui[key] = fresh /\ e.env[fresh] = Upper(key)
      BY <2>6, <2>7 DEF Entering
  <2>9. /\ e.read = d.read /\ DOMAIN e.env = DOMAIN d.env /\ e.env[dst] = ConstTerm(c)
        /\ \A x \in DOMAIN d.env : x /= dst /\ x /= fresh => e.env[x] = d.env[x]
      BY <2>3, <2>5 DEF Wrote
  <2>10. Loaded(d, e, c, dst, fresh, l)
      BY <2>7, <2>8, <2>9 DEF Loaded
  <2> QED
      BY <2>1, <2>10 DEF d, e, l
<1>9. CASE /\ c.cls = "float" /\ c.key \in DOMAIN fimm
           /\ l = [uops |-> <<mv>>, lui |-> lui, fimm |-> fimm, new |-> 0]
  <2>1. d.env[fimm[c.key]] = ConstTerm(c)
      BY <1>1, <1>9 DEF d
  <2> QED
      BY <1>1, <1>2, <1>3, <1>5, <1>9, <2>1 DEF d
<1>10. CASE /\ c.cls = "float" /\ c.key \notin DOMAIN fimm
            /\ l = [uops |-> <<li>>, lui |-> lui, fimm |-> Entering(fimm, c.key, dst), new |-> 0]
    BY <1>1, <1>2, <1>3, <1>5, <1>10 DEF d
<1> QED
    BY <1>6, <1>7, <1>8, <1>9, <1>10, LoadForms DEF li, lu, addi, again, mv

-----------------------------------------------------------------------------
(* What the assumption on functions says of a block and of an instruction. *)

LEMMA BlockFacts ==
    ASSUME NEW f \in Functions
    PROVE  /\ f.vars \in Nat
           /\ Len(f.code) \in Nat /\ DOMAIN f.code = 1 .. Len(f.code) /\ 1 \in DOMAIN f.code
           /\ \A b \in DOMAIN f.code :
                /\ f.code[b] \in Seq(Instructions(f))
                /\ Len(f.code[b]) \in Nat /\ Len(f.code[b]) >= 1
                /\ DOMAIN f.code[b] = 1 .. Len(f.code[b])
<1> DEFINE I == Instructions(f)
<1>1. f.vars \in Nat /\ f.code \in Seq(Seq(I) \ {<<>>}) \ {<<>>}
    BY FunctionAssumption DEF IsFunction
<1> HIDE DEF I
<1>2. Len(f.code) \in Nat /\ DOMAIN f.code = 1 .. Len(f.code) /\ 1 \in DOMAIN f.code
    BY <1>1
<1>3. ASSUME NEW b \in DOMAIN f.code
      PROVE  /\ f.code[b] \in Seq(I) /\ Len(f.code[b]) \in Nat /\ Len(f.code[b]) >= 1
             /\ DOMAIN f.code[b] = 1 .. Len(f.code[b])
  <2>1. f.code[b] \in Seq(I) \ {<<>>}
      BY <1>1, <1>2
  <2> QED
      BY <2>1
<1> QED
    BY <1>1, <1>2, <1>3 DEF I

LEMMA InstFacts ==
    ASSUME NEW f \in Functions, NEW b \in DOMAIN f.code, NEW k \in DOMAIN f.code[b]
    PROVE  LET i == f.code[b][k]
           IN  /\ i.kind \in {"op", "end", "phi"}
               /\ i.kind = "end" <=> k = Len(f.code[b])
               /\ i.kind = "op" => i.res \in 1 .. f.vars /\ i.args \in Seq(Operands(f))
               /\ i.kind = "end" => i.res = 0 /\ i.args \in Seq(Operands(f))
               /\ i.kind /= "phi" => \A m, n \in Consts(i) : m = n
               /\ i.kind = "phi" =>
                   /\ i.res \in 1 .. f.vars
                   /\ i.data \in Seq([arg : Operands(f), from : DOMAIN f.code]) \ {<<>>}
                   /\ b /= 1
                   /\ \A j \in DOMAIN f.code[b] : j < k => f.code[b][j].kind = "phi" /\ f.code[b][j].res /= i.res
                   /\ \A m, n \in DOMAIN i.data : i.data[m].from = i.data[n].from => m = n
                   /\ \A p \in DOMAIN f.code : b \in f.succ[p] => \E n \in DOMAIN i.data : i.data[n].from = p
<1> DEFINE i == f.code[b][k]
<1>1. i \in Instructions(f)
    BY BlockFacts
<1>2. /\ i.kind = "end" <=> k = Len(f.code[b])
      /\ i.kind /= "phi" => \A m, n \in Consts(i) : m = n
      /\ i.kind = "phi" =>
          /\ b /= 1
          /\ \A j \in DOMAIN f.code[b] : j < k => f.code[b][j].kind = "phi" /\ f.code[b][j].res /= i.res
          /\ \A m, n \in DOMAIN i.data : i.data[m].from = i.data[n].from => m = n
          /\ \A p \in DOMAIN f.code : b \in f.succ[p] => \E n \in DOMAIN i.data : i.data[n].from = p
    BY FunctionAssumption DEF IsFunction
<1> HIDE DEF i
<1>3. /\ i.kind \in {"op", "end", "phi"}
      /\ i.kind = "op" => i.res \in 1 .. f.vars /\ i.args \in Seq(Operands(f))
      /\ i.kind = "end" => i.res = 0 /\ i.args \in Seq(Operands(f))
      /\ i.kind = "phi" => /\ i.res \in 1 .. f.vars
                           /\ i.data \in Seq([arg : Operands(f), from : DOMAIN f.code]) \ {<<>>}
    BY <1>1 DEF Instructions
<1> QED
    BY <1>2, <1>3 DEF i

-----------------------------------------------------------------------------
(* A block stays right when more registers and more phis exist.            *)

LEMMA EntersLess ==
    ASSUME NEW f, NEW b, NEW ph, NEW more, NEW c \in Nat, NEW c2 \in Nat, c <= c2,
           NEW n \in Nat, NEW n2 \in Nat, n <= n2, NEW at, NEW at2,
           \A k \in 1 .. n : IsPhi(f, b, k) => more[at2[k]].mux = ph[at[k]].mux,
           NEW D, NEW E, Enters(f, more, c2, D, E, b, n2, at2)
    PROVE  Enters(f, ph, c, D, E, b, n, at)
<1>1. 1 .. c \subseteq 1 .. c2 /\ 1 .. n \subseteq 1 .. n2
    OBVIOUS
<1> QED
    BY <1>1 DEF Enters

(* more is phi_vec ph, or ph and a phi with a new register.                *)
More(ph, more, c) ==
    /\ DOMAIN ph \subseteq DOMAIN more
    /\ \A p \in DOMAIN ph : more[p] = ph[p]
    /\ \A p \in DOMAIN more : p \notin DOMAIN ph => more[p].mux > c

LEMMA ClosedGrows ==
    ASSUME NEW f, NEW b, NEW ph, NEW more, NEW c \in Nat, NEW c2 \in Nat, c <= c2,
           More(ph, more, c), Len(f.code[b]) \in Nat,
           NEW dt, \A p \in DOMAIN more : \A j \in DOMAIN more[p].data : p \notin DOMAIN ph => ~Copied(dt, p, j),
           NEW body, NEW u, NEW at, Closed(f, ph, c, dt, body, u, b, at)
    PROVE  Closed(f, more, c2, dt, body, u, b, at)
<1> DEFINE m == Len(f.code[b])
<1>1. Listed(f, more, b, m, at) /\ \A k \in 1 .. m : IsPhi(f, b, k) => more[at[k]].mux = ph[at[k]].mux
    BY DEF Closed, Listed, More
<1>2. u.do = "end"
    BY DEF Closed
<1>3. ASSUME NEW k \in DOMAIN u.regs
      PROVE  u.regs[k] \in 1 .. c2 /\ \A p \in DOMAIN more : more[p].mux /= u.regs[k]
  <2>1. u.regs[k] \in 1 .. c /\ \A p \in DOMAIN ph : ph[p].mux /= u.regs[k]
      BY DEF Closed
  <2>2. \A p \in DOMAIN more : p \notin DOMAIN ph => more[p].mux > c
      BY DEF More
  <2>3. \A p \in DOMAIN ph : more[p] = ph[p]
      BY DEF More
  <2> QED
      BY <2>1, <2>2, <2>3
<1>4. ASSUME NEW D, NEW E, Enters(f, more, c2, D, E, b, m, at)
      PROVE  Leaves(f, more, dt, D, b, Ran(D, body), u, Meant(E, f.code[b], m))
  <2>1. Enters(f, ph, c, D, E, b, m, at)
      BY <1>1, <1>4, EntersLess
  <2>2. Leaves(f, ph, dt, D, b, Ran(D, body), u, Meant(E, f.code[b], m))
      BY <2>1 DEF Closed
  <2> QED
      BY <2>2 DEF Leaves, More
<1> QED
    BY <1>1, <1>2, <1>3, <1>4 DEF Closed

-----------------------------------------------------------------------------
(* The next instruction, once code has brought its operands to registers   *)
(* regs.                                                                   *)

ReadyAt(f, c, L, F, D, E, b, n, d, s, regs) ==
    /\ Follows(f, c, L, F, D, E, b, n, d, s)
    /\ \A k \in DOMAIN regs : d.env[regs[k]] = Value(s.env, f.code[b][n + 1].args[k])

Ready(f, ph, c, L, F, code, b, n, at, regs) ==
    /\ Listed(f, ph, b, n, at)
    /\ DOMAIN regs = DOMAIN f.code[b][n + 1].args
    /\ \A k \in DOMAIN regs : regs[k] \in 1 .. c /\ \A p \in DOMAIN ph : ph[p].mux /= regs[k]
    /\ \A D, E : Enters(f, ph, c, D, E, b, n, at) =>
          ReadyAt(f, c, L, F, D, E, b, n, Ran(D, code), Meant(E, f.code[b], n), regs)

(* Phis come first: after another instruction there is none.               *)
LEMMA NoPhiAfter ==
    ASSUME NEW f \in Functions, NEW b \in DOMAIN f.code, NEW m \in DOMAIN f.code[b], f.code[b][m].kind /= "phi"
    PROVE  \A k \in m .. Len(f.code[b]) : ~IsPhi(f, b, k)
<1> SUFFICES ASSUME NEW k \in m .. Len(f.code[b]), IsPhi(f, b, k) PROVE FALSE
    OBVIOUS
<1>1. DOMAIN f.code[b] = 1 .. Len(f.code[b]) /\ m \in Nat /\ m >= 1 /\ Len(f.code[b]) \in Nat
    BY BlockFacts
<1>2. k \in DOMAIN f.code[b] /\ f.code[b][k].kind = "phi"
    BY DEF IsPhi
<1>3. m /= k /\ m < k
    BY <1>1, <1>2
<1> QED
    BY <1>2, <1>3, InstFacts

(* The operands have their values: the instruction has its value.          *)
LEMMA SameArguments ==
    ASSUME NEW f, NEW b, NEW n, NEW regs, NEW d, NEW s,
           DOMAIN regs = DOMAIN f.code[b][n + 1].args,
           \A k \in DOMAIN regs : d.env[regs[k]] = Value(s.env, f.code[b][n + 1].args[k])
    PROVE  [k \in DOMAIN regs |-> d.env[regs[k]]] =
           [k \in DOMAIN f.code[b][n + 1].args |-> Value(s.env, f.code[b][n + 1].args[k])]
    OBVIOUS

LEMMA OpFollows ==
    ASSUME NEW f \in Functions, NEW b \in DOMAIN f.code, NEW n \in Nat, n + 1 \in DOMAIN f.code[b],
           f.code[b][n + 1].kind = "op",
           NEW c \in Nat, f.vars <= c, NEW ph, NEW at, NEW L, NEW F,
           \A key \in DOMAIN L : L[key] \in f.vars + 1 .. c, \A key \in DOMAIN F : F[key] \in f.vars + 1 .. c,
           NEW code \in Seq(AnyUop), NEW regs, Uop("op", f.code[b][n + 1].res, regs, NoImm) \in AnyUop,
           Ready(f, ph, c, L, F, code, b, n, at, regs)
    PROVE  Open(f, ph, c, L, F, code \o <<Uop("op", f.code[b][n + 1].res, regs, NoImm)>>, b, n + 1, at)
<1> DEFINE i == f.code[b][n + 1]
           u == Uop("op", i.res, regs, NoImm)
           us == code \o <<u>>
<1>1. i.res \in 1 .. f.vars /\ f.vars \in Nat
    BY BlockFacts, InstFacts
<1>2. ~IsPhi(f, b, n + 1) /\ \A k \in n + 1 .. Len(f.code[b]) : ~IsPhi(f, b, k)
  <2>1. \A k \in n + 1 .. Len(f.code[b]) : ~IsPhi(f, b, k)
      BY NoPhiAfter
  <2>2. n + 1 \in n + 1 .. Len(f.code[b])
      BY BlockFacts
  <2> QED
      BY <2>1, <2>2
<1>3. Listed(f, ph, b, n + 1, at)
  <2>1. Listed(f, ph, b, n, at) /\ \A k \in 1 .. n + 1 : k \in 1 .. n \/ k = n + 1
      BY DEF Ready
  <2> QED
      BY <1>2, <2>1 DEF Listed
<1>4. ASSUME NEW D, NEW E, Enters(f, ph, c, D, E, b, n + 1, at)
      PROVE  Follows(f, c, L, F, D, E, b, n + 1, Ran(D, us), Meant(E, f.code[b], n + 1))
  <2> DEFINE d == Ran(D, code)
             s == Meant(E, f.code[b], n)
             e == Ran(D, us)
             t == Meant(E, f.code[b], n + 1)
             value == Term("op", i.res, [k \in DOMAIN regs |-> d.env[regs[k]]])
  <2>1. Enters(f, ph, c, D, E, b, n, at)
      BY <1>4, EntersLess
  <2>2. ReadyAt(f, c, L, F, D, E, b, n, d, s, regs) /\ DOMAIN regs = DOMAIN i.args
      BY <2>1 DEF Ready
  <2>3. Follows(f, c, L, F, D, E, b, n, d, s)
      BY <2>2 DEF ReadyAt
  <2>4. e = Executed(d, u)
      BY ThenOne
  <2>5. t = Meaning(s, i)
      BY MeantOneMore
  <2>6. u.do /= "end" /\ u.res = i.res /\ Result(d.env, u) = value
      BY DEF Uop, Result
  <2>7. value = Term("op", i.res, [k \in DOMAIN i.args |-> Value(s.env, i.args[k])])
      BY <2>2, SameArguments DEF ReadyAt
  <2>8. t = [env |-> [s.env EXCEPT ![i.res] = value], read |-> s.read]
      BY <2>5, <2>7 DEF Meaning
  <2> HIDE DEF d, e, s, t, value, us, u, i
  <2>9. DOMAIN d.env = DOMAIN D.env /\ DOMAIN s.env = 1 .. f.vars /\ 1 .. c \subseteq DOMAIN D.env
      BY <2>1, <2>3 DEF Follows, Enters
  <2>10. u.res \in DOMAIN d.env
      BY <1>1, <2>6, <2>9
  <2>11. Wrote(d, i.res, value, e)
      BY <2>4, <2>6, <2>10, WriteRuns
  <2>12. DOMAIN e.env = DOMAIN D.env /\ DOMAIN t.env = 1 .. f.vars /\ e.read = t.read
      BY <2>3, <2>8, <2>9, <2>11 DEF Wrote, Follows
  <2>13. ASSUME NEW v \in 1 .. f.vars PROVE e.env[v] = t.env[v]
    <3>1. d.env[v] = s.env[v]
        BY <1>2, <2>3 DEF Follows
    <3>2. v \in DOMAIN d.env /\ v \in DOMAIN s.env
        BY <1>1, <2>9
    <3> QED
        BY <2>8, <2>11, <3>1, <3>2 DEF Wrote
  <2>14. ASSUME NEW r \in DOMAIN D.env, r \in Nat, r > c PROVE e.env[r] = D.env[r]
    <3>1. d.env[r] = D.env[r]
        BY <2>3, <2>14 DEF Follows
    <3>2. r \in DOMAIN d.env /\ r /= i.res
        BY <1>1, <2>9, <2>14
    <3> QED
        BY <2>11, <3>1, <3>2 DEF Wrote
  <2>15. CachesHold(L, F, e.env)
    <3>1. CachesHold(L, F, d.env)
        BY <2>3 DEF Follows
    <3>2. \A x \in f.vars + 1 .. c : e.env[x] = d.env[x]
        BY <1>1, <2>9, <2>11 DEF Wrote
    <3> QED
        BY <3>1, <3>2 DEF CachesHold
  <2>16. ~\A k \in 1 .. n + 1 : IsPhi(f, b, k)
      BY <1>2
  <2>17. (\A k \in 1 .. n + 1 : IsPhi(f, b, k)) => t = E
      BY <2>16
  <2>18. \A v \in 1 .. f.vars :
            (\A k \in (n + 1) + 1 .. Len(f.code[b]) : IsPhi(f, b, k) => f.code[b][k].res /= v) => e.env[v] = t.env[v]
      BY <2>13
  <2>19. \A r \in DOMAIN D.env : r \in Nat /\ r > c => e.env[r] = D.env[r]
      BY <2>14
  <2>20. Follows(f, c, L, F, D, E, b, n + 1, e, t)
      BY <2>12, <2>15, <2>17, <2>18, <2>19 DEF Follows
  <2> QED
      BY <2>20 DEF e, t
<1> QED
    BY <1>3, <1>4 DEF Open

LEMMA EndLeaves ==
    ASSUME NEW f \in Functions, NEW b \in DOMAIN f.code, NEW n \in Nat, n + 1 \in DOMAIN f.code[b],
           f.code[b][n + 1].kind = "end",
           NEW c \in Nat, f.vars <= c, NEW ph, NEW at, NEW L, NEW F,
           \A p \in DOMAIN ph : p \in Nat /\ p >= 1 /\ \A j \in DOMAIN ph[p].data : j \in Nat /\ j >= 1,
           NEW code \in Seq(AnyUop), NEW regs,
           Ready(f, ph, c, L, F, code, b, n, at, regs)
    PROVE  Closed(f, ph, c, <<1, 1>>, code, Uop("end", f.code[b][n + 1].res, regs, NoImm), b, at)
<1> DEFINE i == f.code[b][n + 1]
           u == Uop("end", i.res, regs, NoImm)
<1>1. n + 1 = Len(f.code[b]) /\ f.vars \in Nat
    BY BlockFacts, InstFacts
<1>2. \A k \in n + 1 .. Len(f.code[b]) : ~IsPhi(f, b, k)
    BY NoPhiAfter
<1>3. Listed(f, ph, b, n + 1, at)
  <2>1. Listed(f, ph, b, n, at) /\ \A k \in 1 .. n + 1 : k \in 1 .. n \/ k = n + 1
      BY DEF Ready
  <2> QED
      BY <1>1, <1>2, <2>1 DEF Listed
<1>4. u.do = "end" /\ u.regs = regs
    BY DEF Uop
<1>5. \A k \in DOMAIN regs : regs[k] \in 1 .. c /\ \A p \in DOMAIN ph : ph[p].mux /= regs[k]
    BY DEF Ready
<1>6. ASSUME NEW D, NEW E, Enters(f, ph, c, D, E, b, n + 1, at)
      PROVE  Leaves(f, ph, <<1, 1>>, D, b, Ran(D, code), u, Meant(E, f.code[b], n + 1))
  <2> DEFINE d == Ran(D, code)
             s == Meant(E, f.code[b], n)
             t == Meant(E, f.code[b], n + 1)
             args == [k \in DOMAIN i.args |-> Value(s.env, i.args[k])]
  <2>1. Enters(f, ph, c, D, E, b, n, at)
      BY <1>6, EntersLess
  <2>2. ReadyAt(f, c, L, F, D, E, b, n, d, s, regs) /\ DOMAIN regs = DOMAIN i.args
      BY <2>1 DEF Ready
  <2>3. Follows(f, c, L, F, D, E, b, n, d, s)
      BY <2>2 DEF ReadyAt
  <2>4. [k \in DOMAIN regs |-> d.env[regs[k]]] = args
      BY <2>2, SameArguments DEF ReadyAt
  <2>5. t = [env |-> s.env, read |-> Append(s.read, args)]
      BY MeantOneMore DEF Meaning
  <2> HIDE DEF d, s, t, u, i, args
  <2>6. \A p \in DOMAIN ph : \A j \in DOMAIN ph[p].data : ~Copied(<<1, 1>>, p, j)
      BY DEF Copied
  <2>7. ASSUME NEW v \in 1 .. f.vars PROVE d.env[v] = t.env[v]
      BY <1>2, <2>3, <2>5 DEF Follows
  <2>8. t.read = Append(d.read, [k \in DOMAIN u.regs |-> d.env[u.regs[k]]])
      BY <1>4, <2>3, <2>4, <2>5 DEF Follows
  <2>9. DOMAIN d.env = DOMAIN D.env /\ DOMAIN t.env = 1 .. f.vars
      BY <2>3, <2>5 DEF Follows
  <2>10. \A v \in 1 .. f.vars : d.env[v] = t.env[v]
      BY <2>7
  <2>11. \A p \in DOMAIN ph : \A j \in DOMAIN ph[p].data :
            Copied(<<1, 1>>, p, j) /\ ph[p].data[j].from = b => d.env[ph[p].mux] = Value(t.env, ph[p].data[j].arg)
      BY <2>6
  <2>12. Leaves(f, ph, <<1, 1>>, D, b, d, u, t)
      BY <2>8, <2>9, <2>10, <2>11 DEF Leaves
  <2> QED
      BY <2>12 DEF d, t
<1> HIDE DEF u
<1>7. \A D, E : Enters(f, ph, c, D, E, b, Len(f.code[b]), at) =>
         Leaves(f, ph, <<1, 1>>, D, b, Ran(D, code), u, Meant(E, f.code[b], Len(f.code[b])))
    BY <1>1, <1>6
<1>8. \A k \in DOMAIN u.regs : u.regs[k] \in 1 .. c /\ \A p \in DOMAIN ph : ph[p].mux /= u.regs[k]
    BY <1>4, <1>5
<1>9. Closed(f, ph, c, <<1, 1>>, code, u, b, at)
    BY <1>1, <1>3, <1>4, <1>7, <1>8 DEF Closed
<1> QED
    BY <1>9 DEF u

-----------------------------------------------------------------------------
(* The operands of the instruction at hand.                                *)

LEMMA Argument ==
    ASSUME NEW f, f.vars \in Nat, NEW a \in Operands(f)
    PROVE  ~IsConst(a) => a.key \in 1 .. f.vars /\ a.key \in Nat /\ \A env : Value(env, a) = env[a.key]
    BY DEF Operands, IsConst, Value

LEMMA ConstantArgument ==
    ASSUME NEW a, IsConst(a)
    PROVE  \A env : Value(env, a) = ConstTerm(a)
    BY DEF IsConst, Value

(* The part of the invariant that the translation of an instruction reads. *)
At(n, at) ==
    /\ Shape /\ PhisInv /\ CacheInv
    /\ phase = "translate" /\ inst \in DOMAIN fn.code[block] /\ n = inst - 1
    /\ Open(fn, phis, count, lui, fimm, uops[block], block, n, at)

LEMMA AtFacts ==
    ASSUME NEW n, NEW at, At(n, at)
    PROVE  /\ fn \in Functions /\ block \in Blocks /\ n \in Nat /\ n + 1 = inst
           /\ n + 1 \in DOMAIN fn.code[block] /\ Current = fn.code[block][n + 1]
           /\ fn.vars \in Nat /\ count \in Nat /\ fn.vars <= count
           /\ uops[block] \in Seq(AnyUop)
           /\ \A key \in DOMAIN lui : lui[key] \in fn.vars + 1 .. count /\ lui[key] \in Nat
           /\ \A key \in DOMAIN fimm : fimm[key] \in fn.vars + 1 .. count /\ fimm[key] \in Nat
           /\ \A p \in DOMAIN phis : phis[p].mux \in fn.vars + 1 .. count
<1>1. fn \in Functions /\ block \in Blocks /\ count \in Nat /\ fn.vars <= count /\ uops[block] \in Seq(AnyUop)
    BY DEF At, Shape
<1>2. fn.vars \in Nat /\ inst \in 1 .. Len(fn.code[block]) /\ Len(fn.code[block]) \in Nat
    BY <1>1, BlockFacts DEF At, Blocks
<1>3. n \in Nat /\ n + 1 = inst /\ n + 1 \in DOMAIN fn.code[block] /\ Current = fn.code[block][n + 1]
    BY <1>2 DEF At, Current
<1>4. /\ \A key \in DOMAIN lui : lui[key] \in fn.vars + 1 .. count
      /\ \A key \in DOMAIN fimm : fimm[key] \in fn.vars + 1 .. count
    BY DEF At, CacheInv
<1>5. ASSUME NEW p \in DOMAIN phis PROVE phis[p].mux \in fn.vars + 1 .. count
  <2> DEFINE M == fn.vars + 1 .. count
             R == [data : Data, mux : M]
  <2>1. phis \in Seq(R)
      BY DEF At, PhisInv
  <2> HIDE DEF M, R
  <2>2. phis[p] \in R
      BY <2>1
  <2> QED
      BY <2>2 DEF R, M
<1> QED
    BY <1>1, <1>2, <1>3, <1>4, <1>5

LEMMA PlainReady ==
    ASSUME NEW n, NEW at, At(n, at), Current.kind \in {"op", "end"}, Consts(Current) = {}
    PROVE  LET regs == [k \in DOMAIN Current.args |-> Current.args[k].key]
           IN  /\ regs \in Seq(Nat)
               /\ Ready(fn, phis, count, lui, fimm, uops[block], block, n, at, regs)
<1> DEFINE args == Current.args
           regs == [k \in DOMAIN args |-> args[k].key]
<1>1. /\ fn \in Functions /\ block \in Blocks /\ n \in Nat /\ n + 1 \in DOMAIN fn.code[block]
      /\ Current = fn.code[block][n + 1] /\ fn.vars \in Nat /\ count \in Nat /\ fn.vars <= count
      /\ \A p \in DOMAIN phis : phis[p].mux \in fn.vars + 1 .. count
    BY AtFacts
<1>2. args \in Seq(Operands(fn))
    BY <1>1, InstFacts DEF Blocks
<1>3. \A k \in DOMAIN args : args[k] \in Operands(fn) /\ ~IsConst(args[k])
    BY <1>2 DEF Consts
<1>4. ASSUME NEW k \in DOMAIN args
      PROVE  args[k].key \in 1 .. fn.vars /\ args[k].key \in Nat /\ \A env : Value(env, args[k]) = env[args[k].key]
    BY <1>1, <1>3, Argument
<1> HIDE DEF args
<1>5. regs \in Seq(Nat)
  <2>1. Len(args) \in Nat /\ DOMAIN args = 1 .. Len(args)
      BY <1>2
  <2>2. regs \in [1 .. Len(args) -> Nat]
      BY <1>4, <2>1
  <2> QED
      BY <2>1, <2>2, SeqDef
<1>6. \A k \in n + 1 .. Len(fn.code[block]) : ~IsPhi(fn, block, k)
    BY <1>1, NoPhiAfter DEF Blocks
<1>7. ASSUME NEW D, NEW E, Enters(fn, phis, count, D, E, block, n, at)
      PROVE  ReadyAt(fn, count, lui, fimm, D, E, block, n, Ran(D, uops[block]), Meant(E, fn.code[block], n), regs)
  <2> DEFINE d == Ran(D, uops[block])
             s == Meant(E, fn.code[block], n)
  <2>1. Follows(fn, count, lui, fimm, D, E, block, n, d, s)
      BY <1>7 DEF At, Open
  <2> HIDE DEF d, s
  <2>2. \A v \in 1 .. fn.vars : d.env[v] = s.env[v]
      BY <1>6, <2>1 DEF Follows
  <2>3. \A k \in DOMAIN regs : d.env[regs[k]] = Value(s.env, args[k])
      BY <1>4, <2>2
  <2>4. \A k \in DOMAIN regs : d.env[regs[k]] = Value(s.env, fn.code[block][n + 1].args[k])
      BY Zenon, <1>1, <2>3 DEF args
  <2>5. ReadyAt(fn, count, lui, fimm, D, E, block, n, d, s, regs)
      BY <2>1, <2>4 DEF ReadyAt
  <2> QED
      BY <2>5 DEF d, s
<1>8. \A k \in DOMAIN regs : regs[k] \in 1 .. count /\ \A p \in DOMAIN phis : phis[p].mux /= regs[k]
    BY <1>1, <1>4
<1>9. DOMAIN regs = DOMAIN fn.code[block][n + 1].args
    BY <1>1 DEF args
<1>10. Listed(fn, phis, block, n, at)
    BY DEF At, Open
<1> HIDE DEF regs
<1>11. Ready(fn, phis, count, lui, fimm, uops[block], block, n, at, regs)
    BY <1>7, <1>8, <1>9, <1>10 DEF Ready
<1> QED
    BY <1>5, <1>11 DEF regs, args

(* The same machine and values when a constant has been loaded.            *)
LEMMA LoadedFollows ==
    ASSUME NEW f, f.vars \in Nat, count \in Nat, f.vars <= count,
           \A key \in DOMAIN lui : lui[key] \in f.vars + 1 .. count,
           \A key \in DOMAIN fimm : fimm[key] \in f.vars + 1 .. count,
           NEW b, NEW n, NEW D, NEW E, NEW d, NEW e, NEW s, NEW c, NEW l, l.new \in {0, 1},
           1 .. count \subseteq DOMAIN D.env,
           Follows(f, count, lui, fimm, D, E, b, n, d, s),
           Loaded(d, e, c, count + 1, count + 2, l)
    PROVE  Follows(f, count + 1 + l.new, l.lui, l.fimm, D, E, b, n, e, s)
<1>1. DOMAIN e.env = DOMAIN D.env /\ DOMAIN d.env = DOMAIN D.env /\ DOMAIN s.env = 1 .. f.vars /\ e.read = s.read
    BY DEF Follows, Loaded
<1>2. \A x \in 1 .. count : e.env[x] = d.env[x]
    BY <1>1 DEF Loaded
<1>3. \A v \in 1 .. f.vars :
         (\A k \in n + 1 .. Len(f.code[b]) : IsPhi(f, b, k) => f.code[b][k].res /= v) => e.env[v] = s.env[v]
    BY <1>2 DEF Follows
<1>4. (\A k \in 1 .. n : IsPhi(f, b, k)) => s = E
    BY DEF Follows
<1>5. \A r \in DOMAIN D.env : r \in Nat /\ r > count + 1 + l.new => e.env[r] = D.env[r]
  <2> SUFFICES ASSUME NEW r \in DOMAIN D.env, r \in Nat, r > count + 1 + l.new PROVE e.env[r] = D.env[r]
      OBVIOUS
  <2>1. r /= count + 1 /\ (l.new = 1 => r /= count + 2) /\ r > count
      OBVIOUS
  <2>2. e.env[r] = d.env[r]
      BY <1>1, <2>1 DEF Loaded
  <2> QED
      BY <2>1, <2>2 DEF Follows
<1>6. CachesHold(lui, fimm, d.env)
    BY DEF Follows
<1>7. ASSUME NEW key \in DOMAIN l.lui PROVE e.env[l.lui[key]] = Upper(key)
  <2>1. CASE key \in DOMAIN lui /\ l.lui[key] = lui[key]
      BY <1>2, <1>6, <2>1 DEF CachesHold
  <2>2. CASE l.lui[key] = count + 2 /\ e.env[count + 2] = Upper(key)
      BY <2>2
  <2> QED
      BY <2>1, <2>2 DEF Loaded
<1>8. ASSUME NEW key \in DOMAIN l.fimm PROVE e.env[l.fimm[key]] = ConstTerm(Const("float", key, 0))
  <2>1. CASE key \in DOMAIN fimm /\ l.fimm[key] = fimm[key]
      BY <1>2, <1>6, <2>1 DEF CachesHold
  <2>2. CASE l.fimm[key] = count + 1 /\ e.env[count + 1] = ConstTerm(Const("float", key, 0))
      BY <2>2
  <2> QED
      BY <2>1, <2>2 DEF Loaded
<1>9. CachesHold(l.lui, l.fimm, e.env)
    BY <1>7, <1>8 DEF CachesHold
<1> QED
    BY <1>1, <1>3, <1>4, <1>5, <1>9 DEF Follows

(* What Load returns is uops, and one new register at most.                *)
LEMMA LoadUops ==
    ASSUME NEW c \in Operands(fn), IsConst(c), NEW dst \in Nat, NEW fresh \in Nat,
           \A key \in DOMAIN lui : lui[key] \in Nat, \A key \in DOMAIN fimm : fimm[key] \in Nat
    PROVE  Load(c, dst, fresh).uops \in Seq(AnyUop) /\ Load(c, dst, fresh).new \in {0, 1}
<1> DEFINE l == Load(c, dst, fresh)
           li == Uop("li", dst, <<>>, c)
           addi == Uop("addi", dst, <<fresh>>, c)
           lu == Uop("lui", fresh, <<>>, c)
           again == Uop("addi", dst, <<lui[c.key]>>, c)
           mv == Uop("mv", dst, <<fimm[c.key]>>, NoImm)
           U == AnyUop
<1>1. /\ li \in U /\ lu \in U /\ addi \in U
      /\ c.key \in DOMAIN lui => again \in U
      /\ c.key \in DOMAIN fimm => mv \in U
    BY LoadType
<1>2. /\ \/ l.uops = <<li>> \/ l.uops = <<lu, addi>>
         \/ c.key \in DOMAIN lui /\ l.uops = <<again>>
         \/ c.key \in DOMAIN fimm /\ l.uops = <<mv>>
      /\ l.new \in {0, 1}
    BY LoadForms
<1> HIDE DEF l, li, lu, addi, again, mv, U
<1>3. \A u, v \in U : <<u>> \in Seq(U) /\ <<u, v>> \in Seq(U)
    OBVIOUS
<1>4. l.uops \in Seq(U)
    BY <1>1, <1>2, <1>3
<1> QED
    BY <1>2, <1>4 DEF U, l

(* The registers that the caches name then.                                *)
LEMMA LoadBounds ==
    ASSUME NEW f, f.vars \in Nat, count \in Nat, f.vars <= count,
           \A key \in DOMAIN lui : lui[key] \in f.vars + 1 .. count,
           \A key \in DOMAIN fimm : fimm[key] \in f.vars + 1 .. count,
           NEW c \in Operands(fn), IsConst(c)
    PROVE  LET l == Load(c, count + 1, count + 2)
           IN  /\ l.new \in {0, 1} /\ l.uops \in Seq(AnyUop)
               /\ \A key \in DOMAIN l.lui : l.lui[key] \in f.vars + 1 .. count + 1 + l.new
               /\ \A key \in DOMAIN l.fimm : l.fimm[key] \in f.vars + 1 .. count + 1 + l.new
               /\ \A key \in DOMAIN l.lui : key \in DOMAIN lui \/ (c.cls = "int" /\ key = c.key)
               /\ \A key \in DOMAIN l.fimm : key \in DOMAIN fimm \/ (c.cls = "float" /\ key = c.key)
<1> DEFINE dst == count + 1
           fresh == count + 2
           l == Load(c, dst, fresh)
<1>1. l.new \in {0, 1} /\ l.uops \in Seq(AnyUop)
  <2>1. dst \in Nat /\ fresh \in Nat
      OBVIOUS
  <2>2. /\ \A key \in DOMAIN lui : lui[key] \in Nat
        /\ \A key \in DOMAIN fimm : fimm[key] \in Nat
      OBVIOUS
  <2> HIDE DEF dst, fresh
  <2> QED
      BY <2>1, <2>2, LoadUops
<1>2. /\ l.lui = lui \/ (l.lui = Entering(lui, c.key, fresh) /\ l.new = 1 /\ c.cls = "int")
      /\ l.fimm = fimm \/ (l.fimm = Entering(fimm, c.key, dst) /\ c.cls = "float")
  <2> HIDE DEF dst, fresh
  <2> DEFINE li == Uop("li", dst, <<>>, c)
             addi == Uop("addi", dst, <<fresh>>, c)
             lu == Uop("lui", fresh, <<>>, c)
             again == Uop("addi", dst, <<lui[c.key]>>, c)
             mv == Uop("mv", dst, <<fimm[c.key]>>, NoImm)
  <2>1. \/ l = [uops |-> <<li>>, lui |-> lui, fimm |-> fimm, new |-> 0]
        \/ l = [uops |-> <<again>>, lui |-> lui, fimm |-> fimm, new |-> 0]
        \/ /\ c.cls = "int"
           /\ l = [uops |-> <<lu, addi>>, lui |-> Entering(lui, c.key, fresh), fimm |-> fimm, new |-> 1]
        \/ l = [uops |-> <<mv>>, lui |-> lui, fimm |-> fimm, new |-> 0]
        \/ /\ c.cls = "float"
           /\ l = [uops |-> <<li>>, lui |-> lui, fimm |-> Entering(fimm, c.key, dst), new |-> 0]
      BY LoadForms
  <2> HIDE DEF l, li, addi, lu, again, mv
  <2> QED
      BY <2>1
<1> HIDE DEF l
<1>3. \A key \in DOMAIN l.lui : l.lui[key] \in f.vars + 1 .. count + 1 + l.new
    BY <1>1, <1>2 DEF Entering
<1>4. \A key \in DOMAIN l.fimm : l.fimm[key] \in f.vars + 1 .. count + 1 + l.new
    BY <1>1, <1>2 DEF Entering
<1>5. /\ \A key \in DOMAIN l.lui : key \in DOMAIN lui \/ (c.cls = "int" /\ key = c.key)
      /\ \A key \in DOMAIN l.fimm : key \in DOMAIN fimm \/ (c.cls = "float" /\ key = c.key)
    BY <1>2 DEF Entering
<1> QED
    BY <1>1, <1>3, <1>4, <1>5 DEF l

(* Constant c has been brought to a register, by the uops of l, and the    *)
(* operands of the instruction are in registers regs.                      *)
Brought(c, l, regs, n, at) ==
    /\ c \in Operands(fn) /\ IsConst(c) /\ l.new \in {0, 1}
    /\ \A key \in DOMAIN l.lui : key \in DOMAIN lui \/ Mentions(block, "int", key)
    /\ \A key \in DOMAIN l.fimm : key \in DOMAIN fimm \/ Mentions(block, "float", key)
    /\ uops[block] \o l.uops \in Seq(AnyUop)
    /\ regs \in Seq(Nat)
    /\ \A key \in DOMAIN l.lui : l.lui[key] \in fn.vars + 1 .. count + 1 + l.new
    /\ \A key \in DOMAIN l.fimm : l.fimm[key] \in fn.vars + 1 .. count + 1 + l.new
    /\ Ready(fn, phis, count + 1 + l.new, l.lui, l.fimm, uops[block] \o l.uops, block, n, at, regs)

LEMMA ConstReady ==
    ASSUME NEW n, NEW at, At(n, at), Current.kind \in {"op", "end"}, Consts(Current) /= {}
    PROVE  LET c == Current.args[CHOOSE k \in Consts(Current) : TRUE]
               l == Load(c, count + 1, count + 2)
               regs == [k \in DOMAIN Current.args |->
                           IF IsConst(Current.args[k]) THEN count + 1 ELSE Current.args[k].key]
           IN  Brought(c, l, regs, n, at)
<1> DEFINE args == Current.args
           c == args[CHOOSE k \in Consts(Current) : TRUE]
           l == Load(c, count + 1, count + 2)
           code == uops[block] \o l.uops
           regs == [k \in DOMAIN args |-> IF IsConst(args[k]) THEN count + 1 ELSE args[k].key]
<1>1. /\ fn \in Functions /\ block \in Blocks /\ n \in Nat /\ n + 1 \in DOMAIN fn.code[block]
      /\ Current = fn.code[block][n + 1] /\ fn.vars \in Nat /\ count \in Nat /\ fn.vars <= count
      /\ uops[block] \in Seq(AnyUop)
      /\ \A key \in DOMAIN lui : lui[key] \in fn.vars + 1 .. count /\ lui[key] \in Nat
      /\ \A key \in DOMAIN fimm : fimm[key] \in fn.vars + 1 .. count /\ fimm[key] \in Nat
      /\ \A p \in DOMAIN phis : phis[p].mux \in fn.vars + 1 .. count
    BY AtFacts
<1>2. args \in Seq(Operands(fn)) /\ \A k, m \in Consts(Current) : k = m
  <2> DEFINE i == fn.code[block][n + 1]
  <2>1. /\ i.kind = "op" => i.args \in Seq(Operands(fn))
        /\ i.kind = "end" => i.args \in Seq(Operands(fn))
        /\ i.kind /= "phi" => \A k, m \in Consts(i) : k = m
    <3>1. fn \in Functions /\ block \in DOMAIN fn.code /\ n + 1 \in DOMAIN fn.code[block]
        BY <1>1 DEF Blocks
    <3> QED
        BY <3>1, InstFacts
  <2>2. Current = i
      BY <1>1
  <2> HIDE DEF i
  <2> QED
      BY <2>1, <2>2
<1>3. /\ c \in Operands(fn) /\ IsConst(c)
      /\ \A k \in DOMAIN args : args[k] \in Operands(fn) /\ (IsConst(args[k]) => args[k] = c)
      /\ \E k \in Consts(Current) : args[k] = c
  <2> DEFINE one == CHOOSE k \in Consts(Current) : TRUE
  <2>1. one \in Consts(Current)
      OBVIOUS
  <2>2. ASSUME NEW k \in DOMAIN args PROVE args[k] \in Operands(fn) /\ (IsConst(args[k]) => k = one)
      BY <1>2, <2>1 DEF Consts
  <2>3. one \in DOMAIN args /\ IsConst(args[one])
      BY <2>1 DEF Consts
  <2> QED
      BY <2>1, <2>2, <2>3
<1>4. Current.kind /= "phi" /\ Current \in Range(fn.code[block]) /\ \E k \in Consts(Current) : Current.args[k] = c
    BY <1>1, <1>3 DEF Range
<1> HIDE DEF args, c
<1>5. Mentions(block, c.cls, c.key)
    BY <1>4 DEF Mentions
<1>6. /\ l.new \in {0, 1} /\ l.uops \in Seq(AnyUop)
      /\ \A key \in DOMAIN l.lui : l.lui[key] \in fn.vars + 1 .. count + 1 + l.new
      /\ \A key \in DOMAIN l.fimm : l.fimm[key] \in fn.vars + 1 .. count + 1 + l.new
      /\ \A key \in DOMAIN l.lui : key \in DOMAIN lui \/ (c.cls = "int" /\ key = c.key)
      /\ \A key \in DOMAIN l.fimm : key \in DOMAIN fimm \/ (c.cls = "float" /\ key = c.key)
    BY <1>1, <1>3, LoadBounds
<1> HIDE DEF l
<1>7. /\ \A key \in DOMAIN l.lui : key \in DOMAIN lui \/ Mentions(block, "int", key)
      /\ \A key \in DOMAIN l.fimm : key \in DOMAIN fimm \/ Mentions(block, "float", key)
    BY <1>6, <1>5
<1>8. ASSUME NEW k \in DOMAIN args
      PROVE  /\ IsConst(args[k]) => regs[k] = count + 1 /\ \A env : Value(env, args[k]) = ConstTerm(c)
             /\ ~IsConst(args[k]) => /\ regs[k] \in 1 .. fn.vars
                                     /\ \A env : Value(env, args[k]) = env[regs[k]]
             /\ regs[k] \in Nat
  <2>1. CASE IsConst(args[k])
      BY <1>1, <1>3, <2>1, ConstantArgument
  <2>2. CASE ~IsConst(args[k])
      BY <1>1, <1>3, <2>2, Argument
  <2> QED
      BY <2>1, <2>2
<1>9. regs \in Seq(Nat)
  <2>1. Len(args) \in Nat /\ DOMAIN args = 1 .. Len(args)
      BY <1>2
  <2>2. regs \in [1 .. Len(args) -> Nat]
      BY <1>8, <2>1
  <2> QED
      BY <2>1, <2>2, SeqDef
<1>10. \A k \in n + 1 .. Len(fn.code[block]) : ~IsPhi(fn, block, k)
    BY <1>1, NoPhiAfter DEF Blocks
<1>11. DOMAIN regs = DOMAIN args
    OBVIOUS
<1> HIDE DEF regs
<1>12. ASSUME NEW D, 1 .. count + 1 + l.new \subseteq DOMAIN D.env,
              NEW E, Follows(fn, count, lui, fimm, D, E, block, n, Ran(D, uops[block]), Meant(E, fn.code[block], n))
       PROVE  /\ code \in Seq(AnyUop)
              /\ Loaded(Ran(D, uops[block]), Ran(D, code), c, count + 1, count + 2, l)
  <2> DEFINE d == Ran(D, uops[block])
  <2>1. DOMAIN d.env = DOMAIN D.env /\ CachesHold(lui, fimm, d.env)
      BY <1>12 DEF Follows
  <2>2. count + 1 \in DOMAIN d.env /\ (l.new = 1 => count + 2 \in DOMAIN d.env)
    <3>1. count \in Nat /\ l.new \in {0, 1} /\ 1 .. count + 1 + l.new \subseteq DOMAIN d.env
        BY <1>1, <1>6, <1>12, <2>1
    <3> HIDE DEF d
    <3> QED
        BY <3>1
  <2>3. /\ c.key \in DOMAIN lui => d.env[lui[c.key]] = Upper(c.key)
        /\ c.key \in DOMAIN fimm => d.env[fimm[c.key]] = ConstTerm(Const("float", c.key, 0))
      BY <2>1 DEF CachesHold
  <2>4. count + 1 \in Nat /\ count + 2 \in Nat /\ count + 1 /= count + 2
      BY <1>1
  <2> QED
      BY <1>1, <1>3, <2>2, <2>3, <2>4, LoadWorks DEF l
<1>13. code \in Seq(AnyUop)
  <2> DEFINE U == AnyUop
  <2>1. uops[block] \in Seq(U) /\ l.uops \in Seq(U)
      BY <1>1, <1>6
  <2> HIDE DEF U
  <2>2. code \in Seq(U)
      BY <2>1
  <2> QED
      BY <2>2 DEF U
<1>14. ASSUME NEW D, NEW E, Enters(fn, phis, count + 1 + l.new, D, E, block, n, at)
       PROVE  ReadyAt(fn, count + 1 + l.new, l.lui, l.fimm, D, E, block, n, Ran(D, code), Meant(E, fn.code[block], n), regs)
  <2> DEFINE d == Ran(D, uops[block])
             e == Ran(D, code)
             s == Meant(E, fn.code[block], n)
  <2>1. count + 1 + l.new \in Nat /\ count <= count + 1 + l.new
      BY <1>1, <1>6
  <2>2. Enters(fn, phis, count, D, E, block, n, at)
    <3>1. n <= n /\ \A k \in 1 .. n : IsPhi(fn, block, k) => phis[at[k]].mux = phis[at[k]].mux
        BY <1>1
    <3> QED
        BY <1>1, <1>14, <2>1, <3>1, EntersLess
  <2>3. Follows(fn, count, lui, fimm, D, E, block, n, d, s)
      BY <2>2 DEF At, Open
  <2>4. Loaded(d, e, c, count + 1, count + 2, l)
    <3>1. 1 .. count + 1 + l.new \subseteq DOMAIN D.env
        BY <1>14 DEF Enters
    <3> QED
        BY <1>12, <2>3, <3>1
  <2> HIDE DEF d, e, s
  <2>5. Follows(fn, count + 1 + l.new, l.lui, l.fimm, D, E, block, n, e, s)
    <3>1. 1 .. count \subseteq DOMAIN D.env
        BY <2>2 DEF Enters
    <3> QED
        BY <1>1, <1>6, <2>3, <2>4, <3>1, LoadedFollows
  <2>6. ASSUME NEW k \in DOMAIN regs PROVE e.env[regs[k]] = Value(s.env, args[k])
    <3>1. CASE IsConst(args[k])
      <4>1. e.env[count + 1] = ConstTerm(c)
          BY <2>4 DEF Loaded
      <4> QED
          BY <1>8, <1>11, <3>1, <4>1
    <3>2. CASE ~IsConst(args[k])
      <4>1. regs[k] \in 1 .. fn.vars /\ Value(s.env, args[k]) = s.env[regs[k]]
          BY <1>8, <1>11, <3>2
      <4>2. e.env[regs[k]] = s.env[regs[k]]
          BY <1>10, <2>5, <4>1 DEF Follows
      <4> QED
          BY <4>1, <4>2
    <3> QED
        BY <3>1, <3>2
  <2>7. \A k \in DOMAIN regs : e.env[regs[k]] = Value(s.env, fn.code[block][n + 1].args[k])
      BY <1>1, <2>6 DEF args
  <2>8. ReadyAt(fn, count + 1 + l.new, l.lui, l.fimm, D, E, block, n, e, s, regs)
      BY <2>5, <2>7 DEF ReadyAt
  <2> QED
      BY <2>8 DEF d, e, s
<1>15. \A k \in DOMAIN regs : regs[k] \in 1 .. count + 1 + l.new /\ \A p \in DOMAIN phis : phis[p].mux /= regs[k]
  <2> SUFFICES ASSUME NEW k \in DOMAIN regs
               PROVE  regs[k] \in 1 .. count + 1 + l.new /\ \A p \in DOMAIN phis : phis[p].mux /= regs[k]
      OBVIOUS
  <2>1. regs[k] = count + 1 \/ regs[k] \in 1 .. fn.vars
      BY <1>8, <1>11
  <2> QED
      BY <1>1, <1>6, <2>1
<1>16. DOMAIN regs = DOMAIN fn.code[block][n + 1].args
    BY <1>1, <1>11 DEF args
<1>17. Listed(fn, phis, block, n, at)
    BY DEF At, Open
<1> HIDE DEF code
<1>18. Ready(fn, phis, count + 1 + l.new, l.lui, l.fimm, code, block, n, at, regs)
    BY <1>14, <1>15, <1>16, <1>17 DEF Ready
<1>19. uops[block] \o l.uops \in Seq(AnyUop)
    BY <1>13 DEF code
<1>20. Ready(fn, phis, count + 1 + l.new, l.lui, l.fimm, uops[block] \o l.uops, block, n, at, regs)
    BY <1>18 DEF code
<1>21. Brought(c, l, regs, n, at)
    BY Zenon, <1>3, <1>6, <1>7, <1>9, <1>19, <1>20 DEF Brought
<1> QED
    BY Zenon, <1>21 DEF regs, l, c, args

LEMMA PhiReady ==
    ASSUME NEW n, NEW at, At(n, at), Current.kind = "phi", DOMAIN phis = 1 .. Len(phis), Len(phis) \in Nat
    PROVE  LET u == Uop("mv", Current.res, <<count + 1>>, NoImm)
               more == Append(phis, [data |-> Current.data, mux |-> count + 1])
           IN  /\ u \in AnyUop
               /\ \E at2 : Open(fn, more, count + 1, lui, fimm, uops[block] \o <<u>>, block, n + 1, at2)
<1> DEFINE i == fn.code[block][n + 1]
           m == count + 1
           u == Uop("mv", i.res, <<m>>, NoImm)
           us == uops[block] \o <<u>>
           phi == [data |-> i.data, mux |-> m]
           more == Append(phis, phi)
           at2 == [k \in 1 .. n + 1 |-> IF k = n + 1 THEN Len(phis) + 1 ELSE at[k]]
<1>1. /\ fn \in Functions /\ block \in Blocks /\ n \in Nat /\ n + 1 \in DOMAIN fn.code[block]
      /\ Current = i /\ fn.vars \in Nat /\ count \in Nat /\ fn.vars <= count
      /\ uops[block] \in Seq(AnyUop)
      /\ \A key \in DOMAIN lui : lui[key] \in fn.vars + 1 .. count /\ lui[key] \in Nat
      /\ \A key \in DOMAIN fimm : fimm[key] \in fn.vars + 1 .. count /\ fimm[key] \in Nat
    BY AtFacts
<1>2. i.res \in 1 .. fn.vars /\ \A k \in 1 .. n : IsPhi(fn, block, k)
  <2> SUFFICES i.res \in 1 .. fn.vars /\ \A k \in DOMAIN fn.code[block] : k < n + 1 => fn.code[block][k].kind = "phi"
    <3>1. Len(fn.code[block]) \in Nat /\ DOMAIN fn.code[block] = 1 .. Len(fn.code[block])
        BY <1>1, BlockFacts DEF Blocks
    <3>2. \A k \in 1 .. n : k \in DOMAIN fn.code[block] /\ k < n + 1
        BY <1>1, <3>1
    <3> QED
        BY <3>2 DEF IsPhi
  <2> QED
      BY <1>1, InstFacts DEF Blocks
<1>3. u \in AnyUop
  <2>1. <<m>> \in Seq(Nat) /\ i.res \in Nat
      BY <1>1, <1>2
  <2> QED
      BY <2>1 DEF AnyUop, Uop, NoImm, Var
<1>4. IsPhi(fn, block, n + 1)
    BY <1>1 DEF IsPhi
<1> HIDE DEF i
<1>5. /\ DOMAIN more = 1 .. Len(phis) + 1 /\ \A p \in DOMAIN phis : p \in DOMAIN more /\ more[p] = phis[p]
      /\ Len(phis) + 1 \in DOMAIN more /\ more[Len(phis) + 1] = phi
  <2> HIDE DEF phi
  <2> QED
      OBVIOUS
<1> HIDE DEF more
<1>6. \A k \in 1 .. n : k \in 1 .. n + 1 /\ at2[k] = at[k]
    BY <1>1
<1>7. at2[n + 1] = Len(phis) + 1
    BY <1>1
<1> HIDE DEF at2
<1>8. Listed(fn, phis, block, n, at)
    BY DEF At, Open
<1>9. Listed(fn, more, block, n + 1, at2)
  <2>1. ASSUME NEW k \in 1 .. n, IsPhi(fn, block, k)
        PROVE  at2[k] \in DOMAIN more /\ more[at2[k]].data = fn.code[block][k].data
      BY <1>5, <1>6, <1>8, <2>1 DEF Listed
  <2>2. at2[n + 1] \in DOMAIN more /\ more[at2[n + 1]].data = fn.code[block][n + 1].data
      BY <1>5, <1>7 DEF i
  <2>3. \A k \in 1 .. n + 1 : k \in 1 .. n \/ k = n + 1
      BY <1>1
  <2> QED
      BY <2>1, <2>2, <2>3 DEF Listed
<1>10. ASSUME NEW D, NEW E, Enters(fn, more, m, D, E, block, n + 1, at2)
       PROVE  Follows(fn, m, lui, fimm, D, E, block, n + 1, Ran(D, us), Meant(E, fn.code[block], n + 1))
  <2> DEFINE d == Ran(D, uops[block])
             e == Ran(D, us)
             s == Meant(E, fn.code[block], n)
             t == Meant(E, fn.code[block], n + 1)
  <2>1. \A k \in 1 .. n : IsPhi(fn, block, k) => more[at2[k]].mux = phis[at[k]].mux
      BY <1>5, <1>6, <1>8 DEF Listed
  <2>2. Enters(fn, phis, count, D, E, block, n, at)
      BY <1>1, <1>10, <2>1, EntersLess
  <2>3. Follows(fn, count, lui, fimm, D, E, block, n, d, s)
      BY <2>2 DEF At, Open
  <2>4. e = Executed(d, u)
      BY <1>1, <1>3, ThenOne
  <2>5. t = s
    <3>1. t = Meaning(s, fn.code[block][n + 1])
        BY <1>1, MeantOneMore
    <3>2. fn.code[block][n + 1].kind = "phi"
        BY <1>4 DEF IsPhi
    <3> QED
        BY <3>1, <3>2 DEF Meaning
  <2>6. u.do /= "end" /\ u.res = i.res /\ Result(d.env, u) = d.env[m]
      BY DEF Result, Uop
  <2> HIDE DEF d, e, s, t, u, us
  <2>7. s = E
      BY <1>2, <2>3 DEF Follows
  <2>8. D.env[m] = E.env[i.res]
    <3>1. n + 1 \in 1 .. n + 1
        BY <1>1
    <3>2. D.env[more[at2[n + 1]].mux] = E.env[fn.code[block][n + 1].res]
        BY <1>4, <1>10, <3>1 DEF Enters
    <3> QED
        BY <1>5, <1>7, <3>2 DEF i
  <2>9. DOMAIN d.env = DOMAIN D.env /\ 1 .. m \subseteq DOMAIN D.env /\ DOMAIN s.env = 1 .. fn.vars /\ d.read = s.read
      BY <1>10, <2>3 DEF Follows, Enters
  <2>10. m \in DOMAIN D.env /\ m \in Nat /\ m > count /\ d.env[m] = E.env[i.res]
    <3>1. m \in DOMAIN D.env /\ m \in Nat /\ m > count
        BY <1>1, <2>9
    <3>2. d.env[m] = D.env[m]
        BY <2>3, <3>1 DEF Follows
    <3> QED
        BY <2>8, <3>1, <3>2
  <2>11. Wrote(d, i.res, E.env[i.res], e)
    <3>1. u.res \in DOMAIN d.env
        BY <1>1, <1>2, <2>6, <2>9
    <3> QED
        BY <2>4, <2>6, <2>10, <3>1, WriteRuns
  <2>12. DOMAIN e.env = DOMAIN D.env /\ DOMAIN t.env = 1 .. fn.vars /\ e.read = t.read
      BY <2>5, <2>9, <2>11 DEF Wrote
  <2>13. ASSUME NEW v \in 1 .. fn.vars,
                \A k \in (n + 1) + 1 .. Len(fn.code[block]) : IsPhi(fn, block, k) => fn.code[block][k].res /= v
         PROVE  e.env[v] = t.env[v]
    <3>1. CASE v = i.res
        BY <2>5, <2>7, <2>11, <3>1 DEF Wrote
    <3>2. CASE v /= i.res
      <4>1. \A k \in n + 1 .. Len(fn.code[block]) : IsPhi(fn, block, k) => fn.code[block][k].res /= v
        <5>1. \A k \in n + 1 .. Len(fn.code[block]) : k = n + 1 \/ k \in (n + 1) + 1 .. Len(fn.code[block])
          <6>1. Len(fn.code[block]) \in Nat
              BY <1>1, BlockFacts DEF Blocks
          <6> QED
              BY <1>1, <6>1
        <5> QED
            BY <2>13, <3>2, <5>1 DEF i
      <4>2. d.env[v] = s.env[v]
          BY <2>3, <4>1 DEF Follows
      <4>3. v \in DOMAIN d.env
          BY <1>1, <2>9
      <4> QED
          BY <2>5, <2>11, <3>2, <4>2, <4>3 DEF Wrote
    <3> QED
        BY <3>1, <3>2
  <2>14. ASSUME NEW r \in DOMAIN D.env, r \in Nat, r > m PROVE e.env[r] = D.env[r]
    <3>1. r > count /\ r /= i.res
        BY <1>1, <1>2, <2>14
    <3>2. d.env[r] = D.env[r]
        BY <2>3, <2>14, <3>1 DEF Follows
    <3> QED
        BY <2>9, <2>11, <3>1, <3>2 DEF Wrote
  <2>15. CachesHold(lui, fimm, e.env)
    <3>1. CachesHold(lui, fimm, d.env)
        BY <2>3 DEF Follows
    <3>2. \A x \in fn.vars + 1 .. count : e.env[x] = d.env[x]
        BY <1>1, <1>2, <2>9, <2>11 DEF Wrote
    <3> QED
        BY <1>1, <3>1, <3>2 DEF CachesHold
  <2>16. \A v \in 1 .. fn.vars :
            (\A k \in (n + 1) + 1 .. Len(fn.code[block]) : IsPhi(fn, block, k) => fn.code[block][k].res /= v) =>
                e.env[v] = t.env[v]
      BY <2>13
  <2>17. \A r \in DOMAIN D.env : r \in Nat /\ r > m => e.env[r] = D.env[r]
      BY <2>14
  <2> HIDE DEF m
  <2>18. Follows(fn, m, lui, fimm, D, E, block, n + 1, e, t)
      BY <2>5, <2>7, <2>12, <2>15, <2>16, <2>17 DEF Follows
  <2> QED
      BY <2>18 DEF e, t
<1>11. Open(fn, more, m, lui, fimm, us, block, n + 1, at2)
    BY <1>9, <1>10 DEF Open
<1> HIDE DEF us, u, m
<1>12. \E at3 : Open(fn, more, m, lui, fimm, us, block, n + 1, at3)
    BY <1>11
<1> QED
    BY <1>1, <1>3, <1>12 DEF us, u, more, i, m

-----------------------------------------------------------------------------
(* The invariant holds at the start ...                                    *)

LEMMA OpenNothing ==
    ASSUME NEW f \in Functions, NEW b \in DOMAIN f.code, NEW ph, NEW c \in Nat
    PROVE  \E at : Open(f, ph, c, <<>>, <<>>, <<>>, b, 0, at)
<1>1. Listed(f, ph, b, 0, <<>>)
    BY DEF Listed
<1>2. ASSUME NEW D, NEW E, Enters(f, ph, c, D, E, b, 0, <<>>)
      PROVE  Follows(f, c, <<>>, <<>>, D, E, b, 0, Ran(D, <<>>), Meant(E, f.code[b], 0))
  <2>1. Ran(D, <<>>) = D /\ Meant(E, f.code[b], 0) = E
      BY RanNothing, MeantNothing
  <2>2. CachesHold(<<>>, <<>>, D.env)
      BY DEF CachesHold
  <2>3. Follows(f, c, <<>>, <<>>, D, E, b, 0, D, E)
    <3>1. 0 + 1 = 1
        OBVIOUS
    <3> QED
        BY <1>2, <2>2, <3>1 DEF Follows, Enters
  <2> QED
      BY <2>1, <2>3
<1> QED
    BY <1>1, <1>2 DEF Open

LEMMA InitIInv == Init => IInv
<1> SUFFICES ASSUME Init PROVE IInv
    OBVIOUS
<1>1. /\ fn \in Functions /\ phase = "translate" /\ block = 1 /\ inst = 1 /\ count = fn.vars
      /\ uops = [b \in Blocks |-> <<>>] /\ lui = <<>> /\ fimm = <<>> /\ phis = <<>> /\ datum = <<1, 1>>
    BY DEF Init
<1>2. /\ fn.vars \in Nat /\ DOMAIN fn.code = 1 .. Len(fn.code) /\ 1 \in DOMAIN fn.code
      /\ \A b \in DOMAIN fn.code : Len(fn.code[b]) \in Nat /\ Len(fn.code[b]) >= 1
    BY <1>1, BlockFacts
<1>3. Shape
    BY <1>1, <1>2 DEF Shape, Blocks
<1>4. PhisInv
    BY <1>1 DEF PhisInv
<1>5. FirstInv
    BY <1>1, <1>2 DEF FirstInv, Blocks
<1>6. CacheInv
    BY <1>1 DEF CacheInv
<1>7. OpenInv
  <2>1. uops[block] = <<>> /\ block \in DOMAIN fn.code /\ inst - 1 = 0
      BY <1>1, <1>2 DEF Blocks
  <2>2. count \in Nat
      BY <1>1, <1>2
  <2>3. PICK at : Open(fn, phis, count, <<>>, <<>>, <<>>, block, 0, at)
      BY <1>1, <2>1, <2>2, OpenNothing
  <2>4. Open(fn, phis, count, lui, fimm, uops[block], block, inst - 1, at)
      BY <1>1, <2>1, <2>3
  <2> QED
      BY <2>4 DEF OpenInv
<1>8. ClosedInv
  <2>1. \A b \in Blocks : ~Complete(b)
      BY <1>1, <1>2 DEF Complete, Blocks
  <2> QED
      BY <2>1 DEF ClosedInv
<1> QED
    BY <1>3, <1>4, <1>5, <1>6, <1>7, <1>8 DEF IInv

-----------------------------------------------------------------------------
(* ... and every step keeps it.                                            *)

LEMMA FrontAndLast ==
    ASSUME NEW code \in Seq(AnyUop), NEW u \in AnyUop
    PROVE  /\ code \o <<u>> \in Seq(AnyUop) /\ code \o <<u>> /= <<>>
           /\ Front(code \o <<u>>) = code /\ Last(code \o <<u>>) = u
<1> DEFINE U == AnyUop
           us == code \o <<u>>
<1>1. code \in Seq(U) /\ u \in U
    OBVIOUS
<1> HIDE DEF U
<1>2. us \in Seq(U) /\ Len(us) = Len(code) + 1 /\ Len(code) \in Nat /\ us[Len(code) + 1] = u
      /\ \A k \in 1 .. Len(code) : us[k] = code[k]
    BY <1>1
<1> HIDE DEF us
<1>3. SubSeq(us, 1, Len(us) - 1) = code
    BY <1>1, <1>2
<1> QED
    BY <1>2, <1>3 DEF Front, Last, U, us

LEMMA PhiNumbers ==
    ASSUME PhisInv
    PROVE  /\ Len(phis) \in Nat /\ DOMAIN phis = 1 .. Len(phis)
           /\ \A p \in DOMAIN phis :
                /\ p \in Nat /\ p >= 1
                /\ phis[p].data \in Data /\ phis[p].mux \in fn.vars + 1 .. count
                /\ Len(phis[p].data) \in Nat /\ Len(phis[p].data) >= 1
                /\ DOMAIN phis[p].data = 1 .. Len(phis[p].data)
                /\ \A j \in DOMAIN phis[p].data :
                     /\ j \in Nat /\ j >= 1
                     /\ phis[p].data[j].arg \in Operands(fn) /\ phis[p].data[j].from \in Blocks
<1> DEFINE R == [data : Data, mux : fn.vars + 1 .. count]
           S == [arg : Operands(fn), from : Blocks]
<1>1. phis \in Seq(R)
    BY DEF PhisInv
<1>2. \A x \in R : x.data \in Seq(S) \ {<<>>} /\ x.data \in Data /\ x.mux \in fn.vars + 1 .. count
    BY DEF Data
<1>3. \A x \in S : x.arg \in Operands(fn) /\ x.from \in Blocks
    OBVIOUS
<1> HIDE DEF R, S
<1>4. Len(phis) \in Nat /\ DOMAIN phis = 1 .. Len(phis) /\ \A p \in DOMAIN phis : phis[p] \in R /\ p \in Nat /\ p >= 1
    BY <1>1
<1>5. ASSUME NEW d \in Seq(S) \ {<<>>}
      PROVE  Len(d) \in Nat /\ Len(d) >= 1 /\ DOMAIN d = 1 .. Len(d) /\ \A j \in DOMAIN d : j \in Nat /\ j >= 1 /\ d[j] \in S
    OBVIOUS
<1> QED
    BY <1>2, <1>3, <1>4, <1>5

(* What all translations of an instruction but a phi have in common.       *)
LEMMA InstructionStep ==
    ASSUME IInv, NEW n, NEW at, At(n, at), Current.kind \in {"op", "end"},
           NEW code \in Seq(AnyUop), NEW regs \in Seq(Nat),
           uops' = [uops EXCEPT ![block] = code \o <<Uop(Current.kind, Current.res, regs, NoImm)>>],
           inst' = inst + 1, UNCHANGED <<fn, phase, block, phis, datum>>,
           count' \in Nat, count <= count',
           \A key \in DOMAIN lui' : lui'[key] \in fn.vars + 1 .. count' /\ Mentions(block, "int", key),
           \A key \in DOMAIN fimm' : fimm'[key] \in fn.vars + 1 .. count' /\ Mentions(block, "float", key),
           Ready(fn, phis, count', lui', fimm', code, block, n, at, regs)
    PROVE  IInv'
<1> DEFINE u == Uop(Current.kind, Current.res, regs, NoImm)
<1>1. /\ fn \in Functions /\ block \in Blocks /\ n \in Nat /\ n + 1 = inst
      /\ n + 1 \in DOMAIN fn.code[block] /\ Current = fn.code[block][n + 1]
      /\ fn.vars \in Nat /\ count \in Nat /\ fn.vars <= count
    BY AtFacts
<1>2. /\ DOMAIN fn.code = 1 .. Len(fn.code) /\ Len(fn.code) \in Nat
      /\ Len(fn.code[block]) \in Nat /\ DOMAIN fn.code[block] = 1 .. Len(fn.code[block])
    BY <1>1, BlockFacts DEF Blocks
<1>3. /\ fn' = fn /\ phase' = phase /\ block' = block /\ phis' = phis /\ datum' = datum /\ Blocks' = Blocks
      /\ phase = "translate" /\ datum = <<1, 1>>
    BY DEF At, Shape, Blocks
<1>4. u \in AnyUop /\ u.do = Current.kind /\ u.res = Current.res /\ u.regs = regs
  <2>1. Current.kind \in {"op", "end"} /\ Current.res \in Nat
    <3> DEFINE i == fn.code[block][n + 1]
    <3>1. (i.kind = "op" => i.res \in 1 .. fn.vars) /\ (i.kind = "end" => i.res = 0)
      <4>1. fn \in Functions /\ block \in DOMAIN fn.code /\ n + 1 \in DOMAIN fn.code[block]
          BY <1>1 DEF Blocks
      <4>2. i \in Instructions(fn)
          BY <4>1, BlockFacts
      <4> HIDE DEF i
      <4> QED
          BY <4>2 DEF Instructions
    <3>2. i = Current /\ Current.kind \in {"op", "end"} /\ fn.vars \in Nat
        BY <1>1
    <3> HIDE DEF i
    <3> QED
        BY <3>1, <3>2
  <2> QED
      BY <2>1 DEF AnyUop, Uop, NoImm, Var
<1>5. code \o <<u>> \in Seq(AnyUop) /\ code \o <<u>> /= <<>> /\ Front(code \o <<u>>) = code /\ Last(code \o <<u>>) = u
    BY <1>4, FrontAndLast
<1> HIDE DEF u
<1>6. uops \in [Blocks -> Seq(AnyUop)] /\ uops' = [uops EXCEPT ![block] = code \o <<u>>]
    BY DEF IInv, Shape, u
<1>7. uops'[block] = code \o <<u>> /\ \A b \in Blocks : b /= block => uops'[b] = uops[b]
    BY <1>1, <1>6
<1>8. Shape'
  <2>1. uops' \in [Blocks -> Seq(AnyUop)]
      BY <1>5, <1>6
  <2>2. \A b \in Blocks : b > block => uops'[b] = <<>>
    <3>1. \A b \in Blocks : b > block => uops[b] = <<>> /\ b /= block
        BY <1>1, <1>2 DEF IInv, Shape, Blocks
    <3> QED
        BY <1>7, <3>1
  <2>3. inst' \in 1 .. Len(fn.code[block]) + 1
    <3>1. inst' = inst + 1 /\ inst \in 1 .. Len(fn.code[block]) /\ Len(fn.code[block]) \in Nat
        BY <1>1, <1>2
    <3> QED
        BY <3>1
  <2>4. count' \in Nat /\ fn.vars <= count'
      BY <1>1
  <2> QED
      BY <1>1, <1>3, <2>1, <2>2, <2>3, <2>4 DEF Shape, Blocks
<1>9. PhisInv'
  <2> DEFINE M == fn.vars + 1 .. count
             N == fn.vars + 1 .. count'
  <2>1. M \subseteq N
      BY <1>1
  <2>2. phis \in Seq([data : Data, mux : M])
      BY DEF IInv, PhisInv
  <2> HIDE DEF M, N
  <2>3. phis \in Seq([data : Data, mux : N])
    <3> DEFINE R == [data : Data, mux : M]
               Q == [data : Data, mux : N]
    <3>1. phis \in Seq(R) /\ R \subseteq Q
        BY <2>1, <2>2
    <3> HIDE DEF R, Q
    <3>2. phis \in Seq(Q)
        BY <3>1
    <3> QED
        BY <3>2 DEF Q
  <2>4. phis' \in Seq([data : Data', mux : fn'.vars + 1 .. count'])
      BY <1>3, <2>3 DEF N, Data
  <2> QED
      BY <1>3, <2>4 DEF IInv, PhisInv
<1>10. FirstInv'
  <2>1. Current = fn.code[block][inst] /\ ~(inst = 1 /\ Headed(block))
      BY <1>1 DEF Headed
  <2>2. inst' > 1 /\ (inst > 1 \/ ~Headed(block))
      BY <1>1, <2>1
  <2>3. FirstInv
      BY DEF IInv
  <2>4. \A b \in Blocks : Headed(b)' = Headed(b)
      BY <1>3 DEF Headed
  <2> QED
      BY <1>3, <2>2, <2>3, <2>4 DEF FirstInv
<1>11. CacheInv'
    BY <1>3 DEF CacheInv, Mentions
<1>12. OpenInv'
  <2> SUFFICES ASSUME inst' <= Len(fn.code[block])
               PROVE  \E at2 : Open(fn, phis, count', lui', fimm', uops'[block], block, n + 1, at2)
    <3>1. inst' - 1 = n + 1
        BY <1>1
    <3> QED
        BY <1>3, <3>1 DEF OpenInv
  <2>1. Current.kind = "op"
    <3>1. n + 1 /= Len(fn.code[block])
        BY <1>1, <1>2
    <3> QED
        BY <1>1, <3>1, InstFacts DEF Blocks
  <2>2. /\ \A key \in DOMAIN lui' : lui'[key] \in fn.vars + 1 .. count'
        /\ \A key \in DOMAIN fimm' : fimm'[key] \in fn.vars + 1 .. count'
        /\ fn.vars <= count'
      BY <1>1
  <2>3. u = Uop("op", fn.code[block][n + 1].res, regs, NoImm)
      BY <1>1, <2>1 DEF u
  <2>4. fn.code[block][n + 1].kind = "op" /\ block \in DOMAIN fn.code
      BY <1>1, <2>1 DEF Blocks
  <2>5. Open(fn, phis, count', lui', fimm', code \o <<u>>, block, n + 1, at)
      BY <1>1, <1>4, <2>2, <2>3, <2>4, OpFollows
  <2> QED
      BY <1>7, <2>5
<1>13. ClosedInv'
  <2> SUFFICES ASSUME NEW b \in Blocks, Complete(b)'
               PROVE  uops'[b] /= <<>> /\ \E at2 : Closed(fn, phis, count', datum, Front(uops'[b]), Last(uops'[b]), b, at2)
      BY <1>3 DEF ClosedInv
  <2>1. CASE b < block
    <3>1. b /= block /\ Complete(b)
        BY <1>1, <1>2, <2>1 DEF Complete, Blocks
    <3>2. PICK at2 : uops[b] /= <<>> /\ Closed(fn, phis, count, datum, Front(uops[b]), Last(uops[b]), b, at2)
        BY <3>1 DEF IInv, ClosedInv
    <3>3. Len(fn.code[b]) \in Nat /\ More(phis, phis, count)
        BY <1>1, BlockFacts DEF More, Blocks
    <3>4. Closed(fn, phis, count', datum, Front(uops[b]), Last(uops[b]), b, at2)
        BY <1>1, <3>2, <3>3, ClosedGrows
    <3> QED
        BY <1>7, <3>1, <3>2, <3>4
  <2>2. CASE b = block /\ inst' = Len(fn.code[block]) + 1
    <3>1. n + 1 = Len(fn.code[block])
      <4>1. n \in Nat /\ Len(fn.code[block]) \in Nat /\ n + 2 = Len(fn.code[block]) + 1
          BY <1>1, <1>2, <2>2
      <4> QED
          BY <4>1
    <3>2. fn.code[block][n + 1].kind = "end" /\ block \in DOMAIN fn.code
        BY <1>1, <3>1, InstFacts DEF Blocks
    <3>3. u = Uop("end", fn.code[block][n + 1].res, regs, NoImm)
        BY <1>1, <3>2 DEF u
    <3>4. \A p \in DOMAIN phis : p \in Nat /\ p >= 1 /\ \A j \in DOMAIN phis[p].data : j \in Nat /\ j >= 1
        BY PhiNumbers DEF IInv
    <3>5. fn.vars <= count'
        BY <1>1
    <3>6. Closed(fn, phis, count', <<1, 1>>, code, u, block, at)
        BY <1>1, <3>2, <3>3, <3>4, <3>5, EndLeaves
    <3> QED
        BY <1>3, <1>5, <1>7, <2>2, <3>6
  <2> QED
      BY <1>3, <2>1, <2>2 DEF Complete
<1> QED
    BY <1>8, <1>9, <1>10, <1>11, <1>12, <1>13 DEF IInv

LEMMA AtHere ==
    ASSUME IInv, phase = "translate", inst \in DOMAIN fn.code[block]
    PROVE  /\ Current.kind \in {"op", "end", "phi"}
           /\ \E at : At(inst - 1, at)
<1>1. fn \in Functions /\ block \in DOMAIN fn.code
    BY DEF IInv, Shape, Blocks
<1>2. inst <= Len(fn.code[block])
    BY <1>1, BlockFacts
<1>3. Current.kind \in {"op", "end", "phi"}
    BY <1>1, InstFacts DEF Current
<1> QED
    BY <1>2, <1>3 DEF IInv, OpenInv, At

LEMMA PlainStep ==
    ASSUME IInv, TranslatePlain
    PROVE  IInv'
<1> DEFINE n == inst - 1
           regs == [k \in DOMAIN Current.args |-> Current.args[k].key]
<1>1. /\ phase = "translate" /\ inst \in DOMAIN fn.code[block] /\ Current.kind /= "phi" /\ Consts(Current) = {}
      /\ uops' = [uops EXCEPT ![block] = uops[block] \o <<Uop(Current.kind, Current.res, regs, NoImm)>>]
      /\ inst' = inst + 1 /\ UNCHANGED <<fn, phase, block, count, lui, fimm, phis, datum>>
    BY DEF TranslatePlain, Emit
<1>2. PICK at : At(n, at)
    BY <1>1, AtHere
<1>3. Current.kind \in {"op", "end"}
    BY <1>1, AtHere
<1>4. regs \in Seq(Nat) /\ Ready(fn, phis, count, lui, fimm, uops[block], block, n, at, regs)
    BY <1>1, <1>2, <1>3, PlainReady
<1>5. /\ uops[block] \in Seq(AnyUop) /\ count \in Nat
      /\ \A key \in DOMAIN lui : lui[key] \in fn.vars + 1 .. count
      /\ \A key \in DOMAIN fimm : fimm[key] \in fn.vars + 1 .. count
    BY <1>2, AtFacts
<1>6. datum = <<1, 1>> /\ CacheInv
    BY <1>1 DEF IInv, Shape
<1> HIDE DEF n, regs
<1>7. /\ \A key \in DOMAIN lui' : lui'[key] \in fn.vars + 1 .. count' /\ Mentions(block, "int", key)
      /\ \A key \in DOMAIN fimm' : fimm'[key] \in fn.vars + 1 .. count' /\ Mentions(block, "float", key)
      /\ count' \in Nat /\ count <= count' /\ UNCHANGED <<fn, phase, block, phis, datum>>
    BY <1>1, <1>5, <1>6 DEF CacheInv
<1>8. Ready(fn, phis, count', lui', fimm', uops[block], block, n, at, regs)
    BY <1>1, <1>4
<1> QED
    BY <1>1, <1>2, <1>3, <1>4, <1>5, <1>7, <1>8, InstructionStep

LEMMA ConstStep ==
    ASSUME IInv, TranslateConst
    PROVE  IInv'
<1> DEFINE n == inst - 1
           c == Current.args[CHOOSE k \in Consts(Current) : TRUE]
           l == Load(c, count + 1, count + 2)
           regs == [k \in DOMAIN Current.args |-> IF IsConst(Current.args[k]) THEN count + 1 ELSE Current.args[k].key]
           u == Uop(Current.kind, Current.res, regs, NoImm)
           code == uops[block] \o l.uops
<1>1. /\ phase = "translate" /\ inst \in DOMAIN fn.code[block] /\ Current.kind /= "phi" /\ Consts(Current) /= {}
      /\ uops' = [uops EXCEPT ![block] = uops[block] \o (l.uops \o <<u>>)]
      /\ count' = count + 1 + l.new /\ lui' = l.lui /\ fimm' = l.fimm
      /\ inst' = inst + 1 /\ UNCHANGED <<fn, phase, block, phis, datum>>
    BY DEF TranslateConst, Emit
<1>2. PICK at : At(n, at)
    BY <1>1, AtHere
<1>3. Current.kind \in {"op", "end"}
    BY <1>1, AtHere
<1>4. /\ c \in Operands(fn) /\ IsConst(c) /\ l.new \in {0, 1}
      /\ \A key \in DOMAIN l.lui : key \in DOMAIN lui \/ Mentions(block, "int", key)
      /\ \A key \in DOMAIN l.fimm : key \in DOMAIN fimm \/ Mentions(block, "float", key)
      /\ code \in Seq(AnyUop)
      /\ regs \in Seq(Nat)
      /\ \A key \in DOMAIN l.lui : l.lui[key] \in fn.vars + 1 .. count + 1 + l.new
      /\ \A key \in DOMAIN l.fimm : l.fimm[key] \in fn.vars + 1 .. count + 1 + l.new
      /\ Ready(fn, phis, count + 1 + l.new, l.lui, l.fimm, code, block, n, at, regs)
    BY <1>1, <1>2, <1>3, ConstReady DEF Brought
<1>5. /\ uops[block] \in Seq(AnyUop) /\ count \in Nat /\ fn.vars \in Nat /\ fn.vars <= count
      /\ \A key \in DOMAIN lui : lui[key] \in fn.vars + 1 .. count
      /\ \A key \in DOMAIN fimm : fimm[key] \in fn.vars + 1 .. count
    BY <1>2, AtFacts
<1>6. datum = <<1, 1>> /\ CacheInv
    BY <1>1 DEF IInv, Shape
<1>7. l.uops \in Seq(AnyUop)
    BY <1>4, <1>5, LoadBounds
<1>8. uops[block] \o (l.uops \o <<u>>) = code \o <<u>>
  <2> DEFINE x == <<u>>
             y == l.uops
             z == uops[block]
  <2>1. u \in AnyUop
    <3>1. Current.res \in Nat
      <4>1. fn \in Functions /\ block \in DOMAIN fn.code
          BY DEF IInv, Shape, Blocks
      <4>2. (Current.kind = "op" => Current.res \in 1 .. fn.vars) /\ (Current.kind = "end" => Current.res = 0)
          BY Zenon, <1>1, <4>1, InstFacts DEF Current
      <4> QED
          BY <1>3, <1>5, <4>2
    <3> HIDE DEF regs
    <3> QED
        BY <1>3, <1>4, <3>1 DEF AnyUop, Uop, NoImm, Var
  <2> DEFINE U == AnyUop
  <2>2. z \in Seq(U) /\ y \in Seq(U)
      BY <1>5, <1>7
  <2>3. x \in Seq(U)
    <3> HIDE DEF U, u
    <3> QED
        BY <2>1 DEF U
  <2> HIDE DEF x, y, z, U
  <2>4. z \o (y \o x) = (z \o y) \o x
      BY SMTT(30), <2>2, <2>3, ConcatAssociative
  <2> QED
      BY Zenon, <2>4 DEF x, y, z
<1> HIDE DEF n, regs, c, l, code
<1>9. /\ \A key \in DOMAIN lui' : lui'[key] \in fn.vars + 1 .. count' /\ Mentions(block, "int", key)
      /\ \A key \in DOMAIN fimm' : fimm'[key] \in fn.vars + 1 .. count' /\ Mentions(block, "float", key)
      /\ count' \in Nat /\ count <= count' /\ UNCHANGED <<fn, phase, block, phis, datum>>
    BY <1>1, <1>4, <1>5, <1>6 DEF CacheInv
<1>10. Ready(fn, phis, count', lui', fimm', code, block, n, at, regs)
    BY <1>1, <1>4
<1>11. uops' = [uops EXCEPT ![block] = code \o <<Uop(Current.kind, Current.res, regs, NoImm)>>]
    BY <1>1, <1>8
<1>12. code \in Seq(AnyUop) /\ regs \in Seq(Nat) /\ inst' = inst + 1
    BY <1>1, <1>4
<1> QED
    BY <1>2, <1>3, <1>9, <1>10, <1>11, <1>12, InstructionStep

LEMMA PhiStep ==
    ASSUME IInv, TranslatePhi
    PROVE  IInv'
<1> DEFINE n == inst - 1
           m == count + 1
           u == Uop("mv", Current.res, <<m>>, NoImm)
           phi == [data |-> Current.data, mux |-> m]
           more == Append(phis, phi)
<1>1. /\ phase = "translate" /\ inst \in DOMAIN fn.code[block] /\ Current.kind = "phi"
      /\ count' = m /\ phis' = more /\ uops' = [uops EXCEPT ![block] = uops[block] \o <<u>>]
      /\ inst' = inst + 1 /\ UNCHANGED <<fn, phase, block, lui, fimm, datum>>
    BY DEF TranslatePhi, Emit
<1>2. PICK at : At(n, at)
    BY <1>1, AtHere
<1>3. /\ fn \in Functions /\ block \in Blocks /\ n \in Nat /\ n + 1 = inst
      /\ n + 1 \in DOMAIN fn.code[block] /\ Current = fn.code[block][n + 1]
      /\ fn.vars \in Nat /\ count \in Nat /\ fn.vars <= count
      /\ uops[block] \in Seq(AnyUop)
      /\ \A key \in DOMAIN lui : lui[key] \in fn.vars + 1 .. count
      /\ \A key \in DOMAIN fimm : fimm[key] \in fn.vars + 1 .. count
    BY <1>2, AtFacts
<1>4. /\ DOMAIN fn.code = 1 .. Len(fn.code) /\ Len(fn.code) \in Nat
      /\ Len(fn.code[block]) \in Nat /\ DOMAIN fn.code[block] = 1 .. Len(fn.code[block])
    BY <1>3, BlockFacts DEF Blocks
<1>5. /\ fn' = fn /\ phase' = phase /\ block' = block /\ datum' = datum /\ Blocks' = Blocks
      /\ lui' = lui /\ fimm' = fimm /\ datum = <<1, 1>> /\ Data' = Data
    BY <1>1 DEF IInv, Shape, Blocks, Data
<1>6. /\ PhisInv /\ Len(phis) \in Nat /\ DOMAIN phis = 1 .. Len(phis)
      /\ \A p \in DOMAIN phis : p \in Nat /\ p >= 1 /\ phis[p].data \in Data /\ phis[p].mux \in fn.vars + 1 .. count
    BY PhiNumbers DEF IInv
<1>7. /\ Current.data \in Data
      /\ \A k, j \in DOMAIN Current.data : Current.data[k].from = Current.data[j].from => k = j
      /\ n + 1 /= Len(fn.code[block])
      /\ \A j \in DOMAIN fn.code[block] : j < n + 1 => fn.code[block][j].kind = "phi"
  <2> DEFINE i == fn.code[block][n + 1]
  <2>1. /\ i.kind = "end" <=> n + 1 = Len(fn.code[block])
        /\ i.kind = "phi" =>
            /\ i.data \in Seq([arg : Operands(fn), from : DOMAIN fn.code]) \ {<<>>}
            /\ \A j \in DOMAIN fn.code[block] : j < n + 1 => fn.code[block][j].kind = "phi"
            /\ \A k, j \in DOMAIN i.data : i.data[k].from = i.data[j].from => k = j
    <3>1. fn \in Functions /\ block \in DOMAIN fn.code /\ n + 1 \in DOMAIN fn.code[block]
        BY <1>3 DEF Blocks
    <3> HIDE DEF n
    <3> QED
        BY ZenonT(40), <3>1, InstFacts
  <2>2. i = Current /\ i.kind = "phi"
      BY <1>1, <1>3
  <2> HIDE DEF i
  <2> QED
      BY <2>1, <2>2 DEF Data, Blocks
<1>8. /\ u \in AnyUop
      /\ \E at2 : Open(fn, more, m, lui, fimm, uops[block] \o <<u>>, block, n + 1, at2)
    BY <1>1, <1>2, <1>6, PhiReady
<1>9. uops[block] \o <<u>> \in Seq(AnyUop)
    BY <1>3, <1>8, FrontAndLast
<1> HIDE DEF u
<1>10. uops \in [Blocks -> Seq(AnyUop)]
    BY DEF IInv, Shape
<1>11. uops'[block] = uops[block] \o <<u>> /\ \A b \in Blocks : b /= block => uops'[b] = uops[b]
    BY <1>1, <1>3, <1>10
<1>12. /\ Len(more) = Len(phis) + 1 /\ DOMAIN more = 1 .. Len(phis) + 1
       /\ \A p \in DOMAIN phis : p \in DOMAIN more /\ more[p] = phis[p]
       /\ more[Len(phis) + 1] = phi
  <2> HIDE DEF phi
  <2> QED
      BY <1>6
<1>13. Shape'
  <2>1. uops' \in [Blocks -> Seq(AnyUop)]
      BY <1>1, <1>9, <1>10
  <2>2. \A b \in Blocks : b > block => uops'[b] = <<>>
    <3>1. \A b \in Blocks : b > block => uops[b] = <<>> /\ b /= block
        BY <1>3, <1>4 DEF IInv, Shape, Blocks
    <3> QED
        BY <1>11, <3>1
  <2>3. inst' \in 1 .. Len(fn.code[block]) + 1
    <3>1. inst' = inst + 1 /\ inst \in 1 .. Len(fn.code[block]) /\ Len(fn.code[block]) \in Nat
        BY <1>1, <1>4
    <3> QED
        BY <3>1
  <2> QED
      BY <1>1, <1>3, <1>5, <2>1, <2>2, <2>3 DEF Shape, Blocks
<1>14. \A p \in DOMAIN more : p \in DOMAIN phis \/ p = Len(phis) + 1
    BY <1>6, <1>12
<1>15. PhisInv'
  <2> DEFINE N == fn.vars + 1 .. count'
             R == [data : Data, mux : N]
  <2>1. ASSUME NEW p \in DOMAIN more PROVE more[p] \in R
    <3>1. CASE p = Len(phis) + 1
      <4>1. m \in N
          BY <1>1, <1>3
      <4> QED
          BY <1>7, <1>12, <3>1, <4>1
    <3>2. CASE p \in DOMAIN phis
      <4>1. phis[p] \in [data : Data, mux : fn.vars + 1 .. count]
        <5> DEFINE Q == [data : Data, mux : fn.vars + 1 .. count]
        <5>1. phis \in Seq(Q)
            BY <1>6 DEF PhisInv
        <5> HIDE DEF Q
        <5>2. phis[p] \in Q
            BY <3>2, <5>1
        <5> QED
            BY <5>2 DEF Q
      <4>2. fn.vars + 1 .. count \subseteq N
          BY <1>1, <1>3
      <4> HIDE DEF N
      <4> QED
          BY <1>12, <3>2, <4>1, <4>2
    <3> QED
        BY <1>14, <3>1, <3>2
  <2>2. more \in Seq(R)
    <3> HIDE DEF R
    <3>1. more \in [1 .. Len(phis) + 1 -> R]
      <4>1. more = [p \in DOMAIN more |-> more[p]]
          OBVIOUS
      <4> HIDE DEF more
      <4> QED
          BY <1>12, <2>1, <4>1
    <3>2. Len(phis) + 1 \in Nat
        BY <1>6
    <3> HIDE DEF more
    <3> QED
        BY <3>1, <3>2, SeqDef
  <2> HIDE DEF R, more
  <2>3. ASSUME NEW p \in DOMAIN more, NEW q \in DOMAIN more, more[p].mux = more[q].mux PROVE p = q
    <3>1. ASSUME NEW x \in DOMAIN phis PROVE phis[x].mux /= phi.mux
        BY <1>3, <1>6
    <3> HIDE DEF phi
    <3>2. \A x, y \in DOMAIN phis : phis[x].mux = phis[y].mux => x = y
        BY <1>6 DEF PhisInv
    <3> QED
        BY <1>12, <1>14, <2>3, <3>1, <3>2
  <2>4. ASSUME NEW p \in DOMAIN more, NEW x \in DOMAIN more[p].data, NEW y \in DOMAIN more[p].data,
               more[p].data[x].from = more[p].data[y].from
        PROVE  x = y
    <3>1. phi.data = Current.data
        OBVIOUS
    <3> HIDE DEF phi
    <3>2. CASE p \in DOMAIN phis
        BY <1>6, <1>12, <2>4, <3>2 DEF PhisInv
    <3>3. CASE p = Len(phis) + 1
        BY <1>7, <1>12, <2>4, <3>1, <3>3
    <3> QED
        BY <1>14, <3>2, <3>3
  <2>5. datum \in (1 .. Len(more) + 1) \X Nat
      BY <1>5, <1>6, <1>12
  <2>6. datum[1] \in DOMAIN more => datum[2] \in DOMAIN more[datum[1]].data
    <3>1. more[1].data \in Data
      <4>1. CASE 1 \in DOMAIN phis
          BY <1>6, <1>12, <4>1
      <4>2. CASE 1 = Len(phis) + 1
          BY <1>7, <1>12, <4>2
      <4> QED
          BY <1>6, <4>1, <4>2
    <3>2. \A d \in Data : 1 \in DOMAIN d
      <4> DEFINE S == [arg : Operands(fn), from : Blocks]
      <4>1. ASSUME NEW d \in Seq(S) \ {<<>>} PROVE 1 \in DOMAIN d
        <5> HIDE DEF S
        <5> QED
            OBVIOUS
      <4> QED
          BY <4>1 DEF Data
    <3> QED
        BY <1>5, <3>1, <3>2
  <2>7. phis' \in Seq([data : Data', mux : fn'.vars + 1 .. count'])
      BY <1>1, <1>5, <2>2 DEF R, N, more
  <2>8. phis' = more
      BY <1>1 DEF more
  <2> HIDE DEF N
  <2> QED
      BY <1>5, <2>3, <2>4, <2>5, <2>6, <2>7, <2>8 DEF PhisInv
<1>16. FirstInv'
  <2>1. \A b \in Blocks : Headed(b)' = Headed(b)
      BY <1>5 DEF Headed
  <2>2. FirstInv
      BY DEF IInv
  <2>3. CASE phis = <<>>
    <3>1. inst > 1 => ~Headed(block)
        BY <1>3, <2>2, <2>3 DEF FirstInv
    <3>2. inst > 1 => fn.code[block][1].kind = "phi"
      <4>1. 1 \in DOMAIN fn.code[block]
          BY <1>3, <1>4
      <4> QED
          BY <1>3, <1>7, <4>1
    <3>3. inst = 1
        BY <1>3, <1>4, <3>1, <3>2 DEF Headed
    <3>4. Headed(block) /\ more[1] = phi /\ more /= <<>>
      <4>1. Len(phis) + 1 = 1
          BY <2>3
      <4> QED
          BY <1>1, <1>3, <1>12, <3>3, <4>1 DEF Headed
    <3>5. more[1].data = fn.code[block][1].data
        BY <1>3, <3>3, <3>4
    <3>6. \A a \in Blocks : a < block => ~Headed(a)
        BY <2>2, <2>3 DEF FirstInv
    <3> HIDE DEF more
    <3> QED
        BY <1>1, <1>3, <1>5, <2>1, <3>4, <3>5, <3>6 DEF FirstInv
  <2>4. CASE phis /= <<>>
    <3>1. 1 \in DOMAIN phis
      <4> DEFINE Q == [data : Data, mux : fn.vars + 1 .. count]
      <4>1. phis \in Seq(Q)
          BY <1>6 DEF PhisInv
      <4> HIDE DEF Q
      <4> QED
          BY <2>4, <4>1
    <3>2. more[1] = phis[1] /\ more /= <<>>
        BY <1>12, <3>1
    <3> HIDE DEF more
    <3> QED
        BY <1>1, <1>5, <2>1, <2>2, <2>4, <3>2 DEF FirstInv
  <2> QED
      BY <2>3, <2>4
<1>17. CacheInv'
  <2>1. fn.vars + 1 .. count \subseteq fn.vars + 1 .. count'
      BY <1>1, <1>3
  <2> QED
      BY <1>3, <1>5, <2>1 DEF IInv, CacheInv, Mentions
<1>18. OpenInv'
  <2>1. inst' - 1 = n + 1
      BY <1>1, <1>3
  <2> HIDE DEF more, m
  <2> QED
      BY <1>1, <1>5, <1>8, <1>11, <2>1 DEF OpenInv
<1>19. ClosedInv'
  <2> SUFFICES ASSUME NEW b \in Blocks, Complete(b)'
               PROVE  uops'[b] /= <<>> /\ \E at2 : Closed(fn, more, m, datum, Front(uops'[b]), Last(uops'[b]), b, at2)
      BY <1>1, <1>5 DEF ClosedInv
  <2>1. b < block
    <3>1. inst' /= Len(fn.code[block]) + 1
        BY <1>1, <1>3, <1>4, <1>7
    <3> QED
        BY <1>5, <3>1 DEF Complete
  <2>2. b /= block /\ Complete(b)
      BY <1>3, <1>4, <2>1 DEF Complete, Blocks
  <2>3. PICK at2 : uops[b] /= <<>> /\ Closed(fn, phis, count, datum, Front(uops[b]), Last(uops[b]), b, at2)
      BY <2>2 DEF IInv, ClosedInv
  <2>4. Len(fn.code[b]) \in Nat
      BY <1>3, BlockFacts DEF Blocks
  <2>5. More(phis, more, count)
    <3>1. phi.mux > count
        BY <1>3
    <3> HIDE DEF phi, more
    <3> QED
        BY <1>12, <1>14, <3>1 DEF More
  <2>6. \A p \in DOMAIN more : \A j \in DOMAIN more[p].data : p \notin DOMAIN phis => ~Copied(datum, p, j)
    <3>1. ASSUME NEW p \in DOMAIN more, NEW j \in DOMAIN more[p].data, p \notin DOMAIN phis
          PROVE  p \in Nat /\ p >= 1 /\ j \in Nat /\ j >= 1
      <4>1. p \in Nat /\ p >= 1 /\ more[p].data = Current.data
          BY <1>6, <1>12, <1>14, <3>1
      <4> DEFINE S == [arg : Operands(fn), from : Blocks]
      <4>2. ASSUME NEW d \in Seq(S) \ {<<>>}, NEW y \in DOMAIN d PROVE y \in Nat /\ y >= 1
        <5> HIDE DEF S
        <5> QED
            OBVIOUS
      <4>3. Current.data \in Seq(S) \ {<<>>}
          BY <1>7 DEF Data
      <4> HIDE DEF S, more
      <4> QED
          BY <3>1, <4>1, <4>2, <4>3
    <3> HIDE DEF more
    <3> QED
        BY <1>5, <3>1 DEF Copied
  <2>7. count \in Nat /\ m \in Nat /\ count <= m
      BY <1>3
  <2> HIDE DEF more, m
  <2>8. Closed(fn, more, m, datum, Front(uops[b]), Last(uops[b]), b, at2)
      BY <2>3, <2>4, <2>5, <2>6, <2>7, ClosedGrows
  <2> QED
      BY <1>11, <2>2, <2>3, <2>8
<1> QED
    BY <1>13, <1>15, <1>16, <1>17, <1>18, <1>19 DEF IInv

LEMMA NextBlockStep ==
    ASSUME IInv, NextBlock
    PROVE  IInv'
<1>1. /\ phase = "translate" /\ inst \notin DOMAIN fn.code[block] /\ block + 1 \in Blocks
      /\ block' = block + 1 /\ inst' = 1 /\ lui' = <<>> /\ fimm' = <<>>
      /\ UNCHANGED <<fn, phase, uops, count, phis, datum>>
    BY DEF NextBlock
<1>2. /\ fn \in Functions /\ block \in Blocks /\ inst \in 1 .. Len(fn.code[block]) + 1
      /\ uops \in [Blocks -> Seq(AnyUop)] /\ count \in Nat /\ datum = <<1, 1>>
      /\ \A b \in Blocks : b > block => uops[b] = <<>>
    BY <1>1 DEF IInv, Shape
<1>3. /\ Blocks = 1 .. Len(fn.code) /\ Len(fn.code) \in Nat
      /\ \A b \in Blocks : Len(fn.code[b]) \in Nat /\ Len(fn.code[b]) >= 1 /\ DOMAIN fn.code[b] = 1 .. Len(fn.code[b])
    BY <1>2, BlockFacts DEF Blocks
<1>4. inst = Len(fn.code[block]) + 1 /\ inst > 1
  <2>1. Len(fn.code[block]) \in Nat /\ Len(fn.code[block]) >= 1 /\ inst \notin 1 .. Len(fn.code[block])
      BY <1>1, <1>2, <1>3
  <2> QED
      BY <1>2, <2>1
<1>5. fn' = fn /\ Blocks' = Blocks /\ uops' = uops /\ phis' = phis /\ count' = count /\ datum' = datum /\ Data' = Data
    BY <1>1 DEF Blocks, Data
<1>6. Shape'
  <2>1. \A b \in Blocks : b > block + 1 => uops[b] = <<>>
      BY <1>2, <1>3
  <2>2. 1 \in 1 .. Len(fn.code[block + 1]) + 1
      BY <1>1, <1>3
  <2> QED
      BY <1>1, <1>2, <1>5, <2>1, <2>2 DEF IInv, Shape
<1>7. PhisInv'
    BY <1>5 DEF IInv, PhisInv
<1>8. FirstInv'
  <2>1. \A b \in Blocks : Headed(b)' = Headed(b)
      BY <1>5 DEF Headed
  <2>2. \A b \in Blocks : b < block + 1 => b < block \/ (b = block /\ inst > 1)
      BY <1>2, <1>3, <1>4
  <2> QED
      BY <1>1, <1>5, <2>1, <2>2 DEF IInv, FirstInv
<1>9. CacheInv'
    BY <1>1 DEF CacheInv
<1>10. OpenInv'
  <2>1. block + 1 \in DOMAIN fn.code /\ uops[block + 1] = <<>> /\ 1 - 1 = 0
      BY <1>1, <1>2, <1>3 DEF Blocks
  <2>2. PICK at : Open(fn, phis, count, <<>>, <<>>, <<>>, block + 1, 0, at)
      BY <1>2, <2>1, OpenNothing
  <2>3. Open(fn', phis', count', lui', fimm', uops'[block'], block', inst' - 1, at)
      BY <1>1, <1>5, <2>1, <2>2
  <2> QED
      BY <2>3 DEF OpenInv
<1>11. ClosedInv'
  <2>1. ASSUME NEW b \in Blocks, Complete(b)' PROVE Complete(b)
    <3>1. b < block + 1
        BY <1>1, <1>3, <1>5, <2>1 DEF Complete
    <3> QED
        BY <1>2, <1>3, <1>4, <3>1 DEF Complete
  <2> QED
      BY <1>5, <2>1 DEF IInv, ClosedInv
<1> QED
    BY <1>6, <1>7, <1>8, <1>9, <1>10, <1>11 DEF IInv

(* From phase to phase.                                                    *)
LEMMA PhaseStep ==
    ASSUME IInv, StartDephi \/ Finish
    PROVE  IInv'
<1>1. /\ phase' \in {"dephi", "done"}
      /\ UNCHANGED <<fn, block, inst, uops, count, lui, fimm, phis, datum>>
    BY DEF StartDephi, Finish
<1>2. block = Len(fn.code) /\ inst = Len(fn.code[block]) + 1
  <2>1. CASE StartDephi
    <3>1. fn \in Functions /\ block \in Blocks /\ inst \in 1 .. Len(fn.code[block]) + 1
        BY DEF IInv, Shape
    <3>2. /\ Blocks = 1 .. Len(fn.code) /\ Len(fn.code) \in Nat
          /\ Len(fn.code[block]) \in Nat /\ DOMAIN fn.code[block] = 1 .. Len(fn.code[block])
        BY <3>1, BlockFacts DEF Blocks
    <3> QED
        BY <2>1, <3>1, <3>2 DEF StartDephi
  <2>2. CASE Finish
      BY <2>2 DEF IInv, Shape, Finish
  <2> QED
      BY <2>1, <2>2
<1>3. Shape'
    BY <1>1, <1>2 DEF IInv, Shape, Blocks
<1>4. PhisInv' /\ FirstInv' /\ CacheInv' /\ ClosedInv'
    BY <1>1 DEF IInv, PhisInv, FirstInv, CacheInv, ClosedInv, Data, Blocks, Headed, Mentions, Complete
<1>5. OpenInv'
    BY <1>1 DEF OpenInv
<1> QED
    BY <1>3, <1>4, <1>5 DEF IInv

-----------------------------------------------------------------------------
(* A copy.                                                                 *)

LEMMA FirstCopyMisses ==
    ASSUME IInv, phase = "dephi", datum[1] \in DOMAIN phis, ~Leaks(fn)
    PROVE  LET c == phis[datum[1]].data[datum[2]].arg
           IN  /\ c.cls = "int" => c.key \notin DOMAIN lui
               /\ c.cls = "float" => c.key \notin DOMAIN fimm
<1> DEFINE c == phis[datum[1]].data[datum[2]].arg
<1>1. CASE datum /= <<1, 1>>
    BY <1>1 DEF IInv, CacheInv
<1>2. CASE datum = <<1, 1>>
  <2>1. phis /= <<>>
      BY <1>2
  <2>2. PICK b \in Blocks : /\ Headed(b) /\ phis[1].data = fn.code[b][1].data
                            /\ \A a \in Blocks : a < b => ~Headed(a)
      BY <2>1 DEF IInv, FirstInv
  <2>3. c = fn.code[b][1].data[1].arg
      BY <1>2, <2>2
  <2>4. block = Len(fn.code)
      BY DEF IInv, Shape
  <2> HIDE DEF c
  <2>5. ASSUME c.cls \in {"int", "float"} PROVE ~Mentions(block, c.cls, c.key)
    <3>1. \/ c.cls \notin {"int", "float"}
          \/ ~\E i \in Range(fn.code[block]) :
                i.kind /= "phi" /\ \E k \in Consts(i) : i.args[k].cls = c.cls /\ i.args[k].key = c.key
      <4>1. Last(fn.code) = fn.code[block]
          BY <2>4 DEF Last
      <4> QED
          BY Zenon, <2>2, <2>3, <4>1 DEF Leaks, Headed, Blocks
    <3> QED
        BY <2>5, <3>1 DEF Mentions
  <2>6. /\ \A key \in DOMAIN lui : Mentions(block, "int", key)
        /\ \A key \in DOMAIN fimm : Mentions(block, "float", key)
      BY <1>2 DEF IInv, CacheInv
  <2>7. (c.cls = "int" => c.key \notin DOMAIN lui) /\ (c.cls = "float" => c.key \notin DOMAIN fimm)
      BY <2>5, <2>6
  <2> QED
      BY <2>7 DEF c
<1> QED
    BY <1>1, <1>2

(* e is the machine d with the value of arg copied to register mux.        *)
CopyMade(d, e, mux, arg, fresh) ==
    /\ e.read = d.read
    /\ DOMAIN e.env = DOMAIN d.env
    /\ e.env[mux] = Value(d.env, arg)
    /\ \A x \in DOMAIN d.env : x /= mux /\ x /= fresh => e.env[x] = d.env[x]

CopyCode(arg, mux) ==
    IF IsConst(arg) THEN Load(arg, mux, count + 1)
    ELSE [uops |-> <<Uop("mv", mux, <<arg.key>>, NoImm)>>, new |-> 0]

LEMMA CopyUops ==
    ASSUME NEW arg \in Operands(fn), NEW mux \in Nat, count \in Nat, fn.vars \in Nat,
           \A key \in DOMAIN lui : lui[key] \in Nat, \A key \in DOMAIN fimm : fimm[key] \in Nat
    PROVE  CopyCode(arg, mux).uops \in Seq(AnyUop) /\ CopyCode(arg, mux).new \in {0, 1}
<1>1. CASE IsConst(arg)
    BY <1>1, LoadUops DEF CopyCode
<1>2. CASE ~IsConst(arg)
  <2> DEFINE u == Uop("mv", mux, <<arg.key>>, NoImm)
             U == AnyUop
  <2>1. arg.key \in Nat
      BY <1>2, Argument
  <2>2. u \in U
    <3>1. <<arg.key>> \in Seq(Nat)
        BY <2>1
    <3> QED
        BY <3>1 DEF AnyUop, Uop, NoImm, Var
  <2>3. CopyCode(arg, mux).uops = <<u>> /\ CopyCode(arg, mux).new = 0
      BY <1>2 DEF CopyCode
  <2> HIDE DEF u, U
  <2>4. <<u>> \in Seq(U)
      BY <2>2
  <2> QED
      BY <2>3, <2>4 DEF U
<1> QED
    BY <1>1, <1>2

Uncached(arg, mux) ==
    /\ arg \in Operands(fn) /\ mux \in Nat /\ count \in Nat /\ mux <= count /\ fn.vars \in Nat
    /\ \A key \in DOMAIN lui : lui[key] \in Nat
    /\ \A key \in DOMAIN fimm : fimm[key] \in Nat
    /\ arg.cls = "int" => arg.key \notin DOMAIN lui
    /\ arg.cls = "float" => arg.key \notin DOMAIN fimm

LEMMA CopyWorks ==
    ASSUME NEW arg, NEW mux, Uncached(arg, mux), NEW body \in Seq(AnyUop), NEW D,
           mux \in DOMAIN Ran(D, body).env,
           CopyCode(arg, mux).new = 1 => count + 1 \in DOMAIN Ran(D, body).env
    PROVE  CopyMade(Ran(D, body), Ran(D, body \o CopyCode(arg, mux).uops), mux, arg, count + 1)
<1> DEFINE d == Ran(D, body)
           l == Load(arg, mux, count + 1)
           e == Ran(D, body \o CopyCode(arg, mux).uops)
<1> USE DEF Uncached
<1>1. CASE IsConst(arg)
  <2>1. CopyCode(arg, mux) = l
      BY <1>1 DEF CopyCode
  <2>2. count + 1 \in Nat /\ mux /= count + 1
      OBVIOUS
  <2>3. l.new = 1 => count + 1 \in DOMAIN d.env
      BY <2>1
  <2>4. Loaded(d, Ran(D, body \o l.uops), arg, mux, count + 1, l)
      BY <1>1, <2>2, <2>3, LoadWorks
  <2>5. Loaded(d, e, arg, mux, count + 1, l)
      BY <2>1, <2>4
  <2>6. Value(d.env, arg) = ConstTerm(arg)
      BY <1>1, ConstantArgument
  <2> HIDE DEF d, e, l
  <2>7. CopyMade(d, e, mux, arg, count + 1)
      BY <2>5, <2>6 DEF Loaded, CopyMade
  <2> QED
      BY <2>7 DEF d, e
<1>2. CASE ~IsConst(arg)
  <2> DEFINE u == Uop("mv", mux, <<arg.key>>, NoImm)
  <2>1. arg.key \in Nat /\ Value(d.env, arg) = d.env[arg.key]
      BY <1>2, Argument
  <2>2. u \in AnyUop
    <3>1. <<arg.key>> \in Seq(Nat)
        BY <2>1
    <3> QED
        BY <3>1 DEF AnyUop, Uop, NoImm, Var
  <2>3. e = Executed(d, u)
    <3>1. CopyCode(arg, mux).uops = <<u>>
        BY <1>2 DEF CopyCode
    <3>2. Ran(D, body \o <<u>>) = Executed(Ran(D, body), u)
        BY <2>2, ThenOne
    <3> QED
        BY <3>1, <3>2
  <2>4. u.do /= "end" /\ u.res = mux /\ Result(d.env, u) = d.env[arg.key]
      BY DEF Uop, Result
  <2> HIDE DEF d, e, u
  <2>5. u.res \in DOMAIN d.env
      BY <2>4 DEF d
  <2>6. Wrote(d, mux, d.env[arg.key], e)
      BY <2>3, <2>4, <2>5, WriteRuns
  <2>7. CopyMade(d, e, mux, arg, count + 1)
      BY <2>1, <2>6 DEF Wrote, CopyMade
  <2> QED
      BY <2>7 DEF d, e
<1> QED
    BY <1>1, <1>2

(* dt2 is dt after the copy of datum j of phi p.                           *)
OneMoreCopied(ph, dt, dt2, p, j) ==
    \A q \in DOMAIN ph : \A i \in DOMAIN ph[q].data :
        Copied(dt2, q, i) => Copied(dt, q, i) \/ (q = p /\ i = j)

LEMMA CopyElsewhere ==
    ASSUME NEW f, NEW ph, NEW dt, NEW dt2, NEW p, NEW j, OneMoreCopied(ph, dt, dt2, p, j),
           NEW b, b /= ph[p].data[j].from, NEW D, NEW d, NEW u, NEW s, Leaves(f, ph, dt, D, b, d, u, s)
    PROVE  Leaves(f, ph, dt2, D, b, d, u, s)
<1>1. ASSUME NEW q \in DOMAIN ph, NEW i \in DOMAIN ph[q].data, Copied(dt2, q, i), ph[q].data[i].from = b
      PROVE  d.env[ph[q].mux] = Value(s.env, ph[q].data[i].arg)
  <2>1. Copied(dt, q, i)
      BY <1>1 DEF OneMoreCopied
  <2> QED
      BY <1>1, <2>1 DEF Leaves
<1> QED
    BY <1>1 DEF Leaves

LEMMA CopyHere ==
    ASSUME NEW f, NEW ph, NEW dt, NEW dt2, NEW p \in DOMAIN ph, NEW j \in DOMAIN ph[p].data,
           OneMoreCopied(ph, dt, dt2, p, j),
           NEW c \in Nat, f.vars \in Nat, f.vars <= c,
           \A q \in DOMAIN ph : ph[q].mux \in f.vars + 1 .. c,
           \A q, r \in DOMAIN ph : ph[q].mux = ph[r].mux => q = r,
           \A i \in DOMAIN ph[p].data : ph[p].data[i].from = ph[p].data[j].from => i = j,
           ph[p].data[j].arg \in Operands(f),
           NEW D, 1 .. c \subseteq DOMAIN D.env, NEW d, NEW e, NEW u, NEW s,
           \A k \in DOMAIN u.regs : u.regs[k] \in 1 .. c /\ \A q \in DOMAIN ph : ph[q].mux /= u.regs[k],
           Leaves(f, ph, dt, D, ph[p].data[j].from, d, u, s),
           CopyMade(d, e, ph[p].mux, ph[p].data[j].arg, c + 1)
    PROVE  Leaves(f, ph, dt2, D, ph[p].data[j].from, e, u, s)
<1> DEFINE b == ph[p].data[j].from
           mux == ph[p].mux
           arg == ph[p].data[j].arg
<1>1. DOMAIN d.env = DOMAIN D.env /\ DOMAIN e.env = DOMAIN D.env /\ DOMAIN s.env = 1 .. f.vars /\ e.read = d.read
    BY DEF Leaves, CopyMade
<1>2. \A x \in 1 .. c : x /= mux => e.env[x] = d.env[x]
  <2>1. \A x \in 1 .. c : x \in DOMAIN d.env /\ x /= c + 1
      BY <1>1
  <2> QED
      BY <2>1 DEF CopyMade
<1>3. \A v \in 1 .. f.vars : d.env[v] = s.env[v]
    BY DEF Leaves
<1>4. e.env[mux] = Value(s.env, arg)
  <2>1. e.env[mux] = Value(d.env, arg)
      BY DEF CopyMade
  <2>2. CASE IsConst(arg)
      BY <2>1, <2>2, ConstantArgument
  <2>3. CASE ~IsConst(arg)
    <3>1. arg.key \in 1 .. f.vars /\ \A env : Value(env, arg) = env[arg.key]
        BY <2>3, Argument
    <3> QED
        BY <1>3, <2>1, <3>1
  <2> QED
      BY <2>2, <2>3
<1>5. \A v \in 1 .. f.vars : e.env[v] = s.env[v]
  <2>1. \A v \in 1 .. f.vars : v \in 1 .. c /\ v /= mux
      OBVIOUS
  <2> QED
      BY <1>2, <1>3, <2>1
<1>6. s.read = Append(e.read, [k \in DOMAIN u.regs |-> e.env[u.regs[k]]])
  <2>1. \A k \in DOMAIN u.regs : e.env[u.regs[k]] = d.env[u.regs[k]]
      BY <1>2
  <2>2. [k \in DOMAIN u.regs |-> e.env[u.regs[k]]] = [k \in DOMAIN u.regs |-> d.env[u.regs[k]]]
      BY <2>1
  <2> QED
      BY <1>1, <2>2 DEF Leaves
<1>7. ASSUME NEW q \in DOMAIN ph, NEW i \in DOMAIN ph[q].data, Copied(dt2, q, i), ph[q].data[i].from = b
      PROVE  e.env[ph[q].mux] = Value(s.env, ph[q].data[i].arg)
  <2>1. CASE q = p
      BY <1>4, <1>7, <2>1
  <2>2. CASE q /= p
    <3>1. Copied(dt, q, i)
        BY <1>7, <2>2 DEF OneMoreCopied
    <3>2. d.env[ph[q].mux] = Value(s.env, ph[q].data[i].arg)
        BY <1>7, <3>1 DEF Leaves
    <3>3. ph[q].mux \in 1 .. c /\ ph[q].mux /= mux
        BY <2>2
    <3> QED
        BY <1>2, <3>2, <3>3
  <2> QED
      BY <2>1, <2>2
<1>8. \A q \in DOMAIN ph : \A i \in DOMAIN ph[q].data :
         Copied(dt2, q, i) /\ ph[q].data[i].from = b => e.env[ph[q].mux] = Value(s.env, ph[q].data[i].arg)
    BY <1>7
<1> HIDE DEF b
<1>9. Leaves(f, ph, dt2, D, b, e, u, s)
    BY <1>1, <1>5, <1>6, <1>8 DEF Leaves
<1> QED
    BY <1>9 DEF b

LEMMA CopyStep ==
    ASSUME IInv, Copy, ~Leaks(fn)
    PROVE  IInv'
<1> DEFINE p == datum[1]
           j == datum[2]
           mux == phis[p].mux
           arg == phis[p].data[j].arg
           from == phis[p].data[j].from
           l == CopyCode(arg, mux)
<1>1. /\ phase = "dephi" /\ p \in DOMAIN phis
      /\ lui' = <<>> /\ fimm' = <<>> /\ UNCHANGED <<fn, phase, block, inst, phis>>
    BY Zenon DEF Copy
<1>2. uops' = [uops EXCEPT ![from] = Front(uops[from]) \o l.uops \o <<Last(uops[from])>>]
    BY Zenon DEF Copy, CopyCode
<1>3. count' = count + l.new
    BY Zenon DEF Copy, CopyCode
<1>4. datum' = IF j = Len(phis[p].data) THEN <<p + 1, 1>> ELSE <<p, j + 1>>
    BY Zenon DEF Copy
<1>5. /\ fn \in Functions /\ uops \in [Blocks -> Seq(AnyUop)] /\ count \in Nat /\ fn.vars <= count
      /\ block = Len(fn.code) /\ inst = Len(fn.code[block]) + 1 /\ block \in Blocks
    BY Zenon, <1>1 DEF IInv, Shape
<1>6. /\ fn.vars \in Nat /\ Blocks = 1 .. Len(fn.code) /\ Len(fn.code) \in Nat
      /\ \A b \in Blocks : Len(fn.code[b]) \in Nat
    BY <1>5, BlockFacts DEF Blocks
<1>7. /\ Len(phis) \in Nat /\ DOMAIN phis = 1 .. Len(phis)
      /\ \A q \in DOMAIN phis :
            /\ phis[q].mux \in fn.vars + 1 .. count
            /\ Len(phis[q].data) \in Nat /\ Len(phis[q].data) >= 1
            /\ DOMAIN phis[q].data = 1 .. Len(phis[q].data)
            /\ \A i \in DOMAIN phis[q].data :
                 phis[q].data[i].arg \in Operands(fn) /\ phis[q].data[i].from \in Blocks
    BY PhiNumbers DEF IInv
<1>8. /\ PhisInv /\ p \in DOMAIN phis /\ j \in DOMAIN phis[p].data
      /\ \A q, r \in DOMAIN phis : phis[q].mux = phis[r].mux => q = r
      /\ \A i \in DOMAIN phis[p].data : phis[p].data[i].from = phis[p].data[j].from => i = j
    BY Zenon, <1>1 DEF IInv, PhisInv
<1>9. arg \in Operands(fn) /\ from \in Blocks /\ mux \in fn.vars + 1 .. count
    BY <1>7, <1>8
<1>10. /\ \A key \in DOMAIN lui : lui[key] \in Nat
       /\ \A key \in DOMAIN fimm : fimm[key] \in Nat
    BY <1>5, <1>6 DEF IInv, CacheInv
<1>11. /\ arg.cls = "int" => arg.key \notin DOMAIN lui
       /\ arg.cls = "float" => arg.key \notin DOMAIN fimm
    BY Zenon, <1>1, FirstCopyMisses
<1>12. OneMoreCopied(phis, datum, datum', p, j) /\ datum' /= <<1, 1>>
      /\ datum' \in (1 .. Len(phis) + 1) \X Nat
      /\ (datum'[1] \in DOMAIN phis => datum'[2] \in DOMAIN phis[datum'[1]].data)
  <2>1. p \in Nat /\ p >= 1 /\ p <= Len(phis) /\ j \in Nat /\ j >= 1 /\ j <= Len(phis[p].data)
        /\ Len(phis[p].data) \in Nat
      BY <1>7, <1>8
  <2>2. CASE j = Len(phis[p].data)
    <3>1. datum'[1] = p + 1 /\ datum'[2] = 1 /\ datum' = <<p + 1, 1>>
        BY <1>4, <2>2
    <3>2. ASSUME NEW q \in DOMAIN phis, NEW i \in DOMAIN phis[q].data, Copied(datum', q, i)
          PROVE  Copied(datum, q, i) \/ (q = p /\ i = j)
      <4>1. q \in Nat /\ i \in Nat /\ i >= 1 /\ (q = p => i <= j)
          BY <1>7, <2>2
      <4>2. q < p + 1 \/ (q = p + 1 /\ i < 1)
          BY <3>1, <3>2 DEF Copied
      <4>3. q < p \/ (q = p /\ i < j) \/ (q = p /\ i = j)
          BY <2>1, <4>1, <4>2
      <4> QED
          BY <4>3 DEF Copied
    <3>3. p + 1 \in 1 .. Len(phis) + 1 /\ p + 1 /= 1
        BY <1>7, <2>1
    <3>4. p + 1 \in DOMAIN phis => 1 \in DOMAIN phis[p + 1].data
        BY <1>7
    <3> HIDE DEF p, j
    <3> QED
        BY <3>1, <3>2, <3>3, <3>4 DEF OneMoreCopied
  <2>3. CASE j /= Len(phis[p].data)
    <3>1. datum'[1] = p /\ datum'[2] = j + 1 /\ datum' = <<p, j + 1>>
        BY <1>4, <2>3
    <3>2. ASSUME NEW q \in DOMAIN phis, NEW i \in DOMAIN phis[q].data, Copied(datum', q, i)
          PROVE  Copied(datum, q, i) \/ (q = p /\ i = j)
      <4>1. q \in Nat /\ i \in Nat
          BY <1>7
      <4>2. q < p \/ (q = p /\ i < j + 1)
          BY <3>1, <3>2 DEF Copied
      <4>3. q < p \/ (q = p /\ i < j) \/ (q = p /\ i = j)
          BY <2>1, <4>1, <4>2
      <4> QED
          BY <4>3 DEF Copied
    <3>3. p \in 1 .. Len(phis) + 1 /\ j + 1 /= 1 /\ j + 1 \in Nat
        BY <1>7, <2>1
    <3>4. j + 1 \in DOMAIN phis[p].data
        BY <1>7, <1>8, <2>1, <2>3
    <3> HIDE DEF p, j
    <3> QED
        BY <3>1, <3>2, <3>3, <3>4 DEF OneMoreCopied
  <2> QED
      BY <2>2, <2>3
<1> HIDE DEF p, j
<1>13. l.uops \in Seq(AnyUop) /\ l.new \in {0, 1} /\ mux \in Nat /\ mux <= count
  <2>1. mux \in Nat /\ mux <= count
      BY <1>5, <1>6, <1>9
  <2> HIDE DEF arg, mux
  <2> QED
      BY <1>5, <1>6, <1>9, <1>10, <2>1, CopyUops
<1> HIDE DEF l
<1>14. count' \in Nat /\ count <= count' /\ count' = count + l.new /\ fn.vars <= count'
    BY <1>5, <1>6, <1>13, <1>3
<1>15. fn' = fn /\ phis' = phis /\ block' = block /\ inst' = inst /\ phase' = phase /\ Blocks' = Blocks /\ Data' = Data
    BY <1>1 DEF Blocks, Data
<1>16. \A b \in Blocks : Complete(b) /\ Complete(b)'
    BY <1>5, <1>6, <1>15 DEF Complete
<1> DEFINE body == Front(uops[from])
           u == Last(uops[from])
<1>17. uops[from] /= <<>> /\ body \in Seq(AnyUop) /\ u \in AnyUop
  <2> DEFINE U == AnyUop
  <2>1. uops[from] \in Seq(U) /\ uops[from] /= <<>>
      BY <1>5, <1>9, <1>16 DEF IInv, ClosedInv
  <2> HIDE DEF U, from
  <2>2. Len(uops[from]) \in Nat /\ Len(uops[from]) >= 1
      BY <2>1
  <2>3. Front(uops[from]) \in Seq(U) /\ Last(uops[from]) \in U
      BY <2>1, <2>2 DEF Front, Last
  <2> QED
      BY <2>1, <2>3 DEF U
<1>18. /\ (body \o l.uops) \o <<u>> \in Seq(AnyUop) /\ (body \o l.uops) \o <<u>> /= <<>>
       /\ Front((body \o l.uops) \o <<u>>) = body \o l.uops /\ Last((body \o l.uops) \o <<u>>) = u
  <2> DEFINE U == AnyUop
             w == body \o l.uops
  <2>1. w \in Seq(AnyUop)
    <3>1. body \in Seq(U) /\ l.uops \in Seq(U)
        BY <1>13, <1>17
    <3> HIDE DEF U, body
    <3>2. body \o l.uops \in Seq(U)
        BY <3>1
    <3> QED
        BY <3>2 DEF U
  <2> HIDE DEF w, u
  <2>2. w \o <<u>> \in Seq(AnyUop) /\ w \o <<u>> /= <<>> /\ Front(w \o <<u>>) = w /\ Last(w \o <<u>>) = u
      BY <1>17, <2>1, FrontAndLast DEF u
  <2> QED
      BY Zenon, <2>2 DEF w, u
<1>19. uops'[from] = (body \o l.uops) \o <<u>> /\ \A b \in Blocks : b /= from => uops'[b] = uops[b]
    BY <1>5, <1>9, <1>2
<1>20. uops' \in [Blocks -> Seq(AnyUop)]
    BY <1>5, <1>18, <1>2
<1> HIDE DEF from, body, u, mux, arg
<1>21. Shape'
  <2>1. \A b \in Blocks : ~(b > block)
      BY <1>5, <1>6
  <2> QED
      BY <1>1, <1>5, <1>14, <1>15, <1>20, <2>1 DEF IInv, Shape
<1>22. PhisInv'
  <2> DEFINE M == fn.vars + 1 .. count
             N == fn.vars + 1 .. count'
             R == [data : Data, mux : M]
             Q == [data : Data, mux : N]
  <2>1. phis \in Seq(R)
      BY <1>8 DEF PhisInv
  <2>2. R \subseteq Q
    <3>1. M \subseteq N
        BY <1>5, <1>6, <1>14
    <3> HIDE DEF M, N
    <3> QED
        BY <3>1
  <2> HIDE DEF R, Q
  <2>3. phis \in Seq(Q)
      BY <2>1, <2>2
  <2>4. phis' \in Seq([data : Data', mux : fn'.vars + 1 .. count'])
      BY <1>15, <2>3 DEF Q
  <2> QED
      BY <1>8, <1>12, <1>15, <2>4 DEF PhisInv
<1>23. FirstInv'
    BY <1>15 DEF IInv, FirstInv, Headed
<1>24. CacheInv'
    BY <1>1, <1>12 DEF CacheInv
<1>25. OpenInv'
    BY <1>1 DEF OpenInv
<1>26. ClosedInv'
  <2> SUFFICES ASSUME NEW b \in Blocks
               PROVE  uops'[b] /= <<>> /\ \E at : Closed(fn, phis, count', datum', Front(uops'[b]), Last(uops'[b]), b, at)
      BY <1>15 DEF ClosedInv
  <2>1. PICK at : uops[b] /= <<>> /\ Closed(fn, phis, count, datum, Front(uops[b]), Last(uops[b]), b, at)
      BY <1>16 DEF IInv, ClosedInv
  <2> DEFINE m == Len(fn.code[b])
             v == Last(uops[b])
             code == Front(uops[b])
             s(E) == Meant(E, fn.code[b], m)
  <2>2. /\ Listed(fn, phis, b, m, at) /\ v.do = "end"
        /\ \A k \in DOMAIN v.regs : v.regs[k] \in 1 .. count /\ \A q \in DOMAIN phis : phis[q].mux /= v.regs[k]
      BY <2>1 DEF Closed
  <2>3. \A k \in DOMAIN v.regs : v.regs[k] \in 1 .. count' /\ \A q \in DOMAIN phis : phis[q].mux /= v.regs[k]
      BY <1>5, <1>14, <2>2
  <2>4. ASSUME NEW D, NEW E, Enters(fn, phis, count', D, E, b, m, at)
        PROVE  1 .. count \subseteq DOMAIN D.env /\ 1 .. count' \subseteq DOMAIN D.env
               /\ Leaves(fn, phis, datum, D, b, Ran(D, code), v, s(E))
    <3>1. Enters(fn, phis, count, D, E, b, m, at)
      <4>1. m \in Nat /\ m <= m /\ \A k \in 1 .. m : IsPhi(fn, b, k) => phis[at[k]].mux = phis[at[k]].mux
          BY <1>6
      <4> HIDE DEF m
      <4> QED
          BY <1>5, <1>14, <2>4, <4>1, EntersLess
    <3> QED
        BY <2>1, <2>4, <3>1 DEF Closed, Enters
  <2> HIDE DEF m, v, code, s
  <2>5. CASE b /= from
    <3>1. ASSUME NEW D, NEW E, Enters(fn, phis, count', D, E, b, m, at)
          PROVE  Leaves(fn, phis, datum', D, b, Ran(D, code), v, s(E))
      <4>1. b /= phis[p].data[j].from
          BY <2>5 DEF from
      <4>2. Leaves(fn, phis, datum, D, b, Ran(D, code), v, s(E))
          BY <2>4, <3>1
      <4> QED
          BY <1>12, <4>1, <4>2, CopyElsewhere
    <3>2. Closed(fn, phis, count', datum', code, v, b, at)
        BY <2>2, <2>3, <3>1 DEF Closed, m, s
    <3> QED
        BY <1>19, <2>1, <2>5, <3>2 DEF code, v
  <2>6. CASE b = from
    <3>1. code = body /\ v = u
        BY <2>6 DEF code, v, body, u
    <3>2. ASSUME NEW D, NEW E, Enters(fn, phis, count', D, E, b, m, at)
          PROVE  Leaves(fn, phis, datum', D, b, Ran(D, body \o l.uops), v, s(E))
      <4> DEFINE d == Ran(D, body)
                 e == Ran(D, body \o l.uops)
      <4>1. /\ 1 .. count \subseteq DOMAIN D.env /\ 1 .. count' \subseteq DOMAIN D.env
            /\ Leaves(fn, phis, datum, D, b, d, v, s(E))
          BY <2>4, <3>1, <3>2
      <4>2. DOMAIN d.env = DOMAIN D.env
          BY <4>1 DEF Leaves
      <4>3. mux \in DOMAIN d.env /\ (l.new = 1 => count + 1 \in DOMAIN d.env)
        <5>1. mux \in 1 .. count
            BY <1>5, <1>6, <1>9
        <5>2. l.new = 1 => count + 1 \in 1 .. count'
            BY <1>5, <1>14
        <5> QED
            BY <4>1, <4>2, <5>1, <5>2
      <4>4. CopyMade(d, e, mux, arg, count + 1)
        <5>1. l = CopyCode(arg, mux) /\ arg \in Operands(fn) /\ count \in Nat /\ fn.vars \in Nat
            BY <1>5, <1>6, <1>9 DEF l
        <5>2. CopyMade(Ran(D, body), Ran(D, body \o CopyCode(arg, mux).uops), mux, arg, count + 1)
          <6>1. mux \in DOMAIN Ran(D, body).env
              BY <4>3
          <6>2. CopyCode(arg, mux).new = 1 => count + 1 \in DOMAIN Ran(D, body).env
              BY <4>3, <5>1
          <6>3. mux \in Nat /\ mux <= count
              BY <1>13
          <6>4. Uncached(arg, mux)
              BY Zenon, <1>10, <1>11, <5>1, <6>3 DEF Uncached
          <6>5. body \in Seq(AnyUop)
              BY <1>17
          <6> QED
              BY Zenon, <6>1, <6>2, <6>4, <6>5, CopyWorks
        <5> QED
            BY <5>1, <5>2
      <4> HIDE DEF d, e
      <4>5. Leaves(fn, phis, datum, D, phis[p].data[j].from, d, v, s(E))
          BY <2>6, <4>1 DEF from
      <4>6. CopyMade(d, e, phis[p].mux, phis[p].data[j].arg, count + 1)
          BY <4>4 DEF mux, arg
      <4>7. \A q \in DOMAIN phis : phis[q].mux \in fn.vars + 1 .. count
          BY <1>7
      <4>8. phis[p].data[j].arg \in Operands(fn)
          BY <1>9 DEF arg
      <4>9. Leaves(fn, phis, datum', D, phis[p].data[j].from, e, v, s(E))
          BY <1>5, <1>6, <1>8, <1>12, <2>2, <4>1, <4>5, <4>6, <4>7, <4>8, CopyHere
      <4> QED
          BY <2>6, <4>9 DEF from, e
    <3>3. Closed(fn, phis, count', datum', body \o l.uops, v, b, at)
        BY <2>2, <2>3, <3>2 DEF Closed, m, s
    <3> QED
        BY <1>18, <1>19, <2>6, <3>1, <3>3
  <2> QED
      BY <2>5, <2>6
<1> QED
    BY <1>21, <1>22, <1>23, <1>24, <1>25, <1>26 DEF IInv

-----------------------------------------------------------------------------
(* The caches speak of the block at hand.                                  *)

Put(us, r, do, key) ==
    \E k \in DOMAIN us :
        /\ us[k].res = r /\ us[k].do = do /\ us[k].imm.key = key
        /\ \A j \in k + 1 .. Len(us) : us[j].res /= r

LEMMA PutLater ==
    ASSUME NEW us \in Seq(AnyUop), NEW more \in Seq(AnyUop), NEW r, NEW do, NEW key, Put(us, r, do, key),
           \A k \in 1 .. Len(more) : more[k].res /= r
    PROVE  Put(us \o more, r, do, key)
<1> DEFINE U == AnyUop
           all == us \o more
<1>1. us \in Seq(U) /\ more \in Seq(U)
    OBVIOUS
<1> HIDE DEF U
<1>2. /\ Len(us) \in Nat /\ Len(more) \in Nat /\ Len(all) = Len(us) + Len(more)
      /\ DOMAIN us = 1 .. Len(us) /\ DOMAIN all = 1 .. Len(us) + Len(more)
      /\ \A k \in 1 .. Len(us) : all[k] = us[k]
      /\ \A k \in 1 .. Len(more) : all[Len(us) + k] = more[k]
    BY <1>1
<1> HIDE DEF all
<1>3. PICK k \in DOMAIN us : /\ us[k].res = r /\ us[k].do = do /\ us[k].imm.key = key
                             /\ \A j \in k + 1 .. Len(us) : us[j].res /= r
    BY DEF Put
<1>4. k \in DOMAIN all /\ all[k] = us[k]
    BY <1>2, <1>3
<1>5. ASSUME NEW j \in k + 1 .. Len(all) PROVE all[j].res /= r
  <2>1. CASE j <= Len(us)
    <3>1. j \in k + 1 .. Len(us) /\ j \in 1 .. Len(us)
        BY <1>2, <1>3, <2>1
    <3> QED
        BY <1>2, <1>3, <3>1
  <2>2. CASE ~(j <= Len(us))
    <3>1. j - Len(us) \in 1 .. Len(more) /\ Len(us) + (j - Len(us)) = j
        BY <1>2, <1>3, <2>2
    <3> QED
        BY <1>2, <3>1
  <2> QED
      BY <2>1, <2>2
<1> QED
    BY <1>3, <1>4, <1>5 DEF Put, all

LEMMA PutNow ==
    ASSUME NEW us \in Seq(AnyUop), NEW more \in Seq(AnyUop), 1 \in DOMAIN more,
           \A k \in 2 .. Len(more) : more[k].res /= more[1].res
    PROVE  Put(us \o more, more[1].res, more[1].do, more[1].imm.key)
<1> DEFINE U == AnyUop
           all == us \o more
           r == more[1].res
<1>1. us \in Seq(U) /\ more \in Seq(U)
    OBVIOUS
<1> HIDE DEF U
<1>2. /\ Len(us) \in Nat /\ Len(more) \in Nat /\ Len(more) >= 1 /\ Len(all) = Len(us) + Len(more)
      /\ DOMAIN all = 1 .. Len(us) + Len(more)
      /\ \A k \in 1 .. Len(more) : all[Len(us) + k] = more[k]
    BY <1>1
<1> HIDE DEF all
<1>3. Len(us) + 1 \in DOMAIN all /\ all[Len(us) + 1] = more[1]
    BY <1>2
<1>4. ASSUME NEW j \in (Len(us) + 1) + 1 .. Len(all) PROVE all[j].res /= r
  <2>1. j - Len(us) \in 1 .. Len(more) /\ j - Len(us) \in 2 .. Len(more) /\ Len(us) + (j - Len(us)) = j
      BY <1>2
  <2>2. all[j] = more[j - Len(us)]
      BY <1>2, <2>1
  <2> QED
      BY <2>1, <2>2
<1> QED
    BY <1>3, <1>4 DEF Put, all

LEMMA OneUop ==
    ASSUME NEW u \in AnyUop
    PROVE  <<u>> \in Seq(AnyUop) /\ Len(<<u>>) = 1 /\ <<u>>[1] = u
<1> DEFINE U == AnyUop
<1>1. u \in U
    OBVIOUS
<1> HIDE DEF U
<1>2. <<u>> \in Seq(U) /\ Len(<<u>>) = 1 /\ <<u>>[1] = u
    BY <1>1
<1> QED
    BY <1>2 DEF U

(* The uop of an instruction and what it writes.                           *)
LEMMA InstructionUop ==
    ASSUME NEW n, NEW at, At(n, at), NEW regs \in Seq(Nat), Current.kind \in {"op", "end"}
    PROVE  /\ Uop(Current.kind, Current.res, regs, NoImm) \in AnyUop
           /\ Uop(Current.kind, Current.res, regs, NoImm).res \in 0 .. fn.vars
<1>1. fn \in Functions /\ block \in DOMAIN fn.code /\ inst \in DOMAIN fn.code[block] /\ fn.vars \in Nat
    BY AtFacts DEF At, Blocks
<1>2. (Current.kind = "op" => Current.res \in 1 .. fn.vars) /\ (Current.kind = "end" => Current.res = 0)
    BY <1>1, InstFacts DEF Current
<1>3. Current.res \in 0 .. fn.vars /\ Current.res \in Nat
    BY <1>1, <1>2
<1> QED
    BY <1>3 DEF AnyUop, Uop, NoImm, Var

LEMMA LocalPlain ==
    ASSUME IInv, CachesAreLocal, TranslatePlain
    PROVE  CachesAreLocal'
<1> DEFINE regs == [k \in DOMAIN Current.args |-> Current.args[k].key]
           u == Uop(Current.kind, Current.res, regs, NoImm)
<1>1. /\ phase = "translate" /\ inst \in DOMAIN fn.code[block] /\ Current.kind /= "phi" /\ Consts(Current) = {}
      /\ uops' = [uops EXCEPT ![block] = uops[block] \o <<u>>]
      /\ UNCHANGED <<fn, phase, block, count, lui, fimm>>
    BY DEF TranslatePlain, Emit
<1>2. PICK at : At(inst - 1, at)
    BY <1>1, AtHere
<1>3. Current.kind \in {"op", "end"}
    BY <1>1, AtHere
<1>4. regs \in Seq(Nat)
    BY <1>1, <1>2, <1>3, PlainReady
<1>5. u \in AnyUop /\ u.res \in 0 .. fn.vars
    BY <1>2, <1>3, <1>4, InstructionUop
<1> HIDE DEF u
<1>6. /\ uops[block] \in Seq(AnyUop) /\ block \in Blocks /\ fn.vars \in Nat
      /\ \A key \in DOMAIN lui : lui[key] \in fn.vars + 1 .. count
      /\ \A key \in DOMAIN fimm : fimm[key] \in fn.vars + 1 .. count
    BY <1>2, AtFacts
<1>7. uops'[block'] = uops[block] \o <<u>>
    BY <1>1, <1>6 DEF IInv, Shape
<1>8. <<u>> \in Seq(AnyUop) /\ Len(<<u>>) = 1 /\ <<u>>[1] = u
    BY <1>5, OneUop
<1>9. ASSUME NEW r, r \in fn.vars + 1 .. count, NEW do, NEW key, Put(uops[block], r, do, key)
      PROVE  Put(uops'[block'], r, do, key)
  <2>1. \A k \in 1 .. Len(<<u>>) : <<u>>[k].res /= r
      BY <1>5, <1>6, <1>8, <1>9
  <2> QED
      BY <1>6, <1>7, <1>8, <1>9, <2>1, PutLater
<1>10. /\ \A key \in DOMAIN lui : Put(uops[block], lui[key], "lui", key)
       /\ \A key \in DOMAIN fimm : Put(uops[block], fimm[key], "li", key)
    BY <1>1 DEF CachesAreLocal, PutBy, Put
<1>11. /\ \A key \in DOMAIN lui' : Put(uops'[block'], lui'[key], "lui", key)
       /\ \A key \in DOMAIN fimm' : Put(uops'[block'], fimm'[key], "li", key)
    BY <1>1, <1>6, <1>9, <1>10
<1> QED
    BY <1>11 DEF CachesAreLocal, PutBy, Put

LEMMA LocalPhi ==
    ASSUME IInv, CachesAreLocal, TranslatePhi
    PROVE  CachesAreLocal'
<1> DEFINE u == Uop("mv", Current.res, <<count + 1>>, NoImm)
<1>1. /\ phase = "translate" /\ inst \in DOMAIN fn.code[block] /\ Current.kind = "phi"
      /\ count' = count + 1 /\ uops' = [uops EXCEPT ![block] = uops[block] \o <<u>>]
      /\ UNCHANGED <<fn, phase, block, lui, fimm>>
    BY DEF TranslatePhi, Emit
<1>2. PICK at : At(inst - 1, at)
    BY <1>1, AtHere
<1>3. DOMAIN phis = 1 .. Len(phis) /\ Len(phis) \in Nat
    BY PhiNumbers DEF IInv
<1>4. u \in AnyUop
    BY <1>1, <1>2, <1>3, PhiReady
<1>5. u.res \in 1 .. fn.vars
  <2>1. fn \in Functions /\ block \in DOMAIN fn.code
      BY DEF IInv, Shape, Blocks
  <2>2. Current.res \in 1 .. fn.vars
      BY <1>1, <2>1, InstFacts DEF Current
  <2> QED
      BY <2>2 DEF Uop
<1> HIDE DEF u
<1>6. /\ uops[block] \in Seq(AnyUop) /\ block \in Blocks /\ fn.vars \in Nat
      /\ \A key \in DOMAIN lui : lui[key] \in fn.vars + 1 .. count
      /\ \A key \in DOMAIN fimm : fimm[key] \in fn.vars + 1 .. count
    BY <1>2, AtFacts
<1>7. uops'[block'] = uops[block] \o <<u>>
    BY <1>1, <1>6 DEF IInv, Shape
<1>8. <<u>> \in Seq(AnyUop) /\ Len(<<u>>) = 1 /\ <<u>>[1] = u
    BY <1>4, OneUop
<1>9. ASSUME NEW r, r \in fn.vars + 1 .. count, NEW do, NEW key, Put(uops[block], r, do, key)
      PROVE  Put(uops'[block'], r, do, key)
  <2>1. \A k \in 1 .. Len(<<u>>) : <<u>>[k].res /= r
      BY <1>5, <1>6, <1>8, <1>9
  <2> QED
      BY <1>6, <1>7, <1>8, <1>9, <2>1, PutLater
<1>10. /\ \A key \in DOMAIN lui : Put(uops[block], lui[key], "lui", key)
       /\ \A key \in DOMAIN fimm : Put(uops[block], fimm[key], "li", key)
    BY <1>1 DEF CachesAreLocal, PutBy, Put
<1>11. /\ \A key \in DOMAIN lui' : Put(uops'[block'], lui'[key], "lui", key)
       /\ \A key \in DOMAIN fimm' : Put(uops'[block'], fimm'[key], "li", key)
    BY <1>1, <1>6, <1>9, <1>10
<1> QED
    BY <1>11 DEF CachesAreLocal, PutBy, Put

LEMMA LocalConst ==
    ASSUME IInv, CachesAreLocal, TranslateConst
    PROVE  CachesAreLocal'
<1> DEFINE c == Current.args[CHOOSE k \in Consts(Current) : TRUE]
           dst == count + 1
           fresh == count + 2
           l == Load(c, dst, fresh)
           regs == [k \in DOMAIN Current.args |-> IF IsConst(Current.args[k]) THEN count + 1 ELSE Current.args[k].key]
           u == Uop(Current.kind, Current.res, regs, NoImm)
           more == l.uops \o <<u>>
           li == Uop("li", dst, <<>>, c)
           addi == Uop("addi", dst, <<fresh>>, c)
           lu == Uop("lui", fresh, <<>>, c)
           again == Uop("addi", dst, <<lui[c.key]>>, c)
           mv == Uop("mv", dst, <<fimm[c.key]>>, NoImm)
<1>1. /\ phase = "translate" /\ inst \in DOMAIN fn.code[block] /\ Current.kind /= "phi" /\ Consts(Current) /= {}
      /\ uops' = [uops EXCEPT ![block] = uops[block] \o more]
      /\ lui' = l.lui /\ fimm' = l.fimm
      /\ UNCHANGED <<fn, phase, block>>
    BY DEF TranslateConst, Emit
<1>2. PICK at : At(inst - 1, at)
    BY <1>1, AtHere
<1>3. Current.kind \in {"op", "end"}
    BY <1>1, AtHere
<1>4. c \in Operands(fn) /\ IsConst(c) /\ regs \in Seq(Nat)
    BY <1>1, <1>2, <1>3, ConstReady DEF Brought
<1>5. u \in AnyUop /\ u.res \in 0 .. fn.vars
    BY <1>2, <1>3, <1>4, InstructionUop
<1>6. /\ uops[block] \in Seq(AnyUop) /\ block \in Blocks /\ fn.vars \in Nat /\ count \in Nat /\ fn.vars <= count
      /\ \A key \in DOMAIN lui : lui[key] \in fn.vars + 1 .. count /\ lui[key] \in Nat
      /\ \A key \in DOMAIN fimm : fimm[key] \in fn.vars + 1 .. count /\ fimm[key] \in Nat
    BY <1>2, AtFacts
<1> HIDE DEF c, u, regs
<1>7. /\ dst \in Nat /\ fresh \in Nat /\ dst /= fresh
      /\ \A r \in fn.vars + 1 .. count : r /= dst /\ r /= fresh /\ r /= u.res
      /\ u.res /= dst /\ u.res /= fresh
    BY <1>5, <1>6
<1> HIDE DEF dst, fresh
<1>8. \/ l = [uops |-> <<li>>, lui |-> lui, fimm |-> fimm, new |-> 0]
      \/ l = [uops |-> <<again>>, lui |-> lui, fimm |-> fimm, new |-> 0]
      \/ l = [uops |-> <<lu, addi>>, lui |-> Entering(lui, c.key, fresh), fimm |-> fimm, new |-> 1]
      \/ l = [uops |-> <<mv>>, lui |-> lui, fimm |-> fimm, new |-> 0]
      \/ l = [uops |-> <<li>>, lui |-> lui, fimm |-> Entering(fimm, c.key, dst), new |-> 0]
    BY <1>4, LoadForms
<1>9. l.uops \in Seq(AnyUop)
    BY <1>4, <1>6, <1>7, LoadUops
<1>10. /\ li.res = dst /\ again.res = dst /\ addi.res = dst /\ mv.res = dst /\ lu.res = fresh
       /\ lu.do = "lui" /\ lu.imm.key = c.key /\ li.do = "li" /\ li.imm.key = c.key
    BY DEF Uop
<1> HIDE DEF l, li, addi, lu, again, mv
<1>11. /\ more \in Seq(AnyUop) /\ Len(l.uops) \in Nat /\ Len(more) = Len(l.uops) + 1
       /\ \A k \in 1 .. Len(l.uops) : more[k] = l.uops[k]
       /\ more[Len(l.uops) + 1] = u
  <2> DEFINE U == AnyUop
  <2>1. l.uops \in Seq(U) /\ u \in U
      BY <1>5, <1>9
  <2> HIDE DEF U
  <2>2. /\ more \in Seq(U) /\ Len(l.uops) \in Nat /\ Len(more) = Len(l.uops) + 1
        /\ \A k \in 1 .. Len(l.uops) : more[k] = l.uops[k]
        /\ more[Len(l.uops) + 1] = u
      BY <2>1
  <2> QED
      BY <2>2 DEF U
<1> HIDE DEF more
<1>12. \A k \in 1 .. Len(l.uops) : l.uops[k].res \in {dst, fresh}
  <2>1. \/ l.uops = <<li>> \/ l.uops = <<again>> \/ l.uops = <<mv>> \/ l.uops = <<lu, addi>>
      BY <1>8
  <2> QED
      BY <1>10, <2>1
<1>13. \A k \in 1 .. Len(more) : more[k].res \in {dst, fresh, u.res}
  <2>1. \A k \in 1 .. Len(more) : k \in 1 .. Len(l.uops) \/ k = Len(l.uops) + 1
      BY <1>11
  <2> QED
      BY <1>11, <1>12, <2>1
<1>14. uops'[block'] = uops[block] \o more
    BY <1>1, <1>6 DEF IInv, Shape
<1>15. ASSUME NEW r, r \in fn.vars + 1 .. count, NEW do, NEW key, Put(uops[block], r, do, key)
       PROVE  Put(uops'[block'], r, do, key)
  <2>1. \A k \in 1 .. Len(more) : more[k].res /= r
      BY <1>7, <1>13, <1>15
  <2> QED
      BY <1>6, <1>11, <1>14, <1>15, <2>1, PutLater
<1>16. /\ \A key \in DOMAIN lui : Put(uops[block], lui[key], "lui", key)
       /\ \A key \in DOMAIN fimm : Put(uops[block], fimm[key], "li", key)
    BY <1>1 DEF CachesAreLocal, PutBy, Put
<1>17. ASSUME NEW x, 1 <= Len(l.uops), l.uops[1] = x, x.res \in {dst, fresh},
              \A k \in 2 .. Len(l.uops) : l.uops[k].res /= x.res
       PROVE  Put(uops'[block'], x.res, x.do, x.imm.key)
  <2>1. more[1] = x /\ 1 \in DOMAIN more
    <3>1. 1 \in 1 .. Len(l.uops) /\ 1 \in 1 .. Len(more)
        BY <1>11, <1>17
    <3> QED
        BY <1>11, <1>17, <3>1
  <2>2. \A k \in 2 .. Len(more) : more[k].res /= x.res
    <3>1. \A k \in 2 .. Len(more) : (k \in 2 .. Len(l.uops) /\ k \in 1 .. Len(l.uops)) \/ k = Len(l.uops) + 1
        BY <1>11
    <3> QED
        BY <1>7, <1>11, <1>17, <3>1
  <2> QED
      BY <1>6, <1>11, <1>14, <2>1, <2>2, PutNow
<1>18. ASSUME NEW key \in DOMAIN l.lui PROVE Put(uops'[block'], l.lui[key], "lui", key)
  <2>1. CASE l.lui = lui
      BY <1>6, <1>15, <1>16, <2>1
  <2>2. CASE l.uops = <<lu, addi>> /\ l.lui = Entering(lui, c.key, fresh)
    <3>1. CASE key /= c.key
      <4>1. key \in DOMAIN lui /\ l.lui[key] = lui[key]
          BY <2>2, <3>1 DEF Entering
      <4> QED
          BY <1>6, <1>15, <1>16, <4>1
    <3>2. CASE key = c.key
      <4>1. l.lui[key] = fresh
          BY <2>2, <3>2 DEF Entering
      <4>2. Put(uops'[block'], lu.res, lu.do, lu.imm.key)
        <5>1. Len(l.uops) = 2 /\ l.uops[1] = lu /\ l.uops[2] = addi
            BY <2>2
        <5> QED
            BY <1>7, <1>10, <1>17, <5>1
      <4> QED
          BY <1>10, <3>2, <4>1, <4>2
    <3> QED
        BY <3>1, <3>2
  <2> QED
      BY <1>8, <2>1, <2>2
<1>19. ASSUME NEW key \in DOMAIN l.fimm PROVE Put(uops'[block'], l.fimm[key], "li", key)
  <2>1. CASE l.fimm = fimm
      BY <1>6, <1>15, <1>16, <2>1
  <2>2. CASE l.uops = <<li>> /\ l.fimm = Entering(fimm, c.key, dst)
    <3>1. CASE key /= c.key
      <4>1. key \in DOMAIN fimm /\ l.fimm[key] = fimm[key]
          BY <2>2, <3>1 DEF Entering
      <4> QED
          BY <1>6, <1>15, <1>16, <4>1
    <3>2. CASE key = c.key
      <4>1. l.fimm[key] = dst
          BY <2>2, <3>2 DEF Entering
      <4>2. Put(uops'[block'], li.res, li.do, li.imm.key)
        <5>1. Len(l.uops) = 1 /\ l.uops[1] = li
            BY <2>2
        <5> QED
            BY <1>10, <1>17, <5>1
      <4> QED
          BY <1>10, <3>2, <4>1, <4>2
    <3> QED
        BY <3>1, <3>2
  <2> QED
      BY <1>8, <2>1, <2>2
<1>20. /\ \A key \in DOMAIN lui' : Put(uops'[block'], lui'[key], "lui", key)
       /\ \A key \in DOMAIN fimm' : Put(uops'[block'], fimm'[key], "li", key)
    BY <1>1, <1>18, <1>19
<1> QED
    BY <1>20 DEF CachesAreLocal, PutBy, Put

-----------------------------------------------------------------------------
(* What holds while instructions are translated: no copy has been made.    *)
LocalInv == phase = "translate" => IInv /\ CachesAreLocal

LEMMA InitLocal == Init => LocalInv
<1>1. Init => CachesAreLocal
    BY DEF Init, CachesAreLocal
<1> QED
    BY <1>1, InitIInv DEF LocalInv

LEMMA NextLocal == LocalInv /\ [Next]_vars => LocalInv'
<1> SUFFICES ASSUME LocalInv, [Next]_vars, phase' = "translate" PROVE IInv' /\ CachesAreLocal'
    BY DEF LocalInv
<1>1. CASE TranslatePlain
    BY <1>1, PlainStep, LocalPlain DEF LocalInv, TranslatePlain
<1>2. CASE TranslateConst
    BY <1>2, ConstStep, LocalConst DEF LocalInv, TranslateConst
<1>3. CASE TranslatePhi
    BY <1>3, PhiStep, LocalPhi DEF LocalInv, TranslatePhi
<1>4. CASE NextBlock
  <2>1. IInv'
      BY <1>4, NextBlockStep DEF LocalInv, NextBlock
  <2>2. CachesAreLocal'
      BY <1>4 DEF NextBlock, CachesAreLocal
  <2> QED
      BY <2>1, <2>2
<1>5. CASE StartDephi \/ Copy \/ Finish
    BY Zenon, <1>5 DEF StartDephi, Copy, Finish
<1>6. CASE UNCHANGED vars
  <2>1. LocalInv /\ phase = "translate"
      BY <1>6 DEF vars
  <2>2. Shape' /\ PhisInv' /\ FirstInv' /\ CacheInv'
      BY <1>6, <2>1 DEF LocalInv, vars, IInv, Shape, PhisInv, FirstInv, CacheInv, Blocks, Data, Headed, Mentions
  <2>3. OpenInv' /\ ClosedInv'
      BY <1>6, <2>1 DEF LocalInv, vars, IInv, OpenInv, ClosedInv, Blocks, Complete
  <2>4. CachesAreLocal'
      BY <1>6, <2>1 DEF LocalInv, vars, CachesAreLocal, PutBy
  <2> QED
      BY <2>2, <2>3, <2>4 DEF IInv
<1> QED
    BY <1>1, <1>2, <1>3, <1>4, <1>5, <1>6 DEF Next

(* What the two caches name is in that register, put there by the last uop *)
(* that writes it, earlier in the block at hand: a hit always finds a uop  *)
(* that every path to the reader runs, and that nothing has overwritten.   *)
THEOREM CachesOfTheBlock == Spec => []CachesAreLocal
<1>1. LocalInv => CachesAreLocal
    BY DEF LocalInv, CachesAreLocal
<1> QED
    BY <1>1, InitLocal, NextLocal, PTL DEF Spec

-----------------------------------------------------------------------------
(* The invariant, when the first copy misses the caches, and what holds at *)
(* the end: every copy has been made.                                      *)

DoneInv == phase = "done" => datum[1] \notin DOMAIN phis

LEMMA NextIInv ==
    ASSUME \A f \in Functions : ~Leaks(f)
    PROVE  IInv /\ DoneInv /\ [Next]_vars => IInv' /\ DoneInv'
<1> SUFFICES ASSUME IInv, DoneInv, [Next]_vars PROVE IInv' /\ DoneInv'
    OBVIOUS
<1>1. ~Leaks(fn)
    BY DEF IInv, Shape
<1>2. CASE TranslatePlain
    BY <1>2, PlainStep DEF TranslatePlain, DoneInv
<1>3. CASE TranslateConst
    BY <1>3, ConstStep DEF TranslateConst, DoneInv
<1>4. CASE TranslatePhi
    BY <1>4, PhiStep DEF TranslatePhi, DoneInv
<1>5. CASE NextBlock
    BY <1>5, NextBlockStep DEF NextBlock, DoneInv
<1>6. CASE StartDephi \/ Finish
    BY <1>6, PhaseStep DEF StartDephi, Finish, DoneInv
<1>7. CASE Copy
    BY Zenon, <1>1, <1>7, CopyStep DEF Copy, DoneInv
<1>8. CASE UNCHANGED vars
    BY <1>8 DEF vars, IInv, Shape, PhisInv, FirstInv, CacheInv, OpenInv, ClosedInv,
                Blocks, Data, Headed, Mentions, Complete, DoneInv
<1> QED
    BY <1>2, <1>3, <1>4, <1>5, <1>6, <1>7, <1>8 DEF Next

-----------------------------------------------------------------------------
(* From block to block.  d is the machine and s the values in SSA at the   *)
(* end of block b.                                                         *)

Agree(b, d, s) ==
    /\ 1 .. count \subseteq DOMAIN d.env /\ DOMAIN s.env = 1 .. fn.vars
    /\ d.read = s.read
    /\ \A v \in 1 .. fn.vars : d.env[v] = s.env[v]
    /\ \A p \in DOMAIN phis : \A j \in DOMAIN phis[p].data :
          phis[p].data[j].from = b => d.env[phis[p].mux] = Value(s.env, phis[p].data[j].arg)

(* A run of a block that was entered with the right values.                *)
LEMMA BlockRuns ==
    ASSUME IInv, DoneInv, phase = "done", NEW b \in Blocks
    PROVE  \E at : /\ Listed(fn, phis, b, Len(fn.code[b]), at)
                   /\ \A D, E : Enters(fn, phis, count, D, E, b, Len(fn.code[b]), at) =>
                         Agree(b, Ran(D, uops[b]), Meant(E, fn.code[b], Len(fn.code[b])))
<1>1. /\ fn \in Functions /\ uops \in [Blocks -> Seq(AnyUop)] /\ block = Len(fn.code) /\ inst = Len(fn.code[block]) + 1
      /\ count \in Nat
    BY DEF IInv, Shape
<1>2. Complete(b)
    BY <1>1, BlockFacts DEF Complete, Blocks
<1>3. PICK at : uops[b] /= <<>> /\ Closed(fn, phis, count, datum, Front(uops[b]), Last(uops[b]), b, at)
    BY <1>2 DEF IInv, ClosedInv
<1> DEFINE body == Front(uops[b])
           u == Last(uops[b])
<1>4. body \in Seq(AnyUop) /\ u \in AnyUop /\ uops[b] = Append(body, u)
  <2> DEFINE U == AnyUop
             us == uops[b]
  <2>1. us \in Seq(U) /\ us /= <<>>
      BY <1>1, <1>3
  <2> HIDE DEF U, us
  <2>2. Len(us) \in Nat /\ Len(us) >= 1
      BY <2>1
  <2>3. Front(us) \in Seq(U) /\ Last(us) \in U /\ us = Append(Front(us), Last(us))
      BY <2>1, <2>2 DEF Front, Last
  <2> QED
      BY <2>3 DEF U, us
<1>5. \A p \in DOMAIN phis : \A j \in DOMAIN phis[p].data : Copied(datum, p, j)
  <2>1. /\ datum[1] \notin DOMAIN phis /\ DOMAIN phis = 1 .. Len(phis) /\ Len(phis) \in Nat
        /\ datum[1] \in 1 .. Len(phis) + 1
      BY PhiNumbers DEF DoneInv, IInv, PhisInv
  <2>2. \A p \in DOMAIN phis : p < datum[1]
      BY <2>1
  <2> QED
      BY <2>2 DEF Copied
<1> HIDE DEF body, u
<1>6. ASSUME NEW D, NEW E, Enters(fn, phis, count, D, E, b, Len(fn.code[b]), at)
      PROVE  Agree(b, Ran(D, uops[b]), Meant(E, fn.code[b], Len(fn.code[b])))
  <2> DEFINE d == Ran(D, body)
             e == Ran(D, uops[b])
             s == Meant(E, fn.code[b], Len(fn.code[b]))
  <2>1. Leaves(fn, phis, datum, D, b, d, u, s) /\ u.do = "end"
      BY <1>3, <1>6 DEF Closed, body, u
  <2>2. e = Executed(d, u)
      BY <1>4, RanOneMore
  <2>3. 1 .. count \subseteq DOMAIN D.env
      BY <1>6 DEF Enters
  <2> HIDE DEF d, e, s
  <2>4. e.env = d.env /\ e.read = Append(d.read, [k \in DOMAIN u.regs |-> d.env[u.regs[k]]])
      BY <2>1, <2>2 DEF Executed
  <2>5. Agree(b, e, s)
      BY <1>5, <2>1, <2>3, <2>4 DEF Leaves, Agree
  <2> QED
      BY <2>5 DEF e, s
<1>7. Listed(fn, phis, b, Len(fn.code[b]), at)
    BY <1>3 DEF Closed
<1> QED
    BY <1>6, <1>7

(* The values at the end of block a are the right ones to enter block b.   *)
LEMMA BlockEntered ==
    ASSUME fn \in Functions, NEW a \in Blocks, NEW b \in Blocks, b \in fn.succ[a],
           NEW d, NEW s, Agree(a, d, s), NEW at, Listed(fn, phis, b, Len(fn.code[b]), at)
    PROVE  Enters(fn, phis, count, d, [env |-> Entered(s.env, b, a), read |-> s.read], b, Len(fn.code[b]), at)
<1> DEFINE code == fn.code[b]
           mine(v) == {k \in DOMAIN code : code[k].kind = "phi" /\ code[k].res = v}
           E == [env |-> Entered(s.env, b, a), read |-> s.read]
<1>1. DOMAIN code = 1 .. Len(code) /\ Len(code) \in Nat
    BY BlockFacts DEF Blocks
<1>2. /\ 1 .. count \subseteq DOMAIN d.env /\ DOMAIN s.env = 1 .. fn.vars /\ d.read = s.read
      /\ \A v \in 1 .. fn.vars : d.env[v] = s.env[v]
    BY DEF Agree
<1>3. /\ DOMAIN E.env = 1 .. fn.vars /\ E.read = s.read
      /\ \A v \in 1 .. fn.vars :
            E.env[v] = IF mine(v) = {} THEN s.env[v] ELSE Value(s.env, Given(code[CHOOSE k \in mine(v) : TRUE], a))
    BY <1>2 DEF Entered
<1>4. ASSUME NEW v \in 1 .. fn.vars, \A k \in 1 .. Len(code) : IsPhi(fn, b, k) => code[k].res /= v
      PROVE  d.env[v] = E.env[v]
  <2>1. mine(v) = {}
      BY <1>1, <1>4 DEF IsPhi
  <2> HIDE DEF mine, E
  <2> QED
      BY <1>2, <1>3, <2>1
<1>5. ASSUME NEW k \in 1 .. Len(code), IsPhi(fn, b, k)
      PROVE  d.env[phis[at[k]].mux] = E.env[code[k].res]
  <2> DEFINE i == code[k]
  <2>1. k \in DOMAIN code /\ i.kind = "phi"
      BY <1>5 DEF IsPhi
  <2>2. /\ i.res \in 1 .. fn.vars
        /\ \A m, n \in DOMAIN i.data : i.data[m].from = i.data[n].from => m = n
        /\ \E n \in DOMAIN i.data : i.data[n].from = a
    <3>1. b \in DOMAIN fn.code /\ a \in DOMAIN fn.code
        BY DEF Blocks
    <3>2. i.kind = "phi" =>
             /\ i.res \in 1 .. fn.vars
             /\ \A m, n \in DOMAIN i.data : i.data[m].from = i.data[n].from => m = n
             /\ \A p \in DOMAIN fn.code : b \in fn.succ[p] => \E n \in DOMAIN i.data : i.data[n].from = p
        BY <2>1, <3>1, InstFacts
    <3> QED
        BY <2>1, <3>1, <3>2
  <2>3. mine(i.res) = {k}
    <3>1. ASSUME NEW m \in DOMAIN code, code[m].kind = "phi", code[m].res = i.res PROVE m = k
      <4>1. ASSUME NEW y \in DOMAIN code, code[y].kind = "phi"
            PROVE  \A x \in DOMAIN code : x < y => code[x].res /= code[y].res
        <5>1. b \in DOMAIN fn.code
            BY DEF Blocks
        <5>2. code[y].kind = "phi" =>
                 \A x \in DOMAIN code : x < y => code[x].kind = "phi" /\ code[x].res /= code[y].res
            BY <5>1, InstFacts
        <5> QED
            BY <4>1, <5>2
      <4>2. ~(m < k) /\ ~(k < m)
          BY <2>1, <3>1, <4>1
      <4> QED
          BY <1>1, <2>1, <4>2
    <3> QED
        BY <2>1, <3>1
  <2>4. E.env[i.res] = Value(s.env, Given(i, a))
    <3>1. (CHOOSE x \in mine(i.res) : TRUE) = k
        BY <2>3
    <3> HIDE DEF mine, E
    <3> QED
        BY <1>3, <2>2, <2>3, <3>1
  <2>5. PICK n \in DOMAIN i.data : i.data[n].from = a
      BY <2>2
  <2>6. Given(i, a) = i.data[n].arg
    <3>1. i.data[n] \in Range(i.data)
        BY DEF Range
    <3>2. \A x \in Range(i.data) : x.from = a => x = i.data[n]
        BY <2>2, <2>5 DEF Range
    <3> QED
        BY <2>5, <3>1, <3>2 DEF Given
  <2>7. at[k] \in DOMAIN phis /\ phis[at[k]].data = i.data
      BY <1>5 DEF Listed
  <2>8. d.env[phis[at[k]].mux] = Value(s.env, i.data[n].arg)
      BY <2>5, <2>7 DEF Agree
  <2> QED
      BY <2>4, <2>6, <2>8
<1> HIDE DEF E
<1>6. Enters(fn, phis, count, d, E, b, Len(fn.code[b]), at)
    BY <1>2, <1>3, <1>4, <1>5 DEF Enters
<1> QED
    BY <1>6 DEF E

(* An execution, block after block.                                        *)
SsaStep(a, w, n) ==
    Meant([env |-> IF n = 1 THEN a.env ELSE Entered(a.env, w[n], w[n - 1]), read |-> a.read],
          fn.code[w[n]], Len(fn.code[w[n]]))

SsaSteps(r, w) ==
    /\ r[0] = [env |-> [v \in 1 .. fn.vars |-> Entry(v)], read |-> <<>>]
    /\ Ssa(w) = r[Len(w)].read
    /\ \A n \in 1 .. Len(w) : r[n] = SsaStep(r[n - 1], w, n)

LEMMA SsaHasSteps ==
    ASSUME NEW w \in Seq(Blocks)
    PROVE  \E r : SsaSteps(r, w)
<1> DEFINE a == [env |-> [v \in 1 .. fn.vars |-> Entry(v)], read |-> <<>>]
           Step(x, n) == SsaStep(x, w, n)
           Rule(f, n) == [i \in 0 .. n |-> IF i = 0 THEN a ELSE Step(f[i - 1], i)]
           T == {n \in Nat : ~\E f : f = Rule(f, n)}
<1>1. Ssa(w) = (CHOOSE f : f = Rule(f, Len(w)))[Len(w)].read
    BY DEF Ssa, SsaStep
<1> HIDE DEF Step, a
<1>2. 0 \notin T
  <2>1. [i \in 0 .. 0 |-> a] = Rule([i \in 0 .. 0 |-> a], 0)
      OBVIOUS
  <2> QED
      BY <2>1
<1>3. ASSUME NEW n \in Nat, n \notin T PROVE n + 1 \notin T
  <2>1. PICK f : f = Rule(f, n)
      BY <1>3
  <2> DEFINE g == [i \in 0 .. n + 1 |-> IF i = n + 1 THEN Step(f[i - 1], i) ELSE f[i]]
  <2>2. ASSUME NEW i \in 0 .. n + 1
        PROVE g[i] = IF i = 0 THEN a ELSE Step(g[i - 1], i)
    <3>1. CASE i = n + 1
        BY <3>1
    <3>2. CASE i \in 1 .. n
      <4>1. g[i] = f[i] /\ g[i - 1] = f[i - 1]
          BY <3>2
      <4>2. f[i] = Step(f[i - 1], i)
          BY <2>1, <3>2
      <4> QED
          BY <3>2, <4>1, <4>2
    <3>3. CASE i = 0
        BY <2>1, <3>3
    <3> QED
        BY <3>1, <3>2, <3>3
  <2>3. g = Rule(g, n + 1)
      BY <2>2
  <2> QED
      BY <2>3
<1>4. T = {}
  <2> HIDE DEF T
  <2>1. T \subseteq Nat
      BY DEF T
  <2> QED
      BY <1>2, <1>3, <2>1, Smallest
<1>5. Len(w) \in Nat
    OBVIOUS
<1>6. \E f : f = Rule(f, Len(w))
    BY <1>4, <1>5
<1> DEFINE r == CHOOSE f : f = Rule(f, Len(w))
<1>7. r = Rule(r, Len(w))
    BY <1>6
<1> HIDE DEF r
<1>8. r[0] = a
    BY <1>5, <1>7
<1>9. ASSUME NEW n \in 1 .. Len(w) PROVE r[n] = Step(r[n - 1], n)
    BY <1>5, <1>7
<1> QED
    BY <1>1, <1>8, <1>9 DEF SsaSteps, Step, r, a

MachineSteps(r, w) ==
    /\ r[0] = [env |-> [v \in 1 .. count |-> Entry(v)], read |-> <<>>]
    /\ Machine(w) = r[Len(w)].read
    /\ \A n \in 1 .. Len(w) : r[n] = Ran(r[n - 1], uops[w[n]])

LEMMA MachineHasSteps ==
    ASSUME NEW w \in Seq(Blocks)
    PROVE  \E r : MachineSteps(r, w)
<1> DEFINE a == [env |-> [v \in 1 .. count |-> Entry(v)], read |-> <<>>]
           Step(x, n) == Ran(x, uops[w[n]])
           Rule(f, n) == [i \in 0 .. n |-> IF i = 0 THEN a ELSE Step(f[i - 1], i)]
           T == {n \in Nat : ~\E f : f = Rule(f, n)}
<1>1. Machine(w) = (CHOOSE f : f = Rule(f, Len(w)))[Len(w)].read
    BY DEF Machine
<1> HIDE DEF Step, a
<1>2. 0 \notin T
  <2>1. [i \in 0 .. 0 |-> a] = Rule([i \in 0 .. 0 |-> a], 0)
      OBVIOUS
  <2> QED
      BY <2>1
<1>3. ASSUME NEW n \in Nat, n \notin T PROVE n + 1 \notin T
  <2>1. PICK f : f = Rule(f, n)
      BY <1>3
  <2> DEFINE g == [i \in 0 .. n + 1 |-> IF i = n + 1 THEN Step(f[i - 1], i) ELSE f[i]]
  <2>2. ASSUME NEW i \in 0 .. n + 1
        PROVE g[i] = IF i = 0 THEN a ELSE Step(g[i - 1], i)
    <3>1. CASE i = n + 1
        BY <3>1
    <3>2. CASE i \in 1 .. n
      <4>1. g[i] = f[i] /\ g[i - 1] = f[i - 1]
          BY <3>2
      <4>2. f[i] = Step(f[i - 1], i)
          BY <2>1, <3>2
      <4> QED
          BY <3>2, <4>1, <4>2
    <3>3. CASE i = 0
        BY <2>1, <3>3
    <3> QED
        BY <3>1, <3>2, <3>3
  <2>3. g = Rule(g, n + 1)
      BY <2>2
  <2> QED
      BY <2>3
<1>4. T = {}
  <2> HIDE DEF T
  <2>1. T \subseteq Nat
      BY DEF T
  <2> QED
      BY <1>2, <1>3, <2>1, Smallest
<1>5. Len(w) \in Nat
    OBVIOUS
<1>6. \E f : f = Rule(f, Len(w))
    BY <1>4, <1>5
<1> DEFINE r == CHOOSE f : f = Rule(f, Len(w))
<1>7. r = Rule(r, Len(w))
    BY <1>6
<1> HIDE DEF r
<1>8. r[0] = a
    BY <1>5, <1>7
<1>9. ASSUME NEW n \in 1 .. Len(w) PROVE r[n] = Step(r[n - 1], n)
    BY <1>5, <1>7
<1> QED
    BY <1>1, <1>8, <1>9 DEF MachineSteps, Step, r, a

(* The same values at the end of every block of a walk.                    *)
LEMMA WalkAgrees ==
    ASSUME IInv, DoneInv, phase = "done", NEW w \in Seq(Blocks), IsWalk(w), Len(w) >= 1,
           NEW q, MachineSteps(q, w), NEW r, SsaSteps(r, w), NEW n \in 1 .. Len(w)
    PROVE  Agree(w[n], q[n], r[n])
<1> DEFINE T == {m \in Nat : m \in 1 .. Len(w) /\ ~Agree(w[m], q[m], r[m])}
<1>1. /\ fn \in Functions /\ fn.vars \in Nat /\ count \in Nat /\ fn.vars <= count /\ Len(w) \in Nat
      /\ \A m \in 1 .. Len(w) : w[m] \in Blocks
  <2>1. fn \in Functions /\ count \in Nat /\ fn.vars <= count
      BY DEF IInv, Shape
  <2>2. fn.vars \in Nat
      BY <2>1, BlockFacts
  <2>3. Len(w) \in Nat /\ \A m \in 1 .. Len(w) : w[m] \in Blocks
      OBVIOUS
  <2> QED
      BY <2>1, <2>2, <2>3
<1>2. \A m \in 1 .. Len(w) : q[m] = Ran(q[m - 1], uops[w[m]]) /\ r[m] = SsaStep(r[m - 1], w, m)
    BY DEF MachineSteps, SsaSteps
<1>3. ASSUME NEW m \in 1 .. Len(w), NEW E,
             r[m] = Meant(E, fn.code[w[m]], Len(fn.code[w[m]])),
             \A at : Listed(fn, phis, w[m], Len(fn.code[w[m]]), at) =>
                        Enters(fn, phis, count, q[m - 1], E, w[m], Len(fn.code[w[m]]), at)
      PROVE  Agree(w[m], q[m], r[m])
  <2>1. w[m] \in Blocks
      BY <1>1
  <2>2. PICK at : /\ Listed(fn, phis, w[m], Len(fn.code[w[m]]), at)
                  /\ \A D, F : Enters(fn, phis, count, D, F, w[m], Len(fn.code[w[m]]), at) =>
                        Agree(w[m], Ran(D, uops[w[m]]), Meant(F, fn.code[w[m]], Len(fn.code[w[m]])))
      BY <2>1, BlockRuns
  <2>3. Enters(fn, phis, count, q[m - 1], E, w[m], Len(fn.code[w[m]]), at)
      BY <1>3, <2>2
  <2>4. Agree(w[m], Ran(q[m - 1], uops[w[m]]), Meant(E, fn.code[w[m]], Len(fn.code[w[m]])))
      BY <2>2, <2>3
  <2> QED
      BY <1>2, <1>3, <2>4
<1>4. 0 \notin T
    BY <1>1
<1>5. ASSUME NEW m \in Nat, m \notin T PROVE m + 1 \notin T
  <2> SUFFICES ASSUME m + 1 \in 1 .. Len(w) PROVE Agree(w[m + 1], q[m + 1], r[m + 1])
      OBVIOUS
  <2> DEFINE b == w[m + 1]
             len == Len(fn.code[b])
             E == [env |-> IF m + 1 = 1 THEN r[m].env ELSE Entered(r[m].env, b, w[m]), read |-> r[m].read]
  <2>1. (m + 1) - 1 = m /\ b \in Blocks
      BY <1>1
  <2>2. r[m + 1] = Meant(E, fn.code[b], len)
      BY <1>2, <2>1 DEF SsaStep
  <2>3. ASSUME NEW at, Listed(fn, phis, b, len, at)
        PROVE  Enters(fn, phis, count, q[m], E, b, len, at)
    <3>1. CASE m = 0
      <4>1. b = 1 /\ E = [env |-> r[0].env, read |-> r[0].read]
          BY <3>1 DEF IsWalk
      <4>2. /\ q[0].env = [v \in 1 .. count |-> Entry(v)] /\ q[0].read = <<>>
            /\ r[0].env = [v \in 1 .. fn.vars |-> Entry(v)] /\ r[0].read = <<>>
          BY DEF MachineSteps, SsaSteps
      <4>3. \A k \in 1 .. len : ~IsPhi(fn, b, k)
        <5>1. b \in DOMAIN fn.code
            BY <2>1 DEF Blocks
        <5>2. ASSUME NEW k \in DOMAIN fn.code[b] PROVE fn.code[b][k].kind /= "phi"
          <6>1. fn.code[b][k].kind = "phi" => b /= 1
            <7> HIDE DEF b
            <7> QED
                BY <1>1, <5>1, InstFacts
          <6> QED
              BY <4>1, <6>1
        <5> QED
            BY <5>2 DEF IsPhi
      <4>4. \A v \in 1 .. fn.vars : v \in 1 .. count
          BY <1>1
      <4> HIDE DEF E, b, len
      <4>5. /\ DOMAIN q[0].env = 1 .. count /\ DOMAIN E.env = 1 .. fn.vars /\ q[0].read = E.read
            /\ \A v \in 1 .. fn.vars : q[0].env[v] = E.env[v]
          BY <4>1, <4>2, <4>4
      <4>6. Enters(fn, phis, count, q[0], E, b, len, at)
          BY <4>3, <4>5 DEF Enters, len
      <4> QED
          BY <3>1, <4>6
    <3>2. CASE m /= 0
      <4>1. m \in 1 .. Len(w) /\ m \in 1 .. Len(w) - 1 /\ m + 1 /= 1
          BY <1>1, <3>2
      <4>2. Agree(w[m], q[m], r[m])
          BY <1>5, <4>1
      <4>3. w[m] \in Blocks /\ b \in fn.succ[w[m]]
          BY <1>1, <4>1 DEF IsWalk
      <4>4. E = [env |-> Entered(r[m].env, b, w[m]), read |-> r[m].read]
          BY <4>1
      <4> HIDE DEF E
      <4> QED
          BY <1>1, <2>1, <2>3, <4>2, <4>3, <4>4, BlockEntered
    <3> QED
        BY <3>1, <3>2
  <2> HIDE DEF E
  <2>4. \A at : Listed(fn, phis, w[m + 1], Len(fn.code[w[m + 1]]), at) =>
                  Enters(fn, phis, count, q[(m + 1) - 1], E, w[m + 1], Len(fn.code[w[m + 1]]), at)
      BY <2>1, <2>3
  <2> QED
      BY <1>3, <2>2, <2>4
<1>6. T = {}
  <2> HIDE DEF T
  <2>1. T \subseteq Nat
      BY DEF T
  <2> QED
      BY <1>4, <1>5, <2>1, Smallest
<1>7. n \in Nat
    BY <1>1
<1> QED
    BY <1>6, <1>7

LEMMA DoneIsSame == IInv /\ DoneInv => SameExecutions
<1> SUFFICES ASSUME IInv, DoneInv, phase = "done", NEW w \in Walks PROVE Machine(w) = Ssa(w)
    BY DEF SameExecutions
<1>1. PICK n \in 1 .. MaxWalk : w \in [1 .. n -> Blocks]
    BY DEF Walks
<1>2. n \in Nat /\ n >= 1
    BY <1>1, FunctionAssumption
<1>3. w \in Seq(Blocks) /\ Len(w) = n
    BY <1>1, <1>2, SeqDef
<1>4. IsWalk(w)
    BY DEF Walks
<1>5. PICK q : MachineSteps(q, w)
    BY <1>3, MachineHasSteps
<1>6. PICK r : SsaSteps(r, w)
    BY <1>3, SsaHasSteps
<1>7. Len(w) >= 1 /\ Len(w) \in 1 .. Len(w)
    BY <1>2, <1>3
<1>8. Agree(w[Len(w)], q[Len(w)], r[Len(w)])
    BY <1>3, <1>4, <1>5, <1>6, <1>7, WalkAgrees
<1> QED
    BY <1>5, <1>6, <1>8 DEF MachineSteps, SsaSteps, Agree

(* On every execution the end of every block reads from the uops what it   *)
(* reads in SSA, when the first copy of dephi is not of a constant that    *)
(* the last block has left in the caches.                                  *)
THEOREM RemovalKeepsExecutions ==
    ASSUME \A f \in Functions : ~Leaks(f)
    PROVE  Spec => []SameExecutions
<1>1. Init => IInv /\ DoneInv
    BY InitIInv DEF Init, DoneInv
<1>2. IInv /\ DoneInv /\ [Next]_vars => IInv' /\ DoneInv'
    BY NextIInv
<1>3. IInv /\ DoneInv => SameExecutions
    BY DoneIsSame
<1> QED
    BY <1>1, <1>2, <1>3, PTL DEF Spec
=============================================================================
