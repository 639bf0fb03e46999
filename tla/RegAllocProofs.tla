--------------------------- MODULE RegAllocProofs ---------------------------
(***************************************************************************)
(* The whole of DoAssignment: whatever the function, however many rounds   *)
(* of spill code, two values needed at once end up in different machine    *)
(* registers, calls are told of every live caller-saved value, and the     *)
(* spill code changes nothing of what the function reads.  The rounds are  *)
(* bounded in number.                                                      *)
(*                                                                         *)
(* GraphAllocationProofs is here for its lemmas about a step of the sweep  *)
(* and of the colouring; no formula below mentions its trait and stage.    *)
(***************************************************************************)
EXTENDS RegAlloc, GraphAllocationProofs, FiniteSetTheorems, SequenceTheorems

-----------------------------------------------------------------------------
(* Live intervals. *)

(* Segments have positions and are not empty.                              *)
Proper(S) == \A s \in S : s \in Nat \X Nat /\ s[1] < s[2]

Distinct(S) == \A s, t \in S : s[1] = t[1] => s = t

(* A set of numbers in which no number is the smallest is empty.           *)
LEMMA Smallest ==
    ASSUME NEW T \in SUBSET Nat, 0 \notin T, \A n \in Nat : n \notin T => n + 1 \notin T
    PROVE  T = {}
<1> SUFFICES ASSUME T /= {} PROVE FALSE
    OBVIOUS
<1>1. PICK r \in T : \A q \in T : r <= q
    BY LeastExists
<1>2. r \in Nat /\ r /= 0 /\ r - 1 \in Nat /\ ~(r <= r - 1)
    OBVIOUS
<1> QED
    BY <1>1, <1>2

(* Numbers below a bound have a greatest among them.                       *)
LEMMA GreatestExists ==
    ASSUME NEW X \in SUBSET Nat, X /= {}, NEW B \in Nat, \A x \in X : x <= B
    PROVE  \E m \in X : \A x \in X : x <= m
<1> DEFINE Y == {B - x : x \in X}
<1>1. Y \in SUBSET Nat /\ Y /= {}
  <2>1. \A x \in X : x \in Nat /\ B - x \in Nat
      OBVIOUS
  <2> QED
      BY <2>1
<1>2. PICK r \in Y : \A q \in Y : r <= q
    BY <1>1, LeastExists
<1>3. PICK m \in X : r = B - m
    BY <1>2
<1>4. ASSUME NEW x \in X PROVE x <= m
  <2>1. B - m <= B - x
      BY <1>2, <1>3
  <2> QED
      BY <2>1
<1> QED
    BY <1>4

LEMMA PredecessorExists ==
    ASSUME NEW S, Proper(S), NEW bgn \in Nat, ~\A s \in S : s[1] >= bgn
    PROVE  /\ Predecessor(S, bgn) \in S
           /\ Predecessor(S, bgn)[1] < bgn
           /\ \A t \in S : t[1] < bgn => t[1] <= Predecessor(S, bgn)[1]
<1> DEFINE X == {s[1] : s \in {t \in S : t[1] < bgn}}
<1>1. \A s \in S : s[1] \in Nat
    BY DEF Proper
<1>2. X \in SUBSET Nat /\ X /= {} /\ \A x \in X : x <= bgn
    BY <1>1
<1>3. PICK m \in X : \A x \in X : x <= m
    BY <1>2, GreatestExists
<1>4. PICK s \in S : s[1] = m /\ s[1] < bgn
    BY <1>3
<1>5. \A t \in S : t[1] < bgn => t[1] <= s[1]
    BY <1>3, <1>4
<1> QED
    BY <1>4, <1>5 DEF Predecessor

LEMMA MakeSegProper ==
    ASSUME NEW S, Proper(S), NEW bgn \in Nat, NEW end \in Nat, bgn <= end
    PROVE  Proper(MakeSeg(S, bgn, end))
<1>1. CASE bgn = end
    BY <1>1 DEF MakeSeg
<1>2. ASSUME bgn /= end, NEW T, Proper(T), NEW a \in Nat, a <= bgn PROVE Proper(Insert(T, <<a, end>>))
    BY <1>2 DEF Insert, Proper
<1>3. CASE bgn /= end /\ \A s \in S : s[1] >= bgn
    BY <1>2, <1>3 DEF MakeSeg
<1>4. CASE bgn /= end /\ ~\A s \in S : s[1] >= bgn
  <2> DEFINE front == Predecessor(S, bgn)
  <2>1. front \in S /\ front[1] < bgn
      BY <1>4, PredecessorExists
  <2>2. front[1] \in Nat /\ front[1] <= bgn
      BY <2>1 DEF Proper
  <2>3. Proper(S \ {front})
      BY DEF Proper
  <2> HIDE DEF front
  <2>4. Proper(Insert(S \ {front}, <<front[1], end>>)) /\ Proper(Insert(S, <<bgn, end>>))
      BY <1>2, <1>4, <2>2, <2>3
  <2> QED
      BY <1>4, <2>4 DEF MakeSeg, front
<1> QED
    BY <1>1, <1>3, <1>4

(* A segment that begins after all others are kept: they keep their begins *)
(* and cover what they covered, and the new one is covered.                *)
Extends(T, S, bgn, end) ==
    /\ Distinct(T)
    /\ \A s \in T : s[1] <= bgn
    /\ \A p \in Nat : LiveAt(S, p) => LiveAt(T, p)
    /\ \A p \in Nat : bgn <= p /\ p < end => LiveAt(T, p)

LEMMA MakeSegExtends ==
    ASSUME NEW S, Proper(S), Distinct(S), NEW bgn \in Nat, NEW end \in Nat, bgn <= end,
           \A s \in S : s[1] < bgn
    PROVE  Extends(MakeSeg(S, bgn, end), S, bgn, end)
<1>1. \A s \in S : s[1] \in Nat /\ s[2] \in Nat
    BY DEF Proper
<1>2. CASE bgn = end
    BY <1>1, <1>2 DEF MakeSeg, Extends
<1>3. ASSUME bgn /= end PROVE Insert(S, <<bgn, end>>) = S \cup {<<bgn, end>>}
    BY <1>1 DEF Insert
<1>4. ASSUME bgn /= end PROVE Extends(S \cup {<<bgn, end>>}, S, bgn, end)
  <2> DEFINE T == S \cup {<<bgn, end>>}
  <2>1. Distinct(T)
      BY <1>1 DEF Distinct
  <2>2. \A s \in T : s[1] <= bgn
      BY <1>1
  <2>3. \A p \in Nat : LiveAt(S, p) => LiveAt(T, p)
      BY DEF LiveAt
  <2>4. <<bgn, end>> \in T /\ <<bgn, end>>[1] = bgn /\ <<bgn, end>>[2] = end
      OBVIOUS
  <2> HIDE DEF T
  <2>5. \A p \in Nat : bgn <= p /\ p < end => LiveAt(T, p)
      BY <2>4 DEF LiveAt
  <2>6. Extends(T, S, bgn, end)
      BY <2>1, <2>2, <2>3, <2>5 DEF Extends
  <2> QED
      BY <2>6 DEF T
<1>5. CASE bgn /= end /\ \A s \in S : s[1] >= bgn
    BY <1>3, <1>4, <1>5 DEF MakeSeg
<1>6. CASE bgn /= end /\ ~\A s \in S : s[1] >= bgn
  <2> DEFINE front == Predecessor(S, bgn)
             T == (S \ {front}) \cup {<<front[1], end>>}
  <2>1. front \in S /\ front[1] < bgn
      BY <1>6, PredecessorExists
  <2>2. front[1] \in Nat /\ front[2] \in Nat
      BY <1>1, <2>1
  <2> HIDE DEF front
  <2>3. Insert(S \ {front}, <<front[1], end>>) = T
      BY <2>1 DEF Insert, Distinct
  <2>4. ASSUME front[2] = bgn PROVE Extends(T, S, bgn, end)
    <3>1. Distinct(T)
        BY <2>1 DEF Distinct
    <3>2. \A s \in T : s[1] <= bgn
        BY <1>1, <2>1, <2>2
    <3> DEFINE joined == <<front[1], end>>
    <3>5. joined \in T /\ joined[1] = front[1] /\ joined[2] = end
        OBVIOUS
    <3> HIDE DEF T, joined
    <3>3. ASSUME NEW p \in Nat, LiveAt(S, p) PROVE LiveAt(T, p)
      <4>1. PICK s \in S : s[1] <= p /\ p < s[2]
          BY <3>3 DEF LiveAt
      <4>2. CASE s = front
        <5>1. joined[1] <= p /\ p < joined[2]
            BY <2>2, <2>4, <3>5, <4>1, <4>2
        <5> QED
            BY <3>5, <5>1 DEF LiveAt
      <4>3. CASE s /= front
          BY <4>1, <4>3 DEF LiveAt, T
      <4> QED
          BY <4>2, <4>3
    <3>4. ASSUME NEW p \in Nat, bgn <= p, p < end PROVE LiveAt(T, p)
      <4>1. joined[1] <= p /\ p < joined[2]
          BY <2>1, <2>2, <3>4, <3>5
      <4> QED
          BY <3>5, <4>1 DEF LiveAt
    <3> QED
        BY <3>1, <3>2, <3>3, <3>4 DEF Extends
  <2>5. CASE front[2] = bgn
    <3>1. MakeSeg(S, bgn, end) = T
        BY <1>6, <2>3, <2>5 DEF MakeSeg, front
    <3> QED
        BY <2>4, <2>5, <3>1
  <2>6. CASE front[2] /= bgn
    <3>1. MakeSeg(S, bgn, end) = S \cup {<<bgn, end>>}
        BY <1>3, <1>6, <2>6 DEF MakeSeg, front
    <3> QED
        BY <1>4, <1>6, <3>1
  <2> QED
      BY <2>5, <2>6
<1> QED
    BY <1>2, <1>5, <1>6

(* A definition's segment reaches to each of its uses.                     *)
LEMMA EndReachesUses ==
    ASSUME NEW defs, NEW uses \in SUBSET Nat, NEW B \in Nat, \A u \in uses : u <= B, NEW d \in Nat
    PROVE  /\ EndOf(d, defs, uses) \in Nat
           /\ d <= EndOf(d, defs, uses)
           /\ \A u \in UsesOf(d, defs, uses) : u <= EndOf(d, defs, uses)
<1> DEFINE X == UsesOf(d, defs, uses) \cup {d}
<1>1. X \in SUBSET Nat /\ X /= {} /\ B + d \in Nat /\ \A x \in X : x <= B + d /\ d <= x
  <2>1. \A x \in X : x = d \/ (x \in Nat /\ x <= B /\ d <= x)
      BY DEF UsesOf
  <2>2. \A x \in X : x \in Nat /\ x <= B + d /\ d <= x
      BY <2>1
  <2> QED
      BY <2>2
<1>2. \E m \in X : \A x \in X : x <= m
    BY <1>1, GreatestExists
<1>3. EndOf(d, defs, uses) \in X /\ \A w \in UsesOf(d, defs, uses) : w <= EndOf(d, defs, uses)
    BY <1>2 DEF EndOf
<1> QED
    BY <1>1, <1>3

(* The calls of a block, one position after the other.                     *)
Steps(f, S, first, size, defs, uses) ==
    /\ f[0] = S
    /\ AddBlock(S, first, size, defs, uses) = f[size]
    /\ \A n \in 1 .. size :
          f[n] = IF first + n - 1 \in defs
                   THEN MakeSeg(f[n - 1], first + n - 1, EndOf(first + n - 1, defs, uses))
                   ELSE f[n - 1]

LEMMA AddBlockSteps ==
    ASSUME NEW S, NEW first \in Nat, NEW size \in Nat, NEW defs, NEW uses
    PROVE  \E f : Steps(f, S, first, size, defs, uses)
<1> DEFINE Step(x, n) == IF first + n - 1 \in defs
                           THEN MakeSeg(x, first + n - 1, EndOf(first + n - 1, defs, uses))
                           ELSE x
           Rule(f, n) == [i \in 0 .. n |-> IF i = 0 THEN S ELSE Step(f[i - 1], i)]
           T == {n \in Nat : ~\E f : f = Rule(f, n)}
<1>1. AddBlock(S, first, size, defs, uses) = (CHOOSE f : f = Rule(f, size))[size]
    BY DEF AddBlock
<1> HIDE DEF Step
<1>2. 0 \notin T
  <2>1. [i \in 0 .. 0 |-> S] = Rule([i \in 0 .. 0 |-> S], 0)
      OBVIOUS
  <2> QED
      BY <2>1
<1>3. ASSUME NEW n \in Nat, n \notin T PROVE n + 1 \notin T
  <2>1. PICK f : f = Rule(f, n)
      BY <1>3
  <2> DEFINE g == [i \in 0 .. n + 1 |-> IF i = n + 1 THEN Step(f[i - 1], i) ELSE f[i]]
  <2>2. ASSUME NEW i \in 0 .. n + 1
        PROVE g[i] = IF i = 0 THEN S ELSE Step(g[i - 1], i)
    <3>1. CASE i = n + 1
        BY <3>1
    <3>2. CASE i \in 1 .. n
      <4>1. g[i] = f[i] /\ g[i - 1] = f[i - 1]
          BY <3>2
      <4>2. f[i] = Step(f[i - 1], i)
          BY <2>1, <3>2
      <4> QED
          BY <3>2, <4>1, <4>2
    <3>3. CASE i = 0
        BY <2>1, <3>3
    <3> QED
        BY <3>1, <3>2, <3>3
  <2>3. g = Rule(g, n + 1)
      BY <2>2
  <2> QED
      BY <2>3
<1>4. T = {}
  <2> HIDE DEF T
  <2>1. T \subseteq Nat
      BY DEF T
  <2> QED
      BY <1>2, <1>3, <2>1, Smallest
<1>5. \E f : f = Rule(f, size)
    BY <1>4
<1> DEFINE P == CHOOSE f : f = Rule(f, size)
<1>6. P = Rule(P, size)
    BY <1>5
<1>7. AddBlock(S, first, size, defs, uses) = P[size]
    BY <1>1
<1> HIDE DEF P
<1>8. P[0] = S /\ \A n \in 1 .. size : P[n] = Step(P[n - 1], n)
    BY <1>6
<1> QED
    BY <1>7, <1>8 DEF Step, Steps

LEMMA AddBlockProper ==
    ASSUME NEW S, Proper(S), NEW first \in Nat \ {0}, NEW size \in Nat, NEW defs,
           NEW uses \in SUBSET Nat, NEW B \in Nat, \A u \in uses : u <= B
    PROVE  Proper(AddBlock(S, first, size, defs, uses))
<1>1. PICK f : Steps(f, S, first, size, defs, uses)
    BY AddBlockSteps
<1> DEFINE T == {n \in Nat : n <= size /\ ~Proper(f[n])}
<1>2. 0 \notin T
    BY <1>1 DEF Steps
<1>3. ASSUME NEW n \in Nat, n \notin T PROVE n + 1 \notin T
  <2> SUFFICES ASSUME n + 1 <= size PROVE Proper(f[n + 1])
      OBVIOUS
  <2> DEFINE d == first + n
             end == EndOf(d, defs, uses)
  <2>1. Proper(f[n]) /\ d \in Nat
      BY <1>3
  <2>2. f[n + 1] = IF d \in defs THEN MakeSeg(f[n], d, end) ELSE f[n]
    <3>1. n + 1 \in 1 .. size /\ first + (n + 1) - 1 = first + n /\ (n + 1) - 1 = n
        OBVIOUS
    <3> QED
        BY <1>1, <3>1 DEF Steps
  <2>3. end \in Nat /\ d <= end
      BY <2>1, EndReachesUses
  <2> HIDE DEF d, end
  <2>4. Proper(MakeSeg(f[n], d, end))
      BY <2>1, <2>3, MakeSegProper
  <2> QED
      BY <2>1, <2>2, <2>4
<1>4. T = {}
  <2> HIDE DEF T
  <2>1. T \subseteq Nat
      BY DEF T
  <2> QED
      BY <1>2, <1>3, <2>1, Smallest
<1> QED
    BY <1>1, <1>4 DEF Steps

(* Segments T of a register whose segments before position first were S:   *)
(* nothing S covers is lost, and every definition before position last is  *)
(* covered up to its end.                                                  *)
Continues(T, S, first, last, defs, uses) ==
    /\ Distinct(T)
    /\ \A s \in T : s[1] < last
    /\ \A p \in Nat : LiveAt(S, p) => LiveAt(T, p)
    /\ \A d \in defs : first <= d /\ d < last =>
          \A p \in Nat : d <= p /\ p < EndOf(d, defs, uses) => LiveAt(T, p)

LEMMA AddBlockContinues ==
    ASSUME NEW S, Proper(S), Distinct(S), NEW first \in Nat \ {0}, \A s \in S : s[1] < first,
           NEW size \in Nat, NEW defs \in SUBSET Nat,
           NEW uses \in SUBSET Nat, NEW B \in Nat, \A u \in uses : u <= B
    PROVE  Continues(AddBlock(S, first, size, defs, uses), S, first, first + size, defs, uses)
<1>1. PICK f : Steps(f, S, first, size, defs, uses)
    BY AddBlockSteps
<1> DEFINE Good(n) == Proper(f[n]) /\ Continues(f[n], S, first, first + n, defs, uses)
           T == {n \in Nat : n <= size /\ ~Good(n)}
<1>2. Good(0)
    BY <1>1 DEF Continues, Steps
<1>3. ASSUME NEW n \in Nat, n + 1 <= size, Good(n) PROVE Good(n + 1)
  <2> DEFINE d == first + n
             end == EndOf(d, defs, uses)
  <2>1. d \in Nat /\ first <= d /\ first + (n + 1) = d + 1
      OBVIOUS
  <2>2. f[n + 1] = IF d \in defs THEN MakeSeg(f[n], d, end) ELSE f[n]
    <3>1. n + 1 \in 1 .. size /\ first + (n + 1) - 1 = first + n /\ (n + 1) - 1 = n
        BY <1>3
    <3> QED
        BY <1>1, <3>1 DEF Steps
  <2>3. end \in Nat /\ d <= end
      BY <2>1, EndReachesUses
  <2>4. Proper(f[n]) /\ Continues(f[n], S, first, d, defs, uses)
      BY <1>3
  <2>5. \A s \in f[n] : s[1] \in Nat
      BY <2>4 DEF Proper
  <2> HIDE DEF d
  <2>6. CASE d \in defs
    <3>1. Proper(MakeSeg(f[n], d, end)) /\ Extends(MakeSeg(f[n], d, end), f[n], d, end)
        BY <2>1, <2>3, <2>4, MakeSegProper, MakeSegExtends DEF Continues
    <3>2. f[n + 1] = MakeSeg(f[n], d, end)
        BY <2>2, <2>6
    <3>3. Proper(f[n + 1]) /\ Extends(f[n + 1], f[n], d, end)
        BY <3>1, <3>2
    <3>4. Distinct(f[n + 1]) /\ \A p \in Nat : LiveAt(S, p) => LiveAt(f[n + 1], p)
        BY <2>4, <3>3 DEF Extends, Continues
    <3>5. \A s \in f[n + 1] : s[1] < d + 1
      <4>1. \A s \in f[n + 1] : s[1] \in Nat /\ s[1] <= d
          BY <3>3 DEF Extends, Proper
      <4> QED
          BY <2>1, <4>1
    <3>6. ASSUME NEW e \in defs, first <= e, e < d + 1, NEW p \in Nat, e <= p, p < EndOf(e, defs, uses)
          PROVE  LiveAt(f[n + 1], p)
      <4>1. CASE e = d
          BY <3>3, <3>6, <4>1 DEF Extends
      <4>2. CASE e < d
          BY <2>4, <3>3, <3>6, <4>2 DEF Extends, Continues
      <4>3. e \in Nat
          OBVIOUS
      <4> QED
          BY <2>1, <3>6, <4>1, <4>2, <4>3
    <3>7. Continues(f[n + 1], S, first, d + 1, defs, uses)
        BY <3>4, <3>5, <3>6 DEF Continues
    <3> QED
        BY <2>1, <3>3, <3>7
  <2>7. CASE d \notin defs
    <3>1. f[n + 1] = f[n]
        BY <2>2, <2>7
    <3>2. \A s \in f[n] : s[1] < d + 1
        BY <2>1, <2>4, <2>5 DEF Continues
    <3>3. \A e \in defs : e < d + 1 => e < d
        BY <2>1, <2>7
    <3>4. Continues(f[n + 1], S, first, d + 1, defs, uses)
        BY <2>4, <3>1, <3>2, <3>3 DEF Continues
    <3> QED
        BY <2>1, <2>4, <3>1, <3>4
  <2> QED
      BY <2>6, <2>7
<1> HIDE DEF Good
<1>4. T = {}
  <2>1. 0 \notin T /\ \A n \in Nat : n \notin T => n + 1 \notin T
      BY <1>2, <1>3
  <2>2. T \subseteq Nat
      OBVIOUS
  <2> HIDE DEF T
  <2> QED
      BY <2>1, <2>2, Smallest
<1> QED
    BY <1>1, <1>4 DEF Good, Steps

-----------------------------------------------------------------------------
(* Rewriting a block. *)

FlattenSteps(f, ss) ==
    /\ f[0] = <<>>
    /\ FlattenSeq(ss) = f[Len(ss)]
    /\ \A n \in 1 .. Len(ss) : f[n] = f[n - 1] \o ss[n]

LEMMA FlattenSeqSteps ==
    ASSUME NEW U, NEW ss \in Seq(Seq(U))
    PROVE  \E f : FlattenSteps(f, ss)
<1> DEFINE Step(x, n) == x \o ss[n]
           Rule(f, n) == [i \in 1 .. n |-> IF i = 1 THEN ss[i] ELSE Step(f[i - 1], i)]
           T == {n \in Nat : ~\E f : f = Rule(f, n)}
<1>1. Len(ss) \in Nat
    OBVIOUS
<1>7. Len(ss) /= 0 => FlattenSeq(ss) = (CHOOSE f : f = Rule(f, Len(ss)))[Len(ss)]
    BY DEF FlattenSeq
<1>8. Len(ss) = 0 => FlattenSeq(ss) = <<>>
    BY DEF FlattenSeq
<1> HIDE DEF Step
<1>2. 0 \notin T
  <2>1. [i \in 1 .. 0 |-> ss] = Rule([i \in 1 .. 0 |-> ss], 0)
      OBVIOUS
  <2> QED
      BY <2>1
<1>3. ASSUME NEW n \in Nat, n \notin T PROVE n + 1 \notin T
  <2>1. PICK f : f = Rule(f, n)
      BY <1>3
  <2> DEFINE g == [i \in 1 .. n + 1 |-> IF i = n + 1 THEN (IF i = 1 THEN ss[i] ELSE Step(f[i - 1], i)) ELSE f[i]]
  <2>2. ASSUME NEW i \in 1 .. n + 1
        PROVE g[i] = IF i = 1 THEN ss[i] ELSE Step(g[i - 1], i)
    <3>1. CASE i = 1 /\ i = n + 1
        BY <3>1
    <3>2. CASE i = 1 /\ i \in 1 .. n
      <4>1. g[i] = f[i] /\ f[i] = ss[i]
          BY <2>1, <3>2
      <4> QED
          BY <3>2, <4>1
    <3>3. CASE i /= 1 /\ i = n + 1
      <4>1. g[i] = Step(f[i - 1], i) /\ g[i - 1] = f[i - 1]
          BY <3>3
      <4> QED
          BY <3>3, <4>1
    <3>4. CASE i /= 1 /\ i \in 1 .. n
      <4>1. g[i] = f[i] /\ g[i - 1] = f[i - 1]
          BY <3>4
      <4>2. f[i] = Step(f[i - 1], i)
          BY <2>1, <3>4
      <4> QED
          BY <3>4, <4>1, <4>2
    <3> QED
        BY <3>1, <3>2, <3>3, <3>4
  <2>3. g = Rule(g, n + 1)
      BY <2>2
  <2> QED
      BY <2>3
<1>4. T = {}
  <2> HIDE DEF T
  <2>1. T \subseteq Nat
      BY DEF T
  <2> QED
      BY <1>2, <1>3, <2>1, Smallest
<1>5. \E f : f = Rule(f, Len(ss))
    BY <1>1, <1>4
<1> DEFINE P == CHOOSE f : f = Rule(f, Len(ss))
           Q == [i \in 0 .. Len(ss) |-> IF i = 0 THEN <<>> ELSE P[i]]
<1>6. P = Rule(P, Len(ss))
    BY <1>5
<1>11. Len(ss) /= 0 => FlattenSeq(ss) = P[Len(ss)]
    BY <1>7
<1> HIDE DEF P
<1>9. Q[0] = <<>> /\ FlattenSeq(ss) = Q[Len(ss)]
    BY <1>1, <1>8, <1>11
<1>10. ASSUME NEW n \in 1 .. Len(ss) PROVE Q[n] = Step(Q[n - 1], n)
  <2>1. CASE n = 1
    <3>1. Q[n] = ss[n] /\ Q[n - 1] = <<>>
        BY <1>6, <2>1
    <3>2. Step(<<>>, n) = ss[n]
        BY ConcatEmptySeq DEF Step
    <3> QED
        BY <3>1, <3>2
  <2>2. CASE n /= 1
    <3>1. n - 1 \in 1 .. Len(ss) /\ n - 1 /= 0 /\ n /= 0 /\ n \in 0 .. Len(ss) /\ n - 1 \in 0 .. Len(ss)
        BY <1>1, <2>2
    <3>2. P[n] = Step(P[n - 1], n)
        BY <1>6, <2>2, Zenon
    <3>3. Q[n] = P[n] /\ Q[n - 1] = P[n - 1]
        BY <3>1
    <3> QED
        BY <3>2, <3>3
  <2> QED
      BY <2>1, <2>2
<1> HIDE DEF Q
<1> QED
    BY <1>9, <1>10 DEF FlattenSteps, Step

LEMMA FlattenType ==
    ASSUME NEW U, NEW ss \in Seq(Seq(U))
    PROVE  /\ FlattenSeq(ss) \in Seq(U)
           /\ \A k \in 1 .. Len(ss) : ss[k] /= <<>> => FlattenSeq(ss) /= <<>>
<1>1. PICK f : FlattenSteps(f, ss)
    BY FlattenSeqSteps
<1> DEFINE Good(n) == f[n] \in Seq(U) /\ \A k \in 1 .. n : ss[k] /= <<>> => f[n] /= <<>>
           T == {n \in Nat : n <= Len(ss) /\ ~Good(n)}
<1>2. Good(0)
    BY <1>1 DEF FlattenSteps
<1>3. ASSUME NEW n \in Nat, n + 1 <= Len(ss), Good(n) PROVE Good(n + 1)
  <2>1. n + 1 \in 1 .. Len(ss) /\ (n + 1) - 1 = n
      BY <1>3
  <2>2. ss[n + 1] \in Seq(U) /\ f[n] \in Seq(U)
      BY <1>3, <2>1
  <2>5. f[n + 1] = f[n] \o ss[n + 1]
    <3>1. \A k \in 1 .. Len(ss) : f[k] = f[k - 1] \o ss[k]
        BY <1>1 DEF FlattenSteps
    <3> QED
        BY <2>1, <3>1, Zenon
  <2>3. f[n + 1] \in Seq(U) /\ Len(f[n + 1]) = Len(f[n]) + Len(ss[n + 1])
      BY <2>2, <2>5, ConcatProperties
  <2>4. ASSUME NEW k \in 1 .. n + 1, ss[k] /= <<>> PROVE f[n + 1] /= <<>>
    <3>1. f[n] /= <<>> \/ ss[n + 1] /= <<>>
        BY <1>3, <2>4
    <3>2. Len(f[n]) > 0 \/ Len(ss[n + 1]) > 0
        BY <2>2, <3>1
    <3>3. Len(f[n]) \in Nat /\ Len(ss[n + 1]) \in Nat
        BY <2>2
    <3>4. Len(f[n + 1]) /= 0
      <4> DEFINE a == Len(f[n])
                 b == Len(ss[n + 1])
                 c == Len(f[n + 1])
      <4>1. c = a + b /\ a \in Nat /\ b \in Nat /\ (a > 0 \/ b > 0)
          BY <2>3, <3>2, <3>3
      <4> HIDE DEF a, b, c
      <4>2. c /= 0
          BY <4>1
      <4> QED
          BY <4>2 DEF c
    <3> QED
        BY <3>4, EmptySeq
  <2> QED
      BY <2>3, <2>4
<1> HIDE DEF Good
<1>4. T = {}
  <2>1. 0 \notin T /\ \A n \in Nat : n \notin T => n + 1 \notin T
      BY <1>2, <1>3
  <2>2. T \subseteq Nat
      OBVIOUS
  <2> HIDE DEF T
  <2> QED
      BY <2>1, <2>2, Smallest
<1>5. Len(ss) \in Nat
    OBVIOUS
<1> QED
    BY <1>1, <1>4, <1>5 DEF Good, FlattenSteps

(* Concatenation, under a name the provers leave alone.                   *)
Cat(s, t) == s \o t

LEMMA ThreeConcatenated ==
    ASSUME NEW U
    PROVE  \A x, y, z \in Seq(U) : Cat(Cat(x, y), z) = Cat(x, Cat(y, z))
<1>1. ASSUME NEW x \in Seq(U), NEW y \in Seq(U), NEW z \in Seq(U) PROVE (x \o y) \o z = x \o (y \o z)
    BY ConcatAssociative
<1>2. ASSUME NEW x \in Seq(U), NEW y \in Seq(U), NEW z \in Seq(U) PROVE Cat(Cat(x, y), z) = Cat(x, Cat(y, z))
    BY <1>1, Zenon DEF Cat
<1> QED
    BY <1>2

LEMMA FourConcatenated ==
    ASSUME NEW U, NEW w \in Seq(U), NEW x \in Seq(U), NEW y \in Seq(U), NEW z \in Seq(U)
    PROVE  Cat(w, Cat(Cat(x, y), z)) = Cat(Cat(Cat(w, x), y), z)
<1>1. \A s, t \in Seq(U) : Cat(s, t) \in Seq(U)
    BY ConcatProperties DEF Cat
<1> QED
    BY <1>1, ThreeConcatenated

LEMMA FunctionIsSeq ==
    ASSUME NEW S, NEW n \in Nat, NEW f \in [1 .. n -> S]
    PROVE  f \in Seq(S) /\ Len(f) = n
<1>1. f \in Seq(S)
    BY SeqDef
<1>2. Len(f) = n
    BY <1>1
<1> QED
    BY <1>1, <1>2

-----------------------------------------------------------------------------

IsView(v, n) == v \in Seq(Seq(Uops(n)) \ {<<>>})

LEMMA UopFields ==
    ASSUME NEW n \in Nat, NEW u \in Uops(n)
    PROVE  /\ u.kind \in {"op", "call", "reload", "spill"}
           /\ u.ops \in Seq(1 .. n) /\ Len(u.ops) \in Nat /\ DOMAIN u.ops = 1 .. Len(u.ops)
           /\ \A j \in DOMAIN u.ops : u.ops[j] \in 1 .. n
           /\ u.res \in 0 .. n /\ u.slot \in 0 .. n
           /\ Reads(u) \subseteq 1 .. n /\ u.res \notin Reads(u)
<1>1. /\ u \in [kind : {"op", "call", "reload", "spill"}, ops : Seq(1 .. n), res : 0 .. n, slot : 0 .. n]
      /\ u.res \notin Reads(u)
    BY DEF Uops
<1>2. u.ops \in Seq(1 .. n)
    BY <1>1
<1>3. Len(u.ops) \in Nat /\ DOMAIN u.ops = 1 .. Len(u.ops) /\ \A j \in DOMAIN u.ops : u.ops[j] \in 1 .. n
    BY <1>2
<1> QED
    BY <1>1, <1>2, <1>3 DEF Reads

LEMMA UopsGrow ==
    ASSUME NEW n \in Nat, NEW m \in Nat, n <= m
    PROVE  Uops(n) \subseteq Uops(m)
<1>1. 1 .. n \subseteq 1 .. m /\ 0 .. n \subseteq 0 .. m
    OBVIOUS
<1>2. ASSUME NEW q \in Seq(1 .. n) PROVE q \in Seq(1 .. m)
  <2>1. q \in [1 .. Len(q) -> 1 .. n] /\ Len(q) \in Nat
      OBVIOUS
  <2>2. q \in [1 .. Len(q) -> 1 .. m]
      BY <1>1, <2>1
  <2> QED
      BY <2>1, <2>2
<1> QED
    BY <1>1, <1>2 DEF Uops

LEMMA BlocksOfView ==
    ASSUME NEW v, NEW n, IsView(v, n)
    PROVE  /\ DOMAIN v = 1 .. Len(v) /\ Len(v) \in Nat
           /\ \A b \in 1 .. Len(v) :
                 /\ v[b] \in Seq(Uops(n))
                 /\ Len(v[b]) \in Nat \ {0}
                 /\ DOMAIN v[b] = 1 .. Len(v[b])
                 /\ \A i \in 1 .. Len(v[b]) : v[b][i] \in Uops(n)
<1>1. v \in Seq(Seq(Uops(n)) \ {<<>>})
    BY DEF IsView
<1>2. ASSUME NEW b \in 1 .. Len(v)
      PROVE  /\ v[b] \in Seq(Uops(n))
             /\ Len(v[b]) \in Nat \ {0}
             /\ DOMAIN v[b] = 1 .. Len(v[b])
             /\ \A i \in 1 .. Len(v[b]) : v[b][i] \in Uops(n)
  <2>1. v[b] \in Seq(Uops(n)) /\ v[b] /= <<>>
      BY <1>1
  <2> QED
      BY <2>1, EmptySeq
<1> QED
    BY <1>1, <1>2

-----------------------------------------------------------------------------
(* The numbers NewVReg gives. *)

LEMMA NewIsFinite ==
    ASSUME count \in Nat, IsView(view, count)
    PROVE  IsFiniteSet(New)
<1> DEFINE Of(b, i) == {<<b, i, j>> : j \in Fresh(view[b][i])}
           In(b) == {Of(b, i) : i \in DOMAIN view[b]}
<1>1. ASSUME NEW b \in 1 .. Len(view), NEW i \in 1 .. Len(view[b]) PROVE IsFiniteSet(Of(b, i))
  <2> DEFINE u == view[b][i]
             places == 1 .. Len(u.ops) + 1
             all == {<<b, i, j>> : j \in places}
  <2>1. Len(u.ops) \in Nat /\ DOMAIN u.ops = 1 .. Len(u.ops)
      BY BlocksOfView, UopFields
  <2>2. IsFiniteSet(places)
    <3>1. 1 \in Int /\ Len(u.ops) + 1 \in Int
        BY <2>1
    <3> QED
        BY <3>1, FS_Interval
  <2>3. [j \in places |-> <<b, i, j>>] \in Surjection(places, all)
      BY DEF Surjection
  <2>4. IsFiniteSet(all)
      BY <2>2, <2>3, FS_Surjection
  <2>5. Fresh(u) \subseteq places
      BY <2>1 DEF Fresh, Loaded
  <2>6. Of(b, i) \in SUBSET all
      BY <2>5
  <2> QED
      BY <2>4, <2>6, FS_Subset
<1>2. ASSUME NEW b \in 1 .. Len(view) PROVE IsFiniteSet(UNION In(b))
  <2>1. Len(view[b]) \in Nat /\ DOMAIN view[b] = 1 .. Len(view[b])
      BY BlocksOfView
  <2>2. IsFiniteSet(1 .. Len(view[b]))
    <3>1. 1 \in Int /\ Len(view[b]) \in Int
        BY <2>1
    <3> QED
        BY <3>1, FS_Interval
  <2>3. [i \in 1 .. Len(view[b]) |-> Of(b, i)] \in Surjection(1 .. Len(view[b]), In(b))
      BY <2>1 DEF Surjection
  <2>4. IsFiniteSet(In(b))
      BY <2>2, <2>3, FS_Surjection
  <2>5. \A X \in In(b) : IsFiniteSet(X)
      BY <1>1, <2>1
  <2> HIDE DEF In
  <2> QED
      BY <2>4, <2>5, FS_UNION
<1> HIDE DEF Of, In
<1> DEFINE all == {UNION In(b) : b \in 1 .. Len(view)}
<1>3. Len(view) \in Nat /\ Blocks = 1 .. Len(view)
    BY BlocksOfView DEF Blocks
<1>4. IsFiniteSet(1 .. Len(view))
    BY <1>3, FS_Interval
<1>5. [b \in 1 .. Len(view) |-> UNION In(b)] \in Surjection(1 .. Len(view), all)
    BY DEF Surjection
<1>6. IsFiniteSet(all)
    BY <1>4, <1>5, FS_Surjection
<1>7. \A X \in all : IsFiniteSet(X)
    BY <1>2
<1>8. New = UNION all
    BY <1>3 DEF New, In, Of
<1> HIDE DEF all
<1> QED
    BY <1>6, <1>7, <1>8, FS_UNION

(* New registers are above all others, and each place has its own.         *)
LEMMA NewRegs ==
    ASSUME count \in Nat, IsView(view, count), NEW b \in Nat, NEW i \in Nat, NEW j \in Nat,
           <<b, i, j>> \in New
    PROVE  /\ Cardinality(New) \in Nat
           /\ NewReg(b, i, j) \in count + 1 .. count + Cardinality(New)
           /\ \A k \in Nat : <<b, i, k>> \in New /\ j < k => NewReg(b, i, j) < NewReg(b, i, k)
<1> DEFINE Low(k) == {p \in New : Before(p, <<b, i, k>>)}
<1>1. IsFiniteSet(New) /\ Cardinality(New) \in Nat
    BY NewIsFinite, FS_CardinalityType
<1>2. ASSUME NEW k \in Nat PROVE IsFiniteSet(Low(k)) /\ Cardinality(Low(k)) \in Nat
  <2>1. Low(k) \in SUBSET New
      OBVIOUS
  <2> QED
      BY <1>1, <2>1, FS_Subset, FS_CardinalityType
<1>3. Cardinality(New \ {<<b, i, j>>}) = Cardinality(New) - 1 /\ IsFiniteSet(New \ {<<b, i, j>>})
    BY <1>1, FS_RemoveElement
<1>4. Low(j) \in SUBSET (New \ {<<b, i, j>>})
  <2>1. ~Before(<<b, i, j>>, <<b, i, j>>)
      BY DEF Before
  <2> QED
      BY <2>1
<1>5. Cardinality(Low(j)) <= Cardinality(New) - 1
    BY <1>3, <1>4, FS_Subset
<1>6. ASSUME NEW k \in Nat, <<b, i, k>> \in New, j < k PROVE Cardinality(Low(j)) < Cardinality(Low(k))
  <2>1. <<b, i, j>> \in Low(k) /\ <<b, i, j>> \notin Low(j)
      BY <1>6 DEF Before
  <2>2. \A p : Before(p, <<b, i, j>>) => Before(p, <<b, i, k>>) \/ p[3] \notin Nat
      BY <1>6 DEF Before
  <2>3. \A p \in New : p[3] \in Nat
    <3> SUFFICES ASSUME NEW p \in New PROVE p[3] \in Nat
        OBVIOUS
    <3>1. PICK c \in Blocks : \E m \in DOMAIN view[c] : \E q \in Fresh(view[c][m]) : p = <<c, m, q>>
        BY DEF New
    <3>5. PICK m \in DOMAIN view[c] : \E q \in Fresh(view[c][m]) : p = <<c, m, q>>
        BY <3>1
    <3>2. c \in 1 .. Len(view) /\ m \in 1 .. Len(view[c])
        BY BlocksOfView DEF Blocks
    <3>3. view[c][m] \in Uops(count)
        BY <3>2, BlocksOfView
    <3>4. Fresh(view[c][m]) \subseteq Nat
        BY <3>3, UopFields DEF Fresh, Loaded
    <3> QED
        BY <3>5, <3>4
  <2>4. Low(j) \in SUBSET (Low(k) \ {<<b, i, j>>})
      BY <2>1, <2>2, <2>3
  <2>5. /\ IsFiniteSet(Low(k) \ {<<b, i, j>>})
        /\ Cardinality(Low(k) \ {<<b, i, j>>}) = Cardinality(Low(k)) - 1
      BY <1>2, <2>1, FS_RemoveElement
  <2>6. Cardinality(Low(j)) <= Cardinality(Low(k)) - 1
      BY <2>4, <2>5, FS_Subset
  <2> QED
      BY <1>2, <2>6
<1>7. NewReg(b, i, j) = count + 1 + Cardinality(Low(j))
    BY DEF NewReg
<1>8. \A k \in Nat : NewReg(b, i, k) = count + 1 + Cardinality(Low(k))
    BY DEF NewReg
<1> HIDE DEF Low
<1>9. NewReg(b, i, j) \in count + 1 .. count + Cardinality(New)
    BY <1>1, <1>2, <1>5, <1>7
<1>10. ASSUME NEW k \in Nat, <<b, i, k>> \in New, j < k PROVE NewReg(b, i, j) < NewReg(b, i, k)
    BY <1>2, <1>6, <1>7, <1>8, <1>10
<1> QED
    BY <1>1, <1>9, <1>10

-----------------------------------------------------------------------------
(* What Rewrite leaves is a function on the registers there are then.      *)

LoadOf(b, i, j) == Uop("reload", <<>>, NewReg(b, i, j), view[b][i].ops[j])

LoadsOf(b, i) ==
    [j \in DOMAIN view[b][i].ops |-> IF j \in Loaded(view[b][i]) THEN <<LoadOf(b, i, j)>> ELSE <<>>]

CopiesOf(b, i) ==
    [j \in DOMAIN view[b][i].ops |->
        IF j \in Loaded(view[b][i]) THEN NewReg(b, i, j) ELSE view[b][i].ops[j]]

StoredCopy(b, i) == NewReg(b, i, Len(view[b][i].ops) + 1)

MainOf(b, i) ==
    Uop(view[b][i].kind, CopiesOf(b, i),
        IF Stored(view[b][i]) THEN StoredCopy(b, i) ELSE view[b][i].res, view[b][i].slot)

StoreOf(b, i) ==
    IF Stored(view[b][i]) THEN <<Uop("spill", <<StoredCopy(b, i)>>, 0, view[b][i].res)>> ELSE <<>>

LEMMA FreshIsNew ==
    ASSUME IsView(view, count), count \in Nat, NEW b \in 1 .. Len(view), NEW i \in 1 .. Len(view[b]),
           NEW j \in Fresh(view[b][i])
    PROVE  j \in Nat /\ <<b, i, j>> \in New
<1> DEFINE Of(c, k) == {<<c, k, x>> : x \in Fresh(view[c][k])}
           In(c) == UNION {Of(c, k) : k \in DOMAIN view[c]}
<1>1. j \in Nat
  <2>1. view[b][i] \in Uops(count)
      BY BlocksOfView
  <2>2. Len(view[b][i].ops) \in Nat /\ DOMAIN view[b][i].ops = 1 .. Len(view[b][i].ops)
      BY <2>1, UopFields
  <2>3. j \in DOMAIN view[b][i].ops \/ j = Len(view[b][i].ops) + 1
      BY DEF Fresh, Loaded
  <2> QED
      BY <2>2, <2>3
<1>2. b \in Blocks /\ i \in DOMAIN view[b]
    BY BlocksOfView DEF Blocks
<1>3. <<b, i, j>> \in Of(b, i)
    OBVIOUS
<1>4. New = UNION {In(c) : c \in Blocks}
    BY DEF New
<1> HIDE DEF Of
<1>5. <<b, i, j>> \in In(b)
    BY <1>2, <1>3
<1> HIDE DEF In
<1> QED
    BY <1>1, <1>2, <1>4, <1>5

LEMMA ExpandedParts ==
    ASSUME count \in Nat, onStk \subseteq 1 .. count, IsView(view, count),
           NEW b \in 1 .. Len(view), NEW i \in 1 .. Len(view[b])
    PROVE  /\ Expanded(b, i) = FlattenSeq(LoadsOf(b, i)) \o <<MainOf(b, i)>> \o StoreOf(b, i)
           /\ LoadsOf(b, i) \in Seq(Seq(Uops(count + Cardinality(New))))
           /\ MainOf(b, i) \in Uops(count + Cardinality(New))
           /\ StoreOf(b, i) \in Seq(Uops(count + Cardinality(New)))
<1> DEFINE u == view[b][i]
           m == count + Cardinality(New)
           fresh == NewReg(b, i, Len(u.ops) + 1)
           load(j) == Uop("reload", <<>>, NewReg(b, i, j), u.ops[j])
           loads == [j \in DOMAIN u.ops |-> IF j \in Loaded(u) THEN <<load(j)>> ELSE <<>>]
           ops == [j \in DOMAIN u.ops |-> IF j \in Loaded(u) THEN NewReg(b, i, j) ELSE u.ops[j]]
           main == Uop(u.kind, ops, IF Stored(u) THEN fresh ELSE u.res, u.slot)
           store == IF Stored(u) THEN <<Uop("spill", <<fresh>>, 0, u.res)>> ELSE <<>>
<1>1. Expanded(b, i) = FlattenSeq(loads) \o <<main>> \o store
    BY DEF Expanded
<1>2. /\ u.kind \in {"op", "call", "reload", "spill"}
      /\ u.ops \in Seq(1 .. count) /\ Len(u.ops) \in Nat /\ DOMAIN u.ops = 1 .. Len(u.ops)
      /\ \A j \in DOMAIN u.ops : u.ops[j] \in 1 .. count
      /\ u.res \in 0 .. count /\ u.slot \in 0 .. count
      /\ Reads(u) \subseteq 1 .. count /\ u.res \notin Reads(u)
  <2>1. u \in Uops(count)
      BY BlocksOfView
  <2> QED
      BY <2>1, UopFields
<1>3. b \in Nat /\ i \in Nat /\ b \in Blocks /\ i \in DOMAIN view[b]
    BY BlocksOfView DEF Blocks
<1>4. m \in Nat /\ count <= m
  <2>1. Cardinality(New) \in Nat
      BY NewIsFinite, FS_CardinalityType
  <2> QED
      BY <2>1
<1>5. \A j \in Fresh(u) : j \in Nat /\ <<b, i, j>> \in New
    BY FreshIsNew
<1>6. \A j \in Fresh(u) : NewReg(b, i, j) \in count + 1 .. m
    BY <1>3, <1>5, NewRegs
<1>7. \A j \in Loaded(u) : NewReg(b, i, j) \in count + 1 .. m /\ j \in DOMAIN u.ops
    BY <1>6 DEF Fresh, Loaded
<1>8. Stored(u) => fresh \in count + 1 .. m /\ u.res \in 1 .. count /\ \A j \in Loaded(u) : NewReg(b, i, j) /= fresh
  <2> SUFFICES ASSUME Stored(u)
               PROVE  fresh \in count + 1 .. m /\ u.res \in 1 .. count /\ \A j \in Loaded(u) : NewReg(b, i, j) /= fresh
      OBVIOUS
  <2>1. Len(u.ops) + 1 \in Fresh(u)
      BY DEF Fresh
  <2>2. ASSUME NEW j \in Loaded(u) PROVE NewReg(b, i, j) /= fresh
    <3>1. j \in Fresh(u) /\ j < Len(u.ops) + 1
        BY <1>2 DEF Fresh, Loaded
    <3>2. NewReg(b, i, j) < fresh
        BY <1>3, <1>5, <2>1, <3>1, NewRegs
    <3>3. NewReg(b, i, j) \in Int /\ fresh \in Int
        BY <1>6, <2>1, <3>1
    <3> QED
        BY <3>2, <3>3
  <2>3. u.res \in 1 .. count
      BY DEF Stored
  <2> HIDE DEF m
  <2> QED
      BY <1>6, <2>1, <2>2, <2>3
<1> HIDE DEF m, fresh
<1>9. main \in Uops(m)
  <2>1. ops \in Seq(1 .. m)
    <3>1. ASSUME NEW j \in 1 .. Len(u.ops) PROVE ops[j] \in 1 .. m
      <4>1. ops[j] = IF j \in Loaded(u) THEN NewReg(b, i, j) ELSE u.ops[j]
          BY <1>2
      <4>2. u.ops[j] \in 1 .. count
          BY <1>2
      <4> HIDE DEF ops
      <4>3. CASE j \in Loaded(u)
          BY <1>7, <4>1, <4>3
      <4>4. CASE j \notin Loaded(u)
          BY <1>4, <4>1, <4>2, <4>4
      <4> QED
          BY <4>3, <4>4
    <3>2. ops \in [1 .. Len(u.ops) -> 1 .. m]
        BY <1>2, <3>1
    <3> HIDE DEF ops
    <3> QED
        BY <1>2, <3>2, FunctionIsSeq
  <2>2. main.res \in 0 .. m /\ main.slot \in 0 .. m /\ main.kind = u.kind /\ main.ops = ops
    <3>1. \A x \in 0 .. count : x \in 0 .. m
        BY <1>4
    <3>2. \A x \in count + 1 .. m : x \in 0 .. m
        BY <1>4
    <3> QED
        BY <1>2, <1>8, <3>1, <3>2 DEF Uop
  <2>3. ASSUME NEW j \in DOMAIN ops PROVE main.res /= ops[j]
    <3>1. j \in DOMAIN u.ops /\ u.ops[j] \in 1 .. count /\ u.ops[j] /= u.res
        BY <1>2 DEF Reads
    <3>2. \A x \in 0 .. count : \A y \in count + 1 .. m : x /= y
        BY <1>4
    <3>3. CASE j \in Loaded(u)
        BY <1>2, <1>7, <1>8, <3>1, <3>2, <3>3 DEF Uop
    <3>4. CASE j \notin Loaded(u)
        BY SMTT(30), <1>2, <1>8, <3>1, <3>2, <3>4 DEF Uop
    <3> QED
        BY <3>3, <3>4
  <2>4. main.res \notin Reads(main)
    <3>1. Reads(main) = {ops[j] : j \in DOMAIN ops}
      <4>1. main.ops = ops
          BY <2>2
      <4> HIDE DEF main, ops
      <4> QED
          BY <4>1 DEF Reads
    <3> HIDE DEF main, ops
    <3> QED
        BY <2>3, <3>1
  <2>5. main = [kind |-> main.kind, ops |-> main.ops, res |-> main.res, slot |-> main.slot]
      BY DEF Uop
  <2> HIDE DEF main, ops
  <2> QED
      BY <1>2, <2>1, <2>2, <2>4, <2>5 DEF Uops
<1>10. ASSUME NEW j \in Loaded(u) PROVE load(j) \in Uops(m)
  <2>1. NewReg(b, i, j) \in 0 .. m /\ u.ops[j] \in 0 .. m
    <3>1. NewReg(b, i, j) \in count + 1 .. m /\ u.ops[j] \in 1 .. count
        BY <1>2, <1>7
    <3>2. (\A x \in 1 .. count : x \in 0 .. m) /\ \A x \in count + 1 .. m : x \in 0 .. m
        BY <1>4
    <3> QED
        BY <3>1, <3>2
  <2>2. Reads(load(j)) = {} /\ <<>> \in Seq(1 .. m)
      BY DEF Reads, Uop
  <2> QED
      BY <2>1, <2>2 DEF Uops, Uop
<1>11. loads \in Seq(Seq(Uops(m)))
  <2>1. \A j \in 1 .. Len(u.ops) : loads[j] \in Seq(Uops(m))
      BY <1>2, <1>10
  <2>2. loads \in [1 .. Len(u.ops) -> Seq(Uops(m))]
      BY <1>2, <2>1
  <2> HIDE DEF loads
  <2> QED
      BY <1>2, <2>2, FunctionIsSeq
<1>12. store \in Seq(Uops(m))
  <2>1. ASSUME Stored(u) PROVE Uop("spill", <<fresh>>, 0, u.res) \in Uops(m)
    <3>1. fresh \in 1 .. m /\ fresh /= 0 /\ u.res \in 0 .. m /\ 0 \in 0 .. m
        BY <1>4, <1>8, <2>1
    <3>2. <<fresh>> \in Seq(1 .. m) /\ Reads(Uop("spill", <<fresh>>, 0, u.res)) = {fresh}
        BY <3>1 DEF Reads, Uop
    <3> QED
        BY <3>1, <3>2 DEF Uops, Uop
  <2> QED
      BY <2>1
<1>13. loads = LoadsOf(b, i) /\ main = MainOf(b, i) /\ store = StoreOf(b, i)
    BY DEF LoadsOf, LoadOf, MainOf, StoreOf, CopiesOf, StoredCopy, fresh
<1> HIDE DEF loads, main, store
<1> QED
    BY <1>1, <1>9, <1>11, <1>12, <1>13 DEF m

LEMMA ExpandedType ==
    ASSUME count \in Nat, onStk \subseteq 1 .. count, IsView(view, count),
           NEW b \in 1 .. Len(view), NEW i \in 1 .. Len(view[b])
    PROVE  /\ Expanded(b, i) \in Seq(Uops(count + Cardinality(New)))
           /\ Expanded(b, i) /= <<>>
<1> DEFINE m == count + Cardinality(New)
           loads == LoadsOf(b, i)
           main == MainOf(b, i)
           store == StoreOf(b, i)
<1>1. Expanded(b, i) = FlattenSeq(loads) \o <<main>> \o store
    BY ExpandedParts
<1>9. main \in Uops(m)
    BY ExpandedParts
<1>11. loads \in Seq(Seq(Uops(m)))
    BY ExpandedParts
<1>12. store \in Seq(Uops(m))
    BY ExpandedParts
<1> HIDE DEF m, loads, main, store
<1>13. FlattenSeq(loads) \in Seq(Uops(m))
    BY <1>11, FlattenType
<1> DEFINE front == FlattenSeq(loads) \o <<main>>
<1>14. front \in Seq(Uops(m)) /\ Len(front) = Len(FlattenSeq(loads)) + 1
  <2>1. <<main>> \in Seq(Uops(m)) /\ Len(<<main>>) = 1
      BY <1>9
  <2> QED
      BY <1>13, <2>1, ConcatProperties
<1>15. front /= <<>>
  <2>1. Len(FlattenSeq(loads)) \in Nat
      BY <1>13
  <2>2. Len(front) /= 0
      BY <1>14, <2>1
  <2> QED
      BY <2>2, EmptySeq
<1> HIDE DEF front
<1>16. front \o store \in Seq(Uops(m)) /\ front \o store /= <<>>
    BY <1>12, <1>14, <1>15, ConcatProperties, ConcatEqualIffEmpty
<1> QED
    BY <1>1, <1>16 DEF front, m

LEMMA RewriteType ==
    ASSUME count \in Nat, MaxVregs \in Nat, onStk \subseteq 1 .. count, IsView(view, count), Rewrite
    PROVE  /\ Cardinality(New) \in Nat
           /\ count' \in Nat /\ count <= count' /\ count' <= MaxVregs
           /\ keep' = keep \cup (count + 1 .. count')
           /\ IsView(view, count)' /\ Len(view') = Len(view)
<1> DEFINE m == count + Cardinality(New)
           parts(b) == [i \in DOMAIN view[b] |-> Expanded(b, i)]
<1>1. Cardinality(New) \in Nat
    BY NewIsFinite, FS_CardinalityType
<1>2. count' = m /\ m <= MaxVregs /\ keep' = keep \cup (count + 1 .. count')
    BY DEF Rewrite
<1>3. view' = [b \in 1 .. Len(view) |-> FlattenSeq(parts(b))]
    BY BlocksOfView DEF Rewrite, Blocks
<1>4. ASSUME NEW b \in 1 .. Len(view) PROVE FlattenSeq(parts(b)) \in Seq(Uops(m)) \ {<<>>}
  <2>1. Len(view[b]) \in Nat \ {0} /\ DOMAIN view[b] = 1 .. Len(view[b])
      BY BlocksOfView
  <2>2. \A i \in 1 .. Len(view[b]) : Expanded(b, i) \in Seq(Uops(m)) /\ Expanded(b, i) /= <<>>
      BY ExpandedType
  <2>3. parts(b) \in Seq(Seq(Uops(m))) /\ Len(parts(b)) = Len(view[b]) /\ 1 \in 1 .. Len(view[b])
      BY <2>1, <2>2
  <2>4. parts(b)[1] /= <<>>
      BY <2>1, <2>2, <2>3
  <2> HIDE DEF parts, m
  <2> QED
      BY <2>3, <2>4, FlattenType
<1>5. Len(view) \in Nat
    BY BlocksOfView
<1> HIDE DEF parts
<1>6. view' \in Seq(Seq(Uops(m)) \ {<<>>}) /\ Len(view') = Len(view)
    BY <1>3, <1>4, <1>5
<1> QED
    BY <1>1, <1>2, <1>6 DEF IsView

-----------------------------------------------------------------------------
(* Positions and liveness. *)

LEMMA FirstSteps ==
    ASSUME NEW n, IsView(view, n)
    PROVE  /\ First(1) = 1
           /\ \A b \in 1 .. Len(view) : First(b + 1) = First(b) + Len(view[b])
           /\ \A b \in 1 .. Len(view) + 1 : First(b) \in Nat \ {0}
<1> DEFINE Rule(f, k) == [c \in 0 .. k |-> IF c = 0 THEN 1 ELSE f[c - 1] + Len(view[c])]
           T == {k \in Nat : ~\E f : f = Rule(f, k)}
<1>1. Len(view) \in Nat /\ \A b \in 1 .. Len(view) : Len(view[b]) \in Nat
    BY BlocksOfView
<1>2. 0 \notin T
  <2>1. [c \in 0 .. 0 |-> 1] = Rule([c \in 0 .. 0 |-> 1], 0)
      OBVIOUS
  <2> QED
      BY <2>1
<1>3. ASSUME NEW k \in Nat, k \notin T PROVE k + 1 \notin T
  <2>1. PICK f : f = Rule(f, k)
      BY <1>3
  <2> DEFINE g == [c \in 0 .. k + 1 |-> IF c = k + 1 THEN f[c - 1] + Len(view[c]) ELSE f[c]]
  <2>2. ASSUME NEW c \in 0 .. k + 1
        PROVE g[c] = IF c = 0 THEN 1 ELSE g[c - 1] + Len(view[c])
    <3>1. CASE c = k + 1
        BY <3>1
    <3>2. CASE c \in 1 .. k
      <4>1. g[c] = f[c] /\ g[c - 1] = f[c - 1]
          BY <3>2
      <4>2. f[c] = f[c - 1] + Len(view[c])
          BY <2>1, <3>2
      <4> QED
          BY <3>2, <4>1, <4>2
    <3>3. CASE c = 0
        BY <2>1, <3>3
    <3> QED
        BY <3>1, <3>2, <3>3
  <2>3. g = Rule(g, k + 1)
      BY <2>2
  <2> QED
      BY <2>3
<1>4. T = {}
  <2> HIDE DEF T
  <2>1. T \subseteq Nat
      BY DEF T
  <2> QED
      BY <1>2, <1>3, <2>1, Smallest
<1>5. \E f : f = Rule(f, Len(view))
    BY <1>1, <1>4
<1> DEFINE At == CHOOSE f : f = Rule(f, Len(view))
<1>6. At = Rule(At, Len(view))
    BY <1>5
<1>7. \A b : First(b) = At[b - 1]
    BY DEF First
<1> HIDE DEF At
<1>8. At[0] = 1 /\ \A c \in 1 .. Len(view) : At[c] = At[c - 1] + Len(view[c])
    BY <1>1, <1>6
<1>9. First(1) = 1
    BY <1>7, <1>8
<1>10. ASSUME NEW b \in 1 .. Len(view) PROVE First(b + 1) = First(b) + Len(view[b])
  <2>1. (b + 1) - 1 = b
      OBVIOUS
  <2>2. First(b + 1) = At[b] /\ First(b) = At[b - 1]
      BY <1>7, <2>1
  <2> QED
      BY <1>8, <2>2
<1> DEFINE N == {c \in Nat : c + 1 <= Len(view) + 1 /\ First(c + 1) \notin Nat \ {0}}
<1>11. 0 \notin N
    BY <1>9
<1>12. ASSUME NEW c \in Nat, c \notin N PROVE c + 1 \notin N
  <2> SUFFICES ASSUME (c + 1) + 1 <= Len(view) + 1 PROVE First((c + 1) + 1) \in Nat \ {0}
      OBVIOUS
  <2>1. c + 1 \in 1 .. Len(view) /\ First(c + 1) \in Nat \ {0}
      BY <1>1, <1>12
  <2>2. First((c + 1) + 1) = First(c + 1) + Len(view[c + 1]) /\ Len(view[c + 1]) \in Nat
      BY <1>1, <1>10, <2>1
  <2> QED
      BY <2>1, <2>2
<1>13. N = {}
  <2> HIDE DEF N
  <2>1. N \subseteq Nat
      BY DEF N
  <2> QED
      BY <1>11, <1>12, <2>1, Smallest
<1>14. ASSUME NEW b \in 1 .. Len(view) + 1 PROVE First(b) \in Nat \ {0}
  <2>1. b - 1 \in Nat /\ (b - 1) + 1 = b /\ b <= Len(view) + 1
      BY <1>1
  <2>2. b - 1 \notin N
      BY <1>13
  <2> QED
      BY <2>1, <2>2
<1> QED
    BY <1>9, <1>10, <1>14

(* A value read before the block writes it is live into the block.         *)
LEMMA ReadIsLiveIn ==
    ASSUME NEW n, IsView(view, n), live = LiveSets(view, 1 .. count), NEW v \in 1 .. count,
           NEW b \in 1 .. Len(view), NEW j \in 1 .. Len(view[b]), v \in Reads(view[b][j]),
           \A k \in 1 .. j - 1 : view[b][k].res /= v
    PROVE  v \in live.in[b]
<1>1. b \in DOMAIN view /\ j \in DOMAIN view[b]
    BY BlocksOfView
<1>2. live.in[b] = {w \in 1 .. count : b \in LiveInto(view, w)} \cup Preset(b)
    BY <1>1 DEF LiveSets
<1>3. CASE v \in Preset(b)
    BY <1>2, <1>3
<1>4. CASE v \notin Preset(b)
  <2>1. b \in Exposing(view, v)
      BY <1>1, <1>4 DEF Exposing
  <2>2. b \in LiveInto(view, v)
      BY <1>1, <2>1 DEF LiveInto
  <2> QED
      BY <1>2, <2>2
<1> QED
    BY <1>3, <1>4

(* A value live out of a block that does not write it is live into it.     *)
LEMMA LiveOutIsLiveIn ==
    ASSUME NEW n, IsView(view, n), live = LiveSets(view, 1 .. count), NEW v \in 1 .. count,
           NEW b \in 1 .. Len(view), v \in live.out[b],
           \A k \in 1 .. Len(view[b]) : view[b][k].res /= v
    PROVE  v \in live.in[b]
<1>1. b \in DOMAIN view /\ DOMAIN view[b] = 1 .. Len(view[b])
    BY BlocksOfView
<1>2. /\ live.in[b] = {w \in 1 .. count : b \in LiveInto(view, w)} \cup Preset(b)
      /\ live.out[b] = {w \in 1 .. count : prog.succ[b] \cap LiveInto(view, w) /= {}}
    BY <1>1 DEF LiveSets
<1>3. CASE v \in Preset(b)
    BY <1>2, <1>3
<1>4. CASE v \notin Preset(b)
  <2>1. b \in DOMAIN view \ Killing(view, v)
      BY <1>1, <1>4 DEF Killing
  <2>2. PICK s \in prog.succ[b] : s \in LiveInto(view, v)
      BY <1>2
  <2>3. b \in LiveInto(view, v)
      BY <1>1, <2>1, <2>2 DEF LiveInto
  <2> QED
      BY <1>2, <2>3
<1> QED
    BY <1>3, <1>4

LEMMA CallPositions ==
    ASSUME NEW n, IsView(view, n), NEW b \in 1 .. Len(view), NEW v
    PROVE  /\ DefsAt(b, v) \in SUBSET Nat /\ UsesAt(b, v) \in SUBSET Nat
           /\ First(b) \in Nat \ {0} /\ Len(view[b]) \in Nat \ {0}
           /\ DOMAIN view[b] = 1 .. Len(view[b])
           /\ First(b) + Len(view[b]) \in Nat
           /\ \A d \in DefsAt(b, v) : First(b) <= d
           /\ \A u \in UsesAt(b, v) : u <= First(b) + Len(view[b])
<1> DEFINE F == First(b)
           L == Len(view[b])
           defs == DefsAt(b, v)
           uses == UsesAt(b, v)
<1>1. F \in Nat \ {0} /\ L \in Nat \ {0} /\ DOMAIN view[b] = 1 .. L
  <2>1. b \in 1 .. Len(view) + 1
      BY BlocksOfView
  <2> QED
      BY <2>1, FirstSteps, BlocksOfView
<1>3. \A k \in 1 .. L : F + k - 1 \in Nat /\ F <= F + k - 1 /\ F + k - 1 <= F + L
    BY <1>1
<1>4. LastOf(b) + 1 = F + L
    BY <1>1 DEF LastOf
<1>5. defs \in SUBSET Nat /\ \A d \in defs : F <= d
    BY <1>1, <1>3 DEF DefsAt
<1>6. uses \in SUBSET Nat /\ \A u \in uses : u <= F + L
  <2>1. \A u \in uses : u = F + L \/ \E k \in 1 .. L : u = F + k - 1
      BY <1>1, <1>4 DEF UsesAt
  <2>2. F + L \in Nat
      BY <1>1
  <2> HIDE DEF F, L, uses
  <2>3. ASSUME NEW u \in uses PROVE u \in Nat /\ u <= F + L
    <3>1. CASE u = F + L
        BY <2>2, <3>1
    <3>2. CASE \E k \in 1 .. L : u = F + k - 1
        BY <1>3, <3>2
    <3> QED
        BY <2>1, <3>1, <3>2
  <2> QED
      BY <2>3
<1>7. F + L \in Nat
    BY <1>1
<1> QED
    BY <1>1, <1>5, <1>6, <1>7

(* A value needed after uop i of block b has a definition in the block, at *)
(* or before i or at its head, whose segment reaches past i.               *)
LEMMA NeededIsDefined ==
    ASSUME count \in Nat, IsView(view, count), live = LiveSets(view, 1 .. count),
           NEW b \in 1 .. Len(view), NEW i \in 1 .. Len(view[b]), NEW v \in LiveAfter(b, i)
    PROVE  \E d \in DefsAt(b, v) :
              /\ First(b) <= d /\ d <= First(b) + i - 1
              /\ First(b) + i - 1 < EndOf(d, DefsAt(b, v), UsesAt(b, v))
<1> DEFINE F == First(b)
           L == Len(view[b])
           p == F + i - 1
           defs == DefsAt(b, v)
           uses == UsesAt(b, v)
<1>1. F \in Nat \ {0} /\ L \in Nat \ {0} /\ DOMAIN view[b] = 1 .. L /\ p \in Nat /\ F <= p /\ p < F + L
  <2>2. First(b) \in Nat \ {0} /\ L \in Nat \ {0} /\ DOMAIN view[b] = 1 .. L
      BY CallPositions
  <2> HIDE DEF L
  <2> QED
      BY <2>2 DEF L
<1>2. v \in 1 .. count
    BY DEF LiveAfter
<1>3. \A k \in 1 .. L : F + k - 1 \in Nat /\ F <= F + k - 1 /\ F + k - 1 <= F + L
    BY SMTT(30), <1>1
<1>4. LastOf(b) + 1 = F + L
    BY <1>1 DEF LastOf
<1>5. defs \in SUBSET Nat /\ \A d \in defs : F <= d
    BY CallPositions
<1>6. uses \in SUBSET Nat /\ \A u \in uses : u <= F + L
    BY CallPositions
<1>7. \A k \in 1 .. L : view[b][k].res = v => F + k - 1 \in defs
    BY <1>1 DEF DefsAt
<1>8. \A d \in defs : (d = F /\ v \in live.in[b]) \/ \E k \in 1 .. L : view[b][k].res = v /\ d = F + k - 1
    BY <1>1 DEF DefsAt
<1> HIDE DEF F, L, p, defs, uses
(* The value is used later, before it is written again. *)
<1>9. \E u \in uses : p < u /\ \A e \in defs : p < e => u < e
  <2>1. CASE \E j \in i + 1 .. L : /\ v \in Reads(view[b][j])
                                 /\ \A k \in i + 1 .. j - 1 : view[b][k].res /= v
    <3>1. PICK j \in i + 1 .. L : /\ v \in Reads(view[b][j])
                                 /\ \A k \in i + 1 .. j - 1 : view[b][k].res /= v
        BY <2>1
    <3>2. j \in 1 .. L /\ i \in Nat /\ i < j
        BY <1>1 DEF L
    <3>3. F + j - 1 \in uses
        BY <1>1, <3>1, <3>2 DEF uses, UsesAt, F
    <3>4. view[b][j].res /= v
      <4>1. view[b][j] \in Uops(count)
          BY <3>2, BlocksOfView DEF L
      <4> QED
          BY <3>1, <4>1, UopFields
    <3>5. ASSUME NEW e \in defs, p < e PROVE F + j - 1 < e
      <4>1. PICK k \in 1 .. L : view[b][k].res = v /\ e = F + k - 1
          BY <1>1, <1>8, <3>5
      <4>2. i < k
          BY <1>1, <3>2, <3>5, <4>1 DEF p
      <4>3. ~(k < j)
          BY SMTT(30), <3>1, <3>2, <4>1, <4>2
      <4>4. k /= j
          BY <3>4, <4>1
      <4> QED
          BY <1>1, <3>2, <4>1, <4>3, <4>4
    <3>6. p < F + j - 1
        BY <1>1, <3>2 DEF p
    <3> QED
        BY <3>3, <3>5, <3>6
  <2>2. CASE v \in live.out[b] /\ \A k \in i + 1 .. L : view[b][k].res /= v
    <3>1. F + L \in uses
        BY <1>4, <2>2 DEF uses, UsesAt
    <3>2. ASSUME NEW e \in defs, p < e PROVE FALSE
      <4>1. PICK k \in 1 .. L : view[b][k].res = v /\ e = F + k - 1
          BY <1>1, <1>8, <3>2
      <4>2. i \in Nat /\ i < k
          BY <1>1, <3>2, <4>1 DEF p, L
      <4> QED
          BY <2>2, <4>1, <4>2
    <3> QED
        BY <1>1, <3>1, <3>2
  <2> QED
      BY <2>1, <2>2 DEF LiveAfter, L
(* It was written before, or came into the block. *)
<1>10. \E d \in defs : d <= p
  <2>1. CASE \E k \in 1 .. i : view[b][k].res = v
    <3>1. PICK k \in 1 .. i : view[b][k].res = v
        BY <2>1
    <3>2. k \in 1 .. L /\ i \in Nat
        BY DEF L
    <3>3. F + k - 1 \in defs /\ F + k - 1 <= p
        BY <1>1, <1>7, <3>1, <3>2 DEF p
    <3> QED
        BY <3>3
  <2>2. CASE \A k \in 1 .. i : view[b][k].res /= v
    <3>1. v \in live.in[b]
      <4>1. CASE \E j \in i + 1 .. L : /\ v \in Reads(view[b][j])
                                     /\ \A k \in i + 1 .. j - 1 : view[b][k].res /= v
        <5>1. PICK j \in i + 1 .. L : /\ v \in Reads(view[b][j])
                                     /\ \A k \in i + 1 .. j - 1 : view[b][k].res /= v
            BY <4>1
        <5>2. j \in 1 .. Len(view[b]) /\ i \in Nat
            BY <1>1 DEF L
        <5>3. \A k \in 1 .. j - 1 : view[b][k].res /= v
            BY <2>2, <5>1, <5>2
        <5> QED
            BY <1>2, <5>1, <5>2, <5>3, ReadIsLiveIn
      <4>2. CASE v \in live.out[b] /\ \A k \in i + 1 .. L : view[b][k].res /= v
        <5>1. i \in Nat /\ L \in Nat
            BY <1>1
        <5>2. \A k \in 1 .. Len(view[b]) : view[b][k].res /= v
            BY <2>2, <4>2, <5>1 DEF L
        <5> QED
            BY <1>2, <4>2, <5>2, LiveOutIsLiveIn
      <4> QED
          BY <4>1, <4>2 DEF LiveAfter, L
    <3>2. F \in defs
        BY <3>1 DEF defs, DefsAt, F
    <3> QED
        BY <1>1, <3>2
  <2> QED
      BY <2>1, <2>2
<1>11. PICK d \in defs : d <= p /\ \A e \in defs : e <= p => e <= d
  <2> DEFINE X == {d \in defs : d <= p}
  <2>1. X \in SUBSET Nat /\ X /= {} /\ \A x \in X : x <= p
      BY <1>5, <1>10
  <2>2. \E m \in X : \A x \in X : x <= m
      BY <1>1, <2>1, GreatestExists
  <2> QED
      BY <2>2
<1>12. p < EndOf(d, defs, uses)
  <2>1. PICK u \in uses : p < u /\ \A e \in defs : p < e => u < e
      BY <1>9
  <2>2. d \in Nat /\ u \in Nat /\ \A e \in defs : e \in Nat
      BY <1>5, <1>6
  <2>3. u \in UsesOf(d, defs, uses)
    <3>1. d <= u
        BY <1>1, <1>11, <2>1, <2>2
    <3>2. \A e \in defs : d < e => u < e
        BY <1>1, <1>11, <2>1, <2>2
    <3> QED
        BY <3>1, <3>2 DEF UsesOf
  <2>4. F + L \in Nat
      BY <1>1
  <2>5. EndOf(d, defs, uses) \in Nat /\ u <= EndOf(d, defs, uses)
      BY <1>6, <2>2, <2>3, <2>4, EndReachesUses
  <2> QED
      BY <1>1, <2>1, <2>2, <2>5
<1> QED
    BY <1>5, <1>6, <1>11, <1>12 DEF F, L, p, defs, uses
-----------------------------------------------------------------------------
(* The invariant. *)

PlanInv ==
    /\ prog \in Programs
    /\ phase \in {"start", "analyse", "intervals", "sweep", "color", "rewrite", "done"}
    /\ again \in BOOLEAN
    /\ count \in prog.count .. MaxVregs
    /\ IsView(view, count)
    /\ onStk \subseteq 1 .. count
    /\ keep \subseteq (1 .. count) \ onStk

Analysed == phase \in {"intervals", "sweep", "color", "done"}

(* The segments of v cover what is needed of it in the blocks before n.    *)
Tracked(v, n) ==
    /\ Distinct(segs[v])
    /\ \A s \in segs[v] : s[1] < First(n)
    /\ \A b \in 1 .. n - 1 : \A i \in 1 .. Len(view[b]) :
          v \in LiveAfter(b, i) => LiveAt(segs[v], First(b) + i - 1)

SegsInv ==
    /\ segs \in [Vregs -> SUBSET (Nat \X Nat)]
    /\ \A v \in Vregs : Proper(segs[v])
    /\ phase \in {"start", "analyse"} /\ ~again => \A v \in Vregs : segs[v] = {}

TrackedInv ==
    Analysed =>
        /\ live = LiveSets(view, 1 .. count)
        /\ block \in 1 .. Len(view) + 1
        /\ phase /= "intervals" => block = Len(view) + 1
        /\ \A v \in Vregs : Reliable(v) => Tracked(v, block)

(* Temporaries of spill code stay in registers.                            *)
TemporariesStay == spills \cap graph.keep = {}

GraphInv ==
    /\ phase \in {"sweep", "color", "done"} => segments = Queued
    /\ phase \in {"color", "done"} => pending = {} /\ graph = Graphed
    /\ phase = "done" => outcome = "ok"

IInv == PlanInv /\ SegsInv /\ TrackedInv /\ SweepInv /\ ColorInv /\ TemporariesStay /\ GraphInv

-----------------------------------------------------------------------------

LEMMA PlanTypes ==
    ASSUME PlanInv
    PROVE  /\ MaxVregs \in Nat /\ Vregs = 1 .. MaxVregs /\ count \in Nat /\ 1 .. count \subseteq Vregs
           /\ Blocks = 1 .. Len(view) /\ Len(view) \in Nat
           /\ prog.params \subseteq 1 .. count
<1>1. IsFunction(prog) /\ MaxVregs \in Nat /\ Vregs = 1 .. MaxVregs
    BY FunctionAssumption DEF PlanInv
<1>2. prog.count \in Nat /\ count \in Nat /\ prog.count <= count /\ count <= MaxVregs /\ prog.params \subseteq 1 .. prog.count
    BY <1>1 DEF PlanInv, IsFunction
<1>3. 1 .. count \subseteq Vregs /\ prog.params \subseteq 1 .. count
    BY <1>1, <1>2
<1>4. Blocks = 1 .. Len(view) /\ Len(view) \in Nat
    BY BlocksOfView DEF PlanInv, Blocks
<1> QED
    BY <1>1, <1>2, <1>3, <1>4

LEMMA InitIInv == Init => IInv
<1> SUFFICES ASSUME Init PROVE IInv
    OBVIOUS
<1>1. IsFunction(prog) /\ MaxVregs \in Nat
    BY FunctionAssumption DEF Init
<1>2. PlanInv
  <2>1. /\ prog.count \in 1 .. MaxVregs
        /\ prog.code \in Seq(Seq(Uops(prog.count)) \ {<<>>})
        /\ prog.stkParams \subseteq 1 .. prog.count
      BY <1>1 DEF IsFunction
  <2>2. prog.count \in prog.count .. MaxVregs
      BY <1>1, <2>1
  <2> QED
      BY <2>1, <2>2 DEF Init, PlanInv, IsView
<1>3. SegsInv
    BY DEF Init, SegsInv, Proper
<1>4. SweepInv
    BY NothingSwept DEF Init
<1>5. ColorInv /\ TemporariesStay
    BY ColorIdleInv DEF Init, Idle, TemporariesStay
<1>6. TrackedInv /\ GraphInv
    BY DEF Init, TrackedInv, Analysed, GraphInv
<1> QED
    BY <1>2, <1>3, <1>4, <1>5, <1>6 DEF IInv

(* Rewriting leaves a function whose temporaries are in registers.         *)
LEMMA RewriteInv ==
    ASSUME PlanInv, Rewrite, UNCHANGED <<prog, onStk>>
    PROVE  /\ count' \in prog'.count .. MaxVregs
           /\ IsView(view, count)'
           /\ onStk' \subseteq 1 .. count'
           /\ keep' \subseteq (1 .. count') \ onStk'
<1>1. count \in Nat /\ MaxVregs \in Nat /\ onStk \subseteq 1 .. count /\ IsView(view, count)
    BY PlanTypes DEF PlanInv
<1>2. /\ count' \in Nat /\ count <= count' /\ count' <= MaxVregs
      /\ keep' = keep \cup (count + 1 .. count')
      /\ IsView(view, count)'
    BY <1>1, RewriteType
<1>3. prog.count \in Nat /\ prog.count <= count
  <2>1. IsFunction(prog) /\ count \in prog.count .. MaxVregs
      BY FunctionAssumption DEF PlanInv
  <2> QED
      BY <1>1, <2>1 DEF IsFunction
<1>4. count' \in prog'.count .. MaxVregs
    BY <1>1, <1>2, <1>3
<1>5. 1 .. count \subseteq 1 .. count' /\ count + 1 .. count' \subseteq 1 .. count' /\ (1 .. count) \cap (count + 1 .. count') = {}
    BY <1>1, <1>2
<1> QED
    BY <1>1, <1>2, <1>4, <1>5 DEF PlanInv

(* What does not look at the graph, the sweep or the round, stays.         *)
LEMMA PlanKept ==
    ASSUME PlanInv, UNCHANGED <<prog, again, view, count, onStk, keep>>,
           phase' \in {"start", "analyse", "intervals", "sweep", "color", "rewrite", "done"}
    PROVE  PlanInv'
BY DEF PlanInv, IsView

LEMMA SegsKept ==
    ASSUME SegsInv, UNCHANGED segs, phase' \notin {"start", "analyse"}
    PROVE  SegsInv'
BY DEF SegsInv, Proper

LEMMA TrackedKept ==
    ASSUME UNCHANGED <<prog, again, view, count, live, block, segs>>, TrackedInv, PlanInv,
           \/ UNCHANGED phase
           \/ /\ Analysed
              /\ phase \in {"sweep", "color"} \/ block \notin Blocks
              /\ phase' \in {"sweep", "color", "done"}
    PROVE  TrackedInv'
<1> SUFFICES ASSUME Analysed, Analysed' PROVE TrackedInv'
    BY DEF TrackedInv, Analysed
<1>1. live' = LiveSets(view, 1 .. count)'
  <2>1. live = LiveSets(view, 1 .. count)
      BY DEF TrackedInv
  <2> QED
      BY <2>1 DEF LiveSets, LiveInto, Exposing, Killing, Preset, Reads
<1>2. block' \in 1 .. Len(view') + 1 /\ (phase' /= "intervals" => block' = Len(view') + 1)
  <2>1. block \in 1 .. Len(view) + 1 /\ (phase /= "intervals" => block = Len(view) + 1)
      BY DEF TrackedInv
  <2>2. block \notin Blocks => block = Len(view) + 1
      BY <2>1, PlanTypes
  <2> QED
      BY <2>1, <2>2
<1>3. ASSUME NEW v \in Vregs, Reliable(v)' PROVE Tracked(v, block)'
  <2>1. Reliable(v)
      BY <1>3 DEF Reliable
  <2>2. Tracked(v, block)
      BY <2>1 DEF TrackedInv
  <2>3. \A b : First(b)' = First(b)
      BY Zenon DEF First
  <2>4. ASSUME NEW b, NEW i PROVE LiveAfter(b, i)' = LiveAfter(b, i)
      BY SMT DEF LiveAfter, Reads
  <2> QED
      BY <2>2, <2>3, <2>4 DEF Tracked, Distinct, LiveAt
<1> QED
    BY <1>1, <1>2, <1>3 DEF TrackedInv

LEMMA AnalyseStep == ASSUME IInv, Analyse PROVE IInv'
<1>1. PlanInv'
    BY PlanKept DEF IInv, Analyse
<1>2. SegsInv'
    BY DEF IInv, Analyse, SegsInv, Proper
<1>3. SweepInv' /\ ColorInv' /\ TemporariesStay'
    BY SweepNextInv, ColorNextInv DEF IInv, Analyse, TemporariesStay, sweepVars, colorVars
<1>4. GraphInv'
    BY DEF Analyse, GraphInv
<1>5. TrackedInv'
  <2>1. live' = LiveSets(view, 1 .. count)'
      BY DEF Analyse, LiveSets, LiveInto, Exposing, Killing, Preset, Reads
  <2>2. block' = 1 /\ 1 \in 1 .. Len(view') + 1 /\ phase' = "intervals"
    <3>1. Len(view) \in Nat /\ view' = view
        BY PlanTypes DEF IInv, Analyse
    <3> QED
        BY <3>1 DEF Analyse
  <2>3. ASSUME NEW v \in Vregs, Reliable(v)' PROVE segs'[v] = {}
      BY <2>3 DEF Analyse, IInv, SegsInv, Reliable
  <2>4. \A v \in Vregs : Reliable(v)' => Tracked(v, block)'
      BY <2>2, <2>3 DEF Tracked, Distinct
  <2> QED
      BY <2>1, <2>2, <2>4 DEF TrackedInv
<1> QED
    BY <1>1, <1>2, <1>3, <1>4, <1>5 DEF IInv

LEMMA RewriteStep == ASSUME IInv, Prepare \/ InsertSpillCode PROVE IInv'
<1>1. Rewrite /\ phase' = "analyse" /\ UNCHANGED <<prog, onStk, live, block, segs, sweepVars, colorVars>>
    BY DEF Prepare, InsertSpillCode
<1>2. PlanInv'
  <2>1. again' \in BOOLEAN
      BY DEF Prepare, InsertSpillCode, IInv, PlanInv
  <2>2. /\ count' \in prog'.count .. MaxVregs
        /\ IsView(view, count)'
        /\ onStk' \subseteq 1 .. count'
        /\ keep' \subseteq (1 .. count') \ onStk'
      BY <1>1, RewriteInv DEF IInv
  <2> QED
      BY <1>1, <2>1, <2>2 DEF PlanInv, IInv
<1>3. SegsInv'
    BY <1>1 DEF IInv, Prepare, InsertSpillCode, SegsInv, Proper
<1>4. SweepInv' /\ ColorInv' /\ TemporariesStay'
    BY <1>1, SweepNextInv, ColorNextInv DEF IInv, TemporariesStay, sweepVars, colorVars
<1>5. TrackedInv' /\ GraphInv'
    BY <1>1 DEF TrackedInv, Analysed, GraphInv
<1> QED
    BY <1>2, <1>3, <1>4, <1>5 DEF IInv

(* One more block of every live interval.                                  *)
LEMMA BlockIsTracked ==
    ASSUME PlanInv, SegsInv, live = LiveSets(view, 1 .. count), NEW b \in 1 .. Len(view),
           NEW v \in Vregs, Tracked(v, b), IntervalsOfBlock, block = b
    PROVE  Tracked(v, b + 1)'
<1> DEFINE defs == DefsAt(b, v)
           uses == UsesAt(b, v)
           T == AddBlock(segs[v], First(b), Len(view[b]), defs, uses)
<1>1. count \in Nat /\ IsView(view, count) /\ Len(view) \in Nat
    BY PlanTypes DEF PlanInv
<1>2. /\ defs \in SUBSET Nat /\ uses \in SUBSET Nat
      /\ First(b) \in Nat \ {0} /\ Len(view[b]) \in Nat \ {0}
      /\ First(b) + Len(view[b]) \in Nat
      /\ \A u \in uses : u <= First(b) + Len(view[b])
    BY <1>1, CallPositions
<1>3. Proper(segs[v]) /\ Distinct(segs[v]) /\ \A s \in segs[v] : s[1] < First(b)
    BY DEF SegsInv, Tracked
<1>4. First(b + 1) = First(b) + Len(view[b])
    BY <1>1, FirstSteps
<1>5. segs'[v] = T
    BY DEF IntervalsOfBlock
<1> HIDE DEF defs, uses, T
<1>6. Continues(T, segs[v], First(b), First(b + 1), defs, uses)
    BY <1>2, <1>3, <1>4, AddBlockContinues DEF T
<1>7. ASSUME NEW i \in 1 .. Len(view[b]), v \in LiveAfter(b, i) PROVE LiveAt(T, First(b) + i - 1)
  <2>1. PICK d \in defs : /\ First(b) <= d /\ d <= First(b) + i - 1
                          /\ First(b) + i - 1 < EndOf(d, defs, uses)
      BY <1>1, <1>7, NeededIsDefined DEF defs, uses
  <2>2. First(b) + i - 1 \in Nat /\ d < First(b + 1)
    <3> DEFINE F == First(b)
               L == Len(view[b])
    <3>1. F \in Nat /\ L \in Nat /\ i \in 1 .. L /\ d \in Nat /\ d <= F + i - 1
        BY <1>2, <2>1
    <3> HIDE DEF F, L
    <3>2. F + i - 1 \in Nat /\ d < F + L
        BY <3>1
    <3> QED
        BY <1>4, <3>2 DEF F, L
  <2> QED
      BY <1>6, <2>1, <2>2 DEF Continues
<1>8. ASSUME NEW c \in 1 .. b, NEW i \in 1 .. Len(view[c]), v \in LiveAfter(c, i)
      PROVE  LiveAt(T, First(c) + i - 1)
  <2>1. CASE c = b
      BY <1>7, <1>8, <2>1
  <2>2. CASE c /= b
    <3>1. c \in 1 .. b - 1 /\ c \in 1 .. Len(view)
        BY <1>1, <2>2
    <3>2. LiveAt(segs[v], First(c) + i - 1)
        BY <1>8, <3>1 DEF Tracked
    <3>3. First(c) + i - 1 \in Nat
      <4> DEFINE F == First(c)
      <4>1. F \in Nat
          BY <1>1, <3>1, CallPositions
      <4> HIDE DEF F
      <4>2. F + i - 1 \in Nat
          BY <4>1
      <4> QED
          BY <4>2 DEF F
    <3> QED
        BY <1>6, <3>2, <3>3 DEF Continues
  <2> QED
      BY <2>1, <2>2
<1>9. (b + 1) - 1 = b
    OBVIOUS
<1>10. /\ view' = view /\ count' = count /\ live' = live
       /\ \A c : First(c)' = First(c)
  <2>1. view' = view /\ count' = count /\ live' = live
      BY DEF IntervalsOfBlock
  <2> QED
      BY <2>1, Zenon DEF First
<1>11. ASSUME NEW c, NEW i PROVE LiveAfter(c, i)' = LiveAfter(c, i)
    BY <1>10, SMT DEF LiveAfter, Reads
<1>12. Distinct(segs[v])' /\ \A s \in segs'[v] : s[1] < First(b + 1)
    BY <1>5, <1>6 DEF Continues, Distinct
<1>13. ASSUME NEW c \in 1 .. b, NEW i \in 1 .. Len(view[c]), v \in LiveAfter(c, i)
       PROVE  LiveAt(segs[v], First(c) + i - 1)'
    BY <1>5, <1>8, <1>10, <1>13 DEF LiveAt
<1> QED
    BY <1>9, <1>10, <1>11, <1>12, <1>13 DEF Tracked

LEMMA IntervalsStep == ASSUME IInv, IntervalsOfBlock PROVE IInv'
<1>1. PlanInv'
    BY PlanKept DEF IInv, IntervalsOfBlock, PlanInv
<1>2. block \in 1 .. Len(view) /\ block' = block + 1 /\ phase = "intervals" /\ phase' = "intervals"
    BY PlanTypes DEF IInv, IntervalsOfBlock
<1>3. count \in Nat /\ IsView(view, count) /\ Len(view) \in Nat
    BY PlanTypes DEF IInv, PlanInv
<1>4. SegsInv'
  <2>1. segs' = [v \in Vregs |-> AddBlock(segs[v], First(block), Len(view[block]),
                                          DefsAt(block, v), UsesAt(block, v))]
      BY DEF IntervalsOfBlock
  <2>2. ASSUME NEW v \in Vregs PROVE Proper(segs'[v])
    <3>1. /\ UsesAt(block, v) \in SUBSET Nat
          /\ First(block) \in Nat \ {0} /\ Len(view[block]) \in Nat
          /\ First(block) + Len(view[block]) \in Nat
          /\ \A u \in UsesAt(block, v) : u <= First(block) + Len(view[block])
        BY <1>2, <1>3, CallPositions
    <3>2. Proper(segs[v])
        BY DEF IInv, SegsInv
    <3>3. Proper(AddBlock(segs[v], First(block), Len(view[block]), DefsAt(block, v), UsesAt(block, v)))
        BY <3>1, <3>2, AddBlockProper
    <3> QED
        BY <2>1, <3>3
  <2>3. \A v \in Vregs : segs'[v] \in SUBSET (Nat \X Nat)
      BY <2>2 DEF Proper
  <2> QED
      BY <1>2, <2>1, <2>2, <2>3 DEF SegsInv, Proper
<1>5. SweepInv' /\ ColorInv' /\ TemporariesStay'
    BY SweepNextInv, ColorNextInv DEF IInv, IntervalsOfBlock, TemporariesStay, sweepVars, colorVars
<1>6. GraphInv'
    BY <1>2 DEF GraphInv
<1>7. TrackedInv'
  <2>1. live = LiveSets(view, 1 .. count)
      BY <1>2 DEF IInv, TrackedInv, Analysed
  <2>2. live' = LiveSets(view, 1 .. count)'
      BY <2>1 DEF IntervalsOfBlock, LiveSets, LiveInto, Exposing, Killing, Preset, Reads
  <2>3. block' \in 1 .. Len(view') + 1
    <3>1. view' = view
        BY DEF IntervalsOfBlock
    <3> QED
        BY <1>2, <1>3, <3>1
  <2>4. ASSUME NEW v \in Vregs, Reliable(v)' PROVE Tracked(v, block)'
    <3>1. Reliable(v)
        BY <2>4 DEF Reliable, IntervalsOfBlock
    <3>2. Tracked(v, block)
        BY <1>2, <3>1 DEF IInv, TrackedInv, Analysed
    <3>3. ASSUME NEW b \in 1 .. Len(view), b = block PROVE Tracked(v, b + 1)'
        BY <2>1, <3>2, <3>3, BlockIsTracked DEF IInv
    <3>4. PICK b \in 1 .. Len(view) : b = block
        BY <1>2
    <3>5. Tracked(v, b + 1)' /\ block' = b + 1
        BY <1>2, <3>3, <3>4
    <3> QED
        BY <3>5 DEF Tracked
  <2> QED
      BY <1>2, <2>2, <2>3, <2>4 DEF TrackedInv
<1> QED
    BY <1>1, <1>4, <1>5, <1>6, <1>7 DEF IInv

LEMMA StartSweepStep == ASSUME IInv, StartSweep PROVE IInv'
<1>1. PlanInv' /\ SegsInv'
    BY PlanKept, SegsKept DEF IInv, StartSweep
<1>2. TrackedInv'
    BY TrackedKept DEF IInv, StartSweep, Analysed
<1>3. Queued \subseteq Segment
  <2> SUFFICES ASSUME NEW q \in Queued PROVE q \in Segment
      OBVIOUS
  <2>1. PICK v \in (1 .. count) \ onStk : q \in {[bgn |-> s[1], end |-> s[2], owner |-> v] : s \in segs[v]}
      BY DEF Queued
  <2>2. PICK s \in segs[v] : q = [bgn |-> s[1], end |-> s[2], owner |-> v]
      BY <2>1
  <2>3. v \in Vregs
      BY PlanTypes DEF IInv
  <2>4. s \in Nat \X Nat /\ s[1] < s[2]
      BY <2>3 DEF IInv, SegsInv, Proper
  <2> QED
      BY <2>2, <2>3, <2>4 DEF Segment
<1>4. SweepInv'
    BY <1>3, FillInv DEF StartSweep
<1>5. ColorInv' /\ TemporariesStay'
    BY ColorNextInv DEF IInv, StartSweep, TemporariesStay, colorVars
<1>6. GraphInv'
    BY DEF StartSweep, Fill, GraphInv, Queued
<1> QED
    BY <1>1, <1>2, <1>4, <1>5, <1>6 DEF IInv

LEMMA SweepStepInv == ASSUME IInv, SweepStep PROVE IInv'
<1>1. PlanInv' /\ SegsInv'
    BY PlanKept, SegsKept DEF IInv, PlanInv, SweepStep, planVars
<1>2. TrackedInv'
    BY TrackedKept DEF IInv, SweepStep, planVars, Analysed
<1>3. SweepInv'
    BY SweepNextInv DEF IInv, SweepStep
<1>4. ColorInv' /\ TemporariesStay'
    BY ColorNextInv DEF IInv, SweepStep, TemporariesStay, colorVars
<1>5. segments' = segments
    BY DEF SweepStep, SweepNext, Take
<1>6. GraphInv'
    BY <1>5 DEF IInv, SweepStep, planVars, GraphInv, Queued
<1> QED
    BY <1>1, <1>2, <1>3, <1>4, <1>6 DEF IInv

(* The graph that is coloured is well formed: edges are drawn at both ends *)
(* and only between registers that are not on the stack.                   *)
LEMMA GraphedIsWellFormed ==
    ASSUME IInv, phase = "sweep", pending = {}
    PROVE  Graphed \in Graph /\ WellFormed(Graphed)
<1>1. /\ prog.arrives \in [prog.params -> CallerSave]
      /\ \A v, w \in prog.params : v /= w => prog.arrives[v] /= prog.arrives[w]
      /\ NoColor \notin CallerSave
    BY FunctionAssumption, RegsAssumption DEF IInv, PlanInv, IsFunction
<1>2. 1 .. count \subseteq Vregs /\ keep \subseteq 1 .. count
    BY PlanTypes DEF IInv, PlanInv
<1>3. A0 \in CallerSave
    BY FunctionAssumption, RegsAssumption, LowestIsMember DEF A0
<1>4. Graphed \in Graph
    BY <1>1, <1>2, <1>3 DEF Graphed, Graph
<1>5. conn = Conflicts(segments) /\ segments = Queued
    BY SweepInvSuffices DEF IInv, EdgesAreOverlaps, GraphInv
<1>6. ASSUME NEW v \in Vregs, NEW w \in Vregs, <<v, w>> \in conn
      PROVE  <<w, v>> \in conn /\ w \in (1 .. count) \ onStk
  <2>1. PICK s \in segments, t \in segments :
            s /= t /\ Overlap(s, t) /\ <<v, w>> = <<s.owner, t.owner>>
      BY <1>5, <1>6 DEF Conflicts
  <2>2. t.owner \in (1 .. count) \ onStk
      BY <1>5 DEF Queued
  <2> QED
      BY <1>5, <2>1, <2>2 DEF Conflicts, Overlap
<1>7. \A n \in Graphed.nodes : n \in Vregs /\ Graphed.adj[n] \subseteq Graphed.nodes
    BY <1>2, <1>6 DEF Graphed
<1>8. \A n, m \in Graphed.nodes : m \in Graphed.adj[n] => n \in Graphed.adj[m]
    BY <1>2, <1>6 DEF Graphed
<1>9. \A n, m \in Graphed.nodes :
          n /= m /\ Graphed.fixed[n] /= NoColor => Graphed.fixed[n] /= Graphed.fixed[m]
    BY <1>1, <1>2 DEF Graphed
<1> QED
    BY <1>4, <1>7, <1>8, <1>9 DEF WellFormed

LEMMA StartColoringStep == ASSUME IInv, StartColoring PROVE IInv'
<1>1. PlanInv' /\ SegsInv'
    BY PlanKept, SegsKept DEF IInv, StartColoring
<1>2. TrackedInv'
    BY TrackedKept DEF IInv, StartColoring, Analysed
<1>3. SweepInv'
    BY SweepNextInv DEF IInv, StartColoring
<1>4. ColorInv'
  <2>1. used \subseteq Regs
      BY DEF IInv, ColorInv, ColorTypeOK
  <2> QED
      BY <2>1, GraphedIsWellFormed, ColorStartInv DEF StartColoring
<1>5. TemporariesStay'
    BY DEF StartColoring, Start, TemporariesStay
<1>6. GraphInv'
  <2>1. phase = "sweep" /\ segments = Queued
      BY DEF StartColoring, IInv, GraphInv
  <2> QED
      BY <2>1 DEF StartColoring, Start, GraphInv, Graphed, Queued, sweepVars
<1> QED
    BY <1>1, <1>2, <1>3, <1>4, <1>5, <1>6 DEF IInv

LEMMA ColorStepInv == ASSUME IInv, ColorStep PROVE IInv'
<1>1. PlanInv' /\ SegsInv'
    BY PlanKept, SegsKept DEF IInv, PlanInv, ColorStep, planVars
<1>2. TrackedInv'
    BY TrackedKept DEF IInv, ColorStep, planVars, Analysed
<1>3. SweepInv'
    BY SweepNextInv DEF IInv, ColorStep
<1>4. ColorInv'
    BY ColorNextInv DEF IInv, ColorStep
<1>5. graph' = graph
    BY DEF ColorStep, ColorNext, Skip, GiveWish, GiveFree, Spill, Panic, Finish, Pop
<1>6. TemporariesStay'
    BY <1>5 DEF IInv, TemporariesStay, ColorStep, ColorNext, Skip, GiveWish, GiveFree, Spill, Panic, Finish
<1>7. GraphInv'
    BY <1>5 DEF IInv, ColorStep, planVars, sweepVars, GraphInv, Queued, Graphed
<1> QED
    BY <1>1, <1>2, <1>3, <1>4, <1>6, <1>7 DEF IInv

LEMMA SpillRoundStep == ASSUME IInv, SpillRound PROVE IInv'
<1>1. graph = Graphed /\ spills \subseteq graph.nodes /\ spills \cap graph.keep = {}
    BY DEF IInv, SpillRound, GraphInv, ColorInv, ColorTypeOK, TemporariesStay
<1>2. spills \subseteq (1 .. count) \ keep
    BY <1>1 DEF Graphed
<1>3. PlanInv'
    BY <1>2 DEF IInv, SpillRound, PlanInv, IsView
<1>4. SegsInv'
    BY SegsKept DEF IInv, SpillRound
<1>5. SweepInv' /\ ColorInv' /\ TemporariesStay'
    BY SweepNextInv, ColorNextInv DEF IInv, SpillRound, TemporariesStay, sweepVars, colorVars
<1>6. TrackedInv' /\ GraphInv'
    BY DEF SpillRound, TrackedInv, Analysed, GraphInv
<1> QED
    BY <1>3, <1>4, <1>5, <1>6 DEF IInv

LEMMA SucceedStep == ASSUME IInv, Succeed PROVE IInv'
<1>1. PlanInv' /\ SegsInv'
    BY PlanKept, SegsKept DEF IInv, Succeed
<1>2. TrackedInv'
    BY TrackedKept DEF IInv, Succeed, Analysed
<1>3. SweepInv' /\ ColorInv' /\ TemporariesStay'
    BY SweepNextInv, ColorNextInv DEF IInv, Succeed, TemporariesStay, sweepVars, colorVars
<1>4. GraphInv'
    BY DEF IInv, Succeed, GraphInv, Queued, Graphed, sweepVars, colorVars
<1> QED
    BY <1>1, <1>2, <1>3, <1>4 DEF IInv

LEMMA StutterStep == ASSUME IInv, UNCHANGED vars PROVE IInv'
<1>1. PlanInv'
    BY PlanKept DEF IInv, PlanInv, vars, planVars
<1>2. SegsInv'
    BY DEF IInv, SegsInv, Proper, vars, planVars
<1>3. SweepInv' /\ ColorInv' /\ TemporariesStay'
    BY SweepNextInv, ColorNextInv DEF IInv, TemporariesStay, vars, sweepVars, colorVars
<1>4. GraphInv'
    BY DEF IInv, vars, planVars, GraphInv, Queued, Graphed, sweepVars, colorVars
<1>5. TrackedInv'
    BY TrackedKept DEF IInv, vars, planVars
<1> QED
    BY <1>1, <1>2, <1>3, <1>4, <1>5 DEF IInv

LEMMA NextIInv == IInv /\ [Next]_vars => IInv'
BY AnalyseStep, RewriteStep, IntervalsStep, StartSweepStep, SweepStepInv, StartColoringStep,
   ColorStepInv, SpillRoundStep, SucceedStep, StutterStep DEF Next

LEMMA Invariance == Spec => []IInv
<1> QED
    BY InitIInv, NextIInv, PTL DEF Spec

-----------------------------------------------------------------------------

(* Registers, uops, segments, graph and colours keep their types, and no   *)
(* temporary of spill code ever leaves for the stack, however many rounds  *)
(* DoAssignment takes.                                                     *)
THEOREM TypeCorrect == Spec => []TypeOK
<1>1. ASSUME IInv PROVE TypeOK
  <2>1. ASSUME NEW b \in Blocks, NEW i \in DOMAIN view[b]
        PROVE  view[b][i].res \in 0 .. count /\ Reads(view[b][i]) \subseteq 1 .. count
    <3>1. count \in Nat /\ b \in 1 .. Len(view) /\ IsView(view, count)
        BY <1>1, PlanTypes DEF IInv, PlanInv
    <3>2. view[b][i] \in Uops(count)
        BY <3>1, BlocksOfView
    <3> QED
        BY <3>1, <3>2, UopFields
  <2> QED
      BY <1>1, <2>1 DEF IInv, PlanInv, SegsInv, SweepInv, ColorInv, TypeOK
<1> QED
    BY Invariance, <1>1, PTL

(* In the code that is emitted two values needed at one point of a block   *)
(* are in different machine registers, for every function, every shape of  *)
(* its graph and every number of rounds.                                   *)
THEOREM ValuesKeptApart == Spec => []KeptApart
<1>1. ASSUME IInv PROVE KeptApart
  <2> SUFFICES ASSUME phase = "done", NEW b \in Blocks, NEW i \in DOMAIN view[b],
                      NEW v \in LiveAfter(b, i) \ onStk, NEW w \in LiveAfter(b, i) \ onStk,
                      v /= w, Reliable(v), Reliable(w)
               PROVE  color[v] /= color[w]
      BY DEF KeptApart
  <2>1. /\ b \in 1 .. Len(view) /\ Len(view) \in Nat /\ i \in 1 .. Len(view[b])
        /\ v \in 1 .. count /\ w \in 1 .. count /\ v \in Vregs /\ w \in Vregs
    <3>1. b \in 1 .. Len(view) /\ Len(view) \in Nat /\ 1 .. count \subseteq Vregs
        BY <1>1, PlanTypes DEF IInv
    <3>2. DOMAIN view[b] = 1 .. Len(view[b])
        BY <1>1, <3>1, BlocksOfView DEF IInv, PlanInv
    <3> QED
        BY <3>1, <3>2 DEF LiveAfter
  <2> DEFINE p == First(b) + i - 1
  <2>2. LiveAt(segs[v], p) /\ LiveAt(segs[w], p)
    <3>1. block = Len(view) + 1 /\ Tracked(v, block) /\ Tracked(w, block)
        BY <1>1, <2>1 DEF IInv, TrackedInv, Analysed
    <3>2. b \in 1 .. block - 1
        BY <2>1, <3>1
    <3> QED
        BY <2>1, <3>1, <3>2 DEF Tracked
  <2>3. PICK s \in segs[v] : s[1] <= p /\ p < s[2]
      BY <2>2 DEF LiveAt
  <2>4. PICK t \in segs[w] : t[1] <= p /\ p < t[2]
      BY <2>2 DEF LiveAt
  <2> DEFINE sv == [bgn |-> s[1], end |-> s[2], owner |-> v]
             tw == [bgn |-> t[1], end |-> t[2], owner |-> w]
  <2>5. sv \in Queued /\ tw \in Queued
    <3>1. ASSUME NEW x \in (1 .. count) \ onStk, NEW r \in segs[x]
          PROVE  [bgn |-> r[1], end |-> r[2], owner |-> x] \in Queued
      <4> DEFINE Of(y) == {[bgn |-> q[1], end |-> q[2], owner |-> y] : q \in segs[y]}
      <4>1. [bgn |-> r[1], end |-> r[2], owner |-> x] \in Of(x)
          OBVIOUS
      <4>2. Queued = UNION {Of(y) : y \in (1 .. count) \ onStk}
          BY DEF Queued
      <4> HIDE DEF Of
      <4> QED
          BY <4>1, <4>2
    <3>2. v \in (1 .. count) \ onStk /\ w \in (1 .. count) \ onStk
        BY <2>1
    <3> QED
        BY <3>1, <3>2
  <2>6. Overlap(sv, tw)
    <3>1. s[1] \in Nat /\ s[2] \in Nat /\ t[1] \in Nat /\ t[2] \in Nat
        BY <1>1, <2>1 DEF IInv, SegsInv, Proper
    <3>2. p \in Int
        BY SMTT(30), <1>1, <2>1, FirstSteps DEF IInv, PlanInv
    <3> HIDE DEF p
    <3> QED
        BY <2>3, <2>4, <3>1, <3>2 DEF Overlap
  <2>7. sv /= tw /\ sv.owner = v /\ tw.owner = w
      OBVIOUS
  <2>8. conn = Conflicts(Queued)
      BY <1>1, SweepInvSuffices DEF IInv, GraphInv, EdgesAreOverlaps
  <2> HIDE DEF sv, tw
  <2>9. <<v, w>> \in conn
      BY <2>1, <2>5, <2>6, <2>7, <2>8 DEF Conflicts
  <2>10. graph = Graphed /\ outcome = "ok"
      BY <1>1 DEF IInv, GraphInv
  <2>11. v \in graph.nodes /\ w \in graph.adj[v]
      BY <2>1, <2>9, <2>10 DEF Graphed
  <2>12. color[v] /= NoColor
      BY <1>1, <2>10, <2>11 DEF IInv, ColorInv, OkMeansAllColored
  <2> QED
      BY <1>1, <2>11, <2>12 DEF IInv, ColorInv, ProperColoring
<1> QED
    BY Invariance, <1>1, PTL

(* A colouring that reports no spill has coloured every node, in whatever  *)
(* round it is: nothing of the rounds before is taken for an allocation.   *)
THEOREM OkIsComplete == Spec => []OkMeansAllColored
<1>1. IInv => OkMeansAllColored
    BY DEF IInv, ColorInv
<1> QED
    BY Invariance, <1>1, PTL

(* At every call, GenerateCallInfo is told of every value in a caller-saved *)
(* register that is needed after it, for every function and every number   *)
(* of rounds.                                                              *)
THEOREM CallsAreTold == Spec => []SavedAcrossCalls
<1>1. ASSUME IInv PROVE SavedAcrossCalls
  <2> SUFFICES ASSUME phase = "done", NEW b \in Blocks, NEW i \in DOMAIN view[b],
                      NEW v \in LiveAfter(b, i), Reliable(v)
               PROVE  LiveAt(segs[v], First(b) + i - 1)
      BY DEF SavedAcrossCalls
  <2>1. b \in 1 .. Len(view) /\ Len(view) \in Nat /\ 1 .. count \subseteq Vregs
      BY <1>1, PlanTypes DEF IInv
  <2>2. DOMAIN view[b] = 1 .. Len(view[b])
      BY <1>1, <2>1, BlocksOfView DEF IInv, PlanInv
  <2>3. v \in Vregs
      BY <2>1 DEF LiveAfter
  <2>4. block = Len(view) + 1 /\ Tracked(v, block)
      BY <1>1, <2>3 DEF IInv, TrackedInv, Analysed
  <2>5. b \in 1 .. block - 1
      BY <2>1, <2>4
  <2> QED
      BY <2>2, <2>4, <2>5 DEF Tracked
<1> QED
    BY Invariance, <1>1, PTL

-----------------------------------------------------------------------------
(* Spill code: one run of a block, uop by uop. *)

Running(a) ==
    /\ a = [reg |-> a.reg, mem |-> a.mem, read |-> a.read]
    /\ a.reg = [v \in Vregs |-> a.reg[v]]
    /\ a.mem = [v \in Vregs |-> a.mem[v]]

TraceSteps(r, uops, stk) ==
    /\ r[0] = Entry(stk)
    /\ Trace(uops, stk) = r[Len(uops)]
    /\ \A n \in 1 .. Len(uops) : r[n] = Executed(r[n - 1], uops[n], stk)

LEMMA TraceHasSteps ==
    ASSUME NEW U, NEW uops \in Seq(U), NEW stk
    PROVE  \E r : TraceSteps(r, uops, stk)
<1> DEFINE Step(x, n) == Executed(x, uops[n], stk)
           Rule(f, n) == [i \in 0 .. n |-> IF i = 0 THEN Entry(stk) ELSE Step(f[i - 1], i)]
           T == {n \in Nat : ~\E f : f = Rule(f, n)}
<1>1. Trace(uops, stk) = (CHOOSE f : f = Rule(f, Len(uops)))[Len(uops)]
    BY DEF Trace
<1> HIDE DEF Step
<1>2. 0 \notin T
  <2>1. [i \in 0 .. 0 |-> Entry(stk)] = Rule([i \in 0 .. 0 |-> Entry(stk)], 0)
      OBVIOUS
  <2> QED
      BY <2>1
<1>3. ASSUME NEW n \in Nat, n \notin T PROVE n + 1 \notin T
  <2>1. PICK f : f = Rule(f, n)
      BY <1>3
  <2> DEFINE g == [i \in 0 .. n + 1 |-> IF i = n + 1 THEN Step(f[i - 1], i) ELSE f[i]]
  <2>2. ASSUME NEW i \in 0 .. n + 1
        PROVE g[i] = IF i = 0 THEN Entry(stk) ELSE Step(g[i - 1], i)
    <3>1. CASE i = n + 1
        BY <3>1
    <3>2. CASE i \in 1 .. n
      <4>1. g[i] = f[i] /\ g[i - 1] = f[i - 1]
          BY <3>2
      <4>2. f[i] = Step(f[i - 1], i)
          BY <2>1, <3>2
      <4> QED
          BY <3>2, <4>1, <4>2
    <3>3. CASE i = 0
        BY <2>1, <3>3
    <3> QED
        BY <3>1, <3>2, <3>3
  <2>3. g = Rule(g, n + 1)
      BY <2>2
  <2> QED
      BY <2>3
<1>4. T = {}
  <2> HIDE DEF T
  <2>1. T \subseteq Nat
      BY DEF T
  <2> QED
      BY <1>2, <1>3, <2>1, Smallest
<1>5. Len(uops) \in Nat /\ \E f : f = Rule(f, Len(uops))
    BY <1>4
<1> DEFINE P == CHOOSE f : f = Rule(f, Len(uops))
<1>6. P = Rule(P, Len(uops))
    BY <1>5
<1>7. Trace(uops, stk) = P[Len(uops)]
    BY <1>1
<1> HIDE DEF P
<1>8. P[0] = Entry(stk) /\ \A n \in 1 .. Len(uops) : P[n] = Step(P[n - 1], n)
    BY <1>5, <1>6
<1> QED
    BY <1>7, <1>8 DEF Step, TraceSteps

LEMMA EntryIsRunning ==
    ASSUME NEW stk
    PROVE  /\ Running(Entry(stk)) /\ Entry(stk).read = <<>>
           /\ \A v \in Vregs : /\ v \notin stk => Entry(stk).reg[v] = v - MaxVregs - 1
                               /\ v \in stk => Entry(stk).mem[v] = v - MaxVregs - 1
BY DEF Entry, Running

(* One more uop. *)
LEMMA TraceOfOneMore ==
    ASSUME NEW U, NEW uops \in Seq(U), NEW u \in U, NEW stk
    PROVE  Trace(uops \o <<u>>, stk) = Executed(Trace(uops, stk), u, stk)
<1> DEFINE more == uops \o <<u>>
<1>1. /\ more \in Seq(U) /\ Len(more) = Len(uops) + 1 /\ Len(uops) \in Nat
      /\ \A n \in 1 .. Len(uops) : more[n] = uops[n]
      /\ more[Len(uops) + 1] = u
  <2>1. <<u>> \in Seq(U) /\ Len(<<u>>) = 1 /\ <<u>>[1] = u
      OBVIOUS
  <2>2. Len(uops) \in Nat
      OBVIOUS
  <2>3. /\ more \in Seq(U) /\ Len(more) = Len(uops) + 1
        /\ \A n \in 1 .. Len(uops) + 1 : more[n] = IF n <= Len(uops) THEN uops[n] ELSE <<u>>[n - Len(uops)]
      BY <2>1, ConcatProperties
  <2>4. more[Len(uops) + 1] = <<u>>[1]
    <3>1. Len(uops) + 1 \in 1 .. Len(uops) + 1 /\ ~(Len(uops) + 1 <= Len(uops)) /\ (Len(uops) + 1) - Len(uops) = 1
        BY <2>2
    <3> HIDE DEF more
    <3> QED
        BY <2>3, <3>1
  <2> HIDE DEF more
  <2> QED
      BY <2>1, <2>2, <2>3, <2>4
<1>2. PICK r : TraceSteps(r, uops, stk)
    BY TraceHasSteps
<1>3. PICK q : TraceSteps(q, more, stk)
    BY <1>1, TraceHasSteps
<1> HIDE DEF more
<1> DEFINE T == {n \in Nat : n <= Len(uops) /\ q[n] /= r[n]}
<1>4. 0 \notin T
    BY <1>2, <1>3 DEF TraceSteps
<1>5. ASSUME NEW n \in Nat, n \notin T PROVE n + 1 \notin T
  <2> SUFFICES ASSUME n + 1 <= Len(uops) PROVE q[n + 1] = r[n + 1]
      OBVIOUS
  <2>1. n + 1 \in 1 .. Len(uops) /\ n + 1 \in 1 .. Len(more) /\ (n + 1) - 1 = n /\ q[n] = r[n]
      BY <1>1, <1>5
  <2>2. more[n + 1] = uops[n + 1]
      BY <1>1, <2>1
  <2>3. q[n + 1] = Executed(q[n], more[n + 1], stk) /\ r[n + 1] = Executed(r[n], uops[n + 1], stk)
    <3>1. \A k \in 1 .. Len(more) : q[k] = Executed(q[k - 1], more[k], stk)
        BY <1>3 DEF TraceSteps
    <3>2. \A k \in 1 .. Len(uops) : r[k] = Executed(r[k - 1], uops[k], stk)
        BY <1>2 DEF TraceSteps
    <3> QED
        BY <2>1, <3>1, <3>2
  <2> QED
      BY <2>1, <2>2, <2>3
<1>6. T = {}
  <2> HIDE DEF T
  <2>1. T \subseteq Nat
      BY DEF T
  <2> QED
      BY <1>4, <1>5, <2>1, Smallest
<1>7. q[Len(uops)] = r[Len(uops)]
    BY <1>1, <1>6
<1>8. q[Len(uops) + 1] = Executed(q[Len(uops)], u, stk)
  <2>1. \A k \in 1 .. Len(more) : q[k] = Executed(q[k - 1], more[k], stk)
      BY <1>3 DEF TraceSteps
  <2>2. Len(uops) + 1 \in 1 .. Len(more) /\ (Len(uops) + 1) - 1 = Len(uops)
      BY <1>1
  <2> QED
      BY <1>1, <2>1, <2>2
<1> QED
    BY <1>1, <1>2, <1>3, <1>7, <1>8 DEF TraceSteps, more

(* What one uop does to registers, slots and the record of reads.          *)
Number(a) == Len(a.read) + 1

Given(a, u) == a.reg[u.ops[1]]

(* The machine e after u, from a: a reload, a spill, any other uop.        *)
Reloaded(a, u, e) ==
    /\ Running(e) /\ e.mem = a.mem /\ e.read = a.read
    /\ \A v \in Vregs : e.reg[v] = IF v = u.res THEN a.mem[u.slot] ELSE a.reg[v]

Spilled(a, u, e) ==
    /\ Running(e) /\ e.reg = a.reg /\ e.read = a.read
    /\ \A v \in Vregs : e.mem[v] = IF v = u.slot THEN Given(a, u) ELSE a.mem[v]

Computed(a, u, stk, e) ==
    /\ Running(e) /\ e.mem = a.mem
    /\ e.read = Append(a.read, Operands(a, u, stk))
    /\ \A v \in Vregs : e.reg[v] = IF v = u.res THEN Number(a) ELSE a.reg[v]

LEMMA ReloadRuns ==
    ASSUME NEW a, Running(a), NEW u, u.kind = "reload", NEW stk
    PROVE  Reloaded(a, u, Executed(a, u, stk))
<1>1. Executed(a, u, stk) = [a EXCEPT !.reg[u.res] = a.mem[u.slot]]
    BY DEF Executed
<1>2. Executed(a, u, stk) = [reg |-> [a.reg EXCEPT ![u.res] = a.mem[u.slot]], mem |-> a.mem, read |-> a.read]
    BY <1>1 DEF Running
<1> QED
    BY <1>2 DEF Running, Reloaded

LEMMA SpillRuns ==
    ASSUME NEW a, Running(a), NEW u, u.kind = "spill", NEW stk
    PROVE  Spilled(a, u, Executed(a, u, stk))
<1>1. Executed(a, u, stk) = [a EXCEPT !.mem[u.slot] = a.reg[u.ops[1]]]
    BY DEF Executed
<1>2. Executed(a, u, stk) = [reg |-> a.reg, mem |-> [a.mem EXCEPT ![u.slot] = Given(a, u)], read |-> a.read]
    BY <1>1 DEF Running, Given
<1> QED
    BY <1>2 DEF Running, Spilled

LEMMA OtherRuns ==
    ASSUME NEW a, Running(a), NEW u, u.kind \notin {"reload", "spill"}, NEW stk
    PROVE  Computed(a, u, stk, Executed(a, u, stk))
<1>1. Executed(a, u, stk) = [reg  |-> [v \in Vregs |-> IF v = u.res THEN Number(a) ELSE a.reg[v]],
                             mem  |-> a.mem,
                             read |-> Append(a.read, Operands(a, u, stk))]
    BY DEF Executed, Number
<1> QED
    BY <1>1 DEF Running, Computed

-----------------------------------------------------------------------------
(* Spill code: a block and what Rewrite makes of it, side by side. *)

(* Registers on the stack since before S appear in u only as its slot or    *)
(* as parameters of a call; what spill code uses itself is in K.           *)
Placed(u, S, K) ==
    /\ u.kind = "op" => Reads(u) \cap S = {} /\ u.res \notin S
    /\ u.kind = "call" => u.res \notin S
    /\ u.kind = "reload" => u.ops = <<>> /\ u.slot \in S /\ u.res \in K
    /\ u.kind = "spill" => Len(u.ops) = 1 /\ u.slot \in S /\ u.ops[1] \in K

LEMMA FreshRegs ==
    ASSUME count \in Nat, IsView(view, count), NEW b \in 1 .. Len(view), NEW i \in 1 .. Len(view[b])
    PROVE  /\ \A j \in Fresh(view[b][i]) : NewReg(b, i, j) \in count + 1 .. count + Cardinality(New)
           /\ \A j, k \in Fresh(view[b][i]) : j /= k => NewReg(b, i, j) /= NewReg(b, i, k)
<1> DEFINE u == view[b][i]
<1>1. Len(u.ops) \in Nat /\ DOMAIN u.ops = 1 .. Len(u.ops)
  <2>1. u \in Uops(count)
      BY BlocksOfView
  <2> QED
      BY <2>1, UopFields
<1>2. b \in Nat /\ i \in Nat /\ b \in Blocks /\ i \in DOMAIN view[b]
    BY BlocksOfView DEF Blocks
<1>3. \A j \in Fresh(u) : j \in Nat /\ <<b, i, j>> \in New
    BY FreshIsNew
<1>4. \A j \in Fresh(u) : NewReg(b, i, j) \in count + 1 .. count + Cardinality(New)
    BY <1>2, <1>3, NewRegs
<1>5. ASSUME NEW j \in Fresh(u), NEW k \in Fresh(u), j < k PROVE NewReg(b, i, j) /= NewReg(b, i, k)
  <2>1. NewReg(b, i, j) < NewReg(b, i, k)
      BY <1>2, <1>3, <1>5, NewRegs
  <2>2. NewReg(b, i, j) \in Int /\ NewReg(b, i, k) \in Int
      BY <1>4
  <2> QED
      BY <2>1, <2>2
<1>6. \A j, k \in Fresh(u) : j /= k => j < k \/ k < j
  <2>1. \A j, k \in Nat : j /= k => j < k \/ k < j
      OBVIOUS
  <2> HIDE DEF u
  <2> QED
      BY <1>3, <2>1
<1> HIDE DEF u
<1>7. \A j, k \in Fresh(u) : j /= k => NewReg(b, i, j) /= NewReg(b, i, k)
    BY <1>5, <1>6
<1> QED
    BY <1>4, <1>7 DEF u

(* After the loads the copies hold what is in the slots, and nothing else  *)
(* has changed.                                                            *)
AfterLoads(e, a, b, i, n) ==
    /\ Running(e)
    /\ e.mem = a.mem /\ e.read = a.read
    /\ \A v \in 1 .. count : e.reg[v] = a.reg[v]
    /\ \A j \in Loaded(view[b][i]) : j <= n => e.reg[NewReg(b, i, j)] = a.mem[view[b][i].ops[j]]

LEMMA LoadsRun ==
    ASSUME count \in Nat, IsView(view, count), NEW b \in 1 .. Len(view), NEW i \in 1 .. Len(view[b]),
           MaxVregs \in Nat, Vregs = 1 .. MaxVregs, count + Cardinality(New) <= MaxVregs,
           NEW U, NEW p \in Seq(U), LoadsOf(b, i) \in Seq(Seq(U)), NEW stk, Running(Trace(p, stk))
    PROVE  AfterLoads(Trace(p \o FlattenSeq(LoadsOf(b, i)), stk), Trace(p, stk), b, i, Len(view[b][i].ops))
<1> DEFINE u == view[b][i]
           loads == LoadsOf(b, i)
           a == Trace(p, stk)
<1>1. Len(u.ops) \in Nat /\ DOMAIN u.ops = 1 .. Len(u.ops)
  <2>1. u \in Uops(count)
      BY BlocksOfView
  <2> QED
      BY <2>1, UopFields
<1>2. /\ loads \in Seq(Seq(U)) /\ Len(loads) = Len(u.ops)
      /\ \A j \in 1 .. Len(u.ops) : loads[j] = IF j \in Loaded(u) THEN <<LoadOf(b, i, j)>> ELSE <<>>
    BY <1>1 DEF LoadsOf
<1>3. /\ Cardinality(New) \in Nat /\ 1 .. count \subseteq Vregs
      /\ \A j \in Loaded(u) : NewReg(b, i, j) \in Vregs /\ NewReg(b, i, j) \notin 1 .. count
      /\ \A j, k \in Loaded(u) : j /= k => NewReg(b, i, j) /= NewReg(b, i, k)
  <2>1. Cardinality(New) \in Nat
      BY NewIsFinite, FS_CardinalityType
  <2>2. Loaded(u) \subseteq Fresh(u)
      BY DEF Fresh
  <2>3. \A x \in count + 1 .. count + Cardinality(New) : x \in Vregs /\ x \notin 1 .. count
      BY <2>1
  <2> QED
      BY SMTT(30), <2>1, <2>2, <2>3, FreshRegs
<1>4. PICK g : FlattenSteps(g, loads)
    BY FlattenSeqSteps
<1> HIDE DEF loads, a
<1> DEFINE Good(n) == g[n] \in Seq(U) /\ AfterLoads(Trace(p \o g[n], stk), a, b, i, n)
           T == {n \in Nat : n <= Len(loads) /\ ~Good(n)}
<1>5. Good(0)
  <2>1. g[0] = <<>> /\ p \o <<>> = p
      BY <1>4, ConcatEmptySeq DEF FlattenSteps
  <2>2. \A j \in Loaded(u) : ~(j <= 0)
      BY <1>1 DEF Loaded
  <2>3. Running(a) /\ Trace(p \o g[0], stk) = a
      BY <2>1 DEF a
  <2> QED
      BY <2>1, <2>2, <2>3 DEF AfterLoads
<1>6. ASSUME NEW n \in Nat, n + 1 <= Len(loads), Good(n) PROVE Good(n + 1)
  <2>1. n + 1 \in 1 .. Len(loads) /\ (n + 1) - 1 = n
      BY <1>6
  <2>2. g[n + 1] = g[n] \o loads[n + 1]
    <3>1. \A k \in 1 .. Len(loads) : g[k] = g[k - 1] \o loads[k]
        BY <1>4 DEF FlattenSteps
    <3> QED
        BY <2>1, <3>1, Zenon
  <2>3. CASE n + 1 \notin Loaded(u)
    <3>1. g[n + 1] = g[n]
        BY <1>2, <1>6, <2>1, <2>2, <2>3, ConcatEmptySeq
    <3>2. \A j \in Loaded(u) : j <= n + 1 => j <= n
        BY SMTT(30), <1>1, <2>3 DEF Loaded
    <3> QED
        BY <1>6, <3>1, <3>2 DEF AfterLoads
  <2>4. CASE n + 1 \in Loaded(u)
    <3> DEFINE x == LoadOf(b, i, n + 1)
               e == Trace(p \o g[n], stk)
               h == Trace(p \o g[n + 1], stk)
    <3>1. loads[n + 1] = <<x>>
        BY <1>2, <2>1, <2>4
    <3>2. x \in U /\ <<x>> \in Seq(U)
      <4>1. loads[n + 1] \in Seq(U)
          BY SMTT(30), <1>2, <2>1
      <4>2. Len(<<x>>) = 1 /\ <<x>>[1] = x /\ <<x>> \in Seq(U)
          BY <3>1, <4>1
      <4> QED
          BY <4>2
    <3>3. p \o g[n + 1] = (p \o g[n]) \o <<x>> /\ p \o g[n] \in Seq(U) /\ g[n + 1] \in Seq(U)
      <4>1. g[n] \in Seq(U) /\ g[n + 1] = g[n] \o <<x>>
          BY <1>6, <2>2, <3>1
      <4> HIDE DEF x
      <4>2. p \o (g[n] \o <<x>>) = (p \o g[n]) \o <<x>>
        <5> DEFINE r == <<x>>
        <5>1. g[n] \in Seq(U) /\ r \in Seq(U) /\ p \in Seq(U)
            BY <3>2, <4>1
        <5> HIDE DEF r
        <5>2. Cat(Cat(p, g[n]), r) = Cat(p, Cat(g[n], r))
            BY <5>1, ThreeConcatenated
        <5> QED
            BY <5>2 DEF Cat, r
      <4>3. p \o g[n] \in Seq(U) /\ g[n] \o <<x>> \in Seq(U)
          BY <3>2, <4>1, ConcatProperties
      <4> QED
          BY <4>1, <4>2, <4>3
    <3>4. h = Executed(e, x, stk)
        BY <3>2, <3>3, TraceOfOneMore
    <3>5. x.kind = "reload" /\ x.res = NewReg(b, i, n + 1) /\ x.slot = u.ops[n + 1]
        BY DEF LoadOf, Uop
    <3> HIDE DEF x, e, h
    <3>6. AfterLoads(e, a, b, i, n)
        BY <1>6 DEF e
    <3>7. /\ Running(h) /\ h.mem = e.mem /\ h.read = e.read
          /\ \A v \in Vregs : h.reg[v] = IF v = x.res THEN e.mem[x.slot] ELSE e.reg[v]
      <4>1. Running(e)
          BY <3>6 DEF AfterLoads
      <4>2. Reloaded(e, x, h)
          BY <3>4, <3>5, <4>1, ReloadRuns
      <4> QED
          BY <4>2 DEF Reloaded
    <3>8. ASSUME NEW v \in 1 .. count PROVE h.reg[v] = a.reg[v]
      <4>1. v \in Vregs /\ v /= x.res
          BY <1>3, <2>4, <3>5
      <4>2. e.reg[v] = a.reg[v]
          BY <3>6 DEF AfterLoads
      <4> QED
          BY <3>7, <4>1, <4>2
    <3>9. ASSUME NEW j \in Loaded(u), j <= n + 1 PROVE h.reg[NewReg(b, i, j)] = a.mem[u.ops[j]]
      <4>1. CASE j = n + 1
        <5>1. x.res \in Vregs /\ x.res = NewReg(b, i, j)
            BY <1>3, <2>4, <3>5, <4>1
        <5>2. e.mem = a.mem
            BY <3>6 DEF AfterLoads
        <5> QED
            BY <3>5, <3>7, <4>1, <5>1, <5>2
      <4>2. CASE j /= n + 1
        <5>1. j <= n
            BY SMTT(30), <1>1, <3>9, <4>2 DEF Loaded
        <5>2. e.reg[NewReg(b, i, j)] = a.mem[u.ops[j]]
            BY <3>6, <5>1 DEF AfterLoads
        <5>3. NewReg(b, i, j) \in Vregs /\ NewReg(b, i, j) /= x.res
            BY <1>3, <2>4, <3>5, <4>2
        <5> QED
            BY <3>7, <5>2, <5>3
      <4> QED
          BY <4>1, <4>2
    <3>10. AfterLoads(h, a, b, i, n + 1)
        BY <3>6, <3>7, <3>8, <3>9 DEF AfterLoads
    <3> QED
        BY <3>3, <3>10 DEF h
  <2> QED
      BY <2>3, <2>4
<1> HIDE DEF Good
<1>7. T = {}
  <2>1. 0 \notin T /\ \A n \in Nat : n \notin T => n + 1 \notin T
      BY <1>5, <1>6
  <2>2. T \subseteq Nat
      OBVIOUS
  <2> HIDE DEF T
  <2> QED
      BY <2>1, <2>2, Smallest
<1>8. Good(Len(loads)) /\ FlattenSeq(loads) = g[Len(loads)]
  <2>1. Len(loads) \in Nat /\ Len(loads) <= Len(loads) /\ Len(loads) \notin T
    <3>1. Len(loads) \in Nat
        BY <1>1, <1>2
    <3> HIDE DEF T
    <3> QED
        BY <1>7, <3>1
  <2> QED
      BY <1>4, <2>1 DEF FlattenSteps
<1> QED
    BY <1>2, <1>8 DEF Good, a, loads

(* a is a run of the block as it was, with S on the stack, and c one of    *)
(* the block with spill code: every value is where it belongs.             *)
Like(a, c, S) ==
    /\ Running(a) /\ Running(c)
    /\ c.read = a.read
    /\ \A v \in (1 .. count) \ onStk : c.reg[v] = a.reg[v]
    /\ \A v \in onStk \ S : c.mem[v] = a.reg[v]
    /\ \A v \in S : c.mem[v] = a.mem[v]

(* A uop of spill code stays as it is. *)
LEMMA SpillCodeStays ==
    ASSUME count \in Nat, onStk \subseteq 1 .. count, IsView(view, count),
           NEW b \in 1 .. Len(view), NEW i \in 1 .. Len(view[b]),
           view[b][i].kind \in {"reload", "spill"}
    PROVE  Expanded(b, i) = <<view[b][i]>>
<1> DEFINE u == view[b][i]
           loads == LoadsOf(b, i)
<1>1. /\ u \in [kind : {"op", "call", "reload", "spill"}, ops : Seq(1 .. count), res : 0 .. count, slot : 0 .. count]
      /\ u.ops \in Seq(1 .. count) /\ Len(u.ops) \in Nat /\ DOMAIN u.ops = 1 .. Len(u.ops)
  <2>1. u \in Uops(count)
      BY BlocksOfView
  <2> QED
      BY <2>1, UopFields DEF Uops
<1>2. Loaded(u) = {} /\ ~Stored(u)
    BY DEF Loaded, Stored
<1>3. MainOf(b, i) = u /\ StoreOf(b, i) = <<>>
  <2>1. CopiesOf(b, i) = [j \in DOMAIN u.ops |-> u.ops[j]]
      BY <1>2 DEF CopiesOf
  <2>2. CopiesOf(b, i) = u.ops
    <3> DEFINE q == u.ops
    <3>1. q \in Seq(1 .. count)
        BY <1>1
    <3> HIDE DEF q
    <3>2. q \in [1 .. Len(q) -> 1 .. count]
        BY <3>1
    <3>3. q = [j \in DOMAIN q |-> q[j]]
        BY <3>2
    <3> QED
        BY <2>1, <3>3 DEF q
  <2>3. StoreOf(b, i) = <<>>
      BY <1>2 DEF StoreOf
  <2>4. MainOf(b, i) = Uop(u.kind, u.ops, u.res, u.slot)
      BY <1>2, <2>2 DEF MainOf
  <2>5. Uop(u.kind, u.ops, u.res, u.slot) = u
      BY <1>1 DEF Uop
  <2> QED
      BY <2>3, <2>4, <2>5
<1>4. loads \in Seq(Seq({u})) /\ Len(loads) = Len(u.ops) /\ \A j \in 1 .. Len(u.ops) : loads[j] = <<>>
  <2>1. \A j \in 1 .. Len(u.ops) : loads[j] = <<>> /\ loads[j] \in Seq({u})
      BY <1>1, <1>2 DEF LoadsOf
  <2>2. loads \in [1 .. Len(u.ops) -> Seq({u})]
      BY <1>1, <2>1 DEF LoadsOf
  <2> HIDE DEF loads, u
  <2> QED
      BY <1>1, <2>1, <2>2, FunctionIsSeq
<1> HIDE DEF loads
<1>5. PICK g : FlattenSteps(g, loads)
    BY <1>4, FlattenSeqSteps
<1> DEFINE T == {n \in Nat : n <= Len(loads) /\ g[n] /= <<>>}
<1>6. 0 \notin T
    BY <1>5 DEF FlattenSteps
<1>7. ASSUME NEW n \in Nat, n \notin T PROVE n + 1 \notin T
  <2> SUFFICES ASSUME n + 1 <= Len(loads) PROVE g[n + 1] = <<>>
      OBVIOUS
  <2>1. n + 1 \in 1 .. Len(loads) /\ (n + 1) - 1 = n /\ g[n] = <<>>
    <3>1. Len(loads) \in Nat /\ n <= Len(loads)
        BY <1>1, <1>4
    <3> QED
        BY <1>7, <3>1
  <2>2. g[n + 1] = g[n] \o loads[n + 1]
    <3>1. \A k \in 1 .. Len(loads) : g[k] = g[k - 1] \o loads[k]
        BY <1>5 DEF FlattenSteps
    <3> QED
        BY <2>1, <3>1, Zenon
  <2>3. loads[n + 1] = <<>>
      BY <1>4, <2>1
  <2> QED
      BY <2>1, <2>2, <2>3
<1>8. T = {}
  <2> HIDE DEF T
  <2>1. T \subseteq Nat
      BY DEF T
  <2> QED
      BY <1>6, <1>7, <2>1, Smallest
<1>9. FlattenSeq(loads) = <<>>
  <2>1. Len(loads) \in Nat /\ Len(loads) \notin T
      BY <1>1, <1>4, <1>8
  <2> QED
      BY <1>5, <2>1 DEF FlattenSteps
<1>10. Expanded(b, i) = FlattenSeq(loads) \o <<MainOf(b, i)>> \o StoreOf(b, i)
    BY ExpandedParts DEF loads
<1> HIDE DEF u
<1>11. Expanded(b, i) = (<<>> \o <<u>>) \o <<>>
    BY <1>3, <1>9, <1>10
<1>12. (<<>> \o <<u>>) \o <<>> = <<u>>
  <2>1. <<u>> \in Seq({u})
      OBVIOUS
  <2> DEFINE q == <<u>>
  <2> HIDE DEF q
  <2>2. q \in Seq({u})
      BY <2>1 DEF q
  <2>3. (<<>> \o q) \o <<>> = q
      BY <2>2, ConcatEmptySeq
  <2> QED
      BY <2>3 DEF q
<1> QED
    BY <1>11, <1>12 DEF u

LEMMA SpillCodeSimulated ==
    ASSUME count \in Nat, onStk \subseteq 1 .. count, IsView(view, count),
           MaxVregs \in Nat, Vregs = 1 .. MaxVregs, count + Cardinality(New) <= MaxVregs,
           NEW b \in 1 .. Len(view), NEW i \in 1 .. Len(view[b]),
           view[b][i].kind \in {"reload", "spill"},
           NEW S \in SUBSET onStk, keep \subseteq (1 .. count) \ onStk, Placed(view[b][i], S, keep),
           NEW p \in Seq(Uops(count + Cardinality(New))), NEW a, Like(a, Trace(p, onStk), S)
    PROVE  Like(Executed(a, view[b][i], S), Trace(p \o Expanded(b, i), onStk), S)
<1> DEFINE u == view[b][i]
           c == Trace(p, onStk)
           a1 == Executed(a, u, S)
           c1 == Executed(c, u, onStk)
<1>1. u \in Uops(count + Cardinality(New)) /\ u \in Uops(count) /\ Cardinality(New) \in Nat
  <2>1. u \in Uops(count)
      BY BlocksOfView
  <2>2. Cardinality(New) \in Nat
      BY NewIsFinite, FS_CardinalityType
  <2>3. count + Cardinality(New) \in Nat /\ count <= count + Cardinality(New)
      BY <2>2
  <2> QED
      BY <2>1, <2>2, <2>3, UopsGrow
<1>2. Trace(p \o Expanded(b, i), onStk) = c1
    BY <1>1, SpillCodeStays, TraceOfOneMore
<1>3. 1 .. count \subseteq Vregs /\ S \subseteq Vregs /\ keep \subseteq Vregs
    BY <1>1
<1>4. u.kind \in {"reload", "spill"} /\ Placed(u, S, keep) /\ Like(a, c, S)
    OBVIOUS
<1> HIDE DEF u, c
<1>5. CASE u.kind = "reload"
  <2>1. /\ Running(a1) /\ a1.mem = a.mem /\ a1.read = a.read
        /\ \A v \in Vregs : a1.reg[v] = IF v = u.res THEN a.mem[u.slot] ELSE a.reg[v]
    <3>1. Running(a)
        BY <1>4 DEF Like
    <3>2. Reloaded(a, u, a1)
        BY <1>5, <3>1, ReloadRuns
    <3> QED
        BY <3>2 DEF Reloaded
  <2>2. /\ Running(c1) /\ c1.mem = c.mem /\ c1.read = c.read
        /\ \A v \in Vregs : c1.reg[v] = IF v = u.res THEN c.mem[u.slot] ELSE c.reg[v]
    <3>1. Running(c)
        BY <1>4 DEF Like
    <3>2. Reloaded(c, u, c1)
        BY <1>5, <3>1, ReloadRuns
    <3> QED
        BY <3>2 DEF Reloaded
  <2>3. u.slot \in S /\ u.res \in keep /\ c.mem[u.slot] = a.mem[u.slot]
      BY <1>4, <1>5 DEF Placed, Like
  <2> HIDE DEF a1, c1
  <2>4. ASSUME NEW v \in (1 .. count) \ onStk PROVE c1.reg[v] = a1.reg[v]
    <3>1. v \in Vregs /\ c.reg[v] = a.reg[v]
        BY <1>3, <1>4 DEF Like
    <3> QED
        BY <2>1, <2>2, <2>3, <3>1
  <2>5. ASSUME NEW v \in onStk \ S PROVE c1.mem[v] = a1.reg[v]
    <3>1. v \in Vregs /\ v /= u.res /\ c.mem[v] = a.reg[v]
        BY <1>3, <1>4, <2>3 DEF Like
    <3> QED
        BY <2>1, <2>2, <3>1
  <2>6. Like(a1, c1, S)
      BY <1>4, <2>1, <2>2, <2>4, <2>5 DEF Like
  <2> QED
      BY <1>2, <2>6 DEF a1, c1, u, c
<1>6. CASE u.kind = "spill"
  <2>1. /\ Running(a1) /\ a1.reg = a.reg /\ a1.read = a.read
        /\ \A v \in Vregs : a1.mem[v] = IF v = u.slot THEN Given(a, u) ELSE a.mem[v]
    <3>1. Running(a)
        BY <1>4 DEF Like
    <3>2. Spilled(a, u, a1)
        BY <1>6, <3>1, SpillRuns
    <3> QED
        BY <3>2 DEF Spilled
  <2>2. /\ Running(c1) /\ c1.reg = c.reg /\ c1.read = c.read
        /\ \A v \in Vregs : c1.mem[v] = IF v = u.slot THEN Given(c, u) ELSE c.mem[v]
    <3>1. Running(c)
        BY <1>4 DEF Like
    <3>2. Spilled(c, u, c1)
        BY <1>6, <3>1, SpillRuns
    <3> QED
        BY <3>2 DEF Spilled
  <2>3. u.slot \in S /\ u.ops[1] \in keep
      BY <1>4, <1>6 DEF Placed
  <2>4. Given(c, u) = Given(a, u)
      BY <1>4, <2>3 DEF Like, Given
  <2> HIDE DEF a1, c1
  <2>5. \A v \in S : c1.mem[v] = a1.mem[v]
      BY <1>3, <1>4, <2>1, <2>2, <2>4 DEF Like
  <2>6. \A v \in onStk \ S : c1.mem[v] = a1.reg[v]
      BY <1>3, <1>4, <2>1, <2>2, <2>3 DEF Like
  <2>7. Like(a1, c1, S)
      BY <1>4, <2>1, <2>2, <2>5, <2>6 DEF Like
  <2> QED
      BY <1>2, <2>7 DEF a1, c1, u, c
<1> QED
    BY <1>4, <1>5, <1>6

(* A uop of the function reads the same values and leaves its result where *)
(* later uops will look for it.                                            *)
LEMMA OriginalSimulated ==
    ASSUME count \in Nat, onStk \subseteq 1 .. count, IsView(view, count),
           MaxVregs \in Nat, Vregs = 1 .. MaxVregs, count + Cardinality(New) <= MaxVregs,
           NEW b \in 1 .. Len(view), NEW i \in 1 .. Len(view[b]),
           view[b][i].kind \in {"op", "call"},
           NEW S \in SUBSET onStk, Placed(view[b][i], S, keep),
           NEW p \in Seq(Uops(count + Cardinality(New))), NEW a, Like(a, Trace(p, onStk), S)
    PROVE  Like(Executed(a, view[b][i], S), Trace(p \o Expanded(b, i), onStk), S)
<1> DEFINE m == count + Cardinality(New)
           u == view[b][i]
           loads == LoadsOf(b, i)
           main == MainOf(b, i)
           store == StoreOf(b, i)
           fresh == StoredCopy(b, i)
           c == Trace(p, onStk)
           p1 == p \o FlattenSeq(loads)
           c1 == Trace(p1, onStk)
           p2 == p1 \o <<main>>
           c2 == Trace(p2, onStk)
           c3 == Trace(p2 \o store, onStk)
           a1 == Executed(a, u, S)
<1>1. /\ Len(u.ops) \in Nat /\ DOMAIN u.ops = 1 .. Len(u.ops)
      /\ \A j \in DOMAIN u.ops : u.ops[j] \in 1 .. count
      /\ u.res \in 0 .. count
  <2>1. u \in Uops(count)
      BY BlocksOfView
  <2> QED
      BY <2>1, UopFields
<1>2. /\ loads \in Seq(Seq(Uops(m))) /\ main \in Uops(m) /\ store \in Seq(Uops(m))
      /\ Expanded(b, i) = FlattenSeq(loads) \o <<main>> \o store
    BY ExpandedParts
<1>3. Trace(p \o Expanded(b, i), onStk) = c3
  <2> DEFINE x == FlattenSeq(loads)
             y == <<main>>
             U == Uops(m)
  <2>1. x \in Seq(U) /\ y \in Seq(U) /\ store \in Seq(U)
      BY <1>2, FlattenType
  <2>2. Expanded(b, i) = Cat(Cat(x, y), store) /\ p2 \o store = Cat(Cat(Cat(p, x), y), store)
      BY <1>2 DEF Cat
  <2>3. p \o Expanded(b, i) = Cat(p, Expanded(b, i))
      BY DEF Cat
  <2> HIDE DEF x, y, p2, store, U
  <2>4. p \in Seq(U)
      BY DEF U
  <2>5. Cat(p, Cat(Cat(x, y), store)) = Cat(Cat(Cat(p, x), y), store)
      BY <2>1, <2>4, FourConcatenated
  <2> QED
      BY <2>2, <2>3, <2>5
<1>4. /\ 1 .. count \subseteq Vregs /\ S \subseteq 1 .. count
      /\ \A j \in Loaded(u) : NewReg(b, i, j) \in Vregs
      /\ Stored(u) => fresh \in Vregs /\ fresh \notin 1 .. count
  <2>1. Cardinality(New) \in Nat
      BY NewIsFinite, FS_CardinalityType
  <2>2. \A x \in count + 1 .. count + Cardinality(New) : x \in Vregs /\ x \notin 1 .. count
      BY <2>1
  <2>3. Loaded(u) \subseteq Fresh(u) /\ (Stored(u) => Len(u.ops) + 1 \in Fresh(u))
      BY DEF Fresh
  <2>4. \A j \in Fresh(u) : NewReg(b, i, j) \in count + 1 .. count + Cardinality(New)
      BY FreshRegs
  <2>5. Stored(u) => fresh \in Vregs /\ fresh \notin 1 .. count
      BY <2>2, <2>3, <2>4 DEF StoredCopy
  <2>6. 1 .. count \subseteq Vregs
      BY <2>1
  <2> QED
      BY <2>2, <2>3, <2>4, <2>5, <2>6
<1>5. Placed(u, S, keep) /\ Like(a, c, S) /\ u.kind \in {"op", "call"}
    OBVIOUS
<1>6. AfterLoads(c1, c, b, i, Len(u.ops))
    BY <1>2, <1>5, LoadsRun DEF Like
<1>7. c2 = Executed(c1, main, onStk)
  <2>1. p1 \in Seq(Uops(m))
      BY <1>2, FlattenType, ConcatProperties
  <2> HIDE DEF p1, main
  <2> QED
      BY <1>2, <2>1, TraceOfOneMore
<1>8. /\ main.kind = u.kind /\ main.ops = CopiesOf(b, i)
      /\ main.res = IF Stored(u) THEN fresh ELSE u.res
    BY DEF MainOf, Uop
<1>9. store = IF Stored(u) THEN <<Uop("spill", <<fresh>>, 0, u.res)>> ELSE <<>>
    BY DEF StoreOf
<1>10. /\ DOMAIN main.ops = DOMAIN u.ops
       /\ \A j \in DOMAIN u.ops : main.ops[j] = IF j \in Loaded(u) THEN NewReg(b, i, j) ELSE u.ops[j]
    BY <1>8 DEF CopiesOf
<1>11. \A j \in Loaded(u) : j \in DOMAIN u.ops /\ j <= Len(u.ops) /\ u.kind = "op" /\ u.ops[j] \in onStk \ S
    BY SMTT(30), <1>1, <1>5 DEF Loaded, Placed, Reads
<1>12. p2 \in Seq(Uops(m)) /\ m \in Nat
  <2>1. Cardinality(New) \in Nat
      BY NewIsFinite, FS_CardinalityType
  <2>2. p1 \in Seq(Uops(m)) /\ <<main>> \in Seq(Uops(m))
      BY <1>2, FlattenType, ConcatProperties
  <2> HIDE DEF p1
  <2> QED
      BY <2>1, <2>2, ConcatProperties
<1> HIDE DEF u, loads, main, store, fresh, c, p1, c1, p2, c2, c3, a1
<1>13. Operands(c1, main, onStk) = Operands(a, u, S)
  <2>1. ASSUME NEW j \in DOMAIN u.ops
        PROVE (IF main.kind = "call" /\ main.ops[j] \in onStk THEN c1.mem[main.ops[j]] ELSE c1.reg[main.ops[j]]) =
              (IF u.kind = "call" /\ u.ops[j] \in S THEN a.mem[u.ops[j]] ELSE a.reg[u.ops[j]])
    <3>1. CASE j \in Loaded(u)
      <4>1. u.kind = "op" /\ main.ops[j] = NewReg(b, i, j) /\ main.kind = "op" /\ u.ops[j] \in onStk \ S
          BY <1>8, <1>10, <1>11, <3>1
      <4>2. c1.reg[NewReg(b, i, j)] = c.mem[u.ops[j]]
          BY <1>6, <1>11, <3>1 DEF AfterLoads, u
      <4>3. c.mem[u.ops[j]] = a.reg[u.ops[j]]
          BY <1>5, <4>1 DEF Like
      <4> QED
          BY <4>1, <4>2, <4>3
    <3>2. CASE j \notin Loaded(u)
      <4>1. main.ops[j] = u.ops[j] /\ u.ops[j] \in 1 .. count /\ main.kind = u.kind
          BY <1>1, <1>8, <1>10, <3>2
      <4>2. CASE u.ops[j] \in onStk
        <5>1. u.kind = "call" /\ main.kind = "call"
            BY <1>5, <1>8, <3>2, <4>2 DEF Loaded
        <5>2. c1.mem[u.ops[j]] = c.mem[u.ops[j]]
            BY <1>6 DEF AfterLoads
        <5> QED
            BY <1>5, <4>1, <4>2, <5>1, <5>2 DEF Like
      <4>3. CASE u.ops[j] \notin onStk
        <5>1. c1.reg[u.ops[j]] = c.reg[u.ops[j]] /\ c.reg[u.ops[j]] = a.reg[u.ops[j]]
            BY <1>5, <1>6, <4>1, <4>3 DEF AfterLoads, Like
        <5> QED
            BY <4>1, <4>3, <5>1
      <4> QED
          BY <4>2, <4>3
    <3> QED
        BY <3>1, <3>2
  <2> QED
      BY <1>10, <2>1 DEF Operands
<1>14. /\ Running(c2) /\ c2.mem = c.mem
       /\ c2.read = Append(c.read, Operands(a, u, S))
       /\ \A v \in Vregs : c2.reg[v] = IF v = main.res THEN Number(c) ELSE c1.reg[v]
  <2>1. Running(c1) /\ main.kind \notin {"reload", "spill"} /\ c1.mem = c.mem /\ c1.read = c.read
      BY <1>5, <1>6, <1>8 DEF AfterLoads
  <2> HIDE DEF c1, main, c2
  <2>2. Computed(c1, main, onStk, c2)
      BY <1>7, <2>1, OtherRuns
  <2> QED
      BY <1>13, <2>1, <2>2 DEF Number, Computed
<1>15. /\ Running(a1) /\ a1.mem = a.mem
       /\ a1.read = Append(a.read, Operands(a, u, S))
       /\ \A v \in Vregs : a1.reg[v] = IF v = u.res THEN Number(a) ELSE a.reg[v]
  <2>1. Running(a) /\ u.kind \notin {"reload", "spill"}
      BY <1>5 DEF Like
  <2> HIDE DEF u
  <2>2. Computed(a, u, S, a1)
      BY <2>1, OtherRuns DEF a1
  <2> QED
      BY <2>2 DEF Computed
<1>16. \A v \in (1 .. count) \ onStk : c1.reg[v] = a.reg[v] /\ v \in Vregs
    BY <1>4, <1>5, <1>6 DEF AfterLoads, Like
<1>17. u.res \notin S
    BY <1>5 DEF Placed
<1>18. c2.read = a1.read /\ Number(c) = Number(a)
    BY <1>5, <1>14, <1>15 DEF Like, Number
<1>19. CASE Stored(u)
  <2> DEFINE s == Uop("spill", <<fresh>>, 0, u.res)
  <2>1. main.res = fresh /\ store = <<s>> /\ u.res \in onStk
      BY <1>8, <1>9, <1>19 DEF Stored
  <2>2. s \in Uops(m)
    <3>1. <<s>>[1] = s /\ Len(<<s>>) = 1 /\ <<s>> \in Seq(Uops(m))
        BY <1>2, <2>1
    <3> QED
        BY <3>1
  <2>3. c3 = Executed(c2, s, onStk)
      BY <1>12, <2>1, <2>2, TraceOfOneMore DEF c3, c2
  <2>4. s.kind = "spill" /\ s.slot = u.res /\ s.ops[1] = fresh
      BY DEF Uop
  <2> HIDE DEF s
  <2>5. /\ Running(c3) /\ c3.reg = c2.reg /\ c3.read = c2.read
        /\ \A v \in Vregs : c3.mem[v] = IF v = u.res THEN c2.reg[fresh] ELSE c2.mem[v]
    <3>1. Spilled(c2, s, Executed(c2, s, onStk))
        BY <1>14, <2>4, SpillRuns
    <3> QED
        BY <2>3, <2>4, <3>1 DEF Given, Spilled
  <2>6. c2.reg[fresh] = Number(c)
      BY <1>4, <1>14, <1>19, <2>1
  <2>7. ASSUME NEW v \in (1 .. count) \ onStk PROVE c3.reg[v] = a1.reg[v]
    <3>1. v \in Vregs /\ v /= fresh /\ v /= u.res /\ c1.reg[v] = a.reg[v]
        BY <1>4, <1>16, <1>19, <2>1
    <3>2. c2.reg[v] = c1.reg[v]
        BY <1>14, <2>1, <3>1
    <3> QED
        BY <1>15, <2>5, <3>1, <3>2
  <2>11. onStk \subseteq Vregs /\ \A v \in S : c.mem[v] = a.mem[v]
      BY <1>4, <1>5 DEF Like
  <2>12. \A v \in onStk \ S : c.mem[v] = a.reg[v]
      BY <1>5 DEF Like
  <2>8. \A v \in onStk \ S : c3.mem[v] = a1.reg[v]
    <3> SUFFICES ASSUME NEW v \in onStk \ S PROVE c3.mem[v] = a1.reg[v]
        OBVIOUS
    <3>1. v \in Vregs /\ c.mem[v] = a.reg[v]
        BY <2>11, <2>12
    <3>2. c3.mem[v] = IF v = u.res THEN Number(a) ELSE c.mem[v]
        BY <1>14, <1>18, <2>5, <2>6, <3>1
    <3>3. a1.reg[v] = IF v = u.res THEN Number(a) ELSE a.reg[v]
        BY <1>15, <3>1
    <3> QED
        BY <3>1, <3>2, <3>3
  <2>9. ASSUME NEW v \in S PROVE c3.mem[v] = a1.mem[v]
    <3>1. v /= u.res /\ v \in Vregs
        BY <1>17, <2>11
    <3>2. c3.mem[v] = c.mem[v]
        BY <1>14, <2>5, <3>1
    <3> QED
        BY <1>15, <2>11, <3>2
  <2>10. Like(a1, c3, S)
      BY <1>15, <1>18, <2>5, <2>7, <2>8, <2>9 DEF Like
  <2> QED
      BY <1>3, <2>10 DEF a1, u, c
<1>20. CASE ~Stored(u)
  <2>1. main.res = u.res /\ store = <<>> /\ u.res \notin onStk
      BY <1>5, <1>8, <1>9, <1>20 DEF Stored
  <2>2. c3 = c2
      BY <1>12, <2>1, ConcatEmptySeq DEF c3, c2
  <2>3. ASSUME NEW v \in (1 .. count) \ onStk PROVE c2.reg[v] = a1.reg[v]
    <3>1. v \in Vregs /\ c1.reg[v] = a.reg[v]
        BY <1>16
    <3>2. c2.reg[v] = IF v = u.res THEN Number(a) ELSE c1.reg[v]
        BY <1>14, <1>18, <2>1, <3>1
    <3> QED
        BY <1>15, <3>1, <3>2
  <2>4. \A v \in onStk \ S : c2.mem[v] = a1.reg[v]
      BY <1>4, <1>5, <1>14, <1>15, <2>1 DEF Like
  <2>5. \A v \in S : c2.mem[v] = a1.mem[v]
      BY <1>5, <1>14, <1>15 DEF Like
  <2>6. Like(a1, c3, S)
      BY <1>14, <1>15, <1>18, <2>2, <2>3, <2>4, <2>5 DEF Like
  <2> QED
      BY <1>3, <2>6 DEF a1, u, c
<1> QED
    BY <1>19, <1>20

LEMMA UopSimulated ==
    ASSUME count \in Nat, onStk \subseteq 1 .. count, IsView(view, count),
           MaxVregs \in Nat, Vregs = 1 .. MaxVregs, count + Cardinality(New) <= MaxVregs,
           NEW b \in 1 .. Len(view), NEW i \in 1 .. Len(view[b]),
           NEW S \in SUBSET onStk, keep \subseteq (1 .. count) \ onStk, Placed(view[b][i], S, keep),
           NEW p \in Seq(Uops(count + Cardinality(New))), NEW a, Like(a, Trace(p, onStk), S)
    PROVE  Like(Executed(a, view[b][i], S), Trace(p \o Expanded(b, i), onStk), S)
<1>1. view[b][i].kind \in {"op", "call", "reload", "spill"}
  <2>1. view[b][i] \in Uops(count)
      BY BlocksOfView
  <2> QED
      BY <2>1, UopFields
<1>2. CASE view[b][i].kind \in {"op", "call"}
    BY <1>2, OriginalSimulated
<1>3. CASE view[b][i].kind \in {"reload", "spill"}
    BY <1>3, SpillCodeSimulated
<1> QED
    BY <1>1, <1>2, <1>3

Rewritten(b) == FlattenSeq([i \in DOMAIN view[b] |-> Expanded(b, i)])

LEMMA BlockSimulated ==
    ASSUME count \in Nat, onStk \subseteq 1 .. count, IsView(view, count),
           MaxVregs \in Nat, Vregs = 1 .. MaxVregs, count + Cardinality(New) <= MaxVregs,
           NEW b \in 1 .. Len(view), NEW S \in SUBSET onStk, keep \subseteq (1 .. count) \ onStk,
           \A i \in 1 .. Len(view[b]) : Placed(view[b][i], S, keep)
    PROVE  Like(Trace(view[b], S), Trace(Rewritten(b), onStk), S)
<1> DEFINE U == Uops(count + Cardinality(New))
           parts == [i \in DOMAIN view[b] |-> Expanded(b, i)]
           L == Len(view[b])
<1>1. L \in Nat /\ DOMAIN view[b] = 1 .. L /\ view[b] \in Seq(Uops(count))
    BY BlocksOfView
<1>2. parts \in Seq(Seq(U)) /\ Len(parts) = L /\ \A i \in 1 .. L : parts[i] = Expanded(b, i)
  <2>1. \A i \in 1 .. L : Expanded(b, i) \in Seq(U)
      BY ExpandedType
  <2>2. parts \in [1 .. L -> Seq(U)]
      BY <1>1, <2>1
  <2>3. \A i \in 1 .. L : parts[i] = Expanded(b, i)
      BY <1>1
  <2> HIDE DEF parts, U, L
  <2> QED
      BY <1>1, <2>2, <2>3, FunctionIsSeq
<1>3. FlattenSeq(parts) = Rewritten(b)
    BY DEF Rewritten
<1> HIDE DEF parts
<1>4. PICK f : FlattenSteps(f, parts)
    BY <1>2, FlattenSeqSteps
<1>5. PICK r : TraceSteps(r, view[b], S)
    BY <1>1, TraceHasSteps
<1> DEFINE Good(n) == f[n] \in Seq(U) /\ Like(r[n], Trace(f[n], onStk), S)
           T == {n \in Nat : n <= L /\ ~Good(n)}
<1>6. Good(0)
  <2>1. f[0] = <<>> /\ r[0] = Entry(S)
      BY <1>4, <1>5 DEF FlattenSteps, TraceSteps
  <2>2. Trace(<<>>, onStk) = Entry(onStk)
    <3>1. <<>> \in Seq(U) /\ Len(<<>>) = 0
        OBVIOUS
    <3>2. PICK q : TraceSteps(q, <<>>, onStk)
        BY <3>1, TraceHasSteps
    <3> QED
        BY <3>1, <3>2 DEF TraceSteps
  <2>3. 1 .. count \subseteq Vregs
    <3>1. Cardinality(New) \in Nat
        BY NewIsFinite, FS_CardinalityType
    <3> QED
        BY <3>1
  <2>4. Like(Entry(S), Entry(onStk), S)
    <3>1. \A v \in (1 .. count) \ onStk : Entry(onStk).reg[v] = v - MaxVregs - 1 /\ Entry(S).reg[v] = v - MaxVregs - 1
        BY <2>3, EntryIsRunning
    <3>2. \A v \in onStk \ S : Entry(onStk).mem[v] = v - MaxVregs - 1 /\ Entry(S).reg[v] = v - MaxVregs - 1
        BY <2>3, EntryIsRunning
    <3>3. \A v \in S : Entry(onStk).mem[v] = v - MaxVregs - 1 /\ Entry(S).mem[v] = v - MaxVregs - 1
        BY <2>3, EntryIsRunning
    <3> QED
        BY <3>1, <3>2, <3>3, EntryIsRunning DEF Like
  <2> QED
      BY <2>1, <2>2, <2>4
<1>7. ASSUME NEW n \in Nat, n + 1 <= L, Good(n) PROVE Good(n + 1)
  <2>1. n + 1 \in 1 .. L /\ (n + 1) - 1 = n
      BY <1>1, <1>7
  <2>2. f[n + 1] = f[n] \o Expanded(b, n + 1)
    <3>1. \A k \in 1 .. Len(parts) : f[k] = f[k - 1] \o parts[k]
        BY <1>4 DEF FlattenSteps
    <3>2. f[n + 1] = f[n] \o parts[n + 1]
        BY <1>2, <2>1, <3>1, Zenon
    <3> QED
        BY <1>2, <2>1, <3>2
  <2>3. r[n + 1] = Executed(r[n], view[b][n + 1], S)
    <3>1. \A k \in 1 .. L : r[k] = Executed(r[k - 1], view[b][k], S)
        BY <1>5 DEF TraceSteps
    <3> QED
        BY <2>1, <3>1, Zenon
  <2>4. Expanded(b, n + 1) \in Seq(U) /\ f[n] \in Seq(U)
      BY <1>7, <2>1, ExpandedType
  <2>5. f[n + 1] \in Seq(U)
    <3> DEFINE x == f[n]
               y == Expanded(b, n + 1)
    <3>1. x \in Seq(U) /\ y \in Seq(U)
        BY <2>4
    <3> HIDE DEF x, y, U
    <3>2. x \o y \in Seq(U)
        BY <3>1, ConcatProperties
    <3> QED
        BY <2>2, <3>2 DEF x, y
  <2>6. Like(Executed(r[n], view[b][n + 1], S), Trace(f[n] \o Expanded(b, n + 1), onStk), S)
    <3>1. Placed(view[b][n + 1], S, keep) /\ Like(r[n], Trace(f[n], onStk), S)
        BY <1>7, <2>1
    <3> QED
        BY <2>1, <2>4, <3>1, UopSimulated
  <2> QED
      BY <2>2, <2>3, <2>5, <2>6
<1> HIDE DEF Good
<1>8. T = {}
  <2>1. 0 \notin T /\ \A n \in Nat : n \notin T => n + 1 \notin T
      BY <1>6, <1>7
  <2>2. T \subseteq Nat
      OBVIOUS
  <2> HIDE DEF T
  <2> QED
      BY <2>1, <2>2, Smallest
<1>9. Good(L)
  <2>1. L \in Nat /\ L <= L /\ L \notin T
      BY <1>1, <1>8
  <2> QED
      BY <2>1
<1> QED
    BY <1>2, <1>3, <1>4, <1>5, <1>9 DEF Good, FlattenSteps, TraceSteps

(* After a rewrite every register on the stack is one since before.        *)
LEMMA RewrittenPlaced ==
    ASSUME count \in Nat, onStk \subseteq 1 .. count, IsView(view, count),
           NEW b \in 1 .. Len(view), NEW S \in SUBSET onStk, keep \subseteq (1 .. count) \ onStk,
           \A i \in 1 .. Len(view[b]) : Placed(view[b][i], S, keep)
    PROVE  \A k \in 1 .. Len(Rewritten(b)) :
              Placed(Rewritten(b)[k], onStk, keep \cup (count + 1 .. count + Cardinality(New)))
<1> DEFINE m == count + Cardinality(New)
           K == keep \cup (count + 1 .. m)
           U == {x \in Uops(m) : Placed(x, onStk, K)}
           L == Len(view[b])
           parts == [i \in DOMAIN view[b] |-> Expanded(b, i)]
<1>1. L \in Nat /\ DOMAIN view[b] = 1 .. L /\ Cardinality(New) \in Nat
    BY BlocksOfView, NewIsFinite, FS_CardinalityType
<1>2. ASSUME NEW i \in 1 .. L PROVE Expanded(b, i) \in Seq(U)
  <2> DEFINE u == view[b][i]
  <2>1. u \in Uops(count) /\ u \in Uops(m)
    <3>1. u \in Uops(count)
        BY BlocksOfView
    <3>2. m \in Nat /\ count <= m
        BY <1>1
    <3> HIDE DEF m, u
    <3> QED
        BY <3>1, <3>2, UopsGrow
  <2>2. CASE u.kind \in {"reload", "spill"}
    <3>1. Expanded(b, i) = <<u>>
        BY <2>2, SpillCodeStays
    <3>2. Placed(u, onStk, K)
        BY <2>2 DEF Placed
    <3> HIDE DEF u
    <3>3. u \in U
        BY <2>1, <3>2
    <3> HIDE DEF U
    <3> QED
        BY <3>1, <3>3
  <2>3. CASE u.kind \in {"op", "call"}
    <3> DEFINE loads == LoadsOf(b, i)
               main == MainOf(b, i)
               store == StoreOf(b, i)
    <3>1. /\ loads \in Seq(Seq(Uops(m))) /\ main \in Uops(m) /\ store \in Seq(Uops(m))
          /\ Expanded(b, i) = FlattenSeq(loads) \o <<main>> \o store
        BY ExpandedParts
    <3>2. /\ Len(u.ops) \in Nat /\ DOMAIN u.ops = 1 .. Len(u.ops)
          /\ \A j \in DOMAIN u.ops : u.ops[j] \in 1 .. count
        BY <2>1, UopFields
    <3>3. /\ \A j \in Loaded(u) : NewReg(b, i, j) \in count + 1 .. m
          /\ Stored(u) => StoredCopy(b, i) \in count + 1 .. m
      <4>1. Loaded(u) \subseteq Fresh(u) /\ (Stored(u) => Len(u.ops) + 1 \in Fresh(u))
          BY DEF Fresh
      <4> QED
          BY <4>1, FreshRegs DEF StoredCopy
    <3>4. \A x \in count + 1 .. m : x \in K /\ x \notin onStk
        BY <1>1
    <3>5. ASSUME NEW j \in DOMAIN u.ops PROVE loads[j] \in Seq(U)
      <4>1. CASE j \in Loaded(u)
        <5> DEFINE x == LoadOf(b, i, j)
        <5>1. loads[j] = <<x>>
            BY <4>1 DEF LoadsOf
        <5>2. x \in Uops(m)
          <6>1. <<x>> \in Seq(Uops(m))
            <7>1. j \in DOMAIN loads
                BY DEF LoadsOf
            <7>2. loads \in Seq(Seq(Uops(m)))
                BY <3>1
            <7> HIDE DEF x, loads, m
            <7>3. loads[j] \in Seq(Uops(m))
                BY <7>1, <7>2
            <7> QED
                BY <5>1, <7>3
          <6>2. Len(<<x>>) = 1 /\ <<x>>[1] = x
              OBVIOUS
          <6> HIDE DEF x
          <6> QED
              BY <6>1, <6>2
        <5>3. x.kind = "reload" /\ x.ops = <<>> /\ x.slot = u.ops[j] /\ x.res = NewReg(b, i, j)
            BY DEF LoadOf, Uop
        <5>4. u.ops[j] \in onStk
            BY <4>1 DEF Loaded
        <5> HIDE DEF x, K
        <5>5. Placed(x, onStk, K)
            BY <3>3, <3>4, <4>1, <5>3, <5>4 DEF Placed
        <5> QED
            BY <5>1, <5>2, <5>5
      <4>2. CASE j \notin Loaded(u)
          BY <4>2 DEF LoadsOf
      <4> QED
          BY <4>1, <4>2
    <3>6. loads \in Seq(Seq(U))
      <4>1. loads \in [1 .. Len(u.ops) -> Seq(U)]
          BY <3>2, <3>5 DEF LoadsOf
      <4> HIDE DEF loads, U
      <4> QED
          BY <3>2, <4>1, FunctionIsSeq
    <3>7. Placed(main, onStk, K)
      <4>1. /\ main.kind = u.kind /\ main.ops = CopiesOf(b, i)
            /\ main.res = IF Stored(u) THEN StoredCopy(b, i) ELSE u.res
          BY DEF MainOf, Uop
      <4>2. main.res \notin onStk
          BY <2>3, <3>3, <3>4, <4>1 DEF Stored
      <4>3. ASSUME u.kind = "op", NEW j \in DOMAIN main.ops PROVE main.ops[j] \notin onStk
        <5>1. j \in DOMAIN u.ops /\ main.ops[j] = IF j \in Loaded(u) THEN NewReg(b, i, j) ELSE u.ops[j]
            BY <4>1 DEF CopiesOf
        <5> QED
            BY <3>3, <3>4, <4>3, <5>1 DEF Loaded
      <4> HIDE DEF main, u
      <4> QED
          BY <2>3, <4>1, <4>2, <4>3 DEF Placed, Reads
    <3>8. store \in Seq(U)
      <4>1. CASE Stored(u)
        <5> DEFINE s == Uop("spill", <<StoredCopy(b, i)>>, 0, u.res)
        <5>1. store = <<s>>
            BY <4>1 DEF StoreOf
        <5>2. s \in Uops(m)
          <6>1. Len(<<s>>) = 1 /\ <<s>>[1] = s
              OBVIOUS
          <6> HIDE DEF s
          <6> QED
              BY <3>1, <5>1, <6>1
        <5>3. s.kind = "spill" /\ s.ops = <<StoredCopy(b, i)>> /\ s.slot = u.res
            BY DEF Uop
        <5>4. u.res \in onStk
            BY <4>1 DEF Stored
        <5> HIDE DEF s, K
        <5>5. Placed(s, onStk, K)
            BY <3>3, <3>4, <4>1, <5>3, <5>4 DEF Placed
        <5> QED
            BY <5>1, <5>2, <5>5
      <4>2. CASE ~Stored(u)
          BY <4>2 DEF StoreOf
      <4> QED
          BY <4>1, <4>2
    <3>9. main \in U
        BY <3>1, <3>7
    <3> HIDE DEF loads, main, store, U
    <3>10. FlattenSeq(loads) \in Seq(U)
        BY <3>6, FlattenType
    <3>11. FlattenSeq(loads) \o <<main>> \in Seq(U)
        BY <3>9, <3>10, ConcatProperties
    <3> QED
        BY <3>1, <3>8, <3>11, ConcatProperties
  <2>4. u.kind \in {"op", "call", "reload", "spill"}
      BY <2>1, UopFields
  <2> QED
      BY <2>2, <2>3, <2>4
<1>3. parts \in [1 .. L -> Seq(U)]
    BY <1>1, <1>2
<1>4. FlattenSeq(parts) = Rewritten(b)
    BY DEF Rewritten
<1>5. \A x \in U : Placed(x, onStk, K)
    OBVIOUS
<1> HIDE DEF parts, U, K, L
<1>6. Rewritten(b) \in Seq(U)
  <2>1. parts \in Seq(Seq(U))
      BY <1>1, <1>3, FunctionIsSeq
  <2> QED
      BY <1>4, <2>1, FlattenType
<1>7. \A k \in 1 .. Len(Rewritten(b)) : Rewritten(b)[k] \in U
  <2> DEFINE z == Rewritten(b)
  <2>1. z \in Seq(U)
      BY <1>6
  <2> HIDE DEF z
  <2>2. \A k \in 1 .. Len(z) : z[k] \in U
      BY <2>1
  <2> QED
      BY <2>2 DEF z
<1> QED
    BY <1>5, <1>7 DEF K

-----------------------------------------------------------------------------
(* Spill code, round by round. *)

(* The registers the code in view already takes from the stack.            *)
Seen == IF phase = "start" THEN {} ELSE IF phase = "rewrite" THEN onStk \ spills ELSE onStk

(* Block b of view, with S on the stack, reads what block b of the given   *)
(* function reads and leaves the same values.                              *)
Faithful(b, S) ==
    LET before == Trace(prog.code[b], {})
        after == Trace(view[b], S)
    IN  /\ after.read = before.read
        /\ \A v \in 1 .. prog.count : before.reg[v] = IF v \in S THEN after.mem[v] ELSE after.reg[v]

SpillInv ==
    /\ Seen \subseteq onStk
    /\ \A b \in 1 .. Len(view) : \A i \in 1 .. Len(view[b]) : Placed(view[b][i], Seen, keep)
    /\ \A b \in 1 .. Len(view) : Faithful(b, Seen)

LEMMA InitSpillInv == Init => SpillInv
<1> SUFFICES ASSUME Init PROVE SpillInv
    OBVIOUS
<1>1. IsFunction(prog) /\ MaxVregs \in Nat /\ Vregs = 1 .. MaxVregs /\ view = prog.code
    BY FunctionAssumption DEF Init
<1>2. Seen = {} /\ keep = {}
    BY DEF Init, Seen
<1>3. ASSUME NEW b \in 1 .. Len(view), NEW i \in 1 .. Len(view[b]) PROVE Placed(view[b][i], {}, {})
  <2>1. view \in Seq(Seq(Uops(prog.count)) \ {<<>>})
      BY <1>1 DEF IsFunction
  <2>2. b \in DOMAIN prog.code /\ i \in DOMAIN prog.code[b]
      BY <1>1, <2>1, BlocksOfView DEF IsView
  <2>3. view[b][i].kind \in {"op", "call"}
      BY <1>1, <2>2 DEF IsFunction
  <2> QED
      BY <2>3 DEF Placed
<1> QED
    BY <1>1, <1>2, <1>3 DEF SpillInv, Faithful

LEMMA RewriteSpillInv ==
    ASSUME PlanInv, SpillInv, Rewrite, UNCHANGED <<prog, onStk>>, phase' = "analyse"
    PROVE  SpillInv'
<1>1. /\ MaxVregs \in Nat /\ Vregs = 1 .. MaxVregs /\ count \in Nat /\ 1 .. count \subseteq Vregs
      /\ onStk \subseteq 1 .. count /\ IsView(view, count) /\ keep \subseteq (1 .. count) \ onStk
      /\ Seen \in SUBSET onStk
    BY PlanTypes DEF PlanInv, SpillInv
<1>2. 1 .. prog.count \subseteq 1 .. count
  <2>1. prog.count \in Nat /\ prog.count <= count
    <3>1. IsFunction(prog) /\ count \in prog.count .. MaxVregs
        BY FunctionAssumption DEF PlanInv
    <3> QED
        BY <1>1, <3>1 DEF IsFunction
  <2> QED
      BY <1>1, <2>1
<1>3. /\ count + Cardinality(New) <= MaxVregs
      /\ view' = [b \in 1 .. Len(view) |-> Rewritten(b)]
      /\ keep' = keep \cup (count + 1 .. count + Cardinality(New))
    BY <1>1, BlocksOfView DEF Rewrite, Rewritten, Blocks
<1>4. Seen' = onStk /\ onStk' = onStk /\ prog' = prog
    BY DEF Seen
<1>5. Len(view') = Len(view) /\ \A b \in 1 .. Len(view) : view'[b] = Rewritten(b)
    BY <1>1, <1>3, RewriteType
<1>6. ASSUME NEW b \in 1 .. Len(view), NEW i \in 1 .. Len(view'[b]) PROVE Placed(view'[b][i], onStk, keep')
  <2>1. \A k \in 1 .. Len(view[b]) : Placed(view[b][k], Seen, keep)
      BY DEF SpillInv
  <2> QED
      BY <1>1, <1>3, <1>5, <2>1, RewrittenPlaced
<1>7. ASSUME NEW b \in 1 .. Len(view) PROVE Faithful(b, Seen)'
  <2> DEFINE given == Trace(prog.code[b], {})
             a == Trace(view[b], Seen)
             c == Trace(Rewritten(b), onStk)
  <2>1. \A k \in 1 .. Len(view[b]) : Placed(view[b][k], Seen, keep)
      BY DEF SpillInv
  <2>2. Like(a, c, Seen)
      BY <1>1, <1>3, <2>1, BlockSimulated
  <2>3. a.read = given.read /\ \A v \in 1 .. prog.count : given.reg[v] = IF v \in Seen THEN a.mem[v] ELSE a.reg[v]
      BY DEF SpillInv, Faithful
  <2> HIDE DEF given, a, c
  <2>4. c.read = given.read /\ \A v \in 1 .. prog.count : given.reg[v] = IF v \in onStk THEN c.mem[v] ELSE c.reg[v]
      BY <1>1, <1>2, <2>2, <2>3 DEF Like
  <2> QED
      BY <1>4, <1>5, <2>4 DEF Faithful, given, c
<1> QED
    BY <1>4, <1>5, <1>6, <1>7 DEF SpillInv

LEMMA SpillKept ==
    ASSUME SpillInv, UNCHANGED <<prog, view, onStk, keep>>, Seen' = Seen
    PROVE  SpillInv'
BY DEF SpillInv, Faithful

LEMMA NextSpillInv == IInv /\ SpillInv /\ [Next]_vars => SpillInv'
<1> SUFFICES ASSUME IInv, SpillInv, [Next]_vars PROVE SpillInv'
    OBVIOUS
<1>1. ASSUME Prepare \/ InsertSpillCode PROVE SpillInv'
    BY <1>1, RewriteSpillInv DEF IInv, Prepare, InsertSpillCode
<1>2. ASSUME SpillRound PROVE SpillInv'
  <2>1. graph = Graphed /\ spills \subseteq graph.nodes
      BY <1>2 DEF IInv, SpillRound, GraphInv, ColorInv, ColorTypeOK
  <2>2. Seen' = Seen /\ Seen = onStk
      BY <1>2, <2>1 DEF SpillRound, Seen, Graphed, colorVars
  <2> QED
      BY <1>2, <2>2 DEF SpillRound, SpillInv, Faithful
<1>3. ASSUME Analyse \/ IntervalsOfBlock \/ StartSweep PROVE SpillInv'
    BY <1>3, SpillKept DEF Seen, Analyse, IntervalsOfBlock, StartSweep
<1>4. ASSUME SweepStep \/ StartColoring \/ ColorStep PROVE SpillInv'
    BY <1>4, SpillKept DEF Seen, SweepStep, StartColoring, ColorStep, planVars
<1>5. ASSUME Succeed \/ UNCHANGED vars PROVE SpillInv'
    BY <1>5, SpillKept DEF Seen, Succeed, vars, planVars, colorVars
<1> QED
    BY <1>1, <1>2, <1>3, <1>4, <1>5 DEF Next

(* Spill code does not change what the function computes: in every round,  *)
(* for every function, each original uop reads the values it read before,  *)
(* and every register is left with its value, in its slot when it left for *)
(* the stack.                                                              *)
THEOREM SpillCodeIsSound == Spec => []SpillCodeIsTransparent
<1>1. ASSUME IInv, SpillInv PROVE SpillCodeIsTransparent
  <2>1. Blocks = 1 .. Len(view)
      BY <1>1, PlanTypes DEF IInv
  <2>2. phase \in {"analyse", "done"} => Seen = onStk
      BY DEF Seen
  <2> QED
      BY <1>1, <2>1, <2>2 DEF SpillInv, Faithful, SpillCodeIsTransparent
<1> QED
    BY Invariance, InitSpillInv, NextSpillInv, <1>1, PTL DEF Spec

-----------------------------------------------------------------------------
(* How many rounds there can be. *)

(* Registers of the function that may still leave for the stack.           *)
RoundsLeft == Cardinality((1 .. prog.count) \ onStk)

(* Steps of DoAssignment left in this round.                               *)
StagesLeft ==
    CASE phase \in {"start", "rewrite"} -> 5
      [] phase = "analyse"   -> 4
      [] phase = "intervals" -> 3
      [] phase = "sweep"     -> 2
      [] phase = "color"     -> 1
      [] OTHER               -> 0

(* Turns left of the loop of this step.                                    *)
TurnsLeft ==
    CASE phase = "intervals" -> Len(view) + 1 - block
      [] phase = "sweep"     -> Cardinality(pending)
      [] phase = "color"     -> Cardinality(todo) + (IF outcome = "running" THEN 1 ELSE 0)
      [] OTHER               -> 0

(* The code never starts a round without having sent a register to the     *)
(* stack, never turns in a loop without having served a member.            *)
Closer ==
    \/ RoundsLeft' < RoundsLeft
    \/ RoundsLeft' = RoundsLeft /\ StagesLeft' < StagesLeft
    \/ RoundsLeft' = RoundsLeft /\ StagesLeft' = StagesLeft /\ TurnsLeft' < TurnsLeft

LeftIsNumber == RoundsLeft \in Nat /\ StagesLeft \in Nat /\ TurnsLeft \in Nat

(* Only registers of the function leave for the stack, a temporary never.  *)
RoundsInv ==
    /\ onStk \subseteq 1 .. prog.count
    /\ keep = prog.count + 1 .. count
    /\ \A v \in Vregs : IsFiniteSet(segs[v])
    /\ outcome = "spill" => spills /= {}

(* One call adds at most one segment.                                      *)
LEMMA MakeSegFinite ==
    ASSUME NEW S, IsFiniteSet(S), NEW bgn, NEW end
    PROVE  IsFiniteSet(MakeSeg(S, bgn, end))
<1>1. ASSUME NEW T, IsFiniteSet(T), NEW seg PROVE IsFiniteSet(Insert(T, seg))
  <2>1. IsFiniteSet(T \cup {seg})
      BY <1>1, FS_AddElement
  <2> QED
      BY <1>1, <2>1 DEF Insert
<1>2. \A x : IsFiniteSet(S \ {x})
    BY FS_RemoveElement
<1> QED
    BY <1>1, <1>2 DEF MakeSeg

LEMMA AddBlockFinite ==
    ASSUME NEW S, IsFiniteSet(S), NEW first \in Nat, NEW size \in Nat, NEW defs, NEW uses
    PROVE  IsFiniteSet(AddBlock(S, first, size, defs, uses))
<1>1. PICK f : Steps(f, S, first, size, defs, uses)
    BY AddBlockSteps
<1> DEFINE T == {n \in Nat : n <= size /\ ~IsFiniteSet(f[n])}
<1>2. 0 \notin T
    BY <1>1 DEF Steps
<1>3. ASSUME NEW n \in Nat, n \notin T PROVE n + 1 \notin T
  <2> SUFFICES ASSUME n + 1 <= size PROVE IsFiniteSet(f[n + 1])
      OBVIOUS
  <2> DEFINE d == first + n
             end == EndOf(d, defs, uses)
  <2>1. IsFiniteSet(f[n])
      BY <1>3
  <2>2. f[n + 1] = IF d \in defs THEN MakeSeg(f[n], d, end) ELSE f[n]
    <3>1. n + 1 \in 1 .. size /\ first + (n + 1) - 1 = first + n /\ (n + 1) - 1 = n
        OBVIOUS
    <3> QED
        BY <1>1, <3>1 DEF Steps
  <2> HIDE DEF d, end
  <2>3. IsFiniteSet(MakeSeg(f[n], d, end))
      BY <2>1, MakeSegFinite
  <2> QED
      BY <2>1, <2>2, <2>3
<1>4. T = {}
  <2> HIDE DEF T
  <2>1. T \subseteq Nat
      BY DEF T
  <2> QED
      BY <1>2, <1>3, <2>1, Smallest
<1> QED
    BY <1>1, <1>4 DEF Steps

LEMMA QueuedIsFinite ==
    ASSUME IInv, RoundsInv
    PROVE  IsFiniteSet(Queued)
<1> DEFINE Of(v) == {[bgn |-> s[1], end |-> s[2], owner |-> v] : s \in segs[v]}
           Waiting == (1 .. count) \ onStk
           All == {Of(v) : v \in Waiting}
<1>1. count \in Nat /\ 1 .. count \subseteq Vregs
    BY PlanTypes DEF IInv
<1>2. IsFiniteSet(Waiting)
  <2>1. 1 \in Int /\ count \in Int
      BY <1>1
  <2>2. IsFiniteSet(1 .. count)
      BY <2>1, FS_Interval, Zenon
  <2> QED
      BY <2>2, FS_Subset
<1>3. ASSUME NEW v \in Waiting PROVE IsFiniteSet(Of(v))
  <2>1. IsFiniteSet(segs[v])
      BY <1>1 DEF RoundsInv
  <2>2. [s \in segs[v] |-> [bgn |-> s[1], end |-> s[2], owner |-> v]] \in Surjection(segs[v], Of(v))
      BY DEF Surjection
  <2> HIDE DEF Of
  <2> QED
      BY <2>1, <2>2, FS_Surjection
<1>4. IsFiniteSet(All)
  <2> HIDE DEF Of, Waiting
  <2>1. [v \in Waiting |-> Of(v)] \in Surjection(Waiting, All)
      BY DEF Surjection
  <2> HIDE DEF All
  <2> QED
      BY <1>2, <2>1, FS_Surjection
<1>5. \A A \in All : IsFiniteSet(A)
    BY <1>3
<1>6. IsFiniteSet(UNION All)
  <2> HIDE DEF All
  <2> QED
      BY <1>4, <1>5, FS_UNION
<1> QED
    BY <1>6 DEF Queued

LEMMA InitRoundsInv == Init => RoundsInv
<1> SUFFICES ASSUME Init PROVE RoundsInv
    OBVIOUS
<1>1. IsFunction(prog) /\ MaxVregs \in Nat
    BY FunctionAssumption DEF Init
<1>2. prog.count \in Nat /\ prog.stkParams \subseteq 1 .. prog.count
    BY <1>1 DEF IsFunction
<1>3. prog.count + 1 .. prog.count = {}
    BY <1>2
<1> QED
    BY <1>2, <1>3, FS_EmptySet DEF Init, RoundsInv, Idle

LEMMA NextRoundsInv == IInv /\ RoundsInv /\ [Next]_vars => RoundsInv'
<1> SUFFICES ASSUME IInv, RoundsInv, [Next]_vars PROVE RoundsInv'
    OBVIOUS
<1>1. count \in Nat /\ prog.count \in Nat /\ prog.count <= count
  <2>1. IsFunction(prog) /\ count \in prog.count .. MaxVregs /\ count \in Nat
      BY FunctionAssumption, PlanTypes DEF IInv, PlanInv
  <2> QED
      BY <2>1 DEF IsFunction
<1>2. CASE Prepare \/ InsertSpillCode
  <2>1. Rewrite /\ UNCHANGED <<prog, onStk, segs, spills, outcome>>
      BY <1>2 DEF Prepare, InsertSpillCode, colorVars
  <2>2. count' \in Nat /\ count <= count' /\ keep' = keep \cup (count + 1 .. count')
    <3>1. IsView(view, count) /\ MaxVregs \in Nat /\ onStk \subseteq 1 .. count
        BY PlanTypes DEF IInv, PlanInv
    <3> QED
        BY <1>1, <2>1, <3>1, RewriteType
  <2>3. keep' = prog.count + 1 .. count'
      BY <1>1, <2>2 DEF RoundsInv
  <2> QED
      BY <2>1, <2>3 DEF RoundsInv
<1>3. CASE Analyse
    BY <1>3, FS_EmptySet DEF Analyse, RoundsInv, colorVars
<1>4. CASE IntervalsOfBlock
  <2>1. segs' = [v \in Vregs |-> AddBlock(segs[v], First(block), Len(view[block]),
                                          DefsAt(block, v), UsesAt(block, v))]
      BY <1>4 DEF IntervalsOfBlock
  <2>2. IsView(view, count) /\ block \in 1 .. Len(view)
      BY <1>4, PlanTypes DEF IInv, PlanInv, IntervalsOfBlock
  <2>3. ASSUME NEW v \in Vregs PROVE IsFiniteSet(segs'[v])
    <3>1. First(block) \in Nat /\ Len(view[block]) \in Nat
        BY <1>1, <2>2, CallPositions
    <3>2. IsFiniteSet(segs[v])
        BY DEF RoundsInv
    <3> QED
        BY <2>1, <3>1, <3>2, AddBlockFinite
  <2> QED
      BY <1>4, <2>3 DEF IntervalsOfBlock, RoundsInv, colorVars
<1>5. CASE SpillRound
  <2>1. graph = Graphed /\ spills \subseteq graph.nodes /\ spills \cap graph.keep = {}
      BY <1>5 DEF IInv, SpillRound, GraphInv, ColorInv, ColorTypeOK, TemporariesStay
  <2>2. spills \subseteq (1 .. count) \ keep
      BY <2>1 DEF Graphed
  <2>3. spills \subseteq 1 .. prog.count
      BY <1>1, <2>2 DEF RoundsInv
  <2> QED
      BY <1>5, <2>3 DEF SpillRound, RoundsInv, colorVars
<1>6. CASE ColorStep
  <2>1. outcome' = "spill" => spills' /= {}
      BY <1>6 DEF RoundsInv, ColorStep, ColorNext, Skip, GiveWish, GiveFree, Spill, Panic, Finish, Pop
  <2> QED
      BY <1>6, <2>1 DEF ColorStep, planVars, RoundsInv
<1>7. CASE StartSweep \/ SweepStep \/ StartColoring
    BY <1>7 DEF StartSweep, SweepStep, StartColoring, Start, planVars, colorVars, RoundsInv
<1>8. CASE Succeed \/ UNCHANGED vars
    BY <1>8 DEF Succeed, vars, planVars, colorVars, RoundsInv
<1> QED
    BY <1>2, <1>3, <1>4, <1>5, <1>6, <1>7, <1>8 DEF Next

LEMMA LeftTypes ==
    ASSUME IInv, RoundsInv
    PROVE  /\ LeftIsNumber
           /\ IsFiniteSet((1 .. prog.count) \ onStk)
           /\ phase = "sweep" => IsFiniteSet(pending)
           /\ IsFiniteSet(todo)
<1>1. /\ MaxVregs \in Nat /\ Vregs = 1 .. MaxVregs /\ Len(view) \in Nat
      /\ prog.count \in Nat
  <2>1. IsFunction(prog)
      BY FunctionAssumption DEF IInv, PlanInv
  <2> QED
      BY <2>1, PlanTypes DEF IInv, IsFunction
<1>2. \A n \in Nat : IsFiniteSet(1 .. n)
  <2> TAKE n \in Nat
  <2>1. 1 \in Int /\ n \in Int
      OBVIOUS
  <2> QED
      BY <2>1, FS_Interval, Zenon
<1>3. IsFiniteSet((1 .. prog.count) \ onStk)
    BY <1>1, <1>2, FS_Subset
<1>4. phase = "sweep" => IsFiniteSet(pending)
  <2> SUFFICES ASSUME phase = "sweep" PROVE IsFiniteSet(pending)
      OBVIOUS
  <2>1. pending \in SUBSET Queued
      BY DEF IInv, GraphInv, SweepInv, SweepTypeOK
  <2> QED
      BY <2>1, QueuedIsFinite, FS_Subset
<1>5. IsFiniteSet(todo)
  <2>1. todo \in SUBSET Vregs
      BY DEF IInv, ColorInv, ColorTypeOK, Graph
  <2> QED
      BY <1>1, <1>2, <2>1, FS_Subset
<1>6. RoundsLeft \in Nat
    BY <1>3, FS_CardinalityType DEF RoundsLeft
<1>7. StagesLeft \in Nat
    BY DEF StagesLeft
<1>8. TurnsLeft \in Nat
  <2>1. phase = "intervals" => Len(view) + 1 - block \in Nat
      BY <1>1 DEF IInv, TrackedInv, Analysed
  <2>2. phase = "sweep" => Cardinality(pending) \in Nat
      BY <1>4, FS_CardinalityType
  <2>3. Cardinality(todo) \in Nat
      BY <1>5, FS_CardinalityType
  <2>4. Cardinality(todo) + (IF outcome = "running" THEN 1 ELSE 0) \in Nat
      BY <2>3
  <2> QED
      BY <2>1, <2>2, <2>4 DEF TurnsLeft
<1> QED
    BY <1>3, <1>4, <1>5, <1>6, <1>7, <1>8 DEF LeftIsNumber

LEMMA StepGetsCloser == ASSUME IInv, RoundsInv, Next PROVE Closer
<1>1. LeftIsNumber
    BY LeftTypes
<1>2. CASE Prepare \/ InsertSpillCode
    BY <1>2 DEF Prepare, InsertSpillCode, Closer, RoundsLeft, StagesLeft
<1>3. CASE Analyse \/ StartSweep \/ StartColoring \/ Succeed
  <2>1. RoundsLeft' = RoundsLeft
      BY <1>3 DEF Analyse, StartSweep, StartColoring, Succeed, RoundsLeft
  <2>2. \/ phase = "analyse" /\ phase' = "intervals"
        \/ phase = "intervals" /\ phase' = "sweep"
        \/ phase = "sweep" /\ phase' = "color"
        \/ phase = "color" /\ phase' = "done"
      BY <1>3 DEF Analyse, StartSweep, StartColoring, Succeed
  <2>3. StagesLeft' < StagesLeft
      BY <2>2 DEF StagesLeft
  <2> QED
      BY <2>1, <2>3 DEF Closer
<1>4. CASE IntervalsOfBlock
  <2>1. /\ phase = "intervals" /\ phase' = "intervals" /\ block' = block + 1 /\ view' = view
        /\ prog' = prog /\ onStk' = onStk
      BY <1>4 DEF IntervalsOfBlock
  <2>2. Len(view) \in Nat /\ block \in Nat
      BY <2>1, PlanTypes DEF IInv, TrackedInv, Analysed
  <2>3. TurnsLeft = Len(view) + 1 - block /\ TurnsLeft' = Len(view) + 1 - (block + 1)
      BY <2>1 DEF TurnsLeft
  <2> QED
      BY <2>1, <2>2, <2>3 DEF Closer, RoundsLeft, StagesLeft
<1>5. CASE SweepStep
  <2>1. phase = "sweep" /\ phase' = "sweep" /\ prog' = prog /\ onStk' = onStk
      BY <1>5 DEF SweepStep, planVars
  <2>2. PICK s \in pending : pending' = pending \ {s}
      BY <1>5 DEF SweepStep, SweepNext, Take
  <2>3. IsFiniteSet(pending) /\ Cardinality(pending) \in Nat
      BY <2>1, LeftTypes, FS_CardinalityType
  <2>4. Cardinality(pending') = Cardinality(pending) - 1
      BY <2>2, <2>3, FS_RemoveElement
  <2>5. TurnsLeft = Cardinality(pending) /\ TurnsLeft' = Cardinality(pending')
      BY <2>1 DEF TurnsLeft
  <2>6. TurnsLeft' < TurnsLeft
      BY <2>3, <2>4, <2>5
  <2> QED
      BY <2>1, <2>6 DEF Closer, RoundsLeft, StagesLeft
<1>6. CASE ColorStep
  <2>1. phase = "color" /\ phase' = "color" /\ prog' = prog /\ onStk' = onStk
      BY <1>6 DEF ColorStep, planVars
  <2>2. IsFiniteSet(todo) /\ Cardinality(todo) \in Nat
      BY LeftTypes, FS_CardinalityType
  <2> DEFINE runs == IF outcome = "running" THEN 1 ELSE 0
  <2>3. TurnsLeft = Cardinality(todo) + runs /\ TurnsLeft' = Cardinality(todo') + runs'
      BY <2>1 DEF TurnsLeft
  <2>4. \/ runs = 1 /\ \E n \in todo : todo' = todo \ {n}
        \/ runs = 1 /\ runs' = 0 /\ todo' = todo
      BY <1>6 DEF ColorStep, ColorNext, Skip, GiveWish, GiveFree, Spill, Panic, Finish, Pop
  <2>5. runs' \in {0, 1}
      OBVIOUS
  <2> HIDE DEF runs
  <2>6. CASE \E n \in todo : todo' = todo \ {n}
    <3>1. Cardinality(todo') = Cardinality(todo) - 1
        BY <2>2, <2>6, FS_RemoveElement
    <3>2. TurnsLeft' < TurnsLeft
        BY <2>2, <2>3, <2>4, <2>5, <3>1
    <3> QED
        BY <2>1, <3>2 DEF Closer, RoundsLeft, StagesLeft
  <2>7. CASE runs = 1 /\ runs' = 0 /\ todo' = todo
    <3>1. TurnsLeft' < TurnsLeft
        BY <2>2, <2>3, <2>7
    <3> QED
        BY <2>1, <3>1 DEF Closer, RoundsLeft, StagesLeft
  <2> QED
      BY <2>4, <2>6, <2>7
<1>7. CASE SpillRound
  <2> DEFINE before == (1 .. prog.count) \ onStk
             after == (1 .. prog.count) \ onStk'
  <2>1. prog' = prog /\ onStk' = onStk \cup spills /\ spills /= {}
      BY <1>7 DEF SpillRound, RoundsInv
  <2>2. graph = Graphed /\ spills \subseteq graph.nodes
      BY <1>7 DEF SpillRound, IInv, GraphInv, ColorInv, ColorTypeOK
  <2>3. spills \subseteq 1 .. prog.count
    <3>1. RoundsInv'
        BY NextRoundsInv
    <3> QED
        BY <2>1, <3>1 DEF RoundsInv
  <2>4. after \in SUBSET before /\ after /= before
      BY <2>1, <2>2, <2>3 DEF Graphed
  <2>5. IsFiniteSet(before)
      BY LeftTypes
  <2>6. RoundsLeft = Cardinality(before) /\ RoundsLeft' = Cardinality(after)
      BY <2>1 DEF RoundsLeft
  <2> HIDE DEF before, after
  <2>7. IsFiniteSet(after) /\ Cardinality(after) <= Cardinality(before) /\ Cardinality(after) /= Cardinality(before)
      BY <2>4, <2>5, FS_Subset
  <2>8. Cardinality(after) \in Nat /\ Cardinality(before) \in Nat
      BY <2>5, <2>7, FS_CardinalityType
  <2> QED
      BY <2>6, <2>7, <2>8 DEF Closer
<1> QED
    BY <1>2, <1>3, <1>4, <1>5, <1>6, <1>7 DEF Next

(* DoAssignment cannot go round for ever, for any function: every round    *)
(* takes a register of the function, never a temporary, from the machine   *)
(* registers for good, and no loop of a round turns more often than it has *)
(* blocks, segments or nodes.                                              *)
THEOREM RoundsAreBounded == Spec => []LeftIsNumber /\ [][Closer]_vars
<1>1. IInv /\ RoundsInv => LeftIsNumber
    BY LeftTypes
<1>2. IInv /\ RoundsInv /\ [Next]_vars => [Closer]_vars
    BY StepGetsCloser
<1> QED
    BY Invariance, InitRoundsInv, NextRoundsInv, <1>1, <1>2, PTL DEF Spec

=============================================================================
