--------------------------- MODULE FlowGraphProofs ---------------------------
(***************************************************************************)
(* The three analyses that go over the graph of a function's blocks, for   *)
(* every graph.                                                            *)
(*                                                                         *)
(* Layout: GetSequentialNodes ends, with the entry first, the exit last    *)
(* and each block between them after its predecessors.                     *)
(*                                                                         *)
(* Dominance: the sets, the tree and the frontiers ComputeDominanceInfo    *)
(* and ComputeDominanceFrontier leave are those of the graph's walks; the  *)
(* phis InsertPhiFunction places by them are enough.                       *)
(*                                                                         *)
(* Liveness: for every function laid out that way, the sets never exceed a *)
(* solution of the liveness equations, and when the iteration stops they   *)
(* are one: the one that says which registers execution may still read.    *)
(* The iteration takes a bounded number of steps.                          *)
(***************************************************************************)
EXTENDS Liveness, PhiPlacement, FiniteSetTheorems, SequenceTheorems, WellFoundedInduction, TLAPS

(* A set of numbers in which no number is the smallest is empty. *)
LEMMA Smallest ==
    ASSUME NEW T \in SUBSET Nat, 0 \notin T, \A n \in Nat : n \notin T => n + 1 \notin T
    PROVE  T = {}
<1> DEFINE Less == OpToRel(<, Nat)
<1>1. SUFFICES ASSUME T /= {} PROVE FALSE
    OBVIOUS
<1>2. PICK r \in T : \A q \in T : ~(<<q, r>> \in Less)
    BY <1>1, NatLessThanWellFounded, WFMin
<1>3. r \in Nat /\ r /= 0 /\ r - 1 \in Nat /\ r - 1 < r
    OBVIOUS
<1>4. r - 1 \notin T
    BY <1>2, <1>3 DEF OpToRel
<1>5. (r - 1) + 1 \notin T
    BY <1>3, <1>4
<1> QED
    BY <1>3, <1>5

-----------------------------------------------------------------------------
(* The layout. *)

JumpsTo(f, a, b) == b \in ToSet(End(f, a).to)

LEMMA ToSetIs ==
    ASSUME NEW S, NEW s \in Seq(S)
    PROVE  ToSet(s) = {s[k] : k \in 1 .. Len(s)}
BY DEF ToSet

LEMMA ShortSequences ==
    ASSUME NEW S, NEW x \in S, NEW y \in S
    PROVE  /\ <<x>> \in Seq(S) /\ Len(<<x>>) = 1 /\ <<x>>[1] = x
           /\ <<x, y>> \in Seq(S) /\ Len(<<x, y>>) = 2 /\ <<x, y>>[1] = x /\ <<x, y>>[2] = y
OBVIOUS

LEMMA PushedAreTargets ==
    ASSUME NEW f, WellFormed(f), NEW b \in DOMAIN f.code, NEW seen
    PROVE  LET p == Pushed(f, b, seen)
           IN  /\ p \in Seq(DOMAIN f.code) /\ Len(p) <= 2
               /\ \A i \in 1 .. Len(p) : JumpsTo(f, b, p[i])
<1> DEFINE B == DOMAIN f.code
           end == End(f, b)
           p == Pushed(f, b, seen)
<1>1. /\ end.op = "branch" => end.to \in Seq(B) /\ Len(end.to) = 2
      /\ end.op = "jump" => end.to \in Seq(B) /\ Len(end.to) = 1
    BY DEF WellFormed
<1>2. p = CASE end.op = "branch" -> <<end.to[2], end.to[1]>>
            [] end.op = "jump" /\ AllPredVisit(f, end.to[1], seen) -> <<end.to[1]>>
            [] OTHER -> <<>>
    BY DEF Pushed
<1>3. \A i : JumpsTo(f, b, i) <=> i \in ToSet(end.to)
    BY DEF JumpsTo
<1> HIDE DEF p, end
<1>4. CASE end.op = "branch"
  <2>1. end.to \in Seq(B) /\ Len(end.to) = 2
      BY <1>1, <1>4
  <2>2. end.to[1] \in B /\ end.to[2] \in B /\ end.to[1] \in ToSet(end.to) /\ end.to[2] \in ToSet(end.to)
      BY <2>1, ToSetIs
  <2>3. p = <<end.to[2], end.to[1]>>
      BY <1>2, <1>4
  <2>4. p \in Seq(B) /\ Len(p) = 2 /\ p[1] = end.to[2] /\ p[2] = end.to[1]
      BY <2>2, <2>3, ShortSequences
  <2> QED
      BY <1>3, <2>2, <2>4 DEF p
<1>5. CASE end.op = "jump" /\ AllPredVisit(f, end.to[1], seen)
  <2>1. end.to \in Seq(B) /\ Len(end.to) = 1
      BY <1>1, <1>5
  <2>2. end.to[1] \in B /\ end.to[1] \in ToSet(end.to)
      BY <2>1, ToSetIs
  <2>3. p = <<end.to[1]>>
      BY <1>2, <1>5
  <2>4. p \in Seq(B) /\ Len(p) = 1 /\ p[1] = end.to[1]
      BY <2>2, <2>3, ShortSequences
  <2> QED
      BY <1>3, <2>2, <2>4 DEF p
<1>6. CASE end.op /= "branch" /\ ~(end.op = "jump" /\ AllPredVisit(f, end.to[1], seen))
  <2>1. p = <<>>
      BY <1>2, <1>6
  <2> QED
      BY <2>1 DEF p
<1> QED
    BY <1>4, <1>5, <1>6

LEMMA LastAndFront ==
    ASSUME NEW S, NEW s \in Seq(S), s /= <<>>
    PROVE  /\ Len(s) \in Nat \ {0} /\ s[Len(s)] \in S
           /\ LET r == SubSeq(s, 1, Len(s) - 1)
              IN  r \in Seq(S) /\ Len(r) = Len(s) - 1 /\ \A i \in 1 .. Len(r) : r[i] = s[i]
<1>1. Len(s) \in Nat /\ Len(s) /= 0
    BY EmptySeq
<1>2. s[Len(s)] \in S
    BY <1>1
<1> DEFINE r == SubSeq(s, 1, Len(s) - 1)
<1>3. r \in Seq(S)
    BY <1>1
<1>4. Len(r) = Len(s) - 1 /\ \A i \in 1 .. Len(s) - 1 : r[i] = s[i]
  <2>1. /\ Len(r) = IF 1 <= Len(s) - 1 THEN Len(s) - 1 - 1 + 1 ELSE 0
        /\ \A i \in 1 .. Len(s) - 1 - 1 + 1 : r[i] = s[1 + i - 1]
    <3>1. 1 \in Int /\ Len(s) - 1 \in Int /\ \A i \in 1 .. Len(s) - 1 : s[i] \in S
        BY <1>1
    <3> QED
        BY <3>1, SubSeqProperties
  <2> HIDE DEF r
  <2>2. Len(r) = Len(s) - 1
    <3>1. \A n \in Nat : n /= 0 => (IF 1 <= n - 1 THEN n - 1 - 1 + 1 ELSE 0) = n - 1
        OBVIOUS
    <3>2. (IF 1 <= Len(s) - 1 THEN Len(s) - 1 - 1 + 1 ELSE 0) = Len(s) - 1
        BY <1>1, <3>1
    <3>3. Len(r) = IF 1 <= Len(s) - 1 THEN Len(s) - 1 - 1 + 1 ELSE 0
        BY <2>1
    <3> QED
        BY <3>2, <3>3
  <2>3. ASSUME NEW i \in 1 .. Len(s) - 1 PROVE r[i] = s[i]
    <3>1. i \in 1 .. Len(s) - 1 - 1 + 1 /\ 1 + i - 1 = i
        BY <1>1
    <3> QED
        BY <2>1, <3>1
  <2> QED
      BY <2>2, <2>3
<1> QED
    BY <1>1, <1>2, <1>3, <1>4

(* What holds of stack and list at every turn.                             *)
LayShape(f, s) ==
    /\ s \in [stack : Seq(DOMAIN f.code), list : Seq(DOMAIN f.code)]
    /\ \A i, j \in 1 .. Len(s.list) : s.list[i] = s.list[j] => i = j
LayOrder(f, list) ==
    /\ Len(list) > 0 => list[1] = f.entry
    /\ \A k \in 2 .. Len(list) : \E j \in 1 .. k - 1 : JumpsTo(f, list[j], list[k])
LayPreds(f, list) ==
    \A k \in 1 .. Len(list) :
        \/ list[k] = f.entry
        \/ /\ list[k] /= f.exit
           /\ \A p \in Preds(f, list[k]) : "Continue" \in f.attr[p] \/ \E j \in 1 .. k - 1 : list[j] = p
LayStack(f, s) ==
    /\ Len(s.list) = 0 => Len(s.stack) = 1
    /\ \A i \in 1 .. Len(s.stack) :
         IF Len(s.list) = 0 THEN s.stack[i] = f.entry ELSE \E j \in 1 .. Len(s.list) : JumpsTo(f, s.list[j], s.stack[i])

LayInv(f, s) == LayShape(f, s) /\ LayOrder(f, s.list) /\ LayPreds(f, s.list) /\ LayStack(f, s)

(* The blocks not listed yet count three: listing one makes room for the   *)
(* two it may push.                                                        *)
LayLeft(f, s) == 3 * (Cardinality(DOMAIN f.code) - Len(s.list)) + Len(s.stack)

LEMMA FewListed ==
    ASSUME NEW f, WellFormed(f), NEW s, LayShape(f, s)
    PROVE  /\ Cardinality(DOMAIN f.code) \in Nat /\ Len(s.list) <= Cardinality(DOMAIN f.code)
           /\ LayLeft(f, s) \in Nat /\ Len(s.list) \in Nat /\ Len(s.stack) \in Nat
<1> DEFINE B == DOMAIN f.code
           l == s.list
<1>1. IsFiniteSet(B) /\ l \in Seq(B) /\ s.stack \in Seq(B)
    BY DEF WellFormed, LayShape
<1>2. Cardinality(B) \in Nat
    BY <1>1, FS_CardinalityType
<1>3. Len(l) \in Nat /\ Len(s.stack) \in Nat /\ l \in [1 .. Len(l) -> B]
    BY <1>1
<1>4. l \in Injection(1 .. Len(l), B)
    BY <1>3 DEF LayShape, Injection, IsInjective
<1> HIDE DEF l, B
<1>5. Cardinality(1 .. Len(l)) <= Cardinality(B)
    BY <1>1, <1>4, FS_Injection
<1>6. Cardinality(1 .. Len(l)) = Len(l)
  <2>1. 1 \in Int /\ Len(l) \in Int
      BY <1>3
  <2>2. Cardinality(1 .. Len(l)) = IF 1 > Len(l) THEN 0 ELSE Len(l) - 1 + 1
      BY <2>1, FS_Interval, Zenon
  <2> QED
      BY <1>3, <2>2
<1>7. Len(l) <= Cardinality(B)
    BY <1>5, <1>6
<1>8. 3 * (Cardinality(B) - Len(l)) + Len(s.stack) \in Nat
    BY <1>2, <1>3, <1>7
<1> QED
    BY <1>2, <1>3, <1>7, <1>8 DEF l, B, LayLeft

LEMMA LayStepKeeps ==
    ASSUME NEW f, WellFormed(f), NEW s, LayInv(f, s)
    PROVE  /\ LayInv(f, Sequential(f, s))
           /\ s.stack /= <<>> => LayLeft(f, Sequential(f, s)) < LayLeft(f, s)
<1> DEFINE B == DOMAIN f.code
           top == Last(s.stack)
           rest == Front(s.stack)
           seen == ToSet(s.list)
           q == Pushed(f, top, seen \cup {top})
           new == Sequential(f, s)
<1>1. s \in [stack : Seq(B), list : Seq(B)]
    BY DEF LayInv, LayShape
<1>2. CASE s.stack = <<>>
    BY <1>2 DEF Sequential
<1>3. ASSUME s.stack /= <<>>
      PROVE  /\ Len(s.stack) \in Nat \ {0} /\ top \in B /\ top = s.stack[Len(s.stack)]
             /\ rest \in Seq(B) /\ Len(rest) = Len(s.stack) - 1 /\ \A i \in 1 .. Len(rest) : rest[i] = s.stack[i]
  <2>1. s.stack \in Seq(B)
      BY <1>1
  <2>2. top = s.stack[Len(s.stack)] /\ rest = SubSeq(s.stack, 1, Len(s.stack) - 1)
      BY DEF Last, Front
  <2> HIDE DEF top, rest
  <2> QED
      BY <1>3, <2>1, <2>2, LastAndFront
<1>4. CASE s.stack /= <<>> /\ (top \in seen \/ ~AllPredVisit(f, top, seen))
  <2>1. new = [s EXCEPT !.stack = rest]
      BY <1>4 DEF Sequential
  <2>2. new.list = s.list /\ new.stack = rest /\ new \in [stack : Seq(B), list : Seq(B)]
      BY <1>1, <1>3, <1>4, <2>1
  <2>3. LayShape(f, new) /\ LayOrder(f, new.list) /\ LayPreds(f, new.list)
      BY <2>2 DEF LayInv, LayShape
  <2>4. LayStack(f, new)
    <3>1. \A i \in 1 .. Len(rest) : i \in 1 .. Len(s.stack) /\ rest[i] = s.stack[i]
        BY <1>3, <1>4
    <3>2. Len(s.list) /= 0
      <4> SUFFICES ASSUME Len(s.list) = 0 PROVE FALSE
          OBVIOUS
      <4>1. Len(s.stack) \in 1 .. Len(s.stack) /\ top = s.stack[Len(s.stack)]
          BY <1>3, <1>4
      <4>2. top = f.entry
          BY <4>1 DEF LayInv, LayStack
      <4>3. seen = {}
          BY <1>1, ToSetIs
      <4>4. AllPredVisit(f, top, seen)
          BY <4>2 DEF AllPredVisit
      <4> QED
          BY <1>4, <4>3, <4>4
    <3> QED
        BY <2>2, <3>1, <3>2 DEF LayInv, LayStack
  <2>5. LayLeft(f, new) < LayLeft(f, s)
    <3>1. Cardinality(B) \in Nat /\ Len(s.list) \in Nat
        BY FewListed DEF LayInv
    <3> QED
        BY <1>3, <1>4, <2>2, <3>1 DEF LayLeft
  <2> QED
      BY <2>3, <2>4, <2>5 DEF LayInv
<1>5. CASE s.stack /= <<>> /\ top \notin seen /\ AllPredVisit(f, top, seen)
  <2> DEFINE n == Len(s.list)
             c == Cardinality(B)
  <2>1. new = [stack |-> rest \o q, list |-> Append(s.list, top)]
      BY <1>5 DEF Sequential
  <2>2. q \in Seq(B) /\ Len(q) <= 2 /\ \A i \in 1 .. Len(q) : JumpsTo(f, top, q[i])
      BY <1>3, <1>5, PushedAreTargets
  <2>3. /\ new.stack = rest \o q /\ new.list = Append(s.list, top) /\ new \in [stack : Seq(B), list : Seq(B)]
        /\ n \in Nat /\ Len(new.list) = n + 1 /\ new.list[n + 1] = top /\ \A i \in 1 .. n : new.list[i] = s.list[i]
        /\ Len(new.stack) = Len(rest) + Len(q)
        /\ \A i \in 1 .. Len(rest) : new.stack[i] = rest[i]
        /\ \A i \in Len(rest) + 1 .. Len(rest) + Len(q) : new.stack[i] = q[i - Len(rest)]
    <3> HIDE DEF q, top, rest
    <3>1. new.stack = rest \o q /\ new.list = Append(s.list, top)
        BY <2>1
    <3>2. rest \in Seq(B) /\ top \in B /\ s.list \in Seq(B)
        BY <1>1, <1>3, <1>5
    <3>3. rest \o q \in Seq(B) /\ Append(s.list, top) \in Seq(B)
        BY <2>2, <3>2, AppendProperties, ConcatProperties
    <3>4. /\ n \in Nat /\ Len(Append(s.list, top)) = n + 1 /\ Append(s.list, top)[n + 1] = top
          /\ \A i \in 1 .. n : Append(s.list, top)[i] = s.list[i]
        BY <3>2, AppendProperties
    <3>5. /\ Len(rest \o q) = Len(rest) + Len(q)
          /\ \A i \in 1 .. Len(rest) : (rest \o q)[i] = rest[i]
          /\ \A i \in Len(rest) + 1 .. Len(rest) + Len(q) : (rest \o q)[i] = q[i - Len(rest)]
        BY <2>2, <3>2, ConcatProperties
    <3> QED
        BY <2>1, <3>1, <3>3, <3>4, <3>5
  <2>4. \A i \in 1 .. n : s.list[i] \in seen
      BY <1>1, ToSetIs
  <2>5. seen = {s.list[i] : i \in 1 .. n}
      BY <1>1, ToSetIs
  <2> HIDE DEF new, q, rest, top, seen
  <2>6. LayShape(f, new)
    <3> SUFFICES ASSUME NEW i \in 1 .. n + 1, NEW j \in 1 .. n + 1, new.list[i] = new.list[j] PROVE i = j
        BY <2>3 DEF LayShape
    <3>1. \A k, m \in 1 .. n : s.list[k] = s.list[m] => k = m
        BY DEF LayInv, LayShape
    <3>2. i \in 1 .. n \/ i = n + 1
        BY <2>3
    <3>3. j \in 1 .. n \/ j = n + 1
        BY <2>3
    <3> QED
        BY <1>5, <2>3, <2>4, <3>1, <3>2, <3>3
  <2>7. n = 0 => top = f.entry
    <3>1. Len(s.stack) \in 1 .. Len(s.stack) /\ top = s.stack[Len(s.stack)]
        BY <1>3, <1>5
    <3> QED
        BY <3>1 DEF LayInv, LayStack
  <2>8. n > 0 => \E j \in 1 .. n : JumpsTo(f, s.list[j], top)
    <3>1. Len(s.stack) \in 1 .. Len(s.stack) /\ top = s.stack[Len(s.stack)]
        BY <1>3, <1>5
    <3>2. \A i \in 1 .. Len(s.stack) : n /= 0 => \E j \in 1 .. n : JumpsTo(f, s.list[j], s.stack[i])
        BY DEF LayInv, LayStack
    <3>3. n > 0 => n /= 0
        BY <2>3
    <3> QED
        BY <3>1, <3>2, <3>3
  <2>9. LayOrder(f, new.list)
    <3>1. new.list[1] = f.entry
      <4>1. CASE n = 0
          BY <2>3, <2>7, <4>1
      <4>2. CASE n > 0
          BY <2>3, <4>2 DEF LayInv, LayOrder
      <4> QED
          BY <2>3, <4>1, <4>2
    <3>2. ASSUME NEW k \in 2 .. n + 1 PROVE \E j \in 1 .. k - 1 : JumpsTo(f, new.list[j], new.list[k])
      <4>1. CASE k = n + 1
        <5>1. n > 0
            BY <2>3, <4>1
        <5>2. PICK j \in 1 .. n : JumpsTo(f, s.list[j], top)
            BY <2>8, <5>1
        <5>3. new.list[j] = s.list[j] /\ new.list[k] = top /\ j \in 1 .. k - 1
            BY <2>3, <4>1
        <5> QED
            BY <5>2, <5>3
      <4>2. CASE k \in 2 .. n
        <5>1. PICK j \in 1 .. k - 1 : JumpsTo(f, s.list[j], s.list[k])
            BY <4>2 DEF LayInv, LayOrder
        <5>2. new.list[j] = s.list[j] /\ new.list[k] = s.list[k]
            BY <2>3, <4>2
        <5> QED
            BY <5>1, <5>2
      <4> QED
          BY <2>3, <4>1, <4>2
    <3> QED
        BY <2>3, <3>1, <3>2 DEF LayOrder
  <2>10. LayPreds(f, new.list)
    <3> SUFFICES ASSUME NEW k \in 1 .. n + 1, new.list[k] /= f.entry
                 PROVE  /\ new.list[k] /= f.exit
                        /\ \A p \in Preds(f, new.list[k]) : "Continue" \in f.attr[p] \/ \E j \in 1 .. k - 1 : new.list[j] = p
        BY <2>3 DEF LayPreds
    <3>1. CASE k = n + 1
      <4>1. new.list[k] = top
          BY <2>3, <3>1
      <4>2. top /= f.exit /\ \A p \in Preds(f, top) : "Continue" \in f.attr[p] \/ p \in seen
          BY <1>5, <4>1 DEF AllPredVisit
      <4>3. \A p \in seen : \E j \in 1 .. k - 1 : new.list[j] = p
          BY <2>3, <2>5, <3>1
      <4> QED
          BY <4>1, <4>2, <4>3
    <3>2. CASE k \in 1 .. n
      <4>1. new.list[k] = s.list[k] /\ \A j \in 1 .. k - 1 : new.list[j] = s.list[j]
          BY <2>3, <3>2
      <4> QED
          BY <3>2, <4>1 DEF LayInv, LayPreds
    <3>3. k \in 1 .. n \/ k = n + 1
        BY <2>3
    <3> QED
        BY <3>1, <3>2, <3>3
  <2>11. LayStack(f, new)
    <3>a. Len(new.list) = n + 1 /\ n + 1 /= 0 /\ Len(new.stack) = Len(rest) + Len(q)
        BY <2>3
    <3> SUFFICES ASSUME NEW i \in 1 .. Len(rest) + Len(q)
                 PROVE  \E j \in 1 .. n + 1 : JumpsTo(f, new.list[j], new.stack[i])
        BY <3>a DEF LayStack
    <3>0. Len(rest) \in Nat /\ Len(q) \in Nat
        BY <1>3, <1>5, <2>2
    <3>1. CASE i \in 1 .. Len(rest)
      <4>1. new.stack[i] = s.stack[i] /\ i \in 1 .. Len(s.stack)
          BY <1>3, <1>5, <2>3, <3>1
      <4>2. CASE n = 0
        <5>1. Len(s.stack) = 1
            BY <4>2 DEF LayInv, LayStack
        <5> QED
            BY <1>3, <1>5, <3>1, <5>1
      <4>3. CASE n > 0
        <5>1. PICK j \in 1 .. n : JumpsTo(f, s.list[j], s.stack[i])
            BY <4>1, <4>3 DEF LayInv, LayStack
        <5>2. j \in 1 .. n + 1 /\ new.list[j] = s.list[j]
            BY <2>3
        <5> QED
            BY <4>1, <5>1, <5>2
      <4> QED
          BY <2>3, <4>2, <4>3
    <3>2. CASE i \in Len(rest) + 1 .. Len(rest) + Len(q)
      <4>1. new.stack[i] = q[i - Len(rest)] /\ i - Len(rest) \in 1 .. Len(q)
          BY <2>3, <3>0, <3>2
      <4>2. JumpsTo(f, new.list[n + 1], new.stack[i]) /\ n + 1 \in 1 .. n + 1
          BY <2>2, <2>3, <4>1
      <4> QED
          BY <4>2
    <3> QED
        BY <3>0, <3>1, <3>2
  <2>12. LayLeft(f, new) < LayLeft(f, s)
    <3>1. c \in Nat /\ Len(new.list) <= c
        BY <2>6, FewListed
    <3>2. Len(q) \in Nat /\ Len(rest) = Len(s.stack) - 1 /\ Len(s.stack) \in Nat
        BY <1>3, <1>5, <2>2
    <3> HIDE DEF c
    <3>3. 3 * (c - (n + 1)) + (Len(rest) + Len(q)) < 3 * (c - n) + Len(s.stack)
      <4>1. \A x, y, z, u, v \in Nat : y <= 2 /\ z = v - 1 /\ x >= u + 1 => 3 * (x - (u + 1)) + (z + y) < 3 * (x - u) + v
          OBVIOUS
      <4>2. n \in Nat /\ Len(rest) \in Nat /\ c >= n + 1 /\ Len(q) <= 2
          BY <1>3, <1>5, <2>2, <2>3, <3>1
      <4> HIDE DEF n
      <4> QED
          BY <3>1, <3>2, <4>1, <4>2
    <3> QED
        BY <2>3, <3>3 DEF LayLeft, c
  <2> QED
      BY <2>6, <2>9, <2>10, <2>11, <2>12 DEF LayInv, new
<1> QED
    BY <1>2, <1>4, <1>5

LEMMA LayoutHasTurns ==
    ASSUME NEW f, WellFormed(f)
    PROVE  /\ LayoutTurns(f) \in Nat /\ LayoutTurns(f) = 3 * Cardinality(DOMAIN f.code) + 1
           /\ LayoutRun(f)[0] = [stack |-> <<f.entry>>, list |-> <<>>]
           /\ \A k \in 1 .. LayoutTurns(f) : LayoutRun(f)[k] = Sequential(f, LayoutRun(f)[k - 1])
<1> DEFINE m == LayoutTurns(f)
           a == [stack |-> <<f.entry>>, list |-> <<>>]
           Step(x) == CHOOSE r \in {Sequential(f, s) : s \in {x}} : TRUE
           Rule(u, n) == [k \in 0 .. n |-> IF k = 0 THEN a ELSE Step(u[k - 1])]
           T == {n \in Nat : ~\E u : u = Rule(u, n)}
<1>0. \A x : Step(x) = Sequential(f, x)
    OBVIOUS
<1>1. LayoutRun(f) = CHOOSE u : u = Rule(u, m)
    BY DEF LayoutRun
<1>5. m \in Nat /\ m = 3 * Cardinality(DOMAIN f.code) + 1
  <2>1. Cardinality(DOMAIN f.code) \in Nat
      BY FS_CardinalityType DEF WellFormed
  <2> QED
      BY <2>1 DEF LayoutTurns
<1> HIDE DEF Step, a, m
<1>2. 0 \notin T
  <2>1. [k \in 0 .. 0 |-> a] = Rule([k \in 0 .. 0 |-> a], 0)
      OBVIOUS
  <2> QED
      BY <2>1
<1>3. ASSUME NEW n \in Nat, n \notin T PROVE n + 1 \notin T
  <2>1. PICK u : u = Rule(u, n)
      BY <1>3
  <2> DEFINE g == [i \in 0 .. n + 1 |-> IF i = n + 1 THEN Step(u[i - 1]) ELSE u[i]]
  <2>2. ASSUME NEW i \in 0 .. n + 1
        PROVE g[i] = IF i = 0 THEN a ELSE Step(g[i - 1])
    <3>1. CASE i = n + 1
        BY <3>1
    <3>2. CASE i \in 1 .. n
      <4>1. g[i] = u[i] /\ g[i - 1] = u[i - 1]
          BY <3>2
      <4>2. u[i] = Step(u[i - 1])
          BY <2>1, <3>2
      <4> QED
          BY <3>2, <4>1, <4>2
    <3>3. CASE i = 0
        BY <2>1, <3>3
    <3> QED
        BY <3>1, <3>2, <3>3
  <2>3. g = Rule(g, n + 1)
      BY <2>2
  <2> QED
      BY <2>3
<1>4. T = {}
  <2> HIDE DEF T
  <2>1. T \subseteq Nat
      BY DEF T
  <2> QED
      BY <1>2, <1>3, <2>1, Smallest
<1>6. \E u : u = Rule(u, m)
    BY <1>4, <1>5
<1> DEFINE r == CHOOSE u : u = Rule(u, m)
<1>7. r = Rule(r, m)
    BY <1>6
<1> HIDE DEF r
<1>8. r[0] = a
    BY <1>5, <1>7
<1>9. ASSUME NEW n \in 1 .. m PROVE r[n] = Step(r[n - 1])
    BY <1>5, <1>7
<1>10. LayoutRun(f) = r
    BY <1>1 DEF r
<1> QED
    BY <1>0, <1>5, <1>8, <1>9, <1>10 DEF a, m

LEMMA LayStart ==
    ASSUME NEW f, WellFormed(f)
    PROVE  LET s == [stack |-> <<f.entry>>, list |-> <<>>]
           IN  LayInv(f, s) /\ LayLeft(f, s) = LayoutTurns(f)
<1> DEFINE B == DOMAIN f.code
           s == [stack |-> <<f.entry>>, list |-> <<>>]
           c == Cardinality(B)
<1>1. f.entry \in B /\ c \in Nat
    BY FS_CardinalityType DEF WellFormed
<1>2. <<f.entry>> \in Seq(B) /\ Len(<<f.entry>>) = 1 /\ <<f.entry>>[1] = f.entry
    BY <1>1, ShortSequences
<1>3. <<>> \in Seq(B) /\ Len(<<>>) = 0
    BY EmptySeq
<1>4. s.stack = <<f.entry>> /\ s.list = <<>> /\ s \in [stack : Seq(B), list : Seq(B)]
    BY <1>2, <1>3
<1> HIDE DEF s
<1>5. Len(s.list) = 0 /\ Len(s.stack) = 1 /\ s.stack[1] = f.entry
    BY <1>2, <1>3, <1>4
<1>6. LayShape(f, s)
    BY <1>4, <1>5 DEF LayShape
<1>7. LayOrder(f, s.list) /\ LayPreds(f, s.list)
    BY <1>5 DEF LayOrder, LayPreds
<1>8. LayStack(f, s)
    BY <1>5 DEF LayStack
<1>9. LayLeft(f, s) = LayoutTurns(f)
    BY <1>1, <1>5 DEF LayLeft, LayoutTurns
<1> QED
    BY <1>6, <1>7, <1>8, <1>9 DEF LayInv, s

(* The invariant holds at every turn, and the last leaves nothing on the   *)
(* stack.                                                                  *)
LEMMA LayAlways ==
    ASSUME NEW f, WellFormed(f)
    PROVE  /\ \A k \in 0 .. LayoutTurns(f) : LayInv(f, LayoutRun(f)[k])
           /\ LayoutRun(f)[LayoutTurns(f)].stack = <<>>
<1> DEFINE m == LayoutTurns(f)
           run == LayoutRun(f)
           Good(k) == LayInv(f, run[k]) /\ (run[k].stack = <<>> \/ LayLeft(f, run[k]) + k <= m)
           T == {k \in Nat : k <= m /\ ~Good(k)}
<1>1. /\ m \in Nat /\ run[0] = [stack |-> <<f.entry>>, list |-> <<>>]
      /\ \A k \in 1 .. m : run[k] = Sequential(f, run[k - 1])
    BY LayoutHasTurns
<1> HIDE DEF run, m
<1>2. \A s : LayInv(f, s) => LayLeft(f, s) \in Nat
    BY FewListed DEF LayInv
<1>3. 0 \notin T
  <2>1. LayInv(f, run[0]) /\ LayLeft(f, run[0]) = m
      BY <1>1, LayStart DEF m
  <2> QED
      BY <1>1, <2>1
<1>4. ASSUME NEW k \in Nat, k \notin T PROVE k + 1 \notin T
  <2> SUFFICES ASSUME k + 1 <= m PROVE Good(k + 1)
      OBVIOUS
  <2>1. k <= m /\ k + 1 \in 1 .. m /\ (k + 1) - 1 = k
      BY <1>1
  <2>2. Good(k)
      BY <1>4, <2>1
  <2> DEFINE s == run[k]
  <2>3. run[k + 1] = Sequential(f, s)
      BY <1>1, <2>1
  <2> HIDE DEF s
  <2>4. LayInv(f, s) /\ (s.stack = <<>> \/ LayLeft(f, s) + k <= m)
      BY <2>2 DEF s
  <2>5. LayInv(f, run[k + 1])
      BY <2>3, <2>4, LayStepKeeps
  <2>6. CASE s.stack = <<>>
    <3>1. run[k + 1] = s
        BY <2>3, <2>6 DEF Sequential
    <3> QED
        BY <2>5, <2>6, <3>1
  <2>7. CASE s.stack /= <<>>
    <3>1. LayLeft(f, run[k + 1]) < LayLeft(f, s) /\ LayLeft(f, s) + k <= m
        BY <2>3, <2>4, <2>7, LayStepKeeps
    <3>2. LayLeft(f, run[k + 1]) \in Nat /\ LayLeft(f, s) \in Nat
        BY <1>2, <2>4, <2>5
    <3>3. \A x, y \in Nat : x < y /\ y + k <= m => x + (k + 1) <= m
        BY <1>1
    <3>4. LayLeft(f, run[k + 1]) + (k + 1) <= m
        BY <3>1, <3>2, <3>3
    <3> QED
        BY <2>5, <3>4
  <2> QED
      BY <2>6, <2>7
<1>5. T = {}
  <2> HIDE DEF T
  <2>1. T \subseteq Nat
      BY DEF T
  <2> QED
      BY <1>3, <1>4, <2>1, Smallest
<1>6. \A k \in 0 .. m : Good(k)
    BY <1>1, <1>5
<1>7. run[m].stack = <<>>
  <2> DEFINE s == run[m]
  <2>1. LayInv(f, s) /\ (s.stack = <<>> \/ LayLeft(f, s) + m <= m)
      BY <1>1, <1>6
  <2> HIDE DEF s
  <2>2. SUFFICES ASSUME s.stack /= <<>> PROVE FALSE
      BY DEF s
  <2>3. LayLeft(f, s) \in Nat /\ LayLeft(f, s) + m <= m
      BY <1>2, <2>1, <2>2
  <2>4. LayLeft(f, s) = 0
      BY <1>1, <2>3
  <2> DEFINE c == Cardinality(DOMAIN f.code)
  <2>5. c \in Nat /\ Len(s.list) <= c /\ Len(s.list) \in Nat /\ Len(s.stack) \in Nat
      BY <2>1, FewListed DEF LayInv
  <2>6. 3 * (c - Len(s.list)) + Len(s.stack) = 0
      BY <2>4 DEF LayLeft
  <2> HIDE DEF c
  <2>7. Len(s.stack) = 0
    <3>1. \A x, y, z \in Nat : y <= x /\ 3 * (x - y) + z = 0 => z = 0
        OBVIOUS
    <3> QED
        BY <2>5, <2>6, <3>1
  <2>8. s.stack \in Seq(DOMAIN f.code)
      BY <2>1 DEF LayInv, LayShape
  <2> QED
      BY <2>2, <2>7, <2>8, EmptySeq
<1> QED
    BY <1>6, <1>7 DEF m, run

(* The list the loop builds, before the exit is put behind it.             *)
Listed(f) == LayoutRun(f)[LayoutTurns(f)].list

LEMMA ListedStartsAtEntry ==
    ASSUME NEW f, WellFormed(f)
    PROVE  /\ Listed(f) \in Seq(DOMAIN f.code) /\ Len(Listed(f)) \in Nat \ {0} /\ Listed(f)[1] = f.entry
           /\ \A i, j \in 1 .. Len(Listed(f)) : Listed(f)[i] = Listed(f)[j] => i = j
           /\ LayOrder(f, Listed(f)) /\ LayPreds(f, Listed(f))
<1> DEFINE s == LayoutRun(f)[LayoutTurns(f)]
<1>1. LayInv(f, s) /\ s.stack = <<>>
  <2>1. LayoutTurns(f) \in Nat
      BY LayoutHasTurns
  <2>2. LayoutTurns(f) \in 0 .. LayoutTurns(f)
    <3>1. \A m \in Nat : m \in 0 .. m
        OBVIOUS
    <3> QED
        BY <2>1, <3>1
  <2> HIDE DEF s
  <2>3. \A k \in 0 .. LayoutTurns(f) : LayInv(f, LayoutRun(f)[k])
      BY LayAlways
  <2> QED
      BY <2>2, <2>3, LayAlways DEF s
<1>2. Listed(f) = s.list
    BY DEF Listed
<1> HIDE DEF s
<1>3. LayShape(f, s) /\ LayOrder(f, s.list) /\ LayPreds(f, s.list) /\ LayStack(f, s)
    BY <1>1 DEF LayInv
<1>4. s.list \in Seq(DOMAIN f.code)
    BY <1>3 DEF LayShape
<1>5. Len(s.list) /= 0
  <2>1. Len(s.stack) = 0
      BY <1>1
  <2> QED
      BY <1>3, <2>1 DEF LayStack
<1>6. Len(s.list) \in Nat \ {0}
    BY <1>4, <1>5
<1>7. s.list[1] = f.entry
    BY <1>3, <1>6 DEF LayOrder
<1> QED
    BY <1>2, <1>3, <1>4, <1>6, <1>7 DEF LayShape

(* The order in which the blocks of a function are printed and translated: *)
(* the loop of GetSequentialNodes empties its stack within LayoutTurns     *)
(* turns; no block is listed twice; the entry is first and the exit last;  *)
(* every block but those two is jumped to by an earlier one, and each but  *)
(* the exit comes after all its predecessors, those ending in a continue   *)
(* apart.                                                                  *)
THEOREM LayoutOrdered ==
    ASSUME NEW f, WellFormed(f)
    PROVE  LET nodes == GetSequentialNodes(f)
           IN  /\ LayoutRun(f)[LayoutTurns(f)].stack = <<>>
               /\ nodes \in Seq(DOMAIN f.code) /\ Len(nodes) \in Nat \ {0}
               /\ \A i, j \in 1 .. Len(nodes) : nodes[i] = nodes[j] => i = j
               /\ nodes[1] = f.entry /\ nodes[Len(nodes)] = f.exit
               /\ \A k \in 2 .. Len(nodes) - 1 : \E j \in 1 .. k - 1 : JumpsTo(f, nodes[j], nodes[k])
               /\ \A k \in 2 .. Len(nodes) - 1 : \A p \in Preds(f, nodes[k]) :
                      "Continue" \in f.attr[p] \/ \E j \in 1 .. k - 1 : nodes[j] = p
<1> DEFINE B == DOMAIN f.code
           list == Listed(f)
           nodes == GetSequentialNodes(f)
           n == Len(list)
<1>1. /\ list \in Seq(B) /\ n \in Nat \ {0} /\ list[1] = f.entry
      /\ \A i, j \in 1 .. n : list[i] = list[j] => i = j
      /\ LayOrder(f, list) /\ LayPreds(f, list)
    BY ListedStartsAtEntry
<1>2. nodes = IF f.exit \in ToSet(list) THEN list ELSE Append(list, f.exit)
    BY DEF GetSequentialNodes, Listed
<1>3. ToSet(list) = {list[k] : k \in 1 .. n}
    BY <1>1, ToSetIs
<1>4. f.exit \in B /\ \A b : ~JumpsTo(f, f.exit, b)
  <2>1. ToSet(<<>>) = {}
      BY EmptySeq DEF ToSet
  <2> QED
      BY <2>1 DEF WellFormed, JumpsTo
<1>5. LayoutRun(f)[LayoutTurns(f)].stack = <<>>
    BY LayAlways
<1> HIDE DEF list, nodes
<1>6. /\ \A k \in 2 .. n : \E j \in 1 .. k - 1 : JumpsTo(f, list[j], list[k])
      /\ \A k \in 2 .. n : \A p \in Preds(f, list[k]) : "Continue" \in f.attr[p] \/ \E j \in 1 .. k - 1 : list[j] = p
  <2>1. ASSUME NEW k \in 2 .. n PROVE k \in 1 .. n /\ list[k] /= f.entry
    <3>1. k \in 1 .. n /\ 1 \in 1 .. n /\ k /= 1
        BY <1>1
    <3> QED
        BY <1>1, <3>1
  <2> QED
      BY <1>1, <2>1 DEF LayOrder, LayPreds
<1>n. n = Len(list)
    OBVIOUS
<1> HIDE DEF n
<1>7. CASE f.exit \in ToSet(list)
  <2>1. PICK e \in 1 .. n : list[e] = f.exit
      BY <1>3, <1>7
  <2>2. f.exit = f.entry
      BY <1>1, <1>n, <2>1 DEF LayPreds
  <2>3. n = 1
    <3>1. SUFFICES ASSUME 2 <= n PROVE FALSE
        BY <1>1
    <3>2. PICK j \in 1 .. 2 - 1 : JumpsTo(f, list[j], list[2])
        BY <1>1, <1>6, <3>1
    <3>3. j = 1
        OBVIOUS
    <3> QED
        BY <1>1, <1>4, <2>2, <3>2, <3>3
  <2>4. nodes = list /\ Len(nodes) = 1
      BY <1>2, <1>7, <1>n, <2>3
  <2>5. nodes[1] = f.entry /\ nodes[Len(nodes)] = f.exit /\ nodes \in Seq(B)
      BY <1>1, <2>2, <2>4
  <2>6. \A i, j \in 1 .. Len(nodes) : nodes[i] = nodes[j] => i = j
      BY <2>4
  <2>7. \A k : k \notin 2 .. Len(nodes) - 1
      BY <2>4
  <2> QED
      BY <1>5, <2>4, <2>5, <2>6, <2>7 DEF nodes
<1>8. CASE f.exit \notin ToSet(list)
  <2>1. nodes = Append(list, f.exit)
      BY <1>2, <1>8
  <2>2. /\ nodes \in Seq(B) /\ Len(nodes) = n + 1 /\ nodes[n + 1] = f.exit
        /\ \A i \in 1 .. n : nodes[i] = list[i]
    <3>1. Append(list, f.exit) \in Seq(B)
        BY <1>1, <1>4, AppendProperties
    <3>2. /\ Len(Append(list, f.exit)) = n + 1 /\ Append(list, f.exit)[n + 1] = f.exit
          /\ \A i \in 1 .. n : Append(list, f.exit)[i] = list[i]
        BY <1>1, <1>4, <1>n, AppendProperties
    <3> QED
        BY <2>1, <3>1, <3>2
  <2>3. \A i \in 1 .. n : list[i] /= f.exit
      BY <1>3, <1>8
  <2>4. ASSUME NEW i \in 1 .. n + 1, NEW j \in 1 .. n + 1, nodes[i] = nodes[j] PROVE i = j
    <3>1. i \in 1 .. n \/ i = n + 1
        BY <1>1
    <3>2. j \in 1 .. n \/ j = n + 1
        BY <1>1
    <3> QED
        BY <1>1, <2>2, <2>3, <2>4, <3>1, <3>2
  <2>5. nodes[1] = f.entry /\ nodes[Len(nodes)] = f.exit /\ Len(nodes) \in Nat \ {0}
    <3>1. 1 \in 1 .. n /\ n + 1 \in Nat \ {0}
        BY <1>1
    <3> QED
        BY <1>1, <2>2, <3>1
  <2>6. Len(nodes) - 1 = n
      BY <1>1, <2>2
  <2>7. ASSUME NEW k \in 2 .. n PROVE nodes[k] = list[k] /\ \A j \in 1 .. k - 1 : nodes[j] = list[j]
      BY <1>1, <2>2
  <2>8. /\ \A k \in 2 .. n : \E j \in 1 .. k - 1 : JumpsTo(f, nodes[j], nodes[k])
        /\ \A k \in 2 .. n : \A p \in Preds(f, nodes[k]) : "Continue" \in f.attr[p] \/ \E j \in 1 .. k - 1 : nodes[j] = p
    <3> SUFFICES ASSUME NEW k \in 2 .. n
                 PROVE  /\ \E j \in 1 .. k - 1 : JumpsTo(f, nodes[j], nodes[k])
                        /\ \A p \in Preds(f, nodes[k]) : "Continue" \in f.attr[p] \/ \E j \in 1 .. k - 1 : nodes[j] = p
        OBVIOUS
    <3>1. nodes[k] = list[k] /\ \A j \in 1 .. k - 1 : nodes[j] = list[j]
        BY <2>7
    <3>2. \E j \in 1 .. k - 1 : JumpsTo(f, list[j], list[k])
        BY <1>6
    <3>3. \A p \in Preds(f, list[k]) : "Continue" \in f.attr[p] \/ \E j \in 1 .. k - 1 : list[j] = p
        BY <1>6
    <3> QED
        BY <3>1, <3>2, <3>3
  <2>9. \A i, j \in 1 .. Len(nodes) : nodes[i] = nodes[j] => i = j
      BY <2>2, <2>4
  <2>10. nodes \in Seq(B)
      BY <2>2
  <2> QED
      BY <1>5, <2>5, <2>6, <2>8, <2>9, <2>10 DEF nodes
<1> QED
    BY <1>7, <1>8 DEF nodes

LEMMA OwnSequence ==
    ASSUME NEW S, NEW s \in Seq(S)
    PROVE  s \in Seq(ToSet(s)) /\ ToSet(s) \subseteq S
<1>1. Len(s) \in Nat /\ DOMAIN s = 1 .. Len(s) /\ \A k \in 1 .. Len(s) : s[k] \in S
    OBVIOUS
<1>2. ToSet(s) = {s[k] : k \in 1 .. Len(s)}
    BY <1>1 DEF ToSet
<1>3. \A k \in 1 .. Len(s) : s[k] \in ToSet(s)
    BY <1>2
<1>4. s = [k \in 1 .. Len(s) |-> s[k]]
    OBVIOUS
<1>5. s \in [1 .. Len(s) -> ToSet(s)]
    BY <1>3, <1>4
<1> QED
    BY <1>1, <1>2, <1>5, SeqDef

(* A block the layout lists jumps to the exit, unless the exit is where    *)
(* the function starts.                                                    *)
ExitJumpedTo(f) == f.entry = f.exit \/ \E a \in ToSet(GetSequentialNodes(f)) : JumpsTo(f, a, f.exit)

LEMMA JumpedToByEarlier ==
    ASSUME NEW f, WellFormed(f), ExitJumpedTo(f)
    PROVE  LET nodes == GetSequentialNodes(f)
           IN  \A k \in 2 .. Len(nodes) : \E j \in 1 .. k - 1 : JumpsTo(f, nodes[j], nodes[k])
<1> DEFINE nodes == GetSequentialNodes(f)
           n == Len(nodes)
<1>1. /\ nodes \in Seq(DOMAIN f.code) /\ n \in Nat \ {0} /\ nodes[1] = f.entry /\ nodes[n] = f.exit
      /\ \A i, j \in 1 .. n : nodes[i] = nodes[j] => i = j
      /\ \A k \in 2 .. n - 1 : \E j \in 1 .. k - 1 : JumpsTo(f, nodes[j], nodes[k])
    BY LayoutOrdered
<1>2. ToSet(nodes) = {nodes[k] : k \in 1 .. n}
    BY <1>1, ToSetIs
<1>3. f.entry = f.exit \/ \E a \in ToSet(nodes) : JumpsTo(f, a, f.exit)
    BY DEF ExitJumpedTo
<1>4. \A b : ~JumpsTo(f, f.exit, b)
  <2>1. ToSet(<<>>) = {}
      BY EmptySeq DEF ToSet
  <2> QED
      BY <2>1 DEF WellFormed, JumpsTo
<1> HIDE DEF nodes, n
<1>5. ASSUME 2 <= n PROVE \E j \in 1 .. n - 1 : JumpsTo(f, nodes[j], nodes[n])
  <2>1. 1 \in 1 .. n /\ n \in 1 .. n /\ n /= 1
      BY <1>1, <1>5
  <2>2. f.entry /= f.exit
      BY <1>1, <2>1
  <2>3. PICK j \in 1 .. n : JumpsTo(f, nodes[j], f.exit)
      BY <1>2, <1>3, <2>2
  <2>4. j /= n
      BY <1>1, <1>4, <2>3
  <2>5. j \in 1 .. n - 1
      BY <1>1, <2>4
  <2> QED
      BY <1>1, <2>3, <2>5
<1>6. ASSUME NEW k \in 2 .. n PROVE \E j \in 1 .. k - 1 : JumpsTo(f, nodes[j], nodes[k])
  <2>1. k \in 2 .. n - 1 \/ (k = n /\ 2 <= n)
      BY <1>1
  <2> QED
      BY <1>1, <1>5, <2>1
<1> QED
    BY <1>6 DEF nodes, n

(* What liveness assumes of the blocks' order (LayoutAssumption) is what   *)
(* GetSequentialNodes gives it: when the blocks are numbered in its order, *)
(* nothing jumps back to the entry and the exit is jumped to, every block  *)
(* but the first has a predecessor before it.                              *)
THEOREM LayoutDischarges ==
    ASSUME NEW f, WellFormed(f), ExitJumpedTo(f), N = Len(GetSequentialNodes(f)),
           \A a \in ToSet(GetSequentialNodes(f)) : ~JumpsTo(f, a, f.entry),
           NEW p,
           p.succ = [i \in Blocks |-> {j \in Blocks : JumpsTo(f, GetSequentialNodes(f)[i], GetSequentialNodes(f)[j])}]
    PROVE  LaidOut(p)
<1> DEFINE nodes == GetSequentialNodes(f)
<1>1. nodes \in Seq(DOMAIN f.code) /\ nodes[1] = f.entry /\ N \in Nat \ {0}
    BY LayoutOrdered
<1>2. ToSet(nodes) = {nodes[k] : k \in 1 .. N}
    BY <1>1, ToSetIs
<1>3. \A k \in 2 .. N : \E j \in 1 .. k - 1 : JumpsTo(f, nodes[j], nodes[k])
    BY JumpedToByEarlier
<1>4. \A i \in 1 .. N : ~JumpsTo(f, nodes[i], f.entry)
    BY <1>2
<1>5. \A i, j \in 1 .. N : j \in p.succ[i] <=> JumpsTo(f, nodes[i], nodes[j])
    BY DEF Blocks
<1> HIDE DEF nodes
<1>6. 1 \in 1 .. N
    BY <1>1
<1>7. ASSUME NEW b \in 1 .. N PROVE 1 \notin p.succ[b]
    BY <1>1, <1>4, <1>5, <1>6
<1>8. ASSUME NEW b \in 1 .. N, b > 1 PROVE \E a \in 1 .. b - 1 : b \in p.succ[a]
  <2>1. b \in 2 .. N
      BY <1>1, <1>8
  <2>2. PICK a \in 1 .. b - 1 : JumpsTo(f, nodes[a], nodes[b])
      BY <1>3, <2>1
  <2>3. a \in 1 .. N
      BY <1>1
  <2> QED
      BY <1>5, <2>2, <2>3
<1> QED
    BY <1>7, <1>8 DEF LaidOut, Blocks

-----------------------------------------------------------------------------
(* Dominance. *)

(* What holds of the entry and goes from each block of a walk to the next  *)
(* holds of where the walk ends.                                           *)
LEMMA AlongWalk ==
    ASSUME NEW nodes, NEW f, Connected(f, nodes),
           NEW n \in ToSet(nodes), NEW w \in WalksTo(f, n), NEW T, f.entry \in T,
           \A k \in 1 .. Len(w) - 1 : w[k] \in T /\ w[k] \in ToSet(nodes) /\ w[k + 1] \in ToSet(nodes)
                                         => w[k + 1] \in T
    PROVE  n \in T
<1> DEFINE L == ToSet(nodes)
           U == {k \in Nat : k >= 1 /\ k <= Len(w) /\ w[k] \in L /\ w[k] \notin T}
<1>1. /\ Len(w) \in Nat /\ Len(w) >= 1 /\ w[1] = f.entry /\ w[Len(w)] = n
      /\ \A k \in 1 .. Len(w) - 1 : <<w[k], w[k + 1]>> \in f.edge
    BY EmptySeq, LenProperties DEF WalksTo
<1>2. \A e \in f.edge : e[2] \in L => e[1] \in L
    BY DEF Connected, Preds
<1>3. 0 \notin U
    OBVIOUS
<1>4. ASSUME NEW k \in Nat, k \notin U PROVE k + 1 \notin U
  <2>1. SUFFICES ASSUME k + 1 <= Len(w), w[k + 1] \in L PROVE w[k + 1] \in T
      OBVIOUS
  <2>2. CASE k = 0
      BY <1>1, <2>2
  <2>3. CASE k /= 0
    <3>1. k \in 1 .. Len(w) - 1
        BY <1>1, <2>1, <2>3
    <3>2. <<w[k], w[k + 1]>> \in f.edge
        BY <1>1, <3>1
    <3>3. w[k] \in L
      <4> HIDE DEF L
      <4> DEFINE e == <<w[k], w[k + 1]>>
      <4>1. e[1] = w[k] /\ e[2] = w[k + 1] /\ e \in f.edge
          BY <3>2
      <4> HIDE DEF e
      <4> QED
          BY <1>2, <2>1, <4>1
    <3>4. w[k] \in T
        BY <1>4, <3>1, <3>3
    <3> QED
        BY <2>1, <3>1, <3>3, <3>4
  <2> QED
      BY <2>2, <2>3
<1>5. U = {}
  <2>1. U \in SUBSET Nat
      OBVIOUS
  <2> HIDE DEF U
  <2> QED
      BY <1>3, <1>4, <2>1, Smallest
<1> QED
    BY <1>1, <1>5

LEMMA EntryWalk ==
    ASSUME NEW f
    PROVE  <<f.entry>> \in WalksTo(f, f.entry)
<1> DEFINE B == {f.entry} \cup {e[2] : e \in f.edge}
           w == <<f.entry>>
<1>1. f.entry \in B
    OBVIOUS
<1>2. w \in Seq(B) /\ Len(w) = 1 /\ w[1] = f.entry /\ w /= <<>>
    BY <1>1
<1> HIDE DEF B, w
<1>3. \A k \in 1 .. Len(w) - 1 : <<w[k], w[k + 1]>> \in f.edge
    BY <1>2
<1>4. w \in WalksTo(f, f.entry)
    BY <1>2, <1>3 DEF WalksTo, B
<1> QED
    BY <1>4 DEF w

(* A walk that goes on by an edge.                                         *)
LEMMA WalkGrows ==
    ASSUME NEW f, NEW x, NEW y, <<x, y>> \in f.edge, NEW w \in WalksTo(f, x)
    PROVE  /\ Append(w, y) \in WalksTo(f, y)
           /\ \A d : d /= y => (Passes(Append(w, y), d) <=> Passes(w, d))
<1> DEFINE B == {f.entry} \cup {e[2] : e \in f.edge}
           v == Append(w, y)
<1>1. y \in B
  <2> DEFINE e == <<x, y>>
  <2>1. e \in f.edge /\ e[2] = y
      OBVIOUS
  <2> HIDE DEF e
  <2> QED
      BY <2>1
<1>2. /\ w \in Seq(B) /\ w /= <<>> /\ w[1] = f.entry /\ w[Len(w)] = x
      /\ \A k \in 1 .. Len(w) - 1 : <<w[k], w[k + 1]>> \in f.edge
    BY DEF WalksTo
<1> HIDE DEF B
<1>3. Len(w) \in Nat /\ Len(w) >= 1
    BY <1>2, EmptySeq, LenProperties
<1>4. /\ v \in Seq(B) /\ Len(v) = Len(w) + 1 /\ v[Len(w) + 1] = y
      /\ \A k \in 1 .. Len(w) : v[k] = w[k]
    BY <1>1, <1>2, AppendProperties
<1> HIDE DEF v
<1>5. v /= <<>> /\ v[1] = f.entry /\ v[Len(v)] = y
  <2>1. v[1] = f.entry /\ v[Len(v)] = y
      BY <1>2, <1>3, <1>4
  <2>2. v /= <<>>
      BY <1>3, <1>4, EmptySeq
  <2> QED
      BY <2>1, <2>2
<1>6. ASSUME NEW k \in 1 .. Len(v) - 1 PROVE <<v[k], v[k + 1]>> \in f.edge
  <2>1. CASE k = Len(w)
      BY <1>2, <1>3, <1>4, <2>1
  <2>2. CASE k \in 1 .. Len(w) - 1
    <3>1. v[k] = w[k] /\ v[k + 1] = w[k + 1]
        BY <1>3, <1>4, <2>2
    <3> QED
        BY <1>2, <2>2, <3>1
  <2> QED
      BY <1>3, <1>4, <2>1, <2>2
<1>7. v \in WalksTo(f, y)
    BY <1>4, <1>5, <1>6 DEF WalksTo, B
<1>8. ASSUME NEW d, d /= y PROVE Passes(v, d) <=> Passes(w, d)
  <2>1. \A k \in 1 .. Len(v) : k = Len(w) + 1 \/ k \in 1 .. Len(w)
      BY <1>3, <1>4
  <2>2. \A k \in 1 .. Len(w) : k \in 1 .. Len(v)
      BY <1>3, <1>4
  <2> QED
      BY <1>4, <1>8, <2>1, <2>2 DEF Passes
<1> QED
    BY <1>7, <1>8 DEF v

(* The blocks some walk leads to that stays clear of d.                    *)
Clear(f, nodes, d) == {n \in ToSet(nodes) : ~Dominates(f, d, n)}

LEMMA ClearEntry ==
    ASSUME NEW nodes, NEW f, Connected(f, nodes), NEW d, d /= f.entry
    PROVE  f.entry \in Clear(f, nodes, d)
<1> DEFINE w == <<f.entry>>
<1>1. w \in WalksTo(f, f.entry)
    BY EntryWalk
<1>2. ~Passes(w, d)
    BY DEF Passes
<1> HIDE DEF w
<1> QED
    BY <1>1, <1>2 DEF Clear, Dominates, Connected

LEMMA ClearStep ==
    ASSUME NEW nodes, NEW f, NEW d, NEW x \in Clear(f, nodes, d), NEW y \in ToSet(nodes),
           <<x, y>> \in f.edge, y /= d
    PROVE  y \in Clear(f, nodes, d)
<1>1. PICK w \in WalksTo(f, x) : ~Passes(w, d)
    BY DEF Clear, Dominates
<1>2. Append(w, y) \in WalksTo(f, y) /\ ~Passes(Append(w, y), d)
    BY <1>1, WalkGrows
<1> QED
    BY <1>2 DEF Clear, Dominates

LEMMA LastPassed ==
    ASSUME NEW f, NEW n, NEW w \in WalksTo(f, n)
    PROVE  Passes(w, n) /\ Passes(w, f.entry)
<1> DEFINE B == {f.entry} \cup {e[2] : e \in f.edge}
<1>1. w \in Seq(B) /\ w /= <<>> /\ w[1] = f.entry /\ w[Len(w)] = n
    BY DEF WalksTo
<1> HIDE DEF B
<1>2. Len(w) \in 1 .. Len(w) /\ 1 \in 1 .. Len(w)
    BY <1>1, EmptySeq, LenProperties
<1> QED
    BY <1>1, <1>2 DEF Passes

LEMMA OwnDominator ==
    ASSUME NEW nodes, NEW f
    PROVE  /\ \A d : d \notin Clear(f, nodes, d)
           /\ Clear(f, nodes, f.entry) = {}
    BY LastPassed DEF Clear, Dominates

(* Every set that holds the entry, if d is another, and all edges lead on  *)
(* but those into d, has all blocks clear of d.                            *)
LEMMA ClearLeast ==
    ASSUME NEW nodes, NEW f, Connected(f, nodes), NEW d, NEW T,
           d /= f.entry => f.entry \in T,
           \A x \in T \cap ToSet(nodes) : \A y \in ToSet(nodes) : <<x, y>> \in f.edge /\ y /= d => y \in T
    PROVE  Clear(f, nodes, d) \subseteq T
<1> SUFFICES ASSUME NEW n \in Clear(f, nodes, d) PROVE n \in T
    OBVIOUS
<1>1. PICK w \in WalksTo(f, n) : ~Passes(w, d)
    BY DEF Clear, Dominates
<1>2. Len(w) \in Nat /\ \A k \in 1 .. Len(w) - 1 : <<w[k], w[k + 1]>> \in f.edge
    BY LenProperties DEF WalksTo
<1>3. d /= f.entry
    BY OwnDominator
<1>4. ASSUME NEW k \in 1 .. Len(w) - 1, w[k] \in T, w[k] \in ToSet(nodes), w[k + 1] \in ToSet(nodes)
      PROVE  w[k + 1] \in T
  <2>1. <<w[k], w[k + 1]>> \in f.edge
      BY <1>2
  <2>2. w[k + 1] /= d
      BY <1>1, <1>2 DEF Passes
  <2> QED
      BY <1>4, <2>1, <2>2
<1>5. n \in ToSet(nodes)
    BY DEF Clear
<1> QED
    BY <1>3, <1>4, <1>5, AlongWalk

LEMMA AllReached ==
    ASSUME NEW nodes, NEW f, Connected(f, nodes), NEW T, f.entry \in T,
           \A x \in T \cap ToSet(nodes) : \A y \in ToSet(nodes) : <<x, y>> \in f.edge => y \in T
    PROVE  ToSet(nodes) \subseteq T
<1> SUFFICES ASSUME NEW n \in ToSet(nodes) PROVE n \in T
    OBVIOUS
<1>1. PICK w \in WalksTo(f, n) : TRUE
    BY DEF Connected
<1>2. Len(w) \in Nat /\ \A k \in 1 .. Len(w) - 1 : <<w[k], w[k + 1]>> \in f.edge
    BY LenProperties DEF WalksTo
<1>4. ASSUME NEW k \in 1 .. Len(w) - 1, w[k] \in T, w[k] \in ToSet(nodes), w[k + 1] \in ToSet(nodes)
      PROVE  w[k + 1] \in T
  <2>1. <<w[k], w[k + 1]>> \in f.edge
      BY <1>2
  <2> QED
      BY <1>4, <2>1
<1> QED
    BY <1>4, AlongWalk

(* The layout is what the dominators are worked out on: if the graph has   *)
(* an edge for every jump of a block that is listed, the exit is jumped to *)
(* and no block is left out that leads to the exit, back to the entry or   *)
(* by a continue to a listed one, a walk goes from the entry to each       *)
(* listed block and none is entered from outside.                          *)
THEOREM LayoutIsConnected ==
    ASSUME NEW f, WellFormed(f), ExitJumpedTo(f),
           \A e \in f.edge : e = <<e[1], e[2]>>,
           \A a \in ToSet(GetSequentialNodes(f)) : \A b : JumpsTo(f, a, b) => <<a, b>> \in f.edge,
           \A n \in ToSet(GetSequentialNodes(f)) : \A p \in Preds(f, n) :
               n \in {f.entry, f.exit} \/ "Continue" \in f.attr[p] => p \in ToSet(GetSequentialNodes(f))
    PROVE  Connected(f, GetSequentialNodes(f))
<1> DEFINE nodes == GetSequentialNodes(f)
           n == Len(nodes)
           L == ToSet(nodes)
<1>1. /\ nodes \in Seq(DOMAIN f.code) /\ n \in Nat \ {0} /\ nodes[1] = f.entry /\ nodes[n] = f.exit
      /\ \A k \in 2 .. n - 1 : \A p \in Preds(f, nodes[k]) :
             "Continue" \in f.attr[p] \/ \E j \in 1 .. k - 1 : nodes[j] = p
    BY LayoutOrdered
<1>2. L = {nodes[k] : k \in 1 .. n}
    BY <1>1, ToSetIs
<1>3. \A k \in 2 .. n : \E j \in 1 .. k - 1 : JumpsTo(f, nodes[j], nodes[k])
    BY JumpedToByEarlier
<1>4. \A a \in L : \A b : JumpsTo(f, a, b) => <<a, b>> \in f.edge
    OBVIOUS
<1>5. \A m \in L : \A p \in Preds(f, m) : m \in {f.entry, f.exit} \/ "Continue" \in f.attr[p] => p \in L
    OBVIOUS
<1>6. \A e \in f.edge : e = <<e[1], e[2]>>
    OBVIOUS
<1> HIDE DEF nodes, n, L
<1>7. f.entry \in L
    BY <1>1, <1>2
<1>8. ASSUME NEW m \in L, NEW p \in Preds(f, m) PROVE p \in L
  <2>1. PICK k \in 1 .. n : nodes[k] = m
      BY <1>2
  <2>2. CASE m \in {f.entry, f.exit}
      BY <1>5, <2>2
  <2>3. CASE m \notin {f.entry, f.exit}
    <3>1. k \in 2 .. n - 1
        BY <1>1, <2>1, <2>3
    <3>2. "Continue" \in f.attr[p] \/ \E j \in 1 .. k - 1 : nodes[j] = p
        BY <1>1, <2>1, <3>1
    <3>3. ASSUME NEW j \in 1 .. k - 1, nodes[j] = p PROVE p \in L
      <4>1. j \in 1 .. n
          BY <1>1
      <4> QED
          BY <1>2, <3>3, <4>1
    <3> QED
        BY <1>5, <3>2, <3>3
  <2> QED
      BY <2>2, <2>3
<1> DEFINE T == {k \in Nat : \E i \in 1 .. n : i <= k /\ WalksTo(f, nodes[i]) = {}}
<1>9. 0 \notin T
    OBVIOUS
<1>10. ASSUME NEW k \in Nat, k \notin T PROVE k + 1 \notin T
  <2>1. SUFFICES ASSUME NEW i \in 1 .. n, i <= k + 1 PROVE WalksTo(f, nodes[i]) /= {}
      OBVIOUS
  <2>2. CASE i <= k
      BY <1>10, <2>2
  <2>3. CASE i = 1
      BY <1>1, <2>3, EntryWalk
  <2>4. CASE i = k + 1 /\ i /= 1
    <3>1. i \in 2 .. n
        BY <1>1, <2>4
    <3>2. PICK j \in 1 .. i - 1 : JumpsTo(f, nodes[j], nodes[i])
        BY <1>3, <3>1
    <3>3. j \in 1 .. n /\ j <= k
        BY <1>1, <2>4
    <3>4. PICK w : w \in WalksTo(f, nodes[j])
        BY <1>10, <3>3
    <3>5. <<nodes[j], nodes[i]>> \in f.edge
        BY <1>2, <1>4, <3>2, <3>3
    <3> QED
        BY <3>4, <3>5, WalkGrows
  <2> QED
      BY <2>1, <2>2, <2>3, <2>4
<1>11. T = {}
  <2> HIDE DEF T
  <2>1. T \subseteq Nat
      BY DEF T
  <2> QED
      BY <1>9, <1>10, <2>1, Smallest
<1>12. ASSUME NEW m \in L PROVE WalksTo(f, m) /= {}
  <2>1. PICK k \in 1 .. n : nodes[k] = m
      BY <1>2
  <2>2. k \in Nat /\ k <= k
      OBVIOUS
  <2>3. k \notin T
      BY <1>11
  <2> QED
      BY <2>1, <2>2, <2>3
<1> QED
    BY <1>6, <1>7, <1>8, <1>12 DEF Connected, L, nodes

-----------------------------------------------------------------------------
(* The dominators of a block are its ancestors in a tree.                  *)

LEMMA DominatesItself ==
    ASSUME NEW nodes, NEW f, NEW n
    PROVE  Dominates(f, n, n) /\ Dominates(f, f.entry, n)
BY LastPassed DEF Dominates

LEMMA ClearGrows ==
    ASSUME NEW nodes, NEW f, Connected(f, nodes), NEW d, NEW e \in ToSet(nodes), Dominates(f, d, e), d /= e
    PROVE  Clear(f, nodes, d) \subseteq Clear(f, nodes, e)
<1> DEFINE T == Clear(f, nodes, d) \cap Clear(f, nodes, e)
<1>1. e \notin Clear(f, nodes, d)
    BY DEF Clear
<1>2. CASE d = f.entry
    BY <1>2, OwnDominator
<1>3. CASE d /= f.entry
  <2>1. f.entry \in T
      BY <1>1, <1>3, ClearEntry
  <2>2. ASSUME NEW x \in T, NEW y \in ToSet(nodes), <<x, y>> \in f.edge, y /= d
        PROVE  y \in T
    <3>1. y \in Clear(f, nodes, d)
        BY <2>2, ClearStep
    <3>2. y \in Clear(f, nodes, e)
        BY <2>2, <1>1, <3>1, ClearStep
    <3> QED
        BY <3>1, <3>2
  <2>3. Clear(f, nodes, d) \subseteq T
    <3> HIDE DEF T
    <3> QED
        BY <2>1, <2>2, ClearLeast
  <2> QED
      BY <2>3
<1> QED
    BY <1>2, <1>3

LEMMA DominatesTransitive ==
    ASSUME NEW nodes, NEW f, Connected(f, nodes), NEW d, NEW e \in ToSet(nodes), NEW n \in ToSet(nodes),
           Dominates(f, d, e), Dominates(f, e, n)
    PROVE  Dominates(f, d, n)
<1>1. CASE d = e
    BY <1>1
<1>2. CASE d /= e
  <2>1. Clear(f, nodes, d) \subseteq Clear(f, nodes, e)
      BY <1>2, ClearGrows
  <2> QED
      BY <2>1 DEF Clear
<1> QED
    BY <1>1, <1>2

LEMMA DominatesAntisymmetric ==
    ASSUME NEW nodes, NEW f, Connected(f, nodes), NEW d \in ToSet(nodes), NEW e \in ToSet(nodes),
           Dominates(f, d, e), Dominates(f, e, d)
    PROVE  d = e
<1> SUFFICES ASSUME d /= e PROVE FALSE
    OBVIOUS
<1> DEFINE T == Clear(f, nodes, d)
<1>1. T = Clear(f, nodes, e)
    BY ClearGrows
<1>2. d \notin T /\ e \notin T
    BY <1>1, OwnDominator
<1>3. f.entry \in T
    BY <1>1, ClearEntry
<1>4. ASSUME NEW x \in T, NEW y \in ToSet(nodes), <<x, y>> \in f.edge PROVE y \in T
  <2>1. CASE y /= d
      BY <1>4, <2>1, ClearStep
  <2>2. CASE y = d
    <3>1. y \in Clear(f, nodes, e)
        BY <1>1, <1>4, <2>2, ClearStep
    <3> QED
        BY <1>1, <3>1
  <2> QED
      BY <2>1, <2>2
<1>5. ToSet(nodes) \subseteq T
  <2> HIDE DEF T
  <2> QED
      BY <1>3, <1>4, AllReached
<1> QED
    BY <1>2, <1>5

LEMMA DominatorsInLine ==
    ASSUME NEW nodes, NEW f, Connected(f, nodes),
           NEW d \in ToSet(nodes), NEW e \in ToSet(nodes), NEW n \in ToSet(nodes),
           Dominates(f, d, n), Dominates(f, e, n)
    PROVE  Dominates(f, d, e) \/ Dominates(f, e, d)
<1> SUFFICES ASSUME ~Dominates(f, d, e), ~Dominates(f, e, d) PROVE FALSE
    OBVIOUS
<1> DEFINE T == Clear(f, nodes, d) \cup Clear(f, nodes, e)
<1>1. e \in Clear(f, nodes, d) /\ d \in Clear(f, nodes, e) /\ n \notin T
    BY DEF Clear
<1>2. f.entry \in T
    BY <1>1, ClearEntry, OwnDominator
<1>3. ASSUME NEW x \in T, NEW y \in ToSet(nodes), <<x, y>> \in f.edge PROVE y \in T
  <2>1. CASE x \in Clear(f, nodes, d)
      BY <1>1, <1>3, <2>1, ClearStep
  <2>2. CASE x \in Clear(f, nodes, e)
      BY <1>1, <1>3, <2>2, ClearStep
  <2> QED
      BY <2>1, <2>2
<1>4. ToSet(nodes) \subseteq T
  <2> HIDE DEF T
  <2> QED
      BY <1>2, <1>3, AllReached
<1> QED
    BY <1>1, <1>4

(* What dominates a block and is another dominates all it is entered from. *)
LEMMA DominatesBefore ==
    ASSUME NEW nodes, NEW f, Connected(f, nodes), NEW n \in ToSet(nodes), NEW d, Dominates(f, d, n), d /= n,
           NEW p \in Preds(f, n)
    PROVE  p \in ToSet(nodes) /\ Dominates(f, d, p)
<1>1. p \in ToSet(nodes)
    BY DEF Connected
<1>2. <<p, n>> \in f.edge
    BY DEF Preds, Connected
<1>3. SUFFICES ASSUME p \in Clear(f, nodes, d) PROVE FALSE
    BY <1>1 DEF Clear
<1>4. n \in Clear(f, nodes, d)
    BY <1>2, <1>3, ClearStep
<1> QED
    BY <1>4 DEF Clear

-----------------------------------------------------------------------------
(* The iteration. *)

(* Nothing that dominates a block has left its set.                        *)
Enclosing(f, nodes, dom) ==
    /\ dom \in [ToSet(nodes) -> SUBSET ToSet(nodes)]
    /\ dom[f.entry] = {f.entry}
    /\ \A n \in ToSet(nodes) : \A d \in ToSet(nodes) : Dominates(f, d, n) => d \in dom[n]

Within(nodes, new, old) == \A n \in ToSet(nodes) : new[n] \subseteq old[n]

LEMMA OnlyEntryDominatesIt ==
    ASSUME NEW f, NEW d, Dominates(f, d, f.entry)
    PROVE  d = f.entry
<1> DEFINE w == <<f.entry>>
<1>1. w \in WalksTo(f, f.entry)
    BY EntryWalk
<1>2. PICK k \in 1 .. Len(w) : w[k] = d
    BY <1>1 DEF Dominates, Passes
<1> QED
    BY <1>2

LEMMA FullEncloses ==
    ASSUME NEW nodes, NEW f, Connected(f, nodes)
    PROVE  Enclosing(f, nodes, FullSets(f, nodes))
BY OnlyEntryDominatesIt DEF Enclosing, FullSets, Connected

LEMMA IntersectionEncloses ==
    ASSUME NEW nodes, NEW f, Connected(f, nodes), NEW dom, Enclosing(f, nodes, dom), NEW n \in ToSet(nodes)
    PROVE  /\ Enclosing(f, nodes, IntersectPredecessorsDom(f, dom, n))
           /\ Within(nodes, IntersectPredecessorsDom(f, dom, n), dom)
<1> DEFINE L == ToSet(nodes)
           new == IntersectPredecessorsDom(f, dom, n)
           met == {n} \cup {m \in dom[n] : \A p \in Preds(f, n) : m \in SetOf(dom, p)}
<1>1. CASE n = f.entry
  <2>1. new = dom
      BY <1>1 DEF IntersectPredecessorsDom
  <2> QED
      BY <2>1 DEF Within
<1>2. CASE n /= f.entry
  <2>0. dom \in [L -> SUBSET L] /\ f.entry \in L
      BY DEF Enclosing, Connected
  <2>1. new = [dom EXCEPT ![n] = met]
      BY <1>2, <2>0 DEF IntersectPredecessorsDom
  <2>2. n \in dom[n]
      BY DominatesItself DEF Enclosing
  <2>3. met \in SUBSET L /\ met \subseteq dom[n]
      BY <2>0, <2>2
  <2>4. \A d \in L : Dominates(f, d, n) => d \in met
    <3> SUFFICES ASSUME NEW d \in L, Dominates(f, d, n), d /= n PROVE d \in met
        OBVIOUS
    <3>1. d \in dom[n]
        BY DEF Enclosing
    <3>2. ASSUME NEW p \in Preds(f, n) PROVE d \in SetOf(dom, p)
      <4>1. p \in L /\ Dominates(f, d, p)
          BY DominatesBefore
      <4>2. d \in dom[p]
          BY <4>1 DEF Enclosing
      <4> QED
          BY <2>0, <4>1, <4>2 DEF SetOf
    <3> QED
        BY <3>1, <3>2
  <2> HIDE DEF met
  <2>5. new \in [L -> SUBSET L] /\ new[n] = met /\ \A m \in L : m /= n => new[m] = dom[m]
      BY <2>0, <2>1, <2>3
  <2> HIDE DEF new, L
  <2>6. Enclosing(f, nodes, new)
      BY <1>2, <2>0, <2>4, <2>5 DEF Enclosing, L
  <2>7. Within(nodes, new, dom)
      BY <2>3, <2>5 DEF Within, L
  <2> QED
      BY <2>6, <2>7 DEF new
<1> QED
    BY <1>1, <1>2

(* The sets on the way through one turn.                                   *)
TurnSteps(r, f, nodes, dom) ==
    /\ r[0] = dom
    /\ IntersectAll(f, nodes, dom) = r[Len(nodes)]
    /\ \A k \in 1 .. Len(nodes) : r[k] = IntersectPredecessorsDom(f, r[k - 1], nodes[k])

LEMMA TurnHasSteps ==
    ASSUME NEW f, NEW nodes, nodes \in Seq(ToSet(nodes)), NEW dom
    PROVE  \E r : TurnSteps(r, f, nodes, dom)
<1> DEFINE Step(x, k) == CHOOSE s \in {IntersectPredecessorsDom(f, d, nodes[k]) : d \in {x}} : TRUE
           Rule(u, n) == [k \in 0 .. n |-> IF k = 0 THEN dom ELSE Step(u[k - 1], k)]
           T == {n \in Nat : ~\E u : u = Rule(u, n)}
<1>1. IntersectAll(f, nodes, dom) = (CHOOSE u : u = Rule(u, Len(nodes)))[Len(nodes)]
    BY DEF IntersectAll
<1>0. \A x, k : Step(x, k) = IntersectPredecessorsDom(f, x, nodes[k])
    OBVIOUS
<1> HIDE DEF Step
<1>2. 0 \notin T
  <2>1. [k \in 0 .. 0 |-> dom] = Rule([k \in 0 .. 0 |-> dom], 0)
      OBVIOUS
  <2> QED
      BY <2>1
<1>3. ASSUME NEW n \in Nat, n \notin T PROVE n + 1 \notin T
  <2>1. PICK u : u = Rule(u, n)
      BY <1>3
  <2> DEFINE g == [i \in 0 .. n + 1 |-> IF i = n + 1 THEN Step(u[i - 1], i) ELSE u[i]]
  <2>2. ASSUME NEW i \in 0 .. n + 1
        PROVE g[i] = IF i = 0 THEN dom ELSE Step(g[i - 1], i)
    <3>1. CASE i = n + 1
        BY <3>1
    <3>2. CASE i \in 1 .. n
      <4>1. g[i] = u[i] /\ g[i - 1] = u[i - 1]
          BY <3>2
      <4>2. u[i] = Step(u[i - 1], i)
          BY <2>1, <3>2
      <4> QED
          BY <3>2, <4>1, <4>2
    <3>3. CASE i = 0
        BY <2>1, <3>3
    <3> QED
        BY <3>1, <3>2, <3>3
  <2>3. g = Rule(g, n + 1)
      BY <2>2
  <2> QED
      BY <2>3
<1>4. T = {}
  <2> HIDE DEF T
  <2>1. T \subseteq Nat
      BY DEF T
  <2> QED
      BY <1>2, <1>3, <2>1, Smallest
<1>6. \E u : u = Rule(u, Len(nodes))
    BY <1>4
<1> DEFINE r == CHOOSE u : u = Rule(u, Len(nodes))
<1>7. r = Rule(r, Len(nodes))
    BY <1>6
<1> HIDE DEF r
<1>8. r[0] = dom
    BY <1>7
<1>9. ASSUME NEW n \in 1 .. Len(nodes) PROVE r[n] = Step(r[n - 1], n)
    BY <1>7
<1> QED
    BY <1>0, <1>1, <1>8, <1>9 DEF TurnSteps, r

LEMMA TurnEncloses ==
    ASSUME NEW f, NEW nodes, nodes \in Seq(ToSet(nodes)), Connected(f, nodes), NEW dom, Enclosing(f, nodes, dom)
    PROVE  LET new == IntersectAll(f, nodes, dom)
           IN  /\ Enclosing(f, nodes, new) /\ Within(nodes, new, dom)
               /\ new = dom => \A n \in ToSet(nodes) : IntersectPredecessorsDom(f, dom, n) = dom
<1> DEFINE new == IntersectAll(f, nodes, dom)
<1>1. PICK r : TurnSteps(r, f, nodes, dom)
    BY TurnHasSteps
<1>2. \A k \in 1 .. Len(nodes) : nodes[k] \in ToSet(nodes)
    BY DEF ToSet
<1> DEFINE Good(k) == Enclosing(f, nodes, r[k]) /\ \A j \in 0 .. k : Within(nodes, r[k], r[j])
           T == {k \in Nat : k <= Len(nodes) /\ ~Good(k)}
<1>3. 0 \notin T
    BY <1>1 DEF TurnSteps, Within
<1>4. ASSUME NEW k \in Nat, k \notin T PROVE k + 1 \notin T
  <2>1. SUFFICES ASSUME k + 1 <= Len(nodes) PROVE Good(k + 1)
      OBVIOUS
  <2>2. Good(k) /\ k + 1 \in 1 .. Len(nodes) /\ (k + 1) - 1 = k
      BY <1>4, <2>1
  <2>3. r[k + 1] = IntersectPredecessorsDom(f, r[k], nodes[k + 1])
      BY <1>1, <2>2 DEF TurnSteps
  <2>4. Enclosing(f, nodes, r[k + 1]) /\ Within(nodes, r[k + 1], r[k])
      BY <1>2, <2>2, <2>3, IntersectionEncloses
  <2>5. ASSUME NEW j \in 0 .. k + 1 PROVE Within(nodes, r[k + 1], r[j])
    <3>1. CASE j = k + 1
        BY <3>1 DEF Within
    <3>2. CASE j \in 0 .. k
        BY <2>2, <2>4, <3>2 DEF Within
    <3> QED
        BY <3>1, <3>2
  <2> QED
      BY <2>4, <2>5
<1>5. T = {}
  <2>1. T \in SUBSET Nat
      OBVIOUS
  <2> HIDE DEF T
  <2> QED
      BY <1>3, <1>4, <2>1, Smallest
<1>6. \A k \in 0 .. Len(nodes) : Good(k)
    BY <1>5
<1> HIDE DEF T
<1>7. new = r[Len(nodes)] /\ r[0] = dom
    BY <1>1 DEF TurnSteps
<1>8. Enclosing(f, nodes, new) /\ Within(nodes, new, dom)
    BY <1>6, <1>7
<1>9. ASSUME new = dom, NEW n \in ToSet(nodes) PROVE IntersectPredecessorsDom(f, dom, n) = dom
  <2>1. \A k \in 0 .. Len(nodes) : r[k] = dom
    <3> SUFFICES ASSUME NEW k \in 0 .. Len(nodes) PROVE r[k] = dom
        OBVIOUS
    <3>1. Within(nodes, r[k], r[0]) /\ Within(nodes, r[Len(nodes)], r[k]) /\ Enclosing(f, nodes, r[k])
        BY <1>6
    <3>2. \A m \in ToSet(nodes) : r[k][m] = dom[m]
        BY <1>7, <1>9, <3>1 DEF Within
    <3> QED
        BY <3>1, <3>2 DEF Enclosing
  <2>2. PICK k \in 1 .. Len(nodes) : nodes[k] = n
      BY DEF ToSet
  <2>3. r[k] = IntersectPredecessorsDom(f, r[k - 1], n)
      BY <1>1, <2>2 DEF TurnSteps
  <2>4. r[k] = dom /\ r[k - 1] = dom
      BY <2>1, <2>2
  <2> QED
      BY <2>3, <2>4
<1> QED
    BY <1>8, <1>9

(* Sets no block's turn changes are the sets of its dominators: those of   *)
(* all it is entered from, and itself.                                     *)
LEMMA SettledIsRight ==
    ASSUME NEW f, NEW nodes, Connected(f, nodes), NEW dom, Enclosing(f, nodes, dom),
           \A n \in ToSet(nodes) : IntersectPredecessorsDom(f, dom, n) = dom
    PROVE  \A n \in ToSet(nodes) : dom[n] = {d \in ToSet(nodes) : Dominates(f, d, n)}
<1> DEFINE L == ToSet(nodes)
<1>1. SUFFICES ASSUME NEW n \in L, NEW d \in dom[n] PROVE d \in L /\ Dominates(f, d, n)
    BY DEF Enclosing
<1>2. dom \in [L -> SUBSET L] /\ d \in L /\ f.entry \in L
    BY <1>1 DEF Enclosing, Connected
<1>3. SUFFICES ASSUME n \in Clear(f, nodes, d) PROVE FALSE
    BY <1>2 DEF Clear
<1> DEFINE T == {x \in L : d \notin dom[x]}
<1>4. d /= f.entry => f.entry \in T
    BY <1>2 DEF Enclosing
<1>5. ASSUME NEW x \in T, NEW y \in L, <<x, y>> \in f.edge, y /= d PROVE y \in T
  <2>1. CASE y = f.entry
      BY <1>5, <2>1 DEF Enclosing
  <2>2. CASE y /= f.entry
    <3>1. x \in Preds(f, y)
      <4> DEFINE e == <<x, y>>
      <4>1. e \in f.edge /\ e[1] = x /\ e[2] = y
          BY <1>5
      <4> HIDE DEF e
      <4> QED
          BY <4>1 DEF Preds
    <3>2. dom = [dom EXCEPT ![y] = {y} \cup {m \in dom[y] : \A p \in Preds(f, y) : m \in SetOf(dom, p)}]
        BY <1>2, <2>2 DEF IntersectPredecessorsDom
    <3>3. dom[y] = {y} \cup {m \in dom[y] : \A p \in Preds(f, y) : m \in SetOf(dom, p)}
        BY <1>2, <3>2
    <3>4. SetOf(dom, x) = dom[x]
        BY <1>2 DEF SetOf
    <3> QED
        BY <1>5, <3>1, <3>3, <3>4
  <2> QED
      BY <2>1, <2>2
<1>6. Clear(f, nodes, d) \subseteq T
  <2> HIDE DEF T
  <2> QED
      BY <1>4, <1>5, ClearLeast
<1> QED
    BY <1>1, <1>3, <1>6

LEMMA TurnsHaveSteps ==
    ASSUME NEW f, NEW nodes, nodes \in Seq(ToSet(nodes))
    PROVE  /\ TurnsEnough(nodes) \in Nat
           /\ Turns(f, nodes)[0] = FullSets(f, nodes)
           /\ \A k \in 1 .. TurnsEnough(nodes) + 1 : Turns(f, nodes)[k] = IntersectAll(f, nodes, Turns(f, nodes)[k - 1])
<1> DEFINE m == TurnsEnough(nodes) + 1
           a == FullSets(f, nodes)
           Step(x) == CHOOSE s \in {IntersectAll(f, nodes, d) : d \in {x}} : TRUE
           Rule(u, n) == [k \in 0 .. n |-> IF k = 0 THEN a ELSE Step(u[k - 1])]
           T == {n \in Nat : ~\E u : u = Rule(u, n)}
<1>0. \A x : Step(x) = IntersectAll(f, nodes, x)
    OBVIOUS
<1>1. Turns(f, nodes) = CHOOSE u : u = Rule(u, m)
    BY DEF Turns
<1>5. TurnsEnough(nodes) \in Nat
    BY DEF TurnsEnough
<1>5a. m \in Nat
    BY <1>5
<1> HIDE DEF Step, a, m
<1>2. 0 \notin T
  <2>1. [k \in 0 .. 0 |-> a] = Rule([k \in 0 .. 0 |-> a], 0)
      OBVIOUS
  <2> QED
      BY <2>1
<1>3. ASSUME NEW n \in Nat, n \notin T PROVE n + 1 \notin T
  <2>1. PICK u : u = Rule(u, n)
      BY <1>3
  <2> DEFINE g == [i \in 0 .. n + 1 |-> IF i = n + 1 THEN Step(u[i - 1]) ELSE u[i]]
  <2>2. ASSUME NEW i \in 0 .. n + 1
        PROVE g[i] = IF i = 0 THEN a ELSE Step(g[i - 1])
    <3>1. CASE i = n + 1
        BY <3>1
    <3>2. CASE i \in 1 .. n
      <4>1. g[i] = u[i] /\ g[i - 1] = u[i - 1]
          BY <3>2
      <4>2. u[i] = Step(u[i - 1])
          BY <2>1, <3>2
      <4> QED
          BY <3>2, <4>1, <4>2
    <3>3. CASE i = 0
        BY <2>1, <3>3
    <3> QED
        BY <3>1, <3>2, <3>3
  <2>3. g = Rule(g, n + 1)
      BY <2>2
  <2> QED
      BY <2>3
<1>4. T = {}
  <2> HIDE DEF T
  <2>1. T \subseteq Nat
      BY DEF T
  <2> QED
      BY <1>2, <1>3, <2>1, Smallest
<1>6. \E u : u = Rule(u, m)
    BY <1>4, <1>5a
<1> DEFINE r == CHOOSE u : u = Rule(u, m)
<1>7. r = Rule(r, m)
    BY <1>6
<1> HIDE DEF r
<1>8. r[0] = a
    BY <1>5a, <1>7
<1>9. ASSUME NEW n \in 1 .. m PROVE r[n] = Step(r[n - 1])
    BY <1>5a, <1>7
<1>10. Turns(f, nodes) = r
    BY <1>1 DEF r
<1> QED
    BY <1>0, <1>5, <1>8, <1>9, <1>10 DEF a, m

LEMMA FewBlocks ==
    ASSUME NEW nodes, nodes \in Seq(ToSet(nodes))
    PROVE  /\ IsFiniteSet(ToSet(nodes)) /\ Cardinality(ToSet(nodes)) \in Nat
           /\ Cardinality(ToSet(nodes)) <= Len(nodes)
           /\ IsFiniteSet(ToSet(nodes) \X ToSet(nodes))
           /\ Cardinality(ToSet(nodes) \X ToSet(nodes)) <= TurnsEnough(nodes)
<1> DEFINE L == ToSet(nodes)
           D == 1 .. Len(nodes)
           u == [k \in D |-> nodes[k]]
<1>1. IsFiniteSet(D) /\ Cardinality(D) = Len(nodes)
  <2>1. 1 \in Int /\ Len(nodes) \in Int
      OBVIOUS
  <2>2. IsFiniteSet(1 .. Len(nodes))
        /\ Cardinality(1 .. Len(nodes)) = IF 1 > Len(nodes) THEN 0 ELSE Len(nodes) - 1 + 1
      BY <2>1, FS_Interval, Zenon
  <2> QED
      BY <2>2
<1>2. u \in Surjection(D, L)
    BY DEF Surjection, ToSet
<1> HIDE DEF u, D
<1>3. IsFiniteSet(L) /\ Cardinality(L) <= Len(nodes)
    BY <1>1, <1>2, FS_Surjection
<1>4. Cardinality(L) \in Nat
    BY <1>3, FS_CardinalityType
<1>5. IsFiniteSet(L \X L) /\ Cardinality(L \X L) = Cardinality(L) * Cardinality(L)
    BY <1>3, FS_Product
<1>6. \A c, n \in Nat : c <= n => c * c <= n * n
  <2> SUFFICES ASSUME NEW c \in Nat, NEW n \in Nat, c <= n PROVE c * c <= n * n
      OBVIOUS
  <2>1. c * c <= c * n
      OBVIOUS
  <2>2. c * n <= n * n
      OBVIOUS
  <2>3. c * c \in Nat /\ c * n \in Nat /\ n * n \in Nat
      OBVIOUS
  <2> QED
      BY <2>1, <2>2, <2>3
<1> QED
    BY <1>3, <1>4, <1>5, <1>6 DEF TurnsEnough

(* The turns come to rest: each that changes something takes at least one  *)
(* block out of one set.                                                   *)
LEMMA TurnsSettle ==
    ASSUME NEW f, NEW nodes, nodes \in Seq(ToSet(nodes)), Connected(f, nodes)
    PROVE  /\ \A k \in 0 .. TurnsEnough(nodes) + 1 : Enclosing(f, nodes, Turns(f, nodes)[k])
           /\ \E k \in 0 .. TurnsEnough(nodes) : Turns(f, nodes)[k + 1] = Turns(f, nodes)[k]
<1> DEFINE t == Turns(f, nodes)
           M == TurnsEnough(nodes)
           L == ToSet(nodes)
           Pairs(dom) == {q \in L \X L : q[2] \in dom[q[1]]}
<1>1. M \in Nat /\ t[0] = FullSets(f, nodes) /\ \A k \in 1 .. M + 1 : t[k] = IntersectAll(f, nodes, t[k - 1])
    BY TurnsHaveSteps
<1>2. IsFiniteSet(L \X L) /\ Cardinality(L \X L) <= M
    BY FewBlocks
<1>3. \A dom : IsFiniteSet(Pairs(dom)) /\ Cardinality(Pairs(dom)) \in Nat /\ Cardinality(Pairs(dom)) <= M
  <2> SUFFICES ASSUME NEW dom
               PROVE  IsFiniteSet(Pairs(dom)) /\ Cardinality(Pairs(dom)) \in Nat /\ Cardinality(Pairs(dom)) <= M
      OBVIOUS
  <2>1. Pairs(dom) \in SUBSET (L \X L)
      OBVIOUS
  <2> HIDE DEF Pairs
  <2>2. IsFiniteSet(Pairs(dom)) /\ Cardinality(Pairs(dom)) <= Cardinality(L \X L)
      BY <1>2, <2>1, FS_Subset
  <2> HIDE DEF L, M
  <2>3. Cardinality(Pairs(dom)) \in Nat /\ Cardinality(L \X L) \in Nat
      BY <1>2, <2>2, FS_CardinalityType
  <2> QED
      BY <1>1, <1>2, <2>2, <2>3
<1>4. ASSUME NEW old, NEW new, Enclosing(f, nodes, old), Enclosing(f, nodes, new), Within(nodes, new, old), new /= old
      PROVE  Cardinality(Pairs(new)) < Cardinality(Pairs(old))
  <2>1. Pairs(new) \subseteq Pairs(old)
      BY <1>4 DEF Within
  <2>2. PICK n \in L : new[n] /= old[n]
      BY <1>4 DEF Enclosing
  <2>3. PICK d \in L : d \in old[n] /\ d \notin new[n]
      BY <1>4, <2>2 DEF Enclosing, Within
  <2>4. <<n, d>> \in Pairs(old) /\ <<n, d>> \notin Pairs(new)
      BY <2>3
  <2> HIDE DEF Pairs
  <2>5. Cardinality(Pairs(new)) <= Cardinality(Pairs(old)) /\ Cardinality(Pairs(old)) /= Cardinality(Pairs(new))
      BY <1>3, <2>1, <2>4, FS_Subset
  <2> QED
      BY <1>3, <2>5
<1> DEFINE Good(k) == Enclosing(f, nodes, t[k])
           T == {k \in Nat : k <= M + 1 /\ ~Good(k)}
<1> HIDE DEF t, M, Pairs, L
<1>5. 0 \notin T
    BY <1>1, FullEncloses
<1>6. ASSUME NEW k \in 0 .. M, Good(k) PROVE Good(k + 1) /\ Within(nodes, t[k + 1], t[k])
  <2>1. k + 1 \in 1 .. M + 1 /\ (k + 1) - 1 = k
      BY <1>1
  <2>2. t[k + 1] = IntersectAll(f, nodes, t[k])
      BY <1>1, <2>1
  <2> QED
      BY <1>6, <2>2, TurnEncloses
<1>7. ASSUME NEW k \in Nat, k \notin T PROVE k + 1 \notin T
    BY <1>1, <1>6, <1>7
<1>8. T = {}
  <2>1. T \in SUBSET Nat
      OBVIOUS
  <2> HIDE DEF T
  <2> QED
      BY <1>5, <1>7, <2>1, Smallest
<1>9. \A k \in 0 .. M + 1 : Good(k)
    BY <1>1, <1>8
<1>10. \E k \in 0 .. M : t[k + 1] = t[k]
  <2>1. SUFFICES ASSUME \A k \in 0 .. M : t[k + 1] /= t[k] PROVE FALSE
      OBVIOUS
  <2> DEFINE C(k) == Cardinality(Pairs(t[k]))
             U == {k \in Nat : k <= M + 1 /\ ~(C(k) + k <= M)}
  <2>2. \A k : C(k) \in Nat /\ C(k) <= M
      BY <1>3
  <2>3. \A k \in 0 .. M : C(k + 1) < C(k)
    <3> SUFFICES ASSUME NEW k \in 0 .. M PROVE C(k + 1) < C(k)
        OBVIOUS
    <3>1. k \in 0 .. M + 1 /\ k + 1 \in 0 .. M + 1
        BY <1>1
    <3>2. Good(k) /\ Good(k + 1) /\ Within(nodes, t[k + 1], t[k]) /\ t[k + 1] /= t[k]
        BY <1>6, <1>9, <2>1, <3>1
    <3> QED
        BY <1>4, <3>2
  <2> HIDE DEF C
  <2>4. 0 \notin U
      BY <1>1, <2>2
  <2>5. ASSUME NEW k \in Nat, k \notin U PROVE k + 1 \notin U
    <3> SUFFICES ASSUME k + 1 <= M + 1 PROVE C(k + 1) + (k + 1) <= M
        OBVIOUS
    <3>1. k \in 0 .. M /\ C(k) + k <= M
        BY <1>1, <2>5
    <3>2. C(k + 1) < C(k) /\ C(k + 1) \in Nat /\ C(k) \in Nat
        BY <2>2, <2>3, <3>1
    <3> QED
        BY <1>1, <3>1, <3>2
  <2>6. U = {}
    <3>1. U \in SUBSET Nat
        OBVIOUS
    <3> HIDE DEF U
    <3> QED
        BY <2>4, <2>5, <3>1, Smallest
  <2>7. C(M + 1) + (M + 1) <= M
      BY <1>1, <2>6
  <2> QED
      BY <1>1, <2>2, <2>7
<1> QED
    BY <1>9, <1>10 DEF t, M

(* The loop of ComputeDominatorSet ends, within TurnsEnough turns, and     *)
(* every block's set is then that of the blocks all walks from the entry   *)
(* to it pass: though a block's set is met with sets of the turn before    *)
(* and sets of this one, whatever the order of the blocks.                 *)
THEOREM DominatorSetsRight ==
    ASSUME NEW Node, NEW nodes \in Seq(Node), NEW f, Connected(f, nodes)
    PROVE  LET dom == ComputeDominatorSet(f, nodes)
           IN  /\ \E k \in 0 .. TurnsEnough(nodes) : Turns(f, nodes)[k + 1] = Turns(f, nodes)[k]
               /\ dom \in [ToSet(nodes) -> SUBSET ToSet(nodes)]
               /\ \A n \in ToSet(nodes) : dom[n] = {d \in ToSet(nodes) : Dominates(f, d, n)}
<1> DEFINE t == Turns(f, nodes)
           M == TurnsEnough(nodes)
           k == CHOOSE j \in 0 .. M : t[j + 1] = t[j]
<1>1. nodes \in Seq(ToSet(nodes))
    BY OwnSequence
<1>2. /\ M \in Nat /\ \A j \in 1 .. M + 1 : t[j] = IntersectAll(f, nodes, t[j - 1])
      /\ \A j \in 0 .. M + 1 : Enclosing(f, nodes, t[j])
      /\ \E j \in 0 .. M : t[j + 1] = t[j]
    BY <1>1, TurnsHaveSteps, TurnsSettle
<1>3. ComputeDominatorSet(f, nodes) = t[k]
    BY DEF ComputeDominatorSet
<1> HIDE DEF t, M
<1>4. k \in 0 .. M /\ t[k + 1] = t[k]
    BY <1>2
<1> HIDE DEF k
<1>5. k \in 0 .. M + 1 /\ k + 1 \in 1 .. M + 1 /\ (k + 1) - 1 = k
    BY <1>2, <1>4
<1>6. Enclosing(f, nodes, t[k]) /\ t[k] = IntersectAll(f, nodes, t[k])
    BY <1>2, <1>4, <1>5
<1>7. \A n \in ToSet(nodes) : IntersectPredecessorsDom(f, t[k], n) = t[k]
    BY <1>1, <1>6, TurnEncloses
<1>8. \A n \in ToSet(nodes) : t[k][n] = {d \in ToSet(nodes) : Dominates(f, d, n)}
    BY <1>6, <1>7, SettledIsRight
<1>9. t[k] \in [ToSet(nodes) -> SUBSET ToSet(nodes)]
    BY <1>6 DEF Enclosing
<1> QED
    BY <1>2, <1>3, <1>8, <1>9 DEF t, M

-----------------------------------------------------------------------------
(* The tree. *)

(* dom has the dominators of every block.                                  *)
RightSets(f, nodes, dom) ==
    /\ dom \in [ToSet(nodes) -> SUBSET ToSet(nodes)]
    /\ \A n \in ToSet(nodes) : dom[n] = {d \in ToSet(nodes) : Dominates(f, d, n)}

LEMMA LeastExists ==
    ASSUME NEW T \in SUBSET Nat, T /= {}
    PROVE  \E r \in T : \A q \in T : r <= q
<1>1. PICK r \in T : \A q \in T : ~(<<q, r>> \in OpToRel(<, Nat))
    BY NatLessThanWellFounded, WFMin
<1>2. ASSUME NEW q \in T PROVE r <= q
  <2>1. r \in Nat /\ q \in Nat
      OBVIOUS
  <2>2. ~(q < r)
      BY <1>1, <2>1 DEF OpToRel
  <2> QED
      BY <2>1, <2>2
<1> QED
    BY <1>2

(* Of the blocks that strictly dominate a block one is dominated by all.   *)
LEMMA NearestExists ==
    ASSUME NEW nodes, NEW f, nodes \in Seq(ToSet(nodes)), Connected(f, nodes), NEW dom, RightSets(f, nodes, dom),
           NEW n \in ToSet(nodes), n /= f.entry
    PROVE  \E d \in dom[n] \ {n} : dom[d] \cup {n} = dom[n]
<1> DEFINE L == ToSet(nodes)
           S == dom[n] \ {n}
           C(d) == Cardinality(dom[d])
           T == {Cardinality(L) - C(d) : d \in S}
<1>1. /\ f.entry \in L /\ dom \in [L -> SUBSET L] /\ IsFiniteSet(L)
      /\ \A m \in L : \A d \in L : d \in dom[m] <=> Dominates(f, d, m)
    BY FewBlocks DEF Connected, RightSets
<1>2. f.entry \in S /\ S \subseteq L
    BY <1>1, DominatesItself
<1>3. \A m \in L : IsFiniteSet(dom[m]) /\ C(m) \in Nat /\ Cardinality(L) \in Nat /\ C(m) <= Cardinality(L)
  <2> SUFFICES ASSUME NEW m \in L
               PROVE  IsFiniteSet(dom[m]) /\ C(m) \in Nat /\ Cardinality(L) \in Nat /\ C(m) <= Cardinality(L)
      OBVIOUS
  <2>1. dom[m] \in SUBSET L
      BY <1>1
  <2> HIDE DEF L
  <2> QED
      BY <1>1, <2>1, FS_Subset, FS_CardinalityType
<1> HIDE DEF L, S, C
<1>4. T \in SUBSET Nat /\ T /= {}
    BY <1>2, <1>3
<1>5. PICK d \in S : \A e \in S : Cardinality(L) - C(d) <= Cardinality(L) - C(e)
  <2>1. \E r \in T : \A q \in T : r <= q
    <3> HIDE DEF T
    <3> QED
        BY <1>4, LeastExists
  <2>2. PICK r \in T : \A q \in T : r <= q
      BY <2>1
  <2> QED
      BY <2>2
<1>6. d \in L /\ d /= n /\ Dominates(f, d, n) /\ n \in L
    BY <1>1, <1>2, <1>5 DEF S, L
<1>7. \A e \in S : C(e) <= C(d)
    BY <1>2, <1>3, <1>5
<1>8. ASSUME NEW e \in dom[d] PROVE e \in dom[n]
  <2>1. e \in L /\ Dominates(f, e, d)
      BY <1>1, <1>6
  <2>2. Dominates(f, e, n)
      BY <1>6, <2>1, DominatesTransitive DEF L
  <2> QED
      BY <1>1, <1>6, <2>1, <2>2
<1>9. ASSUME NEW e \in dom[n], e /= n PROVE e \in dom[d]
  <2>1. e \in L /\ Dominates(f, e, n) /\ e \in S
      BY <1>1, <1>6, <1>9 DEF S
  <2>2. CASE Dominates(f, e, d)
      BY <1>1, <1>6, <2>1, <2>2
  <2>3. CASE Dominates(f, d, e)
    <3>1. \A c \in L : Dominates(f, c, d) => Dominates(f, c, e)
        BY <1>6, <2>1, <2>3, DominatesTransitive DEF L
    <3>2. dom[d] \subseteq dom[e]
        BY <1>1, <1>6, <2>1, <3>1
    <3>3. C(e) <= C(d)
        BY <1>7, <2>1
    <3>4. dom[d] = dom[e]
      <4>1. dom[d] \in SUBSET dom[e]
          BY <3>2
      <4>2. Cardinality(dom[d]) <= Cardinality(dom[e]) /\ (Cardinality(dom[e]) = Cardinality(dom[d]) => dom[e] = dom[d])
          BY <1>3, <2>1, <4>1, FS_Subset
      <4> QED
          BY <1>3, <1>6, <2>1, <3>3, <4>2 DEF C
    <3>5. e \in dom[e]
        BY <1>1, <2>1, DominatesItself
    <3> QED
        BY <3>4, <3>5
  <2> QED
      BY <1>6, <2>1, <2>2, <2>3, DominatorsInLine DEF L
<1>10. n \in dom[n]
    BY <1>1, <1>6, DominatesItself
<1>11. dom[d] \cup {n} = dom[n]
    BY <1>8, <1>9, <1>10
<1> QED
    BY <1>11 DEF S

(* The immediate dominator of every block but the entry is there, and it   *)
(* has all dominators of the block but itself.                             *)
LEMMA ImmediateIsNearest ==
    ASSUME NEW nodes, NEW f, nodes \in Seq(ToSet(nodes)), Connected(f, nodes), NEW dom, RightSets(f, nodes, dom)
    PROVE  LET idom == ComputeImmediateDominator(f, dom)
           IN  /\ DOMAIN idom = ToSet(nodes) \ {f.entry}
               /\ \A n \in ToSet(nodes) \ {f.entry} :
                     idom[n] \in ToSet(nodes) /\ idom[n] /= n /\ dom[n] = dom[idom[n]] \cup {n} /\ n \notin dom[idom[n]]
<1> DEFINE L == ToSet(nodes)
           idom == ComputeImmediateDominator(f, dom)
<1>1. dom \in [L -> SUBSET L]
    BY DEF RightSets
<1>2. DOMAIN idom = L \ {f.entry}
    BY <1>1 DEF ComputeImmediateDominator
<1>3. ASSUME NEW n \in L \ {f.entry}
      PROVE  idom[n] \in L /\ idom[n] /= n /\ dom[n] = dom[idom[n]] \cup {n} /\ n \notin dom[idom[n]]
  <2>1. \E d \in dom[n] \ {n} : dom[d] \cup {n} = dom[n]
      BY NearestExists
  <2>2. idom[n] = CHOOSE d \in dom[n] \ {n} : dom[d] \cup {n} = dom[n]
      BY <1>1 DEF ComputeImmediateDominator
  <2>3. idom[n] \in dom[n] \ {n} /\ dom[idom[n]] \cup {n} = dom[n]
      BY <2>1, <2>2
  <2>4. idom[n] \in L /\ Dominates(f, idom[n], n)
      BY <2>3 DEF RightSets
  <2>5. n \notin dom[idom[n]]
    <3> SUFFICES ASSUME n \in dom[idom[n]] PROVE FALSE
        OBVIOUS
    <3>1. Dominates(f, n, idom[n])
        BY <2>4 DEF RightSets
    <3> QED
        BY <2>3, <2>4, <3>1, DominatesAntisymmetric
  <2> QED
      BY <2>3, <2>4, <2>5
<1> QED
    BY <1>2, <1>3

(* What DominatorTreeRight checks of the optimiser's runs: a block is a    *)
(* child of the last block all walks to it pass before it comes.           *)
TreeRight(f, nodes, kids) ==
    \A b, n \in ToSet(nodes) :
        n \in kids[b] <=> /\ StrictlyDominates(f, b, n)
                         /\ \A e \in ToSet(nodes) : StrictlyDominates(f, e, n) => Dominates(f, e, b)

(* The tree DVNT walks and RenameVariables could walk: for every connected *)
(* graph the search in ComputeImmediateDominator finds a block, its        *)
(* assert(false) is not reached, and the block is the nearest that all     *)
(* walks pass.                                                             *)
THEOREM DominatorTreeIsRight ==
    ASSUME NEW Node, NEW nodes \in Seq(Node), NEW f, Connected(f, nodes)
    PROVE  LET dom == ComputeDominatorSet(f, nodes)
               idom == ComputeImmediateDominator(f, dom)
           IN  /\ \A n \in ToSet(nodes) \ {f.entry} : idom[n] \in dom[n] \ {n} /\ dom[idom[n]] \cup {n} = dom[n]
               /\ TreeRight(f, nodes, Children(dom, idom))
<1> DEFINE L == ToSet(nodes)
           dom == ComputeDominatorSet(f, nodes)
           idom == ComputeImmediateDominator(f, dom)
           kids == Children(dom, idom)
<1>1. RightSets(f, nodes, dom)
    BY DominatorSetsRight DEF RightSets
<1> HIDE DEF dom
<1>2. nodes \in Seq(ToSet(nodes))
    BY OwnSequence
<1>3. /\ DOMAIN idom = L \ {f.entry}
      /\ \A n \in L \ {f.entry} : idom[n] \in L /\ idom[n] /= n /\ dom[n] = dom[idom[n]] \cup {n} /\ n \notin dom[idom[n]]
    BY <1>1, <1>2, ImmediateIsNearest
<1>4. \A n \in L : n \in dom[n]
    BY <1>1, DominatesItself DEF RightSets
<1>5. dom \in [L -> SUBSET L] /\ \A n \in L : \A d \in L : d \in dom[n] <=> Dominates(f, d, n)
    BY <1>1 DEF RightSets
<1> HIDE DEF idom, L
<1>6. \A n \in L \ {f.entry} : idom[n] \in dom[n] \ {n} /\ dom[idom[n]] \cup {n} = dom[n]
    BY <1>3, <1>4
<1>7. \A b \in L : kids[b] = {n \in L \ {f.entry} : idom[n] = b}
    BY <1>3, <1>5 DEF Children
<1> HIDE DEF kids
<1>8. ASSUME NEW b \in L, NEW n \in L
      PROVE  n \in kids[b] <=> /\ StrictlyDominates(f, b, n)
                              /\ \A e \in L : StrictlyDominates(f, e, n) => Dominates(f, e, b)
  <2>1. CASE n = f.entry
    <3>1. ~StrictlyDominates(f, b, n)
        BY <2>1, OnlyEntryDominatesIt DEF StrictlyDominates
    <3> QED
        BY <1>7, <2>1, <3>1
  <2>2. CASE n /= f.entry
    <3>1. \A e \in L : StrictlyDominates(f, e, n) <=> e \in dom[idom[n]]
        BY <1>3, <1>5, <2>2 DEF StrictlyDominates
    <3>2. \A e \in L : StrictlyDominates(f, e, n) <=> Dominates(f, e, idom[n])
        BY <1>3, <1>5, <2>2, <3>1
    <3>3. ASSUME StrictlyDominates(f, b, n), \A e \in L : StrictlyDominates(f, e, n) => Dominates(f, e, b)
          PROVE  idom[n] = b
      <4>1. idom[n] \in L /\ Dominates(f, b, idom[n])
          BY <1>3, <2>2, <3>2, <3>3
      <4>2. Dominates(f, idom[n], b)
          BY <3>2, <3>3, <4>1, DominatesItself
      <4> QED
          BY <4>1, <4>2, DominatesAntisymmetric DEF L
    <3>4. ASSUME idom[n] = b
          PROVE  StrictlyDominates(f, b, n) /\ \A e \in L : StrictlyDominates(f, e, n) => Dominates(f, e, b)
        BY <3>2, <3>4, DominatesItself
    <3>5. n \in kids[b] <=> idom[n] = b
        BY <1>7, <2>2
    <3> QED
        BY <3>3, <3>4, <3>5
  <2> QED
      BY <2>1, <2>2
<1> QED
    BY <1>6, <1>8 DEF TreeRight, kids, L, idom, dom

-----------------------------------------------------------------------------
(* The frontiers. *)

AncestorSteps(idom, p) ==
    /\ Ancestors(idom, p)[0] = p
    /\ \A k \in 1 .. Cardinality(DOMAIN idom) : Ancestors(idom, p)[k] = Above(idom, Ancestors(idom, p)[k - 1])

LEMMA AncestorsHaveSteps ==
    ASSUME NEW idom, NEW p, Cardinality(DOMAIN idom) \in Nat
    PROVE  AncestorSteps(idom, p)
<1> DEFINE m == Cardinality(DOMAIN idom)
           Step(x) == Above(idom, x)
           Rule(u, n) == [k \in 0 .. n |-> IF k = 0 THEN p ELSE Step(u[k - 1])]
           T == {n \in Nat : ~\E u : u = Rule(u, n)}
<1>1. Ancestors(idom, p) = CHOOSE u : u = Rule(u, m)
    BY DEF Ancestors
<1> HIDE DEF Step, m
<1>2. 0 \notin T
  <2>1. [k \in 0 .. 0 |-> p] = Rule([k \in 0 .. 0 |-> p], 0)
      OBVIOUS
  <2> QED
      BY <2>1
<1>3. ASSUME NEW n \in Nat, n \notin T PROVE n + 1 \notin T
  <2>1. PICK u : u = Rule(u, n)
      BY <1>3
  <2> DEFINE g == [i \in 0 .. n + 1 |-> IF i = n + 1 THEN Step(u[i - 1]) ELSE u[i]]
  <2>2. ASSUME NEW i \in 0 .. n + 1
        PROVE g[i] = IF i = 0 THEN p ELSE Step(g[i - 1])
    <3>1. CASE i = n + 1
        BY <3>1
    <3>2. CASE i \in 1 .. n
      <4>1. g[i] = u[i] /\ g[i - 1] = u[i - 1]
          BY <3>2
      <4>2. u[i] = Step(u[i - 1])
          BY <2>1, <3>2
      <4> QED
          BY <3>2, <4>1, <4>2
    <3>3. CASE i = 0
        BY <2>1, <3>3
    <3> QED
        BY <3>1, <3>2, <3>3
  <2>3. g = Rule(g, n + 1)
      BY <2>2
  <2> QED
      BY <2>3
<1>4. T = {}
  <2> HIDE DEF T
  <2>1. T \subseteq Nat
      BY DEF T
  <2> QED
      BY <1>2, <1>3, <2>1, Smallest
<1>5. m \in Nat
    BY DEF m
<1>6. \E u : u = Rule(u, m)
    BY <1>4, <1>5
<1> DEFINE r == CHOOSE u : u = Rule(u, m)
<1>7. r = Rule(r, m)
    BY <1>6
<1> HIDE DEF r
<1>8. r[0] = p
    BY <1>5, <1>7
<1>9. ASSUME NEW n \in 1 .. m PROVE r[n] = Step(r[n - 1])
    BY <1>5, <1>7
<1>10. Ancestors(idom, p) = r
    BY <1>1 DEF r
<1> QED
    BY <1>8, <1>9, <1>10 DEF AncestorSteps, m, Step

(* A tree of immediate dominators over right sets.                         *)
RightTree(f, nodes, dom, idom) ==
    /\ RightSets(f, nodes, dom)
    /\ DOMAIN idom = ToSet(nodes) \ {f.entry}
    /\ \A n \in ToSet(nodes) \ {f.entry} :
          idom[n] \in ToSet(nodes) /\ idom[n] /= n /\ dom[n] = dom[idom[n]] \cup {n} /\ n \notin dom[idom[n]]

(* The climb from p as long as it has not come by b, one of p's dominators.*)
OnTheWay(nodes, dom, idom, p, b, k) ==
    LET up == Ancestors(idom, p)
    IN  /\ up[k] \in ToSet(nodes) /\ b \in dom[up[k]] /\ dom[up[k]] \subseteq dom[p]
        /\ Cardinality(dom[up[k]]) + k <= Cardinality(ToSet(nodes))

LEMMA FewDominators ==
    ASSUME NEW nodes, NEW f, nodes \in Seq(ToSet(nodes)), NEW dom, RightSets(f, nodes, dom), NEW n \in ToSet(nodes)
    PROVE  /\ IsFiniteSet(dom[n]) /\ Cardinality(dom[n]) \in Nat
           /\ Cardinality(dom[n]) <= Cardinality(ToSet(nodes))
<1>1. dom[n] \in SUBSET ToSet(nodes) /\ IsFiniteSet(ToSet(nodes))
    BY FewBlocks DEF RightSets
<1> QED
    BY <1>1, FS_Subset, FS_CardinalityType

LEMMA FewBelowEntry ==
    ASSUME NEW nodes, NEW f, nodes \in Seq(ToSet(nodes)), Connected(f, nodes), NEW dom, NEW idom, RightTree(f, nodes, dom, idom)
    PROVE  /\ Cardinality(ToSet(nodes)) \in Nat /\ Cardinality(DOMAIN idom) \in Nat
           /\ Cardinality(ToSet(nodes)) = Cardinality(DOMAIN idom) + 1
<1> DEFINE L == ToSet(nodes)
<1>1. f.entry \in L /\ IsFiniteSet(L) /\ DOMAIN idom = L \ {f.entry}
    BY FewBlocks DEF Connected, RightTree
<1> HIDE DEF L
<1>2. IsFiniteSet(L \ {f.entry}) /\ Cardinality(L \ {f.entry}) = Cardinality(L) - 1
    BY <1>1, FS_RemoveElement
<1>3. Cardinality(L) \in Nat /\ Cardinality(L \ {f.entry}) \in Nat
    BY <1>1, <1>2, FS_CardinalityType
<1> QED
    BY <1>1, <1>2, <1>3 DEF L

LEMMA Climb ==
    ASSUME NEW nodes, NEW f, nodes \in Seq(ToSet(nodes)), Connected(f, nodes), NEW dom, NEW idom, RightTree(f, nodes, dom, idom),
           NEW p \in ToSet(nodes), NEW b \in dom[p],
           NEW k \in 0 .. Cardinality(DOMAIN idom), \A i \in 0 .. k - 1 : Ancestors(idom, p)[i] /= b
    PROVE  OnTheWay(nodes, dom, idom, p, b, k)
<1> DEFINE L == ToSet(nodes)
           m == Cardinality(DOMAIN idom)
           up == Ancestors(idom, p)
           Good(i) == OnTheWay(nodes, dom, idom, p, b, i)
           T == {i \in Nat : i <= k /\ ~Good(i)}
<1>1. m \in Nat /\ Cardinality(L) \in Nat
    BY FewBelowEntry
<1>2. up[0] = p /\ \A i \in 1 .. m : up[i] = Above(idom, up[i - 1])
    BY <1>1, AncestorsHaveSteps DEF AncestorSteps
<1>3. /\ DOMAIN idom = L \ {f.entry}
      /\ \A n \in L \ {f.entry} : idom[n] \in L /\ idom[n] /= n /\ dom[n] = dom[idom[n]] \cup {n} /\ n \notin dom[idom[n]]
      /\ RightSets(f, nodes, dom)
    BY DEF RightTree
<1>4. \A n \in L : IsFiniteSet(dom[n]) /\ Cardinality(dom[n]) \in Nat /\ Cardinality(dom[n]) <= Cardinality(L)
    BY <1>3, FewDominators
<1> HIDE DEF up, m
<1>5. Good(0)
    BY <1>1, <1>2, <1>4 DEF OnTheWay, up
<1>6. ASSUME NEW i \in Nat, i \notin T PROVE i + 1 \notin T
  <2>1. SUFFICES ASSUME i + 1 <= k PROVE Good(i + 1)
      OBVIOUS
  <2>2. Good(i) /\ i \in 0 .. k - 1 /\ i + 1 \in 1 .. m /\ (i + 1) - 1 = i
      BY <1>1, <1>6, <2>1 DEF m
  <2>3. up[i] \in L /\ b \in dom[up[i]] /\ dom[up[i]] \subseteq dom[p] /\ Cardinality(dom[up[i]]) + i <= Cardinality(L)
      BY <2>2 DEF OnTheWay, up
  <2>4. up[i] /= b
      BY <2>2 DEF up
  <2>5. up[i] /= f.entry
    <3> SUFFICES ASSUME up[i] = f.entry PROVE FALSE
        OBVIOUS
    <3>1. Dominates(f, b, f.entry)
        BY <1>3, <2>3 DEF RightSets
    <3> QED
        BY <2>4, <3>1, OnlyEntryDominatesIt
  <2>6. up[i + 1] = idom[up[i]]
      BY <1>2, <1>3, <2>2, <2>3, <2>5 DEF Above
  <2>7. up[i + 1] \in L /\ dom[up[i]] = dom[up[i + 1]] \cup {up[i]} /\ up[i] \notin dom[up[i + 1]]
      BY <1>3, <2>3, <2>5, <2>6
  <2>8. Cardinality(dom[up[i]]) = Cardinality(dom[up[i + 1]]) + 1
      BY <1>4, <2>7, FS_AddElement
  <2>9. b \in dom[up[i + 1]] /\ dom[up[i + 1]] \subseteq dom[p]
      BY <2>3, <2>4, <2>7
  <2>10. Cardinality(dom[up[i + 1]]) + (i + 1) <= Cardinality(L)
      BY <1>1, <1>4, <2>3, <2>7, <2>8
  <2> QED
      BY <2>7, <2>9, <2>10 DEF OnTheWay, up
<1>7. T = {}
  <2>1. T \in SUBSET Nat /\ 0 \notin T
      BY <1>5
  <2> HIDE DEF T
  <2> QED
      BY <1>6, <2>1, Smallest
<1> QED
    BY <1>1, <1>7 DEF m

LEMMA ClimbArrives ==
    ASSUME NEW nodes, NEW f, nodes \in Seq(ToSet(nodes)), Connected(f, nodes), NEW dom, NEW idom, RightTree(f, nodes, dom, idom),
           NEW p \in ToSet(nodes), NEW b \in dom[p]
    PROVE  \E k \in 0 .. Cardinality(DOMAIN idom) :
              Ancestors(idom, p)[k] = b /\ \A i \in 0 .. k - 1 : Ancestors(idom, p)[i] /= b
<1> DEFINE L == ToSet(nodes)
           m == Cardinality(DOMAIN idom)
           up == Ancestors(idom, p)
           H == {k \in Nat : k <= m /\ up[k] = b}
<1>1. m \in Nat /\ Cardinality(L) = m + 1
    BY FewBelowEntry
<1>2. H /= {}
  <2>1. SUFFICES ASSUME H = {} PROVE FALSE
      OBVIOUS
  <2>2. \A i \in 0 .. m : up[i] /= b
      BY <1>1, <2>1
  <2>3. OnTheWay(nodes, dom, idom, p, b, m)
    <3>1. m \in 0 .. m /\ \A i \in 0 .. m - 1 : up[i] /= b
        BY <1>1, <2>2
    <3> QED
        BY <3>1, Climb
  <2>4. up[m] \in L /\ b \in dom[up[m]] /\ Cardinality(dom[up[m]]) + m <= m + 1
      BY <1>1, <2>3 DEF OnTheWay
  <2>5. IsFiniteSet(dom[up[m]]) /\ Cardinality(dom[up[m]]) \in Nat
      BY <2>4, FewDominators DEF RightTree
  <2>6. up[m] \in dom[up[m]]
      BY <2>4, DominatesItself DEF RightTree, RightSets
  <2>7. up[m] /= b
      BY <1>1, <2>2
  <2> DEFINE D == dom[up[m]]
             u == up[m]
  <2>8. IsFiniteSet(D) /\ Cardinality(D) \in Nat /\ Cardinality(D) <= 1 /\ b \in D /\ u \in D /\ b /= u
      BY <1>1, <2>4, <2>5, <2>6, <2>7
  <2> HIDE DEF D, u
  <2>9. Cardinality(D) /= 0
      BY <2>8, FS_EmptySet
  <2>10. \E x : D = {x}
      BY <2>8, <2>9, FS_Singleton
  <2> QED
      BY <2>8, <2>10
<1>3. PICK k \in H : \A q \in H : k <= q
  <2>1. H \in SUBSET Nat
      OBVIOUS
  <2> HIDE DEF H
  <2> QED
      BY <1>2, <2>1, LeastExists
<1>4. k \in 0 .. m /\ up[k] = b
    BY <1>1
<1>5. ASSUME NEW i \in 0 .. k - 1 PROVE up[i] /= b
    BY <1>1, <1>3, <1>4
<1> QED
    BY <1>4, <1>5

(* The runner comes by the dominators of p that do not dominate where it   *)
(* is to stop, and by no other block.                                      *)
LEMMA RunnersRight ==
    ASSUME NEW nodes, NEW f, nodes \in Seq(ToSet(nodes)), Connected(f, nodes), NEW dom, NEW idom, RightTree(f, nodes, dom, idom),
           NEW p \in ToSet(nodes), NEW stop \in dom[p]
    PROVE  Runners(idom, p, stop) = dom[p] \ dom[stop]
<1> DEFINE L == ToSet(nodes)
           m == Cardinality(DOMAIN idom)
           up == Ancestors(idom, p)
           Hit(k, b) == up[k] = b /\ \A j \in 0 .. k - 1 : up[j] /= b
           turns == CHOOSE k \in 0 .. m : Hit(k, stop)
<1>1. Runners(idom, p, stop) = {up[j] : j \in 0 .. turns - 1}
    BY DEF Runners
<1>2. m \in Nat
    BY FewBelowEntry
<1>3. turns \in 0 .. m /\ Hit(turns, stop)
  <2>1. \E k \in 0 .. m : Hit(k, stop)
      BY ClimbArrives
  <2> HIDE DEF Hit, m
  <2> QED
      BY <2>1
<1> HIDE DEF turns
<1>4. /\ dom \in [L -> SUBSET L]
      /\ \A n \in L : \A d \in L : d \in dom[n] <=> Dominates(f, d, n)
    BY DEF RightTree, RightSets
<1>5. stop \in L
    BY <1>4
<1>6. ASSUME NEW j \in 0 .. turns - 1 PROVE up[j] \in dom[p] \ dom[stop]
  <2>1. j \in 0 .. m /\ \A i \in 0 .. j - 1 : up[i] /= stop
      BY <1>2, <1>3
  <2>2. OnTheWay(nodes, dom, idom, p, stop, j)
      BY <2>1, Climb
  <2>3. up[j] \in L /\ stop \in dom[up[j]] /\ dom[up[j]] \subseteq dom[p]
      BY <2>2 DEF OnTheWay
  <2>4. up[j] \in dom[up[j]]
      BY <1>4, <2>3, DominatesItself
  <2>5. up[j] /= stop
      BY <1>3
  <2>6. up[j] \notin dom[stop]
    <3> SUFFICES ASSUME up[j] \in dom[stop] PROVE FALSE
        OBVIOUS
    <3>1. Dominates(f, up[j], stop) /\ Dominates(f, stop, up[j])
        BY <1>4, <1>5, <2>3
    <3> QED
        BY <1>5, <2>3, <2>5, <3>1, DominatesAntisymmetric
  <2> QED
      BY <2>3, <2>4, <2>6
<1>7. ASSUME NEW b \in dom[p] \ dom[stop] PROVE \E j \in 0 .. turns - 1 : up[j] = b
  <2>1. PICK j \in 0 .. m : Hit(j, b)
      BY ClimbArrives
  <2>2. CASE j < turns
      BY <1>2, <1>3, <2>1, <2>2
  <2>3. CASE turns <= j
    <3>1. turns \in 0 .. m /\ \A i \in 0 .. turns - 1 : up[i] /= b
        BY <1>2, <1>3, <2>1, <2>3
    <3>2. OnTheWay(nodes, dom, idom, p, b, turns)
        BY <3>1, Climb
    <3>3. b \in dom[stop]
        BY <1>3, <3>2 DEF OnTheWay
    <3> QED
        BY <1>7, <3>3
  <2> QED
      BY <1>2, <1>3, <2>1, <2>2, <2>3
<1> HIDE DEF up
<1> QED
    BY <1>1, <1>6, <1>7

(* A block that can be entered from one block only is dominated by it.     *)
LEMMA OneWayIn ==
    ASSUME NEW nodes, NEW f, Connected(f, nodes), NEW n \in ToSet(nodes), n /= f.entry,
           NEW p, Preds(f, n) = {p}
    PROVE  p \in ToSet(nodes) /\ p /= n /\ Dominates(f, p, n)
<1> DEFINE L == ToSet(nodes)
<1>1. p \in L
    BY DEF Connected
<1>2. ASSUME NEW x, <<x, n>> \in f.edge PROVE x = p
  <2> DEFINE e == <<x, n>>
  <2>1. e \in f.edge /\ e[1] = x /\ e[2] = n
      BY <1>2
  <2> HIDE DEF e
  <2>2. x \in Preds(f, n)
      BY <2>1 DEF Preds
  <2> QED
      BY <2>2
<1>3. p /= n
  <2> SUFFICES ASSUME p = n PROVE FALSE
      OBVIOUS
  <2> DEFINE T == L \ {n}
  <2>1. f.entry \in T
      BY DEF Connected
  <2>2. ASSUME NEW x \in T, NEW y \in L, <<x, y>> \in f.edge PROVE y \in T
      BY <1>2, <2>2
  <2>3. L \subseteq T
    <3> HIDE DEF T
    <3> QED
        BY <2>1, <2>2, AllReached
  <2> QED
      BY <2>3
<1>4. Dominates(f, p, n)
  <2> DEFINE T == L \ {n, p}
  <2>1. p /= f.entry => f.entry \in T
      BY DEF Connected
  <2>2. ASSUME NEW x \in T, NEW y \in L, <<x, y>> \in f.edge, y /= p PROVE y \in T
      BY <1>2, <2>2
  <2>3. Clear(f, nodes, p) \subseteq T
    <3> HIDE DEF T
    <3> QED
        BY <2>1, <2>2, ClearLeast
  <2> QED
      BY <2>3 DEF Clear
<1> QED
    BY <1>1, <1>3, <1>4

(* The runners of ComputeDominanceFrontier stop, and what they leave       *)
(* behind is the dominance frontier of the textbooks: the blocks one step  *)
(* beyond what b dominates.  SSA construction puts the phis of a variable  *)
(* there.  That only blocks with several predecessors are looked at loses  *)
(* none.                                                                   *)
THEOREM DominanceFrontierIsRight ==
    ASSUME NEW Node, NEW nodes \in Seq(Node), NEW f, Connected(f, nodes)
    PROVE  LET idom == ComputeImmediateDominator(f, ComputeDominatorSet(f, nodes))
               df == ComputeDominanceFrontier(f, idom)
           IN  \A b \in ToSet(nodes) :
                  df[b] = {n \in ToSet(nodes) \ {f.entry} :
                              ~StrictlyDominates(f, b, n) /\ \E p \in Preds(f, n) : Dominates(f, b, p)}
<1> DEFINE L == ToSet(nodes)
           dom == ComputeDominatorSet(f, nodes)
           idom == ComputeImmediateDominator(f, dom)
           df == ComputeDominanceFrontier(f, idom)
<1>1. RightSets(f, nodes, dom)
    BY DominatorSetsRight DEF RightSets
<1> HIDE DEF dom
<1>2. nodes \in Seq(ToSet(nodes))
    BY OwnSequence
<1>3. RightTree(f, nodes, dom, idom)
    BY <1>1, <1>2, ImmediateIsNearest DEF RightTree
<1> HIDE DEF idom
<1>4. /\ dom \in [L -> SUBSET L]
      /\ \A n \in L : \A d \in L : d \in dom[n] <=> Dominates(f, d, n)
      /\ DOMAIN idom = L \ {f.entry} /\ f.entry \in L
      /\ \A n \in L \ {f.entry} : idom[n] \in L /\ idom[n] /= n /\ dom[n] = dom[idom[n]] \cup {n} /\ n \notin dom[idom[n]]
    BY <1>3 DEF RightTree, RightSets, Connected
<1> HIDE DEF L
<1> SUFFICES ASSUME NEW b \in L
             PROVE  df[b] = {n \in L \ {f.entry} : ~StrictlyDominates(f, b, n) /\ \E p \in Preds(f, n) : Dominates(f, b, p)}
    BY DEF L, idom, dom
<1>5. df[b] = {n \in L \ {f.entry} : Cardinality(Preds(f, n)) > 1 /\ \E p \in Preds(f, n) : b \in Runners(idom, p, idom[n])}
    BY <1>4 DEF ComputeDominanceFrontier
<1> HIDE DEF df
<1>6. ASSUME NEW n \in L \ {f.entry}, NEW p \in Preds(f, n)
      PROVE  /\ p \in L
             /\ b \in Runners(idom, p, idom[n]) <=> Dominates(f, b, p) /\ ~StrictlyDominates(f, b, n)
  <2>1. idom[n] \in dom[n]
      BY <1>4, DominatesItself
  <2>2. Dominates(f, idom[n], n) /\ idom[n] /= n
      BY <1>4, <2>1
  <2>3. p \in L /\ Dominates(f, idom[n], p)
      BY <2>2, DominatesBefore DEF L
  <2>4. idom[n] \in dom[p]
      BY <1>4, <2>3
  <2>5. Runners(idom, p, idom[n]) = dom[p] \ dom[idom[n]]
      BY <1>2, <1>3, <2>3, <2>4, RunnersRight DEF L
  <2>6. b \in dom[idom[n]] <=> StrictlyDominates(f, b, n)
      BY <1>4 DEF StrictlyDominates
  <2>7. b \in dom[p] <=> Dominates(f, b, p)
      BY <1>4, <2>3
  <2> QED
      BY <2>3, <2>5, <2>6, <2>7
<1>7. ASSUME NEW n \in L \ {f.entry}, NEW p \in Preds(f, n), Dominates(f, b, p), ~StrictlyDominates(f, b, n)
      PROVE  Cardinality(Preds(f, n)) > 1
  <2>1. Preds(f, n) \in SUBSET L /\ IsFiniteSet(L)
      BY <1>2, FewBlocks DEF Connected, L
  <2>2. IsFiniteSet(Preds(f, n)) /\ Cardinality(Preds(f, n)) \in Nat
      BY <2>1, FS_Subset, FS_CardinalityType
  <2>3. Cardinality(Preds(f, n)) /= 0
      BY <1>7, <2>2, FS_EmptySet
  <2>4. ASSUME Cardinality(Preds(f, n)) = 1 PROVE FALSE
    <3>1. Preds(f, n) = {p}
      <4>1. \E x : Preds(f, n) = {x}
          BY <2>2, <2>4, FS_Singleton
      <4> QED
          BY <1>7, <4>1
    <3>2. p \in L /\ p /= n /\ Dominates(f, p, n)
        BY <1>7, <3>1, OneWayIn DEF L
    <3>3. Dominates(f, b, n)
        BY <1>7, <3>2, DominatesTransitive DEF L
    <3>4. b = n
        BY <1>7, <3>3 DEF StrictlyDominates
    <3> QED
        BY <1>7, <3>2, <3>4, DominatesAntisymmetric DEF L
  <2> QED
      BY <2>2, <2>3, <2>4
<1> QED
    BY <1>5, <1>6, <1>7

-----------------------------------------------------------------------------
(* Where the phis go. *)

PlacingOf(df, defs, r) ==
    /\ r[0] = [work |-> defs, phis |-> {}]
    /\ \A k \in 1 .. Cardinality(DOMAIN df) : r[k] = PlaceStep(df, defs, r[k - 1])

LEMMA PlacingHasSteps ==
    ASSUME NEW df, NEW defs, IsFiniteSet(DOMAIN df)
    PROVE  PlacingOf(df, defs, Placing(df, defs))
<1> DEFINE m == Cardinality(DOMAIN df)
           a == [work |-> defs, phis |-> {}]
           Step(x) == CHOOSE r \in {PlaceStep(df, defs, s) : s \in {x}} : TRUE
           Rule(u, n) == [k \in 0 .. n |-> IF k = 0 THEN a ELSE Step(u[k - 1])]
           T == {n \in Nat : ~\E u : u = Rule(u, n)}
<1>0. \A x : Step(x) = PlaceStep(df, defs, x)
    OBVIOUS
<1>1. Placing(df, defs) = CHOOSE u : u = Rule(u, m)
    BY DEF Placing
<1>2. m \in Nat
    BY FS_CardinalityType
<1> HIDE DEF Step, a, m
<1>3. 0 \notin T
  <2>1. [k \in 0 .. 0 |-> a] = Rule([k \in 0 .. 0 |-> a], 0)
      OBVIOUS
  <2> QED
      BY <2>1
<1>4. ASSUME NEW n \in Nat, n \notin T PROVE n + 1 \notin T
  <2>1. PICK u : u = Rule(u, n)
      BY <1>4
  <2> DEFINE g == [i \in 0 .. n + 1 |-> IF i = n + 1 THEN Step(u[i - 1]) ELSE u[i]]
  <2>2. ASSUME NEW i \in 0 .. n + 1
        PROVE g[i] = IF i = 0 THEN a ELSE Step(g[i - 1])
    <3>1. CASE i = n + 1
        BY <3>1
    <3>2. CASE i \in 1 .. n
      <4>1. g[i] = u[i] /\ g[i - 1] = u[i - 1]
          BY <3>2
      <4>2. u[i] = Step(u[i - 1])
          BY <2>1, <3>2
      <4> QED
          BY <3>2, <4>1, <4>2
    <3>3. CASE i = 0
        BY <2>1, <3>3
    <3> QED
        BY <3>1, <3>2, <3>3
  <2>3. g = Rule(g, n + 1)
      BY <2>2
  <2> QED
      BY <2>3
<1>5. T = {}
  <2> HIDE DEF T
  <2>1. T \subseteq Nat
      BY DEF T
  <2> QED
      BY <1>3, <1>4, <2>1, Smallest
<1>6. \E u : u = Rule(u, m)
    BY <1>2, <1>5
<1> DEFINE r == CHOOSE u : u = Rule(u, m)
<1>7. r = Rule(r, m)
    BY <1>6
<1> HIDE DEF r
<1>8. r[0] = a
    BY <1>2, <1>7
<1>9. ASSUME NEW n \in 1 .. m PROVE r[n] = Step(r[n - 1])
    BY <1>2, <1>7
<1>10. Placing(df, defs) = r
    BY <1>1 DEF r
<1> QED
    BY <1>0, <1>8, <1>9, <1>10 DEF PlacingOf, a, m

(* X has the frontier of the stores and its own.                           *)
ClosedUnder(df, defs, X) == \A b \in defs \cup X : df[b] \subseteq X

(* Blocks that have been taken off the worklist.                           *)
Served(defs, s) == (defs \cup s.phis) \ s.work

PlaceInv(df, defs, s) ==
    /\ s = [work |-> s.work, phis |-> s.phis]
    /\ s.work \subseteq defs \cup s.phis /\ s.phis \subseteq DOMAIN df
    /\ \A b \in Served(defs, s) : df[b] \subseteq s.phis
    /\ \A X \in SUBSET DOMAIN df : ClosedUnder(df, defs, X) => s.phis \subseteq X

LEMMA PlaceStepKeeps ==
    ASSUME NEW D, NEW df \in [D -> SUBSET D], NEW defs \in SUBSET D, NEW s, PlaceInv(df, defs, s)
    PROVE  /\ PlaceInv(df, defs, PlaceStep(df, defs, s))
           /\ s.work /= {} => /\ Served(defs, s) \subseteq Served(defs, PlaceStep(df, defs, s))
                              /\ Served(defs, s) /= Served(defs, PlaceStep(df, defs, s))
<1>1. CASE s.work = {}
    BY <1>1 DEF PlaceStep
<1>2. CASE s.work /= {}
  <2> DEFINE front == CHOOSE b \in s.work : TRUE
             new == df[front] \ s.phis
             t == [work |-> (s.work \ {front}) \cup (new \ defs), phis |-> s.phis \cup new]
  <2>1. PlaceStep(df, defs, s) = t
      BY <1>2 DEF PlaceStep
  <2>2. front \in s.work
      BY <1>2
  <2>3. t.work = (s.work \ {front}) \cup (new \ defs) /\ t.phis = s.phis \cup new
      OBVIOUS
  <2> HIDE DEF front, t
  <2>4. front \in D /\ front \in defs \cup s.phis /\ df[front] \subseteq D
      BY <2>2 DEF PlaceInv
  <2>5. t = [work |-> t.work, phis |-> t.phis]
      BY DEF t
  <2>6. Served(defs, t) = Served(defs, s) \cup {front}
      BY <2>2, <2>3, <2>4 DEF Served, PlaceInv
  <2>7. \A b \in Served(defs, t) : df[b] \subseteq t.phis
    <3>1. \A b \in Served(defs, t) : b \in Served(defs, s) \/ b = front
        BY <2>6
    <3>2. df[front] \subseteq t.phis /\ s.phis \subseteq t.phis
        BY <2>3
    <3> QED
        BY <3>1, <3>2 DEF PlaceInv
  <2>8. ASSUME NEW X \in SUBSET D, ClosedUnder(df, defs, X) PROVE t.phis \subseteq X
    <3>1. s.phis \subseteq X
        BY <2>8 DEF PlaceInv
    <3>2. df[front] \subseteq X
        BY <2>4, <2>8, <3>1 DEF ClosedUnder
    <3> QED
        BY <2>3, <3>1, <3>2
  <2>9. t.work \subseteq defs \cup t.phis /\ t.phis \subseteq D
      BY <2>3, <2>4 DEF PlaceInv
  <2>10. PlaceInv(df, defs, t)
      BY <2>5, <2>7, <2>8, <2>9 DEF PlaceInv
  <2>11. front \in Served(defs, t) /\ front \notin Served(defs, s)
      BY <2>2, <2>6 DEF Served
  <2> QED
      BY <2>1, <2>6, <2>10, <2>11
<1> QED
    BY <1>1, <1>2

(* The loop over WorkList ends, and the blocks with a phi for the variable *)
(* are the least set with the frontier of the stores and its own: that a   *)
(* block with a store does not go on the list again, and every other only  *)
(* with its first phi, loses none.                                         *)
THEOREM PhisAreIteratedFrontier ==
    ASSUME NEW D, IsFiniteSet(D), NEW df \in [D -> SUBSET D], NEW defs \in SUBSET D
    PROVE  /\ Placing(df, defs)[Cardinality(D)].work = {}
           /\ PhiBlocks(df, defs) \subseteq D
           /\ ClosedUnder(df, defs, PhiBlocks(df, defs))
           /\ \A X \in SUBSET D : ClosedUnder(df, defs, X) => PhiBlocks(df, defs) \subseteq X
<1> DEFINE r == Placing(df, defs)
           m == Cardinality(D)
           C(k) == Cardinality(Served(defs, r[k]))
           T == {k \in Nat : k <= m /\ ~(PlaceInv(df, defs, r[k]) /\ (r[k].work = {} \/ k <= C(k)))}
<1>1. DOMAIN df = D /\ m \in Nat
    BY FS_CardinalityType
<1>2. r[0] = [work |-> defs, phis |-> {}] /\ \A k \in 1 .. m : r[k] = PlaceStep(df, defs, r[k - 1])
    BY <1>1, PlacingHasSteps DEF PlacingOf
<1>3. ASSUME NEW k, PlaceInv(df, defs, r[k])
      PROVE  /\ Served(defs, r[k]) \in SUBSET D /\ IsFiniteSet(Served(defs, r[k]))
             /\ C(k) \in Nat /\ C(k) <= m
  <2>1. Served(defs, r[k]) \in SUBSET D
      BY <1>1, <1>3 DEF PlaceInv, Served
  <2> HIDE DEF r
  <2>2. IsFiniteSet(Served(defs, r[k])) /\ C(k) <= m
      BY <2>1, FS_Subset
  <2> QED
      BY <2>1, <2>2, FS_CardinalityType
<1> HIDE DEF r, m
<1>4. 0 \notin T
  <2>1. PlaceInv(df, defs, r[0])
      BY <1>1, <1>2 DEF PlaceInv, Served, ClosedUnder
  <2>2. C(0) \in Nat
      BY <1>3, <2>1
  <2> HIDE DEF C
  <2> QED
      BY <2>1, <2>2
<1>5. ASSUME NEW k \in Nat, k \notin T PROVE k + 1 \notin T
  <2> SUFFICES ASSUME k + 1 <= m
               PROVE  PlaceInv(df, defs, r[k + 1]) /\ (r[k + 1].work = {} \/ k + 1 <= C(k + 1))
      OBVIOUS
  <2>1. PlaceInv(df, defs, r[k]) /\ (r[k].work = {} \/ k <= C(k))
      BY <1>1, <1>5
  <2>2. r[k + 1] = PlaceStep(df, defs, r[k])
    <3>1. k + 1 \in 1 .. m /\ (k + 1) - 1 = k
        BY <1>1
    <3> QED
        BY <1>2, <3>1
  <2>3. PlaceInv(df, defs, r[k + 1])
      BY <2>1, <2>2, PlaceStepKeeps
  <2>4. CASE r[k].work = {}
      BY <2>2, <2>3, <2>4 DEF PlaceStep
  <2>5. CASE r[k].work /= {}
    <3>1. Served(defs, r[k]) \in SUBSET Served(defs, r[k + 1]) /\ Served(defs, r[k]) /= Served(defs, r[k + 1])
      <4> DEFINE s == r[k]
      <4>1. PlaceInv(df, defs, s) /\ s.work /= {}
          BY <2>1, <2>5
      <4> HIDE DEF s
      <4>2. Served(defs, s) \subseteq Served(defs, PlaceStep(df, defs, s)) /\ Served(defs, s) /= Served(defs, PlaceStep(df, defs, s))
          BY <4>1, PlaceStepKeeps
      <4> QED
          BY <2>2, <4>2 DEF s
    <3>2. IsFiniteSet(Served(defs, r[k + 1])) /\ C(k) \in Nat /\ C(k + 1) \in Nat
        BY <1>3, <2>1, <2>3
    <3>3. C(k) <= C(k + 1) /\ C(k) /= C(k + 1)
        BY <3>1, <3>2, FS_Subset
    <3>4. k <= C(k)
        BY <2>1, <2>5
    <3> HIDE DEF C
    <3>5. k + 1 <= C(k + 1)
        BY <3>2, <3>3, <3>4
    <3> QED
        BY <2>3, <3>5
  <2> QED
      BY <2>4, <2>5
<1>6. T = {}
  <2> HIDE DEF T
  <2>1. T \subseteq Nat
      BY DEF T
  <2> QED
      BY <1>4, <1>5, <2>1, Smallest
<1>7. PlaceInv(df, defs, r[m]) /\ (r[m].work = {} \/ m <= C(m))
    BY <1>1, <1>6
<1>8. r[m].work = {}
  <2> SUFFICES ASSUME m <= C(m) PROVE r[m].work = {}
      BY <1>7
  <2>1. Served(defs, r[m]) = D
    <3>1. Served(defs, r[m]) \in SUBSET D /\ C(m) \in Nat /\ C(m) <= m
        BY <1>3, <1>7
    <3>2. C(m) = m
        BY <1>1, <3>1
    <3> QED
        BY <3>1, <3>2, FS_Subset DEF m
  <2>2. r[m].work \subseteq D
      BY <1>1, <1>7 DEF PlaceInv
  <2> QED
      BY <2>1, <2>2 DEF Served
<1>9. PhiBlocks(df, defs) = r[m].phis
    BY <1>1 DEF PhiBlocks, r, m
<1>10. ClosedUnder(df, defs, r[m].phis)
    BY <1>7, <1>8 DEF PlaceInv, Served, ClosedUnder
<1> QED
    BY <1>1, <1>7, <1>8, <1>9, <1>10 DEF PlaceInv, r, m

(* Of the blocks of S that strictly dominate n, the nearest.               *)
IsNear(f, S, d, n) ==
    /\ d \in S /\ StrictlyDominates(f, d, n)
    /\ \A e \in S : StrictlyDominates(f, e, n) => Dominates(f, e, d)

(* Where nothing of S has its frontier, what a block brings is the same    *)
(* from wherever it is entered.                                            *)
LEMMA PassedOn ==
    ASSUME NEW nodes, NEW f, Connected(f, nodes), NEW S, NEW n \in ToSet(nodes), NEW p \in Preds(f, n),
           \A d \in S : Dominates(f, d, p) => StrictlyDominates(f, d, n)
    PROVE  /\ p \in S => IsNear(f, S, p, n)
           /\ \A d : p \notin S /\ IsNear(f, S, d, p) => IsNear(f, S, d, n)
<1>1. \A e : StrictlyDominates(f, e, n) => Dominates(f, e, p)
    BY DominatesBefore DEF StrictlyDominates
<1>2. p \in S => IsNear(f, S, p, n)
    BY <1>1, DominatesItself DEF IsNear
<1>3. ASSUME NEW d, p \notin S, IsNear(f, S, d, p) PROVE IsNear(f, S, d, n)
    BY <1>1, <1>3 DEF IsNear, StrictlyDominates
<1> QED
    BY <1>2, <1>3

LEMMA WalkFacts ==
    ASSUME NEW f, NEW n, NEW w \in WalksTo(f, n)
    PROVE  /\ Len(w) \in Nat /\ Len(w) >= 1 /\ w[1] = f.entry /\ w[Len(w)] = n
           /\ \A j \in 1 .. Len(w) - 1 : <<w[j], w[j + 1]>> \in f.edge
BY EmptySeq, LenProperties DEF WalksTo

LEMMA NearOnWalks ==
    ASSUME NEW nodes, NEW f, Connected(f, nodes), NEW phis, NEW S, phis \subseteq S, f.entry \in S,
           \A n \in ToSet(nodes) \ phis : \A p \in Preds(f, n) : \A d \in S :
               n /= f.entry /\ Dominates(f, d, p) => StrictlyDominates(f, d, n),
           NEW n \in ToSet(nodes) \ phis, n /= f.entry,
           NEW w \in WalksTo(f, n), NEW k, LastOf(w, S, k)
    PROVE  IsNear(f, S, w[k], n)
<1> DEFINE L == ToSet(nodes)
           Plain(b) == b \in L /\ b \notin phis /\ b /= f.entry
           LastTo(i, j) == i \in 1 .. j /\ w[i] \in S /\ \A h \in i + 1 .. j : w[h] \notin S
           U == {j \in Nat : j >= 1 /\ j <= Len(w) - 1 /\ Plain(w[j + 1])
                                /\ \E i \in 1 .. j : LastTo(i, j) /\ ~IsNear(f, S, w[i], w[j + 1])}
<1>1. /\ Len(w) \in Nat /\ Len(w) >= 1 /\ w[1] = f.entry /\ w[Len(w)] = n
      /\ \A j \in 1 .. Len(w) - 1 : <<w[j], w[j + 1]>> \in f.edge
    BY WalkFacts
<1>2. ASSUME NEW a, NEW b \in L, <<a, b>> \in f.edge PROVE a \in L /\ a \in Preds(f, b)
  <2> DEFINE e == <<a, b>>
  <2>1. e[1] = a /\ e[2] = b /\ e \in f.edge
      BY <1>2
  <2> HIDE DEF e
  <2>2. a \in Preds(f, b)
      BY <2>1 DEF Preds
  <2> QED
      BY <2>2 DEF Connected
<1>3. 0 \notin U
    OBVIOUS
<1>4. ASSUME NEW j \in Nat, j \notin U PROVE j + 1 \notin U
  <2> SUFFICES ASSUME j + 1 <= Len(w) - 1, Plain(w[(j + 1) + 1]), NEW i \in 1 .. j + 1, LastTo(i, j + 1)
               PROVE  IsNear(f, S, w[i], w[(j + 1) + 1])
      OBVIOUS
  <2> DEFINE p == w[j + 1]
             b == w[(j + 1) + 1]
  <2>1. p \in L /\ p \in Preds(f, b) /\ b \in L
    <3>1. j + 1 \in 1 .. Len(w) - 1
        BY <1>1
    <3>2. <<p, b>> \in f.edge
        BY <1>1, <3>1
    <3> QED
        BY <1>2, <3>2
  <2>2. \A d \in S : Dominates(f, d, p) => StrictlyDominates(f, d, b)
      BY <2>1
  <2>3. CASE p \in S
    <3>1. i = j + 1
        BY <2>3
    <3> QED
        BY <2>1, <2>2, <2>3, <3>1, PassedOn
  <2>4. CASE p \notin S
    <3>1. i \in 1 .. j /\ LastTo(i, j)
        BY <2>4
    <3>2. j >= 1 /\ j <= Len(w) - 1 /\ Plain(p)
        BY <1>1, <2>1, <2>4, <3>1
    <3>3. IsNear(f, S, w[i], p)
        BY <1>4, <3>1, <3>2
    <3> QED
        BY <2>1, <2>2, <2>4, <3>3, PassedOn
  <2> QED
      BY <2>3, <2>4
<1>5. U = {}
  <2>1. U \in SUBSET Nat
      OBVIOUS
  <2> HIDE DEF U
  <2> QED
      BY <1>3, <1>4, <2>1, Smallest
<1>6. k \in 1 .. Len(w) - 1 /\ LastTo(k, Len(w) - 1)
    BY DEF LastOf
<1>7. Plain(w[(Len(w) - 1) + 1]) /\ (Len(w) - 1) + 1 = Len(w) /\ Len(w) - 1 \in Nat /\ Len(w) - 1 >= 1
    BY <1>1, <1>6
<1>8. IsNear(f, S, w[k], w[(Len(w) - 1) + 1])
  <2>1. PICK j \in Nat : j = Len(w) - 1
      BY <1>7
  <2>2. j >= 1 /\ j <= Len(w) - 1 /\ Plain(w[j + 1]) /\ k \in 1 .. j /\ LastTo(k, j)
      BY <1>6, <1>7, <2>1
  <2> HIDE DEF Plain, LastTo
  <2>3. IsNear(f, S, w[k], w[j + 1])
      BY <1>5, <2>2
  <2> QED
      BY <2>1, <2>3
<1> QED
    BY <1>1, <1>7, <1>8

(* VariableRename enters a block by whichever edge its stack brings up     *)
(* first and keeps the values it comes with.  That is sound: in a block    *)
(* without a phi for a variable, the block that set it last - with a       *)
(* store, a phi, or by being the entry - is the same on every walk.        *)
THEOREM PhiPlacementSuffices ==
    ASSUME NEW Node, NEW nodes \in Seq(Node), NEW f, Connected(f, nodes), NEW defs \in SUBSET ToSet(nodes)
    PROVE  LET idom == ComputeImmediateDominator(f, ComputeDominatorSet(f, nodes))
               phis == PhiBlocks(ComputeDominanceFrontier(f, idom), defs)
               S == defs \cup phis \cup {f.entry}
           IN  /\ phis \subseteq ToSet(nodes) \ {f.entry}
               /\ \A n \in ToSet(nodes) \ (phis \cup {f.entry}) :
                     \A w, v \in WalksTo(f, n) : \A k, j \in Nat :
                         LastOf(w, S, k) /\ LastOf(v, S, j) => w[k] = v[j]
<1> DEFINE L == ToSet(nodes)
           dom == ComputeDominatorSet(f, nodes)
           idom == ComputeImmediateDominator(f, dom)
           df == ComputeDominanceFrontier(f, idom)
           phis == PhiBlocks(df, defs)
           S == defs \cup phis \cup {f.entry}
<1> SUFFICES /\ phis \subseteq L \ {f.entry}
             /\ \A n \in L \ (phis \cup {f.entry}) : \A w, v \in WalksTo(f, n) : \A k, j \in Nat :
                   LastOf(w, S, k) /\ LastOf(v, S, j) => w[k] = v[j]
    OBVIOUS
<1>1. nodes \in Seq(ToSet(nodes)) /\ IsFiniteSet(L) /\ f.entry \in L
    BY OwnSequence, FewBlocks DEF Connected
<1>2. \A b \in L : df[b] = {n \in L \ {f.entry} :
                              ~StrictlyDominates(f, b, n) /\ \E p \in Preds(f, n) : Dominates(f, b, p)}
    BY DominanceFrontierIsRight
<1>3. DOMAIN df = L
  <2>1. RightSets(f, nodes, dom)
      BY DominatorSetsRight DEF RightSets
  <2> HIDE DEF dom
  <2>2. DOMAIN idom = L \ {f.entry}
      BY <1>1, <2>1, ImmediateIsNearest
  <2> HIDE DEF idom
  <2> QED
      BY <1>1, <2>2 DEF ComputeDominanceFrontier
<1>4. df \in [L -> SUBSET L]
  <2>1. df = [b \in DOMAIN idom \cup {f.entry} |-> df[b]]
      BY DEF ComputeDominanceFrontier
  <2>2. df = [b \in L |-> df[b]]
      BY <1>3, <2>1 DEF ComputeDominanceFrontier
  <2> HIDE DEF df
  <2> QED
      BY <1>2, <2>2
<1> HIDE DEF df
<1>5. /\ phis \subseteq L /\ ClosedUnder(df, defs, phis)
      /\ \A X \in SUBSET L : ClosedUnder(df, defs, X) => phis \subseteq X
    BY <1>1, <1>4, PhisAreIteratedFrontier
<1> HIDE DEF phis
<1>6. phis \subseteq L \ {f.entry}
  <2>1. ClosedUnder(df, defs, L \ {f.entry})
      BY <1>2 DEF ClosedUnder
  <2> QED
      BY <1>5, <2>1
<1>7. ASSUME NEW n \in L \ phis, NEW p \in Preds(f, n), NEW d \in S, n /= f.entry, Dominates(f, d, p)
      PROVE  StrictlyDominates(f, d, n)
  <2>1. CASE d = f.entry
      BY <1>7, <2>1, DominatesItself DEF StrictlyDominates
  <2>2. CASE d \in defs \cup phis
    <3>1. d \in L /\ n \notin df[d]
        BY <1>5, <2>2 DEF ClosedUnder
    <3> QED
        BY <1>2, <1>7, <3>1
  <2> QED
      BY <2>1, <2>2
<1>8. ASSUME NEW n \in L \ (phis \cup {f.entry}), NEW w \in WalksTo(f, n), NEW v \in WalksTo(f, n),
             NEW k \in Nat, NEW j \in Nat, LastOf(w, S, k), LastOf(v, S, j)
      PROVE  w[k] = v[j]
  <2>1. S \subseteq L
      BY <1>1, <1>5
  <2>2. phis \subseteq S /\ f.entry \in S /\ n \in L \ phis /\ n /= f.entry
      OBVIOUS
  <2> HIDE DEF S
  <2>3. IsNear(f, S, w[k], n) /\ IsNear(f, S, v[j], n)
    <3> HIDE DEF L
    <3> QED
        BY <1>7, <1>8, <2>2, NearOnWalks DEF L
  <2>4. /\ w[k] \in L /\ v[j] \in L
        /\ Dominates(f, w[k], v[j]) /\ Dominates(f, v[j], w[k])
      BY <2>1, <2>3 DEF IsNear
  <2> QED
      BY <2>4, DominatesAntisymmetric
<1> HIDE DEF S, L
<1> QED
    BY <1>6, <1>8

-----------------------------------------------------------------------------
(* Liveness. *)

(* The function keeps its layout; cursor and flag of the first loop. *)
PhaseRange ==
    /\ LaidOut(prog)
    /\ phase = "init" => cursor \in 1 .. N /\ changed = FALSE

(* Blocks the first loop has dealt with hold their own use and def sets.   *)
Scanned(b) ==
    /\ liveUse[b] = UpwardExposed(b)
    /\ liveDef[b] = PresetDef(b) \cup Written(b)

(* A block whose live_in_ is up to date with its own live_out_.            *)
Settled(b) == liveIn[b] = Transfer(b, liveOut[b])

Untouched(b) == liveIn[b] = {} /\ liveOut[b] = {}

InitDone ==
    /\ phase = "init" => \A b \in Blocks : b < cursor => Scanned(b) /\ Untouched(b)
    /\ phase /= "init" => \A b \in Blocks : Scanned(b)

(* Blocks of the running pass are settled once visited.  Before they are,  *)
(* they are settled too from the second pass on; in the first they have    *)
(* not been touched.                                                       *)
PassProgress ==
    phase = "flow" =>
        /\ \A b \in Blocks : b > cursor => Settled(b)
        /\ \/ \A b \in Blocks : b <= cursor => Settled(b)
           \/ \A b \in Blocks : b <= cursor => Untouched(b)

(* While the pass has not grown a live_out_, the blocks it has visited     *)
(* cover their successors: all of them from the second pass on, those      *)
(* visited before them in the first, when every live_out_ is still empty.  *)
QuietPass ==
    phase = "flow" /\ ~changed =>
        \/ /\ \A b \in Blocks : Settled(b)
           /\ \A b \in Blocks : b > cursor =>
                 \A s \in prog.succ[b] : liveIn[s] \subseteq liveOut[b]
        \/ /\ \A b \in Blocks : b <= cursor => Untouched(b)
           /\ \A b \in Blocks : b > cursor => liveOut[b] = {}
           /\ \A b \in Blocks : b > cursor =>
                 \A s \in prog.succ[b] : s > b => liveIn[s] = {}

IInv == TypeOK /\ PhaseRange /\ InitDone /\ PassProgress /\ QuietPass /\ StopsAtFixpoint

-----------------------------------------------------------------------------

(* What the helpers of the pass return: sets of registers. *)
LEMMA HelperTypes ==
    ASSUME TypeOK, NEW b \in Blocks
    PROVE  /\ PresetDef(b) \in SUBSET Vregs
           /\ UpwardExposed(b) \in SUBSET Vregs
           /\ Written(b) \in SUBSET Vregs
           /\ Gather(b) \in SUBSET Vregs
           /\ \A out \in SUBSET Vregs : Transfer(b, out) \in SUBSET Vregs
BY DEF TypeOK, Program, PresetDef, UpwardExposed, Written, Gather, Transfer

(* The initial states satisfy the invariant. *)
LEMMA InitIInv == Init => IInv
<1> SUFFICES ASSUME Init PROVE IInv
    OBVIOUS
<1>1. TypeOK
  <2>1. prog \in Program /\ cursor \in 0 .. N
      BY SizeAssumption, ProgramAssumption DEF Init
  <2>2. PICK old \in Leftover :
            liveUse = old /\ liveDef = old /\ liveIn = old /\ liveOut = old
      BY DEF Init
  <2>3. old \in [Blocks -> SUBSET Vregs]
      BY DEF Leftover
  <2> QED
      BY <2>1, <2>2, <2>3 DEF Init, TypeOK
<1>2. PhaseRange
    BY SizeAssumption, LayoutAssumption DEF Init, PhaseRange
<1>3. InitDone /\ PassProgress /\ QuietPass /\ StopsAtFixpoint
    BY DEF Init, InitDone, PassProgress, QuietPass, StopsAtFixpoint, Blocks
<1> QED
    BY <1>1, <1>2, <1>3 DEF IInv

(* Every step keeps the variables in their types. *)
LEMMA NextTypeOK ==
    ASSUME TypeOK, PhaseRange, [Next]_vars
    PROVE  TypeOK'
<1>1. CASE InitBlock
  <2>1. cursor \in Blocks
      BY <1>1 DEF PhaseRange, InitBlock, Blocks
  <2>2. /\ UpwardExposed(cursor) \in SUBSET Vregs
        /\ PresetDef(cursor) \cup Written(cursor) \in SUBSET Vregs
      BY <2>1, HelperTypes
  <2>3. cursor' \in 0 .. N /\ phase' \in {"init", "flow", "done"}
      BY <1>1, SizeAssumption DEF InitBlock, TypeOK
  <2> QED
      BY <1>1, <2>1, <2>2, <2>3 DEF InitBlock, TypeOK
<1>2. CASE Visit
  <2>1. cursor \in Blocks
      BY <1>2 DEF TypeOK, Visit, Blocks
  <2>2. Gather(cursor) \in SUBSET Vregs /\ Transfer(cursor, Gather(cursor)) \in SUBSET Vregs
      BY <2>1, HelperTypes
  <2>3. cursor' \in 0 .. N
      BY <1>2, SizeAssumption DEF Visit, TypeOK
  <2>4. changed' \in BOOLEAN
      BY <1>2, Zenon DEF Visit, TypeOK
  <2> QED
      BY <1>2, <2>1, <2>2, <2>3, <2>4 DEF Visit, TypeOK
<1>3. CASE Again
  <2>1. cursor' \in 0 .. N
      BY <1>3, SizeAssumption DEF Again
  <2> QED
      BY <1>3, <2>1, Zenon DEF Again, TypeOK
<1>4. CASE Finish
  <2>1. liveIn' \in [Blocks -> SUBSET Vregs]
      BY <1>4, SizeAssumption DEF Finish, TypeOK, Program, Blocks
  <2> QED
      BY <1>4, <2>1 DEF Finish, TypeOK
<1>5. CASE UNCHANGED vars
    BY <1>5 DEF vars, TypeOK
<1> QED
    BY <1>1, <1>2, <1>3, <1>4, <1>5 DEF Next

(* Nothing the helpers read besides the live sets ever changes. *)
LEMMA StaticHelpers ==
    ASSUME prog' = prog, NEW b \in Blocks
    PROVE  /\ UpwardExposed(b)' = UpwardExposed(b)
           /\ PresetDef(b)' = PresetDef(b)
           /\ Written(b)' = Written(b)
BY DEF UpwardExposed, PresetDef, Written

(* InitBlock preserves the parts of the invariant that speak of passes. *)
LEMMA InitBlockStep ==
    ASSUME IInv, InitBlock
    PROVE  PhaseRange' /\ InitDone' /\ PassProgress' /\ QuietPass' /\ StopsAtFixpoint'
<1> USE SizeAssumption DEF Blocks
<1>1. cursor \in 1 .. N /\ changed = FALSE
    BY DEF IInv, PhaseRange, InitBlock
<1>2. PhaseRange'
    BY <1>1 DEF IInv, PhaseRange, InitBlock, LaidOut
<1>3. \A b \in Blocks : b <= cursor => Scanned(b)' /\ Untouched(b)'
  <2> SUFFICES ASSUME NEW b \in Blocks, b <= cursor
               PROVE  Scanned(b)' /\ Untouched(b)'
      OBVIOUS
  <2>1. /\ UpwardExposed(b)' = UpwardExposed(b)
        /\ PresetDef(b)' = PresetDef(b)
        /\ Written(b)' = Written(b)
      BY StaticHelpers DEF InitBlock
  <2>2. CASE b = cursor
      BY <2>1, <2>2 DEF InitBlock, Scanned, Untouched, IInv, TypeOK
  <2>3. CASE b < cursor
    <3>1. Scanned(b) /\ Untouched(b)
        BY <2>3 DEF IInv, InitDone, InitBlock
    <3>2. /\ liveUse'[b] = liveUse[b] /\ liveDef'[b] = liveDef[b]
          /\ liveIn'[b] = liveIn[b] /\ liveOut'[b] = liveOut[b]
        BY <2>3 DEF InitBlock, IInv, TypeOK
    <3> QED
        BY <2>1, <3>1, <3>2 DEF Scanned, Untouched
  <2> QED
      BY <1>1, <2>2, <2>3
<1>4. CASE cursor < N
  <2>1. phase' = "init" /\ cursor' = cursor + 1
      BY <1>4 DEF InitBlock
  <2> QED
      BY <1>1, <1>2, <1>3, <2>1 DEF InitDone, PassProgress, QuietPass, StopsAtFixpoint
<1>5. CASE ~(cursor < N)
  <2>1. phase' = "flow" /\ cursor' = N /\ cursor = N
      BY <1>1, <1>5 DEF InitBlock
  <2>2. \A b \in Blocks : Scanned(b)' /\ Untouched(b)'
      BY <1>3, <2>1
  <2>3. InitDone'
      BY <2>1, <2>2 DEF InitDone
  <2>4. PassProgress' /\ QuietPass'
      BY <2>1, <2>2 DEF PassProgress, QuietPass
  <2> QED
      BY <1>2, <2>1, <2>3, <2>4 DEF StopsAtFixpoint
<1> QED
    BY <1>4, <1>5

(* Visit keeps use and def sets, and settles the block it is at. *)
LEMMA VisitStep ==
    ASSUME IInv, Visit
    PROVE  PhaseRange' /\ InitDone' /\ PassProgress' /\ QuietPass' /\ StopsAtFixpoint'
<1> PICK c \in Blocks : c = cursor
    BY DEF IInv, TypeOK, Visit, Blocks
<1>1. phase = "flow" /\ phase' = "flow" /\ prog' = prog /\ cursor' = c - 1
    BY DEF Visit
<1>2. PhaseRange' /\ InitDone' /\ StopsAtFixpoint'
  <2>1. \A b \in Blocks : Scanned(b)'
      BY <1>1, StaticHelpers DEF Visit, IInv, InitDone, Scanned
  <2> QED
      BY <1>1, <2>1 DEF InitDone, IInv, PhaseRange, LaidOut, StopsAtFixpoint
<1>3. \A b \in Blocks : b = c \/ Settled(b) => Settled(b)'
  <2>1. liveOut'[c] = Gather(c) /\ liveIn'[c] = Transfer(c, Gather(c))
      BY DEF Visit, IInv, TypeOK
  <2>2. \A b \in Blocks : b /= c => liveOut'[b] = liveOut[b] /\ liveIn'[b] = liveIn[b]
      BY DEF Visit, IInv, TypeOK
  <2> QED
      BY <2>1, <2>2 DEF Visit, Settled, Transfer
<1>4. \A b \in Blocks : b /= c => /\ liveIn'[b] = liveIn[b]
                                 /\ liveOut'[b] = liveOut[b]
    BY DEF Visit, IInv, TypeOK
<1>5. PassProgress'
  <2>1. \A b \in Blocks : /\ b > cursor' => b = c \/ b > cursor
                          /\ b <= cursor' => b <= cursor /\ b /= c
      BY <1>1, SizeAssumption DEF Blocks
  <2>2. \A b \in Blocks : b > cursor' => Settled(b)'
      BY <1>1, <1>3, <2>1 DEF IInv, PassProgress
  <2>3. CASE \A b \in Blocks : b <= cursor => Settled(b)
    <3>1. \A b \in Blocks : b <= cursor' => Settled(b)'
        BY <1>3, <2>1, <2>3
    <3> QED
        BY <2>2, <3>1 DEF PassProgress
  <2>4. CASE \A b \in Blocks : b <= cursor => Untouched(b)
    <3>1. \A b \in Blocks : b <= cursor' => Untouched(b)'
        BY <1>4, <2>1, <2>4 DEF Untouched
    <3> QED
        BY <2>2, <3>1 DEF PassProgress
  <2> QED
      BY <1>1, <2>3, <2>4 DEF IInv, PassProgress
<1>6. QuietPass'
  <2> SUFFICES ASSUME ~changed' PROVE QuietPass'
      BY DEF QuietPass
  <2>1. ~changed /\ Gather(c) = liveOut[c]
      BY DEF Visit
  <2>2. \A s \in prog.succ[c] : s \in Blocks /\ liveIn[s] \subseteq liveOut[c]
      BY <1>1, <2>1 DEF Gather, IInv, TypeOK, Program
  <2>3. liveOut' = liveOut
      BY <1>1, <2>1 DEF Visit, IInv, TypeOK
  <2>4. CASE /\ \A b \in Blocks : Settled(b)
             /\ \A b \in Blocks : b > c =>
                   \A s \in prog.succ[b] : liveIn[s] \subseteq liveOut[b]
    <3>1. liveIn'[c] = liveIn[c]
        BY <1>1, <2>1, <2>4 DEF Visit, IInv, TypeOK, Settled
    <3>2. liveIn' = liveIn
        BY <1>1, <3>1 DEF Visit, IInv, TypeOK
    <3>3. \A b \in Blocks : Settled(b)'
        BY <1>3, <2>4
    <3>4. \A b \in Blocks : b > cursor' =>
             \A s \in prog.succ[b] : liveIn'[s] \subseteq liveOut'[b]
        BY <1>1, <2>2, <2>3, <2>4, <3>2 DEF Blocks
    <3> QED
        BY <1>1, <3>3, <3>4 DEF QuietPass
  <2>5. CASE /\ \A b \in Blocks : b <= c => Untouched(b)
             /\ \A b \in Blocks : b > c => liveOut[b] = {}
             /\ \A b \in Blocks : b > c =>
                   \A s \in prog.succ[b] : s > b => liveIn[s] = {}
    <3>1. \A b \in Blocks : b <= cursor' => Untouched(b)'
      <4>1. \A b \in Blocks : b <= cursor' => b <= c /\ b /= c
          BY <1>1, SizeAssumption DEF Blocks
      <4> QED
          BY <1>4, <2>5, <4>1 DEF Untouched
    <3>2. liveOut[c] = {}
        BY <1>1, <2>5 DEF Untouched, Blocks
    <3>3. \A b \in Blocks : b > cursor' => liveOut'[b] = {}
        BY <1>1, <2>3, <2>5, <3>2 DEF Blocks
    <3>4. \A b \in Blocks : b > cursor' =>
             \A s \in prog.succ[b] : s > b => liveIn'[s] = {}
      <4> SUFFICES ASSUME NEW b \in Blocks, b > cursor',
                          NEW s \in prog.succ[b], s > b
                   PROVE  liveIn'[s] = {}
          OBVIOUS
      <4>1. s \in Blocks
          BY DEF IInv, TypeOK, Program
      <4>2. s > c /\ s /= c /\ (b = c \/ b > c)
          BY <1>1, <4>1, SizeAssumption DEF Blocks
      <4>3. liveIn[s] = {}
        <5>1. CASE b = c
            BY <2>2, <3>2, <5>1
        <5>2. CASE b > c
            BY <2>5, <5>2
        <5> QED
            BY <4>2, <5>1, <5>2
      <4>4. liveIn'[s] = liveIn[s]
          BY <1>4, <4>1, <4>2
      <4> QED
          BY <4>3, <4>4
    <3> QED
        BY <1>1, <3>1, <3>3, <3>4 DEF QuietPass
  <2> QED
      BY <1>1, <2>1, <2>4, <2>5 DEF IInv, QuietPass
<1> QED
    BY <1>2, <1>5, <1>6

(* Again starts a pass over blocks that are all settled. *)
LEMMA AgainStep ==
    ASSUME IInv, Again
    PROVE  PhaseRange' /\ InitDone' /\ PassProgress' /\ QuietPass' /\ StopsAtFixpoint'
<1>1. /\ phase = "flow" /\ phase' = "flow" /\ cursor = 0 /\ cursor' = N
      /\ prog' = prog /\ liveUse' = liveUse /\ liveDef' = liveDef
      /\ liveIn' = liveIn /\ liveOut' = liveOut
    BY DEF Again
<1>2. \A b \in Blocks : Settled(b)
    BY <1>1 DEF IInv, PassProgress, Blocks
<1>3. \A b \in Blocks : Settled(b)' /\ Scanned(b)'
    BY <1>1, <1>2, StaticHelpers DEF IInv, InitDone, Settled, Scanned, Transfer
<1>4. PhaseRange' /\ InitDone' /\ StopsAtFixpoint'
    BY <1>1, <1>3 DEF IInv, PhaseRange, InitDone, StopsAtFixpoint, LaidOut
<1>5. PassProgress' /\ QuietPass'
    BY <1>1, <1>3, SizeAssumption DEF PassProgress, QuietPass, Blocks
<1> QED
    BY <1>4, <1>5

(* Finish stops at a solution.  In the first pass a quiet walk proves only *)
(* that live_in_ is empty at successors later in the order; the layout     *)
(* makes every block but the entry such a successor of some block.         *)
LEMMA FinishStep ==
    ASSUME IInv, Finish
    PROVE  PhaseRange' /\ InitDone' /\ PassProgress' /\ QuietPass' /\ StopsAtFixpoint'
<1>1. /\ phase = "flow" /\ ~changed /\ cursor = 0 /\ phase' = "done"
      /\ prog' = prog /\ liveUse' = liveUse /\ liveDef' = liveDef /\ liveOut' = liveOut
    BY DEF Finish
<1>2. \A b \in Blocks : Settled(b) /\ Scanned(b)
    BY <1>1 DEF IInv, PassProgress, InitDone, Blocks
<1>3. \A b \in Blocks : \A s \in prog.succ[b] :
          s \in Blocks \ {1} /\ liveIn[s] \subseteq liveOut[b]
  <2> SUFFICES ASSUME NEW b \in Blocks, NEW s \in prog.succ[b]
               PROVE  s \in Blocks \ {1} /\ liveIn[s] \subseteq liveOut[b]
      OBVIOUS
  <2>1. s \in Blocks /\ s /= 1
      BY DEF IInv, TypeOK, Program, PhaseRange, LaidOut
  <2>2. CASE \A a \in Blocks : \A t \in prog.succ[a] : liveIn[t] \subseteq liveOut[a]
      BY <2>1, <2>2
  <2>3. CASE \A a \in Blocks : \A t \in prog.succ[a] : t > a => liveIn[t] = {}
    <3>1. PICK a \in 1 .. s - 1 : s \in prog.succ[a]
        BY <2>1 DEF IInv, PhaseRange, LaidOut, Blocks
    <3>2. a \in Blocks /\ s > a
        BY <2>1, <3>1, SizeAssumption DEF Blocks
    <3>3. liveIn[s] = {}
        BY <2>3, <3>1, <3>2
    <3> QED
        BY <2>1, <3>3
  <2>4. \A a \in Blocks : a > cursor
      BY <1>1 DEF Blocks
  <2> QED
      BY <1>1, <2>2, <2>3, <2>4 DEF IInv, QuietPass
<1>4. \A b \in Blocks : liveIn[b] \subseteq liveIn'[b] /\ (b /= 1 => liveIn'[b] = liveIn[b])
    BY DEF Finish, IInv, TypeOK
<1>5. \A b \in Blocks : /\ UpwardExposed(b)' = UpwardExposed(b)
                        /\ PresetDef(b)' = PresetDef(b)
                        /\ Written(b)' = Written(b)
    BY <1>1, StaticHelpers
<1>6. StopsAtFixpoint'
    BY <1>1, <1>2, <1>3, <1>4, <1>5 DEF StopsAtFixpoint, Settled, Scanned, Transfer
<1>7. PhaseRange' /\ InitDone' /\ PassProgress' /\ QuietPass'
    BY <1>1, <1>2, <1>5 DEF IInv, PhaseRange, LaidOut, InitDone, Scanned, PassProgress, QuietPass
<1> QED
    BY <1>6, <1>7

(* The invariant is inductive. *)
LEMMA NextIInv == IInv /\ [Next]_vars => IInv'
<1> SUFFICES ASSUME IInv, [Next]_vars PROVE IInv'
    OBVIOUS
<1>1. TypeOK'
    BY NextTypeOK DEF IInv
<1>2. PhaseRange' /\ InitDone' /\ PassProgress' /\ QuietPass' /\ StopsAtFixpoint'
  <2>1. CASE UNCHANGED vars
    <3>1. \A b \in Blocks : /\ UpwardExposed(b)' = UpwardExposed(b)
                            /\ PresetDef(b)' = PresetDef(b)
                            /\ Written(b)' = Written(b)
        BY <2>1, StaticHelpers DEF vars
    <3> QED
        BY <2>1, <3>1 DEF vars, IInv, PhaseRange, LaidOut, InitDone, PassProgress, QuietPass,
               StopsAtFixpoint, Scanned, Settled, Untouched, Transfer
  <2> QED
      BY <2>1, InitBlockStep, VisitStep, AgainStep, FinishStep DEF Next
<1> QED
    BY <1>1, <1>2 DEF IInv

(* The liveness sets and the cursor keep their types in every execution of *)
(* computeLivenessInfomation.                                              *)
THEOREM TypeCorrect == Spec => []TypeOK
<1>1. IInv => TypeOK
    BY DEF IInv
<1> QED
    BY InitIInv, NextIInv, <1>1, PTL DEF Spec

(* When computeLivenessInfomation stops, its sets solve the liveness       *)
(* equations, for every function laid out as GetSequentialNodes lays it    *)
(* out.                                                                    *)
THEOREM FixpointAtEnd == Spec => []StopsAtFixpoint
<1>1. IInv => StopsAtFixpoint
    BY DEF IInv
<1> QED
    BY InitIInv, NextIInv, <1>1, PTL DEF Spec

-----------------------------------------------------------------------------

(* The sets of block b lie below the assignment S. *)
Below(S, b) ==
    /\ liveIn[b] \subseteq S[b] \cup PresetDef(b)
    /\ liveOut[b] \subseteq UNION {S[s] : s \in prog.succ[b]}

(* NeverTooMuch, with what holds of the blocks scanned so far. *)
Least ==
    \A S \in [Blocks -> SUBSET Vregs] :
        IsSolution(S) =>
            \A b \in Blocks : phase /= "init" \/ b < cursor => Below(S, b)

(* One step keeps the sets below every solution. *)
LEMMA NextLeast ==
    ASSUME IInv, Least, Next
    PROVE  Least'
<1> SUFFICES ASSUME NEW S \in [Blocks -> SUBSET Vregs], IsSolution(S)',
                    NEW b \in Blocks, (phase /= "init" \/ b < cursor)'
             PROVE  Below(S, b)'
    BY DEF Least
<1>1. prog' = prog
    BY DEF Next, InitBlock, Visit, Again, Finish
<1>2. \A a \in Blocks : /\ UpwardExposed(a)' = UpwardExposed(a)
                        /\ PresetDef(a)' = PresetDef(a)
                        /\ Written(a)' = Written(a)
    BY <1>1, StaticHelpers
<1>3. IsSolution(S)
    BY <1>1, <1>2 DEF IsSolution, Needed
<1>4. \A a \in Blocks : phase /= "init" \/ a < cursor => Below(S, a)
    BY <1>3 DEF Least
<1>5. CASE InitBlock
  <2>1. cursor \in 1 .. N
      BY <1>5 DEF InitBlock, IInv, PhaseRange
  <2>2. b <= cursor
      BY <1>5, <2>1, SizeAssumption DEF InitBlock, Blocks
  <2>3. CASE b = cursor
      BY <1>5, <2>3 DEF InitBlock, IInv, TypeOK, Below
  <2>4. CASE b /= cursor
    <3>1. b < cursor
        BY <2>1, <2>2, <2>4 DEF Blocks
    <3>2. liveIn'[b] = liveIn[b] /\ liveOut'[b] = liveOut[b]
        BY <1>5, <2>4 DEF InitBlock, IInv, TypeOK
    <3> QED
        BY <1>1, <1>2, <1>4, <3>1, <3>2 DEF Below
  <2> QED
      BY <2>3, <2>4
<1>6. CASE Visit
  <2>1. phase = "flow" /\ cursor \in Blocks
      BY <1>6 DEF Visit, IInv, TypeOK, Blocks
  <2>2. CASE b = cursor
    <3>1. liveOut'[b] = Gather(b) /\ liveIn'[b] = Transfer(b, Gather(b))
        BY <1>6, <2>2 DEF Visit, IInv, TypeOK
    <3>2. \A s \in prog.succ[b] : liveIn[s] \subseteq S[s]
      <4> SUFFICES ASSUME NEW s \in prog.succ[b] PROVE liveIn[s] \subseteq S[s]
          OBVIOUS
      <4>1. s \in Blocks /\ s /= 1
          BY DEF IInv, TypeOK, Program, PhaseRange, LaidOut
      <4> QED
          BY <1>4, <2>1, <4>1 DEF Below, PresetDef
    <3>3. Gather(b) \subseteq UNION {S[s] : s \in prog.succ[b]}
        BY <1>4, <2>1, <3>2 DEF Gather, Below
    <3>4. Transfer(b, Gather(b)) \subseteq S[b]
      <4> DEFINE Demand == UNION {S[s] : s \in prog.succ[b]}
      <4>1. Scanned(b)
          BY <2>1 DEF IInv, InitDone
      <4>2. /\ UpwardExposed(b) \subseteq S[b]
            /\ Demand \ (PresetDef(b) \cup Written(b)) \subseteq S[b]
        <5>1. Needed(S, b) \subseteq S[b]
            BY <1>3 DEF IsSolution
        <5>2. Needed(S, b) =
                 UpwardExposed(b) \cup (Demand \ (PresetDef(b) \cup Written(b)))
            BY DEF Needed, Demand
        <5> HIDE DEF Demand
        <5> QED
            BY <5>1, <5>2
      <4>3. Gather(b) \subseteq Demand
          BY <3>3
      <4> HIDE DEF Demand
      <4>4. Gather(b) \ liveDef[b] \subseteq S[b]
          BY <4>1, <4>2, <4>3 DEF Scanned
      <4> QED
          BY <4>1, <4>2, <4>4 DEF Transfer, Scanned
    <3> QED
        BY <1>1, <3>1, <3>3, <3>4 DEF Below
  <2>3. CASE b /= cursor
    <3>1. liveIn'[b] = liveIn[b] /\ liveOut'[b] = liveOut[b]
        BY <1>6, <2>3 DEF Visit, IInv, TypeOK
    <3> QED
        BY <1>1, <1>2, <1>4, <2>1, <3>1 DEF Below
  <2> QED
      BY <2>2, <2>3
<1>7. CASE Again
    BY <1>1, <1>2, <1>4, <1>7 DEF Again, Below
<1>8. CASE Finish
  <2>1. liveIn'[b] \subseteq liveIn[b] \cup PresetDef(b) /\ liveOut' = liveOut
      BY <1>8 DEF Finish, IInv, TypeOK, PresetDef
  <2>2. Below(S, b)
      BY <1>4, <1>8 DEF Finish
  <2> QED
      BY <1>1, <1>2, <2>1, <2>2 DEF Below
<1> QED
    BY <1>5, <1>6, <1>7, <1>8 DEF Next

LEMMA LeastStep == IInv /\ Least /\ [Next]_vars => Least'
<1> SUFFICES ASSUME IInv, Least, UNCHANGED vars PROVE Least'
    BY NextLeast
<1>1. \A b \in Blocks : /\ UpwardExposed(b)' = UpwardExposed(b)
                        /\ PresetDef(b)' = PresetDef(b)
                        /\ Written(b)' = Written(b)
    BY StaticHelpers DEF vars
<1> QED
    BY <1>1 DEF vars, Least, IsSolution, Needed, Below

(* At no moment does computeLivenessInfomation hold a register live where  *)
(* it is not: no register is kept from another by a spurious interference. *)
THEOREM LeastSolution == Spec => []NeverTooMuch
<1>1. Init => Least
    BY DEF Init, Least, Blocks
<1>2. IInv /\ Least /\ [Next]_vars => Least'
    BY LeastStep
<1>3. Least => NeverTooMuch
    BY DEF Least, NeverTooMuch, Below
<1> QED
    BY InitIInv, NextIInv, <1>1, <1>2, <1>3, PTL DEF Spec

-----------------------------------------------------------------------------
(* What liveness means: walks. *)

(* w is a walk over n blocks, none of them twice, from b to a block that   *)
(* reads v first, and v is not written on the way.                         *)
Path(v, b, n, w) ==
    /\ w \in [1 .. n -> Blocks]
    /\ \A i, j \in 1 .. n : w[i] = w[j] => i = j
    /\ w[1] = b
    /\ \A i \in 1 .. n - 1 : w[i + 1] \in prog.succ[w[i]] /\ v \notin Touches(w[i])
    /\ v \in UpwardExposed(w[n])

Reaches(v, b) == \E n \in Nat \ {0} : \E w : Path(v, b, n, w)

LEMMA WalkLength ==
    ASSUME NEW S, NEW n \in Nat, NEW w \in [1 .. n -> S]
    PROVE  Len(w) = n
<1>1. w \in Seq(S)
    BY SeqDef
<1> QED
    BY <1>1

(* Without repetitions there are no more than N blocks.                    *)
LEMMA PathIsWalk ==
    ASSUME NEW v, NEW b, Reaches(v, b)
    PROVE  NeededOnSomeWalk(v, b)
<1>1. PICK n \in Nat \ {0} : \E w : Path(v, b, n, w)
    BY DEF Reaches
<1>2. PICK w : Path(v, b, n, w)
    BY <1>1
<1>3. w \in Injection(1 .. n, 1 .. N)
    BY <1>2 DEF Path, Blocks, Injection, IsInjective
<1>4. n <= N
  <2>1. IsFiniteSet(1 .. N) /\ Cardinality(1 .. N) = N /\ Cardinality(1 .. n) = n
      BY FS_Interval, SizeAssumption
  <2>2. Cardinality(1 .. n) <= Cardinality(1 .. N)
      BY <1>3, <2>1, FS_Injection
  <2> QED
      BY <2>1, <2>2
<1>5. w \in Walks /\ Len(w) = n
  <2>1. n \in 1 .. N /\ w \in [1 .. n -> Blocks]
      BY <1>2, <1>4, SizeAssumption DEF Path
  <2> QED
      BY <2>1, WalkLength DEF Walks
<1> QED
    BY <1>2, <1>5 DEF Path, NeededOnSomeWalk, IsWalk

(* One block more in front: a path that comes by it already is cut short.  *)
LEMMA PathGrows ==
    ASSUME NEW b \in Blocks, NEW s \in prog.succ[b], NEW v, Reaches(v, s), v \notin Touches(b)
    PROVE  Reaches(v, b)
<1>1. PICK n \in Nat \ {0} : \E w : Path(v, s, n, w)
    BY DEF Reaches
<1>2. PICK w : Path(v, s, n, w)
    BY <1>1
<1>3. CASE \E i \in 1 .. n : w[i] = b
  <2>1. PICK i \in 1 .. n : w[i] = b
      BY <1>3
  <2> DEFINE m == n - i + 1
             u == [k \in 1 .. m |-> w[k + i - 1]]
  <2>2. m \in Nat \ {0} /\ \A k \in 1 .. m : k + i - 1 \in 1 .. n
      OBVIOUS
  <2>3. \A k \in 1 .. m - 1 : k + i - 1 \in 1 .. n - 1 /\ (k + 1) + i - 1 = (k + i - 1) + 1 /\ k \in 1 .. m /\ k + 1 \in 1 .. m
      OBVIOUS
  <2>4. 1 \in 1 .. m /\ m \in 1 .. m /\ 1 + i - 1 = i /\ m + i - 1 = n
      OBVIOUS
  <2>5. \A k, j \in 1 .. m : k + i - 1 = j + i - 1 => k = j
      OBVIOUS
  <2>6. \A k \in 1 .. m : u[k] = w[k + i - 1]
      OBVIOUS
  <2>7. u \in [1 .. m -> Blocks]
      BY <1>2, <2>2 DEF Path
  <2> HIDE DEF m, u
  <2>8. \A k, j \in 1 .. m : u[k] = u[j] => k = j
      BY <1>2, <2>2, <2>5, <2>6 DEF Path
  <2>9. \A k \in 1 .. m - 1 : u[k + 1] \in prog.succ[u[k]] /\ v \notin Touches(u[k])
    <3> SUFFICES ASSUME NEW k \in 1 .. m - 1
                 PROVE  u[k + 1] \in prog.succ[u[k]] /\ v \notin Touches(u[k])
        OBVIOUS
    <3>1. u[k] = w[k + i - 1] /\ u[k + 1] = w[(k + i - 1) + 1] /\ k + i - 1 \in 1 .. n - 1
        BY <2>3, <2>6
    <3>2. \A j \in 1 .. n - 1 : w[j + 1] \in prog.succ[w[j]] /\ v \notin Touches(w[j])
        BY <1>2 DEF Path
    <3>3. w[(k + i - 1) + 1] \in prog.succ[w[k + i - 1]] /\ v \notin Touches(w[k + i - 1])
        BY <3>1, <3>2
    <3> QED
        BY <3>1, <3>3
  <2>10. u[1] = b /\ u[m] = w[n]
      BY <2>1, <2>4, <2>6
  <2>11. Path(v, b, m, u)
      BY <1>2, <2>7, <2>8, <2>9, <2>10 DEF Path
  <2> QED
      BY <2>2, <2>11 DEF Reaches
<1>4. CASE \A i \in 1 .. n : w[i] /= b
  <2> DEFINE u == [k \in 1 .. n + 1 |-> IF k = 1 THEN b ELSE w[k - 1]]
  <2>1. \A k \in 2 .. n + 1 : k \in 1 .. n + 1 /\ k - 1 \in 1 .. n /\ k /= 1 /\ u[k] = w[k - 1]
      OBVIOUS
  <2>2. u[1] = b /\ \A k \in 1 .. n + 1 : k = 1 \/ k \in 2 .. n + 1
      OBVIOUS
  <2>3. u \in [1 .. n + 1 -> Blocks]
      BY <1>2, <2>1, <2>2 DEF Path
  <2> HIDE DEF u
  <2>4. ASSUME NEW j \in 1 .. n + 1, NEW k \in 1 .. n + 1, u[j] = u[k] PROVE j = k
    <3>1. CASE j = 1 \/ k = 1
        BY <1>4, <2>1, <2>2, <2>4, <3>1
    <3>2. CASE j \in 2 .. n + 1 /\ k \in 2 .. n + 1
      <4>1. w[j - 1] = w[k - 1] /\ j - 1 \in 1 .. n /\ k - 1 \in 1 .. n
          BY <2>1, <2>4, <3>2
      <4>2. j - 1 = k - 1
          BY <1>2, <4>1 DEF Path
      <4> QED
          BY <4>2
    <3> QED
        BY <2>2, <3>1, <3>2
  <2>5. ASSUME NEW k \in 1 .. n PROVE u[k + 1] \in prog.succ[u[k]] /\ v \notin Touches(u[k])
    <3>1. k + 1 \in 2 .. n + 1 /\ (k + 1) - 1 = k
        OBVIOUS
    <3>2. u[k + 1] = w[k]
        BY <2>1, <3>1
    <3>3. CASE k = 1
        BY <1>2, <2>2, <3>2, <3>3 DEF Path
    <3>4. CASE k /= 1
      <4>1. k \in 2 .. n + 1 /\ k - 1 \in 1 .. n - 1 /\ (k - 1) + 1 = k
          BY <3>4
      <4>2. u[k] = w[k - 1]
          BY <2>1, <4>1
      <4>3. \A j \in 1 .. n - 1 : w[j + 1] \in prog.succ[w[j]] /\ v \notin Touches(w[j])
          BY <1>2 DEF Path
      <4>4. w[(k - 1) + 1] \in prog.succ[w[k - 1]] /\ v \notin Touches(w[k - 1])
          BY <4>1, <4>3
      <4> QED
          BY <3>2, <4>1, <4>2, <4>4
    <3> QED
        BY <3>3, <3>4
  <2>6. u[n + 1] = w[n]
    <3>1. n + 1 \in 2 .. n + 1 /\ (n + 1) - 1 = n
        OBVIOUS
    <3> QED
        BY <2>1, <3>1
  <2>7. n + 1 \in Nat \ {0} /\ (n + 1) - 1 = n
      OBVIOUS
  <2>8. Path(v, b, n + 1, u)
      BY <1>2, <2>2, <2>3, <2>4, <2>5, <2>6, <2>7 DEF Path
  <2> QED
      BY <2>7, <2>8 DEF Reaches
<1> QED
    BY <1>3, <1>4

(* What is on paths solves the equations.                                  *)
LEMMA ReachesIsSolution ==
    ASSUME TypeOK
    PROVE  IsSolution([b \in Blocks |-> {v \in Vregs : Reaches(v, b)}])
<1> DEFINE Q == [b \in Blocks |-> {v \in Vregs : Reaches(v, b)}]
<1> SUFFICES ASSUME NEW b \in Blocks, NEW v \in Needed(Q, b) PROVE v \in Q[b]
    BY DEF IsSolution
<1>1. v \in Vregs
  <2>1. \A s \in prog.succ[b] : s \in Blocks
      BY DEF TypeOK, Program
  <2> QED
      BY <2>1, HelperTypes DEF Needed
<1>2. CASE v \in UpwardExposed(b)
  <2>1. Path(v, b, 1, [i \in 1 .. 1 |-> b])
      BY <1>2 DEF Path
  <2> QED
      BY <1>1, <2>1 DEF Reaches
<1>3. CASE v \notin UpwardExposed(b)
  <2>1. PICK s \in prog.succ[b] : v \in Q[s]
      BY <1>3 DEF Needed
  <2>2. s \in Blocks /\ v \notin Touches(b)
      BY <1>3 DEF TypeOK, Program, Needed, Touches
  <2>3. Reaches(v, s)
      BY <2>1, <2>2
  <2> QED
      BY <1>1, <2>1, <2>2, <2>3, PathGrows
<1> QED
    BY <1>2, <1>3

(* Along a walk back from a read the register is live.                     *)
LEMMA WalkIsLive ==
    ASSUME TypeOK, StopsAtFixpoint, phase = "done",
           NEW v, NEW b \in Blocks, NEW w \in Walks, w[1] = b, IsWalk(w),
           v \in UpwardExposed(w[Len(w)]), \A i \in 1 .. Len(w) - 1 : v \notin Touches(w[i])
    PROVE  v \in liveIn[b]
<1>1. PICK n \in 1 .. N : w \in [1 .. n -> Blocks]
    BY DEF Walks
<1>2. n \in Nat \ {0} /\ Len(w) = n
    BY <1>1, WalkLength, SizeAssumption
<1> DEFINE T == {k \in Nat : k < n /\ v \notin liveIn[w[n - k]]}
<1>3. 0 \notin T
  <2>1. w[n] \in Blocks /\ n - 0 = n
      BY <1>1, <1>2
  <2> QED
      BY <1>2, <2>1 DEF StopsAtFixpoint
<1>4. ASSUME NEW k \in Nat, k \notin T PROVE k + 1 \notin T
  <2> SUFFICES ASSUME k + 1 < n PROVE v \in liveIn[w[n - (k + 1)]]
      OBVIOUS
  <2> DEFINE i == n - (k + 1)
  <2>1. i \in 1 .. n - 1 /\ i + 1 = n - k /\ i \in 1 .. n /\ i + 1 \in 1 .. n
      BY <1>2
  <2>2. v \in liveIn[w[i + 1]]
      BY <1>2, <1>4, <2>1
  <2> HIDE DEF i
  <2>3. w[i + 1] \in prog.succ[w[i]] /\ v \notin Touches(w[i]) /\ w[i] \in Blocks
      BY <1>1, <1>2, <2>1 DEF IsWalk
  <2>4. v \in liveOut[w[i]]
      BY <2>2, <2>3 DEF StopsAtFixpoint
  <2>5. v \in liveIn[w[i]]
      BY <2>3, <2>4 DEF StopsAtFixpoint, Touches
  <2> QED
      BY <2>5 DEF i
<1>5. T = {}
  <2>1. T \subseteq Nat
      OBVIOUS
  <2> HIDE DEF T
  <2> QED
      BY <1>3, <1>4, <2>1, Smallest
<1>6. n - 1 \in Nat /\ n - 1 < n /\ n - (n - 1) = 1
    BY <1>2
<1> QED
    BY <1>5, <1>6

(* SetLiveinParams. *)
ParamsIn == phase = "done" => prog.params \subseteq liveIn[1]

LEMMA ParamsStep == IInv /\ ParamsIn /\ [Next]_vars => ParamsIn'
<1> SUFFICES ASSUME IInv, ParamsIn, [Next]_vars PROVE ParamsIn'
    OBVIOUS
<1>1. CASE Finish
  <2>1. liveIn \in [Blocks -> SUBSET Vregs] /\ 1 \in Blocks
      BY SizeAssumption DEF IInv, TypeOK, Blocks
  <2> QED
      BY <1>1, <2>1 DEF Finish, ParamsIn
<1>2. CASE InitBlock \/ Visit \/ Again
    BY <1>2 DEF InitBlock, Visit, Again, ParamsIn
<1>3. CASE UNCHANGED vars
    BY <1>3 DEF vars, ParamsIn
<1> QED
    BY <1>1, <1>2, <1>3 DEF Next

(* A register is in live_in_ of a block exactly when execution can reach   *)
(* from there, without writing it, a uop that reads it (and the parameters *)
(* at the entry): for every function laid out as GetSequentialNodes does.  *)
THEOREM ResultIsLiveness == Spec => []ResultIsReachableUse
<1>1. Init => Least /\ ParamsIn
    BY DEF Init, Least, ParamsIn, Blocks
<1>2. IInv /\ Least /\ [Next]_vars => Least'
    BY LeastStep
<1>3. IInv /\ ParamsIn /\ [Next]_vars => ParamsIn'
    BY ParamsStep
<1>4. ASSUME IInv, Least, ParamsIn PROVE ResultIsReachableUse
  <2> SUFFICES ASSUME phase = "done", NEW b \in Blocks
               PROVE  liveIn[b] = {v \in Vregs : NeededOnSomeWalk(v, b)} \cup PresetDef(b)
      BY DEF ResultIsReachableUse
  <2>1. TypeOK /\ StopsAtFixpoint
      BY <1>4 DEF IInv
  <2> DEFINE Q == [a \in Blocks |-> {v \in Vregs : Reaches(v, a)}]
  <2>2. IsSolution(Q)
      BY <2>1, ReachesIsSolution
  <2>3. Q \in [Blocks -> SUBSET Vregs]
      OBVIOUS
  <2>4. liveIn[b] \subseteq Q[b] \cup PresetDef(b)
    <3> HIDE DEF Q
    <3> QED
        BY <1>4, <2>2, <2>3 DEF Least, Below
  <2>5. Q[b] \subseteq {v \in Vregs : NeededOnSomeWalk(v, b)}
      BY PathIsWalk
  <2>6. {v \in Vregs : NeededOnSomeWalk(v, b)} \subseteq liveIn[b]
      BY <2>1, WalkIsLive DEF NeededOnSomeWalk
  <2>7. PresetDef(b) \subseteq liveIn[b]
      BY <1>4 DEF ParamsIn, PresetDef
  <2> HIDE DEF Q
  <2> QED
      BY <2>4, <2>5, <2>6, <2>7
<1> QED
    BY InitIInv, NextIInv, <1>1, <1>2, <1>3, <1>4, PTL DEF Spec

-----------------------------------------------------------------------------
(* The result in the form in which the allocation rounds take it.          *)

(* X has the blocks that expose v, and with a block its predecessors that  *)
(* do not touch v; the blocks v is live into are the least such set.       *)
Closed(v, X) ==
    /\ \A b \in Blocks : v \in UpwardExposed(b) => b \in X
    /\ \A b \in Blocks : v \notin Touches(b) /\ prog.succ[b] \cap X /= {} => b \in X
LiveInto(v) == {b \in Blocks : \A X \in SUBSET Blocks : Closed(v, X) => b \in X}

ResultIsLiveSets ==
    phase = "done" =>
        \A b \in Blocks :
            /\ liveIn[b] = {v \in Vregs : b \in LiveInto(v)} \cup PresetDef(b)
            /\ liveOut[b] = {v \in Vregs : prog.succ[b] \cap LiveInto(v) /= {}}

LEMMA LiveIntoIsSolution ==
    ASSUME TypeOK
    PROVE  IsSolution([a \in Blocks |-> {v \in Vregs : a \in LiveInto(v)}])
<1> DEFINE Q == [a \in Blocks |-> {v \in Vregs : a \in LiveInto(v)}]
<1> SUFFICES ASSUME NEW b \in Blocks, NEW v \in Needed(Q, b)
             PROVE  v \in Q[b]
    BY DEF IsSolution
<1>1. \A s \in prog.succ[b] : s \in Blocks
    BY DEF TypeOK, Program
<1>2. CASE v \in UpwardExposed(b)
    BY <1>2 DEF UpwardExposed, LiveInto, Closed
<1>3. CASE v \notin UpwardExposed(b)
  <2>1. v \notin Touches(b) /\ \E s \in prog.succ[b] : v \in Q[s]
      BY <1>3 DEF Needed, Touches
  <2>2. PICK s \in prog.succ[b] : v \in Q[s]
      BY <2>1
  <2>3. v \in Vregs /\ s \in LiveInto(v)
      BY <1>1, <2>2
  <2>4. ASSUME NEW X \in SUBSET Blocks, Closed(v, X) PROVE b \in X
    <3>1. s \in X
        BY <2>3, <2>4 DEF LiveInto
    <3> QED
        BY <2>1, <2>4, <3>1 DEF Closed
  <2> QED
      BY <2>3, <2>4 DEF LiveInto
<1> QED
    BY <1>2, <1>3

(* DoAssignment takes liveness as given by LiveInto; this is what          *)
(* computeLivenessInfomation hands it: the sets the iteration ends with    *)
(* are those, live_out_ included, for every laid-out function.             *)
THEOREM IterationGivesLiveSets == Spec => []ResultIsLiveSets
<1>1. Init => Least /\ ParamsIn
    BY DEF Init, Least, ParamsIn, Blocks
<1>2. IInv /\ Least /\ [Next]_vars => Least'
    BY LeastStep
<1>3. IInv /\ ParamsIn /\ [Next]_vars => ParamsIn'
    BY ParamsStep
<1>4. ASSUME IInv, Least, ParamsIn PROVE ResultIsLiveSets
  <2> SUFFICES ASSUME phase = "done", NEW b \in Blocks
               PROVE  /\ liveIn[b] = {v \in Vregs : b \in LiveInto(v)} \cup PresetDef(b)
                      /\ liveOut[b] = {v \in Vregs : prog.succ[b] \cap LiveInto(v) /= {}}
      BY DEF ResultIsLiveSets
  <2> DEFINE Q == [a \in Blocks |-> {v \in Vregs : a \in LiveInto(v)}]
  <2>1. TypeOK /\ StopsAtFixpoint
      BY <1>4 DEF IInv
  <2>2. IsSolution(Q) /\ Q \in [Blocks -> SUBSET Vregs]
      BY <2>1, LiveIntoIsSolution
  <2>3. liveIn[b] \subseteq Q[b] \cup PresetDef(b) /\ liveOut[b] \subseteq UNION {Q[s] : s \in prog.succ[b]}
    <3> HIDE DEF Q
    <3> QED
        BY <1>4, <2>2 DEF Least, Below
  <2>4. ASSUME NEW a \in Blocks, NEW v \in Vregs, a \in LiveInto(v) PROVE v \in liveIn[a]
    <3> DEFINE X == {c \in Blocks : v \in liveIn[c]}
    <3>1. ASSUME NEW c \in Blocks, v \in UpwardExposed(c) PROVE c \in X
        BY <2>1, <3>1 DEF StopsAtFixpoint
    <3>2. ASSUME NEW c \in Blocks, v \notin Touches(c), prog.succ[c] \cap X /= {} PROVE c \in X
      <4>1. PICK s \in prog.succ[c] : v \in liveIn[s]
          BY <3>2
      <4>2. v \in liveOut[c]
          BY <2>1, <4>1 DEF StopsAtFixpoint
      <4> QED
          BY <2>1, <3>2, <4>2 DEF StopsAtFixpoint, Touches
    <3>3. X \in SUBSET Blocks /\ Closed(v, X)
        BY <3>1, <3>2 DEF Closed
    <3>4. a \in X
        BY <2>4, <3>3 DEF LiveInto
    <3> QED
        BY <3>4
  <2>5. {v \in Vregs : b \in LiveInto(v)} \cup PresetDef(b) \subseteq liveIn[b]
    <3>1. PresetDef(b) \subseteq liveIn[b]
        BY <1>4 DEF ParamsIn, PresetDef
    <3> QED
        BY <2>4, <3>1
  <2>6. \A s \in prog.succ[b] : s \in Blocks /\ liveIn[s] \subseteq liveOut[b]
      BY <2>1 DEF StopsAtFixpoint, TypeOK, Program
  <2>7. {v \in Vregs : prog.succ[b] \cap LiveInto(v) /= {}} \subseteq liveOut[b]
      BY <2>4, <2>6
  <2>8. liveOut[b] \subseteq {v \in Vregs : prog.succ[b] \cap LiveInto(v) /= {}}
      BY <2>3, <2>6
  <2> QED
      BY <2>3, <2>5, <2>7, <2>8
<1> QED
    BY InitIInv, NextIInv, <1>1, <1>2, <1>3, <1>4, PTL DEF Spec

-----------------------------------------------------------------------------
(* How long it takes. *)

(* What live_out_ may still gain.                                          *)
Missing == {q \in Vregs \X Blocks : q[1] \notin liveOut[q[2]]}
MostMissing == Cardinality(Vregs \X Blocks)

(* Blocks left to visit, in this pass and in those there may be still: a   *)
(* pass that changes something costs a register in some live_out_.         *)
StepsLeft ==
    CASE phase = "init" -> (N + 1) * MostMissing + N + 1 + (N - cursor) + 1
      [] phase = "flow" -> (N + 1) * (Cardinality(Missing) + (IF changed THEN 1 ELSE 0)) + cursor + 1
      [] OTHER -> 0

LEMMA MissingType ==
    ASSUME IsFiniteSet(Vregs)
    PROVE  /\ MostMissing \in Nat
           /\ IsFiniteSet(Missing) /\ Cardinality(Missing) \in Nat /\ Cardinality(Missing) <= MostMissing
<1>1. IsFiniteSet(Blocks)
  <2>1. 1 \in Int /\ N \in Int
      BY SizeAssumption
  <2> QED
      BY <2>1, FS_Interval, Zenon DEF Blocks
<1>2. IsFiniteSet(Vregs \X Blocks)
    BY <1>1, FS_Product
<1>3. Missing \in SUBSET (Vregs \X Blocks)
    BY DEF Missing
<1>4. IsFiniteSet(Missing) /\ Cardinality(Missing) <= Cardinality(Vregs \X Blocks)
    BY <1>2, <1>3, FS_Subset
<1> QED
    BY <1>2, <1>4, FS_CardinalityType DEF MostMissing

LEMMA StepsLeftType ==
    ASSUME IsFiniteSet(Vregs), IInv
    PROVE  StepsLeft \in Nat
<1>1. /\ MostMissing \in Nat /\ Cardinality(Missing) \in Nat /\ N \in Nat
      /\ cursor \in 0 .. N /\ phase \in {"init", "flow", "done"}
    BY MissingType, SizeAssumption DEF IInv, TypeOK
<1> DEFINE c == Cardinality(Missing) + (IF changed THEN 1 ELSE 0)
<1>2. c \in Nat
    BY <1>1
<1>3. \A x \in Nat : (N + 1) * x \in Nat
    BY <1>1
<1> HIDE DEF c
<1>4. (N + 1) * MostMissing \in Nat /\ (N + 1) * c \in Nat
    BY <1>1, <1>2, <1>3
<1>5. (N + 1) * MostMissing + N + 1 + (N - cursor) + 1 \in Nat /\ (N + 1) * c + cursor + 1 \in Nat
    BY <1>1, <1>4
<1> QED
    BY <1>1, <1>5 DEF StepsLeft, c

LEMMA StepsLeftShrinks ==
    ASSUME IsFiniteSet(Vregs), IInv, Next, IInv'
    PROVE  StepsLeft' < StepsLeft
<1>1. /\ MostMissing \in Nat /\ Cardinality(Missing) \in Nat /\ N \in Nat \ {0}
      /\ cursor \in 0 .. N /\ cursor' \in 0 .. N /\ changed \in BOOLEAN
      /\ IsFiniteSet(Missing) /\ Cardinality(Missing) <= MostMissing
    BY MissingType, SizeAssumption DEF IInv, TypeOK
<1>2. Cardinality(Missing') \in Nat /\ Cardinality(Missing') <= MostMissing
  <2>1. IsFiniteSet(Vregs \X Blocks)
    <3>1. 1 \in Int /\ N \in Int
        BY <1>1
    <3>2. IsFiniteSet(Blocks)
        BY <3>1, FS_Interval, Zenon DEF Blocks
    <3> QED
        BY <3>2, FS_Product
  <2>2. Missing' \in SUBSET (Vregs \X Blocks)
      BY DEF Missing
  <2>3. IsFiniteSet(Missing') /\ Cardinality(Missing') <= Cardinality(Vregs \X Blocks)
      BY <2>1, <2>2, FS_Subset
  <2> QED
      BY <2>3, FS_CardinalityType DEF MostMissing
<1> DEFINE m == Cardinality(Missing)
           M == MostMissing
           one == IF changed THEN 1 ELSE 0
<1>3. \A x, y \in Nat : x <= y => (N + 1) * x <= (N + 1) * y
    BY <1>1
<1>4. \A x \in Nat : (N + 1) * x \in Nat /\ (N + 1) * (x + 1) = (N + 1) * x + N + 1
    BY <1>1
<1>5. CASE InitBlock
  <2>1. cursor \in 1 .. N /\ phase = "init"
      BY <1>5 DEF InitBlock, IInv, PhaseRange
  <2>2. StepsLeft = (N + 1) * M + N + 1 + (N - cursor) + 1
      BY <2>1 DEF StepsLeft
  <2>3. CASE cursor < N
    <3>1. phase' = "init" /\ cursor' = cursor + 1
        BY <1>5, <2>3 DEF InitBlock
    <3>2. StepsLeft' = (N + 1) * M + N + 1 + (N - cursor') + 1
        BY <3>1 DEF StepsLeft, MostMissing
    <3> HIDE DEF M
    <3> DEFINE P == (N + 1) * M
    <3>3. P \in Nat
        BY <1>1, <1>4 DEF M
    <3> HIDE DEF P
    <3>4. P + N + 1 + (N - (cursor + 1)) + 1 < P + N + 1 + (N - cursor) + 1
        BY <1>1, <3>3
    <3> QED
        BY <2>2, <3>1, <3>2, <3>4 DEF P
  <2>4. CASE cursor = N
    <3>1. phase' = "flow" /\ cursor' = N /\ changed' = FALSE
        BY <1>5, <2>1, <2>4 DEF InitBlock, IInv, PhaseRange
    <3> DEFINE mm == Cardinality(Missing')
    <3>2. StepsLeft' = (N + 1) * (mm + 0) + N + 1
        BY <3>1 DEF StepsLeft
    <3>3. mm \in Nat /\ mm <= M
        BY <1>2
    <3> HIDE DEF M, mm
    <3>4. (N + 1) * mm <= (N + 1) * M /\ (N + 1) * mm \in Nat /\ (N + 1) * M \in Nat /\ mm + 0 = mm
        BY <1>1, <1>3, <1>4, <3>3 DEF M
    <3> DEFINE P == (N + 1) * M
               R == (N + 1) * mm
    <3>5. P \in Nat /\ R \in Nat /\ R <= P
        BY <3>4
    <3>6. StepsLeft' = R + N + 1 /\ StepsLeft = P + N + 1 + (N - N) + 1
        BY <2>2, <2>4, <3>2, <3>4
    <3> HIDE DEF P, R
    <3> QED
        BY <1>1, <3>5, <3>6
  <2>5. cursor < N \/ cursor = N
      BY <1>1, <2>1
  <2> QED
      BY <2>3, <2>4, <2>5
<1>6. CASE Visit
  <2>1. phase = "flow" /\ phase' = "flow" /\ cursor \in 1 .. N /\ cursor' = cursor - 1
      BY <1>1, <1>6 DEF Visit
  <2>2. cursor \in Blocks /\ liveOut \in [Blocks -> SUBSET Vregs]
      BY <2>1 DEF Blocks, IInv, TypeOK
  <2>3. \A b \in Blocks : liveOut[b] \subseteq liveOut'[b]
      BY <1>6, <2>2 DEF Visit, Gather
  <2>4. Missing' \subseteq Missing
      BY <2>3 DEF Missing
  <2> DEFINE mm == Cardinality(Missing')
             two == IF changed' THEN 1 ELSE 0
  <2>5. mm <= m
      BY <1>1, <2>4, FS_Subset
  <2>6. mm + two <= m + one
    <3>1. CASE Gather(cursor) = liveOut[cursor]
      <4>1. changed' = changed
          BY <1>6, <3>1, <1>1 DEF Visit
      <4>2. two = one /\ one \in Nat
          BY <4>1
      <4> HIDE DEF one, two, mm, m
      <4> QED
          BY <1>1, <1>2, <2>5, <4>2 DEF m, mm
    <3>2. CASE Gather(cursor) /= liveOut[cursor]
      <4>1. changed' = TRUE
          BY <1>6, <3>2 DEF Visit
      <4>2. liveOut'[cursor] = Gather(cursor) /\ Gather(cursor) \subseteq Vregs
        <5>1. liveOut' \in [Blocks -> SUBSET Vregs]
            BY DEF IInv, TypeOK
        <5> QED
            BY <1>6, <2>2, <5>1 DEF Visit
      <4>3. PICK v \in Vregs : v \in Gather(cursor) /\ v \notin liveOut[cursor]
          BY <3>2, <4>2 DEF Gather
      <4>4. <<v, cursor>> \in Missing /\ <<v, cursor>> \notin Missing'
          BY <2>2, <4>2, <4>3 DEF Missing
      <4>5. mm /= m
          BY <1>1, <2>4, <4>4, FS_Subset
      <4>6. two = 1 /\ one \in {0, 1}
          BY <4>1
      <4> HIDE DEF one, two, mm, m
      <4> QED
          BY <1>1, <1>2, <2>5, <4>5, <4>6 DEF m, mm
    <3> QED
        BY <3>1, <3>2
  <2>7. StepsLeft = (N + 1) * (m + one) + cursor + 1 /\ StepsLeft' = (N + 1) * (mm + two) + (cursor - 1) + 1
      BY <2>1 DEF StepsLeft
  <2>8. m + one \in Nat /\ mm + two \in Nat
      BY <1>1, <1>2
  <2> DEFINE x == m + one
             y == mm + two
  <2>9. x \in Nat /\ y \in Nat /\ y <= x
      BY <2>6, <2>8
  <2> HIDE DEF x, y
  <2> DEFINE P == (N + 1) * x
             R == (N + 1) * y
  <2>10. P \in Nat /\ R \in Nat /\ R <= P
      BY <1>3, <1>4, <2>9
  <2>11. StepsLeft = P + cursor + 1 /\ StepsLeft' = R + (cursor - 1) + 1
      BY <2>7 DEF x, y
  <2> HIDE DEF P, R
  <2> QED
      BY <2>1, <2>10, <2>11
<1>7. CASE Again
  <2>1. /\ phase = "flow" /\ phase' = "flow" /\ cursor = 0 /\ cursor' = N /\ changed = TRUE /\ changed' = FALSE
        /\ liveOut' = liveOut
      BY <1>1, <1>7 DEF Again
  <2>2. Missing' = Missing
      BY <2>1 DEF Missing
  <2>3. StepsLeft = (N + 1) * (m + 1) + 0 + 1 /\ StepsLeft' = (N + 1) * (m + 0) + N + 1
      BY <2>1, <2>2 DEF StepsLeft
  <2> HIDE DEF m
  <2>4. m \in Nat /\ m + 0 = m
      BY <1>1 DEF m
  <2> DEFINE P == (N + 1) * m
  <2>5. P \in Nat /\ StepsLeft = P + N + 1 + 0 + 1 /\ StepsLeft' = P + N + 1
      BY <1>4, <2>3, <2>4
  <2> HIDE DEF P
  <2> QED
      BY <1>1, <2>5
<1>8. CASE Finish
  <2>1. phase = "flow" /\ phase' = "done" /\ cursor = 0 /\ changed = FALSE
      BY <1>1, <1>8 DEF Finish
  <2>2. StepsLeft = (N + 1) * (m + 0) + 0 + 1 /\ StepsLeft' = 0
      BY <2>1 DEF StepsLeft
  <2> HIDE DEF m
  <2>3. m \in Nat /\ m + 0 = m
      BY <1>1 DEF m
  <2> DEFINE P == (N + 1) * m
  <2>4. P \in Nat /\ StepsLeft = P + 0 + 1
      BY <1>4, <2>2, <2>3
  <2> HIDE DEF P
  <2> QED
      BY <2>2, <2>4
<1> QED
    BY <1>5, <1>6, <1>7, <1>8 DEF Next

(* The iteration cannot go on for ever, for any number of blocks and       *)
(* registers and whatever the graph: every step lowers a number, so there  *)
(* are no more than it says in the beginning.                              *)
THEOREM IterationIsBounded ==
    ASSUME IsFiniteSet(Vregs)
    PROVE  Spec => [](StepsLeft \in Nat) /\ [][StepsLeft' < StepsLeft]_vars
<1>1. IInv => StepsLeft \in Nat
    BY StepsLeftType
<1>2. IInv /\ IInv' /\ [Next]_vars => [StepsLeft' < StepsLeft]_vars
    BY StepsLeftShrinks
<1> QED
    BY InitIInv, NextIInv, <1>1, <1>2, PTL DEF Spec

=============================================================================
