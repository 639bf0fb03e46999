--------------------------- MODULE PeepholeProofs ---------------------------
(***************************************************************************)
(* Erasing loads and stores changes nothing a block computes, proved for   *)
(* every block in which pointers are not loaded through pointers, and the  *)
(* walk makes a bounded number of comparisons.                             *)
(***************************************************************************)
EXTENDS Peephole, SequenceTheorems, WellFoundedInduction, TLAPS

(* A set of numbers in which no number is the smallest is empty. *)
LEMMA Smallest ==
    ASSUME NEW T \in SUBSET Nat, 0 \notin T, \A n \in Nat : n \notin T => n + 1 \notin T
    PROVE  T = {}
<1> DEFINE Less == OpToRel(<, Nat)
<1>1. SUFFICES ASSUME T /= {} PROVE FALSE
    OBVIOUS
<1>2. PICK r \in T : \A q \in T : ~(<<q, r>> \in Less)
    BY <1>1, NatLessThanWellFounded, WFMin
<1>3. r \in Nat /\ r /= 0 /\ r - 1 \in Nat /\ r - 1 < r
    OBVIOUS
<1>4. r - 1 \notin T
    BY <1>2, <1>3 DEF OpToRel
<1>5. (r - 1) + 1 \notin T
    BY <1>3, <1>4
<1> QED
    BY <1>3, <1>5

-----------------------------------------------------------------------------
(* What an instruction does to a machine. *)

IsMachine(m) == /\ m = [reg |-> m.reg, mem |-> m.mem]
                /\ m.reg = [r \in Regs |-> m.reg[r]]

(* The registers hold the same, and so does every cell of memory.          *)
Same(a, b) == a.reg = b.reg /\ \A c : Read(a, c) = Read(b, c)

(* The operations, class by class.                                         *)
LEMMA Classes ==
    /\ Loads = {"ld", "lw", "flw"} /\ Stores = {"sd", "sw", "fsw"}
    /\ StoreOf["ld"] = "sd" /\ StoreOf["lw"] = "sw" /\ StoreOf["flw"] = "fsw"
<1>1. /\ Loads = {"ld", "lw", "flw"}
      /\ StoreOf["ld"] = "sd" /\ StoreOf["lw"] = "sw" /\ StoreOf["flw"] = "fsw"
    BY DEF Loads, StoreOf
<1> QED
    BY <1>1 DEF Stores

(* Operands of an instruction are registers.                               *)
LEMMA InstructionFacts ==
    ASSUME NEW i \in Instruction
    PROVE  i.op \in Ops /\ i.rd \in Regs /\ i.rs \in Regs /\ i.rt \in Regs /\ Base(i) \in Regs
BY DEF Instruction, Base

(* The effect of an instruction, case by case. *)
LEMMA LoadEffect ==
    ASSUME NEW m, IsMachine(m), NEW i \in Instruction, i.op \in Loads
    PROVE  /\ IsMachine(Execute(m, i))
           /\ Execute(m, i).reg = [m.reg EXCEPT ![i.rd] = Read(m, Address(m, i))]
           /\ Execute(m, i).mem = m.mem
           /\ \A c : Read(Execute(m, i), c) = Read(m, c)
<1> DEFINE k == [m EXCEPT !.reg[i.rd] = Read(m, Address(m, i))]
<1>1. Execute(m, i) = k
    BY Classes DEF Execute
<1>2. k = [reg |-> [m.reg EXCEPT ![i.rd] = Read(m, Address(m, i))], mem |-> m.mem]
    BY DEF IsMachine
<1>3. IsMachine(k)
    BY <1>2, InstructionFacts DEF IsMachine
<1> QED
    BY <1>1, <1>2, <1>3 DEF Read

LEMMA StoreEffect ==
    ASSUME NEW m, IsMachine(m), NEW i \in Instruction, i.op \in Stores
    PROVE  /\ IsMachine(Execute(m, i))
           /\ Execute(m, i).reg = m.reg
           /\ \A c : Read(Execute(m, i), c) = IF c = Address(m, i) THEN m.reg[i.rs] ELSE Read(m, c)
<1> DEFINE mem == [a \in DOMAIN m.mem \cup {Address(m, i)} |->
                       IF a = Address(m, i) THEN m.reg[i.rs] ELSE m.mem[a]]
           k == [m EXCEPT !.mem = mem]
<1>1. Execute(m, i) = k
    BY Classes DEF Execute
<1>2. k = [reg |-> m.reg, mem |-> mem]
    BY DEF IsMachine
<1>3. \A c : Read(k, c) = IF c = Address(m, i) THEN m.reg[i.rs] ELSE Read(m, c)
    BY <1>2 DEF Read
<1> QED
    BY <1>1, <1>2, <1>3 DEF IsMachine

LEMMA OtherEffect ==
    ASSUME NEW m, IsMachine(m), NEW i \in Instruction, i.op \notin Loads, i.op \notin Stores
    PROVE  /\ IsMachine(Execute(m, i))
           /\ Execute(m, i).reg = [m.reg EXCEPT ![i.rd] = <<i.imm, m.reg[i.rs], m.reg[i.rt]>>]
           /\ \A c : Read(Execute(m, i), c) = Read(m, c)
<1> DEFINE k == [m EXCEPT !.reg[i.rd] = <<i.imm, m.reg[i.rs], m.reg[i.rt]>>]
<1>1. Execute(m, i) = k
    BY DEF Execute
<1>2. k = [reg |-> [m.reg EXCEPT ![i.rd] = <<i.imm, m.reg[i.rs], m.reg[i.rt]>>], mem |-> m.mem]
    BY DEF IsMachine
<1> QED
    BY <1>1, <1>2, InstructionFacts DEF IsMachine, Read

(* An instruction takes machines that hold the same to such machines.      *)
LEMMA ExecuteSame ==
    ASSUME NEW a, NEW b, IsMachine(a), IsMachine(b), Same(a, b), NEW i \in Instruction
    PROVE  Same(Execute(a, i), Execute(b, i)) /\ IsMachine(Execute(a, i)) /\ IsMachine(Execute(b, i))
<1>1. Address(a, i) = Address(b, i) /\ a.reg = b.reg
    BY DEF Same, Address
<1>2. \A c : Read(a, c) = Read(b, c)
    BY DEF Same
<1>3. CASE i.op \in Loads
  <2>1. /\ Execute(a, i).reg = [a.reg EXCEPT ![i.rd] = Read(a, Address(a, i))]
        /\ Execute(b, i).reg = [b.reg EXCEPT ![i.rd] = Read(b, Address(b, i))]
        /\ \A c : Read(Execute(a, i), c) = Read(a, c)
        /\ \A c : Read(Execute(b, i), c) = Read(b, c)
        /\ IsMachine(Execute(a, i)) /\ IsMachine(Execute(b, i))
      BY <1>3, LoadEffect
  <2>2. Execute(a, i).reg = Execute(b, i).reg
      BY <1>1, <1>2, <2>1
  <2>3. \A c : Read(Execute(a, i), c) = Read(Execute(b, i), c)
      BY <1>2, <2>1
  <2> QED
      BY <2>1, <2>2, <2>3 DEF Same
<1>4. CASE i.op \in Stores
    BY <1>1, <1>2, <1>4, StoreEffect DEF Same
<1>5. CASE i.op \notin Loads /\ i.op \notin Stores
  <2>1. /\ Execute(a, i).reg = [a.reg EXCEPT ![i.rd] = <<i.imm, a.reg[i.rs], a.reg[i.rt]>>]
        /\ Execute(b, i).reg = [b.reg EXCEPT ![i.rd] = <<i.imm, b.reg[i.rs], b.reg[i.rt]>>]
        /\ \A c : Read(Execute(a, i), c) = Read(a, c)
        /\ \A c : Read(Execute(b, i), c) = Read(b, c)
        /\ IsMachine(Execute(a, i)) /\ IsMachine(Execute(b, i))
      BY <1>5, OtherEffect
  <2>2. Execute(a, i).reg = Execute(b, i).reg
      BY <1>1, <2>1
  <2>3. \A c : Read(Execute(a, i), c) = Read(Execute(b, i), c)
      BY <1>2, <2>1
  <2> QED
      BY <2>1, <2>2, <2>3 DEF Same
<1> QED
    BY <1>3, <1>4, <1>5
-----------------------------------------------------------------------------
(* The machine along a block. *)

(* The trace, one instruction after the other.                             *)
LEMMA TraceStep ==
    ASSUME NEW s \in Seq(Instruction)
    PROVE  /\ Trace(s)[0] = Entry
           /\ \A n \in 1 .. Len(s) : Trace(s)[n] = Execute(Trace(s)[n - 1], s[n])
<1> DEFINE Rule(f, n) == [i \in 0 .. n |-> IF i = 0 THEN Entry ELSE Execute(f[i - 1], s[i])]
           T == {n \in Nat : ~\E f : f = Rule(f, n)}
<1>1. 0 \notin T
  <2>1. [i \in 0 .. 0 |-> Entry] = Rule([i \in 0 .. 0 |-> Entry], 0)
      OBVIOUS
  <2> QED
      BY <2>1
<1>2. ASSUME NEW n \in Nat, n \notin T PROVE n + 1 \notin T
  <2>1. PICK f : f = Rule(f, n)
      BY <1>2
  <2> DEFINE g == [i \in 0 .. n + 1 |-> IF i = n + 1 THEN Execute(f[i - 1], s[i]) ELSE f[i]]
  <2>2. ASSUME NEW i \in 0 .. n + 1
        PROVE g[i] = IF i = 0 THEN Entry ELSE Execute(g[i - 1], s[i])
    <3>1. CASE i = n + 1
        BY <3>1
    <3>2. CASE i \in 1 .. n
      <4>1. g[i] = f[i] /\ g[i - 1] = f[i - 1]
          BY <3>2
      <4>2. f[i] = Execute(f[i - 1], s[i])
          BY <2>1, <3>2
      <4> QED
          BY <3>2, <4>1, <4>2
    <3>3. CASE i = 0
        BY <2>1, <3>3
    <3> QED
        BY <3>1, <3>2, <3>3
  <2>3. g = Rule(g, n + 1)
      BY <2>2
  <2> QED
      BY <2>3
<1>3. T = {}
    BY <1>1, <1>2, Smallest
<1>4. Len(s) \in Nat
    OBVIOUS
<1>5. \E f : f = Rule(f, Len(s))
    BY <1>3, <1>4
<1>6. Trace(s) = CHOOSE f : f = Rule(f, Len(s))
    BY DEF Trace
<1> DEFINE P == Trace(s)
<1>7. P = Rule(P, Len(s))
    BY <1>5, <1>6
<1> HIDE DEF P
<1> QED
  <2>1. P[0] = Entry
      BY <1>4, <1>7
  <2>2. \A n \in 1 .. Len(s) : P[n] = Execute(P[n - 1], s[n])
      BY <1>4, <1>7
  <2> QED
      BY <2>1, <2>2 DEF P

(* Every step of a trace is a machine.                                     *)
LEMMA TraceOfMachines ==
    ASSUME NEW s \in Seq(Instruction), NEW n \in 0 .. Len(s)
    PROVE  IsMachine(Trace(s)[n])
<1> DEFINE T == {k \in Nat : k <= Len(s) /\ ~IsMachine(Trace(s)[k])}
<1>1. 0 \notin T
  <2>1. Trace(s)[0] = Entry
      BY TraceStep
  <2>2. IsMachine(Entry)
      BY DEF Entry, IsMachine
  <2> QED
      BY <2>1, <2>2
<1>2. ASSUME NEW k \in Nat, k \notin T PROVE k + 1 \notin T
  <2> SUFFICES ASSUME k + 1 <= Len(s) PROVE IsMachine(Trace(s)[k + 1])
      OBVIOUS
  <2>1. IsMachine(Trace(s)[k])
      BY <1>2
  <2>2. k + 1 \in 1 .. Len(s) /\ s[k + 1] \in Instruction
      OBVIOUS
  <2>3. Trace(s)[k + 1] = Execute(Trace(s)[k], s[k + 1])
      BY <2>2, TraceStep
  <2> QED
      BY <2>1, <2>2, <2>3, ExecuteSame DEF Same
<1>3. T = {}
  <2> HIDE DEF T
  <2>1. T \subseteq Nat
      BY DEF T
  <2> QED
      BY <1>1, <1>2, <2>1, Smallest
<1>4. n \in Nat /\ n <= Len(s)
    OBVIOUS
<1> QED
    BY <1>3, <1>4

(* Two blocks do the same along instructions they share, from where they   *)
(* hold the same.                                                          *)
LEMMA SameAlong ==
    ASSUME NEW s \in Seq(Instruction), NEW t \in Seq(Instruction),
           NEW p \in Nat, NEW q \in Nat, NEW m \in Nat, p + m <= Len(s), q + m <= Len(t),
           \A n \in 1 .. m : s[p + n] = t[q + n],
           Same(Trace(s)[p], Trace(t)[q]),
           NEW n \in 0 .. m
    PROVE  Same(Trace(s)[p + n], Trace(t)[q + n])
<1> DEFINE T == {k \in Nat : k <= m /\ ~Same(Trace(s)[p + k], Trace(t)[q + k])}
<1>1. 0 \notin T
    OBVIOUS
<1>2. ASSUME NEW k \in Nat, k \notin T PROVE k + 1 \notin T
  <2> SUFFICES ASSUME k + 1 <= m PROVE Same(Trace(s)[p + (k + 1)], Trace(t)[q + (k + 1)])
      OBVIOUS
  <2>1. Same(Trace(s)[p + k], Trace(t)[q + k])
      BY <1>2
  <2>2. /\ p + (k + 1) \in 1 .. Len(s) /\ q + (k + 1) \in 1 .. Len(t)
        /\ p + (k + 1) - 1 = p + k /\ q + (k + 1) - 1 = q + k
        /\ p + k \in 0 .. Len(s) /\ q + k \in 0 .. Len(t)
        /\ k + 1 \in 1 .. m
      OBVIOUS
  <2>3. s[p + (k + 1)] = t[q + (k + 1)] /\ s[p + (k + 1)] \in Instruction
    <3>1. s[p + (k + 1)] = t[q + (k + 1)]
        BY <2>2
    <3> DEFINE j == p + (k + 1)
    <3>2. j \in 1 .. Len(s)
        BY <2>2
    <3> HIDE DEF j
    <3>3. s[j] \in Instruction
        BY <3>2
    <3> QED
        BY <3>1, <3>3 DEF j
  <2>4. /\ Trace(s)[p + (k + 1)] = Execute(Trace(s)[p + k], s[p + (k + 1)])
        /\ Trace(t)[q + (k + 1)] = Execute(Trace(t)[q + k], t[q + (k + 1)])
      BY <2>2, TraceStep
  <2>5. IsMachine(Trace(s)[p + k]) /\ IsMachine(Trace(t)[q + k])
      BY <2>2, TraceOfMachines
  <2> QED
      BY <2>1, <2>3, <2>4, <2>5, ExecuteSame
<1>3. T = {}
  <2> HIDE DEF T
  <2>1. T \subseteq Nat
      BY DEF T
  <2> QED
      BY <1>1, <1>2, <2>1, Smallest
<1>4. n \in Nat /\ n <= m
    OBVIOUS
<1> QED
    BY <1>3, <1>4

(* Same is what the property calls the same effect.                        *)
LEMMA SameIsEffect ==
    ASSUME NEW s, NEW t
    PROVE  SameEffect(s, t) <=> Same(Run(s), Run(t))
<1>1. ASSUME NEW c, c \notin DOMAIN Run(s).mem, c \notin DOMAIN Run(t).mem
      PROVE  Read(Run(s), c) = Read(Run(t), c)
    BY <1>1 DEF Read
<1> QED
    BY <1>1 DEF SameEffect, Same

-----------------------------------------------------------------------------
(* Erasing one instruction. *)

(* What a list without its k-th element looks like.                        *)
LEMMA RemoveFacts ==
    ASSUME NEW s \in Seq(Instruction), NEW k \in 1 .. Len(s)
    PROVE  /\ RemoveAt(s, k) \in Seq(Instruction)
           /\ Len(RemoveAt(s, k)) = Len(s) - 1
           /\ \A j \in 1 .. Len(s) - 1 : RemoveAt(s, k)[j] = IF j < k THEN s[j] ELSE s[j + 1]
<1> DEFINE l == SubSeq(s, 1, k - 1)
           r == SubSeq(s, k + 1, Len(s))
<1>1. Len(s) \in Nat /\ k \in Nat /\ 1 <= k /\ k <= Len(s)
    OBVIOUS
<1>2. l \in Seq(Instruction) /\ Len(l) = k - 1 /\ \A j \in 1 .. k - 1 : l[j] = s[j]
    BY <1>1
<1>3. r \in Seq(Instruction) /\ Len(r) = Len(s) - k /\ \A j \in 1 .. Len(s) - k : r[j] = s[k + j]
    BY <1>1
<1> HIDE DEF l, r
<1>4. /\ l \o r \in Seq(Instruction)
      /\ Len(l \o r) = Len(s) - 1
      /\ \A j \in 1 .. Len(s) - 1 : (l \o r)[j] = IF j < k THEN s[j] ELSE s[j + 1]
  <2>1. l \o r \in Seq(Instruction) /\ Len(l \o r) = Len(s) - 1
    <3>1. l \o r \in Seq(Instruction) /\ Len(l \o r) = Len(l) + Len(r)
        BY <1>2, <1>3, ConcatProperties
    <3>2. Len(l) + Len(r) = Len(s) - 1
        BY <1>1, <1>2, <1>3
    <3> QED
        BY <3>1, <3>2
  <2>2. ASSUME NEW j \in 1 .. Len(s) - 1 PROVE (l \o r)[j] = IF j < k THEN s[j] ELSE s[j + 1]
    <3>1. CASE j < k
        BY <1>1, <1>2, <1>3, <3>1
    <3>2. CASE ~(j < k)
      <4>1. (l \o r)[j] = r[j - (k - 1)] /\ j - (k - 1) \in 1 .. Len(s) - k
          BY <1>1, <1>2, <1>3, <3>2
      <4>2. k + (j - (k - 1)) = j + 1
          BY <1>1
      <4> QED
          BY <1>3, <3>2, <4>1, <4>2
    <3> QED
        BY <3>1, <3>2
  <2> QED
      BY <2>1, <2>2
<1> QED
    BY <1>4 DEF RemoveAt, l, r

(* Without an instruction that changes nothing the machine goes on alike.  *)
LEMMA EraseKeeps ==
    ASSUME NEW s \in Seq(Instruction), NEW k \in 1 .. Len(s), Same(Trace(s)[k - 1], Trace(s)[k]),
           NEW t, t = RemoveAt(s, k)
    PROVE  /\ \A j \in 0 .. k - 1 : Same(Trace(s)[j], Trace(t)[j])
           /\ \A j \in k - 1 .. Len(t) : Same(Trace(s)[j + 1], Trace(t)[j])
<1>1. /\ t \in Seq(Instruction) /\ Len(t) = Len(s) - 1 /\ Len(s) \in Nat /\ k - 1 \in Nat
      /\ \A j \in 1 .. Len(s) - 1 : t[j] = IF j < k THEN s[j] ELSE s[j + 1]
  <2>1. /\ t \in Seq(Instruction) /\ Len(t) = Len(s) - 1
        /\ \A j \in 1 .. Len(s) - 1 : t[j] = IF j < k THEN s[j] ELSE s[j + 1]
      BY RemoveFacts, Zenon
  <2>2. Len(s) \in Nat /\ k - 1 \in Nat
      OBVIOUS
  <2> QED
      BY <2>1, <2>2
<1>2. Same(Trace(s)[0], Trace(t)[0])
    BY <1>1, TraceStep DEF Same
<1>3. \A j \in 0 .. k - 1 : Same(Trace(s)[j], Trace(t)[j])
  <2>1. \A n \in 1 .. k - 1 : s[0 + n] = t[0 + n]
      BY <1>1
  <2>2. 0 \in Nat /\ 0 + (k - 1) <= Len(s) /\ 0 + (k - 1) <= Len(t)
      BY <1>1
  <2>3. \A n \in 0 .. k - 1 : Same(Trace(s)[0 + n], Trace(t)[0 + n])
      BY <1>1, <1>2, <2>1, <2>2, SameAlong, Zenon
  <2>4. \A n \in 0 .. k - 1 : 0 + n = n
      BY <1>1
  <2> QED
      BY <2>3, <2>4
<1>4. Same(Trace(s)[k], Trace(t)[k - 1])
  <2>1. Same(Trace(s)[k - 1], Trace(t)[k - 1])
      BY <1>1, <1>3
  <2> QED
      BY <2>1 DEF Same
<1>5. \A n \in 0 .. Len(s) - k : Same(Trace(s)[k + n], Trace(t)[(k - 1) + n])
  <2>1. \A n \in 1 .. Len(s) - k : s[k + n] = t[(k - 1) + n]
    <3>1. ASSUME NEW n \in 1 .. Len(s) - k
          PROVE  (k - 1) + n \in 1 .. Len(s) - 1 /\ ~((k - 1) + n < k) /\ ((k - 1) + n) + 1 = k + n
        BY <1>1
    <3> QED
        BY <1>1, <3>1
  <2>2. Len(s) - k \in Nat /\ k + (Len(s) - k) <= Len(s) /\ (k - 1) + (Len(s) - k) <= Len(t)
      BY <1>1
  <2>3. k \in Nat
      OBVIOUS
  <2> QED
      BY <1>1, <1>4, <2>1, <2>2, <2>3, SameAlong, Zenon
<1>6. ASSUME NEW j \in k - 1 .. Len(t) PROVE Same(Trace(s)[j + 1], Trace(t)[j])
  <2>1. PICK n \in 0 .. Len(s) - k : k + n = j + 1 /\ (k - 1) + n = j
    <3>1. k \in Nat /\ j \in Int /\ k - 1 <= j /\ j <= Len(s) - 1 /\ Len(s) \in Nat
        BY <1>1
    <3>2. (j + 1) - k \in 0 .. Len(s) - k /\ k + ((j + 1) - k) = j + 1 /\ (k - 1) + ((j + 1) - k) = j
        BY <3>1
    <3> QED
        BY <3>2
  <2>2. Same(Trace(s)[k + n], Trace(t)[(k - 1) + n])
      BY <1>5
  <2> QED
      BY <2>1, <2>2
<1> QED
    BY <1>3, <1>6

(* The same effect, and what was no chain of pointers becomes none.        *)
LEMMA EraseIsSound ==
    ASSUME NEW s \in Seq(Instruction), NEW k \in 1 .. Len(s), Same(Trace(s)[k - 1], Trace(s)[k]),
           NEW t, t = RemoveAt(s, k)
    PROVE  Same(Run(s), Run(t)) /\ (NoChase(s) => NoChase(t))
<1>1. /\ t \in Seq(Instruction) /\ Len(t) = Len(s) - 1 /\ Len(s) \in Nat /\ k - 1 \in Nat
      /\ \A j \in 1 .. Len(s) - 1 : t[j] = IF j < k THEN s[j] ELSE s[j + 1]
  <2>1. /\ t \in Seq(Instruction) /\ Len(t) = Len(s) - 1
        /\ \A j \in 1 .. Len(s) - 1 : t[j] = IF j < k THEN s[j] ELSE s[j + 1]
      BY RemoveFacts, Zenon
  <2>2. Len(s) \in Nat /\ k - 1 \in Nat
      OBVIOUS
  <2> QED
      BY <2>1, <2>2
<1>2. /\ \A j \in 0 .. k - 1 : Trace(s)[j].reg = Trace(t)[j].reg
      /\ \A j \in k - 1 .. Len(t) : Trace(s)[j + 1].reg = Trace(t)[j].reg
    BY EraseKeeps DEF Same
<1>3. Same(Run(s), Run(t))
  <2>1. Len(t) \in k - 1 .. Len(t) /\ Len(t) + 1 = Len(s)
      BY <1>1
  <2>2. Same(Trace(s)[Len(t) + 1], Trace(t)[Len(t)])
      BY <2>1, EraseKeeps
  <2> QED
      BY <2>1, <2>2 DEF Run
<1>4. ASSUME NoChase(s) PROVE NoChase(t)
  <2> DEFINE was(j) == IF j < k THEN j ELSE j + 1
  <2>1. ASSUME NEW j \in DOMAIN t
        PROVE  /\ was(j) \in DOMAIN s /\ t[j] = s[was(j)]
               /\ Trace(t)[j - 1].reg = Trace(s)[was(j) - 1].reg
               /\ Trace(t)[j].reg = Trace(s)[was(j)].reg
    <3>1. j \in 1 .. Len(s) - 1 /\ DOMAIN s = 1 .. Len(s)
        BY <1>1
    <3>2. CASE j < k
      <4>1. j - 1 \in 0 .. k - 1 /\ j \in 0 .. k - 1
          BY <1>1, <3>1, <3>2
      <4>2. Trace(s)[j - 1].reg = Trace(t)[j - 1].reg /\ Trace(s)[j].reg = Trace(t)[j].reg
          BY <1>2, <4>1
      <4> QED
          BY SMTT(30), <1>1, <3>1, <3>2, <4>2
    <3>3. CASE ~(j < k)
      <4>1. j - 1 \in k - 1 .. Len(t) /\ j \in k - 1 .. Len(t) /\ (j - 1) + 1 = j /\ (j + 1) - 1 = j
          BY <1>1, <3>1, <3>3
      <4>2. Trace(s)[j].reg = Trace(t)[j - 1].reg /\ Trace(s)[j + 1].reg = Trace(t)[j].reg
          BY <1>2, <4>1
      <4> QED
          BY SMTT(30), <1>1, <3>1, <3>3, <4>1, <4>2
    <3> QED
        BY <3>2, <3>3
  <2>2. \A i, j \in DOMAIN t : i < j => was(i) < was(j)
      BY <1>1
  <2> HIDE DEF was
  <2>3. ASSUME NEW i \in DOMAIN t, NEW j \in DOMAIN t, i < j, SameWidth(t[i], t[j])
        PROVE  Trace(t)[j - 1].reg[Base(t[j])] /= Trace(t)[i].reg[t[i].rd]
    <3>1. was(i) \in DOMAIN s /\ was(j) \in DOMAIN s /\ was(i) < was(j) /\ t[i] = s[was(i)] /\ t[j] = s[was(j)]
        BY <2>1, <2>2, <2>3
    <3>2. Trace(s)[was(j) - 1].reg[Base(s[was(j)])] /= Trace(s)[was(i)].reg[s[was(i)].rd]
        BY <1>4, <2>3, <3>1 DEF NoChase
    <3> QED
        BY <2>1, <3>1, <3>2
  <2> QED
      BY <2>3 DEF NoChase
<1> QED
    BY <1>3, <1>4

(* Erasing an instruction whose effect the next one overrides.             *)
LEMMA OvertakenGoes ==
    ASSUME NEW s \in Seq(Instruction), NEW k \in 1 .. Len(s), k + 1 \in 1 .. Len(s),
           Same(Trace(s)[k + 1], Execute(Trace(s)[k - 1], s[k + 1]))
    PROVE  Same(Run(s), Run(RemoveAt(s, k)))
<1> DEFINE t == RemoveAt(s, k)
<1>1. /\ t \in Seq(Instruction) /\ Len(t) = Len(s) - 1
      /\ \A j \in 1 .. Len(s) - 1 : t[j] = IF j < k THEN s[j] ELSE s[j + 1]
    BY RemoveFacts
<1> HIDE DEF t
<1>2. Len(s) \in Nat /\ k \in Nat /\ k - 1 \in Nat
    OBVIOUS
<1>3. Same(Trace(s)[k - 1], Trace(t)[k - 1])
  <2>1. Same(Trace(s)[0], Trace(t)[0])
      BY <1>1, TraceStep DEF Same
  <2>2. /\ \A n \in 1 .. k - 1 : s[0 + n] = t[0 + n]
        /\ 0 \in Nat /\ 0 + (k - 1) <= Len(s) /\ 0 + (k - 1) <= Len(t)
        /\ k - 1 \in 0 .. k - 1
      BY <1>1, <1>2
  <2>3. Same(Trace(s)[0 + (k - 1)], Trace(t)[0 + (k - 1)])
      BY <1>1, <1>2, <2>1, <2>2, SameAlong, Zenon
  <2> QED
      BY <1>2, <2>3
<1>4. Same(Trace(s)[k + 1], Trace(t)[k])
  <2>1. k \in 1 .. Len(t) /\ t[k] = s[k + 1] /\ s[k + 1] \in Instruction /\ k - 1 \in 0 .. Len(s) /\ k - 1 \in 0 .. Len(t)
      BY <1>1, <1>2
  <2>2. Trace(t)[k] = Execute(Trace(t)[k - 1], s[k + 1])
      BY <1>1, <2>1, TraceStep
  <2>3. IsMachine(Trace(s)[k - 1]) /\ IsMachine(Trace(t)[k - 1])
      BY <1>1, <2>1, TraceOfMachines
  <2>4. Same(Execute(Trace(s)[k - 1], s[k + 1]), Trace(t)[k])
      BY <1>3, <2>1, <2>2, <2>3, ExecuteSame
  <2> QED
      BY <2>4 DEF Same
<1>5. PICK m \in Nat : (k + 1) + m = Len(s) /\ k + m = Len(t)
  <2>1. Len(s) - (k + 1) \in Nat /\ (k + 1) + (Len(s) - (k + 1)) = Len(s) /\ k + (Len(s) - (k + 1)) = Len(t)
      BY <1>1, <1>2
  <2> QED
      BY <2>1
<1>6. \A n \in 1 .. m : s[(k + 1) + n] = t[k + n]
  <2>1. ASSUME NEW n \in 1 .. m
        PROVE  k + n \in 1 .. Len(s) - 1 /\ ~(k + n < k) /\ (k + n) + 1 = (k + 1) + n
      BY <1>1, <1>2, <1>5
  <2> QED
      BY <1>1, <2>1
<1>7. k + 1 \in Nat /\ (k + 1) + m <= Len(s) /\ k + m <= Len(t) /\ m \in 0 .. m
    BY <1>1, <1>2, <1>5
<1>8. Same(Trace(s)[(k + 1) + m], Trace(t)[k + m])
    BY <1>1, <1>2, <1>4, <1>6, <1>7, SameAlong, Zenon
<1> QED
    BY <1>5, <1>8 DEF Run, t

-----------------------------------------------------------------------------
(* The walk. *)

(* The second of a redundant pair changes nothing: after the first one     *)
(* register and cell hold the same, and the base is what it was.           *)
LEMMA RedundantIsIdle ==
    ASSUME NEW m, IsMachine(m), NEW c \in Instruction, NEW n \in Instruction, NextRedundant(c, n),
           SameWidth(c, n) => Execute(m, c).reg[Base(n)] /= Execute(m, c).reg[c.rd]
    PROVE  Same(Execute(m, c), Execute(Execute(m, c), n))
<1> DEFINE k == Execute(m, c)
<1>1. c.imm = n.imm
    BY DEF NextRedundant
<1>2. /\ c.rd \in Regs /\ c.rs \in Regs /\ c.rt \in Regs
      /\ n.rd \in Regs /\ n.rs \in Regs /\ n.rt \in Regs
    BY InstructionFacts
<1>3. CASE c.op \in Loads
  <2>1. /\ IsMachine(k) /\ k.reg = [m.reg EXCEPT ![c.rd] = Read(m, Address(m, c))]
        /\ \A a : Read(k, a) = Read(m, a)
      BY <1>3, LoadEffect
  <2>2. m.reg = [r \in Regs |-> m.reg[r]] /\ k.reg = [r \in Regs |-> k.reg[r]]
      BY <2>1 DEF IsMachine
  <2>3. k.reg[c.rd] = Read(m, <<m.reg[c.rs], c.imm>>)
      BY <1>2, <1>3, <2>1, <2>2 DEF Address, Base
  <2> HIDE DEF k
  <2>4. /\ SameWidth(c, n) /\ Base(n) = c.rs
        /\ \/ n.op \in Loads /\ n.rd = c.rd
           \/ n.op \in Stores /\ n.rs = c.rd
      BY <1>3, Classes DEF NextRedundant, BothLoad, ThenStore, ThenLoad, SameWidth, Base
  <2>5. c.rs /= c.rd
      BY <2>4 DEF k
  <2>6. k.reg[c.rs] = m.reg[c.rs]
      BY <1>2, <2>1, <2>2, <2>5
  <2>7. Read(k, Address(k, n)) = k.reg[c.rd]
      BY <1>1, <2>1, <2>3, <2>4, <2>6 DEF Address
  <2>8. CASE n.op \in Loads /\ n.rd = c.rd
    <3>1. /\ Execute(k, n).reg = [k.reg EXCEPT ![n.rd] = Read(k, Address(k, n))]
          /\ \A a : Read(Execute(k, n), a) = Read(k, a)
        BY <2>1, <2>8, LoadEffect
    <3>2. [k.reg EXCEPT ![n.rd] = Read(k, Address(k, n))] = k.reg
        BY <1>2, <2>2, <2>7, <2>8
    <3> QED
        BY <3>1, <3>2 DEF Same, k
  <2>9. CASE n.op \in Stores /\ n.rs = c.rd
    <3>1. /\ Execute(k, n).reg = k.reg
          /\ \A a : Read(Execute(k, n), a) = IF a = Address(k, n) THEN k.reg[n.rs] ELSE Read(k, a)
        BY <2>1, <2>9, StoreEffect
    <3>2. \A a : Read(Execute(k, n), a) = Read(k, a)
        BY <2>7, <2>9, <3>1
    <3> QED
        BY <3>1, <3>2 DEF Same, k
  <2> QED
      BY <2>4, <2>8, <2>9
<1>4. CASE c.op \notin Loads
  <2>1. c.op \in Stores /\ n.op \in Loads /\ c.rs = n.rd /\ c.rt = n.rs
      BY <1>4, Classes DEF NextRedundant, BothLoad, ThenStore, ThenLoad
  <2>2. /\ IsMachine(k) /\ k.reg = m.reg
        /\ \A a : Read(k, a) = IF a = Address(m, c) THEN m.reg[c.rs] ELSE Read(m, a)
      BY <2>1, StoreEffect
  <2> HIDE DEF k
  <2>3. Address(k, n) = Address(m, c)
      BY <1>1, <1>4, <2>1, <2>2 DEF Address, Base
  <2>4. Read(k, Address(k, n)) = k.reg[n.rd]
      BY <2>1, <2>2, <2>3
  <2>5. /\ Execute(k, n).reg = [k.reg EXCEPT ![n.rd] = Read(k, Address(k, n))]
        /\ \A a : Read(Execute(k, n), a) = Read(k, a)
      BY <2>1, <2>2, LoadEffect
  <2>6. k.reg = [r \in Regs |-> k.reg[r]]
      BY <2>2 DEF IsMachine
  <2>7. [k.reg EXCEPT ![n.rd] = Read(k, Address(k, n))] = k.reg
      BY <1>2, <2>4, <2>6
  <2> QED
      BY <2>5, <2>7 DEF Same, k
<1> QED
    BY <1>3, <1>4

(* The first of an overtaken pair may go: the second one loads into the    *)
(* same register from elsewhere, or stores to the same cell.               *)
LEMMA OvertakenIsIdle ==
    ASSUME NEW m, IsMachine(m), NEW c \in Instruction, NEW n \in Instruction, CurRedundant(c, n),
           SameWidth(c, n) => Execute(m, c).reg[Base(n)] /= Execute(m, c).reg[c.rd]
    PROVE  Same(Execute(Execute(m, c), n), Execute(m, n))
<1> DEFINE k == Execute(m, c)
<1>1. /\ c.rd \in Regs /\ c.rs \in Regs /\ c.rt \in Regs
      /\ n.rd \in Regs /\ n.rs \in Regs /\ n.rt \in Regs
    BY InstructionFacts
<1>2. CASE BothLoad(c, n) /\ c.rd = n.rd
  <2>1. c.op \in Loads /\ n.op \in Loads /\ SameWidth(c, n) /\ Base(n) = n.rs
      BY <1>2 DEF BothLoad, SameWidth, Base
  <2>2. /\ IsMachine(k) /\ k.reg = [m.reg EXCEPT ![c.rd] = Read(m, Address(m, c))]
        /\ \A a : Read(k, a) = Read(m, a)
      BY <2>1, LoadEffect
  <2>3. m.reg = [r \in Regs |-> m.reg[r]] /\ k.reg = [r \in Regs |-> k.reg[r]]
      BY <2>2 DEF IsMachine
  <2>4. n.rs /= c.rd
      BY <2>1
  <2> HIDE DEF k
  <2>5. k.reg[n.rs] = m.reg[n.rs]
      BY <1>1, <2>2, <2>3, <2>4
  <2>6. Address(k, n) = Address(m, n)
      BY <2>1, <2>5 DEF Address
  <2>7. /\ Execute(k, n).reg = [k.reg EXCEPT ![n.rd] = Read(k, Address(k, n))]
        /\ Execute(m, n).reg = [m.reg EXCEPT ![n.rd] = Read(m, Address(m, n))]
        /\ \A a : Read(Execute(k, n), a) = Read(k, a)
        /\ \A a : Read(Execute(m, n), a) = Read(m, a)
      BY <2>1, <2>2, LoadEffect
  <2>8. Execute(k, n).reg = Execute(m, n).reg
    <3>1. Read(k, Address(k, n)) = Read(m, Address(m, n))
        BY <2>2, <2>6
    <3>2. \A x : [k.reg EXCEPT ![n.rd] = x] = [m.reg EXCEPT ![n.rd] = x]
      <4>1. \A y : k.reg = [m.reg EXCEPT ![c.rd] = y] => \A x : [k.reg EXCEPT ![c.rd] = x] = [m.reg EXCEPT ![c.rd] = x]
          BY <1>1, <2>3
      <4> QED
          BY <1>2, <2>2, <4>1
    <3> QED
        BY <2>7, <3>1, <3>2
  <2> QED
      BY <2>2, <2>7, <2>8 DEF Same, k
<1>3. CASE BothStore(c, n) /\ c.rt = n.rt /\ c.imm = n.imm
  <2>1. c.op \in Stores /\ n.op \in Stores /\ Base(c) = c.rt /\ Base(n) = c.rt
      BY <1>3, Classes DEF BothStore, Base
  <2>2. /\ IsMachine(k) /\ k.reg = m.reg
        /\ \A a : Read(k, a) = IF a = Address(m, c) THEN m.reg[c.rs] ELSE Read(m, a)
      BY <2>1, StoreEffect
  <2> HIDE DEF k
  <2>3. Address(k, n) = Address(m, n) /\ Address(m, c) = Address(m, n)
      BY <1>3, <2>1, <2>2 DEF Address
  <2>4. /\ Execute(k, n).reg = k.reg
        /\ Execute(m, n).reg = m.reg
        /\ \A a : Read(Execute(k, n), a) = IF a = Address(k, n) THEN k.reg[n.rs] ELSE Read(k, a)
        /\ \A a : Read(Execute(m, n), a) = IF a = Address(m, n) THEN m.reg[n.rs] ELSE Read(m, a)
      BY <2>1, <2>2, StoreEffect
  <2>5. \A a : Read(Execute(k, n), a) = Read(Execute(m, n), a)
      BY <2>2, <2>3, <2>4
  <2> QED
      BY <2>2, <2>4, <2>5 DEF Same, k
<1> QED
    BY <1>2, <1>3 DEF CurRedundant

(* As long as two neighbours are compared: the effect is the one given, no *)
(* chain of pointers has come up, and no pair is left behind.              *)
Comparing ==
    /\ cur \in 1 .. Len(insts)
    /\ nxt = cur + 1
    /\ Same(Run(insts), Run(given))
    /\ NoChase(insts)
    /\ \A i \in 1 .. cur - 1 : ~NextRedundant(insts[i], insts[i + 1])

(* After EraseCur a load or a store is compared with itself.               *)
WithItself ==
    /\ cur \in 1 .. Len(insts)
    /\ nxt = cur
    /\ Same(Run(insts), Run(given))
    /\ insts[cur].op \in Loads \cup Stores

Dangling == cur = 0 \/ nxt = 0

IInv ==
    /\ given \in Blocks
    /\ insts \in Seq(Instruction)
    /\ cur \in Nat
    /\ Comparing \/ WithItself \/ Dangling

(* The invariant holds of the given block and is kept by every turn.       *)
LEMMA InitInv == Init => IInv
<1> SUFFICES ASSUME Init PROVE IInv
    OBVIOUS
<1>1. given \in Seq(Instruction) /\ given /= <<>> /\ NoChase(given) /\ insts = given /\ cur = 1 /\ nxt = 2
    BY BlocksAssumption DEF Init
<1>2. 1 \in 1 .. Len(given)
    BY <1>1
<1>3. Comparing
    BY <1>1, <1>2 DEF Comparing, Same
<1> QED
    BY <1>1, <1>3 DEF IInv, Init

LEMMA EraseNextInv ==
    ASSUME IInv, EraseNext
    PROVE  IInv'
<1>1. /\ Walking /\ NextRedundant(insts[cur], insts[nxt]) /\ insts' = RemoveAt(insts, nxt)
      /\ cur' = (IF cur = nxt THEN 0 ELSE cur) /\ given' = given /\ nxt' = nxt
    BY DEF EraseNext
<1>2. insts \in Seq(Instruction) /\ Len(insts) \in Nat /\ given \in Blocks /\ cur \in Nat
    BY DEF IInv
<1>3. CASE WithItself
  <2>1. nxt \in 1 .. Len(insts) /\ cur' = 0
      BY <1>1, <1>3 DEF WithItself
  <2>2. insts' \in Seq(Instruction)
      BY <1>1, <1>2, <2>1, RemoveFacts
  <2> QED
      BY <1>1, <1>2, <2>1, <2>2 DEF IInv, Dangling
<1>4. CASE Comparing
  <2>1. /\ cur \in 1 .. Len(insts) /\ nxt = cur + 1 /\ Same(Run(insts), Run(given)) /\ NoChase(insts)
        /\ \A i \in 1 .. cur - 1 : ~NextRedundant(insts[i], insts[i + 1])
      BY <1>4 DEF Comparing
  <2>2. nxt \in 1 .. Len(insts) /\ nxt - 1 = cur /\ cur - 1 \in 0 .. Len(insts) /\ cur < nxt /\ cur' = cur
      BY <1>1, <1>2, <2>1 DEF Walking, End
  <2>3. /\ Trace(insts)[cur] = Execute(Trace(insts)[cur - 1], insts[cur])
        /\ Trace(insts)[nxt] = Execute(Trace(insts)[nxt - 1], insts[nxt])
        /\ IsMachine(Trace(insts)[cur - 1])
      BY <1>2, <2>1, <2>2, TraceStep, TraceOfMachines
  <2>4. insts[cur] \in Instruction /\ insts[nxt] \in Instruction
      BY <1>2, <2>1, <2>2
  <2>5. SameWidth(insts[cur], insts[nxt])
          => Trace(insts)[nxt - 1].reg[Base(insts[nxt])] /= Trace(insts)[cur].reg[insts[cur].rd]
    <3>1. cur \in DOMAIN insts /\ nxt \in DOMAIN insts
        BY <1>2, <2>1, <2>2
    <3> QED
        BY <2>1, <2>2, <3>1 DEF NoChase
  <2>6. Same(Trace(insts)[nxt - 1], Trace(insts)[nxt])
      BY <1>1, <2>2, <2>3, <2>4, <2>5, RedundantIsIdle
  <2>7. Same(Run(insts), Run(insts')) /\ NoChase(insts')
      BY <1>1, <1>2, <2>1, <2>2, <2>6, EraseIsSound
  <2>8. /\ insts' \in Seq(Instruction) /\ Len(insts') = Len(insts) - 1
        /\ \A j \in 1 .. Len(insts) - 1 : insts'[j] = IF j < nxt THEN insts[j] ELSE insts[j + 1]
      BY <1>1, <1>2, <2>2, RemoveFacts
  <2>9. cur' \in 1 .. Len(insts') /\ nxt' = cur' + 1
      BY <1>1, <1>2, <2>1, <2>2, <2>8
  <2>10. \A i \in 1 .. cur' - 1 : ~NextRedundant(insts'[i], insts'[i + 1])
    <3>1. ASSUME NEW i \in 1 .. cur - 1
          PROVE  insts'[i] = insts[i] /\ insts'[i + 1] = insts[i + 1]
      <4>1. i \in 1 .. Len(insts) - 1 /\ i + 1 \in 1 .. Len(insts) - 1 /\ i < nxt /\ i + 1 < nxt
          BY <1>2, <2>1, <2>2
      <4> QED
          BY <2>8, <4>1
    <3> QED
        BY <2>1, <2>2, <3>1
  <2>11. Same(Run(insts'), Run(given'))
      BY <1>1, <2>1, <2>7 DEF Same
  <2>12. Comparing'
      BY <2>7, <2>9, <2>10, <2>11 DEF Comparing
  <2> QED
      BY <1>1, <1>2, <2>2, <2>8, <2>12 DEF IInv
<1>5. CASE Dangling
    BY <1>1, <1>5 DEF Dangling, Walking
<1> QED
    BY <1>3, <1>4, <1>5 DEF IInv

LEMMA EraseCurInv ==
    ASSUME IInv, EraseCur
    PROVE  IInv'
<1>1. /\ Walking /\ CurRedundant(insts[cur], insts[nxt]) /\ insts' = RemoveAt(insts, cur)
      /\ nxt' = (IF nxt = cur THEN 0 ELSE nxt - 1) /\ given' = given /\ cur' = cur
    BY DEF EraseCur
<1>2. insts \in Seq(Instruction) /\ Len(insts) \in Nat /\ given \in Blocks /\ cur \in Nat
    BY DEF IInv
<1>3. ASSUME cur \in 1 .. Len(insts)
      PROVE  /\ insts' \in Seq(Instruction) /\ Len(insts') = Len(insts) - 1
             /\ \A j \in 1 .. Len(insts) - 1 : insts'[j] = IF j < cur THEN insts[j] ELSE insts[j + 1]
    BY <1>1, <1>2, <1>3, RemoveFacts
<1>4. CASE WithItself
    BY <1>1, <1>2, <1>3, <1>4 DEF IInv, Dangling, WithItself
<1>5. CASE Comparing
  <2>1. cur \in 1 .. Len(insts) /\ nxt = cur + 1 /\ nxt \in 1 .. Len(insts)
      BY <1>1, <1>2, <1>5 DEF Comparing, Walking, End
  <2>2. nxt' = cur /\ cur' \in 1 .. Len(insts')
      BY <1>1, <1>2, <1>3, <2>1
  <2>3. insts'[cur] = insts[nxt]
    <3>1. cur \in 1 .. Len(insts) - 1 /\ ~(cur < cur)
        BY <1>2, <2>1
    <3> QED
        BY <1>3, <2>1, <3>1
  <2>4. insts[nxt].op \in Loads \cup Stores
      BY <1>1 DEF CurRedundant, BothLoad, BothStore
  <2>5. Same(Run(insts'), Run(given'))
    <3>1. /\ nxt \in 1 .. Len(insts) /\ nxt - 1 = cur /\ cur - 1 \in 0 .. Len(insts) /\ cur < nxt
          /\ cur \in DOMAIN insts /\ nxt \in DOMAIN insts
          /\ insts[cur] \in Instruction /\ insts[nxt] \in Instruction
        BY <1>2, <2>1
    <3>2. /\ Trace(insts)[cur] = Execute(Trace(insts)[cur - 1], insts[cur])
          /\ Trace(insts)[nxt] = Execute(Trace(insts)[nxt - 1], insts[nxt])
          /\ IsMachine(Trace(insts)[cur - 1])
        BY <1>2, <2>1, <3>1, TraceStep, TraceOfMachines
    <3>3. SameWidth(insts[cur], insts[nxt])
            => Trace(insts)[nxt - 1].reg[Base(insts[nxt])] /= Trace(insts)[cur].reg[insts[cur].rd]
        BY <1>5, <3>1 DEF Comparing, NoChase
    <3>4. Same(Trace(insts)[cur + 1], Execute(Trace(insts)[cur - 1], insts[cur + 1]))
        BY <1>1, <2>1, <3>1, <3>2, <3>3, OvertakenIsIdle
    <3>5. Same(Run(insts), Run(insts'))
        BY <1>1, <1>2, <2>1, <3>4, OvertakenGoes
    <3> QED
        BY <1>1, <1>5, <3>5 DEF Comparing, Same
  <2>6. WithItself'
      BY <1>1, <2>2, <2>3, <2>4, <2>5 DEF WithItself
  <2> QED
      BY <1>1, <1>2, <1>3, <2>1, <2>6 DEF IInv
<1>6. CASE Dangling
    BY <1>1, <1>6 DEF Dangling, Walking
<1> QED
    BY <1>4, <1>5, <1>6 DEF IInv

LEMMA AdvanceInv ==
    ASSUME IInv, Advance
    PROVE  IInv'
<1>1. /\ Walking /\ ~NextRedundant(insts[cur], insts[nxt]) /\ ~CurRedundant(insts[cur], insts[nxt])
      /\ cur' = nxt /\ nxt' = nxt + 1 /\ given' = given /\ insts' = insts
    BY DEF Advance
<1>2. insts \in Seq(Instruction) /\ Len(insts) \in Nat /\ given \in Blocks /\ cur \in Nat
    BY DEF IInv
<1>3. CASE WithItself
  <2>1. nxt = cur /\ insts[cur].op \in Loads \cup Stores
      BY <1>3 DEF WithItself
  <2>2. insts[cur].op \in Loads => NextRedundant(insts[cur], insts[nxt])
      BY <2>1 DEF NextRedundant, BothLoad
  <2>3. insts[cur].op \in Stores => CurRedundant(insts[cur], insts[nxt])
      BY <2>1 DEF CurRedundant, BothStore
  <2> QED
      BY <1>1, <2>1, <2>2, <2>3
<1>4. CASE Comparing
  <2>1. nxt \in 1 .. Len(insts) /\ nxt = cur + 1 /\ nxt - 1 = cur
      BY <1>1, <1>2, <1>4 DEF Comparing, Walking, End
  <2>2. \A i \in 1 .. nxt - 1 : ~NextRedundant(insts[i], insts[i + 1])
    <3>1. \A i \in 1 .. nxt - 1 : i \in 1 .. cur - 1 \/ i = cur
        BY <1>2, <2>1
    <3> QED
        BY <1>1, <1>4, <2>1, <3>1 DEF Comparing
  <2>3. Comparing'
      BY <1>1, <1>4, <2>1, <2>2 DEF Comparing
  <2> QED
      BY <1>1, <1>2, <2>1, <2>3 DEF IInv
<1>5. CASE Dangling
    BY <1>1, <1>5 DEF Dangling, Walking
<1> QED
    BY <1>3, <1>4, <1>5 DEF IInv

LEMMA Invariance == Spec => []IInv
<1>1. IInv /\ [Next]_vars => IInv'
  <2> SUFFICES ASSUME IInv, [Next]_vars PROVE IInv'
      OBVIOUS
  <2>1. CASE UNCHANGED vars
      BY <2>1 DEF vars, IInv, Comparing, WithItself, Dangling
  <2> QED
      BY <2>1, EraseNextInv, EraseCurInv, AdvanceInv DEF Next
<1> QED
    BY <1>1, InitInv, PTL DEF Spec

(* Whatever is erased, in the order the walk erases it, registers and      *)
(* memory end with the values they had (AsmBasicBlock::Peepholes), for     *)
(* blocks of any length.                                                   *)
THEOREM EffectIsKept == Spec => []NothingChanged
<1>1. IInv => NothingChanged
  <2> SUFFICES ASSUME IInv, 0 < cur, cur <= nxt PROVE SameEffect(insts, given)
      BY DEF NothingChanged
  <2>1. Comparing \/ WithItself
      BY DEF IInv, Dangling
  <2> QED
      BY <2>1, SameIsEffect DEF Comparing, WithItself
<1> QED
    BY <1>1, Invariance, PTL

(* One walk is enough for pairs the second of which is redundant: erasing  *)
(* never leaves such a pair behind the two iterators.                      *)
THEOREM OneWalkIsEnough == Spec => []NoPairLeft
<1>1. IInv => NoPairLeft
  <2> SUFFICES ASSUME IInv, nxt = End, cur /= 0
               PROVE  \A i \in 1 .. Len(insts) - 1 : ~NextRedundant(insts[i], insts[i + 1])
      BY DEF NoPairLeft
  <2>1. Len(insts) \in Nat /\ End = Len(insts) + 1
      BY DEF IInv, End
  <2>2. Comparing
      BY <2>1 DEF IInv, WithItself, Dangling
  <2>3. cur = Len(insts)
      BY <2>1, <2>2 DEF Comparing
  <2> QED
      BY <2>2, <2>3 DEF Comparing
<1> QED
    BY <1>1, Invariance, PTL

-----------------------------------------------------------------------------
(* How long it takes. *)

(* An erasure shortens the list by one, any other turn brings the second   *)
(* iterator nearer to its end.                                             *)
ComparisonsLeft == IF Walking THEN 2 * Len(insts) - nxt + 1 ELSE 0

LEMMA WalkingRange ==
    ASSUME IInv, Walking
    PROVE  /\ Len(insts) \in Nat /\ insts \in Seq(Instruction)
           /\ cur \in 1 .. Len(insts) /\ nxt \in 1 .. Len(insts)
           /\ ComparisonsLeft = 2 * Len(insts) - nxt + 1
           /\ ComparisonsLeft \in Nat \ {0}
<1>1. insts \in Seq(Instruction) /\ Len(insts) \in Nat
    BY DEF IInv
<1>2. cur \in 1 .. Len(insts) /\ nxt \in 1 .. Len(insts)
    BY <1>1 DEF IInv, Walking, End, Comparing, WithItself, Dangling
<1>3. ComparisonsLeft = 2 * Len(insts) - nxt + 1
    BY DEF ComparisonsLeft
<1> QED
    BY <1>1, <1>2, <1>3

LEMMA WalkShrinks ==
    ASSUME IInv, Next
    PROVE  ComparisonsLeft' < ComparisonsLeft
<1>1. Walking
    BY DEF Next, EraseNext, EraseCur, Advance
<1>2. /\ Len(insts) \in Nat /\ insts \in Seq(Instruction)
      /\ cur \in 1 .. Len(insts) /\ nxt \in 1 .. Len(insts)
      /\ ComparisonsLeft = 2 * Len(insts) - nxt + 1
      /\ ComparisonsLeft \in Nat \ {0}
    BY <1>1, WalkingRange
<1>3. CASE ~Walking'
  <2>1. ComparisonsLeft' = 0
      BY <1>3 DEF ComparisonsLeft
  <2> QED
      BY <1>2, <2>1
<1>4. CASE Walking'
  <2>1. ComparisonsLeft' = 2 * Len(insts') - nxt' + 1 /\ nxt' /= 0
      BY <1>4 DEF ComparisonsLeft, Walking
  <2>2. CASE EraseNext
    <3>1. nxt' = nxt /\ Len(insts') = Len(insts) - 1
        BY <1>2, <2>2, RemoveFacts DEF EraseNext
    <3> QED
        BY <1>2, <2>1, <3>1
  <2>3. CASE EraseCur
    <3>1. nxt' = nxt - 1 /\ Len(insts') = Len(insts) - 1
        BY <1>2, <2>1, <2>3, RemoveFacts DEF EraseCur
    <3> QED
        BY <1>2, <2>1, <3>1
  <2>4. CASE Advance
    <3>1. nxt' = nxt + 1 /\ insts' = insts
        BY <2>4 DEF Advance
    <3> QED
        BY <1>2, <2>1, <3>1
  <2> QED
      BY <2>2, <2>3, <2>4 DEF Next
<1> QED
    BY <1>3, <1>4

(* Peepholes makes fewer than two comparisons per instruction, for blocks  *)
(* of any length: the walk neither turns round on the iterators it moves   *)
(* back nor looks at an erased pair again.                                 *)
THEOREM WalkIsBounded == Spec => [](ComparisonsLeft \in Nat) /\ [][ComparisonsLeft' < ComparisonsLeft]_vars
<1>1. IInv => ComparisonsLeft \in Nat
    BY WalkingRange DEF ComparisonsLeft
<1>2. IInv /\ [Next]_vars => [ComparisonsLeft' < ComparisonsLeft]_vars
    BY WalkShrinks
<1> QED
    BY Invariance, <1>1, <1>2, PTL DEF Spec

=============================================================================
