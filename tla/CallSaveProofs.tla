--------------------------- MODULE CallSaveProofs ---------------------------
(***************************************************************************)
(* For every block and every assignment of registers that keeps apart what *)
(* meets: saving around calls loses nothing, and instructions and callees  *)
(* get the operands that are meant.                                        *)
(***************************************************************************)
EXTENDS CallSave, FiniteSetTheorems, WellFoundedInduction, TLAPS

Values == {Junk} \cup {Incoming(v) : v \in Vregs} \cup {Made(i) : i \in Nat}

SlotOwners == UNION {[R -> Vregs \cup {None}] : R \in SUBSET Regs}
Hardware == [regs : [Regs -> Values], slot : [Regs -> Values],
             owner : SlotOwners, saving : SUBSET Vregs]

(* What is in a register, or was when it was stored. *)
Held(h, v) == IF v \in h.saving THEN h.slot[Reg(v)] ELSE h.regs[Reg(v)]

Apart(A) == \A v, w \in A : Reg(v) = Reg(w) => v = w

(* Marks and slots tell the same: what is marked owns the slot of its      *)
(* register, and what owns a slot is marked.                               *)
Marked(h, A) ==
    /\ h.saving \subseteq A
    /\ \A v \in h.saving : /\ Reg(v) \in CallerSave
                           /\ Reg(v) \in DOMAIN h.owner
                           /\ h.owner[Reg(v)] = v
    /\ \A r \in DOMAIN h.owner : h.owner[r] /= None => h.owner[r] \in h.saving /\ Reg(h.owner[r]) = r

-----------------------------------------------------------------------------
(* The operators on marks and slots keep a set of values that are apart    *)
(* where the marks say.                                                    *)

(* Bringing saved values back keeps every value and clears the marks. *)
LEMMA ReloadKeeps ==
    ASSUME NEW h \in Hardware, NEW A \in SUBSET Vregs, NEW vs,
           block.reg \in [Vregs -> Regs], Apart(A), Marked(h, A)
    PROVE  /\ Reload(h, vs) \in Hardware
           /\ Marked(Reload(h, vs), A)
           /\ Reload(h, vs).saving = h.saving \ vs
           /\ \A v \in A : Held(Reload(h, vs), v) = Held(h, v)
<1> DEFINE back == {Reg(v) : v \in vs \cap h.saving}
           k == Reload(h, vs)
<1>1. h.saving \subseteq A /\ A \subseteq Vregs /\ \A v \in Vregs : Reg(v) \in Regs
    BY DEF Marked, Reg
<1>2. \A v \in A : Reg(v) \in back <=> v \in vs \cap h.saving
    BY <1>1 DEF Apart
<1>3. PICK R \in SUBSET Regs : h.owner \in [R -> Vregs \cup {None}]
    BY DEF Hardware, SlotOwners
<1>4. /\ k.regs = [r \in Regs |-> IF r \in back THEN h.slot[r] ELSE h.regs[r]]
      /\ k.slot = h.slot
      /\ k.owner = [r \in R |-> IF r \in back THEN None ELSE h.owner[r]]
      /\ k.saving = h.saving \ vs
    BY <1>3 DEF Reload, Hardware
<1> HIDE DEF back, k
<1>5. k \in Hardware
  <2>1. k.regs \in [Regs -> Values] /\ k.slot \in [Regs -> Values] /\ k.saving \in SUBSET Vregs
      BY <1>4 DEF Hardware
  <2>2. k.owner \in [R -> Vregs \cup {None}]
      BY <1>3, <1>4
  <2>3. k.owner \in SlotOwners
      BY <2>2 DEF SlotOwners
  <2> QED
      BY <2>1, <2>3 DEF k, Reload, Hardware
<1>6. Marked(k, A)
  <2>1. \A v \in k.saving : /\ Reg(v) \in CallerSave
                            /\ Reg(v) \in R
                            /\ k.owner[Reg(v)] = v
      BY <1>1, <1>2, <1>3, <1>4 DEF Marked
  <2>2. \A r \in R : k.owner[r] /= None => k.owner[r] \in k.saving /\ Reg(k.owner[r]) = r
      BY <1>1, <1>3, <1>4 DEF Marked, back
  <2> QED
      BY <1>1, <1>4, <2>1, <2>2 DEF Marked
<1>7. \A v \in A : Held(k, v) = Held(h, v)
    BY <1>1, <1>2, <1>4 DEF Held
<1> QED
    BY <1>4, <1>5, <1>6, <1>7 DEF k

(* Storing values that are in registers keeps every value and sets the marks. *)
LEMMA SaveKeeps ==
    ASSUME NEW h \in Hardware, NEW A \in SUBSET Vregs, NEW vs \in SUBSET A,
           block.reg \in [Vregs -> Regs], Apart(A), Marked(h, A), \A v \in vs : Reg(v) \in CallerSave
    PROVE  /\ Save(h, vs) \in Hardware
           /\ Marked(Save(h, vs), A)
           /\ Save(h, vs).saving = h.saving \cup vs
           /\ \A v \in A : Held(Save(h, vs), v) = Held(h, v)
<1> DEFINE Owners(r) == {v \in vs \ h.saving : Reg(v) = r}
           touched == {Reg(v) : v \in vs \ h.saving}
           k == Save(h, vs)
<1>1. h.saving \subseteq A /\ A \subseteq Vregs /\ \A v \in Vregs : Reg(v) \in Regs
    BY DEF Marked, Reg
<1>2. \A v \in A : Reg(v) \in touched <=> v \in vs \ h.saving
    BY <1>1 DEF Apart
<1>3. PICK R \in SUBSET Regs : h.owner \in [R -> Vregs \cup {None}]
    BY DEF Hardware, SlotOwners
<1>4. /\ k.regs = h.regs
      /\ k.slot = [r \in Regs |-> IF r \in touched THEN h.regs[r] ELSE h.slot[r]]
      /\ k.owner = [r \in R \cup touched |->
                       IF r \in touched THEN CHOOSE v \in Owners(r) : TRUE ELSE h.owner[r]]
      /\ k.saving = h.saving \cup vs
    BY <1>3 DEF Save, Hardware
<1>5. \A r \in touched : (CHOOSE v \in Owners(r) : TRUE) \in Owners(r)
    BY Zenon
<1>6. \A v \in vs \ h.saving : Reg(v) \in touched /\ k.owner[Reg(v)] = v
  <2> SUFFICES ASSUME NEW v \in vs \ h.saving PROVE Reg(v) \in touched /\ k.owner[Reg(v)] = v
      OBVIOUS
  <2>1. Reg(v) \in touched
      OBVIOUS
  <2>2. k.owner[Reg(v)] = CHOOSE w \in Owners(Reg(v)) : TRUE
      BY <1>4, <2>1
  <2>3. k.owner[Reg(v)] \in Owners(Reg(v))
      BY <1>5, <2>1, <2>2
  <2> QED
      BY <2>1, <2>3 DEF Apart
<1>7. touched \subseteq CallerSave /\ touched \subseteq Regs
    BY <1>1
<1>8. \A r \in touched : k.owner[r] \in vs \ h.saving /\ Reg(k.owner[r]) = r
    BY <1>6
<1>9. \A r \in R \ touched : k.owner[r] = h.owner[r]
    BY <1>4
<1>10. DOMAIN k.owner = R \cup touched
    BY <1>4
<1> HIDE DEF touched, k
<1>11. k \in Hardware
  <2>1. k.regs \in [Regs -> Values] /\ k.slot \in [Regs -> Values] /\ k.saving \in SUBSET Vregs
      BY <1>1, <1>4 DEF Hardware
  <2>2. k.owner \in [R \cup touched -> Vregs \cup {None}]
    <3>1. \A r \in R \cup touched : k.owner[r] \in Vregs \cup {None}
        BY <1>1, <1>3, <1>8, <1>9
    <3> QED
        BY <1>4, <3>1
  <2>3. k.owner \in SlotOwners
      BY <1>7, <2>2 DEF SlotOwners
  <2> QED
      BY <2>1, <2>3 DEF k, Save, Hardware
<1>12. Marked(k, A)
  <2>1. ASSUME NEW v \in k.saving
        PROVE Reg(v) \in CallerSave /\ Reg(v) \in R \cup touched /\ k.owner[Reg(v)] = v
    <3>1. CASE v \in h.saving
      <4>1. v \in A /\ Reg(v) \in R /\ h.owner[Reg(v)] = v /\ Reg(v) \in CallerSave
          BY <1>1, <1>3, <3>1 DEF Marked
      <4>2. Reg(v) \notin touched
          BY <1>2, <3>1, <4>1
      <4> QED
          BY <1>9, <4>1, <4>2
    <3>2. CASE v \notin h.saving
        BY <1>4, <1>6, <3>2
    <3> QED
        BY <3>1, <3>2
  <2>2. \A r \in R \cup touched : k.owner[r] /= None => k.owner[r] \in k.saving /\ Reg(k.owner[r]) = r
      BY <1>3, <1>4, <1>8, <1>9 DEF Marked
  <2> QED
      BY <1>1, <1>4, <1>10, <2>1, <2>2 DEF Marked
<1>13. \A v \in A : Held(k, v) = Held(h, v)
    BY <1>1, <1>2, <1>4 DEF Held
<1> QED
    BY <1>4, <1>11, <1>12, <1>13 DEF k

(* Forgetting marks of arguments changes neither registers nor slots. *)
LEMMA ForgetKeeps ==
    ASSUME NEW h \in Hardware, NEW A \in SUBSET Vregs, NEW vs \in SUBSET A,
           block.reg \in [Vregs -> Regs], Apart(A), Marked(h, A)
    PROVE  /\ Forget(h, vs) \in Hardware
           /\ Marked(Forget(h, vs), A)
           /\ Forget(h, vs).saving = h.saving \ vs
           /\ Forget(h, vs).regs = h.regs
           /\ Forget(h, vs).slot = h.slot
<1> DEFINE k == Forget(h, vs)
<1>1. h.saving \subseteq A /\ A \subseteq Vregs /\ \A v \in Vregs : Reg(v) \in Regs
    BY DEF Marked, Reg
<1>2. PICK R \in SUBSET Regs : h.owner \in [R -> Vregs \cup {None}]
    BY DEF Hardware, SlotOwners
<1>3. /\ k.regs = h.regs /\ k.slot = h.slot /\ k.saving = h.saving \ vs
      /\ k.owner = [r \in R |-> IF \E v \in vs : Reg(v) = r THEN None ELSE h.owner[r]]
    BY <1>2 DEF Forget, Hardware
<1>4. k \in Hardware
  <2>1. k.owner \in [R -> Vregs \cup {None}] /\ k.saving \in SUBSET Vregs
      BY <1>1, <1>2, <1>3
  <2>2. k.owner \in SlotOwners
      BY <2>1 DEF SlotOwners
  <2> QED
      BY <2>1, <2>2 DEF Forget, Hardware
<1> HIDE DEF k
<1>5. ASSUME NEW v \in k.saving
      PROVE Reg(v) \in CallerSave /\ Reg(v) \in R /\ k.owner[Reg(v)] = v
  <2>1. v \in h.saving /\ v \notin vs /\ v \in A
      BY <1>1, <1>3
  <2>2. Reg(v) \in CallerSave /\ Reg(v) \in R /\ h.owner[Reg(v)] = v
      BY <1>2, <2>1 DEF Marked
  <2>3. ~\E w \in vs : Reg(w) = Reg(v)
      BY <2>1 DEF Apart
  <2> QED
      BY <1>3, <2>2, <2>3
<1>6. \A r \in R : k.owner[r] /= None => k.owner[r] \in k.saving /\ Reg(k.owner[r]) = r
    BY <1>2, <1>3 DEF Marked
<1>7. Marked(k, A)
    BY <1>1, <1>3, <1>5, <1>6 DEF Marked
<1> QED
    BY <1>3, <1>4, <1>7 DEF k

(* Bringing everything back leaves no mark and keeps every value. *)
LEMMA RecoverAllKeeps ==
    ASSUME NEW h \in Hardware, NEW A \in SUBSET Vregs,
           block.reg \in [Vregs -> Regs], Apart(A), Marked(h, A)
    PROVE  /\ RecoverAll(h) \in Hardware
           /\ RecoverAll(h).saving = {}
           /\ Marked(RecoverAll(h), A)
           /\ \A v \in A : Held(RecoverAll(h), v) = Held(h, v)
<1> DEFINE vs == {h.owner[r] : r \in DOMAIN h.owner} \ {None}
           back == Reload(h, vs)
           k == RecoverAll(h)
<1>1. /\ back \in Hardware /\ back.saving = h.saving \ vs
      /\ \A v \in A : Held(back, v) = Held(h, v)
    BY ReloadKeeps
<1>2. h.saving \subseteq vs
    BY RegistersAssumption DEF Marked
<1>3. k = [back EXCEPT !.owner = <<>>]
    BY DEF RecoverAll
<1>4. <<>> \in SlotOwners
  <2>1. <<>> \in [{} -> Vregs \cup {None}]
      OBVIOUS
  <2> QED
      BY <2>1 DEF SlotOwners
<1> HIDE DEF back, k, vs
<1>5. k \in Hardware
    BY <1>1, <1>3, <1>4 DEF Hardware
<1>6. k.regs = back.regs /\ k.slot = back.slot /\ k.saving = {} /\ k.owner = <<>>
    BY <1>1, <1>2, <1>3 DEF Hardware
<1>7. Marked(k, A)
    BY <1>6 DEF Marked
<1>8. \A v \in A : Held(k, v) = Held(h, v)
    BY <1>1, <1>2, <1>6 DEF Held
<1> QED
    BY <1>5, <1>6, <1>7, <1>8 DEF k

-----------------------------------------------------------------------------
(* Passing arguments. *)

(* A set of numbers that has 0, and n + 1 whenever it has n, has them all. *)
LEMMA Smallest ==
    ASSUME NEW T \in SUBSET Nat, 0 \notin T, \A n \in Nat : n \notin T => n + 1 \notin T
    PROVE  T = {}
<1> DEFINE Less == {p \in Nat \X Nat : p[1] < p[2]}
<1> SUFFICES ASSUME T /= {} PROVE FALSE
    OBVIOUS
<1>1. IsWellFoundedOn(Less, Nat)
    BY NatLessThanWellFounded, Zenon DEF OpToRel
<1>2. \A q, r \in Nat : q < r => <<q, r>> \in Less
    OBVIOUS
<1> HIDE DEF Less
<1>3. PICK r \in T : \A q \in T : ~(<<q, r>> \in Less)
    BY <1>1, WFMin
<1>4. r \in Nat /\ r /= 0 /\ r - 1 \in Nat /\ r - 1 < r
    OBVIOUS
<1>5. r - 1 \notin T
    BY <1>2, <1>3, <1>4
<1>6. (r - 1) + 1 \notin T
    BY <1>4, <1>5
<1> QED
    BY <1>4, <1>6

(* Passing arguments starts with the registers as they are and goes one argument at a time. *)
LEMMA PassingStep ==
    ASSUME NEW h, NEW ops \in Seq(Vregs)
    PROVE  /\ Passing(h, ops)[0] = [regs |-> h.regs, stack |-> <<>>]
           /\ \A n \in 1 .. Len(ops) : Passing(h, ops)[n] = PassArg(h, ops, n, Passing(h, ops)[n - 1])
<1> DEFINE First == [regs |-> h.regs, stack |-> <<>>]
           Rule(f, n) == [i \in 0 .. n |-> IF i = 0 THEN First ELSE PassArg(h, ops, i, f[i - 1])]
           T == {n \in Nat : ~\E f : f = Rule(f, n)}
<1>1. 0 \notin T
  <2>1. [i \in 0 .. 0 |-> First] = Rule([i \in 0 .. 0 |-> First], 0)
      OBVIOUS
  <2> QED
      BY <2>1
<1>2. ASSUME NEW n \in Nat, n \notin T PROVE n + 1 \notin T
  <2>1. PICK f : f = Rule(f, n)
      BY <1>2
  <2> DEFINE g == [i \in 0 .. n + 1 |-> IF i = n + 1 THEN PassArg(h, ops, i, f[i - 1]) ELSE f[i]]
  <2>2. ASSUME NEW i \in 0 .. n + 1
        PROVE g[i] = IF i = 0 THEN First ELSE PassArg(h, ops, i, g[i - 1])
    <3>1. CASE i = n + 1
        BY <3>1
    <3>2. CASE i \in 1 .. n
      <4>1. g[i] = f[i] /\ g[i - 1] = f[i - 1]
          BY <3>2
      <4>2. f[i] = PassArg(h, ops, i, f[i - 1])
          BY <2>1, <3>2
      <4> QED
          BY <3>2, <4>1, <4>2
    <3>3. CASE i = 0
        BY <2>1, <3>3
    <3> QED
        BY <3>1, <3>2, <3>3
  <2>3. g = Rule(g, n + 1)
      BY <2>2
  <2> QED
      BY <2>3
<1>3. T = {}
    BY <1>1, <1>2, Smallest
<1>4. Len(ops) \in Nat
    OBVIOUS
<1>5. \E f : f = Rule(f, Len(ops))
    BY <1>3, <1>4
<1>6. Passing(h, ops) = CHOOSE f : f = Rule(f, Len(ops))
    BY DEF Passing
<1>7. Passing(h, ops) = Rule(Passing(h, ops), Len(ops))
    BY <1>5, <1>6
<1> DEFINE P == Passing(h, ops)
<1>8. P = Rule(P, Len(ops))
    BY <1>7
<1> HIDE DEF P
<1> QED
  <2>1. 0 \in 0 .. Len(ops)
      BY <1>4
  <2>2. P[0] = First
      BY <1>8, <2>1
  <2>3. \A n \in 1 .. Len(ops) : P[n] = PassArg(h, ops, n, P[n - 1])
      BY <1>4, <1>8
  <2> QED
      BY <2>2, <2>3 DEF P

(* What an operand stands for. *)
Meant(h, v) == IF v \in block.onStk THEN value[v] ELSE Held(h, v)

Arguments == [regs : [Regs -> Values], stack : Seq(Values)]

(* The first n arguments are in place and the s registers untouched. *)
Placed(h, ops, n, m) ==
    /\ m \in Arguments
    /\ \A r \in CalleeSave : m.regs[r] = h.regs[r]
    /\ Len(m.stack) = IF n <= Len(ArgRegs) THEN 0 ELSE n - Len(ArgRegs)
    /\ \A j \in 1 .. n : IF j <= Len(ArgRegs) THEN m.regs[ArgRegs[j]] = Meant(h, ops[j])
                          ELSE m.stack[j - Len(ArgRegs)] = Meant(h, ops[j])

(* No argument is read from a register that an argument may have been put  *)
(* into.                                                                   *)
Unharmed(h, ops) ==
    \A v \in RangeOf(ops) : v \in block.onStk \/ v \in h.saving \/ Reg(v) \in CalleeSave

(* Argument registers and temporaries are caller-saved and apart. *)
LEMMA RegisterFacts ==
    /\ Len(ArgRegs) \in Nat /\ Len(ArgRegs) >= 1 /\ DOMAIN ArgRegs = 1 .. Len(ArgRegs)
    /\ \A i \in 1 .. Len(ArgRegs) : ArgRegs[i] \in Regs /\ ArgRegs[i] \notin CalleeSave /\ ArgRegs[i] \in CallerSave
    /\ \A r \in RangeOf(TmpRegs) : r \in Regs /\ r \notin CalleeSave /\ r \notin RangeOf(ArgRegs)
<1>1. Len(ArgRegs) \in Nat /\ Len(ArgRegs) >= 1 /\ DOMAIN ArgRegs = 1 .. Len(ArgRegs)
    BY RegistersAssumption
<1>2. \A i \in DOMAIN ArgRegs : ArgRegs[i] \in RangeOf(ArgRegs)
    BY DEF RangeOf
<1>3. RangeOf(ArgRegs) \subseteq CallerSave /\ RangeOf(TmpRegs) \subseteq CallerSave
      /\ CallerSave \subseteq Regs
    BY DEF CallerSave, Regs
<1> QED
    BY <1>1, <1>2, <1>3, RegistersAssumption

(* What carries an argument from memory to memory is a temporary. *)
LEMMA CarrierIsTemporary ==
    ASSUME NEW h, NEW ops, NEW n \in Nat
    PROVE  Carrier(h, ops, n) \in RangeOf(TmpRegs)
<1> DEFINE S == {j \in Len(ArgRegs) + 1 .. n - 1 : InMemory(h, ops[j])}
<1>1. IsFiniteSet(Len(ArgRegs) + 1 .. n - 1)
    BY FS_Interval, RegisterFacts
<1>2. IsFiniteSet(S)
    BY <1>1, FS_Subset
<1>3. Cardinality(S) \in Nat
    BY <1>2, FS_CardinalityType
<1>4. Len(TmpRegs) \in Nat /\ Len(TmpRegs) >= 1 /\ DOMAIN TmpRegs = 1 .. Len(TmpRegs)
    BY RegistersAssumption
<1>5. 1 + (Cardinality(S) % Len(TmpRegs)) \in DOMAIN TmpRegs
    BY <1>3, <1>4
<1> QED
    BY <1>5 DEF Carrier, RangeOf

(* One more argument is where the callee looks for it, the earlier ones stay. *)
LEMMA PassArgStep ==
    ASSUME block.reg \in [Vregs -> Regs], value \in [Vregs -> Values],
           NEW h \in Hardware, h.saving \cap block.onStk = {},
           NEW ops \in Seq(Vregs), Unharmed(h, ops),
           NEW n \in 1 .. Len(ops), NEW m, Placed(h, ops, n - 1, m)
    PROVE  Placed(h, ops, n, PassArg(h, ops, n, m))
<1> DEFINE v == ops[n]
           a == Source(h, m.regs, v)
           k == PassArg(h, ops, n, m)
<1>1. n \in Nat /\ Len(ops) \in Nat /\ v \in Vregs /\ v \in RangeOf(ops) /\ Reg(v) \in Regs
    BY DEF RangeOf, Reg
<1>2. m \in Arguments /\ \A r \in CalleeSave : m.regs[r] = h.regs[r]
    BY DEF Placed
<1>3. a = Meant(h, v) /\ a \in Values
  <2>1. CASE v \in block.onStk
      BY <1>1, <2>1 DEF Source, Meant
  <2>2. CASE v \in h.saving
    <3>1. v \notin block.onStk
        BY <2>2
    <3> QED
        BY <1>1, <2>2, <3>1 DEF Source, Meant, Held, Hardware
  <2>3. CASE v \notin block.onStk /\ v \notin h.saving
    <3>1. Reg(v) \in CalleeSave
        BY <1>1, <2>3 DEF Unharmed
    <3> QED
        BY <1>1, <1>2, <2>3, <3>1 DEF Source, Meant, Held, Hardware
  <2> QED
      BY <2>1, <2>2, <2>3
<1> HIDE DEF a, v
<1>4. CASE n <= Len(ArgRegs)
  <2>1. k = [m EXCEPT !.regs[ArgRegs[n]] = a]
      BY <1>4 DEF PassArg, a, v
  <2> HIDE DEF k
  <2>2. k.regs = [m.regs EXCEPT ![ArgRegs[n]] = a] /\ k.stack = m.stack /\ k \in Arguments
      BY <1>2, <1>3, <1>4, <2>1, RegisterFacts DEF Arguments
  <2>3. \A r \in CalleeSave : k.regs[r] = h.regs[r]
      BY <1>1, <1>2, <1>4, <2>2, RegisterFacts DEF Arguments, Regs
  <2>4. ASSUME NEW j \in 1 .. n
        PROVE j <= Len(ArgRegs) /\ k.regs[ArgRegs[j]] = Meant(h, ops[j])
    <3>1. j \in 1 .. Len(ArgRegs) /\ n \in 1 .. Len(ArgRegs)
        BY <1>1, <1>4, RegisterFacts
    <3>2. CASE j = n
        BY <1>2, <1>3, <2>2, <3>1, <3>2, RegisterFacts DEF Arguments, v
    <3>3. CASE j /= n
      <4>1. j \in 1 .. n - 1
          BY <1>1, <3>3
      <4>2. m.regs[ArgRegs[j]] = Meant(h, ops[j])
          BY <3>1, <4>1 DEF Placed
      <4>3. ArgRegs[j] /= ArgRegs[n]
          BY <3>1, <3>3, RegisterFacts, RegistersAssumption
      <4> QED
          BY <1>2, <2>2, <3>1, <4>2, <4>3, RegisterFacts DEF Arguments
    <3> QED
        BY <3>1, <3>2, <3>3
  <2>5. Len(k.stack) = 0
      BY <1>1, <1>4, <2>2, RegisterFacts DEF Placed
  <2> QED
      BY <1>4, <2>2, <2>3, <2>4, <2>5 DEF Placed, k
<1>5. CASE n > Len(ArgRegs)
  <2>1. k.stack = Append(m.stack, a) /\ k \in Arguments
        /\ \A r \in Regs \ RangeOf(TmpRegs) : k.regs[r] = m.regs[r]
    <3>1. CASE InMemory(h, v)
      <4>1. k = [m EXCEPT !.regs[Carrier(h, ops, n)] = a, !.stack = Append(@, a)]
          BY <1>1, <1>5, <3>1, RegisterFacts DEF PassArg, a, v
      <4>2. Carrier(h, ops, n) \in RangeOf(TmpRegs)
          BY <1>1, CarrierIsTemporary
      <4>3. Append(m.stack, a) \in Seq(Values)
          BY <1>2, <1>3 DEF Arguments
      <4>4. /\ k.regs = [m.regs EXCEPT ![Carrier(h, ops, n)] = a]
            /\ k.stack = Append(m.stack, a)
          BY <1>2, <4>1 DEF Arguments
      <4>5. k = [regs |-> k.regs, stack |-> k.stack]
          BY <1>2, <4>1 DEF Arguments
      <4> HIDE DEF k
      <4>6. k.regs \in [Regs -> Values] /\ \A r \in Regs \ RangeOf(TmpRegs) : k.regs[r] = m.regs[r]
        <5>1. m.regs \in [Regs -> Values]
            BY <1>2 DEF Arguments
        <5> DEFINE c == Carrier(h, ops, n)
        <5>2. k.regs = [m.regs EXCEPT ![c] = a] /\ c \in RangeOf(TmpRegs) /\ c \in Regs
            BY <4>2, <4>4, RegisterFacts
        <5> HIDE DEF c
        <5>3. k.regs \in [Regs -> Values]
            BY <1>3, <5>1, <5>2
        <5>4. ASSUME NEW r \in Regs \ RangeOf(TmpRegs) PROVE k.regs[r] = m.regs[r]
            BY <5>1, <5>2
        <5> QED
            BY <5>3, <5>4
      <4> QED
          BY <4>3, <4>4, <4>5, <4>6 DEF Arguments
    <3>2. CASE ~InMemory(h, v)
      <4>1. k = [m EXCEPT !.stack = Append(@, a)]
          BY <1>1, <1>5, <3>2, RegisterFacts DEF PassArg, a, v
      <4>2. Append(m.stack, a) \in Seq(Values)
          BY <1>2, <1>3 DEF Arguments
      <4>3. k.regs = m.regs /\ k.stack = Append(m.stack, a) /\ k = [regs |-> k.regs, stack |-> k.stack]
          BY <1>2, <4>1 DEF Arguments
      <4> HIDE DEF k
      <4> QED
          BY <1>2, <4>2, <4>3 DEF Arguments
    <3> QED
        BY <3>1, <3>2
  <2> HIDE DEF k
  <2>2. \A r \in CalleeSave : k.regs[r] = h.regs[r]
      BY <1>2, <2>1, RegisterFacts DEF Regs
  <2>3. m.stack \in Seq(Values) /\ Len(m.stack) = (n - 1) - Len(ArgRegs)
    <3>1. Len(m.stack) = IF n - 1 <= Len(ArgRegs) THEN 0 ELSE (n - 1) - Len(ArgRegs)
        BY DEF Placed
    <3> QED
        BY <1>1, <1>2, <1>5, <3>1, RegisterFacts DEF Arguments
  <2>4. Len(k.stack) = n - Len(ArgRegs) /\ k.stack[n - Len(ArgRegs)] = a
        /\ \A i \in 1 .. (n - 1) - Len(ArgRegs) : k.stack[i] = m.stack[i]
      BY <1>1, <1>3, <1>5, <2>1, <2>3, RegisterFacts
  <2>5. ASSUME NEW j \in 1 .. n
        PROVE IF j <= Len(ArgRegs) THEN k.regs[ArgRegs[j]] = Meant(h, ops[j])
              ELSE k.stack[j - Len(ArgRegs)] = Meant(h, ops[j])
    <3>1. CASE j <= Len(ArgRegs)
      <4>1. j \in 1 .. n - 1 /\ j \in 1 .. Len(ArgRegs)
          BY <1>1, <1>5, <3>1, RegisterFacts
      <4>2. m.regs[ArgRegs[j]] = Meant(h, ops[j])
          BY <3>1, <4>1 DEF Placed
      <4>3. ArgRegs[j] \in Regs \ RangeOf(TmpRegs)
        <5>1. ArgRegs[j] \in RangeOf(ArgRegs)
            BY <4>1, RegisterFacts DEF RangeOf
        <5> QED
            BY <4>1, <5>1, RegisterFacts
      <4> QED
          BY <2>1, <3>1, <4>2, <4>3
    <3>2. CASE j > Len(ArgRegs) /\ j /= n
      <4>1. j \in 1 .. n - 1 /\ ~(j <= Len(ArgRegs)) /\ j - Len(ArgRegs) \in 1 .. (n - 1) - Len(ArgRegs)
          BY <1>1, <3>2, RegisterFacts
      <4>2. m.stack[j - Len(ArgRegs)] = Meant(h, ops[j])
          BY <4>1 DEF Placed
      <4> QED
          BY <2>4, <4>1, <4>2
    <3>3. CASE j = n
      <4>1. ~(j <= Len(ArgRegs))
          BY <1>1, <1>5, <3>3, RegisterFacts
      <4> QED
          BY <1>3, <2>4, <3>3, <4>1 DEF v
    <3> QED
        BY <1>1, <3>1, <3>2, <3>3, RegisterFacts
  <2>6. Len(k.stack) = IF n <= Len(ArgRegs) THEN 0 ELSE n - Len(ArgRegs)
    <3>1. ~(n <= Len(ArgRegs))
        BY <1>1, <1>5, RegisterFacts
    <3> QED
        BY <2>4, <3>1
  <2> QED
      BY <2>1, <2>2, <2>5, <2>6 DEF Placed, k
<1> QED
    BY <1>1, <1>4, <1>5, RegisterFacts

(* All arguments arrive, by induction over their number. *)
LEMMA ArgumentsArrive ==
    ASSUME block.reg \in [Vregs -> Regs], value \in [Vregs -> Values],
           NEW h \in Hardware, h.saving \cap block.onStk = {},
           NEW ops \in Seq(Vregs), Unharmed(h, ops)
    PROVE  /\ PassArgs(h, ops).regs \in [Regs -> Values]
           /\ \A r \in CalleeSave : PassArgs(h, ops).regs[r] = h.regs[r]
           /\ Received(PassArgs(h, ops), Len(ops)) = [i \in 1 .. Len(ops) |-> Meant(h, ops[i])]
<1> DEFINE After == Passing(h, ops)
           T == {n \in Nat : n <= Len(ops) /\ ~Placed(h, ops, n, After[n])}
<1>1. Len(ops) \in Nat
    OBVIOUS
<1>2. 0 \notin T
  <2>1. After[0] = [regs |-> h.regs, stack |-> <<>>]
      BY PassingStep
  <2>2. h.regs \in [Regs -> Values] /\ <<>> \in Seq(Values) /\ Len(<<>>) = 0
      BY DEF Hardware
  <2>3. After[0] \in Arguments /\ After[0].regs = h.regs /\ After[0].stack = <<>>
      BY <2>1, <2>2 DEF Arguments
  <2> HIDE DEF After
  <2>4. 0 <= Len(ArgRegs)
      BY RegisterFacts
  <2>5. Placed(h, ops, 0, After[0])
      BY <2>2, <2>3, <2>4 DEF Placed
  <2> QED
      BY <2>5
<1>3. ASSUME NEW n \in Nat, n \notin T PROVE n + 1 \notin T
  <2> SUFFICES ASSUME n + 1 <= Len(ops) PROVE Placed(h, ops, n + 1, After[n + 1])
      OBVIOUS
  <2> DEFINE q == n + 1
  <2>1. q \in 1 .. Len(ops) /\ q - 1 = n /\ n <= Len(ops)
      BY <1>1
  <2>2. Placed(h, ops, q - 1, After[q - 1])
      BY <1>3, <2>1
  <2> HIDE DEF q
  <2>3. After[q] = PassArg(h, ops, q, After[q - 1])
      BY <2>1, PassingStep
  <2>4. Placed(h, ops, q, PassArg(h, ops, q, After[q - 1]))
      BY <2>1, <2>2, PassArgStep
  <2> QED
      BY <2>3, <2>4 DEF q
<1>4. T = {}
    BY <1>2, <1>3, Smallest
<1>5. Placed(h, ops, Len(ops), PassArgs(h, ops))
    BY <1>1, <1>4 DEF PassArgs
<1> QED
    BY <1>1, <1>5 DEF Placed, Arguments, Received

-----------------------------------------------------------------------------
(* Which values are needed before uop n, or at the end of the block.       *)

Needed(n) ==
    {v \in Vregs \ block.onStk :
        /\ Present(block, v) /\ Wanted(block, v)
        /\ v \in block.liveIn \/ Born(block, v) < n
        /\ n <= Dies(block, v)}

(* What the assumption on blocks says of the one at hand. *)
LEMMA BlockFacts ==
    ASSUME block \in Inputs
    PROVE  /\ block.reg \in [Vregs -> Regs] /\ WellFormed(block)
           /\ Last \in Nat /\ DOMAIN block.uops = 1 .. Last
           /\ \A i \in 1 .. Last : /\ block.uops[i].kind \in {"op", "mv", "call", "jump"}
                                   /\ block.uops[i].ops \in Seq(Vregs)
                                   /\ block.uops[i].res \in Vregs \cup {None}
                                   /\ Sound(block, i)
           /\ \A i \in 1 .. Last : RangeOf(block.uops[i].ops) \subseteq Vregs
<1>1. block \in Block /\ WellFormed(block)
    BY InputsAssumption
<1>2. block.uops \in Seq(Uop) /\ block.reg \in [Vregs -> Regs]
    BY <1>1 DEF Block
<1>3. Last \in Nat /\ DOMAIN block.uops = 1 .. Last /\ \A i \in 1 .. Last : block.uops[i] \in Uop
    BY <1>2 DEF Last
<1>4. \A i \in 1 .. Last : /\ block.uops[i].kind \in {"op", "mv", "call", "jump"}
                           /\ block.uops[i].ops \in Seq(Vregs)
                           /\ block.uops[i].res \in Vregs \cup {None}
    BY <1>3 DEF Uop
<1>5. \A i \in 1 .. Last : Sound(block, i)
    BY <1>1, <1>3 DEF WellFormed
<1>6. \A i \in 1 .. Last : RangeOf(block.uops[i].ops) \subseteq Vregs
    BY <1>4 DEF RangeOf
<1> QED
    BY <1>1, <1>2, <1>3, <1>4, <1>5, <1>6

(* A set of numbers up to N that is not empty has a largest one. *)
LEMMA Largest ==
    ASSUME NEW N \in Nat, NEW U \in SUBSET (1 .. N), U /= {}
    PROVE  \E i \in U : \A j \in U : j <= i
<1> DEFINE Lacks(n) == \E X \in SUBSET (1 .. n) : X /= {} /\ ~\E i \in X : \A j \in X : j <= i
           T == {n \in Nat : Lacks(n)}
<1>1. 0 \notin T
  <2>1. \A X \in SUBSET (1 .. 0) : X = {}
      OBVIOUS
  <2> QED
      BY <2>1
<1>2. ASSUME NEW n \in Nat, n \notin T PROVE n + 1 \notin T
  <2> SUFFICES ASSUME NEW X \in SUBSET (1 .. n + 1), X /= {}
               PROVE  \E i \in X : \A j \in X : j <= i
      OBVIOUS
  <2>1. CASE n + 1 \in X
      BY <2>1
  <2>2. CASE n + 1 \notin X
    <3>1. X \in SUBSET (1 .. n)
        BY <2>2
    <3> QED
        BY <1>2, <3>1
  <2> QED
      BY <2>1, <2>2
<1>3. T = {}
  <2> HIDE DEF T
  <2>1. T \in SUBSET Nat
      BY DEF T
  <2> QED
      BY <1>1, <1>2, <2>1, Smallest
<1> QED
    BY <1>3

(* A register is written once, and that is where its life begins. *)
LEMMA BornAtDefinition ==
    ASSUME block \in Inputs, NEW v \in Vregs, v \notin block.liveIn, NEW i \in Defs(block, v)
    PROVE  Born(block, v) = i /\ i \in 1 .. Last /\ Defs(block, v) = {i}
<1>1. \A j \in Defs(block, v) : j = i
    BY BlockFacts, RegistersAssumption DEF Defs, WellFormed
<1>2. Defs(block, v) = {i} /\ i \in 1 .. Last
    BY <1>1, BlockFacts DEF Defs
<1>3. \E k \in Defs(block, v) : \A j \in Defs(block, v) : k <= j
    BY <1>2
<1>4. Born(block, v) \in Defs(block, v)
    BY <1>3, Zenon DEF Born
<1> QED
    BY <1>2, <1>4

(* It ends at the last use, or past the end. *)
LEMMA DiesAtLastUse ==
    ASSUME block \in Inputs, NEW v \in Vregs, Wanted(block, v)
    PROVE  /\ v \in block.liveOut => Dies(block, v) = Last + 1
           /\ v \notin block.liveOut => Dies(block, v) \in Uses(block, v)
           /\ \A j \in Uses(block, v) : j \in 1 .. Last /\ j <= Dies(block, v)
           /\ Dies(block, v) \in 1 .. Last + 1
<1>1. Uses(block, v) \subseteq 1 .. Last /\ Last \in Nat
    BY BlockFacts DEF Uses
<1>2. CASE v \in block.liveOut
    BY <1>1, <1>2 DEF Dies, Last
<1>3. CASE v \notin block.liveOut
  <2>1. \E i \in Uses(block, v) : \A j \in Uses(block, v) : j <= i
      BY <1>1, <1>3, Largest DEF Wanted
  <2>2. /\ Dies(block, v) \in Uses(block, v)
        /\ \A j \in Uses(block, v) : j <= Dies(block, v)
      BY <1>3, <2>1, Zenon DEF Dies
  <2> QED
      BY <1>1, <1>3, <2>2
<1> QED
    BY <1>2, <1>3

(* An operand is needed before the uop that reads it. *)
LEMMA OperandNeeded ==
    ASSUME block \in Inputs, NEW n \in 1 .. Last,
           NEW v \in RangeOf(block.uops[n].ops), v \notin block.onStk
    PROVE  v \in Needed(n)
<1>1. v \in Vregs /\ n \in Uses(block, v)
    BY BlockFacts DEF Uses
<1>2. v \in block.liveIn \/ \E j \in Defs(block, v) : j < n
    BY BlockFacts DEF Sound
<1>3. Present(block, v) /\ Wanted(block, v)
    BY <1>1, <1>2 DEF Present, Wanted
<1>4. v \in block.liveIn \/ Born(block, v) < n
    BY <1>1, <1>2, BornAtDefinition
<1>5. n <= Dies(block, v)
    BY <1>1, <1>3, DiesAtLastUse
<1> QED
    BY <1>1, <1>3, <1>4, <1>5 DEF Needed

(* What a uop does not read and is needed before it is needed after it. *)
LEMMA StillNeeded ==
    ASSUME block \in Inputs, NEW n \in 1 .. Last, NEW v \in Needed(n),
           v \notin RangeOf(block.uops[n].ops)
    PROVE  v \in Needed(n + 1)
<1>1. /\ v \in Vregs \ block.onStk /\ Present(block, v) /\ Wanted(block, v)
      /\ v \in block.liveIn \/ Born(block, v) < n
      /\ n <= Dies(block, v)
    BY DEF Needed
<1>2. Dies(block, v) /= n
    BY <1>1, BlockFacts, DiesAtLastUse DEF Uses
<1>3. Dies(block, v) \in Nat /\ n \in Nat
    BY <1>1, BlockFacts, DiesAtLastUse
<1>4. v \in block.liveIn \/ Born(block, v) < n + 1
  <2>1. CASE v \in block.liveIn
      BY <2>1
  <2>2. CASE v \notin block.liveIn
    <3>1. PICK i : i \in Defs(block, v)
        BY <1>1, <2>2 DEF Present
    <3>2. Born(block, v) \in Nat
        BY <1>1, <2>2, <3>1, BornAtDefinition, BlockFacts
    <3> QED
        BY <1>1, <1>3, <2>2, <3>2
  <2> QED
      BY <2>1, <2>2
<1> QED
    BY <1>1, <1>2, <1>3, <1>4 DEF Needed

(* What is needed after a uop and is not its result was needed before it. *)
LEMMA NeededBefore ==
    ASSUME block \in Inputs, NEW n \in 1 .. Last, NEW v \in Needed(n + 1), v /= block.uops[n].res
    PROVE  v \in Needed(n)
<1>1. /\ v \in Vregs \ block.onStk /\ Present(block, v) /\ Wanted(block, v)
      /\ v \in block.liveIn \/ Born(block, v) < n + 1
      /\ n + 1 <= Dies(block, v)
    BY DEF Needed
<1>2. Dies(block, v) \in Nat /\ n \in Nat
    BY <1>1, BlockFacts, DiesAtLastUse
<1>3. v \in block.liveIn \/ Born(block, v) < n
  <2> SUFFICES ASSUME v \notin block.liveIn PROVE Born(block, v) < n
      OBVIOUS
  <2>1. PICK i : i \in Defs(block, v)
      BY <1>1 DEF Present
  <2>2. Born(block, v) = i /\ i \in 1 .. Last
      BY <1>1, <2>1, BornAtDefinition
  <2>3. i /= n
      BY <2>1 DEF Defs
  <2> QED
      BY <1>1, <1>2, <2>2, <2>3, BlockFacts
<1> QED
    BY <1>1, <1>2, <1>3 DEF Needed

(* A result was not needed before, and is after if anybody reads it. *)
LEMMA ResultIsNew ==
    ASSUME block \in Inputs, NEW n \in 1 .. Last, block.uops[n].res /= None
    PROVE  /\ block.uops[n].res \in Vregs
           /\ block.uops[n].res \notin Needed(n)
           /\ Wanted(block, block.uops[n].res) => block.uops[n].res \in Needed(n + 1)
<1> DEFINE v == block.uops[n].res
<1>1. v \in Vregs /\ v \notin block.liveIn /\ v \notin block.onStk /\ n \in Defs(block, v)
    BY BlockFacts DEF Defs, Sound
<1> HIDE DEF v
<1>2. Born(block, v) = n /\ Defs(block, v) = {n} /\ n \in Nat
    BY <1>1, BornAtDefinition
<1>3. v \notin Needed(n)
    BY <1>1, <1>2 DEF Needed
<1>4. ASSUME Wanted(block, v) PROVE v \in Needed(n + 1)
  <2>1. n + 1 <= Dies(block, v)
    <3>1. CASE v \in block.liveOut
        BY <1>1, <1>4, <3>1, BlockFacts, DiesAtLastUse
    <3>2. CASE v \notin block.liveOut
      <4>1. Dies(block, v) \in Uses(block, v) /\ Dies(block, v) \in 1 .. Last
          BY <1>1, <1>4, <3>2, DiesAtLastUse
      <4>2. v \in RangeOf(block.uops[Dies(block, v)].ops)
          BY <4>1 DEF Uses
      <4>3. \E j \in Defs(block, v) : j < Dies(block, v)
          BY <1>1, <4>1, <4>2, BlockFacts DEF Sound
      <4> QED
          BY <1>2, <4>1, <4>3, BlockFacts
    <3> QED
        BY <3>1, <3>2
  <2>2. Present(block, v)
      BY <1>2 DEF Present
  <2> QED
      BY <1>1, <1>2, <1>4, <2>1, <2>2 DEF Needed
<1> QED
    BY <1>1, <1>3, <1>4 DEF v

(* What the intervals call live over a uop is needed next. *)
LEMMA LiveIsNeeded ==
    ASSUME block \in Inputs, NEW n \in 1 .. Last + 1, NEW v \in Vregs \ block.onStk,
           LiveAt(block, v, n - 1)
    PROVE  v \in Needed(n)
<1>1. /\ Present(block, v) /\ Wanted(block, v)
      /\ Born(block, v) <= n - 1 /\ n - 1 < Dies(block, v)
    BY DEF LiveAt
<1>2. Dies(block, v) \in Nat /\ n \in Nat
    BY <1>1, BlockFacts, DiesAtLastUse
<1>3. v \in block.liveIn \/ Born(block, v) < n
  <2> SUFFICES ASSUME v \notin block.liveIn PROVE Born(block, v) < n
      OBVIOUS
  <2>1. PICK i : i \in Defs(block, v)
      BY <1>1 DEF Present
  <2>2. Born(block, v) \in Nat
      BY <2>1, BornAtDefinition, BlockFacts
  <2> QED
      BY <1>1, <1>2, <2>2
<1> QED
    BY <1>1, <1>2, <1>3 DEF Needed

(* What is needed after uop n and not made by it lives there. *)
LEMMA NeededIsLive ==
    ASSUME block \in Inputs, NEW n \in 1 .. Last, NEW v \in Needed(n + 1)
    PROVE  LiveAt(block, v, n)
<1>1. /\ v \in Vregs \ block.onStk /\ Present(block, v) /\ Wanted(block, v)
      /\ v \in block.liveIn \/ Born(block, v) < n + 1
      /\ n + 1 <= Dies(block, v)
    BY DEF Needed
<1>2. Dies(block, v) \in Nat /\ n \in Nat /\ n >= 1
    BY <1>1, BlockFacts, DiesAtLastUse
<1>3. Born(block, v) <= n
  <2>1. CASE v \in block.liveIn
      BY <1>2, <2>1 DEF Born
  <2>2. CASE v \notin block.liveIn
    <3>1. PICK i : i \in Defs(block, v)
        BY <1>1, <2>2 DEF Present
    <3>2. Born(block, v) \in Nat
        BY <1>1, <2>2, <3>1, BornAtDefinition, BlockFacts
    <3> QED
        BY <1>1, <1>2, <2>2, <3>2
  <2> QED
      BY <2>1, <2>2
<1> QED
    BY <1>1, <1>2, <1>3 DEF LiveAt

(* Values needed at one place have registers of their own. *)
LEMMA NeededApart ==
    ASSUME block \in Inputs, NEW n \in 1 .. Last + 1
    PROVE  Apart(Needed(n)) /\ Needed(n) \subseteq Vregs \ block.onStk
<1> SUFFICES ASSUME NEW v \in Needed(n), NEW w \in Needed(n), v /= w
             PROVE  Reg(v) /= Reg(w)
    BY DEF Apart, Needed
<1>1. v \in Vregs \ block.onStk /\ w \in Vregs \ block.onStk
    BY DEF Needed
<1>2. Meet(block, v, w)
  <2>1. CASE v \in block.liveIn /\ w \in block.liveIn
      BY <2>1 DEF Meet
  <2>2. CASE ~(v \in block.liveIn /\ w \in block.liveIn)
    <3>1. n - 1 \in 1 .. Last /\ (n - 1) + 1 = n
      <4>1. PICK u \in {v, w} : u \notin block.liveIn
          BY <2>2
      <4>2. u \in Vregs /\ Born(block, u) < n /\ Present(block, u)
          BY <4>1 DEF Needed
      <4>3. Born(block, u) \in 1 .. Last
          BY <4>1, <4>2, BornAtDefinition DEF Present
      <4> QED
          BY <4>2, <4>3, BlockFacts
    <3>2. LiveAt(block, v, n - 1) /\ LiveAt(block, w, n - 1)
        BY <3>1, NeededIsLive
    <3> QED
        BY <3>1, <3>2, BlockFacts DEF Meet
  <2> QED
      BY <2>1, <2>2
<1> QED
    BY <1>1, <1>2, BlockFacts DEF WellFormed, Reg

(* What leaves the block is needed after its last uop. *)
LEMMA LiveOutNeeded ==
    ASSUME block \in Inputs, NEW v \in block.liveOut \ block.onStk
    PROVE  v \in Needed(Last + 1)
<1>1. v \in Vregs /\ Present(block, v) /\ Wanted(block, v) /\ Dies(block, v) = Last + 1
  <2>1. v \in Vregs
      BY InputsAssumption DEF Block
  <2>2. Present(block, v)
      BY BlockFacts DEF WellFormed
  <2> QED
      BY <2>1, <2>2 DEF Wanted, Dies, Last
<1>2. v \in block.liveIn \/ Born(block, v) < Last + 1
  <2> SUFFICES ASSUME v \notin block.liveIn PROVE Born(block, v) < Last + 1
      OBVIOUS
  <2>1. PICK i : i \in Defs(block, v)
      BY <1>1 DEF Present
  <2> QED
      BY <1>1, <2>1, BornAtDefinition, BlockFacts
<1>3. Last + 1 <= Dies(block, v)
    BY <1>1, BlockFacts
<1> QED
    BY <1>1, <1>2, <1>3 DEF Needed

(* What a call stores is needed before it. *)
LEMMA StoredIsNeeded ==
    ASSUME block \in Inputs, NEW n \in 1 .. Last
    PROVE  /\ Living(n) \subseteq Needed(n) /\ ArgParam(n) \subseteq Needed(n)
           /\ Living(n) \subseteq Needed(n + 1)
           /\ \A v \in Living(n) \cup ArgParam(n) : Reg(v) \in CallerSave
           /\ \A v \in Needed(n + 1) : Reg(v) \in CallerSave /\ v /= block.uops[n].res => v \in Living(n)
<1>1. ASSUME NEW v \in Living(n) PROVE v \in Needed(n) /\ v \in Needed(n + 1)
  <2>1. v \in Vregs \ block.onStk /\ LiveAt(block, v, n) /\ v /= block.uops[n].res
      BY DEF Living
  <2>2. n + 1 \in 1 .. Last + 1 /\ (n + 1) - 1 = n
      BY BlockFacts
  <2>3. v \in Needed(n + 1)
      BY <2>1, <2>2, LiveIsNeeded
  <2> QED
      BY <2>1, <2>3, NeededBefore
<1>2. ASSUME NEW v \in ArgParam(n) PROVE v \in Needed(n)
    BY OperandNeeded DEF ArgParam
<1>3. \A v \in Living(n) \cup ArgParam(n) : Reg(v) \in CallerSave
    BY DEF Living, ArgParam
<1>4. ASSUME NEW v \in Needed(n + 1), Reg(v) \in CallerSave, v /= block.uops[n].res
      PROVE  v \in Living(n)
  <2>1. LiveAt(block, v, n) /\ v \in Vregs \ block.onStk
      BY NeededIsLive DEF Needed
  <2> QED
      BY <1>4, <2>1 DEF Living
<1> QED
    BY <1>1, <1>2, <1>3, <1>4

-----------------------------------------------------------------------------
(* The invariant: what is needed is where its mark says, and marks last no *)
(* longer than there are calls.                                            *)

TypeInv ==
    /\ block \in Inputs
    /\ pc \in 1 .. Last + 1
    /\ hw \in Hardware
    /\ value \in [Vregs -> Values]

Jumps == \E i \in 1 .. Last : block.uops[i].kind = "jump"

Kept == pc <= Last \/ ~Jumps => \A v \in Needed(pc) : Held(hw, v) = value[v]

NoneAfterCalls == (\A i \in pc .. Last : ~IsCall(i)) => hw.saving = {}

NoneBeforeCalls == (\A i \in 1 .. pc - 1 : block.uops[i].kind /= "call") => hw.saving = {}

IInv ==
    /\ TypeInv
    /\ OperandsRight
    /\ Marked(hw, Needed(pc))
    /\ Kept
    /\ NoneAfterCalls
    /\ NoneBeforeCalls

(* Marks that do not change say the same of other registers. *)
LEMMA MarkedElsewhere ==
    ASSUME NEW h, NEW k, NEW A, NEW B, Marked(h, A), k.saving = h.saving, k.owner = h.owner, h.saving \subseteq B
    PROVE  Marked(k, B)
BY DEF Marked

(* After the operands have been seen to, an instruction writes its result. *)
LEMMA WriteResult ==
    ASSUME TypeInv, pc <= Last, NEW h \in Hardware, Marked(h, Needed(pc)), h.saving \subseteq Needed(pc + 1),
           \A v \in Needed(pc) : Held(h, v) = value[v],
           Here.res = None \/ Wanted(block, Here.res), NEW a \in Values,
           hw' = SetReg(h, Here.res, a), SetValue(Here.res, a), block' = block
    PROVE  /\ hw' \in Hardware /\ value' \in [Vregs -> Values]
           /\ hw'.saving = h.saving
           /\ Marked(hw', Needed(pc + 1))
           /\ \A v \in Needed(pc + 1) : Held(hw', v) = value'[v]
<1> DEFINE res == Here.res
<1>1. block \in Inputs /\ pc \in 1 .. Last /\ pc + 1 \in 1 .. Last + 1 /\ res \in Vregs \cup {None}
      /\ value \in [Vregs -> Values] /\ block.reg \in [Vregs -> Regs]
    BY BlockFacts DEF TypeInv, Here
<1>2. Here = block.uops[pc]
    BY DEF Here
<1>3. Apart(Needed(pc + 1)) /\ Needed(pc + 1) \subseteq Vregs
    BY <1>1, NeededApart
<1>4. \A v \in Needed(pc + 1) : v /= res => v \in Needed(pc)
    BY <1>1, <1>2, NeededBefore
<1>5. CASE res = None
  <2>1. hw' = h /\ value' = value
      BY <1>5 DEF SetReg, SetValue
  <2>2. \A v \in Needed(pc + 1) : v \in Needed(pc)
      BY <1>1, <1>3, <1>4, <1>5, RegistersAssumption
  <2>3. \A v \in Needed(pc + 1) : Held(hw', v) = value'[v]
    <3>1. \A v : Held(hw', v) = Held(h, v)
        BY <1>1, <2>1 DEF Held, Reg
    <3> QED
        BY <2>1, <2>2, <3>1
  <2>4. Marked(hw', Needed(pc + 1))
      BY <2>1, MarkedElsewhere
  <2> QED
      BY <1>1, <2>1, <2>3, <2>4
<1>6. CASE res /= None
  <2>1. res \in Vregs /\ res \notin Needed(pc) /\ res \in Needed(pc + 1)
      BY <1>1, <1>2, <1>6, ResultIsNew
  <2>2. hw' = [h EXCEPT !.regs[Reg(res)] = a] /\ value' = [value EXCEPT ![res] = a]
      BY <1>6 DEF SetReg, SetValue
  <2>3. /\ hw'.regs = [h.regs EXCEPT ![Reg(res)] = a] /\ hw'.slot = h.slot
        /\ hw'.owner = h.owner /\ hw'.saving = h.saving
      BY <2>2 DEF Hardware
  <2>4. Reg(res) \in Regs /\ h.regs \in [Regs -> Values]
      BY <1>1, <2>1 DEF Reg, Hardware
  <2>5. hw' \in Hardware
      BY <2>2, <2>4 DEF Hardware
  <2>6. Marked(hw', Needed(pc + 1))
      BY <2>3, MarkedElsewhere
  <2>7. ASSUME NEW v \in Needed(pc + 1) PROVE Held(hw', v) = value'[v]
    <3> DEFINE r == Reg(v)
    <3>1. v \in Vregs /\ r \in Regs
        BY <1>1, <1>3 DEF Reg
    <3>2. Held(hw', v) = IF v \in hw'.saving THEN hw'.slot[r] ELSE hw'.regs[r]
        BY DEF Held
    <3>3. CASE v = res
      <4>1. v \notin hw'.saving
          BY <2>1, <2>3, <3>3 DEF Marked
      <4> QED
          BY <1>1, <2>2, <2>3, <2>4, <3>1, <3>2, <3>3, <4>1
    <3>4. CASE v /= res
      <4>1. r /= Reg(res)
          BY <1>3, <2>1, <3>4 DEF Apart
      <4>2. Held(h, v) = value[v]
          BY <1>4, <3>4
      <4>3. Held(hw', v) = Held(h, v)
          BY <2>3, <2>4, <3>1, <3>2, <4>1 DEF Held
      <4> QED
          BY <1>1, <2>1, <2>2, <3>1, <3>4, <4>2, <4>3
    <3> QED
        BY <3>3, <3>4
  <2> QED
      BY <1>1, <2>1, <2>2, <2>3, <2>5, <2>6, <2>7
<1> QED
    BY <1>5, <1>6

(* What holds before every step. *)
LEMMA StepFacts ==
    ASSUME IInv, pc <= Last
    PROVE  /\ block \in Inputs /\ pc \in 1 .. Last /\ pc + 1 \in 1 .. Last + 1
           /\ Here = block.uops[pc] /\ Here.ops \in Seq(Vregs) /\ Sound(block, pc)
           /\ block.reg \in [Vregs -> Regs] /\ value \in [Vregs -> Values] /\ hw \in Hardware
           /\ Apart(Needed(pc)) /\ Needed(pc) \in SUBSET Vregs /\ Marked(hw, Needed(pc))
           /\ \A v \in Needed(pc) : Held(hw, v) = value[v]
           /\ \A v \in RangeOf(Here.ops) : v \in Vregs /\ (v \notin block.onStk => v \in Needed(pc))
           /\ Made(pc) \in Values
<1>1. block \in Inputs /\ pc \in 1 .. Last /\ pc + 1 \in 1 .. Last + 1 /\ pc \in Nat
    BY BlockFacts DEF IInv, TypeInv
<1>2. Here = block.uops[pc]
    BY DEF Here
<1>3. Apart(Needed(pc)) /\ Needed(pc) \in SUBSET Vregs
    BY <1>1, NeededApart DEF IInv, TypeInv
<1>4. \A v \in RangeOf(Here.ops) : v \in Vregs /\ (v \notin block.onStk => v \in Needed(pc))
    BY <1>1, <1>2, BlockFacts, OperandNeeded
<1>5. Made(pc) \in Values
    BY <1>1 DEF Values
<1> QED
    BY <1>1, <1>2, <1>3, <1>4, <1>5, BlockFacts DEF IInv, TypeInv, Kept

(* After UseVirtReg of operands that are in no stack slot of their own,    *)
(* they are in their registers and only what is needed later is marked.    *)
LEMMA ReloadOperands ==
    ASSUME IInv, pc <= Last, RangeOf(Here.ops) \cap block.onStk = {}
    PROVE  /\ Reload(hw, RangeOf(Here.ops)) \in Hardware
           /\ Marked(Reload(hw, RangeOf(Here.ops)), Needed(pc))
           /\ Reload(hw, RangeOf(Here.ops)).saving \subseteq hw.saving \cap Needed(pc + 1)
           /\ \A v \in Needed(pc) : Held(Reload(hw, RangeOf(Here.ops)), v) = value[v]
           /\ \A v \in RangeOf(Here.ops) : Reload(hw, RangeOf(Here.ops)).regs[Reg(v)] = value[v]
<1> DEFINE h == Reload(hw, RangeOf(Here.ops))
<1>1. /\ h \in Hardware
      /\ Marked(h, Needed(pc))
      /\ h.saving = hw.saving \ RangeOf(Here.ops)
      /\ \A v \in Needed(pc) : Held(h, v) = Held(hw, v)
    BY StepFacts, ReloadKeeps
<1>2. \A v \in Needed(pc) : Held(h, v) = value[v]
    BY <1>1, StepFacts
<1> HIDE DEF h
<1>3. h.saving \subseteq hw.saving \cap Needed(pc + 1)
  <2> SUFFICES ASSUME NEW v \in h.saving PROVE v \in hw.saving /\ v \in Needed(pc + 1)
      OBVIOUS
  <2>1. v \in hw.saving /\ v \notin RangeOf(block.uops[pc].ops) /\ v \in Needed(pc)
      BY <1>1, StepFacts DEF Marked
  <2> QED
      BY <2>1, StepFacts, StillNeeded
<1>4. \A v \in RangeOf(Here.ops) : h.regs[Reg(v)] = value[v]
    BY <1>1, <1>2, StepFacts DEF Held
<1> QED
    BY <1>1, <1>2, <1>3, <1>4 DEF h

(* The parts of the invariant that are about calls, after another uop.     *)
LEMMA MarksLast ==
    ASSUME IInv, pc <= Last, Here.kind \in {"op", "mv"}, block' = block, pc' = pc + 1,
           hw'.saving \subseteq hw.saving
    PROVE  NoneAfterCalls' /\ NoneBeforeCalls'
<1>1. pc \in 1 .. Last /\ Last \in Nat /\ Here = block.uops[pc]
    BY StepFacts, BlockFacts
<1>2. Last' = Last /\ \A i : IsCall(i)' <=> IsCall(i)
    BY DEF Last, IsCall
<1>3. NoneAfterCalls'
  <2> SUFFICES ASSUME \A i \in pc + 1 .. Last : ~IsCall(i) PROVE hw.saving = {}
      BY <1>2 DEF NoneAfterCalls
  <2>1. ~IsCall(pc)
      BY <1>1 DEF IsCall
  <2>2. \A i \in pc .. Last : ~IsCall(i)
      BY <1>1, <2>1
  <2> QED
      BY <2>2 DEF IInv, NoneAfterCalls
<1>4. NoneBeforeCalls'
  <2> SUFFICES ASSUME \A j \in 1 .. pc : block.uops[j].kind /= "call" PROVE hw.saving = {}
      BY <1>1 DEF NoneBeforeCalls
  <2>1. \A j \in 1 .. pc - 1 : block.uops[j].kind /= "call"
      BY <1>1
  <2> QED
      BY <2>1 DEF IInv, NoneBeforeCalls
<1> QED
    BY <1>3, <1>4

(* The invariant after a uop, from its parts. *)
LEMMA Assemble ==
    ASSUME IInv, pc <= Last, block' = block, pc' = pc + 1, got' = want',
           hw' \in Hardware, value' \in [Vregs -> Values], Marked(hw', Needed(pc + 1)),
           \A v \in Needed(pc + 1) : Held(hw', v) = value'[v],
           NoneAfterCalls', NoneBeforeCalls'
    PROVE  IInv'
<1>1. TypeInv'
    BY StepFacts DEF TypeInv, Last
<1>2. Needed(pc)' = Needed(pc + 1)
    BY DEF Needed
<1>3. Marked(hw, Needed(pc))'
    BY <1>2 DEF Marked, Reg
<1>4. Kept'
    BY <1>2 DEF Kept, Held, Reg
<1> QED
    BY <1>1, <1>3, <1>4 DEF IInv, OperandsRight

(* An instruction preserves the invariant. *)
LEMMA OpStep ==
    ASSUME IInv, EmitOp
    PROVE  IInv'
<1> DEFINE h == Reload(hw, RangeOf(Here.ops))
<1>1. pc <= Last /\ Here.kind = "op" /\ pc' = pc + 1 /\ block' = block
      /\ hw' = SetReg(h, Here.res, Made(pc)) /\ SetValue(Here.res, Made(pc))
      /\ got' = [i \in DOMAIN Here.ops |-> h.regs[Reg(Here.ops[i])]]
      /\ want' = [i \in DOMAIN Here.ops |-> value[Here.ops[i]]]
    BY DEF EmitOp, Ideal
<1>2. RangeOf(Here.ops) \cap block.onStk = {} /\ (Here.res = None \/ Wanted(block, Here.res))
    BY <1>1, StepFacts DEF Sound
<1>3. /\ h \in Hardware /\ Marked(h, Needed(pc)) /\ h.saving \subseteq hw.saving \cap Needed(pc + 1)
      /\ \A v \in Needed(pc) : Held(h, v) = value[v]
      /\ \A v \in RangeOf(Here.ops) : h.regs[Reg(v)] = value[v]
    BY <1>1, <1>2, ReloadOperands
<1> HIDE DEF h
<1>4. got' = want'
    BY <1>1, <1>3 DEF RangeOf
<1>5. /\ hw' \in Hardware /\ value' \in [Vregs -> Values]
      /\ hw'.saving = h.saving
      /\ Marked(hw', Needed(pc + 1))
      /\ \A v \in Needed(pc + 1) : Held(hw', v) = value'[v]
  <2>1. TypeInv /\ Made(pc) \in Values
      BY <1>1, StepFacts DEF IInv
  <2> QED
      BY <1>1, <1>2, <1>3, <2>1, WriteResult
<1>6. NoneAfterCalls' /\ NoneBeforeCalls'
    BY <1>1, <1>3, <1>5, MarksLast
<1> QED
    BY <1>1, <1>4, <1>5, <1>6, Assemble

(* A move between two registers preserves the invariant. *)
LEMMA MvStep ==
    ASSUME IInv, EmitMv, NoMoveInPlace(block)
    PROVE  IInv'
<1> DEFINE src == Here.ops[1]
           h == Reload(hw, {src})
<1>1. pc <= Last /\ Here.kind = "mv" /\ pc' = pc + 1 /\ block' = block
      /\ hw' = (IF Reg(src) = Reg(Here.res) THEN hw ELSE SetReg(h, Here.res, h.regs[Reg(src)]))
      /\ SetValue(Here.res, value[src]) /\ got' = want'
    BY DEF EmitMv
<1>2. /\ RangeOf(Here.ops) \cap block.onStk = {} /\ Len(Here.ops) = 1
      /\ Here.res /= None /\ Wanted(block, Here.res)
    BY <1>1, StepFacts DEF Sound
<1>3. RangeOf(Here.ops) = {src}
    BY <1>1, <1>2, StepFacts DEF RangeOf
<1>4. src \in Vregs /\ src \in Needed(pc) /\ value[src] \in Values /\ TypeInv
    BY <1>1, <1>2, <1>3, StepFacts DEF IInv
<1>5. CASE Reg(src) /= Reg(Here.res)
  <2>1. /\ h \in Hardware /\ Marked(h, Needed(pc)) /\ h.saving \subseteq hw.saving \cap Needed(pc + 1)
        /\ \A v \in Needed(pc) : Held(h, v) = value[v]
        /\ h.regs[Reg(src)] = value[src]
      BY <1>1, <1>2, <1>3, ReloadOperands
  <2> HIDE DEF h, src
  <2>2. hw' = SetReg(h, Here.res, value[src])
      BY <1>1, <1>5, <2>1
  <2>3. /\ hw' \in Hardware /\ value' \in [Vregs -> Values]
        /\ hw'.saving = h.saving
        /\ Marked(hw', Needed(pc + 1))
        /\ \A v \in Needed(pc + 1) : Held(hw', v) = value'[v]
      BY <1>1, <1>2, <1>4, <2>1, <2>2, WriteResult
  <2>4. NoneAfterCalls' /\ NoneBeforeCalls'
      BY <1>1, <2>1, <2>3, MarksLast
  <2> QED
      BY <1>1, <2>3, <2>4, Assemble
<1>6. CASE Reg(src) = Reg(Here.res)
  <2>1. hw.saving = {}
    <3>1. \A j \in 1 .. pc - 1 : block.uops[j].kind /= "call"
        BY <1>1, <1>6, StepFacts, BlockFacts DEF NoMoveInPlace, Reg
    <3> QED
        BY <3>1 DEF IInv, NoneBeforeCalls
  <2> HIDE DEF src
  <2>2. hw.regs[Reg(src)] = value[src] /\ hw.regs \in [Regs -> Values] /\ Reg(src) \in Regs
      BY <1>1, <1>4, <2>1, StepFacts DEF Held, Hardware, Reg
  <2>3. SetReg(hw, Here.res, value[src]) = hw
    <3>1. [hw.regs EXCEPT ![Reg(Here.res)] = value[src]] = hw.regs
        BY <1>6, <2>2
    <3>2. hw \in Hardware
        BY <1>1, StepFacts
    <3>3. [hw EXCEPT !.regs[Reg(Here.res)] = value[src]] = hw
        BY <3>1, <3>2 DEF Hardware
    <3> QED
        BY <1>2, <3>3 DEF SetReg
  <2>4. hw' = SetReg(hw, Here.res, value[src])
      BY <1>1, <1>6, <2>3
  <2>5. /\ hw' \in Hardware /\ value' \in [Vregs -> Values]
        /\ hw'.saving = hw.saving
        /\ Marked(hw', Needed(pc + 1))
        /\ \A v \in Needed(pc + 1) : Held(hw', v) = value'[v]
    <3>1. hw \in Hardware /\ Marked(hw, Needed(pc)) /\ hw.saving \subseteq Needed(pc + 1)
          /\ \A v \in Needed(pc) : Held(hw, v) = value[v]
        BY <1>1, <2>1, StepFacts
    <3> QED
        BY <1>1, <1>2, <1>4, <2>4, <3>1, WriteResult
  <2>6. NoneAfterCalls' /\ NoneBeforeCalls'
      BY <1>1, <2>5, MarksLast
  <2> QED
      BY <1>1, <2>5, <2>6, Assemble
<1> QED
    BY <1>5, <1>6

(* Before the jump of a call all it may overwrite is stored, and every     *)
(* argument is where the callee looks for it.                              *)
Stored == Save(Save(hw, Living(pc)), ArgParam(pc))

(* Before the jump of a call everything is stored and every argument is in place. *)
LEMMA CallPrepared ==
    ASSUME IInv, pc <= Last
    PROVE  /\ Stored \in Hardware /\ Marked(Stored, Needed(pc))
           /\ Stored.saving = hw.saving \cup Living(pc) \cup ArgParam(pc)
           /\ \A v \in Needed(pc) : Held(Stored, v) = value[v]
           /\ PassArgs(Stored, Here.ops).regs \in [Regs -> Values]
           /\ \A r \in CalleeSave : PassArgs(Stored, Here.ops).regs[r] = Stored.regs[r]
           /\ Received(PassArgs(Stored, Here.ops), Len(Here.ops)) = Ideal(Here.ops)
<1>1. /\ Living(pc) \in SUBSET Needed(pc) /\ ArgParam(pc) \in SUBSET Needed(pc)
      /\ \A v \in Living(pc) \cup ArgParam(pc) : Reg(v) \in CallerSave
    BY StepFacts, StoredIsNeeded
<1> DEFINE first == Save(hw, Living(pc))
<1>2. /\ first \in Hardware /\ Marked(first, Needed(pc)) /\ first.saving = hw.saving \cup Living(pc)
      /\ \A v \in Needed(pc) : Held(first, v) = Held(hw, v)
    BY <1>1, StepFacts, SaveKeeps
<1> HIDE DEF first
<1>3. /\ Save(first, ArgParam(pc)) \in Hardware /\ Marked(Save(first, ArgParam(pc)), Needed(pc))
      /\ Save(first, ArgParam(pc)).saving = first.saving \cup ArgParam(pc)
      /\ \A v \in Needed(pc) : Held(Save(first, ArgParam(pc)), v) = Held(first, v)
    BY <1>1, <1>2, StepFacts, SaveKeeps
<1>4. Stored = Save(first, ArgParam(pc))
    BY DEF Stored, first
<1>5. /\ Stored \in Hardware /\ Marked(Stored, Needed(pc))
      /\ Stored.saving = hw.saving \cup Living(pc) \cup ArgParam(pc)
      /\ \A v \in Needed(pc) : Held(Stored, v) = value[v]
    BY <1>2, <1>3, <1>4, StepFacts
<1>6. Stored.saving \cap block.onStk = {}
    BY <1>5 DEF Marked, Needed
<1>7. Unharmed(Stored, Here.ops)
  <2> SUFFICES ASSUME NEW v \in RangeOf(Here.ops), v \notin block.onStk, Reg(v) \notin CalleeSave
               PROVE  v \in Stored.saving
      BY DEF Unharmed
  <2>1. v \in Vregs /\ Reg(v) \in CallerSave
      BY StepFacts DEF Reg, Regs
  <2>2. v \in Living(pc) \cup ArgParam(pc)
      BY <2>1, StepFacts DEF ArgParam
  <2> QED
      BY <1>5, <2>2
<1> DEFINE m == PassArgs(Stored, Here.ops)
<1>8. /\ m.regs \in [Regs -> Values]
      /\ \A r \in CalleeSave : m.regs[r] = Stored.regs[r]
      /\ Received(m, Len(Here.ops)) = [i \in 1 .. Len(Here.ops) |-> Meant(Stored, Here.ops[i])]
    BY <1>5, <1>6, <1>7, StepFacts, ArgumentsArrive
<1>9. Received(m, Len(Here.ops)) = Ideal(Here.ops)
  <2>1. DOMAIN Here.ops = 1 .. Len(Here.ops)
      BY StepFacts
  <2>2. \A i \in DOMAIN Here.ops : Meant(Stored, Here.ops[i]) = value[Here.ops[i]]
      BY <1>5, StepFacts DEF Meant, RangeOf
  <2> HIDE DEF m
  <2> QED
      BY <1>8, <2>1, <2>2 DEF Ideal
<1> QED
    BY <1>5, <1>8, <1>9

(* Marks go from the arguments that are not needed any more. *)
LEMMA CallForgets ==
    ASSUME IInv, pc <= Last, NEW g \in Hardware, g.regs = PassArgs(Stored, Here.ops).regs,
           g.saving = Stored.saving, g.owner = Stored.owner, g.slot = Stored.slot
    PROVE  /\ Forget(g, ArgParam(pc)) \in Hardware /\ Marked(Forget(g, ArgParam(pc)), Needed(pc))
           /\ Forget(g, ArgParam(pc)).saving = Stored.saving \ ArgParam(pc)
           /\ Forget(g, ArgParam(pc)).slot = Stored.slot
           /\ Forget(g, ArgParam(pc)).regs = PassArgs(Stored, Here.ops).regs
<1>1. Marked(g, Needed(pc))
    BY CallPrepared DEF Marked
<1>2. ArgParam(pc) \in SUBSET Needed(pc)
    BY StepFacts, StoredIsNeeded
<1>3. block.reg \in [Vregs -> Regs] /\ Apart(Needed(pc)) /\ Needed(pc) \in SUBSET Vregs
    BY StepFacts
<1>4. /\ Forget(g, ArgParam(pc)) \in Hardware /\ Marked(Forget(g, ArgParam(pc)), Needed(pc))
      /\ Forget(g, ArgParam(pc)).saving = g.saving \ ArgParam(pc)
      /\ Forget(g, ArgParam(pc)).slot = g.slot
      /\ Forget(g, ArgParam(pc)).regs = g.regs
    BY <1>1, <1>2, <1>3, ForgetKeeps
<1> QED
    BY <1>4

(* Moving arguments changes registers only. *)
LEMMA ArgumentsMoved ==
    ASSUME IInv, pc <= Last, NEW m, m = PassArgs(Stored, Here.ops)
    PROVE  /\ [Stored EXCEPT !.regs = m.regs] \in Hardware
           /\ [Stored EXCEPT !.regs = m.regs].regs = m.regs
           /\ [Stored EXCEPT !.regs = m.regs].saving = Stored.saving
           /\ [Stored EXCEPT !.regs = m.regs].owner = Stored.owner
           /\ [Stored EXCEPT !.regs = m.regs].slot = Stored.slot
<1>1. Stored \in Hardware /\ m.regs \in [Regs -> Values]
    BY CallPrepared
<1> QED
    BY <1>1 DEF Hardware

(* A call preserves the invariant. *)
LEMMA CallStep ==
    ASSUME IInv, EmitCall
    PROVE  IInv'
<1> DEFINE m == PassArgs(Stored, Here.ops)
           g == [Stored EXCEPT !.regs = m.regs]
           f == Forget(g, ArgParam(pc))
           back == Returned(f)
           k == SetReg(back, Here.res, back.regs[ArgRegs[1]])
           res == Here.res
           A == Needed(pc)
           B == Needed(pc + 1)
<1>1. pc <= Last /\ Here.kind = "call" /\ pc' = pc + 1 /\ block' = block
      /\ hw' = AfterCall(k) /\ got' = Received(m, Len(Here.ops)) /\ want' = Ideal(Here.ops)
      /\ SetValue(res, Made(pc))
    BY DEF EmitCall, Stored
<1>2. /\ Stored.saving = hw.saving \cup Living(pc) \cup ArgParam(pc)
      /\ Marked(Stored, A)
      /\ \A v \in A : Held(Stored, v) = value[v]
      /\ m.regs \in [Regs -> Values]
      /\ \A r \in CalleeSave : m.regs[r] = Stored.regs[r]
      /\ got' = want'
    BY <1>1, CallPrepared
<1>3. /\ f \in Hardware /\ Marked(f, A) /\ f.saving = Stored.saving \ ArgParam(pc)
      /\ f.slot = Stored.slot /\ f.regs = m.regs
  <2>1. /\ g \in Hardware /\ g.regs = m.regs /\ g.saving = Stored.saving
        /\ g.owner = Stored.owner /\ g.slot = Stored.slot
      BY <1>1, ArgumentsMoved
  <2> HIDE DEF g
  <2> QED
      BY <1>1, <2>1, CallForgets
<1> HIDE DEF m, g, f
<1>4. /\ back \in Hardware /\ back.saving = f.saving /\ back.owner = f.owner /\ back.slot = f.slot
      /\ back.regs[ArgRegs[1]] = Made(pc)
      /\ \A r \in CalleeSave : back.regs[r] = m.regs[r]
  <2>1. Made(pc) \in Values /\ Junk \in Values
      BY <1>1, StepFacts DEF Values
  <2>2. back.regs = [r \in Regs |-> IF r = ArgRegs[1] THEN Made(pc)
                                    ELSE IF r \in CallerSave THEN Junk ELSE f.regs[r]]
      BY <1>3 DEF Returned, Hardware
  <2>3. back.saving = f.saving /\ back.owner = f.owner /\ back.slot = f.slot
      BY <1>3 DEF Returned, Hardware
  <2>4. back.regs \in [Regs -> Values]
      BY <1>3, <2>1, <2>2 DEF Hardware
  <2>5. back \in Hardware
      BY <1>3, <2>4 DEF Returned, Hardware
  <2>6. ArgRegs[1] \in Regs /\ ArgRegs[1] \notin CalleeSave
      BY RegisterFacts
  <2>7. \A r \in CalleeSave : back.regs[r] = m.regs[r]
      BY <1>3, <2>2, <2>6, RegistersAssumption DEF Regs
  <2> QED
      BY <2>2, <2>3, <2>5, <2>6, <2>7
<1> HIDE DEF back
<1>5. /\ k \in Hardware /\ k.saving = f.saving /\ k.owner = f.owner /\ k.slot = Stored.slot
      /\ res = None => k.regs = back.regs
      /\ res /= None => res \in Vregs /\ k.regs = [back.regs EXCEPT ![Reg(res)] = Made(pc)]
  <2>1. CASE res = None
      BY <1>3, <1>4, <2>1 DEF SetReg
  <2>2. CASE res /= None
    <3>1. res \in Vregs /\ Reg(res) \in Regs /\ Made(pc) \in Values
        BY <1>1, <2>2, StepFacts, ResultIsNew DEF Reg
    <3>2. k = [back EXCEPT !.regs[Reg(res)] = Made(pc)]
        BY <1>4, <2>2 DEF SetReg
    <3> QED
        BY <1>3, <1>4, <2>2, <3>1, <3>2 DEF Hardware
  <2> QED
      BY <2>1, <2>2
<1> HIDE DEF k
<1>6. res /= None => /\ res \in Vregs /\ res \notin A
                     /\ Wanted(block, res) => res \in B
                     /\ Wanted(block, res) \/ Reg(res) = ArgRegs[1]
    BY <1>1, StepFacts, ResultIsNew DEF Sound, Reg
<1>7. Apart(B) /\ B \in SUBSET Vregs /\ \A v \in B : v /= res => v \in A
    BY <1>1, StepFacts, NeededApart, NeededBefore
<1>8. k.saving \subseteq B
  <2> SUFFICES ASSUME NEW v \in k.saving PROVE v \in B
      OBVIOUS
  <2>1. v \in A /\ v \in Stored.saving /\ v \notin ArgParam(pc) /\ Reg(v) \in CallerSave
      BY <1>2, <1>3, <1>5 DEF Marked
  <2>2. CASE v \in Living(pc)
      BY <1>1, <2>2, StepFacts, StoredIsNeeded
  <2>3. CASE v \notin Living(pc)
    <3>1. v \notin block.onStk
        BY <2>1 DEF Needed
    <3>2. v \notin RangeOf(block.uops[pc].ops)
        BY <2>1, <2>3, <3>1 DEF ArgParam
    <3> QED
        BY <1>1, <2>1, <3>2, StepFacts, StillNeeded
  <2> QED
      BY <2>2, <2>3
<1>9. Marked(k, B)
    BY <1>3, <1>5, <1>8, MarkedElsewhere
<1>10. value' = (IF res = None THEN value ELSE [value EXCEPT ![res] = Made(pc)])
       /\ value' \in [Vregs -> Values]
    BY <1>1, StepFacts DEF SetValue
<1>11. ASSUME NEW v \in B PROVE Held(k, v) = value'[v]
  <2>1. v \in Vregs /\ Reg(v) \in Regs
      BY <1>1, <1>7, StepFacts DEF Reg
  <2>2. CASE v = res
    <3>1. res /= None /\ v \notin k.saving
        BY <1>3, <1>5, <1>6, <2>1, <2>2, RegistersAssumption DEF Marked
    <3> QED
        BY <1>1, <1>4, <1>5, <1>10, <2>1, <2>2, <3>1, StepFacts DEF Held, Hardware
  <2>3. CASE v /= res /\ Reg(v) \in CallerSave
    <3>1. v \in Living(pc) /\ v \in A
        BY <1>1, <1>7, <2>3, StepFacts, StoredIsNeeded
    <3>2. v \in Stored.saving /\ v \in k.saving
        BY <1>2, <1>3, <1>5, <3>1 DEF ArgParam
    <3>3. Held(k, v) = Held(Stored, v)
        BY <1>5, <3>2 DEF Held
    <3> QED
        BY <1>1, <1>2, <1>10, <2>1, <2>3, <3>1, <3>3, StepFacts
  <2>4. CASE v /= res /\ Reg(v) \notin CallerSave
    <3>1. v \in A /\ Reg(v) \in CalleeSave
        BY <1>7, <2>1, <2>4 DEF Regs
    <3>2. v \notin k.saving /\ v \notin Stored.saving
        BY <1>2, <1>3, <1>5, <2>4 DEF Marked
    <3>3. k.regs[Reg(v)] = back.regs[Reg(v)]
      <4>1. res /= None => Reg(v) /= Reg(res)
          BY <1>6, <1>7, <2>4, <3>1, RegisterFacts DEF Apart
      <4> QED
          BY <1>4, <1>5, <2>1, <4>1 DEF Hardware
    <3>4. Held(k, v) = Held(Stored, v)
        BY <1>2, <1>4, <3>1, <3>2, <3>3 DEF Held
    <3> QED
        BY <1>1, <1>2, <1>10, <2>1, <2>4, <3>1, <3>4, StepFacts
  <2> QED
      BY <2>2, <2>3, <2>4
<1>12. /\ hw' \in Hardware /\ Marked(hw', B)
       /\ \A v \in B : Held(hw', v) = value'[v]
       /\ LastCall => hw'.saving = {}
  <2>1. CASE LastCall
      BY <1>1, <1>5, <1>7, <1>9, <1>11, <2>1, StepFacts, RecoverAllKeeps DEF AfterCall
  <2>2. CASE ~LastCall
    <3>1. hw' = k
        BY <1>1, <2>2 DEF AfterCall
    <3>2. \A v : Held(hw', v) = Held(k, v)
        BY <1>1, <3>1 DEF Held, Reg
    <3>3. Marked(hw', B)
        BY <1>9, <3>1, MarkedElsewhere
    <3> QED
        BY <1>5, <1>11, <2>2, <3>1, <3>2, <3>3
  <2> QED
      BY <2>1, <2>2
<1>13. NoneAfterCalls'
  <2>1. Last' = Last /\ \A i : IsCall(i)' <=> IsCall(i)
      BY <1>1 DEF Last, IsCall
  <2> QED
      BY <1>1, <1>12, <2>1 DEF NoneAfterCalls, LastCall
<1>14. NoneBeforeCalls'
  <2>1. pc \in 1 .. pc' - 1 /\ block'.uops[pc].kind = "call"
      BY <1>1, StepFacts
  <2> QED
      BY <2>1 DEF NoneBeforeCalls
<1> QED
    BY <1>1, <1>2, <1>10, <1>12, <1>13, <1>14, Assemble

(* A jump preserves the invariant. *)
LEMMA JumpStep ==
    ASSUME IInv, EmitJump
    PROVE  IInv'
<1> DEFINE m == PassArgs(Stored, Here.ops)
           g == [Stored EXCEPT !.regs = m.regs]
           f == Forget(g, ArgParam(pc))
<1>1. pc <= Last /\ Here.kind = "jump" /\ pc' = Last + 1 /\ block' = block /\ value' = value
      /\ hw' = RecoverAll(f) /\ got' = Received(m, Len(Here.ops)) /\ want' = Ideal(Here.ops)
    BY DEF EmitJump, Stored
<1>2. got' = want'
    BY <1>1, CallPrepared
<1>3. f \in Hardware /\ Marked(f, Needed(pc))
  <2>1. /\ g \in Hardware /\ g.regs = m.regs /\ g.saving = Stored.saving
        /\ g.owner = Stored.owner /\ g.slot = Stored.slot
      BY <1>1, ArgumentsMoved
  <2> HIDE DEF g
  <2> QED
      BY <1>1, <2>1, CallForgets
<1> HIDE DEF f
<1>4. hw' \in Hardware /\ hw'.saving = {} /\ Marked(hw', Needed(pc))
    BY <1>1, <1>3, StepFacts, RecoverAllKeeps
<1>5. TypeInv'
    BY <1>1, <1>4, StepFacts, BlockFacts DEF TypeInv, Last
<1>6. Marked(hw, Needed(pc))'
    BY <1>1, <1>4 DEF Marked, Reg
<1>7. Jumps' /\ ~(pc' <= Last')
    BY <1>1, StepFacts, BlockFacts DEF Jumps, Last
<1> QED
    BY <1>2, <1>4, <1>5, <1>6, <1>7 DEF IInv, OperandsRight, Kept, NoneAfterCalls, NoneBeforeCalls

(* The invariant holds at the head of a block. *)
LEMMA InitInv == Init => IInv
<1> SUFFICES ASSUME Init PROVE IInv
    OBVIOUS
<1> DEFINE Incomers(r) == {v \in block.liveIn \ block.onStk : Reg(v) = r}
<1>1. block \in Inputs /\ pc = 1 /\ Last \in Nat /\ pc \in 1 .. Last + 1
      /\ hw.owner = <<>> /\ hw.saving = {} /\ value = [v \in Vregs |-> Incoming(v)] /\ got = want
    BY BlockFacts DEF Init
<1>2. block.liveIn \subseteq Vregs /\ block.reg \in [Vregs -> Regs]
    BY <1>1, InputsAssumption DEF Block
<1>3. \A r : Incomers(r) /= {} =>
         (CHOOSE v \in block.liveIn \ block.onStk : Reg(v) = r) \in Incomers(r)
    BY Zenon
<1>4. hw.regs = [r \in Regs |-> IF Incomers(r) /= {}
                                THEN Incoming(CHOOSE v \in block.liveIn \ block.onStk : Reg(v) = r)
                                ELSE Junk]
  <2>1. \A r : (\E v \in block.liveIn \ block.onStk : Reg(v) = r) <=> Incomers(r) /= {}
      OBVIOUS
  <2>2. hw.regs = [r \in Regs |-> IF \E v \in block.liveIn \ block.onStk : Reg(v) = r
                                  THEN Incoming(CHOOSE v \in block.liveIn \ block.onStk : Reg(v) = r)
                                  ELSE Junk]
      BY DEF Init
  <2> QED
      BY <2>1, <2>2
<1>5. TypeInv
  <2>1. hw = [regs |-> hw.regs, slot |-> [r \in Regs |-> Junk], owner |-> <<>>, saving |-> {}]
      BY DEF Init
  <2>2. hw.regs \in [Regs -> Values] /\ [r \in Regs |-> Junk] \in [Regs -> Values]
    <3>1. \A r \in Regs : Incomers(r) /= {} =>
             Incoming(CHOOSE v \in block.liveIn \ block.onStk : Reg(v) = r) \in Values
        BY <1>2, <1>3 DEF Values
    <3>2. Junk \in Values
        BY DEF Values
    <3> QED
        BY <1>4, <3>1, <3>2
  <2>3. <<>> \in SlotOwners
    <3>1. <<>> \in [{} -> Vregs \cup {None}]
        OBVIOUS
    <3> QED
        BY <3>1 DEF SlotOwners
  <2>4. hw \in Hardware
      BY <2>1, <2>2, <2>3 DEF Hardware
  <2>5. value \in [Vregs -> Values]
      BY <1>1 DEF Values
  <2> QED
      BY <1>1, <2>4, <2>5 DEF TypeInv
<1>6. Kept
  <2> SUFFICES ASSUME NEW v \in Needed(1) PROVE Held(hw, v) = value[v]
      BY <1>1 DEF Kept
  <2>1. v \in Vregs \ block.onStk /\ v \in block.liveIn
    <3>1. v \in Vregs \ block.onStk /\ Present(block, v) /\ (v \in block.liveIn \/ Born(block, v) < 1)
        BY DEF Needed
    <3>2. \A i \in Defs(block, v) : v \notin block.liveIn => Born(block, v) \in 1 .. Last
        BY <1>1, <3>1, BornAtDefinition
    <3> QED
        BY <1>1, <3>1, <3>2 DEF Present
  <2>2. Incomers(Reg(v)) = {v}
    <3> SUFFICES ASSUME NEW w \in block.liveIn \ block.onStk, w /= v PROVE Reg(w) /= Reg(v)
        BY <2>1
    <3>1. w \in Vregs \ block.onStk /\ Meet(block, v, w)
        BY <1>2, <2>1 DEF Meet
    <3> QED
        BY <1>1, <2>1, <3>1, BlockFacts DEF WellFormed, Reg
  <2>3. (CHOOSE w \in block.liveIn \ block.onStk : Reg(w) = Reg(v)) = v
      BY <1>3, <2>2
  <2>4. hw.regs[Reg(v)] = Incoming(v)
      BY <1>2, <1>4, <2>1, <2>2, <2>3 DEF Reg
  <2> QED
      BY <1>1, <2>1, <2>4 DEF Held
<1>7. Marked(hw, Needed(pc))
    BY <1>1 DEF Marked
<1> QED
    BY <1>1, <1>5, <1>6, <1>7 DEF IInv, OperandsRight, NoneAfterCalls, NoneBeforeCalls

(* Every step preserves the invariant. *)
LEMMA NextInv ==
    ASSUME \A b \in Inputs : NoMoveInPlace(b), IInv, [Next]_vars
    PROVE  IInv'
<1>1. CASE UNCHANGED vars
    BY <1>1 DEF vars, IInv, TypeInv, Last, OperandsRight, Marked, Needed, Reg, Kept, Jumps, Held,
                NoneAfterCalls, NoneBeforeCalls, IsCall
<1>2. block \in Inputs
    BY DEF IInv, TypeInv
<1> QED
    BY <1>1, <1>2, OpStep, MvStep, CallStep, JumpStep DEF Next

-----------------------------------------------------------------------------

(* The invariant implies the four properties. *)
LEMMA InvImplies ==
    ASSUME IInv
    PROVE  OperandsRight /\ NothingLost /\ FreeBeforeSaving /\ BlockEndsRestored
<1>1. block \in Inputs /\ pc \in 1 .. Last + 1 /\ Last \in Nat /\ DOMAIN block.uops = 1 .. Last
    BY BlockFacts DEF IInv, TypeInv
<1>2. Apart(Needed(pc)) /\ Needed(pc) \subseteq Vregs \ block.onStk /\ Marked(hw, Needed(pc))
    BY <1>1, NeededApart DEF IInv
<1>3. \A v \in Vregs : (v \notin block.onStk => Held(hw, v) = value[v]) => Where(v) = value[v]
  <2> SUFFICES ASSUME NEW v \in Vregs, v \notin block.onStk => Held(hw, v) = value[v]
               PROVE  Where(v) = value[v]
      OBVIOUS
  <2>1. CASE v \in block.onStk
    <3>1. v \notin hw.saving
        BY <1>2, <2>1 DEF Marked
    <3> QED
        BY <2>1, <3>1 DEF Where
  <2>2. CASE v \notin block.onStk
      BY <2>2 DEF Where, Held
  <2> QED
      BY <2>1, <2>2
<1>4. NothingLost
  <2> SUFFICES ASSUME NEW v \in Vregs, pc <= Last, LiveAt(block, v, pc - 1) PROVE Where(v) = value[v]
      BY DEF NothingLost
  <2>1. v \notin block.onStk => v \in Needed(pc)
      BY <1>1, LiveIsNeeded
  <2> QED
      BY <1>3, <2>1 DEF IInv, Kept
<1>5. FreeBeforeSaving
  <2> SUFFICES ASSUME pc <= Last, NEW v \in ToSave(pc)
               PROVE  /\ Reg(v) \in DOMAIN hw.owner => hw.owner[Reg(v)] = None
                      /\ \A w \in ToSave(pc) : w /= v => Reg(w) /= Reg(v)
      BY DEF FreeBeforeSaving
  <2>1. ToSave(pc) \subseteq Needed(pc) /\ ToSave(pc) \cap hw.saving = {}
      BY <1>1, StoredIsNeeded DEF ToSave
  <2>2. ASSUME Reg(v) \in DOMAIN hw.owner, hw.owner[Reg(v)] /= None PROVE FALSE
    <3>1. hw.owner[Reg(v)] \in hw.saving /\ Reg(hw.owner[Reg(v)]) = Reg(v)
        BY <1>2, <2>2 DEF Marked
    <3>2. hw.owner[Reg(v)] = v
        BY <1>2, <2>1, <3>1 DEF Apart, Marked
    <3> QED
        BY <2>1, <3>1, <3>2
  <2> QED
      BY <1>2, <2>1, <2>2 DEF Apart
<1>6. BlockEndsRestored
  <2> SUFFICES ASSUME pc = Last + 1
               PROVE  /\ hw.saving = {}
                      /\ (\A i \in DOMAIN block.uops : block.uops[i].kind /= "jump")
                           => \A v \in block.liveOut : Where(v) = value[v]
      BY DEF BlockEndsRestored
  <2>1. hw.saving = {}
      BY <1>1 DEF IInv, NoneAfterCalls
  <2>2. ASSUME \A i \in DOMAIN block.uops : block.uops[i].kind /= "jump", NEW v \in block.liveOut
        PROVE  Where(v) = value[v]
    <3>1. ~Jumps
        BY <1>1, <2>2 DEF Jumps
    <3>2. v \in Vregs /\ (v \notin block.onStk => v \in Needed(Last + 1))
        BY <1>1, InputsAssumption, LiveOutNeeded DEF Block
    <3> QED
        BY <1>3, <3>1, <3>2 DEF IInv, Kept
  <2> QED
      BY <2>1, <2>2
<1> QED
    BY <1>4, <1>5, <1>6 DEF IInv

(* The invariant holds always, when no move has one register on both sides. *)
LEMMA Invariance ==
    ASSUME \A b \in Inputs : NoMoveInPlace(b)
    PROVE  Spec => []IInv
<1>1. Init => IInv
    BY InitInv
<1>2. IInv /\ [Next]_vars => IInv'
    BY NextInv
<1> QED
    BY <1>1, <1>2, PTL DEF Spec

(* For blocks without a move that has one register on both sides after a   *)
(* call: instructions and callees always get the values the uops name,     *)
(* however many calls lie between making and reading them.                 *)
THEOREM OperandsAreRight == (\A b \in Inputs : NoMoveInPlace(b)) => (Spec => []OperandsRight)
<1> SUFFICES ASSUME \A b \in Inputs : NoMoveInPlace(b) PROVE Spec => []OperandsRight
    OBVIOUS
<1>1. Spec => []IInv
    BY Invariance
<1>2. IInv => OperandsRight
    BY InvImplies
<1> QED
    BY <1>1, <1>2, PTL

(* Under the same condition a value that is still needed is in its         *)
(* register or, while it is marked, in the slot of that register.          *)
THEOREM NothingIsLost == (\A b \in Inputs : NoMoveInPlace(b)) => (Spec => []NothingLost)
<1> SUFFICES ASSUME \A b \in Inputs : NoMoveInPlace(b) PROVE Spec => []NothingLost
    OBVIOUS
<1>1. Spec => []IInv
    BY Invariance
<1>2. IInv => NothingLost
    BY InvImplies
<1> QED
    BY <1>1, <1>2, PTL

(* Under the same condition the assertion "should free before saving       *)
(* again" holds at every call.                                             *)
THEOREM SlotsAreFree == (\A b \in Inputs : NoMoveInPlace(b)) => (Spec => []FreeBeforeSaving)
<1> SUFFICES ASSUME \A b \in Inputs : NoMoveInPlace(b) PROVE Spec => []FreeBeforeSaving
    OBVIOUS
<1>1. Spec => []IInv
    BY Invariance
<1>2. IInv => FreeBeforeSaving
    BY InvImplies
<1> QED
    BY <1>1, <1>2, PTL

(* Under the same condition nothing is marked when the block ends, and     *)
(* what the next block needs is in registers.                              *)
THEOREM EndsRestored == (\A b \in Inputs : NoMoveInPlace(b)) => (Spec => []BlockEndsRestored)
<1> SUFFICES ASSUME \A b \in Inputs : NoMoveInPlace(b) PROVE Spec => []BlockEndsRestored
    OBVIOUS
<1>1. Spec => []IInv
    BY Invariance
<1>2. IInv => BlockEndsRestored
    BY InvImplies
<1> QED
    BY <1>1, <1>2, PTL
=============================================================================
