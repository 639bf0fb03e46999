-------------------------- MODULE StackFrameProofs --------------------------
(***************************************************************************)
(* The layout of a frame, proved for every number of parameters, locals    *)
(* and spilled registers, every choice of saved registers in every round;  *)
(* and calls on such frames, for every depth and number of them.           *)
(***************************************************************************)
EXTENDS CallFrames, FiniteSetTheorems, SequenceTheorems, TLAPS

LEMMA RoundUp8 ==
    ASSUME NEW n \in Nat
    PROVE  RoundUp(8, n) \in Nat /\ RoundUp(8, n) >= n /\ RoundUp(8, n) % 8 = 0
BY SMT DEF RoundUp

LEMMA RoundUp16 ==
    ASSUME NEW n \in Nat
    PROVE  RoundUp(16, n) \in Nat /\ RoundUp(16, n) >= n /\ RoundUp(16, n) % 16 = 0
BY SMT DEF RoundUp

LEMMA Multiples ==
    /\ \A a, b \in Int : a % 16 = 0 /\ b % 16 = 0 => (a - b) % 16 = 0 /\ (a + b) % 16 = 0
    /\ \A a, i \in Int : a % 16 = 0 => (a - 8 * i) % 4 = 0 /\ (a + 8 * i) % 4 = 0
    /\ \A a, b \in Int : a % 16 = 0 /\ b % 4 = 0 => (a + b) % 4 = 0
BY SMT

LEMMA SaveCountIsNat == used \subseteq CalleeSave => SaveCount \in Nat
BY FrameAssumption, FS_Subset, FS_CardinalityType DEF SaveCount

(* What GenerateStackInfo has placed since it started. *)
Placed == Variables \ waiting

PlacedBelow == \A s \in Placed : off[s] + slots[s].len <= spoff
PlacedApart == \A s, t \in Placed : s /= t => Apart(s, t)
PlacedAligned == \A s \in Placed : slots[s].len = 8 => off[s] % 8 = 0

(* From the end of the last GenerateStackInfo on. *)
Final == phase = "done" \/ (phase = "rewrite" /\ last)

Sized ==
    /\ waiting = {}
    /\ spoff + 8 * SaveCount <= total
    /\ total % 16 = 0

PlanInv ==
    /\ PlanTypeOK
    /\ PlacedBelow
    /\ PlacedApart
    /\ PlacedAligned
    /\ Final => Sized
    /\ SpillCodeFindsSlots

(* Parameters are the first slots, in the order of their places.           *)
ParamsFirst ==
    \E n \in 0 .. Len(slots) :
        \A s \in Slots : IF s <= n THEN slots[s] = Param(s - 1) ELSE ~IsParam(s)

(* Every place is that of a word, and parameters end up above the frame.   *)
PlacedWords == spoff % 4 = 0 /\ \A s \in Placed : off[s] % 4 = 0
ParamsAbove == Final => \A s \in Arguments : off[s] = total + 8 * slots[s].argument

ParamInv == ParamsFirst /\ PlacedWords /\ ParamsAbove

-----------------------------------------------------------------------------

LEMMA PlanInitInv == PlanInit => PlanInv
<1> SUFFICES ASSUME PlanInit PROVE PlanInv
    OBVIOUS
<1> PICK n \in StackParams, locals \in Locals :
        slots = [i \in 1 .. n |-> Param(i - 1)] \o [i \in 1 .. Len(locals) |-> Variable(locals[i])]
    BY DEF PlanInit
<1>1. slots \in Seq(Slot)
    <2>1. n \in Nat /\ locals \in Seq(Lengths)
        BY FrameAssumption
    <2>2. [i \in 1 .. n |-> Param(i - 1)] \in Seq(Slot)
        BY <2>1 DEF Param, Slot, Lengths, NotArgument
    <2>3. [i \in 1 .. Len(locals) |-> Variable(locals[i])] \in Seq(Slot)
        BY <2>1 DEF Variable, Slot, NotArgument
    <2> QED
        BY <2>2, <2>3
<1>2. PlanTypeOK
    BY <1>1 DEF PlanInit, PlanTypeOK, Slots, Variables
<1> QED
    BY <1>2 DEF PlanInit, PlanInv, PlacedBelow, PlacedApart, PlacedAligned, Placed, Final,
                SpillCodeFindsSlots

LEMMA SlotLength ==
    ASSUME PlanTypeOK, NEW s \in Slots
    PROVE  slots[s].len \in Nat /\ slots[s].argument \in Nat \cup {NotArgument} /\ off[s] \in Nat
<1>1. slots[s] \in Slot
    BY DEF PlanTypeOK, Slots
<1>2. off[s] \in Nat
    BY DEF PlanTypeOK
<1> QED
    BY <1>1, <1>2 DEF Slot, Lengths

(* Placing a variable at or above everything placed so far keeps the       *)
(* placed ones apart.                                                      *)
LEMMA PlaceAtInv ==
    ASSUME PlanInv, phase = "place", NEW s \in waiting, NEW place \in Nat,
           place >= spoff, slots[s].len = 8 => place % 8 = 0, PlaceAt(s, place)
    PROVE  PlanInv'
<1>1. /\ Slots' = Slots /\ Variables' = Variables /\ Placed' = Placed \cup {s}
      /\ s \in Variables /\ s \notin Placed /\ Variables \subseteq Slots
    BY DEF PlaceAt, PlanInv, PlanTypeOK, Slots, Variables, IsParam, Placed
<1>2. /\ off \in [Slots -> Nat]
      /\ off'[s] = place
      /\ \A t \in Placed : off'[t] = off[t] /\ t \in Slots
      /\ spoff' = place + slots[s].len
      /\ slots' = slots
    BY <1>1 DEF PlaceAt, PlanInv, PlanTypeOK, Placed
<1>3. \A t \in Slots : slots[t].len \in Nat /\ off[t] \in Nat
    BY SlotLength DEF PlanInv
<1>4. spoff \in Nat
    BY DEF PlanInv, PlanTypeOK
<1>5. PlanTypeOK'
    BY <1>1, <1>2, <1>3 DEF PlaceAt, PlanInv, PlanTypeOK, Slots
<1>6. PlacedBelow'
    BY <1>1, <1>2, <1>3, <1>4 DEF PlanInv, PlacedBelow
<1>7. \A t \in Placed : off'[t] + slots'[t].len <= off'[s]
    BY <1>2, <1>3, <1>4 DEF PlanInv, PlacedBelow
<1>8. PlacedApart'
    BY <1>1, <1>2, <1>7 DEF PlanInv, PlacedApart, Apart
<1>9. PlacedAligned'
    BY <1>1, <1>2 DEF PlanInv, PlacedAligned
<1> QED
    BY <1>5, <1>6, <1>8, <1>9 DEF PlaceAt, PlanInv, Final, SpillCodeFindsSlots

-----------------------------------------------------------------------------

LEMMA RewriteInv ==
    ASSUME PlanInv, Rewrite
    PROVE  PlanInv'
<1>1. /\ Slots' = Slots /\ Variables' = Variables /\ Placed' = Placed
      /\ slots' = slots /\ off' = off /\ SaveCount' = SaveCount
    BY DEF Rewrite, Slots, Variables, IsParam, Placed, SaveCount
<1>2. PlanTypeOK'
    BY <1>1 DEF Rewrite, PlanInv, PlanTypeOK
<1>3. PlacedBelow' /\ PlacedApart' /\ PlacedAligned'
    BY <1>1 DEF Rewrite, PlanInv, PlacedBelow, PlacedApart, PlacedAligned, Apart
<1>4. Final' => Sized'
    BY <1>1 DEF Rewrite, PlanInv, Final, Sized
<1>5. SpillCodeFindsSlots'
    BY <1>1 DEF Rewrite, SpillCodeFindsSlots
<1> QED
    BY <1>2, <1>3, <1>4, <1>5 DEF PlanInv

LEMMA AllocateInv ==
    ASSUME PlanInv, Allocate
    PROVE  PlanInv'
<1> PICK spills \in {<<>>} \cup {<<a>> : a \in {4, 8}} \cup {<<a, b>> : a, b \in {4, 8}} :
        slots' = slots \o [i \in 1 .. Len(spills) |-> Variable(spills[i])]
    BY DEF Allocate
<1>1. [i \in 1 .. Len(spills) |-> Variable(spills[i])] \in Seq(Slot)
    <2>1. 4 \in Lengths /\ 8 \in Lengths
        BY DEF Lengths
    <2>2. \A i \in 1 .. Len(spills) : spills[i] \in Lengths
        BY <2>1
    <2>3. Len(spills) \in Nat
        OBVIOUS
    <2> QED
        BY <2>2, <2>3 DEF Variable, Slot, NotArgument
<1>2. slots' \in Seq(Slot) /\ Slots \subseteq Slots'
    BY <1>1 DEF PlanInv, PlanTypeOK, Slots
<1>3. off' \in [Slots' -> Nat]
    BY <1>2 DEF Allocate, PlanInv, PlanTypeOK, Slots
<1>4. used' \subseteq CalleeSave
    BY DEF Allocate, PlanInv, PlanTypeOK
<1>5. last' \in BOOLEAN
    BY DEF Allocate
<1>6. PlanTypeOK'
    BY <1>2, <1>3, <1>4, <1>5 DEF Allocate, PlanInv, PlanTypeOK, Slots
<1>7. Placed' = {}
    BY DEF Allocate, Placed
<1> QED
    BY <1>6, <1>7 DEF Allocate, PlanInv, PlacedBelow, PlacedApart, PlacedAligned, Final,
                      SpillCodeFindsSlots

LEMMA SizeFrameInv ==
    ASSUME PlanInv, SizeFrame
    PROVE  PlanInv'
<1>1. /\ Slots' = Slots /\ Variables' = Variables /\ Placed' = Placed
      /\ slots' = slots /\ SaveCount' = SaveCount /\ Variables \subseteq Slots
    BY DEF SizeFrame, Slots, Variables, IsParam, Placed, SaveCount
<1>2. SaveCount \in Nat /\ spoff \in Nat
    BY SaveCountIsNat DEF PlanInv, PlanTypeOK
<1>3. /\ total' \in Nat
      /\ spoff + 8 * SaveCount <= total'
      /\ total' % 16 = 0
    <2>1. spoff + 8 * SaveCount \in Nat
        BY <1>2
    <2> QED
        BY <2>1, RoundUp16 DEF SizeFrame
<1>4. \A s \in Variables : off'[s] = off[s]
    BY <1>1 DEF SizeFrame, Variables
<1>5. off' \in [Slots -> Nat]
    <2>1. \A s \in Slots : IsParam(s) => slots[s].argument \in Nat
        BY SlotLength DEF IsParam, PlanInv
    <2>2. \A s \in Slots : off[s] \in Nat
        BY DEF PlanInv, PlanTypeOK
    <2>3. \A s \in Slots : (IF IsParam(s) THEN total' + 8 * slots[s].argument ELSE off[s]) \in Nat
        BY <2>1, <2>2, <1>3
    <2> QED
        BY <2>3 DEF SizeFrame
<1>6. PlanTypeOK'
    BY <1>1, <1>3, <1>5 DEF SizeFrame, PlanInv, PlanTypeOK
<1>7. PlacedBelow' /\ PlacedApart' /\ PlacedAligned'
    <2>1. spoff' = spoff /\ Placed \subseteq Variables
        BY DEF SizeFrame, Placed
    <2>2. PlacedBelow'
        BY <1>1, <1>4, <2>1 DEF PlanInv, PlacedBelow
    <2>3. PlacedApart'
        BY <1>1, <1>4, <2>1 DEF PlanInv, PlacedApart, Apart
    <2>4. PlacedAligned'
        BY <1>1, <1>4, <2>1 DEF PlanInv, PlacedAligned
    <2> QED
        BY <2>2, <2>3, <2>4
<1>8. Sized'
    BY <1>1, <1>3 DEF SizeFrame, Sized
<1> QED
    BY <1>6, <1>7, <1>8 DEF SizeFrame, PlanInv, SpillCodeFindsSlots

LEMMA PlanNextInv == PlanInv /\ [PlanNext]_planVars => PlanInv'
<1> SUFFICES ASSUME PlanInv, [PlanNext]_planVars PROVE PlanInv'
    OBVIOUS
<1>1. CASE Rewrite
    BY <1>1, RewriteInv
<1>2. CASE Allocate
    BY <1>2, AllocateInv
<1>3. ASSUME NEW s \in waiting, PlaceShort(s)
      PROVE  PlanInv'
    <2>1. spoff \in Nat
        BY DEF PlanInv, PlanTypeOK
    <2>2. CASE slots[s].len = 8
        BY <1>3, <2>1, <2>2, RoundUp8, PlaceAtInv DEF PlaceShort
    <2>3. CASE slots[s].len /= 8
        BY <1>3, <2>1, <2>3, PlaceAtInv DEF PlaceShort
    <2> QED
        BY <2>2, <2>3
<1>4. ASSUME NEW s \in waiting, PlaceLong(s)
      PROVE  PlanInv'
    <2>1. spoff \in Nat
        BY DEF PlanInv, PlanTypeOK
    <2>2. slots[s].len /= 8
        BY <1>4 DEF PlaceLong, Short
    <2> QED
        BY <1>4, <2>1, <2>2, PlaceAtInv DEF PlaceLong
<1>5. CASE SizeFrame
    BY <1>5, SizeFrameInv
<1>6. CASE UNCHANGED planVars
    BY <1>6 DEF planVars, PlanInv, PlanTypeOK, PlacedBelow, PlacedApart, PlacedAligned, Placed,
                Variables, Slots, IsParam, Apart, Final, Sized, SaveCount, SpillCodeFindsSlots
<1> QED
    BY <1>1, <1>2, <1>3, <1>4, <1>5, <1>6 DEF PlanNext

LEMMA PlanInvSuffices == PlanInv => LayoutSound
<1> SUFFICES ASSUME PlanInv, phase = "done"
             PROVE  /\ \A s, t \in Variables : s /= t => Apart(s, t)
                    /\ \A s \in Variables : off[s] + slots[s].len <= total - 8 * SaveCount
                    /\ \A s \in Variables : slots[s].len = 8 => off[s] % 8 = 0
                    /\ total % 16 = 0
    BY DEF LayoutSound
<1>1. Sized /\ Placed = Variables
    BY DEF PlanInv, Final, Sized, Placed
<1>2. SaveCount \in Nat /\ spoff \in Nat /\ total \in Nat
    BY SaveCountIsNat DEF PlanInv, PlanTypeOK
<1>3. \A s \in Variables : off[s] \in Nat /\ slots[s].len \in Nat
    BY SlotLength DEF PlanInv, Variables
<1>4. \A s \in Variables : off[s] + slots[s].len <= total - 8 * SaveCount
    BY <1>1, <1>2, <1>3 DEF PlanInv, PlacedBelow, Sized
<1> QED
    BY <1>1, <1>4 DEF PlanInv, PlacedApart, PlacedAligned, Sized

-----------------------------------------------------------------------------

(* What PlanInv says of the parameters' places holds after every step that *)
(* leaves the slots and does not end a layout.                             *)
LEMMA ParamInvStays ==
    ASSUME PlanInv, ParamInv, slots' = slots, PlacedWords', Final' => Final /\ off' = off /\ total' = total
    PROVE  ParamInv'
<1>1. ParamsFirst'
    BY DEF ParamInv, ParamsFirst, Slots, IsParam
<1>2. Arguments' = Arguments
    BY DEF Arguments, Slots, IsParam
<1>3. ParamsAbove'
    BY <1>2 DEF ParamInv, ParamsAbove
<1> QED
    BY <1>1, <1>3 DEF ParamInv

(* Variables that are added behind leave the parameters first.             *)
LEMMA VariablesBehind ==
    ASSUME NEW a \in Seq(Slot), NEW b \in Seq(Slot), \A i \in 1 .. Len(b) : b[i].argument = NotArgument,
           NEW n \in 0 .. Len(a),
           \A s \in 1 .. Len(a) : IF s <= n THEN a[s] = Param(s - 1) ELSE a[s].argument = NotArgument
    PROVE  /\ n \in 0 .. Len(a \o b)
           /\ \A s \in DOMAIN (a \o b) :
                 IF s <= n THEN (a \o b)[s] = Param(s - 1) ELSE (a \o b)[s].argument = NotArgument
<1> DEFINE both == a \o b
<1>1. /\ both \in Seq(Slot) /\ Len(both) = Len(a) + Len(b) /\ Len(a) \in Nat /\ Len(b) \in Nat
      /\ \A i \in 1 .. Len(a) + Len(b) : both[i] = IF i <= Len(a) THEN a[i] ELSE b[i - Len(a)]
    BY ConcatProperties
<1> HIDE DEF both
<1>2. DOMAIN both = 1 .. Len(a) + Len(b)
    BY <1>1
<1>3. n \in 0 .. Len(both)
    BY <1>1
<1>4. \A s \in DOMAIN both : IF s <= n THEN both[s] = Param(s - 1) ELSE both[s].argument = NotArgument
    BY SMTT(30), <1>1, <1>2
<1> QED
    BY <1>3, <1>4 DEF both

LEMMA ParamInitInv == PlanInit => ParamInv
<1> SUFFICES ASSUME PlanInit PROVE ParamInv
    OBVIOUS
<1>1. PICK n \in StackParams, locals \in Locals :
          slots = [i \in 1 .. n |-> Param(i - 1)] \o [i \in 1 .. Len(locals) |-> Variable(locals[i])]
    BY DEF PlanInit
<1> DEFINE given == [i \in 1 .. n |-> Param(i - 1)]
           own == [i \in 1 .. Len(locals) |-> Variable(locals[i])]
<1>2. n \in Nat /\ locals \in Seq(Lengths)
    BY FrameAssumption
<1>3. given \in Seq(Slot) /\ Len(given) = n /\ \A s \in 1 .. n : given[s] = Param(s - 1)
    BY <1>2 DEF Param, Slot, Lengths, NotArgument
<1>4. own \in Seq(Slot) /\ \A s \in 1 .. Len(own) : own[s].argument = NotArgument
    BY <1>2 DEF Variable, Slot, NotArgument
<1>5. slots = given \o own
    BY <1>1
<1> HIDE DEF given, own
<1>6. n \in 0 .. Len(given) /\ 1 .. Len(given) = 1 .. n
    BY <1>2, <1>3
<1>7. ParamsFirst
    <2>1. \A s \in 1 .. Len(given) : IF s <= n THEN given[s] = Param(s - 1) ELSE given[s].argument = NotArgument
        BY <1>2, <1>3
    <2>2. /\ n \in 0 .. Len(slots)
          /\ \A s \in Slots : IF s <= n THEN slots[s] = Param(s - 1) ELSE slots[s].argument = NotArgument
        BY <1>3, <1>4, <1>5, <1>6, <2>1, VariablesBehind, Zenon DEF Slots
    <2> QED
        BY <2>2 DEF ParamsFirst, IsParam
<1> QED
    BY <1>7 DEF PlanInit, ParamInv, PlacedWords, ParamsAbove, Placed, Final

LEMMA ParamAllocateInv ==
    ASSUME PlanInv, ParamInv, Allocate
    PROVE  ParamInv'
<1>1. PICK spills \in {<<>>} \cup {<<a>> : a \in {4, 8}} \cup {<<a, b>> : a, b \in {4, 8}} :
          slots' = slots \o [i \in 1 .. Len(spills) |-> Variable(spills[i])]
    BY DEF Allocate
<1> DEFINE more == [i \in 1 .. Len(spills) |-> Variable(spills[i])]
<1>2. Len(spills) \in Nat /\ \A i \in 1 .. Len(spills) : spills[i] \in {4, 8}
    OBVIOUS
<1>3. more \in Seq(Slot) /\ \A s \in 1 .. Len(more) : more[s].argument = NotArgument
    BY <1>2 DEF Variable, Slot, NotArgument, Lengths
<1>4. slots' = slots \o more
    BY <1>1
<1> HIDE DEF more
<1>5. slots \in Seq(Slot) /\ Slots = 1 .. Len(slots)
    BY DEF PlanInv, PlanTypeOK, Slots
<1>6. PICK n \in 0 .. Len(slots) :
          \A s \in Slots : IF s <= n THEN slots[s] = Param(s - 1) ELSE slots[s].argument = NotArgument
    BY DEF ParamInv, ParamsFirst, IsParam
<1>7. ParamsFirst'
    <2>1. /\ n \in 0 .. Len(slots')
          /\ \A s \in Slots' : IF s <= n THEN slots'[s] = Param(s - 1) ELSE slots'[s].argument = NotArgument
        <3>1. \A s \in 1 .. Len(slots) :
                  IF s <= n THEN slots[s] = Param(s - 1) ELSE slots[s].argument = NotArgument
            BY <1>5, <1>6
        <3>2. n \in 0 .. Len(slots \o more) /\ \A s \in DOMAIN (slots \o more) :
                  IF s <= n THEN (slots \o more)[s] = Param(s - 1)
                            ELSE (slots \o more)[s].argument = NotArgument
            BY <3>1, <1>3, <1>5, <1>6, VariablesBehind
        <3>3. Slots' = DOMAIN (slots \o more)
            BY <1>4 DEF Slots
        <3> QED
            BY <3>2, <3>3, <1>4
    <2> QED
        BY <2>1 DEF ParamsFirst, IsParam
<1> QED
    BY <1>7 DEF Allocate, ParamInv, PlacedWords, ParamsAbove, Placed, Final

LEMMA ParamPlaceInv ==
    ASSUME PlanInv, ParamInv, phase = "place", NEW s \in waiting, NEW place \in Nat,
           place % 4 = 0, PlaceAt(s, place)
    PROVE  ParamInv'
<1>1. Placed' = Placed \cup {s} /\ s \in Slots /\ s \notin Placed /\ Placed \subseteq Slots
    BY DEF PlaceAt, PlanInv, PlanTypeOK, Slots, Variables, IsParam, Placed
<1>2. slots[s] \in Slot
    BY <1>1 DEF PlanInv, PlanTypeOK, Slots
<1>3. spoff' % 4 = 0
    BY <1>2 DEF PlaceAt, Slot, Lengths
<1>4. \A t \in Placed' : off'[t] % 4 = 0
    BY <1>1 DEF PlaceAt, PlanInv, PlanTypeOK, ParamInv, PlacedWords
<1> QED
    BY <1>3, <1>4, ParamInvStays DEF PlaceAt, PlacedWords, Final

LEMMA ParamNextInv == PlanInv /\ ParamInv /\ [PlanNext]_planVars => ParamInv'
<1> SUFFICES ASSUME PlanInv, ParamInv, [PlanNext]_planVars PROVE ParamInv'
    OBVIOUS
<1>1. spoff \in Nat /\ spoff % 4 = 0
    BY DEF PlanInv, PlanTypeOK, ParamInv, PlacedWords
<1>2. CASE Rewrite
    <2>1. PlacedWords'
        BY <1>2 DEF Rewrite, ParamInv, PlacedWords, Placed, Variables, Slots, IsParam
    <2> QED
        BY <1>2, <2>1, ParamInvStays DEF Rewrite, Final
<1>3. CASE Allocate
    BY <1>3, ParamAllocateInv
<1>4. ASSUME NEW s \in waiting, PlaceShort(s)
      PROVE  ParamInv'
    <2>1. RoundUp(8, spoff) \in Nat /\ RoundUp(8, spoff) % 4 = 0
        BY <1>1, SMT DEF RoundUp
    <2>2. CASE slots[s].len = 8
        BY <1>4, <2>1, <2>2, ParamPlaceInv DEF PlaceShort
    <2>3. CASE slots[s].len /= 8
        BY <1>1, <1>4, <2>3, ParamPlaceInv DEF PlaceShort
    <2> QED
        BY <2>2, <2>3
<1>5. ASSUME NEW s \in waiting, PlaceLong(s)
      PROVE  ParamInv'
    BY <1>1, <1>5, ParamPlaceInv DEF PlaceLong
<1>6. CASE SizeFrame
    <2>1. ParamsFirst'
        BY <1>6 DEF SizeFrame, ParamInv, ParamsFirst, Slots, IsParam
    <2>2. PlacedWords'
        BY <1>6 DEF SizeFrame, ParamInv, PlacedWords, Placed, Variables, Slots, IsParam
    <2>3. ParamsAbove'
        BY <1>6 DEF SizeFrame, ParamsAbove, Arguments, Slots, IsParam
    <2> QED
        BY <2>1, <2>2, <2>3 DEF ParamInv
<1>7. CASE UNCHANGED planVars
    <2>1. PlacedWords'
        BY <1>7 DEF planVars, ParamInv, PlacedWords, Placed, Variables, Slots, IsParam
    <2> QED
        BY <1>7, <2>1, ParamInvStays DEF planVars, Final
<1> QED
    BY <1>2, <1>3, <1>4, <1>5, <1>6, <1>7 DEF PlanNext

-----------------------------------------------------------------------------

(* Running the function leaves its plan alone. *)
LEMMA StepsPlan == [Next]_vars => [PlanNext]_planVars
BY DEF Next, PlanStep, RunStep, vars

LEMMA PlanAlways == Spec => []PlanInv
<1>1. Init => PlanInv
    BY PlanInitInv DEF Init
<1>2. PlanInv /\ [Next]_vars => PlanInv'
    BY PlanNextInv, StepsPlan
<1> QED
    BY <1>1, <1>2, PTL DEF Spec

(* In the frame a function runs with, variables are disjoint, aligned and  *)
(* below the saved registers (RLPlanner::GenerateStackInfo).               *)
THEOREM LayoutIsSound == Spec => []LayoutSound
    BY PlanAlways, PlanInvSuffices, PTL

(* Spill code of every round reaches the slots where they are in the end   *)
(* (UopLoad::Rewrite, UopStore::Rewrite).                                  *)
THEOREM SpillCodeIsRight == Spec => []SpillCodeFindsSlots
<1>1. PlanInv => SpillCodeFindsSlots
    BY DEF PlanInv
<1> QED
    BY <1>1, PlanAlways, PTL

-----------------------------------------------------------------------------

StackArgs == Cardinality(Arguments)

(* The finished frame, as far as running the function is concerned.        *)
Laid ==
    /\ total \in Nat /\ total % 16 = 0 /\ SaveCount \in Nat /\ StackArgs \in Nat
    /\ 8 * SaveCount <= total
    /\ \A s \in Variables :
          /\ off[s] \in Nat /\ off[s] % 4 = 0
          /\ slots[s].len \in Nat /\ slots[s].len >= 4
          /\ off[s] + slots[s].len <= total - 8 * SaveCount
    /\ \A s, t \in Variables : s /= t => Apart(s, t)
    /\ \A s \in Arguments :
          /\ slots[s].argument \in Nat /\ slots[s].argument < StackArgs
          /\ off[s] = total + 8 * slots[s].argument
    /\ \A s, t \in Arguments : s /= t => slots[s].argument /= slots[t].argument
    /\ \A a \in access : a.slot \in Slots /\ a.off = off[a.slot]

(* Arguments are numbered from zero without gaps.                          *)
LEMMA ArgumentsNumbered ==
    ASSUME PlanInv, ParamInv
    PROVE  /\ StackArgs \in Nat
           /\ \A s \in Arguments : slots[s].argument \in Nat /\ slots[s].argument < StackArgs
           /\ \A s, t \in Arguments : s /= t => slots[s].argument /= slots[t].argument
<1>1. Slots = 1 .. Len(slots) /\ Len(slots) \in Nat
    BY DEF PlanInv, PlanTypeOK, Slots
<1>2. PICK n \in 0 .. Len(slots) :
          \A s \in Slots : IF s <= n THEN slots[s] = Param(s - 1) ELSE ~IsParam(s)
    BY DEF ParamInv, ParamsFirst
<1>3. ASSUME NEW s \in Slots
      PROVE  IsParam(s) <=> s <= n
    <2>1. s <= n => slots[s].argument = s - 1
        <3>1. Param(s - 1).argument = s - 1
            BY DEF Param
        <3> QED
            BY <1>2, <3>1
    <2> QED
        BY <1>1, <1>2, <2>1 DEF IsParam, NotArgument
<1>4. Arguments = 1 .. n
    BY <1>1, <1>2, <1>3 DEF Arguments
<1>5. StackArgs = n
    <2>1. n \in Int /\ 1 \in Int
        BY <1>1, <1>2
    <2>2. Cardinality(1 .. n) = IF 1 > n THEN 0 ELSE n - 1 + 1
        BY <2>1, FS_Interval
    <2> QED
        BY <1>1, <1>2, <1>4, <2>2 DEF StackArgs
<1>6. \A s \in Arguments : s \in 1 .. n /\ slots[s].argument = s - 1
    <2>1. \A s \in Arguments : s \in Slots /\ s \in 1 .. n
        BY <1>4 DEF Arguments
    <2>2. \A s \in Slots : Param(s - 1).argument = s - 1
        BY DEF Param
    <2> QED
        BY <1>1, <1>2, <2>1, <2>2
<1> QED
    BY <1>1, <1>2, <1>5, <1>6

LEMMA FinishedIsLaid ==
    ASSUME PlanInv, ParamInv, phase = "done"
    PROVE  Laid
<1>1. /\ Sized /\ Placed = Variables /\ LayoutSound
      /\ spoff \in Nat /\ total \in Nat /\ SaveCount \in Nat
    BY SaveCountIsNat, PlanInvSuffices DEF PlanInv, PlanTypeOK, Final, Sized, Placed
<1>2. 8 * SaveCount <= total /\ total % 16 = 0
    BY <1>1 DEF Sized
<1>3. ASSUME NEW s \in Variables
      PROVE  /\ off[s] \in Nat /\ off[s] % 4 = 0
             /\ slots[s].len \in Nat /\ slots[s].len >= 4
             /\ off[s] + slots[s].len <= total - 8 * SaveCount
    <2>1. s \in Slots
        BY DEF Variables
    <2>2. slots[s] \in Slot
        BY <2>1 DEF PlanInv, PlanTypeOK, Slots
    <2>3. slots[s].len \in Nat /\ slots[s].len >= 4
        BY <2>2 DEF Slot, Lengths
    <2> QED
        BY <1>1, <2>1, <2>3, SlotLength DEF PlanInv, ParamInv, PlacedWords, LayoutSound
<1>4. \A s \in Arguments : off[s] = total + 8 * slots[s].argument
    BY DEF ParamInv, ParamsAbove, Final
<1>5. \A a \in access : a.slot \in Slots /\ a.off = off[a.slot]
    BY DEF PlanInv, PlanTypeOK, SpillCodeFindsSlots
<1> QED
    BY <1>1, <1>2, <1>3, <1>4, <1>5, ArgumentsNumbered DEF Laid, LayoutSound

(* What Call lowers sp by holds the saved registers and the arguments.     *)
LEMMA RoomForCall ==
    ASSUME Laid, NEW n \in Nat
    PROVE  StackTop(n) \in Nat /\ StackTop(n) % 16 = 0 /\ StackTop(n) >= 8 * n + 8 * StackArgs
<1>1. 8 * n + 8 * StackArgs \in Nat
    BY DEF Laid
<1> QED
    BY <1>1, RoundUp16 DEF StackTop, StackArgs

-----------------------------------------------------------------------------

(* No store of the set reaches between low and high.                       *)
Clear(stores, low, high) ==
    \A t \in stores : t.at \in Int /\ t.len \in Nat /\ (t.at + t.len <= low \/ high <= t.at)

(* A store is found again if no other one reaches its words.               *)
LEMMA StoreIsFound ==
    ASSUME NEW m, NEW stores, NEW s \in stores, s.at \in Int, s.len \in Nat,
           Clear(stores \ {s}, s.at, s.at + s.len)
    PROVE  Holds(Stored(m, stores), s.at, s.len, s.value)
<1> SUFFICES ASSUME NEW a \in Words(s.at, s.len)
             PROVE  a \in DOMAIN Stored(m, stores) /\ Stored(m, stores)[a] = s.value
    BY DEF Holds
<1>1. \A t \in stores : a \in Words(t.at, t.len) => t = s
    BY DEF Words, Clear
<1>2. a \in UNION {Words(t.at, t.len) : t \in stores}
    OBVIOUS
<1>3. (CHOOSE t \in stores : a \in Words(t.at, t.len)) = s
    BY <1>1
<1> QED
    BY <1>2, <1>3 DEF Stored

(* Stores elsewhere change nothing.                                        *)
LEMMA StoresElsewhere ==
    ASSUME NEW m, NEW stores, NEW address \in Int, NEW len \in Nat, NEW value,
           Holds(m, address, len, value), Clear(stores, address, address + len)
    PROVE  Holds(Stored(m, stores), address, len, value)
<1> SUFFICES ASSUME NEW a \in Words(address, len)
             PROVE  a \in DOMAIN Stored(m, stores) /\ Stored(m, stores)[a] = value
    BY DEF Holds
<1>1. \A t \in stores : a \notin Words(t.at, t.len)
    BY DEF Words, Clear
<1>2. a \notin UNION {Words(t.at, t.len) : t \in stores}
    BY <1>1
<1>3. a \in DOMAIN m /\ m[a] = value
    BY DEF Holds
<1> QED
    BY <1>2, <1>3 DEF Stored

(* Memory stays one of words.                                              *)
LEMMA StoresOfWords ==
    ASSUME NEW m, \A x \in DOMAIN m : x \in Int /\ x % 4 = 0,
           NEW stores, \A t \in stores : t.at \in Int /\ t.at % 4 = 0 /\ t.len \in Nat
    PROVE  \A x \in DOMAIN Stored(m, stores) : x \in Int /\ x % 4 = 0
<1>1. DOMAIN Stored(m, stores) = DOMAIN m \cup UNION {Words(t.at, t.len) : t \in stores}
    BY DEF Stored
<1>2. ASSUME NEW t \in stores, NEW x \in Words(t.at, t.len)
      PROVE  x \in Int /\ x % 4 = 0
    BY DEF Words
<1> QED
    BY <1>1, <1>2

-----------------------------------------------------------------------------

(* What frame d finds, counted from its sp at entry or in its body.        *)
Given(m, place, d) ==
    \A s \in Arguments : Holds(m, place + 8 * slots[s].argument, 8, <<"argument", d, s>>)

Saved(m, place, d) == \A i \in 1 .. SaveCount : Holds(m, place + SavedAt(i), 8, <<"saved", d, i>>)

Filled(m, place, d) ==
    \A s \in Variables : Holds(m, place + off[s], slots[s].len, <<"variable", d, s>>)

Kept(m, place, n, d) == \A i \in 1 .. n : Holds(m, place - 8 * i, 8, <<"kept", d, i>>)

LEMMA GivenStays ==
    ASSUME Laid, NEW m, NEW stores, NEW place \in Int, NEW d, Given(m, place, d),
           Clear(stores, place, place + 8 * StackArgs)
    PROVE  Given(Stored(m, stores), place, d)
<1> SUFFICES ASSUME NEW s \in Arguments
             PROVE  Holds(Stored(m, stores), place + 8 * slots[s].argument, 8, <<"argument", d, s>>)
    BY DEF Given
<1> DEFINE address == place + 8 * slots[s].argument
<1>1. slots[s].argument \in Nat /\ slots[s].argument < StackArgs /\ StackArgs \in Nat
    BY DEF Laid
<1>2. address \in Int /\ Clear(stores, address, address + 8)
    BY <1>1 DEF Clear
<1>3. Holds(m, address, 8, <<"argument", d, s>>)
    BY DEF Given
<1> QED
    BY <1>2, <1>3, StoresElsewhere

LEMMA SavedStays ==
    ASSUME Laid, NEW m, NEW stores, NEW place \in Int, NEW d, Saved(m, place, d),
           Clear(stores, place - 8 * SaveCount, place)
    PROVE  Saved(Stored(m, stores), place, d)
<1> SUFFICES ASSUME NEW i \in 1 .. SaveCount
             PROVE  Holds(Stored(m, stores), place + SavedAt(i), 8, <<"saved", d, i>>)
    BY DEF Saved
<1> DEFINE address == place + SavedAt(i)
<1>1. SaveCount \in Nat
    BY DEF Laid
<1>2. address \in Int /\ Clear(stores, address, address + 8)
    BY <1>1 DEF Clear, SavedAt
<1>3. Holds(m, address, 8, <<"saved", d, i>>)
    BY DEF Saved
<1> QED
    BY <1>2, <1>3, StoresElsewhere

LEMMA FilledStays ==
    ASSUME Laid, NEW m, NEW stores, NEW place \in Int, NEW d, Filled(m, place, d),
           Clear(stores, place, place + total - 8 * SaveCount)
    PROVE  Filled(Stored(m, stores), place, d)
<1> SUFFICES ASSUME NEW s \in Variables
             PROVE  Holds(Stored(m, stores), place + off[s], slots[s].len, <<"variable", d, s>>)
    BY DEF Filled
<1> DEFINE address == place + off[s]
<1>1. /\ off[s] \in Nat /\ slots[s].len \in Nat /\ total \in Nat /\ SaveCount \in Nat
      /\ off[s] + slots[s].len <= total - 8 * SaveCount
    BY DEF Laid
<1>2. address \in Int /\ Clear(stores, address, address + slots[s].len)
    BY <1>1 DEF Clear
<1>3. Holds(m, address, slots[s].len, <<"variable", d, s>>)
    BY DEF Filled
<1> QED
    BY <1>1, <1>2, <1>3, StoresElsewhere

LEMMA KeptStays ==
    ASSUME NEW m, NEW stores, NEW place \in Int, NEW n \in Nat, NEW d, Kept(m, place, n, d),
           Clear(stores, place - 8 * n, place)
    PROVE  Kept(Stored(m, stores), place, n, d)
<1> SUFFICES ASSUME NEW i \in 1 .. n
             PROVE  Holds(Stored(m, stores), place - 8 * i, 8, <<"kept", d, i>>)
    BY DEF Kept
<1> DEFINE address == place - 8 * i
<1>1. address \in Int /\ Clear(stores, address, address + 8)
    BY DEF Clear
<1>2. Holds(m, address, 8, <<"kept", d, i>>)
    BY DEF Kept
<1> QED
    BY <1>1, <1>2, StoresElsewhere

(* The stores that put these things there.                                 *)
LEMMA PassedIsGiven ==
    ASSUME Laid, NEW m, NEW others, NEW place \in Int, NEW d, Clear(others, place, place + 8 * StackArgs)
    PROVE  Given(Stored(m, others \cup Passed(place, d)), place, d)
<1> DEFINE stores == others \cup Passed(place, d)
<1> SUFFICES ASSUME NEW s \in Arguments
             PROVE  Holds(Stored(m, stores), place + 8 * slots[s].argument, 8, <<"argument", d, s>>)
    BY DEF Given
<1> DEFINE store == [at |-> place + 8 * slots[s].argument, len |-> 8, value |-> <<"argument", d, s>>]
<1>1. \A x \in Arguments : slots[x].argument \in Nat /\ slots[x].argument < StackArgs
    BY DEF Laid
<1>2. store \in stores /\ store.at \in Int /\ StackArgs \in Nat
    BY <1>1 DEF Passed, Laid
<1>3. ASSUME NEW t \in stores \ {store}
      PROVE  t.at \in Int /\ t.len \in Nat /\ (t.at + t.len <= store.at \/ store.at + 8 <= t.at)
    <2>1. CASE t \in others
        BY <1>1, <1>2, <2>1 DEF Clear
    <2>2. CASE t \in Passed(place, d)
        <3> PICK x \in Arguments :
                t = [at |-> place + 8 * slots[x].argument, len |-> 8, value |-> <<"argument", d, x>>]
            BY <2>2 DEF Passed
        <3>1. slots[x].argument /= slots[s].argument
            BY <1>3 DEF Laid
        <3> QED
            BY <1>1, <3>1
    <2> QED
        BY <2>1, <2>2
<1>4. Clear(stores \ {store}, store.at, store.at + store.len)
    BY <1>3 DEF Clear
<1>5. Holds(Stored(m, stores), store.at, store.len, store.value)
    <2> HIDE DEF stores, store
    <2>1. store.len \in Nat
        BY DEF store
    <2> QED
        BY <1>2, <1>4, <2>1, StoreIsFound
<1> QED
    BY <1>5

LEMMA StoresKeep ==
    ASSUME NEW m, NEW others, NEW place \in Int, NEW n \in Nat, NEW d,
           Clear(others, place - 8 * n, place)
    PROVE  Kept(Stored(m, {[at |-> place - 8 * i, len |-> 8, value |-> <<"kept", d, i>>] : i \in 1 .. n}
                          \cup others), place, n, d)
<1> DEFINE stores == {[at |-> place - 8 * i, len |-> 8, value |-> <<"kept", d, i>>] : i \in 1 .. n} \cup others
<1> SUFFICES ASSUME NEW i \in 1 .. n
             PROVE  Holds(Stored(m, stores), place - 8 * i, 8, <<"kept", d, i>>)
    BY DEF Kept
<1> DEFINE store == [at |-> place - 8 * i, len |-> 8, value |-> <<"kept", d, i>>]
<1>1. store \in stores /\ store.at \in Int
    <2>1. store \in stores
        BY Zenon
    <2>2. store.at \in Int
        OBVIOUS
    <2> QED
        BY <2>1, <2>2
<1>2. ASSUME NEW t \in stores \ {store}
      PROVE  t.at \in Int /\ t.len \in Nat /\ (t.at + t.len <= store.at \/ store.at + 8 <= t.at)
    <2>1. CASE t \in others
        BY <2>1 DEF Clear
    <2>2. CASE t \notin others
        <3> PICK j \in 1 .. n : t = [at |-> place - 8 * j, len |-> 8, value |-> <<"kept", d, j>>]
            BY <2>2
        <3>1. j /= i
            BY <1>2
        <3> QED
            BY <3>1
    <2> QED
        BY <2>1, <2>2
<1>3. Clear(stores \ {store}, store.at, store.at + store.len)
    BY <1>2 DEF Clear
<1>4. Holds(Stored(m, stores), store.at, store.len, store.value)
    <2> HIDE DEF stores, store
    <2>1. store.len \in Nat
        BY DEF store
    <2> QED
        BY <1>1, <1>3, <2>1, StoreIsFound
<1> QED
    BY <1>4

LEMMA StoresSave ==
    ASSUME NEW m, NEW place \in Int, NEW n \in Nat, NEW d, n = SaveCount
    PROVE  Saved(Stored(m, {[at |-> place + SavedAt(i), len |-> 8, value |-> <<"saved", d, i>>] :
                               i \in 1 .. SaveCount}), place, d)
<1> DEFINE stores == {[at |-> place + SavedAt(i), len |-> 8, value |-> <<"saved", d, i>>] : i \in 1 .. SaveCount}
<1> SUFFICES ASSUME NEW i \in 1 .. n
             PROVE  Holds(Stored(m, stores), place + SavedAt(i), 8, <<"saved", d, i>>)
    BY DEF Saved
<1> DEFINE store == [at |-> place + SavedAt(i), len |-> 8, value |-> <<"saved", d, i>>]
<1>1. store \in stores /\ store.at \in Int
    <2>1. store \in stores
        BY Zenon
    <2>2. store.at \in Int
        BY DEF SavedAt
    <2> QED
        BY <2>1, <2>2
<1>2. ASSUME NEW t \in stores \ {store}
      PROVE  t.at \in Int /\ t.len \in Nat /\ (t.at + t.len <= store.at \/ store.at + 8 <= t.at)
    <2> PICK j \in 1 .. n : t = [at |-> place + SavedAt(j), len |-> 8, value |-> <<"saved", d, j>>]
        OBVIOUS
    <2>1. j /= i
        BY <1>2
    <2> QED
        BY <2>1 DEF SavedAt
<1>3. Clear(stores \ {store}, store.at, store.at + store.len)
    BY <1>2 DEF Clear
<1>4. Holds(Stored(m, stores), store.at, store.len, store.value)
    <2> HIDE DEF stores, store
    <2>1. store.len \in Nat
        BY DEF store
    <2> QED
        BY <1>1, <1>3, <2>1, StoreIsFound
<1> QED
    BY <1>4

LEMMA StoresFill ==
    ASSUME Laid, NEW m, NEW place \in Int, NEW d
    PROVE  Filled(Stored(m, {[at |-> place + off[s], len |-> slots[s].len, value |-> <<"variable", d, s>>] :
                                s \in Variables}), place, d)
<1> DEFINE stores == {[at |-> place + off[s], len |-> slots[s].len, value |-> <<"variable", d, s>>] : s \in Variables}
<1> SUFFICES ASSUME NEW s \in Variables
             PROVE  Holds(Stored(m, stores), place + off[s], slots[s].len, <<"variable", d, s>>)
    BY DEF Filled
<1> DEFINE store == [at |-> place + off[s], len |-> slots[s].len, value |-> <<"variable", d, s>>]
<1>1. \A x \in Variables : off[x] \in Nat /\ slots[x].len \in Nat
    BY DEF Laid
<1>2. store \in stores /\ store.at \in Int /\ store.len \in Nat
    BY <1>1
<1>3. ASSUME NEW t \in stores \ {store}
      PROVE  t.at \in Int /\ t.len \in Nat /\ (t.at + t.len <= store.at \/ store.at + store.len <= t.at)
    <2> PICK x \in Variables :
            t = [at |-> place + off[x], len |-> slots[x].len, value |-> <<"variable", d, x>>]
        OBVIOUS
    <2>1. x /= s
        BY <1>3
    <2>2. Apart(x, s)
        BY <2>1 DEF Laid
    <2> QED
        BY <1>1, <2>2 DEF Apart
<1>4. Clear(stores \ {store}, store.at, store.at + store.len)
    BY <1>3 DEF Clear
<1>5. Holds(Stored(m, stores), store.at, store.len, store.value)
    <2> HIDE DEF stores, store
    <2> QED
        BY <1>2, <1>4, StoreIsFound
<1> QED
    BY <1>5

-----------------------------------------------------------------------------

(* What belongs to frame d: above its sp, and the registers kept below it. *)
Above(f, m, d) ==
    /\ Given(m, f[d].sp + total, d)
    /\ Saved(m, f[d].sp + total, d)
    /\ f[d].filled => Filled(m, f[d].sp, d)

Owned(f, m, d) == Above(f, m, d) /\ Kept(m, f[d].sp, f[d].saves, d)

(* All of this lies above the arguments of all further frames.             *)
End(f, d) == f[d].sp - 8 * f[d].saves

Nested(f) == \A d, e \in DOMAIN f : d < e => f[e].sp + total + 8 * StackArgs <= End(f, d)

(* Every frame begins where its caller lowered sp to.                      *)
Chained(f) == \A d \in DOMAIN f : f[d].sp + total = SpAt(f, d) /\ f[d].sp % 16 = 0

Pointer(p, m, f, a) ==
    /\ a = "planning" => f = <<>> /\ p = 0
    /\ a = "entry" => /\ p = SpAt(f, Len(f) + 1)
                      /\ Given(m, p, Len(f) + 1)
                      /\ \A d \in DOMAIN f : p + 8 * StackArgs <= End(f, d)
    /\ a = "body" => f /= <<>> /\ p = f[Len(f)].sp
    /\ a = "returned" => f /= <<>> /\ p = f[Len(f)].sp + total
    /\ a = "stopped" => f = <<>>

Stack(m, f) ==
    /\ \A x \in DOMAIN m : x \in Int /\ x % 4 = 0
    /\ f \in Seq(Frame)
    /\ Nested(f)
    /\ Chained(f)
    /\ \A d \in DOMAIN f : Owned(f, m, d)

RunInv(p, m, f, a) ==
    /\ p \in Int /\ p % 16 = 0
    /\ a \in {"planning", "entry", "body", "returned", "stopped"}
    /\ Pointer(p, m, f, a)
    /\ Stack(m, f)

LEMMA FrameFacts ==
    ASSUME NEW f \in Seq(Frame), NEW d \in DOMAIN f
    PROVE  /\ f[d] \in Frame /\ f[d].sp \in Int /\ f[d].saves \in Nat /\ f[d].saves \in 0 .. MaxSaves
           /\ f[d].filled \in BOOLEAN /\ End(f, d) \in Int /\ End(f, d) <= f[d].sp
           /\ d \in Nat /\ d >= 1 /\ d <= Len(f) /\ Len(f) \in Nat
<1>1. f[d] \in Frame /\ d \in 1 .. Len(f) /\ Len(f) \in Nat
    OBVIOUS
<1>2. f[d].sp \in Int /\ f[d].saves \in 0 .. MaxSaves /\ f[d].filled \in BOOLEAN
    BY <1>1 DEF Frame
<1> QED
    BY <1>1, <1>2, BoundsAssumption DEF End

(* Stores below frame d, or in no part of what lies above its sp.          *)
LEMMA AboveStays ==
    ASSUME Laid, NEW f \in Seq(Frame), NEW d \in DOMAIN f, NEW m, Above(f, m, d), NEW stores,
           \A t \in stores : t.at \in Int /\ t.len \in Nat /\ t.at + t.len <= f[d].sp
    PROVE  Above(f, Stored(m, stores), d)
<1>1. f[d].sp \in Int /\ total \in Nat /\ SaveCount \in Nat /\ StackArgs \in Nat /\ 8 * SaveCount <= total
    BY FrameFacts DEF Laid
<1> DEFINE place == f[d].sp + total
<1>2. place \in Int
    BY <1>1
<1>3. /\ Clear(stores, place, place + 8 * StackArgs)
      /\ Clear(stores, place - 8 * SaveCount, place)
      /\ Clear(stores, f[d].sp, f[d].sp + total - 8 * SaveCount)
    <2>1. ASSUME NEW t \in stores
          PROVE  /\ t.at \in Int /\ t.len \in Nat /\ t.at + t.len <= place
                 /\ t.at + t.len <= place - 8 * SaveCount
        BY <1>1
    <2> QED
        BY <2>1 DEF Clear
<1> HIDE DEF place
<1>4. Given(m, place, d) => Given(Stored(m, stores), place, d)
    BY <1>2, <1>3, GivenStays
<1>5. Saved(m, place, d) => Saved(Stored(m, stores), place, d)
    BY <1>2, <1>3, SavedStays
<1>6. Filled(m, f[d].sp, d) => Filled(Stored(m, stores), f[d].sp, d)
    BY <1>1, <1>3, FilledStays
<1> QED
    BY <1>4, <1>5, <1>6 DEF Above, place

LEMMA OwnedStays ==
    ASSUME Laid, NEW f \in Seq(Frame), NEW d \in DOMAIN f, NEW m, Owned(f, m, d), NEW stores,
           \A t \in stores : t.at \in Int /\ t.len \in Nat /\ t.at + t.len <= End(f, d)
    PROVE  Owned(f, Stored(m, stores), d)
<1>1. /\ f[d].sp \in Int /\ f[d].saves \in Nat /\ End(f, d) \in Int /\ End(f, d) <= f[d].sp
    BY FrameFacts
<1>2. Above(f, Stored(m, stores), d)
    BY <1>1, AboveStays DEF Owned
<1>3. Clear(stores, f[d].sp - 8 * f[d].saves, f[d].sp)
    BY <1>1 DEF Clear, End
<1>4. Kept(Stored(m, stores), f[d].sp, f[d].saves, d)
    BY <1>1, <1>3, KeptStays DEF Owned
<1> QED
    BY <1>2, <1>4 DEF Owned

(* sp at the entry of a frame depends on the frames before it.             *)
LEMMA SameEntry ==
    ASSUME NEW f, NEW g, NEW d \in Nat, d >= 1, d > 1 => f[d - 1].sp = g[d - 1].sp /\ f[d - 1].saves = g[d - 1].saves
    PROVE  SpAt(f, d) = SpAt(g, d)
BY DEF SpAt

LEMMA NextEntry ==
    ASSUME NEW f, NEW d \in Nat, d >= 1
    PROVE  SpAt(f, d + 1) = f[d].sp - StackTop(f[d].saves)
<1>1. d + 1 /= 1 /\ (d + 1) - 1 = d
    OBVIOUS
<1> QED
    BY <1>1 DEF SpAt

(* Changing the registers or the contents of the last frame.               *)
LEMMA TopChanges ==
    ASSUME NEW f \in Seq(Frame), f /= <<>>, NEW r \in Frame, NEW g, g = [f EXCEPT ![Len(f)] = r]
    PROVE  /\ g \in Seq(Frame) /\ Len(g) = Len(f) /\ DOMAIN g = DOMAIN f /\ g /= <<>>
           /\ Len(f) \in DOMAIN f /\ g[Len(f)] = r
           /\ \A d \in DOMAIN f : d /= Len(f) => g[d] = f[d]
<1>1. Len(f) \in Nat /\ DOMAIN f = 1 .. Len(f) /\ Len(f) \in DOMAIN f
    OBVIOUS
<1>2. g \in Seq(Frame)
    BY <1>1
<1>3. DOMAIN g = DOMAIN f
    OBVIOUS
<1>4. Len(g) = Len(f)
    BY <1>1, <1>2, <1>3
<1> QED
    BY <1>1, <1>2, <1>3, <1>4

-----------------------------------------------------------------------------

Run == RunInv(sp, memory, frames, at)

LEMMA StartInv ==
    ASSUME Laid, Run, Start
    PROVE  RunInv(sp', memory', frames', at')
<1>1. /\ sp = 0 /\ frames = <<>> /\ sp' = 0 /\ frames' = <<>> /\ at' = "entry"
      /\ memory' = Stored(memory, {} \cup Passed(0, 1))
    BY DEF Start, Run, RunInv, Stack, Pointer
<1>2. Len(frames') = 0 /\ DOMAIN frames' = {} /\ SpAt(frames', 1) = 0
    BY <1>1 DEF SpAt
<1>3. Given(memory', 0, 1)
    <2>1. Clear({}, 0, 0 + 8 * StackArgs)
        BY DEF Clear
    <2> QED
        BY <1>1, <2>1, PassedIsGiven
<1>4. \A x \in DOMAIN memory' : x \in Int /\ x % 4 = 0
    <2>1. ASSUME NEW t \in Passed(0, 1)
          PROVE  t.at \in Int /\ t.at % 4 = 0 /\ t.len \in Nat
        BY DEF Passed, Laid
    <2>2. memory' = Stored(memory, Passed(0, 1))
        BY <1>1
    <2> QED
        BY <2>1, <2>2, StoresOfWords DEF Run, RunInv, Stack
<1> QED
    BY <1>1, <1>2, <1>3, <1>4 DEF RunInv, Stack, Run, Pointer, Nested, Chained

LEMMA PrologueInv ==
    ASSUME Laid, Run, Prologue
    PROVE  RunInv(sp', memory', frames', at')
<1> DEFINE n == Len(frames)
           stores == {[at |-> sp + SavedAt(i), len |-> 8, value |-> <<"saved", n + 1, i>>] : i \in 1 .. SaveCount}
           new == [sp |-> sp', saves |-> 0, filled |-> FALSE]
<1>1. /\ memory' = Stored(memory, stores) /\ sp' = sp - total /\ frames' = Append(frames, new) /\ at' = "body"
      /\ at = "entry"
    BY DEF Prologue, Depth
<1>2. /\ sp \in Int /\ sp % 16 = 0 /\ frames \in Seq(Frame) /\ n \in Nat /\ DOMAIN frames = 1 .. n
      /\ sp = SpAt(frames, n + 1) /\ Given(memory, sp, n + 1)
      /\ \A d \in DOMAIN frames : sp + 8 * StackArgs <= End(frames, d)
    BY <1>1 DEF Run, RunInv, Stack, Pointer
<1>3. /\ total \in Nat /\ total % 16 = 0 /\ SaveCount \in Nat /\ StackArgs \in Nat /\ 8 * SaveCount <= total
    BY DEF Laid
<1>4. new \in Frame /\ sp' \in Int /\ sp' % 16 = 0
    <2>1. sp' \in Int
        BY SMTT(30), <1>1, <1>2, <1>3
    <2>2. sp' % 16 = 0
        <3>1. sp \in Int /\ total \in Int /\ sp % 16 = 0 /\ total % 16 = 0
            BY <1>2, <1>3
        <3>2. (sp - total) % 16 = 0
            BY <3>1, Multiples
        <3> QED
            BY <3>2, <1>1
    <2>3. 0 \in 0 .. MaxSaves
        BY BoundsAssumption
    <2> QED
        BY <2>1, <2>2, <2>3 DEF Frame
<1> HIDE DEF new
<1>5. /\ frames' \in Seq(Frame) /\ Len(frames') = n + 1 /\ DOMAIN frames' = 1 .. n + 1 /\ frames' /= <<>>
      /\ frames'[n + 1] = new /\ \A d \in 1 .. n : frames'[d] = frames[d]
    BY <1>1, <1>2, <1>4
<1>6. new.sp = sp' /\ new.saves = 0 /\ new.filled = FALSE
    BY DEF new
<1>7. ASSUME NEW t \in stores
      PROVE  t.at \in Int /\ t.at % 4 = 0 /\ t.len \in Nat /\ t.at + t.len <= sp
    <2> PICK i \in 1 .. SaveCount : t = [at |-> sp + SavedAt(i), len |-> 8, value |-> <<"saved", n + 1, i>>]
        OBVIOUS
    <2>1. t.at = sp - 8 * i /\ t.len = 8 /\ i \in Int /\ i >= 1
        BY <1>2, <1>3 DEF SavedAt
    <2> QED
        BY SMTT(30), <2>1, <1>2, Multiples
<1>8. \A x \in DOMAIN memory' : x \in Int /\ x % 4 = 0
    <2> HIDE DEF stores
    <2> QED
        BY <1>1, <1>7, StoresOfWords DEF Run, RunInv, Stack
<1>9. Owned(frames', memory', n + 1)
    <2>1. Saved(memory', sp, n + 1)
        BY <1>1, <1>2, <1>3, StoresSave
    <2>2. Given(memory', sp, n + 1)
        <3> HIDE DEF stores
        <3>1. Clear(stores, sp, sp + 8 * StackArgs)
            BY <1>7 DEF Clear
        <3> QED
            BY <1>1, <1>2, <3>1, GivenStays
    <2>3. frames'[n + 1].sp + total = sp
        BY <1>1, <1>2, <1>3, <1>5, <1>6
    <2> QED
        BY <2>1, <2>2, <2>3, <1>5, <1>6 DEF Owned, Above, Kept
<1>10. ASSUME NEW d \in 1 .. n
       PROVE  Owned(frames', memory', d)
    <2> HIDE DEF stores
    <2>1. d \in DOMAIN frames /\ Owned(frames, memory, d) /\ End(frames, d) \in Int
        BY <1>2, FrameFacts DEF Run, RunInv, Stack
    <2>2. \A t \in stores : t.at \in Int /\ t.len \in Nat /\ t.at + t.len <= End(frames, d)
        BY SMTT(30), <1>2, <1>3, <1>7, <2>1
    <2>3. Owned(frames, memory', d)
        BY <1>1, <1>2, <2>1, <2>2, OwnedStays
    <2> QED
        BY <2>3, <1>5 DEF Owned, Above
<1>11. ASSUME NEW d \in 1 .. n + 1, NEW e \in 1 .. n + 1, d < e
       PROVE  frames'[e].sp + total + 8 * StackArgs <= End(frames', d)
    <2>1. d \in 1 .. n /\ frames'[d] = frames[d] /\ End(frames', d) = End(frames, d)
        BY <1>2, <1>5, <1>11 DEF End
    <2>2. CASE e = n + 1
        <3>1. frames'[e].sp = sp - total
            BY <1>1, <1>5, <1>6, <2>2
        <3>2. sp + 8 * StackArgs <= End(frames, d)
            BY <1>2, <2>1
        <3> QED
            BY SMTT(30), <3>1, <3>2, <2>1, <1>2, <1>3
    <2>3. CASE e /= n + 1
        <3>1. e \in 1 .. n /\ frames'[e] = frames[e]
            BY <1>2, <1>5, <2>3
        <3> QED
            BY <3>1, <2>1, <1>2, <1>11 DEF Run, RunInv, Stack, Nested
    <2> QED
        BY <2>2, <2>3
<1>12. ASSUME NEW d \in 1 .. n + 1
       PROVE  frames'[d].sp + total = SpAt(frames', d) /\ frames'[d].sp % 16 = 0
    <2>1. SpAt(frames', d) = SpAt(frames, d)
        <3>1. d > 1 => frames'[d - 1] = frames[d - 1]
            BY <1>2, <1>5
        <3> QED
            BY <3>1, SameEntry
    <2>2. CASE d = n + 1
        BY SMTT(30), <1>1, <1>2, <1>3, <1>4, <1>5, <1>6, <2>1, <2>2
    <2>3. CASE d \in 1 .. n
        BY <1>2, <1>5, <2>1, <2>3 DEF Run, RunInv, Stack, Chained
    <2> QED
        BY <1>2, <2>2, <2>3
<1>13. Nested(frames') /\ Chained(frames')
    BY <1>5, <1>11, <1>12 DEF Nested, Chained
<1>14. \A d \in DOMAIN frames' : Owned(frames', memory', d)
    BY <1>2, <1>5, <1>9, <1>10
<1>15. Pointer(sp', memory', frames', at')
    BY <1>1, <1>5, <1>6 DEF Pointer
<1> HIDE DEF stores
<1> QED
    BY <1>1, <1>4, <1>5, <1>8, <1>13, <1>14, <1>15 DEF RunInv, Stack

(* What a step does to the registers or contents of the last frame.        *)
LEMMA TopFacts ==
    ASSUME Laid, Run, frames /= <<>>
    PROVE  /\ frames \in Seq(Frame) /\ Depth \in DOMAIN frames /\ Depth \in Nat /\ DOMAIN frames = 1 .. Depth
           /\ Top \in Frame /\ Top.sp \in Int /\ Top.sp % 16 = 0 /\ Top.saves \in Nat
           /\ Owned(frames, memory, Depth) /\ Top.sp + total = SpAt(frames, Depth)
           /\ \A d \in DOMAIN frames : d /= Depth => d < Depth /\ End(frames, d) \in Int
                                       /\ Top.sp + total + 8 * StackArgs <= End(frames, d)
<1>1. frames \in Seq(Frame) /\ Depth \in DOMAIN frames /\ Depth \in Nat /\ DOMAIN frames = 1 .. Depth
    BY DEF Run, RunInv, Stack, Depth
<1>2. Top \in Frame /\ Top.sp \in Int /\ Top.saves \in Nat
    BY <1>1, FrameFacts DEF Top
<1>3. Top.sp % 16 = 0 /\ Owned(frames, memory, Depth) /\ Top.sp + total = SpAt(frames, Depth)
    BY <1>1 DEF Run, RunInv, Stack, Chained, Top
<1>4. ASSUME NEW d \in DOMAIN frames, d /= Depth
      PROVE  d < Depth /\ End(frames, d) \in Int /\ Top.sp + total + 8 * StackArgs <= End(frames, d)
    <2>1. d < Depth
        BY <1>1, <1>4
    <2> QED
        BY <1>1, <2>1, FrameFacts DEF Run, RunInv, Stack, Nested, Top
<1> QED
    BY <1>1, <1>2, <1>3, <1>4

(* The last frame gets other registers or contents; what lies below its sp *)
(* is its own.                                                             *)
LEMMA TopInv ==
    ASSUME Laid, Run, frames /= <<>>, NEW r \in Frame, r.sp = Top.sp,
           frames' = [frames EXCEPT ![Len(frames)] = r],
           NEW stores, memory' = memory \/ memory' = Stored(memory, stores),
           \A t \in stores : /\ t.at \in Int /\ t.at % 4 = 0 /\ t.len \in Nat
                             /\ t.at + t.len <= Top.sp + total - 8 * SaveCount,
           Owned(frames', memory', Depth)
    PROVE  /\ Stack(memory', frames')
           /\ SpAt(frames', Depth) = SpAt(frames, Depth)
           /\ \A d \in DOMAIN frames : d /= Depth => End(frames', d) = End(frames, d)
<1>1. /\ frames' \in Seq(Frame) /\ Len(frames') = Len(frames) /\ DOMAIN frames' = DOMAIN frames /\ frames' /= <<>>
      /\ Depth \in DOMAIN frames /\ frames'[Depth] = r /\ \A d \in DOMAIN frames : d /= Depth => frames'[d] = frames[d]
    BY TopFacts, TopChanges DEF Depth
<1>2. /\ total \in Nat /\ SaveCount \in Nat /\ StackArgs \in Nat
    BY DEF Laid
<1>3. \A d \in DOMAIN frames : frames'[d].sp = frames[d].sp
    BY <1>1 DEF Top
<1>4. \A x \in DOMAIN memory' : x \in Int /\ x % 4 = 0
    <2>1. \A x \in DOMAIN memory : x \in Int /\ x % 4 = 0
        BY DEF Run, RunInv, Stack
    <2>2. \A x \in DOMAIN Stored(memory, stores) : x \in Int /\ x % 4 = 0
        BY <2>1, StoresOfWords
    <2> QED
        BY <2>1, <2>2
<1>5. ASSUME NEW d \in DOMAIN frames, d /= Depth
      PROVE  Owned(frames', memory', d) /\ End(frames', d) = End(frames, d)
    <2>1. Owned(frames, memory, d)
        BY DEF Run, RunInv, Stack
    <2>2. \A t \in stores : t.at \in Int /\ t.len \in Nat /\ t.at + t.len <= End(frames, d)
        <3>1. Top.sp \in Int /\ End(frames, d) \in Int /\ Top.sp + total + 8 * StackArgs <= End(frames, d)
            BY <1>5, TopFacts
        <3>2. Top.sp + total - 8 * SaveCount \in Int /\ Top.sp + total - 8 * SaveCount <= End(frames, d)
            BY <1>2, <3>1
        <3> QED
            BY <3>1, <3>2
    <2>3. Owned(frames, Stored(memory, stores), d)
        BY <2>1, <2>2, TopFacts, OwnedStays
    <2>4. Owned(frames, memory', d)
        BY <2>1, <2>3
    <2> QED
        BY <1>1, <1>5, <2>4 DEF Owned, Above, End
<1>6. Nested(frames')
    <2> SUFFICES ASSUME NEW d \in DOMAIN frames', NEW e \in DOMAIN frames', d < e
                 PROVE  frames'[e].sp + total + 8 * StackArgs <= End(frames', d)
        BY DEF Nested
    <2>1. d /= Depth
        BY <1>1, TopFacts
    <2> QED
        BY <1>1, <1>3, <1>5, <2>1 DEF Run, RunInv, Stack, Nested
<1>7. ASSUME NEW d \in DOMAIN frames
      PROVE  SpAt(frames', d) = SpAt(frames, d)
    <2>1. d \in Nat /\ d >= 1 /\ (d > 1 => d - 1 \in DOMAIN frames /\ d - 1 /= Depth)
        BY TopFacts
    <2>2. d > 1 => frames[d - 1] = frames'[d - 1]
        BY <1>1, <2>1
    <2> QED
        BY <2>1, <2>2, SameEntry
<1>8. Chained(frames')
    <2>1. Chained(frames)
        BY DEF Run, RunInv, Stack
    <2>2. ASSUME NEW d \in DOMAIN frames'
          PROVE  frames'[d].sp + total = SpAt(frames', d) /\ frames'[d].sp % 16 = 0
        <3>1. d \in DOMAIN frames /\ frames'[d].sp = frames[d].sp
            BY <1>1, <1>3
        <3>2. frames[d].sp + total = SpAt(frames, d) /\ frames[d].sp % 16 = 0
            BY <2>1, <3>1 DEF Chained
        <3>3. SpAt(frames', d) = SpAt(frames, d)
            BY <1>7, <3>1
        <3> QED
            BY <3>1, <3>2, <3>3
    <2> QED
        BY <2>2 DEF Chained
<1>9. \A d \in DOMAIN frames' : Owned(frames', memory', d)
    BY <1>1, <1>5
<1> QED
    BY <1>1, <1>4, <1>5, <1>6, <1>7, <1>8, <1>9 DEF Stack

LEMMA RecoverInv ==
    ASSUME Laid, Run, Recover
    PROVE  RunInv(sp', memory', frames', at')
<1> DEFINE r == [Top EXCEPT !.saves = 0]
           none == {}
<1>1. /\ frames /= <<>> /\ at = "body" /\ sp = Top.sp /\ sp' = sp /\ memory' = memory /\ at' = at
    BY DEF Recover, Run, RunInv, Stack, Pointer, Top, Depth
<1>2. frames' = [frames EXCEPT ![Len(frames)] = r]
    BY DEF Recover, Top, Depth
<1>3. r \in Frame /\ r.sp = Top.sp /\ r.filled = Top.filled /\ r.saves = 0
    <2>1. 0 \in 0 .. MaxSaves
        BY BoundsAssumption
    <2> QED
        BY <1>1, <2>1, TopFacts DEF Frame
<1> HIDE DEF r
<1>4. frames'[Depth] = r /\ Len(frames') = Depth /\ frames' /= <<>>
    BY <1>1, <1>2, <1>3, TopFacts, TopChanges DEF Depth
<1>5. Owned(frames', memory', Depth)
    BY <1>1, <1>3, <1>4, TopFacts DEF Owned, Above, Kept, Top
<1>6. \A t \in none : /\ t.at \in Int /\ t.at % 4 = 0 /\ t.len \in Nat
                       /\ t.at + t.len <= Top.sp + total - 8 * SaveCount
    OBVIOUS
<1> HIDE DEF none
<1>7. Stack(memory', frames')
    <2>1. memory' = memory \/ memory' = Stored(memory, none)
        BY <1>1
    <2> QED
        BY <1>1, <1>2, <1>3, <1>5, <1>6, <2>1, TopInv, Zenon
<1>8. Pointer(sp', memory', frames', at')
    BY <1>1, <1>3, <1>4 DEF Pointer
<1> QED
    BY <1>1, <1>7, <1>8 DEF Run, RunInv, Stack

LEMMA EpilogueInv ==
    ASSUME Laid, Run, Epilogue
    PROVE  RunInv(sp', memory', frames', at')
<1>1. /\ frames /= <<>> /\ at = "body" /\ sp = Top.sp /\ sp' = sp + total /\ memory' = memory
      /\ frames' = frames /\ at' = "returned"
    BY DEF Epilogue, Run, RunInv, Stack, Pointer, Top, Depth
<1>2. sp' \in Int /\ sp' % 16 = 0
    <2>1. sp \in Int /\ total \in Int /\ sp % 16 = 0 /\ total % 16 = 0
        BY DEF Run, RunInv, Stack, Laid
    <2>2. (sp + total) % 16 = 0
        BY <2>1, Multiples
    <2> QED
        BY <1>1, <2>1, <2>2
<1>3. Pointer(sp', memory', frames', at')
    BY <1>1 DEF Pointer, Top, Depth
<1> QED
    BY <1>1, <1>2, <1>3 DEF Run, RunInv, Stack

LEMMA FillInv ==
    ASSUME Laid, Run, Fill
    PROVE  RunInv(sp', memory', frames', at')
<1> DEFINE r == [Top EXCEPT !.filled = TRUE]
           stores == {[at |-> sp + off[s], len |-> slots[s].len, value |-> <<"variable", Depth, s>>] : s \in Variables}
<1>1. /\ frames /= <<>> /\ at = "body" /\ sp = Top.sp /\ sp' = sp /\ at' = at
    BY DEF Fill, Run, RunInv, Stack, Pointer, Top, Depth
<1>2. frames' = [frames EXCEPT ![Len(frames)] = r]
    BY DEF Fill, Top, Depth
<1>3. r \in Frame /\ r.sp = Top.sp /\ r.filled = TRUE /\ r.saves = Top.saves
    BY <1>1, TopFacts DEF Frame
<1>4. memory' = Stored(memory, stores)
    <2> DEFINE aside == {[at |-> sp + off[s], len |-> slots[s].len, value |-> <<"variable", Depth, s>>] :
                            s \in Variables \ {a.slot : a \in access}}
               spilt == {[at |-> sp + a.off, len |-> slots[a.slot].len, value |-> <<"variable", Depth, a.slot>>] :
                            a \in {b \in access : ~IsParam(b.slot)}}
    <2>1. memory' = Stored(memory, aside \cup spilt)
        BY DEF Fill
    <2>2. \A a \in access : a.slot \in Slots /\ a.off = off[a.slot]
        BY DEF Laid
    <2>3. ASSUME NEW t \in spilt
          PROVE  t \in stores
        <3> PICK a \in access : ~IsParam(a.slot) /\
                t = [at |-> sp + a.off, len |-> slots[a.slot].len, value |-> <<"variable", Depth, a.slot>>]
            OBVIOUS
        <3> QED
            BY <2>2 DEF Variables
    <2>4. ASSUME NEW s \in Variables
          PROVE  [at |-> sp + off[s], len |-> slots[s].len, value |-> <<"variable", Depth, s>>] \in aside \cup spilt
        <3>1. CASE s \in {a.slot : a \in access}
            <4> PICK a \in access : s = a.slot
                BY <3>1
            <4>1. a \in {b \in access : ~IsParam(b.slot)} /\ a.off = off[s]
                BY <2>2 DEF Variables
            <4>2. [at |-> sp + a.off, len |-> slots[a.slot].len, value |-> <<"variable", Depth, a.slot>>] \in spilt
                BY <4>1
            <4> QED
                BY <4>1, <4>2
        <3>2. CASE s \notin {a.slot : a \in access}
            BY <3>2
        <3> QED
            BY <3>1, <3>2
    <2>5. aside \cup spilt = stores
        BY <2>3, <2>4
    <2> QED
        BY <2>1, <2>5
<1>5. ASSUME NEW t \in stores
      PROVE  /\ t.at \in Int /\ t.at % 4 = 0 /\ t.len \in Nat /\ Top.sp <= t.at
             /\ t.at + t.len <= Top.sp + total - 8 * SaveCount
    <2> PICK s \in Variables : t = [at |-> sp + off[s], len |-> slots[s].len, value |-> <<"variable", Depth, s>>]
        OBVIOUS
    <2>1. /\ t.at = sp + off[s] /\ t.len = slots[s].len /\ t.len \in Nat /\ off[s] \in Nat /\ off[s] % 4 = 0
          /\ off[s] + slots[s].len <= total - 8 * SaveCount /\ total \in Nat /\ SaveCount \in Nat
        BY DEF Laid
    <2>2. Top.sp \in Int /\ Top.sp % 16 = 0
        BY <1>1, TopFacts
    <2>3. t.at = Top.sp + off[s]
        BY <1>1, <2>1
    <2>4. (Top.sp + off[s]) % 4 = 0
        <3>1. Top.sp \in Int /\ off[s] \in Int /\ Top.sp % 16 = 0 /\ off[s] % 4 = 0
            BY <2>1, <2>2
        <3> QED
            BY <3>1, Multiples
    <2>5. t.at \in Int /\ t.at % 4 = 0 /\ t.len \in Nat
        BY <2>1, <2>2, <2>3, <2>4
    <2>6. Top.sp <= t.at /\ t.at + t.len <= Top.sp + total - 8 * SaveCount
        BY <2>1, <2>2, <2>3
    <2> QED
        BY <2>5, <2>6
<1>6. Filled(memory', sp, Depth)
    <2>1. sp \in Int
        BY <1>1, TopFacts
    <2> QED
        BY <1>4, <2>1, StoresFill
<1> HIDE DEF r, stores
<1>7. frames'[Depth] = r /\ Len(frames') = Depth /\ frames' /= <<>>
    BY <1>1, <1>2, <1>3, TopFacts, TopChanges DEF Depth
<1>8. Owned(frames', memory', Depth)
    <2>1. /\ total \in Nat /\ SaveCount \in Nat /\ StackArgs \in Nat /\ Top.sp \in Int /\ Top.saves \in Nat
        BY <1>1, TopFacts DEF Laid
    <2> DEFINE place == Top.sp + total
    <2>2. place \in Int
        BY <2>1
    <2>3. Given(memory, place, Depth) /\ Saved(memory, place, Depth) /\ Kept(memory, Top.sp, Top.saves, Depth)
        BY <1>1, TopFacts DEF Owned, Above, Top
    <2>4. /\ Clear(stores, place, place + 8 * StackArgs)
          /\ Clear(stores, place - 8 * SaveCount, place)
          /\ Clear(stores, Top.sp - 8 * Top.saves, Top.sp)
        <3>1. ASSUME NEW t \in stores
              PROVE  /\ t.at \in Int /\ t.len \in Nat /\ Top.sp <= t.at
                     /\ t.at + t.len <= place - 8 * SaveCount /\ t.at + t.len <= place
            <4>1. place - 8 * SaveCount <= place
                BY <2>1
            <4> QED
                BY <1>5, <2>1, <4>1
        <3> QED
            BY <3>1 DEF Clear
    <2> HIDE DEF place
    <2>5. Given(memory', place, Depth)
        BY <1>4, <2>2, <2>3, <2>4, GivenStays
    <2>6. Saved(memory', place, Depth)
        BY <1>4, <2>2, <2>3, <2>4, SavedStays
    <2>7. Kept(memory', Top.sp, Top.saves, Depth)
        BY <1>4, <2>1, <2>3, <2>4, KeptStays
    <2> QED
        BY <1>1, <1>3, <1>6, <1>7, <2>5, <2>6, <2>7 DEF Owned, Above, place
<1>9. Stack(memory', frames')
    BY <1>1, <1>2, <1>3, <1>4, <1>5, <1>8, TopInv
<1>10. Pointer(sp', memory', frames', at')
    BY <1>1, <1>3, <1>7 DEF Pointer
<1> QED
    BY <1>1, <1>9, <1>10 DEF Run, RunInv

LEMMA CallInv ==
    ASSUME Laid, Run, Call
    PROVE  RunInv(sp', memory', frames', at')
<1>1. PICK n \in Top.saves .. MaxSaves :
          /\ memory' = Stored(memory,
                {[at |-> sp - 8 * i, len |-> 8, value |-> <<"kept", Depth, i>>] : i \in 1 .. n}
                \cup Passed(sp - StackTop(n), Depth + 1))
          /\ sp' = sp - StackTop(n)
          /\ frames' = [frames EXCEPT ![Depth].saves = n]
    BY DEF Call
<1> DEFINE r == [Top EXCEPT !.saves = n]
           kept == {[at |-> sp - 8 * i, len |-> 8, value |-> <<"kept", Depth, i>>] : i \in 1 .. n}
           passed == Passed(sp - StackTop(n), Depth + 1)
           stores == kept \cup passed
<1>2. /\ frames /= <<>> /\ at = "body" /\ sp = Top.sp /\ at' = "entry"
    BY DEF Call, Run, RunInv, Stack, Pointer, Top, Depth
<1>3. frames' = [frames EXCEPT ![Len(frames)] = r]
    BY <1>1 DEF Top, Depth
<1>4. n \in Nat /\ n \in 0 .. MaxSaves
    BY <1>1, <1>2, TopFacts, BoundsAssumption
<1>5. r \in Frame /\ r.sp = Top.sp /\ r.filled = Top.filled /\ r.saves = n
    BY <1>2, <1>4, TopFacts DEF Frame
<1>6. /\ total \in Nat /\ SaveCount \in Nat /\ StackArgs \in Nat /\ 8 * SaveCount <= total
      /\ sp \in Int /\ sp % 16 = 0 /\ Depth \in Nat
    BY <1>2, TopFacts DEF Laid
<1>7. /\ StackTop(n) \in Nat /\ StackTop(n) % 16 = 0 /\ StackTop(n) >= 8 * n + 8 * StackArgs
    BY <1>4, RoomForCall
<1>8. sp' % 16 = 0
    <2>1. sp \in Int /\ StackTop(n) \in Int /\ sp % 16 = 0 /\ StackTop(n) % 16 = 0
        BY <1>6, <1>7
    <2>2. (sp - StackTop(n)) % 16 = 0
        BY <2>1, Multiples
    <2> QED
        BY <1>1, <2>2
<1>9. /\ sp' \in Int /\ sp \in Int /\ n \in Nat /\ StackArgs \in Nat
      /\ sp' + 8 * StackArgs <= sp - 8 * n /\ sp' + 8 * StackArgs <= sp
    BY <1>1, <1>4, <1>6, <1>7
<1>10. ASSUME NEW t \in kept
      PROVE  t.at \in Int /\ t.at % 4 = 0 /\ t.len \in Nat /\ t.at + t.len <= sp /\ sp - 8 * n <= t.at
    <2> PICK i \in 1 .. n : t = [at |-> sp - 8 * i, len |-> 8, value |-> <<"kept", Depth, i>>]
        OBVIOUS
    <2>1. t.at = sp - 8 * i /\ t.len = 8 /\ i \in Int /\ i >= 1 /\ i <= n
        BY <1>4
    <2>2. (sp - 8 * i) % 4 = 0
        BY <1>6, <2>1, Multiples
    <2> QED
        BY <1>4, <1>6, <2>1, <2>2
<1>11. ASSUME NEW t \in passed
       PROVE  /\ t.at \in Int /\ t.at % 4 = 0 /\ t.len \in Nat
              /\ sp' <= t.at /\ t.at + t.len <= sp' + 8 * StackArgs
    <2> PICK s \in Arguments :
            t = [at |-> sp' + 8 * slots[s].argument, len |-> 8, value |-> <<"argument", Depth + 1, s>>]
        BY <1>1 DEF Passed
    <2>1. /\ t.at = sp' + 8 * slots[s].argument /\ t.len = 8
          /\ slots[s].argument \in Int /\ slots[s].argument >= 0 /\ slots[s].argument < StackArgs
        BY DEF Laid
    <2>2. (sp' + 8 * slots[s].argument) % 4 = 0
        BY <1>8, <1>9, <2>1, Multiples
    <2> QED
        BY <1>9, <2>1, <2>2
<1>12. ASSUME NEW t \in stores
       PROVE  t.at \in Int /\ t.at % 4 = 0 /\ t.len \in Nat /\ t.at + t.len <= sp
    <2>1. CASE t \in kept
        BY <2>1, <1>10
    <2>2. CASE t \in passed
        <3>1. t.at \in Int /\ t.at % 4 = 0 /\ t.len \in Nat /\ t.at + t.len <= sp' + 8 * StackArgs
            BY <2>2, <1>11
        <3> QED
            BY <1>9, <3>1
    <2> QED
        BY <2>1, <2>2
<1>13. memory' = Stored(memory, stores)
    BY <1>1
<1>14. Kept(memory', sp, n, Depth)
    <2>1. Clear(passed, sp - 8 * n, sp)
        <3>1. ASSUME NEW t \in passed
              PROVE  t.at \in Int /\ t.len \in Nat /\ t.at + t.len <= sp - 8 * n
            <4>1. t.at \in Int /\ t.len \in Nat /\ t.at + t.len <= sp' + 8 * StackArgs
                BY <1>11
            <4>2. t.at + t.len \in Int /\ sp' + 8 * StackArgs \in Int /\ sp - 8 * n \in Int
                BY <1>9, <4>1
            <4>3. sp' + 8 * StackArgs <= sp - 8 * n /\ sp - 8 * n \in Int
                BY <1>9, <4>2
            <4> QED
                BY <4>1, <4>2, <4>3
        <3> QED
            BY <3>1 DEF Clear
    <2> HIDE DEF passed
    <2> QED
        BY <1>4, <1>6, <1>13, <2>1, StoresKeep
<1>15. Given(memory', sp', Depth + 1)
    <2>1. Clear(kept, sp', sp' + 8 * StackArgs)
        <3>1. ASSUME NEW t \in kept
              PROVE  t.at \in Int /\ t.len \in Nat /\ sp' + 8 * StackArgs <= t.at
            <4>1. t.at \in Int /\ t.len \in Nat /\ sp - 8 * n <= t.at
                BY <1>10
            <4> QED
                BY <1>9, <4>1
        <3> QED
            BY <3>1 DEF Clear
    <2>2. memory' = Stored(memory, kept \cup Passed(sp', Depth + 1))
        BY <1>1
    <2> HIDE DEF kept
    <2> QED
        BY <1>9, <2>1, <2>2, PassedIsGiven
<1> HIDE DEF r, stores, kept, passed
<1>16. /\ frames'[Depth] = r /\ Len(frames') = Depth /\ frames' /= <<>>
       /\ DOMAIN frames' = DOMAIN frames /\ DOMAIN frames = 1 .. Depth
    BY <1>2, <1>3, <1>5, TopFacts, TopChanges DEF Depth
<1>17. Owned(frames', memory', Depth)
    <2>1. frames \in Seq(Frame) /\ Depth \in DOMAIN frames /\ Above(frames, memory, Depth) /\ frames[Depth] = Top
        BY <1>2, TopFacts DEF Owned, Top
    <2>2. \A t \in stores : t.at \in Int /\ t.len \in Nat /\ t.at + t.len <= frames[Depth].sp
        BY <1>2, <1>12, <2>1
    <2>3. Above(frames, memory', Depth)
        BY <1>13, <2>1, <2>2, AboveStays
    <2> QED
        BY <1>2, <1>5, <1>14, <1>16, <2>1, <2>3 DEF Owned, Above
<1>18. /\ Stack(memory', frames')
       /\ SpAt(frames', Depth) = SpAt(frames, Depth)
       /\ \A d \in DOMAIN frames : d /= Depth => End(frames', d) = End(frames, d)
    <2>1. \A t \in stores : /\ t.at \in Int /\ t.at % 4 = 0 /\ t.len \in Nat
                            /\ t.at + t.len <= Top.sp + total - 8 * SaveCount
        BY <1>2, <1>6, <1>12
    <2> QED
        BY <1>2, <1>3, <1>5, <1>13, <1>17, <2>1, TopInv
<1>19. Pointer(sp', memory', frames', at')
    <2>1. sp' = SpAt(frames', Depth + 1)
        <3>1. Depth \in Nat /\ Depth >= 1
            BY <1>2, TopFacts
        <3>2. SpAt(frames', Depth + 1) = frames'[Depth].sp - StackTop(frames'[Depth].saves)
            BY <3>1, NextEntry
        <3> QED
            BY <1>1, <1>2, <1>5, <1>16, <3>2
    <2>2. ASSUME NEW d \in DOMAIN frames'
          PROVE  sp' + 8 * StackArgs <= End(frames', d)
        <3>1. CASE d = Depth
            BY <1>2, <1>5, <1>9, <1>16, <3>1 DEF End
        <3>2. CASE d /= Depth
            <4>1. /\ End(frames', d) = End(frames, d) /\ End(frames, d) \in Int
                  /\ sp + total + 8 * StackArgs <= End(frames, d)
                BY <1>2, <1>16, <1>18, <3>2, TopFacts
            <4>2. sp <= sp + total + 8 * StackArgs
                BY <1>6
            <4>3. sp' + 8 * StackArgs \in Int /\ sp \in Int /\ sp + total + 8 * StackArgs \in Int
                BY <1>6, <1>9
            <4>4. sp' + 8 * StackArgs <= sp
                BY <1>9
            <4>5. sp' + 8 * StackArgs <= End(frames, d)
                BY <4>1, <4>2, <4>3, <4>4
            <4> QED
                BY <4>1, <4>5
        <3> QED
            BY <3>1, <3>2
    <2> QED
        BY <1>2, <1>15, <1>16, <2>1, <2>2 DEF Pointer
<1> QED
    BY <1>2, <1>8, <1>18, <1>19, <1>9 DEF RunInv

LEMMA ReturnInv ==
    ASSUME Laid, Run, Return
    PROVE  RunInv(sp', memory', frames', at')
<1>1. /\ at = "returned" /\ frames /= <<>> /\ sp = Top.sp + total /\ memory' = memory
      /\ frames' = SubSeq(frames, 1, Depth - 1)
    BY DEF Return, Run, RunInv, Stack, Pointer, Top, Depth
<1>2. /\ frames \in Seq(Frame) /\ Depth \in Nat /\ DOMAIN frames = 1 .. Depth /\ Depth >= 1
      /\ sp = SpAt(frames, Depth)
    BY <1>1, TopFacts
<1>3. /\ frames' \in Seq(Frame) /\ Len(frames') = Depth - 1 /\ DOMAIN frames' = 1 .. Depth - 1
      /\ \A d \in 1 .. Depth - 1 : frames'[d] = frames[d] /\ d \in DOMAIN frames
    BY <1>1, <1>2
<1>4. Nested(frames')
    <2> SUFFICES ASSUME NEW d \in DOMAIN frames', NEW e \in DOMAIN frames', d < e
                 PROVE  frames'[e].sp + total + 8 * StackArgs <= End(frames', d)
        BY DEF Nested
    <2> QED
        BY <1>3 DEF Run, RunInv, Stack, Nested, End
<1>5. Chained(frames')
    <2> SUFFICES ASSUME NEW d \in DOMAIN frames'
                 PROVE  frames'[d].sp + total = SpAt(frames', d) /\ frames'[d].sp % 16 = 0
        BY DEF Chained
    <2>1. d \in Nat /\ d >= 1 /\ (d > 1 => frames'[d - 1] = frames[d - 1])
        BY <1>2, <1>3
    <2>2. SpAt(frames', d) = SpAt(frames, d)
        BY <2>1, SameEntry
    <2> QED
        BY <1>3, <2>2 DEF Run, RunInv, Stack, Chained
<1>6. \A d \in DOMAIN frames' : Owned(frames', memory', d)
    BY <1>1, <1>3 DEF Run, RunInv, Stack, Owned, Above
<1>7. Stack(memory', frames')
    BY <1>1, <1>3, <1>4, <1>5, <1>6 DEF Run, RunInv, Stack
<1>8. CASE Depth = 1
    <2>1. at' = "stopped" /\ sp' = sp /\ frames' = <<>>
        BY <1>3, <1>8 DEF Return
    <2> QED
        BY <1>7, <2>1 DEF Run, RunInv, Pointer
<1>9. CASE Depth /= 1
    <2>1. at' = "body" /\ sp' = sp + StackTop(frames[Depth - 1].saves)
        BY <1>9 DEF Return
    <2>2. frames[Depth - 1].sp \in Int /\ frames[Depth - 1].sp % 16 = 0 /\ frames[Depth - 1].saves \in Nat
        <3>1. Depth - 1 \in DOMAIN frames
            BY <1>2, <1>9
        <3> QED
            BY <1>2, <3>1, FrameFacts DEF Run, RunInv, Stack, Chained
    <2>3. StackTop(frames[Depth - 1].saves) \in Nat
        BY <2>2, RoomForCall
    <2>4. sp = frames[Depth - 1].sp - StackTop(frames[Depth - 1].saves)
        BY <1>2, <1>9 DEF SpAt
    <2>5. sp' = frames[Depth - 1].sp
        BY <2>1, <2>2, <2>3, <2>4
    <2>6. frames' /= <<>> /\ frames'[Len(frames')].sp = sp'
        BY <1>2, <1>3, <1>9, <2>5
    <2> QED
        BY <1>7, <2>1, <2>2, <2>5, <2>6 DEF RunInv, Pointer
<1> QED
    BY <1>8, <1>9

-----------------------------------------------------------------------------

(* What the steps and the properties below need: while the frame is being  *)
(* planned nothing has run; from then on the plan stands.                  *)
IInv ==
    /\ PlanInv
    /\ ParamInv
    /\ calls \in 0 .. MaxCalls
    /\ at /= "planning" => phase = "done"
    /\ Run

LEMMA InitInv == Init => IInv
<1> SUFFICES ASSUME Init PROVE IInv
    OBVIOUS
<1>1. PlanInv /\ ParamInv
    BY PlanInitInv, ParamInitInv DEF Init
<1>2. sp = 0 /\ memory = <<>> /\ frames = <<>> /\ at = "planning" /\ calls = 0
    BY DEF Init
<1>3. Stack(memory, frames)
    BY <1>2 DEF Stack, Nested, Chained
<1>4. Run
    BY <1>2, <1>3 DEF Run, RunInv, Pointer
<1> QED
    BY <1>1, <1>2, <1>4, BoundsAssumption DEF IInv

(* While planning there are no frames, and no plan is looked at.           *)
LEMMA PlanStepInv ==
    ASSUME IInv, PlanStep
    PROVE  IInv'
<1>1. PlanInv' /\ ParamInv'
    BY PlanNextInv, ParamNextInv DEF IInv, PlanStep
<1>2. /\ at = "planning" /\ sp = 0 /\ frames = <<>>
      /\ sp' = sp /\ memory' = memory /\ frames' = frames /\ at' = at /\ calls' = calls
    BY DEF PlanStep, runVars, IInv, Run, RunInv, Pointer
<1>3. \A x \in DOMAIN memory' : x \in Int /\ x % 4 = 0
    BY <1>2 DEF IInv, Run, RunInv, Stack
<1>4. Stack(memory, frames)'
    BY <1>2, <1>3 DEF Stack, Nested, Chained
<1>5. Run'
    BY <1>2, <1>4 DEF Run, RunInv, Pointer
<1> QED
    BY <1>1, <1>2, <1>5 DEF IInv

(* A run that leaves the plan alone means the same by every part of it.    *)
LEMMA SamePlan ==
    ASSUME UNCHANGED planVars, RunInv(sp', memory', frames', at')
    PROVE  Run'
<1>1. slots' = slots /\ off' = off /\ used' = used /\ total' = total
    BY DEF planVars
<1>2. /\ Slots' = Slots /\ Variables' = Variables /\ Arguments' = Arguments
      /\ SaveCount' = SaveCount /\ StackArgs' = StackArgs
    BY <1>1 DEF Slots, Variables, Arguments, IsParam, SaveCount, StackArgs
<1> QED
    BY <1>1, <1>2 DEF Run, RunInv, Stack, Pointer, Nested, Chained, Owned, Above, Given, Saved, Filled,
                      SpAt, StackTop, End

LEMMA RunStepInv ==
    ASSUME IInv, RunStep
    PROVE  IInv'
<1>1. PlanInv' /\ ParamInv'
    <2>1. UNCHANGED planVars
        BY DEF RunStep
    <2> QED
        BY <2>1, PlanNextInv, ParamNextInv DEF IInv
<1>2. phase = "done" /\ phase' = "done"
    BY DEF IInv, RunStep, planVars, Start, Prologue, Fill, Call, Recover, Epilogue, Return
<1>3. Laid /\ Run
    BY <1>2, FinishedIsLaid DEF IInv
<1>4. calls' \in 0 .. MaxCalls
    BY BoundsAssumption DEF IInv, RunStep, Start, Prologue, Fill, Call, Recover, Epilogue, Return
<1>5. RunInv(sp', memory', frames', at')
    BY <1>3, StartInv, PrologueInv, FillInv, CallInv, RecoverInv, EpilogueInv, ReturnInv DEF RunStep
<1>6. Run'
    BY <1>5, SamePlan DEF RunStep
<1> QED
    BY <1>1, <1>2, <1>4, <1>6 DEF IInv

LEMMA Always == Spec => []IInv
<1>1. IInv /\ [Next]_vars => IInv'
    <2> SUFFICES ASSUME IInv, [Next]_vars PROVE IInv'
        OBVIOUS
    <2>1. CASE UNCHANGED vars
        <3>1. UNCHANGED planVars /\ sp' = sp /\ memory' = memory /\ frames' = frames /\ at' = at /\ calls' = calls
            BY <2>1 DEF vars, runVars
        <3>2. PlanInv' /\ ParamInv' /\ phase' = phase
            BY <3>1, PlanNextInv, ParamNextInv DEF IInv, planVars
        <3>3. RunInv(sp', memory', frames', at')
            BY <3>1 DEF IInv, Run
        <3> QED
            BY <3>1, <3>2, <3>3, SamePlan DEF IInv
    <2> QED
        BY <2>1, PlanStepInv, RunStepInv DEF Next
<1> QED
    BY <1>1, InitInv, PTL DEF Spec

(* sp is a multiple of 16 wherever a function may be entered, and memory   *)
(* is one of words.                                                        *)
THEOREM TypeCorrect == Spec => []TypeOK
<1>1. IInv => TypeOK
    BY DEF IInv, PlanInv, Run, RunInv, Stack, TypeOK
<1> QED
    BY <1>1, Always, PTL

(* However deep the calls and however many registers are saved around      *)
(* them, no frame is laid over what another one keeps (RLPlanner::Init,    *)
(* save_stack_, UopCall).                                                  *)
THEOREM FramesStayIntact == Spec => []FramesIntact
<1>1. IInv => FramesIntact
    <2> SUFFICES ASSUME IInv, NEW d \in 1 .. Depth
                 PROVE
            /\ frames[d].filled =>
                  /\ \A s \in Variables : Holds(memory, frames[d].sp + off[s], slots[s].len, <<"variable", d, s>>)
                  /\ \A a \in access :
                        ~IsParam(a.slot) => Holds(memory, frames[d].sp + a.off, 4, <<"variable", d, a.slot>>)
            /\ \A i \in 1 .. frames[d].saves : Holds(memory, frames[d].sp - 8 * i, 8, <<"kept", d, i>>)
            /\ \A a \in access :
                  IsParam(a.slot) => Holds(memory, frames[d].sp + a.off, 8, <<"argument", d, a.slot>>)
        BY DEF FramesIntact
    <2>1. frames \in Seq(Frame) /\ d \in DOMAIN frames /\ frames /= <<>>
        BY DEF IInv, Run, RunInv, Stack, Depth
    <2>2. Laid
        BY <2>1, FinishedIsLaid DEF IInv, Run, RunInv, Pointer
    <2>3. Owned(frames, memory, d) /\ frames[d].sp \in Int
        BY <2>1, FrameFacts DEF IInv, Run, RunInv, Stack
    <2>4. \A a \in access : a.slot \in Slots /\ a.off = off[a.slot]
        BY <2>2 DEF Laid
    <2>5. ASSUME frames[d].filled, NEW a \in access, ~IsParam(a.slot)
          PROVE  Holds(memory, frames[d].sp + a.off, 4, <<"variable", d, a.slot>>)
        <3>1. a.slot \in Variables /\ a.off = off[a.slot]
            BY <2>4, <2>5 DEF Variables
        <3>2. slots[a.slot].len \in Nat /\ slots[a.slot].len >= 4 /\ off[a.slot] \in Nat
            BY <2>2, <3>1 DEF Laid
        <3>3. Holds(memory, frames[d].sp + a.off, slots[a.slot].len, <<"variable", d, a.slot>>)
            BY <2>3, <2>5, <3>1 DEF Owned, Above, Filled
        <3>4. Words(frames[d].sp + a.off, 4) \subseteq Words(frames[d].sp + a.off, slots[a.slot].len)
            BY <2>3, <3>1, <3>2 DEF Words
        <3> QED
            BY <3>3, <3>4 DEF Holds
    <2>6. ASSUME NEW a \in access, IsParam(a.slot)
          PROVE  Holds(memory, frames[d].sp + a.off, 8, <<"argument", d, a.slot>>)
        <3>1. a.slot \in Arguments
            BY <2>4, <2>6 DEF Arguments
        <3>2. /\ slots[a.slot].argument \in Nat /\ total \in Nat
              /\ a.off = total + 8 * slots[a.slot].argument
            BY <2>2, <2>4, <3>1 DEF Laid
        <3>3. frames[d].sp + a.off = frames[d].sp + total + 8 * slots[a.slot].argument
            BY <2>3, <3>2
        <3> QED
            BY <2>3, <3>1, <3>3 DEF Owned, Above, Given
    <2> QED
        BY <2>3, <2>5, <2>6 DEF Owned, Above, Filled, Kept
<1> QED
    BY <1>1, Always, PTL

(* A function returns with what its prologue saved still in its place and  *)
(* with the sp it was entered with (RecoverBeforeRet).                     *)
THEOREM CallsRestore == Spec => []ReturnsRestored
<1>1. IInv => ReturnsRestored
    <2> SUFFICES ASSUME IInv, at = "returned"
                 PROVE  /\ \A i \in 1 .. SaveCount : Holds(memory, sp + SavedAt(i), 8, <<"saved", Depth, i>>)
                        /\ sp = SpAt(frames, Depth)
        BY DEF ReturnsRestored
    <2>1. frames /= <<>> /\ sp = Top.sp + total
        BY DEF IInv, Run, RunInv, Pointer, Top, Depth
    <2>2. Laid
        BY FinishedIsLaid DEF IInv
    <2>3. Owned(frames, memory, Depth) /\ Top.sp + total = SpAt(frames, Depth)
        BY <2>1, <2>2, TopFacts DEF IInv
    <2> QED
        BY <2>1, <2>3 DEF Owned, Above, Saved, Top
<1> QED
    BY <1>1, Always, PTL
=============================================================================
