--------------------------- MODULE ThreadLibProofs --------------------------
(***************************************************************************)
(* For any number of threads, loops, forks per loop and refused clones:    *)
(* the spin lock is exclusive, and the library implements ForkJoin.        *)
(*                                                                         *)
(* The barrier needs what the counters count: texited is the number of     *)
(* threads past their exit, and tcreated, while the main thread is not in  *)
(* the middle of a fork, at least the number of threads that exist.  Both  *)
(* are sets of the same finite universe, one inside the other, so equal    *)
(* counters leave no thread in between.                                    *)
(***************************************************************************)
EXTENDS ThreadLib, FiniteSetTheorems, TLAPS

(* The main thread is in the middle of a fork only while one is left. *)
ForkInv == pc[Main] \in {"count", "clone"} => forked < PerLoop

(* The lock is 1 while held; the thread in the middle of an update has     *)
(* loaded the present value.                                               *)
LockInv ==
    /\ MutualExclusion
    /\ \A w \in Workers : Holds(w) => lock = 1
    /\ \A w \in Workers : pc[w] = "store" => reg[w] = shared

CountInv ==
    /\ texited = Cardinality(Finished)
    /\ pc[Main] /= "clone" => tcreated >= Cardinality(Existing)
    /\ pc[Main] = "clone" => tcreated >= Cardinality(Existing) + 1
    /\ pc[Main] = "count" => reg[Main] = tcreated + 1
    /\ pc[Main] = "spin" => reg[Main] = tcreated
    /\ pc[Main] = "after" => Existing = Finished

IInv == TypeOK /\ ForkInv /\ LockInv /\ CountInv

-----------------------------------------------------------------------------

THEOREM InitIInv == Init => IInv
PROOF
<1> SUFFICES ASSUME Init PROVE IInv
    OBVIOUS
<1> USE ThreadsAssumption
<1>1. TypeOK /\ ForkInv
    BY DEF Init, TypeOK, ForkInv, Threads, WorkerPoints, MainPoints
<1>2. LockInv
    BY DEF Init, LockInv, MutualExclusion, Holds, Threads
<1>3. Existing = {} /\ Finished = {}
    BY DEF Init, Existing, Finished, Threads
<1>4. CountInv
    <2>1. Cardinality({}) = 0
        BY FS_EmptySet
    <2>2. texited = 0 /\ tcreated = 0 /\ pc[Main] = "loop"
        BY DEF Init, Threads
    <2> QED
        BY <1>3, <2>1, <2>2 DEF CountInv
<1> QED
    BY <1>1, <1>2, <1>4 DEF IInv

(* Each step keeps the types. *)
LEMMA TypeStep == TypeOK /\ ForkInv /\ [Next]_vars => TypeOK' /\ ForkInv'
PROOF
<1> SUFFICES ASSUME TypeOK, ForkInv, [Next]_vars PROVE TypeOK' /\ ForkInv'
    OBVIOUS
<1> USE ThreadsAssumption DEF TypeOK, ForkInv, Threads, WorkerPoints, MainPoints, Goto, memory, client
<1>1. CASE ForkLoad
    BY <1>1 DEF ForkLoad
<1>2. CASE ForkStore
    BY <1>2 DEF ForkStore
<1>3. CASE CloneRefused
    BY <1>3 DEF CloneRefused
<1>4. ASSUME NEW w \in Workers, Clone(w) PROVE TypeOK' /\ ForkInv'
    BY <1>4 DEF Clone
<1>5. CASE PassLoad
    BY <1>5 DEF PassLoad
<1>6. CASE PassLeave
    BY <1>6 DEF PassLeave
<1>7. CASE NextLoop
    BY <1>7 DEF NextLoop
<1>8. ASSUME NEW w \in Workers, WorkerStep(w) PROVE TypeOK' /\ ForkInv'
    <2>1. CASE TakeLock(w)
        BY <2>1, <1>8 DEF TakeLock
    <2>2. CASE LockTest(w)
        BY <2>2, <1>8 DEF LockTest
    <2>3. CASE LockSwap(w)
        BY <2>3, <1>8 DEF LockSwap
    <2>4. CASE Unlock(w)
        BY <2>4, <1>8 DEF Unlock
    <2>5. CASE SharedLoad(w)
        BY <2>5, <1>8 DEF SharedLoad
    <2>6. CASE SharedStore(w)
        BY <2>6, <1>8 DEF SharedStore
    <2>7. CASE Exit(w)
        BY <2>7, <1>8 DEF Exit
    <2> QED
        BY <1>8, <2>1, <2>2, <2>3, <2>4, <2>5, <2>6, <2>7 DEF WorkerStep
<1>9. CASE UNCHANGED vars
    BY <1>9 DEF vars
<1> QED
    BY <1>1, <1>2, <1>3, <1>4, <1>5, <1>6, <1>7, <1>8, <1>9 DEF Next, MainStep

(* Each step keeps the lock's invariant. *)
LEMMA LockStep == TypeOK /\ LockInv /\ [Next]_vars => LockInv'
PROOF
<1> SUFFICES ASSUME TypeOK, LockInv, [Next]_vars PROVE LockInv'
    OBVIOUS
<1> USE ThreadsAssumption
        DEF TypeOK, LockInv, MutualExclusion, Holds, Threads, Goto, memory, client
<1>1. CASE ForkLoad
    BY <1>1 DEF ForkLoad
<1>2. CASE ForkStore
    BY <1>2 DEF ForkStore
<1>3. CASE CloneRefused
    BY <1>3 DEF CloneRefused
<1>4. ASSUME NEW w \in Workers, Clone(w) PROVE LockInv'
    BY <1>4 DEF Clone
<1>5. CASE PassLoad
    BY <1>5 DEF PassLoad
<1>6. CASE PassLeave
    BY <1>6 DEF PassLeave
<1>7. CASE NextLoop
    BY <1>7 DEF NextLoop
<1>8. ASSUME NEW w \in Workers, WorkerStep(w) PROVE LockInv'
    <2>1. CASE TakeLock(w)
        BY <2>1, <1>8 DEF TakeLock
    <2>2. CASE LockTest(w)
        BY <2>2, <1>8 DEF LockTest
    <2>3. CASE LockSwap(w)
        BY <2>3, <1>8 DEF LockSwap
    <2>4. CASE Unlock(w)
        BY <2>4, <1>8 DEF Unlock
    <2>5. CASE SharedLoad(w)
        BY <2>5, <1>8 DEF SharedLoad
    <2>6. CASE SharedStore(w)
        BY <2>6, <1>8 DEF SharedStore
    <2>7. CASE Exit(w)
        BY <2>7, <1>8 DEF Exit
    <2> QED
        BY <1>8, <2>1, <2>2, <2>3, <2>4, <2>5, <2>6, <2>7 DEF WorkerStep
<1>9. CASE UNCHANGED vars
    BY <1>9 DEF vars
<1> QED
    BY <1>1, <1>2, <1>3, <1>4, <1>5, <1>6, <1>7, <1>8, <1>9 DEF Next, MainStep

(* The sets the counters count, and how the steps change them. *)
LEMMA Counted ==
    ASSUME TypeOK
    PROVE  /\ IsFiniteSet(Existing) /\ IsFiniteSet(Finished)
           /\ Cardinality(Existing) \in Nat /\ Cardinality(Finished) \in Nat
           /\ Finished \subseteq Existing
           /\ Cardinality(Finished) <= Cardinality(Existing)
           /\ Cardinality(Finished) = Cardinality(Existing) => Finished = Existing
PROOF
<1>1. Existing \subseteq Workers /\ Finished \subseteq Existing
    BY DEF Existing, Finished
<1>2. IsFiniteSet(Existing)
    BY <1>1, FS_Subset, ThreadsAssumption DEF ThreadsAssumption
<1>3. /\ IsFiniteSet(Finished)
      /\ Cardinality(Finished) <= Cardinality(Existing)
      /\ Cardinality(Finished) = Cardinality(Existing) => Finished = Existing
    BY <1>1, <1>2, FS_Subset
<1> QED
    BY <1>1, <1>2, <1>3, FS_CardinalityType

(* The creation and the exit of a thread are the only steps that change    *)
(* who exists and who has finished.                                        *)
LEMMA SetsStep ==
    ASSUME TypeOK, [Next]_vars
    PROVE  \/ Existing' = Existing /\ Finished' = Finished
           \/ \E w \in Workers : Clone(w) \/ Exit(w)
PROOF
<1> USE ThreadsAssumption DEF TypeOK, Threads, Existing, Finished, Goto
<1>1. CASE ForkLoad \/ ForkStore \/ CloneRefused
    BY <1>1 DEF ForkLoad, ForkStore, CloneRefused
<1>2. CASE PassLoad \/ PassLeave \/ NextLoop
    BY <1>2 DEF PassLoad, PassLeave, NextLoop
<1>3. ASSUME NEW w \in Workers, TakeLock(w) \/ LockTest(w) \/ LockSwap(w)
      PROVE  Existing' = Existing /\ Finished' = Finished
    BY <1>3 DEF TakeLock, LockTest, LockSwap
<1>4. ASSUME NEW w \in Workers, Unlock(w) \/ SharedLoad(w) \/ SharedStore(w)
      PROVE  Existing' = Existing /\ Finished' = Finished
    BY <1>4 DEF Unlock, SharedLoad, SharedStore
<1>5. CASE UNCHANGED vars
    BY <1>5 DEF vars
<1> QED
    BY <1>1, <1>2, <1>3, <1>4, <1>5 DEF Next, MainStep, WorkerStep

(* Each step keeps what the counters count. *)
LEMMA CountStep == TypeOK /\ CountInv /\ [Next]_vars => CountInv'
PROOF
<1> SUFFICES ASSUME TypeOK, CountInv, [Next]_vars PROVE CountInv'
    OBVIOUS
<1> USE ThreadsAssumption
<1>a. /\ IsFiniteSet(Existing) /\ IsFiniteSet(Finished)
      /\ Cardinality(Existing) \in Nat /\ Cardinality(Finished) \in Nat
      /\ Cardinality(Finished) <= Cardinality(Existing)
      /\ Cardinality(Finished) = Cardinality(Existing) => Finished = Existing
    BY Counted
<1>1. ASSUME NEW w \in Workers, Clone(w) PROVE CountInv'
    <2>1. Existing' = Existing \cup {w} /\ w \notin Existing /\ Finished' = Finished
        BY <1>1 DEF Clone, Existing, Finished, TypeOK, Threads
    <2>2. Cardinality(Existing') = Cardinality(Existing) + 1
        BY <2>1, <1>a, FS_AddElement
    <2>3. pc[Main] = "clone" /\ pc'[Main] = "loop" /\ UNCHANGED <<tcreated, texited>>
        BY <1>1 DEF Clone, TypeOK, Threads, memory
    <2> QED
        BY <2>1, <2>2, <2>3 DEF CountInv
<1>2. ASSUME NEW w \in Workers, Exit(w) PROVE CountInv'
    <2>1. Finished' = Finished \cup {w} /\ w \notin Finished /\ w \in Existing /\ Existing' = Existing
        BY <1>2 DEF Exit, Goto, Existing, Finished, TypeOK, Threads
    <2>2. Cardinality(Finished') = Cardinality(Finished) + 1
        BY <2>1, <1>a, FS_AddElement
    <2>3. pc'[Main] = pc[Main] /\ texited' = texited + 1 /\ UNCHANGED <<tcreated, reg>>
        BY <1>2 DEF Exit, Goto, TypeOK, Threads
    <2>4. pc[Main] /= "after"
        BY <2>1 DEF CountInv
    <2> QED
        BY <2>1, <2>2, <2>3, <2>4 DEF CountInv
<1>3. ASSUME Existing' = Existing, Finished' = Finished PROVE CountInv'
    <2> USE <1>3, <1>a DEF CountInv, TypeOK, Threads, Goto, memory, client
    <2>1. CASE ForkLoad
        BY <2>1 DEF ForkLoad
    <2>2. CASE ForkStore
        BY <2>2 DEF ForkStore
    <2>3. CASE CloneRefused
        BY <2>3 DEF CloneRefused
    <2>4. CASE PassLoad
        BY <2>4 DEF PassLoad
    <2>5. CASE PassLeave
        <3>1. texited = reg[Main] /\ reg[Main] = tcreated
            BY <2>5 DEF PassLeave
        <3>2. Existing = Finished
            BY <3>1, <2>5 DEF PassLeave
        <3> QED
            BY <2>5, <3>2 DEF PassLeave
    <2>6. CASE NextLoop
        BY <2>6 DEF NextLoop
    <2>7. ASSUME NEW w \in Workers, WorkerStep(w), ~Exit(w) PROVE CountInv'
        <3>1. pc'[Main] = pc[Main] /\ reg'[Main] = reg[Main] /\ UNCHANGED <<tcreated, texited>>
            BY <2>7 DEF WorkerStep, TakeLock, LockTest, LockSwap, Unlock, SharedLoad, SharedStore
        <3> HIDE DEF TypeOK, Threads
        <3> QED
            BY <3>1
    <2>8. CASE UNCHANGED vars
        BY <2>8 DEF vars
    <2> QED
        BY <1>1, <1>2, <2>1, <2>2, <2>3, <2>4, <2>5, <2>6, <2>7, <2>8 DEF Next, MainStep
<1> QED
    BY <1>1, <1>2, <1>3, SetsStep

THEOREM Invariance == Spec => []IInv
PROOF
<1>1. IInv /\ [Next]_vars => IInv'
    BY TypeStep, LockStep, CountStep DEF IInv
<1> QED
    BY InitIInv, <1>1, PTL DEF Spec

(* Type correctness. *)
THEOREM TypeCorrect == Spec => []TypeOK
PROOF
    BY Invariance, PTL DEF IInv

(* The spin lock of libfstl is exclusive, whatever the threads do.         *)
THEOREM LockIsExclusive == Spec => []MutualExclusion
PROOF
<1>1. IInv => MutualExclusion
    BY DEF IInv, LockInv
<1> QED
    BY Invariance, <1>1, PTL

-----------------------------------------------------------------------------

(* Fork, exit, pass and the lock do what ForkJoin promises: a loop is only *)
(* left when every thread created for it has exited, and no update made    *)
(* under the lock is lost.                                                 *)
THEOREM LibraryImplements == Spec => Implements
PROOF
<1> USE ThreadsAssumption
<1>1. Init => FJ!Init
    BY DEF Init, FJ!Init, Existing, Finished, Threads
<1>2. IInv /\ [Next]_vars => [FJ!Next]_FJ!vars
    <2> SUFFICES ASSUME IInv, [Next]_vars PROVE [FJ!Next]_FJ!vars
        OBVIOUS
    <2> USE DEF FJ!vars, IInv, TypeOK, Threads, Goto, memory, client
    <2>1. ASSUME NEW w \in Workers, Clone(w) PROVE FJ!Fork(w)
        BY <2>1 DEF Clone, FJ!Fork, Existing, Finished
    <2>2. ASSUME NEW w \in Workers, Exit(w) PROVE FJ!Finish(w)
        BY <2>2 DEF Exit, FJ!Finish, Existing, Finished
    <2>3. ASSUME Existing' = Existing, Finished' = Finished PROVE [FJ!Next]_FJ!vars
        <3> USE <2>3
        <3>1. CASE ForkLoad \/ ForkStore \/ CloneRefused \/ PassLoad
            BY <3>1 DEF ForkLoad, ForkStore, CloneRefused, PassLoad
        <3>2. CASE PassLeave
            <4>1. Existing = Finished
                BY <3>2, CountStep DEF PassLeave, CountInv
            <4> QED
                BY <3>2, <4>1 DEF PassLeave, FJ!Join, FJ!Next
        <3>3. CASE NextLoop
            BY <3>3 DEF NextLoop, FJ!NextLoop, FJ!Next
        <3>4. ASSUME NEW w \in Workers, SharedStore(w) PROVE FJ!Update(w)
            BY <3>4 DEF SharedStore, FJ!Update, Existing, Finished, LockInv
        <3>5. ASSUME NEW w \in Workers, WorkerStep(w), ~SharedStore(w), ~Exit(w)
              PROVE  UNCHANGED FJ!vars
            BY <3>5 DEF WorkerStep, TakeLock, LockTest, LockSwap, Unlock, SharedLoad
        <3>6. CASE UNCHANGED vars
            BY <3>6 DEF vars
        <3> QED
            BY <2>1, <2>2, <3>1, <3>2, <3>3, <3>4, <3>5, <3>6 DEF Next, MainStep, FJ!Next
    <2> QED
        BY <2>1, <2>2, <2>3, SetsStep DEF FJ!Next
<1> QED
    BY <1>1, <1>2, Invariance, PTL DEF Spec, Implements, FJ!Spec
=============================================================================
