------------------------------ MODULE ThreadLib -----------------------------
(***************************************************************************)
(* The thread library that is linked into every compiled program (libfstl, *)
(* utils/fstl.cpp): __crvc_fork, __crvc_exit, __crvc_pass and the spin     *)
(* lock, one action per access to the memory the threads share.            *)
(*                                                                         *)
(* The threads around it are those of the documented template: the main    *)
(* one forks PerLoop children and passes, Loops times over; each child     *)
(* does its task and exits.  A task here adds to a variable they share,    *)
(* holding the lock.  The kernel may refuse a clone.                       *)
(*                                                                         *)
(* A failed spin only yields and leaves the state as it is, so it is no    *)
(* step here.                                                              *)
(***************************************************************************)
EXTENDS Naturals, FiniteSets

CONSTANTS
    Main,      \* the thread that forks
    Workers,   \* threads the kernel can create
    PerLoop,   \* forks before each pass
    Loops,     \* bound: parallel loops of the program
    MaxLocks,  \* bound: times one task takes the lock
    Refusals   \* bound: clones the kernel refuses

ASSUME ThreadsAssumption ==
    /\ IsFiniteSet(Workers)
    /\ Main \notin Workers
    /\ PerLoop \in Nat /\ Loops \in Nat /\ MaxLocks \in Nat /\ Refusals \in Nat

VARIABLES
    tcreated, texited, lock,  \* .LC.tcreated, .LC.texited, .LC.lock
    shared,                   \* what the tasks update under the lock
    pc,                       \* where each thread is
    reg,                      \* the register each thread carries a load in
    forked, loop,             \* counters of the main thread's template
    locks,                    \* times each task took the lock
    refused                   \* clones refused so far

memory == <<tcreated, texited, lock, shared>>
client == <<forked, loop, locks, refused>>
vars == <<memory, pc, reg, client>>

Threads == Workers \cup {Main}

(* absent: not created; gone: past its last access to shared memory. *)
WorkerPoints == {"absent", "task", "test", "swap", "load", "store", "unlock", "gone"}
MainPoints == {"loop", "count", "clone", "spin", "after"}

Goto(t, from, to) == pc[t] = from /\ pc' = [pc EXCEPT ![t] = to]

Init ==
    /\ tcreated = 0 /\ texited = 0 /\ lock = 0 /\ shared = 0
    /\ pc = [t \in Threads |-> IF t = Main THEN "loop" ELSE "absent"]
    /\ reg = [t \in Threads |-> 0]
    /\ forked = 0 /\ loop = 1
    /\ locks = [w \in Workers |-> 0]
    /\ refused = 0

-----------------------------------------------------------------------------
(* __crvc_fork: the counter is loaded, one more is stored, then the kernel *)
(* is asked.                                                               *)

ForkLoad ==
    /\ forked < PerLoop
    /\ Goto(Main, "loop", "count")
    /\ reg' = [reg EXCEPT ![Main] = tcreated + 1]
    /\ UNCHANGED <<memory, client>>

(* Mutant: the store is forgotten. *)
ForkStore_Lost ==
    /\ Goto(Main, "count", "clone")
    /\ UNCHANGED <<memory, reg, client>>

ForkStore ==
    /\ Goto(Main, "count", "clone")
    /\ tcreated' = reg[Main]
    /\ UNCHANGED <<texited, lock, shared, reg, client>>

Clone(w) ==
    /\ pc[Main] = "clone" /\ pc[w] = "absent"
    /\ pc' = [pc EXCEPT ![Main] = "loop", ![w] = "task"]
    /\ forked' = forked + 1
    /\ UNCHANGED <<memory, reg, loop, locks, refused>>

(* A negative id is not zero either: the main thread goes on as usual. *)
CloneRefused ==
    /\ refused < Refusals
    /\ Goto(Main, "clone", "loop")
    /\ forked' = forked + 1
    /\ refused' = refused + 1
    /\ UNCHANGED <<memory, reg, loop, locks>>

-----------------------------------------------------------------------------
(* __crvc_pass: tcreated is loaded once, texited until it is equal. *)

PassLoad ==
    /\ forked = PerLoop
    /\ Goto(Main, "loop", "spin")
    /\ reg' = [reg EXCEPT ![Main] = tcreated]
    /\ UNCHANGED <<memory, client>>

PassLeave ==
    /\ texited = reg[Main]
    /\ Goto(Main, "spin", "after")
    /\ UNCHANGED <<memory, reg, client>>

(* The next parallel loop.  Neither counter is ever reset. *)
NextLoop ==
    /\ loop < Loops
    /\ Goto(Main, "after", "loop")
    /\ forked' = 0
    /\ loop' = loop + 1
    /\ UNCHANGED <<memory, reg, locks, refused>>

-----------------------------------------------------------------------------
(* __crvc_spinlock_lock: an ordinary load first, the swap when that is 0. *)

TakeLock(w) ==
    /\ locks[w] < MaxLocks
    /\ Goto(w, "task", "test")
    /\ locks' = [locks EXCEPT ![w] = @ + 1]
    /\ UNCHANGED <<memory, reg, forked, loop, refused>>

LockTest(w) ==
    /\ lock = 0
    /\ Goto(w, "test", "swap")
    /\ UNCHANGED <<memory, reg, client>>

(* Mutant: amoadd in place of amoswap. *)
LockSwap_Adds(w) ==
    /\ Goto(w, "swap", IF lock = 0 THEN "load" ELSE "test")
    /\ lock' = lock + 1
    /\ UNCHANGED <<tcreated, texited, shared, reg, client>>

(* Mutant: what the swap returns is not looked at. *)
LockSwap_Unchecked(w) ==
    /\ Goto(w, "swap", "load")
    /\ lock' = 1
    /\ UNCHANGED <<tcreated, texited, shared, reg, client>>

LockSwap(w) ==
    /\ Goto(w, "swap", IF lock = 0 THEN "load" ELSE "test")
    /\ lock' = 1
    /\ UNCHANGED <<tcreated, texited, shared, reg, client>>

SharedLoad(w) ==
    /\ Goto(w, "load", "store")
    /\ reg' = [reg EXCEPT ![w] = shared]
    /\ UNCHANGED <<memory, client>>

SharedStore(w) ==
    /\ Goto(w, "store", "unlock")
    /\ shared' = reg[w] + 1
    /\ UNCHANGED <<tcreated, texited, lock, reg, client>>

(* Mutant: the wrong word is swapped back. *)
Unlock_Keeps(w) ==
    /\ Goto(w, "unlock", "task")
    /\ UNCHANGED <<memory, reg, client>>

Unlock(w) ==
    /\ Goto(w, "unlock", "task")
    /\ lock' = 0
    /\ UNCHANGED <<tcreated, texited, shared, reg, client>>

(* __crvc_exit: one atomic addition; the thread ends after it. *)
Exit(w) ==
    /\ Goto(w, "task", "gone")
    /\ texited' = texited + 1
    /\ UNCHANGED <<tcreated, lock, shared, reg, client>>

-----------------------------------------------------------------------------

MainStep ==
    \/ ForkLoad \/ ForkStore \/ CloneRefused \/ (\E w \in Workers : Clone(w))
    \/ PassLoad \/ PassLeave \/ NextLoop

WorkerStep(w) ==
    \/ TakeLock(w) \/ LockTest(w) \/ LockSwap(w) \/ Unlock(w)
    \/ SharedLoad(w) \/ SharedStore(w) \/ Exit(w)

Next == MainStep \/ \E w \in Workers : WorkerStep(w)

(* The kernel lets every thread that can run do so; nothing more is needed *)
(* because a task takes the lock a bounded number of times.                *)
Spec ==
    /\ Init /\ [][Next]_vars
    /\ WF_vars(MainStep)
    /\ \A w \in Workers : WF_vars(WorkerStep(w))

-----------------------------------------------------------------------------

TypeOK ==
    /\ tcreated \in Nat /\ texited \in Nat /\ lock \in {0, 1} /\ shared \in Nat
    /\ pc \in [Threads -> WorkerPoints \cup MainPoints]
    /\ pc[Main] \in MainPoints /\ \A w \in Workers : pc[w] \in WorkerPoints
    /\ reg \in [Threads -> Nat]
    /\ forked \in 0 .. PerLoop /\ loop \in Nat
    /\ locks \in [Workers -> 0 .. MaxLocks]
    /\ refused \in 0 .. Refusals

Holds(w) == pc[w] \in {"load", "store", "unlock"}

(* The spin lock: two threads are never both between the swap that read 0  *)
(* and the swap that gives the lock back.                                  *)
MutualExclusion == \A v, w \in Workers : Holds(v) /\ Holds(w) => v = w

Finished == {w \in Workers : pc[w] = "gone"}
Existing == {w \in Workers : pc[w] /= "absent"}

FJ == INSTANCE ForkJoin WITH
        joined <- pc[Main] = "after",
        active <- Existing \ Finished,
        total <- shared

(* Fork, pass, exit and the lock give what ForkJoin promises: pass returns *)
(* only when every thread that was created is past its exit, in every loop *)
(* of the program, and every update made under the lock counts.            *)
Implements == FJ!Spec

(* __crvc_pass returns once the threads that were created have exited, if  *)
(* the kernel has refused none so far.                                     *)
PassReturnsIfCreated == pc[Main] = "spin" /\ refused = 0 ~> pc[Main] = "after"
=============================================================================
