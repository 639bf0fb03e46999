# Verification of c2rvcompiler

`3tle3wa` compiles SysY to RISC-V assembly. This directory holds TLA+ models of
its parts, the TLC configurations that check them on small instances, and proofs
that TLAPS checks for every value of the constants. Paths below are relative to
`src/3tle3wa/` of the repository; headers are under `include/3tle3wa/`, the rest under `src/`.

Assertions and panics are part of what is modelled: `logs.hh` leaves
`// #define NDEBUG` commented out, so the default build evaluates `Assert` and ends
in `panic`.

## The system

The compiler is one sequential program. A source file becomes a tree (ANTLR), the
tree becomes IR, passes rewrite the IR, and the backend turns each function into
machine operations ("uops") on virtual registers, assigns registers, emits
instructions and walks over them once with a peephole pass. The output is linked with a small run-time
library, which is where threads come in.

| Part | State it keeps | Operations | Talks to |
|---|---|---|---|
| Frontend, `frontend/AstVisitor.cpp` | symbol tables, current block, blocks that wait for a target | one visit per rule; inlines a call of a function already compiled | IR, by construction |
| IR, `ir/` | values with user lists, instructions, blocks with edges and attributes, function and global tables | insert, replace, remove, fold; `GetSequentialNodes` lays blocks out | everything |
| Analyses, `pass/analysis/` | dominator sets and tree, loop tree, side-effect flags, tail calls | fixpoints over the graph, walks by attributes | passes |
| Passes, `pass/interprocedural/`, `pass/intraprocedural/` | work lists, lattices, value tables; between passes only the IR, the dominator tree and the loop tree | SSA, SCCP, DCE, DVNT, loops, combining, hoisting, recursion, globals, dead parameters | IR, run in a fixed order by `pass/Pass.cpp` |
| Translation, `backend/Translations.cpp` | virtual registers, caches of constants | one method per instruction, `dephi` | IR to uops |
| Liveness, `backend/register/LiveCalculation.cpp` | four sets per block | clear, initialise, iterate | intervals |
| Live intervals, `LiveInterval.cpp`, `RLVirtualRegister.cpp` | a `std::set` of segments per register | `MakeSeg`, `GenSegment`, `LiveAt` | sweep, call saving |
| Interference, `RegisterAllocation.cpp` | queue of segments, heap of open ones, graph | `GraphAllocation` | colouring |
| Colouring, `RegisterAllocation.cpp`, `InterferenceGraph.cpp` | priority queue, colours, used registers | `KempeOptimistic`, `allocaColor` | spilling, prologue |
| Spill rounds, `LiveCalculation.cpp`, `Rewrite.cpp` | views of uops, stack flags | `DoAssignment`, `rewrite` | all of the above, repeatedly |
| Stack frame, `RegisterAllocation.cpp` | offsets | `GenerateStackInfo` | prologue, calls |
| Call saving, `backend/rl/ToAsm.cpp`, `riscv/ToAsm.cpp` | which saved registers are not back, who owns a slot | `GenerateCallInfo`, `BeforeCall`, `UseVirtReg`, `RecoverCall` | intervals, frame |
| Peepholes, `riscv/cpu/Optimization.cpp` | two iterators on the list of instructions | `erase`, advance | printed assembly |
| Schedulers, `riscv/cpu/`, `backend/scheduler/` | dependence graph, reservation table | not reached: only the FIFO policy runs | |
| Thread library, `utils/fstl.cpp` | `tcreated`, `texited`, `lock` | fork, exit, pass, lock, unlock | generated program, kernel |
| Memset, `utils/crvc.cpp` | pointer and length | one loop | loop-to-memset pass |

What is hard in it:

* **Twenty-five passes that trust each other.** A pass relies on what earlier ones left:
  the edges, the user lists, the attributes the front end gave the blocks, a dominator
  tree and a loop tree computed once and never again. Nothing checks them in between,
  and what goes wrong shows many passes later, or as a wrong number at run time.
* **Orders of addresses.** Sets of blocks are sets of pointers; the passes go through
  them in an order that changes with the allocator.
* **Long sequences of legal steps.** Register assignment runs in rounds; every
  round inserts code, moves positions and starts from objects that remember the
  round before. Call saving is lazy: a register saved for one call comes back at
  its next use, with other calls in between.
* **Orders nobody wrote down.** The priority queue of the colouring compares with
  an `operator<` that is no strict weak order; segments with equal begins come off
  their queue in any order.
* **Copies and caches.** Phis of a block happen at once, their copies one after the
  other, in blocks translated before; constants are cached in registers per block.
* **Boundaries.** A register read at a position may be reused by the result
  written there: three places compare ends of intervals, each in its own way.
* **Fixpoints** whose termination test looks at less than what they compute.
* **Interleaving**, in the run-time library only: plain loads and stores, atomic
  operations and a kernel that may refuse a clone.

What makes each modelled part correct:

* After every pass the program returns and prints what the source says.
* The graph the passes keep is the graph of the jumps, phis have one operand for every
  predecessor, every value is set once and before it is used, and no assertion fails. The dominator
  tree is exact when it is made; in every later round of value numbering it still leads to
  each block there is a way to, and what it puts above a block is on every way to it.
* After phi removal every path computes what the phis say.
* Liveness computes the least solution of its equations, and stops.
* Edges are exactly the pairs of registers whose intervals overlap.
* The colouring is proper, spills only under pressure, tells the prologue
  every callee-saved register it hands out, and in no round takes a register for allocated
  on the strength of an earlier one.
* Emitted code keeps values apart that are needed together; spill code does not
  change what is computed; the rounds end.
* Variables, saved registers and arguments of a frame are apart, and nested calls leave
  each other's frames alone.
* Around calls nothing is clobbered: operands, arguments and what leaves the block
  are the right values.
* The peephole pass changes neither a register nor a memory cell.
* The lock excludes; `pass` returns after every created thread has exited, and
  does return.

`PROJECT.json` lists the parts under `components` and what is hard to test in
them, line by line, under `hazards`.

## The modules

| Module | Models | Uses |
|---|---|---|
| `Layout` | the graph of a function's blocks and `GetSequentialNodes` | |
| `Dominators` | `ComputeDominanceInfo` and `ComputeDominanceFrontier`; what they mean in terms of walks | `Layout` |
| `IR` | values, instructions, functions, edges, user lists, folding; what running the IR gives | `Layout` |
| `Lowering` | `AstVisitor`: from the syntax tree to IR, with inlining at calls | `IR` |
| `PhiPlacement` | which blocks `InsertPhiFunction` gives a phi | `Dominators` |
| `SSA` | phi insertion, renaming, useless code | `IR`, `PhiPlacement` |
| `ControlFlow` | useless control flow, unreachable blocks, SCCP | `SSA` |
| `ValueNumbering` | DVNT with what stores and calls make it forget | `Globals` |
| `Globals` | side effects, localisation of globals, dead parameters, tail calls | `IR` |
| `Loops` | loop tree, code motion, loops to memset, full and dynamic unrolling | `IR` |
| `Arrays` | hoisting of local arrays, the two peephole passes on IR | `SSA` |
| `Combine` | instruction combining, recursion optimisation | `SSA` |
| `Optimizer` | the compiler from tree to final IR, one step a pass | all of the above; `SysY` as an instance |
| `SysY` | what a SysY program means: the reference | |
| `Liveness` | `computeLivenessInfomation`, one action per block visit | |
| `LiveIntervals` | `MakeSeg`, `GenSegment`, `LiveAt` as operators on sets of segments | |
| `VirtualRegisters` | the constant both of the next two speak of | |
| `Sweep` | the sweep of `GraphAllocation`, one action per segment | `VirtualRegisters` |
| `Coloring` | `KempeOptimistic` and `allocaColor`, one action per pop and per outcome | `VirtualRegisters` |
| `GraphAllocation` | one allocation: sweep, then colouring of the graph it drew | `Sweep` and `Coloring`, extended |
| `RegAlloc` | `DoAssignment`: rounds of analysis, sweep, colouring and spill code | `LiveIntervals`, `Sweep` and `Coloring`, extended |
| `CallSave` | emission of one block: saves, lazy reloads, arguments, results | |
| `StackFrame` | `GenerateStackInfo` round after round, and the offsets in spill code | |
| `CallFrames` | prologue, save area, stack arguments and epilogue of nested calls, on those frames | `StackFrame`, extended |
| `PhiRemoval` | `DoTranslation` with the caches of `li` and `lf`, phis and `dephi` | |
| `Peephole` | `AsmBasicBlock::Peepholes`, one action per turn | |
| `ForkJoin` | what the thread library promises | |
| `ThreadLib` | the library, one action per access to shared memory | `ForkJoin`, refined |
| `GraphAllocationProofs` | lemmas about one step of the sweep or of the colouring; theorems about the two together | `GraphAllocation` |
| `RegAllocProofs` | lemmas about live intervals and flattened sequences; theorems about the rounds | `RegAlloc`, and `GraphAllocationProofs` for its lemmas |
| `FlowGraphProofs` | theorems about layout, dominance, phi placement and liveness | `Layout`, `Dominators`, `PhiPlacement`, `Liveness` |
| `CallSaveProofs`, `PhiRemovalProofs`, `PeepholeProofs`, `ThreadLibProofs` | theorems | the module named |
| `StackFrameProofs` | theorems about frames and the calls that run on them | `CallFrames` |
| `MC...` | programs, graphs and bounds for TLC | the module named |

How state and actions correspond to the code:

* **`IR`.** A function is a record: `code` maps a block to its instructions, `edge` is the
  set of pairs in `predecessors` and `successors` (kept apart from the jumps, as in the
  code), `attr` the `BlkAttr` of each block, `kids` the dominator tree last computed,
  `loops` the loop tree. User lists are the operands seen from the other side, except
  for `unseen` and `stale`, the entries that are missing or left over. An assertion or a
  look-up that fails puts a name into `bad`. `asc` orders blocks by address, either way.
  `RunMain` runs a unit; the values an instruction gives are those of LLVM and of the
  library, which are not in the repository.
* **`Layout`, `Dominators`, `PhiPlacement`.** A loop of the code is a recursive function of the number of
  its turns: `LayoutRun(f)[k]` is stack and list after k turns of the `while` of
  `GetSequentialNodes`, `Turns(f, nodes)[k]` the dominator sets after k turns of
  `ComputeDominatorSet`, `IntersectAll` one turn over the blocks in order, `Ancestors` the
  climb of `runner`, `Placing(df, defs)[k]` the work list and the phis after k turns of the
  loop of `InsertPhiFunction` for one variable. The flag `dirty_` of a block is whether it is
  among the phis. `LayoutTurns`, `TurnsEnough` and the number of blocks bound the turns; that
  they are enough is proved.
* **`Lowering`.** The members of `AstVisitor` are the fields of a context `cx`; every
  visitor is an operator from a context to a context. A visitor that visits several
  parts in a row is written last part first: `VisitWhile` has the condition visited, then
  the body, then closes the loop. `Inline` is `Inline::Inline`, at the call.
* **`SSA` to `Combine`.** One operator for every function of a pass with the same name
  where there is one, from a function (or a unit) to a function. A loop of the code over a
  list is a fold over a sequence (`Along`), a loop until nothing changes is recursive.
* **`Optimizer`.** `unit` is `comp_unit`, `todo` the functions that are still to come,
  `done` the place in `Optimization::DoOptimization`. `Lower` is the whole of the front end,
  `Localise` is `GlbValueLocalization`, and every other action is one pass on one function,
  in the order of `Order`; all functions go through all passes one after the other.
* **`Liveness`.** `liveIn`, `liveOut`, `liveDef`, `liveUse` are the four sets of
  `RLBasicBlock`; `Init` lets them hold anything an earlier round may have left.
  `InitBlock` is the first loop of `computeLivenessInfomation` for one block,
  `Visit` is `CalculateLiveInOut`, `Again` and `Finish` are the two outcomes of
  `while (changed)`. `LaidOut` is what `GetSequentialNodes`
  guarantees of the order of blocks; `GraphsMatchCode` checks it on what `compile` ends with.
* **`Sweep`.** `pending` is the queue of segments, `active` the heap of open ones,
  `conn` the edges. One `Take` is one iteration; the heap pops of that iteration
  are in it.
* **`Coloring`.** `todo` is the priority queue; `MayPop` lets it give any node that
  the comparisons of `operator<` allow at its top. `GiveWish`, `GiveFree`, `Spill`,
  `Panic` and `Skip` are the ways through `allocaColor` and its caller. `used` is
  `used_real_regs_`.
* **`GraphAllocation`.** `trait` is what the virtual registers are when the planner is
  called (arrival registers, wishes, temporaries); `SweptGraph` is the graph that
  `RegisterIGNode` and `Connect` leave; `stage` is the place in the function.
* **`RegAlloc`.** `phase` is the place in `DoAssignment`. `view` is `uops_view_`,
  `count` is `regidx_`, `onStk` and `keep` the flags of virtual registers. Liveness
  enters as the least solution, which is what `FlowGraphProofs` shows the iteration
  to compute; sweep and colouring are the machines of their modules, `Queued` and
  `Graphed` what one hands to the next. `InsertSpillCode` is `rewrite()` over all blocks.
* **`CallSave`.** One action per uop of a block, in order: `EmitOp`, `EmitMv`,
  `EmitCall`, `EmitJump` are the `ToAsm` methods with everything they call.
  Values are symbolic: a register holds the number of the uop that computed it.
* **`StackFrame`.** `slots` is `stk_storage_`, `off` the `offset_` of each, `access` the
  loads and stores without a base. `Allocate` is a round as seen from the frame: some s
  registers taken, some registers spilled. `PlaceShort`, `PlaceLong` and `SizeFrame` are
  the two loops and the end of `GenerateStackInfo`; `Rewrite` is `rewrite()`.
* **`CallFrames`.** `memory` maps addresses of words to who wrote them; `frames` is one
  record per call. `Prologue` is `RLPlanner::Init`, `Call` is `BeforeCall` with the part of
  `UopCall::ToAsm` that uses the stack, `Recover` is `RecoverCall`, `Epilogue` is
  `RecoverBeforeRet`. A saved float takes four bytes, the model gives it eight.
* **`PhiRemoval`.** `lui` and `fimm` are `lui_map` and `fimm_map`; `TranslatePlain`,
  `TranslateConst` and `TranslatePhi` are `TranslateTo` of one instruction,
  `NextBlock` and `StartDephi` the head and the end of the loop over blocks, `Copy`
  one turn of the inner loop of `dephi`. The reference takes the phis of a block
  together; both sides compute terms, compared on every path of `MaxWalk` blocks.
* **`Peephole`.** `cur` and `nxt` are the two iterators as places in the list; 0 is
  the iterator of an erased element.
* **`ThreadLib`.** One action per load, store, atomic operation or system call.
  A spin that fails only yields and changes nothing.

An abstract specification stands behind four of them: the meaning of the source, read
off the syntax tree and not off the compiler (`SysY`, in `SameOutcome`), the equations of liveness
(`NeverTooMuch`, `StopsAtFixpoint`), overlap of segments (`EdgesAreOverlaps`) and
`ForkJoin`, which `ThreadLib` refines through `INSTANCE ForkJoin WITH`.

## The runs

| Run | Question | Result |
|---|---|---|
| `compile` | After the front end and after each of the 25 passes: does the program do what the source says, is its graph sound and laid out as liveness needs it, is it in SSA form, is the dominator tree right when made and still good for the later rounds of value numbering, has no assertion failed? | holds |
| `compile_outcome` | The same outcome, for an array read before its last store | violated |
| `compile_layout` | Does one target of a branch follow it, when both arms of an `if` leave a loop? | violated |
| `liveness` | Does the iteration stop, at a solution, below every solution, and is it what a walk over the graph says? | holds |
| `allocation` | Are the edges exactly the overlaps, are overlapping registers kept apart in every order of the two queues, is every spill forced, is every s register recorded, does it end? | holds |
| `regalloc` | Does every round that reports no spill leave each register with a colour? Do the rounds end in code that keeps values apart, tells calls what to save and computes the same? | holds |
| `callsave` | Are operands, arguments and values leaving the block right, whatever the assignment? | holds |
| `callsave_inplace` | The same when a move has one register on both sides | violated |
| `frame` | Are the parts of a frame apart, does spill code find its slots, do nested calls leave each other's frames alone and restore what they saved? | holds |
| `phi` | Do the uops compute what the phis say on every path? Do the caches speak of the block at hand only? | holds |
| `peephole` | Does erasing change what the block computes, is one pass enough, does it end? | holds |
| `threadlib` | Is the lock exclusive, is the library a fork and join, does pass return? | holds |

The three violations are the findings of `PROJECT.json`:

* `HoistLocalArray` (`hoistarr.cpp:153`) makes a local array whose elements are stored
  once in the first block a constant, and does not ask whether it is read before one of
  the stores. The program then reads the later value.
* The back end panics on a branch neither of whose targets comes next in the layout
  (`Translations.cpp:333`); removing the blocks that only jump makes such branches.
* `UopMv::ToAsm` returns before the reload when both sides have one register. The
  next call then runs into `should free before saving again`. `callsave` leaves
  such moves out (`NoMoveInPlace`), and shows the rest to be right.

Other disagreements met while modelling. The passing runs leave their cases out where
said:

* Programs in `Wrong` of `MCOptimizer`, each of which makes `SameOutcome` false:
  `InstCombine` turns `(x * 6) / 3` into a product though the first may overflow, and
  rewrites a comparison that has other users when it takes `!!x` apart; `RecursionOpt`
  ends an alternating recursion on the wrong side for one parity; a constant argument of
  a parameter that `EDP` drops goes wrong (`edp.cpp:64`).
* Programs in `Moved` of `MCOptimizer`: `LoopInvariant` moves a store before a loop that
  may go round zero times, or whose body reads the place first (`loopinvariant.cpp:93`).
  `SameOutcome` fails for them too, earlier than for those in `Wrong`; to see it, put `Moved` for
  `Wrong` in `MCOptimizerWrong.cfg`. A loop with such a store that goes round at least once and does not
  read it is in `compile`.
* `InterferenceGraph::KempeOptimistic` panics when a temporary of spill code finds no register
  (`RegisterAllocation.cpp:66`). In `regalloc` the model reaches this in a second round: the
  comparisons leave the order of a temporary and an ordinary register of smaller degree
  open, and a temporary served last may find every register taken. Whether a heap serves
  them so depends on the library's `priority_queue`. There is then no emitted code, and
  the properties of it say nothing.
* In the model as in the source, and not among the programs: comparisons of a bool with a
  number (`!x == 5`), a loop fill whose index is not the counter (`loopmemset.cpp`), a loop of a
  shape `DynamicUnrolling` does not expect, which ends in `assert(false)`, a phi
  read in a body after its next value (`FullyExpand`), stale entries of user lists that
  fail `ReplaceSRC` in DVNT (`dvnt.cpp:230`).
* `RecursionOpt` does not give the block before the exit an edge to it
  (`recopt.cpp:565`); `GraphsMatchCode` leaves out functions that have been through it.
* `ResetRAInfo` skips parameters, so their intervals stay those of the first round
  (`LiveCalculation.cpp:61`); `MakeSeg` ignores a segment whose begin is already
  there, and the parameter is taken for dead too early. `KeptApart` and
  `SavedAcrossCalls` therefore speak of parameters in the first round only
  (`Reliable`).
* `dephi` starts with the caches of the last block (`Translations.cpp:1608`). `phi`
  leaves out the functions in which the first copy finds something there (`Leaks`, `MCNoLeak`).
* `erase` of the first of a pair leaves both iterators at one element
  (`riscv/cpu/Optimization.cpp:101`); the walk then removes it as redundant with
  itself and continues with a dangling iterator. `NothingChanged` holds until an
  instruction is compared with itself.

`__crvc_fork` counts a thread before the clone that may be refused (`fstl.cpp:35`); from
then on `pass` waits for ever. `PassReturnsIfCreated` is stated up to the first refusal.

### Bounds, and why they are enough

* `MCOptimizer`: 52 programs in eight families, each made for a part of the language and
  the passes it meets: nested `and` and `or` around and inside a loop with breaks (16); loops
  that are unrolled, left early or continued (4); arrays filled by initialisers and nested
  loops (3 and 1); globals of every use with a function that is inlined; functions that
  call themselves in six shapes; loops inlined into loops, a loop on a remainder,
  conditions known when compiling and a store that leaves its loop (5); sums and products with constants (16). Both
  orders of addresses. An int has `Width` = 8 bits, so overflow happens and products
  stay small; `Inputs` are 0, 1 and 2, and `getint` gives the next number at every call,
  so calls cannot be swapped or dropped unseen; `Steps` = 30 rounds and calls of the
  source and `Fuel` = 60 block entries of the IR are more than any of the programs needs
  (a run that hits either gives another outcome and would violate `SameOutcome`, or be
  left out and noticed: no program is left out). `PastRecursion` names the functions
  that `GraphsMatchCode` leaves out.
* `MCLiveness`: all laid-out graphs of three blocks and six block bodies over a
  local and a parameter. Three blocks give a branch, a join, a loop and a nested
  back edge; the equations of different registers are independent, so two
  registers show all there is.
* `MCGraphAllocation`: all sets of at most `MaxSegments` = 4 segments over
  `Positions` = 3 positions, of four registers that may be a parameter, a call result, a
  spill temporary and a local, with three machine registers of both kinds. Edges concern
  two segments at a time, and the heap matters with a third one opened before and
  closed between; four registers are the fewest that force a spill with three machine
  registers.
* `MCRegAlloc`: six functions chosen for a case each (pressure in a block, a loop
  with calls, a diamond with a phi, stack parameters, parameters under pressure, a
  loop under pressure); `MaxVregs` = 14 virtual registers, the guard of `Rewrite`, which no
  function reaches (`Terminates` would fail). The order of the queues stays open.
* `MCCallSave`: five shapes of block with every assignment of four registers that
  keeps apart what meets (`WellFormed`); TLC evaluates the two assumptions of `CallSave` on them. Calls in a row, crossing arguments, arguments on the
  stack, results used over later calls, the function calling itself.
* `MCCallFrames`: none or two stack parameters, up to two locals, spills of four and eight
  bytes until there are `MaxSlots` = 5 slots, every choice of two s registers in every
  round; then up to `MaxCalls` = 2 calls one after the other or nested (`MaxDepth` = 2)
  with up to `MaxSaves` = 2 registers saved. Two short slots under an eight-byte one are
  what alignment needs; a second call is what uses the save area of the first.
* `MCPhiRemoval`: a diamond, a loop that swaps two values and counts, and a nest of two
  loops, each with three constants out of five (one uop; two of one upper part; another
  upper part; a float). Paths of up to `MaxWalk` = 6 blocks go twice around every loop.
* `MCPeephole`: every block of up to four of fourteen instructions over a stack
  pointer, a pointer and two data registers. The pass looks at two neighbours; four
  let one erasure enable another. The value a load brings is never the address of a later
  access of the same width (`NoChase`): the language has no pointers to pointers, so what
  `ld` brings back from the stack is a base for words and floats only.
* `MCThreadLib`: two loops of two threads, each taking the lock up to twice
  (`MaxLocks`), at most one refusal (`Refusals`). A second loop is what carries the
  counters over; two contenders are what a lock needs.

Deadlock is not checked in any run: each machine models a computation that ends.

### Fairness

`Liveness`, `GraphAllocation`, `RegAlloc` and `Peephole` are loops of one thread that is
never blocked: weak fairness of `Next`. `CallSave`, `CallFrames`, `PhiRemoval` and `Optimizer` state safety only (a pass that does not
end is an evaluation that does not end, and the loops of the passes that the code bounds
by nothing are named in the hazards). In
`ThreadLib` every thread is scheduled by the kernel and yields while it spins: weak
fairness of every thread's steps. The lock promises no order, and none is assumed;
`pass` returns under weak fairness because each task takes the lock a bounded
number of times.

## What is proved

The proofs use the assumptions stated beside the constants and nothing else.

* **`FlowGraphProofs`**, on the graph of blocks, in the order the compiler goes over it.

  The layout, for every function whose jumps lead to its blocks and whose exit jumps nowhere
  (`WellFormed`, a part of `GraphsMatchCode`). `LayoutOrdered`:
  the loop of `GetSequentialNodes` ends, no block is listed twice, the entry is first and
  the exit last, each block between them is jumped to by an earlier one and comes after all
  its predecessors but those that end in a continue. The invariant `LayInv` says that
  also of what is on the stack; the loop ends since `LayLeft` shrinks: a block not yet
  listed counts three, what waits on the stack one. `LayoutDischarges`: an order like that is
  what `LayoutAssumption` of `Liveness` asks for.

  Dominance, for every graph and order of blocks in which a walk goes from the entry to each
  listed block and none is entered from outside (`Connected`; `LayoutIsConnected` derives it for the
  layout, and `compile` checks it when the tree is made). `DominatorSetsRight`: the sets
  come to rest, at the blocks that every walk passes. They never lose a dominator (`Enclosing`),
  a turn that changes something takes a block out of one, so there are at most as many
  turns as pairs of blocks; and once at rest, what is in the set of a block holds along
  every walk to it (`AlongWalk`). `DominatorTreeIsRight`: the dominators of a block are in line
  (`DominatorsInLine`: two walks can be cut and joined), so `ComputeImmediateDominator`
  finds the nearest and its assertion cannot fail. `DominanceFrontierIsRight`: a climb from a
  predecessor meets the immediate dominator of the join, because each step leaves a
  smaller set of dominators (`ClimbArrives`), and the blocks it passes are those that
  dominate the predecessor and do not strictly dominate the join (`RunnersRight`). The code gives frontiers only to
  blocks with two predecessors; with one (`OneWayIn`) there are none to give.

  Phis. `PhisAreIteratedFrontier`: the work list runs empty, and the blocks with a phi are the
  least set that holds the frontiers of the blocks with a store and its own. The invariant
  (`PlaceInv`) is that the frontiers of all blocks off the list are in; a block with a store is
  served once, one with a phi from its first phi on, so there is a turn for every block at
  most. `PhiPlacementSuffices` is what `VariableRename` takes for granted when it
  enters a block by whichever edge its stack brings up first: in a block without a phi for
  a variable, the block that set it last (by a store, by a phi, or by being the entry) is the
  same on every walk. It is the nearest of those that dominate the block (`IsNear`): an
  edge that brought another would be into the frontier of that other, and into a phi
  (`PassedOn`).

  Liveness, from the assumption that programs are laid out.
  `TypeCorrect`; `LeastSolution`: the sets never exceed any solution, by the
  invariant that every set is below every solution, which `Transfer` preserves
  since it is monotone; `FixpointAtEnd`: when nothing changed in a round, all blocks
  satisfy their equations. The invariant needed for it says of each block already
  visited in the round that it is consistent with its successors unless `changed` is set.
  `ResultIsLiveness` says what that solution means: a register is in `live_in_` exactly when a
  walk of the graph reads it before writing it. Registers on paths without repetitions
  (`Reaches`) solve the equations, since a block put in front of a path either is new or
  cuts it short (`PathGrows`), so the result, being least, has no others; and going back along
  a walk every block has the register live (`WalkIsLive`). `IterationGivesLiveSets` puts the
  result the way `RegAlloc` takes it, `LiveSets`: for each register the least set of blocks closed under
  the equations, with parameters in the entry. `IterationIsBounded`: every step lowers a
  number, since a round is only followed by another when a `live_out_` has grown.
* **`GraphAllocationProofs`**, from lemmas about one step of either machine.
  `SweepIsExact`: at the end of the sweep the edges are exactly the overlaps. The
  invariant `SweepInv` says which segments are taken, that those popped end before any
  begin to come, and that all pairs among the taken are decided.
  `PrologueKnows`, `SpillsAreForced`: with `ColorInv`, in which no two
  neighbours share a register; this is inductive together with the types because a
  register is given only after asking every neighbour, and that a spill is forced needs
  that colours, once given, stay. `LiveRangesKeptApart` joins the two: the graph that is
  coloured is the one that was swept to its end (`GraphIsSwept`), so overlapping
  segments are neighbours, and neighbours are apart. `ServingIsBounded`: every step takes a
  member from a queue nothing is pushed to.
* **`RegAllocProofs`**, from the same lemmas. `OkIsComplete`: `ColorInv` holds through all
  rounds, and it says that a node off the queue has a register or is spilled. `ValuesKeptApart` and `CallsAreTold`: in the
  code of the last round, two values needed at one point are in different machine
  registers, and the live interval of a value covers every call after which it is
  needed; for every function, graph of blocks, register file and number of rounds.
  Assumed is what the translation guarantees (`FunctionAssumption`): a block has a uop, its
  jump; every instruction is translated to a result of its own, a phi through a copy, so no
  uop reads the register it writes; there is no spill code yet; and parameters arrive in
  different registers. The rounds
  keep this: `RewriteType` shows that the registers `NewReg` numbers are new and that the
  code with spill code in it is well formed. The invariant `IInv` joins `SweepInv`
  and `ColorInv` with `Tracked`: the segments of a register cover what is needed of it in
  the blocks `CalculateInterval` has been through. A needed value has an opening definition in
  its block, since the live sets are closed (`NeededIsDefined`); the segment made for it reaches its last
  use (`EndReachesUses`); and `MakeSeg` loses nothing, because a later segment
  begins after those that are there (`MakeSegExtends`, the case in which the `std::set`
  would drop one). `TemporariesStay` is what keeps spill temporaries off the stack.
  Parameters keep the intervals of the first round (`Reliable`): nothing is said of them
  after it. `TypeCorrect` is the type invariant.
  `SpillCodeIsSound`: whatever `Rewrite` inserts, in every round, each original uop reads
  the values it read in the given function, and each register is left with its value. The
  invariant `SpillInv` compares the code of the round with the code given, both run on
  symbolic values: `Seen` are the registers the code takes from the stack so far (those
  spilled in the round that is about to be rewritten are not yet among them), `Placed` says
  that a uop names such a register only as its slot or as an argument of a call and that spill
  code uses temporaries alone. One rewrite is a simulation, uop by uop (`Like`): registers off
  the stack agree, what was in a register that left for the stack is in its slot. The loads
  before a uop bring the operands to copies of their own and touch nothing else (`LoadsRun`,
  since `NewReg` numbers places differently); a reload or store of an earlier round stays as
  it is (`SpillCodeStays`), and only finds registers of its own there because `TemporariesStay`.
  `RoundsAreBounded`: the rounds cannot go on for ever. Every step lowers, in this order, the
  number of registers of the function that are not on the stack, the steps of
  `DoAssignment` left in the round, the turns left of the loop of this step (`Closer`). The invariant it needs
  (`RoundsInv`) says that only registers of the function are on the stack, that temporaries are
  exactly the registers spill code added, that a colouring asks for another round only with
  something spilled, and that no register has infinitely many segments.
* **`CallSaveProofs`**. `OperandsAreRight`, `NothingIsLost`, `SlotsAreFree` and
  `EndsRestored`: around calls every operand, every argument and every value that leaves the
  block is the right one, for every block and every assignment. Assumed are how machine
  registers divide (`RegistersAssumption`) and what the passes before guarantee of a block
  (`InputsAssumption`): everything is written before it is read and once, values that meet
  have registers of their own, only calls read what stays on the stack, and an unread result
  is that of a call and in `a0`. No move may have one register on both sides
  (`NoMoveInPlace`); `callsave_inplace` shows that this cannot be dropped. The invariant:
  `Marked` says that the marks of registers and the owners of slots tell the same, `Kept` that
  each value still needed is where its mark says, `NoneAfterCalls` and `NoneBeforeCalls`
  that there are marks only between the first and the last call. What is `Needed` between two
  uops is kept apart, so no reload hits a value in use. Arguments are passed one at a
  time; all are in a slot, on the stack or in a callee-saved register by then, so filling
  an argument register destroys none that is still to come.
* **`PhiRemovalProofs`**. `RemovalKeepsExecutions`: after the translation and `dephi`, the uops
  compute on every walk what the function computes, for every function, any phis and
  constants, and walks of any length (`MaxWalk` is any number). Assumed is what SSA construction
  leaves (`FunctionAssumption`, by `IsFunction`): phis first in a block, with results of their
  own and one datum for every predecessor, none in the entry; one instruction that leaves, at the
  end; one constant operand at most. The theorem is about functions that do not `Leak`, since
  the constants of the last block are still cached when `dephi` makes its first copy.
  A block of uops is compared with its block while neither is finished, entered with any
  values (`Enters`: the variables agree, and the register of each phi holds what the phi is
  to become). `Open` says that the uops so far bring those values to what the instructions so far
  make of them, with every cached register holding its constant; an instruction extends this by one step
  (`OpFollows`, `PhiReady`, with `LoadWorks` for `li` and `lf`). `Closed` says of a finished
  block that in front of its last uop everything the last instruction reads is in place, and that
  of the copies made so far (`Leaves`) each holds the value of its datum, whatever other copies
  follow: they write registers no instruction reads. At the end the values a block leaves are those its
  successor is entered with (`BlockEntered`), and the two runs agree from block to block
  (`WalkAgrees`). `CachesOfTheBlock` needs no such assumption: while blocks are translated, what
  the caches name was put there by an earlier uop of the same block and not overwritten.
* **`StackFrameProofs`** (from the types of the constants). `LayoutIsSound` and
  `SpillCodeIsRight`, with the invariant `PlanInv`: what has been placed since
  `GenerateStackInfo` started lies below the running offset, pairwise apart and aligned.
  Arrays come after the short slots and parameters lie above the frame, so a step
  only adds at the end; `Final` says from when on the layout is not done again.
  `TypeCorrect`, `FramesStayIntact` and `CallsRestore`: calls on those frames, for every depth,
  number of calls and of registers saved around them. `ParamInv` adds to the plan that stack
  parameters are numbered without gaps and lie above the frame, so what a caller passes at the
  bottom of its area is where the callee looks. The invariant `Run` then says of the stack of
  frames that each begins where its caller lowered `sp` to (`Chained`), that what belongs to one
  lies above the arguments of all further ones (`Nested`), and that each finds what it owns
  (`Owned`: arguments, saved registers, variables once written, registers kept around the
  call). A step writes below the `sp` of the last frame, or its variables inside it, and
  `StoresElsewhere` carries everything else over; no induction on the depth is needed
  because `Nested` speaks of all pairs.
* **`PeepholeProofs`**. `EffectIsKept` and `OneWalkIsEnough`, for blocks of any length over any
  registers, offsets and values. Assumed of the blocks (`BlocksAssumption`) is that the value a load brings is not the
  address of a later access of the same width (`NoChase`); without it a load into its own
  base (`ld a0, 0(a0)` twice) is no repetition. The lemmas go from one
  instruction to blocks: where the machine after two instructions is the machine after one of
  them (`RedundantIsIdle`, `OvertakenIsIdle`), the rest of the block runs alike (`SameAlong`), so
  taking out the other one keeps the effect of the whole block and `NoChase` (`EraseIsSound`,
  `EraseKeeps`). The invariant
  has three cases: `Comparing`, in which nothing was changed and the pairs already
  passed are no longer any of those the pass shortens, `WithItself` and `Dangling` after the erasure of
  the first of a pair. `WalkIsBounded`: each comparison lowers twice the length of the list less
  the place of the second iterator, so the moves back of the iterators cannot make the walk go
  in circles.
* **`ThreadLibProofs`**. `LockIsExclusive` with the invariant that `lock` is 1
  exactly when one thread is inside. `LibraryImplements`: every step is a step of
  `ForkJoin` or a stutter; the invariant `IInv` adds that `texited` counts the
  threads that have gone, and that `tcreated` counts forks, those in the middle of
  one included.

Only model-checked: liveness under fairness, which is beyond the prover, and the five invariants of
`Optimizer`. For `Terminates`, `Settles` and `Ends` the half that is about the code is proved,
that every step lowers a natural number, or the first of three that changes (`IterationIsBounded`, `ServingIsBounded`,
`RoundsAreBounded`, `WalkIsBounded`), so that no behaviour has infinitely many; that a step is
taken while one is possible is weak fairness and stays with TLC, as does the return of `pass`
(`PassReturnsIfCreated`), which has no such number because threads spin.
The passes are recursive (a walk over a tree, a fixpoint, a program that runs), and what a
recursive definition computes for every input is beyond the prover; `Optimizer` and the
modules it uses are checked program by program, `Layout`, `Dominators` and `PhiPlacement` apart, whose loops are
written as functions of the number of turns so that they can be proved about.

## What is left out

* Floats. They run the same code on separate heaps, graphs and register files, and take
  no decision of their own in the passes.
* The lexer and the parser, generated by ANTLR, and constant expressions other than numbers.
* Code that is never called: `InlineOptFunc`, `StrengthReduction`, `SSADestruction`,
  `DoTailRec2Loop`, the removal of redundant stores, and the full expansion of loops of several blocks.
* Programs whose source has no meaning: an index out of bounds, a division by zero. What
  the compiler does with them is not compared.
* Instruction selection, scheduling and printing.
* In `CallSave`, the tail-call exit with stack arguments, blocks that end
  without their last call being in them, and blocks that write a register they also take in
  (the copy of a phi in a loop of one block) or write one twice.
* In `PhiRemoval`, what instructions other than phi become: an instruction reads its
  operands and at most one constant. Sign extension of the low part is in `Const`.
* In `Peephole`, what becomes of a walk on a freed list node.
* In `ThreadLib`, the stack both threads start on, and the width of the loads.
* Everything listed as `not_modelled`, with the reason, in `PROJECT.json`.

## Plan

Done, in this order: the backend from phi removal over liveness, allocation, frames and
call saving to peepholes; the thread library; the compiler from the syntax tree to the
final IR; the proofs. What is left:

* Instruction selection: the division by magic numbers and the immediates need 64 bits,
  which TLC's integers do not hold; a model at a smaller width would need constants that
  are not the ones of the code.

`Optimizer` ends where `PhiRemoval` starts: its IR is what `DoTranslation` gets.
`PhiRemoval` feeds `RegAlloc`; `StackFrame` gives `CallSave` its slots.
