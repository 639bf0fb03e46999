------------------------------ MODULE RegAlloc ------------------------------
(***************************************************************************)
(* RLProgress::DoAssignment: liveness, live intervals, interference graph, *)
(* colouring, spill code, and all over again until nothing is spilled.     *)
(*                                                                         *)
(* Sweep and Coloring are the machines of those modules.  Liveness enters  *)
(* as the least solution of its equations, which is what FlowGraphProofs   *)
(* shows the iteration to compute.  One register class is modelled.        *)
(***************************************************************************)
EXTENDS LiveIntervals, Sweep, Coloring, SequencesExt

CONSTANTS
    MaxVregs,       \* bound on the virtual registers of a function
    Programs        \* the functions to allocate

(* A uop reads registers and writes at most one (0: none).  kind is "op",  *)
(* "call", "reload" (UopLoad without base) or "spill" (UopStore without    *)
(* base); the last two name the slot, which is that of a register.         *)
Uop(kind, ops, res, slot) == [kind |-> kind, ops |-> ops, res |-> res, slot |-> slot]

Reads(u) == {u.ops[i] : i \in DOMAIN u.ops}

(* Uops on the first n registers.  None reads the register it writes: every *)
(* instruction is translated to a result of its own, a phi through a copy. *)
Uops(n) ==
    {u \in [kind : {"op", "call", "reload", "spill"}, ops : Seq(1 .. n), res : 0 .. n, slot : 0 .. n] :
        u.res \notin Reads(u)}

(* A block ends with a jump, so it has a uop; there is no spill code yet;  *)
(* parameters arrive in different argument registers.                      *)
IsFunction(p) ==
    /\ p.count \in 1 .. MaxVregs
    /\ p.code \in Seq(Seq(Uops(p.count)) \ {<<>>})
    /\ \A b \in DOMAIN p.code : \A i \in DOMAIN p.code[b] : p.code[b][i].kind \in {"op", "call"}
    /\ p.params \cup p.stkParams \subseteq 1 .. p.count
    /\ p.arrives \in [p.params -> CallerSave]
    /\ \A v, w \in p.params : v /= w => p.arrives[v] /= p.arrives[w]

ASSUME FunctionAssumption ==
    /\ MaxVregs \in Nat
    /\ Vregs = 1 .. MaxVregs
    /\ CallerSave /= {}
    /\ \A p \in Programs : IsFunction(p)

VARIABLES
    prog,       \* the function given: succ, code, params, stkParams, rets, count
    phase,      \* step of DoAssignment
    again,      \* the loop is past its first round
    view,       \* uops_view_ of every block
    count,      \* regidx_: virtual registers exist up to this one
    onStk,      \* registers with IsOnStk
    keep,       \* registers with SetCanSpill(false)
    live,       \* live_in_ and live_out_ of every block
    block,      \* block CalculateInterval is at
    segs        \* live interval of every register

planVars  == <<prog, phase, again, view, count, onStk, keep, live, block, segs>>
vars == <<planVars, sweepVars, colorVars>>

Blocks == DOMAIN view

-----------------------------------------------------------------------------
(* Liveness of a function whose blocks are code. *)

Preset(b) == IF b = 1 THEN prog.params \cup prog.stkParams ELSE {}

(* Blocks that read v before they write it, and blocks that write it.      *)
Exposing(code, v) ==
    {b \in DOMAIN code : v \notin Preset(b) /\
        \E i \in DOMAIN code[b] : v \in Reads(code[b][i]) /\ \A j \in 1 .. i - 1 : code[b][j].res /= v}

Killing(code, v) == {b \in DOMAIN code : v \in Preset(b) \/ \E i \in DOMAIN code[b] : code[b][i].res = v}

(* Blocks that v is live into: the least set that has the blocks that      *)
(* expose v, and with a block its predecessors that do not kill v.         *)
LiveInto(code, v) ==
    LET Closed(X) ==
            /\ Exposing(code, v) \subseteq X
            /\ \A b \in DOMAIN code \ Killing(code, v) : prog.succ[b] \cap X /= {} => b \in X
    IN  {b \in DOMAIN code : \A X \in SUBSET DOMAIN code : Closed(X) => b \in X}

LiveSets(code, vs) ==
    [in  |-> [b \in DOMAIN code |-> {v \in vs : b \in LiveInto(code, v)} \cup Preset(b)],
     out |-> [b \in DOMAIN code |-> {v \in vs : prog.succ[b] \cap LiveInto(code, v) /= {}}]]

(* Position of the first uop of b: IndexAllUops counts on from block to    *)
(* block.  Position of its last.                                           *)
First(b) ==
    LET At[c \in 0 .. Len(view)] == IF c = 0 THEN 1 ELSE At[c - 1] + Len(view[c])
    IN  At[b - 1]

LastOf(b) == First(b) + Len(view[b]) - 1

(* For the mutants: live_in_ opens no interval. *)
DefsAt_NoLiveIn(b, v) == {First(b) + i - 1 : i \in {j \in DOMAIN view[b] : view[b][j].res = v}}

DefsAt(b, v) ==
    (IF v \in live.in[b] THEN {First(b)} ELSE {}) \cup
        {First(b) + i - 1 : i \in {j \in DOMAIN view[b] : view[b][j].res = v}}

UsesAt(b, v) ==
    (IF v \in live.out[b] THEN {LastOf(b) + 1} ELSE {}) \cup
        {First(b) + i - 1 : i \in {j \in DOMAIN view[b] : v \in Reads(view[b][j])}}

-----------------------------------------------------------------------------
(* Spill code. *)

(* Operands of u that are loaded into a new register, by place.            *)
(* UopCall::Rewrite leaves its parameters in memory; uops without base are *)
(* spill code already.                                                     *)
Loaded_FirstOnly(u) ==
    {j \in DOMAIN u.ops : u.kind = "op" /\ u.ops[j] \in onStk /\ \A k \in 1 .. j - 1 : u.ops[k] \notin onStk}

Loaded(u) == IF u.kind = "op" THEN {j \in DOMAIN u.ops : u.ops[j] \in onStk} ELSE {}

Stored(u) == u.kind \in {"op", "call"} /\ u.res \in onStk

(* Places of u that get a new register: its operands, and its result one  *)
(* past them.                                                              *)
Fresh(u) == Loaded(u) \cup (IF Stored(u) THEN {Len(u.ops) + 1} ELSE {})

(* The new registers, <<b, i, j>> for place j of uop i of block b, and the *)
(* order in which NewVReg numbers them.                                    *)
New == UNION {UNION {{<<b, i, j>> : j \in Fresh(view[b][i])} : i \in DOMAIN view[b]} : b \in Blocks}

Before(p, q) ==
    \/ p[1] < q[1]
    \/ p[1] = q[1] /\ (p[2] < q[2] \/ (p[2] = q[2] /\ p[3] < q[3]))

NewReg(b, i, j) == count + 1 + Cardinality({p \in New : Before(p, <<b, i, j>>)})

(* What Rewrite puts in place of a uop: a load per operand on the stack,   *)
(* the uop on the loaded copies, a store of the result.                    *)
Expanded(b, i) ==
    LET u == view[b][i]
        fresh == NewReg(b, i, Len(u.ops) + 1)
        loads == [j \in DOMAIN u.ops |->
                    IF j \in Loaded(u) THEN <<Uop("reload", <<>>, NewReg(b, i, j), u.ops[j])>> ELSE <<>>]
        ops == [j \in DOMAIN u.ops |-> IF j \in Loaded(u) THEN NewReg(b, i, j) ELSE u.ops[j]]
    IN  FlattenSeq(loads)
          \o <<Uop(u.kind, ops, IF Stored(u) THEN fresh ELSE u.res, u.slot)>>
          \o (IF Stored(u) THEN <<Uop("spill", <<fresh>>, 0, u.res)>> ELSE <<>>)

Rewrite_SameIndex ==
    /\ view' = [b \in Blocks |-> FlattenSeq([i \in DOMAIN view[b] |-> Expanded(b, i)])]
    /\ count' = count
    /\ keep' = keep \cup (count + 1 .. count')

Rewrite ==
    /\ count + Cardinality(New) <= MaxVregs
    /\ view' = [b \in Blocks |-> FlattenSeq([i \in DOMAIN view[b] |-> Expanded(b, i)])]
    /\ count' = count + Cardinality(New)
    /\ keep' = keep \cup (count + 1 .. count')

-----------------------------------------------------------------------------

Init ==
    /\ prog \in Programs
    /\ phase = "start"
    /\ again = FALSE
    /\ view = prog.code
    /\ count = prog.count
    /\ onStk = prog.stkParams
    /\ keep = {}
    /\ live = [in |-> <<>>, out |-> <<>>]
    /\ block = 1
    /\ segs = [v \in Vregs |-> {}]
    /\ segments = {} /\ pending = {} /\ active = {} /\ conn = {}
    /\ Idle

(* rewrite() before the loop: parameters that arrive on the stack. *)
Prepare ==
    /\ phase = "start"
    /\ Rewrite
    /\ phase' = "analyse"
    /\ UNCHANGED <<prog, again, onStk, live, block, segs, sweepVars, colorVars>>

(* cleanAll forgets the segments of every register but the parameters;     *)
(* computeLivenessInfomation.                                              *)
Analyse ==
    /\ phase = "analyse"
    /\ segs' = [v \in Vregs |-> IF v \in prog.params THEN segs[v] ELSE {}]
    /\ live' = LiveSets(view, 1 .. count)
    /\ block' = 1
    /\ phase' = "intervals"
    /\ UNCHANGED <<prog, again, view, count, onStk, keep, sweepVars, colorVars>>

(* CalculateInterval on one block. *)
IntervalsOfBlock ==
    /\ phase = "intervals"
    /\ block \in Blocks
    /\ segs' = [v \in Vregs |-> AddBlock(segs[v], First(block), Len(view[block]),
                                         DefsAt(block, v), UsesAt(block, v))]
    /\ block' = block + 1
    /\ UNCHANGED <<prog, phase, again, view, count, onStk, keep, live, sweepVars, colorVars>>

(* GraphAllocation queues the segments of every register not on the stack. *)
Queued == UNION {{[bgn |-> s[1], end |-> s[2], owner |-> v] : s \in segs[v]} : v \in (1 .. count) \ onStk}

StartSweep ==
    /\ phase = "intervals"
    /\ block \notin Blocks
    /\ Fill(Queued)
    /\ phase' = "sweep"
    /\ UNCHANGED <<prog, again, view, count, onStk, keep, live, block, segs, colorVars>>

SweepStep ==
    /\ phase = "sweep"
    /\ SweepNext
    /\ UNCHANGED <<planVars, colorVars>>

(* abi_info.i.arg_bgn *)
A0 == Lowest(CallerSave)

(* A graph of fresh nodes. *)
Graphed ==
    [nodes |-> (1 .. count) \ onStk,
     adj   |-> [v \in Vregs |-> {w \in Vregs : <<v, w>> \in conn}],
     fixed |-> [v \in Vregs |-> IF v \in prog.params THEN prog.arrives[v] ELSE NoColor],
     wish  |-> [v \in Vregs |-> IF v \in prog.rets THEN A0 ELSE NoColor],
     keep  |-> keep]

StartColoring ==
    /\ phase = "sweep"
    /\ pending = {}
    /\ Start(Graphed)
    /\ phase' = "color"
    /\ UNCHANGED <<prog, again, view, count, onStk, keep, live, block, segs, sweepVars>>

ColorStep ==
    /\ phase = "color"
    /\ ColorNext
    /\ UNCHANGED <<planVars, sweepVars>>

(* Spilled nodes get a stack slot; GenerateStackInfo, rewrite and another  *)
(* round.                                                                  *)
SpillRound_StaysInRegister ==
    /\ phase = "color"
    /\ outcome = "spill"
    /\ phase' = "rewrite"
    /\ UNCHANGED <<prog, again, view, count, onStk, keep, live, block, segs, sweepVars, colorVars>>

SpillRound ==
    /\ phase = "color"
    /\ outcome = "spill"
    /\ onStk' = onStk \cup spills
    /\ phase' = "rewrite"
    /\ UNCHANGED <<prog, again, view, count, keep, live, block, segs, sweepVars, colorVars>>

InsertSpillCode ==
    /\ phase = "rewrite"
    /\ Rewrite
    /\ phase' = "analyse"
    /\ again' = TRUE
    /\ UNCHANGED <<prog, onStk, live, block, segs, sweepVars, colorVars>>

(* Nothing was spilled: the loop breaks.  The last rewrite only refreshes  *)
(* offsets.                                                                *)
Succeed ==
    /\ phase = "color"
    /\ outcome = "ok"
    /\ phase' = "done"
    /\ UNCHANGED <<prog, again, view, count, onStk, keep, live, block, segs, sweepVars, colorVars>>

Next == \/ Prepare \/ Analyse \/ IntervalsOfBlock \/ StartSweep \/ SweepStep
        \/ StartColoring \/ ColorStep \/ SpillRound \/ InsertSpillCode \/ Succeed

(* One thread runs DoAssignment. *)
Spec == Init /\ [][Next]_vars /\ WF_vars(Next)

-----------------------------------------------------------------------------

TypeOK ==
    /\ again \in BOOLEAN
    /\ phase \in {"start", "analyse", "intervals", "sweep", "color", "rewrite", "done"}
    /\ count \in prog.count .. MaxVregs
    /\ onStk \subseteq 1 .. count
    /\ keep \subseteq (1 .. count) \ onStk
    /\ \A b \in Blocks : \A i \in DOMAIN view[b] :
          view[b][i].res \in 0 .. count /\ Reads(view[b][i]) \subseteq 1 .. count
    /\ segs \in [Vregs -> SUBSET (Nat \X Nat)]
    /\ SweepTypeOK
    /\ ColorTypeOK

(* Registers whose value just after uop i of block b is still read.        *)
LiveAfter(b, i) ==
    LET later == i + 1 .. Len(view[b])
    IN  {v \in 1 .. count :
            \/ \E j \in later : /\ v \in Reads(view[b][j])
                                /\ \A k \in i + 1 .. j - 1 : view[b][k].res /= v
            \/ v \in live.out[b] /\ \A k \in later : view[b][k].res /= v}

(* Parameters keep the live interval of the first round, which after spill *)
(* code has moved the positions may end too early: nothing is promised of  *)
(* them then.                                                              *)
Reliable(v) == ~again \/ v \notin prog.params

(* In the code that is emitted two values needed at once are in different  *)
(* machine registers.  The intervals say so only between their end points, *)
(* for blocks in layout order, and spill code moves every position: this   *)
(* is about the values, on the paths of the graph.                         *)
KeptApart ==
    phase = "done" =>
        \A b \in Blocks : \A i \in DOMAIN view[b] :
            \A v, w \in LiveAfter(b, i) \ onStk :
                v /= w /\ Reliable(v) /\ Reliable(w) => color[v] /= color[w]

(* GenerateCallInfo, which asks the live interval whether a register is    *)
(* live at the index of a call, saves every value in a caller-saved        *)
(* register that is needed after the call.                                 *)
SavedAcrossCalls ==
    phase = "done" =>
        \A b \in Blocks : \A i \in {j \in DOMAIN view[b] : view[b][j].kind = "call"} :
            \A v \in LiveAfter(b, i) \ (onStk \cup {view[b][i].res}) :
                color[v] \in CallerSave /\ Reliable(v) => LiveAt(segs[v], First(b) + i - 1)

(* What the uops of one block read, run on symbolic values: the value of a *)
(* register is the number of the uop that wrote it, negative at entry.     *)
(* Slots are named by their register.  A register on the stack has no      *)
(* machine register, so reading it there gives 0; a call reads it from its *)
(* slot.                                                                   *)
Entry(stk) ==
    LET entered(there) == [v \in Vregs |-> IF v \in there THEN v - MaxVregs - 1 ELSE 0]
    IN  [reg |-> entered(Vregs \ stk), mem |-> entered(stk), read |-> <<>>]

Operands(a, u, stk) ==
    [j \in DOMAIN u.ops |->
        IF u.kind = "call" /\ u.ops[j] \in stk THEN a.mem[u.ops[j]] ELSE a.reg[u.ops[j]]]

Executed(a, u, stk) ==
    CASE u.kind = "reload" -> [a EXCEPT !.reg[u.res] = a.mem[u.slot]]
      [] u.kind = "spill"  -> [a EXCEPT !.mem[u.slot] = a.reg[u.ops[1]]]
      [] OTHER -> [reg  |-> [v \in Vregs |-> IF v = u.res THEN Len(a.read) + 1 ELSE a.reg[v]],
                   mem  |-> a.mem,
                   read |-> Append(a.read, Operands(a, u, stk))]

Trace(uops, stk) ==
    LET After[n \in 0 .. Len(uops)] ==
            IF n = 0 THEN Entry(stk) ELSE Executed(After[n - 1], uops[n], stk)
    IN  After[Len(uops)]

(* Spill code does not change what the function computes: every original   *)
(* uop reads the values it read before, and every register that left for   *)
(* the stack has at the end of the block, in its slot, the value it had in *)
(* the register.  However many rounds there are, nothing is loaded twice,  *)
(* stored late, or left behind.                                            *)
SpillCodeIsTransparent ==
    phase \in {"analyse", "done"} =>
        \A b \in Blocks :
            LET before == Trace(prog.code[b], {})
                after == Trace(view[b], onStk)
            IN  /\ after.read = before.read
                /\ \A v \in 1 .. prog.count :
                      before.reg[v] = IF v \in onStk THEN after.mem[v] ELSE after.reg[v]

(* DoAssignment ends: with an allocation, or by giving up. *)
Terminates == <>(phase = "done" \/ outcome = "panic")

=============================================================================
