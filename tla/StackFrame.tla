----------------------------- MODULE StackFrame -----------------------------
(***************************************************************************)
(* The stack frame of a function, as RLPlanner lays it out.  A slot is     *)
(* created for every parameter that arrives on the stack, for every local  *)
(* array and, round after round, for every spilled register.  After each   *)
(* round GenerateStackInfo places all of them anew; loads and stores of    *)
(* spill code hold the offset their slot had when they were rewritten.     *)
(***************************************************************************)
EXTENDS Integers, Sequences, FiniteSets

CONSTANTS
    StackParams,    \* how many parameters may arrive on the stack
    Locals,         \* sequences of lengths of local variables
    CalleeSave,     \* s registers
    MaxSlots        \* bound: slots of a function

(* A slot is the argument-th stack parameter, or a variable of length len. *)
NotArgument == -1

(* Translate(AllocaInst): a pointer, or a number of four-byte elements.    *)
Lengths == {n \in Nat : n > 0 /\ n % 4 = 0}

Slot == [len : Lengths, argument : Nat \cup {NotArgument}]

ASSUME FrameAssumption ==
    /\ StackParams \subseteq Nat
    /\ \A lengths \in Locals : lengths \in Seq(Lengths)
    /\ IsFiniteSet(CalleeSave)

VARIABLES
    slots,      \* stk_storage_, in the order of creation
    off,        \* offset_ of each slot
    fresh,      \* slots of registers that went to the stack since the last rewrite
    access,     \* loads and stores of spill code: the slot, and off_lo12_
    used,       \* callee-saved registers in used_real_regs_
    waiting,    \* slots that GenerateStackInfo has yet to place
    spoff,      \* end of what it has placed
    total,      \* total_stack_size_
    phase,      \* "rewrite", "allocate", "place", "done"
    last        \* the final call of GenerateStackInfo has been reached

planVars == <<slots, off, fresh, access, used, waiting, spoff, total, phase, last>>

Slots == DOMAIN slots

IsParam(s) == slots[s].argument /= NotArgument
Variables == {s \in Slots : ~IsParam(s)}

(* Slots of up to eight bytes go through the priority queue. *)
Short(s) == slots[s].len <= 8

RoundUp(align, num) == ((num + align - 1) \div align) * align

(* ra and the callee-saved registers in use. *)
SaveCount == 1 + Cardinality(used)

-----------------------------------------------------------------------------

Param(k) == [len |-> 8, argument |-> k]
Variable(len) == [len |-> len, argument |-> NotArgument]

(* RegisterParams comes first, then the allocas in their order.  The first *)
(* rewrite finds the uses of the parameters, long before there are offsets.*)
PlanInit ==
    /\ \E n \in StackParams, locals \in Locals :
           slots = [i \in 1 .. n |-> Param(i - 1)]
                   \o [i \in 1 .. Len(locals) |-> Variable(locals[i])]
    /\ off = [s \in Slots |-> 0]
    /\ fresh = {s \in Slots : IsParam(s)}
    /\ access = {}
    /\ used = {}
    /\ waiting = Variables
    /\ spoff = 0
    /\ total = 0
    /\ phase = "rewrite"
    /\ last = FALSE

(* Mutant: offsets of earlier rounds are not brought up to date.           *)
Rewrite_KeepsOffsets ==
    /\ phase = "rewrite"
    /\ access' = access \cup {[slot |-> s, off |-> off[s]] : s \in fresh}
    /\ fresh' = {}
    /\ phase' = IF last THEN "done" ELSE "allocate"
    /\ UNCHANGED <<slots, off, used, waiting, spoff, total, last>>

(* Loads and stores without a base take the offset their slot has now;     *)
(* uses of registers newly on the stack get loads and stores of their own. *)
Rewrite ==
    /\ phase = "rewrite"
    /\ access' = {[slot |-> s, off |-> off[s]] : s \in {a.slot : a \in access} \cup fresh}
    /\ fresh' = {}
    /\ phase' = IF last THEN "done" ELSE "allocate"
    /\ UNCHANGED <<slots, off, used, waiting, spoff, total, last>>

(* A round of allocation takes s registers and spills some registers, four *)
(* bytes long or, if they hold an address, eight; it is the last one if it *)
(* spills none.  GenerateStackInfo starts in either case.                  *)
Allocate ==
    /\ phase = "allocate"
    /\ \E more \in SUBSET CalleeSave : used' = used \cup more
    /\ \E spills \in {<<>>} \cup {<<a>> : a \in {4, 8}} \cup {<<a, b>> : a, b \in {4, 8}} :
           /\ Len(slots) + Len(spills) <= MaxSlots
           /\ slots' = slots \o [i \in 1 .. Len(spills) |-> Variable(spills[i])]
           /\ last' = (spills = <<>>)
    /\ fresh' = DOMAIN slots' \ Slots
    /\ off' = [s \in DOMAIN slots' |-> IF s \in Slots THEN off[s] ELSE 0]
    /\ waiting' = Variables'
    /\ spoff' = 0
    /\ phase' = "place"
    /\ UNCHANGED <<access, total>>

PlaceAt(s, place) ==
    /\ off' = [off EXCEPT ![s] = place]
    /\ spoff' = place + slots[s].len
    /\ waiting' = waiting \ {s}
    /\ UNCHANGED <<slots, fresh, access, used, total, phase, last>>

(* Mutant: the running offset is not aligned for the eight bytes.          *)
PlaceShort_Unaligned(s) ==
    /\ phase = "place"
    /\ Short(s)
    /\ \A t \in waiting : Short(t) => t <= s
    /\ PlaceAt(s, spoff)

(* The highest index is on top of the queue. *)
PlaceShort(s) ==
    /\ phase = "place"
    /\ Short(s)
    /\ \A t \in waiting : Short(t) => t <= s
    /\ PlaceAt(s, IF slots[s].len = 8 THEN RoundUp(8, spoff) ELSE spoff)

(* Arrays follow in the order of their creation. *)
PlaceLong(s) ==
    /\ phase = "place"
    /\ \A t \in waiting : ~Short(t) /\ s <= t
    /\ PlaceAt(s, spoff)

(* Mutant: the frame has no room for ra. *)
SizeFrame_NoRa ==
    /\ phase = "place"
    /\ waiting = {}
    /\ total' = RoundUp(16, spoff + 8 * (SaveCount - 1))
    /\ off' = [s \in Slots |-> IF IsParam(s) THEN total' + 8 * slots[s].argument ELSE off[s]]
    /\ phase' = "rewrite"
    /\ UNCHANGED <<slots, fresh, access, used, waiting, spoff, last>>

(* What is saved goes on top; stack parameters lie above the frame.        *)
SizeFrame ==
    /\ phase = "place"
    /\ waiting = {}
    /\ total' = RoundUp(16, spoff + 8 * SaveCount)
    /\ off' = [s \in Slots |-> IF IsParam(s) THEN total' + 8 * slots[s].argument ELSE off[s]]
    /\ phase' = "rewrite"
    /\ UNCHANGED <<slots, fresh, access, used, waiting, spoff, last>>

PlanNext ==
    \/ Rewrite
    \/ Allocate
    \/ \E s \in waiting : PlaceShort(s) \/ PlaceLong(s)
    \/ SizeFrame

-----------------------------------------------------------------------------

PlanTypeOK ==
    /\ slots \in Seq(Slot)
    /\ off \in [Slots -> Nat]
    /\ fresh \subseteq Slots
    /\ access \subseteq [slot : Slots, off : Nat]
    /\ used \subseteq CalleeSave
    /\ waiting \subseteq Variables
    /\ spoff \in Nat
    /\ total \in Nat
    /\ phase \in {"rewrite", "allocate", "place", "done"}
    /\ last \in BOOLEAN

Apart(s, t) == off[s] + slots[s].len <= off[t] \/ off[t] + slots[t].len <= off[s]

(* In the frame the function runs with, no two variables overlap, none     *)
(* reaches the registers saved on top, eight-byte ones are aligned, and sp *)
(* stays a multiple of 16: although slots of four and of eight bytes       *)
(* alternate in any order and the allocation took registers and spilled    *)
(* others between one layout and the next.                                 *)
LayoutSound ==
    phase = "done" =>
        /\ \A s, t \in Variables : s /= t => Apart(s, t)
        /\ \A s \in Variables : off[s] + slots[s].len <= total - 8 * SaveCount
        /\ \A s \in Variables : slots[s].len = 8 => off[s] % 8 = 0
        /\ total % 16 = 0

(* Every load and store of spill code goes to the place its slot has in    *)
(* the end, whichever round inserted it.                                   *)
SpillCodeFindsSlots == phase = "done" => \A a \in access : a.off = off[a.slot]

=============================================================================
