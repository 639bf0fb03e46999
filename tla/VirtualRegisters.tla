-------------------------- MODULE VirtualRegisters --------------------------
(* What the parts of the planner have in common.                           *)
CONSTANT Vregs      \* virtual register indices
=============================================================================
