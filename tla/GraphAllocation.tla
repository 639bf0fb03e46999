--------------------------- MODULE GraphAllocation ---------------------------
(***************************************************************************)
(* RLPlanner::GraphAllocation: the segments of all registers are swept for *)
(* edges, then the graph is coloured.                                      *)
(***************************************************************************)
EXTENDS Sweep, Coloring

(* What virtual registers are: parameters with their arrival register,     *)
(* call results and returned values with the register they would like,     *)
(* temporaries of spill code.                                              *)
Trait == [fixed : [Vregs -> CallerSave \cup {NoColor}],
          wish  : [Vregs -> CallerSave \cup {NoColor}],
          keep  : SUBSET Vregs]

CONSTANTS
    Inputs,     \* sets of segments the sweep may be given
    Traits      \* what the registers may be

ASSUME InputAssumption == Inputs \subseteq SUBSET Segment

ASSUME TraitAssumption ==
    /\ Traits \subseteq Trait
    /\ \A t \in Traits : \A v, w \in Vregs :
          v /= w /\ t.fixed[v] /= NoColor => t.fixed[v] /= t.fixed[w]

VARIABLES
    trait,      \* what the registers are; never changes
    stage       \* "sweep", then "color"

allocVars == <<trait, stage, sweepVars, colorVars>>

-----------------------------------------------------------------------------

AllocInit ==
    /\ trait \in Traits
    /\ stage = "sweep"
    /\ segments \in Inputs
    /\ pending = segments
    /\ active = {}
    /\ conn = {}
    /\ Idle

AllocSweep ==
    /\ stage = "sweep"
    /\ SweepNext
    /\ UNCHANGED <<trait, stage, colorVars>>

(* RegisterIGNode enters every register, with segments or without, and     *)
(* Connect the edges at both ends.                                         *)
SweptGraph ==
    [nodes |-> Vregs,
     adj   |-> [v \in Vregs |-> {w \in Vregs : <<v, w>> \in conn}],
     fixed |-> trait.fixed, wish |-> trait.wish, keep |-> trait.keep]

AllocStart ==
    /\ stage = "sweep"
    /\ pending = {}
    /\ Start(SweptGraph)
    /\ stage' = "color"
    /\ UNCHANGED <<trait, sweepVars>>

AllocColor ==
    /\ stage = "color"
    /\ ColorNext
    /\ UNCHANGED <<trait, stage, sweepVars>>

AllocNext == AllocSweep \/ AllocStart \/ AllocColor

(* One thread runs two loops, each over a queue nothing is pushed to. *)
AllocSpec == AllocInit /\ [][AllocNext]_allocVars /\ WF_allocVars(AllocNext)

-----------------------------------------------------------------------------

AllocTypeOK ==
    /\ trait \in Traits
    /\ stage \in {"sweep", "color"}
    /\ SweepTypeOK
    /\ ColorTypeOK

(* Two registers with overlapping segments never hold one machine          *)
(* register: however the heap of the sweep aged, whatever order either     *)
(* queue served, and whether or not a register is a parameter that was     *)
(* coloured before, or got the register it wished for.                     *)
OverlapsKeptApart ==
    stage = "color" =>
        \A s, t \in segments :
            s.owner /= t.owner /\ Overlap(s, t) /\ color[s.owner] /= NoColor =>
                color[s.owner] /= color[t.owner]

(* Both loops end, with a colouring, with spills or in a panic. *)
Settles == <>(outcome /= "running")
=============================================================================
