----------------------------- MODULE MCThreadLib ----------------------------
(***************************************************************************)
(* Two parallel loops of two threads.  Threads stay distinguishable: the   *)
(* runs check liveness, where symmetry is not sound.                       *)
(***************************************************************************)
EXTENDS ThreadLib

CONSTANTS w1, w2, w3, w4
=============================================================================
