---------------------------- MODULE MCCallFrames ----------------------------
(* Functions with up to two stack parameters and two local variables.      *)
EXTENDS CallFrames

MCLocals == {<<>>} \cup {<<a>> : a \in {4, 12}} \cup {<<a, b>> : a, b \in {4, 8, 20}}
=============================================================================
