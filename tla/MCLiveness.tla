----------------------------- MODULE MCLiveness -----------------------------
(***************************************************************************)
(* Liveness on every small control-flow graph the frontend can lay out.    *)
(***************************************************************************)
EXTENDS Liveness, FiniteSets

CONSTANTS x, p

(* Two-way branches, one jump or a return end a block. *)
MCSucc == {f \in [Blocks -> {S \in SUBSET Blocks : Cardinality(S) <= 2}] :
              LaidOut([succ |-> f])}

Reads(v) == [ops |-> {v}, res |-> {}]
Sets(v, ops) == [ops |-> ops, res |-> {v}]

(* Every way one block can meet x and p: not at all, read, written, read   *)
(* and written by one uop, written and then read.                          *)
MCCode == {<<>>, <<Reads(x)>>, <<Reads(p)>>, <<Sets(x, {p})>>,
           <<Sets(x, {x})>>, <<Sets(x, {}), Reads(x)>>}

MCPrograms == {[succ |-> s, code |-> c, params |-> {p}] :
                  s \in MCSucc, c \in [Blocks -> MCCode]}
=============================================================================
