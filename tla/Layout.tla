-------------------------------- MODULE Layout --------------------------------
(***************************************************************************)
(* The graph of a function's blocks and GetSequentialNodes, the order in   *)
(* which the blocks are printed, translated and gone through by most       *)
(* passes.                                                                 *)
(*                                                                         *)
(* f.code maps the blocks to their instructions, f.edge is the set of      *)
(* pairs kept in predecessors and successors, f.attr the attributes of     *)
(* every block.                                                            *)
(***************************************************************************)
EXTENDS Integers, FiniteSets, SequencesExt

Preds(f, b) == {e[1] : e \in {x \in f.edge : x[2] = b}}
Succs(f, b) == {e[2] : e \in {x \in f.edge : x[1] = b}}
End(f, b) == Last(f.code[b])

(* A block comes after its predecessors, those ending in a continue apart, *)
(* the true target first; the exit is last.                                *)
AllPredVisit(f, b, seen) ==
    \/ b = f.entry
    \/ b /= f.exit /\ \A p \in Preds(f, b) : "Continue" \in f.attr[p] \/ p \in seen

(* What a block that is listed puts on the stack. *)
Pushed(f, b, seen) ==
    LET end == End(f, b)
    IN  CASE end.op = "branch" -> <<end.to[2], end.to[1]>>
          [] end.op = "jump" /\ AllPredVisit(f, end.to[1], seen) -> <<end.to[1]>>
          [] OTHER -> <<>>

(* One turn of the loop, or none when the stack is empty.                  *)
Sequential(f, s) ==
    LET top == Last(s.stack)
        rest == Front(s.stack)
        seen == ToSet(s.list)
    IN  CASE s.stack = <<>> -> s
          [] s.stack /= <<>> /\ (top \in seen \/ ~AllPredVisit(f, top, seen)) -> [s EXCEPT !.stack = rest]
          [] OTHER -> [stack |-> rest \o Pushed(f, top, seen \cup {top}), list |-> Append(s.list, top)]

(* LayoutTurns is a bound of the model's: a turn takes one block off the   *)
(* stack, and every block puts at most two on it, once.  The choice is of  *)
(* the one value there is; it has TLC compute it once.                     *)
LayoutTurns(f) == 3 * Cardinality(DOMAIN f.code) + 1
LayoutRun(f) ==
    LET run[k \in 0 .. LayoutTurns(f)] ==
            IF k = 0 THEN [stack |-> <<f.entry>>, list |-> <<>>]
            ELSE CHOOSE r \in {Sequential(f, s) : s \in {run[k - 1]}} : TRUE
    IN  run
GetSequentialNodes(f) ==
    LET list == LayoutRun(f)[LayoutTurns(f)].list
    IN  IF f.exit \in ToSet(list) THEN list ELSE Append(list, f.exit)

-----------------------------------------------------------------------------
(* Every jump and branch leads to blocks of the function, and none leaves  *)
(* the exit, which may be the entry.                                       *)
WellFormed(f) ==
    /\ IsFiniteSet(DOMAIN f.code) /\ {f.entry, f.exit} \subseteq DOMAIN f.code
    /\ End(f, f.exit).to = <<>>
    /\ \A b \in DOMAIN f.code :
         /\ End(f, b).op = "branch" => End(f, b).to \in Seq(DOMAIN f.code) /\ Len(End(f, b).to) = 2
         /\ End(f, b).op = "jump" => End(f, b).to \in Seq(DOMAIN f.code) /\ Len(End(f, b).to) = 1

=============================================================================
