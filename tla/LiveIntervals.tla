--------------------------- MODULE LiveIntervals ---------------------------
(***************************************************************************)
(* Live intervals of virtual registers: LiveInterval::MakeSeg and the      *)
(* Def / Use / GenSegment protocol by which CalculateInterval drives it.   *)
(* A live interval is a set of segments <<begin, end>>, begin included and *)
(* end not, kept in a std::set that compares begins only.                  *)
(***************************************************************************)
EXTENDS Integers

(* std::set::insert: a segment with the same begin is kept, the new one is *)
(* dropped.                                                                *)
Insert(S, seg) == IF \E s \in S : s[1] = seg[1] THEN S ELSE S \cup {seg}

(* The segment before the place where one that begins at bgn would go.     *)
Predecessor(S, bgn) ==
    CHOOSE s \in S : s[1] < bgn /\ \A t \in S : t[1] < bgn => t[1] <= s[1]

(* MakeSeg(bgn, end).  When nothing begins before bgn the code decrements  *)
(* begin(); the standard leaves that undefined.  With the std::set the     *)
(* project is built with, the element reached is the tree's root or its    *)
(* header.  That happens only to a parameter in the entry block, at        *)
(* position 1, and neither's end is 1: the segment goes to insert.         *)
MakeSeg(S, bgn, end) ==
    IF bgn = end THEN S
    ELSE IF \A s \in S : s[1] >= bgn THEN Insert(S, <<bgn, end>>)
    ELSE LET front == Predecessor(S, bgn)
         IN  IF front[2] = bgn
               THEN Insert(S \ {front}, <<front[1], end>>)
               ELSE Insert(S, <<bgn, end>>)

(* defs and uses are the positions of the Def and Use calls one block      *)
(* makes for one register.  At one position Def comes first, so a use      *)
(* there belongs to the new definition.                                    *)
UsesOf(d, defs, uses) == {u \in uses : d <= u /\ \A e \in defs : d < e => u < e}

(* The segment of a definition ends at its last use, or is empty.          *)
EndOf(d, defs, uses) ==
    CHOOSE u \in UsesOf(d, defs, uses) \cup {d} : \A w \in UsesOf(d, defs, uses) : w <= u

(* The calls of a block of size uops whose first is at position first.     *)
AddBlock(S, first, size, defs, uses) ==
    LET Upto[n \in 0 .. size] ==
            IF n = 0 THEN S
            ELSE LET d == first + n - 1
                 IN  IF d \in defs THEN MakeSeg(Upto[n - 1], d, EndOf(d, defs, uses)) ELSE Upto[n - 1]
    IN  Upto[size]

(* For the mutants: the last position of a segment is not counted.         *)
LiveAt_EndsEarly(S, idx) == \E s \in S : s[1] <= idx /\ idx < s[2] - 1

(* LiveAt *)
LiveAt(S, idx) == \E s \in S : s[1] <= idx /\ idx < s[2]
=============================================================================
