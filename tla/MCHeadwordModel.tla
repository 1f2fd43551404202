--------------------------- MODULE MCHeadwordModel ---------------------------
(* Small instances of HeadwordModel: headword 2 has two words and lies in two
   leaves. *)
EXTENDS HeadwordModel

MCLeaves == <<{1, 2}, {3}, {2, 4}>>
MCMatches == [f \in Filters |-> IF f = "a" THEN <<1, 2>> ELSE <<4>>]
=============================================================================
