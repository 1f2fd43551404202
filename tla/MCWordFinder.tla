---------------------------- MODULE MCWordFinder ----------------------------
(* A small instance of WordFinder: two slots, each with a headword; the second,
   of a network dictionary, has the better one. *)
EXTENDS WordFinder

MCKeys == 1 .. 2
MCFound == <<{2}, {1}>>
MCExact == {1}
MCTypes == {"PrefixMatch", "ExpressionMatch"}
MCOneType == {"PrefixMatch"}
MCMaxShown == [type \in {"PrefixMatch", "ExpressionMatch"} |-> 1]
MCNetwork == {2}
=============================================================================
