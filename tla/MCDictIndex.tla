----------------------------- MODULE MCDictIndex -----------------------------
(* Values for DictIndex: two letters, and phrases of up to three words. *)
EXTENDS DictIndex

Phrase(text, starts, lead) == [text |-> text, starts |-> starts, lead |-> lead]

MCPhrases ==
  { Phrase(<<2, 1, 2>>, {1, 2, 3}, FALSE),   \* "b a b"
    Phrase(<<1, 1, 2>>, {1, 2, 3}, FALSE),   \* "a a b"
    Phrase(<<2, 2, 2, 1>>, {1, 3, 4}, FALSE),  \* "bb b a"
    Phrase(<<1, 2>>, {1}, FALSE),            \* "ab"
    Phrase(<<1, 2>>, {1}, TRUE),             \* "(ab"
    Phrase(<<>>, {1}, FALSE) }               \* a word that folds to nothing

MCStrings == {<<>>, <<1>>, <<2>>, <<1, 2>>, <<2, 1, 1>>}
=============================================================================
