---------------------------- MODULE MCArticlePage ----------------------------
(* Two words: in the first group one is in both dictionaries and the other in  *)
(* the second alone, the second group has the second dictionary only.          *)
EXTENDS ArticlePage

CONSTANTS w1, w2, g1, g2, d1, d2

MCArticles == [q \in {w1, w2} \X {g1, g2} |-> IF q = <<w1, g1>> THEN <<d1, d2>> ELSE <<d2>>]
=============================================================================
