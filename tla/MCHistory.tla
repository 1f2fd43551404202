------------------------------ MODULE MCHistory ------------------------------
(* Small instances of History: a word in two cases, a phrase and what it is when
   it has a line break in it, one word that is too long. *)
EXTENDS History

MCWords == {"ant", "Ant", "a nt", "a\nnt", "bee!"}
MCFolded == [w \in MCWords |-> IF w = "Ant" THEN "ant" ELSE w]
MCClean == [w \in MCWords |-> IF w = "a\nnt" THEN "a nt" ELSE w]
MCBogus == {"bee!"}
=============================================================================
