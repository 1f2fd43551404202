---------------------------- MODULE MCDictServer ----------------------------
(* Small instances of DictServer: queries answered with up to three
   headwords or definitions. *)
EXTENDS DictServer

MCWords == 1 .. 3
MCReplies == {<<>>, <<1>>, <<1, 2>>, <<2, 3>>, <<3, 1, 2>>}
=============================================================================
