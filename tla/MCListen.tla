------------------------------ MODULE MCListen ------------------------------
(* Model-checking instance of ListenRegistry: a chain of three paths, the  *)
(* smallest where masking nests.                                           *)
EXTENDS ListenRegistry

Chain == {<<>>, <<"x">>, <<"x", "y">>}
Pair == {<<>>, <<"x">>}
Root == {<<>>}
=============================================================================
