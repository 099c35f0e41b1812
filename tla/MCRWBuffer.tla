---------------------------- MODULE MCRWBuffer ----------------------------
(* Model-checking instance of RWBuffer: two different bytes, chunks of zero to *)
(* two bytes.                                                                  *)
EXTENDS RWBuffer

MCChunks == {<<>>, <<"a">>, <<"b">>, <<"a", "b">>}
=============================================================================
