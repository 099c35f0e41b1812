------------------------------ MODULE MCLines ------------------------------
(* Model-checking instance of Lines: bytes that can be told apart, a line  *)
(* end, and every way to cut the output into chunks of up to three.        *)
EXTENDS Lines

LongChunks == UNION {[1 .. n -> Byte] : n \in 1 .. 3}
=============================================================================
