----------------------------- MODULE MCShells -----------------------------
(* Model-checking instance of Shells: two shells and a pool too small for  *)
(* what a call spawns.                                                     *)
EXTENDS Shells

CONSTANTS s1, s2

TwoShells == <<s1, s2>>
=============================================================================
