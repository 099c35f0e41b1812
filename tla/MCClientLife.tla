---------------------------- MODULE MCClientLife ----------------------------
(* Model-checking instance of ClientLife.                                    *)
EXTENDS ClientLife
=============================================================================
