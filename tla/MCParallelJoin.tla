-------------------------- MODULE MCParallelJoin --------------------------
(* Model-checking instance of ParallelJoin: the second host may have failed.   *)
EXTENDS ParallelJoin

MCMayFail == {2}
=============================================================================
