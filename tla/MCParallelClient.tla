------------------------- MODULE MCParallelClient -------------------------
(* Model-checking instance of ParallelClient.                                *)
EXTENDS ParallelClient

CONSTANTS h1, h2

MCHosts == {h1, h2}

\* Two hosts, one of them alone and at another position, and one of them twice.
MCHostLists == {<<h1, h2>>, <<h2>>, <<h2, h2>>}
=============================================================================
