-------------------------- MODULE MCChannelOutput --------------------------
(* Model-checking instance of ChannelOutput: one command with output, and one *)
(* without that contends for the locks.                                       *)
EXTENDS ChannelOutput, TLC

CONSTANTS c1, c2

MCMaxChunks == (c1 :> 1) @@ (c2 :> 0)
=============================================================================
