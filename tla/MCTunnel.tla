----------------------------- MODULE MCTunnel -----------------------------
(* Model-checking instance of Tunnel: a client of a proxy and a program's  *)
(* own client of the forwarder, with connections that carry data.          *)
EXTENDS Tunnel

CONSTANTS c1, c3, t1

OneThread == [c \in Client |-> t1]
=============================================================================
