----------------------------- MODULE Greenlets -----------------------------
(* Greenlets of a pool are numbered in the order in which they are spawned.    *)
EXTENDS Naturals, FiniteSets

\* A set of greenlets in that order.
InOrder(S) == {q \in [1 .. Cardinality(S) -> S] : \A a, b \in DOMAIN q : a < b => q[a] < q[b]}
=============================================================================
