---------------------------- MODULE ByteStream ----------------------------
(***************************************************************************)
(* What a reader and a writer of remote output rely on: bytes put into the *)
(* stream come out once, in order, and a closed stream takes no more.      *)
(* ConcurrentRWBuffer (pssh/clients/reader.py) implements it; RWBuffer     *)
(* states the refinement.                                                  *)
(***************************************************************************)
EXTENDS Sequences

CONSTANTS Byte,     \* the bytes of remote output
          Chunks    \* what one write may carry: sequences of bytes

VARIABLES inflight, \* bytes accepted and not yet handed to a reader
          taken,    \* every byte handed to readers, in the order handed out
          closed    \* end of output was announced

streamVars == <<inflight, taken, closed>>

Init == inflight = <<>> /\ taken = <<>> /\ closed = FALSE

Put(chunk) ==
    /\ ~closed
    /\ inflight' = inflight \o chunk
    /\ UNCHANGED <<taken, closed>>

\* A reader takes all there is.
Take ==
    /\ inflight # <<>>
    /\ taken' = taken \o inflight
    /\ inflight' = <<>>
    /\ UNCHANGED closed

Close ==
    /\ closed' = TRUE
    /\ UNCHANGED <<inflight, taken>>

Next == Take \/ Close \/ \E chunk \in Chunks : Put(chunk)

Spec == Init /\ [][Next]_streamVars
=============================================================================
