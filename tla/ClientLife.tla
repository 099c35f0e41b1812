----------------------------- MODULE ClientLife -----------------------------
(***************************************************************************)
(* The native client from its construction, which is Connect, to           *)
(* _disconnect, and its keepalive greenlet (KeepAlive of                   *)
(* pssh/clients/native/single.py).  The greenlet has references of its own *)
(* to socket and session, none to the client, and is never stopped: it has *)
(* to find out that the client is gone.                                    *)
(***************************************************************************)
EXTENDS Connect

VARIABLES
    keepalive, \* keepalive_seconds is not 0
    let,       \* the keepalive greenlet
    life,      \* whether the client is in use, disconnecting or gone
    conn       \* its connection: up, lost by the network, or shut down and detached

lifevars == <<vars, keepalive, let, life, conn>>

LifeInit ==
    /\ Init /\ keepalive \in BOOLEAN
    /\ let = "none" /\ life = "used" /\ conn = "up"

\* Mutant of Connecting: the greenlet is started before authentication.
ConnectingWithKeepAlive ==
    /\ Next
    /\ let' = IF keepalive /\ pc' = "authenticating" /\ let = "none" THEN "check" ELSE let
    /\ UNCHANGED <<keepalive, life, conn>>

\* _init; what comes after authentication does not wait.
Connecting ==
    /\ Next
    /\ let' = IF keepalive /\ pc' = "connected" THEN "check" ELSE let
    /\ UNCHANGED <<keepalive, life, conn>>

\* The client is left (__exit__) or de-allocated (__del__), also one that raised.
Leave ==
    /\ life = "used" /\ pc \in {"connected", "failed"}
    /\ life' = "disconnecting"
    /\ UNCHANGED <<vars, keepalive, let, conn>>

\* Mutant of Disconnected: the reference to the socket is dropped, and nothing else.
DisconnectedQuietly ==
    /\ life = "disconnecting" /\ life' = "gone"
    /\ UNCHANGED <<vars, keepalive, let, conn>>

\* session.disconnect has been sent or failed, and the socket is shut down and detached.
\* If its connection is lost, shutdown raises, and the socket stays as it is.
Disconnected ==
    /\ life = "disconnecting" /\ life' = "gone"
    /\ conn' = IF conn = "up" THEN "down" ELSE conn
    /\ UNCHANGED <<vars, keepalive, let>>

Lose ==
    /\ conn = "up" /\ conn' = "lost"
    /\ UNCHANGED <<vars, keepalive, let, life>>

LetGoes(from, to) ==
    /\ let = from /\ let' = to
    /\ UNCHANGED <<vars, keepalive, life, conn>>

\* The loop of _send_keepalive: it ends when the socket is closed, or with an exception
\* out of keepalive_send or poll.
KeepAliveStep ==
    \/ LetGoes("check", IF conn = "down" THEN "over" ELSE "sending")
    \/ conn = "up" /\ LetGoes("sending", "sleeping")
    \/ LetGoes("sending", "over")
    \/ LetGoes("sleeping", "check")

LifeNext == Connecting \/ Leave \/ Disconnected \/ Lose \/ KeepAliveStep

LifeSpec ==
    /\ LifeInit /\ [][LifeNext]_lifevars
    /\ WF_lifevars(Connecting) /\ WF_lifevars(Disconnected) /\ WF_lifevars(KeepAliveStep)
-----------------------------------------------------------------------------
\* Keepalives are sent only in a session that is authenticated, and by no greenlet that a
\* client which raised has left behind.
KeepAliveAuthenticated == let # "none" => pc = "connected" /\ keepalive

\* Through the whole life of a client no method of authentication was tried more often
\* than there are attempts, and keepalives are those of a client that is connected.
LifeInv == IInv /\ AuthAttemptsBounded /\ KeepAliveAuthenticated

\* The keepalive greenlet does not outlive its client.
KeepAliveEnds == (life = "gone") ~> (let \in {"none", "over"})
=============================================================================
