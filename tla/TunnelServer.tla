--------------------------- MODULE TunnelServer ---------------------------
(***************************************************************************)
(* The servers of pssh/clients/native/tunnel.py: each listens on a local   *)
(* port, and forwards a connection made to it through a channel of its     *)
(* proxy client.  A connection has a handler, which opens the channel and  *)
(* waits for two greenlets: one reads the local socket and writes the      *)
(* channel, the other reads the channel and writes the local socket.       *)
(*                                                                         *)
(* Data is counted: in each direction what was sent by one end, what was   *)
(* read of it and what was put to the other end.  A server has one         *)
(* connection, that of the client it was started for.                      *)
(***************************************************************************)
EXTENDS Integers

CONSTANTS Client,   \* clients that connect through a proxy
          UpChunks, \* bound: pieces of data a client sends on its connection
          DownChunks, \* bound: pieces of data the far end sends
          Retries   \* num_retries of a server

ASSUME ServerAssumption ==
    UpChunks \in Nat /\ DownChunks \in Nat /\ Retries \in Nat \ {0}

VARIABLES
    server,  \* the server started for each client
    conn     \* the connection to it

Direction(n) == [sent : 0 .. n, read : 0 .. n, put : 0 .. n]

\* tries: failed attempts to open the channel; src, dst: the greenlets that read
\* the local socket and the channel; local: the client keeps its end open; eof:
\* the channel's other end has ended it; lost: the proxy client's session or
\* socket is gone; failed: a greenlet raised or was killed, or no channel opened.
Connection ==
    [pc : {"none", "opening", "relaying", "closed"}, tries : 0 .. Retries - 1,
     src : {"none", "check", "recv", "write", "done", "raised"},
     dst : {"none", "check", "send", "done", "raised"},
     up : Direction(UpChunks), down : Direction(DownChunks),
     local : BOOLEAN, eof : BOOLEAN, lost : BOOLEAN, failed : BOOLEAN]

Nothing == [sent |-> 0, read |-> 0, put |-> 0]

NoConnection ==
    [pc |-> "none", tries |-> 0, src |-> "none", dst |-> "none", up |-> Nothing,
     down |-> Nothing, local |-> FALSE, eof |-> FALSE, lost |-> FALSE,
     failed |-> FALSE]

ServerInit ==
    /\ server = [c \in Client |-> "none"]
    /\ conn = [c \in Client |-> NoConnection]

Ended(greenlet) == greenlet \in {"none", "done", "raised"}

\* The pool of a server has greenlets.
Busy(c) ==
    \/ conn[c].pc \in {"opening", "relaying"}
    \/ ~Ended(conn[c].src) \/ ~Ended(conn[c].dst)

\* What the channel's eof says: ended, and read to the end.
ChannelEof(c) == conn[c].eof /\ conn[c].down.read = conn[c].down.sent

---------------------------------------------------------------------------
(* The handler of a connection.                                            *)

Becomes(c, k) == conn' = [conn EXCEPT ![c] = k]

\* Mutant of OpenFails: there is always another attempt.
OpenFailsOn(c) ==
    /\ conn[c].pc = "opening"
    /\ Becomes(c, [conn[c] EXCEPT !.tries = @ + 1])

\* An attempt fails, and there is another one.
OpenFails(c) ==
    /\ conn[c].pc = "opening" /\ conn[c].tries + 1 < Retries
    /\ Becomes(c, [conn[c] EXCEPT !.tries = @ + 1])

\* The last attempt fails: the handler returns.
GivesUp(c) ==
    /\ conn[c].pc = "opening" /\ conn[c].tries + 1 >= Retries
    /\ Becomes(c, [conn[c] EXCEPT !.pc = "closed", !.failed = TRUE])

OpenChannel(c) ==
    /\ conn[c].pc = "opening" /\ ~conn[c].lost
    /\ Becomes(c, [conn[c] EXCEPT !.pc = "relaying", !.src = "check", !.dst = "check"])

\* Mutant of HandlerReturns: the handler waits for one of its greenlets.
HandlerReturnsEarly(c) ==
    /\ conn[c].pc = "relaying" /\ (conn[c].src = "done" \/ conn[c].dst = "done")
    /\ Becomes(c, [conn[c] EXCEPT !.pc = "closed", !.eof = TRUE])

\* joinall of both greenlets.  The channel is closed and, once the handler is done,
\* the socket.
HandlerReturns(c) ==
    /\ conn[c].pc = "relaying" /\ conn[c].src = "done" /\ conn[c].dst = "done"
    /\ Becomes(c, [conn[c] EXCEPT !.pc = "closed", !.eof = TRUE])

\* joinall raises as soon as one of them has.
HandlerRaises(c) ==
    /\ conn[c].pc = "relaying" /\ "raised" \in {conn[c].src, conn[c].dst}
    /\ Becomes(c, [conn[c] EXCEPT !.pc = "closed", !.eof = TRUE, !.failed = TRUE])

\* stop: a server that listens no more kills the greenlets of its pool; the
\* handler closes the channel on its way out.
Kill(c) ==
    /\ server[c] = "stopped" /\ Busy(c)
    /\ Becomes(c, [conn[c] EXCEPT !.pc = "closed", !.failed = TRUE, !.eof = TRUE,
                                  !.src = "done", !.dst = "done"])

---------------------------------------------------------------------------
(* From the local socket to the channel.                                   *)

SourceChecks(c) ==
    /\ conn[c].src = "check" /\ ~ChannelEof(c) /\ conn[c].pc # "closed"
    /\ Becomes(c, [conn[c] EXCEPT !.src = "recv"])

SourceSeesEnd(c) ==
    /\ conn[c].src = "check" /\ (ChannelEof(c) \/ conn[c].pc = "closed")
    /\ Becomes(c, [conn[c] EXCEPT !.src = "done"])

Recv(c) ==
    /\ conn[c].src = "recv" /\ conn[c].pc # "closed"
    /\ \E n \in conn[c].up.read + 1 .. conn[c].up.sent :
          Becomes(c, [conn[c] EXCEPT !.src = "write", !.up.read = n])

\* The client has closed its end: recv returns nothing, again and again.
RecvNothing(c) ==
    /\ conn[c].src = "recv" /\ conn[c].pc # "closed"
    /\ ~conn[c].local /\ conn[c].up.read = conn[c].up.sent
    /\ Becomes(c, [conn[c] EXCEPT !.src = "check"])

RecvFails(c) ==
    /\ conn[c].src = "recv" /\ (~conn[c].local \/ conn[c].pc = "closed")
    /\ Becomes(c, [conn[c] EXCEPT !.src = "raised"])

\* Mutant of AfterWrite: what a write did not take is dropped.
AfterFirstWrite(c) == "check"

\* eagain_write goes on until all is written.
AfterWrite(c) == IF conn[c].up.put + 1 = conn[c].up.read THEN "check" ELSE "write"

Write(c) ==
    /\ conn[c].src = "write" /\ ~conn[c].lost /\ conn[c].pc # "closed"
    /\ Becomes(c, [conn[c] EXCEPT !.up.put = @ + 1, !.src = AfterWrite(c)])

WriteFails(c) ==
    /\ conn[c].src = "write" /\ (conn[c].lost \/ conn[c].pc = "closed")
    /\ Becomes(c, [conn[c] EXCEPT !.src = "raised"])

---------------------------------------------------------------------------
(* From the channel to the local socket.                                   *)

\* Neither eof nor read waits: the greenlet goes on from where it slept or polled.
DestSeesEof(c) ==
    /\ conn[c].dst = "check" /\ ChannelEof(c)
    /\ Becomes(c, [conn[c] EXCEPT !.dst = "done"])

ReadChannel(c) ==
    /\ conn[c].dst = "check" /\ ~conn[c].lost
    /\ \E n \in conn[c].down.read + 1 .. conn[c].down.sent :
          Becomes(c, [conn[c] EXCEPT !.dst = "send", !.down.read = n])

ReadFails(c) ==
    /\ conn[c].dst = "check" /\ conn[c].lost /\ ~ChannelEof(c)
    /\ Becomes(c, [conn[c] EXCEPT !.dst = "raised"])

AfterSend(c) == IF conn[c].down.put + 1 = conn[c].down.read THEN "check" ELSE "send"

Send(c) ==
    /\ conn[c].dst = "send" /\ conn[c].local /\ conn[c].pc # "closed"
    /\ Becomes(c, [conn[c] EXCEPT !.down.put = @ + 1, !.dst = AfterSend(c)])

SendFails(c) ==
    /\ conn[c].dst = "send" /\ (~conn[c].local \/ conn[c].pc = "closed")
    /\ Becomes(c, [conn[c] EXCEPT !.dst = "raised"])

SourceStep(c) ==
    \/ SourceChecks(c) \/ SourceSeesEnd(c) \/ Recv(c) \/ RecvNothing(c) \/ RecvFails(c)
    \/ Write(c) \/ WriteFails(c)

DestStep(c) ==
    \/ DestSeesEof(c) \/ ReadChannel(c) \/ ReadFails(c) \/ Send(c) \/ SendFails(c)

HandlerStep(c) ==
    \/ OpenFails(c) \/ GivesUp(c) \/ OpenChannel(c)
    \/ HandlerReturns(c) \/ HandlerRaises(c) \/ Kill(c)

---------------------------------------------------------------------------
(* Both ends, and the proxy client's session.                              *)

LocalSends(c) ==
    /\ conn[c].local /\ conn[c].pc # "closed" /\ conn[c].up.sent < UpChunks
    /\ Becomes(c, [conn[c] EXCEPT !.up.sent = @ + 1])

RemoteSends(c) ==
    /\ conn[c].pc = "relaying" /\ ~conn[c].eof /\ conn[c].down.sent < DownChunks
    /\ Becomes(c, [conn[c] EXCEPT !.down.sent = @ + 1])

RemoteEnds(c) ==
    /\ conn[c].pc = "relaying" /\ ~conn[c].eof
    /\ Becomes(c, [conn[c] EXCEPT !.eof = TRUE])

ProxyLost(c) ==
    /\ Busy(c) /\ ~conn[c].lost
    /\ Becomes(c, [conn[c] EXCEPT !.lost = TRUE])

EndStep(c) == LocalSends(c) \/ RemoteSends(c) \/ RemoteEnds(c) \/ ProxyLost(c)

---------------------------------------------------------------------------
ServerTypeOK ==
    /\ server \in [Client -> {"none", "listening", "stopped"}]
    /\ conn \in [Client -> Connection]

\* A connection whose handler returned without an error has put all it had read
\* to the other end, and all the remote end ever sent to the local one, in
\* whatever order the ends closed (_wait_send_receive_lets).
NothingDropped ==
    \A c \in Client : conn[c].pc = "closed" /\ ~conn[c].failed =>
        /\ conn[c].up.put = conn[c].up.read
        /\ conn[c].down.put = conn[c].down.sent
=============================================================================
