------------------------------ MODULE Tunnel ------------------------------
(***************************************************************************)
(* Connecting through a proxy: the forwarder thread of                     *)
(* pssh/clients/native/tunnel.py and the clients of                        *)
(* pssh/clients/native/single.py that ask it for a server.                 *)
(*                                                                         *)
(* A client puts itself in the forwarder's input queue and takes a port    *)
(* from its output queue.  Both are queues of the threading kind: a client *)
(* that waits for one, or for the forwarder to start, holds its thread,    *)
(* with all other clients of that thread.  Inside the forwarder thread     *)
(* the loop that starts servers, the clean-up loop and the servers' own    *)
(* greenlets alternate where they wait.                                    *)
(*                                                                         *)
(* A port is named after the client its server was started for.            *)
(***************************************************************************)
EXTENDS TunnelServer, Sequences, FiniteSets

CONSTANTS Thread,      \* threads of the program, other than the forwarder's
          ThreadOf,    \* the thread a client is made in
          Direct,      \* clients that use a LocalForwarder themselves
          MayLackKey,  \* clients whose own private key file may be missing
          MaxConnections, \* bound: connections made to servers
          None

Targets == Client \ Direct

ASSUME TunnelAssumption ==
    /\ ThreadOf \in [Client -> Thread]
    /\ Direct \subseteq Client /\ MayLackKey \subseteq Targets
    /\ MaxConnections \in Nat
    /\ IsFiniteSet(Client) /\ {None, "idle", "dead"} \cap Client = {}

VARIABLES
    user,       \* where each client is in its life
    port,       \* the port each client was given
    started,    \* the started event
    forwarder,  \* the forwarder thread: its main loop
    offer,      \* the port the main loop is about to hand out
    cleanup,    \* the clean-up loop: at rest, at a server, or dead
    in_q,       \* FORWARDER.in_q
    out_q,      \* FORWARDER.out_q
    servers,    \* FORWARDER._servers: clients that have an entry
    triggered,  \* the shutdown_triggered event
    main,       \* shutdown at exit of the program
    iter        \* shutdown's iteration over _servers: what is left, and its size

control == <<user, port, started, forwarder, offer, cleanup, in_q, out_q, servers,
             triggered, main, iter>>
vars == <<server, conn, control>>

UserStates == {"idle", "start", "wait", "enqueue", "get", "port", "up", "stopping",
               "gone", "nokey", "failed"}

\* What holds a thread, and where a program may be when it exits.
Holding == {"start", "wait", "enqueue", "get"}
AtRest == {"idle", "up", "gone", "nokey", "failed"}

\* Mutant of ThreadFree: waiting for a port lets other greenlets run.
ThreadFreeInGet(c) ==
    \A d \in Client \ {c} :
        ThreadOf[d] = ThreadOf[c] => user[d] \notin Holding \ {"get"}

\* No other client holds the thread of this one.
ThreadFree(c) ==
    \A d \in Client \ {c} : ThreadOf[d] = ThreadOf[c] => user[d] \notin Holding

Init ==
    /\ ServerInit
    /\ user = [c \in Client |-> "idle"] /\ port = [c \in Client |-> None]
    /\ started = FALSE /\ forwarder = "new" /\ offer = None /\ cleanup = "idle"
    /\ in_q = <<>> /\ out_q = <<>> /\ servers = {}
    /\ triggered = FALSE /\ main = "running"
    /\ iter = [left |-> {}, size |-> 0]

---------------------------------------------------------------------------
(* Clients, and programs that use a forwarder themselves.                  *)

Goes(c, state) == user' = [user EXCEPT ![c] = state]

\* The proxy client has connected; is the forwarder running?
ProxyConnects(c) ==
    /\ user[c] = "idle"
    /\ Goes(c, IF started THEN "enqueue" ELSE "start")
    /\ UNCHANGED <<server, conn, port, started, forwarder, in_q, out_q, servers>>

\* ProxyError.
ProxyFails(c) ==
    /\ user[c] = "idle"
    /\ Goes(c, "failed")
    /\ UNCHANGED <<server, conn, port, started, forwarder, in_q, out_q, servers>>

\* A thread starts once: starting it again raises.
StartForwarder(c) ==
    /\ user[c] = "start"
    /\ Goes(c, IF forwarder = "new" THEN "wait" ELSE "failed")
    /\ forwarder' = IF forwarder = "new" THEN "begun" ELSE forwarder
    /\ UNCHANGED <<server, conn, port, started, in_q, out_q, servers>>

ForwarderStarted(c) ==
    /\ user[c] = "wait" /\ started
    /\ Goes(c, "enqueue")
    /\ UNCHANGED <<server, conn, port, started, forwarder, in_q, out_q, servers>>

Enqueue(c) ==
    /\ user[c] = "enqueue" /\ in_q = <<>>
    /\ in_q' = <<c>>
    /\ Goes(c, "get")
    /\ UNCHANGED <<server, conn, port, started, forwarder, out_q, servers>>

GetPort(c) ==
    /\ user[c] = "get" /\ out_q # <<>>
    /\ port' = [port EXCEPT ![c] = Head(out_q)]
    /\ out_q' = <<>>
    /\ Goes(c, "port")
    /\ UNCHANGED <<server, conn, started, forwarder, in_q, servers>>

\* _validate_pkey raises, before there is a socket attribute: _disconnect fails at
\* it and does not reach the clean-up.
KeyMissing(c) ==
    /\ user[c] = "port" /\ c \in MayLackKey
    /\ Goes(c, "nokey")
    /\ UNCHANGED <<server, conn, port, started, forwarder, in_q, out_q, servers>>

\* The client connects to the local port.
ConnectLocal(c) ==
    /\ user[c] = "port" /\ server[port[c]] = "listening" /\ conn[port[c]].pc = "none"
    /\ Cardinality({d \in Client : conn[d].pc # "none"}) < MaxConnections
    /\ Becomes(port[c], [conn[port[c]] EXCEPT !.pc = "opening", !.local = TRUE])
    /\ Goes(c, "up")
    /\ UNCHANGED <<server, port, started, forwarder, in_q, out_q, servers>>

\* Mutant of StopsServer: the client's server is left as it is.
StopsNothing(c) == UNCHANGED server

\* server.stop(): no more connections; what the pool holds is killed later.
StopsServer(c) == server' = [server EXCEPT ![c] = "stopped"]

HangUp(c, lost) ==
    Becomes(port[c], [conn[port[c]] EXCEPT !.local = FALSE, !.lost = @ \/ lost])

\* Mutant of Disconnect: the socket goes, the server is not told.
DisconnectQuietly(c) ==
    /\ user[c] \in {"port", "up"} /\ c \in Targets
    /\ HangUp(c, FALSE) /\ Goes(c, "gone")
    /\ UNCHANGED <<server, port, started, forwarder, in_q, out_q, servers>>

\* _disconnect of a client that is done, or whose connection or session failed:
\* the socket, and then the server, if the forwarder still has it.
Disconnect(c) ==
    /\ user[c] \in {"port", "up"} /\ c \in Targets
    /\ HangUp(c, FALSE)
    /\ Goes(c, IF c \in servers THEN "stopping" ELSE "gone")
    /\ IF c \in servers THEN StopsServer(c) ELSE UNCHANGED server
    /\ UNCHANGED <<port, started, forwarder, in_q, out_q, servers>>

\* The server has stopped; its entry goes.
Removed(c) ==
    /\ user[c] = "stopping"
    /\ servers' = servers \ {c}
    /\ Goes(c, "gone")
    /\ UNCHANGED <<server, conn, port, started, forwarder, in_q, out_q>>

\* A program's own client of a forwarder closes: nobody tells the forwarder.
CloseDirect(c) ==
    /\ user[c] \in {"port", "up"} /\ c \in Direct
    /\ HangUp(c, TRUE)
    /\ Goes(c, "gone")
    /\ UNCHANGED <<server, port, started, forwarder, in_q, out_q, servers>>

UserStep(c) ==
    /\ main = "running" /\ ThreadFree(c)
    /\ \/ ProxyConnects(c) \/ ProxyFails(c) \/ StartForwarder(c) \/ ForwarderStarted(c)
       \/ Enqueue(c) \/ GetPort(c) \/ KeyMissing(c) \/ ConnectLocal(c)
       \/ Disconnect(c) \/ Removed(c) \/ CloseDirect(c)
    /\ UNCHANGED <<offer, cleanup, triggered, main, iter>>

---------------------------------------------------------------------------
(* The forwarder thread.                                                   *)

\* run, up to its loop.
ThreadStarts ==
    /\ forwarder = "begun"
    /\ started' = TRUE /\ forwarder' = "loop"
    /\ UNCHANGED <<server, offer, cleanup, in_q, out_q, servers, triggered, iter>>

\* Mutant of ServerStarts: the port is not handed out.
ServerStartsSilently ==
    LET c == Head(in_q) IN
    /\ forwarder = "loop" /\ ~triggered /\ in_q # <<>>
    /\ in_q' = <<>>
    /\ servers' = servers \union {c}
    /\ server' = [server EXCEPT ![c] = "listening"]
    /\ UNCHANGED <<started, forwarder, offer, cleanup, out_q, triggered, iter>>

ServerStarts ==
    LET c == Head(in_q) IN
    /\ forwarder = "loop" /\ ~triggered /\ in_q # <<>>
    /\ in_q' = <<>>
    /\ servers' = servers \union {c}
    /\ server' = [server EXCEPT ![c] = "listening"]
    /\ offer' = c /\ forwarder' = "put"
    /\ UNCHANGED <<started, cleanup, out_q, triggered, iter>>

Iteration == [left |-> servers, size |-> Cardinality(servers)]

\* server.start raises, with the server in _servers: the loop ends in shutdown.
StartFails ==
    LET c == Head(in_q) IN
    /\ forwarder = "loop" /\ ~triggered /\ in_q # <<>>
    /\ in_q' = <<>>
    /\ servers' = servers \union {c}
    /\ forwarder' = "stopping"
    /\ iter' = [left |-> servers', size |-> Cardinality(servers')]
    /\ UNCHANGED <<server, started, offer, cleanup, out_q, triggered>>

PutPort ==
    /\ forwarder = "put" /\ out_q = <<>>
    /\ out_q' = <<offer>>
    /\ offer' = None /\ forwarder' = "loop"
    /\ UNCHANGED <<server, started, cleanup, in_q, servers, triggered, iter>>

ReturnsOnShutdown ==
    /\ forwarder = "loop" /\ triggered
    /\ forwarder' = "dead"
    /\ UNCHANGED <<server, started, offer, cleanup, in_q, out_q, servers, triggered,
                   iter>>

\* Python refuses to go on with an iteration over a dictionary that has changed.
SizeChanged == Cardinality(servers) # iter.size

\* Mutant of StopNext: the iteration ends at the first server.
StopFirst ==
    \E c \in iter.left :
        /\ StopsServer(c)
        /\ iter' = [iter EXCEPT !.left = {}]

\* shutdown stops one server after the other.
StopNext ==
    \E c \in iter.left :
        /\ StopsServer(c)
        /\ iter' = [iter EXCEPT !.left = @ \ {c}]

\* The forwarder's own shutdown, after an exception.
StopsOwnServers ==
    /\ forwarder = "stopping" /\ ~SizeChanged /\ StopNext
    /\ UNCHANGED <<started, forwarder, offer, cleanup, in_q, out_q, servers, triggered>>

\* All are stopped, or the iteration raises: the thread ends either way.
DiesOfException ==
    /\ forwarder = "stopping"
    /\ \/ SizeChanged /\ UNCHANGED <<servers, triggered>>
       \/ ~SizeChanged /\ iter.left = {} /\ servers' = {} /\ triggered' = TRUE
    /\ forwarder' = "dead"
    /\ UNCHANGED <<server, started, offer, cleanup, in_q, out_q, iter>>

\* Mutant of CleanupFinds: whether the client is closed is not looked at.
CleanupFindsAny(c) ==
    /\ forwarder \in {"loop", "stopping"} /\ cleanup = "idle"
    /\ c \in servers
    /\ StopsServer(c)
    /\ cleanup' = c
    /\ UNCHANGED <<started, forwarder, offer, in_q, out_q, servers, triggered, iter>>

\* The clean-up loop finds a server whose client is closed: only a program's own
\* clients close while the forwarder knows them.
CleanupFinds(c) ==
    /\ forwarder \in {"loop", "stopping"} /\ cleanup = "idle"
    /\ c \in servers \cap Direct /\ user[c] = "gone"
    /\ StopsServer(c)
    /\ cleanup' = c
    /\ UNCHANGED <<started, forwarder, offer, in_q, out_q, servers, triggered, iter>>

\* The entry may be gone by now, with a shutdown's dictionary: that ends the loop.
CleanupRemoves(c) ==
    /\ forwarder \in {"loop", "stopping"} /\ cleanup = c
    /\ servers' = servers \ {c}
    /\ cleanup' = IF c \in servers THEN "idle" ELSE "dead"
    /\ UNCHANGED <<server, started, forwarder, offer, in_q, out_q, triggered, iter>>

ForwarderStep ==
    /\ \/ ThreadStarts \/ ServerStarts \/ StartFails \/ PutPort \/ ReturnsOnShutdown
       \/ StopsOwnServers \/ DiesOfException
       \/ \E c \in Client : CleanupFinds(c) \/ CleanupRemoves(c)
    /\ UNCHANGED <<conn, user, port, main>>

---------------------------------------------------------------------------
(* Exit of the program: shutdown, called by the main thread.               *)

ExitBegins ==
    /\ main = "running" /\ \A c \in Client : user[c] \in AtRest
    /\ main' = "stopping" /\ iter' = Iteration
    /\ UNCHANGED <<server, servers, triggered>>

StopsServers ==
    /\ main = "stopping" /\ ~SizeChanged /\ StopNext
    /\ UNCHANGED <<main, servers, triggered>>

\* Mutant of ServersStopped: the thread is not told.
ServersStoppedQuietly ==
    /\ main = "stopping" /\ ~SizeChanged /\ iter.left = {}
    /\ servers' = {} /\ main' = "joining"
    /\ UNCHANGED <<server, triggered, iter>>

\* The event's truth is no test of its flag: the thread is told, and waited for,
\* also when it never started.
ServersStopped ==
    /\ main = "stopping" /\ ~SizeChanged /\ iter.left = {}
    /\ servers' = {} /\ triggered' = TRUE /\ main' = "joining"
    /\ UNCHANGED <<server, iter>>

IterationRaises ==
    /\ main = "stopping" /\ SizeChanged
    /\ main' = "raised"
    /\ UNCHANGED <<server, servers, triggered, iter>>

\* join returns, or raises at once for a thread that was never started.
ExitEnds ==
    /\ main = "joining" /\ forwarder \in {"new", "dead"}
    /\ main' = "ended"
    /\ UNCHANGED <<server, servers, triggered, iter>>

MainStep ==
    /\ ExitBegins \/ StopsServers \/ ServersStopped \/ IterationRaises \/ ExitEnds
    /\ UNCHANGED <<conn, user, port, started, forwarder, offer, cleanup, in_q, out_q>>

---------------------------------------------------------------------------
\* The handlers and their greenlets live in the forwarder thread: they run while
\* its loop is in a sleep.
RelayStep(c) ==
    /\ forwarder \in {"loop", "stopping"}
    /\ HandlerStep(c) \/ SourceStep(c) \/ DestStep(c)
    /\ UNCHANGED <<server, control>>

\* Nobody sees the ends of connections once the forwarder is dead.
EnvironmentStep(c) ==
    /\ forwarder # "dead" /\ EndStep(c)
    /\ UNCHANGED <<server, control>>

Next ==
    \/ \E c \in Client : UserStep(c) \/ RelayStep(c) \/ EnvironmentStep(c)
    \/ ForwarderStep \/ MainStep

Spec == Init /\ [][Next]_vars

\* What a client has begun it goes on with; it owes no disconnecting and the program
\* no exit.  The threads run, the loops in the forwarder thread come round, and a
\* stopped server's greenlets are killed.
Fairness ==
    /\ \A c \in Client :
          /\ WF_vars(user[c] \in Holding \union {"stopping"} /\ UserStep(c))
          /\ WF_vars(forwarder \in {"loop", "stopping"} /\ Kill(c)
                        /\ UNCHANGED <<server, control>>)
    /\ WF_vars(ForwarderStep)
    /\ WF_vars(main # "running" /\ MainStep)

FairSpec == Spec /\ Fairness

---------------------------------------------------------------------------
TypeOK ==
    /\ ServerTypeOK
    /\ user \in [Client -> UserStates] /\ port \in [Client -> Client \union {None}]
    /\ started \in BOOLEAN /\ triggered \in BOOLEAN
    /\ forwarder \in {"new", "begun", "loop", "put", "stopping", "dead"}
    /\ offer \in Client \union {None}
    /\ cleanup \in Client \union {"idle", "dead"}
    /\ in_q \in {<<>>} \union {<<c>> : c \in Client}
    /\ out_q \in {<<>>} \union {<<c>> : c \in Client}
    /\ servers \subseteq Client
    /\ main \in {"running", "stopping", "joining", "ended", "raised"}
    /\ iter.left \subseteq Client /\ iter.size \in 0 .. Cardinality(Client)

\* Every client is given the port of the server that was started for it, though the
\* queues say for whom neither a request nor a port is: with all clients in one
\* thread, that thread stands still from a request to its answer (_connect_proxy).
OwnPort == \A c \in Client : port[c] \in {c, None}

\* The forwarder does not lose the server of a client that is connected or about to
\* be, however servers of others are cleaned up, until a shutdown stops them all.
ServerKept ==
    forwarder \in {"loop", "put"} /\ main = "running" =>
        \A c \in Client : user[c] \in {"port", "up"} =>
            c \in servers /\ server[c] = "listening"

\* Every server the forwarder keeps has a client that is still to tell it that the
\* server can go, or a client the clean-up loop watches; except for clients whose
\* key file was missing (_disconnect, cleanup_server).
ServerHasClient ==
    forwarder \in {"loop", "put"} /\ main = "running" =>
        \A c \in servers \cap Targets :
            user[c] \in {"get", "port", "up", "stopping", "nokey"}

\* When the program's exit is through with shutdown, nothing listens any more.
NothingListensAfterExit ==
    main = "ended" => \A c \in Client : server[c] # "listening"

\* The types of the tunnel's state, and what its shutdown achieves.
Inv == TypeOK /\ NothingListensAfterExit

\* A client that asks for a port gets one, or the forwarder has died of an exception.
RequestAnswered ==
    (\E c \in Client : user[c] \in Holding)
        ~> (forwarder = "dead" \/ \A c \in Client : user[c] \notin Holding)

LeftBehind(c) == user[c] = "gone" /\ (server[c] = "listening" \/ Busy(c))

\* Once a client is gone its server stops and the forwarding through it ends, its
\* data or not, unless the forwarder is dead.
TunnelTornDown ==
    (\E c \in Client : LeftBehind(c))
        ~> (forwarder = "dead" \/ \A c \in Client : ~LeftBehind(c))

\* Exit does not hang in shutdown.
ExitFinishes == (main = "stopping") ~> (main \in {"ended", "raised"})
=============================================================================
