--------------------------- MODULE TunnelProofs ---------------------------
(***************************************************************************)
(* Proofs about Tunnel.  OwnPort, ServerKept and ServerHasClient hold for  *)
(* any number of clients that are all made in one thread, the assumption   *)
(* SingleThread, without which they do not: Control says that then at most *)
(* one client is between its request and its answer, and that whatever is  *)
(* in a queue is for that client.  NothingDropped holds for any threads,   *)
(* by an invariant of each connection, and so does Inv: Shutdown counts    *)
(* the clients that wait for a port, so that none is left at exit.         *)
(***************************************************************************)
EXTENDS Tunnel, TLAPS, FiniteSetTheorems

SingleThread == \A c, d \in Client : ThreadOf[c] = ThreadOf[d]

Serving == forwarder \in {"loop", "put"} /\ main = "running"

Kept(c) == Serving => c \in servers /\ server[c] = "listening"

ControlTypeOK ==
    /\ user \in [Client -> UserStates]
    /\ port \in [Client -> Client \union {None}]
    /\ server \in [Client -> {"none", "listening", "stopped"}]
    /\ forwarder \in {"new", "begun", "loop", "put", "stopping", "dead"}
    /\ servers \subseteq Client
    /\ started \in BOOLEAN

\* At most one client holds the thread.
OneHolds ==
    \A c, d \in Client : user[c] \in Holding /\ user[d] \in Holding => c = d

\* A request, the port on offer and the port handed out are for the client that
\* waits, and there is only one of the three.
Requested ==
    \/ in_q = <<>>
    \/ \E c \in Client : /\ in_q = <<c>> /\ user[c] = "get"
                         /\ out_q = <<>> /\ forwarder # "put"

Offered ==
    forwarder = "put" =>
        offer \in Client /\ user[offer] = "get" /\ out_q = <<>> /\ Kept(offer)

Answered ==
    \/ out_q = <<>>
    \/ \E c \in Client : out_q = <<c>> /\ user[c] = "get" /\ Kept(c)

BeforeTheLoop ==
    forwarder \in {"new", "begun"} =>
        /\ ~started /\ servers = {}
        /\ \A c \in Client : user[c] \in {"idle", "start", "wait", "failed"}

CleansUpDirect ==
    \A c \in Client : cleanup = c => c \in Direct /\ user[c] = "gone"

Control ==
    /\ ControlTypeOK /\ OneHolds /\ Requested /\ Offered /\ Answered
    /\ BeforeTheLoop /\ CleansUpDirect
    /\ OwnPort /\ ServerKept /\ ServerHasClient

USE DEF UserStates, Holding

LEMMA Queues == \A c : <<c>> # <<>> /\ Head(<<c>>) = c /\ \A d : <<c>> = <<d>> => c = d
  OBVIOUS

LEMMA ControlInit == Init => Control
  BY TunnelAssumption DEF Init, ServerInit, Control, ControlTypeOK, OneHolds, Requested, Offered,
         Answered, BeforeTheLoop, CleansUpDirect, OwnPort, ServerKept, ServerHasClient,
         Serving, Kept, Targets

---------------------------------------------------------------------------
(* Steps of clients.                                                       *)

\* What a client that may run knows of the others.
LEMMA Alone ==
    ASSUME SingleThread, NEW c \in Client, ThreadFree(c)
    PROVE  \A d \in Client : user[d] \in Holding => d = c
  BY DEF SingleThread, ThreadFree

\* A step by which a client neither asks for a port, nor gets one, nor comes to
\* have a server that is not kept, and that disturbs no other client.
LEMMA QuietStep ==
    ASSUME Control, NEW c \in Client, \A d \in Client : user[d] \in Holding => d = c,
           NEW state \in UserStates,
           user' = [user EXCEPT ![c] = state],
           user[c] # "get", state # "get", user[c] # "gone",
           state \in {"port", "up"} => user[c] \in {"port", "up"},
           c \in servers' \cap Targets =>
               \/ state \in {"port", "up", "stopping", "nokey"}
               \/ user[c] \notin {"get", "port", "up", "stopping", "nokey"},
           started' = started, port' = port, in_q' = in_q, out_q' = out_q,
           UNCHANGED <<offer, cleanup, main>>,
           \/ forwarder' = forwarder
           \/ forwarder = "new" /\ forwarder' = "begun",
           servers' \in {servers, servers \ {c}},
           servers' # servers => state \notin {"port", "up"},
           \/ server' = server
           \/ /\ server' = [server EXCEPT ![c] = "stopped"]
              /\ state \notin {"port", "up"},
           forwarder' \in {"new", "begun"} =>
               state \in {"idle", "start", "wait", "failed"}
    PROVE  Control'
<1>0. \A d \in Client : user'[d] = IF d = c THEN state ELSE user[d]
  BY DEF Control, ControlTypeOK
<1>1. ControlTypeOK'
  BY DEF Control, ControlTypeOK
<1>2. OneHolds'
  BY <1>0 DEF Control, OneHolds
<1>3. Requested' /\ in_q = <<>> /\ out_q = <<>> /\ forwarder # "put"
  BY <1>0 DEF Control, Requested, Answered, Offered
<1>4. Offered' /\ Answered'
  BY <1>3 DEF Offered, Answered
<1>5. BeforeTheLoop'
  BY <1>0 DEF Control, BeforeTheLoop
<1>6. CleansUpDirect'
  BY <1>0 DEF Control, CleansUpDirect
<1>7. OwnPort'
  BY DEF Control, OwnPort
<1>8. ServerKept'
  <2>. SUFFICES ASSUME Serving', NEW d \in Client, user'[d] \in {"port", "up"}
                PROVE  d \in servers' /\ server'[d] = "listening"
    BY DEF ServerKept, Serving
  <2>1. Serving /\ user[d] \in {"port", "up"}
    BY <1>0 DEF Serving
  <2>2. d \in servers /\ server[d] = "listening"
    BY <2>1 DEF Control, ServerKept, Serving
  <2> QED
    BY <1>0, <2>2 DEF Control, ControlTypeOK
<1>9. ServerHasClient'
  <2>. SUFFICES ASSUME Serving', NEW d \in servers' \cap Targets
                PROVE  user'[d] \in {"get", "port", "up", "stopping", "nokey"}
    BY DEF ServerHasClient, Serving
  <2>1. Serving /\ d \in servers \cap Targets
    BY DEF Serving
  <2>2. user[d] \in {"get", "port", "up", "stopping", "nokey"}
    BY <2>1 DEF Control, ServerHasClient, Serving
  <2> QED
    BY <1>0, <2>2 DEF Targets
<1> QED
  BY <1>1, <1>2, <1>3, <1>4, <1>5, <1>6, <1>7, <1>8, <1>9 DEF Control

LEMMA EnqueueStep ==
    ASSUME Control, NEW c \in Client, \A d \in Client : user[d] \in Holding => d = c,
           Enqueue(c), UNCHANGED <<offer, cleanup, main>>
    PROVE  Control'
<1>0. \A d \in Client : user'[d] = IF d = c THEN "get" ELSE user[d]
  BY DEF Control, ControlTypeOK, Enqueue, Goes
<1>1. ControlTypeOK'
  BY DEF Control, ControlTypeOK, Enqueue, Goes
<1>2. OneHolds'
  BY <1>0 DEF Control, OneHolds
<1>3. out_q = <<>> /\ forwarder # "put"
  BY DEF Control, Answered, Offered, Enqueue
<1>4. Requested'
  BY <1>0, <1>3 DEF Requested, Enqueue
<1>5. Offered' /\ Answered'
  BY <1>3 DEF Offered, Answered, Enqueue
<1>6. BeforeTheLoop'
  BY DEF Control, BeforeTheLoop, Enqueue
<1>7. CleansUpDirect'
  BY <1>0 DEF Control, CleansUpDirect, Enqueue
<1>8. OwnPort'
  BY DEF Control, OwnPort, Enqueue
<1>9. ServerKept' /\ ServerHasClient'
  BY <1>0 DEF Control, ControlTypeOK, ServerKept, ServerHasClient, Enqueue
<1> QED
  BY <1>1, <1>2, <1>4, <1>5, <1>6, <1>7, <1>8, <1>9 DEF Control

\* The port is for the client that takes it: no other waits for one.
LEMMA GetPortStep ==
    ASSUME Control, NEW c \in Client, \A d \in Client : user[d] \in Holding => d = c,
           GetPort(c), UNCHANGED <<offer, cleanup, main>>
    PROVE  Control'
<1>0. \A d \in Client : user'[d] = IF d = c THEN "port" ELSE user[d]
  BY DEF Control, ControlTypeOK, GetPort, Goes
<1>1. out_q = <<c>> /\ Kept(c)
  <2>1. PICK d \in Client : out_q = <<d>> /\ user[d] = "get" /\ Kept(d)
    BY DEF Control, Answered, GetPort
  <2> QED
    BY <2>1
<1>2. Head(out_q) = c
  BY <1>1
<1>3. ControlTypeOK'
  BY <1>2 DEF Control, ControlTypeOK, GetPort, Goes
<1>4. OneHolds'
  BY <1>0 DEF Control, OneHolds
<1>5. in_q = <<>> /\ forwarder # "put"
  BY <1>1, Queues DEF Control, Requested, Offered
<1>6. Requested' /\ Offered' /\ Answered'
  BY <1>5 DEF Requested, Offered, Answered, GetPort
<1>7. BeforeTheLoop'
  BY DEF Control, BeforeTheLoop, GetPort
<1>8. CleansUpDirect'
  BY <1>0 DEF Control, CleansUpDirect, GetPort
<1>9. OwnPort'
  BY <1>2 DEF Control, OwnPort, GetPort, ControlTypeOK
<1>10. ServerKept'
  BY <1>0, <1>1 DEF Control, ServerKept, GetPort, Kept, Serving
<1>11. ServerHasClient'
  BY <1>0 DEF Control, ControlTypeOK, ServerHasClient, GetPort
<1> QED
  BY <1>3, <1>4, <1>6, <1>7, <1>8, <1>9, <1>10, <1>11 DEF Control

LEMMA UserSteps ==
    ASSUME SingleThread, Control, NEW c \in Client, UserStep(c)
    PROVE  Control'
<1>0. /\ \A d \in Client : user[d] \in Holding => d = c
      /\ UNCHANGED <<offer, cleanup, main>>
  BY Alone DEF UserStep
<1>1. CASE ProxyConnects(c)
  <2>1. /\ ~started => user' = [user EXCEPT ![c] = "start"]
        /\ started => user' = [user EXCEPT ![c] = "enqueue"]
    BY <1>1 DEF ProxyConnects, Goes
  <2>2. CASE started
    <3>1. forwarder \notin {"new", "begun"}
      BY <2>2 DEF Control, BeforeTheLoop
    <3> QED
      BY <1>0, <1>1, <2>1, <2>2, <3>1, QuietStep DEF ProxyConnects
  <2>3. CASE ~started
    BY <1>0, <1>1, <2>1, <2>3, QuietStep DEF ProxyConnects
  <2> QED
    BY <2>2, <2>3
<1>2. CASE ProxyFails(c)
  BY <1>0, <1>2, QuietStep DEF ProxyFails, Goes
<1>3. CASE StartForwarder(c)
  <2>1. CASE forwarder = "new"
    BY <1>0, <1>3, <2>1, QuietStep DEF StartForwarder, Goes
  <2>2. CASE forwarder # "new"
    BY <1>0, <1>3, <2>2, QuietStep DEF StartForwarder, Goes
  <2> QED
    BY <2>1, <2>2
<1>4. CASE ForwarderStarted(c)
  <2>1. forwarder \notin {"new", "begun"}
    BY <1>4 DEF Control, BeforeTheLoop, ForwarderStarted
  <2> QED
    BY <1>0, <1>4, <2>1, QuietStep DEF ForwarderStarted, Goes
<1>5. CASE Enqueue(c)
  BY <1>0, <1>5, EnqueueStep
<1>6. CASE GetPort(c)
  BY <1>0, <1>6, GetPortStep
<1>7. ASSUME user[c] \in {"port", "up"}
      PROVE  forwarder \notin {"new", "begun"}
  BY <1>7 DEF Control, BeforeTheLoop
<1>8. CASE KeyMissing(c)
  BY <1>0, <1>7, <1>8, QuietStep DEF KeyMissing, Goes
<1>9. CASE ConnectLocal(c)
  BY <1>0, <1>7, <1>9, QuietStep DEF ConnectLocal, Goes
<1>10. CASE Disconnect(c)
  <2>1. CASE c \in servers
    BY <1>0, <1>7, <1>10, <2>1, QuietStep DEF Disconnect, Goes, StopsServer
  <2>2. CASE c \notin servers
    BY <1>0, <1>7, <1>10, <2>2, QuietStep DEF Disconnect, Goes
  <2> QED
    BY <2>1, <2>2
<1>11. CASE Removed(c)
  <2>1. forwarder \notin {"new", "begun"}
    BY <1>11 DEF Control, BeforeTheLoop, Removed
  <2> QED
    BY <1>0, <1>11, <2>1, QuietStep DEF Removed, Goes
<1>12. CASE CloseDirect(c)
  <2>1. c \notin Targets
    BY <1>12 DEF CloseDirect, Targets
  <2> QED
    BY <1>0, <1>7, <1>12, <2>1, QuietStep DEF CloseDirect, Goes
<1> QED
  BY <1>1, <1>2, <1>3, <1>4, <1>5, <1>6, <1>8, <1>9, <1>10, <1>11, <1>12 DEF UserStep

---------------------------------------------------------------------------
(* Steps of the forwarder and of the program's exit.                       *)

LEMMA ServerStartsStep ==
    ASSUME Control, ServerStarts, UNCHANGED <<user, port, main>>
    PROVE  Control'
<1>1. PICK c \in Client : /\ in_q = <<c>> /\ user[c] = "get"
                          /\ out_q = <<>> /\ forwarder # "put"
  BY DEF Control, Requested, ServerStarts
<1>2. /\ forwarder' = "put" /\ offer' = c /\ servers' = servers \union {c}
      /\ server' = [server EXCEPT ![c] = "listening"]
      /\ in_q' = <<>> /\ UNCHANGED <<started, cleanup, out_q>>
  BY <1>1 DEF ServerStarts
<1>3. ControlTypeOK'
  BY <1>2 DEF Control, ControlTypeOK
<1>4. Offered'
  BY <1>1, <1>2 DEF Offered, Kept, Serving, Control, ControlTypeOK
<1>5. /\ OneHolds' /\ Requested' /\ Answered' /\ BeforeTheLoop' /\ CleansUpDirect'
      /\ OwnPort'
  BY <1>1, <1>2 DEF Control, OneHolds, Requested, Answered, BeforeTheLoop,
                    CleansUpDirect, OwnPort
<1>6. Serving' => Serving
  BY DEF ServerStarts, Serving
<1>7. ServerKept' /\ ServerHasClient'
  BY <1>1, <1>2, <1>6 DEF Control, ControlTypeOK, ServerKept, ServerHasClient, Serving
<1> QED
  BY <1>3, <1>4, <1>5, <1>7 DEF Control

\* Once servers are being stopped, nothing more is promised of them.
LEMMA StepToStop ==
    ASSUME Control, ~Serving', UNCHANGED <<user, port, started, offer>>,
           in_q' \in {in_q, <<>>}, out_q' = out_q,
           cleanup' \in {cleanup, "idle", "dead"},
           server' \in [Client -> {"none", "listening", "stopped"}],
           servers' \subseteq Client,
           \/ forwarder' \in {"stopping", "dead"}
           \/ forwarder' = forwarder /\ servers' \subseteq servers
    PROVE  Control'
<1>1. ControlTypeOK'
  BY DEF Control, ControlTypeOK
<1>2. Offered' /\ Answered'
  BY DEF Control, Offered, Answered, Kept
<1>3. OneHolds' /\ Requested' /\ OwnPort' /\ BeforeTheLoop'
  BY DEF Control, OneHolds, Requested, OwnPort, BeforeTheLoop
<1>4. CleansUpDirect'
  BY TunnelAssumption DEF Control, CleansUpDirect
<1>5. ServerKept' /\ ServerHasClient'
  BY DEF ServerKept, ServerHasClient, Serving
<1> QED
  BY <1>1, <1>2, <1>3, <1>4, <1>5 DEF Control

LEMMA StopNextType ==
    ASSUME Control, StopNext
    PROVE  server' \in [Client -> {"none", "listening", "stopped"}]
  BY DEF Control, ControlTypeOK, StopNext, StopsServer

LEMMA ForwarderSteps ==
    ASSUME Control, ForwarderStep
    PROVE  Control'
<1>0. UNCHANGED <<user, port, main>>
  BY DEF ForwarderStep
<1>1. CASE ThreadStarts
  <2>1. /\ forwarder' = "loop" /\ servers = {} /\ out_q = <<>>
        /\ \A c \in Client : user[c] \in {"idle", "start", "wait", "failed"}
    BY <1>1 DEF Control, BeforeTheLoop, Answered, ThreadStarts
  <2>2. ControlTypeOK'
    BY <1>0, <1>1 DEF Control, ControlTypeOK, ThreadStarts
  <2>3. OneHolds' /\ Requested' /\ CleansUpDirect' /\ OwnPort' /\ Answered'
    BY <1>0, <1>1, <2>1 DEF Control, OneHolds, Requested, CleansUpDirect, OwnPort,
                            Answered, ThreadStarts
  <2>4. Offered' /\ BeforeTheLoop' /\ ServerKept' /\ ServerHasClient'
    BY <1>0, <1>1, <2>1 DEF Offered, BeforeTheLoop, ServerKept, ServerHasClient,
                            ThreadStarts
  <2> QED
    BY <2>2, <2>3, <2>4 DEF Control
<1>2. CASE ServerStarts
  BY <1>0, <1>2, ServerStartsStep
<1>3. CASE StartFails
  <2>1. Head(in_q) \in Client
    BY <1>3 DEF Control, Requested, StartFails
  <2> QED
    BY <1>0, <1>3, <2>1, StepToStop DEF StartFails, Serving, Control, ControlTypeOK
<1>4. CASE PutPort
  <2>1. /\ offer \in Client /\ user[offer] = "get" /\ Kept(offer) /\ in_q = <<>>
        /\ forwarder' = "loop" /\ out_q' = <<offer>>
        /\ UNCHANGED <<server, started, cleanup, in_q, servers>>
    BY <1>4 DEF Control, Offered, Requested, PutPort
  <2>2. ControlTypeOK' /\ OneHolds' /\ Requested' /\ CleansUpDirect' /\ OwnPort'
    BY <1>0, <2>1 DEF Control, ControlTypeOK, OneHolds, Requested, CleansUpDirect,
                      OwnPort
  <2>3. Serving' => Serving
    BY <1>0, <1>4 DEF PutPort, Serving
  <2>4. Answered'
    BY <1>0, <2>1, <2>3 DEF Answered, Kept
  <2>5. Offered' /\ BeforeTheLoop' /\ ServerKept' /\ ServerHasClient'
    BY <1>0, <1>4, <2>1 DEF Control, Offered, BeforeTheLoop, ServerKept,
                            ServerHasClient, PutPort
  <2> QED
    BY <2>2, <2>4, <2>5 DEF Control
<1>5. CASE ReturnsOnShutdown
  BY <1>0, <1>5, StepToStop DEF ReturnsOnShutdown, Serving, Control, ControlTypeOK
<1>6. CASE StopsOwnServers
  BY <1>0, <1>6, StepToStop, StopNextType DEF StopsOwnServers, Serving, Control,
                                              ControlTypeOK
<1>7. CASE DiesOfException
  BY <1>0, <1>7, StepToStop DEF DiesOfException, Serving, Control, ControlTypeOK
<1>8. ASSUME NEW c \in Client, CleanupFinds(c) \/ CleanupRemoves(c)
      PROVE  Control'
  <2>1. /\ c \in Direct /\ user[c] = "gone"
        /\ UNCHANGED <<started, forwarder, offer, in_q, out_q>>
    BY <1>8 DEF Control, CleansUpDirect, CleanupFinds, CleanupRemoves
  <2>2. /\ servers \ {c} \subseteq servers' /\ servers' \subseteq servers
        /\ \A d \in Client : d # c => server'[d] = server[d]
        /\ server' \in [Client -> {"none", "listening", "stopped"}]
    BY <1>8 DEF Control, ControlTypeOK, CleanupFinds, CleanupRemoves, StopsServer
  <2>3. forwarder \in {"loop", "stopping"}
    BY <1>8 DEF CleanupFinds, CleanupRemoves
  <2>4. ControlTypeOK' /\ OneHolds' /\ Requested' /\ Offered' /\ BeforeTheLoop' /\ OwnPort'
    BY <1>0, <2>1, <2>2, <2>3 DEF Control, ControlTypeOK, OneHolds, Requested, Offered,
                                  BeforeTheLoop, OwnPort
  <2>5. Answered'
    BY <1>0, <2>1, <2>2 DEF Control, Answered, Kept, Serving
  <2>6. CleansUpDirect'
    BY <1>0, <1>8, <2>1, TunnelAssumption DEF CleansUpDirect, CleanupFinds,
                                              CleanupRemoves
  <2>7. ServerKept'
    BY <1>0, <2>1, <2>2 DEF Control, ServerKept
  <2>8. ServerHasClient'
    BY <1>0, <2>1, <2>2 DEF Control, ServerHasClient
  <2> QED
    BY <2>4, <2>5, <2>6, <2>7, <2>8 DEF Control
<1> QED
  BY <1>1, <1>2, <1>3, <1>4, <1>5, <1>6, <1>7, <1>8 DEF ForwarderStep

LEMMA MainSteps ==
    ASSUME Control, MainStep
    PROVE  Control'
<1>0. UNCHANGED <<user, port, started, forwarder, offer, cleanup, in_q, out_q>>
  BY DEF MainStep
<1>1. ~Serving'
  BY DEF MainStep, ExitBegins, StopsServers, ServersStopped, IterationRaises, ExitEnds,
         Serving
<1>2. servers' \subseteq servers
  BY DEF MainStep, ExitBegins, StopsServers, ServersStopped, IterationRaises, ExitEnds
<1>3. server' \in [Client -> {"none", "listening", "stopped"}]
  BY StopNextType DEF MainStep, ExitBegins, StopsServers, ServersStopped,
                      IterationRaises, ExitEnds, Control, ControlTypeOK
<1> QED
  BY <1>0, <1>1, <1>2, <1>3, StepToStop DEF Control, ControlTypeOK

---------------------------------------------------------------------------
LEMMA ControlInvariant == SingleThread => (Spec => []Control)
<1>. SUFFICES ASSUME SingleThread PROVE Spec => []Control
  OBVIOUS
<1>1. Control /\ [Next]_vars => Control'
  <2>. SUFFICES ASSUME Control, [Next]_vars PROVE Control'
    OBVIOUS
  <2>1. CASE UNCHANGED <<server, control>>
    BY <2>1 DEF control, Control, ControlTypeOK, OneHolds, Requested, Offered, Answered,
                BeforeTheLoop, CleansUpDirect, OwnPort, ServerKept, ServerHasClient,
                Serving, Kept
  <2>2. CASE \E c \in Client : UserStep(c)
    BY <2>2, UserSteps
  <2>3. CASE ForwarderStep
    BY <2>3, ForwarderSteps
  <2>4. CASE MainStep
    BY <2>4, MainSteps
  <2> QED
    BY <2>1, <2>2, <2>3, <2>4 DEF Next, vars, RelayStep, EnvironmentStep
<1> QED
  BY <1>1, ControlInit, PTL DEF Spec

\* Every client gets the port of its own server, whatever the number of clients, when
\* all are made in one thread (_connect_proxy with LocalForwarder's queues).
THEOREM OwnPortHolds == SingleThread => (Spec => []OwnPort)
<1>1. Control => OwnPort
  BY DEF Control
<1> QED
  BY <1>1, ControlInvariant, PTL

\* The forwarder keeps the server of every client that has been given a port, until
\* that client is done or a shutdown begins (_start_server, cleanup_server).
THEOREM ServerKeptHolds == SingleThread => (Spec => []ServerKept)
<1>1. Control => ServerKept
  BY DEF Control
<1> QED
  BY <1>1, ControlInvariant, PTL

\* No server of a client that is gone is kept, but for clients without their key file
\* (_disconnect).
THEOREM ServerHasClientHolds == SingleThread => (Spec => []ServerHasClient)
<1>1. Control => ServerHasClient
  BY DEF Control
<1> QED
  BY <1>1, ControlInvariant, PTL

---------------------------------------------------------------------------
(* Connections.                                                            *)

\* What every connection keeps to.
Sound(k) ==
    /\ k.up.put <= k.up.read /\ k.up.read <= k.up.sent
    /\ k.down.put <= k.down.read /\ k.down.read <= k.down.sent
    /\ k.src \in {"none", "check", "recv"} => k.up.put = k.up.read
    /\ k.src = "write" => k.up.put < k.up.read
    /\ k.src = "done" => k.failed \/ k.up.put = k.up.read
    /\ k.dst \in {"none", "check"} => k.down.put = k.down.read
    /\ k.dst = "send" => k.down.put < k.down.read
    /\ k.dst = "done" =>
          k.failed \/ (k.eof /\ k.down.put = k.down.read /\ k.down.read = k.down.sent)
    /\ k.pc \in {"none", "opening"} => k.src = "none" /\ k.dst = "none"
    /\ k.failed => k.pc = "closed"
    /\ k.pc = "closed" /\ ~k.failed => k.src = "done" /\ k.dst = "done"

Connections == conn \in [Client -> Connection] /\ \A c \in Client : Sound(conn[c])

\* A step of one connection needs to be looked at there only.
LEMMA OneConnection ==
    ASSUME Connections, NEW c, NEW k, Becomes(c, k),
           c \in Client => k \in Connection /\ Sound(k)
    PROVE  Connections'
<1>1. conn' \in [Client -> Connection]
  BY DEF Connections, Becomes
<1>2. ASSUME NEW d \in Client PROVE Sound(conn'[d])
  BY DEF Connections, Becomes
<1> QED
  BY <1>1, <1>2 DEF Connections

LEMMA ConnectionsInit == Init => Connections
<1>. SUFFICES ASSUME Init PROVE Connections
  OBVIOUS
<1>1. NoConnection \in Connection /\ Sound(NoConnection)
  BY ServerAssumption DEF NoConnection, Nothing, Connection, Direction, Sound
<1> QED
  BY <1>1 DEF Init, ServerInit, Connections

LEMMA HandlerSteps ==
    ASSUME Connections, NEW c \in Client, HandlerStep(c)
    PROVE  Connections'
<1>0. /\ conn[c] \in Connection /\ Sound(conn[c])
      /\ UpChunks \in Nat /\ DownChunks \in Nat /\ Retries \in Nat \ {0}
  BY ServerAssumption DEF Connections
<1>1. CASE OpenFails(c)
  <2>. DEFINE k == [conn[c] EXCEPT !.tries = @ + 1]
  <2>1. k \in Connection
    BY <1>0, <1>1 DEF OpenFails, Connection, Direction, Sound
  <2>2. Sound(k)
    BY <1>0, <1>1 DEF OpenFails, Connection, Direction, Sound
  <2> QED
    BY <1>1, <2>1, <2>2, OneConnection DEF OpenFails
<1>2. CASE GivesUp(c)
  <2>. DEFINE k == [conn[c] EXCEPT !.pc = "closed", !.failed = TRUE]
  <2>1. k \in Connection
    BY <1>0, <1>2 DEF GivesUp, Connection, Direction, Sound
  <2>2. Sound(k)
    BY <1>0, <1>2 DEF GivesUp, Connection, Direction, Sound
  <2> QED
    BY <1>2, <2>1, <2>2, OneConnection DEF GivesUp
<1>3. CASE OpenChannel(c)
  <2>. DEFINE k == [conn[c] EXCEPT !.pc = "relaying", !.src = "check", !.dst = "check"]
  <2>1. k \in Connection
    BY <1>0, <1>3 DEF OpenChannel, Connection, Direction, Sound
  <2>2. Sound(k)
    BY <1>0, <1>3 DEF OpenChannel, Connection, Direction, Sound
  <2> QED
    BY <1>3, <2>1, <2>2, OneConnection DEF OpenChannel
<1>4. CASE HandlerReturns(c)
  <2>. DEFINE k == [conn[c] EXCEPT !.pc = "closed", !.eof = TRUE]
  <2>1. k \in Connection
    BY <1>0, <1>4 DEF HandlerReturns, Connection, Direction, Sound
  <2>2. Sound(k)
    BY <1>0, <1>4 DEF HandlerReturns, Connection, Direction, Sound
  <2> QED
    BY <1>4, <2>1, <2>2, OneConnection DEF HandlerReturns
<1>5. CASE HandlerRaises(c)
  <2>. DEFINE k == [conn[c] EXCEPT !.pc = "closed", !.eof = TRUE, !.failed = TRUE]
  <2>1. k \in Connection
    BY <1>0, <1>5 DEF HandlerRaises, Connection, Direction, Sound
  <2>2. Sound(k)
    BY <1>0, <1>5 DEF HandlerRaises, Connection, Direction, Sound
  <2> QED
    BY <1>5, <2>1, <2>2, OneConnection DEF HandlerRaises
<1>6. CASE Kill(c)
  <2>. DEFINE k == [conn[c] EXCEPT !.pc = "closed", !.failed = TRUE, !.eof = TRUE,
                                  !.src = "done", !.dst = "done"]
  <2>1. k \in Connection
    BY <1>0, <1>6 DEF Kill, Connection, Direction, Sound
  <2>2. Sound(k)
    BY <1>0, <1>6 DEF Kill, Connection, Direction, Sound
  <2> QED
    BY <1>6, <2>1, <2>2, OneConnection DEF Kill
<1> QED
  BY <1>1, <1>2, <1>3, <1>4, <1>5, <1>6 DEF HandlerStep

LEMMA SourceSteps ==
    ASSUME Connections, NEW c \in Client, SourceStep(c)
    PROVE  Connections'
<1>0. /\ conn[c] \in Connection /\ Sound(conn[c])
      /\ UpChunks \in Nat /\ DownChunks \in Nat /\ Retries \in Nat \ {0}
  BY ServerAssumption DEF Connections
<1>1. CASE SourceChecks(c)
  <2>. DEFINE k == [conn[c] EXCEPT !.src = "recv"]
  <2>1. k \in Connection
    BY <1>0, <1>1 DEF SourceChecks, Connection, Direction, Sound
  <2>2. Sound(k)
    BY <1>0, <1>1 DEF SourceChecks, Connection, Direction, Sound
  <2> QED
    BY <1>1, <2>1, <2>2, OneConnection DEF SourceChecks
<1>2. CASE SourceSeesEnd(c)
  <2>. DEFINE k == [conn[c] EXCEPT !.src = "done"]
  <2>1. k \in Connection
    BY <1>0, <1>2 DEF SourceSeesEnd, Connection, Direction, Sound
  <2>2. Sound(k)
    BY <1>0, <1>2 DEF SourceSeesEnd, Connection, Direction, Sound
  <2> QED
    BY <1>2, <2>1, <2>2, OneConnection DEF SourceSeesEnd
<1>3. CASE Recv(c)
  <2>0. PICK n \in conn[c].up.read + 1 .. conn[c].up.sent :
                 Becomes(c, [conn[c] EXCEPT !.src = "write", !.up.read = n])
    BY <1>3 DEF Recv
  <2>. DEFINE k == [conn[c] EXCEPT !.src = "write", !.up.read = n]
  <2>1. k \in Connection
    <3>1. n \in 0 .. UpChunks
      BY <1>0, <2>0, <1>3 DEF Recv, Connection, Direction, Sound
    <3> QED
      BY <1>0, <3>1 DEF Connection, Direction
  <2>2. Sound(k)
    BY <1>0, <2>0, <1>3 DEF Recv, Connection, Direction, Sound
  <2> QED
    BY <2>0, <2>1, <2>2, OneConnection
<1>4. CASE RecvNothing(c)
  <2>. DEFINE k == [conn[c] EXCEPT !.src = "check"]
  <2>1. k \in Connection
    BY <1>0, <1>4 DEF RecvNothing, Connection, Direction, Sound
  <2>2. Sound(k)
    BY <1>0, <1>4 DEF RecvNothing, Connection, Direction, Sound
  <2> QED
    BY <1>4, <2>1, <2>2, OneConnection DEF RecvNothing
<1>5. CASE RecvFails(c)
  <2>. DEFINE k == [conn[c] EXCEPT !.src = "raised"]
  <2>1. k \in Connection
    BY <1>0, <1>5 DEF RecvFails, Connection, Direction, Sound
  <2>2. Sound(k)
    BY <1>0, <1>5 DEF RecvFails, Connection, Direction, Sound
  <2> QED
    BY <1>5, <2>1, <2>2, OneConnection DEF RecvFails
<1>6. CASE Write(c)
  <2>. DEFINE k == [conn[c] EXCEPT !.up.put = @ + 1, !.src = AfterWrite(c)]
  <2>1. k \in Connection
    <3>1. conn[c].up.put + 1 \in 0 .. UpChunks
      BY <1>0, <1>6 DEF Write, Connection, Direction, Sound
    <3>2. AfterWrite(c) \in {"check", "write"}
      BY DEF AfterWrite
    <3> QED
      BY <1>0, <3>1, <3>2 DEF Connection, Direction
  <2>2. Sound(k)
    BY <1>0, <1>6 DEF Write, AfterWrite, Connection, Direction, Sound
  <2> QED
    BY <1>6, <2>1, <2>2, OneConnection DEF Write
<1>7. CASE WriteFails(c)
  <2>. DEFINE k == [conn[c] EXCEPT !.src = "raised"]
  <2>1. k \in Connection
    BY <1>0, <1>7 DEF WriteFails, Connection, Direction, Sound
  <2>2. Sound(k)
    BY <1>0, <1>7 DEF WriteFails, Connection, Direction, Sound
  <2> QED
    BY <1>7, <2>1, <2>2, OneConnection DEF WriteFails
<1> QED
  BY <1>1, <1>2, <1>3, <1>4, <1>5, <1>6, <1>7 DEF SourceStep

LEMMA DestSteps ==
    ASSUME Connections, NEW c \in Client, DestStep(c)
    PROVE  Connections'
<1>0. /\ conn[c] \in Connection /\ Sound(conn[c])
      /\ UpChunks \in Nat /\ DownChunks \in Nat /\ Retries \in Nat \ {0}
  BY ServerAssumption DEF Connections
<1>1. CASE DestSeesEof(c)
  <2>. DEFINE k == [conn[c] EXCEPT !.dst = "done"]
  <2>1. k \in Connection
    BY <1>0, <1>1 DEF DestSeesEof, ChannelEof, Connection, Direction, Sound
  <2>2. Sound(k)
    BY <1>0, <1>1 DEF DestSeesEof, ChannelEof, Connection, Direction, Sound
  <2> QED
    BY <1>1, <2>1, <2>2, OneConnection DEF DestSeesEof
<1>2. CASE ReadChannel(c)
  <2>0. PICK n \in conn[c].down.read + 1 .. conn[c].down.sent :
                 Becomes(c, [conn[c] EXCEPT !.dst = "send", !.down.read = n])
    BY <1>2 DEF ReadChannel
  <2>. DEFINE k == [conn[c] EXCEPT !.dst = "send", !.down.read = n]
  <2>1. k \in Connection
    <3>1. n \in 0 .. DownChunks
      BY <1>0, <2>0, <1>2 DEF ReadChannel, Connection, Direction, Sound
    <3> QED
      BY <1>0, <3>1 DEF Connection, Direction
  <2>2. Sound(k)
    BY <1>0, <2>0, <1>2 DEF ReadChannel, Connection, Direction, Sound
  <2> QED
    BY <2>0, <2>1, <2>2, OneConnection
<1>3. CASE ReadFails(c)
  <2>. DEFINE k == [conn[c] EXCEPT !.dst = "raised"]
  <2>1. k \in Connection
    BY <1>0, <1>3 DEF ReadFails, Connection, Direction, Sound
  <2>2. Sound(k)
    BY <1>0, <1>3 DEF ReadFails, Connection, Direction, Sound
  <2> QED
    BY <1>3, <2>1, <2>2, OneConnection DEF ReadFails
<1>4. CASE Send(c)
  <2>. DEFINE k == [conn[c] EXCEPT !.down.put = @ + 1, !.dst = AfterSend(c)]
  <2>1. k \in Connection
    <3>1. conn[c].down.put + 1 \in 0 .. DownChunks
      BY <1>0, <1>4 DEF Send, Connection, Direction, Sound
    <3>2. AfterSend(c) \in {"check", "send"}
      BY DEF AfterSend
    <3> QED
      BY <1>0, <3>1, <3>2 DEF Connection, Direction
  <2>2. Sound(k)
    BY <1>0, <1>4 DEF Send, AfterSend, Connection, Direction, Sound
  <2> QED
    BY <1>4, <2>1, <2>2, OneConnection DEF Send
<1>5. CASE SendFails(c)
  <2>. DEFINE k == [conn[c] EXCEPT !.dst = "raised"]
  <2>1. k \in Connection
    BY <1>0, <1>5 DEF SendFails, Connection, Direction, Sound
  <2>2. Sound(k)
    BY <1>0, <1>5 DEF SendFails, Connection, Direction, Sound
  <2> QED
    BY <1>5, <2>1, <2>2, OneConnection DEF SendFails
<1> QED
  BY <1>1, <1>2, <1>3, <1>4, <1>5 DEF DestStep

LEMMA EndSteps ==
    ASSUME Connections, NEW c \in Client, EndStep(c)
    PROVE  Connections'
<1>0. /\ conn[c] \in Connection /\ Sound(conn[c])
      /\ UpChunks \in Nat /\ DownChunks \in Nat /\ Retries \in Nat \ {0}
  BY ServerAssumption DEF Connections
<1>1. CASE LocalSends(c)
  <2>. DEFINE k == [conn[c] EXCEPT !.up.sent = @ + 1]
  <2>1. k \in Connection
    BY <1>0, <1>1 DEF LocalSends, Connection, Direction, Sound
  <2>2. Sound(k)
    BY <1>0, <1>1 DEF LocalSends, Connection, Direction, Sound
  <2> QED
    BY <1>1, <2>1, <2>2, OneConnection DEF LocalSends
<1>2. CASE RemoteSends(c)
  <2>. DEFINE k == [conn[c] EXCEPT !.down.sent = @ + 1]
  <2>1. k \in Connection
    BY <1>0, <1>2 DEF RemoteSends, Connection, Direction, Sound
  <2>2. Sound(k)
    BY <1>0, <1>2 DEF RemoteSends, Connection, Direction, Sound
  <2> QED
    BY <1>2, <2>1, <2>2, OneConnection DEF RemoteSends
<1>3. CASE RemoteEnds(c)
  <2>. DEFINE k == [conn[c] EXCEPT !.eof = TRUE]
  <2>1. k \in Connection
    BY <1>0, <1>3 DEF RemoteEnds, Connection, Direction, Sound
  <2>2. Sound(k)
    BY <1>0, <1>3 DEF RemoteEnds, Connection, Direction, Sound
  <2> QED
    BY <1>3, <2>1, <2>2, OneConnection DEF RemoteEnds
<1>4. CASE ProxyLost(c)
  <2>. DEFINE k == [conn[c] EXCEPT !.lost = TRUE]
  <2>1. k \in Connection
    BY <1>0, <1>4 DEF ProxyLost, Connection, Direction, Sound
  <2>2. Sound(k)
    BY <1>0, <1>4 DEF ProxyLost, Connection, Direction, Sound
  <2> QED
    BY <1>4, <2>1, <2>2, OneConnection DEF ProxyLost
<1> QED
  BY <1>1, <1>2, <1>3, <1>4 DEF EndStep

LEMMA HangUpStep ==
    ASSUME Connections, NEW c \in Client, NEW lost \in BOOLEAN, HangUp(c, lost)
    PROVE  Connections'
<1>. DEFINE k == [conn[port[c]] EXCEPT !.local = FALSE, !.lost = @ \/ lost]
<1>1. ASSUME port[c] \in Client
      PROVE  k \in Connection /\ Sound(k)
  <2>1. conn[port[c]] \in Connection /\ Sound(conn[port[c]])
    BY <1>1 DEF Connections
  <2>2. (conn[port[c]].lost \/ lost) \in BOOLEAN
    OBVIOUS
  <2>3. k \in Connection
    BY <2>1, <2>2 DEF Connection
  <2>4. Sound(k)
    BY <2>1 DEF Sound, Connection
  <2> QED
    BY <2>3, <2>4
<1> QED
  BY <1>1, OneConnection DEF HangUp

LEMMA ConnectLocalStep ==
    ASSUME Connections, NEW c \in Client, ConnectLocal(c)
    PROVE  Connections'
<1>. DEFINE k == [conn[port[c]] EXCEPT !.pc = "opening", !.local = TRUE]
<1>1. ASSUME port[c] \in Client
      PROVE  k \in Connection /\ Sound(k)
  <2>1. conn[port[c]] \in Connection /\ Sound(conn[port[c]])
    BY <1>1 DEF Connections
  <2>2. k \in Connection
    BY <2>1 DEF Connection
  <2> QED
    BY <2>1, <2>2 DEF Sound, Connection, ConnectLocal
<1> QED
  BY <1>1, OneConnection DEF ConnectLocal

LEMMA ConnectionsInvariant == Spec => []Connections
<1>1. Connections /\ [Next]_vars => Connections'
  <2>. SUFFICES ASSUME Connections, [Next]_vars PROVE Connections'
    OBVIOUS
  <2>1. CASE UNCHANGED conn
    BY <2>1 DEF Connections
  <2>2. ASSUME NEW c \in Client, UserStep(c)
        PROVE  Connections'
    <3>1. CASE ConnectLocal(c)
      BY <3>1, ConnectLocalStep
    <3>2. CASE Disconnect(c)
      BY <3>2, HangUpStep DEF Disconnect
    <3>3. CASE CloseDirect(c)
      BY <3>3, HangUpStep DEF CloseDirect
    <3> QED
      BY <2>1, <2>2, <3>1, <3>2, <3>3
         DEF UserStep, ProxyConnects, ProxyFails, StartForwarder, ForwarderStarted,
             Enqueue, GetPort, KeyMissing, Removed
  <2>3. ASSUME NEW c \in Client, RelayStep(c)
        PROVE  Connections'
    BY <2>3, HandlerSteps, SourceSteps, DestSteps DEF RelayStep
  <2>4. ASSUME NEW c \in Client, EnvironmentStep(c)
        PROVE  Connections'
    BY <2>4, EndSteps DEF EnvironmentStep
  <2>5. CASE ForwarderStep \/ MainStep
    BY <2>1, <2>5 DEF ForwarderStep, MainStep
  <2> QED
    BY <2>1, <2>2, <2>3, <2>4, <2>5 DEF Next, vars
<1> QED
  BY <1>1, ConnectionsInit, PTL DEF Spec

\* A connection that ends without an error has delivered what it read, and all that
\* the far end sent, for any amount of data, however it is cut up and whichever end
\* closes first (_read_forward_sock, _read_channel, _wait_send_receive_lets).
THEOREM NothingDroppedHolds == Spec => []NothingDropped
<1>1. Connections => NothingDropped
  BY DEF Connections, Sound, NothingDropped
<1> QED
  BY <1>1, ConnectionsInvariant, PTL
---------------------------------------------------------------------------
(* Exit of the program.                                                    *)

\* Clients that wait for a port.
Getting == {c \in Client : user[c] = "get"}

\* The thread has died of an exception, or is about to.
Broken == forwarder = "stopping" \/ (forwarder = "dead" /\ main = "running")

One(b) == IF b THEN 1 ELSE 0

\* Requests that are in a queue or at hand, and the one the forwarder has died of.
Owed == One(in_q # <<>>) + One(out_q # <<>>) + One(forwarder = "put") + One(Broken)

TunnelTypes ==
    /\ server \in [Client -> {"none", "listening", "stopped"}]
    /\ user \in [Client -> UserStates] /\ port \in [Client -> Client \union {None}]
    /\ started \in BOOLEAN /\ triggered \in BOOLEAN
    /\ forwarder \in {"new", "begun", "loop", "put", "stopping", "dead"}
    /\ offer \in Client \union {None} /\ (forwarder = "put" => offer \in Client)
    /\ cleanup \in Client \union {"idle", "dead"}
    /\ in_q \in {<<>>} \union {<<c>> : c \in Client}
    /\ out_q \in {<<>>} \union {<<c>> : c \in Client}
    /\ servers \subseteq Client
    /\ main \in {"running", "stopping", "joining", "ended", "raised"}
    /\ iter.left \subseteq Client /\ iter.size \in 0 .. Cardinality(Client)

\* A client asks for a port once, and is not done with its server before that is started.
AskedOnce ==
    \A c \in Client :
        /\ user[c] \in {"idle", "start", "wait", "enqueue"} => c \notin servers /\ in_q # <<c>>
        /\ in_q = <<c>> => c \notin servers /\ cleanup # c /\ user[c] # "stopping"
        /\ user[c] = "stopping" => server[c] # "listening"
        /\ cleanup = c => user[c] = "gone" /\ server[c] # "listening"

\* When the program exits no request is left.
ExitsAtRest == main # "running" => \A c \in Client : user[c] \in AtRest

ToldAtExit == triggered => forwarder = "dead" \/ main \in {"joining", "ended"}

\* What listens is in _servers, then in the iteration of shutdown, and then there is none.
Reached ==
    \A c \in Client : server[c] = "listening" =>
        /\ main = "running" /\ ~Broken => c \in servers
        /\ main = "stopping" => c \in iter.left
        /\ main \notin {"joining", "ended"}

Shutdown ==
    /\ TunnelTypes /\ Owed <= Cardinality(Getting)
    /\ AskedOnce /\ ExitsAtRest /\ ToldAtExit /\ Reached

\* The clients that wait for a port can be counted.
LEMMA GettingFinite ==
    IsFiniteSet(Getting) /\ Cardinality(Getting) \in Nat
<1>1. IsFiniteSet(Client) /\ Getting \subseteq Client
  BY TunnelAssumption DEF Getting
<1> QED
  BY <1>1, FS_Subset, FS_CardinalityType

\* Steps of a client that neither asks for a port nor gets one.
LEMMA QuietUserStep ==
    ASSUME Shutdown, NEW c \in Client, main = "running",
           NEW state \in UserStates, user' = [user EXCEPT ![c] = state],
           user[c] \notin {"get", "gone"}, state # "get",
           state \in {"idle", "start", "wait", "enqueue"} =>
               user[c] \in {"idle", "start", "wait", "enqueue"},
           UNCHANGED <<port, started, offer, cleanup, in_q, out_q, triggered, main, iter>>,
           forwarder' = forwarder \/ (forwarder = "new" /\ forwarder' = "begun"),
           servers' = servers \/ (servers' = servers \ {c} /\ user[c] = "stopping"),
           \/ server' = server /\ state # "stopping"
           \/ server' = [server EXCEPT ![c] = "stopped"] /\ c \in servers
    PROVE  Shutdown'
<1>1. /\ TunnelTypes /\ Owed <= Cardinality(Getting) /\ AskedOnce /\ ToldAtExit /\ Reached
      /\ server \in [Client -> {"none", "listening", "stopped"}]
      /\ user \in [Client -> UserStates]
  BY DEF Shutdown, TunnelTypes
<1>2. \A d \in Client : user'[d] = IF d = c THEN state ELSE user[d]
  BY <1>1
<1>3. \A d \in Client : server'[d] = server[d] \/ (d = c /\ server'[d] = "stopped")
  BY <1>1
<1>4. TunnelTypes'
  BY <1>1 DEF TunnelTypes
<1>5. Getting' = Getting
  BY <1>2 DEF Getting
<1>6. Owed' = Owed
  BY DEF Owed, One, Broken
<1>7. AskedOnce'
  <2> SUFFICES ASSUME NEW d \in Client
               PROVE  /\ user'[d] \in {"idle", "start", "wait", "enqueue"} =>
                             d \notin servers' /\ in_q # <<d>>
                      /\ in_q = <<d>> => d \notin servers' /\ cleanup # d /\ user'[d] # "stopping"
                      /\ user'[d] = "stopping" => server'[d] # "listening"
                      /\ cleanup = d => user'[d] = "gone" /\ server'[d] # "listening"
    BY DEF AskedOnce
  <2>1. servers' \subseteq servers
    OBVIOUS
  <2>2. CASE d = c
    BY <1>1, <1>2, <1>3, <2>1, <2>2 DEF AskedOnce
  <2>3. CASE d # c
    BY <1>1, <1>2, <1>3, <2>1, <2>3 DEF AskedOnce
  <2> QED
    BY <2>2, <2>3
<1>8. ExitsAtRest' /\ ToldAtExit'
  BY <1>1 DEF ExitsAtRest, ToldAtExit
<1>9. Reached'
  BY <1>1, <1>3 DEF Reached, Broken, AskedOnce
<1> QED
  BY <1>1, <1>4, <1>5, <1>6, <1>7, <1>8, <1>9 DEF Shutdown

\* One more client waits, and one more request is owed an answer.
LEMMA EnqueueShutdown ==
    ASSUME Shutdown, NEW c \in Client, main = "running", Enqueue(c),
           UNCHANGED <<offer, cleanup, triggered, main, iter>>
    PROVE  Shutdown'
<1>1. /\ TunnelTypes /\ Owed <= Cardinality(Getting) /\ AskedOnce /\ ToldAtExit /\ Reached
      /\ user \in [Client -> UserStates]
      /\ user[c] = "enqueue" /\ in_q = <<>> /\ in_q' = <<c>> /\ user' = [user EXCEPT ![c] = "get"]
      /\ UNCHANGED <<server, port, started, forwarder, out_q, servers>>
  BY DEF Shutdown, TunnelTypes, Enqueue, Goes
<1>2. \A d \in Client : user'[d] = IF d = c THEN "get" ELSE user[d]
  BY <1>1
<1>3. <<c>> # <<>> /\ \A d \in Client : <<c>> = <<d>> => c = d
  BY Queues
<1>4. TunnelTypes'
  BY <1>1 DEF TunnelTypes
<1>5. Cardinality(Getting') = Cardinality(Getting) + 1
  <2>1. Getting' = Getting \union {c} /\ c \notin Getting
    BY <1>1, <1>2 DEF Getting
  <2> QED
    BY <2>1, GettingFinite, FS_AddElement
<1>6. Owed' = Owed + 1
  BY <1>1, <1>3 DEF Owed, One, Broken
<1>7. Owed \in Nat
  BY DEF Owed, One
<1>8. AskedOnce'
  BY <1>1, <1>2, <1>3 DEF AskedOnce
<1>9. ExitsAtRest' /\ ToldAtExit' /\ Reached'
  BY <1>1 DEF ExitsAtRest, ToldAtExit, Reached, Broken
<1> QED
  BY <1>1, <1>4, <1>5, <1>6, <1>7, <1>8, <1>9, GettingFinite DEF Shutdown

\* A client takes a port, though it may be another's: one waits less, one is owed less.
LEMMA GetPortShutdown ==
    ASSUME Shutdown, NEW c \in Client, main = "running", GetPort(c),
           UNCHANGED <<offer, cleanup, triggered, main, iter>>
    PROVE  Shutdown'
<1>1. /\ TunnelTypes /\ Owed <= Cardinality(Getting) /\ AskedOnce /\ ToldAtExit /\ Reached
      /\ user \in [Client -> UserStates]
      /\ user[c] = "get" /\ out_q # <<>> /\ out_q' = <<>>
      /\ user' = [user EXCEPT ![c] = "port"] /\ port' = [port EXCEPT ![c] = Head(out_q)]
      /\ UNCHANGED <<server, started, forwarder, in_q, servers>>
  BY DEF Shutdown, TunnelTypes, GetPort, Goes
<1>2. \A d \in Client : user'[d] = IF d = c THEN "port" ELSE user[d]
  BY <1>1
<1>3. TunnelTypes'
  <2>1. Head(out_q) \in Client
    BY <1>1, Queues DEF TunnelTypes
  <2> QED
    BY <1>1, <2>1 DEF TunnelTypes
<1>4. Cardinality(Getting') = Cardinality(Getting) - 1
  <2>1. Getting' = Getting \ {c} /\ c \in Getting
    BY <1>1, <1>2 DEF Getting
  <2> QED
    BY <2>1, GettingFinite, FS_RemoveElement
<1>5. Owed' = Owed - 1 /\ Owed \in Nat
  BY <1>1 DEF Owed, One, Broken
<1>6. AskedOnce'
  BY <1>1, <1>2 DEF AskedOnce
<1>7. ExitsAtRest' /\ ToldAtExit' /\ Reached'
  BY <1>1 DEF ExitsAtRest, ToldAtExit, Reached, Broken
<1> QED
  BY <1>1, <1>3, <1>4, <1>5, <1>6, <1>7, GettingFinite DEF Shutdown

\* Every step of a client.
LEMMA UserStepsShutdown ==
    ASSUME Shutdown, NEW c \in Client, UserStep(c)
    PROVE  Shutdown'
<1>1. /\ main = "running" /\ UNCHANGED <<offer, cleanup, triggered, main, iter>>
  BY DEF UserStep
<1>2. CASE ProxyConnects(c)
  BY <1>1, <1>2, QuietUserStep DEF ProxyConnects, Goes
<1>3. CASE ProxyFails(c)
  BY <1>1, <1>3, QuietUserStep DEF ProxyFails, Goes
<1>4. CASE StartForwarder(c)
  BY <1>1, <1>4, QuietUserStep DEF StartForwarder, Goes
<1>5. CASE ForwarderStarted(c)
  BY <1>1, <1>5, QuietUserStep DEF ForwarderStarted, Goes
<1>6. CASE KeyMissing(c)
  BY <1>1, <1>6, QuietUserStep DEF KeyMissing, Goes
<1>7. CASE ConnectLocal(c)
  BY <1>1, <1>7, QuietUserStep DEF ConnectLocal, Goes
<1>8. CASE Disconnect(c)
  BY <1>1, <1>8, QuietUserStep DEF Disconnect, Goes, StopsServer
<1>9. CASE Removed(c)
  BY <1>1, <1>9, QuietUserStep DEF Removed, Goes
<1>10. CASE CloseDirect(c)
  BY <1>1, <1>10, QuietUserStep DEF CloseDirect, Goes
<1> QED
  BY <1>1, <1>2, <1>3, <1>4, <1>5, <1>6, <1>7, <1>8, <1>9, <1>10,
     EnqueueShutdown, GetPortShutdown DEF UserStep

\* Once a client waits, or the forwarder has died over its request, the program does not exit.
LEMMA OwedMeansRunning ==
    ASSUME Shutdown, in_q # <<>> \/ forwarder \in {"put", "stopping"}
    PROVE  main = "running"
<1>1. Owed > 0
  BY DEF Owed, One, Broken
<1>2. Owed \in Nat /\ Owed <= Cardinality(Getting) /\ Cardinality(Getting) \in Nat
  BY GettingFinite DEF Owed, One, Shutdown
<1>3. Cardinality(Getting) # 0
  BY <1>1, <1>2
<1>4. Getting # {}
  BY <1>3, FS_EmptySet
<1>5. \E c \in Client : user[c] = "get"
  BY <1>4 DEF Getting
<1> QED
  BY <1>5 DEF Shutdown, ExitsAtRest, AtRest

\* At rest nothing is owed.
LEMMA AtRestNothingOwed ==
    ASSUME Shutdown, \A c \in Client : user[c] \in AtRest
    PROVE  Owed = 0
<1>1. Getting = {}
  BY DEF Getting, AtRest
<1>2. Cardinality(Getting) = 0
  BY <1>1, FS_EmptySet
<1>3. Owed \in Nat
  BY DEF Owed, One
<1> QED
  BY <1>2, <1>3 DEF Shutdown

\* shutdown stops a server and is done with it.
LEMMA StoppedNext ==
    ASSUME Shutdown, StopNext
    PROVE  /\ server' \in [Client -> {"none", "listening", "stopped"}]
           /\ iter'.left \subseteq iter.left /\ iter'.size = iter.size
           /\ \A d \in Client : /\ server'[d] = "listening" => server[d] = "listening"
                                /\ server'[d] = "listening" /\ d \in iter.left => d \in iter'.left
<1>1. PICK c \in iter.left : /\ server' = [server EXCEPT ![c] = "stopped"]
                             /\ iter' = [iter EXCEPT !.left = @ \ {c}]
  BY DEF StopNext, StopsServer
<1>2. TunnelTypes
  BY DEF Shutdown
<1>3. iter'.left = iter.left \ {c} /\ iter'.size = iter.size
  BY <1>1, <1>2
<1> QED
  BY <1>1, <1>2, <1>3 DEF TunnelTypes

\* No dictionary has more servers than there are clients.
LEMMA SizeInBounds ==
    ASSUME NEW S \in SUBSET Client
    PROVE  Cardinality(S) \in 0 .. Cardinality(Client)
<1>1. Cardinality(S) <= Cardinality(Client)
  BY TunnelAssumption, FS_Subset
<1>2. IsFiniteSet(S)
  BY TunnelAssumption, FS_Subset
<1>3. Cardinality(S) \in Nat /\ Cardinality(Client) \in Nat
  BY <1>2, TunnelAssumption, FS_CardinalityType
<1> QED
  BY <1>1, <1>3

\* Every step of the forwarder thread's two loops.
LEMMA ForwarderStepsShutdown ==
    ASSUME Shutdown, ForwarderStep
    PROVE  Shutdown'
<1>1. /\ TunnelTypes /\ Owed <= Cardinality(Getting) /\ AskedOnce /\ ExitsAtRest /\ ToldAtExit
      /\ Reached /\ UNCHANGED <<user, port, main>>
  BY DEF Shutdown, ForwarderStep
<1>2. Getting' = Getting /\ ExitsAtRest'
  BY <1>1 DEF Getting, ExitsAtRest
<1>3. CASE ThreadStarts
  <2>1. Owed' = Owed
    BY <1>1, <1>3 DEF ThreadStarts, Owed, One, Broken
  <2> QED
    BY <1>1, <1>2, <1>3, <2>1
       DEF Shutdown, ThreadStarts, TunnelTypes, AskedOnce, ToldAtExit, Reached, Broken
<1>4. ASSUME NEW c \in Client, in_q = <<c>>, ServerStarts
      PROVE  Shutdown'
  <2>1. /\ forwarder = "loop" /\ in_q' = <<>> /\ servers' = servers \union {c}
        /\ server' = [server EXCEPT ![c] = "listening"]
        /\ offer' = c /\ forwarder' = "put"
        /\ UNCHANGED <<started, cleanup, out_q, triggered, iter>>
        /\ ~triggered /\ in_q # <<>>
    BY <1>4, Queues DEF ServerStarts
  <2>2. main = "running"
    BY <2>1, OwedMeansRunning
  <2>3. Owed' = Owed
    BY <1>1, <2>1, <2>2 DEF Owed, One, Broken
  <2>4. TunnelTypes'
    BY <1>1, <2>1 DEF TunnelTypes
  <2>5. AskedOnce'
    BY <1>1, <1>4, <2>1 DEF AskedOnce, TunnelTypes
  <2>6. Reached'
    BY <1>1, <2>1, <2>2 DEF Reached, Broken, TunnelTypes
  <2> QED
    BY <1>1, <1>2, <2>1, <2>2, <2>3, <2>4, <2>5, <2>6 DEF Shutdown, ToldAtExit
<1>5. ASSUME NEW c \in Client, in_q = <<c>>, StartFails
      PROVE  Shutdown'
  <2>1. /\ forwarder = "loop" /\ in_q' = <<>> /\ servers' = servers \union {c}
        /\ forwarder' = "stopping"
        /\ iter' = [left |-> servers', size |-> Cardinality(servers')]
        /\ UNCHANGED <<server, started, offer, cleanup, out_q, triggered>>
        /\ ~triggered /\ in_q # <<>>
    BY <1>5, Queues DEF StartFails
  <2>2. main = "running"
    BY <2>1, OwedMeansRunning
  <2>3. Owed' = Owed
    BY <1>1, <2>1, <2>2 DEF Owed, One, Broken
  <2>4. TunnelTypes'
    <3>1. servers' \in SUBSET Client
      BY <1>1, <2>1 DEF TunnelTypes
    <3>2. iter'.left = servers' /\ iter'.size \in 0 .. Cardinality(Client)
      BY <2>1, <3>1, SizeInBounds
    <3> QED
      BY <1>1, <2>1, <3>1, <3>2 DEF TunnelTypes
  <2>5. AskedOnce'
    BY <1>1, <1>5, <2>1 DEF AskedOnce
  <2>6. Reached'
    BY <1>1, <2>1, <2>2 DEF Reached, Broken
  <2> QED
    BY <1>1, <1>2, <2>1, <2>2, <2>3, <2>4, <2>5, <2>6 DEF Shutdown, ToldAtExit
<1>6. CASE PutPort
  <2>1. /\ forwarder = "put" /\ out_q = <<>> /\ out_q' = <<offer>> /\ forwarder' = "loop"
        /\ offer' = None
        /\ UNCHANGED <<server, started, cleanup, in_q, servers, triggered, iter>>
    BY <1>6 DEF PutPort
  <2>2. Owed' = Owed
    BY <1>1, <2>1, Queues DEF Owed, One, Broken
  <2>3. main = "running"
    BY <2>1, OwedMeansRunning
  <2>4. TunnelTypes'
    BY <1>1, <2>1 DEF TunnelTypes
  <2> QED
    BY <1>1, <1>2, <2>1, <2>2, <2>3, <2>4
       DEF Shutdown, AskedOnce, ToldAtExit, Reached, Broken
<1>7. CASE ReturnsOnShutdown
  <2>1. /\ forwarder = "loop" /\ triggered /\ forwarder' = "dead"
        /\ UNCHANGED <<server, started, offer, cleanup, in_q, out_q, servers, triggered, iter>>
    BY <1>7 DEF ReturnsOnShutdown
  <2>2. main \in {"joining", "ended"}
    BY <1>1, <2>1 DEF ToldAtExit
  <2>3. Owed' = Owed
    BY <1>1, <2>1, <2>2 DEF Owed, One, Broken
  <2>4. TunnelTypes'
    BY <1>1, <2>1 DEF TunnelTypes
  <2> QED
    BY <1>1, <1>2, <2>1, <2>2, <2>3, <2>4
       DEF Shutdown, AskedOnce, ToldAtExit, Reached, Broken
<1>8. CASE StopsOwnServers
  <2>1. /\ forwarder = "stopping" /\ StopNext
        /\ UNCHANGED <<started, forwarder, offer, cleanup, in_q, out_q, servers, triggered>>
    BY <1>8 DEF StopsOwnServers
  <2>2. main = "running"
    BY <2>1, OwedMeansRunning
  <2>3. Owed' = Owed
    BY <1>1, <2>1 DEF Owed, One, Broken
  <2>4. TunnelTypes'
    BY <1>1, <2>1, StoppedNext DEF TunnelTypes
  <2>5. \A d \in Client : server'[d] = "listening" => server[d] = "listening"
    BY <2>1, StoppedNext
  <2>6. AskedOnce'
    BY <1>1, <2>1, <2>5 DEF AskedOnce
  <2>7. Reached'
    BY <1>1, <2>1, <2>2 DEF Reached, Broken
  <2> QED
    BY <1>1, <1>2, <2>1, <2>2, <2>3, <2>4, <2>6, <2>7 DEF Shutdown, ToldAtExit
<1>9. CASE DiesOfException
  <2>1. /\ forwarder = "stopping" /\ forwarder' = "dead"
        /\ servers' \in {servers, {}} /\ triggered' \in {triggered, TRUE}
        /\ UNCHANGED <<server, started, offer, cleanup, in_q, out_q, iter>>
    BY <1>9 DEF DiesOfException
  <2>2. main = "running"
    BY <2>1, OwedMeansRunning
  <2>3. Owed' = Owed
    BY <1>1, <2>1, <2>2 DEF Owed, One, Broken
  <2>4. TunnelTypes'
    BY <1>1, <2>1 DEF TunnelTypes
  <2>5. AskedOnce'
    BY <1>1, <2>1 DEF AskedOnce
  <2>6. Reached'
    BY <1>1, <2>1, <2>2 DEF Reached, Broken
  <2> QED
    BY <1>1, <1>2, <2>1, <2>3, <2>4, <2>5, <2>6 DEF Shutdown, ToldAtExit
<1>10. ASSUME NEW c \in Client, CleanupFinds(c)
       PROVE  Shutdown'
  <2>1. /\ c \in servers /\ user[c] = "gone" /\ server' = [server EXCEPT ![c] = "stopped"]
        /\ cleanup' = c
        /\ UNCHANGED <<started, forwarder, offer, in_q, out_q, servers, triggered, iter>>
    BY <1>10 DEF CleanupFinds, StopsServer
  <2>2. \A d \in Client : /\ server'[d] = "listening" => server[d] = "listening"
                          /\ server'[c] = "stopped"
    BY <1>1, <2>1 DEF TunnelTypes
  <2>3. Owed' = Owed
    BY <1>1, <2>1 DEF Owed, One, Broken
  <2>4. TunnelTypes'
    BY <1>1, <2>1 DEF TunnelTypes
  <2>5. AskedOnce'
    BY <1>1, <2>1, <2>2 DEF AskedOnce
  <2>6. Reached'
    BY <1>1, <2>1, <2>2 DEF Reached, Broken
  <2> QED
    BY <1>1, <1>2, <2>1, <2>3, <2>4, <2>5, <2>6 DEF Shutdown, ToldAtExit
<1>11. ASSUME NEW c \in Client, CleanupRemoves(c)
       PROVE  Shutdown'
  <2>1. /\ cleanup = c /\ servers' = servers \ {c} /\ cleanup' \in {"idle", "dead"}
        /\ UNCHANGED <<server, started, forwarder, offer, in_q, out_q, triggered, iter>>
    BY <1>11 DEF CleanupRemoves
  <2>2. Owed' = Owed
    BY <1>1, <2>1 DEF Owed, One, Broken
  <2>3. TunnelTypes'
    BY <1>1, <2>1 DEF TunnelTypes
  <2>4. AskedOnce'
    BY <1>1, <2>1, TunnelAssumption DEF AskedOnce
  <2>5. Reached'
    BY <1>1, <2>1 DEF Reached, Broken, AskedOnce
  <2> QED
    BY <1>1, <1>2, <2>1, <2>2, <2>3, <2>4, <2>5 DEF Shutdown, ToldAtExit
<1>12. ServerStarts \/ StartFails => \E c \in Client : in_q = <<c>>
  BY <1>1 DEF TunnelTypes, ServerStarts, StartFails
<1> QED
  BY <1>3, <1>4, <1>5, <1>6, <1>7, <1>8, <1>9, <1>10, <1>11, <1>12 DEF ForwarderStep

\* Every step of the program's exit.
LEMMA MainStepsShutdown ==
    ASSUME Shutdown, MainStep
    PROVE  Shutdown'
<1>1. /\ TunnelTypes /\ Owed <= Cardinality(Getting) /\ AskedOnce /\ ExitsAtRest /\ ToldAtExit
      /\ Reached
      /\ UNCHANGED <<user, port, started, forwarder, offer, cleanup, in_q, out_q>>
  BY DEF Shutdown, MainStep
<1>2. Getting' = Getting
  BY <1>1 DEF Getting
<1>3. \A c \in Client : user[c] \in AtRest
  BY <1>1 DEF MainStep, ExitBegins, StopsServers, ServersStopped, IterationRaises, ExitEnds,
              ExitsAtRest
<1>4. Owed = 0 /\ in_q = <<>> /\ out_q = <<>> /\ forwarder # "put" /\ ~Broken
  BY <1>3, AtRestNothingOwed DEF Owed, One
<1>5. main' # "running"
  BY DEF MainStep, ExitBegins, StopsServers, ServersStopped, IterationRaises, ExitEnds
<1>6. Owed' = 0
  BY <1>1, <1>4, <1>5 DEF Owed, One, Broken
<1>7. ExitsAtRest' /\ Owed' <= Cardinality(Getting')
  BY <1>1, <1>2, <1>3, <1>6, GettingFinite DEF ExitsAtRest
<1>8. CASE ExitBegins
  <2>1. /\ main = "running" /\ main' = "stopping"
        /\ iter' = [left |-> servers, size |-> Cardinality(servers)]
        /\ UNCHANGED <<server, servers, triggered>>
    BY <1>8 DEF ExitBegins, Iteration
  <2>2. TunnelTypes'
    <3>1. iter'.left = servers /\ iter'.size \in 0 .. Cardinality(Client)
      BY <1>1, <2>1, SizeInBounds DEF TunnelTypes
    <3> QED
      BY <1>1, <2>1, <3>1 DEF TunnelTypes
  <2>3. AskedOnce'
    BY <1>1, <2>1 DEF AskedOnce
  <2>4. ToldAtExit'
    BY <1>1, <2>1 DEF ToldAtExit
  <2>5. Reached'
    BY <1>1, <1>4, <2>1 DEF Reached
  <2> QED
    BY <1>7, <2>2, <2>3, <2>4, <2>5 DEF Shutdown
<1>9. CASE StopsServers
  <2>1. main = "stopping" /\ StopNext /\ UNCHANGED <<main, servers, triggered>>
    BY <1>9 DEF StopsServers
  <2>2. TunnelTypes'
    BY <1>1, <2>1, StoppedNext DEF TunnelTypes
  <2>3. AskedOnce' /\ Reached'
    BY <1>1, <2>1, StoppedNext DEF AskedOnce, Reached
  <2> QED
    BY <1>1, <1>7, <2>1, <2>2, <2>3 DEF Shutdown, ToldAtExit
<1>10. CASE ServersStopped
  <2>1. /\ main = "stopping" /\ iter.left = {} /\ servers' = {} /\ triggered' = TRUE
        /\ main' = "joining" /\ UNCHANGED <<server, iter>>
    BY <1>10 DEF ServersStopped
  <2>2. TunnelTypes'
    BY <1>1, <2>1 DEF TunnelTypes
  <2>3. AskedOnce' /\ Reached' /\ ToldAtExit'
    BY <1>1, <2>1 DEF AskedOnce, Reached, ToldAtExit
  <2> QED
    BY <1>7, <2>2, <2>3 DEF Shutdown
<1>11. CASE IterationRaises \/ ExitEnds
  <2>1. /\ \/ main = "stopping" /\ main' = "raised"
           \/ main = "joining" /\ main' = "ended"
        /\ UNCHANGED <<server, servers, triggered, iter>>
    BY <1>11 DEF IterationRaises, ExitEnds
  <2>2. forwarder = "dead" \/ main' = "ended" \/ ~triggered
    BY <1>1, <2>1 DEF ToldAtExit
  <2>3. TunnelTypes'
    BY <1>1, <2>1 DEF TunnelTypes
  <2>4. AskedOnce' /\ Reached' /\ ToldAtExit'
    BY <1>1, <2>1, <2>2 DEF AskedOnce, Reached, ToldAtExit
  <2> QED
    BY <1>7, <2>3, <2>4 DEF Shutdown
<1> QED
  BY <1>8, <1>9, <1>10, <1>11 DEF MainStep

\* Nothing is asked for and nothing listens.
LEMMA ShutdownInit == Init => Shutdown
<1> SUFFICES ASSUME Init PROVE Shutdown
  OBVIOUS
<1>1. TunnelTypes
  <2>1. Cardinality(Client) \in Nat
    BY TunnelAssumption, FS_CardinalityType
  <2>2. iter.left \subseteq Client /\ iter.size \in 0 .. Cardinality(Client)
    BY <2>1 DEF Init
  <2> QED
    BY <2>2, TunnelAssumption DEF TunnelTypes, Init, ServerInit
<1>2. Owed = 0
  BY DEF Init, Owed, One, Broken
<1>3. Owed <= Cardinality(Getting)
  BY <1>2, GettingFinite
<1>4. AskedOnce
  BY TunnelAssumption DEF AskedOnce, Init, ServerInit
<1>5. ExitsAtRest /\ ToldAtExit /\ Reached
  BY DEF ExitsAtRest, ToldAtExit, Reached, Init, ServerInit
<1> QED
  BY <1>1, <1>3, <1>4, <1>5 DEF Shutdown

\* The invariant holds whatever the threads.
LEMMA ShutdownInvariant == Spec => []Shutdown
<1>1. Shutdown /\ [Next]_vars => Shutdown'
  <2>. SUFFICES ASSUME Shutdown, [Next]_vars PROVE Shutdown'
    OBVIOUS
  <2>1. CASE UNCHANGED <<server, control>>
    BY <2>1 DEF control, Shutdown, TunnelTypes, Owed, One, Broken, Getting, AskedOnce,
                ExitsAtRest, ToldAtExit, Reached
  <2>2. CASE \E c \in Client : UserStep(c)
    BY <2>2, UserStepsShutdown
  <2>3. CASE ForwarderStep
    BY <2>3, ForwarderStepsShutdown
  <2>4. CASE MainStep
    BY <2>4, MainStepsShutdown
  <2> QED
    BY <2>1, <2>2, <2>3, <2>4 DEF Next, vars, RelayStep, EnvironmentStep
<1> QED
  BY <1>1, ShutdownInit, PTL DEF Spec

\* For any clients in any threads: the types of the tunnel's state, and that once the
\* program's exit is through with shutdown no server listens, however servers are started
\* and cleaned up until then (LocalForwarder.shutdown, _cleanup_servers_let).
THEOREM TunnelInvariance == Spec => []Inv
<1>1. Shutdown /\ Connections => Inv
  <2> SUFFICES ASSUME Shutdown, Connections PROVE Inv
    OBVIOUS
  <2>1. TypeOK
    BY DEF Shutdown, TunnelTypes, Connections, TypeOK, ServerTypeOK
  <2>2. NothingListensAfterExit
    BY DEF Shutdown, Reached, NothingListensAfterExit
  <2> QED
    BY <2>1, <2>2 DEF Inv
<1> QED
  BY <1>1, ShutdownInvariant, ConnectionsInvariant, PTL
=============================================================================
