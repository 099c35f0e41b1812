----------------------- MODULE ParallelClientProofs -----------------------
(***************************************************************************)
(* For any hosts, host lists, pool size and number of calls: the client    *)
(* cache holds clients of listed hosts only, as long as hosts are assigned *)
(* while no greenlet runs, every greenlet uses the connection of its own   *)
(* host, and what a call returns is for its hosts, one each, in order.     *)
(***************************************************************************)
EXTENDS ParallelClient, TLAPS, SequenceTheorems, FiniteSetTheorems

\* A cache key that the host list has.
Listed(k) == k[1] \in DOMAIN hosts /\ hosts[k[1]] = k[2]

CacheTypes ==
    /\ hosts \in Seq(Host) /\ tasks \in Seq(Task) /\ clients \in Seq(Key)
    /\ call \in Call /\ cmds \in Seq(Nat) /\ raced \in BOOLEAN
    /\ call.pc = "spawning" => call.kind \in Kinds

\* The cache and the greenlets refer to clients made for their own key.
OwnClients ==
    /\ \A k \in DOMAIN host_clients :
          host_clients[k] \in 1 .. Len(clients) /\ clients[host_clients[k]] = k
    /\ \A t \in 1 .. Len(tasks) :
          tasks[t].client # 0 =>
              /\ tasks[t].client \in 1 .. Len(clients)
              /\ clients[tasks[t].client] = tasks[t].key

\* Why the cache follows the host list: what runs will only store listed keys.
ListedKeys ==
    ~raced => /\ \A k \in DOMAIN host_clients : Listed(k)
              /\ \A t \in 1 .. Len(tasks) :
                    ~(tasks[t].pc \in {"done", "failed"}) => Listed(tasks[t].key)

CacheInv == CacheTypes /\ OwnClients /\ ListedKeys

LEMMA InitCacheInv == Init => CacheInv
<1> SUFFICES ASSUME Init PROVE CacheInv
  OBVIOUS
<1>1. CacheTypes
  <2>1. tasks \in Seq(Task) /\ clients \in Seq(Key)
    BY EmptySeq DEF Init
  <2>2. hosts \in Seq(Host) /\ raced \in BOOLEAN
    BY ClientAssumption DEF Init
  <2>3. call \in Call /\ cmds \in Seq(Nat) /\ call.pc = "idle"
    BY EmptySeq DEF Init, Idle, Call, CallKinds, Kinds
  <2> QED
    BY <2>1, <2>2, <2>3 DEF CacheTypes
<1>2. Len(tasks) = 0 /\ DOMAIN host_clients = {}
  BY EmptySeq, SMT DEF Init
<1>3. OwnClients /\ ListedKeys
  BY <1>2 DEF OwnClients, ListedKeys
<1> QED
  BY <1>1, <1>3 DEF CacheInv

\* What the user greenlet may do to its call without touching the rest.
LEMMA CacheUntouched ==
    ASSUME CacheInv, UNCHANGED <<hosts, host_clients, clients, tasks, raced>>,
           call' \in Call, cmds' \in Seq(Nat), call'.pc = "spawning" => call'.kind \in Kinds
    PROVE  CacheInv'
  BY DEF CacheInv, CacheTypes, OwnClients, ListedKeys, Listed

\* The calls that spawn, and get_last_output, only begin here.
LEMMA BeginPreserves ==
    ASSUME CacheInv, \/ \E stop \in BOOLEAN, nargs \in 1 .. Len(hosts) : RunCommand(stop, nargs)
                     \/ \E nargs \in 0 .. Len(hosts) : CopyFiles(nargs)
                     \/ OpenShell \/ ConnectAuth \/ GetLastOutput
    PROVE  CacheInv'
<1>1. CacheTypes /\ Len(hosts) \in Nat
  BY LenProperties DEF CacheInv, CacheTypes
<1>2. Idle \in Call
  BY EmptySeq DEF Idle, Call, CallKinds, Kinds
<1>3. UNCHANGED <<hosts, host_clients, clients, tasks, cmds, raced>>
  BY DEF RunCommand, CopyFiles, OpenShell, ConnectAuth, GetLastOutput, Begin
<1>4. call' \in Call /\ (call'.pc = "spawning" => call'.kind \in Kinds)
  <2>1. ASSUME NEW stop \in BOOLEAN, NEW nargs \in 1 .. Len(hosts), RunCommand(stop, nargs)
        PROVE  call' \in Call /\ (call'.pc = "spawning" => call'.kind \in Kinds)
    <3>1. call' = [Idle EXCEPT !.pc = "spawning", !.stop = stop, !.nargs = nargs]
      BY <2>1 DEF RunCommand, Begin
    <3>2. nargs \in Nat
      BY <1>1
    <3> QED
      BY <1>2, <3>1, <3>2 DEF Call, Idle, Kinds
  <2>2. CASE OpenShell \/ ConnectAuth
    <3>1. \E kind \in {"shell", "connect"}, stop \in BOOLEAN :
             call' = [Idle EXCEPT !.pc = "spawning", !.kind = kind, !.stop = stop,
                                  !.nargs = Len(hosts)]
      BY <2>2 DEF OpenShell, ConnectAuth, Begin, Idle
    <3> QED
      BY <1>1, <1>2, <3>1 DEF Call, CallKinds, Kinds
  <2>3. CASE GetLastOutput
    BY <1>1, <1>2, <2>3 DEF GetLastOutput, Begin, Call, Idle, CallKinds, Kinds, CacheTypes
  <2>4. ASSUME NEW nargs \in 0 .. Len(hosts), CopyFiles(nargs)
        PROVE  call' \in Call /\ (call'.pc = "spawning" => call'.kind \in Kinds)
    <3>1. call' = [Idle EXCEPT !.pc = "spawning", !.kind = "copy", !.nargs = nargs]
      BY <2>4 DEF CopyFiles, Begin
    <3>2. nargs \in Nat
      BY <1>1
    <3> QED
      BY <1>2, <3>1, <3>2 DEF Call, CallKinds, Kinds
  <2> QED
    BY <2>1, <2>2, <2>3, <2>4
<1> QED
  BY <1>1, <1>3, <1>4, CacheUntouched DEF CacheTypes

\* The steps of a call that only wait and reply.
LEMMA WaitPreserves ==
    ASSUME CacheInv, \/ Block \/ HostArgsShort \/ AllSpawned \/ Joined
                     \/ GettersStart \/ RaiseFailure \/ Return
    PROVE  CacheInv'
<1>1. CacheTypes
  BY DEF CacheInv
<1>2. Idle \in Call /\ Idle.pc = "idle"
  BY EmptySeq DEF Idle, Call, CallKinds, Kinds
<1>3. UNCHANGED <<hosts, host_clients, clients, tasks, raced>>
  BY DEF Block, HostArgsShort, AllSpawned, Joined, GettersStart, RaiseFailure, Return
<1>4. cmds' \in Seq(Nat)
  BY <1>1 DEF Block, HostArgsShort, AllSpawned, Joined, GettersStart, RaiseFailure, Return,
              CacheTypes, Call
<1>5. call' \in Call /\ (call'.pc = "spawning" => call'.kind \in Kinds)
  <2>1. CASE HostArgsShort \/ RaiseFailure \/ Return
    BY <1>2, <2>1 DEF HostArgsShort, RaiseFailure, Return, Reply
  <2>2. CASE AllSpawned
    <3>1. call.kind \in Kinds
      BY <1>1, <2>2 DEF AllSpawned, CacheTypes
    <3>2. \/ call' = Idle
          \/ call' = [call EXCEPT !.pc = "joining"]
          \/ call' = [call EXCEPT !.pc = "getting"]
      BY <2>2, <3>1 DEF AllSpawned, Reply, Kinds
    <3> QED
      BY <1>1, <1>2, <3>1, <3>2 DEF CacheTypes, Call
  <2>3. CASE Joined
    <3>1. AllFinished \in BOOLEAN
      BY DEF AllFinished
    <3> QED
      BY <1>1, <2>3, <3>1 DEF Joined, CacheTypes, Call
  <2>4. CASE GettersStart
    BY <1>1, <2>4 DEF GettersStart, CacheTypes, Call
  <2>5. CASE Block
    BY <1>1, <2>5 DEF Block, CacheTypes, Call
  <2> QED
    BY <2>1, <2>2, <2>3, <2>4, <2>5
<1> QED
  BY <1>3, <1>4, <1>5, CacheUntouched

\* pool.spawn adds a greenlet for a listed host, without a client.
LEMMA SpawnPreserves ==
    ASSUME CacheInv, Spawn
    PROVE  CacheInv'
<1> DEFINE i == Len(call.cmds) + 1
           new == [kind |-> call.kind, key |-> <<i, hosts[i]>>, pc |-> "new", client |-> 0]
<1>1. CacheTypes /\ OwnClients /\ ListedKeys
  BY DEF CacheInv
<1>2. i \in Nat /\ i \in 1 .. Len(hosts) /\ DOMAIN hosts = 1 .. Len(hosts) /\ hosts[i] \in Host
  BY <1>1, LenProperties, ElementOfSeq DEF CacheTypes, Call, Spawn
<1>3. new \in Task /\ new.client = 0 /\ Listed(new.key)
  BY <1>1, <1>2 DEF CacheTypes, Task, TaskStates, Key, Spawn, Listed
<1> HIDE DEF new
<1>4. /\ tasks' = Append(tasks, new)
      /\ UNCHANGED <<hosts, host_clients, clients, cmds, raced>>
      /\ call' = [call EXCEPT !.cmds = Append(@, Len(tasks')), !.waits = FALSE]
  BY DEF Spawn, new
<1>5. /\ tasks' \in Seq(Task) /\ Len(tasks') = Len(tasks) + 1 /\ Len(tasks) \in Nat
      /\ \A t \in 1 .. Len(tasks) : tasks'[t] = tasks[t]
      /\ tasks'[Len(tasks) + 1] = new
  BY <1>1, <1>3, <1>4, AppendProperties, LenProperties DEF CacheTypes
<1>6. CacheTypes'
  <2>1. Append(call.cmds, Len(tasks')) \in Seq(Nat)
    BY <1>1, <1>5, AppendProperties DEF CacheTypes, Call
  <2> QED
    BY <1>1, <1>4, <1>5, <2>1 DEF CacheTypes, Call
<1>7. \A t \in 1 .. Len(tasks') : t \in 1 .. Len(tasks) \/ tasks'[t] = new
  BY <1>5
<1>8. OwnClients'
  BY <1>1, <1>3, <1>4, <1>5, <1>7 DEF OwnClients
<1>9. ListedKeys'
  BY <1>1, <1>3, <1>4, <1>5, <1>7 DEF ListedKeys, Listed
<1> QED
  BY <1>6, <1>8, <1>9 DEF CacheInv

\* The hosts setter drops what the new list does not have.
LEMMA AssignPreserves ==
    ASSUME CacheInv, NEW new \in HostLists, AssignHosts(new)
    PROVE  CacheInv'
<1>1. CacheTypes /\ OwnClients /\ ListedKeys /\ new \in Seq(Host)
  BY ClientAssumption DEF CacheInv
<1>2. /\ hosts' = new /\ UNCHANGED <<clients, tasks, cmds, call>>
      /\ raced' = (raced \/ Running # {})
      /\ DOMAIN host_clients' = DOMAIN host_clients \ Evicted(new)
      /\ \A k \in DOMAIN host_clients' : host_clients'[k] = host_clients[k]
  BY DEF AssignHosts
<1>3. CacheTypes'
  BY <1>1, <1>2 DEF CacheTypes
<1>4. OwnClients'
  BY <1>1, <1>2 DEF OwnClients
<1>5. ListedKeys'
  <2> SUFFICES ASSUME ~raced' PROVE ListedKeys'
    BY DEF ListedKeys
  <2>1. ~raced /\ Running = {}
    BY <1>2
  <2>2. \A t \in 1 .. Len(tasks) : tasks[t].pc \in {"done", "failed"}
    BY <1>1, <2>1, LenProperties DEF Running, Finished, CacheTypes
  <2>3. \A k \in DOMAIN host_clients' : k[1] \in DOMAIN new /\ new[k[1]] = k[2]
    BY <1>1, <1>2, <2>1 DEF Evicted, ListedKeys, Listed
  <2> QED
    BY <1>2, <2>2, <2>3 DEF ListedKeys, Listed
<1> QED
  BY <1>3, <1>4, <1>5 DEF CacheInv

---------------------------------------------------------------------------
(* The greenlets of the pool.                                              *)

\* What a step of a greenlet changes of the greenlets.
LEMMA ProceedEffect ==
    ASSUME CacheTypes, NEW t \in DOMAIN tasks, NEW pc \in TaskStates, NEW client \in Nat,
           Proceed(t, pc, client)
    PROVE  /\ tasks' \in Seq(Task) /\ Len(tasks') = Len(tasks)
           /\ \A u \in 1 .. Len(tasks) : tasks'[u].key = tasks[u].key
           /\ tasks'[t].pc = pc /\ tasks'[t].client = client
           /\ \A u \in 1 .. Len(tasks) : u # t => tasks'[u] = tasks[u]
<1> DEFINE new == [tasks[t] EXCEPT !.pc = pc, !.client = client]
<1>1. t \in 1 .. Len(tasks) /\ tasks[t] \in Task
  BY LenProperties, ElementOfSeq DEF CacheTypes
<1>2. new \in Task /\ new.key = tasks[t].key /\ new.pc = pc /\ new.client = client
  BY <1>1 DEF Task
<1> HIDE DEF new
<1>3. tasks' = [tasks EXCEPT ![t] = new]
  BY DEF Proceed, new
<1>4. /\ tasks' \in Seq(Task) /\ Len(tasks') = Len(tasks)
      /\ \A u \in 1 .. Len(tasks) : tasks'[u] = IF u = t THEN new ELSE tasks[u]
  BY <1>1, <1>2, <1>3, ExceptSeq DEF CacheTypes
<1> QED
  BY <1>1, <1>2, <1>4

\* A greenlet that moves on without touching cache and clients, with no client or
\* with one made for its key.
LEMMA MovePreserves ==
    ASSUME CacheInv, NEW t \in DOMAIN tasks, NEW pc \in TaskStates, NEW client \in Nat,
           Proceed(t, pc, client), ~Finished(t),
           client # 0 => client \in 1 .. Len(clients) /\ clients[client] = tasks[t].key,
           UNCHANGED <<hosts, host_clients, clients, cmds, call, raced>>
    PROVE  CacheInv'
<1>1. CacheTypes /\ OwnClients /\ ListedKeys /\ t \in 1 .. Len(tasks)
  BY LenProperties DEF CacheInv, CacheTypes
<1>2. /\ tasks' \in Seq(Task) /\ Len(tasks') = Len(tasks)
      /\ \A u \in 1 .. Len(tasks) : tasks'[u].key = tasks[u].key
      /\ tasks'[t].client = client
      /\ \A u \in 1 .. Len(tasks) : u # t => tasks'[u] = tasks[u]
  BY <1>1, ProceedEffect
<1>3. CacheTypes'
  BY <1>1, <1>2 DEF CacheTypes
<1>4. OwnClients'
  BY <1>1, <1>2 DEF OwnClients
<1>5. ListedKeys'
  BY <1>1, <1>2 DEF ListedKeys, Listed, Finished
<1> QED
  BY <1>3, <1>4, <1>5 DEF CacheInv

\* A new client is cached under the key of the greenlet that made it.
LEMMA ConnectedPreserves ==
    ASSUME CacheInv, NEW t \in DOMAIN tasks, Connected(t),
           UNCHANGED <<hosts, cmds, call, raced>>
    PROVE  CacheInv'
<1> DEFINE key == tasks[t].key
           client == Len(clients')
<1>1. /\ CacheTypes /\ OwnClients /\ ListedKeys
      /\ t \in 1 .. Len(tasks) /\ tasks[t] \in Task
  BY LenProperties, ElementOfSeq DEF CacheInv, CacheTypes
<1>2. key \in Key
  BY <1>1 DEF Task
<1>3. /\ clients' \in Seq(Key) /\ Len(clients) \in Nat /\ client = Len(clients) + 1
      /\ \A c \in 1 .. Len(clients) : clients'[c] = clients[c]
      /\ clients'[client] = key
  BY <1>1, <1>2, AppendProperties, LenProperties DEF Connected, CacheTypes
<1>4. PICK pc \in TaskStates : Proceed(t, pc, client)
  BY DEF Connected, WithClient, TaskStates
<1>5. /\ tasks' \in Seq(Task) /\ Len(tasks') = Len(tasks)
      /\ \A u \in 1 .. Len(tasks) : tasks'[u].key = tasks[u].key
      /\ tasks'[t].client = client
      /\ \A u \in 1 .. Len(tasks) : u # t => tasks'[u] = tasks[u]
  <2>1. client \in Nat
    BY <1>3
  <2> HIDE DEF client
  <2> QED
    BY <1>1, <1>4, <2>1, ProceedEffect
<1>6. /\ DOMAIN host_clients' = DOMAIN host_clients \union {key}
      /\ \A k \in DOMAIN host_clients' :
            host_clients'[k] = IF k = key THEN client ELSE host_clients[k]
  BY DEF Connected, Store
<1>7. CacheTypes'
  BY <1>1, <1>3, <1>5 DEF CacheTypes
<1> HIDE DEF key, client
<1>8. OwnClients'
  <2>1. \A k \in DOMAIN host_clients' :
           host_clients'[k] \in 1 .. Len(clients') /\ clients'[host_clients'[k]] = k
    BY <1>1, <1>3, <1>6 DEF OwnClients, client
  <2>2. ASSUME NEW u \in 1 .. Len(tasks'), tasks'[u].client # 0
        PROVE  /\ tasks'[u].client \in 1 .. Len(clients')
               /\ clients'[tasks'[u].client] = tasks'[u].key
    BY <1>1, <1>3, <1>5, <2>2 DEF OwnClients, client, key
  <2> QED
    BY <2>1, <2>2 DEF OwnClients
<1>9. ListedKeys'
  <2> SUFFICES ASSUME ~raced PROVE ListedKeys'
    BY DEF ListedKeys
  <2>1. Listed(key)
    BY <1>1 DEF ListedKeys, Connected, key
  <2>2. \A k \in DOMAIN host_clients' : Listed(k)
    BY <1>1, <1>6, <2>1 DEF ListedKeys
  <2>3. ASSUME NEW u \in 1 .. Len(tasks'), ~(tasks'[u].pc \in {"done", "failed"})
        PROVE  Listed(tasks[u].key) /\ tasks'[u].key = tasks[u].key
    <3>1. CASE u = t
      BY <1>5, <2>1, <3>1 DEF key
    <3>2. CASE u # t
      BY <1>1, <1>5, <2>3, <3>2 DEF ListedKeys
    <3> QED
      BY <3>1, <3>2
  <2> QED
    BY <2>2, <2>3 DEF ListedKeys, Listed
<1> QED
  BY <1>7, <1>8, <1>9 DEF CacheInv

LEMMA TaskPreserves ==
    ASSUME CacheInv, NEW t \in DOMAIN tasks, TaskStep(t)
    PROVE  CacheInv'
<1>1. /\ CacheTypes /\ OwnClients /\ t \in 1 .. Len(tasks) /\ tasks[t] \in Task
      /\ UNCHANGED <<hosts, cmds, call, raced>> /\ Len(clients) \in Nat
  BY LenProperties, ElementOfSeq DEF CacheInv, CacheTypes, TaskStep
<1>2. CASE UseCached(t)
  <2>1. PICK k \in Lookup(t) : WithClient(t, host_clients[k])
    BY <1>2 DEF UseCached
  <2>2. /\ host_clients[k] \in 1 .. Len(clients)
        /\ clients[host_clients[k]] = tasks[t].key
    BY <1>1, <2>1 DEF Lookup, OwnClients
  <2>3. PICK pc \in TaskStates : Proceed(t, pc, host_clients[k])
    BY <2>1 DEF WithClient, TaskStates
  <2>4. ~Finished(t) /\ UNCHANGED <<host_clients, clients>> /\ host_clients[k] \in Nat
    BY <1>1, <1>2, <2>2 DEF UseCached, Finished
  <2> QED
    BY <1>1, <2>2, <2>3, <2>4, MovePreserves
<1>3. CASE MustConnect(t) \/ NotConfigured(t) \/ ConnectFails(t)
  <2>1. PICK pc \in TaskStates : Proceed(t, pc, 0)
    BY <1>3 DEF MustConnect, NotConfigured, ConnectFails, TaskStates
  <2>2. ~Finished(t) /\ UNCHANGED <<host_clients, clients>>
    BY <1>3 DEF MustConnect, NotConfigured, ConnectFails, Finished
  <2> QED
    BY <1>1, <2>1, <2>2, MovePreserves
<1>4. CASE Executed(t)
  <2>1. PICK pc \in TaskStates : Proceed(t, pc, tasks[t].client)
    BY <1>4 DEF Executed, TaskStates
  <2>2. ~Finished(t) /\ UNCHANGED <<host_clients, clients>> /\ tasks[t].client \in Nat
    BY <1>1, <1>4 DEF Executed, Finished, Task
  <2>3. tasks[t].client # 0 => /\ tasks[t].client \in 1 .. Len(clients)
                               /\ clients[tasks[t].client] = tasks[t].key
    BY <1>1 DEF OwnClients
  <2> QED
    BY <1>1, <2>1, <2>2, <2>3, MovePreserves
<1>5. CASE Connected(t)
  BY <1>1, <1>5, ConnectedPreserves
<1> QED
  BY <1>2, <1>3, <1>4, <1>5 DEF TaskStep

---------------------------------------------------------------------------
LEMMA StepCacheInv == CacheInv /\ [Next]_vars => CacheInv'
<1> SUFFICES ASSUME CacheInv, [Next]_vars PROVE CacheInv'
  OBVIOUS
<1>1. CASE \E new \in HostLists : AssignHosts(new)
  BY <1>1, AssignPreserves
<1>2. CASE UserCall /\ ~\E new \in HostLists : AssignHosts(new)
  BY <1>2, BeginPreserves DEF UserCall, CopyFile, CopyRemoteFile, ScpSend, ScpRecv
<1>3. CASE Spawn
  BY <1>3, SpawnPreserves
<1>4. CASE UserStep /\ ~Spawn
  BY <1>4, WaitPreserves DEF UserStep
<1>5. CASE \E t \in DOMAIN tasks : TaskStep(t)
  BY <1>5, TaskPreserves
<1>6. CASE UNCHANGED vars
  BY <1>6, CacheUntouched DEF vars, CacheInv, CacheTypes
<1> QED
  BY <1>1, <1>2, <1>3, <1>4, <1>5, <1>6 DEF Next

THEOREM CacheInvariance == Spec => []CacheInv
  BY InitCacheInv, StepCacheInv, PTL DEF Spec

\* If hosts are only assigned while no greenlet runs, the cache never holds a
\* client of a host that is not on the list (hosts setter, _get_ssh_client).
THEOREM CacheFollowsAssignment == Spec => []CacheFollowsHosts
<1>1. CacheInv => CacheFollowsHosts
  BY DEF CacheInv, ListedKeys, Listed, CacheFollowsHosts
<1> QED
  BY <1>1, CacheInvariance, PTL

\* Every command runs on a connection to its own host (_get_ssh_client).
THEOREM CommandsUseOwnConnection == Spec => []OwnConnection
<1>1. CacheInv => OwnConnection
  BY LenProperties DEF CacheInv, CacheTypes, OwnClients, OwnConnection
<1> QED
  BY <1>1, CacheInvariance, PTL

\* The cache is sound: its clients are those of the hosts listed, unless hosts were assigned
\* while greenlets ran, and no greenlet runs on another host's (_get_ssh_client, hosts setter).
THEOREM CacheIsSound == Spec => []CacheSound
<1>1. CacheFollowsHosts /\ OwnConnection <=> CacheSound
  BY DEF CacheSound
<1> QED
  BY <1>1, CacheFollowsAssignment, CommandsUseOwnConnection, PTL

---------------------------------------------------------------------------
(* Reuse of connections.                                                   *)

Unfinished(t) == ~(tasks[t].pc \in {"done", "failed"})

\* While calls do not overlap, the greenlets that run are at different positions of
\* one host list, and none connects to a host the cache has a client for.
ReuseInv ==
    ~overlapped =>
        /\ \A t, u \in 1 .. Len(tasks) :
              Unfinished(t) /\ Unfinished(u) /\ t # u => tasks[t].key[1] # tasks[u].key[1]
        /\ call.pc = "spawning" =>
              \A t \in 1 .. Len(tasks) : Unfinished(t) => tasks[t].key[1] <= Len(call.cmds)
        /\ \A t \in 1 .. Len(tasks) :
              tasks[t].pc = "connecting" => tasks[t].key \notin DOMAIN host_clients

LEMMA InitReuseInv == Init => ReuseInv
<1> SUFFICES ASSUME Init PROVE ReuseInv
  OBVIOUS
<1>1. Len(tasks) = 0
  BY EmptySeq, SMT DEF Init
<1> QED
  BY <1>1 DEF ReuseInv

LEMMA BeginReuse ==
    ASSUME CacheInv, ReuseInv, NEW c, Begin(c)
    PROVE  ReuseInv'
<1>1. /\ UNCHANGED <<tasks, host_clients>> /\ call' = c
      /\ overlapped' = (overlapped \/ (c.pc = "spawning" /\ Running # {}))
  BY DEF Begin
<1>2. \A t \in 1 .. Len(tasks) : Unfinished(t) => t \in Running
  BY LenProperties DEF Unfinished, Running, Finished, CacheInv, CacheTypes
<1>3. c.pc = "spawning" /\ ~overlapped' => \A t \in 1 .. Len(tasks) : ~Unfinished(t)
  BY <1>1, <1>2
<1> QED
  BY <1>1, <1>3 DEF ReuseInv, Unfinished

LEMMA SpawnReuse ==
    ASSUME CacheInv, ReuseInv, Spawn
    PROVE  ReuseInv'
<1> SUFFICES ASSUME ~overlapped PROVE ReuseInv'
  BY DEF ReuseInv, Spawn
<1> DEFINE i == Len(call.cmds) + 1
           new == [kind |-> call.kind, key |-> <<i, hosts[i]>>, pc |-> "new", client |-> 0]
<1>1. CacheTypes
  BY DEF CacheInv
<1>2. new \in Task /\ new.pc = "new" /\ new.key[1] = i /\ Len(call.cmds) \in Nat
  <2>1. i \in Nat /\ i \in 1 .. Len(hosts) /\ hosts[i] \in Host /\ Len(call.cmds) \in Nat
    BY <1>1, LenProperties, ElementOfSeq DEF CacheTypes, Call, Spawn
  <2> QED
    BY <1>1, <2>1 DEF CacheTypes, Task, TaskStates, Key, Spawn
<1> HIDE DEF new
<1>3. /\ Len(tasks') = Len(tasks) + 1 /\ Len(tasks) \in Nat
      /\ \A t \in 1 .. Len(tasks) : tasks'[t] = tasks[t]
      /\ tasks'[Len(tasks) + 1] = new
  <2>1. tasks' = Append(tasks, new)
    BY DEF Spawn, new
  <2> QED
    BY <1>1, <1>2, <2>1, AppendProperties, LenProperties DEF CacheTypes
<1>4. Len(call'.cmds) = i /\ UNCHANGED host_clients
  <2>1. call'.cmds = Append(call.cmds, Len(tasks'))
    BY <1>1 DEF Spawn, CacheTypes, Call
  <2>2. Len(tasks') \in Nat /\ call.cmds \in Seq(Nat)
    BY <1>1, <1>3 DEF CacheTypes, Call
  <2> QED
    BY <2>1, <2>2, AppendProperties DEF Spawn
<1>5. /\ \A t, u \in 1 .. Len(tasks) :
            Unfinished(t) /\ Unfinished(u) /\ t # u => tasks[t].key[1] # tasks[u].key[1]
      /\ \A t \in 1 .. Len(tasks) : Unfinished(t) => tasks[t].key[1] <= Len(call.cmds)
      /\ \A t \in 1 .. Len(tasks) :
            tasks[t].pc = "connecting" => tasks[t].key \notin DOMAIN host_clients
  BY DEF ReuseInv, Spawn
<1>6. \A t \in 1 .. Len(tasks) : tasks[t].key[1] \in Nat
  <2>1. \A t \in 1 .. Len(tasks) : tasks[t] \in Task
    BY <1>1, ElementOfSeq DEF CacheTypes
  <2> QED
    BY <2>1 DEF Task, Key
<1>7. \A t \in 1 .. Len(tasks') : Unfinished(t)' => tasks'[t].key[1] <= i
  BY <1>2, <1>3, <1>5, <1>6 DEF Unfinished
<1>8. \A t, u \in 1 .. Len(tasks') :
         Unfinished(t)' /\ Unfinished(u)' /\ t # u => tasks'[t].key[1] # tasks'[u].key[1]
  <2> SUFFICES ASSUME NEW t \in 1 .. Len(tasks'), NEW u \in 1 .. Len(tasks'),
                      Unfinished(t)', Unfinished(u)', t # u
               PROVE  tasks'[t].key[1] # tasks'[u].key[1]
    OBVIOUS
  <2>1. CASE t \in 1 .. Len(tasks) /\ u \in 1 .. Len(tasks)
    BY <1>3, <1>5, <2>1 DEF Unfinished
  <2>2. CASE t = Len(tasks) + 1 /\ u \in 1 .. Len(tasks)
    <3>1. tasks'[u].key[1] <= Len(call.cmds) /\ tasks'[u].key[1] \in Nat
      BY <1>3, <1>5, <1>6, <2>2 DEF Unfinished
    <3> QED
      BY <1>2, <1>3, <2>2, <3>1
  <2>3. CASE u = Len(tasks) + 1 /\ t \in 1 .. Len(tasks)
    <3>1. tasks'[t].key[1] <= Len(call.cmds) /\ tasks'[t].key[1] \in Nat
      BY <1>3, <1>5, <1>6, <2>3 DEF Unfinished
    <3> QED
      BY <1>2, <1>3, <2>3, <3>1
  <2> QED
    BY <1>3, <2>1, <2>2, <2>3
<1>9. \A t \in 1 .. Len(tasks') :
         tasks'[t].pc = "connecting" => tasks'[t].key \notin DOMAIN host_clients'
  BY <1>2, <1>3, <1>4, <1>5
<1> QED
  BY <1>4, <1>7, <1>8, <1>9 DEF ReuseInv

\* A greenlet's step: its key stays, it does not come back to life, and it connects
\* only when the cache has nothing for it; only its own key enters the cache.
LEMMA TaskReuse ==
    ASSUME CacheInv, ReuseInv, NEW t \in DOMAIN tasks, TaskStep(t)
    PROVE  ReuseInv'
<1> SUFFICES ASSUME ~overlapped PROVE ReuseInv'
  BY DEF ReuseInv, TaskStep
<1>1. /\ CacheTypes /\ OwnClients /\ t \in 1 .. Len(tasks) /\ tasks[t] \in Task
      /\ UNCHANGED <<call, overlapped>> /\ Len(clients) \in Nat
  BY LenProperties, ElementOfSeq DEF CacheInv, CacheTypes, TaskStep
<1>2. Unfinished(t)
  BY DEF TaskStep, UseCached, MustConnect, NotConfigured, Connected, ConnectFails, Executed,
         Unfinished
<1>3. PICK pc \in TaskStates, client \in Nat :
         /\ Proceed(t, pc, client)
         /\ pc = "connecting" =>
               tasks[t].key \notin DOMAIN host_clients /\ UNCHANGED host_clients
  <2>1. CASE UseCached(t)
    <3>1. PICK k \in Lookup(t) : WithClient(t, host_clients[k])
      BY <2>1 DEF UseCached
    <3>2. host_clients[k] \in Nat
      BY <1>1, <3>1 DEF Lookup, OwnClients
    <3> QED
      BY <3>1, <3>2 DEF WithClient, TaskStates
  <2>2. CASE MustConnect(t)
    BY <2>2 DEF MustConnect, Lookup, TaskStates
  <2>3. CASE Connected(t)
    <3>1. Len(clients') \in Nat
      BY <1>1, <2>3, AppendProperties DEF Connected, CacheTypes, Task
    <3> QED
      BY <2>3, <3>1 DEF Connected, WithClient, TaskStates
  <2>4. CASE NotConfigured(t) \/ ConnectFails(t)
    BY <2>4 DEF NotConfigured, ConnectFails, TaskStates
  <2>5. CASE Executed(t)
    BY <1>1, <2>5 DEF Executed, TaskStates, Task
  <2> QED
    BY <2>1, <2>2, <2>3, <2>4, <2>5 DEF TaskStep
<1>4. DOMAIN host_clients' \subseteq DOMAIN host_clients \union {tasks[t].key}
  BY DEF TaskStep, UseCached, MustConnect, NotConfigured, Connected, Store, ConnectFails,
         Executed
<1>5. /\ Len(tasks') = Len(tasks)
      /\ \A u \in 1 .. Len(tasks) : tasks'[u].key = tasks[u].key
      /\ tasks'[t].pc = pc
      /\ \A u \in 1 .. Len(tasks) : u # t => tasks'[u] = tasks[u]
  BY <1>1, <1>3, ProceedEffect
<1>6. \A u \in 1 .. Len(tasks) : Unfinished(u)' => Unfinished(u)
  BY <1>2, <1>5 DEF Unfinished
<1>7. ASSUME NEW u \in 1 .. Len(tasks), tasks'[u].pc = "connecting"
      PROVE  tasks'[u].key \notin DOMAIN host_clients'
  <2>1. CASE u = t
    BY <1>3, <1>5, <1>7, <2>1
  <2>2. CASE u # t
    <3>1. tasks[u].pc = "connecting" /\ Unfinished(u)
      BY <1>5, <1>7, <2>2 DEF Unfinished
    <3>2. tasks[u].key # tasks[t].key /\ tasks[u].key \notin DOMAIN host_clients
      BY <1>1, <1>2, <2>2, <3>1 DEF ReuseInv
    <3> QED
      BY <1>4, <1>5, <3>2
  <2> QED
    BY <2>1, <2>2
<1> QED
  BY <1>1, <1>5, <1>6, <1>7 DEF ReuseInv

LEMMA StepReuseInv == CacheInv /\ ReuseInv /\ [Next]_vars => ReuseInv'
<1> SUFFICES ASSUME CacheInv, ReuseInv, [Next]_vars PROVE ReuseInv'
  OBVIOUS
<1>1. CASE \E new \in HostLists : AssignHosts(new)
  <2>1. /\ UNCHANGED <<tasks, overlapped, call>>
        /\ DOMAIN host_clients' \subseteq DOMAIN host_clients
    BY <1>1 DEF AssignHosts
  <2> QED
    BY <2>1 DEF ReuseInv, Unfinished
<1>2. CASE UserCall /\ ~\E new \in HostLists : AssignHosts(new)
  BY <1>2, BeginReuse DEF UserCall, RunCommand, CopyFile, CopyRemoteFile, ScpSend, ScpRecv,
     CopyFiles, OpenShell, ConnectAuth, GetLastOutput
<1>3. CASE Spawn
  BY <1>3, SpawnReuse
<1>4. CASE UserStep /\ ~Spawn
  <2>1. /\ UNCHANGED <<tasks, overlapped, host_clients>>
        /\ \/ call'.pc # "spawning"
           \/ call'.cmds = call.cmds /\ call.pc = "spawning"
    <3>1. CacheTypes /\ Idle.pc = "idle"
      BY DEF CacheInv, Idle
    <3>2. CASE HostArgsShort \/ RaiseFailure \/ Return
      BY <3>1, <3>2 DEF HostArgsShort, RaiseFailure, Return, Reply
    <3>3. CASE AllSpawned
      <4>1. call.kind \in Kinds
        BY <3>1, <3>3 DEF AllSpawned, CacheTypes
      <4>2. \/ call' = Idle
            \/ call' = [call EXCEPT !.pc = "joining"]
            \/ call' = [call EXCEPT !.pc = "getting"]
        BY <3>3, <4>1 DEF AllSpawned, Reply, Kinds
      <4> QED
        BY <3>1, <3>3, <4>2 DEF AllSpawned, CacheTypes, Call
    <3>4. CASE Joined
      BY <3>1, <3>4 DEF Joined, CacheTypes, Call
    <3>5. CASE GettersStart
      BY <3>1, <3>5 DEF GettersStart, CacheTypes, Call
    <3>6. CASE Block
      BY <3>1, <3>6 DEF Block, CacheTypes, Call
    <3> QED
      BY <1>4, <3>2, <3>3, <3>4, <3>5, <3>6 DEF UserStep
  <2> QED
    BY <2>1 DEF ReuseInv, Unfinished
<1>5. CASE \E t \in DOMAIN tasks : TaskStep(t)
  BY <1>5, TaskReuse
<1>6. CASE UNCHANGED vars
  BY <1>6 DEF vars, ReuseInv, Unfinished
<1> QED
  BY <1>1, <1>2, <1>3, <1>4, <1>5, <1>6 DEF Next

THEOREM ReuseInvariance == Spec => []ReuseInv
  BY InitReuseInv, StepReuseInv, CacheInvariance, PTL DEF Spec

\* While calls do not overlap, no second connection is made for a host that has
\* one in the cache (_get_ssh_client).
THEOREM ConnectionsReused == Spec => ConnectionReused
<1> DEFINE Reused == \/ overlapped
                     \/ clients' = clients
                     \/ clients'[Len(clients')] \notin DOMAIN host_clients
<1>1. CacheInv /\ ReuseInv /\ [Next]_vars => Reused
  <2> SUFFICES ASSUME CacheInv, ReuseInv, [Next]_vars, ~overlapped, clients' # clients
               PROVE  clients'[Len(clients')] \notin DOMAIN host_clients
    OBVIOUS
  <2>1. PICK t \in DOMAIN tasks : Connected(t)
    BY DEF Next, vars, UserCall, RunCommand, CopyFile, CopyRemoteFile, ScpSend, ScpRecv,
           CopyFiles, OpenShell, ConnectAuth, GetLastOutput,
           Begin, AssignHosts, UserStep, Spawn, Block, HostArgsShort, AllSpawned, Joined,
           GettersStart, RaiseFailure, Return, TaskStep, UseCached, MustConnect,
           NotConfigured, ConnectFails, Executed
  <2>2. t \in 1 .. Len(tasks) /\ tasks[t].key \in Key
    <3>1. t \in 1 .. Len(tasks) /\ tasks[t] \in Task
      BY <2>1, LenProperties, ElementOfSeq DEF CacheInv, CacheTypes
    <3> QED
      BY <3>1 DEF Task
  <2>3. clients'[Len(clients')] = tasks[t].key
    BY <2>1, <2>2, AppendProperties, LenProperties DEF Connected, CacheInv, CacheTypes
  <2> QED
    BY <2>1, <2>2, <2>3 DEF Connected, ReuseInv
<1> QED
  BY <1>1, CacheInvariance, ReuseInvariance, PTL DEF Spec, ConnectionReused

---------------------------------------------------------------------------
(* What a call returns.                                                    *)

Increasing(s) == \A a, b \in DOMAIN s : a < b => s[a] < s[b]
Distinct(s) == \A a, b \in DOMAIN s : s[a] = s[b] => a = b

\* The greenlets of a call are in the order they were spawned, and the i-th one of
\* run_command is that of the i-th host: the list cannot be assigned meanwhile.
CallInOrder ==
    /\ calls \in 0 .. MaxCalls /\ overlapped \in BOOLEAN
    /\ call.cmds \in Seq(1 .. Len(tasks)) /\ Increasing(call.cmds)
    /\ cmds \in Seq(1 .. Len(tasks)) /\ Increasing(cmds)
    /\ call.pc # "idle" /\ call.kind = "run" =>
          \A i \in DOMAIN call.cmds : tasks[call.cmds[i]].key = <<i, hosts[i]>>

\* joinall has handed on what has finished, each greenlet once.
CollectedFinished ==
    /\ collected \in Seq(1 .. Len(tasks))
    /\ call.pc = "getting" /\ call.kind = "run" /\ ~call.expired => AllFinished
    /\ call.pc = "collecting" =>
          /\ Distinct(collected)
          /\ ToSet(collected) = {t \in ToSet(call.cmds) : Finished(t)}
          /\ call.kind = "run" /\ ~call.expired => collected = call.cmds

ResultTypes ==
    /\ result.kind \in {"none", "output", "greenlets", "raised"} /\ result.outs \in Seq(Output)
    /\ result.call \in Call /\ \A i \in DOMAIN result.outs : result.outs[i].task \in 1 .. Len(tasks)
    /\ call.pc # "idle" => result = NoResult

Answer == OneOutputPerHost /\ OrderUnlessExpired /\ NoFailureSwallowed /\ RunOutputNamesItsHost

ResultInv == ResultTypes /\ Answer

OutputInv == CallInOrder /\ CollectedFinished /\ ResultInv

LEMMA Least ==
    ASSUME NEW T \in SUBSET Nat, T # {}
    PROVE  \E n \in T : \A m \in T : n <= m
<1> DEFINE R == OpToRel(<, Nat)
<1>1. \A x, y : <<x, y>> \in R <=> x \in Nat /\ y \in Nat /\ x < y
  BY DEF OpToRel
<1>2. IsWellFoundedOn(R, Nat)
  BY NatLessThanWellFounded
<1> HIDE DEF R
<1>3. PICK n \in T : \A m \in T : ~(<<m, n>> \in R)
  BY <1>2, WFMin, Zenon
<1>4. \A m \in T : ~(m < n)
  BY <1>1, <1>3, Zenon
<1> QED
  BY <1>4

\* A sequence has as many elements as places if it has none twice.
LEMMA DistinctLen ==
    ASSUME NEW S, NEW s \in Seq(S), Distinct(s)
    PROVE  IsFiniteSet(ToSet(s)) /\ Cardinality(ToSet(s)) = Len(s)
<1>1. Len(s) \in Nat /\ DOMAIN s = 1 .. Len(s) /\ s \in [1 .. Len(s) -> ToSet(s)]
  BY LenProperties DEF ToSet
<1>2. s \in Bijection(1 .. Len(s), ToSet(s))
  BY <1>1 DEF Bijection, Injection, Surjection, IsInjective, Distinct, ToSet
<1> QED
  BY <1>1, <1>2, FS_NatBijection, FS_CountingElements DEF ExistsBijection

LEMMA IncreasingDistinct ==
    ASSUME NEW s \in Seq(Nat), Increasing(s)
    PROVE  Distinct(s)
<1>1. \A a \in DOMAIN s : a \in Nat /\ s[a] \in Nat
  BY LenProperties, ElementOfSeq
<1> QED
  BY <1>1 DEF Increasing, Distinct

\* If it has as many as there are, it has all of them.
LEMMA DistinctAll ==
    ASSUME NEW S, NEW s \in Seq(S), Distinct(s), NEW q \in Seq(S), Distinct(q),
           ToSet(q) \subseteq ToSet(s)
    PROVE  Len(q) = Len(s) <=> ToSet(q) = ToSet(s)
<1>1. /\ IsFiniteSet(ToSet(s)) /\ Cardinality(ToSet(s)) = Len(s)
      /\ IsFiniteSet(ToSet(q)) /\ Cardinality(ToSet(q)) = Len(q)
  BY DistinctLen
<1> QED
  BY <1>1, FS_Subset

\* There is one way to be in order.
LEMMA IncreasingUnique ==
    ASSUME NEW s \in Seq(Nat), Increasing(s), NEW q \in Seq(Nat), Increasing(q),
           ToSet(q) = ToSet(s)
    PROVE  q = s
<1>1. Len(q) = Len(s) /\ Len(s) \in Nat
  BY IncreasingDistinct, DistinctAll, LenProperties
<1>2. /\ DOMAIN s = 1 .. Len(s) /\ DOMAIN q = 1 .. Len(s)
      /\ \A a \in 1 .. Len(s) : s[a] \in Nat /\ q[a] \in Nat
  BY <1>1, LenProperties, ElementOfSeq
<1>3. \A a, b \in 1 .. Len(s) : a < b => s[a] < s[b] /\ q[a] < q[b]
  BY <1>2 DEF Increasing
<1> DEFINE T == {a \in 1 .. Len(s) : q[a] # s[a]}
<1>4. T \in SUBSET Nat
  OBVIOUS
<1>5. CASE T = {}
  BY <1>1, <1>2, <1>5, SeqEqual
<1>6. CASE T # {}
  <2>1. PICK n \in T : \A m \in T : n <= m
    <3> HIDE DEF T
    <3> QED
      BY <1>4, <1>6, Least
  <2>2. n \in 1 .. Len(s) /\ q[n] # s[n] /\ \A a \in 1 .. Len(s) : a < n => q[a] = s[a]
    BY <1>1, <2>1
  <2>3. CASE s[n] < q[n]
    <3>1. PICK k \in 1 .. Len(s) : q[k] = s[n]
      BY <1>2, <2>2 DEF ToSet
    <3>2. CASE k < n
      BY <1>2, <1>3, <2>2, <3>1, <3>2
    <3>3. CASE k > n
      BY <1>2, <1>3, <2>2, <2>3, <3>1, <3>3
    <3> QED
      BY <1>1, <2>2, <3>1, <3>2, <3>3
  <2>4. CASE q[n] < s[n]
    <3>1. PICK k \in 1 .. Len(s) : s[k] = q[n]
      BY <1>2, <2>2 DEF ToSet
    <3>2. CASE k < n
      BY <1>2, <1>3, <2>2, <3>1, <3>2
    <3>3. CASE k > n
      BY <1>2, <1>3, <2>2, <2>4, <3>1, <3>3
    <3> QED
      BY <1>1, <2>2, <3>1, <3>2, <3>3
  <2> QED
    BY <1>2, <2>2, <2>3, <2>4
<1> QED
  BY <1>5, <1>6

LEMMA FunctionSeq ==
    ASSUME NEW n \in Nat, NEW T, NEW f \in [1 .. n -> T]
    PROVE  f \in Seq(T)
  BY SeqDef

\* InOrder has all of a finite set of greenlets, each once.
LEMMA InOrderIs ==
    ASSUME NEW S \in SUBSET Nat, IsFiniteSet(S), NEW q \in InOrder(S)
    PROVE  q \in Seq(S) /\ Increasing(q) /\ Distinct(q) /\ ToSet(q) = S
<1>1. Cardinality(S) \in Nat /\ q \in [1 .. Cardinality(S) -> S]
  BY FS_CardinalityType DEF InOrder
<1>2. q \in Seq(S) /\ q \in Seq(Nat) /\ Increasing(q)
  <2>1. q \in [1 .. Cardinality(S) -> Nat]
    BY <1>1
  <2>2. q \in Seq(S) /\ q \in Seq(Nat)
    BY <1>1, <2>1, FunctionSeq
  <2> QED
    BY <2>2 DEF InOrder, Increasing
<1>3. Distinct(q)
  BY <1>2, IncreasingDistinct
<1>4. IsFiniteSet(1 .. Cardinality(S)) /\ Cardinality(1 .. Cardinality(S)) = Cardinality(S)
  BY <1>1, FS_Interval
<1>5. q \in Injection(1 .. Cardinality(S), S)
  BY <1>1, <1>3 DEF Injection, IsInjective, Distinct
<1>6. q \in Surjection(1 .. Cardinality(S), S)
  BY <1>4, <1>5, FS_Injection
<1>7. ToSet(q) = S
  BY <1>1, <1>6 DEF Surjection, ToSet
<1> QED
  BY <1>2, <1>3, <1>7

\* There is a result only between two calls, and it is of greenlets whose hosts stay the same.
LEMMA ResultKept ==
    ASSUME ResultInv, result' = result, call'.pc # "idle" => result = NoResult,
           Len(tasks) \in Nat, Len(tasks') \in Nat, Len(tasks) <= Len(tasks'),
           \A u \in 1 .. Len(tasks) : tasks'[u].key = tasks[u].key
    PROVE  ResultInv'
<1>1. \A i \in DOMAIN result.outs : result.outs[i].task \in 1 .. Len(tasks)
  BY DEF ResultInv, ResultTypes
<1>2. ResultTypes'
  BY <1>1 DEF ResultInv, ResultTypes
<1>3. RunOutputNamesItsHost'
  BY <1>1 DEF ResultInv, Answer, RunOutputNamesItsHost
<1>4. (OneOutputPerHost /\ OrderUnlessExpired /\ NoFailureSwallowed)'
  BY DEF ResultInv, Answer, OneOutputPerHost, OrderUnlessExpired, NoFailureSwallowed
<1> QED
  BY <1>2, <1>3, <1>4 DEF ResultInv, Answer

\* What raises, or returns greenlets, returns no output.
LEMMA ResultWithout ==
    ASSUME CacheInv, result'.kind \in {"none", "greenlets", "raised"}, result'.outs = <<>>,
           result'.call \in Call, call'.pc # "idle" => result' = NoResult
    PROVE  ResultInv'
<1>1. result'.outs \in Seq(Output) /\ DOMAIN result'.outs = {}
  BY EmptySeq
<1>2. ResultTypes'
  BY <1>1 DEF ResultTypes
<1>3. Answer'
  BY <1>1 DEF Answer, OneOutputPerHost, OrderUnlessExpired, NoFailureSwallowed,
              RunOutputNamesItsHost
<1> QED
  BY <1>2, <1>3 DEF ResultInv

LEMMA NoGreenlets == DOMAIN <<>> = {} /\ Increasing(<<>>) /\ \A S : <<>> \in Seq(S)
<1>1. DOMAIN <<>> = {}
  OBVIOUS
<1> QED
  BY <1>1, EmptySeq DEF Increasing

LEMMA IdleIs == Idle \in Call /\ Idle.pc = "idle" /\ Idle.cmds = <<>> /\ Idle.kind = "run"
  BY EmptySeq DEF Idle, Call, CallKinds, Kinds

LEMMA InitOutputInv == Init => OutputInv
<1> SUFFICES ASSUME Init PROVE OutputInv
  OBVIOUS
<1>1. /\ cmds = <<>> /\ call = Idle /\ collected = <<>> /\ result = NoResult /\ calls = 0
      /\ overlapped = FALSE
  BY DEF Init
<1>2. MaxCalls \in Nat /\ <<>> \in Seq(1 .. Len(tasks))
  BY NoGreenlets, ClientAssumption
<1>3. CallInOrder /\ CollectedFinished
  <2>1. Increasing(call.cmds) /\ Increasing(cmds) /\ call.cmds = <<>> /\ call.pc = "idle"
    BY <1>1, NoGreenlets, IdleIs
  <2> QED
    <3>1. CallInOrder
      <4>1. calls \in 0 .. MaxCalls
        BY <1>1, <1>2
      <4>2. /\ overlapped \in BOOLEAN
            /\ cmds \in Seq(1 .. Len(tasks)) /\ call.cmds \in Seq(1 .. Len(tasks))
        BY <1>1, <1>2, <2>1, Zenon
      <4> QED
        BY <2>1, <4>1, <4>2 DEF CallInOrder
    <3>2. CollectedFinished
      BY <1>1, <1>2, <2>1 DEF CollectedFinished
    <3> QED
      BY <3>1, <3>2
<1>4. DOMAIN result.outs = {} /\ result.outs = <<>> /\ result.kind = "none" /\ result.call \in Call
  BY <1>1, IdleIs DEF NoResult
<1>5. ResultInv
  BY <1>1, <1>2, <1>4, IdleIs
  DEF ResultInv, ResultTypes, Answer, OneOutputPerHost, OrderUnlessExpired,
      NoFailureSwallowed, RunOutputNamesItsHost
<1> QED
  BY <1>3, <1>5 DEF OutputInv

LEMMA BeginOutput ==
    ASSUME CacheInv, OutputInv, NEW c \in Call, Begin(c),
           \/ c.pc = "spawning" /\ c.cmds = <<>>
           \/ c.pc = "getting" /\ c.kind = "last" /\ c.cmds = cmds
    PROVE  OutputInv'
<1>1. /\ call' = c /\ calls' = calls + 1 /\ calls < MaxCalls
      /\ result' = NoResult /\ collected' = <<>>
      /\ overlapped' \in BOOLEAN /\ UNCHANGED <<tasks, cmds, hosts>>
  BY DEF Begin, UserFree, OutputInv, CallInOrder
<1>2. MaxCalls \in Nat /\ <<>> \in Seq(1 .. Len(tasks))
  BY NoGreenlets, ClientAssumption
<1>3. calls' \in 0 .. MaxCalls
  BY <1>1, <1>2 DEF OutputInv, CallInOrder
<1>4. CallInOrder'
  <2>1. CASE c.pc = "spawning" /\ c.cmds = <<>>
    <3>1. Increasing(call'.cmds) /\ DOMAIN call'.cmds = {} /\ call'.cmds \in Seq(1 .. Len(tasks))
      BY <1>1, <1>2, <2>1, NoGreenlets
    <3> QED
      BY <1>1, <1>3, <3>1 DEF OutputInv, CallInOrder
  <2>2. CASE c.pc = "getting" /\ c.kind = "last" /\ c.cmds = cmds
    BY <1>1, <1>3, <2>2 DEF OutputInv, CallInOrder
  <2> QED
    BY <2>1, <2>2
<1>5. CollectedFinished'
  BY <1>1, <1>2 DEF CollectedFinished
<1>6. ResultInv'
  BY <1>1, IdleIs, ResultWithout DEF NoResult
<1> QED
  BY <1>4, <1>5, <1>6 DEF OutputInv

LEMMA CallOutput ==
    ASSUME CacheInv, OutputInv, UserCall
    PROVE  OutputInv'
<1>1. CASE \E new \in HostLists : AssignHosts(new)
  <2>1. /\ calls' = calls + 1 /\ calls < MaxCalls /\ call.pc = "idle"
        /\ UNCHANGED <<tasks, cmds, call, collected, result, overlapped>>
    BY <1>1 DEF AssignHosts, UserFree
  <2>2. MaxCalls \in Nat /\ Len(tasks) \in Nat
    BY ClientAssumption, LenProperties DEF CacheInv, CacheTypes
  <2>3. CallInOrder'
    BY <2>1, <2>2 DEF OutputInv, CallInOrder
  <2>4. CollectedFinished'
    BY <2>1 DEF OutputInv, CollectedFinished
  <2>5. ResultInv'
    BY <2>1, <2>2, ResultKept DEF OutputInv
  <2> QED
    BY <2>3, <2>4, <2>5 DEF OutputInv
<1>2. CASE GetLastOutput
  <2> DEFINE c == [Idle EXCEPT !.pc = "getting", !.kind = "last", !.cmds = cmds]
  <2>1. c \in Call /\ c.pc = "getting" /\ c.kind = "last" /\ c.cmds = cmds
    BY IdleIs DEF Call, CallKinds, CacheInv, CacheTypes
  <2> QED
    BY <1>2, <2>1, BeginOutput DEF GetLastOutput
<1>3. CASE UserCall /\ ~GetLastOutput /\ ~\E new \in HostLists : AssignHosts(new)
  <2>1. Len(hosts) \in Nat
    BY LenProperties DEF CacheInv, CacheTypes
  <2>2. ASSUME NEW stop \in BOOLEAN, NEW nargs \in 1 .. Len(hosts), RunCommand(stop, nargs)
        PROVE  OutputInv'
    <3> DEFINE c == [Idle EXCEPT !.pc = "spawning", !.stop = stop, !.nargs = nargs]
    <3>1. c \in Call /\ c.pc = "spawning" /\ c.cmds = <<>>
      <4>1. nargs \in Nat
        BY <2>1
      <4> QED
        BY <4>1, IdleIs DEF Call, CallKinds, Kinds
    <3>2. Begin(c)
      BY <2>2 DEF RunCommand
    <3> QED
      BY <3>1, <3>2, BeginOutput
  <2>3. ASSUME NEW nargs \in 0 .. Len(hosts), CopyFiles(nargs) PROVE OutputInv'
    <3> DEFINE c == [Idle EXCEPT !.pc = "spawning", !.kind = "copy", !.nargs = nargs]
    <3>1. c \in Call /\ c.pc = "spawning" /\ c.cmds = <<>>
      <4>1. nargs \in Nat
        BY <2>1
      <4> QED
        BY <4>1, IdleIs DEF Call, CallKinds, Kinds
    <3>2. Begin(c)
      BY <2>3 DEF CopyFiles
    <3> QED
      BY <3>1, <3>2, BeginOutput
  <2>4. ASSUME OpenShell PROVE OutputInv'
    <3> DEFINE c == [Idle EXCEPT !.pc = "spawning", !.kind = "shell",
                                 !.stop = TRUE, !.nargs = Len(hosts)]
    <3>1. c \in Call /\ c.pc = "spawning" /\ c.cmds = <<>>
      BY <2>1, IdleIs DEF Call, CallKinds, Kinds
    <3>2. Begin(c)
      BY <2>4 DEF OpenShell
    <3> QED
      BY <3>1, <3>2, BeginOutput
  <2>5. ASSUME ConnectAuth PROVE OutputInv'
    <3> DEFINE c == [Idle EXCEPT !.pc = "spawning", !.kind = "connect", !.nargs = Len(hosts)]
    <3>1. c \in Call /\ c.pc = "spawning" /\ c.cmds = <<>>
      BY <2>1, IdleIs DEF Call, CallKinds, Kinds
    <3>2. Begin(c)
      BY <2>5 DEF ConnectAuth
    <3> QED
      BY <3>1, <3>2, BeginOutput
  <2> QED
    BY <1>3, <2>2, <2>3, <2>4, <2>5 DEF UserCall, CopyFile, CopyRemoteFile, ScpSend, ScpRecv
<1> QED
  BY <1>1, <1>2, <1>3

\* The new greenlet has the highest number and the next host.
LEMMA SpawnOutput ==
    ASSUME CacheInv, OutputInv, Spawn
    PROVE  OutputInv'
<1> DEFINE i == Len(call.cmds) + 1
           n == Len(tasks) + 1
           new == [kind |-> call.kind, key |-> <<i, hosts[i]>>, pc |-> "new", client |-> 0]
<1>1. /\ tasks \in Seq(Task) /\ Len(tasks) \in Nat /\ call \in Call
      /\ call.cmds \in Seq(1 .. Len(tasks)) /\ Len(call.cmds) \in Nat
      /\ DOMAIN call.cmds = 1 .. Len(call.cmds)
      /\ \A a \in 1 .. Len(call.cmds) : call.cmds[a] \in 1 .. Len(tasks)
  BY LenProperties, ElementOfSeq DEF CacheInv, CacheTypes, OutputInv, CallInOrder
<1>2. /\ tasks' = Append(tasks, new) /\ new.key = <<i, hosts[i]>> /\ call.pc = "spawning"
      /\ UNCHANGED <<hosts, cmds, collected, result, calls, overlapped>>
  BY DEF Spawn
<1> HIDE DEF new
<1>3. Len(tasks') = n /\ \A u \in 1 .. Len(tasks) : tasks'[u] = tasks[u] /\ tasks'[n] = new
  BY <1>1, <1>2, AppendProperties
<1>4. call' = [call EXCEPT !.cmds = Append(call.cmds, n), !.waits = FALSE]
  BY <1>3 DEF Spawn
<1>5. call'.cmds = Append(call.cmds, n) /\ call'.pc = "spawning" /\ call'.kind = call.kind
  BY <1>1, <1>2, <1>4 DEF Call
<1>6. \A s \in Seq(1 .. Len(tasks)) : s \in Seq(1 .. n)
  BY <1>1, SeqMonotonic
<1>7. /\ call'.cmds \in Seq(1 .. n) /\ Len(call'.cmds) = i /\ call'.cmds[i] = n
      /\ DOMAIN call'.cmds = 1 .. i
      /\ \A a \in 1 .. Len(call.cmds) : call'.cmds[a] = call.cmds[a]
  <2>1. call.cmds \in Seq(1 .. n) /\ n \in 1 .. n
    BY <1>1, <1>6
  <2> HIDE DEF n
  <2> QED
    BY <1>1, <1>5, <2>1, AppendProperties, LenProperties
<1>8. CallInOrder'
  <2>1. Increasing(call'.cmds)
    <3> SUFFICES ASSUME NEW a \in 1 .. i, NEW b \in 1 .. i, a < b
                 PROVE  call'.cmds[a] < call'.cmds[b]
      BY <1>7 DEF Increasing
    <3>1. CASE b = i
      <4>1. a \in 1 .. Len(call.cmds) /\ call'.cmds[b] = n
        BY <1>1, <1>7, <3>1
      <4>2. call'.cmds[a] \in 1 .. Len(tasks)
        BY <1>1, <1>7, <4>1
      <4> QED
        BY <1>1, <4>1, <4>2
    <3>2. CASE b # i
      <4>1. a \in 1 .. Len(call.cmds) /\ b \in 1 .. Len(call.cmds)
        BY <1>1, <3>2
      <4>2. call.cmds[a] < call.cmds[b]
        BY <1>1, <4>1 DEF OutputInv, CallInOrder, Increasing
      <4> QED
        BY <1>7, <4>1, <4>2
    <3> QED
      BY <3>1, <3>2
  <2>2. ASSUME call.kind = "run", NEW a \in 1 .. i
        PROVE  tasks'[call'.cmds[a]].key = <<a, hosts[a]>>
    <3>1. CASE a = i
      <4>1. tasks'[n] = new
        BY <1>1, <1>2, AppendProperties
      <4> QED
        BY <1>2, <1>7, <3>1, <4>1
    <3>2. CASE a # i
      <4>1. a \in 1 .. Len(call.cmds)
        BY <1>1, <3>2
      <4>2. tasks[call.cmds[a]].key = <<a, hosts[a]>>
        BY <1>1, <1>2, <2>2, <4>1 DEF OutputInv, CallInOrder
      <4> QED
        BY <1>1, <1>3, <1>7, <4>1, <4>2
    <3> QED
      BY <3>1, <3>2
  <2>3. /\ cmds' \in Seq(1 .. n) /\ Increasing(cmds')
        /\ calls' \in 0 .. MaxCalls /\ overlapped' \in BOOLEAN
    BY <1>2, <1>6 DEF OutputInv, CallInOrder
  <2> QED
    BY <1>2, <1>3, <1>5, <1>7, <2>1, <2>2, <2>3 DEF CallInOrder
<1>9. CollectedFinished'
  BY <1>2, <1>3, <1>5, <1>6 DEF OutputInv, CollectedFinished
<1>10. ResultInv'
  <2>1. result = NoResult
    BY <1>2 DEF OutputInv, ResultInv, ResultTypes
  <2> QED
    BY <1>1, <1>2, <1>3, <2>1, ResultKept DEF OutputInv
<1> QED
  BY <1>8, <1>9, <1>10 DEF OutputInv

\* A call that ends without output leaves nothing to show but types.
LEMMA EndOutput ==
    ASSUME CacheInv, OutputInv, NEW kind \in {"greenlets", "raised"}, Reply(kind, <<>>),
           cmds' \in {cmds, call.cmds}, UNCHANGED <<tasks, calls, overlapped, collected>>
    PROVE  OutputInv'
<1>1. call' = Idle /\ result'.kind = kind /\ result'.call = call /\ result'.outs = <<>>
  BY DEF Reply
<1>2. CallInOrder'
  <2>1. Increasing(call'.cmds) /\ call'.cmds \in Seq(1 .. Len(tasks)) /\ call'.pc = "idle"
    BY <1>1, IdleIs, NoGreenlets
  <2> QED
    BY <2>1 DEF OutputInv, CallInOrder
<1>3. CollectedFinished'
  BY <1>1, IdleIs DEF OutputInv, CollectedFinished
<1>4. ResultInv'
  BY <1>1, IdleIs, ResultWithout DEF CacheInv, CacheTypes
<1> QED
  BY <1>2, <1>3, <1>4 DEF OutputInv

\* A call that goes on waits for the same greenlets.
LEMMA GoesOnOutput ==
    ASSUME CacheInv, OutputInv, call.pc # "idle", call'.cmds = call.cmds, call'.kind = call.kind,
           call'.pc # "idle", cmds' \in {cmds, call.cmds},
           UNCHANGED <<hosts, tasks, calls, overlapped, result>>
    PROVE  CallInOrder' /\ ResultInv'
<1>1. CallInOrder'
  BY DEF OutputInv, CallInOrder
<1>2. result = NoResult /\ Len(tasks) \in Nat
  BY LenProperties DEF OutputInv, ResultInv, ResultTypes, CacheInv, CacheTypes
<1>3. ResultInv'
  BY <1>2, ResultKept DEF OutputInv
<1> QED
  BY <1>1, <1>3

LEMMA BlockAllSpawnedJoinedOutput ==
    ASSUME CacheInv, OutputInv, Block \/ AllSpawned \/ Joined
    PROVE  OutputInv'
<1>1. call \in Call /\ UNCHANGED <<hosts, tasks, calls, overlapped, collected>>
  BY DEF CacheInv, CacheTypes, Block, AllSpawned, Joined
<1>2. CASE Block
  <2>1. /\ call' = [call EXCEPT !.waits = TRUE] /\ call.pc = "spawning"
        /\ UNCHANGED <<cmds, result>>
    BY <1>2 DEF Block
  <2>2. call'.cmds = call.cmds /\ call'.kind = call.kind /\ call'.pc = "spawning"
    BY <1>1, <2>1 DEF Call
  <2>3. CollectedFinished'
    BY <1>1, <2>2 DEF OutputInv, CollectedFinished
  <2>4. CallInOrder' /\ ResultInv'
    BY <1>1, <2>1, <2>2, GoesOnOutput
  <2> QED
    BY <2>3, <2>4 DEF OutputInv
<1>3. CASE AllSpawned /\ call.kind \in {"connect", "copy"}
  <2>1. Reply("greenlets", <<>>) /\ cmds' \in {cmds, call.cmds}
    BY <1>3 DEF AllSpawned
  <2> QED
    BY <1>1, <2>1, EndOutput
<1>4. CASE AllSpawned /\ call.kind \notin {"connect", "copy"}
  <2>1. /\ call.pc = "spawning" /\ cmds' \in {cmds, call.cmds} /\ result' = result
        /\ \/ call' = [call EXCEPT !.pc = "joining"] /\ call.kind = "run"
           \/ call' = [call EXCEPT !.pc = "getting"] /\ call.kind = "shell"
    <3>1. call.kind \in {"run", "shell"}
      BY <1>4 DEF AllSpawned, CacheInv, CacheTypes, Kinds
    <3> QED
      BY <1>4, <3>1 DEF AllSpawned
  <2>2. /\ call'.cmds = call.cmds /\ call'.kind = call.kind
        /\ call'.pc = "joining" \/ (call'.pc = "getting" /\ call.kind # "run")
    BY <1>1, <2>1 DEF Call
  <2>3. CollectedFinished'
    BY <1>1, <2>2 DEF OutputInv, CollectedFinished
  <2>4. CallInOrder' /\ ResultInv'
    BY <1>1, <2>1, <2>2, GoesOnOutput
  <2> QED
    BY <2>3, <2>4 DEF OutputInv
<1>5. CASE Joined
  <2>1. /\ call.pc = "joining" /\ UNCHANGED <<cmds, result>>
        /\ call' = [call EXCEPT !.pc = "getting", !.expired = ~AllFinished]
    BY <1>5 DEF Joined
  <2>2. /\ call'.cmds = call.cmds /\ call'.kind = call.kind /\ call'.pc = "getting"
        /\ call'.expired = ~AllFinished
    BY <1>1, <2>1 DEF Call
  <2>3. AllFinished' = AllFinished
    BY <1>1, <2>2 DEF AllFinished, Finished
  <2>4. CollectedFinished'
    BY <1>1, <2>2, <2>3 DEF OutputInv, CollectedFinished
  <2>5. CallInOrder' /\ ResultInv'
    BY <1>1, <2>1, <2>2, GoesOnOutput
  <2> QED
    BY <2>4, <2>5 DEF OutputInv
<1> QED
  BY <1>2, <1>3, <1>4, <1>5

\* What has finished is got in the order of the commands, which is all of them unless the
\* timer has expired.
LEMMA GettersStartOutput ==
    ASSUME CacheInv, OutputInv, GettersStart
    PROVE  OutputInv'
<1> DEFINE S == {t \in ToSet(call.cmds) : Finished(t)}
<1>1. /\ call \in Call /\ call.pc = "getting" /\ call' = [call EXCEPT !.pc = "collecting"]
      /\ collected' \in InOrder(S) /\ UNCHANGED <<hosts, tasks, cmds, calls, overlapped, result>>
  BY DEF CacheInv, CacheTypes, GettersStart
<1>2. /\ call'.cmds = call.cmds /\ call'.kind = call.kind /\ call'.pc = "collecting"
      /\ call'.expired = call.expired
  BY <1>1 DEF Call
<1>3. /\ call.cmds \in Seq(Nat) /\ call.cmds \in Seq(1 .. Len(tasks)) /\ Increasing(call.cmds)
      /\ ToSet(call.cmds) \subseteq 1 .. Len(tasks) /\ Len(tasks) \in Nat
  BY <1>1, LenProperties, ElementOfSeq DEF CacheInv, CacheTypes, OutputInv, CallInOrder, Call, ToSet
<1>4. S \in SUBSET Nat /\ IsFiniteSet(S) /\ S \subseteq 1 .. Len(tasks)
  <2>1. IsFiniteSet(ToSet(call.cmds))
    BY <1>3, IncreasingDistinct, DistinctLen
  <2> QED
    BY <1>3, <2>1, FS_Subset
<1>5. /\ collected' \in Seq(S) /\ Increasing(collected') /\ Distinct(collected')
      /\ ToSet(collected') = S
  <2> HIDE DEF S
  <2> QED
    BY <1>1, <1>4, InOrderIs
<1>6. collected' \in Seq(1 .. Len(tasks)) /\ collected' \in Seq(Nat)
  BY <1>4, <1>5, SeqMonotonic
<1>7. ASSUME call.kind = "run", ~call.expired PROVE collected' = call.cmds
  <2>1. \A i \in DOMAIN call.cmds : Finished(call.cmds[i])
    BY <1>1, <1>7 DEF OutputInv, CollectedFinished, AllFinished
  <2>2. S = ToSet(call.cmds)
    BY <2>1 DEF ToSet
  <2> QED
    BY <1>3, <1>5, <1>6, <2>2, IncreasingUnique
<1>8. S' = S
  BY <1>1, <1>2 DEF Finished
<1>9. CollectedFinished'
  BY <1>1, <1>2, <1>5, <1>6, <1>7, <1>8 DEF CollectedFinished
<1>10. CallInOrder' /\ ResultInv'
  BY <1>1, <1>2, GoesOnOutput
<1> QED
  BY <1>9, <1>10 DEF OutputInv

\* Output is returned when each greenlet of the call has been collected.
LEMMA ReturnOutput ==
    ASSUME CacheInv, OutputInv, Return
    PROVE  OutputInv'
<1>1. /\ call \in Call /\ call.pc = "collecting" /\ Failures = {} /\ Len(collected) = Len(call.cmds)
      /\ call' = Idle /\ result'.kind = "output" /\ result'.call = call
      /\ result'.outs = [i \in DOMAIN collected |-> OutputOf(collected[i])]
      /\ UNCHANGED <<hosts, tasks, cmds, calls, overlapped, collected>>
  BY DEF CacheInv, CacheTypes, Return, Reply
<1>2. /\ call.cmds \in Seq(Nat) /\ call.cmds \in Seq(1 .. Len(tasks)) /\ Increasing(call.cmds)
      /\ Len(call.cmds) \in Nat /\ DOMAIN call.cmds = 1 .. Len(call.cmds)
      /\ collected \in Seq(1 .. Len(tasks)) /\ Distinct(collected)
      /\ ToSet(collected) = {t \in ToSet(call.cmds) : Finished(t)}
      /\ tasks \in Seq(Task) /\ hosts \in Seq(Host) /\ Len(tasks) \in Nat /\ Len(hosts) \in Nat
      /\ DOMAIN collected = 1 .. Len(collected)
  BY <1>1, LenProperties
     DEF CacheInv, CacheTypes, OutputInv, CallInOrder, CollectedFinished, Call
<1>3. ToSet(collected) = ToSet(call.cmds) /\ Distinct(call.cmds)
  <2>1. Distinct(call.cmds) /\ ToSet(collected) \subseteq ToSet(call.cmds)
    BY <1>2, IncreasingDistinct
  <2> QED
    BY <1>1, <1>2, <2>1, DistinctAll
<1>4. ASSUME NEW t \in ToSet(call.cmds)
      PROVE  /\ Finished(t) /\ t \in 1 .. Len(tasks) /\ tasks[t] \in Task
             /\ IndexOf(t) \in DOMAIN call.cmds /\ call.cmds[IndexOf(t)] = t
             /\ IndexOf(t) \in 1 .. Len(hosts)
             /\ call.stop => tasks[t].pc = "done"
  <2>1. Finished(t)
    BY <1>2, <1>3
  <2>2. IndexOf(t) \in DOMAIN call.cmds /\ call.cmds[IndexOf(t)] = t
    BY DEF IndexOf, ToSet
  <2>3. t \in 1 .. Len(tasks) /\ tasks[t] \in Task
    BY <1>2, <2>2, ElementOfSeq
  <2>4. IndexOf(t) \in 1 .. Len(hosts)
    BY <1>1, <1>2, <2>2 DEF Failures
  <2>5. call.stop => tasks[t].pc = "done"
    BY <1>1, <1>3, <2>1 DEF Failures, Finished
  <2> QED
    BY <2>1, <2>2, <2>3, <2>4, <2>5
<1>5. \A i \in DOMAIN collected : collected[i] \in ToSet(call.cmds)
  BY <1>3 DEF ToSet
<1>6. ASSUME NEW t \in ToSet(call.cmds)
      PROVE  /\ OutputOf(t) \in Output /\ OutputOf(t).task = t
             /\ call.stop => OutputOf(t).ok
             /\ call.kind = "run" => OutputOf(t).host = tasks[t].key[2]
  <2>1. tasks[t].key \in Nat \X Host /\ hosts[IndexOf(t)] \in Host
    BY <1>2, <1>4, ElementOfSeq DEF Task, Key
  <2>2. OutputOf(t) \in Output /\ OutputOf(t).task = t
    <3>1. OutputOf(t).host \in Host /\ OutputOf(t).ok \in BOOLEAN /\ t \in Nat
      BY <1>4, <2>1 DEF OutputOf
    <3> QED
      BY <3>1 DEF OutputOf, Output
  <2>3. call.stop => OutputOf(t).ok
    BY <1>4 DEF OutputOf
  <2>4. call.kind = "run" => tasks[t].key = <<IndexOf(t), hosts[IndexOf(t)]>>
    BY <1>1, <1>4 DEF OutputInv, CallInOrder
  <2>5. call.kind = "run" => OutputOf(t).host = tasks[t].key[2]
    BY <2>4 DEF OutputOf
  <2> QED
    BY <2>2, <2>3, <2>5
<1>7. /\ DOMAIN result'.outs = DOMAIN collected
      /\ \A i \in DOMAIN collected : result'.outs[i] = OutputOf(collected[i])
  BY <1>1
<1>8. result'.outs \in Seq(Output) /\ Len(result'.outs) = Len(call.cmds)
  <2>1. result'.outs \in [1 .. Len(call.cmds) -> Output]
    BY <1>1, <1>2, <1>5, <1>6
  <2>2. result'.outs \in Seq(Output)
    BY <1>2, <2>1, FunctionSeq
  <2>3. Len(result'.outs) \in Nat /\ 1 .. Len(result'.outs) = 1 .. Len(call.cmds)
    BY <2>1, <2>2, LenProperties
  <2> QED
    BY <1>2, <2>2, <2>3
<1>9. ResultTypes'
  BY <1>1, <1>4, <1>5, <1>6, <1>7, <1>8, IdleIs DEF ResultTypes
<1>10. OneOutputPerHost'
  <2>1. {result'.outs[i].task : i \in DOMAIN result'.outs} = ToSet(collected)
    BY <1>5, <1>6, <1>7 DEF ToSet
  <2> QED
    BY <1>1, <1>3, <1>8, <2>1 DEF OneOutputPerHost
<1>11. OrderUnlessExpired'
  <2> SUFFICES ASSUME call.kind = "run", ~call.expired, NEW i \in DOMAIN collected
               PROVE  result'.outs[i].task = call.cmds[i]
    BY <1>1, <1>7 DEF OrderUnlessExpired
  <2>1. collected = call.cmds
    BY <1>1 DEF OutputInv, CollectedFinished
  <2> QED
    BY <1>5, <1>6, <1>7, <2>1
<1>12. NoFailureSwallowed'
  BY <1>1, <1>5, <1>6, <1>7 DEF NoFailureSwallowed
<1>13. RunOutputNamesItsHost'
  BY <1>1, <1>5, <1>6, <1>7 DEF RunOutputNamesItsHost
<1>14. CallInOrder'
  <2>1. Increasing(call'.cmds) /\ call'.cmds \in Seq(1 .. Len(tasks)) /\ call'.pc = "idle"
    BY <1>1, IdleIs, NoGreenlets
  <2> QED
    BY <1>1, <2>1 DEF OutputInv, CallInOrder
<1>15. CollectedFinished'
  BY <1>1, <1>2, IdleIs DEF CollectedFinished
<1> QED
  BY <1>9, <1>10, <1>11, <1>12, <1>13, <1>14, <1>15 DEF OutputInv, ResultInv, Answer

\* A greenlet that ends is collected if its call is collecting, and it had not ended before.
LEMMA TaskOutput ==
    ASSUME CacheInv, OutputInv, NEW t \in DOMAIN tasks, TaskStep(t)
    PROVE  OutputInv'
<1>1. /\ tasks \in Seq(Task) /\ Len(tasks) \in Nat /\ t \in 1 .. Len(tasks) /\ tasks[t] \in Task
      /\ UNCHANGED <<hosts, cmds, call, result, calls, overlapped>> /\ CacheTypes
      /\ call.cmds \in Seq(1 .. Len(tasks)) /\ collected \in Seq(1 .. Len(tasks))
  BY LenProperties, ElementOfSeq DEF CacheInv, CacheTypes, TaskStep, OutputInv, CallInOrder,
     CollectedFinished
<1>2. ~Finished(t)
  BY DEF TaskStep, UseCached, MustConnect, NotConfigured, Connected, ConnectFails, Executed,
         Finished
<1>3. PICK pc \in TaskStates, client \in Nat : Proceed(t, pc, client)
  <2>1. CASE UseCached(t)
    <3>1. PICK k \in Lookup(t) : WithClient(t, host_clients[k])
      BY <2>1 DEF UseCached
    <3>2. host_clients[k] \in Nat
      BY <1>1, <3>1 DEF Lookup, CacheInv, OwnClients
    <3> QED
      BY <3>1, <3>2 DEF WithClient, TaskStates
  <2>2. CASE Connected(t)
    <3>1. Len(clients') \in Nat
      BY <1>1, <2>2, AppendProperties DEF Connected, CacheTypes, Task
    <3> QED
      BY <2>2, <3>1 DEF Connected, WithClient, TaskStates
  <2>3. CASE MustConnect(t) \/ NotConfigured(t) \/ ConnectFails(t)
    BY <2>3 DEF MustConnect, NotConfigured, ConnectFails, TaskStates
  <2>4. CASE Executed(t)
    BY <1>1, <2>4 DEF Executed, TaskStates, Task
  <2> QED
    BY <2>1, <2>2, <2>3, <2>4 DEF TaskStep
<1>4. /\ tasks' \in Seq(Task) /\ Len(tasks') = Len(tasks) /\ tasks'[t].pc = pc
      /\ \A u \in 1 .. Len(tasks) : tasks'[u].key = tasks[u].key
      /\ \A u \in 1 .. Len(tasks) : u # t => tasks'[u] = tasks[u]
  BY <1>1, <1>3, ProceedEffect
<1>5. /\ \A u \in 1 .. Len(tasks) :
            Finished(u)' <=> Finished(u) \/ (u = t /\ pc \in {"done", "failed"})
      /\ ToSet(call.cmds) \subseteq 1 .. Len(tasks)
  <2>1. ToSet(call.cmds) \subseteq 1 .. Len(tasks)
    BY <1>1, ElementOfSeq, LenProperties DEF ToSet
  <2> QED
    BY <1>2, <1>4, <2>1 DEF Finished
<1>6. CallInOrder'
  <2>1. \A i \in DOMAIN call.cmds : call.cmds[i] \in 1 .. Len(tasks)
    BY <1>5 DEF ToSet
  <2> QED
    BY <1>1, <1>4, <2>1 DEF OutputInv, CallInOrder
<1>7. ResultInv'
  <2>1. call'.pc # "idle" => result = NoResult
    BY <1>1 DEF OutputInv, ResultInv, ResultTypes
  <2> QED
    BY <1>1, <1>4, <2>1, ResultKept DEF OutputInv
<1> DEFINE S == {u \in ToSet(call.cmds) : Finished(u)}
<1>8. CASE call.pc = "collecting" /\ t \in ToSet(call.cmds) /\ pc \in {"done", "failed"}
  <2>1. collected' = Append(collected, t) /\ Distinct(collected) /\ ToSet(collected) = S
    BY <1>3, <1>8 DEF Proceed, OutputInv, CollectedFinished
  <2>2. /\ collected' \in Seq(1 .. Len(tasks)) /\ Len(collected') = Len(collected) + 1
        /\ \A i \in 1 .. Len(collected) : collected'[i] = collected[i]
        /\ collected'[Len(collected) + 1] = t /\ Len(collected) \in Nat
        /\ DOMAIN collected = 1 .. Len(collected) /\ DOMAIN collected' = 1 .. Len(collected) + 1
    BY <1>1, <2>1, AppendProperties, LenProperties
  <2>3. \A i \in DOMAIN collected : collected[i] # t
    BY <1>2, <2>1 DEF ToSet
  <2>4. Distinct(collected')
    BY <2>1, <2>2, <2>3 DEF Distinct
  <2>5. ToSet(collected') = ToSet(collected) \union {t}
    BY <2>2 DEF ToSet
  <2>6. S' = S \union {t}
    BY <1>1, <1>5, <1>8
  <2>7. ~(call.kind = "run" /\ ~call.expired)
    <3>1. t \notin ToSet(collected)
      BY <1>2, <2>1
    <3> QED
      BY <1>8, <3>1 DEF OutputInv, CollectedFinished
  <2> QED
    BY <1>1, <1>4, <1>6, <1>7, <1>8, <2>1, <2>2, <2>4, <2>5, <2>6, <2>7
       DEF OutputInv, CollectedFinished
<1>9. CASE ~(call.pc = "collecting" /\ t \in ToSet(call.cmds) /\ pc \in {"done", "failed"})
  <2>1. collected' = collected
    BY <1>3, <1>9 DEF Proceed
  <2>2. call.pc = "collecting" => S' = S
    BY <1>1, <1>5, <1>9
  <2>3. AllFinished => AllFinished'
    <3>1. \A i \in DOMAIN call.cmds : call.cmds[i] \in 1 .. Len(tasks)
      BY <1>5 DEF ToSet
    <3> QED
      BY <1>1, <1>5, <3>1 DEF AllFinished
  <2>4. CollectedFinished'
    BY <1>1, <1>4, <2>1, <2>2, <2>3 DEF OutputInv, CollectedFinished
  <2> QED
    BY <1>6, <1>7, <2>4 DEF OutputInv
<1> QED
  BY <1>8, <1>9

LEMMA StepOutputInv == CacheInv /\ OutputInv /\ [Next]_vars => OutputInv'
<1> SUFFICES ASSUME CacheInv, OutputInv, [Next]_vars PROVE OutputInv'
  OBVIOUS
<1>1. CASE UserCall
  BY <1>1, CallOutput
<1>2. CASE Spawn
  BY <1>2, SpawnOutput
<1>3. CASE Block \/ AllSpawned \/ Joined
  BY <1>3, BlockAllSpawnedJoinedOutput
<1>4. CASE HostArgsShort \/ RaiseFailure
  <2>1. Reply("raised", <<>>) /\ UNCHANGED <<tasks, cmds, calls, overlapped, collected>>
    BY <1>4 DEF HostArgsShort, RaiseFailure
  <2> QED
    BY <2>1, EndOutput
<1>5. CASE GettersStart
  BY <1>5, GettersStartOutput
<1>6. CASE Return
  BY <1>6, ReturnOutput
<1>7. CASE \E t \in DOMAIN tasks : TaskStep(t)
  BY <1>7, TaskOutput
<1>8. CASE UNCHANGED vars
  <2>1. UNCHANGED <<hosts, tasks, cmds, call, collected, result, calls, overlapped>>
    BY <1>8 DEF vars
  <2>2. CallInOrder'
    BY <2>1 DEF OutputInv, CallInOrder
  <2>3. CollectedFinished'
    BY <2>1 DEF OutputInv, CollectedFinished, AllFinished, Finished
  <2>4. ResultInv'
    <3>1. Len(tasks) \in Nat /\ (call'.pc # "idle" => result = NoResult)
      BY <2>1, LenProperties DEF CacheInv, CacheTypes, OutputInv, ResultInv, ResultTypes
    <3> QED
      BY <2>1, <3>1, ResultKept DEF OutputInv
  <2> QED
    BY <2>2, <2>3, <2>4 DEF OutputInv
<1> QED
  BY <1>1, <1>2, <1>3, <1>4, <1>5, <1>6, <1>7, <1>8 DEF Next, UserStep

\* What a call of the parallel client returns is one output for each greenlet it spawned, in
\* the order of hosts unless its timer has expired, each with the name of its own host, and
\* without a failure that was to be raised; whatever order the greenlets finish in, and
\* however calls follow one another (run_command, get_last_output).
THEOREM OutputInvariance == Spec => []Inv
<1>1. Spec => []OutputInv
  BY InitOutputInv, StepOutputInv, CacheInvariance, PTL DEF Spec
<1>2. ASSUME CacheInv, OutputInv PROVE Inv
  <2>1. /\ hosts \in Seq(Host) /\ clients \in Seq(Key) /\ tasks \in Seq(Task) /\ call \in Call
        /\ raced \in BOOLEAN /\ overlapped \in BOOLEAN /\ calls \in 0 .. MaxCalls
        /\ DOMAIN tasks = 1 .. Len(tasks) /\ DOMAIN clients = 1 .. Len(clients)
        /\ {call.cmds, cmds, collected} \subseteq Seq(1 .. Len(tasks))
    BY <1>2, LenProperties
       DEF CacheInv, CacheTypes, OutputInv, CallInOrder, CollectedFinished
  <2>2. DOMAIN host_clients \subseteq Key
    <3> SUFFICES ASSUME NEW k \in DOMAIN host_clients PROVE k \in Key
      OBVIOUS
    <3>1. host_clients[k] \in 1 .. Len(clients) /\ clients[host_clients[k]] = k
      BY <1>2 DEF CacheInv, OwnClients
    <3> QED
      BY <2>1, <3>1, ElementOfSeq
  <2>3. \A k \in DOMAIN host_clients : host_clients[k] \in DOMAIN clients
    BY <1>2, <2>1 DEF CacheInv, OwnClients
  <2>4. result.kind \in {"none", "output", "greenlets", "raised"} /\ result.outs \in Seq(Output)
    BY <1>2 DEF OutputInv, ResultInv, ResultTypes
  <2>5. TypeOK
    BY <2>1, <2>2, <2>3, <2>4 DEF TypeOK
  <2> QED
    BY <1>2, <2>5 DEF Inv, OutputInv, ResultInv, Answer
<1> QED
  BY <1>1, <1>2, CacheInvariance, PTL
=============================================================================
