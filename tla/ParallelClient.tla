-------------------------- MODULE ParallelClient --------------------------
(***************************************************************************)
(* The parallel client of pssh/clients/base/parallel.py: the user greenlet *)
(* calls run_command, open_shell, connect_auth, one of the copies or       *)
(* get_last_output, or assigns client.hosts; each call on hosts spawns one *)
(* greenlet per host in a pool of bounded size.  A greenlet looks its host *)
(* up in the client cache, connects and caches a client when there is      *)
(* none, and runs its command or copy.                                     *)
(*                                                                         *)
(* Greenlets are cooperative, so the user greenlet runs alone until it     *)
(* waits: for a pool slot, for the commands, for their output, or in code  *)
(* of the user's own between two calls.                                    *)
(***************************************************************************)
EXTENDS Integers, SequencesExt, Greenlets

CONSTANTS Host,       \* host names
          HostLists,  \* host lists a user assigns: sequences of hosts
          WithConfig, \* host_config is given
          PoolSize,   \* pool_size
          Timed,      \* self.timeout is set
          MaxCalls    \* bound: calls that spawn greenlets, and assignments

ASSUME ClientAssumption ==
    /\ HostLists \subseteq Seq(Host)
    /\ PoolSize \in Nat \ {0} /\ {Timed, WithConfig} \subseteq BOOLEAN /\ MaxCalls \in Nat

VARIABLES
    host_config,   \* self.host_config: its number of entries, 0 for None
    hosts,         \* self._hosts
    host_clients,  \* self._host_clients: <<index, host>> -> client
    clients,       \* history: the <<index, host>> each client was made for
    tasks,         \* history: every pool greenlet spawned
    cmds,          \* self.cmds: the greenlets of the last run_command
    call,          \* what the user greenlet is doing
    collected,     \* greenlets whose output was got, in order of completion
    result,        \* what the last call returned or raised
    calls,         \* history: calls and assignments made
    raced,         \* history: hosts were assigned while greenlets were running
    overlapped     \* history: a call spawned greenlets while others were running

vars == <<host_config, hosts, host_clients, clients, tasks, cmds, call, collected, result,
          calls, raced, overlapped>>

Key == Nat \X Host
Kinds == {"run", "shell", "connect", "copy"}
CallKinds == Kinds \union {"last"}
TaskStates == {"new", "connecting", "executing", "done", "failed"}
Task == [kind : Kinds, key : Key, pc : TaskStates, client : Nat]
Output == [host : Host, ok : BOOLEAN, task : Nat]

\* A call in progress: its greenlets so far, whether it waits for a pool slot,
\* stop_on_errors, the number of host_args, and whether run_command's timer has
\* expired.
Call == [pc : {"idle", "spawning", "joining", "getting", "collecting"},
         kind : CallKinds, cmds : Seq(Nat), waits : BOOLEAN, stop : BOOLEAN,
         nargs : Nat, expired : BOOLEAN]

Idle == [pc |-> "idle", kind |-> "run", cmds |-> <<>>, waits |-> FALSE,
         stop |-> FALSE, nargs |-> 0, expired |-> FALSE]

NoResult == [kind |-> "none", call |-> Idle, outs |-> <<>>]

Finished(t) == tasks[t].pc \in {"done", "failed"}
Running == {t \in DOMAIN tasks : ~Finished(t)}
PoolFull == Cardinality(Running) >= PoolSize

\* The user greenlet is not in the middle of code that does not wait: it waits for
\* a pool slot, and open_shell goes from the last spawn to joinall without a pause.
UserWaits ==
    /\ call.pc = "spawning" => call.waits
    /\ call.pc = "getting" => call.kind # "shell"

Init ==
    /\ hosts \in HostLists /\ host_config = IF WithConfig THEN Len(hosts) ELSE 0
    /\ host_clients = <<>> /\ clients = <<>> /\ tasks = <<>> /\ cmds = <<>>
    /\ call = Idle /\ collected = <<>> /\ result = NoResult
    /\ calls = 0 /\ raced = FALSE /\ overlapped = FALSE

---------------------------------------------------------------------------
(* The user greenlet.                                                      *)

UserFree == call.pc = "idle" /\ calls < MaxCalls

Begin(c) ==
    /\ UserFree
    /\ call' = c
    /\ calls' = calls + 1
    /\ result' = NoResult /\ collected' = <<>>
    /\ overlapped' = (overlapped \/ (c.pc = "spawning" /\ Running # {}))
    /\ UNCHANGED <<host_config, hosts, host_clients, clients, tasks, cmds, raced>>

\* run_command; host_args may hold fewer entries than there are hosts; () is as None.
RunCommand(stop, nargs) ==
    Begin([Idle EXCEPT !.pc = "spawning", !.stop = stop, !.nargs = nargs])

OpenShell ==
    Begin([Idle EXCEPT !.pc = "spawning", !.kind = "shell", !.stop = TRUE,
                       !.nargs = Len(hosts)])

\* connect_auth returns its greenlets at once.
ConnectAuth ==
    Begin([Idle EXCEPT !.pc = "spawning", !.kind = "connect", !.nargs = Len(hosts)])

\* So do the four ways to copy; copy_args may hold fewer entries than there are hosts.
CopyFiles(nargs) ==
    Begin([Idle EXCEPT !.pc = "spawning", !.kind = "copy", !.nargs = nargs])

\* Over SFTP an empty copy_args is as None.
CopyFile(nargs) == nargs > 0 /\ CopyFiles(nargs)

CopyRemoteFile(nargs) == nargs > 0 /\ CopyFiles(nargs)

\* Over SCP it is not.
ScpSend(nargs) == CopyFiles(nargs)

ScpRecv(nargs) == CopyFiles(nargs)

\* get_last_output after a run_command.
GetLastOutput ==
    /\ cmds # <<>>
    /\ Begin([Idle EXCEPT !.pc = "getting", !.kind = "last", !.cmds = cmds])

\* Mutant of Evicted: only positions beyond the new list.
EvictedBeyond(new) == {k \in DOMAIN host_clients : k[1] > Len(new)}

\* Cache keys of the assigned-over list that are not in the new one.
Evicted(new) ==
    {k \in DOMAIN host_clients :
        /\ k[1] \in DOMAIN hosts /\ k[2] = hosts[k[1]]
        /\ ~(k[1] \in DOMAIN new /\ k[2] = new[k[1]])}

\* The setter of hosts.
AssignHosts(new) ==
    /\ UserFree
    /\ calls' = calls + 1
    /\ host_clients' = [k \in DOMAIN host_clients \ Evicted(new) |-> host_clients[k]]
    /\ hosts' = new
    /\ raced' = (raced \/ Running # {})
    /\ UNCHANGED <<host_config, clients, tasks, cmds, call, collected, result, overlapped>>

\* pool.spawn of the next host's greenlet.
Spawn ==
    LET i == Len(call.cmds) + 1 IN
    /\ call.pc = "spawning" /\ i <= Len(hosts) /\ i <= call.nargs /\ ~PoolFull
    /\ tasks' = Append(tasks, [kind |-> call.kind, key |-> <<i, hosts[i]>>,
                               pc |-> "new", client |-> 0])
    /\ call' = [call EXCEPT !.cmds = Append(@, Len(tasks')), !.waits = FALSE]
    /\ UNCHANGED <<host_config, hosts, host_clients, clients, cmds, collected, result, calls,
                   raced, overlapped>>

\* The pool is full: spawn waits for a slot.
Block ==
    /\ call.pc = "spawning" /\ ~call.waits /\ PoolFull
    /\ Len(call.cmds) < Len(hosts) /\ Len(call.cmds) < call.nargs
    /\ call' = [call EXCEPT !.waits = TRUE]
    /\ UNCHANGED <<host_config, hosts, host_clients, clients, tasks, cmds, collected, result,
                   calls, raced, overlapped>>

Reply(kind, outs) ==
    /\ result' = [kind |-> kind, call |-> call, outs |-> outs]
    /\ call' = Idle

\* host_args ran out: what was spawned runs on, and is not in self.cmds.
HostArgsShort ==
    /\ call.pc = "spawning"
    /\ Len(call.cmds) = call.nargs /\ call.nargs < Len(hosts)
    /\ Reply("raised", <<>>)
    /\ UNCHANGED <<host_config, hosts, host_clients, clients, tasks, cmds, collected, calls,
                   raced, overlapped>>

AllSpawned ==
    /\ call.pc = "spawning" /\ Len(call.cmds) = Len(hosts)
    /\ cmds' = IF call.kind = "run" THEN call.cmds ELSE cmds
    /\ CASE call.kind \in {"connect", "copy"} -> Reply("greenlets", <<>>)
         [] call.kind = "run"   -> call' = [call EXCEPT !.pc = "joining"] /\ UNCHANGED result
         [] call.kind = "shell" -> call' = [call EXCEPT !.pc = "getting"] /\ UNCHANGED result
    /\ UNCHANGED <<host_config, hosts, host_clients, clients, tasks, collected, calls, raced,
                   overlapped>>

AllFinished == \A i \in DOMAIN call.cmds : Finished(call.cmds[i])

\* Mutant of Joined: the first command to finish ends the wait.
JoinedByFirst ==
    /\ call.pc = "joining"
    /\ \E i \in DOMAIN call.cmds : Finished(call.cmds[i])
    /\ call' = [call EXCEPT !.pc = "getting"]
    /\ UNCHANGED <<host_config, hosts, host_clients, clients, tasks, cmds, collected, result,
                   calls, raced, overlapped>>

\* joinall(cmds, timeout=self.timeout) returns.
Joined ==
    /\ call.pc = "joining"
    /\ AllFinished \/ Timed
    /\ call' = [call EXCEPT !.pc = "getting", !.expired = ~AllFinished]
    /\ UNCHANGED <<host_config, hosts, host_clients, clients, tasks, cmds, collected, result,
                   calls, raced, overlapped>>

\* The greenlets that get the output start, in the order of the commands: what has
\* finished by now is got at once.  joinall hands it on in order of completion.
GettersStart ==
    /\ call.pc = "getting"
    /\ collected' \in InOrder({t \in ToSet(call.cmds) : Finished(t)})
    /\ call' = [call EXCEPT !.pc = "collecting"]
    /\ UNCHANGED <<host_config, hosts, host_clients, clients, tasks, cmds, result, calls, raced,
                   overlapped>>

\* Position of a greenlet among those of the call: the index a getter was given.
IndexOf(t) == CHOOSE i \in DOMAIN call.cmds : call.cmds[i] = t

\* host_config goes by position, and is not looked at when hosts are assigned.
Configured(i) == host_config = 0 \/ i <= host_config

\* Mutant of Failures: errors of hosts are left to the output.
FailuresIgnored == IF call.kind = "shell"
                   THEN {t \in ToSet(collected) : tasks[t].pc = "failed"} ELSE {}

\* What makes a getter, and joinall with it, raise: a failed command when errors are
\* to be raised, and an index that self.hosts no longer has or host_config never had.
Failures ==
    (IF call.stop THEN {t \in ToSet(collected) : tasks[t].pc = "failed"} ELSE {})
        \union {t \in ToSet(call.cmds) : IndexOf(t) > Len(hosts) \/ ~Configured(IndexOf(t))}

\* Mutant of OutputOf: host names are looked up by the order of completion.
OutputOfNth(t) ==
    [host |-> hosts[CHOOSE i \in DOMAIN collected : collected[i] = t],
     ok |-> tasks[t].pc = "done", task |-> t]

\* A command that ran has its host's output; one that failed gets an output made
\* up from the host list as it is now.
OutputOf(t) ==
    [host |-> IF tasks[t].pc = "done" THEN tasks[t].key[2] ELSE hosts[IndexOf(t)],
     ok |-> tasks[t].pc = "done", task |-> t]

\* joinall(.., raise_error=True) raises the first failure it sees, whatever else
\* is still running.
RaiseFailure ==
    /\ call.pc = "collecting" /\ Failures # {}
    /\ Reply("raised", <<>>)
    /\ UNCHANGED <<host_config, hosts, host_clients, clients, tasks, cmds, collected, calls,
                   raced, overlapped>>

\* Mutant of Return: what is not there by now is left out.
ReturnEarly ==
    /\ call.pc = "collecting" /\ Failures = {}
    /\ Reply("output", [i \in DOMAIN collected |-> OutputOf(collected[i])])
    /\ UNCHANGED <<host_config, hosts, host_clients, clients, tasks, cmds, collected, calls,
                   raced, overlapped>>

Return ==
    /\ call.pc = "collecting" /\ Failures = {}
    /\ Len(collected) = Len(call.cmds)
    /\ Reply("output", [i \in DOMAIN collected |-> OutputOf(collected[i])])
    /\ UNCHANGED <<host_config, hosts, host_clients, clients, tasks, cmds, collected, calls,
                   raced, overlapped>>

---------------------------------------------------------------------------
(* The greenlets of the pool.                                              *)

\* Mutant of Proceed: no getter picks up what ends late.
ProceedUnseen(t, pc, client) ==
    /\ tasks' = [tasks EXCEPT ![t].pc = pc, ![t].client = client]
    /\ UNCHANGED collected

\* A greenlet goes on; one that ends is picked up by a waiting getter.
Proceed(t, pc, client) ==
    /\ tasks' = [tasks EXCEPT ![t].pc = pc, ![t].client = client]
    /\ collected' = IF call.pc = "collecting" /\ t \in ToSet(call.cmds)
                       /\ pc \in {"done", "failed"}
                    THEN Append(collected, t) ELSE collected

\* Mutant of Lookup: the cache is not consulted.
LookupNothing(t) == {}

\* Mutant of Lookup: the host alone is the key.
LookupByHost(t) ==
    {k \in DOMAIN host_clients : k[2] = tasks[t].key[2]}

\* The cached client of a greenlet's host.
Lookup(t) == {k \in DOMAIN host_clients : k = tasks[t].key}

\* What a greenlet does once it has a client.
WithClient(t, client) ==
    Proceed(t, IF tasks[t].kind = "connect" THEN "done" ELSE "executing", client)

UseCached(t) ==
    /\ tasks[t].pc = "new"
    /\ \E k \in Lookup(t) : WithClient(t, host_clients[k])
    /\ UNCHANGED <<host_clients, clients>>

\* Mutant of MustConnect: the cache entry is made before there is a client.
MustConnectReserving(t) ==
    /\ tasks[t].pc = "new" /\ Lookup(t) = {}
    /\ Proceed(t, "connecting", 0)
    /\ host_clients' = [k \in DOMAIN host_clients \union {tasks[t].key} |->
                            IF k = tasks[t].key THEN 0 ELSE host_clients[k]]
    /\ UNCHANGED clients

MustConnect(t) ==
    /\ tasks[t].pc = "new" /\ Lookup(t) = {} /\ Configured(tasks[t].key[1])
    /\ Proceed(t, "connecting", 0)
    /\ UNCHANGED <<host_clients, clients>>

\* _get_host_config raises IndexError: the host list has outgrown host_config.
NotConfigured(t) ==
    /\ tasks[t].pc = "new" /\ Lookup(t) = {} /\ ~Configured(tasks[t].key[1])
    /\ Proceed(t, "failed", 0)
    /\ UNCHANGED <<host_clients, clients>>

Store(key, client) ==
    host_clients' = [k \in DOMAIN host_clients \union {key} |->
                        IF k = key THEN client ELSE host_clients[k]]

\* _make_ssh_client returns, after key file, connection and authentication.
Connected(t) ==
    /\ tasks[t].pc = "connecting"
    /\ clients' = Append(clients, tasks[t].key)
    /\ Store(tasks[t].key, Len(clients'))
    /\ WithClient(t, Len(clients'))

ConnectFails(t) ==
    /\ tasks[t].pc = "connecting"
    /\ Proceed(t, "failed", 0)
    /\ UNCHANGED <<host_clients, clients>>

\* client.run_command, client.open_shell or a copy ends, well or not.
Executed(t) ==
    /\ tasks[t].pc = "executing"
    /\ \E pc \in {"done", "failed"} : Proceed(t, pc, tasks[t].client)
    /\ UNCHANGED <<host_clients, clients>>

TaskStep(t) ==
    /\ UserWaits
    /\ \/ UseCached(t) \/ MustConnect(t) \/ NotConfigured(t)
       \/ Connected(t) \/ ConnectFails(t) \/ Executed(t)
    /\ UNCHANGED <<host_config, hosts, cmds, call, result, calls, raced, overlapped>>

UserStep ==
    \/ Spawn \/ Block \/ HostArgsShort \/ AllSpawned \/ Joined \/ GettersStart
    \/ RaiseFailure \/ Return

UserCall ==
    \/ \E stop \in BOOLEAN, nargs \in 1 .. Len(hosts) : RunCommand(stop, nargs)
    \/ \E nargs \in 0 .. Len(hosts) :
          CopyFile(nargs) \/ CopyRemoteFile(nargs) \/ ScpSend(nargs) \/ ScpRecv(nargs)
    \/ OpenShell \/ ConnectAuth \/ GetLastOutput
    \/ \E new \in HostLists : AssignHosts(new)

Next == UserCall \/ UserStep \/ \E t \in DOMAIN tasks : TaskStep(t)

\* Bound on the greenlets of a behaviour, for the fairness of each of them.
MaxHosts == CHOOSE n \in {Len(l) : l \in HostLists} :
                \A l \in HostLists : Len(l) <= n

\* Only run_command of a client has a timer, of self.timeout: open_session of a shell polls
\* without one, and so do the calls of a copy, of which _scp_recv may even go round for ever.
MayHang(t) == tasks[t].pc = "executing" /\ (tasks[t].kind # "run" \/ ~Timed)

\* The event loop runs greenlets that can run, and the attempt of each to connect, or to
\* execute under a timer, ends (retries are bounded, the sessions have timeouts).  The
\* user owes no further call.
Fairness ==
    /\ WF_vars(UserStep)
    /\ \A t \in 1 .. MaxCalls * MaxHosts :
          WF_vars(t \in DOMAIN tasks /\ ~MayHang(t) /\ TaskStep(t))

Spec == Init /\ [][Next]_vars

FairSpec == Spec /\ Fairness

---------------------------------------------------------------------------
TypeOK ==
    /\ hosts \in Seq(Host)
    /\ DOMAIN host_clients \subseteq Key
    /\ \A k \in DOMAIN host_clients : host_clients[k] \in DOMAIN clients
    /\ clients \in Seq(Key) /\ tasks \in Seq(Task)
    /\ call \in Call /\ call.cmds \in Seq(DOMAIN tasks)
    /\ cmds \in Seq(DOMAIN tasks) /\ collected \in Seq(DOMAIN tasks)
    /\ result.kind \in {"none", "output", "greenlets", "raised"}
    /\ result.outs \in Seq(Output)
    /\ calls \in 0 .. MaxCalls /\ raced \in BOOLEAN /\ overlapped \in BOOLEAN

\* A call that returns output returns one for each greenlet it spawned and none
\* twice, whenever they finished relative to the timer and to the getters.
OneOutputPerHost ==
    result.kind = "output" =>
        /\ Len(result.outs) = Len(result.call.cmds)
        /\ {result.outs[i].task : i \in DOMAIN result.outs} = ToSet(result.call.cmds)

\* Unless the timer of run_command has expired, output is in the order of hosts.
OrderUnlessExpired ==
    result.kind = "output" /\ result.call.kind = "run" /\ ~result.call.expired =>
        \A i \in DOMAIN result.outs : result.outs[i].task = result.call.cmds[i]

\* With stop_on_errors no failure is swallowed: what run_command returns then is
\* output of commands that ran (_get_output_from_greenlet).
NoFailureSwallowed ==
    result.kind = "output" /\ result.call.stop =>
        \A i \in DOMAIN result.outs : result.outs[i].ok

\* Output that run_command returns names the host its command was for, in whatever
\* order the greenlets finished (_get_output_from_greenlet).
RunOutputNamesItsHost ==
    result.call.kind = "run" =>
        \A i \in DOMAIN result.outs :
            result.outs[i].host = tasks[result.outs[i].task].key[2]

\* What a call returns is for its hosts, one each, in order, and without a failure that
\* was to be raised; with it, the types of the client's state.
Inv ==
    /\ TypeOK /\ OneOutputPerHost /\ OrderUnlessExpired
    /\ NoFailureSwallowed /\ RunOutputNamesItsHost

\* Every client in the cache is for a host that is on the list, at its position,
\* unless hosts were assigned while greenlets were running (hosts setter).
CacheFollowsHosts ==
    ~raced => \A k \in DOMAIN host_clients : k[1] \in DOMAIN hosts /\ hosts[k[1]] = k[2]

\* A greenlet never runs its command on the connection of another host or of
\* another position in the list (_get_ssh_client).
OwnConnection ==
    \A t \in DOMAIN tasks :
        tasks[t].client # 0 => clients[tasks[t].client] = tasks[t].key

\* The cache is sound: it follows the host list, and serves each greenlet its own client.
CacheSound == CacheFollowsHosts /\ OwnConnection

\* Connections are reused: none is made for a host that has one in the cache,
\* unless calls overlapped (_get_ssh_client reads the cache before it connects and
\* stores after).
ConnectionReused ==
    [][\/ overlapped
       \/ clients' = clients
       \/ clients'[Len(clients')] \notin DOMAIN host_clients]_vars

\* A call ends, also when the timer expired before its greenlets did or when earlier ones
\* fill the pool; supposing that no shell or copy of a host goes on for ever.
CallReturns ==
    []<>(\A t \in DOMAIN tasks : ~MayHang(t))
        => ((call.pc = "spawning") ~> (call.pc = "idle"))
=============================================================================
