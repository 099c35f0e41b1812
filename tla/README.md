# parallel-ssh in TLA+

Specifications of [parallel-ssh](https://github.com/ParallelSSH/parallel-ssh): what its greenlets do to
the state they share, checked with TLC on small instances and, but for liveness, proved with TLAPS for
every value of the constants. Paths below are relative to `src/pssh/`, line numbers refer
to the commit in this repository.

## 1. The system

parallel-ssh runs commands on many hosts from one thread. Concurrency is cooperative: greenlets switch
only where they wait (a pool slot, an event, a poll of the socket, a `sleep`), and everything between two
such points is atomic. That is why most actions below are larger than one statement, and why several of
them carry a guard saying that no other greenlet is in the middle of code that does not wait
(`UserWaits`). Real threads appear in two places only: the thread pool that runs handshakes, and the
forwarder thread of the proxy tunnel.

| Component | State it keeps | Operations | Talks to |
|---|---|---|---|
| Output buffer, `clients/reader.py` | a `BytesIO`, read and write position, the events "unread data" and "end of file" | `write`, `read`, iteration, `eof.set` | written by a channel reader, read by whoever iterates `host_out.stdout` |
| Channels of one client, `clients/native/single.py`, `clients/base/single.py`, `output.py` | channels, the two channel locks, reader greenlets, the session | `run_command`, reader loop, `wait_finished`, `close_channel`, `get_exit_status` | libssh2 by calls that may return `EAGAIN`; the output buffer |
| Connection of one client, `clients/base/single.py`, `clients/native/single.py`, `clients/ssh/single.py` | socket, session, counts of retries | `_connect`, `_connect_socket`, `_init_session`, `_connect_init_session_retry`, `auth`, `_auth_retry` | resolver, sockets, libssh2 or libssh, agent |
| Parallel client, `clients/base/parallel.py` | host list, client cache keyed by position and host, greenlet pool, commands of the last `run_command` | `run_command`, `open_shell`, `connect_auth`, `copy_file`, `copy_remote_file`, `scp_send`, `scp_recv`, `get_last_output`, the `hosts` setter | one single-host client per entry of the list, in pool greenlets |
| Join, `clients/base/parallel.py` | the pool, the timers of `joinall` and of each `wait_finished` | `join`, `join_shells` | `wait_finished` and `InteractiveShell.close` in pool greenlets |
| Line splitting, `clients/base/single.py` | remainder of an unfinished line, a read timer | `_read_output_buffer`, `read_output_buffer` | iterates an output buffer |
| Interactive shells, `clients/base/single.py` | channel and output | `run`, `close` | `eagain_write`, `wait_finished` |
| Proxy tunnel, `clients/native/tunnel.py` | two queues of size one, servers by proxy client, greenlets per forwarded connection | `enqueue`, `_start_server`, `cleanup_server`, `shutdown`, forwarding | `_connect_proxy` and `_disconnect` of clients, from another thread |
| Keepalive, `clients/native/single.py` | a greenlet with references to session and socket, and none to the client | send and sleep | the session, and `_disconnect` through the socket |
| Host configuration, `config.py` | one value or `None` per setting | looked up by position in the host list, merged with the client's settings | `_get_ssh_client`, `_make_ssh_client` |
| File copy, SFTP and SCP, `clients/native/single.py`, `clients/base/single.py` | handles, directory listings, the recursion over them | `copy_file`, `copy_remote_file`, `scp_send`, `scp_recv`, `mkdir` | libssh2, file systems of both sides, which other copies change meanwhile |
| libssh clients, `clients/ssh/` | channels, reader greenlets, the session | as the native client, but for `wait_finished`, which joins the readers, and copies | libssh |

### What is hard in it

* **Interleaving at every wait.** A greenlet looks a host up in the cache, connects for seconds, and
  stores what it made (`base/parallel.py:558-565`), while the user may have assigned another host list
  or started another call. Readers, waits and closes of all channels of a client interleave at each
  poll, under locks that belong to the client and not to the channel.
* **Order of completion.** `joinall` hands greenlets on as they finish. Where the code goes on to use
  positions, an order that depends on the network becomes visible.
* **Timeouts racing with the end of what they guard.** `join` has one timer for `joinall` and one of the
  same duration for every `wait_finished`; greenlets left over by a timeout stay in the pool and take
  slots from the next call.
* **Retries within retries.** `_connect` calls itself from inside its loop over addresses, and
  `_init_session` calls `_connect` again.
* **Wake-ups.** The reader of a buffer clears the very event on which writer and end-of-file wake it.
* **Protocol order.** End of file, exit status and close of a channel are separate messages.
* **Steps that are not one.** A copy looks for a directory and then makes it, and writes a file piece by
  piece; another copy to the same target, or a failure, comes between.
* **Two kinds of waiting.** A client that asks the forwarder for a port waits in a queue of the threading
  kind and holds its whole thread; inside the forwarder thread, servers and clean-up alternate as greenlets.

### What makes each component correct

* Output buffer: every byte is handed out once and in order to whoever reads; no reader sleeps while there
  is something for it; iteration ends exactly at the end.
* Channels: what a consumer reads to the end is the whole output; locks are let go on every way out; a
  finished wait leads to an exit code, which is final; a timed wait ends.
* Connection: no stage gives up early, none tries more often than it should, no handshake is made over a
  connection on which one has failed, and the whole thing ends.
* Parallel client: each call returns one output per host; output, errors and connections belong to the
  host they are for; failures are raised when they should be; connections are reused.
* Join: what returns is closed, what a timeout calls finished is finished, and a timed join ends.
* Tunnel: each client gets the port of its own server; a server lives as long as its client and not longer;
  what a connection has read is delivered before its channel is closed; requests are answered and exit ends.
* Lines: they are the output cut at its line ends, however it came in chunks, and no complete line is lost to a
  timeout of a reader that waits.
* Shells: a command is written whole and once, whatever writes take of it; a call that returns has written all of
  its commands; the input of a shell ends after its commands.
* Keepalive: keepalives are sent in authenticated sessions only, and no greenlet outlives its client.
* Copy: a copy that returns has copied everything; one that fails leaves whole files only, but for the one
  it was at; copies to one target do not undo each other's work; every copy ends.
* libssh clients: after `wait_finished` the output is there, all of it, and readers and timed waits end.

## 2. Modules

| Module | Models | Instance for TLC | Proofs |
|---|---|---|---|
| `Bytes` | the bytes of output and the chunks they come in | (extended by `RWBuffer` and `Lines`) | |
| `ByteStream` | what a buffer promises: bytes go in, come out once and in order, and end | (as a property of `RWBuffer`) | |
| `RWBuffer` | `ConcurrentRWBuffer` and its readers | `MCRWBuffer` | `OutputProofs` |
| `Lines` | the generator that reads a buffer line by line; uses `ByteStream` as the buffer | `MCLines` | `OutputProofs` |
| `HostOutput` | what the output of a command is to its user, from a client of either family | (as a property of the next two) | |
| `ChannelOutput` | the channels of one native client | `MCChannelOutput` | `ChannelOutputProofs` |
| `SshOutput` | the channels of one libssh client | `MCSshOutput` | `SshOutputProofs` |
| `Connect` | connecting, handshake and authentication of one client of either family | (part of `ClientLife`) | `ConnectProofs` |
| `ClientLife` | the native client from construction to `_disconnect`, and its keepalive greenlet; extends `Connect` | `MCClientLife` | `ConnectProofs` |
| `Copy` | copies of files and directories by SFTP and SCP | `MCCopy` | `CopyProofs` |
| `Greenlets` | a set of greenlets in the order in which they were spawned | (used by the next two) | |
| `ParallelClient` | calls of the parallel client over its pool and cache | `MCParallelClient` | `ParallelClientProofs` |
| `ParallelJoin` | `join` and `join_shells` | `MCParallelJoin` | `ParallelJoinProofs` |
| `Shells` | commands written to interactive shells, and their end | `MCShells` | `OutputProofs` |
| `TunnelServer` | the servers of the proxy tunnel and a connection forwarded by each | (part of `Tunnel`) | |
| `Tunnel` | the forwarder thread, its queues, the clients that use it, exit; extends `TunnelServer` | `MCTunnel` | `TunnelProofs` |

Definitions named "Mutant of X" are not part of a specification: each is the definition X with a plausible
mistake in it, and the property it breaks is listed with it in `PROJECT.json`. They show that the
properties depend on what the code does. The definitions of `Lines` and `Shells` carry the name of their
module (`LinesNext`, `ShellsNext`), since one module, `OutputProofs`, extends both and `RWBuffer`.

### RWBuffer

`buffer` and `pos` are the `BytesIO`, `read_pos`, `write_pos`, `unread` and `eof` the fields of the same
names, `notifier` the callback by which gevent wakes the greenlets linked to an event: `Event.set` only
schedules it, so an event may be cleared again before any waiter runs. `written` and `delivered` are
history. Methods do not wait inside and hold the lock, so each is one action; iteration is `StartIter`,
`IterYield`, `IterWait` (the `wait` of line 92), `Notify` and `IterEnd`. `GiveUp` is the read timeout of
`_read_output_buffer` or a consumer that stops. The refinement mapping to `ByteStream` takes the bytes
after `read_pos` as the stream in flight and `eof` as its end.

### Lines

The buffer is an instance of `ByteStream`, which `RWBuffer` implements. The generator is `pc` with the locals
`data` (from `pos` on) and `remainder`; it runs without a switch from where it is asked for a line to the next
yield or wait (`Running`). `timer` runs from the first line asked for to the end of the read (`Leaves`, the
`finally`). It may expire while the generator waits (`ExpireWaiting`) or, since it throws into whatever the
greenlet is doing then, while the consumer waits for something else with a line in hand; that, and a consumer
that stops asking, is `Abandon`: the rest of the chunk goes with the generator. A line end is one byte. What
lines are is said without going through the text (`IsCut`): they end at all its line ends, in order, and are
what is between them; a text that is complete may have a last one without an end (`AreLines`).

### HostOutput

The abstract specification of the output a `run_command` returns. A command sends, on each stream, until its
output is over or the session fails. Its buffers are filled once; what is sent comes in; the end of a buffer
is announced once, when everything has come in or the session has failed, and nothing comes in after it.
`wait_finished` returns only when the output is over, and raises a timeout at any time and anything else only
when the session has failed. `ChannelOutput` and `SshOutput` implement it, each with
`KeepsPromise` (`Promise == INSTANCE HostOutput WITH ...`). To the native client output is over with the end of
file or the close of the channel, whichever comes first; buffers that are being filled or are ended are
those of readers that read or have ended, and `waited` follows from what the channel's operation is and where
it is in it (`Waited`). Locks, the steps of `wait_finished` and `close_channel`, the exit status, and with libssh
what of the end the readers have seen, are hidden: their steps stutter.

### ChannelOutput

libssh2 is not part of the repository. The module has what it has received of each channel (`data`, `eof`,
`status`, `closed`) and lets more be received between any two steps: any call of any greenlet of the client
may read the socket. `eof` and `status` come in either order, as a command may close its output long before
it exits and may leave children that write after it has exited; the close comes when there is no more to send
or nobody to send it to, and without a status if a signal has ended the command. `Channel.eof` hides the end
while there is something to read, and the exit status is an initial zero as long as none has come. A read that
would block changes nothing but the wait, so the loop of `eagain` is a guard. `stalled` is a socket that takes
no more data, until the session fails.

`reader` is the pair of greenlets of `_read_output_to_buffer`. Both take the lock of stdout, because
`_make_output_readers` does not pass `is_stderr`; `close_channel` takes both locks, so a lock is a set
`locked` with the channel being closed. A reader ends with the first error: on a failed session libssh2 tells
that before what it has queued, so that a reader may end with chunks unread (`AtEnd`). `waiter` is the position
of a greenlet in `wait_finished`: in `wait_eof`, at the locks, in `close`, in `wait_closed`. `close` sends
(`SendsClose`), which needs a socket that takes data, and then polls with the locks held until libssh2 returns
(`Closed`): with the remote side's close, or with some other packet before it, which is why `wait_closed` is
there. The timer (`Expire`) may go off at each of these, and an error of the session (`Fails`) at each but the locks.

### SshOutput

As `ChannelOutput`, for libssh, with what is different there: `wait_finished` sends an end of file (`SentEof`),
joins the two readers under its timer (`SawReaders`, `Expire`) and closes the channel (`Closed`); there are no
channel locks; a reader polls, reads, and ends with the exception that libssh raises at the end of file, at
the close or in a session that has failed (`AtEnd`). An exit status that has not come reads as -1, also after
`wait_finished`, since readers may end at an end of file that comes before it. `stalled` is a socket that takes no
more data: the end of file and the close are sent outside the timer and then wait for ever, which is why
`TimedWaitEnds` has that exception.

### Connect

`frames` is the call stack of `_connect`. Resolving retries outside the loop over addresses, so it only
counts up; an error of the socket retries inside it and pushes a frame; a refused connection goes on to the
next address of the innermost call that has one and drops the calls within it. `attempt` counts
`_init_session`, whose retry starts a new connection with its own count, `tries` counts `_auth_retry`, and
`left` are the methods `auth` has yet to try: a key given excludes the others, and any failure of a method,
of whatever kind, moves on to the next. GSSAPI is a method that the libssh client tries before all others,
with a key too. `_init_session` of the two clients differs in the delay before a retry only. `rounds` and
`asked` are history.

### ClientLife

`Connecting` is any step of `Connect`; with the last one, authentication, a native client with
`keepalive_seconds` starts its greenlet (`let`). `Leave` is the end of a `with` block or the de-allocation of a
client, also of one whose constructor raised; `Disconnected` the rest of `_disconnect`, whose `session.disconnect`
may wait. The greenlet has references to socket and session only, so that nothing stops it: it ends when it finds
the socket closed, which `sock.detach` makes it, or when sending raises. `Lose` is a connection lost by the network:
`sock.shutdown` then raises and `detach` is skipped, but so does what the greenlet sends.

### ParallelClient

`hosts`, `host_clients` and `cmds` are the fields; a client is the index of the `clients` made so far.
`tasks` are the pool greenlets with what they are for, and `call` the one call the user greenlet is in:
spawning (one `Spawn` per host, `Block` when the pool is full), joining, and collecting output by a second
set of greenlets, of which only the order of completion matters (`collected`); those that had finished before
come first, as they were spawned (`InOrder`). A greenlet is `new`,
`connecting` and `executing`; between the first two it reads the cache, and after the second it stores. The
user's calls may overlap with greenlets of earlier calls, since `connect_auth` and the copies return at once,
timers leave greenlets behind, and short `host_args` or `copy_args` raise in the middle of spawning. The four
copies differ in what they make of empty `copy_args`: to SFTP they are no `copy_args`, to SCP too few.
`host_config` is given for the first host list and looked up by position, so that it may be too short for
a later one (`NotConfigured`); what a copy does when it has its client is `Copy`.

### ParallelJoin

Timers are a queue: all have one duration and expire in the order in which they were started. `joinall`
starts its own after the last spawn and before any greenlet spawned without waiting has run, which is what
makes its timer expire first, unless a `spawn` had to wait. A greenlet that ends takes its timer out
(`Disarm`); `raise_error` re-raises the first error in the order in which greenlets ended (`RaiseError`).
Greenlets of `join` carry the timer of
`wait_finished`; those of `join_shells` have none. With `consume_output` a greenlet goes on
to read the output to its end (`consuming`, `Consumed`), which may fail by a read timeout the output was given,
no timer of `join`, or by what cannot be decoded (`ConsumeFails`). `failed` is what happened before, hosts
without a client; how many hosts were taken off the list since the commands ran, which `get_last_output`
looks up by position, is chosen when a timeout is raised. `ParallelJoin` abstracts `wait_finished` to its outcomes; `ChannelOutput` has its steps.

### Copy

A path is the sequence of its names, and the source is named by the paths it gets in the target, `dirs` and
`files` (the pieces each file has). `todo` is what a copy has listed and not copied: the recursion of the code
is depth first, so the deepest of these is next (`NextUp`), and a directory puts its children there. Each
copy has the actions of its kind for a directory (`CopyDir`, `RecvDir`, `ListDir`, `RefuseDir`) and a file
(`PutFile`, `SendFile`, `GetFile`, `RecvFile`). `mkdir` looks at each component of a path (`StatDir`) and makes what
it did not find (`MakeDir`), between which another copy may have made it (`MakeDirFails`); `os.makedirs` does
not let others run. A file is opened, which truncates it, written by pieces, and closed. Any call may fail
(`Fail`) and ends the copy, since nothing is retried; `Spin` is the loop of `_scp_recv` when the channel ends
before the size it was told.

Copies that share a target are of one direction: two entries of the host list for one host, or all hosts into one
local directory.

### Shells

`jobs` are the pool greenlets: one per command and shell, in the order of the two loops of `run_shell_commands`
(`RunJobs`), or one per shell to close. A command has `Pieces` pieces, of which a write takes any number, none
included (`EagainWrite`, the loop of `_eagain_write_errcode` with its `sleep`); `put` is `total_written`, and `wire`
what each shell has been written. Greenlets run in the order in which they were spawned until they first
wait (`Turn`), and while `spawn` does not wait none of them runs. A write may fail at any time and does after the
end of input (`WriteFails`, `sent_eof`). `joinall` raises with the first failure (`RaiseShellError`) and is left early when
its timer expires (`Expire`); either way `left` says that greenlets of a call may be going on after it. What
`join_shells` raises is in `ParallelJoin`. That a command is written once (`WrittenOnce`) is said by the places it
has on the wire: the numbers of its pieces, in the order of their places, are 1 to what it has put.

### TunnelServer

`server` is the socket of the server started for each client, `conn` a connection to it with its three
greenlets: the handler (`pc`), `src`, which reads the local socket and writes the channel, and `dst`, which
does the opposite. Data is counted: `sent` by one end, `read` from it, `put` to the other. A recv or a read
of the channel takes any part of what there is, a write or send takes one piece at a time, so that a partial
write and what may happen in the middle of it are there. `Channel.eof` hides the end while there is
something to read. A local socket that the client has closed reads as nothing, for ever (`RecvNothing`), or
fails (`RecvFails`). `GivesUp` is the last retry of opening a channel; `joinall` with `raise_error` is
`HandlerReturns`, for both greenlets done, and `HandlerRaises`, for the first that raised. `server.stop()`
closes the listening socket at once and kills what is in the server's pool a second later: `StopsServer`
and `Kill`.

A server has one connection, that of the client it was started for; nobody else knows the port.

### Tunnel

`user` is where a client is in `__init__` and `_connect_proxy` (`start` and `wait` for the forwarder thread,
`enqueue`, `get`, `port`, `up`), and in `_disconnect` (`stopping`, `gone`). `ThreadFree` is the thread held
by a client that waits in `queue.Queue` or `threading.Event`: no other client made in that thread runs. A
port is named after the client whose server listens on it. `Direct` are programs that enqueue their own
clients, as the class invites them to and the tests do: only theirs can be closed while the forwarder still
knows them, so that the clean-up loop (`CleanupFinds`, `CleanupRemoves`) has something to do. `KeyMissing`
is a client whose own key file is not there, found out after its tunnel has been started.

`forwarder` is the loop of `run`, with `put` for the wait in `out_q.put`, during which the forwarder thread
stands still and forwards nothing (`RelayStep`). A server that cannot be started is an exception that ends
the loop in `shutdown` (`StartFails`, `StopsOwnServers`, `DiesOfException`). `main` is `shutdown` as called
at exit; `iter` is its iteration over the dictionary of servers, which raises if the clean-up loop has
removed one meanwhile. Exit does not begin in the middle of a call (`AtRest`).

## 3. Runs

| Run | Question | Bounds |
|---|---|---|
| `rwbuffer` | Are bytes delivered once, in order, to the end, and is nobody left asleep? | 4 bytes in chunks of 0 to 2, two iterating readers and any number of polls |
| `lines` | Are lines those of the output, and what does a timeout lose? | 5 bytes of three in chunks of 1 to 3, 2 reads |
| `output` | Is output complete and do waits end, however messages, reads, waits and closes interleave? | two channels with a stream each, a chunk on one of them, one wait or close per channel |
| `ssh_output` | The same for the libssh client | one channel with two streams of two chunks, two waits or closes |
| `connect` | Do retries nest correctly and end, and does the keepalive greenlet end with its client? | 3 retries, up to 2 addresses |
| `client` | Do outputs, errors and connections stay with their hosts? | host lists `<<h1,h2>>`, `<<h2>>`, `<<h2,h2>>`, with `host_config` and without, a pool of 2, 3 calls |
| `client_live` | Does every call return? | a pool of 1, 2 calls |
| `join` | What do a return and a timeout of join mean, and does a timed join end? | 2 outputs, a pool of 2, 3 joins |
| `shells` | Are commands written whole, in order, and before the end of input? | 2 shells, a pool of 2, 2 calls of up to 2 commands in 2 pieces |
| `tunnel` | Does each client get its own server for as long as it needs it, does forwarding lose nothing and end, and does exit? | a client of a proxy and a direct one in one thread, one connection, 2 pieces up, 1 down, 2 attempts |
| `copy` | What does a copy leave, and does it end? | a tree of three directories and two files, of two pieces and none; two copies |
| `copy_recurse` | violation, see section 6 | the same tree, one copy |

Why these bounds are enough to see what matters:

* Two readers are needed for one of them to clear the event another relies on, and chunks of 0 bytes for a
  write that changes nothing; with four bytes a reader can be behind, level, and behind again.
* Five bytes in chunks of up to three make every place of a line end in a chunk, an empty line at either side of
  a boundary, and a line over three chunks. The second read begins anywhere.
* Two channels are needed for a close to hold the locks against another channel's readers and another
  close. Streams of one channel only share the lock that channels share too; the proofs are for any
  streams. One chunk suffices, as what counts is whether something is unread, and on one channel: the other is
there to contend for the locks, and the two may act in any order.
* Three retries with two addresses let a retry fall back into the loop of an earlier attempt twice.
  `MaxRounds` only bounds the histories, and is larger than any count the properties compare.
* The host lists have a host that changes its position, a list that gets shorter, a duplicate. Three calls
  make a command, a change of hosts and another command.
* Two joins are needed for one to find the pool occupied by what another left; three let a join of what a
  timeout has left unfinished come on top.
* Two calls make commands and a close after them, also over a pool that is full while they are spawned. Two
  pieces make a partial write in the middle of which another command may be written.
* A libssh client has no state that channels share but the session, so that one channel suffices; its two
  streams are needed, as the wait is for both readers. Two chunks let one be read and one not.
* Two copies race for every directory and file. The tree has a directory that is two levels down from one
  that exists, an empty directory and an empty file; two pieces make a file that is cut off.
* Two clients contend for the queues; one of each kind lets the clean-up loop, a disconnect and both
  shutdowns remove servers from the dictionary in any order. Connections of different servers share nothing
  but the forwarder's state, so one at a time is forwarded, of either client. Two pieces make a partial
  write; the other direction has the same code, so one suffices there. The proofs are for any number of
  clients, connections and pieces.

No deadlock check is made: each system stops when its bound on calls is used up and no command is running.

### Fairness

Weak fairness is assumed for greenlets that can run (gevent's hub runs every callback that is due, and
polls of a socket last a millisecond, `base/single.py:81`), for timers, and for attempts to connect and
authenticate, which sockets and sessions bound by their own timeouts. No fairness is assumed for the user,
who may make no further call; for the remote side, which may never send, exit or close; or for failures. So
`TimedJoinEnds` and `TimedWaitEnds` hold although commands may run for ever, and `ExitCodeAvailable` is about
waits that did return. Nor is it assumed that the remote side answers a close, or that the socket takes one: `channel.close`
is sure to return only when answered (`WaiterGoesOn`), and while one without a timer does not, it keeps the locks of
its client from all readers. `ExitCodeAvailable` and `ReadersEnd` therefore suppose that it is not so from some time on
(`Unanswered`). In `ParallelClient` a greenlet is sure to end its work only under a timer, which `run_command` of a
client with a timeout has; opening a shell and copying have none (`MayHang`), and may hold a slot of the pool for
ever. `CallReturns` supposes that none does. Output that a join consumes is that of a closed channel, and ends. `TimedJoinEnds` further supposes that all greenlets in the pool are under a timer:
the code has no remedy when they are not (section 6).

In `Copy` a copy that can go on does, as each call on the session is answered or fails; no fairness is assumed of
failures, and `CopyEnds` holds also if none happens. In `ClientLife` a client that disconnects goes on, and the
keepalive greenlet is woken; that the user ever leaves the client is not assumed.

In `Tunnel` a client goes on with a request or clean-up it has begun, the loops of the forwarder thread come
round, a shutdown that has begun goes on, and stopped servers' greenlets are killed. Nothing is assumed of
clients that need not disconnect, of programs that need not exit, or of the greenlets that forward, which may
wait for either end for ever: `TunnelTornDown` follows from the kill alone.

## 4. Proofs

Checked by TLAPS for every value of the constants (assumptions on these are the named `ASSUME`s of each
module: bounds are naturals, the pool and the number of addresses positive, host lists are sequences of
hosts, shells a sequence without repetition, a line end a byte, the source of a copy a tree, the clients of a
proxy finitely many):

* **OutputProofs**, of what bytes go through, in three parts.
  * *RWBuffer.* `IInv` adds to the types that every method leaves the position of the `BytesIO` at the
    end of the buffer (`Positions`), and that a cleared event means that there was nothing to read
    (`Signals`). `StreamIntegrity` alone is not inductive, since `read` moves the shared position and only
    `Positions` says that the next `write` appends. `NoLostWakeup` needs `Signals`: a waiter is either about
    to be notified or waits on a cleared event. From these follow integrity, wake-up, the end of iteration
    and, step by step, the refinement of `ByteStream`.
  * *Lines.* `LinesInvariance` is `LinesInv`. Its inductive form `LinesIInv` adds what the generator still has to
    look at: `data` is the end of what was taken, and is empty but in the middle of a chunk (`DataIsLeft`), from which
    it follows that nothing complete is lost when the timer expires at the wait. `LinesAreSplit` is inductive because
    cuts go on: a text of no line end at the end of a cut one adds to the rest (`CutMore`), one up to a line
    end adds a line (`CutEnd`), and the empty text is cut into nothing (`CutNothing`). Each of these gives the places of
    the longer cut from those of the shorter, so that no induction over the text is needed.
  * *Shells.* `ShellsIInv` adds to `ShellsInv`: greenlets write to one shell in the order of their commands, as
    they are numbered, and no two write the same command to the same shell (`Ordered`); what a greenlet has put
    agrees with where it is (`Progress`); whatever is on a wire was put there by a greenlet (`Origin`); and the
    greenlets of earlier calls are over unless a call was left early (`Calls`), which is what makes the end
    of input come after the commands (`EndsAfter`). As long as no write is short, a greenlet writes its command
    whole in its turn, so that all before it have written theirs.
* **ChannelOutputProofs.** `IInv` adds that no more is buffered than was received (`Received`), and that a wait
  that is done saw the close (`Joined`). From it follow completeness of output and the release of the locks, and,
  as nothing comes on a closed channel any more, that an exit code read after `wait_finished` is final
  (`CodeFinal`, of `ExitCodeFinal`). `Refinement` is
  the promise of `HostOutput`: each action is shown to be a step of it or a stutter. What the promise says of
  buffers that are filled once needs that a channel has readers if and only if its command was started
  (`Begun`); that buffers fill only while they are not ended is the work of the readers' states.
* **ConnectProofs.** `IInv` adds that frame k of the stack has at least k retries, at most as many as rounds
  were made (`Stack`), which bounds the recursion wherever a refused connection resumes it, and that each
  usable method was tried once per round of authentication (`Asked`). `LifeImplementsConnect` shows that a client
  with its use, disconnection and keepalive greenlet implements `Connect`, so that all of this holds of it,
  and its own invariant too (`LifeInvariance`, of `LifeInv`); `KeepAliveAuthenticated` is inductive once it is known that nothing of `_init` follows
  authentication (`ConnectedIsLast`).
* **SshOutputProofs.** `IInv` adds that a reader that ended has seen the end (`OutputComplete`) and that a wait
  came past the readers only when both had (`PastReaders`): together they are `JoinedMeansAllOutput`, for which the
  channel must have a stream at all (`StreamsAssumption`). `Refinement` is the promise of `HostOutput` again, and
  `JoinedMeansAllOutput` what this client gives beyond it.
* **ParallelClientProofs.** First, an invariant of the cache alone: each entry is a client made for that very
  position and host, each greenlet's client was made for its key, and, unless hosts were assigned while
  greenlets ran or calls overlapped, what is connecting is not cached and not connecting twice. From it
  follow `CacheSound` (that is, `CacheFollowsHosts` and `OwnConnection`) and `ConnectionReused`. Second, `Inv`, which is about what a call
  returns (`OutputInvariance`). Greenlets have no other identity than their number, so that the calls' lists of them
  are increasing (`CallInOrder`); `collected` has each greenlet of the call at most once, and only finished
  ones (`CollectedFinished`), in the order of the list unless the call's timer has expired. An
  increasing list of a set of numbers is unique, so that what `joinall` hands on of greenlets that had all
  finished is the list itself. `ResultInv` says the same of an answer once it is given.
* **ParallelJoinProofs.** `JoinInvariance` is `Inv` of `join` and `join_shells`. What a timeout may call finished
  rests on the order of timers, so that `JoinInv` has, besides types: of the greenlets that wait, each has at most
  one timer, and nothing else has one but the join (`Armed`); unless a `spawn` had to wait, the timer of the join
  is before those of its greenlets, so that none of them is the first to expire (`Joining`); and a greenlet that
  is done has had its channel closed, or had no client to wait for (`Waited`). `seen` has
  each greenlet of the join once, and what it has seen has ended (`Seen`); when it is as long as the list of
  greenlets, all of them have, and all outputs are closed or an error is raised. `Outcome` keeps this of the
  answer, as what has closed stays closed.
* **CopyProofs.** `OnlyCutFilesPartial` is not inductive, since a copy may open, and so empty, a file another
  is at. What is (`LastOpened`): at a file that is not whole there is a copy that has in it whatever it has
  written, or was cut off; the one that opened it last is such a copy. `ExistsByOther` needs that a copy about to
  make a directory did not find it, or that another has made it since (`Race`), and that every step at most adds
  the directory it was about to make (`Makes`), as all copies of an instance go one way. `CopyComplete`
  (theorem `Completeness`) and `NoDirectoryMissing` (part of `Invariance`) need the third conjunct, `Placed`:
  whatever is below the root of a copy is in the target, or the copy is at it, or it is pending or below
  something pending (`Covered`), with its directories there as far as the copy's kind makes them; and a copy in the
  middle of `mkdir` has made the path it is making up to the component it is at, and has the rest of it still
  to do (`Making`). Assumed of the source is what makes it a tree (`CopyAssumption`): a path is a nonempty
  sequence of names, and whatever is below a root is in directories of the source.
* **TunnelProofs.** `Control` says that at most one client is between request and answer, and that what is in
  either queue, or about to be put there, is for that client. It rests on `SingleThread`: all clients are
  made in one thread, which a client that waits holds. From it follow `OwnPort`, `ServerKept` and
  `ServerHasClient`; section 6 says what happens without the assumption. `NothingDropped` is proved of each
  connection by itself (`Sound`), without it: a greenlet that is done has seen the end of the channel with
  all of it sent on, and a count read and a count put differ only while a greenlet is writing.
  `TunnelInvariance` is `Inv`, types and `NothingListensAfterExit`, also for clients in any number of threads, as
  long as there are finitely many: exit begins when no call is in progress (`ExitsAtRest`), and
  requests that are queued or being served are never more than clients that wait for an answer, which is shown by
  counting both (`Owed`), so that at exit there are none and nothing starts to listen any more. What listens is
  in the dictionary of servers, then among those `shutdown` has still to go over, and then there is none
  (`Reached`); the forwarder is told to end by that `shutdown` alone (`ToldAtExit`), and a server is asked for and
  cleaned up once (`AskedOnce`).

Checked by TLC alone: liveness under fairness (`IteratorsEnd`, `BytesDelivered`, `CallReturns`, `TimedJoinEnds`,
`ClientEnds`, `KeepAliveEnds`, `ExitCodeAvailable`, `ReadersEnd`, `TimedWaitEnds`, `RequestAnswered`, `TunnelTornDown`,
`ExitFinishes`, `TimedReadReturns`, `CopyEnds`), and with it whatever needs ENABLED, which the prover does not handle.
Every invariant, action property and refinement that a passing run checks is a theorem. Not stated, neither
for TLC nor as a theorem, is that each direction of a forwarded connection implements `ByteStream`: `TunnelServer`
counts bytes and has none, so that it would say less than `NothingDropped`.

Where a module states an invariant `IInv`, `Inv`, `LinesInv`, `ShellsInv` or `LifeInv`, its run checks that, and the type
invariant and the other conjuncts with it.

## 5. gevent and libraries

Modelled from how the code uses them and marked external in `PROJECT.json`: events and their notifier,
pools that make `spawn` wait, `joinall` with a timeout and with `raise_error`, timers, `BytesIO`,
libssh2's and libssh's channels, `find_eol`, the file systems that are copied to, and, for the tunnel, threads, queues, `StreamServer` and the two ends of a connection.

## 6. Where documentation and code part

One is a run that TLC ends with a counterexample, `copy_recurse`: `copy_file` of the parallel client raises
"`ValueError` when a directory is supplied to local_file and recurse is not set" (`base/parallel.py:437-438`), but it passes
`{'recurse': recurse}` on as the argument `recurse` (`base/parallel.py:455` and `463`), which is true whatever
`recurse` is, and so copies the directory.

Also met, and not kept as runs: "Clients for hosts that are no longer on the host list are removed on host list
assignment" (`doc/advanced.rst:862`), but `_get_ssh_client` stores a client after it has connected, whatever
the list is by then (`base/parallel.py:565`, the exception `raced` of `CacheFollowsHosts`); a Timeout of
`join` "has finished and unfinished commands as arguments" (`doc/advanced.rst:257`), but has none when `join`
had to wait for a pool slot and a greenlet's own timer expires first, or when it consumes output and a read of that times out
(`BareTimeoutOnlyIfBlocked`);
`join_shells` raises "Timeout on timeout requested and
reached with commands still running" (`base/parallel.py:193-194`), but with more shells than the pool holds it
waits for a slot without a timer (which is why `TimedJoinEnds` supposes that whatever is in the pool has one);
`read_timeout` is to "cause reading to timeout if no output is received after the given number of seconds"
(`doc/quickstart.rst:122`), but the timer is that of the whole read and is not set anew; the finished output of a join timeout holds None for a host that failed;
`join` after the host list got shorter may raise IndexError in place of Timeout, which `ParallelJoin` has
as the outcome "index error"; `get_last_output` names the host that has taken a failed command's position;
`run_command` whose own timer expired returns output in order of completion (`OrderUnlessExpired` says
when it does not); a retry that ends in a refused connection makes the loop of an earlier attempt go on
with its smaller count, so that a client may try more often than `num_retries`; `open_shell` returns shells
"for each of self.hosts, in order" (`base/parallel.py:155`), but `joinall` yields them as they were opened
(`base/parallel.py:162`); commands of one `run_shell_commands` alternate on a shell, piece by piece, when a write
takes only a part (`InOrderUnlessShort`); and `run_shell_commands` returns without an exception when the
client's timeout expires while it is still writing, so that `join_shells` may then end the input first; a host list
longer than `host_config` fails each host beyond it with IndexError (`base/parallel.py:287`).

Of output, as modelled: `exit_code` "will return None when exit code is not ready, meaning command has not
finished" (`README.rst:156`), but it asks for end of file only (`native/single.py:812`), and an exit status that
has not come reads as zero, or -1 with libssh (`ExitCodeFinal` says when it is final); the zero stays, also after
`wait_finished`, when a signal has ended the command, for which no exit status is sent; after reads that timed out,
"Can now read output up to when the channel was closed without blocking" (`doc/advanced.rst:314`), but the beginning
of a line that a read had when its timer expired is dropped with the generator (`base/single.py:562`); `wait_finished` of
the libssh client has a timeout, but sends end of file and close outside of it (`ssh/single.py:293`, `298`); a
`close_channel`, or a `wait_finished` without a timeout, that the remote side does not answer holds both channel locks
of a native client (`native/single.py:426-428`), and until it does no reader of that client ends (`Unanswered`).

Of copies, as modelled: two copies that find the same directory missing both make it, and the slower one
fails (`ExistsByOther`); `copy_remote_file` and `scp_send` leave out directories without a file below them;
`scp_send` makes missing directories only if it recurses; the directory made for a relative local path is the one of
that name under "/" (`native/single.py:612`, `673`); `_scp_recv` goes round for ever when the channel ends
before the size it was given (`native/single.py:692`, the exception of `CopyEnds`); any failure of `opendir` is
taken to mean that the path is a file (`native/single.py:602`, `629`).

Of a client's end: one left by a `with` block while its readers run ends them with what they had, since
`_disconnect` shuts down the socket they poll.

In the tunnel, as modelled: two clients made in two threads take the next port there is from the forwarder's one
queue (`native/single.py:250`), whoever asked for it, so that one may be connected to the target of the
other, while "Multiple Python native threads, each of which can get its own event loop, may be used to scale
this use case further" (`doc/scaling.rst:11`); `OwnPort` is therefore about one thread; the server of a client whose key file is missing stays (`nokey` in
`ServerHasClient`), since `_disconnect` fails at the socket it never had (`native/single.py:268`); after the
forwarder thread has died of an exception its `started` event is still set, so that later clients wait for
ever (`RequestAnswered` says so); a remote end that has closed is not passed on to the local end until that
closes or the client disconnects, as `src` waits in `recv`; and `shutdown` raises when the clean-up loop takes
a server out of the dictionary while it iterates over it, leaving the thread alone (`raised` in
`ExitFinishes`).

## 7. Not modelled

* Data: commands, credentials, encodings, messages of exceptions, logging. Output is bytes or chunks.
* The merge of `host_config` entries with the settings of the parallel client (`native/parallel.py:231-248`): one
  line per setting, `cfg.x or self.x`, without steps or shared state. It makes a value of an entry that is false,
  as `allow_agent=False` or `keepalive_seconds=0`, the same as none given. `HostConfig` checks types only.
* A `close_channel` called again after one that returned early: libssh2 then returns at once, and `Fairness` has it
  wait for the remote side.
* In `Tunnel`, other greenlets of the main thread that run while `shutdown` waits in `server.stop()`.
* Pseudo-terminals, and `finished()`, which fetches the last output first and then asks each
  channel for its end of file.
* Permissions, modes and times of copied files, names of remote files (`.` and `..`, encodings), per-host
  suffixes of local files.
* The connection of the proxy client itself, which is `Connect` again: in `Tunnel` it succeeds or fails.
* Packaging, versioning and generated code.

## 8. Plan

Done: `Bytes`, `ByteStream`, `RWBuffer`, `ParallelClient`, `ParallelJoin`, `Connect`, `ChannelOutput`, `TunnelServer`,
`Tunnel`, `Lines`, `Shells`, `ClientLife`, `Copy`, `SshOutput` and `HostOutput`, in this order because each has what the
next one abstracts from or uses. All safety properties are proved.

Next modules: a composition of `ChannelOutput` with `RWBuffer` as its buffers, and of `ParallelJoin` with
`HostOutput` as its outputs.

Next proofs: that the abstraction of `wait_finished` in `ParallelJoin` is implemented by `HostOutput`, and so by
both clients.
