--------------------------- MODULE ChannelOutput ---------------------------
(***************************************************************************)
(* The output and the end of the commands run on one client                *)
(* (pssh/clients/native/single.py).  Each command has a channel, with a    *)
(* reader greenlet for stdout and one for stderr that move what comes to a *)
(* buffer, and greenlets that wait for its end (wait_finished) or close it *)
(* (close_channel).  All channels of a client share its socket and its two *)
(* channel locks, which close_channel holds while it polls.                *)
(*                                                                         *)
(* libssh2 is external: what it has received of a channel is data, eof,    *)
(* status and closed, and it may receive more between any two steps.  Once *)
(* stalled, the remote side takes in no more and what is sent blocks, for  *)
(* good or until the session fails.  Data are counted in chunks.           *)
(***************************************************************************)
EXTENDS Integers, FiniteSets

CONSTANTS Channels,   \* channels of the client
          Streams,    \* streams of a channel that are read: stdout and stderr
          MaxChunks,  \* bound: chunks of output per stream, by channel
          MaxWaits    \* bound: calls of wait_finished and close_channel per channel

ASSUME ChunksAssumption == MaxChunks \in [Channels -> Nat]
ASSUME WaitsAssumption == MaxWaits \in Nat

VARIABLES
    chan,      \* run_command on this channel: its progress
    data,      \* chunks libssh2 has received, by channel and stream
    eof,       \* channels for which it has received end of file
    status,    \* channels for which it has received the exit status
    closed,    \* channels the remote side has closed
    left,      \* channels this side has closed
    broken,    \* the session has failed
    stalled,   \* the socket takes no more: what is sent blocks
    buffered,  \* chunks the reader has moved to the buffer
    reader,    \* reader greenlets
    locked,    \* channels whose greenlet holds the channel locks
    waiter,    \* greenlet waiting for the channel or closing it
    op,        \* what that greenlet does: kind, and whether it has a timer
    waits      \* history: calls of wait_finished and close_channel

remote == <<data, eof, status, closed, broken, stalled>>
vars == <<chan, remote, left, buffered, reader, locked, waiter, op, waits>>

Busy == {"eof", "lock", "closing", "closed"}
Over == {"idle", "done", "timeout", "error"}
NoOp == [kind |-> "none", timed |-> FALSE]

Init ==
    /\ chan = [c \in Channels |-> "new"]
    /\ data = [c \in Channels |-> [s \in Streams |-> 0]]
    /\ eof = {} /\ status = {} /\ closed = {} /\ left = {}
    /\ broken = FALSE /\ stalled = FALSE
    /\ buffered = [c \in Channels |-> [s \in Streams |-> 0]]
    /\ reader = [c \in Channels |-> [s \in Streams |-> "none"]]
    /\ locked = {}
    /\ waiter = [c \in Channels |-> "idle"]
    /\ op = [c \in Channels |-> NoOp]
    /\ waits = [c \in Channels |-> 0]

---------------------------------------------------------------------------
(* The remote side, as far as libssh2 has received it.                     *)

SendData(c, s) ==
    /\ chan[c] = "open" /\ c \notin eof \union closed
    /\ data[c][s] < MaxChunks[c]
    /\ data' = [data EXCEPT ![c][s] = @ + 1]
    /\ UNCHANGED <<eof, status, closed, broken, stalled>>

\* The command, and what it has started, have closed their output.
SendEof(c) ==
    /\ chan[c] = "open" /\ c \notin eof \union closed
    /\ eof' = eof \union {c}
    /\ UNCHANGED <<data, status, closed, broken, stalled>>

\* The command has exited; its output may be closed before or after.
SendStatus(c) ==
    /\ chan[c] = "open" /\ c \notin status \union closed
    /\ status' = status \union {c}
    /\ UNCHANGED <<data, eof, closed, broken, stalled>>

\* When there is no more to send, or nobody to send it to; a command that a signal has
\* ended leaves no exit status.
SendClose(c) ==
    /\ c \notin closed /\ c \in eof \union left
    /\ closed' = closed \union {c}
    /\ UNCHANGED <<data, eof, status, broken, stalled>>

\* The session has failed: what is sent raises, and does not block.
Break == broken' = TRUE /\ stalled' = FALSE /\ UNCHANGED <<data, eof, status, closed>>

Stall == stalled' = TRUE /\ UNCHANGED <<data, eof, status, closed, broken>>

Remote ==
    /\ ~broken
    /\ \/ \E c \in Channels :
             \/ \E s \in Streams : SendData(c, s)
             \/ SendEof(c) \/ SendStatus(c) \/ SendClose(c)
       \/ Break \/ Stall
    /\ UNCHANGED <<chan, left, buffered, reader, locked, waiter, op, waits>>

---------------------------------------------------------------------------
(* run_command.                                                            *)

\* _execute has opened a session and started the command; _make_host_output
\* spawns the readers.
Execute(c) ==
    /\ chan[c] = "new" /\ ~broken /\ ~stalled
    /\ chan' = [chan EXCEPT ![c] = "open"]
    /\ reader' = [reader EXCEPT ![c] = [s \in Streams |-> "reading"]]
    /\ UNCHANGED <<remote, left, buffered, locked, waiter, op, waits>>

\* The timer around _execute, or an error of the session.
ExecuteFails(c) ==
    /\ chan[c] = "new"
    /\ chan' = [chan EXCEPT ![c] = "failed"]
    /\ UNCHANGED <<remote, left, buffered, reader, locked, waiter, op, waits>>

---------------------------------------------------------------------------
(* _read_output_to_buffer.  A read that would block polls and reads again. *)

Unread(c, s) == data[c][s] - buffered[c][s]

\* Both readers take the lock of stdout, which a close of any channel holds.
MayRead(c, s) == reader[c][s] = "reading" /\ locked = {}

\* Mutant of ReadChunk: a read that would block is taken for a chunk.
ReadChunkUnchecked(c, s) ==
    /\ MayRead(c, s)
    /\ buffered' = [buffered EXCEPT ![c][s] = @ + 1]
    /\ UNCHANGED <<chan, remote, left, reader, locked, waiter, op, waits>>

ReadChunk(c, s) ==
    /\ MayRead(c, s) /\ Unread(c, s) > 0 /\ ~broken
    /\ buffered' = [buffered EXCEPT ![c][s] = @ + 1]
    /\ UNCHANGED <<chan, remote, left, reader, locked, waiter, op, waits>>

\* Mutant of AtEnd: end of file ends the reader, whatever is still to be read.
AtEndOfFile(c, s) == broken \/ c \in eof \union closed

\* channel.read returns an error or no size: the session has failed, which libssh2 tells
\* before what it has queued, or nothing is left and nothing will come.
AtEnd(c, s) == broken \/ (Unread(c, s) = 0 /\ c \in eof \union closed)

\* Mutant of ReadEnds: an error of the session leaves the buffer open.
ReadEndsUnbroken(c, s) ==
    /\ MayRead(c, s) /\ AtEnd(c, s) /\ ~broken
    /\ reader' = [reader EXCEPT ![c][s] = "ended"]
    /\ UNCHANGED <<chan, remote, left, buffered, locked, waiter, op, waits>>

\* However the loop ends, the end is announced in the buffer.
ReadEnds(c, s) ==
    /\ MayRead(c, s) /\ AtEnd(c, s)
    /\ reader' = [reader EXCEPT ![c][s] = "ended"]
    /\ UNCHANGED <<chan, remote, left, buffered, locked, waiter, op, waits>>

---------------------------------------------------------------------------
(* wait_finished and close_channel.                                        *)

Start(c, pc, o) ==
    /\ chan[c] = "open" /\ waiter[c] \in Over /\ waits[c] < MaxWaits
    /\ waiter' = [waiter EXCEPT ![c] = pc]
    /\ op' = [op EXCEPT ![c] = o]
    /\ waits' = [waits EXCEPT ![c] = @ + 1]
    /\ UNCHANGED <<chan, remote, left, buffered, reader, locked>>

WaitFinished(c, timed) == Start(c, "eof", [kind |-> "wait", timed |-> timed])

\* The user closes the channel, so as to end a command that has a terminal.
CloseChannel(c) == Start(c, "lock", [kind |-> "close", timed |-> FALSE])

Goto(c, pc) ==
    /\ waiter' = [waiter EXCEPT ![c] = pc]
    /\ UNCHANGED <<chan, remote, buffered, reader, op, waits>>

\* eagain(channel.wait_eof)
SawEof(c) ==
    /\ waiter[c] = "eof" /\ c \in eof \union closed
    /\ Goto(c, "lock")
    /\ UNCHANGED <<left, locked>>

TakeLocks(c) ==
    /\ waiter[c] = "lock" /\ locked = {}
    /\ locked' = {c}
    /\ Goto(c, "closing")
    /\ UNCHANGED left

\* Mutant of AfterClose: the channel is taken to be closed once this side has.
AfterCloseAtOnce(c) == "done"

\* Only wait_finished waits for the other side to close too.
AfterClose(c) == IF op[c].kind = "wait" THEN "closed" ELSE "done"

\* eagain(channel.close): libssh2 sends the close, once the socket takes it, ...
SendsClose(c) ==
    /\ waiter[c] = "closing" /\ c \notin left /\ ~stalled /\ ~broken
    /\ left' = left \union {c}
    /\ Goto(c, "closing")
    /\ UNCHANGED locked

\* ... and polls, with the locks held.  It returns when the remote side has closed too, or
\* at some other packet before that.
Closed(c) ==
    /\ waiter[c] = "closing" /\ c \in left
    /\ locked' = locked \ {c}
    /\ Goto(c, AfterClose(c))
    /\ UNCHANGED left

\* eagain(channel.wait_closed)
SawClosed(c) ==
    /\ waiter[c] = "closed" /\ c \in closed
    /\ Goto(c, "done")
    /\ UNCHANGED <<left, locked>>

\* Mutant of Expire: the locks are kept.
ExpireLocked(c) ==
    /\ waiter[c] \in Busy /\ op[c].timed
    /\ Goto(c, "timeout")
    /\ UNCHANGED <<left, locked>>

\* Mutant of Expire: the timer is around wait_eof alone.
ExpireAtEof(c) ==
    /\ waiter[c] = "eof" /\ op[c].timed
    /\ Goto(c, "timeout")
    /\ UNCHANGED <<left, locked>>

\* The timer of wait_finished expires wherever it waits; the locks are let go.
Expire(c) ==
    /\ waiter[c] \in Busy /\ op[c].timed
    /\ locked' = locked \ {c}
    /\ Goto(c, "timeout")
    /\ UNCHANGED left

\* The session has failed: a call on the channel raises.
Fails(c) ==
    /\ broken /\ waiter[c] \in Busy \ {"lock"}
    /\ locked' = locked \ {c}
    /\ Goto(c, "error")
    /\ UNCHANGED left

WaiterStep(c) ==
    \/ SawEof(c) \/ TakeLocks(c) \/ SendsClose(c) \/ Closed(c) \/ SawClosed(c)
    \/ Expire(c) \/ Fails(c)

ReaderStep(c, s) == ReadChunk(c, s) \/ ReadEnds(c, s)

UserStep(c) ==
    \/ Execute(c) \/ ExecuteFails(c)
    \/ \E timed \in BOOLEAN : WaitFinished(c, timed)
    \/ CloseChannel(c)

Next ==
    \/ Remote
    \/ \E c \in Channels :
          \/ UserStep(c) \/ WaiterStep(c)
          \/ \E s \in Streams : ReaderStep(c, s)

\* What a waiting greenlet is sure to do.  channel.close is sure to return only when the
\* remote side has answered it.
WaiterGoesOn(c) ==
    \/ SawEof(c) \/ TakeLocks(c) \/ SendsClose(c) \/ SawClosed(c)
    \/ (c \in closed /\ Closed(c))
    \/ Expire(c) \/ Fails(c)

\* Greenlets that can run do: polls last a millisecond.  The remote side need not
\* send anything, nor answer a close, and the user owes no call.
Fairness ==
    \A c \in Channels :
        /\ WF_vars(WaiterGoesOn(c))
        /\ \A s \in Streams : WF_vars(ReaderStep(c, s))

Spec == Init /\ [][Next]_vars

FairSpec == Spec /\ Fairness

---------------------------------------------------------------------------
(* HostOutput.exit_code: get_exit_status of the client.                    *)

\* libssh2 hides end of file while there is something to read.
ChannelEof(c) == c \in eof \union closed /\ \A s \in Streams : Unread(c, s) = 0

\* Without an exit status, be it still to come or not sent at all, libssh2 has an
\* initial zero.
ExitCode(c) ==
    IF ~ChannelEof(c) THEN "None" ELSE IF c \in status THEN "status" ELSE "zero"

---------------------------------------------------------------------------
TypeOK ==
    /\ chan \in [Channels -> {"new", "open", "failed"}]
    /\ data \in [Channels -> [Streams -> Nat]]
    /\ buffered \in [Channels -> [Streams -> Nat]]
    /\ eof \subseteq Channels /\ status \subseteq Channels
    /\ closed \subseteq Channels /\ left \subseteq Channels
    /\ broken \in BOOLEAN /\ stalled \in BOOLEAN
    /\ reader \in [Channels -> [Streams -> {"none", "reading", "ended"}]]
    /\ locked \subseteq Channels
    /\ waiter \in [Channels -> Busy \union Over]
    /\ op \in [Channels -> [kind : {"none", "wait", "close"}, timed : BOOLEAN]]
    /\ waits \in [Channels -> 0 .. MaxWaits]

\* A reader that has announced the end has moved everything that came to the buffer and
\* nothing more will come, unless the session has failed: what a consumer reads to the end
\* is the whole output, also if the channel was closed under the reader.
OutputComplete ==
    \A c \in Channels, s \in Streams :
        reader[c][s] = "ended" =>
            broken \/ (Unread(c, s) = 0 /\ c \in eof \union closed)

\* At any time the channel locks are with one greenlet, which is in close_channel:
\* every way out of it, a timeout included, lets them go.
LocksWithOneCloser ==
    /\ locked = {c \in Channels : waiter[c] = "closing"}
    /\ \A c, d \in locked : c = d

\* An exit code that is there after wait_finished has returned is final: not the initial
\* zero of a channel whose exit status is still to come (the wait for the remote close).
ExitCodeFinal ==
    [][\A c \in Channels :
          waiter[c] = "done" /\ op[c].kind = "wait" /\ ExitCode(c) # "None" =>
              ExitCode(c)' = ExitCode(c)]_vars

\* A close without a timer waits for the socket or for the remote side, and keeps the
\* locks of all channels of the client.
Unanswered ==
    \E c \in Channels :
        /\ waiter[c] = "closing" /\ ~op[c].timed
        /\ IF c \in left THEN c \notin closed ELSE stalled

\* Supposing that closes are answered, the exit code becomes available once a
\* wait_finished has returned, or the session has failed: readers may still be at work
\* then, but are not kept from ending.
ExitCodeAvailable ==
    []<>(~Unanswered) =>
        \A c \in Channels :
            (waiter[c] = "done" /\ op[c].kind = "wait") ~> (ExitCode(c) # "None" \/ broken)

\* Supposing that closes are answered, the end of output is announced in every buffer
\* after end of file, close or failure, whoever closes which channel when.
ReadersEnd ==
    []<>(~Unanswered) =>
        \A c \in Channels, s \in Streams :
            (reader[c][s] = "reading" /\ (c \in eof \union closed \/ broken))
                ~> (reader[c][s] = "ended")

\* A wait with a timeout ends, also if it has to wait for the locks.
TimedWaitEnds ==
    \A c \in Channels : (waiter[c] \in Busy /\ op[c].timed) ~> (waiter[c] \in Over)

---------------------------------------------------------------------------
(* What makes the invariants inductive.                                    *)

\* Nothing is read that did not come.
Received == \A c \in Channels, s \in Streams : buffered[c][s] <= data[c][s]

\* A wait that is over saw the channel closed on the other side.
Joined ==
    \A c \in Channels : waiter[c] = "done" /\ op[c].kind = "wait" => c \in closed

IInv == TypeOK /\ Received /\ OutputComplete /\ LocksWithOneCloser /\ Joined
---------------------------------------------------------------------------
(* The output is what its user is promised.                                *)

InState(state) == {b \in Channels \X Streams : reader[b[1]][b[2]] = state}

\* What is known of the last wait_finished of a channel.
Waited(c) ==
    IF op[c].kind # "wait" THEN "none"
    ELSE IF waiter[c] \in Busy THEN "waiting" ELSE waiter[c]

Promise == INSTANCE HostOutput WITH
    sent <- data, over <- eof \union closed, failed <- broken,
    filling <- InState("reading"), ended <- InState("ended"),
    waited <- [c \in Channels |-> Waited(c)]

\* A native client keeps the promise: nothing comes into a buffer after its end was announced,
\* the end is announced once and when everything is in, and wait_finished returns when the
\* output is over, unless the session fails (_read_output_to_buffer, wait_finished).
KeepsPromise == Promise!OutputSpec

=============================================================================
