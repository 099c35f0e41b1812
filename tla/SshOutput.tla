----------------------------- MODULE SshOutput -----------------------------
(***************************************************************************)
(* The output and the end of the commands run on one libssh client         *)
(* (pssh/clients/ssh/single.py).  As ChannelOutput, with these             *)
(* differences: wait_finished first sends end of file to the command, then *)
(* waits for the two readers in place of the remote side, and only that    *)
(* wait has the timer; there are no channel locks; and a reader ends with  *)
(* an exception of libssh.                                                 *)
(*                                                                         *)
(* libssh is external: what it has received of a channel is data, eof,     *)
(* status and closed.  Once stalled, the remote side takes in no more and  *)
(* what is sent would block for good.  Data are counted in chunks.         *)
(***************************************************************************)
EXTENDS Integers

CONSTANTS Channels,   \* channels of the client
          Streams,    \* streams of a channel that are read: stdout and stderr
          MaxChunks,  \* bound: chunks of output per stream
          MaxWaits    \* bound: calls of wait_finished and close_channel per channel

ASSUME StreamsAssumption == Streams # {}
ASSUME ChunksAssumption == MaxChunks \in Nat
ASSUME WaitsAssumption == MaxWaits \in Nat

VARIABLES
    chan,      \* run_command on this channel: its progress
    data,      \* chunks libssh has received, by channel and stream
    eof,       \* channels for which it has received end of file
    status,    \* channels for which it has received the exit status
    closed,    \* channels the remote side has closed
    broken,    \* the session has failed
    stalled,   \* nothing can be sent any more
    left,      \* channels this side has closed
    buffered,  \* chunks the reader has moved to the buffer
    reader,    \* reader greenlets
    waiter,    \* greenlet in wait_finished or close_channel
    op,        \* what that greenlet does: kind, and whether it has a timer
    waits      \* history: calls of wait_finished and close_channel

remote == <<data, eof, status, closed, broken, stalled>>
vars == <<chan, remote, left, buffered, reader, waiter, op, waits>>

Busy == {"sending", "joining", "closing"}
Over == {"idle", "done", "timeout", "error"}

Init ==
    /\ chan = [c \in Channels |-> "new"]
    /\ data = [c \in Channels |-> [s \in Streams |-> 0]]
    /\ eof = {} /\ status = {} /\ closed = {} /\ broken = FALSE /\ stalled = FALSE
    /\ left = {}
    /\ buffered = [c \in Channels |-> [s \in Streams |-> 0]]
    /\ reader = [c \in Channels |-> [s \in Streams |-> "none"]]
    /\ waiter = [c \in Channels |-> "idle"]
    /\ op = [c \in Channels |-> [kind |-> "none", timed |-> FALSE]]
    /\ waits = [c \in Channels |-> 0]

---------------------------------------------------------------------------
(* The remote side, as far as libssh has received it.                      *)

SendData(c, s) ==
    /\ c \notin eof \union closed /\ data[c][s] < MaxChunks
    /\ data' = [data EXCEPT ![c][s] = @ + 1]
    /\ UNCHANGED <<eof, status, closed, broken, stalled>>

SendEof(c) ==
    /\ c \notin eof \union closed
    /\ eof' = eof \union {c}
    /\ UNCHANGED <<data, status, closed, broken, stalled>>

SendStatus(c) ==
    /\ c \notin status \union closed
    /\ status' = status \union {c}
    /\ UNCHANGED <<data, eof, closed, broken, stalled>>

\* When there is no more to send, or nobody to send it to; a command that a signal has
\* ended leaves no exit status.
SendClose(c) ==
    /\ c \notin closed /\ c \in eof \union left
    /\ closed' = closed \union {c}
    /\ UNCHANGED <<data, eof, status, broken, stalled>>

Break == broken' = TRUE /\ UNCHANGED <<data, eof, status, closed, stalled>>

Stall == stalled' = TRUE /\ UNCHANGED <<data, eof, status, closed, broken>>

Remote ==
    /\ ~broken
    /\ \/ \E c \in Channels :
             /\ chan[c] = "open"
             /\ \/ \E s \in Streams : SendData(c, s)
                \/ SendEof(c) \/ SendStatus(c) \/ SendClose(c)
       \/ Break \/ Stall
    /\ UNCHANGED <<chan, left, buffered, reader, waiter, op, waits>>

---------------------------------------------------------------------------
(* run_command: _execute and _make_output_readers.                         *)

Execute(c) ==
    /\ chan[c] = "new" /\ ~broken /\ ~stalled
    /\ chan' = [chan EXCEPT ![c] = "open"]
    /\ reader' = [reader EXCEPT ![c] = [s \in Streams |-> "reading"]]
    /\ UNCHANGED <<remote, left, buffered, waiter, op, waits>>

\* The timer around all of _execute, or an error of the session.
ExecuteFails(c) ==
    /\ chan[c] = "new"
    /\ chan' = [chan EXCEPT ![c] = "failed"]
    /\ UNCHANGED <<remote, left, buffered, reader, waiter, op, waits>>

---------------------------------------------------------------------------
(* _read_output_to_buffer.                                                 *)

Unread(c, s) == data[c][s] - buffered[c][s]

ReadChunk(c, s) ==
    /\ reader[c][s] = "reading" /\ Unread(c, s) > 0 /\ ~broken
    /\ buffered' = [buffered EXCEPT ![c][s] = @ + 1]
    /\ UNCHANGED <<chan, remote, left, reader, waiter, op, waits>>

\* Mutant of AtEnd: end of file ends the reader, whatever is still to be read.
AtEndOfFile(c, s) == broken \/ c \in eof \union closed

\* Mutant of AtEnd: nothing to read is taken for the end.
AtEndOfData(c, s) == broken \/ Unread(c, s) = 0

\* Mutant of AtEnd: an error is not the end.
AtEndUnbroken(c, s) == Unread(c, s) = 0 /\ c \in eof \union closed

\* read_nonblocking raises: EOF, or the error of the session.
AtEnd(c, s) == broken \/ (Unread(c, s) = 0 /\ c \in eof \union closed)

\* However the loop ends, the end is announced in the buffer.
ReadEnds(c, s) ==
    /\ reader[c][s] = "reading" /\ AtEnd(c, s)
    /\ reader' = [reader EXCEPT ![c][s] = "ended"]
    /\ UNCHANGED <<chan, remote, left, buffered, waiter, op, waits>>

---------------------------------------------------------------------------
(* wait_finished and close_channel.                                        *)

Start(c, pc, o) ==
    /\ chan[c] = "open" /\ waiter[c] \in Over /\ waits[c] < MaxWaits
    /\ waiter' = [waiter EXCEPT ![c] = pc]
    /\ op' = [op EXCEPT ![c] = o]
    /\ waits' = [waits EXCEPT ![c] = @ + 1]
    /\ UNCHANGED <<chan, remote, left, buffered, reader>>

WaitFinished(c, timed) == Start(c, "sending", [kind |-> "wait", timed |-> timed])

CloseChannel(c) == Start(c, "closing", [kind |-> "close", timed |-> FALSE])

Goto(c, pc) ==
    /\ waiter' = [waiter EXCEPT ![c] = pc]
    /\ UNCHANGED <<chan, remote, buffered, reader, op, waits>>

\* eagain(channel.send_eof), which is before the timer.
SentEof(c) ==
    /\ waiter[c] = "sending" /\ ~stalled /\ ~broken
    /\ Goto(c, "joining")
    /\ UNCHANGED left

\* Mutant of Joined: the wait is for stdout or stderr.
JoinedAny(c) == \E s \in Streams : reader[c][s] = "ended"

\* joinall: the greenlets of both readers are over.
Joined(c) == \A s \in Streams : reader[c][s] = "ended"

SawReaders(c) ==
    /\ waiter[c] = "joining" /\ Joined(c)
    /\ Goto(c, "closing")
    /\ UNCHANGED left

\* Mutant of Expire: there is no timer.
ExpireNever(c) ==
    /\ waiter[c] = "joining" /\ op[c].timed /\ chan[c] # "open"
    /\ Goto(c, "timeout")
    /\ UNCHANGED left

Expire(c) ==
    /\ waiter[c] = "joining" /\ op[c].timed
    /\ Goto(c, "timeout")
    /\ UNCHANGED left

\* eagain(channel.close), which is after the timer.
Closed(c) ==
    /\ waiter[c] = "closing" /\ ~stalled /\ ~broken
    /\ left' = left \union {c}
    /\ Goto(c, "done")

\* The session has failed: what is sent raises.
Fails(c) ==
    /\ waiter[c] \in {"sending", "closing"} /\ broken
    /\ Goto(c, "error")
    /\ UNCHANGED left

WaiterStep(c) == SentEof(c) \/ SawReaders(c) \/ Expire(c) \/ Closed(c) \/ Fails(c)

ReaderStep(c, s) == ReadChunk(c, s) \/ ReadEnds(c, s)

UserStep(c) ==
    \/ Execute(c) \/ ExecuteFails(c)
    \/ \E timed \in BOOLEAN : WaitFinished(c, timed)
    \/ CloseChannel(c)

Next ==
    \/ Remote
    \/ \E c \in Channels :
          \/ UserStep(c) \/ WaiterStep(c)
          \/ \E s \in Streams : ReaderStep(c, s)

\* Greenlets that can run do: a poll lasts a millisecond.  The remote side need not send
\* anything, and the user owes no call.
Fairness ==
    \A c \in Channels :
        /\ WF_vars(WaiterStep(c))
        /\ \A s \in Streams : WF_vars(ReaderStep(c, s))

Spec == Init /\ [][Next]_vars

FairSpec == Spec /\ Fairness

---------------------------------------------------------------------------
(* get_exit_status.                                                        *)

\* libssh hides end of file while there is something to read.
ChannelEof(c) == c \in eof \union closed /\ \A s \in Streams : Unread(c, s) = 0

\* Without an exit status libssh has a -1.
ExitCode(c) ==
    IF ~ChannelEof(c) THEN "None" ELSE IF c \in status THEN "status" ELSE "minus one"

---------------------------------------------------------------------------
TypeOK ==
    /\ chan \in [Channels -> {"new", "open", "failed"}]
    /\ data \in [Channels -> [Streams -> 0 .. MaxChunks]]
    /\ buffered \in [Channels -> [Streams -> 0 .. MaxChunks]]
    /\ eof \subseteq Channels /\ status \subseteq Channels /\ closed \subseteq Channels
    /\ broken \in BOOLEAN /\ stalled \in BOOLEAN
    /\ left \subseteq Channels
    /\ reader \in [Channels -> [Streams -> {"none", "reading", "ended"}]]
    /\ waiter \in [Channels -> Busy \union Over]
    /\ op \in [Channels -> [kind : {"none", "wait", "close"}, timed : BOOLEAN]]
    /\ waits \in [Channels -> 0 .. MaxWaits]

\* A reader that has announced the end has moved everything that came to the buffer, and
\* nothing more will come, unless the session has failed.
OutputComplete ==
    \A c \in Channels, s \in Streams :
        reader[c][s] = "ended" =>
            broken \/ (Unread(c, s) = 0 /\ c \in eof \union closed)

\* A wait has come past the readers only when both were over.
PastReaders ==
    \A c \in Channels :
        op[c].kind = "wait" /\ waiter[c] \in {"closing", "done"} =>
            \A s \in Streams : reader[c][s] = "ended"

\* Nothing is read that did not come.
Received == \A c \in Channels, s \in Streams : buffered[c][s] <= data[c][s]

\* Only a channel that is open is waited for.
Opened == \A c \in Channels : chan[c] # "open" => waiter[c] = "idle"

IInv == TypeOK /\ OutputComplete /\ PastReaders /\ Received /\ Opened

\* When wait_finished returns, the buffers hold all of the output of the command, and
\* there is an exit code; in a session that has not failed.
JoinedMeansAllOutput ==
    \A c \in Channels :
        op[c].kind = "wait" /\ waiter[c] = "done" /\ ~broken =>
            /\ \A s \in Streams : buffered[c][s] = data[c][s]
            /\ ExitCode(c) # "None"

\* The end of output is announced in every buffer after end of file, close or failure,
\* whoever closes the channel when.
ReadersEnd ==
    \A c \in Channels, s \in Streams :
        (reader[c][s] = "reading" /\ (c \in eof \union closed \/ broken))
            ~> (reader[c][s] = "ended")

\* A wait with a timeout ends, whether or not the command does: but only the wait for
\* the readers is timed, and what is sent before and after it may block for good.
TimedWaitEnds ==
    \A c \in Channels :
        (waiter[c] \in Busy /\ op[c].timed) ~> (waiter[c] \in Over \/ stalled)
---------------------------------------------------------------------------
(* The output is what its user is promised.                                *)

InState(state) == {b \in Channels \X Streams : reader[b[1]][b[2]] = state}

\* What is known of the last wait_finished of a channel.
Waited(c) ==
    IF op[c].kind # "wait" THEN "none"
    ELSE IF waiter[c] \in Busy THEN "waiting" ELSE waiter[c]

Promise == INSTANCE HostOutput WITH
    sent <- data, over <- eof \union closed, failed <- broken,
    filling <- InState("reading"), ended <- InState("ended"),
    waited <- [c \in Channels |-> Waited(c)]

\* A libssh client keeps the promise: nothing comes into a buffer after its end was announced,
\* the end is announced once and when everything is in, and wait_finished returns when the
\* output is over, unless the session fails (_read_output_to_buffer, wait_finished).
KeepsPromise == Promise!OutputSpec

=============================================================================
