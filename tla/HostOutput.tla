----------------------------- MODULE HostOutput -----------------------------
(***************************************************************************)
(* What the output of a command is to its user, from a client of either    *)
(* family: HostOutput of pssh/output.py.  Each stream has a buffer that is *)
(* filled while the command runs and whose end is announced once, and      *)
(* wait_finished waits for the command.  ChannelOutput and SshOutput       *)
(* implement it.                                                           *)
(***************************************************************************)
EXTENDS Naturals

CONSTANTS Channels,  \* channels of the client, each of a command
          Streams    \* streams of a channel: stdout and stderr

VARIABLES
    sent,     \* chunks the command has sent, by channel and stream
    over,     \* channels on which nothing more is sent
    failed,   \* the session has failed
    buffered, \* chunks in the buffers, by channel and stream
    filling,  \* the buffers that are being filled
    ended,    \* the buffers whose end is announced
    waited    \* the last wait_finished for the channel

outputVars == <<sent, over, failed, buffered, filling, ended, waited>>

Buffers(c) == {c} \X Streams

OutputInit ==
    /\ sent = [c \in Channels |-> [s \in Streams |-> 0]]
    /\ over = {} /\ failed = FALSE
    /\ buffered = [c \in Channels |-> [s \in Streams |-> 0]]
    /\ filling = {} /\ ended = {}
    /\ waited = [c \in Channels |-> "none"]

\* The command sends, until its output is over or the session fails.
Send(c, s) ==
    /\ ~failed /\ c \notin over
    /\ sent' = [sent EXCEPT ![c][s] = @ + 1]
    /\ UNCHANGED <<over, failed, buffered, filling, ended, waited>>

Finish(c) ==
    /\ ~failed /\ over' = over \union {c}
    /\ UNCHANGED <<sent, failed, buffered, filling, ended, waited>>

Break ==
    /\ failed' = TRUE
    /\ UNCHANGED <<sent, over, buffered, filling, ended, waited>>

\* run_command: buffers are filled once.
Run(c) ==
    /\ Buffers(c) \intersect (filling \union ended) = {}
    /\ filling' = filling \union Buffers(c)
    /\ UNCHANGED <<sent, over, failed, buffered, ended, waited>>

\* What was sent comes in, before the end is announced and not after it.
Fill(c, s) ==
    /\ <<c, s>> \in filling /\ buffered[c][s] < sent[c][s]
    /\ buffered' = [buffered EXCEPT ![c][s] = @ + 1]
    /\ UNCHANGED <<sent, over, failed, filling, ended, waited>>

\* The end is announced when everything has come in, or will not.
Announce(c, s) ==
    /\ <<c, s>> \in filling
    /\ failed \/ (c \in over /\ buffered[c][s] = sent[c][s])
    /\ filling' = filling \ {<<c, s>>} /\ ended' = ended \union {<<c, s>>}
    /\ UNCHANGED <<sent, over, failed, buffered, waited>>

Waits(c, how) ==
    /\ waited' = [waited EXCEPT ![c] = how]
    /\ UNCHANGED <<sent, over, failed, buffered, filling, ended>>

\* wait_finished is called, for a command whose buffers are or were filled.
Wait(c) ==
    /\ waited[c] # "waiting" /\ Buffers(c) \subseteq filling \union ended
    /\ Waits(c, "waiting")

\* It returns when the output of the command is over.
Return(c) ==
    /\ waited[c] = "waiting" /\ (c \in over \/ failed)
    /\ Waits(c, "done")

\* It raises a timeout at any time, and another error only in a session that has failed.
Raise(c) ==
    /\ waited[c] = "waiting"
    /\ Waits(c, "timeout") \/ (failed /\ Waits(c, "error"))

\* The user closes the channel: what waits there now is no wait_finished.
Close(c) == waited[c] # "waiting" /\ Waits(c, "none")

OutputNext ==
    \/ Break
    \/ \E c \in Channels :
          \/ Finish(c) \/ Run(c) \/ Wait(c) \/ Return(c) \/ Raise(c) \/ Close(c)
          \/ \E s \in Streams : Send(c, s) \/ Fill(c, s) \/ Announce(c, s)

OutputSpec == OutputInit /\ [][OutputNext]_outputVars
=============================================================================
