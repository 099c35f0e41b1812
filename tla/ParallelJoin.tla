--------------------------- MODULE ParallelJoin ---------------------------
(***************************************************************************)
(* join and join_shells of pssh/clients/base/parallel.py: the user         *)
(* greenlet spawns one greenlet per output (or shell) in the pool, waits   *)
(* for them with a timer of its own, and sorts out which have finished.    *)
(* The greenlets of join wait for their channel under a timer of the same  *)
(* duration (wait_finished of pssh/clients/native/single.py); those of     *)
(* join_shells have none.  With consume_output they go on to read all of   *)
(* the output.  What is left behind by a timeout stays in the pool.        *)
(*                                                                         *)
(* The timers in play have one duration, so they expire in the order they  *)
(* were armed.                                                             *)
(***************************************************************************)
EXTENDS Integers, SequencesExt, Greenlets

CONSTANTS Outputs,    \* the output list: outputs are 1 .. Outputs
          MayFail,    \* outputs whose host may have failed: they have no client then
          Removals,   \* bound: numbers of hosts that may be off the list since run_command
          PoolSize,   \* pool_size
          MaxJoins    \* bound: calls of join and join_shells

Output == 1 .. Outputs
None == 0

ASSUME JoinAssumption ==
    /\ Outputs \in Nat /\ MayFail \subseteq Output /\ Removals \subseteq 0 .. Outputs
    /\ PoolSize \in Nat \ {0} /\ MaxJoins \in Nat

VARIABLES
    failed,    \* outputs of hosts that failed
    exited,    \* outputs whose remote command has exited
    closed,    \* outputs whose channel has been closed on both sides
    joiners,   \* history: every greenlet spawned, with its output and state
    timers,    \* armed timers, by the greenlet they belong to; Main is the user's
    call,      \* the join in progress
    seen,      \* greenlets joinall has seen end, in that order
    outcome,   \* what the last join returned or raised
    joins      \* history: number of joins

vars == <<failed, exited, closed, joiners, timers, call, seen, outcome, joins>>

Main == 0

\* consume: consume_output; waits: the user greenlet is waiting for a pool slot;
\* blocked: it has waited.
Idle == [pc |-> "idle", kind |-> "output", outs |-> <<>>, cmds |-> <<>>,
         timed |-> FALSE, consume |-> FALSE, waits |-> FALSE, blocked |-> FALSE]

NoOutcome == [kind |-> "none", call |-> Idle, finished |-> <<>>, unfinished |-> {}]

Ends == {"done", "timeout", "error"}
Ended(j) == joiners[j].pc \in Ends
Active == {j \in DOMAIN joiners : ~Ended(j)}
PoolFull == Cardinality(Active) >= PoolSize

\* Greenlets are cooperative: nothing else runs while the user greenlet spawns,
\* unless it waits for a slot.
UserWaits == call.pc = "spawning" => call.waits

\* The remote commands whose end is awaited: those that could be started.
Started == Output \ failed

Init ==
    /\ failed \in SUBSET MayFail
    /\ exited = {} /\ closed = {} /\ joiners = <<>> /\ timers = <<>>
    /\ call = Idle /\ seen = <<>> /\ outcome = NoOutcome /\ joins = 0

---------------------------------------------------------------------------
(* The remote side.                                                        *)

Exit(o) ==
    /\ o \in Started \ exited /\ UserWaits
    /\ exited' = exited \union {o}
    /\ UNCHANGED <<failed, closed, joiners, timers, call, seen, outcome, joins>>

---------------------------------------------------------------------------
(* The user greenlet.                                                      *)

Begin(kind, outs, timed, consume) ==
    /\ call.pc = "idle" /\ joins < MaxJoins
    /\ joins' = joins + 1
    /\ call' = [Idle EXCEPT !.pc = "spawning", !.kind = kind, !.outs = outs,
                            !.timed = timed, !.consume = consume]
    /\ outcome' = NoOutcome /\ seen' = <<>>
    /\ UNCHANGED <<failed, exited, closed, joiners, timers>>

\* All of the output, or what the last timeout named unfinished.
Join(timed, consume) ==
    \E outs \in {[o \in Output |-> o], SetToSeq(outcome.unfinished)} :
        Begin("output", outs, timed, consume)

\* Shells have been opened for all hosts, or open_shell would have raised.
JoinShells(timed) ==
    /\ failed = {}
    /\ Begin("shell", [o \in Output |-> o], timed, FALSE)

Spawned == Len(call.cmds) = Len(call.outs)

Spawn ==
    /\ call.pc = "spawning" /\ ~Spawned /\ ~PoolFull
    /\ joiners' = Append(joiners, [out |-> call.outs[Len(call.cmds) + 1],
                                   pc |-> "new", shell |-> call.kind = "shell",
                                   timed |-> call.timed /\ call.kind = "output",
                                   consume |-> call.consume])
    /\ call' = [call EXCEPT !.cmds = Append(@, Len(joiners')), !.waits = FALSE]
    /\ UNCHANGED <<failed, exited, closed, timers, seen, outcome, joins>>

\* The pool is full: spawn waits for a slot.
Block ==
    /\ call.pc = "spawning" /\ ~Spawned /\ PoolFull /\ ~call.waits
    /\ call' = [call EXCEPT !.waits = TRUE, !.blocked = TRUE]
    /\ UNCHANGED <<failed, exited, closed, joiners, timers, seen, outcome, joins>>

\* Mutant of ArmMain: joinall is not given the timeout.
ArmNothing == UNCHANGED timers

\* joinall starts its timer before any greenlet spawned without waiting has run.
ArmMain == timers' = IF call.timed THEN Append(timers, Main) ELSE timers

StartJoinall ==
    /\ call.pc = "spawning" /\ Spawned
    /\ ArmMain
    /\ call' = [call EXCEPT !.pc = "joining"]
    /\ seen' \in InOrder({j \in ToSet(call.cmds) : Ended(j)})
    /\ UNCHANGED <<failed, exited, closed, joiners, outcome, joins>>

\* Mutant of Disarm: timers are not cancelled.
DisarmNothing(t) == timers

Disarm(t) == RemoveFirst(timers, t)

Reply(kind, finished, unfinished) ==
    /\ outcome' = [kind |-> kind, call |-> call, finished |-> finished,
                   unfinished |-> unfinished]
    /\ call' = Idle
    /\ UNCHANGED <<failed, exited, closed, joiners, seen, joins>>

Errors == {j \in ToSet(seen) : joiners[j].pc # "done"}

\* joinall(.., raise_error=True) raises what a greenlet of join raised first; a
\* Timeout of its wait_finished has no arguments.
RaiseError ==
    /\ call.pc = "joining" /\ call.kind = "output" /\ Errors # {}
    /\ \E i \in DOMAIN seen :
          /\ seen[i] \in Errors /\ \A k \in 1 .. i - 1 : seen[k] \notin Errors
          /\ Reply(IF joiners[seen[i]].pc = "timeout" THEN "bare timeout" ELSE "error", <<>>, {})
    /\ timers' = Disarm(Main)

\* What a greenlet returns: _join gives None for an output without a client.
Value(j) ==
    IF joiners[j].out \in failed /\ ~joiners[j].shell THEN None ELSE joiners[j].out

\* Mutant of FinishedValues: outputs are taken in the order they were given.
FinishedInOrder == [i \in DOMAIN seen |-> call.outs[i]]

FinishedValues == [i \in DOMAIN seen |-> Value(seen[i])]

\* After joinall: without a timeout nothing is looked at any more; with one, errors
\* of shells are raised, and if greenlets are left the finished output is fetched
\* by get_last_output, which looks up a host for each.
Finish ==
    IF ~call.timed THEN Reply("returned", <<>>, {})
    ELSE IF call.kind = "shell" /\ Errors # {} THEN Reply("error", <<>>, {})
    ELSE IF Len(seen) = Len(call.cmds) THEN Reply("returned", FinishedValues, {})
    ELSE \E removed \in Removals :
            IF call.kind = "output" /\ Len(seen) > Outputs - removed
            THEN Reply("index error", <<>>, {})
            ELSE Reply("timeout", FinishedValues, ToSet(call.outs) \ ToSet(FinishedValues))

AllSeen ==
    /\ call.pc = "joining" /\ Len(seen) = Len(call.cmds)
    /\ call.kind = "output" => Errors = {}
    /\ Finish
    /\ timers' = Disarm(Main)

\* The user's timer is the next to expire.
Expired ==
    /\ call.pc = "joining" /\ timers # <<>> /\ Head(timers) = Main
    /\ call.kind = "output" => Errors = {}
    /\ Finish
    /\ timers' = Tail(timers)

---------------------------------------------------------------------------
(* The greenlets.                                                          *)

\* What a greenlet was given makes no difference any more when it has ended.
Proceed(j, pc) ==
    /\ joiners' = [joiners EXCEPT ![j].pc = pc, ![j].timed = @ /\ pc \notin Ends,
                                  ![j].consume = @ /\ pc \notin Ends]
    /\ seen' = IF call.pc = "joining" /\ j \in ToSet(call.cmds) /\ pc \in Ends
               THEN Append(seen, j) ELSE seen

\* Mutant of StartWait: the timeout is not handed on to the greenlets.
StartWaitUntimed(j) ==
    /\ joiners[j].pc = "new"
    /\ Proceed(j, IF joiners[j].out \in failed /\ ~joiners[j].shell THEN "done" ELSE "waiting")
    /\ UNCHANGED <<timers, closed>>

\* _join returns at once for an output without a client; otherwise it waits, under
\* a timer of its own if one was asked for.  A shell sends end of file and waits.
StartWait(j) ==
    /\ joiners[j].pc = "new"
    /\ IF joiners[j].out \in failed /\ ~joiners[j].shell
       THEN Proceed(j, "done") /\ UNCHANGED timers
       ELSE /\ Proceed(j, "waiting")
            /\ timers' = IF joiners[j].timed THEN Append(timers, j) ELSE timers
    /\ UNCHANGED closed

\* Mutant of WaitEnds: end of file is taken for the end of the command.
WaitEndsOpen(j) ==
    /\ joiners[j].pc = "waiting" /\ joiners[j].out \in exited
    /\ Proceed(j, "done")
    /\ timers' = Disarm(j)
    /\ UNCHANGED closed

\* wait_finished: end of file, close_channel, wait_closed.
WaitEnds(j) ==
    /\ joiners[j].pc = "waiting" /\ joiners[j].out \in exited
    /\ closed' = closed \union {joiners[j].out}
    /\ Proceed(j, IF joiners[j].consume THEN "consuming" ELSE "done")
    /\ timers' = Disarm(j)

\* _consume_output has read both streams to the end.
Consumed(j) ==
    /\ joiners[j].pc = "consuming"
    /\ Proceed(j, "done")
    /\ UNCHANGED <<timers, closed>>

\* The output has a read timeout, which is another one, or a line cannot be decoded.
ConsumeFails(j) ==
    /\ joiners[j].pc = "consuming"
    /\ \E pc \in {"timeout", "error"} : Proceed(j, pc)
    /\ UNCHANGED <<timers, closed>>

\* The timer of wait_finished is the next to expire.
WaitExpires(j) ==
    /\ timers # <<>> /\ Head(timers) = j /\ joiners[j].pc = "waiting"
    /\ Proceed(j, "timeout")
    /\ timers' = Tail(timers)
    /\ UNCHANGED closed

\* The session fails.
WaitFails(j) ==
    /\ joiners[j].pc = "waiting"
    /\ Proceed(j, "error")
    /\ timers' = Disarm(j)
    /\ UNCHANGED closed

JoinerStep(j) ==
    /\ UserWaits
    /\ \/ StartWait(j) \/ WaitEnds(j) \/ WaitExpires(j) \/ WaitFails(j)
       \/ Consumed(j) \/ ConsumeFails(j)
    /\ UNCHANGED <<failed, exited, call, outcome, joins>>

UserStep == Spawn \/ Block \/ StartJoinall \/ RaiseError \/ AllSeen \/ Expired

UserCall ==
    \E timed \in BOOLEAN : JoinShells(timed) \/ \E consume \in BOOLEAN : Join(timed, consume)

Next ==
    \/ UserCall \/ UserStep
    \/ \E o \in Output : Exit(o)
    \/ \E j \in DOMAIN joiners : JoinerStep(j)

\* Timers expire and what can run runs; output that is consumed is that of a channel which
\* has been closed, and ends.  Remote commands need not exit, sessions
\* need not fail, and the user owes no call.
Fairness ==
    /\ WF_vars(UserStep)
    /\ \A j \in 1 .. MaxJoins * Outputs :
          WF_vars(/\ j \in DOMAIN joiners
                  /\ UserWaits
                  /\ StartWait(j) \/ WaitEnds(j) \/ WaitExpires(j) \/ Consumed(j)
                  /\ UNCHANGED <<failed, exited, call, outcome, joins>>)

Spec == Init /\ [][Next]_vars

FairSpec == Spec /\ Fairness

---------------------------------------------------------------------------
TypeOK ==
    /\ failed \subseteq MayFail
    /\ closed \subseteq exited /\ exited \subseteq Started
    /\ \A j \in DOMAIN joiners :
          /\ joiners[j].out \in Output
          /\ joiners[j].shell \in BOOLEAN /\ joiners[j].timed \in BOOLEAN
          /\ joiners[j].consume \in BOOLEAN
          /\ joiners[j].pc \in {"new", "waiting", "consuming"} \union Ends
    /\ timers \in Seq({Main} \union DOMAIN joiners)
    /\ \A j \in ToSet(timers) \ {Main} : joiners[j].pc = "waiting"
    /\ Main \in ToSet(timers) => call.pc = "joining" /\ call.timed
    /\ call.pc \in {"idle", "spawning", "joining"} /\ call.kind \in {"output", "shell"}
    /\ call.outs \in Seq(Output) /\ call.cmds \in Seq(DOMAIN joiners)
    /\ {call.timed, call.consume, call.waits, call.blocked} \subseteq BOOLEAN
    /\ seen \in Seq(ToSet(call.cmds)) \/ call.pc = "idle"
    /\ outcome.kind \in {"none", "returned", "timeout", "bare timeout", "error",
                         "index error"}
    /\ joins \in 0 .. MaxJoins

\* When join returns, with or without a timeout, the channel of every command it
\* was to wait for is closed, so exit codes are there (join, wait_finished).
ReturnedMeansClosed ==
    outcome.kind = "returned" /\ (outcome.call.kind = "output" \/ outcome.call.timed) =>
        ToSet(outcome.call.outs) \ failed \subseteq closed

\* Timeout tells finished from unfinished: what it calls finished is, what is still
\* open it calls unfinished, and it calls nothing both.
TimeoutPartitions ==
    outcome.kind = "timeout" =>
        /\ ToSet(outcome.finished) \ {None} \subseteq closed
        /\ ToSet(outcome.call.outs) \ (closed \union failed) \subseteq outcome.unfinished
        /\ ToSet(outcome.finished) \intersect outcome.unfinished = {}

\* The argument-less Timeout of a greenlet gets out of join only if join had to wait for
\* a pool slot, otherwise its own timer is the first to expire, or if it is that of a read.
BareTimeoutOnlyIfBlocked ==
    outcome.kind = "bare timeout" => outcome.call.blocked \/ outcome.call.consume

\* The types of pool and timers, and what the three outcomes of join mean.
Inv == TypeOK /\ ReturnedMeansClosed /\ TimeoutPartitions /\ BareTimeoutOnlyIfBlocked

\* A join with a timeout ends, whatever the remote commands do, when every greenlet
\* in the pool is under a timer too: then no wait for a slot is without end.
TimedJoinEnds ==
    (/\ call.pc = "spawning" /\ call.timed /\ call.kind = "output"
     /\ \A j \in Active : joiners[j].timed)
        ~> (call.pc = "idle")
=============================================================================
