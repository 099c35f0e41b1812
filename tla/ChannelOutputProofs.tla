------------------------ MODULE ChannelOutputProofs ------------------------
(***************************************************************************)
(* Proofs about ChannelOutput: IInv is an inductive invariant, for any     *)
(* channels, streams and amounts of output, and with it output is complete *)
(* when its end is announced, the channel locks are let go, and the exit   *)
(* code after a finished wait_finished is final.                           *)
(***************************************************************************)
EXTENDS ChannelOutput, TLAPS

USE DEF Busy, Over

LEMMA InitIInv == Init => IInv
<1> SUFFICES ASSUME Init PROVE IInv
  OBVIOUS
<1>1. 0 \in 0 .. MaxWaits
  BY WaitsAssumption
<1>2. NoOp \in [kind : {"none", "wait", "close"}, timed : BOOLEAN]
  BY DEF NoOp
<1>3. TypeOK
  BY <1>1, <1>2 DEF Init, TypeOK
<1>4. Received /\ OutputComplete /\ LocksWithOneCloser /\ Joined
  BY DEF Init, Received, OutputComplete, LocksWithOneCloser, Joined
<1> QED
  BY <1>3, <1>4 DEF IInv

\* What a step keeps that leaves the waiting greenlets and the locks alone.
LEMMA WaitersUntouched ==
    ASSUME IInv, UNCHANGED <<locked, waiter, op>>, closed \subseteq closed'
    PROVE  LocksWithOneCloser' /\ Joined'
  BY DEF IInv, LocksWithOneCloser, Joined

\* The remote side adds to what has come, and to nothing of a stream that has ended.
LEMMA RemotePreserves ==
    ASSUME IInv, Remote
    PROVE  IInv'
<1>1. /\ UNCHANGED <<chan, left, buffered, reader, locked, waiter, op, waits>>
      /\ ~broken
  BY DEF Remote
<1>2. CASE Break
  <2>1. TypeOK' /\ Received'
    BY <1>1, <1>2 DEF Break, IInv, TypeOK, Received
  <2>2. OutputComplete'
    BY <1>1, <1>2 DEF Break, IInv, OutputComplete, Unread
  <2>3. closed \subseteq closed'
    BY <1>2 DEF Break
  <2> QED
    BY <1>1, <2>1, <2>2, <2>3, WaitersUntouched DEF IInv
<1>3. ASSUME NEW c \in Channels, NEW s \in Streams, SendData(c, s)
      PROVE  IInv'
  <2>1. data[c][s] + 1 \in Nat
    BY DEF IInv, TypeOK
  <2>2. /\ data' \in [Channels -> [Streams -> Nat]]
        /\ \A d \in Channels, t \in Streams :
              data'[d][t] = IF d = c /\ t = s THEN data[d][t] + 1 ELSE data[d][t]
    BY <1>3, <2>1 DEF SendData, IInv, TypeOK
  <2>3. TypeOK'
    BY <1>1, <1>3, <2>2 DEF SendData, IInv, TypeOK
  <2>4. Received'
    BY <1>1, <1>3, <2>2 DEF SendData, IInv, TypeOK, Received
  <2>5. reader[c][s] # "ended"
    BY <1>1, <1>3 DEF SendData, IInv, OutputComplete
  <2>6. OutputComplete'
    BY <1>1, <1>3, <2>2, <2>5 DEF SendData, IInv, OutputComplete, Unread
  <2>7. closed \subseteq closed'
    BY <1>3 DEF SendData
  <2> QED
    BY <1>1, <2>3, <2>4, <2>6, <2>7, WaitersUntouched DEF IInv
<1>4. ASSUME NEW c \in Channels, SendEof(c) \/ SendStatus(c) \/ SendClose(c)
      PROVE  IInv'
  <2>1. /\ data' = data /\ broken' = broken /\ stalled' = stalled
        /\ eof \subseteq eof' /\ closed \subseteq closed'
        /\ eof' \subseteq eof \union {c} /\ status' \subseteq status \union {c}
        /\ closed' \subseteq closed \union {c}
    BY <1>4 DEF SendEof, SendStatus, SendClose
  <2>2. TypeOK' /\ Received'
    BY <1>1, <2>1 DEF IInv, TypeOK, Received
  <2>3. OutputComplete'
    BY <1>1, <2>1 DEF IInv, OutputComplete, Unread
  <2> QED
    BY <1>1, <2>1, <2>2, <2>3, WaitersUntouched DEF IInv
<1>5. CASE Stall
  <2>1. UNCHANGED <<data, eof, status, closed, broken>> /\ stalled' = TRUE
    BY <1>5 DEF Stall
  <2>2. TypeOK' /\ Received' /\ OutputComplete'
    BY <1>1, <2>1 DEF IInv, TypeOK, Received, OutputComplete, Unread
  <2> QED
    BY <1>1, <2>1, <2>2, WaitersUntouched DEF IInv
<1> QED
  BY <1>2, <1>3, <1>4, <1>5 DEF Remote

LEMMA ReaderPreserves ==
    ASSUME IInv, NEW c \in Channels, NEW s \in Streams, ReaderStep(c, s)
    PROVE  IInv'
<1>1. UNCHANGED <<chan, remote, left, locked, waiter, op, waits>>
  BY DEF ReaderStep, ReadChunk, ReadEnds
<1>2. LocksWithOneCloser' /\ Joined'
  BY <1>1, WaitersUntouched DEF remote
<1>3. CASE ReadChunk(c, s)
  <2>1. buffered[c][s] + 1 <= data[c][s] /\ buffered[c][s] + 1 \in Nat
    BY <1>3 DEF ReadChunk, Unread, IInv, TypeOK
  <2>2. /\ buffered' \in [Channels -> [Streams -> Nat]]
        /\ \A d \in Channels, t \in Streams :
              buffered'[d][t] =
                 IF d = c /\ t = s THEN buffered[d][t] + 1 ELSE buffered[d][t]
    BY <1>3, <2>1 DEF ReadChunk, IInv, TypeOK
  <2>3. TypeOK' /\ reader' = reader
    BY <1>1, <1>3, <2>2 DEF ReadChunk, IInv, TypeOK, remote
  <2>4. Received'
    BY <1>1, <2>1, <2>2 DEF IInv, Received, remote
  <2>5. OutputComplete'
    BY <1>1, <1>3, <2>2, <2>3 DEF ReadChunk, MayRead, IInv, OutputComplete, Unread, remote
  <2> QED
    BY <1>2, <2>3, <2>4, <2>5 DEF IInv
<1>4. CASE ReadEnds(c, s)
  <2>1. /\ buffered' = buffered
        /\ reader' \in [Channels -> [Streams -> {"none", "reading", "ended"}]]
        /\ \A d \in Channels, t \in Streams :
              reader'[d][t] = IF d = c /\ t = s THEN "ended" ELSE reader[d][t]
    BY <1>4 DEF ReadEnds, IInv, TypeOK
  <2>2. TypeOK' /\ Received'
    BY <1>1, <2>1 DEF IInv, TypeOK, Received, remote
  <2>3. OutputComplete'
    BY <1>1, <1>4, <2>1 DEF ReadEnds, AtEnd, IInv, OutputComplete, Unread, remote
  <2> QED
    BY <1>2, <2>2, <2>3 DEF IInv
<1> QED
  BY <1>3, <1>4 DEF ReaderStep

LEMMA UserPreserves ==
    ASSUME IInv, NEW c \in Channels, UserStep(c)
    PROVE  IInv'
<1>1. CASE Execute(c)
  <2>1. /\ UNCHANGED <<remote, left, buffered, locked, waiter, op, waits>>
        /\ chan' \in [Channels -> {"new", "open", "failed"}]
        /\ reader' \in [Channels -> [Streams -> {"none", "reading", "ended"}]]
        /\ \A d \in Channels, t \in Streams :
              reader'[d][t] = IF d = c THEN "reading" ELSE reader[d][t]
    BY <1>1 DEF Execute, IInv, TypeOK
  <2>2. TypeOK' /\ Received'
    BY <2>1 DEF IInv, TypeOK, Received, remote
  <2>3. OutputComplete'
    BY <2>1 DEF IInv, OutputComplete, Unread, remote
  <2> QED
    BY <2>1, <2>2, <2>3, WaitersUntouched DEF IInv, remote
<1>2. CASE ExecuteFails(c)
  <2>1. /\ UNCHANGED <<remote, left, buffered, reader, locked, waiter, op, waits>>
        /\ chan' \in [Channels -> {"new", "open", "failed"}]
    BY <1>2 DEF ExecuteFails, IInv, TypeOK
  <2> QED
    BY <2>1, WaitersUntouched
       DEF IInv, TypeOK, Received, OutputComplete, Unread, remote
<1>3. ASSUME NEW pc \in {"eof", "lock"},
             NEW o \in [kind : {"none", "wait", "close"}, timed : BOOLEAN],
             Start(c, pc, o)
      PROVE  IInv'
  <2>1. UNCHANGED <<chan, remote, left, buffered, reader, locked>>
    BY <1>3 DEF Start
  <2>2. waits[c] + 1 \in 0 .. MaxWaits
    BY <1>3, WaitsAssumption DEF Start, IInv, TypeOK
  <2>3. /\ waiter' \in [Channels -> Busy \union Over]
        /\ waiter[c] # "closing"
        /\ \A d \in Channels : waiter'[d] = IF d = c THEN pc ELSE waiter[d]
        /\ op' \in [Channels -> [kind : {"none", "wait", "close"}, timed : BOOLEAN]]
        /\ \A d \in Channels : d # c => op'[d] = op[d]
        /\ waits' \in [Channels -> 0 .. MaxWaits]
    BY <1>3, <2>2 DEF Start, IInv, TypeOK
  <2>4. TypeOK' /\ Received' /\ OutputComplete'
    BY <2>1, <2>3 DEF IInv, TypeOK, Received, OutputComplete, Unread, remote
  <2>5. LocksWithOneCloser'
    BY <2>1, <2>3 DEF IInv, LocksWithOneCloser
  <2>6. Joined'
    BY <2>1, <2>3 DEF IInv, Joined, remote
  <2> QED
    BY <2>4, <2>5, <2>6 DEF IInv
<1>4. ASSUME NEW timed \in BOOLEAN, WaitFinished(c, timed)
      PROVE  IInv'
  BY <1>3, <1>4 DEF WaitFinished
<1>5. CASE CloseChannel(c)
  BY <1>3, <1>5 DEF CloseChannel
<1> QED
  BY <1>1, <1>2, <1>4, <1>5 DEF UserStep

\* A greenlet that waits goes on; only one that is closing has had the locks.
LEMMA WaiterPreserves ==
    ASSUME IInv, NEW c \in Channels, WaiterStep(c)
    PROVE  IInv'
<1>1. UNCHANGED <<chan, remote, buffered, reader, op, waits>>
  BY DEF WaiterStep, SawEof, TakeLocks, SendsClose, Closed, SawClosed, Expire, Fails, Goto
<1>2. PICK pc \in {"lock", "closing", "closed", "done", "timeout", "error"} :
          waiter' = [waiter EXCEPT ![c] = pc]
  BY DEF WaiterStep, SawEof, TakeLocks, SendsClose, Closed, SawClosed, Expire, Fails, Goto,
         AfterClose
<1>3. \A d \in Channels : waiter'[d] = IF d = c THEN pc ELSE waiter[d]
  BY <1>2 DEF IInv, TypeOK
<1>4. left' \subseteq Channels /\ locked' \subseteq Channels
  BY DEF WaiterStep, SawEof, TakeLocks, SendsClose, Closed, SawClosed, Expire, Fails, Goto,
         IInv, TypeOK
<1>5. TypeOK' /\ Received' /\ OutputComplete'
  BY <1>1, <1>2, <1>4 DEF IInv, TypeOK, Received, OutputComplete, Unread, remote
<1>6. LocksWithOneCloser'
  <2>1. CASE TakeLocks(c)
    <3>1. pc = "closing" /\ locked = {} /\ locked' = {c}
      BY <2>1, <1>3 DEF TakeLocks, Goto, IInv, TypeOK
    <3> QED
      BY <3>1, <1>3 DEF IInv, LocksWithOneCloser
  <2>2. CASE SendsClose(c)
    <3>1. pc = "closing" /\ waiter[c] = "closing" /\ locked' = locked
      BY <2>2, <1>3 DEF SendsClose, Goto, IInv, TypeOK
    <3> QED
      BY <3>1, <1>3 DEF IInv, LocksWithOneCloser
  <2>3. CASE ~TakeLocks(c) /\ ~SendsClose(c)
    <3>1. pc # "closing" /\ locked' = locked \ {c}
      BY <2>3, <1>3 DEF WaiterStep, SawEof, Closed, SawClosed, Expire, Fails, Goto,
         AfterClose, IInv, TypeOK, LocksWithOneCloser
    <3> QED
      BY <3>1, <1>3 DEF IInv, LocksWithOneCloser
  <2> QED
    BY <2>1, <2>2, <2>3
<1>7. Joined'
  <2>1. pc = "done" /\ op[c].kind = "wait" => c \in closed
    BY <1>3 DEF WaiterStep, SawEof, TakeLocks, SendsClose, Closed, SawClosed, Expire, Fails, Goto,
       AfterClose, IInv, TypeOK
  <2> QED
    BY <1>1, <1>3, <2>1 DEF IInv, Joined, remote
<1> QED
  BY <1>5, <1>6, <1>7 DEF IInv

LEMMA NextPreserves ==
    ASSUME IInv, [Next]_vars
    PROVE  IInv'
<1>1. CASE Next
  BY <1>1, RemotePreserves, ReaderPreserves, UserPreserves, WaiterPreserves DEF Next
<1>2. CASE UNCHANGED vars
  BY <1>2 DEF vars, remote, IInv, TypeOK, Received, OutputComplete, Unread,
              LocksWithOneCloser, Joined
<1> QED
  BY <1>1, <1>2

\* The inductive invariant of a client's channels: run_command, the readers,
\* wait_finished and close_channel keep it, whatever the remote side does.
THEOREM Invariance == Spec => []IInv
<1>1. Init => IInv
  BY InitIInv
<1>2. IInv /\ [Next]_vars => IInv'
  BY NextPreserves
<1> QED
  BY <1>1, <1>2, PTL DEF Spec

\* Readers, waits and locks keep their types (the states of the greenlets).
THEOREM TypeCorrect == Spec => []TypeOK
<1>1. IInv => TypeOK
  BY DEF IInv
<1> QED
  BY <1>1, Invariance, PTL

\* A buffer whose end is announced holds the whole output, unless the session failed
\* (_read_output_to_buffer, also when the channel is closed under it).
THEOREM Complete == Spec => []OutputComplete
<1>1. IInv => OutputComplete
  BY DEF IInv
<1> QED
  BY <1>1, Invariance, PTL

\* The channel locks are held by one close_channel at a time, and by nobody after it.
THEOREM LocksLetGo == Spec => []LocksWithOneCloser
<1>1. IInv => LocksWithOneCloser
  BY DEF IInv
<1> QED
  BY <1>1, Invariance, PTL

\* After a finished wait nothing of the channel comes any more, and what was read stays read.
LEMMA ExitCodeStays ==
    ASSUME IInv, [Next]_vars, NEW c \in Channels,
           waiter[c] = "done", op[c].kind = "wait", ExitCode(c) # "None"
    PROVE  ExitCode(c)' = ExitCode(c)
<1>1. c \in closed
  BY DEF IInv, Joined
<1>2. \A s \in Streams : Unread(c, s) = 0
  BY DEF ExitCode, ChannelEof
<1>3. c \in closed' /\ (c \in status' <=> c \in status)
  BY <1>1 DEF Next, vars, remote, Remote, SendData, SendEof, SendStatus, SendClose, Break, Stall,
              UserStep, Execute, ExecuteFails, WaitFinished, CloseChannel, Start, WaiterStep,
              SawEof, TakeLocks, SendsClose, Closed, SawClosed, Expire, Fails, Goto, ReaderStep,
              ReadChunk, ReadEnds
<1>4. data'[c] = data[c] /\ buffered'[c] = buffered[c]
  <2>1. ASSUME NEW d \in Channels, NEW s \in Streams, SendData(d, s), Remote
        PROVE  data'[c] = data[c] /\ buffered'[c] = buffered[c]
    BY <1>1, <2>1 DEF SendData, Remote, IInv, TypeOK
  <2>2. ASSUME NEW d \in Channels, NEW s \in Streams, ReadChunk(d, s)
        PROVE  data'[c] = data[c] /\ buffered'[c] = buffered[c]
    <3>1. data' = data /\ buffered' = [buffered EXCEPT ![d][s] = @ + 1]
      BY <2>2 DEF ReadChunk, remote
    <3>2. d # c
      BY <1>2, <2>2 DEF ReadChunk
    <3> QED
      BY <3>1, <3>2 DEF IInv, TypeOK
  <2>3. CASE UNCHANGED <<data, buffered>>
    BY <2>3
  <2> QED
    BY <2>1, <2>2, <2>3
       DEF Next, vars, remote, Remote, SendEof, SendStatus, SendClose, Break, Stall, UserStep,
           Execute, ExecuteFails, WaitFinished, CloseChannel, Start, WaiterStep, SawEof,
           TakeLocks, SendsClose, Closed, SawClosed, Expire, Fails, Goto, ReaderStep, ReadEnds
<1>5. ChannelEof(c) /\ ChannelEof(c)'
  BY <1>1, <1>2, <1>3, <1>4 DEF ChannelEof, Unread
<1> QED
  BY <1>3, <1>5 DEF ExitCode

\* The exit code after wait_finished is final (wait_closed): no exit status comes later.
THEOREM CodeFinal == Spec => ExitCodeFinal
<1>1. IInv /\ [Next]_vars =>
        [\A c \in Channels :
            waiter[c] = "done" /\ op[c].kind = "wait" /\ ExitCode(c) # "None" =>
                ExitCode(c)' = ExitCode(c)]_vars
  BY ExitCodeStays
<1> QED
  BY <1>1, Invariance, PTL DEF Spec, ExitCodeFinal
---------------------------------------------------------------------------
(* The refinement of HostOutput.                                           *)

\* A command that has been started has readers, and no other has.
Begun ==
    \A c \in Channels, s \in Streams : reader[c][s] = "none" <=> chan[c] # "open"

LEMMA BegunPreserved == IInv /\ Begun /\ [Next]_vars => Begun'
<1> SUFFICES ASSUME IInv, Begun, [Next]_vars
             PROVE  Begun'
  OBVIOUS
<1>1. CASE UNCHANGED <<chan, reader>>
  BY <1>1 DEF Begun
<1>2. ASSUME NEW c \in Channels, Execute(c) \/ ExecuteFails(c)
      PROVE  Begun'
  <2>1. /\ chan[c] = "new" /\ \A s \in Streams : reader[c][s] = "none"
        /\ chan \in [Channels -> {"new", "open", "failed"}]
        /\ reader \in [Channels -> [Streams -> {"none", "reading", "ended"}]]
    BY <1>2 DEF Begun, Execute, ExecuteFails, IInv, TypeOK
  <2>2. \A d \in Channels : d # c => chan'[d] = chan[d] /\ reader'[d] = reader[d]
    BY <1>2, <2>1 DEF Execute, ExecuteFails
  <2>3. \A s \in Streams : reader'[c][s] = "none" <=> chan'[c] # "open"
    BY <1>2, <2>1 DEF Execute, ExecuteFails
  <2> QED
    BY <2>2, <2>3 DEF Begun
<1>3. ASSUME NEW c \in Channels, NEW s \in Streams, ReadEnds(c, s)
      PROVE  Begun'
  <2>1. /\ UNCHANGED chan /\ reader[c][s] = "reading"
        /\ \A d \in Channels, t \in Streams :
              reader'[d][t] = IF d = c /\ t = s THEN "ended" ELSE reader[d][t]
    BY <1>3 DEF ReadEnds, MayRead, IInv, TypeOK
  <2> QED
    BY <2>1 DEF Begun
<1> QED
  BY <1>1, <1>2, <1>3
     DEF Next, vars, Remote, UserStep, WaitFinished, CloseChannel, Start, WaiterStep, SawEof,
         TakeLocks, SendsClose, Closed, SawClosed, Expire, Fails, Goto, ReaderStep, ReadChunk

LEMMA InitPromise == Init => Promise!OutputInit /\ Begun
<1> SUFFICES ASSUME Init
             PROVE  Promise!OutputInit /\ Begun
  OBVIOUS
<1>1. InState("reading") = {} /\ InState("ended") = {}
  BY DEF Init, InState
<1>2. [c \in Channels |-> Waited(c)] = [c \in Channels |-> "none"]
  BY DEF Init, Waited, NoOp
<1>3. Begun
  BY DEF Init, Begun
<1> QED
  BY <1>1, <1>2, <1>3 DEF Init, Promise!OutputInit

\* The buffers and the waits of a step that leaves the readers, or the waiters, alone.
LEMMA ReadersUntouched ==
    ASSUME UNCHANGED reader
    PROVE  UNCHANGED <<InState("reading"), InState("ended")>>
  BY DEF InState

LEMMA WaitsUntouched ==
    ASSUME UNCHANGED <<waiter, op>>
    PROVE  UNCHANGED [c \in Channels |-> Waited(c)]
  BY DEF Waited

\* A step of one waiter, in the words of HostOutput.
LEMMA WaitsStep ==
    ASSUME NEW c \in Channels, NEW how, Waited(c)' = how,
           \A d \in Channels : d # c => waiter'[d] = waiter[d] /\ op'[d] = op[d],
           UNCHANGED <<data, eof \union closed, broken, buffered, reader>>
    PROVE  Promise!Waits(c, how)
<1>1. [d \in Channels |-> Waited(d)]' =
          [[d \in Channels |-> Waited(d)] EXCEPT ![c] = how]
  BY DEF Waited
<1> QED
  BY <1>1, ReadersUntouched DEF Promise!Waits

LEMMA RemoteImplements ==
    ASSUME IInv, Remote
    PROVE  [Promise!OutputNext]_(Promise!outputVars)
<1>1. /\ UNCHANGED <<buffered, reader, waiter, op>> /\ ~broken
      /\ UNCHANGED <<InState("reading"), InState("ended"), [c \in Channels |-> Waited(c)]>>
  BY ReadersUntouched, WaitsUntouched DEF Remote
<1>2. CASE Break
  BY <1>1, <1>2 DEF Break, Promise!Break, Promise!OutputNext
<1>3. ASSUME NEW c \in Channels, NEW s \in Streams, SendData(c, s)
      PROVE  Promise!OutputNext
  <2>1. Promise!Send(c, s)
    BY <1>1, <1>3 DEF SendData, Promise!Send
  <2> QED
    BY <2>1 DEF Promise!OutputNext
<1>4. ASSUME NEW c \in Channels, SendEof(c) \/ SendStatus(c) \/ SendClose(c)
      PROVE  [Promise!OutputNext]_(Promise!outputVars)
  <2>1. UNCHANGED <<data, broken>> /\ (eof' \union closed' = (eof \union closed) \union {c}
                                       \/ eof' \union closed' = eof \union closed)
    BY <1>4 DEF SendEof, SendStatus, SendClose
  <2>2. CASE eof' \union closed' = (eof \union closed) \union {c}
    <3>1. Promise!Finish(c)
      BY <1>1, <2>1, <2>2 DEF Promise!Finish
    <3> QED
      BY <3>1 DEF Promise!OutputNext
  <2>3. CASE eof' \union closed' = eof \union closed
    BY <1>1, <2>1, <2>3 DEF Promise!outputVars
  <2> QED
    BY <2>1, <2>2, <2>3
<1>5. CASE Stall
  BY <1>1, <1>5 DEF Stall, Promise!outputVars
<1> QED
  BY <1>2, <1>3, <1>4, <1>5 DEF Remote

LEMMA ReaderImplements ==
    ASSUME IInv, NEW c \in Channels, NEW s \in Streams, ReaderStep(c, s)
    PROVE  Promise!OutputNext
<1>1. /\ UNCHANGED <<data, eof, closed, broken>>
      /\ UNCHANGED [d \in Channels |-> Waited(d)]
      /\ reader[c][s] = "reading" /\ <<c, s>> \in InState("reading")
  BY WaitsUntouched
     DEF ReaderStep, ReadChunk, ReadEnds, MayRead, remote, InState
<1>2. buffered[c][s] \in Nat /\ data[c][s] \in Nat
  BY DEF IInv, TypeOK
<1>3. CASE ReadChunk(c, s)
  <2>1. UNCHANGED <<InState("reading"), InState("ended")>>
    BY <1>3, ReadersUntouched DEF ReadChunk
  <2>2. buffered[c][s] < data[c][s]
    BY <1>2, <1>3 DEF ReadChunk, Unread
  <2>3. Promise!Fill(c, s)
    BY <1>1, <1>3, <2>1, <2>2 DEF ReadChunk, Promise!Fill
  <2> QED
    BY <2>3 DEF Promise!OutputNext
<1>4. CASE ReadEnds(c, s)
  <2>1. /\ UNCHANGED buffered
        /\ \A d \in Channels, t \in Streams :
              reader'[d][t] = IF d = c /\ t = s THEN "ended" ELSE reader[d][t]
    BY <1>4 DEF ReadEnds, IInv, TypeOK
  <2>2. /\ InState("reading")' = InState("reading") \ {<<c, s>>}
        /\ InState("ended")' = InState("ended") \union {<<c, s>>}
    BY <2>1 DEF InState
  <2>3. broken \/ (c \in eof \union closed /\ buffered[c][s] = data[c][s])
    BY <1>2, <1>4 DEF ReadEnds, AtEnd, Unread
  <2>4. Promise!Announce(c, s)
    BY <1>1, <2>1, <2>2, <2>3 DEF Promise!Announce
  <2> QED
    BY <2>4 DEF Promise!OutputNext
<1> QED
  BY <1>3, <1>4 DEF ReaderStep

\* What is started was not started before: its buffers are neither filled nor ended.
LEMMA UserImplements ==
    ASSUME IInv, Begun, NEW c \in Channels, UserStep(c)
    PROVE  [Promise!OutputNext]_(Promise!outputVars)
<1>1. CASE Execute(c)
  <2>1. /\ UNCHANGED <<data, eof, closed, broken, buffered>>
        /\ UNCHANGED [d \in Channels |-> Waited(d)]
        /\ \A s \in Streams : reader[c][s] = "none"
        /\ \A d \in Channels, s \in Streams :
              reader'[d][s] = IF d = c THEN "reading" ELSE reader[d][s]
    BY <1>1, WaitsUntouched DEF Execute, remote, Begun, IInv, TypeOK
  <2>2. /\ InState("reading")' = InState("reading") \union ({c} \X Streams)
        /\ InState("ended")' = InState("ended")
        /\ ({c} \X Streams) \intersect (InState("reading") \union InState("ended")) = {}
    BY <2>1 DEF InState
  <2>3. Promise!Run(c)
    BY <2>1, <2>2 DEF Promise!Run, Promise!Buffers
  <2> QED
    BY <2>3 DEF Promise!OutputNext
<1>2. CASE ExecuteFails(c)
  <2>1. UNCHANGED <<data, eof, closed, broken, buffered, reader, waiter, op>>
    BY <1>2 DEF ExecuteFails, remote
  <2> QED
    BY <2>1, ReadersUntouched, WaitsUntouched DEF Promise!outputVars
<1>3. ASSUME NEW pc \in Busy, NEW o, o.kind \in {"wait", "close"}, Start(c, pc, o)
      PROVE  Promise!OutputNext
  <2>1. /\ UNCHANGED <<data, eof, closed, broken, buffered, reader>>
        /\ waiter'[c] = pc /\ op'[c] = o /\ waiter[c] \notin Busy
        /\ \A d \in Channels : d # c => waiter'[d] = waiter[d] /\ op'[d] = op[d]
    BY <1>3 DEF Start, remote, IInv, TypeOK
  <2>2. Waited(c) # "waiting"
    BY <1>3 DEF Waited, Start
  <2>3. Waited(c)' = IF o.kind = "wait" THEN "waiting" ELSE "none"
    BY <1>3, <2>1 DEF Waited
  <2>4. {c} \X Streams \subseteq InState("reading") \union InState("ended")
    BY <1>3 DEF Start, Begun, InState, IInv, TypeOK
  <2>5. CASE o.kind = "wait"
    <3>1. Promise!Wait(c)
      BY <2>1, <2>2, <2>3, <2>4, <2>5, WaitsStep DEF Promise!Wait, Promise!Buffers
    <3> QED
      BY <3>1 DEF Promise!OutputNext
  <2>6. CASE o.kind = "close"
    <3>1. Promise!Close(c)
      BY <2>1, <2>2, <2>3, <2>6, WaitsStep DEF Promise!Close
    <3> QED
      BY <3>1 DEF Promise!OutputNext
  <2> QED
    BY <1>3, <2>5, <2>6
<1>4. ASSUME NEW timed \in BOOLEAN, WaitFinished(c, timed)
      PROVE  Promise!OutputNext
  <2>1. [kind |-> "wait", timed |-> timed].kind = "wait"
    OBVIOUS
  <2> QED
    BY <1>3, <1>4, <2>1 DEF WaitFinished
<1>5. CASE CloseChannel(c)
  <2>1. [kind |-> "close", timed |-> FALSE].kind = "close"
    OBVIOUS
  <2> QED
    BY <1>3, <1>5, <2>1 DEF CloseChannel
<1> QED
  BY <1>1, <1>2, <1>4, <1>5 DEF UserStep

\* A wait that is done saw the channel closed; only a failed session makes it raise.
LEMMA WaiterImplements ==
    ASSUME IInv, IInv', NEW c \in Channels, WaiterStep(c)
    PROVE  [Promise!OutputNext]_(Promise!outputVars)
<1>1. /\ UNCHANGED <<data, eof, closed, broken, buffered, reader, op>>
      /\ waiter[c] \in Busy
      /\ \A d \in Channels : d # c => waiter'[d] = waiter[d] /\ op'[d] = op[d]
      /\ waiter'[c] \in Busy \union {"done", "timeout", "error"}
      /\ waiter'[c] = "error" => broken
  BY DEF WaiterStep, SawEof, TakeLocks, SendsClose, Closed, SawClosed, Expire, Fails, Goto, AfterClose,
         remote, IInv, TypeOK
<1>2. CASE Waited(c)' = Waited(c)
  <2>1. [d \in Channels |-> Waited(d)]' = [d \in Channels |-> Waited(d)]
    BY <1>1, <1>2 DEF Waited
  <2> QED
    BY <1>1, <2>1, ReadersUntouched DEF Promise!outputVars
<1>3. CASE Waited(c)' # Waited(c)
  <2>1. op[c].kind = "wait" /\ Waited(c) = "waiting" /\ Waited(c)' = waiter'[c]
    BY <1>1, <1>3 DEF Waited
  <2>2. Waited(c)' \in {"done", "timeout", "error"}
    BY <1>1, <1>3, <2>1 DEF Waited
  <2>3. Promise!Waits(c, Waited(c)')
    BY <1>1, WaitsStep
  <2>4. CASE Waited(c)' = "done"
    <3>1. c \in eof \union closed
      BY <1>1, <2>1, <2>4 DEF IInv, Joined
    <3>2. Promise!Return(c)
      BY <2>1, <2>3, <2>4, <3>1 DEF Promise!Return
    <3> QED
      BY <3>2 DEF Promise!OutputNext
  <2>5. CASE Waited(c)' \in {"timeout", "error"}
    <3>1. Promise!Raise(c)
      BY <1>1, <2>1, <2>3, <2>5 DEF Promise!Raise
    <3> QED
      BY <3>1 DEF Promise!OutputNext
  <2> QED
    BY <2>2, <2>4, <2>5
<1> QED
  BY <1>2, <1>3

\* A native client is a HostOutput to its user: what its readers, waits and closes do is
\* a step of HostOutput or changes nothing of it.
THEOREM Refinement == Spec => KeepsPromise
<1>1. Init => Promise!OutputInit /\ Begun
  BY InitPromise
<1>2. IInv /\ Begun /\ [Next]_vars => Begun'
  BY BegunPreserved
<1>3. IInv /\ IInv' /\ Begun /\ [Next]_vars
        => [Promise!OutputNext]_(Promise!outputVars)
  <2> SUFFICES ASSUME IInv, IInv', Begun, [Next]_vars
               PROVE  [Promise!OutputNext]_(Promise!outputVars)
    OBVIOUS
  <2>1. CASE Next
    BY <2>1, RemoteImplements, ReaderImplements, UserImplements, WaiterImplements DEF Next
  <2>2. CASE UNCHANGED vars
    <3>1. UNCHANGED <<data, eof, closed, broken, buffered, reader, waiter, op>>
      BY <2>2 DEF vars, remote
    <3> QED
      BY <3>1, ReadersUntouched, WaitsUntouched DEF Promise!outputVars
  <2> QED
    BY <2>1, <2>2
<1> QED
  BY <1>1, <1>2, <1>3, Invariance, PTL DEF Spec, KeepsPromise, Promise!OutputSpec
=============================================================================
