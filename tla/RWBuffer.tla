----------------------------- MODULE RWBuffer -----------------------------
(***************************************************************************)
(* ConcurrentRWBuffer of pssh/clients/reader.py: one seekable byte buffer  *)
(* with a read and a write position, an event that says unread data is     *)
(* there, and an end-of-file event.  One writer (the channel reader        *)
(* greenlet) fills it, any number of readers iterate over it.              *)
(*                                                                         *)
(* Greenlets are cooperative: they switch only where they wait, and where  *)
(* the iterator yields to its consumer.  An action is what runs between    *)
(* two such points.  gevent's Event.set() does not run the waiters, it     *)
(* schedules a notifier that the event loop runs later and that wakes all  *)
(* that wait by then, even if the event was cleared in between.            *)
(***************************************************************************)
EXTENDS Integers, Bytes

CONSTANT Readers  \* greenlets that iterate over the buffer

VARIABLES
    buffer,      \* _buffer: contents of the BytesIO
    pos,         \* _buffer.tell(): its one position, shared by both sides
    read_pos,    \* _read_pos
    write_pos,   \* _write_pos
    unread,      \* _unread_data.is_set()
    eof,         \* eof.is_set()
    notifier,    \* the event loop holds a callback that wakes the waiters
    reader,      \* where each reader is in __iter__
    written,     \* history: all bytes given to write()
    delivered    \* history: all bytes read() returned, in order

vars == <<buffer, pos, read_pos, write_pos, unread, eof, notifier, reader,
          written, delivered>>

ReaderStates == {"idle",     \* no iterator, or one that was given up
                 "ready",    \* about to evaluate the loop condition
                 "waiting",  \* in _unread_data.wait()
                 "done"}     \* the iterator is exhausted

Waiting == {r \in Readers : reader[r] = "waiting"}

Init ==
    /\ buffer = <<>> /\ pos = 0 /\ read_pos = 0 /\ write_pos = 0
    /\ unread = FALSE /\ eof = FALSE /\ notifier = FALSE
    /\ reader = [r \in Readers |-> "idle"]
    /\ written = <<>> /\ delivered = <<>>

---------------------------------------------------------------------------
(* The BytesIO.                                                            *)

\* Mutant of SeekTo: always to the start.
SeekToStart(p) == 0

\* The position after the guarded seek that precedes a read or a write.
SeekTo(p) == p

\* Contents after writing data at position p: what was there is overwritten.
Overwrite(p, data) ==
    SubSeq(buffer, 1, p) \o data \o SubSeq(buffer, p + Len(data) + 1, Len(buffer))

---------------------------------------------------------------------------
(* The event.                                                              *)

SetUnread ==
    /\ unread' = TRUE
    /\ notifier' = (notifier \/ Waiting # {})

---------------------------------------------------------------------------
(* The writer.                                                             *)

\* Mutant of MustSignal: compares with the position before the write.
MustSignalEarly == ~unread /\ read_pos < write_pos

\* write() signals what was not signalled yet; write_pos' is the moved position.
MustSignal == ~unread /\ read_pos < write_pos'

Write(data) ==
    /\ ~eof
    /\ Len(written) + Len(data) <= MaxBytes
    /\ LET p == SeekTo(write_pos) IN
       /\ buffer' = Overwrite(p, data)
       /\ pos' = p + Len(data)
    /\ write_pos' = write_pos + Len(data)
    /\ IF MustSignal THEN SetUnread ELSE UNCHANGED <<unread, notifier>>
    /\ written' = written \o data
    /\ UNCHANGED <<read_pos, eof, reader, delivered>>

\* Mutant of SetEof: the waiting readers are not signalled.
SetEofOnly ==
    /\ ~eof
    /\ eof' = TRUE
    /\ UNCHANGED <<buffer, pos, read_pos, write_pos, unread, notifier, reader,
                   written, delivered>>

\* _Eof.set: wakes the waiting readers, then marks the end.
SetEof ==
    /\ ~eof
    /\ SetUnread
    /\ eof' = TRUE
    /\ UNCHANGED <<buffer, pos, read_pos, write_pos, reader, written, delivered>>

---------------------------------------------------------------------------
(* The readers.                                                            *)

AllRead == read_pos = write_pos

\* read() when there is something to read.
ReadData ==
    LET p == SeekTo(read_pos)
        data == SubSeq(buffer, p + 1, Len(buffer))
    IN  /\ ~AllRead
        /\ pos' = p + Len(data)
        /\ read_pos' = read_pos + Len(data)
        /\ delivered' = delivered \o data
        /\ UNCHANGED unread

\* read() when there is nothing: the event is cleared, None returned.
ReadNothing ==
    /\ AllRead
    /\ unread' = FALSE
    /\ UNCHANGED <<pos, read_pos, delivered>>

\* A call of read() by a greenlet that does not iterate.
Poll ==
    /\ ReadData \/ ReadNothing
    /\ UNCHANGED <<buffer, write_pos, eof, notifier, reader, written>>

\* A consumer starts to iterate.
StartIter(r) ==
    /\ reader[r] = "idle"
    /\ reader' = [reader EXCEPT ![r] = "ready"]
    /\ UNCHANGED <<buffer, pos, read_pos, write_pos, unread, eof, notifier,
                   written, delivered>>

\* Mutant of LoopEnds: the loop stops at end of file, whatever is left.
LoopEndsAtEof == eof

\* The loop condition of __iter__, negated.
LoopEnds == eof /\ AllRead

\* One turn of the loop: ends, yields data, or goes to wait for some.
IterYield(r) ==
    /\ reader[r] = "ready" /\ ~LoopEnds
    /\ ReadData
    /\ UNCHANGED <<buffer, write_pos, eof, notifier, reader, written>>

IterWait(r) ==
    /\ reader[r] = "ready" /\ ~LoopEnds
    /\ ReadNothing
    /\ reader' = [reader EXCEPT ![r] = "waiting"]
    /\ UNCHANGED <<buffer, write_pos, eof, notifier, written>>

IterEnd(r) ==
    /\ reader[r] = "ready" /\ LoopEnds
    /\ reader' = [reader EXCEPT ![r] = "done"]
    /\ UNCHANGED <<buffer, pos, read_pos, write_pos, unread, eof, notifier,
                   written, delivered>>

\* The event loop runs the notifier: every reader waiting by now goes on.
Notify ==
    /\ notifier
    /\ notifier' = FALSE
    /\ reader' = [r \in Readers |-> IF r \in Waiting THEN "ready" ELSE reader[r]]
    /\ UNCHANGED <<buffer, pos, read_pos, write_pos, unread, eof, written, delivered>>

\* A read timeout is raised in a waiting reader, or its consumer gives up the
\* iterator at a yield.  Another one may be started on the same buffer.
GiveUp(r) ==
    /\ reader[r] \in {"ready", "waiting"}
    /\ reader' = [reader EXCEPT ![r] = "idle"]
    /\ UNCHANGED <<buffer, pos, read_pos, write_pos, unread, eof, notifier,
                   written, delivered>>

Iterate(r) == IterYield(r) \/ IterWait(r) \/ IterEnd(r)

Next ==
    \/ \E data \in Chunks : Write(data)
    \/ SetEof
    \/ Poll
    \/ Notify
    \/ \E r \in Readers : StartIter(r) \/ Iterate(r) \/ GiveUp(r)

\* The event loop runs what is scheduled, and a consumer that was handed data
\* comes back for more.  Nothing obliges the writer or the user to act.
Fairness == WF_vars(Notify) /\ \A r \in Readers : WF_vars(Iterate(r))

Spec == Init /\ [][Next]_vars

FairSpec == Spec /\ Fairness

---------------------------------------------------------------------------
TypeOK ==
    /\ buffer \in Seq(Byte) /\ written \in Seq(Byte) /\ delivered \in Seq(Byte)
    /\ pos \in Nat /\ write_pos \in Nat /\ read_pos \in 0 .. write_pos
    /\ unread \in BOOLEAN /\ eof \in BOOLEAN /\ notifier \in BOOLEAN
    /\ reader \in [Readers -> ReaderStates]

\* Readers get exactly the bytes that were written, once and in order, although
\* both sides move the one position of the BytesIO: what read() has returned is
\* the written stream up to _read_pos, and the rest is still in the buffer.
StreamIntegrity ==
    /\ read_pos \in 0 .. Len(written)
    /\ delivered = SubSeq(written, 1, read_pos)
    /\ SubSeq(buffer, read_pos + 1, Len(buffer))
         = SubSeq(written, read_pos + 1, Len(written))

\* No reader sleeps through data or through the end of output: one that waits
\* while there is something for it will be woken (write's and _Eof.set's
\* signalling against read's clearing of the event by another reader).
NoLostWakeup == (Waiting # {} /\ (eof \/ ~AllRead)) => notifier

\* An iterator is exhausted only at end of file and when no byte is left,
\* for it or for any other reader (the loop condition of __iter__).
NoEarlyEnd ==
    (\E r \in Readers : reader[r] = "done") => eof /\ delivered = written

\* After end of file every iterator ends, unless its consumer gives it up
\* (_Eof.set wakes those that wait).
IteratorsEnd ==
    \A r \in Readers : eof ~> (reader[r] \in {"idle", "done"})

\* While one consumer keeps iterating, every byte written is delivered, to it or
\* to another, whatever the others do.
BytesDelivered ==
    \A r \in Readers :
        <>[](reader[r] # "idle") =>
            \A n \in 1 .. MaxBytes : (Len(written) >= n) ~> (Len(delivered) >= n)

\* The buffer implements the byte stream.
Stream == INSTANCE ByteStream WITH
    inflight <- SubSeq(buffer, read_pos + 1, Len(buffer)),
    taken    <- delivered,
    closed   <- eof

ImplementsStream == Stream!Spec

---------------------------------------------------------------------------
(* The inductive invariant.                                                *)

\* The buffer holds all that was written, and every call leaves its position at
\* the end: it is read() that needs the seek, write() never moves anything.
Positions ==
    /\ buffer = written
    /\ write_pos = Len(buffer) /\ pos = write_pos
    /\ delivered = SubSeq(written, 1, read_pos)

\* A cleared event means there was nothing to read; a reader waits only on a
\* cleared event, or the notifier is on its way.
Signals ==
    /\ ~unread => AllRead
    /\ Waiting # {} => \/ notifier
                       \/ ~unread /\ ~eof

IInv == TypeOK /\ Positions /\ Signals /\ NoEarlyEnd
=============================================================================
