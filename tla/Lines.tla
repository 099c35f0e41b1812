------------------------------- MODULE Lines -------------------------------
(***************************************************************************)
(* Reading output line by line: _read_output_buffer of                     *)
(* pssh/clients/base/single.py, the generator behind stdout and stderr of  *)
(* a HostOutput, over a buffer that keeps the promise of ByteStream        *)
(* (RWBuffer implements it).                                               *)
(*                                                                         *)
(* A consumer reads the output of a command, possibly in several reads one *)
(* after the other, each a generator with a timer of its own.  The         *)
(* generator runs when its consumer asks for a line, and other greenlets   *)
(* run while it waits for data, or while its consumer waits for something  *)
(* else between two lines.  The timer may expire in either place.          *)
(***************************************************************************)
EXTENDS Integers, SequencesExt, Bytes

CONSTANTS Eol,      \* the byte that ends a line
          MaxReads  \* bound: reads

ASSUME LinesAssumption == Eol \in Byte /\ MaxReads \in Nat

VARIABLES
    inflight, taken, closed, \* the buffer
    pc,        \* where the generator is
    data,      \* what it has yet to look at of the last chunk: data[pos:]
    remainder, \* the beginning of a line that continues in the next chunk
    timeout,   \* whether it was given a timeout
    timer,     \* its timer is running
    lines,     \* history: what the read has yielded
    from,      \* history: how much of the output was taken when it began
    ending,    \* history: how the last read ended
    reads      \* reads begun

reading == <<pc, data, remainder, timeout, timer, lines, from, ending, reads>>
linesvars == <<inflight, taken, closed, reading>>

Buffer == INSTANCE ByteStream

\* idle: there is no generator; ready: it looks for data; waiting: for data;
\* parsing: in the inner loop; line, last: at one of its yields.
States == {"idle", "ready", "waiting", "parsing", "line", "last"}

\* The generator runs: no other greenlet does.
Running == pc \in {"ready", "parsing"}

LinesInit ==
    /\ Buffer!Init
    /\ pc = "idle" /\ data = <<>> /\ remainder = <<>>
    /\ timeout = FALSE /\ timer = FALSE
    /\ lines = <<>> /\ from = 0 /\ ending = "none" /\ reads = 0

---------------------------------------------------------------------------
(* The generator.                                                          *)

\* The consumer asks for the first line of a read.
Begin(given) ==
    /\ pc = "idle" /\ reads < MaxReads
    /\ pc' = "ready" /\ timeout' = given /\ timer' = given /\ reads' = reads + 1
    /\ data' = <<>> /\ remainder' = <<>>
    /\ lines' = <<>> /\ from' = Len(taken) /\ ending' = "none"
    /\ UNCHANGED <<inflight, taken, closed>>

Wait ==
    /\ pc = "ready" /\ inflight = <<>> /\ ~closed
    /\ pc' = "waiting"
    /\ UNCHANGED <<inflight, taken, closed, data, remainder, timeout, timer, lines,
                   from, ending, reads>>

TakeChunk ==
    /\ pc \in {"ready", "waiting"}
    /\ data' = inflight /\ Buffer!Take
    /\ pc' = "parsing"
    /\ UNCHANGED <<remainder, timeout, timer, lines, from, ending, reads>>

\* Where the next line of the chunk ends, or zero.
FindEol == SelectInSeq(data, LAMBDA b : b = Eol)

\* Mutant of TheLine: what was kept of the line is left out.
TheLineInChunk == SubSeq(data, 1, FindEol - 1)

\* A line is what was kept of it and what the chunk has of it.
TheLine == remainder \o SubSeq(data, 1, FindEol - 1)

\* Mutant of YieldLine: the timer is for the first line only.
YieldLineUntimed ==
    /\ pc = "parsing" /\ FindEol > 0
    /\ lines' = Append(lines, TheLine) /\ remainder' = <<>>
    /\ data' = SubSeq(data, FindEol + 1, Len(data))
    /\ pc' = "line" /\ timer' = FALSE
    /\ UNCHANGED <<inflight, taken, closed, timeout, from, ending, reads>>

YieldLine ==
    /\ pc = "parsing" /\ FindEol > 0
    /\ lines' = Append(lines, TheLine) /\ remainder' = <<>>
    /\ data' = SubSeq(data, FindEol + 1, Len(data))
    /\ pc' = "line"
    /\ UNCHANGED <<inflight, taken, closed, timeout, timer, from, ending, reads>>

\* Mutant of KeepRemainder: whether the chunk has another line is not looked at.
KeepRestOfChunk ==
    /\ pc = "parsing"
    /\ remainder' = remainder \o data /\ data' = <<>>
    /\ pc' = "ready"
    /\ UNCHANGED <<inflight, taken, closed, timeout, timer, lines, from, ending,
                   reads>>

\* The chunk has no further line end: what is left of it is kept.
KeepRemainder ==
    /\ pc = "parsing" /\ FindEol = 0
    /\ remainder' = remainder \o data /\ data' = <<>>
    /\ pc' = "ready"
    /\ UNCHANGED <<inflight, taken, closed, timeout, timer, lines, from, ending,
                   reads>>

\* Mutant of NextLine: the consumer's next line comes from the next chunk.
NextChunk ==
    /\ pc = "line"
    /\ pc' = "ready" /\ data' = <<>>
    /\ UNCHANGED <<inflight, taken, closed, remainder, timeout, timer, lines, from,
                   ending, reads>>

\* The consumer asks for the next line.
NextLine ==
    /\ pc = "line"
    /\ pc' = "parsing"
    /\ UNCHANGED <<inflight, taken, closed, data, remainder, timeout, timer, lines,
                   from, ending, reads>>

\* The end of output, with a line that has no end.
YieldRemainder ==
    /\ pc \in {"ready", "waiting"} /\ inflight = <<>> /\ closed /\ remainder # <<>>
    /\ lines' = Append(lines, remainder)
    /\ pc' = "last"
    /\ UNCHANGED <<inflight, taken, closed, data, remainder, timeout, timer, from,
                   ending, reads>>

Leaves(how) ==
    /\ pc' = "idle" /\ timer' = FALSE /\ ending' = how
    /\ UNCHANGED <<inflight, taken, closed, data, remainder, timeout, lines, from,
                   reads>>

Finish ==
    /\ pc \in {"ready", "waiting"} /\ inflight = <<>> /\ closed /\ remainder = <<>>
    /\ Leaves("ended")

\* After the last yield there is nothing more, however the consumer goes on.
AfterLast == pc = "last" /\ Leaves("ended")

\* The timer expires while the generator waits.
ExpireWaiting == pc = "waiting" /\ timer /\ Leaves("timeout")

\* The timer expires while the consumer is busy with a line, or the consumer asks
\* for no more: the generator is closed.
Abandon == pc = "line" /\ Leaves("abandoned")

ReaderStep ==
    \/ Wait \/ TakeChunk \/ YieldLine \/ KeepRemainder \/ YieldRemainder \/ Finish

---------------------------------------------------------------------------
(* The channel reader that fills the buffer, and the consumer.             *)

WriterStep ==
    /\ ~Running
    /\ \/ \E chunk \in Chunks :
             /\ Len(taken) + Len(inflight) + Len(chunk) <= MaxBytes
             /\ Buffer!Put(chunk)
       \/ ~closed /\ Buffer!Close
    /\ UNCHANGED reading

ConsumerStep == (\E given \in BOOLEAN : Begin(given)) \/ NextLine \/ AfterLast \/ Abandon

LinesNext == ReaderStep \/ ExpireWaiting \/ ConsumerStep \/ WriterStep

LinesSpec == LinesInit /\ [][LinesNext]_linesvars

\* The generator runs when it can, woken by the buffer, and its timer expires.  The
\* consumer need not go on, the command need not send or end.
LinesFairness == WF_linesvars(ReaderStep) /\ WF_linesvars(ExpireWaiting)

LinesFairSpec == LinesSpec /\ LinesFairness

---------------------------------------------------------------------------
(* What lines are: the output cut at every line end.                       *)

LineEnds(text) == {i \in DOMAIN text : text[i] = Eol}

\* Where line k begins, when the lines before it end at these places.
LineStart(ends, k) == IF k = 1 THEN 1 ELSE ends[k - 1] + 1

\* A text is these lines, each with its end, and a rest that has no end: the lines end
\* at all its line ends, one after the other, and are what is between them.
IsCut(pieces, rest, text) ==
    \E ends \in [DOMAIN pieces -> LineEnds(text)] :
        /\ \A i \in LineEnds(text) : \E k \in DOMAIN pieces : ends[k] = i
        /\ \A k \in DOMAIN pieces :
              /\ LineStart(ends, k) <= ends[k]
              /\ pieces[k] = SubSeq(text, LineStart(ends, k), ends[k] - 1)
        /\ rest = SubSeq(text, LineStart(ends, Len(pieces) + 1), Len(text))

\* Its lines, of which the last one needs no end.
AreLines(pieces, text) ==
    \/ IsCut(pieces, <<>>, text)
    \/ /\ pieces # <<>> /\ Last(pieces) # <<>>
       /\ IsCut(Front(pieces), Last(pieces), text)

LinesTypeOK ==
    /\ inflight \in Seq(Byte) /\ taken \in Seq(Byte) /\ closed \in BOOLEAN
    /\ pc \in States /\ data \in Seq(Byte) /\ remainder \in Seq(Byte \ {Eol})
    /\ timeout \in BOOLEAN /\ timer \in BOOLEAN
    /\ lines \in Seq(Seq(Byte \ {Eol}))
    /\ from \in 0 .. Len(taken)
    /\ ending \in {"none", "ended", "timeout", "abandoned"} /\ reads \in 0 .. MaxReads
    /\ ending # "none" <=> pc = "idle" /\ reads > 0

Seen == SubSeq(taken, from + 1, Len(taken) - Len(data))

\* However the output was cut into chunks, the lines of a read are those of what it
\* took, and what it keeps is the beginning of the next one; when it comes to the end
\* they are all the lines there are, the last without a line end included.
LinesAreSplit ==
    IF pc = "last" \/ ending = "ended"
    THEN AreLines(lines, SubSeq(taken, from + 1, Len(taken)))
    ELSE IsCut(lines, remainder, Seen)

\* A read whose timer expires while it waits has yielded every line that was
\* complete: at most the beginning of one line is lost, and what came in the
\* meantime is left to the next read (the finally of _read_output_buffer).
WaitLosesNoLine ==
    ending = "timeout" => IsCut(lines, remainder, SubSeq(taken, from + 1, Len(taken)))

\* The types of the reader's state, and the lines it yields.
LinesInv == LinesTypeOK /\ LinesAreSplit /\ WaitLosesNoLine

\* A read with a timeout gives control back to its consumer, with a line, the end or
\* the timeout, whatever the command sends: the timer runs until the read is over.
TimedReadReturns ==
    (pc = "waiting" /\ timeout) ~> (pc \in {"idle", "line", "last"})
=============================================================================
