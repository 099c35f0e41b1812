---------------------------- MODULE OutputProofs ----------------------------
(***************************************************************************)
(* The path of a command's output and of commands to a shell, for any set  *)
(* of bytes, chunks and readers, any shells, sizes of commands and of the  *)
(* pool, and any number of bytes, reads and calls.                         *)
(*                                                                         *)
(* RWBuffer: the buffer loses, repeats and reorders nothing, no reader     *)
(* sleeps through data, none ends early, and it implements ByteStream.     *)
(* Lines: over a ByteStream, the lines of a read are those of what it took.*)
(* Shells: every command is written once and without a gap, in the order   *)
(* given unless a write was short; a run_shell_commands that returns has   *)
(* written all of its commands, and the input of a shell ends after them.  *)
(***************************************************************************)
EXTENDS RWBuffer, Lines, Shells, TLAPS, SequenceTheorems, WellFoundedInduction

---------------------------------------------------------------------------
(* Facts about sequences.                                                  *)

\* A sequence is what was read of it followed by what was not.
LEMMA PrefixSuffix ==
    ASSUME NEW S, NEW s \in Seq(S), NEW n \in 0 .. Len(s)
    PROVE  SubSeq(s, 1, n) \o SubSeq(s, n + 1, Len(s)) = s
<1> DEFINE p == SubSeq(s, 1, n)
           q == SubSeq(s, n + 1, Len(s))
<1>1. /\ p \in Seq(S) /\ Len(p) = n
      /\ \A i \in 1 .. n : p[i] = s[i]
  BY SubSeqProperties, LenProperties, ElementOfSeq
<1>2. /\ q \in Seq(S) /\ Len(q) = Len(s) - n
      /\ \A i \in 1 .. Len(s) - n : q[i] = s[n + i]
  <2>1. \A i \in n + 1 .. Len(s) : s[i] \in S
    BY ElementOfSeq, LenProperties
  <2>2. QED
    BY <2>1, SubSeqProperties, LenProperties
<1> HIDE DEF p, q
<1>3. /\ p \o q \in Seq(S)
      /\ Len(p \o q) = Len(s)
      /\ \A i \in 1 .. Len(s) : (p \o q)[i] = IF i <= n THEN p[i] ELSE q[i - n]
  BY <1>1, <1>2, ConcatProperties, LenProperties
<1>4. \A i \in 1 .. Len(s) : (p \o q)[i] = s[i]
  BY <1>1, <1>2, <1>3, LenProperties
<1>5. p \o q = s
  BY <1>3, <1>4, SeqEqual
<1> QED
  BY <1>5 DEF p, q

\* Appending does not change what was read.
LEMMA PrefixOfConcat ==
    ASSUME NEW S, NEW s \in Seq(S), NEW t \in Seq(S), NEW n \in 0 .. Len(s)
    PROVE  SubSeq(s \o t, 1, n) = SubSeq(s, 1, n)
<1> DEFINE p == SubSeq(s, 1, n)
           q == SubSeq(s \o t, 1, n)
<1>1. /\ s \o t \in Seq(S) /\ Len(s \o t) = Len(s) + Len(t)
      /\ \A i \in 1 .. n : (s \o t)[i] = s[i]
  BY ConcatProperties, LenProperties
<1>2. /\ p \in Seq(S) /\ Len(p) = n
      /\ \A i \in 1 .. n : p[i] = s[i]
  BY SubSeqProperties, LenProperties, ElementOfSeq
<1>3. /\ q \in Seq(S) /\ Len(q) = n
      /\ \A i \in 1 .. n : q[i] = (s \o t)[i]
  BY <1>1, <1>2, SubSeqProperties, LenProperties, ElementOfSeq
<1> HIDE DEF p, q
<1>4. \A i \in 1 .. Len(p) : p[i] = q[i]
  BY <1>1, <1>2, <1>3
<1>5. p = q
  BY <1>2, <1>3, <1>4, SeqEqual
<1> QED
  BY <1>5 DEF p, q

\* Sequences are appended in any grouping.
LEMMA Regroup ==
    ASSUME NEW S, NEW p \in Seq(S), NEW q \in Seq(S)
    PROVE  \A t \in Seq(S) : (p \o q) \o t = p \o (q \o t)
BY ConcatAssociative

\* What follows the beginning of a sequence, when another is appended to it.
LEMMA RestOfConcat ==
    ASSUME NEW S, NEW p \in Seq(S), NEW q \in Seq(S)
    PROVE  \A r, t \in Seq(S) : p \o r = (p \o q) \o t => r = q \o t
<1>1. \A t \in Seq(S) : (p \o q) \o t = p \o (q \o t)
  BY Regroup
<1> SUFFICES ASSUME NEW r \in Seq(S), NEW t \in Seq(S), p \o r = (p \o q) \o t
             PROVE  r = q \o t
  OBVIOUS
<1>2. q \o t \in Seq(S)
  BY ConcatProperties
<1>3. p \o r = p \o (q \o t)
  BY <1>1
<1> QED
  BY <1>2, <1>3, ConcatSimplifications

\* Appending extends what is still to be read.
LEMMA SuffixOfConcat ==
    ASSUME NEW S, NEW s \in Seq(S), NEW t \in Seq(S), NEW n \in 0 .. Len(s)
    PROVE  SubSeq(s \o t, n + 1, Len(s \o t)) = SubSeq(s, n + 1, Len(s)) \o t
<1> DEFINE u == s \o t
           p == SubSeq(s, 1, n)
           q == SubSeq(s, n + 1, Len(s))
           r == SubSeq(u, n + 1, Len(u))
<1>1. u \in Seq(S) /\ Len(u) = Len(s) + Len(t)
  BY ConcatProperties
<1>2. Len(s) \in Nat /\ Len(t) \in Nat /\ n \in 0 .. Len(u)
  BY <1>1, LenProperties
<1>3. p \in Seq(S) /\ q \in Seq(S) /\ r \in Seq(S)
  <2>1. \A i \in 1 .. Len(s) : s[i] \in S
    BY ElementOfSeq
  <2>2. \A i \in 1 .. Len(u) : u[i] \in S
    BY <1>1, ElementOfSeq
  <2> QED
    BY <1>1, <1>2, <2>1, <2>2, SubSeqProperties
<1>4. SubSeq(u, 1, n) = p
  BY PrefixOfConcat
<1>5. p \o q = s
  BY PrefixSuffix
<1>6. p \o r = u
  <2> HIDE DEF u, p
  <2>1. SubSeq(u, 1, n) \o SubSeq(u, n + 1, Len(u)) = u
    BY <1>1, <1>2, PrefixSuffix
  <2> QED
    BY <1>4, <2>1
<1> HIDE DEF p, q, r
<1>7. p \o r = (p \o q) \o t
  BY <1>5, <1>6
<1> HIDE DEF u
<1>8. r = q \o t
  <2>1. \A a \in Seq(S) : \A b \in Seq(S) : \A c, d \in Seq(S) :
            a \o c = (a \o b) \o d => c = b \o d
    BY RestOfConcat
  <2>2. \A c, d \in Seq(S) : p \o c = (p \o q) \o d => c = q \o d
    <3>1. p \in Seq(S) /\ q \in Seq(S)
      BY <1>3
    <3>2. \A b \in Seq(S) : \A c, d \in Seq(S) :
              p \o c = (p \o b) \o d => c = b \o d
      BY <2>1, <3>1
    <3> QED
      BY <3>1, <3>2
  <2>3. r \in Seq(S) /\ t \in Seq(S)
    BY <1>3
  <2> QED
    BY <1>7, <2>2, <2>3
<1> QED
  BY <1>8 DEF q, r, u

\* A part of a sequence, which may be empty.
LEMMA Slice ==
    ASSUME NEW S, NEW s \in Seq(S), NEW m \in Nat \ {0}, NEW n \in Int, n <= Len(s)
    PROVE  /\ SubSeq(s, m, n) \in Seq(S)
           /\ Len(SubSeq(s, m, n)) = IF m <= n THEN n - m + 1 ELSE 0
           /\ \A i \in 1 .. n - m + 1 : SubSeq(s, m, n)[i] = s[m + i - 1]
<1>1. \A i \in m .. n : s[i] \in S
  <2>1. \A i \in m .. n : i \in 1 .. Len(s)
    BY LenProperties
  <2> QED
    BY <2>1, ElementOfSeq
<1> QED
  BY <1>1, SubSeqProperties

\* A part by what is before it and how long it is.
LEMMA Part ==
    ASSUME NEW S, NEW s \in Seq(S), NEW o \in Nat, NEW l \in Nat, o + l <= Len(s),
           NEW t, t = SubSeq(s, o + 1, o + l)
    PROVE  t \in Seq(S) /\ Len(t) = l /\ \A i \in 1 .. l : t[i] = s[o + i]
<1> SUFFICES ASSUME NEW m, m = o + 1, NEW n, n = o + l
             PROVE  t \in Seq(S) /\ Len(t) = l /\ \A i \in 1 .. l : t[i] = s[o + i]
  OBVIOUS
<1>1. m \in Nat \ {0} /\ n \in Int /\ n <= Len(s)
  OBVIOUS
<1>2. /\ SubSeq(s, m, n) \in Seq(S)
      /\ Len(SubSeq(s, m, n)) = IF m <= n THEN n - m + 1 ELSE 0
      /\ \A i \in 1 .. n - m + 1 : SubSeq(s, m, n)[i] = s[m + i - 1]
  BY <1>1, Slice
<1>3. /\ n - m + 1 = l /\ (IF m <= n THEN n - m + 1 ELSE 0) = l
      /\ \A i \in 1 .. l : m + i - 1 = o + i
  OBVIOUS
<1> QED
  BY <1>2, <1>3

\* Appending does not change a part.
LEMMA SliceOfConcat ==
    ASSUME NEW S, NEW s \in Seq(S), NEW t \in Seq(S), NEW m \in Nat \ {0}, NEW n \in Int,
           n <= Len(s)
    PROVE  SubSeq(s \o t, m, n) = SubSeq(s, m, n)
<1>1. Len(s) \in Nat
  BY LenProperties
<1>2. CASE n < m
  BY <1>2, SubSeqEmpty
<1>3. CASE n >= m
  <2>1. m \in 1 .. Len(s) /\ n \in 1 .. Len(s)
    BY <1>1, <1>3
  <2> QED
    BY <2>1, SubSeqOfConcat1
<1> QED
  BY <1>2, <1>3

\* A non-empty set of numbers has a least one.
LEMMA HasLeast ==
    ASSUME NEW T \in SUBSET Nat, T # {}
    PROVE  Min(T) \in T /\ \A y \in T : Min(T) <= y
<1>1. IsWellFoundedOn(OpToRel(<, Nat), Nat)
  BY NatLessThanWellFounded
<1>2. PICK x \in T : \A y \in T : ~(<<y, x>> \in OpToRel(<, Nat))
  BY <1>1, WFMin
<1>3. \A y \in T : <<y, x>> \in OpToRel(<, Nat) <=> y < x
  BY DEF OpToRel
<1>4. \A y \in T : x <= y
  <2>1. \A y \in T : ~(y < x)
    BY <1>2, <1>3
  <2> QED
    BY <2>1
<1> QED
  BY <1>4 DEF Min

---------------------------------------------------------------------------
(* RWBuffer: the inductive invariant.                                      *)

\* A write finds the position at the end, so it appends.
LEMMA OverwriteAtEnd ==
    ASSUME buffer \in Seq(Byte), NEW bytes \in Seq(Byte)
    PROVE  Overwrite(Len(buffer), bytes) = buffer \o bytes
<1>1. Len(buffer) \in Nat /\ Len(bytes) \in Nat
  BY LenProperties
<1>2. SubSeq(buffer, 1, Len(buffer)) = buffer
  BY SubSeqFull
<1>3. SubSeq(buffer, Len(buffer) + Len(bytes) + 1, Len(buffer)) = <<>>
  BY <1>1, SubSeqEmpty
<1>4. buffer \o bytes \in Seq(Byte)
  BY ConcatProperties
<1>5. (buffer \o bytes) \o <<>> = buffer \o bytes
  BY <1>4, ConcatEmptySeq
<1> QED
  BY <1>2, <1>3, <1>5 DEF Overwrite

LEMMA InitBuffer == Init => IInv
<1> SUFFICES ASSUME Init PROVE IInv
  OBVIOUS
<1> USE DEF Init
<1>1. TypeOK
  <2>1. buffer \in Seq(Byte) /\ written \in Seq(Byte) /\ delivered \in Seq(Byte)
    BY EmptySeq
  <2>2. reader \in [Readers -> ReaderStates]
    BY DEF ReaderStates
  <2>3. pos \in Nat /\ write_pos \in Nat /\ read_pos \in 0 .. write_pos
    OBVIOUS
  <2>4. unread \in BOOLEAN /\ eof \in BOOLEAN /\ notifier \in BOOLEAN
    OBVIOUS
  <2> HIDE DEF Init
  <2> QED
    BY <2>1, <2>2, <2>3, <2>4 DEF TypeOK
<1>2. Positions
  <2>1. SubSeq(written, 1, 0) = <<>>
    BY SubSeqEmpty
  <2> QED
    BY <2>1, EmptySeq DEF Positions
<1>3. Signals
  BY DEF Signals, AllRead, Waiting
<1>4. NoEarlyEnd
  BY DEF NoEarlyEnd
<1> QED
  BY <1>1, <1>2, <1>3, <1>4 DEF IInv

LEMMA WritePreserves ==
    ASSUME IInv, NEW bytes \in Chunks, Write(bytes)
    PROVE  IInv'
<1>1. bytes \in Seq(Byte) /\ Len(bytes) \in Nat
  BY ChunksAssumption, LenProperties
<1>2. TypeOK /\ Positions /\ Signals /\ NoEarlyEnd
  BY DEF IInv
<1>3. buffer' = buffer \o bytes /\ written' = written \o bytes
  BY <1>1, <1>2, OverwriteAtEnd DEF Write, SeekTo, TypeOK, Positions
<1>4. buffer' \in Seq(Byte) /\ Len(buffer') = Len(buffer) + Len(bytes)
  BY <1>1, <1>2, <1>3, ConcatProperties DEF TypeOK
<1>5. TypeOK'
  <2>1. write_pos' \in Nat /\ pos' \in Nat /\ read_pos' \in 0 .. write_pos'
    BY <1>1, <1>2 DEF Write, SeekTo, TypeOK
  <2>2. unread' \in BOOLEAN /\ notifier' \in BOOLEAN /\ eof' \in BOOLEAN
    BY <1>2 DEF Write, SetUnread, TypeOK
  <2>3. written' \in Seq(Byte)
    BY <1>1, <1>2, <1>3, ConcatProperties DEF TypeOK
  <2> QED
    BY <1>2, <1>4, <2>1, <2>2, <2>3 DEF Write, TypeOK
<1>6. Positions'
  <2>1. SubSeq(written', 1, read_pos) = SubSeq(written, 1, read_pos)
    BY <1>1, <1>2, <1>3, PrefixOfConcat DEF TypeOK, Positions
  <2> QED
    BY <1>1, <1>2, <1>3, <1>4, <2>1 DEF Write, SeekTo, TypeOK, Positions
<1>7. Signals'
  <2>1. Waiting' = Waiting
    BY DEF Write, Waiting
  <2>2. CASE MustSignal
    BY <1>2, <2>1, <2>2 DEF Write, SetUnread, Signals
  <2>3. CASE ~MustSignal
    <3>1. ~unread => AllRead'
      BY <1>1, <1>2, <2>3 DEF Write, MustSignal, AllRead, TypeOK
    <3> QED
      BY <1>2, <2>1, <2>3, <3>1 DEF Write, Signals
  <2> QED
    BY <2>2, <2>3
<1>8. NoEarlyEnd'
  BY <1>2 DEF Write, NoEarlyEnd
<1> QED
  BY <1>5, <1>6, <1>7, <1>8 DEF IInv

\* read() returns the rest of the stream.
LEMMA ReadDataReturnsRest ==
    ASSUME IInv, ReadData
    PROVE  /\ read_pos' = write_pos /\ pos' = write_pos
           /\ delivered' = written
           /\ delivered' = delivered \o SubSeq(buffer, read_pos + 1, Len(buffer))
           /\ unread' = unread
<1> DEFINE bytes == SubSeq(buffer, read_pos + 1, Len(buffer))
<1>1. TypeOK /\ Positions
  BY DEF IInv
<1>2. /\ read_pos \in 0 .. Len(buffer) /\ read_pos # Len(buffer)
      /\ write_pos = Len(buffer) /\ Len(buffer) \in Nat
  BY <1>1, LenProperties DEF TypeOK, Positions, ReadData, AllRead
<1>3. Len(bytes) = Len(buffer) - read_pos
  <2>1. \A i \in 1 .. Len(buffer) : buffer[i] \in Byte
    BY <1>1, ElementOfSeq DEF TypeOK
  <2> QED
    BY <1>2, <2>1, SubSeqProperties
<1>4. delivered \o bytes = written
  BY <1>1, <1>2, PrefixSuffix DEF TypeOK, Positions
<1>5. /\ pos' = read_pos + Len(bytes) /\ read_pos' = read_pos + Len(bytes)
      /\ delivered' = delivered \o bytes /\ unread' = unread
  BY DEF ReadData, SeekTo
<1> HIDE DEF bytes
<1>6. read_pos + Len(bytes) = write_pos
  BY <1>2, <1>3
<1> QED
  BY <1>4, <1>5, <1>6 DEF bytes

LEMMA ReadPreserves ==
    ASSUME IInv, ReadData \/ ReadNothing,
           UNCHANGED <<buffer, write_pos, eof, notifier, reader, written>>
    PROVE  IInv'
<1>1. TypeOK /\ Positions /\ Signals /\ NoEarlyEnd
  BY DEF IInv
<1>2. CASE ReadData
  <2>1. /\ read_pos' = write_pos /\ pos' = write_pos
        /\ delivered' = written /\ unread' = unread
    BY <1>2, ReadDataReturnsRest
  <2>2. SubSeq(written, 1, Len(written)) = written
    BY <1>1, SubSeqFull DEF TypeOK
  <2>3. TypeOK'
    BY <1>1, <2>1 DEF TypeOK
  <2>4. Positions'
    BY <1>1, <2>1, <2>2 DEF Positions
  <2>5. Signals'
    BY <1>1, <2>1 DEF Signals, AllRead, Waiting
  <2>6. NoEarlyEnd'
    BY <1>1, <2>1 DEF NoEarlyEnd
  <2> QED
    BY <2>3, <2>4, <2>5, <2>6 DEF IInv
<1>3. CASE ReadNothing
  <2>1. TypeOK'
    BY <1>1, <1>3 DEF TypeOK, ReadNothing
  <2>2. Positions'
    BY <1>1, <1>3 DEF Positions, ReadNothing
  <2>3. Signals'
    BY <1>1, <1>3 DEF Signals, AllRead, Waiting, ReadNothing
  <2>4. NoEarlyEnd'
    BY <1>1, <1>3 DEF NoEarlyEnd, ReadNothing
  <2> QED
    BY <2>1, <2>2, <2>3, <2>4 DEF IInv
<1> QED
  BY <1>2, <1>3

\* The steps that move no byte: signalling, and readers coming and going.
LEMMA ControlPreserves ==
    ASSUME IInv, NEW r \in Readers,
           \/ SetEof \/ Notify \/ StartIter(r) \/ IterEnd(r) \/ GiveUp(r)
    PROVE  IInv'
<1>1. TypeOK /\ Positions /\ Signals /\ NoEarlyEnd
  BY DEF IInv
<1>2. UNCHANGED <<buffer, pos, read_pos, write_pos, written, delivered>>
  BY DEF SetEof, Notify, StartIter, IterEnd, GiveUp
<1>3. unread' \in BOOLEAN /\ eof' \in BOOLEAN /\ notifier' \in BOOLEAN
  BY <1>1 DEF SetEof, SetUnread, Notify, StartIter, IterEnd, GiveUp, TypeOK
<1>4. reader' \in [Readers -> ReaderStates]
  BY <1>1 DEF SetEof, Notify, StartIter, IterEnd, GiveUp, TypeOK, ReaderStates
<1>5. TypeOK'
  BY <1>1, <1>2, <1>3, <1>4 DEF TypeOK
<1>6. Positions'
  BY <1>1, <1>2 DEF Positions
<1>7. Signals'
  <2>1. CASE SetEof
    BY <1>1, <2>1 DEF SetEof, SetUnread, Signals, Waiting
  <2>2. CASE Notify
    BY <1>1, <2>2 DEF Notify, Signals, AllRead, Waiting, TypeOK
  <2>3. CASE StartIter(r) \/ IterEnd(r) \/ GiveUp(r)
    <3>1. Waiting' \subseteq Waiting
      BY <1>1, <2>3 DEF StartIter, IterEnd, GiveUp, Waiting, TypeOK
    <3>2. UNCHANGED <<unread, eof, notifier, read_pos, write_pos>>
      BY <2>3 DEF StartIter, IterEnd, GiveUp
    <3> QED
      BY <1>1, <3>1, <3>2 DEF Signals, AllRead
  <2> QED
    BY <2>1, <2>2, <2>3
<1>8. NoEarlyEnd'
  <2>1. CASE IterEnd(r)
    <3>1. read_pos = Len(written) /\ eof
      BY <1>1, <2>1 DEF IterEnd, LoopEnds, AllRead, Positions
    <3>2. delivered = written
      BY <1>1, <3>1, SubSeqFull DEF Positions, TypeOK
    <3> QED
      BY <2>1, <3>1, <3>2 DEF IterEnd, NoEarlyEnd
  <2>2. CASE ~IterEnd(r)
    <3>1. \A q \in Readers : reader'[q] = "done" => reader[q] = "done"
      BY <1>1, <2>2 DEF SetEof, Notify, StartIter, GiveUp, TypeOK
    <3>2. eof => eof'
      BY <2>2 DEF SetEof, Notify, StartIter, GiveUp
    <3> QED
      BY <1>1, <1>2, <3>1, <3>2 DEF NoEarlyEnd
  <2> QED
    BY <2>1, <2>2
<1> QED
  BY <1>5, <1>6, <1>7, <1>8 DEF IInv

\* A reader that finds nothing goes to wait on the event it has just cleared.
LEMMA IterWaitPreserves ==
    ASSUME IInv, NEW r \in Readers, IterWait(r)
    PROVE  IInv'
<1>1. TypeOK /\ Positions /\ Signals /\ NoEarlyEnd
  BY DEF IInv
<1>2. TypeOK'
  BY <1>1 DEF IterWait, ReadNothing, TypeOK, ReaderStates
<1>3. Positions'
  BY <1>1 DEF IterWait, ReadNothing, Positions
<1>4. Signals'
  BY DEF IterWait, ReadNothing, LoopEnds, Signals, AllRead
<1>5. NoEarlyEnd'
  BY <1>1 DEF IterWait, ReadNothing, NoEarlyEnd, TypeOK
<1> QED
  BY <1>2, <1>3, <1>4, <1>5 DEF IInv

LEMMA BufferStep == IInv /\ [Next]_vars => IInv'
<1> SUFFICES ASSUME IInv, [Next]_vars PROVE IInv'
  OBVIOUS
<1>1. ASSUME NEW bytes \in Chunks, Write(bytes) PROVE IInv'
  BY <1>1, WritePreserves
<1>2. CASE Poll
  BY <1>2, ReadPreserves DEF Poll
<1>3. CASE SetEof \/ Notify
  <2>1. CASE Readers = {}
    <3>1. TypeOK /\ Positions /\ Signals /\ NoEarlyEnd
      BY DEF IInv
    <3>2. TypeOK'
      BY <1>3, <2>1, <3>1 DEF TypeOK, SetEof, SetUnread, Notify
    <3>3. Positions' /\ Signals' /\ NoEarlyEnd'
      BY <1>3, <2>1, <3>1
      DEF SetEof, SetUnread, Notify, Positions, Signals, AllRead, Waiting, NoEarlyEnd
    <3> QED
      BY <3>2, <3>3 DEF IInv
  <2>2. CASE Readers # {}
    BY <1>3, <2>2, ControlPreserves
  <2> QED
    BY <2>1, <2>2
<1>4. ASSUME NEW r \in Readers, StartIter(r) \/ IterEnd(r) \/ GiveUp(r) PROVE IInv'
  BY <1>4, ControlPreserves
<1>5. ASSUME NEW r \in Readers, IterYield(r) PROVE IInv'
  BY <1>5, ReadPreserves DEF IterYield
<1>6. ASSUME NEW r \in Readers, IterWait(r) PROVE IInv'
  BY <1>6, IterWaitPreserves
<1>7. CASE UNCHANGED vars
  BY <1>7 DEF vars, IInv, TypeOK, Positions, Signals, AllRead, Waiting, NoEarlyEnd
<1> QED
  BY <1>1, <1>2, <1>3, <1>4, <1>5, <1>6, <1>7 DEF Next, Iterate

THEOREM BufferInvariance == Spec => []IInv
  BY InitBuffer, BufferStep, PTL DEF Spec

---------------------------------------------------------------------------
(* RWBuffer: what follows from it.                                         *)

\* All state keeps its type, and the read position never passes the write
\* position.
THEOREM BufferTypes == Spec => []TypeOK
<1>1. IInv => TypeOK
  BY DEF IInv
<1> QED
  BY <1>1, BufferInvariance, PTL

\* Readers get the written bytes once and in order (read, write).
THEOREM Integrity == Spec => []StreamIntegrity
<1>1. IInv => StreamIntegrity
  BY DEF IInv, TypeOK, Positions, StreamIntegrity
<1> QED
  BY <1>1, BufferInvariance, PTL

\* A waiting reader that has data or end of file to see will be woken.
THEOREM Wakeup == Spec => []NoLostWakeup
<1>1. IInv => NoLostWakeup
  BY DEF IInv, Signals, NoLostWakeup, AllRead
<1> QED
  BY <1>1, BufferInvariance, PTL

\* No iterator of __iter__ ends before end of file or leaves a byte behind.
THEOREM EndOnlyAtEnd == Spec => []NoEarlyEnd
<1>1. IInv => NoEarlyEnd
  BY DEF IInv
<1> QED
  BY <1>1, BufferInvariance, PTL

---------------------------------------------------------------------------
(* RWBuffer: the refinement.                                               *)

Inflight == SubSeq(buffer, read_pos + 1, Len(buffer))

LEMMA InitRefines == Init => Stream!Init
<1> SUFFICES ASSUME Init PROVE Stream!Init
  OBVIOUS
<1>1. Inflight = <<>>
  BY SubSeqEmpty, EmptySeq DEF Init, Inflight
<1> QED
  BY <1>1 DEF Init, Inflight, Stream!Init

LEMMA WriteRefines ==
    ASSUME IInv, NEW bytes \in Chunks, Write(bytes)
    PROVE  Stream!Put(bytes)
<1>1. TypeOK /\ Positions /\ bytes \in Seq(Byte)
  BY ChunksAssumption DEF IInv
<1>2. buffer' = buffer \o bytes
  BY <1>1, OverwriteAtEnd DEF Write, SeekTo, TypeOK, Positions
<1>3. read_pos \in 0 .. Len(buffer)
  BY <1>1 DEF TypeOK, Positions
<1>4. Inflight' = Inflight \o bytes
  BY <1>1, <1>2, <1>3, SuffixOfConcat DEF Write, TypeOK, Inflight
<1> QED
  BY <1>4 DEF Write, Inflight, Stream!Put

LEMMA ReadRefines ==
    ASSUME IInv, ReadData, UNCHANGED <<buffer, write_pos, eof>>
    PROVE  Stream!Take
<1>1. TypeOK /\ Positions
  BY DEF IInv
<1>2. /\ read_pos' = write_pos
      /\ delivered' = delivered \o Inflight
  BY ReadDataReturnsRest DEF Inflight
<1>3. Len(buffer) \in Nat /\ write_pos = Len(buffer) /\ read_pos \in 0 .. Len(buffer)
  BY <1>1, LenProperties DEF TypeOK, Positions
<1>4. Inflight' = <<>>
  BY <1>2, <1>3, SubSeqEmpty DEF Inflight
<1>5. Inflight # <<>>
  <2>1. \A i \in 1 .. Len(buffer) : buffer[i] \in Byte
    BY <1>1, ElementOfSeq DEF TypeOK
  <2>2. Len(Inflight) = Len(buffer) - read_pos
    BY <1>3, <2>1, SubSeqProperties DEF Inflight, ReadData, AllRead
  <2>3. Len(Inflight) # 0
    BY <1>3, <2>2 DEF ReadData, AllRead
  <2> QED
    BY <2>3, EmptySeq
<1> QED
  BY <1>2, <1>4, <1>5 DEF Inflight, Stream!Take

LEMMA StepRefines == IInv /\ [Next]_vars => [Stream!Next]_(Stream!streamVars)
<1> SUFFICES ASSUME IInv, [Next]_vars
             PROVE  Stream!Next \/ UNCHANGED Stream!streamVars
  OBVIOUS
<1>1. ASSUME NEW bytes \in Chunks, Write(bytes) PROVE Stream!Next
  BY <1>1, WriteRefines DEF Stream!Next
<1>2. CASE SetEof
  BY <1>2 DEF SetEof, Stream!Next, Stream!Close
<1>3. CASE ReadData /\ UNCHANGED <<buffer, write_pos, eof>>
  BY <1>3, ReadRefines DEF Stream!Next
<1>4. CASE UNCHANGED <<buffer, read_pos, delivered, eof>>
  BY <1>4 DEF Stream!streamVars
<1>5. CASE Poll
  BY <1>3, <1>4, <1>5 DEF Poll, ReadNothing
<1>6. ASSUME NEW r \in Readers, StartIter(r) \/ Iterate(r) \/ GiveUp(r)
      PROVE  Stream!Next \/ UNCHANGED Stream!streamVars
  BY <1>3, <1>4, <1>6 DEF StartIter, Iterate, IterYield, IterWait, IterEnd,
                          ReadNothing, GiveUp
<1>7. CASE Notify \/ UNCHANGED vars
  BY <1>4, <1>7 DEF Notify, vars
<1> QED
  BY <1>1, <1>2, <1>5, <1>6, <1>7 DEF Next

\* The buffer implements the byte stream: a write puts, a read takes all that is
\* in flight, eof.set closes, everything else stutters.
THEOREM BufferRefinement == Spec => ImplementsStream
  BY InitRefines, StepRefines, BufferInvariance, PTL
     DEF Spec, ImplementsStream, Stream!Spec
---------------------------------------------------------------------------
(* Lines: cutting a text.                                                  *)

\* Where lines end, each begins after the one before it.
LEMMA StartsAre ==
    ASSUME NEW text \in Seq(Byte), NEW n \in Nat, NEW ends \in [1 .. n -> LineEnds(text)]
    PROVE  \A k \in 1 .. n + 1 : LineStart(ends, k) \in 1 .. Len(text) + 1
<1>1. Len(text) \in Nat /\ LineEnds(text) \subseteq 1 .. Len(text)
  BY LenProperties DEF LineEnds
<1>2. ASSUME NEW k \in 1 .. n + 1, k # 1
      PROVE  LineStart(ends, k) \in 1 .. Len(text) + 1
  <2>1. k - 1 \in 1 .. n
    BY <1>2
  <2>2. ends[k - 1] \in 1 .. Len(text)
    BY <1>1, <2>1
  <2> QED
    BY <1>1, <1>2, <2>2 DEF LineStart
<1> QED
  BY <1>1, <1>2 DEF LineStart

\* Nothing is cut of no text.
LEMMA CutNothing == IsCut(<<>>, <<>>, <<>>)
<1> SUFFICES ASSUME NEW e, e = <<>> PROVE IsCut(e, e, e)
  OBVIOUS
<1>1. DOMAIN e = {} /\ Len(e) = 0 /\ LineEnds(e) = {}
  <2>1. e \in Seq(Byte) /\ Len(e) = 0
    BY EmptySeq
  <2>2. DOMAIN e = 1 .. 0
    BY <2>1, LenProperties
  <2> QED
    BY <2>1, <2>2 DEF LineEnds
<1>2. SubSeq(e, 1, 0) = e
  BY SubSeqEmpty
<1> DEFINE ends == [k \in {} |-> 1]
<1>3. ends \in [{} -> {}]
  OBVIOUS
<1>4. LineStart(ends, Len(e) + 1) = 1
  BY <1>1 DEF LineStart
<1> HIDE DEF ends
<1>5. e = SubSeq(e, LineStart(ends, Len(e) + 1), Len(e))
  BY <1>1, <1>2, <1>4
<1> QED
  BY <1>1, <1>3, <1>5 DEF IsCut

\* More text without a line end goes to the rest.
LEMMA CutMore ==
    ASSUME NEW pieces \in Seq(Seq(Byte)), NEW rest, NEW text \in Seq(Byte),
           NEW more \in Seq(Byte), IsCut(pieces, rest, text),
           \A i \in 1 .. Len(more) : more[i] # Eol
    PROVE  IsCut(pieces, rest \o more, text \o more)
<1> DEFINE all == text \o more
           n == Len(pieces)
<1>1. /\ Len(text) \in Nat /\ DOMAIN text = 1 .. Len(text) /\ Len(more) \in Nat
      /\ n \in Nat /\ DOMAIN pieces = 1 .. n
  BY LenProperties
<1>2. /\ all \in Seq(Byte) /\ Len(all) = Len(text) + Len(more)
      /\ DOMAIN all = 1 .. Len(text) + Len(more)
      /\ \A i \in 1 .. Len(text) + Len(more) :
            all[i] = IF i <= Len(text) THEN text[i] ELSE more[i - Len(text)]
  <2>1. /\ all \in Seq(Byte) /\ Len(all) = Len(text) + Len(more)
        /\ \A i \in 1 .. Len(text) + Len(more) :
              all[i] = IF i <= Len(text) THEN text[i] ELSE more[i - Len(text)]
    BY ConcatProperties
  <2> HIDE DEF all
  <2> QED
    BY <2>1, LenProperties
<1>3. PICK ends \in [1 .. n -> LineEnds(text)] :
         /\ \A i \in LineEnds(text) : \E k \in 1 .. n : ends[k] = i
         /\ \A k \in 1 .. n :
               /\ LineStart(ends, k) <= ends[k]
               /\ pieces[k] = SubSeq(text, LineStart(ends, k), ends[k] - 1)
         /\ rest = SubSeq(text, LineStart(ends, n + 1), Len(text))
  BY <1>1 DEF IsCut
<1>4. \A k \in 1 .. n + 1 : LineStart(ends, k) \in 1 .. Len(text) + 1
  BY <1>1, StartsAre
<1>5. LineEnds(all) = LineEnds(text)
  <2>1. \A i \in 1 .. Len(text) : i \in 1 .. Len(text) + Len(more) /\ all[i] = text[i]
    BY <1>1, <1>2
  <2>2. ASSUME NEW i \in 1 .. Len(text) + Len(more), i \notin 1 .. Len(text)
        PROVE  all[i] # Eol
    <3>1. i - Len(text) \in 1 .. Len(more) /\ ~(i <= Len(text))
      BY <1>1, <2>2
    <3>2. all[i] = more[i - Len(text)]
      BY <1>2, <3>1
    <3> QED
      BY <3>1, <3>2
  <2> QED
    BY <1>1, <1>2, <2>1, <2>2 DEF LineEnds
<1>6. \A a \in Nat \ {0}, b \in Int :
        b <= Len(text) => SubSeq(all, a, b) = SubSeq(text, a, b)
  BY SliceOfConcat
<1>7. ASSUME NEW k \in 1 .. n
      PROVE  pieces[k] = SubSeq(all, LineStart(ends, k), ends[k] - 1)
  <2>1. ends[k] \in 1 .. Len(text) /\ LineStart(ends, k) \in Nat \ {0}
    <3>1. ends[k] \in LineEnds(text) /\ k \in 1 .. n + 1
      <4>1. n \in Nat
        BY <1>1
      <4> HIDE DEF n
      <4> QED
        BY <4>1
    <3>2. LineStart(ends, k) \in 1 .. Len(text) + 1
      BY <1>4, <3>1
    <3> QED
      BY <1>1, <3>1, <3>2 DEF LineEnds
  <2>2. ends[k] - 1 <= Len(text) /\ ends[k] - 1 \in Int
    BY <1>1, <2>1
  <2>3. pieces[k] = SubSeq(text, LineStart(ends, k), ends[k] - 1)
    BY <1>3
  <2> HIDE DEF all, n
  <2> QED
    BY <1>6, <2>1, <2>2, <2>3
<1>8. rest \o more = SubSeq(all, LineStart(ends, n + 1), Len(all))
  <2> SUFFICES ASSUME NEW m, m = LineStart(ends, n + 1)
               PROVE  rest \o more = SubSeq(all, m, Len(all))
    OBVIOUS
  <2>1. m \in 1 .. Len(text) + 1
    BY <1>1, <1>4
  <2>2. SubSeq(all, m, Len(text)) = rest
    <3>1. m \in Nat \ {0} /\ Len(text) \in Int /\ Len(text) <= Len(text)
      BY <1>1, <2>1
    <3>2. rest = SubSeq(text, m, Len(text))
      BY <1>3
    <3> HIDE DEF all, n
    <3> QED
      BY <1>6, <3>1, <3>2
  <2>3. SubSeq(all, Len(text) + 1, Len(all)) = more
    <3>1. SubSeq(all, Len(text) + 1, Len(all)) \in Seq(Byte)
          /\ Len(SubSeq(all, Len(text) + 1, Len(all))) = Len(more)
          /\ \A i \in 1 .. Len(more) :
                SubSeq(all, Len(text) + 1, Len(all))[i] = all[Len(text) + 1 + i - 1]
      <4> HIDE DEF all
      <4>1. Len(text) + 1 \in Nat \ {0} /\ Len(all) \in Int /\ Len(all) <= Len(all)
            /\ Len(all) - (Len(text) + 1) + 1 = Len(more)
            /\ (Len(text) + 1 <= Len(all) <=> Len(more) > 0)
        BY <1>1, <1>2
      <4> QED
        BY <1>1, <1>2, <4>1, Slice
    <3>2. \A i \in 1 .. Len(more) : all[Len(text) + 1 + i - 1] = more[i]
      <4>1. \A i \in 1 .. Len(more) : /\ Len(text) + 1 + i - 1 \in 1 .. Len(text) + Len(more)
                                      /\ ~(Len(text) + 1 + i - 1 <= Len(text))
                                      /\ (Len(text) + 1 + i - 1) - Len(text) = i
        BY <1>1
      <4> QED
        BY <1>2, <4>1
    <3> HIDE DEF all
    <3> QED
      BY <3>1, <3>2, SeqEqual
  <2>4. SubSeq(all, m, Len(text)) \o SubSeq(all, Len(text) + 1, Len(all))
           = SubSeq(all, m, Len(all))
    <3>1. /\ m \in 1 .. Len(all) + 1 /\ Len(text) \in m - 1 .. Len(all)
          /\ Len(all) \in Len(text) .. Len(all)
      BY <1>1, <1>2, <2>1
    <3> HIDE DEF all
    <3> QED
      BY <1>2, <3>1, ConcatAdjacentSubSeq
  <2> QED
    BY <2>2, <2>3, <2>4
<1> HIDE DEF all, n
<1>9. ends \in [DOMAIN pieces -> LineEnds(all)]
  BY <1>1, <1>5
<1> QED
  BY <1>1, <1>3, <1>5, <1>7, <1>8, <1>9 DEF IsCut, all, n

\* A line end makes the rest a line.
LEMMA CutEnd ==
    ASSUME NEW pieces \in Seq(Seq(Byte)), NEW rest \in Seq(Byte), NEW text \in Seq(Byte),
           IsCut(pieces, rest, text)
    PROVE  IsCut(Append(pieces, rest), <<>>, Append(text, Eol))
<1> SUFFICES ASSUME NEW all, all = Append(text, Eol), NEW more, more = Append(pieces, rest),
                    NEW n, n = Len(pieces), NEW l, l = Len(text)
             PROVE  IsCut(more, <<>>, all)
  OBVIOUS
<1>1. /\ l \in Nat /\ DOMAIN text = 1 .. l /\ n \in Nat /\ DOMAIN pieces = 1 .. n
  BY LenProperties
<1>2. /\ all \in Seq(Byte) /\ Len(all) = l + 1 /\ DOMAIN all = 1 .. l + 1
      /\ \A i \in 1 .. l : all[i] = text[i]
      /\ all[l + 1] = Eol
  <2>1. /\ all \in Seq(Byte) /\ Len(all) = l + 1
        /\ \A i \in 1 .. l : all[i] = text[i]
        /\ all[l + 1] = Eol
    BY AppendProperties, LinesAssumption
  <2> QED
    BY <2>1, LenProperties
<1>3. /\ more \in Seq(Seq(Byte)) /\ Len(more) = n + 1 /\ DOMAIN more = 1 .. n + 1
      /\ \A k \in 1 .. n : more[k] = pieces[k]
      /\ more[n + 1] = rest
  <2>1. /\ more \in Seq(Seq(Byte)) /\ Len(more) = n + 1
        /\ \A k \in 1 .. n : more[k] = pieces[k]
        /\ more[n + 1] = rest
    BY AppendProperties
  <2> QED
    BY <2>1, LenProperties
<1>4. PICK ends \in [1 .. n -> LineEnds(text)] :
         /\ \A i \in LineEnds(text) : \E k \in 1 .. n : ends[k] = i
         /\ \A k \in 1 .. n :
               /\ LineStart(ends, k) <= ends[k]
               /\ pieces[k] = SubSeq(text, LineStart(ends, k), ends[k] - 1)
         /\ rest = SubSeq(text, LineStart(ends, n + 1), l)
  BY <1>1 DEF IsCut
<1>5. \A k \in 1 .. n + 1 : LineStart(ends, k) \in 1 .. l + 1
  BY <1>1, StartsAre
<1>6. LineEnds(all) = LineEnds(text) \union {l + 1}
  <2>1. \A i : i \in 1 .. l + 1 <=> i \in 1 .. l \/ i = l + 1
    <3>1. l \in Nat
      BY <1>1
    <3> QED
      BY <3>1
  <2>2. ~(l + 1 \in 1 .. l)
    BY <1>1
  <2> QED
    BY <1>1, <1>2, <2>1, <2>2 DEF LineEnds
<1> DEFINE next == [k \in 1 .. n + 1 |-> IF k = n + 1 THEN l + 1 ELSE ends[k]]
<1>7. /\ next \in [1 .. n + 1 -> LineEnds(all)] /\ next[n + 1] = l + 1
      /\ \A k \in 1 .. n : next[k] = ends[k] /\ k \in 1 .. n + 1
  <2>1. n \in Nat
    BY <1>1
  <2>2. \A k \in 1 .. n + 1 : k = n + 1 \/ k \in 1 .. n
    BY <2>1
  <2>3. n + 1 \in 1 .. n + 1 /\ \A k \in 1 .. n : k \in 1 .. n + 1 /\ k # n + 1
    BY <2>1
  <2> QED
    BY <1>6, <2>2, <2>3
<1> HIDE DEF next
<1>8. /\ \A k \in 1 .. n + 1 : LineStart(next, k) = LineStart(ends, k)
      /\ LineStart(next, n + 2) = l + 2
  <2>1. \A k \in 1 .. n + 1 : k # 1 => k - 1 \in 1 .. n
    BY <1>1
  <2>2. n + 2 # 1 /\ (n + 2) - 1 = n + 1 /\ (l + 1) + 1 = l + 2
    BY <1>1
  <2> QED
    BY <1>7, <2>1, <2>2 DEF LineStart
<1>9. ASSUME NEW k \in 1 .. n + 1
      PROVE  /\ LineStart(next, k) <= next[k]
             /\ more[k] = SubSeq(all, LineStart(next, k), next[k] - 1)
  <2>1. \A m \in 1 .. l + 1, q \in Int : q <= l => SubSeq(all, m, q) = SubSeq(text, m, q)
    <3>1. all = text \o <<Eol>> /\ <<Eol>> \in Seq(Byte)
      BY AppendIsConcat, LinesAssumption
    <3>2. \A m \in 1 .. l + 1 : m \in Nat \ {0}
      BY <1>1
    <3> QED
      BY <3>1, <3>2, SliceOfConcat
  <2>2. CASE k \in 1 .. n
    <3>1. ends[k] \in 1 .. l
      BY <1>1, <2>2 DEF LineEnds
    <3>2. ends[k] - 1 \in Int /\ ends[k] - 1 <= l
      BY <1>1, <3>1
    <3> QED
      <4>1. /\ next[k] = ends[k] /\ LineStart(next, k) = LineStart(ends, k)
            /\ LineStart(ends, k) \in 1 .. l + 1
        BY <1>5, <1>7, <1>8, <2>2
      <4>2. SubSeq(all, LineStart(ends, k), ends[k] - 1) =
              SubSeq(text, LineStart(ends, k), ends[k] - 1)
        BY <2>1, <3>2, <4>1
      <4> QED
        BY <1>3, <1>4, <2>2, <4>1, <4>2
  <2>3. CASE k = n + 1
    <3>1. (l + 1) - 1 = l /\ l \in Int /\ l <= l
      BY <1>1
    <3>2. LineStart(next, k) \in 1 .. l + 1 /\ LineStart(next, k) = LineStart(ends, n + 1)
      BY <1>5, <1>8, <2>3
    <3>3. SubSeq(all, LineStart(next, k), l) = rest
      BY <1>4, <2>1, <3>1, <3>2
    <3>4. LineStart(next, k) <= l + 1
      BY <1>1, <3>2
    <3> QED
      BY <1>3, <1>7, <2>3, <3>1, <3>3, <3>4
  <2>4. k = n + 1 \/ k \in 1 .. n
    BY <1>1
  <2> QED
    BY <2>2, <2>3, <2>4
<1>10. \A i \in LineEnds(all) : \E k \in 1 .. n + 1 : next[k] = i
  <2>1. n + 1 \in 1 .. n + 1
    BY <1>1
  <2> QED
    BY <1>4, <1>6, <1>7, <2>1
<1>11. <<>> = SubSeq(all, LineStart(next, Len(more) + 1), Len(all))
  <2>1. Len(more) + 1 = n + 2 /\ Len(all) < l + 2 /\ l + 2 \in Int /\ Len(all) \in Int
    BY <1>1, <1>2, <1>3
  <2> QED
    BY <1>8, <2>1, SubSeqEmpty
<1> QED
  BY <1>3, <1>7, <1>9, <1>10, <1>11 DEF IsCut

---------------------------------------------------------------------------
(* Lines: the generator.                                                   *)

\* Where the next line of the chunk ends, or zero.
LEMMA FindEolIs ==
    ASSUME data \in Seq(Byte)
    PROVE  \/ FindEol = 0 /\ \A i \in 1 .. Len(data) : data[i] # Eol
           \/ /\ FindEol \in 1 .. Len(data) /\ data[FindEol] = Eol
              /\ \A i \in 1 .. FindEol - 1 : data[i] # Eol
<1> SUFFICES ASSUME NEW f, f = FindEol
             PROVE  \/ f = 0 /\ \A i \in 1 .. Len(data) : data[i] # Eol
                    \/ /\ f \in 1 .. Len(data) /\ data[f] = Eol
                       /\ \A i \in 1 .. f - 1 : data[i] # Eol
  OBVIOUS
<1> DEFINE T == {i \in 1 .. Len(data) : data[i] = Eol}
<1>1. f = IF T # {} THEN Min(T) ELSE 0
  BY DEF FindEol, SelectInSeq
<1>2. T \in SUBSET Nat /\ Len(data) \in Nat
  BY LenProperties
<1>3. CASE T = {}
  <2>1. f = 0
    BY <1>1, <1>3
  <2> QED
    BY <1>3, <2>1
<1>4. CASE T # {}
  <2>1. f \in T /\ \A y \in T : f <= y
    BY <1>1, <1>2, <1>4, HasLeast
  <2>2. f \in 1 .. Len(data) /\ data[f] = Eol
    BY <2>1
  <2>3. \A i \in 1 .. f - 1 : i \in 1 .. Len(data) /\ ~(f <= i)
    BY <1>2, <2>2
  <2> QED
    BY <2>1, <2>2, <2>3
<1> QED
  BY <1>3, <1>4

\* What is left of the last chunk is the end of what was taken, in this read; nothing is
\* left of it where the generator waits and when it is over, unless it was abandoned.
DataIsLeft ==
    /\ Len(data) <= Len(taken) - from
    /\ data = SubSeq(taken, Len(taken) - Len(data) + 1, Len(taken))
    /\ pc \in {"ready", "waiting", "last"} \/ ending \in {"ended", "timeout"} => data = <<>>

LinesIInv ==
    /\ LinesTypeOK /\ DataIsLeft /\ LinesAreSplit
    /\ pc # "idle" => reads > 0

Output == SubSeq(taken, from + 1, Len(taken))

\* Types of the sequences, and what was seen of the output.
LEMMA SequencesAre ==
    ASSUME LinesTypeOK, DataIsLeft
    PROVE  /\ taken \in Seq(Byte) /\ inflight \in Seq(Byte) /\ data \in Seq(Byte)
           /\ Len(taken) \in Nat /\ Len(inflight) \in Nat /\ Len(data) \in Nat
           /\ from \in Nat /\ from <= Len(taken) - Len(data)
           /\ remainder \in Seq(Byte) /\ lines \in Seq(Seq(Byte))
           /\ Seen \in Seq(Byte) /\ Output \in Seq(Byte)
           /\ data = <<>> => Len(data) = 0 /\ Seen = Output
<1>1. /\ taken \in Seq(Byte) /\ inflight \in Seq(Byte) /\ data \in Seq(Byte)
      /\ Len(taken) \in Nat /\ Len(inflight) \in Nat /\ Len(data) \in Nat
  BY LenProperties DEF LinesTypeOK
<1>2. from \in Nat /\ from <= Len(taken) - Len(data)
  BY <1>1 DEF LinesTypeOK, DataIsLeft
<1>3. remainder \in Seq(Byte) /\ lines \in Seq(Seq(Byte))
  <2>1. Seq(Byte \ {Eol}) \subseteq Seq(Byte)
    BY SeqMonotonic
  <2>2. lines \in Seq(Seq(Byte \ {Eol})) /\ remainder \in Seq(Byte \ {Eol})
    BY DEF LinesTypeOK
  <2> QED
    BY <2>1, <2>2, SeqMonotonic
<1>4. \A n \in Int : n <= Len(taken) => SubSeq(taken, from + 1, n) \in Seq(Byte)
  <2>1. from + 1 \in Nat \ {0}
    BY <1>2
  <2> QED
    BY <1>1, <2>1, Slice
<1>5. Seen \in Seq(Byte) /\ Output \in Seq(Byte)
  <2>1. /\ Len(taken) \in Int /\ Len(taken) - Len(data) \in Int
        /\ Len(taken) <= Len(taken) /\ Len(taken) - Len(data) <= Len(taken)
    BY <1>1
  <2> QED
    BY <1>4, <2>1 DEF Seen, Output
<1>6. data = <<>> => Len(data) = 0 /\ Seen = Output
  <2> SUFFICES ASSUME data = <<>> PROVE Len(data) = 0 /\ Seen = Output
    OBVIOUS
  <2>1. Len(data) = 0
    BY EmptySeq
  <2>2. Len(taken) - Len(data) = Len(taken)
    BY <1>1, <2>1
  <2> QED
    BY <2>1, <2>2 DEF Seen, Output
<1> QED
  BY <1>1, <1>2, <1>3, <1>5, <1>6

\* When f bytes of the chunk have been seen, e more are left.
SplitAt(f, e, seen, rest) ==
    /\ rest \in Seq(Byte) /\ Len(rest) = e
    /\ rest = SubSeq(taken, Len(taken) - e + 1, Len(taken))
    /\ SubSeq(taken, from + 1, Len(taken) - e) = Seen \o seen
    /\ seen \in Seq(Byte) /\ Len(seen) = f
    /\ \A i \in 1 .. f : seen[i] = data[i]

LEMMA DataFrom ==
    ASSUME LinesTypeOK, DataIsLeft, NEW f \in Nat, NEW e \in Nat, Len(data) = f + e
    PROVE  SplitAt(f, e, SubSeq(data, 1, f), SubSeq(data, f + 1, Len(data)))
<1> SUFFICES ASSUME NEW seen, seen = SubSeq(data, 1, f),
                    NEW rest, rest = SubSeq(data, f + 1, Len(data)),
                    NEW Q, Q = Len(taken) - Len(data), NEW F, F = from
             PROVE  /\ rest \in Seq(Byte) /\ Len(rest) = e
                    /\ rest = SubSeq(taken, Len(taken) - e + 1, Len(taken))
                    /\ SubSeq(taken, F + 1, Len(taken) - e) = Seen \o seen
                    /\ seen \in Seq(Byte) /\ Len(seen) = f
                    /\ \A i \in 1 .. f : seen[i] = data[i]
  BY DEF SplitAt
<1>1. /\ taken \in Seq(Byte) /\ data \in Seq(Byte) /\ Len(taken) \in Nat
      /\ F \in Nat /\ F <= Q /\ f \in Nat /\ e \in Nat /\ Len(data) = f + e
      /\ data = SubSeq(taken, Len(taken) - Len(data) + 1, Len(taken))
  BY SequencesAre DEF DataIsLeft
<1>2. Q \in Nat /\ Len(taken) = Q + (f + e) /\ Len(taken) - e = Q + f
      /\ Len(taken) = (Q + f) + e
  BY <1>1
<1>3. rest \in Seq(Byte) /\ Len(rest) = e /\ \A i \in 1 .. e : rest[i] = data[f + i]
  <2>1. rest = SubSeq(data, f + 1, f + e) /\ f + e <= Len(data)
    BY <1>1
  <2> QED
    BY <1>1, <2>1, Part
<1>4. seen \in Seq(Byte) /\ Len(seen) = f /\ \A i \in 1 .. f : seen[i] = data[i]
  <2>1. seen = SubSeq(data, 0 + 1, 0 + f) /\ 0 + f <= Len(data)
    BY <1>1
  <2>2. seen \in Seq(Byte) /\ Len(seen) = f /\ \A i \in 1 .. f : seen[i] = data[0 + i]
    BY <1>1, <2>1, Part
  <2> QED
    BY <2>2
<1>5. \A i \in 1 .. f + e : data[i] = taken[Q + i]
  <2>1. data = SubSeq(taken, Q + 1, Q + (f + e)) /\ f + e \in Nat /\ Q + (f + e) <= Len(taken)
    BY <1>1, <1>2
  <2> QED
    BY <1>1, <1>2, <2>1, Part
<1>6. rest = SubSeq(taken, Len(taken) - e + 1, Len(taken))
  <2> SUFFICES ASSUME NEW o, o = Q + f, NEW t, t = SubSeq(taken, o + 1, o + e)
               PROVE  t = rest
    BY <1>2
  <2>1. o \in Nat /\ o + e <= Len(taken)
    BY <1>1, <1>2
  <2>2. t \in Seq(Byte) /\ Len(t) = e /\ \A i \in 1 .. e : t[i] = taken[o + i]
    BY <1>1, <2>1, Part
  <2>3. \A i \in 1 .. e : f + i \in 1 .. f + e /\ Q + (f + i) = o + i
    BY <1>1, <1>2
  <2>4. ASSUME NEW i \in 1 .. e
        PROVE  t[i] = rest[i]
    <3>1. data[f + i] = taken[Q + (f + i)]
      BY <1>5, <2>3
    <3>2. t[i] = taken[o + i] /\ rest[i] = data[f + i] /\ Q + (f + i) = o + i
      BY <1>3, <2>2, <2>3
    <3> QED
      BY <3>1, <3>2
  <2> QED
    BY <1>3, <2>2, <2>4, SeqEqual
<1>7. seen = SubSeq(taken, Q + 1, Q + f)
  <2> SUFFICES ASSUME NEW t, t = SubSeq(taken, Q + 1, Q + f)
               PROVE  t = seen
    OBVIOUS
  <2>1. Q + f <= Len(taken)
    BY <1>1, <1>2
  <2>2. t \in Seq(Byte) /\ Len(t) = f /\ \A i \in 1 .. f : t[i] = taken[Q + i]
    BY <1>1, <1>2, <2>1, Part
  <2>3. \A i \in 1 .. f : i \in 1 .. f + e
    BY <1>1
  <2>4. \A i \in 1 .. f : t[i] = seen[i]
    BY <1>4, <1>5, <2>2, <2>3
  <2> QED
    BY <1>4, <2>2, <2>4, SeqEqual
<1>8. SubSeq(taken, F + 1, Q) \o SubSeq(taken, Q + 1, Q + f) = SubSeq(taken, F + 1, Q + f)
  <2> SUFFICES ASSUME NEW m, m = F + 1, NEW n, n = Q + f
               PROVE  SubSeq(taken, m, Q) \o SubSeq(taken, Q + 1, n) = SubSeq(taken, m, n)
    OBVIOUS
  <2>1. m \in 1 .. Len(taken) + 1 /\ Q \in m - 1 .. Len(taken) /\ n \in Q .. Len(taken)
    BY <1>1, <1>2
  <2> QED
    BY <1>1, <2>1, ConcatAdjacentSubSeq
<1>9. Seen = SubSeq(taken, F + 1, Q)
  BY DEF Seen
<1> QED
  BY <1>2, <1>3, <1>4, <1>6, <1>7, <1>8, <1>9

LEMMA InitLines == LinesInit => LinesIInv
<1> SUFFICES ASSUME LinesInit PROVE LinesIInv
  OBVIOUS
<1>1. /\ inflight = <<>> /\ taken = <<>> /\ closed = FALSE
      /\ pc = "idle" /\ data = <<>> /\ remainder = <<>> /\ timeout = FALSE /\ timer = FALSE
      /\ lines = <<>> /\ from = 0 /\ ending = "none" /\ reads = 0
  BY DEF LinesInit, Buffer!Init
<1>2. \A T : <<>> \in Seq(T) /\ Len(<<>>) = 0
  BY EmptySeq
<1>3. LinesTypeOK
  <2>1. /\ inflight \in Seq(Byte) /\ taken \in Seq(Byte) /\ data \in Seq(Byte)
        /\ remainder \in Seq(Byte \ {Eol}) /\ lines \in Seq(Seq(Byte \ {Eol}))
        /\ Len(taken) = 0
    BY <1>1, <1>2
  <2>2. from \in 0 .. Len(taken) /\ reads \in 0 .. MaxReads /\ ~(reads > 0)
    BY <1>1, <2>1, LinesAssumption
  <2> QED
    BY <1>1, <2>1, <2>2 DEF LinesTypeOK, States
<1>4. SubSeq(<<>>, 1, 0) = <<>>
  BY SubSeqEmpty
<1>5. DataIsLeft
  BY <1>1, <1>2, <1>4 DEF DataIsLeft
<1>6. LinesAreSplit
  <2>1. Len(taken) - Len(data) = 0
    BY <1>1, <1>2
  <2>2. Seen = <<>>
    BY <1>1, <1>4, <2>1 DEF Seen
  <2> QED
    BY <1>1, <2>2, CutNothing DEF LinesAreSplit
<1> QED
  BY <1>1, <1>3, <1>5, <1>6 DEF LinesIInv

LEMMA BeginPreserves ==
    ASSUME LinesIInv, NEW timed \in BOOLEAN, Begin(timed)
    PROVE  LinesIInv'
<1>1. /\ pc = "idle" /\ reads < MaxReads /\ pc' = "ready" /\ timeout' = timed
      /\ timer' = timed /\ reads' = reads + 1 /\ data' = <<>> /\ remainder' = <<>>
      /\ lines' = <<>> /\ from' = Len(taken) /\ ending' = "none"
      /\ UNCHANGED <<inflight, taken, closed>>
  BY DEF Begin
<1>2. \A T : <<>> \in Seq(T) /\ Len(<<>>) = 0
  BY EmptySeq
<1>3. Len(taken) \in Nat /\ reads \in 0 .. MaxReads
  BY SequencesAre DEF LinesIInv, LinesTypeOK
<1>4. LinesTypeOK' /\ reads' > 0
  <2>1. /\ data' \in Seq(Byte) /\ remainder' \in Seq(Byte \ {Eol})
        /\ lines' \in Seq(Seq(Byte \ {Eol}))
    BY <1>1, <1>2
  <2>2. from' \in 0 .. Len(taken) /\ reads' \in 0 .. MaxReads /\ reads' > 0
    BY <1>1, <1>3, LinesAssumption
  <2> QED
    BY <1>1, <2>1, <2>2 DEF LinesIInv, LinesTypeOK, States
<1>5. SubSeq(taken, Len(taken) + 1, Len(taken)) = <<>>
  BY <1>3, SubSeqEmpty
<1>6. Len(taken) - 0 = Len(taken)
  BY <1>3
<1>7. DataIsLeft'
  <2>1. Len(data') = 0 /\ 0 <= Len(taken) - Len(taken)
    BY <1>1, <1>2, <1>3
  <2> QED
    BY <1>1, <1>5, <1>6, <2>1 DEF DataIsLeft
<1>8. Seen' = <<>>
  BY <1>1, <1>2, <1>5, <1>6 DEF Seen
<1>9. LinesAreSplit'
  BY <1>1, <1>8, CutNothing DEF LinesAreSplit
<1> QED
  BY <1>4, <1>7, <1>9 DEF LinesIInv

\* Steps that take nothing, look at nothing and yield nothing.
LEMMA QuietPreserves ==
    ASSUME LinesIInv, LinesTypeOK', UNCHANGED <<taken, data, remainder, lines, from>>,
           pc' # "idle" => reads' > 0,
           pc' \in {"ready", "waiting", "last"} \/ ending' \in {"ended", "timeout"}
              => data = <<>>,
           IF pc' = "last" \/ ending' = "ended" THEN AreLines(lines, Output)
                                                ELSE IsCut(lines, remainder, Seen)
    PROVE  LinesIInv'
<1>1. Seen' = Seen /\ Output' = Output
  BY DEF Seen, Output
<1>2. DataIsLeft'
  BY DEF LinesIInv, DataIsLeft
<1>3. LinesAreSplit'
  BY <1>1 DEF LinesAreSplit, Output
<1> QED
  BY <1>2, <1>3 DEF LinesIInv

LEMMA LeavesPreserves ==
    ASSUME LinesIInv, Finish \/ AfterLast \/ ExpireWaiting \/ Abandon
    PROVE  LinesIInv'
<1>1. PICK how \in {"ended", "timeout", "abandoned"} :
         /\ Leaves(how) /\ pc \in {"ready", "waiting", "last", "line"}
         /\ pc = "line" <=> how = "abandoned"
         /\ how = "ended" => pc = "last" \/ (pc \in {"ready", "waiting"} /\ remainder = <<>>)
         /\ how = "timeout" => pc = "waiting"
  <2>1. CASE Finish
    BY <2>1 DEF Finish
  <2>2. CASE AfterLast
    BY <2>2 DEF AfterLast
  <2>3. CASE ExpireWaiting
    BY <2>3 DEF ExpireWaiting
  <2>4. CASE Abandon
    BY <2>4 DEF Abandon
  <2> QED
    BY <2>1, <2>2, <2>3, <2>4
<1>2. /\ pc' = "idle" /\ timer' = FALSE /\ ending' = how
      /\ UNCHANGED <<inflight, taken, closed, data, remainder, timeout, lines, from, reads>>
  BY <1>1 DEF Leaves
<1>3. reads > 0 /\ ending = "none"
  BY <1>1 DEF LinesIInv, LinesTypeOK
<1>4. LinesTypeOK'
  BY <1>1, <1>2, <1>3 DEF LinesIInv, LinesTypeOK, States
<1>5. how \in {"ended", "timeout"} => data = <<>>
  BY <1>1 DEF LinesIInv, DataIsLeft
<1>6. IF how = "ended" THEN AreLines(lines, Output) ELSE IsCut(lines, remainder, Seen)
  <2>1. CASE pc = "last"
    BY <1>1, <2>1 DEF LinesIInv, LinesAreSplit, Output
  <2>2. CASE pc # "last"
    <3>1. IsCut(lines, remainder, Seen)
      BY <1>3, <2>2 DEF LinesIInv, LinesAreSplit
    <3>2. how = "ended" => IsCut(lines, <<>>, Output)
      BY <1>1, <1>5, <2>2, <3>1, SequencesAre DEF LinesIInv
    <3> QED
      BY <3>1, <3>2 DEF AreLines
  <2> QED
    BY <2>1, <2>2
<1> QED
  BY <1>1, <1>2, <1>4, <1>5, <1>6, QuietPreserves

LEMMA OtherPreserves ==
    ASSUME LinesIInv, Wait \/ NextLine \/ WriterStep
    PROVE  LinesIInv'
<1>1. CASE Wait \/ NextLine
  <2>1. /\ UNCHANGED <<inflight, taken, closed, data, remainder, timeout, timer, lines,
                       from, ending, reads>>
        /\ pc \in {"ready", "line"} /\ pc' \in {"waiting", "parsing"}
        /\ pc' = "waiting" => pc = "ready"
    BY <1>1 DEF Wait, NextLine
  <2>2. reads > 0 /\ ending = "none"
    BY <2>1 DEF LinesIInv, LinesTypeOK
  <2>3. LinesTypeOK'
    BY <2>1, <2>2 DEF LinesIInv, LinesTypeOK, States
  <2>4. pc' = "waiting" => data = <<>>
    BY <2>1 DEF LinesIInv, DataIsLeft
  <2>5. IsCut(lines, remainder, Seen)
    BY <2>1, <2>2 DEF LinesIInv, LinesAreSplit
  <2> QED
    BY <2>1, <2>2, <2>3, <2>4, <2>5, QuietPreserves
<1>2. CASE WriterStep
  <2>1. /\ inflight' \in Seq(Byte) /\ closed' \in BOOLEAN
        /\ UNCHANGED <<taken, pc, data, remainder, timeout, timer, lines, from, ending,
                       reads>>
    <3>1. CASE \E chunk \in Chunks : Buffer!Put(chunk)
      <4>1. PICK chunk \in Chunks : Buffer!Put(chunk)
        BY <3>1
      <4>2. chunk \in Seq(Byte) /\ inflight \in Seq(Byte)
        BY ChunksAssumption DEF LinesIInv, LinesTypeOK
      <4>3. inflight \o chunk \in Seq(Byte)
        BY <4>2, ConcatProperties
      <4> QED
        BY <1>2, <4>1, <4>3
           DEF WriterStep, Buffer!Put, reading, LinesIInv, LinesTypeOK
    <3>2. CASE Buffer!Close
      BY <1>2, <3>2 DEF WriterStep, Buffer!Close, reading, LinesIInv, LinesTypeOK
    <3> QED
      BY <1>2, <3>1, <3>2 DEF WriterStep
  <2>2. LinesTypeOK'
    BY <2>1 DEF LinesIInv, LinesTypeOK
  <2> QED
    BY <2>1, <2>2, QuietPreserves DEF LinesIInv, DataIsLeft, LinesAreSplit, Output
<1> QED
  BY <1>1, <1>2

LEMMA TakeChunkPreserves ==
    ASSUME LinesIInv, TakeChunk
    PROVE  LinesIInv'
<1>1. /\ pc \in {"ready", "waiting"} /\ pc' = "parsing" /\ data' = inflight
      /\ taken' = taken \o inflight /\ inflight' = <<>> /\ closed' = closed
      /\ UNCHANGED <<remainder, timeout, timer, lines, from, ending, reads>>
  BY DEF TakeChunk, Buffer!Take
<1>2. /\ taken \in Seq(Byte) /\ inflight \in Seq(Byte) /\ Len(taken) \in Nat
      /\ Len(inflight) \in Nat /\ from \in Nat /\ from <= Len(taken) /\ data = <<>>
      /\ Seen = Output /\ ending = "none" /\ reads > 0
  <2>1. data = <<>> /\ ending = "none" /\ reads > 0
    BY <1>1 DEF LinesIInv, DataIsLeft, LinesTypeOK
  <2> QED
    BY <2>1, SequencesAre DEF LinesIInv
<1>3. taken' \in Seq(Byte) /\ Len(taken') = Len(taken) + Len(inflight)
  BY <1>1, <1>2, ConcatProperties
<1>4. LinesTypeOK'
  <2>1. inflight' \in Seq(Byte) /\ from \in 0 .. Len(taken')
    BY <1>1, <1>2, <1>3, EmptySeq
  <2> QED
    BY <1>1, <1>2, <1>3, <2>1 DEF LinesIInv, LinesTypeOK, States
<1>5. SubSeq(taken', Len(taken) + 1, Len(taken')) = inflight
  <2> SUFFICES ASSUME NEW t, t = SubSeq(taken', Len(taken) + 1, Len(taken'))
               PROVE  t = inflight
    OBVIOUS
  <2> SUFFICES ASSUME NEW o, o = Len(taken), NEW l, l = Len(inflight), NEW all, all = taken'
               PROVE  t = inflight
    OBVIOUS
  <2>1. o \in Nat /\ l \in Nat /\ all \in Seq(Byte) /\ o + l <= Len(all)
    BY <1>2, <1>3
  <2>2. t \in Seq(Byte) /\ Len(t) = l /\ \A i \in 1 .. l : t[i] = all[o + i]
    <3>1. Len(all) = o + l
      BY <1>3
    <3> QED
      BY <2>1, <3>1, Part
  <2>3. \A i \in 1 .. o + l : all[i] = IF i <= o THEN taken[i] ELSE inflight[i - o]
    BY <1>1, <1>2, ConcatProperties
  <2>4. \A i \in 1 .. l : o + i \in 1 .. o + l /\ ~(o + i <= o) /\ (o + i) - o = i
    BY <2>1
  <2>5. \A i \in 1 .. l : t[i] = inflight[i]
    BY <2>2, <2>3, <2>4
  <2> QED
    BY <1>2, <2>2, <2>5, SeqEqual
<1>6. Len(taken') - Len(data') = Len(taken)
  BY <1>1, <1>2, <1>3
<1>7. Seen' = Seen
  <2>1. from + 1 \in Nat \ {0} /\ Len(taken) \in Int /\ Len(taken) <= Len(taken)
    BY <1>2
  <2>2. SubSeq(taken', from + 1, Len(taken)) = SubSeq(taken, from + 1, Len(taken))
    BY <1>1, <1>2, <2>1, SliceOfConcat
  <2> QED
    BY <1>1, <1>2, <1>6, <2>2 DEF Seen, Output
<1>8. DataIsLeft'
  <2>1. Len(data') <= Len(taken') - from
    BY <1>1, <1>2, <1>3
  <2> QED
    BY <1>1, <1>2, <1>5, <1>6, <2>1 DEF DataIsLeft
<1>9. LinesAreSplit'
  BY <1>1, <1>2, <1>7 DEF LinesIInv, LinesAreSplit
<1> QED
  BY <1>1, <1>2, <1>4, <1>8, <1>9 DEF LinesIInv

\* A sequence of bytes of which none ends a line.
LEMMA InLine ==
    ASSUME NEW s \in Seq(Byte), \A i \in 1 .. Len(s) : s[i] # Eol
    PROVE  s \in Seq(Byte \ {Eol})
<1>1. s \in [1 .. Len(s) -> Byte] /\ Len(s) \in Nat
  BY LenProperties
<1>2. s \in [1 .. Len(s) -> Byte \ {Eol}]
  BY <1>1
<1> QED
  BY <1>1, <1>2, SeqDef

\* The last element of what is appended comes last.
LEMMA EndOfConcat ==
    ASSUME NEW S, NEW s \in Seq(S), NEW t \in Seq(S), NEW e \in S
    PROVE  s \o (t \o <<e>>) = Append(s \o t, e)
<1>1. <<e>> \in Seq(S)
  OBVIOUS
<1>2. (s \o t) \o <<e>> = s \o (t \o <<e>>)
  BY <1>1, Regroup
<1>3. s \o t \in Seq(S)
  BY ConcatProperties
<1> QED
  BY <1>2, <1>3, AppendIsConcat

\* The line that ends in the chunk is what was kept of it and what comes before its end,
\* and the text goes on behind that.
LEMMA YieldLinePreserves ==
    ASSUME LinesIInv, YieldLine
    PROVE  LinesIInv'
<1> SUFFICES ASSUME NEW f, f = FindEol - 1, NEW e, e = Len(data) - FindEol,
                    NEW u, u = SubSeq(data, 1, f)
             PROVE  LinesIInv'
  OBVIOUS
<1>1. /\ pc = "parsing" /\ FindEol > 0 /\ lines' = Append(lines, remainder \o u)
      /\ remainder' = <<>> /\ data' = SubSeq(data, FindEol + 1, Len(data)) /\ pc' = "line"
      /\ UNCHANGED <<inflight, taken, closed, timeout, timer, from, ending, reads>>
  BY DEF YieldLine, TheLine
<1>2. /\ LinesTypeOK /\ DataIsLeft /\ taken \in Seq(Byte) /\ data \in Seq(Byte)
      /\ Len(taken) \in Nat /\ Len(data) \in Nat /\ from \in Nat
      /\ from <= Len(taken) - Len(data) /\ Seen \in Seq(Byte)
      /\ remainder \in Seq(Byte) /\ lines \in Seq(Seq(Byte))
      /\ ending = "none" /\ reads > 0 /\ IsCut(lines, remainder, Seen)
  <2>1. ending = "none" /\ reads > 0
    BY <1>1 DEF LinesIInv, LinesTypeOK
  <2> QED
    BY <1>1, <2>1, SequencesAre DEF LinesIInv, LinesAreSplit
<1>3. /\ FindEol \in 1 .. Len(data) /\ data[FindEol] = Eol
      /\ \A i \in 1 .. FindEol - 1 : data[i] # Eol
  BY <1>1, <1>2, FindEolIs
<1>4. /\ f \in Nat /\ e \in Nat /\ FindEol = f + 1 /\ Len(data) = f + (e + 1)
      /\ Len(data) = (f + 1) + e /\ e + 1 \in Nat /\ f + 1 \in Nat
      /\ Len(taken) - e \in Nat
  <2>1. FindEol \in Int /\ FindEol >= 1 /\ FindEol <= Len(data)
    BY <1>2, <1>3
  <2> QED
    BY <1>2, <2>1
<1>5. /\ u \in Seq(Byte) /\ Len(u) = f /\ \A i \in 1 .. f : u[i] = data[i]
  <2>1. SplitAt(f, e + 1, SubSeq(data, 1, f), SubSeq(data, f + 1, Len(data)))
    BY <1>2, <1>4, DataFrom
  <2> QED
    BY <2>1 DEF SplitAt
<1>6. /\ data' \in Seq(Byte) /\ Len(data') = e
      /\ data' = SubSeq(taken, Len(taken) - e + 1, Len(taken))
      /\ SubSeq(taken, from + 1, Len(taken) - e) = Seen \o SubSeq(data, 1, f + 1)
  <2> SUFFICES ASSUME NEW g, g = f + 1, NEW v, v = SubSeq(data, 1, g),
                      NEW rest, rest = SubSeq(data, g + 1, Len(data))
               PROVE  /\ rest \in Seq(Byte) /\ Len(rest) = e
                      /\ rest = SubSeq(taken, Len(taken) - e + 1, Len(taken))
                      /\ SubSeq(taken, from + 1, Len(taken) - e) = Seen \o v
    BY <1>1, <1>4
  <2>1. g \in Nat /\ Len(data) = g + e /\ e \in Nat
    BY <1>4
  <2>2. SplitAt(g, e, SubSeq(data, 1, g), SubSeq(data, g + 1, Len(data)))
    BY <1>2, <2>1, DataFrom
  <2> QED
    BY <2>2 DEF SplitAt
<1>7. SubSeq(data, 1, f + 1) = u \o <<Eol>>
  <2>1. 1 \in 1 .. Len(data) /\ f + 1 \in 1 .. Len(data) /\ (f + 1) - 1 = f
    BY <1>4
  <2>2. SubSeq(data, 1, FindEol) = SubSeq(data, 1, FindEol - 1) \o <<data[FindEol]>>
    BY <1>2, <1>3, SubSeqRecursiveSecond
  <2> QED
    BY <1>3, <1>4, <2>2
<1>8. Seen' = Append(Seen \o u, Eol)
  <2>1. Seen' = Seen \o (u \o <<Eol>>)
    BY <1>1, <1>6, <1>7 DEF Seen
  <2>2. Eol \in Byte
    BY LinesAssumption
  <2>3. Seen \o (u \o <<Eol>>) = Append(Seen \o u, Eol)
    <3>1. \A a, b \in Seq(Byte) : a \o (b \o <<Eol>>) = Append(a \o b, Eol)
      BY <2>2, EndOfConcat
    <3>2. Seen \in Seq(Byte) /\ u \in Seq(Byte)
      BY <1>2, <1>5
    <3> QED
      BY <3>1, <3>2
  <2> QED
    BY <2>1, <2>3
<1>9. \A i \in 1 .. Len(u) : u[i] # Eol
  BY <1>3, <1>4, <1>5
<1>10. IsCut(lines', remainder', Seen')
  <2>1. IsCut(lines, remainder \o u, Seen \o u)
    BY <1>2, <1>5, <1>9, CutMore
  <2>2. remainder \o u \in Seq(Byte) /\ Seen \o u \in Seq(Byte)
    BY <1>2, <1>5, ConcatProperties
  <2> QED
    BY <1>1, <1>2, <1>8, <2>1, <2>2, CutEnd
<1>11. LinesTypeOK'
  <2>1. u \in Seq(Byte \ {Eol}) /\ remainder \in Seq(Byte \ {Eol})
        /\ lines \in Seq(Seq(Byte \ {Eol}))
    BY <1>2, <1>5, <1>9, InLine DEF LinesTypeOK
  <2>2. remainder \o u \in Seq(Byte \ {Eol})
    BY <2>1, ConcatProperties
  <2>3. lines' \in Seq(Seq(Byte \ {Eol}))
    BY <1>1, <2>1, <2>2, AppendProperties
  <2>4. remainder' \in Seq(Byte \ {Eol})
    BY <1>1, EmptySeq
  <2> QED
    BY <1>1, <1>2, <1>6, <2>3, <2>4 DEF LinesTypeOK, States
<1>12. DataIsLeft'
  <2>1. e <= Len(taken) - from
    BY <1>2, <1>4
  <2> QED
    BY <1>1, <1>2, <1>6, <2>1 DEF DataIsLeft
<1>13. LinesAreSplit'
  BY <1>1, <1>2, <1>10 DEF LinesAreSplit
<1> QED
  BY <1>1, <1>2, <1>11, <1>12, <1>13 DEF LinesIInv

\* What is left of the chunk, with no line end, is kept.
LEMMA KeepRemainderPreserves ==
    ASSUME LinesIInv, KeepRemainder
    PROVE  LinesIInv'
<1>1. /\ pc = "parsing" /\ FindEol = 0 /\ remainder' = remainder \o data /\ data' = <<>>
      /\ pc' = "ready"
      /\ UNCHANGED <<inflight, taken, closed, timeout, timer, lines, from, ending, reads>>
  BY DEF KeepRemainder
<1>2. /\ LinesTypeOK /\ DataIsLeft /\ taken \in Seq(Byte) /\ data \in Seq(Byte)
      /\ Len(taken) \in Nat /\ Len(data) \in Nat /\ from \in Nat
      /\ from <= Len(taken) - Len(data) /\ Seen \in Seq(Byte)
      /\ remainder \in Seq(Byte) /\ lines \in Seq(Seq(Byte))
      /\ ending = "none" /\ reads > 0 /\ IsCut(lines, remainder, Seen)
  <2>1. ending = "none" /\ reads > 0
    BY <1>1 DEF LinesIInv, LinesTypeOK
  <2> QED
    BY <1>1, <2>1, SequencesAre DEF LinesIInv, LinesAreSplit
<1>3. \A i \in 1 .. Len(data) : data[i] # Eol
  BY <1>1, <1>2, FindEolIs
<1>4. Len(<<>>) = 0 /\ Len(taken) - 0 = Len(taken)
      /\ SubSeq(taken, Len(taken) + 1, Len(taken)) = <<>>
  BY <1>2, EmptySeq, SubSeqEmpty
<1>5. SubSeq(taken, from + 1, Len(taken)) = Seen \o data
  <2>1. SubSeq(taken, from + 1, Len(taken) - 0) = Seen \o SubSeq(data, 1, Len(data))
    <3>1. 0 \in Nat /\ Len(data) = Len(data) + 0
      BY <1>2
    <3> QED
      BY <1>2, <3>1, DataFrom DEF SplitAt
  <2> QED
    BY <1>2, <1>4, <2>1, SubSeqFull
<1>6. Seen' = Seen \o data
  BY <1>1, <1>4, <1>5 DEF Seen
<1>7. IsCut(lines', remainder', Seen')
  BY <1>1, <1>2, <1>3, <1>6, CutMore
<1>8. LinesTypeOK'
  <2>1. data \in Seq(Byte \ {Eol}) /\ remainder \in Seq(Byte \ {Eol})
    BY <1>2, <1>3, InLine DEF LinesTypeOK
  <2>2. remainder \o data \in Seq(Byte \ {Eol}) /\ <<>> \in Seq(Byte)
    BY <2>1, ConcatProperties, EmptySeq
  <2> QED
    BY <1>1, <1>2, <2>2 DEF LinesTypeOK, States
<1>9. DataIsLeft'
  <2>1. 0 <= Len(taken) - from
    BY <1>2
  <2> QED
    BY <1>1, <1>4, <2>1 DEF DataIsLeft
<1>10. LinesAreSplit'
  BY <1>1, <1>2, <1>7 DEF LinesAreSplit
<1> QED
  BY <1>1, <1>2, <1>8, <1>9, <1>10 DEF LinesIInv

\* The last line has no end.
LEMMA YieldRemainderPreserves ==
    ASSUME LinesIInv, YieldRemainder
    PROVE  LinesIInv'
<1>1. /\ pc \in {"ready", "waiting"} /\ remainder # <<>> /\ pc' = "last"
      /\ lines' = Append(lines, remainder)
      /\ UNCHANGED <<inflight, taken, closed, data, remainder, timeout, timer, from,
                     ending, reads>>
  BY DEF YieldRemainder
<1>2. /\ data = <<>> /\ ending = "none" /\ reads > 0 /\ IsCut(lines, remainder, Seen)
  BY <1>1 DEF LinesIInv, DataIsLeft, LinesTypeOK, LinesAreSplit
<1>3. Seen = Output /\ lines \in Seq(Seq(Byte)) /\ remainder \in Seq(Byte)
  BY <1>2, SequencesAre DEF LinesIInv
<1>4. Front(lines') = lines /\ Last(lines') = remainder /\ lines' # <<>>
  <2> SUFFICES ASSUME NEW more, more = Append(lines, remainder)
               PROVE  /\ SubSeq(more, 1, Len(more) - 1) = lines
                      /\ more[Len(more)] = remainder /\ more # <<>>
    BY <1>1 DEF Front, Last
  <2>1. /\ more # <<>> /\ Len(more) = Len(lines) + 1 /\ more[Len(lines) + 1] = remainder
        /\ Len(lines) \in Nat
    BY <1>3, AppendProperties, LenProperties
  <2>2. more = lines \o <<remainder>> /\ <<remainder>> \in Seq(Seq(Byte))
    BY <1>3, AppendIsConcat
  <2>3. SubSeq(more, 1, Len(lines)) = SubSeq(lines, 1, Len(lines))
    <3>1. 1 \in Nat \ {0} /\ Len(lines) \in Int /\ Len(lines) <= Len(lines)
      BY <2>1
    <3> QED
      BY <1>3, <2>2, <3>1, SliceOfConcat
  <2>4. Len(more) - 1 = Len(lines)
    BY <2>1
  <2> QED
    BY <1>3, <2>1, <2>3, <2>4, SubSeqFull
<1>5. AreLines(lines', Output)
  BY <1>1, <1>2, <1>3, <1>4 DEF AreLines
<1>6. LinesTypeOK'
  <2>1. lines' \in Seq(Seq(Byte \ {Eol}))
    <3>1. lines \in Seq(Seq(Byte \ {Eol})) /\ remainder \in Seq(Byte \ {Eol})
      BY DEF LinesIInv, LinesTypeOK
    <3> QED
      BY <1>1, <3>1, AppendProperties
  <2> QED
    BY <1>1, <1>2, <2>1 DEF LinesIInv, LinesTypeOK, States
<1>7. DataIsLeft'
  BY <1>1, <1>2 DEF LinesIInv, DataIsLeft
<1>8. LinesAreSplit'
  BY <1>1, <1>5 DEF LinesAreSplit, Output
<1> QED
  BY <1>1, <1>2, <1>6, <1>7, <1>8 DEF LinesIInv

LEMMA LinesStep == LinesIInv /\ [LinesNext]_linesvars => LinesIInv'
<1> SUFFICES ASSUME LinesIInv, [LinesNext]_linesvars PROVE LinesIInv'
  OBVIOUS
<1>1. CASE \E timed \in BOOLEAN : Begin(timed)
  BY <1>1, BeginPreserves
<1>2. CASE Wait \/ NextLine \/ WriterStep
  BY <1>2, OtherPreserves
<1>3. CASE TakeChunk \/ YieldLine \/ KeepRemainder \/ YieldRemainder
  BY <1>3, TakeChunkPreserves, YieldLinePreserves, KeepRemainderPreserves,
     YieldRemainderPreserves
<1>4. CASE Finish \/ AfterLast \/ ExpireWaiting \/ Abandon
  BY <1>4, LeavesPreserves
<1>5. CASE UNCHANGED linesvars
  BY <1>5
     DEF linesvars, reading, LinesIInv, LinesTypeOK, DataIsLeft, LinesAreSplit, Seen
<1> QED
  BY <1>1, <1>2, <1>3, <1>4, <1>5 DEF LinesNext, ReaderStep, ConsumerStep

\* For any bytes, chunks and number of reads: however the output is cut into chunks, the
\* lines a read yields are those of what it took, and a timer that expires while it waits
\* loses at most the beginning of one (_read_output_buffer).
THEOREM LinesInvariance == LinesSpec => []LinesInv
<1>1. LinesInit => LinesIInv
  BY InitLines
<1>2. LinesIInv /\ [LinesNext]_linesvars => LinesIInv'
  BY LinesStep
<1>3. LinesIInv => LinesInv
  <2> SUFFICES ASSUME LinesIInv PROVE WaitLosesNoLine
    BY DEF LinesIInv, LinesInv
  <2> SUFFICES ASSUME ending = "timeout" PROVE IsCut(lines, remainder, Output)
    BY DEF WaitLosesNoLine, Output
  <2>1. data = <<>> /\ pc = "idle"
    BY DEF LinesIInv, DataIsLeft, LinesTypeOK
  <2>2. Seen = Output
    BY <2>1, SequencesAre DEF LinesIInv
  <2> QED
    BY <2>1, <2>2 DEF LinesIInv, LinesAreSplit
<1> QED
  BY <1>1, <1>2, <1>3, PTL DEF LinesSpec
---------------------------------------------------------------------------
(* Shells: the inductive invariant.                                        *)

Call == [pc : {"idle", "spawning", "blocked", "joining"}, todo : Seq(Job),
         jobs : SUBSET Nat, kind : {"run", "close"}, timed : BOOLEAN]

ShellTypes ==
    /\ ShellsTypeOK /\ call \in Call
    /\ Len(jobs) + Len(call.todo) <= MaxJobs

\* Commands for one shell have greenlets in the order in which they were given.
Comes(a, b) ==
    a.kind = "run" /\ b.kind = "run" /\ a.shell = b.shell => a.cmd < b.cmd

Ordered ==
    /\ \A a, b \in DOMAIN jobs : a < b => Comes(jobs[a], jobs[b])
    /\ \A a \in DOMAIN jobs, b \in DOMAIN call.todo : Comes(jobs[a], call.todo[b])
    /\ \A a, b \in DOMAIN call.todo : a < b => Comes(call.todo[a], call.todo[b])
    /\ \A a \in DOMAIN jobs : jobs[a].cmd <= given
    /\ \A a \in DOMAIN call.todo : call.todo[a].cmd <= given

\* Greenlets start in that order too; one is done with a command when all is written, and
\* at it only as long as a write was short.
Progress ==
    /\ \A a, b \in DOMAIN jobs : a < b /\ jobs[b].pc # "new" => jobs[a].pc # "new"
    /\ \A a \in DOMAIN jobs :
          /\ jobs[a].pc = "new" => jobs[a].put = 0
          /\ jobs[a].kind = "run" => jobs[a].pc # "waiting"
          /\ jobs[a].kind = "run" /\ jobs[a].pc = "done" => jobs[a].put = Pieces
          /\ ~short /\ jobs[a].pc = "writing" => jobs[a].put = Pieces
    /\ \A a \in DOMAIN call.todo : call.todo[a].pc = "new" /\ call.todo[a].put = 0

\* What is written was written by a greenlet of that shell.
Origin ==
    \A s \in Shells : \A i \in DOMAIN wire[s] : \E j \in DOMAIN jobs :
        jobs[j].kind = "run" /\ jobs[j].shell = s /\ jobs[j].cmd = wire[s][i][1]

\* A call has greenlets of one kind, and unless one was left early no others are at work.
Calls ==
    /\ \A j \in call.jobs : jobs[j].kind = call.kind
    /\ \A i \in DOMAIN call.todo : call.todo[i].kind = call.kind
    /\ left \/ \A j \in DOMAIN jobs : Over(j) \/ (j \in call.jobs /\ call.pc # "idle")

ShellsIInv ==
    /\ ShellTypes /\ Ordered /\ Progress /\ Origin /\ Calls
    /\ WrittenOnce /\ InOrderUnlessShort

\* A function on 1 .. n is a sequence.
LEMMA FunctionSeq ==
    ASSUME NEW n \in Nat, NEW T, NEW f \in [1 .. n -> T]
    PROVE  f \in Seq(T) /\ Len(f) = n
<1>1. f \in Seq(T)
  BY SeqDef
<1> QED
  BY <1>1, LenProperties

LEMMA JobsAre ==
    ASSUME NEW s \in Seq(Job)
    PROVE  /\ Len(s) \in Nat /\ DOMAIN s = 1 .. Len(s)
           /\ \A a \in DOMAIN s :
                 /\ s[a] \in Job /\ s[a].kind \in {"run", "close"} /\ s[a].shell \in Shells
                 /\ s[a].cmd \in Nat /\ s[a].put \in 0 .. Pieces
                 /\ s[a].pc \in {"new", "writing", "waiting", "done", "error"}
<1>1. Len(s) \in Nat /\ DOMAIN s = 1 .. Len(s) /\ \A a \in DOMAIN s : s[a] \in Job
  BY LenProperties, ElementOfSeq
<1> QED
  BY <1>1 DEF Job

LEMMA InitShells == ShellsInit => ShellsIInv
<1> SUFFICES ASSUME ShellsInit PROVE ShellsIInv
  OBVIOUS
<1>1. /\ wire = [s \in Shells |-> <<>>] /\ sent_eof = {} /\ ended = {} /\ jobs = <<>>
      /\ given = 0 /\ calls = 0 /\ short = FALSE /\ left = FALSE
      /\ call = [pc |-> "idle", todo |-> <<>>, jobs |-> {}, kind |-> "run", timed |-> FALSE]
  BY DEF ShellsInit, NoCall
<1>2. /\ jobs \in Seq(Job) /\ Len(jobs) = 0 /\ DOMAIN jobs = {}
      /\ call.todo \in Seq(Job) /\ Len(call.todo) = 0 /\ DOMAIN call.todo = {}
  <2>1. <<>> \in Seq(Job) /\ Len(<<>>) = 0
    BY EmptySeq
  <2>2. DOMAIN <<>> = 1 .. Len(<<>>)
    BY <2>1, LenProperties
  <2> QED
    BY <1>1, <2>1, <2>2
<1>3. \A s \in Shells : wire[s] \in Seq(Nat \X (1 .. Pieces)) /\ Len(wire[s]) = 0
      /\ DOMAIN wire[s] = {}
  <2>1. <<>> \in Seq(Nat \X (1 .. Pieces)) /\ Len(<<>>) = 0
    BY EmptySeq
  <2>2. DOMAIN <<>> = 1 .. Len(<<>>)
    BY <2>1, LenProperties
  <2> QED
    BY <1>1, <2>1, <2>2
<1>4. ShellsTypeOK
  <2>1. wire \in [Shells -> Seq(Nat \X (1 .. Pieces))]
    BY <1>1, <1>3
  <2>2. (call.todo = <<>>) = (call.pc \in {"idle", "joining"})
    BY <1>1
  <2>3. call.jobs \subseteq DOMAIN jobs /\ Len(jobs) <= MaxJobs /\ calls \in 0 .. MaxCalls
    BY <1>1, <1>2, ShellsAssumption
  <2> QED
    BY <1>1, <1>2, <2>1, <2>2, <2>3 DEF ShellsTypeOK
<1>5. ShellTypes
  BY <1>1, <1>2, <1>4, ShellsAssumption DEF ShellTypes, Call
<1>6. Ordered /\ Progress /\ Origin /\ Calls
  BY <1>1, <1>2, <1>3 DEF Ordered, Progress, Origin, Calls
<1>7. WrittenOnce /\ InOrderUnlessShort
  BY <1>2, <1>3 DEF WrittenOnce, InOrderUnlessShort
<1> QED
  BY <1>5, <1>6, <1>7 DEF ShellsIInv

---------------------------------------------------------------------------
(* Shells: calls of the parallel client.                                   *)

\* What a call has in store: greenlets of its kind, with commands it was given.
InStore(kind, todo) ==
    /\ todo \in Seq(Job)
    /\ \A a \in DOMAIN todo : todo[a].kind = kind /\ todo[a].pc = "new" /\ todo[a].put = 0
    /\ \A a \in DOMAIN todo : todo[a].cmd <= given'
    /\ kind = "run" => \A a \in DOMAIN todo : todo[a].cmd > given
    /\ \A a, b \in DOMAIN todo : a < b => Comes(todo[a], todo[b])

\* Places of a list of n entries for each of L shells.
LEMMA DivMod ==
    ASSUME NEW n \in Nat \ {0}, NEW L \in Nat, NEW m \in 0 .. n * L - 1
    PROVE  /\ m = n * (m \div n) + (m % n)
           /\ m % n \in 0 .. n - 1 /\ m \div n \in 0 .. L - 1
<1>1. n * L \in Nat /\ m \in Nat
  OBVIOUS
<1>2. m \div n \in Int /\ m % n \in 0 .. n - 1 /\ m = n * (m \div n) + (m % n)
  BY <1>1
<1>3. m \div n >= 0
  <2>1. SUFFICES ASSUME m \div n <= -1 PROVE FALSE
    BY <1>2
  <2>2. n * (m \div n) <= -n
    BY <1>2, <2>1
  <2> QED
    BY <1>1, <1>2, <2>2
<1>4. m \div n < L
  <2>1. SUFFICES ASSUME m \div n >= L PROVE FALSE
    BY <1>2
  <2>2. n * (m \div n) >= n * L
    BY <1>2, <2>1
  <2> QED
    BY <1>2, <2>2
<1> QED
  BY <1>2, <1>3, <1>4

LEMMA RunJobsAre ==
    ASSUME given \in Nat, NEW n \in 1 .. MaxCommands, given' = given + n
    PROVE  InStore("run", RunJobs(n))
<1>1. n \in Nat \ {0} /\ Len(Shell) \in Nat /\ n * Len(Shell) \in Nat /\ Pieces \in Nat
      /\ DOMAIN Shell = 1 .. Len(Shell) /\ \A q \in 1 .. Len(Shell) : Shell[q] \in Shells
  <2>1. Shell \in Seq(ToSet(Shell)) /\ MaxCommands \in Nat
    BY ShellsAssumption
  <2>2. Len(Shell) \in Nat /\ DOMAIN Shell = 1 .. Len(Shell)
        /\ \A q \in 1 .. Len(Shell) : Shell[q] \in Shells
    BY <2>1, LenProperties, ElementOfSeq DEF Shells
  <2> QED
    BY <2>1, <2>2, ShellsAssumption
<1> DEFINE D == 1 .. n * Len(Shell)
           Q(i) == ((i - 1) \div n) + 1
           R(i) == ((i - 1) % n) + 1
           todo == RunJobs(n)
<1>2. \A i \in D : Q(i) \in 1 .. Len(Shell) /\ R(i) \in 1 .. n /\ i = n * (Q(i) - 1) + R(i)
  <2> SUFFICES ASSUME NEW i \in D
               PROVE  Q(i) \in 1 .. Len(Shell) /\ R(i) \in 1 .. n /\ i = n * (Q(i) - 1) + R(i)
    OBVIOUS
  <2>1. i - 1 \in 0 .. n * Len(Shell) - 1
    BY <1>1
  <2>2. /\ i - 1 = n * ((i - 1) \div n) + ((i - 1) % n)
        /\ (i - 1) % n \in 0 .. n - 1 /\ (i - 1) \div n \in 0 .. Len(Shell) - 1
    BY <1>1, <2>1, DivMod
  <2>3. Q(i) - 1 = (i - 1) \div n
    BY <2>2
  <2>4. Q(i) \in 1 .. Len(Shell) /\ R(i) \in 1 .. n
    BY <1>1, <2>2
  <2>5. i = n * ((i - 1) \div n) + R(i)
    BY <1>1, <2>2
  <2> QED
    BY <2>3, <2>4, <2>5
<1> HIDE DEF Q, R
<1>3. /\ todo \in Seq(Job) /\ DOMAIN todo = D
      /\ \A i \in D : /\ todo[i].kind = "run" /\ todo[i].shell = Shell[Q(i)]
                       /\ todo[i].cmd = given + R(i) /\ todo[i].pc = "new" /\ todo[i].put = 0
  <2>1. todo = [i \in D |-> [kind |-> "run", shell |-> Shell[Q(i)], cmd |-> given + R(i),
                             put |-> 0, pc |-> "new"]]
    BY DEF RunJobs, NewJob, Q, R
  <2>2. ASSUME NEW i \in D
        PROVE  [kind |-> "run", shell |-> Shell[Q(i)], cmd |-> given + R(i),
                put |-> 0, pc |-> "new"] \in Job
    <3>1. Shell[Q(i)] \in Shells /\ given + R(i) \in Nat /\ 0 \in 0 .. Pieces
      BY <1>1, <1>2
    <3> QED
      BY <3>1 DEF Job
  <2>3. todo \in [D -> Job]
    BY <2>1, <2>2
  <2> HIDE DEF todo
  <2>4. todo \in Seq(Job)
    BY <1>1, <2>3, FunctionSeq
  <2> QED
    BY <2>1, <2>4
<1> HIDE DEF todo
<1>4. \A i \in D : todo[i].cmd \in given + 1 .. given'
  BY <1>1, <1>2, <1>3
<1>5. ASSUME NEW a \in D, NEW b \in D, a < b
      PROVE  Comes(todo[a], todo[b])
  <2>1. CASE Shell[Q(a)] = Shell[Q(b)]
    <3>1. Q(a) = Q(b)
      BY <1>1, <1>2, <2>1, ShellsAssumption DEF IsInjective
    <3>2. n * (Q(a) - 1) = n * (Q(b) - 1) /\ n * (Q(a) - 1) \in Int
      BY <1>1, <1>2, <3>1
    <3>3. R(a) < R(b) /\ R(a) \in Int /\ R(b) \in Int
      BY <1>2, <1>5, <3>2
    <3> QED
      BY <1>3, <3>3 DEF Comes
  <2>2. CASE Shell[Q(a)] # Shell[Q(b)]
    BY <1>3, <2>2 DEF Comes
  <2> QED
    BY <2>1, <2>2
<1> QED
  <2>1. \A i \in D : todo[i].cmd <= given' /\ todo[i].cmd > given
    BY <1>4
  <2> QED
    BY <1>3, <1>5, <2>1 DEF InStore, todo

LEMMA CloseJobsAre ==
    ASSUME given \in Nat, given' = given
    PROVE  InStore("close", CloseJobs)
<1>1. Len(Shell) \in Nat /\ DOMAIN Shell = 1 .. Len(Shell) /\ Pieces \in Nat
      /\ \A q \in 1 .. Len(Shell) : Shell[q] \in Shells
  BY ShellsAssumption, LenProperties, ElementOfSeq DEF Shells
<1> DEFINE todo == CloseJobs
<1>2. todo = [i \in 1 .. Len(Shell) |-> [kind |-> "close", shell |-> Shell[i], cmd |-> 0,
                                        put |-> 0, pc |-> "new"]]
  BY <1>1 DEF CloseJobs, NewJob
<1> HIDE DEF todo
<1>3. todo \in [1 .. Len(Shell) -> Job]
  BY <1>1, <1>2 DEF Job
<1>4. todo \in Seq(Job)
  BY <1>1, <1>3, FunctionSeq
<1> QED
  BY <1>2, <1>4 DEF InStore, Comes, todo

\* A call begins with greenlets that come after all there are, which is trivial of those
\* that close.
LEMMA BeginsPreserves ==
    ASSUME ShellsIInv, NEW kind \in {"run", "close"}, NEW todo, NEW timed \in BOOLEAN,
           Begins(kind, todo, timed), InStore(kind, todo), given' \in Nat, given <= given'
    PROVE  ShellsIInv'
<1>1. /\ call.pc = "idle" /\ todo # <<>> /\ Len(jobs) + Len(todo) <= MaxJobs
      /\ call' = [pc |-> "spawning", todo |-> todo, jobs |-> {}, kind |-> kind,
                  timed |-> timed]
      /\ calls < MaxCalls /\ calls' = calls + 1
      /\ UNCHANGED <<wire, sent_eof, ended, jobs, short, left>>
  BY DEF Begins
<1>2. /\ jobs \in Seq(Job) /\ todo \in Seq(Job) /\ Len(jobs) \in Nat /\ Len(todo) \in Nat
      /\ given \in Nat /\ DOMAIN jobs = 1 .. Len(jobs)
      /\ DOMAIN todo = 1 .. Len(todo)
      /\ \A a \in DOMAIN jobs : jobs[a].cmd \in Nat
      /\ \A a \in DOMAIN todo : todo[a].cmd \in Nat
  <2>1. jobs \in Seq(Job) /\ todo \in Seq(Job) /\ given \in Nat
    BY DEF ShellsIInv, ShellTypes, ShellsTypeOK, InStore
  <2> QED
    BY <2>1, JobsAre
<1>3. ShellTypes'
  <2>1. calls' \in 0 .. MaxCalls
    BY <1>1, ShellsAssumption DEF ShellsIInv, ShellTypes, ShellsTypeOK
  <2>2. call' \in Call /\ (call'.todo = <<>>) = (call'.pc \in {"idle", "joining"})
    BY <1>1, <1>2 DEF Call
  <2>3. ShellsTypeOK'
    BY <1>1, <1>2, <2>1, <2>2 DEF ShellsIInv, ShellTypes, ShellsTypeOK
  <2> QED
    BY <1>1, <2>2, <2>3 DEF ShellTypes
<1>4. Ordered'
  <2>1. \A a \in DOMAIN jobs, b \in DOMAIN todo : Comes(jobs[a], todo[b])
    BY <1>2 DEF InStore, Comes, ShellsIInv, Ordered
  <2>2. \A a \in DOMAIN jobs : jobs[a].cmd <= given'
    BY <1>2 DEF ShellsIInv, Ordered
  <2> QED
    BY <1>1, <2>1, <2>2 DEF ShellsIInv, Ordered, InStore
<1>5. Progress'
  BY <1>1 DEF ShellsIInv, Progress, InStore
<1>6. Origin' /\ WrittenOnce' /\ InOrderUnlessShort'
  BY <1>1 DEF ShellsIInv, Origin, WrittenOnce, Places, InOrderUnlessShort
<1>7. Calls'
  BY <1>1 DEF ShellsIInv, Calls, Over, InStore
<1> QED
  BY <1>3, <1>4, <1>5, <1>6, <1>7 DEF ShellsIInv

\* The next greenlet is the first in store.
LEMMA SpawnPreserves ==
    ASSUME ShellsIInv, Spawn
    PROVE  ShellsIInv'
<1> SUFFICES ASSUME NEW m, m = Len(jobs), NEW h, h = Head(call.todo)
             PROVE  ShellsIInv'
  OBVIOUS
<1> DEFINE state == IF Len(call.todo) = 1 THEN "joining" ELSE "spawning"
<1>1. /\ call.pc \in {"spawning", "blocked"} /\ jobs' = Append(jobs, h)
      /\ UNCHANGED <<wire, sent_eof, ended, given, calls, short, left>>
      /\ call' = [call EXCEPT !.todo = Tail(@), !.jobs = @ \union {Len(jobs')}, !.pc = state]
  BY DEF Spawn
<1>2. /\ jobs \in Seq(Job) /\ call.todo \in Seq(Job) /\ call.todo # <<>> /\ call \in Call
      /\ given \in Nat /\ m + Len(call.todo) <= MaxJobs /\ call.jobs \subseteq DOMAIN jobs
  BY <1>1 DEF ShellsIInv, ShellTypes, ShellsTypeOK
<1>3. /\ m \in Nat /\ DOMAIN jobs = 1 .. m /\ Len(call.todo) \in Nat \ {0}
      /\ DOMAIN call.todo = 1 .. Len(call.todo) /\ h = call.todo[1]
  BY <1>2, LenProperties, EmptySeq
<1>4. /\ h \in Job /\ jobs' \in Seq(Job) /\ Len(jobs') = m + 1 /\ DOMAIN jobs' = 1 .. m + 1
      /\ \A a \in 1 .. m : jobs'[a] = jobs[a]
      /\ jobs'[m + 1] = h
  <2>1. h \in Job
    BY <1>2, <1>3, ElementOfSeq
  <2>2. /\ Append(jobs, h) \in Seq(Job) /\ Len(Append(jobs, h)) = m + 1
        /\ \A a \in 1 .. m : Append(jobs, h)[a] = jobs[a]
        /\ Append(jobs, h)[m + 1] = h
    BY <1>2, <2>1, AppendProperties
  <2>3. DOMAIN jobs' = 1 .. Len(jobs')
    BY <1>1, <2>2, LenProperties
  <2> QED
    BY <1>1, <2>1, <2>2, <2>3
<1>5. /\ call'.todo = Tail(call.todo) /\ call'.jobs = call.jobs \union {m + 1}
      /\ call'.pc = state /\ call'.kind = call.kind /\ call'.timed = call.timed
  BY <1>1, <1>2, <1>4 DEF Call
<1>6. /\ call'.todo \in Seq(Job) /\ Len(call'.todo) = Len(call.todo) - 1
      /\ DOMAIN call'.todo = 1 .. Len(call.todo) - 1
      /\ \A a \in 1 .. Len(call.todo) - 1 : call'.todo[a] = call.todo[a + 1]
  <2>1. /\ Tail(call.todo) \in Seq(Job) /\ Len(Tail(call.todo)) = Len(call.todo) - 1
        /\ \A a \in 1 .. Len(Tail(call.todo)) : Tail(call.todo)[a] = call.todo[a + 1]
    BY <1>2, HeadTailProperties
  <2>2. DOMAIN Tail(call.todo) = 1 .. Len(call.todo) - 1
    BY <2>1, LenProperties
  <2> QED
    BY <1>5, <2>1, <2>2
<1>7. ShellTypes'
  <2>1. call' \in Call
    <3>1. /\ call'.jobs \in SUBSET Nat /\ state \in {"idle", "spawning", "blocked", "joining"}
          /\ call.kind \in {"run", "close"} /\ call.timed \in BOOLEAN
      BY <1>2, <1>3, <1>5 DEF Call
    <3>2. call' = [pc |-> state, todo |-> call'.todo, jobs |-> call'.jobs,
                   kind |-> call.kind, timed |-> call.timed]
      BY <1>1, <1>2, <1>4, <1>5 DEF Call
    <3> QED
      BY <1>6, <3>1, <3>2 DEF Call
  <2>2. (call'.todo = <<>>) = (call'.pc \in {"idle", "joining"})
    <3>1. \A t \in Seq(Job) : t = <<>> <=> Len(t) = 0
      BY EmptySeq
    <3>2. Len(call'.todo) = 0 <=> Len(call.todo) = 1
      BY <1>3, <1>6
    <3>3. call'.todo = <<>> <=> Len(call.todo) = 1
      BY <1>6, <3>1, <3>2
    <3> QED
      BY <1>5, <3>3
  <2>3. call'.jobs \subseteq DOMAIN jobs'
    BY <1>2, <1>3, <1>4, <1>5
  <2>4. Len(jobs') + Len(call'.todo) <= MaxJobs /\ Len(jobs') <= MaxJobs
    <3> DEFINE l == Len(call.todo)
    <3>1. /\ m \in Nat /\ l \in Nat /\ l >= 1 /\ m + l <= MaxJobs /\ MaxJobs \in Nat
      BY <1>2, <1>3, ShellsAssumption
    <3> HIDE DEF l
    <3>2. m + 1 + (l - 1) <= MaxJobs /\ m + 1 <= MaxJobs
      BY <3>1
    <3> QED
      BY <1>4, <1>6, <3>2 DEF l
  <2>5. ShellsTypeOK'
    BY <1>1, <1>4, <1>5, <1>6, <2>1, <2>2, <2>3, <2>4
       DEF ShellsIInv, ShellTypes, ShellsTypeOK, Call
  <2> QED
    BY <2>1, <2>4, <2>5 DEF ShellTypes
<1>8. \A a \in DOMAIN call'.todo : a + 1 \in DOMAIN call.todo /\ a + 1 > 1
                                   /\ call'.todo[a] = call.todo[a + 1]
  BY <1>3, <1>6
<1>9. Ordered'
  <2> USE <1>3, <1>4, <1>6
  <2>0. \A a \in DOMAIN call'.todo : a + 1 \in DOMAIN call.todo /\ a + 1 > 1
                                     /\ call'.todo[a] = call.todo[a + 1]
    BY <1>8
  <2>1. ASSUME NEW a \in DOMAIN jobs', NEW b \in DOMAIN jobs', a < b
        PROVE  Comes(jobs'[a], jobs'[b])
    <3>1. a \in 1 .. m /\ (b \in 1 .. m \/ b = m + 1)
      BY <2>1
    <3>2. CASE b \in 1 .. m
      <4>1. Comes(jobs[a], jobs[b])
        BY <2>1, <3>1, <3>2 DEF ShellsIInv, Ordered
      <4> QED
        BY <3>1, <3>2, <4>1
    <3>3. CASE b = m + 1
      <4>1. Comes(jobs[a], call.todo[1])
        BY <3>1 DEF ShellsIInv, Ordered
      <4> QED
        BY <3>1, <3>3, <4>1
    <3> QED
      BY <3>1, <3>2, <3>3
  <2>2. ASSUME NEW a \in DOMAIN jobs', NEW b \in DOMAIN call'.todo
        PROVE  Comes(jobs'[a], call'.todo[b])
    <3>1. CASE a = m + 1
      <4>1. 1 \in DOMAIN call.todo /\ 1 < b + 1 /\ b + 1 \in DOMAIN call.todo
        OBVIOUS
      <4>2. Comes(call.todo[1], call.todo[b + 1])
        BY <4>1 DEF ShellsIInv, Ordered
      <4> QED
        BY <2>0, <3>1, <4>2
    <3>2. CASE a \in 1 .. m
      <4>1. Comes(jobs[a], call.todo[b + 1])
        BY <2>0, <3>2 DEF ShellsIInv, Ordered
      <4> QED
        BY <2>0, <3>2, <4>1
    <3> QED
      BY <3>1, <3>2
  <2>3. ASSUME NEW a \in DOMAIN call'.todo, NEW b \in DOMAIN call'.todo, a < b
        PROVE  Comes(call'.todo[a], call'.todo[b])
    <3>1. Comes(call.todo[a + 1], call.todo[b + 1])
      <4>1. a + 1 < b + 1
        BY <2>3
      <4> QED
        BY <2>0, <4>1 DEF ShellsIInv, Ordered
    <3> QED
      BY <2>0, <3>1
  <2>4. ASSUME NEW a \in DOMAIN jobs'
        PROVE  jobs'[a].cmd <= given'
    <3>1. given' = given /\ 1 \in DOMAIN call.todo
      BY <1>1
    <3>2. CASE a = m + 1
      <4>1. call.todo[1].cmd <= given
        BY <3>1 DEF ShellsIInv, Ordered
      <4> QED
        BY <3>1, <3>2, <4>1
    <3>3. CASE a \in 1 .. m
      <4>1. jobs[a].cmd <= given
        BY <3>3 DEF ShellsIInv, Ordered
      <4> QED
        BY <3>1, <3>3, <4>1
    <3> QED
      BY <3>2, <3>3
  <2>5. ASSUME NEW a \in DOMAIN call'.todo
        PROVE  call'.todo[a].cmd <= given'
    <3>1. given' = given
      BY <1>1
    <3>2. call.todo[a + 1].cmd <= given
      BY <2>0 DEF ShellsIInv, Ordered
    <3> QED
      BY <2>0, <3>1, <3>2
  <2> QED
    BY <2>1, <2>2, <2>3, <2>4, <2>5 DEF Ordered
<1>10. Progress'
  <2> USE <1>3, <1>4, <1>6
  <2>1. h.pc = "new" /\ h.put = 0
    BY DEF ShellsIInv, Progress
  <2>2. \A a, b \in DOMAIN jobs' : a < b /\ jobs'[b].pc # "new" => jobs'[a].pc # "new"
    <3>1. \A a, b \in DOMAIN jobs' : a < b /\ b # m + 1 => a \in 1 .. m /\ b \in 1 .. m
      OBVIOUS
    <3>2. \A a, b \in 1 .. m : a < b /\ jobs[b].pc # "new" => jobs[a].pc # "new"
      BY DEF ShellsIInv, Progress
    <3>3. jobs'[m + 1].pc = "new"
      BY <2>1
    <3>4. \A a \in 1 .. m : jobs'[a] = jobs[a]
      OBVIOUS
    <3> QED
      BY <3>1, <3>2, <3>3, <3>4
  <2>3. \A a \in DOMAIN jobs' :
          /\ jobs'[a].pc = "new" => jobs'[a].put = 0
          /\ jobs'[a].kind = "run" => jobs'[a].pc # "waiting"
          /\ jobs'[a].kind = "run" /\ jobs'[a].pc = "done" => jobs'[a].put = Pieces
          /\ ~short' /\ jobs'[a].pc = "writing" => jobs'[a].put = Pieces
    BY <1>1, <2>1 DEF ShellsIInv, Progress
  <2>4. ASSUME NEW a \in DOMAIN call'.todo
        PROVE  call'.todo[a].pc = "new" /\ call'.todo[a].put = 0
    <3>1. a + 1 \in DOMAIN call.todo /\ call'.todo[a] = call.todo[a + 1]
      BY <1>8
    <3>2. call.todo[a + 1].pc = "new" /\ call.todo[a + 1].put = 0
      BY <3>1 DEF ShellsIInv, Progress
    <3> QED
      BY <3>1, <3>2
  <2> QED
    BY <2>2, <2>3, <2>4 DEF Progress
<1>11. Origin'
  BY <1>1, <1>3, <1>4 DEF ShellsIInv, Origin
<1>12. Calls'
  <2>1. h.kind = call.kind
    BY <1>3 DEF ShellsIInv, Calls
  <2>2. \A j \in call'.jobs : jobs'[j].kind = call'.kind
    BY <1>2, <1>3, <1>4, <1>5, <2>1 DEF ShellsIInv, Calls
  <2>3. ASSUME NEW i \in DOMAIN call'.todo
        PROVE  call'.todo[i].kind = call'.kind
    <3>1. i + 1 \in DOMAIN call.todo /\ call'.todo[i] = call.todo[i + 1]
      BY <1>8
    <3>2. call.todo[i + 1].kind = call.kind
      BY <3>1 DEF ShellsIInv, Calls
    <3> QED
      BY <1>5, <3>1, <3>2
  <2>4. left' \/ \A j \in DOMAIN jobs' : Over(j)' \/ (j \in call'.jobs /\ call'.pc # "idle")
    BY <1>1, <1>3, <1>4, <1>5 DEF ShellsIInv, Calls, Over
  <2> QED
    BY <2>2, <2>3, <2>4 DEF Calls
<1>13. WrittenOnce' /\ InOrderUnlessShort'
  <2>1. m + 1 \in DOMAIN jobs' /\ h.cmd \in Nat /\ h.put = 0 /\ h.pc = "new"
    BY <1>3, <1>4 DEF ShellsIInv, Progress, Job
  <2>2. \A i \in DOMAIN wire[h.shell] : h.kind = "run" => wire[h.shell][i][1] # h.cmd
    <3> SUFFICES ASSUME NEW i \in DOMAIN wire[h.shell], h.kind = "run",
                        wire[h.shell][i][1] = h.cmd
                 PROVE  FALSE
      OBVIOUS
    <3>1. h.shell \in Shells
      BY <1>4 DEF Job
    <3>2. PICK j \in DOMAIN jobs : jobs[j].kind = "run" /\ jobs[j].shell = h.shell
                                   /\ jobs[j].cmd = h.cmd
      BY <3>1 DEF ShellsIInv, Origin
    <3>3. jobs[j].cmd < h.cmd
      BY <1>3, <3>2 DEF ShellsIInv, Ordered, Comes
    <3> QED
      BY <2>1, <3>2, <3>3
  <2>3. ASSUME NEW j \in 1 .. m, jobs[j].kind = "run"
        PROVE  /\ {wire'[jobs'[j].shell][i][2] : i \in Places(j)'} = 1 .. jobs'[j].put
               /\ \A a, b \in Places(j)' : a < b =>
                     wire'[jobs'[j].shell][a][2] < wire'[jobs'[j].shell][b][2]
    <3>1. Places(j)' = Places(j)
      BY <1>1, <1>4 DEF Places
    <3> QED
      BY <1>1, <1>3, <1>4, <2>3, <3>1 DEF ShellsIInv, WrittenOnce
  <2>4. h.kind = "run" => Places(m + 1)' = {}
    BY <1>1, <1>4, <2>2 DEF Places
  <2>5. WrittenOnce'
    <3> SUFFICES ASSUME NEW j \in DOMAIN jobs', jobs'[j].kind = "run"
                 PROVE  /\ {wire'[jobs'[j].shell][i][2] : i \in Places(j)'} = 1 .. jobs'[j].put
                        /\ \A a, b \in Places(j)' : a < b =>
                              wire'[jobs'[j].shell][a][2] < wire'[jobs'[j].shell][b][2]
      BY DEF WrittenOnce
    <3>1. CASE j \in 1 .. m
      BY <1>4, <2>3, <3>1
    <3>2. CASE j = m + 1
      <4>1. Places(j)' = {} /\ jobs'[j].put = 0
        BY <1>4, <2>1, <2>4, <3>2
      <4>2. 1 .. jobs'[j].put = {}
        BY <4>1
      <4> QED
        BY <4>1, <4>2
    <3> QED
      BY <1>3, <1>4, <3>1, <3>2
  <2> QED
    BY <1>1, <2>5 DEF ShellsIInv, InOrderUnlessShort
<1> QED
  BY <1>7, <1>9, <1>10, <1>11, <1>12, <1>13 DEF ShellsIInv

\* Steps of the user greenlet that spawn nothing.
LEMMA EndsPreserves ==
    ASSUME ShellsIInv, Block \/ Return \/ RaiseShellError \/ Expire
    PROVE  ShellsIInv'
<1>1. /\ UNCHANGED <<wire, sent_eof, ended, jobs, given, calls, short>> /\ left' \in BOOLEAN
      /\ left => left'
      /\ \/ call' = [call EXCEPT !.pc = "blocked"] /\ call.pc = "spawning" /\ left' = left
         \/ call' = [call EXCEPT !.pc = "idle", !.todo = <<>>] /\ (left' \/ AllOver)
  BY DEF Block, Return, RaiseShellError, Expire, Ends, ShellsIInv, ShellTypes,
     ShellsTypeOK
<1>2. call \in Call /\ jobs \in Seq(Job) /\ <<>> \in Seq(Job) /\ Len(<<>>) = 0
      /\ DOMAIN <<>> = {}
  <2>1. <<>> \in Seq(Job) /\ Len(<<>>) = 0
    BY EmptySeq
  <2>2. DOMAIN <<>> = 1 .. Len(<<>>)
    BY <2>1, LenProperties
  <2> QED
    BY <2>1, <2>2 DEF ShellsIInv, ShellTypes, ShellsTypeOK
<1>3. /\ call'.todo \in {call.todo, <<>>} /\ call'.jobs = call.jobs /\ call'.kind = call.kind
      /\ call' \in Call /\ (call'.todo = <<>>) = (call'.pc \in {"idle", "joining"})
      /\ call'.pc = "idle" => left' \/ AllOver
      /\ call'.pc # "idle" => call.pc # "idle" /\ left' = left
  <2>1. CASE call' = [call EXCEPT !.pc = "blocked"] /\ call.pc = "spawning" /\ left' = left
    <3>1. call.todo # <<>>
      BY <2>1 DEF ShellsIInv, ShellTypes, ShellsTypeOK
    <3> QED
      BY <1>2, <2>1, <3>1 DEF Call
  <2>2. CASE call' = [call EXCEPT !.pc = "idle", !.todo = <<>>] /\ (left' \/ AllOver)
    BY <1>2, <2>2 DEF Call
  <2> QED
    BY <1>1, <2>1, <2>2
<1>4. ShellTypes'
  <2>1. ShellsTypeOK'
    BY <1>1, <1>2, <1>3 DEF Call, ShellsIInv, ShellTypes, ShellsTypeOK
  <2>2. Len(jobs) \in Nat /\ Len(call.todo) \in Nat /\ Len(call'.todo) \in {Len(call.todo), 0}
    BY <1>2, <1>3, LenProperties DEF Call
  <2> QED
    BY <1>1, <1>3, <2>1, <2>2, ShellsAssumption DEF ShellsIInv, ShellTypes
<1>5. Ordered' /\ Progress'
  BY <1>1, <1>2, <1>3 DEF ShellsIInv, Ordered, Progress
<1>6. Origin' /\ WrittenOnce' /\ InOrderUnlessShort'
  BY <1>1 DEF ShellsIInv, Origin, WrittenOnce, Places, InOrderUnlessShort
<1>7. Calls'
  <2>1. left' \/ \A j \in DOMAIN jobs : Over(j) \/ (j \in call.jobs /\ call'.pc # "idle")
    BY <1>1, <1>3 DEF ShellsIInv, Calls, AllOver
  <2> QED
    BY <1>1, <1>2, <1>3, <2>1 DEF ShellsIInv, Calls, Over
<1> QED
  BY <1>4, <1>5, <1>6, <1>7 DEF ShellsIInv

---------------------------------------------------------------------------
(* Shells: greenlets of the pool.                                          *)

\* A step of a greenlet leaves its kind, shell and command as they are.
LEMMA JobChanges ==
    ASSUME ShellsIInv, NEW j \in DOMAIN jobs, NEW put \in 0 .. Pieces,
           NEW state \in {"writing", "waiting", "done", "error"},
           jobs' = [jobs EXCEPT ![j] = [jobs[j] EXCEPT !.put = put, !.pc = state]]
    PROVE  /\ jobs' \in Seq(Job) /\ Len(jobs') = Len(jobs) /\ Len(jobs) \in Nat
           /\ DOMAIN jobs' = DOMAIN jobs /\ DOMAIN jobs = 1 .. Len(jobs)
           /\ \A a \in DOMAIN jobs : /\ jobs'[a].kind = jobs[a].kind
                                     /\ jobs'[a].shell = jobs[a].shell
                                     /\ jobs'[a].cmd = jobs[a].cmd
           /\ \A a \in DOMAIN jobs : a # j => jobs'[a] = jobs[a]
           /\ jobs'[j].put = put /\ jobs'[j].pc = state
<1>1. jobs \in Seq(Job)
  BY DEF ShellsIInv, ShellTypes, ShellsTypeOK
<1>2. jobs[j] \in Job /\ Len(jobs) \in Nat /\ DOMAIN jobs = 1 .. Len(jobs)
  BY <1>1, JobsAre
<1> DEFINE r == [jobs[j] EXCEPT !.put = put, !.pc = state]
<1>3. /\ r \in Job /\ r.kind = jobs[j].kind /\ r.shell = jobs[j].shell
      /\ r.cmd = jobs[j].cmd /\ r.put = put /\ r.pc = state
  BY <1>2 DEF Job
<1> HIDE DEF r
<1>4. jobs' = [jobs EXCEPT ![j] = r]
  BY DEF r
<1>5. /\ [jobs EXCEPT ![j] = r] \in Seq(Job)
      /\ Len([jobs EXCEPT ![j] = r]) = Len(jobs)
      /\ \A a \in 1 .. Len(jobs) :
            [jobs EXCEPT ![j] = r][a] = IF a = j THEN r ELSE jobs[a]
  BY <1>1, <1>2, <1>3, ExceptSeq
<1>6. /\ jobs' \in Seq(Job) /\ Len(jobs') = Len(jobs)
      /\ \A a \in 1 .. Len(jobs) : jobs'[a] = IF a = j THEN r ELSE jobs[a]
  BY <1>4, <1>5
<1>7. DOMAIN jobs' = DOMAIN jobs
  BY <1>2, <1>6, JobsAre
<1> QED
  BY <1>2, <1>3, <1>6, <1>7

\* What all steps of greenlets have in common.
LEMMA JobStepKeeps ==
    ASSUME ShellsIInv, NEW j \in DOMAIN jobs, NEW put \in 0 .. Pieces,
           NEW state \in {"writing", "waiting", "done", "error"},
           jobs' = [jobs EXCEPT ![j] = [jobs[j] EXCEPT !.put = put, !.pc = state]],
           UNCHANGED <<call, given, calls, left>>, Turn(j), ~Over(j),
           short' \in BOOLEAN, short => short',
           wire' \in [Shells -> Seq(Nat \X (1 .. Pieces))],
           sent_eof' \subseteq Shells, ended' \subseteq Shells,
           jobs[j].kind = "run" => state # "waiting" /\ (state = "done" => put = Pieces),
           ~short' /\ state = "writing" => put = Pieces
    PROVE  ShellTypes' /\ Ordered' /\ Progress' /\ Calls'
<1>1. /\ jobs' \in Seq(Job) /\ Len(jobs') = Len(jobs) /\ Len(jobs) \in Nat
      /\ DOMAIN jobs' = DOMAIN jobs /\ DOMAIN jobs = 1 .. Len(jobs)
      /\ \A a \in DOMAIN jobs : /\ jobs'[a].kind = jobs[a].kind
                                /\ jobs'[a].shell = jobs[a].shell
                                /\ jobs'[a].cmd = jobs[a].cmd
      /\ \A a \in DOMAIN jobs : a # j => jobs'[a] = jobs[a]
      /\ jobs'[j].put = put /\ jobs'[j].pc = state
  BY JobChanges
<1>2. ShellTypes'
  <2>1. ShellsTypeOK'
    BY <1>1 DEF ShellsIInv, ShellTypes, ShellsTypeOK
  <2> QED
    BY <1>1, <2>1 DEF ShellsIInv, ShellTypes
<1>3. Ordered'
  BY <1>1 DEF ShellsIInv, Ordered, Comes
<1>4. Progress'
  <2>1. \A a, b \in DOMAIN jobs' : a < b /\ jobs'[b].pc # "new" => jobs'[a].pc # "new"
    <3> SUFFICES ASSUME NEW a \in DOMAIN jobs, NEW b \in DOMAIN jobs, a < b,
                        jobs'[b].pc # "new", a # j
                 PROVE  jobs[a].pc # "new"
      BY <1>1
    <3>1. CASE b = j
      <4>1. a \in 1 .. j - 1
        BY <1>1, <3>1
      <4> QED
        BY <3>1, <4>1 DEF Turn, ShellsIInv, Progress
    <3>2. CASE b # j
      BY <1>1, <3>2 DEF ShellsIInv, Progress
    <3> QED
      BY <3>1, <3>2
  <2>2. ASSUME NEW a \in DOMAIN jobs
        PROVE  /\ jobs'[a].pc = "new" => jobs'[a].put = 0
               /\ jobs'[a].kind = "run" => jobs'[a].pc # "waiting"
               /\ jobs'[a].kind = "run" /\ jobs'[a].pc = "done" => jobs'[a].put = Pieces
               /\ ~short' /\ jobs'[a].pc = "writing" => jobs'[a].put = Pieces
    <3>1. CASE a = j
      BY <1>1, <3>1
    <3>2. CASE a # j
      BY <1>1, <3>2 DEF ShellsIInv, Progress
    <3> QED
      BY <3>1, <3>2
  <2> QED
    BY <1>1, <2>1, <2>2 DEF ShellsIInv, Progress
<1>5. Calls'
  <2>1. call.jobs \subseteq DOMAIN jobs
    BY DEF ShellsIInv, ShellTypes, ShellsTypeOK
  <2> QED
    BY <1>1, <2>1 DEF ShellsIInv, Calls, Over
<1> QED
  BY <1>2, <1>3, <1>4, <1>5

\* Steps that write nothing.
LEMMA SilentPreserves ==
    ASSUME ShellsIInv, NEW j \in DOMAIN jobs, Turn(j),
           \/ RunEnds(j) \/ WriteFails(j) \/ SendEof(j) \/ CloseEnds(j) \/ CloseFails(j)
    PROVE  ShellsIInv'
<1>1. PICK state \in {"waiting", "done", "error"} :
         /\ jobs' = [jobs EXCEPT ![j].pc = state] /\ ~Over(j)
         /\ UNCHANGED <<wire, ended, call, given, calls, short, left>>
         /\ sent_eof' \in {sent_eof, sent_eof \union {jobs[j].shell}}
         /\ jobs[j].kind = "run" => state # "waiting" /\ (state = "done" => jobs[j].put = Pieces)
  <2>1. jobs[j].kind \in {"run", "close"}
    <3>1. jobs \in Seq(Job)
      BY DEF ShellsIInv, ShellTypes, ShellsTypeOK
    <3> QED
      BY <3>1, JobsAre
  <2>2. CASE RunEnds(j)
    BY <2>2 DEF RunEnds, Over
  <2>3. CASE WriteFails(j)
    BY <2>3 DEF WriteFails, Over
  <2>4. CASE SendEof(j)
    BY <2>4 DEF SendEof, Over
  <2>5. CASE CloseEnds(j)
    BY <2>5 DEF CloseEnds, Over, ShellsIInv, Progress
  <2>6. CASE CloseFails(j)
    BY <2>6 DEF CloseFails, Over
  <2> QED
    BY <2>2, <2>3, <2>4, <2>5, <2>6
<1>2. /\ jobs \in Seq(Job) /\ jobs[j] \in Job /\ jobs[j].put \in 0 .. Pieces
      /\ jobs[j].shell \in Shells /\ sent_eof \subseteq Shells /\ ended \subseteq Shells
      /\ short \in BOOLEAN /\ wire \in [Shells -> Seq(Nat \X (1 .. Pieces))]
  <2>1. jobs \in Seq(Job)
    BY DEF ShellsIInv, ShellTypes, ShellsTypeOK
  <2> QED
    BY <2>1, JobsAre DEF ShellsIInv, ShellTypes, ShellsTypeOK
<1>3. jobs' = [jobs EXCEPT ![j] = [jobs[j] EXCEPT !.put = jobs[j].put, !.pc = state]]
  <2>1. [jobs[j] EXCEPT !.put = jobs[j].put, !.pc = state] = [jobs[j] EXCEPT !.pc = state]
    BY <1>2 DEF Job
  <2> QED
    BY <1>1, <2>1
<1>4. /\ DOMAIN jobs' = DOMAIN jobs
      /\ \A a \in DOMAIN jobs : /\ jobs'[a].kind = jobs[a].kind
                                /\ jobs'[a].shell = jobs[a].shell
                                /\ jobs'[a].cmd = jobs[a].cmd
                                /\ jobs'[a].put = jobs[a].put
  BY <1>2, <1>3, JobChanges
<1>5. ShellTypes' /\ Ordered' /\ Progress' /\ Calls'
  <2>1. wire' \in [Shells -> Seq(Nat \X (1 .. Pieces))] /\ short' = short
        /\ sent_eof' \subseteq Shells /\ ended' \subseteq Shells
        /\ short' \in BOOLEAN /\ (short => short')
    BY <1>1, <1>2
  <2>2. /\ UNCHANGED <<call, given, calls, left>> /\ ~Over(j)
        /\ jobs[j].put \in 0 .. Pieces /\ state \in {"writing", "waiting", "done", "error"}
        /\ jobs[j].kind = "run" => state # "waiting" /\ (state = "done" => jobs[j].put = Pieces)
        /\ ~short' /\ state = "writing" => jobs[j].put = Pieces
    BY <1>1, <1>2
  <2> QED
    BY <1>3, <2>1, <2>2, JobStepKeeps
<1>6. Origin'
  BY <1>1, <1>4 DEF ShellsIInv, Origin
<1>7. WrittenOnce'
  <2>1. \A k \in DOMAIN jobs : Places(k)' = Places(k)
    BY <1>1, <1>4 DEF Places
  <2> QED
    BY <1>1, <1>4, <2>1 DEF ShellsIInv, WrittenOnce
<1>8. InOrderUnlessShort'
  BY <1>1 DEF ShellsIInv, InOrderUnlessShort
<1> QED
  BY <1>5, <1>6, <1>7, <1>8 DEF ShellsIInv

\* What a write of n pieces adds to what shell s was given, L pieces so far: a greenlet
\* that has put p pieces of command c goes on with the next.
Adds(n, s, L, p, c) ==
    /\ wire' \in [Shells -> Seq(Nat \X (1 .. Pieces))] /\ s \in Shells
    /\ L \in Nat /\ n \in Nat /\ p \in Nat /\ c \in Nat /\ p + n \in 0 .. Pieces
    /\ \A t \in Shells : t # s => wire'[t] = wire[t]
    /\ DOMAIN wire[s] = 1 .. L /\ DOMAIN wire'[s] = 1 .. L + n
    /\ Len(wire'[s]) = L + n
    /\ \A i \in 1 .. L : wire'[s][i] = wire[s][i]
    /\ \A q \in 1 .. n : wire'[s][L + q] = <<c, p + q>>

\* The write itself, kept folded: what is on the wire is looked at by places.
Puts(j, n) == wire' = [wire EXCEPT ![jobs[j].shell] = @ \o Written(j, n)]

LEMMA WriteAdds ==
    ASSUME ShellsIInv, NEW j \in DOMAIN jobs, NEW n \in 0 .. Pieces - jobs[j].put,
           Puts(j, n)
    PROVE  Adds(n, jobs[j].shell, Len(wire[jobs[j].shell]), jobs[j].put, jobs[j].cmd)
<1> SUFFICES ASSUME NEW s, s = jobs[j].shell, NEW L, L = Len(wire[s]),
                    NEW p, p = jobs[j].put, NEW c, c = jobs[j].cmd
             PROVE  Adds(n, s, L, p, c)
  OBVIOUS
<1> DEFINE T == Nat \X (1 .. Pieces)
           W == [i \in 1 .. n |-> <<c, p + i>>]
<1>1. jobs \in Seq(Job) /\ wire \in [Shells -> Seq(T)] /\ Pieces \in Nat
  BY ShellsAssumption DEF ShellsIInv, ShellTypes, ShellsTypeOK
<1>2. /\ p \in Nat /\ c \in Nat /\ s \in Shells /\ n \in Nat /\ p + n \in 0 .. Pieces
      /\ \A i \in 1 .. n : p + i \in 1 .. Pieces
  <2>1. p \in 0 .. Pieces /\ c \in Nat /\ s \in Shells
    BY <1>1, JobsAre
  <2>2. n \in 0 .. Pieces - p
    OBVIOUS
  <2>3. Pieces \in Nat
    BY ShellsAssumption
  <2> QED
    BY <2>1, <2>2, <2>3
<1>3. wire[s] \in Seq(T) /\ L \in Nat /\ DOMAIN wire[s] = 1 .. L
  <2>1. wire[s] \in Seq(T)
    BY <1>1, <1>2
  <2> HIDE DEF T
  <2> QED
    BY <2>1, LenProperties
<1>4. W \in Seq(T) /\ Len(W) = n /\ \A i \in 1 .. n : W[i] = <<c, p + i>>
  <2>1. W \in [1 .. n -> T]
    BY <1>2
  <2> HIDE DEF T
  <2>2. \A i \in 1 .. n : W[i] = <<c, p + i>>
    OBVIOUS
  <2> HIDE DEF W
  <2> QED
    BY <1>2, <2>1, <2>2, FunctionSeq
<1>5. wire' = [wire EXCEPT ![s] = wire[s] \o W]
  BY DEF Puts, Written
<1> HIDE DEF T, W
<1> SUFFICES ASSUME NEW old, old = wire[s], NEW add, add = W, NEW all, all = old \o add
             PROVE  /\ wire' \in [Shells -> Seq(T)] /\ Len(wire'[s]) = L + n
                    /\ \A t \in Shells : t # s => wire'[t] = wire[t]
                    /\ DOMAIN wire'[s] = 1 .. L + n
                    /\ \A i \in 1 .. L : wire'[s][i] = wire[s][i]
                    /\ \A q \in 1 .. n : wire'[s][L + q] = <<c, p + q>>
  BY <1>2, <1>3 DEF T, Adds
<1>6. all \in Seq(T) /\ Len(all) = Len(old) + Len(add)
      /\ \A i \in 1 .. Len(old) + Len(add) :
            all[i] = IF i <= Len(old) THEN old[i] ELSE add[i - Len(old)]
  <2>1. old \in Seq(T) /\ add \in Seq(T)
    BY <1>3, <1>4
  <2>2. old \o add \in Seq(T) /\ Len(old \o add) = Len(old) + Len(add)
        /\ \A i \in 1 .. Len(old) + Len(add) :
              (old \o add)[i] = IF i <= Len(old) THEN old[i] ELSE add[i - Len(old)]
    BY <2>1, ConcatProperties
  <2> QED
    BY <2>2
<1>7. /\ all \in Seq(T) /\ Len(all) = L + n /\ DOMAIN all = 1 .. L + n
      /\ \A i \in 1 .. L + n : all[i] = IF i <= L THEN old[i] ELSE add[i - L]
  BY <1>4, <1>6, LenProperties
<1>8. wire' \in [Shells -> Seq(T)] /\ wire'[s] = all
      /\ \A t \in Shells : t # s => wire'[t] = wire[t]
  <2>1. wire' = [wire EXCEPT ![s] = all]
    BY <1>5
  <2>2. wire \in [Shells -> Seq(T)] /\ s \in Shells /\ all \in Seq(T)
    BY <1>1, <1>2, <1>7
  <2> QED
    BY <2>1, <2>2
<1>9. \A i \in 1 .. L : all[i] = old[i]
  BY <1>2, <1>3, <1>7
<1>10. ASSUME NEW q \in 1 .. n
       PROVE  all[L + q] = <<c, p + q>>
  <2>1. L + q \in 1 .. L + n /\ ~(L + q <= L) /\ (L + q) - L = q
    BY <1>2, <1>3
  <2>2. all[L + q] = add[q]
    BY <1>7, <2>1
  <2> QED
    BY <1>4, <2>2
<1> QED
  BY <1>7, <1>8, <1>9, <1>10

\* A write goes on where its greenlet's last one ended, after all that was written so far.
LEMMA EagainWritePreserves ==
    ASSUME ShellsIInv, NEW j \in DOMAIN jobs, Turn(j), EagainWrite(j)
    PROVE  ShellsIInv'
<1>1. PICK n \in 0 .. Pieces - jobs[j].put :
         /\ wire' = [wire EXCEPT ![jobs[j].shell] = @ \o Written(j, n)]
         /\ jobs' = [jobs EXCEPT ![j].put = @ + n, ![j].pc = "writing"]
         /\ short' = (short \/ n < Pieces - jobs[j].put)
  BY DEF EagainWrite
<1>2. /\ jobs[j].kind = "run" /\ jobs[j].pc \in {"new", "writing"}
      /\ jobs[j].put < Pieces
      /\ UNCHANGED <<sent_eof, ended, call, given, calls, left>>
  BY DEF EagainWrite
<1> SUFFICES ASSUME NEW s, s = jobs[j].shell, NEW L, L = Len(wire[s]),
                    NEW p, p = jobs[j].put, NEW c, c = jobs[j].cmd
             PROVE  ShellsIInv'
  OBVIOUS
<1>3. /\ wire' \in [Shells -> Seq(Nat \X (1 .. Pieces))] /\ s \in Shells
      /\ L \in Nat /\ n \in Nat /\ p \in Nat /\ c \in Nat /\ p + n \in 0 .. Pieces
      /\ \A t \in Shells : t # s => wire'[t] = wire[t]
      /\ DOMAIN wire[s] = 1 .. L /\ DOMAIN wire'[s] = 1 .. L + n
      /\ Len(wire'[s]) = L + n
      /\ \A i \in 1 .. L : wire'[s][i] = wire[s][i]
      /\ \A q \in 1 .. n : wire'[s][L + q] = <<c, p + q>>
  <2>1. Adds(n, s, L, p, c)
    BY <1>1, WriteAdds DEF Puts
  <2> QED
    BY <2>1 DEF Adds
<1>4. L \in Nat /\ n \in Nat /\ p \in Nat /\ c \in Nat /\ p + n \in 0 .. Pieces
  BY <1>3
<1>5. /\ jobs \in Seq(Job) /\ jobs[j] \in Job /\ Pieces \in Nat /\ short \in BOOLEAN
      /\ sent_eof \subseteq Shells /\ ended \subseteq Shells
  <2>1. jobs \in Seq(Job) /\ short \in BOOLEAN /\ sent_eof \subseteq Shells
        /\ ended \subseteq Shells
    BY DEF ShellsIInv, ShellTypes, ShellsTypeOK
  <2> QED
    BY <2>1, JobsAre, ShellsAssumption
<1>6. jobs' = [jobs EXCEPT ![j] = [jobs[j] EXCEPT !.put = p + n, !.pc = "writing"]]
  BY <1>1, <1>5 DEF Job
<1>7. /\ DOMAIN jobs' = DOMAIN jobs /\ DOMAIN jobs = 1 .. Len(jobs) /\ Len(jobs) \in Nat
      /\ \A a \in DOMAIN jobs : /\ jobs'[a].kind = jobs[a].kind
                                /\ jobs'[a].shell = jobs[a].shell
                                /\ jobs'[a].cmd = jobs[a].cmd
      /\ \A a \in DOMAIN jobs : a # j => jobs'[a] = jobs[a]
      /\ jobs'[j].put = p + n
  BY <1>4, <1>6, JobChanges
<1>8. \A i \in 1 .. L + n : i \in 1 .. L \/ \E q \in 1 .. n : i = L + q
  <2> SUFFICES ASSUME NEW i \in 1 .. L + n, i \notin 1 .. L
               PROVE  \E q \in 1 .. n : i = L + q
    OBVIOUS
  <2>1. i - L \in 1 .. n /\ i = L + (i - L)
    BY <1>4
  <2> QED
    BY <2>1
<1>9. (\A i \in 1 .. L : i \in 1 .. L + n) /\ (\A q \in 1 .. n : L + q \in 1 .. L + n)
  BY <1>4
<1>10. ASSUME NEW q \in 1 .. n
       PROVE  wire'[s][L + q][1] = c /\ wire'[s][L + q][2] = p + q
  <2>1. wire'[s][L + q] = <<c, p + q>>
    BY <1>3
  <2> QED
    BY <2>1
<1>11. ShellTypes' /\ Ordered' /\ Progress' /\ Calls'
  <2>1. short' \in BOOLEAN /\ (short => short') /\ ~Over(j)
    BY <1>1, <1>2, <1>5 DEF Over
  <2>2. ~short' => p + n = Pieces
    <3>1. ~short' => ~(n < Pieces - p)
      BY <1>1
    <3>2. n \in 0 .. Pieces - p
      OBVIOUS
    <3> QED
      BY <1>4, <1>5, <3>1, <3>2
  <2>3. /\ UNCHANGED <<call, given, calls, left>>
        /\ sent_eof' \subseteq Shells /\ ended' \subseteq Shells
    BY <1>2, <1>5
  <2>4. wire' \in [Shells -> Seq(Nat \X (1 .. Pieces))]
    BY <1>3
  <2> QED
    BY <1>4, <1>6, <2>1, <2>2, <2>3, <2>4, JobStepKeeps
<1>12. Origin'
  <2> SUFFICES ASSUME NEW t \in Shells, NEW i \in DOMAIN wire'[t]
               PROVE  \E k \in DOMAIN jobs :
                        jobs[k].kind = "run" /\ jobs[k].shell = t /\ jobs[k].cmd = wire'[t][i][1]
    BY <1>7 DEF Origin
  <2>1. CASE t # s
    <3>1. wire'[t] = wire[t] /\ i \in DOMAIN wire[t]
      BY <1>3, <2>1
    <3> QED
      BY <3>1 DEF ShellsIInv, Origin
  <2>2. CASE t = s /\ i \in 1 .. L
    <3>1. i \in DOMAIN wire[s] /\ wire'[s][i] = wire[s][i] /\ s \in Shells
      BY <1>3, <2>2
    <3> QED
      BY <2>2, <3>1 DEF ShellsIInv, Origin
  <2>3. CASE t = s /\ \E q \in 1 .. n : i = L + q
    BY <1>2, <1>10, <2>3
  <2>4. t = s => i \in 1 .. L + n
    BY <1>3
  <2> QED
    BY <1>8, <2>1, <2>2, <2>3, <2>4
<1>13. WrittenOnce'
  <2> SUFFICES ASSUME NEW k \in DOMAIN jobs, jobs[k].kind = "run"
               PROVE  /\ {wire'[jobs[k].shell][i][2] : i \in Places(k)'} = 1 .. jobs'[k].put
                      /\ \A a, b \in Places(k)' : a < b =>
                            wire'[jobs[k].shell][a][2] < wire'[jobs[k].shell][b][2]
    BY <1>7 DEF WrittenOnce
  <2>1. /\ {wire[jobs[k].shell][i][2] : i \in Places(k)} = 1 .. jobs[k].put
        /\ \A a, b \in Places(k) : a < b =>
              wire[jobs[k].shell][a][2] < wire[jobs[k].shell][b][2]
    BY DEF ShellsIInv, WrittenOnce
  <2>2. jobs[k].shell \in Shells
    BY <1>5, JobsAre
  <2>3. CASE jobs[k].shell # s
    <3>1. wire'[jobs[k].shell] = wire[jobs[k].shell]
      BY <1>3, <2>2, <2>3
    <3>2. Places(k)' = Places(k) /\ jobs'[k].put = jobs[k].put
      BY <1>7, <2>3, <3>1 DEF Places
    <3> QED
      BY <2>1, <3>1, <3>2
  <2>4. CASE jobs[k].shell = s /\ k # j
    <3>1. jobs[k].cmd # c
      <4>1. jobs[k].cmd \in Nat
        BY <1>5, JobsAre
      <4>2. k < j \/ j < k
        BY <1>7, <2>4
      <4> QED
        BY <1>2, <1>4, <2>4, <4>1, <4>2 DEF ShellsIInv, Ordered, Comes
    <3>2. Places(k)' = {i \in 1 .. L + n : wire'[s][i][1] = jobs[k].cmd}
          /\ Places(k) = {i \in 1 .. L : wire[s][i][1] = jobs[k].cmd}
      BY <1>3, <1>7, <2>4 DEF Places
    <3>3. \A i \in 1 .. L : wire'[s][i] = wire[s][i]
      BY <1>3
    <3>4. ASSUME NEW i \in 1 .. L + n, wire'[s][i][1] = jobs[k].cmd
          PROVE  i \in 1 .. L
      <4>1. ASSUME NEW q \in 1 .. n, i = L + q
            PROVE  FALSE
        <5>1. wire'[s][i][1] = c
          BY <1>10, <4>1
        <5> QED
          BY <3>1, <3>4, <5>1
      <4> QED
        BY <1>8, <4>1
    <3>5. Places(k)' = Places(k) /\ \A i \in Places(k) : wire'[s][i] = wire[s][i]
      BY <1>9, <3>2, <3>3, <3>4
    <3>6. {wire'[s][i][2] : i \in Places(k)} = {wire[s][i][2] : i \in Places(k)}
      BY <3>5
    <3>7. jobs'[k].put = jobs[k].put
      BY <1>7, <2>4
    <3>8. \A a, b \in Places(k)' : a < b => wire'[s][a][2] < wire'[s][b][2]
      BY <2>1, <2>4, <3>5
    <3> QED
      BY <2>1, <2>4, <3>5, <3>6, <3>7, <3>8
  <2>5. CASE k = j
    <3>1. Places(j)' = {i \in 1 .. L + n : wire'[s][i][1] = c}
          /\ Places(j) = {i \in 1 .. L : wire[s][i][1] = c}
      BY <1>3, <1>7 DEF Places
    <3> DEFINE N == {L + q : q \in 1 .. n}
               piece(i) == wire'[s][i][2]
    <3>2. \A i \in Places(j) : i \in 1 .. L /\ wire'[s][i] = wire[s][i]
      BY <1>3, <3>1
    <3>3. Places(j)' = Places(j) \union N
      <4>1. \A i \in 1 .. L : wire'[s][i] = wire[s][i] /\ i \in 1 .. L + n
        BY <1>3, <1>9
      <4>2. \A i \in N : i \in 1 .. L + n /\ wire'[s][i][1] = c
        BY <1>9, <1>10
      <4>3. \A i \in 1 .. L + n : i \in 1 .. L \/ i \in N
        BY <1>8
      <4> HIDE DEF N
      <4> QED
        BY <3>1, <4>1, <4>2, <4>3
    <3>4. ASSUME NEW q \in 1 .. n
          PROVE  piece(L + q) = p + q /\ p + q \in p + 1 .. p + n
      <4>1. piece(L + q) = p + q
        BY <1>10
      <4>2. p + q \in p + 1 .. p + n
        BY <1>4
      <4> QED
        BY <4>1, <4>2
    <3>5. \A x \in p + 1 .. p + n : x - p \in 1 .. n /\ p + (x - p) = x
      BY <1>4
    <3>6. {piece(i) : i \in Places(j)} = 1 .. p
      BY <2>1, <2>5, <3>2
    <3>7. \A a, b \in Places(j) : a < b => piece(a) < piece(b)
      BY <2>1, <2>5, <3>2
    <3> HIDE DEF piece
    <3>8. {piece(i) : i \in N} = p + 1 .. p + n
      <4>1. \A i \in N : piece(i) \in p + 1 .. p + n
        BY <3>4
      <4>2. ASSUME NEW x \in p + 1 .. p + n
            PROVE  \E i \in N : piece(i) = x
        <5>1. PICK q \in 1 .. n : p + q = x
          BY <3>5
        <5>2. L + q \in N /\ piece(L + q) = x
          BY <3>4, <5>1
        <5> QED
          BY <5>2
      <4> QED
        BY <4>1, <4>2
    <3>9. {piece(i) : i \in Places(j)'} = (1 .. p) \union (p + 1 .. p + n)
      BY <3>3, <3>6, <3>8
    <3>10. (1 .. p) \union (p + 1 .. p + n) = 1 .. p + n
      BY <1>4
    <3>11. ASSUME NEW a \in Places(j)', NEW b \in Places(j)', a < b
          PROVE  piece(a) < piece(b)
      <4>1. CASE a \in Places(j) /\ b \in Places(j)
        BY <3>7, <3>11, <4>1
      <4>2. CASE a \in Places(j) /\ b \in N
        <5>1. piece(a) \in 1 .. p /\ piece(b) \in p + 1 .. p + n
          BY <3>6, <3>8, <4>2
        <5> QED
          BY <1>4, <5>1
      <4>3. CASE a \in N
        <5>1. b \in N
          BY <1>4, <3>2, <3>3, <3>11, <4>3
        <5>2. PICK q \in 1 .. n, r \in 1 .. n : a = L + q /\ b = L + r
          BY <4>3, <5>1
        <5>3. piece(a) = p + q /\ piece(b) = p + r
          BY <3>4, <5>2
        <5> HIDE DEF piece
        <5>4. q < r
          BY <1>4, <3>11, <5>2
        <5>5. p + q < p + r
          BY <1>4, <5>4
        <5> QED
          BY <5>3, <5>5
      <4> QED
        BY <3>3, <4>1, <4>2, <4>3
    <3> QED
      BY <1>7, <2>5, <3>9, <3>10, <3>11 DEF piece
  <2> QED
    BY <2>3, <2>4, <2>5
<1>14. InOrderUnlessShort'
  <2> SUFFICES ASSUME ~short', NEW t \in Shells, NEW i \in 1 .. Len(wire'[t]) - 1
               PROVE  \/ wire'[t][i][1] < wire'[t][i + 1][1]
                      \/ /\ wire'[t][i][1] = wire'[t][i + 1][1]
                         /\ wire'[t][i][2] < wire'[t][i + 1][2]
    BY DEF InOrderUnlessShort
  <2>1. ~short
    BY <1>1
  <2>2. jobs[j].pc = "new" /\ p = 0
    BY <1>2, <1>4, <1>5, <2>1 DEF ShellsIInv, Progress
  <2>3. \A r \in Shells : \A a \in 1 .. Len(wire[r]) - 1 :
           \/ wire[r][a][1] < wire[r][a + 1][1]
           \/ wire[r][a][1] = wire[r][a + 1][1] /\ wire[r][a][2] < wire[r][a + 1][2]
    BY <2>1 DEF ShellsIInv, InOrderUnlessShort
  <2>4. CASE t # s
    <3>1. wire'[t] = wire[t]
      BY <1>3, <2>4
    <3> QED
      BY <2>3, <3>1
  <2>5. CASE t = s /\ i < L
    <3>1. i \in 1 .. L /\ i + 1 \in 1 .. L /\ i \in 1 .. L - 1
      BY <1>4, <2>5
    <3>2. wire'[s][i] = wire[s][i] /\ wire'[s][i + 1] = wire[s][i + 1] /\ s \in Shells
      BY <1>3, <3>1
    <3> QED
      BY <2>3, <2>5, <3>1, <3>2
  <2>6. t = s => i \in 1 .. (L + n) - 1
    BY <1>3
  <2>7. CASE t = s /\ i = L
    <3>1. L \in 1 .. L /\ 1 \in 1 .. n
      BY <1>4, <2>6, <2>7
    <3>2. wire'[s][L] = wire[s][L] /\ wire'[s][L + 1][1] = c /\ L \in DOMAIN wire[s]
          /\ s \in Shells
      BY <1>3, <1>10, <3>1
    <3>3. PICK k \in DOMAIN jobs :
             jobs[k].kind = "run" /\ jobs[k].shell = s /\ jobs[k].cmd = wire[s][L][1]
      BY <3>2 DEF ShellsIInv, Origin
    <3>4. L \in Places(k)
      BY <3>2, <3>3 DEF Places
    <3>5. {wire[s][q][2] : q \in Places(k)} = 1 .. jobs[k].put
      BY <3>3 DEF ShellsIInv, WrittenOnce
    <3>6. wire[s][L][2] \in 1 .. jobs[k].put
      BY <3>4, <3>5
    <3>7. jobs[k].put # 0
      BY <3>6
    <3>8. k # j /\ jobs[k].pc # "new"
      BY <2>2, <3>7 DEF ShellsIInv, Progress
    <3>9. k < j
      <4>1. ~(j < k)
        BY <2>2, <3>8 DEF ShellsIInv, Progress
      <4> QED
        BY <1>7, <3>8, <4>1
    <3>10. wire[s][L][1] < c
      BY <1>2, <3>3, <3>9 DEF ShellsIInv, Ordered, Comes
    <3> QED
      BY <2>7, <3>2, <3>10
  <2>8. CASE t = s /\ \E q \in 1 .. n : i = L + q
    <3>1. PICK q \in 1 .. n : i = L + q
      BY <2>8
    <3>2. L + q \in 1 .. (L + n) - 1
      BY <2>6, <2>8, <3>1
    <3>3. q + 1 \in 1 .. n /\ (L + q) + 1 = L + (q + 1)
      <4>1. L + q <= (L + n) - 1
        BY <3>2
      <4>2. q + 1 <= n
        BY <1>4, <4>1
      <4>3. q + 1 \in 1 .. n
        BY <4>2
      <4>4. \A x, y \in Nat : (x + y) + 1 = x + (y + 1)
        OBVIOUS
      <4>5. q \in Nat
        BY <1>4
      <4> QED
        BY <1>4, <4>3, <4>4, <4>5
    <3>4. /\ wire'[s][i][1] = c /\ wire'[s][i][2] = p + q
          /\ wire'[s][i + 1][1] = c /\ wire'[s][i + 1][2] = p + (q + 1)
      BY <1>10, <3>1, <3>3
    <3>5. p + q < p + (q + 1)
      BY <1>4
    <3> QED
      BY <2>8, <3>4, <3>5
  <2>9. t = s => i < L \/ i = L \/ \E q \in 1 .. n : i = L + q
    <3> SUFFICES ASSUME t = s PROVE i < L \/ i = L \/ \E q \in 1 .. n : i = L + q
      OBVIOUS
    <3>1. i \in 1 .. L + n /\ i \in Nat
      BY <1>4, <2>6
    <3>2. i \in 1 .. L => i < L \/ i = L
      BY <1>4
    <3> QED
      BY <1>8, <3>1, <3>2
  <2> QED
    BY <2>4, <2>5, <2>7, <2>8, <2>9
<1> QED
  BY <1>11, <1>12, <1>13, <1>14 DEF ShellsIInv

---------------------------------------------------------------------------
(* Shells: all steps.                                                      *)

LEMMA ExitPreserves ==
    ASSUME ShellsIInv, NEW s \in Shells, Exit(s)
    PROVE  ShellsIInv'
<1>1. /\ ended' \subseteq Shells
      /\ UNCHANGED <<wire, sent_eof, jobs, call, given, calls, short, left>>
  BY DEF Exit, ShellsIInv, ShellTypes, ShellsTypeOK
<1>2. ShellTypes'
  BY <1>1 DEF ShellsIInv, ShellTypes, ShellsTypeOK
<1>3. Ordered' /\ Progress' /\ Origin'
  BY <1>1 DEF ShellsIInv, Ordered, Progress, Origin
<1>4. Calls'
  BY <1>1 DEF ShellsIInv, Calls, Over
<1>5. WrittenOnce' /\ InOrderUnlessShort'
  BY <1>1 DEF ShellsIInv, WrittenOnce, Places, InOrderUnlessShort
<1> QED
  BY <1>2, <1>3, <1>4, <1>5 DEF ShellsIInv

LEMMA ShellsStep ==
    ASSUME ShellsIInv, [ShellsNext]_shellsvars
    PROVE  ShellsIInv'
<1>1. given \in Nat
  BY DEF ShellsIInv, ShellTypes, ShellsTypeOK
<1>2. CASE RunShellCommands
  <2>1. PICK n \in 1 .. MaxCommands, timed \in BOOLEAN :
           Begins("run", RunJobs(n), timed) /\ given' = given + n
    BY <1>2 DEF RunShellCommands
  <2>2. given' \in Nat /\ given <= given'
    BY <1>1, <2>1, ShellsAssumption
  <2>3. InStore("run", RunJobs(n))
    BY <1>1, <2>1, RunJobsAre
  <2> QED
    BY <2>1, <2>2, <2>3, BeginsPreserves
<1>3. CASE JoinShells
  <2>1. PICK timed \in BOOLEAN : Begins("close", CloseJobs, timed) /\ given' = given
    BY <1>3 DEF JoinShells
  <2>2. InStore("close", CloseJobs)
    BY <1>1, <2>1, CloseJobsAre
  <2> QED
    BY <1>1, <2>1, <2>2, BeginsPreserves
<1>4. CASE Spawn
  BY <1>4, SpawnPreserves
<1>5. CASE Block \/ Return \/ RaiseShellError \/ Expire
  BY <1>5, EndsPreserves
<1>6. CASE \E j \in DOMAIN jobs : JobStep(j)
  BY <1>6, EagainWritePreserves, SilentPreserves DEF JobStep
<1>7. CASE \E s \in Shells : Exit(s)
  BY <1>7, ExitPreserves
<1>8. CASE UNCHANGED shellsvars
  <2> USE <1>8 DEF shellsvars, ShellsIInv
  <2>1. ShellTypes'
    BY DEF ShellTypes, ShellsTypeOK
  <2>2. Ordered' /\ Progress'
    BY DEF Ordered, Progress
  <2>3. Origin' /\ Calls'
    BY DEF Origin, Calls, Over
  <2>4. WrittenOnce' /\ InOrderUnlessShort'
    BY DEF WrittenOnce, Places, InOrderUnlessShort
  <2> QED
    BY <2>1, <2>2, <2>3, <2>4
<1> QED
  BY <1>2, <1>3, <1>4, <1>5, <1>6, <1>7, <1>8 DEF ShellsNext, UserStep

THEOREM ShellsInvariance == ShellsSpec => []ShellsIInv
<1>1. ShellsInit => ShellsIInv
  BY InitShells
<1>2. ShellsIInv /\ [ShellsNext]_shellsvars => ShellsIInv'
  BY ShellsStep
<1> QED
  BY <1>1, <1>2, PTL DEF ShellsSpec

\* Commands are written once, whole, and unless a write is short in the order given, for
\* any number of shells, commands and calls (eagain_write under run_shell_commands).
THEOREM ShellsCorrect == ShellsSpec => []ShellsInv
<1>1. ShellsIInv => ShellsInv
  BY DEF ShellsIInv, ShellTypes, ShellsInv
<1> QED
  BY <1>1, ShellsInvariance, PTL

\* A run_shell_commands that returns before its timer has written every command whole:
\* all its greenlets are over and none has failed.
THEOREM Delivery == ShellsSpec => RunDelivers
<1> DEFINE Step == Return /\ call.kind = "run" => \A j \in call.jobs : jobs[j].put = Pieces
<1>1. ShellsIInv => Step
  <2> SUFFICES ASSUME ShellsIInv, Return, call.kind = "run", NEW j \in call.jobs
               PROVE  jobs[j].put = Pieces
    OBVIOUS
  <2>1. j \in DOMAIN jobs /\ jobs[j].kind = "run"
    BY DEF ShellsIInv, ShellTypes, ShellsTypeOK, Calls
  <2>2. jobs[j].pc = "done"
    BY DEF Return, AllOver, Over, Failed
  <2> QED
    BY <2>1, <2>2 DEF ShellsIInv, Progress
<1> QED
  BY <1>1, ShellsInvariance, PTL DEF RunDelivers

\* The input of a shell is ended by a greenlet of join_shells, with which no greenlet of
\* another call is at work, unless one was left behind by a call that had ended early.
THEOREM EndsAfter == ShellsSpec => EndAfterCommands
<1> DEFINE Step == left \/ \A s \in sent_eof' \ sent_eof : \A j \in DOMAIN jobs :
                      jobs[j].kind = "run" /\ jobs[j].shell = s => Over(j)
<1>1. ShellsIInv /\ [ShellsNext]_shellsvars => [Step]_shellsvars
  <2> SUFFICES ASSUME ShellsIInv, ShellsNext, ~left, NEW s \in sent_eof' \ sent_eof,
                      NEW j \in DOMAIN jobs,
                      jobs[j].kind = "run", ~Over(j)
               PROVE  FALSE
    OBVIOUS
  <2>1. PICK k \in DOMAIN jobs : SendEof(k)
    BY DEF ShellsNext, UserStep, RunShellCommands, JoinShells, Begins, Spawn,
       Block, Return,
           RaiseShellError, Expire, Ends, JobStep, EagainWrite, RunEnds, WriteFails, CloseEnds,
           CloseFails, Exit
  <2>2. jobs[k].kind = "close" /\ ~Over(k)
    BY <2>1 DEF SendEof, Over
  <2>3. k \in call.jobs /\ j \in call.jobs
    BY <2>2 DEF ShellsIInv, Calls
  <2> QED
    BY <2>2, <2>3 DEF ShellsIInv, Calls
<1> QED
  BY <1>1, ShellsInvariance, PTL DEF EndAfterCommands, ShellsSpec
=============================================================================
