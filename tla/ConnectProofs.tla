--------------------------- MODULE ConnectProofs ---------------------------
(***************************************************************************)
(* Proofs about Connect: IInv is an inductive invariant, for every number  *)
(* of retries and of addresses, and with it the type invariant, the bounds *)
(* on the recursion and on authentication attempts, and that no stage      *)
(* gives up before it has had its attempts.  A client that also keeps its  *)
(* connection alive and is left again connects by the same specification,  *)
(* so all of this holds of ClientLife as well.                             *)
(***************************************************************************)
EXTENDS ClientLife, SequenceTheorems, TLAPS

FrameSet == [retries : 1 .. Limit, addrs : 0 .. MaxAddrs, addr : 0 .. MaxAddrs]

\* What the rest needs to know of the number of attempts.
LEMMA Attempts ==
    /\ Limit \in Nat \ {0} /\ Limit <= MaxRounds /\ MaxRounds \in Nat
    /\ \A n \in 1 .. Limit : MayRetry(n) => n + 1 \in 1 .. Limit
    /\ \A n \in 1 .. Limit : ~MayRetry(n) => n = Limit
    /\ \A n \in 0 .. MaxRounds :
          /\ Counted(n) \in 1 .. MaxRounds /\ n <= Counted(n)
          /\ \A k \in 0 .. Limit : k <= n /\ k + 1 <= Limit => k + 1 <= Counted(n)
          /\ n < Limit => Counted(n) = n + 1
  BY RetriesAssumption, RoundsAssumption, SMT DEF Limit, MayRetry, Counted

LEMMA FrameFields ==
    /\ \A f \in FrameSet : f.retries \in 1 .. Limit /\ f.retries \in Nat
    /\ \A f \in FrameSet, n \in 1 .. MaxAddrs :
          LET g == [retries |-> f.retries, addrs |-> n, addr |-> 1]
          IN  g \in FrameSet /\ g.retries = f.retries
    /\ \A f \in FrameSet :
          f.addr < f.addrs =>
             LET g == [f EXCEPT !.addr = @ + 1]
             IN  g \in FrameSet /\ g.retries = f.retries
<1>1. Limit \in Nat
  BY Attempts
<1>2. ASSUME NEW f \in FrameSet
      PROVE  f.retries \in 1 .. Limit /\ f.retries \in Nat
  BY <1>1 DEF FrameSet
<1>3. ASSUME NEW f \in FrameSet, NEW n \in 1 .. MaxAddrs
      PROVE  LET g == [retries |-> f.retries, addrs |-> n, addr |-> 1]
             IN  g \in FrameSet /\ g.retries = f.retries
  <2>1. n \in 0 .. MaxAddrs /\ 1 \in 0 .. MaxAddrs
    BY AddrsAssumption
  <2> QED
    BY <1>2, <2>1 DEF FrameSet
<1>4. ASSUME NEW f \in FrameSet, f.addr < f.addrs
      PROVE  LET g == [f EXCEPT !.addr = @ + 1]
             IN  g \in FrameSet /\ g.retries = f.retries
  <2>1. f.addr + 1 \in 0 .. MaxAddrs
    BY <1>4, AddrsAssumption DEF FrameSet
  <2> QED
    BY <2>1 DEF FrameSet
<1> QED
  BY <1>2, <1>3, <1>4

LEMMA NoFrames == <<>> \in Seq(FrameSet) /\ Len(<<>>) = 0
<1>1. <<>> \in Seq(FrameSet)
  BY EmptySeq
<1> QED
  BY <1>1, EmptySeq

\* A stack of frames has one on top, and can be written to there.
LEMMA Frames ==
    ASSUME frames \in Seq(FrameSet), frames # <<>>
    PROVE  /\ Top \in 1 .. Len(frames) /\ Len(frames) \in Nat
           /\ \A k \in 1 .. Len(frames) :
                 /\ frames[k] \in FrameSet
                 /\ \A f \in FrameSet :
                       LET new == [frames EXCEPT ![k] = f] IN
                       /\ new \in Seq(FrameSet) /\ Len(new) = Len(frames)
                       /\ \A l \in 1 .. Len(frames) :
                             new[l] = IF l = k THEN f ELSE frames[l]
<1>1. Len(frames) \in Nat /\ Len(frames) # 0 /\ DOMAIN frames = 1 .. Len(frames)
  BY LenProperties, EmptySeq
<1>2. \A k \in 1 .. Len(frames) : frames[k] \in FrameSet
  BY ElementOfSeq
<1>3. ASSUME NEW k \in 1 .. Len(frames), NEW f \in FrameSet
      PROVE  LET new == [frames EXCEPT ![k] = f] IN
             /\ new \in Seq(FrameSet) /\ Len(new) = Len(frames)
             /\ \A l \in 1 .. Len(frames) : new[l] = IF l = k THEN f ELSE frames[l]
  BY <1>1, <1>3, ExceptSeq
<1> QED
  BY <1>1, <1>2, <1>3, SMT DEF Top

LEMMA InitIInv == Init => IInv
<1> SUFFICES ASSUME Init PROVE IInv
  OBVIOUS
<1>1. Frame(1) \in FrameSet
  BY Attempts, AddrsAssumption DEF Frame, FrameSet
<1>2. /\ frames \in Seq(FrameSet) /\ frames # <<>> /\ Len(frames) = 1
      /\ frames[1].retries = 1
  BY <1>1, SMT DEF Init, Frame, FrameSet
<1>3. Usable \subseteq Method
  BY DEF Usable, Method
<1>4. TypeOK
  BY <1>2, Attempts DEF Init, TypeOK, FrameSet, Errors
<1>5. Stack
  BY <1>2, SMT DEF Init, Stack
<1>6. Asked /\ Failure /\ FreshConnection /\ GivesUpLate
  BY <1>3 DEF Init, Asked, Failure, FreshConnection, GivesUpLate
<1> QED
  BY <1>4, <1>5, <1>6 DEF IInv

\* What a step keeps of the invariant that leaves the authentication alone.
LEMMA AuthUntouched ==
    ASSUME IInv, UNCHANGED <<config, tries, left, asked>>,
           pc # "connected", error' # "authentication",
           pc' = "failed" <=> error' # "none"
    PROVE  /\ Asked' /\ Failure'
           /\ config' \in Config /\ tries' \in 1 .. Limit /\ left' \subseteq Usable'
           /\ asked' \in [Method -> 0 .. MaxRounds]
  BY DEF IInv, Asked, Failure, TypeOK, Usable

\* Failing: the stack is empty from then on.
LEMMA FailStack ==
    ASSUME IInv, frames' = <<>>, pc' = "failed", UNCHANGED <<attempt, rounds>>
    PROVE  Stack' /\ frames' \in Seq(FrameSet)
<1>1. Len(frames') = 0 /\ frames' \in Seq(FrameSet)
  BY NoFrames
<1>2. attempt' <= rounds'
  BY DEF IInv, Stack
<1> QED
  BY <1>1, <1>2 DEF Stack

\* Resolving, well or not.
LEMMA ResolvePreserves ==
    ASSUME IInv, Resolve \/ ResolveFails \/ NoIPv6Address
    PROVE  IInv'
<1>1. /\ frames \in Seq(FrameSet) /\ frames # <<>> /\ pc = "resolving" /\ error = "none"
      /\ attempt \in 1 .. Limit /\ rounds \in 1 .. MaxRounds
  BY DEF IInv, TypeOK, FrameSet, Stack, Failure, Resolve, ResolveFails, NoIPv6Address
<1>2. frames[Top] \in FrameSet /\ Top \in 1 .. Len(frames)
  BY <1>1, Frames
<1>3. CASE Resolve
  <2>1. PICK n \in 1 .. MaxAddrs :
            frames' = [frames EXCEPT ![Top] =
                          [retries |-> @.retries, addrs |-> n, addr |-> 1]]
    BY <1>3 DEF Resolve
  <2> DEFINE f == [retries |-> frames[Top].retries, addrs |-> n, addr |-> 1]
  <2>2. f \in FrameSet /\ f.retries = frames[Top].retries
    BY <1>2, FrameFields
  <2>3. frames' = [frames EXCEPT ![Top] = f]
    BY <2>1
  <2>4. /\ frames' \in Seq(FrameSet) /\ Len(frames') = Len(frames)
        /\ \A k \in 1 .. Len(frames) : frames'[k].retries = frames[k].retries
    BY <1>1, <1>2, <2>2, <2>3, Frames
  <2>5. frames' # <<>>
    BY <1>1, <2>4, EmptySeq
  <2>6. Stack'
    BY <1>1, <1>3, <2>4, <2>5 DEF IInv, Stack, Resolve
  <2> QED
    BY <1>1, <1>3, <2>4, <2>6, AuthUntouched
       DEF IInv, TypeOK, Resolve, FreshConnection, GivesUpLate, FrameSet
<1>4. CASE ResolveFails /\ MayRetry(frames[Top].retries)
  <2> DEFINE f == [frames[Top] EXCEPT !.retries = @ + 1]
  <2>1. f \in FrameSet /\ f.retries = frames[Top].retries + 1
    BY <1>2, <1>4, Attempts DEF FrameSet
  <2>2. frames' = [frames EXCEPT ![Top] = f]
    BY <1>1, <1>2, <1>4 DEF FrameSet, ResolveFails
  <2>3. /\ frames' \in Seq(FrameSet) /\ Len(frames') = Len(frames)
        /\ \A k \in 1 .. Len(frames) :
              frames'[k].retries = IF k = Top THEN frames[k].retries + 1
                                              ELSE frames[k].retries
    BY <1>1, <1>2, <2>1, <2>2, Frames
  <2>4. frames' # <<>>
    BY <1>1, <2>3, EmptySeq
  <2>5. rounds' \in 1 .. MaxRounds /\ rounds <= rounds'
        /\ frames[Top].retries + 1 <= rounds'
    <3>1. rounds' = Counted(rounds) /\ frames[Top].retries <= rounds
      BY <1>2, <1>4 DEF ResolveFails, IInv, Stack
    <3>2. frames[Top].retries \in 1 .. Limit /\ frames[Top].retries + 1 \in 1 .. Limit
      BY <1>2, <1>4, FrameFields, Attempts
    <3>3. Limit \in Nat /\ rounds \in 0 .. MaxRounds /\ frames[Top].retries \in 0 .. Limit
          /\ frames[Top].retries + 1 <= Limit
      BY <1>1, <3>2, Attempts
    <3>4. /\ Counted(rounds) \in 1 .. MaxRounds /\ rounds <= Counted(rounds)
          /\ frames[Top].retries + 1 <= Counted(rounds)
      BY <3>1, <3>3, Attempts
    <3> QED
      BY <3>1, <3>4
  <2>6. Stack'
    <3>0. \A k \in 1 .. Len(frames) : frames[k].retries \in Nat
      BY <1>1, Frames, FrameFields
    <3>1. /\ \A k \in 1 .. Len(frames) :
                /\ frames[k].retries \in Nat
                /\ k <= frames[k].retries /\ frames[k].retries <= rounds
          /\ attempt <= rounds /\ attempt' = attempt /\ pc' = "resolving"
      BY <1>1, <1>4, <3>0 DEF IInv, Stack, ResolveFails
    <3>2. ASSUME NEW k \in 1 .. Len(frames)
          PROVE  k <= frames'[k].retries /\ frames'[k].retries <= rounds'
      BY <1>1, <1>2, <2>3, <2>5, <3>1, Frames, SMT
    <3>3. attempt' <= rounds'
      BY <1>1, <2>5, <3>1
    <3> QED
      BY <2>3, <2>4, <3>1, <3>2, <3>3 DEF Stack
  <2> QED
    BY <1>1, <1>4, <2>3, <2>5, <2>6, AuthUntouched
       DEF IInv, TypeOK, ResolveFails, FreshConnection, GivesUpLate, FrameSet
<1>5. CASE (ResolveFails /\ ~MayRetry(frames[Top].retries)) \/ NoIPv6Address
  <2>1. /\ frames' = <<>> /\ pc' = "failed" /\ error' \in {"unknown host", "no ipv6"}
        /\ UNCHANGED <<config, attempt, sock, tries, left, rounds, asked>>
    BY <1>5 DEF ResolveFails, NoIPv6Address, Fail
  <2>2. error' = "unknown host" => rounds >= Limit
    <3>1. ASSUME error' = "unknown host" PROVE ~MayRetry(frames[Top].retries)
      BY <1>5, <3>1 DEF NoIPv6Address, Fail
    <3>2. frames[Top].retries \in 1 .. Limit /\ frames[Top].retries <= rounds
      BY <1>2 DEF FrameSet, IInv, Stack
    <3> QED
      BY <3>1, <3>2, Attempts
  <2>3. Stack' /\ frames' \in Seq(FrameSet)
    BY <2>1, FailStack
  <2>4. Asked' /\ Failure' /\ left' \subseteq Usable'
    BY <1>1, <2>1, AuthUntouched
  <2>5. TypeOK'
    BY <1>1, <2>1, <2>4, EmptySeq DEF IInv, TypeOK, Errors
  <2>6. FreshConnection' /\ GivesUpLate'
    BY <1>1, <2>1, <2>2 DEF FreshConnection, GivesUpLate
  <2> QED
    BY <2>3, <2>4, <2>5, <2>6 DEF IInv
<1> QED
  BY <1>3, <1>4, <1>5

\* Connecting to an address.
LEMMA ConnectPreserves ==
    ASSUME IInv, Connected \/ Refused \/ ConnectFails
    PROVE  IInv'
<1>1. /\ frames \in Seq(FrameSet) /\ frames # <<>> /\ pc = "connecting" /\ error = "none"
      /\ attempt \in 1 .. Limit /\ rounds \in 1 .. MaxRounds
  BY DEF IInv, TypeOK, FrameSet, Stack, Failure, Connected, Refused, ConnectFails
<1>2. /\ frames[Top] \in FrameSet /\ Top \in 1 .. Len(frames) /\ Len(frames) \in Nat
      /\ frames[Top].retries \in 1 .. Limit
  BY <1>1, Frames, FrameFields
<1>3. CASE Connected
  <2>1. /\ frames' = <<>> /\ Len(frames') = 0 /\ frames' \in Seq(FrameSet)
        /\ pc' = "handshaking" /\ sock' = "open"
        /\ UNCHANGED <<config, attempt, tries, left, error, rounds, asked>>
    BY <1>3, NoFrames DEF Connected
  <2>2. Stack'
    BY <2>1 DEF IInv, Stack
  <2>3. Asked' /\ Failure' /\ left' \subseteq Usable'
    BY <1>1, <2>1, AuthUntouched
  <2> QED
    BY <1>1, <2>1, <2>2, <2>3 DEF IInv, TypeOK, FreshConnection, GivesUpLate, FrameSet
<1>4. CASE Refused /\ Unexhausted # {}
  <2>1. PICK k \in Unexhausted : frames' = [SubSeq(frames, 1, k) EXCEPT ![k].addr = @ + 1]
    BY <1>4 DEF Refused
  <2> DEFINE s == SubSeq(frames, 1, k)
             f == [s[k] EXCEPT !.addr = @ + 1]
  <2>2. k \in 1 .. Len(frames) /\ frames[k].addr < frames[k].addrs
    BY <2>1 DEF Unexhausted, Top
  <2>3. /\ s \in Seq(FrameSet) /\ Len(s) = k
        /\ \A l \in 1 .. k : s[l] = frames[l]
    BY <1>1, <1>2, <2>2, SubSeqProperties
  <2>4. frames[k] \in FrameSet
    BY <1>1, <2>2, Frames
  <2>5. f \in FrameSet /\ f.retries = frames[k].retries
    <3>1. s[k] = frames[k]
      BY <2>2, <2>3
    <3> QED
      BY <2>2, <2>4, <3>1, FrameFields
  <2>6. frames' = [s EXCEPT ![k] = f]
    BY <2>1
  <2>7. /\ frames' \in Seq(FrameSet) /\ Len(frames') = k
        /\ \A l \in 1 .. k : frames'[l].retries = frames[l].retries
    <3>1. /\ frames' \in Seq(FrameSet) /\ Len(frames') = Len(s)
          /\ \A l \in 1 .. Len(s) : frames'[l] = IF l = k THEN f ELSE s[l]
      <4>1. k \in 1 .. Len(s)
        BY <2>2, <2>3
      <4> HIDE DEF f, s
      <4> QED
        BY <2>3, <2>5, <2>6, <4>1, ExceptSeq
    <3> QED
      BY <2>3, <2>5, <3>1
  <2>8. frames' # <<>>
    BY <2>2, <2>7, NoFrames
  <2>9. /\ pc' = "connecting" /\ sock' = "connecting" /\ error' = error
        /\ UNCHANGED <<config, attempt, tries, left, rounds, asked>>
    BY <1>1, <1>4 DEF Refused
  <2>10. Stack'
    BY <1>2, <2>2, <2>7, <2>8, <2>9 DEF IInv, Stack
  <2>11. Asked' /\ Failure' /\ left' \subseteq Usable'
    BY <1>1, <2>9, AuthUntouched
  <2> QED
    BY <1>1, <2>7, <2>9, <2>10, <2>11
       DEF IInv, TypeOK, FreshConnection, GivesUpLate, FrameSet
<1>5. CASE ConnectFails /\ MayRetry(frames[Top].retries)
  <2> DEFINE f == Frame(frames[Top].retries + 1)
  <2>1. f \in FrameSet /\ f.retries = frames[Top].retries + 1
    BY <1>2, <1>5, Attempts, AddrsAssumption DEF FrameSet, Frame
  <2>2. frames' = Append(frames, f) /\ pc' = "resolving" /\ rounds' = Counted(rounds)
        /\ UNCHANGED <<config, attempt, sock, tries, left, error, asked>>
    BY <1>5 DEF ConnectFails
  <2>3. /\ frames' \in Seq(FrameSet) /\ Len(frames') = Len(frames) + 1
        /\ \A k \in 1 .. Len(frames) : frames'[k] = frames[k]
        /\ frames'[Len(frames) + 1] = f
    BY <1>1, <2>1, <2>2, AppendProperties
  <2>4. /\ rounds' \in 1 .. MaxRounds /\ rounds <= rounds'
        /\ frames[Top].retries + 1 <= rounds'
    <3>1. frames[Top].retries <= rounds
      BY <1>2 DEF IInv, Stack
    <3>2. frames[Top].retries \in 1 .. Limit /\ frames[Top].retries + 1 \in 1 .. Limit
      BY <1>2, <1>5, FrameFields, Attempts
    <3>3. Limit \in Nat /\ rounds \in 0 .. MaxRounds /\ frames[Top].retries \in 0 .. Limit
          /\ frames[Top].retries + 1 <= Limit
      BY <1>1, <3>2, Attempts
    <3>4. /\ Counted(rounds) \in 1 .. MaxRounds /\ rounds <= Counted(rounds)
          /\ frames[Top].retries + 1 <= Counted(rounds)
      BY <3>1, <3>3, Attempts
    <3> QED
      BY <2>2, <3>4
  <2>5. ASSUME NEW k \in 1 .. Len(frames')
        PROVE  k <= frames'[k].retries /\ frames'[k].retries <= rounds'
    <3>1. CASE k \in 1 .. Len(frames)
      <4>1. /\ k <= frames[k].retries /\ frames[k].retries <= rounds
            /\ frames[k].retries \in Nat
        BY <1>1, <3>1, Frames, FrameFields DEF IInv, Stack
      <4> QED
        BY <1>1, <2>3, <2>4, <3>1, <4>1
    <3>2. CASE k = Len(frames) + 1
      <4>1. Len(frames) <= frames[Top].retries
        BY <1>2 DEF IInv, Stack, Top
      <4> QED
        BY <1>2, <2>1, <2>3, <2>4, <3>2, <4>1
    <3>3. k \in 1 .. Len(frames) + 1
      BY <2>3
    <3> QED
      BY <1>2, <3>1, <3>2, <3>3
  <2>6. Stack'
    <3>1. frames' # <<>>
      BY <1>2, <2>3, NoFrames
    <3>2. attempt' <= rounds'
      BY <1>1, <2>2, <2>4 DEF IInv, Stack
    <3> QED
      BY <2>2, <2>5, <3>1, <3>2 DEF Stack
  <2>7. Asked' /\ Failure' /\ left' \subseteq Usable'
    BY <1>1, <2>2, AuthUntouched
  <2> QED
    BY <1>1, <2>2, <2>3, <2>4, <2>6, <2>7
       DEF IInv, TypeOK, FreshConnection, GivesUpLate, FrameSet
<1>6. CASE (Refused /\ Unexhausted = {}) \/ (ConnectFails /\ ~MayRetry(frames[Top].retries))
  <2>1. /\ frames' = <<>> /\ pc' = "failed" /\ error' \in {"refused", "connection"}
        /\ UNCHANGED <<config, attempt, sock, tries, left, rounds, asked>>
    BY <1>6 DEF Refused, ConnectFails, Fail
  <2>2. error' = "connection" => rounds >= Limit
    <3>1. error' = "connection" => ~MayRetry(frames[Top].retries)
      BY <1>6 DEF Refused, Fail
    <3>2. frames[Top].retries <= rounds
      BY <1>2 DEF IInv, Stack
    <3> QED
      BY <1>2, <3>1, <3>2, Attempts
  <2>3. Stack' /\ frames' \in Seq(FrameSet)
    BY <2>1, FailStack
  <2>4. Asked' /\ Failure' /\ left' \subseteq Usable'
    BY <1>1, <2>1, AuthUntouched
  <2>5. TypeOK'
    BY <1>1, <2>1, <2>3, <2>4 DEF IInv, TypeOK, Errors, FrameSet
  <2>6. FreshConnection' /\ GivesUpLate'
    BY <1>1, <2>1, <2>2 DEF FreshConnection, GivesUpLate
  <2> QED
    BY <2>3, <2>4, <2>5, <2>6 DEF IInv
<1> QED
  BY <1>3, <1>4, <1>5, <1>6 DEF Refused, ConnectFails

\* The handshake.
LEMMA HandshakePreserves ==
    ASSUME IInv, Handshake \/ HandshakeFails
    PROVE  IInv'
<1>1. /\ frames \in Seq(FrameSet) /\ frames = <<>> /\ pc = "handshaking" /\ error = "none"
      /\ attempt \in 1 .. Limit /\ rounds \in 1 .. MaxRounds /\ attempt <= rounds
      /\ sock = "open"
  BY DEF IInv, TypeOK, FrameSet, Stack, Failure, FreshConnection, Handshake, HandshakeFails,
     Reconnect, Fail
<1>2. CASE Handshake
  <2>1. /\ pc' = "authenticating"
        /\ UNCHANGED <<config, frames, attempt, sock, tries, left, error, rounds, asked>>
    BY <1>2 DEF Handshake
  <2>2. Stack'
    BY <1>1, <2>1 DEF IInv, Stack
  <2>3. Asked' /\ Failure' /\ left' \subseteq Usable'
    BY <1>1, <2>1, AuthUntouched
  <2> QED
    BY <1>1, <2>1, <2>2, <2>3 DEF IInv, TypeOK, FreshConnection, GivesUpLate
<1>3. CASE HandshakeFails /\ MayRetry(attempt)
  <2>1. /\ attempt' = attempt + 1 /\ sock' = "none" /\ frames' = <<Frame(attempt + 1)>>
        /\ rounds' = Counted(rounds) /\ pc' = "resolving"
        /\ UNCHANGED <<config, tries, left, error, asked>>
    BY <1>3 DEF HandshakeFails, Reconnect
  <2>2. attempt + 1 \in 1 .. Limit
    BY <1>1, <1>3, Attempts
  <2>3. rounds' \in 1 .. MaxRounds /\ attempt + 1 <= rounds'
    BY <1>1, <2>1, <2>2, Attempts, SMT
  <2>4. Frame(attempt + 1) \in FrameSet /\ Frame(attempt + 1).retries = attempt + 1
    BY <2>2, AddrsAssumption DEF Frame, FrameSet
  <2>5. /\ frames' \in Seq(FrameSet) /\ frames' # <<>> /\ Len(frames') = 1
        /\ frames'[1].retries = attempt + 1
    <3> DEFINE f == Frame(attempt + 1)
    <3> HIDE DEF f
    <3>1. <<f>> \in Seq(FrameSet) /\ <<f>> # <<>> /\ Len(<<f>>) = 1 /\ <<f>>[1] = f
      BY <2>4, SMT DEF f
    <3> QED
      BY <2>1, <2>4, <3>1 DEF f
  <2>6. Stack'
    BY <1>1, <2>1, <2>3, <2>5, SMT DEF Stack
  <2>7. Asked' /\ Failure' /\ left' \subseteq Usable'
    BY <1>1, <2>1, AuthUntouched
  <2> QED
    BY <1>1, <2>1, <2>2, <2>3, <2>5, <2>6, <2>7
       DEF IInv, TypeOK, FreshConnection, GivesUpLate, FrameSet
<1>4. CASE HandshakeFails /\ ~MayRetry(attempt)
  <2>1. /\ frames' = <<>> /\ pc' = "failed" /\ error' = "session" /\ sock' = "spent"
        /\ UNCHANGED <<config, attempt, tries, left, rounds, asked>>
    BY <1>4 DEF HandshakeFails, Fail
  <2>2. attempt = Limit
    BY <1>1, <1>4, Attempts
  <2>3. Stack' /\ frames' \in Seq(FrameSet)
    BY <2>1, FailStack
  <2>4. Asked' /\ Failure' /\ left' \subseteq Usable'
    BY <1>1, <2>1, AuthUntouched
  <2>5. TypeOK'
    BY <1>1, <2>1, <2>3, <2>4 DEF IInv, TypeOK, Errors, FrameSet
  <2>6. FreshConnection' /\ GivesUpLate'
    BY <1>1, <2>1, <2>2 DEF FreshConnection, GivesUpLate
  <2> QED
    BY <2>3, <2>4, <2>5, <2>6 DEF IInv
<1> QED
  BY <1>2, <1>3, <1>4

\* A method is tried, with or without success.
LEMMA AskPreserves ==
    ASSUME IInv, Accepted \/ NotAccepted
    PROVE  IInv'
<1>1. /\ pc = "authenticating" /\ error = "none" /\ tries \in 1 .. Limit
      /\ asked \in [Method -> 0 .. MaxRounds] /\ left \subseteq Usable
      /\ sock = "open" /\ frames = <<>>
  BY DEF IInv, TypeOK, Failure, FreshConnection, Stack, Accepted, NotAccepted, Ask
<1>2. PICK m \in left :
          /\ asked' = [asked EXCEPT ![m] = Counted(@)]
          /\ \/ pc' = "connected" /\ left' = left
             \/ pc' = pc /\ left' = left \ {m}
  BY DEF Accepted, NotAccepted, Ask
<1>3. /\ UNCHANGED <<config, frames, attempt, sock, tries, error, rounds>>
      /\ Usable' = Usable
  BY DEF Accepted, NotAccepted, Usable
<1>4. Usable \subseteq Method
  BY DEF Usable, Method
<1>5. asked[m] = tries - 1 /\ Counted(asked[m]) = tries
  <2>1. asked[m] = tries - 1
    BY <1>1, <1>2 DEF IInv, Asked
  <2> QED
    BY <1>1, <2>1, Attempts
<1>6. asked' \in [Method -> 0 .. MaxRounds]
  BY <1>1, <1>2, <1>4, <1>5, Attempts
<1>7. Asked'
  <2>1. \A n \in Method : asked'[n] = IF n = m THEN tries ELSE asked[n]
    BY <1>1, <1>2, <1>5
  <2>2. \A n \in Usable : asked'[n] <= tries
    BY <1>1, <1>4, <2>1 DEF IInv, Asked
  <2>3. \A n \in Method \ Usable : asked'[n] = 0
    BY <1>1, <1>2, <2>1 DEF IInv, Asked
  <2>4. pc' # "connected" =>
            \A n \in Usable : asked'[n] = IF n \in left' THEN tries - 1 ELSE tries
    BY <1>1, <1>2, <1>4, <2>1 DEF IInv, Asked
  <2> QED
    BY <1>3, <2>2, <2>3, <2>4 DEF Asked
<1>8. pc' \in {"authenticating", "connected"} /\ left' \subseteq Usable
  BY <1>1, <1>2
<1>9. Stack' /\ Failure' /\ FreshConnection' /\ GivesUpLate'
  BY <1>1, <1>3, <1>8 DEF IInv, Stack, Failure, FreshConnection, GivesUpLate
<1>10. TypeOK'
  BY <1>3, <1>6, <1>8 DEF IInv, TypeOK
<1> QED
  BY <1>7, <1>9, <1>10 DEF IInv

\* auth() has raised.
LEMMA AuthFailsPreserves ==
    ASSUME IInv, AuthFails
    PROVE  IInv'
<1>1. /\ pc = "authenticating" /\ error = "none" /\ tries \in 1 .. Limit /\ left = {}
      /\ sock = "open" /\ frames = <<>>
      /\ UNCHANGED <<config, attempt, sock, rounds, asked>>
  BY DEF IInv, TypeOK, Failure, FreshConnection, Stack, AuthFails
<1>2. Usable' = Usable
  BY <1>1 DEF Usable
<1>3. \A m \in Usable : asked[m] = tries
  BY <1>1 DEF IInv, Asked
<1>4. CASE MayRetry(tries)
  <2>1. tries' = tries + 1 /\ left' = Usable /\ UNCHANGED <<pc, frames, error>>
    BY <1>4 DEF AuthFails
  <2>2. tries' \in 1 .. Limit
    BY <1>1, <1>4, <2>1, Attempts
  <2>3. Asked'
    BY <1>1, <1>2, <1>3, <2>1 DEF IInv, Asked
  <2>4. Stack' /\ Failure' /\ FreshConnection' /\ GivesUpLate'
    BY <1>1, <2>1 DEF IInv, Stack, Failure, FreshConnection, GivesUpLate
  <2>5. TypeOK'
    BY <1>1, <1>2, <2>1, <2>2 DEF IInv, TypeOK
  <2> QED
    BY <2>3, <2>4, <2>5 DEF IInv
<1>5. CASE ~MayRetry(tries)
  <2>1. /\ pc' = "failed" /\ error' = "authentication" /\ frames' = <<>>
        /\ UNCHANGED <<tries, left>>
    BY <1>5 DEF AuthFails, Fail
  <2>2. tries = Limit
    BY <1>1, <1>5, Attempts
  <2>3. Asked'
    BY <1>1, <1>2, <2>1 DEF IInv, Asked
  <2>4. Stack' /\ frames' \in Seq(FrameSet)
    BY <1>1, <2>1, FailStack
  <2>5. Failure' /\ FreshConnection' /\ GivesUpLate'
    <3>1. \A m \in Usable' : asked'[m] >= Limit
      BY <1>1, <1>2, <1>3, <2>2
    <3> QED
      BY <1>1, <2>1, <2>2, <3>1 DEF Failure, FreshConnection, GivesUpLate
  <2>6. TypeOK'
    BY <1>1, <1>2, <2>1, <2>4 DEF IInv, TypeOK, Errors, FrameSet
  <2> QED
    BY <2>3, <2>4, <2>5, <2>6 DEF IInv
<1> QED
  BY <1>4, <1>5

LEMMA StepIInv == IInv /\ [Next]_vars => IInv'
<1> SUFFICES ASSUME IInv, [Next]_vars PROVE IInv'
  OBVIOUS
<1>1. CASE UNCHANGED vars
  BY <1>1 DEF vars, IInv, TypeOK, FreshConnection, GivesUpLate, Stack, Asked, Failure, Usable
<1>2. CASE Next
  BY <1>2, ResolvePreserves, ConnectPreserves, HandshakePreserves, AskPreserves,
     AuthFailsPreserves DEF Next
<1> QED
  BY <1>1, <1>2

\* The strengthened invariant holds of every behaviour of _init.
THEOREM Invariance == Spec => []IInv
  BY InitIInv, StepIInv, PTL DEF Spec

\* Counters and stages keep their types, for any num_retries (BaseSSHClient._init).
THEOREM TypeCorrect == Spec => []TypeOK
  BY Invariance, PTL DEF IInv

\* _connect nests no deeper than num_retries, in whatever order addresses refuse
\* connections or fail.
THEOREM RecursionBounded == Spec => []DepthBounded
<1>1. IInv => DepthBounded
  <2> SUFFICES ASSUME IInv PROVE DepthBounded
    OBVIOUS
  <2>1. frames \in Seq(FrameSet) /\ Len(frames) \in Nat
    BY LenProperties DEF IInv, TypeOK, FrameSet
  <2>2. CASE frames = <<>>
    BY <2>2, NoFrames, Attempts DEF DepthBounded
  <2>3. CASE frames # <<>>
    <3>1. frames[Top] \in FrameSet /\ Top \in 1 .. Len(frames)
      BY <2>1, <2>3, Frames
    <3>2. Top <= frames[Top].retries /\ frames[Top].retries \in 1 .. Limit
      BY <3>1, FrameFields DEF IInv, Stack
    <3> QED
      BY <2>1, <3>2, Attempts DEF DepthBounded, Top
  <2> QED
    BY <2>2, <2>3
<1> QED
  BY <1>1, Invariance, PTL

\* No handshake goes over a connection that one has failed on
\* (_connect_init_session_retry).
THEOREM ConnectionsFresh == Spec => []FreshConnection
  BY Invariance, PTL DEF IInv

\* No stage gives up before it has had num_retries attempts.
THEOREM AttemptsUsed == Spec => []GivesUpLate
  BY Invariance, PTL DEF IInv

\* No method of authentication is tried more than num_retries times, and with a key
\* no other is tried at all (auth, _auth_retry).
THEOREM AuthBounded == Spec => []AuthAttemptsBounded
<1>1. IInv => AuthAttemptsBounded
  <2> SUFFICES ASSUME IInv PROVE AuthAttemptsBounded
    OBVIOUS
  <2>1. /\ asked \in [Method -> 0 .. MaxRounds] /\ tries \in 1 .. Limit
        /\ \A m \in Usable : asked[m] <= tries
        /\ \A m \in Method \ Usable : asked[m] = 0
    BY DEF IInv, TypeOK, Asked
  <2>2. Limit \in Nat \ {0} /\ MaxRounds \in Nat
    BY Attempts
  <2>3. ASSUME NEW m \in Method PROVE asked[m] <= Limit
    BY <2>1, <2>2
  <2>4. config["pkey"] => Usable \subseteq {"gssapi", "pkey"}
    BY DEF Usable
  <2> QED
    BY <2>1, <2>3, <2>4 DEF AuthAttemptsBounded
<1> QED
  BY <1>1, Invariance, PTL

---------------------------------------------------------------------------
(* The client's life.                                                      *)

\* Keepalive, loss of the connection and disconnecting are no steps of _init: a client
\* connects as Connect says, and what is proved of Connect holds of it.
THEOREM LifeImplementsConnect == LifeSpec => Spec
<1>1. LifeInit => Init
  BY DEF LifeInit
<1>2. [LifeNext]_lifevars => [Next]_vars
  <2> SUFFICES ASSUME [LifeNext]_lifevars, ~UNCHANGED vars PROVE Next
    OBVIOUS
  <2>1. LifeNext
    BY DEF lifevars
  <2> QED
    BY <2>1 DEF LifeNext, Connecting, Leave, Disconnected, Lose, KeepAliveStep, LetGoes
<1> QED
  BY <1>1, <1>2, PTL DEF LifeSpec, Spec

\* Nothing follows authentication in _init.
LEMMA ConnectedIsLast == pc = "connected" => ~Next
  BY DEF Next, Resolve, ResolveFails, NoIPv6Address, Connected, Refused, ConnectFails,
         Handshake, HandshakeFails, Accepted, NotAccepted, AuthFails, Ask

\* The keepalive greenlet exists only for an authenticated client that asked for it,
\* whatever _init has been through before, and also when the client is gone.
THEOREM KeepAliveOnlyAuthenticated == LifeSpec => []KeepAliveAuthenticated
<1>1. LifeInit => KeepAliveAuthenticated
  BY DEF LifeInit, KeepAliveAuthenticated
<1>2. KeepAliveAuthenticated /\ [LifeNext]_lifevars => KeepAliveAuthenticated'
  <2> SUFFICES ASSUME KeepAliveAuthenticated, [LifeNext]_lifevars
               PROVE  KeepAliveAuthenticated'
    OBVIOUS
  <2>1. CASE Connecting
    <3>1. pc # "connected"
      BY <2>1, ConnectedIsLast DEF Connecting
    <3>2. let = "none"
      BY <3>1 DEF KeepAliveAuthenticated
    <3> QED
      BY <2>1, <3>2 DEF Connecting, KeepAliveAuthenticated
  <2>2. CASE Leave \/ Disconnected \/ Lose
    BY <2>2 DEF Leave, Disconnected, Lose, vars, KeepAliveAuthenticated
  <2>3. CASE KeepAliveStep
    <3>1. let # "none" /\ UNCHANGED <<pc, keepalive>>
      BY <2>3 DEF KeepAliveStep, LetGoes, vars
    <3> QED
      BY <3>1 DEF KeepAliveAuthenticated
  <2>4. CASE UNCHANGED lifevars
    BY <2>4 DEF lifevars, vars, KeepAliveAuthenticated
  <2> QED
    BY <2>1, <2>2, <2>3, <2>4 DEF LifeNext
<1> QED
  BY <1>1, <1>2, PTL DEF LifeSpec

\* So it is with the attempts at authentication: what holds of connecting holds for as
\* long as the client and its keepalive greenlet are there.
THEOREM LifeInvariance == LifeSpec => []LifeInv
  BY LifeImplementsConnect, Invariance, AuthBounded, KeepAliveOnlyAuthenticated, PTL
     DEF LifeInv
=============================================================================
