------------------------ MODULE ParallelJoinProofs ------------------------
(***************************************************************************)
(* For any outputs, failed hosts, pool size and number of joins: a join    *)
(* that returns has closed every channel it was to wait for, a Timeout     *)
(* tells finished from unfinished, and the bare Timeout of a greenlet gets *)
(* out of join only if join waited for a pool slot or consumes output.     *)
(***************************************************************************)
EXTENDS ParallelJoin, TLAPS, SequenceTheorems, FiniteSetTheorems

Increasing(s) == \A a, b \in DOMAIN s : a < b => s[a] < s[b]
Distinct(s) == \A a, b \in DOMAIN s : s[a] = s[b] => a = b

\* In s, x comes before any element of C.
Before(s, x, C) == \A a, b \in DOMAIN s : s[a] = x /\ s[b] \in C => a < b

Joiner == [out : Output, pc : {"new", "waiting", "consuming"} \union Ends, shell : BOOLEAN,
           timed : BOOLEAN, consume : BOOLEAN]

Call == [pc : {"idle", "spawning", "joining"}, kind : {"output", "shell"}, outs : Seq(Output),
         cmds : Seq(Nat), timed : BOOLEAN, consume : BOOLEAN, waits : BOOLEAN,
         blocked : BOOLEAN]

JoinTypes ==
    /\ failed \subseteq MayFail /\ closed \subseteq exited /\ exited \subseteq Started
    /\ joiners \in Seq(Joiner) /\ call \in Call /\ joins \in 0 .. MaxJoins

\* A greenlet that is done has had its channel closed, or had none to wait for.
Waited ==
    \A j \in 1 .. Len(joiners) :
        /\ joiners[j].pc = "consuming" => joiners[j].consume
        /\ joiners[j].pc \in {"done", "consuming"} =>
              joiners[j].out \in closed \/ (joiners[j].out \in failed /\ ~joiners[j].shell)

\* Each timer is that of the join in progress or of a greenlet that waits under one.
Armed ==
    /\ timers \in Seq({Main} \union 1 .. Len(joiners)) /\ Distinct(timers)
    /\ \A j \in ToSet(timers) \ {Main} : joiners[j].pc = "waiting" /\ joiners[j].timed
    /\ Main \in ToSet(timers) <=> call.pc = "joining" /\ call.timed

\* The greenlets of the join in progress are those of its outputs.  Unless it has waited for
\* a slot they start after its own timer has, so that theirs expire later.
Joining ==
    /\ call.cmds \in Seq(1 .. Len(joiners)) /\ Increasing(call.cmds)
    /\ Len(call.cmds) <= Len(call.outs)
    /\ call.pc = "joining" => Len(call.cmds) = Len(call.outs)
    /\ call.waits => call.blocked
    /\ call.pc = "idle" => call.cmds = <<>>
    /\ \A i \in DOMAIN call.cmds :
          LET j == joiners[call.cmds[i]] IN
          /\ j.out = call.outs[i] /\ j.shell = (call.kind = "shell")
          /\ j.timed => call.timed
          /\ j.consume => call.consume
          /\ j.pc = "timeout" => call.blocked \/ call.consume
          /\ call.pc = "spawning" /\ ~call.blocked => j.pc = "new"
    /\ call.pc = "joining" /\ ~call.blocked => Before(timers, Main, ToSet(call.cmds))

\* joinall sees each greenlet end once.
Seen ==
    /\ call.pc = "spawning" => seen = <<>>
    /\ call.pc = "joining" =>
          /\ seen \in Seq(ToSet(call.cmds)) /\ Distinct(seen)
          /\ \A i \in DOMAIN seen : Ended(seen[i])

Outcome ==
    /\ outcome.kind \in {"none", "returned", "timeout", "bare timeout", "error", "index error"}
    /\ outcome.unfinished \subseteq Output
    /\ ReturnedMeansClosed /\ TimeoutPartitions /\ BareTimeoutOnlyIfBlocked

JoinInv == JoinTypes /\ Waited /\ Armed /\ Joining /\ Seen /\ Outcome

---------------------------------------------------------------------------
(* Sequences without repetition.                                           *)

\* A set of numbers has a least one.
LEMMA Least ==
    ASSUME NEW T \in SUBSET Nat, T # {}
    PROVE  \E n \in T : \A m \in T : n <= m
<1> DEFINE R == OpToRel(<, Nat)
<1>1. \A x, y : <<x, y>> \in R <=> x \in Nat /\ y \in Nat /\ x < y
  BY DEF OpToRel
<1>2. IsWellFoundedOn(R, Nat)
  BY NatLessThanWellFounded
<1> HIDE DEF R
<1>3. PICK n \in T : \A m \in T : ~(<<m, n>> \in R)
  BY <1>2, WFMin, Zenon
<1>4. \A m \in T : ~(m < n)
  BY <1>1, <1>3, Zenon
<1> QED
  BY <1>4

\* A sequence has as many elements as places if it has none twice.
LEMMA DistinctLen ==
    ASSUME NEW S, NEW s \in Seq(S), Distinct(s)
    PROVE  IsFiniteSet(ToSet(s)) /\ Cardinality(ToSet(s)) = Len(s)
<1>1. Len(s) \in Nat /\ DOMAIN s = 1 .. Len(s) /\ s \in [1 .. Len(s) -> ToSet(s)]
  BY LenProperties DEF ToSet
<1>2. s \in Bijection(1 .. Len(s), ToSet(s))
  BY <1>1 DEF Bijection, Injection, Surjection, IsInjective, Distinct, ToSet
<1> QED
  BY <1>1, <1>2, FS_NatBijection, FS_CountingElements DEF ExistsBijection

\* An order leaves no room for repetition.
LEMMA IncreasingDistinct ==
    ASSUME NEW s \in Seq(Nat), Increasing(s)
    PROVE  Distinct(s)
<1>1. \A a \in DOMAIN s : a \in Nat /\ s[a] \in Nat
  BY LenProperties, ElementOfSeq
<1> QED
  BY <1>1 DEF Increasing, Distinct

\* If it has as many as there are, it has all of them.
LEMMA DistinctAll ==
    ASSUME NEW S, NEW s \in Seq(S), Distinct(s), NEW q \in Seq(S), Distinct(q),
           ToSet(q) \subseteq ToSet(s)
    PROVE  Len(q) = Len(s) <=> ToSet(q) = ToSet(s)
<1>1. /\ IsFiniteSet(ToSet(s)) /\ Cardinality(ToSet(s)) = Len(s)
      /\ IsFiniteSet(ToSet(q)) /\ Cardinality(ToSet(q)) = Len(q)
  BY DistinctLen
<1> QED
  BY <1>1, FS_Subset

\* A function on 1 .. n is a sequence.
LEMMA FunctionSeq ==
    ASSUME NEW n \in Nat, NEW T, NEW f \in [1 .. n -> T]
    PROVE  f \in Seq(T)
  BY SeqDef

\* InOrder has all of a finite set of greenlets, each once.
LEMMA InOrderIs ==
    ASSUME NEW S \in SUBSET Nat, IsFiniteSet(S), NEW q \in InOrder(S)
    PROVE  q \in Seq(S) /\ Increasing(q) /\ Distinct(q) /\ ToSet(q) = S
<1>1. Cardinality(S) \in Nat /\ q \in [1 .. Cardinality(S) -> S]
  BY FS_CardinalityType DEF InOrder
<1>2. q \in Seq(S) /\ q \in Seq(Nat) /\ Increasing(q)
  <2>1. q \in [1 .. Cardinality(S) -> Nat]
    BY <1>1
  <2>2. q \in Seq(S) /\ q \in Seq(Nat)
    BY <1>1, <2>1, FunctionSeq
  <2> QED
    BY <2>2 DEF InOrder, Increasing
<1>3. Distinct(q)
  BY <1>2, IncreasingDistinct
<1>4. IsFiniteSet(1 .. Cardinality(S)) /\ Cardinality(1 .. Cardinality(S)) = Cardinality(S)
  BY <1>1, FS_Interval
<1>5. q \in Injection(1 .. Cardinality(S), S)
  BY <1>1, <1>3 DEF Injection, IsInjective, Distinct
<1>6. q \in Surjection(1 .. Cardinality(S), S)
  BY <1>4, <1>5, FS_Injection
<1>7. ToSet(q) = S
  BY <1>1, <1>6 DEF Surjection, ToSet
<1> QED
  BY <1>2, <1>3, <1>7

---------------------------------------------------------------------------
(* Timers.                                                                 *)

\* r is s without t, in the order of s.
Without(r, s, t) ==
    /\ ToSet(r) = ToSet(s) \ {t}
    /\ \E h \in [DOMAIN r -> DOMAIN s] :
          /\ \A a \in DOMAIN r : r[a] = s[h[a]]
          /\ \A a, b \in DOMAIN r : a < b => h[a] < h[b]

\* Taking away one place takes away one element.
LEMMA RemoveAtWithout ==
    ASSUME NEW S, NEW s \in Seq(S), Distinct(s), NEW i \in 1 .. Len(s)
    PROVE  RemoveAt(s, i) \in Seq(S) /\ Without(RemoveAt(s, i), s, s[i])
<1> DEFINE p == SubSeq(s, 1, i - 1)
           q == SubSeq(s, i + 1, Len(s))
           r == p \o q
<1>1. Len(s) \in Nat /\ DOMAIN s = 1 .. Len(s) /\ \A a \in 1 .. Len(s) : s[a] \in S
  BY LenProperties, ElementOfSeq
<1>2. p \in Seq(S) /\ Len(p) = i - 1 /\ \A a \in 1 .. i - 1 : p[a] = s[a]
  <2>1. \A a \in 1 .. i - 1 : s[a] \in S
    BY <1>1
  <2>2. i - 1 \in Int /\ 1 \in Int
    BY <1>1
  <2>3. /\ p \in Seq(S) /\ Len(p) = IF 1 <= i - 1 THEN (i - 1) - 1 + 1 ELSE 0
        /\ \A a \in 1 .. (i - 1) - 1 + 1 : p[a] = s[1 + a - 1]
    BY <2>1, <2>2, SubSeqProperties
  <2> HIDE DEF p
  <2>4. (i - 1) - 1 + 1 = i - 1 /\ \A a \in 1 .. i - 1 : 1 + a - 1 = a
    BY <1>1
  <2> QED
    BY <1>1, <2>3, <2>4
<1>3. q \in Seq(S) /\ Len(q) = Len(s) - i /\ \A a \in 1 .. Len(s) - i : q[a] = s[i + a]
  <2>1. \A a \in i + 1 .. Len(s) : s[a] \in S
    BY <1>1
  <2>2. i + 1 \in Int /\ Len(s) \in Int
    BY <1>1
  <2>3. /\ q \in Seq(S) /\ Len(q) = IF i + 1 <= Len(s) THEN Len(s) - (i + 1) + 1 ELSE 0
        /\ \A a \in 1 .. Len(s) - (i + 1) + 1 : q[a] = s[(i + 1) + a - 1]
    BY <2>1, <2>2, SubSeqProperties
  <2> HIDE DEF p, q, r
  <2>4. Len(s) - (i + 1) + 1 = Len(s) - i /\ \A a \in 1 .. Len(s) - i : (i + 1) + a - 1 = i + a
    BY <1>1
  <2>5. Len(q) = Len(s) - i
    <3>1. CASE i + 1 <= Len(s)
      BY <2>3, <2>4, <3>1
    <3>2. CASE ~(i + 1 <= Len(s))
      <4>1. i \in Int /\ Len(s) \in Int /\ i <= Len(s)
        BY <1>1
      <4>2. Len(s) - i = 0
        BY <3>2, <4>1
      <4> QED
        BY <2>3, <3>2, <4>2
    <3> QED
      BY <3>1, <3>2
  <2>6. ASSUME NEW a \in 1 .. Len(s) - i PROVE q[a] = s[i + a]
    <3>1. q[a] = s[(i + 1) + a - 1]
      BY <2>3, <2>4
    <3> QED
      BY <2>4, <3>1
  <2> QED
    BY <2>3, <2>5, <2>6
<1>4. /\ r \in Seq(S) /\ Len(r) = Len(s) - 1 /\ DOMAIN r = 1 .. Len(s) - 1
      /\ \A a \in 1 .. Len(s) - 1 : r[a] = IF a < i THEN s[a] ELSE s[a + 1]
  <2> HIDE DEF p, q
  <2>1. /\ r \in Seq(S) /\ Len(r) = Len(p) + Len(q)
        /\ \A a \in 1 .. Len(p) + Len(q) : r[a] = IF a <= Len(p) THEN p[a] ELSE q[a - Len(p)]
    BY <1>2, <1>3, ConcatProperties
  <2>2. Len(p) + Len(q) = Len(s) - 1 /\ Len(p) = i - 1
    BY <1>1, <1>2, <1>3
  <2> HIDE DEF r
  <2>3. ASSUME NEW a \in 1 .. Len(s) - 1 PROVE r[a] = IF a < i THEN s[a] ELSE s[a + 1]
    <3>1. CASE a < i
      BY <1>1, <1>2, <2>1, <2>2, <3>1
    <3>2. CASE ~(a < i)
      <4>1. a - Len(p) \in 1 .. Len(s) - i /\ i + (a - Len(p)) = a + 1
        BY <1>1, <2>2, <3>2
      <4>2. r[a] = q[a - Len(p)]
        BY <1>1, <2>1, <2>2, <3>2
      <4>3. q[a - Len(p)] = s[i + (a - Len(p))]
        BY <1>3, <4>1
      <4> QED
        BY <3>2, <4>1, <4>2, <4>3
    <3> QED
      BY <3>1, <3>2
  <2> QED
    BY <2>1, <2>2, <2>3, LenProperties
<1> HIDE DEF r
<1> DEFINE h == [a \in 1 .. Len(s) - 1 |-> IF a < i THEN a ELSE a + 1]
<1>5. /\ h \in [DOMAIN r -> DOMAIN s] /\ \A a \in DOMAIN r : r[a] = s[h[a]]
      /\ \A a, b \in DOMAIN r : a < b => h[a] < h[b]
  BY <1>1, <1>4
<1>6. ToSet(r) = ToSet(s) \ {s[i]}
  <2>1. ASSUME NEW a \in DOMAIN r PROVE r[a] \in ToSet(s) \ {s[i]}
    BY <1>1, <1>4, <2>1 DEF ToSet, Distinct
  <2>2. ASSUME NEW a \in DOMAIN s, s[a] # s[i] PROVE s[a] \in ToSet(r)
    <3>1. CASE a < i
      BY <1>1, <1>4, <2>2, <3>1 DEF ToSet
    <3>2. CASE a > i
      <4>1. a - 1 \in 1 .. Len(s) - 1 /\ ~(a - 1 < i) /\ (a - 1) + 1 = a
        BY <1>1, <3>2
      <4>2. r[a - 1] = s[a]
        BY <1>4, <4>1
      <4> QED
        BY <1>4, <4>1, <4>2 DEF ToSet
    <3> QED
      BY <1>1, <2>2, <3>1, <3>2
  <2> QED
    BY <2>1, <2>2 DEF ToSet
<1>7. Without(r, s, s[i])
  BY <1>5, <1>6 DEF Without
<1> QED
  BY <1>4, <1>7 DEF RemoveAt, r, p, q

\* Whatever timers are cancelled, the others stay as they are.
LEMMA DisarmIs ==
    ASSUME NEW S, timers \in Seq(S), Distinct(timers), NEW t
    PROVE  Disarm(t) \in Seq(S) /\ Without(Disarm(t), timers, t)
<1>1. Len(timers) \in Nat /\ DOMAIN timers = 1 .. Len(timers)
  BY LenProperties
<1> DEFINE I == {i \in 1 .. Len(timers) : timers[i] = t}
<1>2. CASE I = {}
  <2>1. Disarm(t) = timers
    BY <1>2 DEF Disarm, RemoveFirst
  <2>2. t \notin ToSet(timers)
    BY <1>1, <1>2 DEF ToSet
  <2>3. Without(timers, timers, t)
    <3> DEFINE h == [a \in DOMAIN timers |-> a]
    <3>1. h \in [DOMAIN timers -> DOMAIN timers] /\ \A a \in DOMAIN timers : h[a] = a
      OBVIOUS
    <3> QED
      BY <2>2, <3>1 DEF Without
  <2> QED
    BY <2>1, <2>3
<1>3. CASE I # {}
  <2>1. Disarm(t) = RemoveAt(timers, SelectInSeq(timers, LAMBDA v : v = t))
    BY <1>3 DEF Disarm, RemoveFirst
  <2>2. SelectInSeq(timers, LAMBDA v : v = t) = Min(I)
    BY <1>3 DEF SelectInSeq
  <2>3. Disarm(t) = RemoveAt(timers, Min(I))
    BY <2>1, <2>2, Zenon
  <2>4. Min(I) \in I
    <3>1. I \in SUBSET Nat
      BY <1>1
    <3> HIDE DEF I
    <3>2. \E n \in I : \A m \in I : n <= m
      BY <1>3, <3>1, Least
    <3> QED
      BY <3>2 DEF Min
  <2>5. Min(I) \in 1 .. Len(timers) /\ timers[Min(I)] = t
    BY <2>4
  <2> HIDE DEF I
  <2> QED
    BY <2>3, <2>5, RemoveAtWithout
<1> QED
  BY <1>2, <1>3

\* So it is with the first, when it expires.
LEMMA TailIs ==
    ASSUME NEW S, timers \in Seq(S), Distinct(timers), timers # <<>>
    PROVE  Tail(timers) \in Seq(S) /\ Without(Tail(timers), timers, Head(timers))
<1>1. Len(timers) \in Nat \ {0} /\ DOMAIN timers = 1 .. Len(timers)
  BY LenProperties, EmptySeq
<1>2. /\ Tail(timers) \in Seq(S) /\ Len(Tail(timers)) = Len(timers) - 1
      /\ DOMAIN Tail(timers) = 1 .. Len(timers) - 1 /\ Head(timers) = timers[1]
      /\ \A a \in 1 .. Len(timers) - 1 : Tail(timers)[a] = timers[a + 1]
  <2>1. /\ Tail(timers) \in Seq(S) /\ Len(Tail(timers)) = Len(timers) - 1
        /\ \A a \in 1 .. Len(Tail(timers)) : Tail(timers)[a] = timers[a + 1]
    BY HeadTailProperties
  <2> QED
    BY <2>1, LenProperties
<1> DEFINE r == Tail(timers)
           h == [a \in 1 .. Len(timers) - 1 |-> a + 1]
<1>3. /\ h \in [DOMAIN r -> DOMAIN timers] /\ \A a \in DOMAIN r : r[a] = timers[h[a]]
      /\ \A a, b \in DOMAIN r : a < b => h[a] < h[b]
  BY <1>1, <1>2
<1>4. ToSet(r) = ToSet(timers) \ {timers[1]}
  <2>1. ASSUME NEW a \in DOMAIN r PROVE r[a] \in ToSet(timers) \ {timers[1]}
    BY <1>1, <1>2, <2>1 DEF ToSet, Distinct
  <2>2. ASSUME NEW a \in DOMAIN timers, timers[a] # timers[1] PROVE timers[a] \in ToSet(r)
    <3>1. a - 1 \in 1 .. Len(timers) - 1 /\ (a - 1) + 1 = a
      BY <1>1, <2>2
    <3>2. r[a - 1] = timers[a]
      BY <1>2, <3>1
    <3> QED
      BY <1>2, <3>1, <3>2 DEF ToSet
  <2> QED
    BY <2>1, <2>2 DEF ToSet
<1> QED
  BY <1>2, <1>3, <1>4 DEF Without

\* What r keeps of s.
LEMMA WithoutKeeps ==
    ASSUME NEW S, NEW s \in Seq(S), Distinct(s), NEW r \in Seq(S), NEW t, Without(r, s, t)
    PROVE  /\ Distinct(r) /\ ToSet(r) = ToSet(s) \ {t}
           /\ \A x, C : Before(s, x, C) => Before(r, x, C)
<1>1. \A a \in DOMAIN s : a \in Nat
  BY LenProperties
<1>2. \A a \in DOMAIN r : a \in Nat
  BY LenProperties
<1>3. PICK h \in [DOMAIN r -> DOMAIN s] :
          /\ \A a \in DOMAIN r : r[a] = s[h[a]]
          /\ \A a, b \in DOMAIN r : a < b => h[a] < h[b]
  BY DEF Without
<1>4. \A a \in DOMAIN r : h[a] \in DOMAIN s /\ h[a] \in Nat
  BY <1>1, <1>3
<1>5. \A a, b \in DOMAIN r : h[a] < h[b] => a < b
  BY <1>2, <1>3, <1>4
<1>6. Distinct(r)
  <2> SUFFICES ASSUME NEW a \in DOMAIN r, NEW b \in DOMAIN r, r[a] = r[b] PROVE a = b
    BY DEF Distinct
  <2>1. h[a] = h[b]
    BY <1>3, <1>4 DEF Distinct
  <2> QED
    BY <1>2, <1>3, <1>4, <2>1
<1>7. ASSUME NEW x, NEW C, Before(s, x, C),
             NEW a \in DOMAIN r, NEW b \in DOMAIN r, r[a] = x, r[b] \in C
      PROVE  a < b
  BY <1>3, <1>4, <1>5, <1>7 DEF Before
<1> QED
  BY <1>6, <1>7 DEF Without, Before

\* A sequence of elements of S is one of any larger set's.
LEMMA SeqSubset ==
    ASSUME NEW S, NEW T, S \subseteq T, NEW s \in Seq(S)
    PROVE  s \in Seq(T)
<1>1. Len(s) \in Nat /\ s \in [1 .. Len(s) -> S]
  BY LenProperties
<1> QED
  BY <1>1, FunctionSeq

\* A sequence is one of its own elements.
LEMMA ElementsOf ==
    ASSUME NEW S, NEW s \in Seq(S)
    PROVE  s \in Seq(ToSet(s)) /\ ToSet(s) \subseteq S
<1>1. Len(s) \in Nat /\ DOMAIN s = 1 .. Len(s) /\ s \in [1 .. Len(s) -> S]
  BY LenProperties
<1>2. s \in [1 .. Len(s) -> ToSet(s)] /\ ToSet(s) \subseteq S
  BY <1>1 DEF ToSet
<1> QED
  BY <1>1, <1>2, FunctionSeq

\* One more at the end.
LEMMA AppendElements ==
    ASSUME NEW S, NEW s \in Seq(S), NEW x \in S
    PROVE  /\ Append(s, x) \in Seq(S) /\ Len(Append(s, x)) = Len(s) + 1
           /\ DOMAIN s = 1 .. Len(s) /\ Len(s) \in Nat
           /\ DOMAIN Append(s, x) = 1 .. Len(s) + 1
           /\ \A a \in 1 .. Len(s) : Append(s, x)[a] = s[a]
           /\ Append(s, x)[Len(s) + 1] = x
           /\ ToSet(Append(s, x)) = ToSet(s) \union {x}
           /\ Distinct(s) /\ x \notin ToSet(s) => Distinct(Append(s, x))
<1> DEFINE r == Append(s, x)
<1>1. /\ r \in Seq(S) /\ Len(r) = Len(s) + 1 /\ DOMAIN s = 1 .. Len(s) /\ Len(s) \in Nat
      /\ DOMAIN r = 1 .. Len(s) + 1 /\ \A a \in 1 .. Len(s) : r[a] = s[a]
      /\ r[Len(s) + 1] = x
  BY AppendProperties, LenProperties
<1> HIDE DEF r
<1>2. ToSet(r) = ToSet(s) \union {x}
  <2>1. \A a \in DOMAIN r : a \in DOMAIN s \/ a = Len(s) + 1
    BY <1>1
  <2>2. DOMAIN s \subseteq DOMAIN r /\ Len(s) + 1 \in DOMAIN r
    BY <1>1
  <2> QED
    BY <1>1, <2>1, <2>2 DEF ToSet
<1>3. ASSUME Distinct(s), x \notin ToSet(s) PROVE Distinct(r)
  <2> SUFFICES ASSUME NEW a \in DOMAIN r, NEW b \in DOMAIN r, r[a] = r[b] PROVE a = b
    BY DEF Distinct
  <2>1. CASE a \in 1 .. Len(s) /\ b \in 1 .. Len(s)
    BY <1>1, <1>3, <2>1 DEF Distinct
  <2>2. CASE a = Len(s) + 1 /\ b \in 1 .. Len(s)
    BY <1>1, <1>3, <2>2 DEF ToSet
  <2>3. CASE b = Len(s) + 1 /\ a \in 1 .. Len(s)
    BY <1>1, <1>3, <2>3 DEF ToSet
  <2>4. CASE a = Len(s) + 1 /\ b = Len(s) + 1
    BY <2>4
  <2> QED
    BY <1>1, <2>1, <2>2, <2>3, <2>4
<1> QED
  BY <1>1, <1>2, <1>3 DEF r

---------------------------------------------------------------------------
(* The remote side and the user greenlet.                                  *)

\* There is nothing in the call of an idle user greenlet.
LEMMA IdleIs ==
    /\ Idle \in Call /\ Idle.pc = "idle" /\ Idle.cmds = <<>> /\ Len(Idle.cmds) = 0
    /\ DOMAIN Idle.cmds = {} /\ Idle.outs = <<>> /\ ~Idle.waits /\ ~Idle.blocked
  BY EmptySeq DEF Idle, Call

\* Nothing has been joined.
LEMMA InitJoinInv == Init => JoinInv
<1> SUFFICES ASSUME Init PROVE JoinInv
  OBVIOUS
<1>1. Len(joiners) = 0 /\ joiners \in Seq(Joiner) /\ DOMAIN timers = {} /\ ToSet(timers) = {}
      /\ timers \in Seq({Main} \union 1 .. Len(joiners))
  BY EmptySeq DEF Init, ToSet
<1>2. JoinTypes
  BY <1>1, IdleIs, JoinAssumption DEF Init, JoinTypes
<1>3. Waited
  BY <1>1 DEF Waited
<1>4. Armed
  BY <1>1, IdleIs DEF Armed, Distinct, Init
<1>5. Joining
  <2>1. call.cmds \in Seq(1 .. Len(joiners)) /\ Increasing(call.cmds)
    BY IdleIs, EmptySeq DEF Init, Increasing
  <2>2. Len(call.cmds) <= Len(call.outs)
    BY IdleIs, EmptySeq DEF Init
  <2> QED
    BY <2>1, <2>2, IdleIs DEF Joining, Init
<1>6. Seen
  BY IdleIs DEF Seen, Init
<1>7. Outcome
  BY DEF Outcome, Init, NoOutcome, ReturnedMeansClosed, TimeoutPartitions,
         BareTimeoutOnlyIfBlocked
<1> QED
  BY <1>2, <1>3, <1>4, <1>5, <1>6, <1>7 DEF JoinInv

\* An exit that nobody has waited for yet changes nothing of a join.
LEMMA ExitPreserves ==
    ASSUME JoinInv, NEW o \in Output, Exit(o)
    PROVE  JoinInv'
<1>1. /\ o \in Started /\ exited' = exited \union {o}
      /\ UNCHANGED <<failed, closed, joiners, timers, call, seen, outcome, joins>>
  BY DEF Exit
<1>2. JoinTypes'
  BY <1>1 DEF JoinInv, JoinTypes, Started
<1>3. Waited' /\ Armed' /\ Joining'
  BY <1>1 DEF JoinInv, Waited, Armed, Joining
<1>4. Seen' /\ Outcome'
  BY <1>1 DEF JoinInv, Seen, Ended, Outcome, ReturnedMeansClosed, TimeoutPartitions,
              BareTimeoutOnlyIfBlocked
<1> QED
  BY <1>2, <1>3, <1>4 DEF JoinInv

\* There is a sequence of the elements of any set of outputs.
LEMMA SetToSeqIs ==
    ASSUME NEW S \in SUBSET Output
    PROVE  SetToSeq(S) \in Seq(Output)
<1>1. Outputs \in Nat
  BY JoinAssumption
<1>2. IsFiniteSet(S)
  <2>1. IsFiniteSet(1 .. Outputs)
    BY <1>1, FS_Interval
  <2> QED
    BY <2>1, FS_Subset DEF Output
<1>3. Cardinality(S) \in Nat /\ \E f : f \in Bijection(1 .. Cardinality(S), S)
  BY <1>2, FS_CardinalityType DEF ExistsBijection
<1>4. \E f : f \in [1 .. Cardinality(S) -> S] /\ IsInjective(f)
  <2>1. PICK f : f \in Bijection(1 .. Cardinality(S), S)
    BY <1>3
  <2>2. f \in [1 .. Cardinality(S) -> S] /\ IsInjective(f)
    BY <2>1 DEF Bijection, Injection, IsInjective
  <2> QED
    BY <2>2
<1>5. SetToSeq(S) \in [1 .. Cardinality(S) -> S]
  BY <1>4 DEF SetToSeq
<1>6. SetToSeq(S) \in Seq(S)
  BY <1>3, <1>5, FunctionSeq
<1> QED
  BY <1>6, SeqSubset

\* A join begins without greenlets.
LEMMA BeginPreserves ==
    ASSUME JoinInv, NEW kind \in {"output", "shell"}, NEW outs \in Seq(Output),
           NEW timed \in BOOLEAN, NEW consume \in BOOLEAN, Begin(kind, outs, timed, consume)
    PROVE  JoinInv'
<1>1. /\ JoinTypes /\ Waited /\ Armed /\ Joining
      /\ call.pc = "idle" /\ joins < MaxJoins /\ joins' = joins + 1
      /\ outcome' = NoOutcome /\ seen' = <<>>
      /\ UNCHANGED <<failed, exited, closed, joiners, timers>>
  BY DEF JoinInv, Begin
<1>2. /\ call' \in Call /\ call'.pc = "spawning" /\ call'.cmds = <<>> /\ ~call'.waits
      /\ call'.outs = outs
  <2>1. call' = [Idle EXCEPT !.pc = "spawning", !.kind = kind, !.outs = outs,
                             !.timed = timed, !.consume = consume]
    BY DEF Begin
  <2> QED
    BY <2>1, IdleIs DEF Call
<1>3. JoinTypes'
  BY <1>1, <1>2, JoinAssumption DEF JoinTypes, Started
<1>4. Waited' /\ Armed'
  BY <1>1, <1>2 DEF Waited, Armed
<1>5. Joining'
  <2>1. DOMAIN call'.cmds = {} /\ Len(call'.cmds) = 0 /\ Len(outs) \in Nat
    BY <1>2, EmptySeq, LenProperties
  <2>2. call'.cmds \in Seq(1 .. Len(joiners')) /\ Increasing(call'.cmds)
    BY <1>2, <2>1, EmptySeq DEF Increasing
  <2> QED
    BY <1>2, <2>1, <2>2 DEF Joining
<1>6. Seen' /\ Outcome'
  BY <1>1, <1>2 DEF Seen, Outcome, NoOutcome, ReturnedMeansClosed, TimeoutPartitions,
                    BareTimeoutOnlyIfBlocked
<1> QED
  BY <1>3, <1>4, <1>5, <1>6 DEF JoinInv

\* It is for all outputs, those last named unfinished, or all shells.
LEMMA UserCallPreserves ==
    ASSUME JoinInv, UserCall
    PROVE  JoinInv'
<1>1. [o \in Output |-> o] \in Seq(Output)
  BY JoinAssumption, FunctionSeq DEF Output
<1>2. SetToSeq(outcome.unfinished) \in Seq(Output)
  BY SetToSeqIs DEF JoinInv, Outcome
<1>3. ASSUME NEW timed \in BOOLEAN, JoinShells(timed) PROVE JoinInv'
  <2>1. Begin("shell", [o \in Output |-> o], timed, FALSE)
    BY <1>3 DEF JoinShells
  <2> QED
    BY <1>1, <2>1, BeginPreserves
<1>4. ASSUME NEW timed \in BOOLEAN, NEW consume \in BOOLEAN, Join(timed, consume)
      PROVE  JoinInv'
  <2>1. PICK outs \in {[o \in Output |-> o], SetToSeq(outcome.unfinished)} :
            Begin("output", outs, timed, consume)
    BY <1>4 DEF Join
  <2>2. outs \in Seq(Output)
    BY <1>1, <1>2
  <2> QED
    BY <2>1, <2>2, BeginPreserves
<1> QED
  BY <1>3, <1>4 DEF UserCall

\* What waits for a slot has waited for one.
LEMMA BlockPreserves ==
    ASSUME JoinInv, Block
    PROVE  JoinInv'
<1>1. /\ call.pc = "spawning" /\ call' = [call EXCEPT !.waits = TRUE, !.blocked = TRUE]
      /\ UNCHANGED <<failed, exited, closed, joiners, timers, seen, outcome, joins>>
  BY DEF Block
<1>2. /\ call' \in Call /\ call'.waits /\ call'.blocked
      /\ call'.pc = call.pc /\ call'.kind = call.kind /\ call'.outs = call.outs
      /\ call'.cmds = call.cmds /\ call'.timed = call.timed /\ call'.consume = call.consume
  BY <1>1 DEF JoinInv, JoinTypes, Call
<1>3. JoinTypes' /\ Waited' /\ Armed'
  BY <1>1, <1>2 DEF JoinInv, JoinTypes, Started, Waited, Armed
<1>4. Joining'
  BY <1>1, <1>2 DEF JoinInv, Joining
<1>5. Seen' /\ Outcome'
  BY <1>1, <1>2 DEF JoinInv, Seen, Ended, Outcome, ReturnedMeansClosed, TimeoutPartitions,
                    BareTimeoutOnlyIfBlocked
<1> QED
  BY <1>3, <1>4, <1>5 DEF JoinInv

\* pool.spawn adds a greenlet for the next output, which has not run.
LEMMA SpawnPreserves ==
    ASSUME JoinInv, Spawn
    PROVE  JoinInv'
<1> DEFINE n == Len(joiners)
           i == Len(call.cmds) + 1
           new == [out |-> call.outs[i], pc |-> "new", shell |-> call.kind = "shell",
                   timed |-> call.timed /\ call.kind = "output", consume |-> call.consume]
           cmds == Append(call.cmds, n + 1)
<1>1. /\ JoinTypes /\ Waited /\ Armed /\ Joining /\ Seen /\ Outcome
      /\ n \in Nat /\ Len(call.cmds) \in Nat /\ Len(call.outs) \in Nat
      /\ call.cmds \in Seq(1 .. n)
  BY LenProperties DEF JoinInv, JoinTypes, Joining, Call
<1>2. /\ call.pc = "spawning" /\ i <= Len(call.outs)
      /\ UNCHANGED <<failed, exited, closed, timers, seen, outcome, joins>>
  BY <1>1 DEF Spawn, Spawned, Joining
<1>3. new \in Joiner
  <2>1. call.outs[i] \in Output
    BY <1>1, <1>2, ElementOfSeq DEF JoinTypes, Call
  <2>2. (call.kind = "shell") \in BOOLEAN
    OBVIOUS
  <2>3. (call.timed /\ call.kind = "output") \in BOOLEAN
    OBVIOUS
  <2>4. call.consume \in BOOLEAN
    BY <1>1 DEF JoinTypes, Call
  <2> QED
    BY <2>1, <2>2, <2>3, <2>4 DEF Joiner
<1>4. /\ new.out = call.outs[i] /\ new.pc = "new" /\ new.shell = (call.kind = "shell")
      /\ new.timed => call.timed
      /\ new.consume => call.consume
  OBVIOUS
<1> HIDE DEF new
<1>5. joiners' = Append(joiners, new)
  BY DEF Spawn, new
<1>6. /\ joiners' \in Seq(Joiner) /\ Len(joiners') = n + 1
      /\ joiners'[n + 1] = new /\ \A j \in 1 .. n : joiners'[j] = joiners[j]
      /\ DOMAIN joiners' = 1 .. n + 1
  BY <1>1, <1>3, <1>5, AppendProperties, LenProperties DEF JoinTypes
<1>7. call' = [call EXCEPT !.cmds = cmds, !.waits = FALSE]
  BY <1>6 DEF Spawn
<1>8. call.cmds \in Seq(1 .. n + 1) /\ n + 1 \in 1 .. n + 1
  <2>1. 1 .. n \subseteq 1 .. n + 1
    BY <1>1
  <2> QED
    BY <1>1, <2>1, SeqSubset
<1>9. /\ cmds \in Seq(1 .. n + 1) /\ Len(cmds) = i /\ DOMAIN cmds = 1 .. i
      /\ cmds[i] = n + 1 /\ DOMAIN call.cmds = 1 .. Len(call.cmds)
      /\ \A a \in 1 .. Len(call.cmds) : cmds[a] = call.cmds[a] /\ call.cmds[a] \in 1 .. n
  BY <1>1, <1>8, AppendElements, ElementOfSeq
<1> HIDE DEF cmds
<1>10. /\ call' \in Call /\ ~call'.waits /\ call'.cmds = cmds
       /\ call'.pc = call.pc /\ call'.kind = call.kind /\ call'.outs = call.outs
       /\ call'.timed = call.timed /\ call'.consume = call.consume
       /\ call'.blocked = call.blocked
  <2>1. cmds \in Seq(Nat)
    <3>1. 1 .. n + 1 \subseteq Nat
      BY <1>1
    <3> QED
      BY <1>9, <3>1, SeqSubset
  <2> QED
    BY <1>1, <1>7, <2>1 DEF JoinTypes, Call
<1>11. JoinTypes'
  BY <1>1, <1>2, <1>6, <1>10 DEF JoinTypes, Started
<1>12. \A j \in 1 .. n + 1 : j \in 1 .. n \/ j = n + 1
  BY <1>1
<1>13. Waited'
  <2> SUFFICES ASSUME NEW j \in 1 .. n + 1 PROVE
          /\ joiners'[j].pc = "consuming" => joiners'[j].consume
          /\ joiners'[j].pc \in {"done", "consuming"} =>
              joiners'[j].out \in closed \/ (joiners'[j].out \in failed /\ ~joiners'[j].shell)
    BY <1>2, <1>6 DEF Waited
  <2>1. CASE j \in 1 .. n
    BY <1>1, <1>6, <2>1 DEF Waited
  <2>2. CASE j = n + 1
    BY <1>4, <1>6, <2>2
  <2> QED
    BY <1>12, <2>1, <2>2
<1>14. Armed'
  <2>1. timers' \in Seq({Main} \union 1 .. Len(joiners'))
    <3>1. {Main} \union 1 .. n \subseteq {Main} \union 1 .. n + 1
      BY <1>1
    <3> QED
      BY <1>1, <1>2, <1>6, <3>1, SeqSubset DEF Armed
  <2>2. ToSet(timers) \ {Main} \subseteq 1 .. n
    BY <1>1, ElementsOf DEF Armed
  <2> QED
    BY <1>1, <1>2, <1>6, <1>10, <2>1, <2>2 DEF Armed
<1>15. Joining'
  <2>1. Increasing(cmds)
    <3> SUFFICES ASSUME NEW a \in 1 .. i, NEW b \in 1 .. i, a < b PROVE cmds[a] < cmds[b]
      BY <1>9 DEF Increasing
    <3>1. a \in 1 .. Len(call.cmds) /\ (b \in 1 .. Len(call.cmds) \/ b = i)
      BY <1>1
    <3>2. CASE b \in 1 .. Len(call.cmds)
      <4>1. call.cmds[a] < call.cmds[b]
        BY <1>1, <1>9, <3>1, <3>2 DEF Joining, Increasing
      <4> QED
        BY <1>9, <3>1, <3>2, <4>1
    <3>3. CASE b = i
      <4>1. cmds[a] \in 1 .. n /\ cmds[b] = n + 1
        BY <1>9, <3>1, <3>3
      <4> QED
        BY <1>1, <4>1
    <3> QED
      BY <3>1, <3>2, <3>3
  <2>2. ASSUME NEW a \in DOMAIN cmds
        PROVE  LET j == joiners'[cmds[a]] IN
               /\ j.out = call.outs[a] /\ j.shell = (call.kind = "shell")
               /\ j.timed => call.timed
               /\ j.consume => call.consume
               /\ j.pc = "timeout" => call.blocked \/ call.consume
               /\ call.pc = "spawning" /\ ~call.blocked => j.pc = "new"
    <3>1. CASE a \in 1 .. Len(call.cmds)
      <4>1. joiners'[cmds[a]] = joiners[call.cmds[a]] /\ a \in DOMAIN call.cmds
        BY <1>6, <1>9, <3>1
      <4> QED
        BY <1>1, <4>1 DEF Joining
    <3>2. CASE a = i
      BY <1>4, <1>6, <1>9, <3>2
    <3> QED
      BY <1>1, <1>9, <3>1, <3>2
  <2>3. Len(cmds) <= Len(call.outs)
    BY <1>2, <1>9
  <2>4. call'.cmds \in Seq(1 .. Len(joiners'))
    BY <1>6, <1>9, <1>10
  <2> QED
    BY <1>2, <1>10, <2>1, <2>2, <2>3, <2>4 DEF Joining
<1>16. Seen' /\ Outcome'
  BY <1>1, <1>2, <1>10 DEF Seen, Outcome, ReturnedMeansClosed, TimeoutPartitions,
                           BareTimeoutOnlyIfBlocked
<1> QED
  BY <1>11, <1>13, <1>14, <1>15, <1>16 DEF JoinInv

\* joinall arms the join's timer before those of the greenlets it starts with.
LEMMA StartJoinallPreserves ==
    ASSUME JoinInv, StartJoinall
    PROVE  JoinInv'
<1> DEFINE n == Len(joiners)
           S == {j \in ToSet(call.cmds) : Ended(j)}
<1>1. /\ JoinTypes /\ Waited /\ Armed /\ Joining /\ Outcome
      /\ n \in Nat /\ call.cmds \in Seq(1 .. n) /\ Increasing(call.cmds)
  BY LenProperties DEF JoinInv, JoinTypes, Joining
<1>2. /\ call.pc = "spawning" /\ Len(call.cmds) = Len(call.outs)
      /\ timers' = IF call.timed THEN Append(timers, Main) ELSE timers
      /\ call' = [call EXCEPT !.pc = "joining"] /\ seen' \in InOrder(S)
      /\ UNCHANGED <<failed, exited, closed, joiners, outcome, joins>>
  BY DEF StartJoinall, ArmMain, Spawned
<1>3. /\ call' \in Call /\ call'.pc = "joining" /\ call'.kind = call.kind
      /\ call'.outs = call.outs /\ call'.cmds = call.cmds /\ call'.timed = call.timed
      /\ call'.consume = call.consume /\ call'.waits = call.waits
      /\ call'.blocked = call.blocked
  BY <1>1, <1>2 DEF JoinTypes, Call
<1>4. JoinTypes' /\ Waited'
  BY <1>1, <1>2, <1>3 DEF JoinTypes, Started, Waited
<1>5. /\ timers \in Seq({Main} \union 1 .. n) /\ Main \in {Main} \union 1 .. n
      /\ Main \notin ToSet(timers) /\ Distinct(timers)
  BY <1>1, <1>2 DEF Armed
<1>6. /\ timers' \in Seq({Main} \union 1 .. n) /\ Distinct(timers')
      /\ ToSet(timers') = IF call.timed THEN ToSet(timers) \union {Main} ELSE ToSet(timers)
  <2>1. CASE call.timed
    BY <1>2, <1>5, <2>1, AppendElements
  <2>2. CASE ~call.timed
    BY <1>2, <1>5, <2>2
  <2> QED
    BY <2>1, <2>2
<1>7. Armed'
  BY <1>1, <1>2, <1>3, <1>5, <1>6 DEF Armed
<1>8. Joining'
  <2>1. ASSUME ~call.blocked, NEW a \in DOMAIN timers', NEW b \in DOMAIN timers',
               timers'[a] = Main, timers'[b] \in ToSet(call.cmds)
        PROVE  FALSE
    <3>1. timers'[b] \in 1 .. n /\ timers'[b] # Main
      BY <1>1, <2>1, ElementsOf DEF Main
    <3>2. timers'[b] \in ToSet(timers)
      BY <1>6, <2>1, <3>1 DEF ToSet
    <3>3. joiners[timers'[b]].pc = "waiting"
      BY <1>1, <3>1, <3>2 DEF Armed
    <3>4. PICK c \in DOMAIN call.cmds : call.cmds[c] = timers'[b]
      BY <2>1 DEF ToSet
    <3>5. joiners[call.cmds[c]].pc = "new"
      BY <1>1, <1>2, <2>1 DEF Joining
    <3> QED
      BY <3>3, <3>4, <3>5
  <2> QED
    BY <1>1, <1>2, <1>3, <2>1 DEF Joining, Before
<1>9. Seen'
  <2>1. S \in SUBSET Nat
    BY <1>1, ElementsOf
  <2>2. IsFiniteSet(S)
    <3>1. 1 .. n \subseteq Nat
      BY <1>1
    <3>2. call.cmds \in Seq(Nat)
      BY <1>1, <3>1, SeqSubset
    <3>3. IsFiniteSet(ToSet(call.cmds))
      BY <1>1, <3>2, IncreasingDistinct, DistinctLen
    <3> QED
      BY <3>3, FS_Subset
  <2>3. S \subseteq ToSet(call.cmds) /\ \A j \in S : Ended(j)
    OBVIOUS
  <2> HIDE DEF S
  <2>4. seen' \in Seq(S) /\ Distinct(seen') /\ ToSet(seen') = S
    BY <1>2, <2>1, <2>2, InOrderIs
  <2>5. seen' \in Seq(ToSet(call.cmds))
    BY <2>3, <2>4, SeqSubset
  <2>6. \A a \in DOMAIN seen' : seen'[a] \in S
    BY <2>4 DEF ToSet
  <2> QED
    BY <1>2, <1>3, <2>3, <2>4, <2>5, <2>6 DEF Seen, Ended
<1>10. Outcome'
  BY <1>1, <1>2 DEF Outcome, ReturnedMeansClosed, TimeoutPartitions, BareTimeoutOnlyIfBlocked
<1> QED
  BY <1>4, <1>7, <1>8, <1>9, <1>10 DEF JoinInv

\* When the call is over nothing refers to it any more, and its timer is gone.
LEMMA ReplyPreserves ==
    ASSUME JoinInv, call' = Idle, Outcome', timers' \in Seq({Main} \union 1 .. Len(joiners)),
           Without(timers', timers, Main),
           UNCHANGED <<failed, exited, closed, joiners, seen, joins>>
    PROVE  JoinInv'
<1>1. JoinTypes /\ Waited /\ Armed
  BY DEF JoinInv
<1>2. Distinct(timers') /\ ToSet(timers') = ToSet(timers) \ {Main}
  BY <1>1, WithoutKeeps DEF Armed
<1>3. JoinTypes' /\ Waited'
  BY <1>1, IdleIs DEF JoinTypes, Started, Waited
<1>4. Armed'
  BY <1>1, <1>2, IdleIs DEF Armed
<1>5. Joining'
  <2>1. call'.cmds \in Seq(1 .. Len(joiners')) /\ Increasing(call'.cmds)
    BY IdleIs, EmptySeq DEF Increasing
  <2>2. Len(call'.cmds) = Len(call'.outs) /\ Len(call'.cmds) = 0
    BY IdleIs
  <2> QED
    BY <2>1, <2>2, IdleIs DEF Joining
<1>6. Seen'
  BY IdleIs DEF Seen
<1> QED
  BY <1>3, <1>4, <1>5, <1>6 DEF JoinInv

\* What joinall raises is what a greenlet of this join has raised.
LEMMA RaiseErrorPreserves ==
    ASSUME JoinInv, RaiseError
    PROVE  JoinInv'
<1>1. /\ JoinTypes /\ Armed /\ Joining /\ Seen /\ call.pc = "joining"
      /\ timers' = Disarm(Main)
  BY DEF JoinInv, RaiseError
<1>2. PICK i \in DOMAIN seen :
          /\ seen[i] \in Errors
          /\ Reply(IF joiners[seen[i]].pc = "timeout" THEN "bare timeout" ELSE "error", <<>>, {})
  BY DEF RaiseError
<1>3. /\ outcome'.kind = IF joiners[seen[i]].pc = "timeout" THEN "bare timeout" ELSE "error"
      /\ outcome'.call = call /\ outcome'.unfinished = {} /\ call' = Idle
      /\ UNCHANGED <<failed, exited, closed, joiners, seen, joins>>
  BY <1>2 DEF Reply
<1>4. joiners[seen[i]].pc = "timeout" => call.blocked \/ call.consume
  <2>1. seen[i] \in ToSet(call.cmds)
    BY <1>1, ElementOfSeq, LenProperties DEF Seen
  <2>2. PICK c \in DOMAIN call.cmds : call.cmds[c] = seen[i]
    BY <2>1 DEF ToSet
  <2> QED
    BY <1>1, <2>2 DEF Joining
<1>5. Outcome'
  BY <1>3, <1>4 DEF Outcome, ReturnedMeansClosed, TimeoutPartitions, BareTimeoutOnlyIfBlocked
<1>6. timers' \in Seq({Main} \union 1 .. Len(joiners)) /\ Without(timers', timers, Main)
  BY <1>1, DisarmIs DEF Armed
<1> QED
  BY <1>3, <1>5, <1>6, ReplyPreserves

\* The output of a greenlet that joinall has seen end, without an error.
LEMMA SeenDone ==
    ASSUME JoinInv, call.pc = "joining", Errors = {}, NEW i \in DOMAIN seen
    PROVE  /\ seen[i] \in ToSet(call.cmds)
           /\ \/ joiners[seen[i]].out \in closed
              \/ joiners[seen[i]].out \in failed /\ ~joiners[seen[i]].shell
<1>1. Waited /\ Joining /\ Seen
  BY DEF JoinInv
<1>2. seen[i] \in ToSet(call.cmds)
  BY <1>1, ElementOfSeq, LenProperties DEF Seen
<1>3. seen[i] \in 1 .. Len(joiners)
  BY <1>1, <1>2, ElementsOf DEF Joining
<1>4. joiners[seen[i]].pc = "done"
  BY DEF Errors, ToSet
<1> QED
  BY <1>1, <1>2, <1>3, <1>4 DEF Waited

\* joinall has seen all of them: each output is that of one.
LEMMA AllClosed ==
    ASSUME JoinInv, call.pc = "joining", Errors = {}, Len(seen) = Len(call.cmds)
    PROVE  ToSet(call.outs) \ failed \subseteq closed
<1>1. JoinTypes /\ Joining /\ Seen
  BY DEF JoinInv
<1>2. ToSet(seen) = ToSet(call.cmds)
  <2>1. call.cmds \in Seq(ToSet(call.cmds)) /\ Distinct(call.cmds)
    <3>1. Len(joiners) \in Nat /\ 1 .. Len(joiners) \subseteq Nat
      BY <1>1, LenProperties DEF JoinTypes
    <3>2. call.cmds \in Seq(Nat)
      BY <1>1, <3>1, SeqSubset DEF Joining
    <3> QED
      BY <1>1, <3>2, ElementsOf, IncreasingDistinct DEF Joining
  <2>2. seen \in Seq(ToSet(call.cmds)) /\ Distinct(seen)
    BY <1>1 DEF Seen
  <2>3. ToSet(seen) \subseteq ToSet(call.cmds)
    BY <2>2, ElementsOf
  <2> QED
    BY <2>1, <2>2, <2>3, DistinctAll
<1>3. DOMAIN call.cmds = DOMAIN call.outs
  BY <1>1, LenProperties DEF Joining, JoinTypes, Call
<1>4. ASSUME NEW a \in DOMAIN call.outs PROVE call.outs[a] \in closed \union failed
  <2>1. PICK i \in DOMAIN seen : seen[i] = call.cmds[a]
    BY <1>2, <1>3 DEF ToSet
  <2>2. joiners[call.cmds[a]].out = call.outs[a]
    BY <1>1, <1>3 DEF Joining
  <2>3. joiners[seen[i]].out \in closed \/ joiners[seen[i]].out \in failed
    BY SeenDone
  <2> QED
    BY <2>1, <2>2, <2>3
<1> QED
  BY <1>4 DEF ToSet

\* What is fetched of the greenlets joinall has seen is None, or closed.
LEMMA FinishedClosed ==
    ASSUME JoinInv, call.pc = "joining", Errors = {}
    PROVE  /\ ToSet(FinishedValues) \ {None} \subseteq closed
           /\ ToSet(call.outs) \ ToSet(FinishedValues) \subseteq Output
           /\ ToSet(call.outs) \ (closed \union failed)
                 \subseteq ToSet(call.outs) \ ToSet(FinishedValues)
<1>1. ASSUME NEW i \in DOMAIN seen PROVE Value(seen[i]) = None \/ Value(seen[i]) \in closed
  BY SeenDone DEF Value
<1>2. ToSet(FinishedValues) \ {None} \subseteq closed
  BY <1>1 DEF FinishedValues, ToSet
<1>3. ToSet(call.outs) \subseteq Output
  BY ElementsOf DEF JoinInv, JoinTypes, Call
<1>4. None \notin Output
  BY JoinAssumption DEF None, Output
<1> QED
  BY <1>2, <1>3, <1>4

\* The three ways in which the rest of join ends.
LEMMA FinishIs ==
    ASSUME JoinInv, call.pc = "joining", Finish, call.kind = "output" => Errors = {},
           Len(seen) = Len(call.cmds) \/ call.timed
    PROVE  /\ Outcome' /\ call' = Idle
           /\ UNCHANGED <<failed, exited, closed, joiners, seen, joins>>
<1>1. call.kind \in {"output", "shell"} /\ call.timed \in BOOLEAN
  BY DEF JoinInv, JoinTypes, Call
<1> DEFINE Replied(kind, finished, unfinished) ==
              outcome' = [kind |-> kind, call |-> call, finished |-> finished,
                          unfinished |-> unfinished]
<1>2. /\ call' = Idle /\ UNCHANGED <<failed, exited, closed, joiners, seen, joins>>
      /\ \/ /\ ~call.timed
            /\ Replied("returned", <<>>, {})
         \/ \E kind \in {"error", "index error"} : Replied(kind, <<>>, {})
         \/ /\ call.timed /\ Errors = {} /\ Len(seen) = Len(call.cmds)
            /\ Replied("returned", FinishedValues, {})
         \/ /\ Errors = {}
            /\ Replied("timeout", FinishedValues, ToSet(call.outs) \ ToSet(FinishedValues))
  <2>1. CASE ~call.timed
    BY <2>1 DEF Finish, Reply
  <2>2. CASE call.timed /\ call.kind = "shell" /\ Errors # {}
    BY <2>2 DEF Finish, Reply
  <2>3. CASE call.timed /\ Errors = {} /\ Len(seen) = Len(call.cmds)
    BY <2>3 DEF Finish, Reply
  <2>4. CASE call.timed /\ Errors = {} /\ Len(seen) # Len(call.cmds)
    <3>1. PICK removed \in Removals :
              IF call.kind = "output" /\ Len(seen) > Outputs - removed
              THEN Reply("index error", <<>>, {})
              ELSE Reply("timeout", FinishedValues, ToSet(call.outs) \ ToSet(FinishedValues))
      BY <2>4 DEF Finish
    <3> QED
      BY <2>4, <3>1 DEF Reply
  <2> QED
    BY <1>1, <2>1, <2>2, <2>3, <2>4
<1>3. Outcome'
  <2>1. CASE ~call.timed /\ Replied("returned", <<>>, {})
    <3>1. call.kind = "output" => ToSet(call.outs) \ failed \subseteq closed
      BY <2>1, AllClosed
    <3> QED
      BY <1>2, <2>1, <3>1 DEF Outcome, ReturnedMeansClosed, TimeoutPartitions,
                              BareTimeoutOnlyIfBlocked
  <2>2. CASE \E kind \in {"error", "index error"} : Replied(kind, <<>>, {})
    <3>1. outcome'.kind \in {"error", "index error"} /\ outcome'.unfinished = {}
      <4>1. PICK kind \in {"error", "index error"} : Replied(kind, <<>>, {})
        BY <2>2, Zenon
      <4>2. outcome'.kind = kind /\ outcome'.unfinished = {}
        BY <4>1
      <4> QED
        BY <4>2
    <3>2. ~(outcome'.kind \in {"returned", "timeout", "bare timeout"})
      BY <3>1
    <3> QED
      BY <3>1, <3>2 DEF Outcome, ReturnedMeansClosed, TimeoutPartitions,
                        BareTimeoutOnlyIfBlocked
  <2>3. CASE /\ Errors = {} /\ Len(seen) = Len(call.cmds)
             /\ Replied("returned", FinishedValues, {})
    <3>1. ToSet(call.outs) \ failed \subseteq closed
      BY <2>3, AllClosed
    <3> QED
      BY <1>2, <2>3, <3>1 DEF Outcome, ReturnedMeansClosed, TimeoutPartitions,
                              BareTimeoutOnlyIfBlocked
  <2>4. CASE /\ Errors = {}
             /\ Replied("timeout", FinishedValues, ToSet(call.outs) \ ToSet(FinishedValues))
    <3>1. /\ ToSet(FinishedValues) \ {None} \subseteq closed
          /\ ToSet(call.outs) \ ToSet(FinishedValues) \subseteq Output
          /\ ToSet(call.outs) \ (closed \union failed)
                 \subseteq ToSet(call.outs) \ ToSet(FinishedValues)
      BY <2>4, FinishedClosed
    <3> QED
      BY <1>2, <2>4, <3>1 DEF Outcome, ReturnedMeansClosed, TimeoutPartitions,
                              BareTimeoutOnlyIfBlocked
  <2> QED
    BY <1>2, <2>1, <2>2, <2>3, <2>4
<1> QED
  BY <1>2, <1>3

\* It comes to that when all are seen, or when the join's timer has expired.
LEMMA FinishPreserves ==
    ASSUME JoinInv, AllSeen \/ Expired
    PROVE  JoinInv'
<1>1. Armed /\ call.pc = "joining" /\ Finish /\ (call.kind = "output" => Errors = {})
  BY DEF JoinInv, AllSeen, Expired
<1>2. timers' \in Seq({Main} \union 1 .. Len(joiners)) /\ Without(timers', timers, Main)
  <2>1. CASE AllSeen
    BY <1>1, <2>1, DisarmIs DEF Armed, AllSeen
  <2>2. CASE Expired
    BY <1>1, <2>2, TailIs DEF Armed, Expired
  <2> QED
    BY <2>1, <2>2
<1>3. Len(seen) = Len(call.cmds) \/ call.timed
  <2>1. CASE Expired
    <3>1. Main \in ToSet(timers)
      <4>1. Head(timers) = timers[1] /\ 1 \in DOMAIN timers
        BY <1>1, <2>1, EmptySeq, LenProperties DEF Expired, Armed
      <4> QED
        BY <2>1, <4>1 DEF Expired, ToSet
    <3> QED
      BY <1>1, <3>1 DEF Armed
  <2> QED
    BY <2>1 DEF AllSeen
<1> QED
  BY <1>1, <1>2, <1>3, FinishIs, ReplyPreserves

---------------------------------------------------------------------------
(* The greenlets.                                                          *)

\* What a step of a greenlet changes of the greenlets.
LEMMA ProceedEffect ==
    ASSUME JoinTypes, NEW j \in DOMAIN joiners,
           NEW pc \in {"new", "waiting", "consuming"} \union Ends, Proceed(j, pc)
    PROVE  /\ joiners' \in Seq(Joiner) /\ Len(joiners') = Len(joiners)
           /\ joiners'[j].out = joiners[j].out /\ joiners'[j].shell = joiners[j].shell
           /\ joiners'[j].pc = pc
           /\ joiners'[j].timed => joiners[j].timed
           /\ joiners'[j].consume => joiners[j].consume
           /\ pc \notin Ends => /\ joiners'[j].timed = joiners[j].timed
                                /\ joiners'[j].consume = joiners[j].consume
           /\ \A k \in 1 .. Len(joiners) : k # j => joiners'[k] = joiners[k]
<1> DEFINE new == [joiners[j] EXCEPT !.pc = pc, !.timed = @ /\ pc \notin Ends,
                                     !.consume = @ /\ pc \notin Ends]
<1>1. j \in 1 .. Len(joiners) /\ joiners[j] \in Joiner
  BY LenProperties, ElementOfSeq DEF JoinTypes
<1>2. /\ new \in Joiner /\ new.out = joiners[j].out /\ new.shell = joiners[j].shell
      /\ new.pc = pc /\ new.timed = (joiners[j].timed /\ pc \notin Ends)
      /\ new.consume = (joiners[j].consume /\ pc \notin Ends)
  <2>1. (joiners[j].timed /\ pc \notin Ends) \in BOOLEAN
    OBVIOUS
  <2>2. (joiners[j].consume /\ pc \notin Ends) \in BOOLEAN
    OBVIOUS
  <2> QED
    BY <1>1, <2>1, <2>2 DEF Joiner
<1>3. joiners[j].timed \in BOOLEAN /\ joiners[j].consume \in BOOLEAN
  BY <1>1 DEF Joiner
<1> HIDE DEF new
<1>4. joiners' = [joiners EXCEPT ![j] = new]
  BY DEF Proceed, new
<1>5. /\ joiners' \in Seq(Joiner) /\ Len(joiners') = Len(joiners)
      /\ \A k \in 1 .. Len(joiners) : joiners'[k] = IF k = j THEN new ELSE joiners[k]
  BY <1>1, <1>2, <1>4, ExceptSeq DEF JoinTypes
<1> QED
  BY <1>1, <1>2, <1>3, <1>5

\* A greenlet that proceeds and leaves the timers in order keeps the invariant if what its
\* new state says is so.
LEMMA ProceedPreserves ==
    ASSUME JoinInv, NEW j \in DOMAIN joiners, ~Ended(j), UserWaits,
           NEW pc \in {"waiting", "consuming"} \union Ends, Proceed(j, pc),
           pc = "consuming" => joiners[j].consume,
           pc \in {"done", "consuming"} =>
               joiners[j].out \in closed' \/ (joiners[j].out \in failed /\ ~joiners[j].shell),
           pc = "timeout" => joiners[j].consume
                             \/ (call.pc = "joining" /\ j \in ToSet(call.cmds) => call.blocked),
           closed' \subseteq exited, closed \subseteq closed', Armed',
           call.pc = "joining" /\ ~call.blocked =>
               Before(timers', Main, ToSet(call.cmds)),
           UNCHANGED <<failed, exited, call, outcome, joins>>
    PROVE  JoinInv'
<1>1. /\ JoinTypes /\ Waited /\ Armed /\ Joining /\ Seen /\ Outcome
      /\ j \in 1 .. Len(joiners) /\ Len(joiners) \in Nat
  BY LenProperties DEF JoinInv, JoinTypes
<1>2. /\ joiners' \in Seq(Joiner) /\ Len(joiners') = Len(joiners)
      /\ joiners'[j].out = joiners[j].out /\ joiners'[j].shell = joiners[j].shell
      /\ joiners'[j].pc = pc
      /\ joiners'[j].timed => joiners[j].timed
      /\ joiners'[j].consume => joiners[j].consume
      /\ pc \notin Ends => joiners'[j].consume = joiners[j].consume
      /\ \A k \in 1 .. Len(joiners) : k # j => joiners'[k] = joiners[k]
  BY <1>1, ProceedEffect
<1>3. seen' = IF call.pc = "joining" /\ j \in ToSet(call.cmds) /\ pc \in Ends
              THEN Append(seen, j) ELSE seen
  BY DEF Proceed
<1>4. JoinTypes'
  BY <1>1, <1>2 DEF JoinTypes, Started
<1>5. Waited'
  <2> SUFFICES ASSUME NEW k \in 1 .. Len(joiners) PROVE
          /\ joiners'[k].pc = "consuming" => joiners'[k].consume
          /\ joiners'[k].pc \in {"done", "consuming"} =>
              joiners'[k].out \in closed' \/ (joiners'[k].out \in failed /\ ~joiners'[k].shell)
    BY <1>2 DEF Waited
  <2>1. CASE k = j
    <3>1. pc = "consuming" => joiners'[j].consume
      BY <1>2 DEF Ends
    <3>2. pc \in {"done", "consuming"} =>
             joiners'[j].out \in closed' \/ (joiners'[j].out \in failed /\ ~joiners'[j].shell)
      BY <1>2
    <3> QED
      BY <1>2, <2>1, <3>1, <3>2
  <2>2. CASE k # j
    BY <1>1, <1>2, <2>2 DEF Waited
  <2> QED
    BY <2>1, <2>2
<1>6. Joining'
  <2>1. ASSUME NEW i \in DOMAIN call.cmds
        PROVE  LET k == joiners'[call.cmds[i]] IN
               /\ k.out = call.outs[i] /\ k.shell = (call.kind = "shell")
               /\ k.timed => call.timed
               /\ k.consume => call.consume
               /\ k.pc = "timeout" => call.blocked \/ call.consume
               /\ call.pc = "spawning" /\ ~call.blocked => k.pc = "new"
    <3>1. call.cmds[i] \in 1 .. Len(joiners) /\ call.cmds[i] \in ToSet(call.cmds)
      BY <1>1, ElementOfSeq, LenProperties DEF Joining, ToSet
    <3>2. CASE call.cmds[i] # j
      BY <1>1, <1>2, <3>1, <3>2 DEF Joining
    <3>3. CASE call.cmds[i] = j
      <4>1. ~(call.pc = "spawning" /\ ~call.blocked)
        BY <1>1 DEF UserWaits, Joining
      <4>2. call.pc \in {"spawning", "joining"}
        <5>1. call.pc # "idle"
          BY <1>1, EmptySeq DEF Joining
        <5> QED
          BY <1>1, <5>1 DEF JoinTypes, Call
      <4>3. pc = "timeout" => call.blocked \/ call.consume
        BY <1>1, <3>1, <3>3, <4>1, <4>2 DEF Joining
      <4> QED
        BY <1>1, <1>2, <3>3, <4>1, <4>3 DEF Joining
    <3> QED
      BY <3>2, <3>3
  <2> QED
    BY <1>1, <1>2, <2>1 DEF Joining
<1>7. Seen'
  <2>1. CASE call.pc # "joining"
    BY <1>1, <1>3, <2>1 DEF Seen
  <2>2. CASE call.pc = "joining"
    <3>1. seen \in Seq(ToSet(call.cmds)) /\ Distinct(seen) /\ \A i \in DOMAIN seen : Ended(seen[i])
      BY <1>1, <2>2 DEF Seen
    <3>2. \A i \in DOMAIN seen : seen[i] \in 1 .. Len(joiners) /\ seen[i] # j
      <4>1. \A i \in DOMAIN seen : seen[i] \in ToSet(call.cmds)
        BY <3>1, ElementOfSeq, LenProperties
      <4>2. ToSet(call.cmds) \subseteq 1 .. Len(joiners)
        BY <1>1, ElementsOf DEF Joining
      <4> QED
        BY <3>1, <4>1, <4>2
    <3>3. \A i \in DOMAIN seen : Ended(seen[i])'
      <4> SUFFICES ASSUME NEW i \in DOMAIN seen PROVE joiners'[seen[i]].pc \in Ends
        BY <1>3 DEF Ended
      <4> QED
        BY <1>2, <3>1, <3>2 DEF Ended
    <3>4. CASE j \in ToSet(call.cmds) /\ pc \in Ends
      <4>1. j \notin ToSet(seen)
        BY <3>2 DEF ToSet
      <4>2. seen' = Append(seen, j)
        BY <1>3, <2>2, <3>4
      <4>3. /\ seen' \in Seq(ToSet(call.cmds)) /\ Distinct(seen')
            /\ DOMAIN seen = 1 .. Len(seen) /\ DOMAIN seen' = 1 .. Len(seen) + 1
            /\ Len(seen) \in Nat /\ seen'[Len(seen) + 1] = j
            /\ \A i \in 1 .. Len(seen) : seen'[i] = seen[i]
        BY <3>1, <3>4, <4>1, <4>2, AppendElements
      <4>4. ASSUME NEW i \in DOMAIN seen' PROVE joiners'[seen'[i]].pc \in Ends
        <5>1. i \in DOMAIN seen \/ i = Len(seen) + 1
          BY <4>3
        <5>2. CASE i = Len(seen) + 1
          BY <1>2, <3>4, <4>3, <5>2
        <5>3. CASE i \in DOMAIN seen
          <6>1. seen'[i] = seen[i]
            BY <4>3, <5>3
          <6>2. joiners'[seen[i]] = joiners[seen[i]]
            BY <1>2, <3>2, <5>3
          <6> QED
            BY <3>1, <5>3, <6>1, <6>2 DEF Ended
        <5> QED
          BY <5>1, <5>2, <5>3
      <4> QED
        BY <2>2, <4>3, <4>4 DEF Seen, Ended
    <3>5. CASE ~(j \in ToSet(call.cmds) /\ pc \in Ends)
      <4>1. seen' = seen
        BY <1>3, <3>5
      <4>2. \A i \in DOMAIN seen : joiners'[seen[i]].pc \in Ends
        BY <1>2, <3>1, <3>2 DEF Ended
      <4> QED
        BY <2>2, <3>1, <4>1, <4>2 DEF Seen, Ended
    <3> QED
      BY <3>4, <3>5
  <2> QED
    BY <2>1, <2>2
<1>8. Outcome'
  BY <1>1 DEF Outcome, ReturnedMeansClosed, TimeoutPartitions, BareTimeoutOnlyIfBlocked
<1> QED
  BY <1>4, <1>5, <1>6, <1>7, <1>8 DEF JoinInv

\* The timer of a greenlet that proceeds is gone, if it had one.
LEMMA TimerGone ==
    ASSUME JoinInv, NEW j \in DOMAIN joiners,
           NEW pc \in {"waiting", "consuming"} \union Ends, Proceed(j, pc),
           timers' \in Seq({Main} \union 1 .. Len(joiners)), Without(timers', timers, j),
           UNCHANGED call
    PROVE  /\ Armed'
           /\ call.pc = "joining" /\ ~call.blocked => Before(timers', Main, ToSet(call.cmds))
<1>1. /\ JoinTypes /\ Armed /\ Joining /\ j \in 1 .. Len(joiners) /\ j # Main
      /\ Len(joiners) \in Nat
  BY LenProperties DEF JoinInv, JoinTypes, Main
<1>2. /\ Len(joiners') = Len(joiners)
      /\ \A k \in 1 .. Len(joiners) : k # j => joiners'[k] = joiners[k]
  BY <1>1, ProceedEffect
<1>3. /\ Distinct(timers') /\ ToSet(timers') = ToSet(timers) \ {j}
      /\ \A x, C : Before(timers, x, C) => Before(timers', x, C)
  BY <1>1, WithoutKeeps DEF Armed
<1>4. ToSet(timers) \ {Main} \subseteq 1 .. Len(joiners)
  BY <1>1, ElementsOf DEF Armed
<1>5. Armed'
  BY <1>1, <1>2, <1>3, <1>4 DEF Armed
<1> QED
  BY <1>1, <1>3, <1>5 DEF Joining

\* Only greenlets that wait have a timer.
LEMMA NotArmed ==
    ASSUME JoinInv, NEW j \in DOMAIN joiners, joiners[j].pc # "waiting"
    PROVE  /\ timers \in Seq({Main} \union 1 .. Len(joiners)) /\ j \notin ToSet(timers)
           /\ Without(timers, timers, j)
<1>1. Armed /\ j # Main
  BY LenProperties DEF JoinInv, JoinTypes, Main
<1>2. j \notin ToSet(timers)
  BY <1>1 DEF Armed
<1>3. Without(timers, timers, j)
  <2> DEFINE h == [a \in DOMAIN timers |-> a]
  <2>1. h \in [DOMAIN timers -> DOMAIN timers] /\ \A a \in DOMAIN timers : h[a] = a
    OBVIOUS
  <2> QED
    BY <1>2, <2>1 DEF Without
<1> QED
  BY <1>1, <1>2, <1>3 DEF Armed

\* The timer of a greenlet is behind that of the join which has spawned it.
LEMMA TimerStarts ==
    ASSUME JoinInv, NEW j \in DOMAIN joiners, joiners[j].pc = "new", joiners[j].timed,
           Proceed(j, "waiting"), timers' = Append(timers, j), UNCHANGED call
    PROVE  /\ Armed'
           /\ call.pc = "joining" /\ ~call.blocked => Before(timers', Main, ToSet(call.cmds))
<1>1. /\ JoinTypes /\ Armed /\ Joining /\ j \in 1 .. Len(joiners) /\ j # Main
      /\ Len(joiners) \in Nat
  BY LenProperties DEF JoinInv, JoinTypes, Main
<1>2. /\ Len(joiners') = Len(joiners) /\ joiners'[j].pc = "waiting" /\ joiners'[j].timed
      /\ \A k \in 1 .. Len(joiners) : k # j => joiners'[k] = joiners[k]
  BY <1>1, ProceedEffect DEF Ends
<1>3. j \notin ToSet(timers)
  BY NotArmed
<1>4. /\ timers' \in Seq({Main} \union 1 .. Len(joiners)) /\ Distinct(timers')
      /\ ToSet(timers') = ToSet(timers) \union {j}
      /\ DOMAIN timers = 1 .. Len(timers) /\ Len(timers) \in Nat
      /\ DOMAIN timers' = 1 .. Len(timers) + 1 /\ timers'[Len(timers) + 1] = j
      /\ \A a \in 1 .. Len(timers) : timers'[a] = timers[a]
  BY <1>1, <1>3, AppendElements DEF Armed
<1>5. ToSet(timers) \ {Main} \subseteq 1 .. Len(joiners)
  BY <1>1, ElementsOf DEF Armed
<1>6. Armed'
  <2>1. ASSUME NEW k \in ToSet(timers') \ {Main}
        PROVE  joiners'[k].pc = "waiting" /\ joiners'[k].timed
    <3>1. CASE k = j
      BY <1>2, <3>1
    <3>2. CASE k # j
      BY <1>1, <1>2, <1>4, <1>5, <3>2 DEF Armed
    <3> QED
      BY <3>1, <3>2
  <2>2. Main \in ToSet(timers') <=> call.pc = "joining" /\ call.timed
    BY <1>1, <1>4 DEF Armed
  <2> QED
    BY <1>2, <1>4, <2>1, <2>2 DEF Armed
<1>7. ASSUME call.pc = "joining", ~call.blocked, NEW a \in DOMAIN timers',
             NEW b \in DOMAIN timers', timers'[a] = Main, timers'[b] \in ToSet(call.cmds)
      PROVE  a < b
  <2>1. a \in 1 .. Len(timers)
    BY <1>1, <1>4, <1>7
  <2>2. CASE b = Len(timers) + 1
    BY <1>4, <2>1, <2>2
  <2>3. CASE b \in 1 .. Len(timers)
    BY <1>1, <1>4, <1>7, <2>1, <2>3 DEF Joining, Before
  <2> QED
    BY <1>4, <2>2, <2>3
<1> QED
  BY <1>6, <1>7 DEF Before

\* Unless the join has waited for a slot its own timer is the first to expire.
LEMMA WaitExpiresLate ==
    ASSUME JoinInv, NEW j \in DOMAIN joiners, WaitExpires(j), call.pc = "joining",
           j \in ToSet(call.cmds)
    PROVE  call.blocked
<1>1. JoinTypes /\ Armed /\ Joining /\ timers # <<>> /\ Head(timers) = j
  BY DEF JoinInv, WaitExpires
<1>2. j # Main
  BY <1>1, LenProperties DEF JoinTypes, Main
<1>3. timers[1] = j /\ 1 \in DOMAIN timers /\ DOMAIN timers = 1 .. Len(timers)
  BY <1>1, EmptySeq, LenProperties DEF Armed
<1>4. j \in ToSet(timers) \ {Main}
  BY <1>2, <1>3 DEF ToSet
<1>5. PICK i \in DOMAIN call.cmds : call.cmds[i] = j
  BY DEF ToSet
<1>6. call.timed
  BY <1>1, <1>4, <1>5 DEF Armed, Joining
<1>7. Main \in ToSet(timers)
  BY <1>1, <1>6 DEF Armed
<1>8. PICK a \in DOMAIN timers : timers[a] = Main
  BY <1>7 DEF ToSet
<1>9. ~(a < 1)
  BY <1>3
<1> QED
  BY <1>1, <1>3, <1>8, <1>9 DEF Joining, Before

\* Every step of a greenlet.
LEMMA JoinerStepPreserves ==
    ASSUME JoinInv, NEW j \in DOMAIN joiners, JoinerStep(j)
    PROVE  JoinInv'
<1>1. /\ JoinTypes /\ Waited /\ Armed /\ UserWaits /\ j \in 1 .. Len(joiners)
      /\ closed \subseteq exited
      /\ UNCHANGED <<failed, exited, call, outcome, joins>>
  BY LenProperties DEF JoinInv, JoinTypes, JoinerStep
<1>2. timers \in Seq({Main} \union 1 .. Len(joiners)) /\ Distinct(timers)
  BY <1>1 DEF Armed
<1>3. /\ Disarm(j) \in Seq({Main} \union 1 .. Len(joiners))
      /\ Without(Disarm(j), timers, j)
  BY <1>2, DisarmIs
<1>4. CASE StartWait(j)
  <2>1. joiners[j].pc = "new" /\ ~Ended(j) /\ closed' = closed
    BY <1>4 DEF StartWait, Ended, Ends
  <2>2. CASE joiners[j].out \in failed /\ ~joiners[j].shell
    <3>1. Proceed(j, "done") /\ timers' = timers
      BY <1>4, <2>2 DEF StartWait
    <3>2. "done" \in {"waiting", "consuming"} \union Ends
      BY DEF Ends
    <3>3. /\ timers' \in Seq({Main} \union 1 .. Len(joiners)) /\ Without(timers', timers, j)
      BY <2>1, <3>1, NotArmed
    <3> QED
      BY <1>1, <2>1, <2>2, <3>1, <3>2, <3>3, TimerGone, ProceedPreserves
  <2>3. CASE ~(joiners[j].out \in failed /\ ~joiners[j].shell)
    <3>1. /\ Proceed(j, "waiting")
          /\ timers' = IF joiners[j].timed THEN Append(timers, j) ELSE timers
      BY <1>4, <2>3 DEF StartWait
    <3>2. /\ Armed'
          /\ call.pc = "joining" /\ ~call.blocked => Before(timers', Main, ToSet(call.cmds))
      <4>1. CASE joiners[j].timed
        BY <1>1, <2>1, <3>1, <4>1, TimerStarts
      <4>2. CASE ~joiners[j].timed
        <5>1. /\ timers' \in Seq({Main} \union 1 .. Len(joiners))
              /\ Without(timers', timers, j)
          BY <2>1, <3>1, <4>2, NotArmed
        <5> QED
          BY <1>1, <3>1, <5>1, TimerGone
      <4> QED
        BY <4>1, <4>2
    <3> QED
      BY <1>1, <2>1, <3>1, <3>2, ProceedPreserves
  <2> QED
    BY <2>2, <2>3
<1>5. CASE WaitEnds(j)
  <2>1. /\ ~Ended(j) /\ closed' = closed \union {joiners[j].out}
        /\ joiners[j].out \in exited /\ timers' = Disarm(j)
    BY <1>5 DEF WaitEnds, Ended, Ends
  <2>2. CASE joiners[j].consume
    <3>1. Proceed(j, "consuming")
      BY <1>5, <2>2 DEF WaitEnds
    <3> QED
      BY <1>1, <1>3, <2>1, <2>2, <3>1, TimerGone, ProceedPreserves
  <2>3. CASE ~joiners[j].consume
    <3>1. Proceed(j, "done") /\ "done" \in {"waiting", "consuming"} \union Ends
      BY <1>5, <2>3 DEF WaitEnds, Ends
    <3> QED
      BY <1>1, <1>3, <2>1, <3>1, TimerGone, ProceedPreserves
  <2> QED
    BY <2>2, <2>3
<1>6. CASE WaitExpires(j)
  <2>1. /\ ~Ended(j) /\ closed' = closed /\ timers # <<>> /\ Head(timers) = j
        /\ Proceed(j, "timeout") /\ timers' = Tail(timers)
        /\ "timeout" \in {"waiting", "consuming"} \union Ends
    BY <1>6 DEF WaitExpires, Ended, Ends
  <2>2. /\ timers' \in Seq({Main} \union 1 .. Len(joiners)) /\ Without(timers', timers, j)
    BY <1>2, <2>1, TailIs
  <2>3. call.pc = "joining" /\ j \in ToSet(call.cmds) => call.blocked
    BY <1>6, WaitExpiresLate
  <2> QED
    BY <1>1, <2>1, <2>2, <2>3, TimerGone, ProceedPreserves
<1>7. CASE WaitFails(j)
  <2>1. /\ ~Ended(j) /\ closed' = closed /\ Proceed(j, "error") /\ timers' = Disarm(j)
        /\ "error" \in {"waiting", "consuming"} \union Ends
    BY <1>7 DEF WaitFails, Ended, Ends
  <2> QED
    BY <1>1, <1>3, <2>1, TimerGone, ProceedPreserves
<1>8. CASE Consumed(j) \/ ConsumeFails(j)
  <2>1. /\ joiners[j].pc = "consuming" /\ ~Ended(j) /\ closed' = closed /\ timers' = timers
    BY <1>8 DEF Consumed, ConsumeFails, Ended, Ends
  <2>2. PICK pc \in Ends : Proceed(j, pc)
    BY <1>8 DEF Consumed, ConsumeFails, Ends
  <2>3. /\ joiners[j].consume
        /\ joiners[j].out \in closed \/ (joiners[j].out \in failed /\ ~joiners[j].shell)
    BY <1>1, <2>1 DEF Waited
  <2>4. /\ timers' \in Seq({Main} \union 1 .. Len(joiners)) /\ Without(timers', timers, j)
    BY <2>1, NotArmed
  <2>5. pc \in {"waiting", "consuming"} \union Ends /\ pc # "consuming"
    BY DEF Ends
  <2> QED
    BY <1>1, <2>1, <2>2, <2>3, <2>4, <2>5, TimerGone, ProceedPreserves
<1> QED
  BY <1>4, <1>5, <1>6, <1>7, <1>8 DEF JoinerStep

---------------------------------------------------------------------------
(* The theorem.                                                            *)

\* Every step of the pool and its user.
LEMMA StepJoinInv == JoinInv /\ [Next]_vars => JoinInv'
<1> SUFFICES ASSUME JoinInv, [Next]_vars PROVE JoinInv'
  OBVIOUS
<1>1. CASE UserCall
  BY <1>1, UserCallPreserves
<1>2. CASE UserStep
  <2>1. CASE Spawn
    BY <2>1, SpawnPreserves
  <2>2. CASE Block
    BY <2>2, BlockPreserves
  <2>3. CASE StartJoinall
    BY <2>3, StartJoinallPreserves
  <2>4. CASE RaiseError
    BY <2>4, RaiseErrorPreserves
  <2>5. CASE AllSeen \/ Expired
    BY <2>5, FinishPreserves
  <2> QED
    BY <1>2, <2>1, <2>2, <2>3, <2>4, <2>5 DEF UserStep
<1>3. ASSUME NEW o \in Output, Exit(o) PROVE JoinInv'
  BY <1>3, ExitPreserves
<1>4. ASSUME NEW j \in DOMAIN joiners, JoinerStep(j) PROVE JoinInv'
  BY <1>4, JoinerStepPreserves
<1>5. CASE UNCHANGED vars
  BY <1>5 DEF vars, JoinInv, JoinTypes, Started, Waited, Armed, Joining, Seen, Ended, Outcome,
              ReturnedMeansClosed, TimeoutPartitions, BareTimeoutOnlyIfBlocked
<1> QED
  BY <1>1, <1>2, <1>3, <1>4, <1>5 DEF Next

\* The invariant that is checked.
LEMMA JoinInvImpliesInv == JoinInv => Inv
<1> SUFFICES ASSUME JoinInv PROVE Inv
  OBVIOUS
<1>1. JoinTypes /\ Armed /\ Joining /\ Seen /\ Outcome
  BY DEF JoinInv
<1>2. DOMAIN joiners = 1 .. Len(joiners) /\ \A j \in 1 .. Len(joiners) : joiners[j] \in Joiner
  BY <1>1, LenProperties, ElementOfSeq DEF JoinTypes
<1>3. \A j \in DOMAIN joiners :
          /\ joiners[j].out \in Output
          /\ joiners[j].shell \in BOOLEAN /\ joiners[j].timed \in BOOLEAN
          /\ joiners[j].consume \in BOOLEAN
          /\ joiners[j].pc \in {"new", "waiting", "consuming"} \union Ends
  BY <1>2 DEF Joiner
<1>4. timers \in Seq({Main} \union DOMAIN joiners)
  BY <1>1, <1>2 DEF Armed
<1>5. call.outs \in Seq(Output) /\ call.cmds \in Seq(DOMAIN joiners)
  BY <1>1, <1>2 DEF JoinTypes, Call, Joining
<1>6. /\ call.pc \in {"idle", "spawning", "joining"} /\ call.kind \in {"output", "shell"}
      /\ {call.timed, call.consume, call.waits, call.blocked} \subseteq BOOLEAN
  BY <1>1 DEF JoinTypes, Call
<1>7. seen \in Seq(ToSet(call.cmds)) \/ call.pc = "idle"
  BY <1>1, <1>6, EmptySeq DEF Seen
<1>8. TypeOK
  BY <1>1, <1>3, <1>4, <1>5, <1>6, <1>7 DEF TypeOK, JoinTypes, Armed, Outcome
<1> QED
  BY <1>1, <1>8 DEF Inv, Outcome

\* For any outputs, failed hosts, pool size and number of joins: the types of pool and timers;
\* a join that returns has the channel of every command closed; a Timeout tells finished from
\* unfinished; and the bare Timeout of a greenlet gets out only if join had to wait for a pool
\* slot, or consumes output (join, join_shells of base/parallel.py, wait_finished).
THEOREM JoinInvariance == Spec => []Inv
<1>1. Spec => []JoinInv
  BY InitJoinInv, StepJoinInv, PTL DEF Spec
<1> QED
  BY <1>1, JoinInvImpliesInv, PTL
===========================================================================
