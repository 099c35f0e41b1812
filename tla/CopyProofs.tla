---------------------------- MODULE CopyProofs ----------------------------
(***************************************************************************)
(* Proofs about Copy, for any source and any number of copies: what is     *)
(* left of a file, when mkdir loses a race, that no directory is missing,  *)
(* and that a copy that returns has copied everything.                     *)
(***************************************************************************)
EXTENDS Copy, TLAPS, SequenceTheorems

Writing == {"write", "spin", "cut"}

\* Types of what is written.  A file in the target is written by copies that are at it.
WriteTypes ==
    /\ pc \in [Copier -> {"next", "stat", "mkdir", "open", "write", "spin"} \union Ends]
    /\ at \in [Copier -> Paths] /\ put \in [Copier -> Nat] /\ todo \in [Copier -> SUBSET Paths]
    /\ DOMAIN files \subseteq Files
    /\ \A f \in DOMAIN files : files[f] \subseteq 1 .. Size[f]
    /\ \A c \in Copier :
        /\ pc[c] = "open" => at[c] \in Files
        /\ pc[c] \in Writing =>
            at[c] \in DOMAIN files /\ at[c] \in Files /\ put[c] <= Size[at[c]]

\* The copy that opened a file last has in it whatever it has written, or was cut off: a
\* file that is not whole has such a copy at it.
LastOpened ==
    \A f \in DOMAIN files :
        \/ files[f] = 1 .. Size[f]
        \/ \E c \in Copier :
              /\ at[c] = f /\ pc[c] \in Writing
              /\ pc[c] = "write" => 1 .. put[c] \subseteq files[f]

Written == WriteTypes /\ LastOpened

-----------------------------------------------------------------------------
LEMMA InitWritten == Init => Written
<1> SUFFICES ASSUME Init PROVE Written
  OBVIOUS
<1>1. /\ pc = [c \in Copier |-> "next"] /\ at = root /\ root \in [Copier -> Roots]
      /\ put = [c \in Copier |-> 0] /\ files = <<>> /\ todo = [c \in Copier |-> {root[c]}]
  BY DEF Init
<1>2. DOMAIN files = {}
  BY <1>1
<1>3. at \in [Copier -> Paths]
  BY <1>1, CopyAssumption
<1>4. WriteTypes
  BY <1>1, <1>2, <1>3 DEF WriteTypes, Writing
<1> QED
  BY <1>2, <1>4 DEF Written, LastOpened

\* A step of a copy that has no file open, and opens none; it may take up another path.
LEMMA QuietPreserves ==
    ASSUME Written, NEW c \in Copier, NEW p \in Paths, pc[c] \notin Writing,
           NEW l \in {"next", "stat", "mkdir", "open"} \union (Ends \ {"cut"}),
           pc' = [pc EXCEPT ![c] = l], at' = [at EXCEPT ![c] = p],
           l = "open" => p \in Files,
           todo' \in [Copier -> SUBSET Paths], UNCHANGED <<files, put>>
    PROVE  Written'
<1> USE DEF Written
<1>1. WriteTypes'
  BY DEF WriteTypes, Writing, Ends, Errors
<1>2. ASSUME NEW d \in Copier, pc[d] \in Writing PROVE pc'[d] = pc[d] /\ at'[d] = at[d]
  BY <1>2 DEF WriteTypes
<1>3. LastOpened'
  BY <1>2 DEF LastOpened
<1> QED
  BY <1>1, <1>3

\* Whichever path is next, a copy takes it up without opening it.
LEMMA TakePreserves ==
    ASSUME Written, NEW c \in Copier, NEW p \in todo[c],
           \/ RefuseDir(c, p) \/ CopyDir(c, p) \/ RecvDir(c, p) \/ ListDir(c, p)
           \/ PutFile(c, p) \/ SendFile(c, p) \/ GetFile(c, p) \/ RecvFile(c, p)
    PROVE  Written'
<1>1. p \in Paths /\ Remaining(c, p) \subseteq Paths /\ Children(p) \subseteq Paths
  BY DEF Written, WriteTypes, Remaining, Children
<1>2. /\ pc[c] = "next" /\ pc[c] \notin Writing /\ at' = [at EXCEPT ![c] = p]
      /\ UNCHANGED <<files, put>>
  BY DEF RefuseDir, CopyDir, RecvDir, ListDir, Descends, PutFile, SendFile, ToHost,
         GetFile, RecvFile, FromHost, Takes, Writing
<1>3. \E s \in SUBSET Paths : todo' = [todo EXCEPT ![c] = s]
  <2>1. todo' = todo \/ todo' = [todo EXCEPT ![c] = Remaining(c, p) \union Children(p)]
                     \/ todo' = [todo EXCEPT ![c] = Remaining(c, p)]
    BY DEF RefuseDir, CopyDir, RecvDir, ListDir, Descends, PutFile, SendFile, ToHost,
           GetFile, RecvFile, FromHost
  <2>2. todo = [todo EXCEPT ![c] = todo[c]] /\ todo[c] \subseteq Paths
    BY DEF Written, WriteTypes
  <2> QED
    BY <1>1, <2>1, <2>2
<1>4. todo' \in [Copier -> SUBSET Paths]
  BY <1>3 DEF Written, WriteTypes
<1>5. pc = [pc EXCEPT ![c] = "next"]
  BY <1>2 DEF Written, WriteTypes
<1>6. \E l \in {"next", "stat", "open", "failed", "not recursive"} :
          pc' = [pc EXCEPT ![c] = l] /\ (l = "open" => p \in Files)
  BY <1>5 DEF RefuseDir, CopyDir, RecvDir, ListDir, Descends, PutFile, SendFile, ToHost,
              GetFile, RecvFile, FromHost, Takes, Goes
<1>7. PICK l \in {"next", "stat", "mkdir", "open"} \union (Ends \ {"cut"}) :
          pc' = [pc EXCEPT ![c] = l] /\ (l = "open" => p \in Files)
  BY <1>6 DEF Ends, Errors
<1> QED
  BY <1>1, <1>2, <1>4, <1>7, QuietPreserves

\* mkdir, and the ways to go on or to end without a file open.
LEMMA StayPreserves ==
    ASSUME Written, NEW c \in Copier,
           \/ StatDir(c) \/ MakeDir(c) \/ MakeDirFails(c) \/ NoDirectory(c) \/ Return(c)
           \/ (Fail(c) /\ pc[c] # "write")
    PROVE  Written'
<1>1. /\ UNCHANGED <<files, put, todo, at>>
      /\ pc[c] \in {"next", "stat", "mkdir", "open"} /\ pc[c] \notin Writing
  BY DEF StatDir, MakeDir, MakeDirFails, NoDirectory, Return, Fail, Writing
<1>2. at' = [at EXCEPT ![c] = at[c]] /\ at[c] \in Paths /\ todo' \in [Copier -> SUBSET Paths]
  BY <1>1 DEF Written, WriteTypes
<1>3. \E l \in {"next", "stat", "mkdir", "open"} \union (Ends \ {"cut"}) :
          pc' = [pc EXCEPT ![c] = l] /\ (l = "open" => at[c] \in Files)
  BY <1>2 DEF StatDir, MakeDir, MakeDirFails, NoDirectory, Return, Fail, Made, Goes, Ends,
              Errors, Paths
<1> QED
  BY <1>1, <1>2, <1>3, QuietPreserves

\* A file that is opened is empty, or as it was, and the copy that opened it is at it.
LEMMA OpenPreserves ==
    ASSUME Written, NEW c \in Copier, Open(c)
    PROVE  Written'
<1> DEFINE f == at[c]
<1>1. /\ pc[c] = "open" /\ pc' = [pc EXCEPT ![c] = "write"] /\ put' = [put EXCEPT ![c] = 0]
      /\ f \in Files /\ UNCHANGED <<at, todo>>
  BY DEF Open, Goes, Written, WriteTypes
<1>2. PICK kept \in {{}} \union {files[g] : g \in {f} \intersect DOMAIN files} :
          files' = [g \in DOMAIN files \union {f} |-> IF g = f THEN kept ELSE files[g]]
  BY DEF Open
<1>3. Size[f] \in Nat /\ kept \subseteq 1 .. Size[f]
  BY <1>1, <1>2, CopyAssumption DEF Written, WriteTypes
<1>4. WriteTypes'
  <2>1. DOMAIN files' \subseteq Files /\ \A g \in DOMAIN files' : files'[g] \subseteq 1 .. Size[g]
    BY <1>1, <1>2, <1>3 DEF Written, WriteTypes
  <2>2. DOMAIN files \subseteq DOMAIN files' /\ f \in DOMAIN files'
    BY <1>2
  <2>3. /\ pc' \in [Copier -> {"next", "stat", "mkdir", "open", "write", "spin"} \union Ends]
        /\ put' \in [Copier -> Nat] /\ pc'[c] = "write" /\ put'[c] = 0
        /\ \A d \in Copier \ {c} : pc'[d] = pc[d] /\ put'[d] = put[d]
    BY <1>1 DEF Written, WriteTypes
  <2>4. ASSUME NEW d \in Copier
        PROVE  /\ pc'[d] = "open" => at[d] \in Files
               /\ pc'[d] \in Writing =>
                    at[d] \in DOMAIN files' /\ at[d] \in Files /\ put'[d] <= Size[at[d]]
    <3>1. CASE d = c
      BY <1>1, <1>3, <2>2, <2>3, <3>1
    <3>2. CASE d # c
      BY <2>2, <2>3, <3>2 DEF Written, WriteTypes
    <3> QED
      BY <3>1, <3>2
  <2> QED
    BY <1>1, <2>1, <2>3, <2>4 DEF Written, WriteTypes
<1>5. LastOpened'
  <2> SUFFICES ASSUME NEW g \in DOMAIN files'
               PROVE  \/ files'[g] = 1 .. Size[g]
                      \/ \E d \in Copier :
                            /\ at'[d] = g /\ pc'[d] \in Writing
                            /\ pc'[d] = "write" => 1 .. put'[d] \subseteq files'[g]
    BY DEF LastOpened
  <2>1. CASE g = f
    <3>1. pc'[c] = "write" /\ put'[c] = 0 /\ 1 .. 0 = {}
      BY <1>1 DEF Written, WriteTypes
    <3> QED
      BY <1>1, <2>1, <3>1 DEF Writing
  <2>2. CASE g # f
    <3>1. g \in DOMAIN files /\ files'[g] = files[g]
      BY <1>2, <2>2
    <3>2. ASSUME NEW d \in Copier, at[d] = g
          PROVE  at'[d] = g /\ pc'[d] = pc[d] /\ put'[d] = put[d]
      BY <1>1, <2>2, <3>2 DEF Written, WriteTypes
    <3> QED
      BY <3>1, <3>2 DEF Written, LastOpened
  <2> QED
    BY <2>1, <2>2
<1> QED
  BY <1>4, <1>5 DEF Written

\* Nothing is taken from a file by writing it, by whichever copy.
LEMMA WritePreserves ==
    ASSUME Written, NEW c \in Copier, Write(c)
    PROVE  Written'
<1> DEFINE f == at[c]
<1>1. /\ pc[c] = "write" /\ put[c] < Size[f] /\ put' = [put EXCEPT ![c] = @ + 1]
      /\ files' = [files EXCEPT ![f] = @ \union {put[c] + 1}]
      /\ UNCHANGED <<pc, at, todo>>
  BY DEF Write
<1>2. f \in DOMAIN files /\ f \in Files /\ Size[f] \in Nat /\ put[c] \in Nat
  BY <1>1, CopyAssumption DEF Written, WriteTypes, Writing
<1>3. put[c] + 1 \in 1 .. Size[f]
  BY <1>1, <1>2
<1>4. /\ DOMAIN files' = DOMAIN files
      /\ \A g \in DOMAIN files : files[g] \subseteq files'[g] /\ files'[g] \subseteq 1 .. Size[g]
      /\ files'[f] = files[f] \union {put[c] + 1}
  BY <1>1, <1>2, <1>3 DEF Written, WriteTypes
<1>5. put' \in [Copier -> Nat] /\ \A d \in Copier : put'[d] = IF d = c THEN put[c] + 1 ELSE put[d]
  BY <1>1, <1>2 DEF Written, WriteTypes
<1>6. WriteTypes'
  <2>1. \A d \in Copier : pc[d] \in Writing => put'[d] <= Size[at[d]]
    BY <1>3, <1>5 DEF Written, WriteTypes
  <2> QED
    BY <1>1, <1>4, <1>5, <2>1 DEF Written, WriteTypes
<1>7. LastOpened'
  <2> SUFFICES ASSUME NEW g \in DOMAIN files, files[g] # 1 .. Size[g]
               PROVE  \E d \in Copier :
                          /\ at[d] = g /\ pc[d] \in Writing
                          /\ pc[d] = "write" => 1 .. put'[d] \subseteq files'[g]
    <3>1. ASSUME NEW g \in DOMAIN files, files[g] = 1 .. Size[g] PROVE files'[g] = 1 .. Size[g]
      BY <1>4, <3>1
    <3> QED
      BY <1>1, <1>4, <3>1 DEF LastOpened
  <2>1. PICK d \in Copier : /\ at[d] = g /\ pc[d] \in Writing
                            /\ pc[d] = "write" => 1 .. put[d] \subseteq files[g]
    BY DEF Written, LastOpened
  <2>2. pc[d] = "write" => 1 .. put'[d] \subseteq files'[g]
    <3>1. CASE d = c
      <4>1. 1 .. (put[c] + 1) \subseteq (1 .. put[c]) \union {put[c] + 1}
        BY <1>2
      <4> QED
        BY <1>1, <1>4, <1>5, <2>1, <3>1, <4>1
    <3>2. CASE d # c
      BY <1>4, <1>5, <2>1, <3>2
    <3> QED
      BY <3>1, <3>2
  <2> QED
    BY <2>1, <2>2
<1> QED
  BY <1>6, <1>7 DEF Written

\* A copy leaves a file whole, or was cut off, or goes round for ever.
LEMMA LeavePreserves ==
    ASSUME Written, NEW c \in Copier, Close(c) \/ Spin(c) \/ (Fail(c) /\ pc[c] = "write")
    PROVE  Written'
<1>1. UNCHANGED <<files, put, todo, at>> /\ pc[c] = "write"
  BY DEF Close, Spin, Fail
<1>2. \E l \in {"next", "spin", "cut"} :
          pc' = [pc EXCEPT ![c] = l] /\ (l = "next" => put[c] = Size[at[c]])
  BY <1>1 DEF Close, Spin, Fail, Goes, AllWritten
<1>3. WriteTypes'
  BY <1>1, <1>2 DEF Written, WriteTypes, Writing, Ends, Errors
<1>4. LastOpened'
  <2> SUFFICES ASSUME NEW g \in DOMAIN files, files[g] # 1 .. Size[g]
               PROVE  \E d \in Copier :
                          /\ at[d] = g /\ pc'[d] \in Writing
                          /\ pc'[d] = "write" => 1 .. put[d] \subseteq files[g]
    BY <1>1 DEF LastOpened
  <2>1. PICK d \in Copier : /\ at[d] = g /\ pc[d] \in Writing
                            /\ pc[d] = "write" => 1 .. put[d] \subseteq files[g]
    BY DEF Written, LastOpened
  <2>2. CASE d = c
    <3>1. ~(put[c] = Size[at[c]])
      BY <1>1, <2>1, <2>2 DEF Written, WriteTypes
    <3>2. pc'[c] \in {"spin", "cut"}
      BY <1>2, <3>1 DEF Written, WriteTypes
    <3> QED
      BY <2>1, <2>2, <3>2 DEF Writing
  <2>3. CASE d # c
    BY <1>2, <2>1, <2>3 DEF Written, WriteTypes
  <2> QED
    BY <2>2, <2>3
<1> QED
  BY <1>3, <1>4 DEF Written

LEMMA StepWritten == Written /\ [Next]_vars => Written'
<1> SUFFICES ASSUME Written, [Next]_vars PROVE Written'
  OBVIOUS
<1>1. CASE UNCHANGED vars
  BY <1>1 DEF vars, Written, WriteTypes, LastOpened
<1>2. ASSUME NEW c \in Copier, Step(c) \/ Fail(c) \/ Spin(c) PROVE Written'
  <2>1. ASSUME NEW p \in todo[c],
               \/ RefuseDir(c, p) \/ CopyDir(c, p) \/ RecvDir(c, p) \/ ListDir(c, p)
               \/ PutFile(c, p) \/ SendFile(c, p) \/ GetFile(c, p) \/ RecvFile(c, p)
        PROVE  Written'
    BY <2>1, TakePreserves
  <2>2. CASE \/ StatDir(c) \/ MakeDir(c) \/ MakeDirFails(c) \/ NoDirectory(c) \/ Return(c)
             \/ (Fail(c) /\ pc[c] # "write")
    BY <2>2, StayPreserves
  <2>3. CASE Open(c)
    BY <2>3, OpenPreserves
  <2>4. CASE Write(c)
    BY <2>4, WritePreserves
  <2>5. CASE Close(c) \/ Spin(c) \/ (Fail(c) /\ pc[c] = "write")
    BY <2>5, LeavePreserves
  <2> QED
    BY <1>2, <2>1, <2>2, <2>3, <2>4, <2>5 DEF Step
<1> QED
  BY <1>1, <1>2 DEF Next

\* A file of the target is whole unless a copy is at it that is writing it, was cut off from
\* it, or goes round for ever in _scp_recv: whatever failed, and however copies that write
\* the same file interleave.
THEOREM OnlyCutPartial == Spec => []OnlyCutFilesPartial
<1>1. Written => OnlyCutFilesPartial
  BY DEF Written, WriteTypes, LastOpened, OnlyCutFilesPartial, Complete, Writing
<1> QED
  BY <1>1, InitWritten, StepWritten, PTL DEF Spec
-----------------------------------------------------------------------------
\* All copies go one way, and only those to the host look for directories one by one.  One
\* that is to make a directory did not find it, so that it is not there by now or made by
\* another.
Race ==
    /\ kind \in [Copier -> Puts] \union [Copier -> Gets]
    /\ DOMAIN pc = Copier /\ DOMAIN make = Copier /\ DOMAIN made = Copier
    /\ \A c \in Copier : pc[c] \in {"stat", "mkdir", "exists"} => kind[c] \in Puts
    /\ \A c \in Copier : pc[c] = "mkdir" =>
          \/ Head(make[c]) \notin dirs
          \/ \E d \in Copier \ {c} : Head(make[c]) \in made[d]
    /\ ExistsByOther

LEMMA InitRace == Init => Race
  BY DEF Init, Race, ExistsByOther

\* What a step of copy c has to do with the making of directories.
Makes(c) ==
    /\ kind' = kind
    /\ DOMAIN pc' = Copier /\ DOMAIN make' = Copier /\ DOMAIN made' = Copier
    /\ \A d \in Copier \ {c} : pc'[d] = pc[d] /\ make'[d] = make[d]
    /\ \A d \in Copier : made[d] \subseteq made'[d]
    /\ \/ dirs' = dirs
       \/ kind[c] \in Gets
       \/ dirs' = dirs \union {Head(make[c])} /\ Head(make[c]) \in made'[c]
    /\ pc'[c] = "stat" => kind[c] \in Puts
    /\ pc'[c] = "mkdir" => kind[c] \in Puts /\ Head(make'[c]) \notin dirs'
    /\ pc'[c] = "exists" =>
          pc[c] = "mkdir" /\ make'[c] = make[c] /\ dirs' = dirs /\ Head(make[c]) \in dirs

LEMMA TakesMake ==
    ASSUME Race, NEW c \in Copier, NEW p,
           \/ RefuseDir(c, p) \/ CopyDir(c, p) \/ RecvDir(c, p) \/ ListDir(c, p)
           \/ PutFile(c, p) \/ SendFile(c, p) \/ GetFile(c, p) \/ RecvFile(c, p)
    PROVE  Makes(c)
<1>1. CASE RefuseDir(c, p) \/ ListDir(c, p)
  BY <1>1 DEF RefuseDir, ListDir, Descends, Takes, Goes, asked, Makes, Race
<1>2. CASE CopyDir(c, p) \/ RecvDir(c, p)
  BY <1>2 DEF CopyDir, RecvDir, Descends, Takes, Goes, asked, Makes, Race, Puts, Gets
<1>3. CASE PutFile(c, p) \/ SendFile(c, p)
  BY <1>3 DEF PutFile, SendFile, ToHost, Takes, Goes, asked, Makes, Race, Puts
<1>4. CASE GetFile(c, p) \/ RecvFile(c, p)
  BY <1>4 DEF GetFile, RecvFile, FromHost, Takes, Goes, asked, Makes, Race, Gets
<1> QED
  BY <1>1, <1>2, <1>3, <1>4

LEMMA StepMakes ==
    ASSUME Race, NEW c \in Copier, Step(c) \/ Fail(c) \/ Spin(c)
    PROVE  Makes(c)
<1>1. CASE StatDir(c)
  BY <1>1 DEF StatDir, Made, Goes, asked, Makes, Race
<1>2. CASE MakeDir(c)
  BY <1>2 DEF MakeDir, Made, Goes, asked, Makes, Race
<1>3. CASE MakeDirFails(c)
  BY <1>3 DEF MakeDirFails, Goes, asked, Makes, Race
<1>4. CASE Open(c) \/ NoDirectory(c) \/ Write(c) \/ Close(c) \/ Return(c)
  BY <1>4 DEF Open, NoDirectory, Write, Close, Return, Goes, asked, Makes, Race
<1>5. CASE Fail(c) \/ Spin(c)
  BY <1>5 DEF Fail, Spin, Goes, asked, Makes, Race
<1>6. CASE \E p \in todo[c] :
              \/ RefuseDir(c, p) \/ CopyDir(c, p) \/ RecvDir(c, p) \/ ListDir(c, p)
              \/ PutFile(c, p) \/ SendFile(c, p) \/ GetFile(c, p) \/ RecvFile(c, p)
  BY <1>6, TakesMake
<1> QED
  BY <1>1, <1>2, <1>3, <1>4, <1>5, <1>6 DEF Step

LEMMA StepRace == Race /\ [Next]_vars => Race'
<1> SUFFICES ASSUME Race, [Next]_vars PROVE Race'
  OBVIOUS
<1>1. CASE UNCHANGED vars
  BY <1>1 DEF vars, Race, ExistsByOther
<1>2. ASSUME NEW c \in Copier, Step(c) \/ Fail(c) \/ Spin(c) PROVE Race'
  <2>1. Makes(c)
    BY <1>2, StepMakes
  <2>2. \A d \in Copier : pc'[d] \in {"stat", "mkdir", "exists"} => kind'[d] \in Puts
    BY <2>1 DEF Makes, Race
  <2>3. ASSUME NEW e \in Copier, pc'[e] = "mkdir"
        PROVE  \/ Head(make'[e]) \notin dirs'
               \/ \E d \in Copier \ {e} : Head(make'[e]) \in made'[d]
    <3>1. CASE e = c
      BY <2>1, <2>3, <3>1 DEF Makes
    <3>2. CASE e # c
      <4>1. pc[e] = "mkdir" /\ make'[e] = make[e] /\ kind[e] \in Puts
        BY <2>1, <2>3, <3>2 DEF Makes, Race
      <4>2. kind[c] \notin Gets
        BY <4>1 DEF Race, Puts, Gets
      <4>3. CASE \E d \in Copier \ {e} : Head(make[e]) \in made[d]
        BY <2>1, <4>1, <4>3 DEF Makes
      <4>4. CASE Head(make[e]) \notin dirs
        BY <2>1, <3>2, <4>1, <4>2, <4>4 DEF Makes
      <4> QED
        BY <4>1, <4>3, <4>4 DEF Race
    <3> QED
      BY <3>1, <3>2
  <2>4. ASSUME NEW e \in Copier, pc'[e] = "exists"
        PROVE  \E d \in Copier \ {e} : Head(make'[e]) \in made'[d]
    <3>1. make'[e] = make[e] /\ \E d \in Copier \ {e} : Head(make[e]) \in made[d]
      BY <2>1, <2>4 DEF Makes, Race, ExistsByOther
    <3> QED
      BY <2>1, <3>1 DEF Makes
  <2> QED
    BY <2>1, <2>2, <2>3, <2>4 DEF Makes, Race, ExistsByOther
<1> QED
  BY <1>1, <1>2 DEF Next

\* mkdir fails because a directory exists only if another copy has made it since this one
\* looked for it: never because of what was there before, and never alone.
THEOREM OnlyRaceExists == Spec => []ExistsByOther
  BY InitRace, StepRace, PTL DEF Spec, Race
-----------------------------------------------------------------------------
(* Paths: what is below what.                                              *)

Name == UNION {ToSet(p) : p \in Paths}

LEMMA PathIsSeq == \A p \in Paths : p \in Seq(Name) /\ Len(p) \in Nat \ {0}
<1> SUFFICES ASSUME NEW p \in Paths PROVE p \in Seq(Name) /\ Len(p) \in Nat \ {0}
  OBVIOUS
<1>1. p # <<>> /\ p \in Seq(ToSet(p)) /\ ToSet(p) \subseteq Name
  BY CopyAssumption DEF Name
<1> QED
  BY <1>1, SeqMonotonic, EmptySeq

\* The first n elements of a sequence.
LEMMA Initial ==
    ASSUME NEW S, NEW s \in Seq(S), NEW n \in 0 .. Len(s)
    PROVE  /\ SubSeq(s, 1, n) \in Seq(S) /\ Len(SubSeq(s, 1, n)) = n
           /\ \A i \in 1 .. n : SubSeq(s, 1, n)[i] = s[i]
<1>1. Len(s) \in Nat /\ \A i \in 1 .. n : s[i] \in S
  BY LenProperties, ElementOfSeq
<1> QED
  BY <1>1, SubSeqProperties

LEMMA InitialOfInitial ==
    ASSUME NEW S, NEW s \in Seq(S), NEW n \in 0 .. Len(s), NEW m \in 0 .. n
    PROVE  SubSeq(SubSeq(s, 1, n), 1, m) = SubSeq(s, 1, m)
<1>1. Len(s) \in Nat
  BY LenProperties
<1>2. /\ SubSeq(s, 1, n) \in Seq(S) /\ Len(SubSeq(s, 1, n)) = n
      /\ \A i \in 1 .. n : SubSeq(s, 1, n)[i] = s[i]
  BY Initial
<1>3. /\ SubSeq(s, 1, m) \in Seq(S) /\ Len(SubSeq(s, 1, m)) = m
      /\ \A i \in 1 .. m : SubSeq(s, 1, m)[i] = s[i]
  BY <1>1, Initial
<1> DEFINE t == SubSeq(s, 1, n)
<1>4. /\ SubSeq(t, 1, m) \in Seq(S) /\ Len(SubSeq(t, 1, m)) = m
      /\ \A i \in 1 .. m : SubSeq(t, 1, m)[i] = t[i]
  <2> HIDE DEF t
  <2> QED
    BY <1>1, <1>2, Initial DEF t
<1>5. \A i \in 1 .. m : SubSeq(t, 1, m)[i] = SubSeq(s, 1, m)[i]
  BY <1>2, <1>3, <1>4
<1> HIDE DEF t
<1> QED
  BY <1>3, <1>4, <1>5, SeqEqual DEF t

\* A path, cut after any component.
LEMMA PathInitial ==
    ASSUME NEW p \in Seq(Name), NEW n \in 1 .. Len(p)
    PROVE  /\ SubSeq(p, 1, n) \in Seq(Name) /\ Len(SubSeq(p, 1, n)) = n
           /\ Front(SubSeq(p, 1, n)) = SubSeq(p, 1, n - 1)
           /\ SubSeq(p, 1, Len(p)) = p
<1>1. Len(p) \in Nat
  BY LenProperties
<1>2. SubSeq(p, 1, n) \in Seq(Name) /\ Len(SubSeq(p, 1, n)) = n
  BY <1>1, Initial
<1>3. SubSeq(SubSeq(p, 1, n), 1, n - 1) = SubSeq(p, 1, n - 1)
  BY <1>1, InitialOfInitial
<1> QED
  BY <1>2, <1>3, SubSeqFull DEF Front

LEMMA PrefixIs ==
    ASSUME NEW p \in Seq(Name), NEW q \in Seq(Name)
    PROVE  IsPrefix(p, q) <=> Len(p) <= Len(q) /\ p = SubSeq(q, 1, Len(p))
  BY SubSeqFull DEF IsPrefix

\* What is below a path that is below a root is below the root.
LEMMA BelowBelow ==
    ASSUME NEW r \in Paths, NEW p \in Below(r), NEW q \in Below(p)
    PROVE  q \in Below(r)
<1>1. p \in Paths /\ q \in Paths /\ IsPrefix(r, p) /\ IsPrefix(p, q)
  BY DEF Below
<1>2. /\ r \in Seq(Name) /\ p \in Seq(Name) /\ q \in Seq(Name)
      /\ Len(r) \in Nat /\ Len(p) \in Nat /\ Len(q) \in Nat
  BY <1>1, PathIsSeq
<1>3. Len(r) <= Len(p) /\ Len(p) <= Len(q) /\ r = SubSeq(p, 1, Len(r)) /\ p = SubSeq(q, 1, Len(p))
  BY <1>1, <1>2, PrefixIs
<1>4. SubSeq(SubSeq(q, 1, Len(p)), 1, Len(r)) = SubSeq(q, 1, Len(r))
  BY <1>2, <1>3, InitialOfInitial
<1> QED
  BY <1>1, <1>2, <1>3, <1>4, PrefixIs DEF Below

\* What is below a path is that path, or below one of its children; a file has none.
LEMMA BelowIs ==
    ASSUME NEW r \in Roots, NEW p \in Below(r), NEW q \in Below(p), q # p
    PROVE  p \in Dirs /\ \E h \in Children(p) : IsPrefix(h, q)
<1>1. r \in Paths /\ p \in Paths /\ q \in Paths /\ IsPrefix(p, q) /\ q \in Below(r)
  BY BelowBelow, CopyAssumption DEF Below
<1>2. /\ p \in Seq(Name) /\ q \in Seq(Name) /\ r \in Seq(Name)
      /\ Len(p) \in Nat \ {0} /\ Len(q) \in Nat /\ Len(r) \in Nat
  BY <1>1, PathIsSeq
<1>3. Len(p) <= Len(q) /\ p = SubSeq(q, 1, Len(p))
  BY <1>1, <1>2, PrefixIs
<1>4. Len(p) < Len(q)
  BY <1>2, <1>3, SubSeqFull
<1>5. Len(r) <= Len(p) /\ IsPrefix(r, q)
  BY <1>1, <1>2, PrefixIs DEF Below
<1>6. \A n \in Len(r) .. Len(q) - 1 : SubSeq(q, 1, n) \in Dirs
  BY <1>1, <1>5, CopyAssumption
<1>7. p \in Dirs
  <2>1. Len(p) \in Len(r) .. Len(q) - 1
    BY <1>2, <1>4, <1>5
  <2>2. SubSeq(q, 1, Len(p)) \in Dirs
    BY <1>6, <2>1
  <2> QED
    BY <1>3, <2>2
<1> DEFINE h == SubSeq(q, 1, Len(p) + 1)
<1>8. h \in Seq(Name) /\ Len(h) = Len(p) + 1 /\ Front(h) = p
  <2>1. Len(p) + 1 \in 1 .. Len(q) /\ (Len(p) + 1) - 1 = Len(p)
    BY <1>2, <1>4
  <2> QED
    <3>1. /\ h \in Seq(Name) /\ Len(h) = Len(p) + 1
          /\ Front(h) = SubSeq(q, 1, (Len(p) + 1) - 1)
      BY <1>2, <2>1, PathInitial
    <3> HIDE DEF h
    <3> QED
      BY <1>3, <2>1, <3>1
<1>9. h \in Paths
  <2>1. CASE Len(q) = Len(p) + 1
    BY <1>1, <1>2, <2>1, SubSeqFull
  <2>2. CASE Len(q) # Len(p) + 1
    BY <1>2, <1>4, <1>5, <1>6, <2>2 DEF Paths
  <2> QED
    BY <2>1, <2>2
<1>10. IsPrefix(h, q)
  <2>1. Len(h) <= Len(q) /\ h = SubSeq(q, 1, Len(h))
    BY <1>2, <1>4, <1>8
  <2> QED
    BY <1>2, <1>8, <2>1, PrefixIs
<1> QED
  BY <1>7, <1>8, <1>9, <1>10 DEF Children

\* A path is below itself, and its children are below it.
LEMMA ChildrenBelow ==
    ASSUME NEW p \in Paths
    PROVE  p \in Below(p) /\ Children(p) \subseteq Below(p)
<1>1. p \in Seq(Name) /\ Len(p) \in Nat \ {0}
  BY PathIsSeq
<1>2. p \in Below(p)
  BY <1>1, PrefixIs, SubSeqFull DEF Below
<1>3. ASSUME NEW q \in Children(p) PROVE q \in Below(p)
  <2>1. q \in Paths /\ Len(q) = Len(p) + 1 /\ p = SubSeq(q, 1, Len(q) - 1)
    BY DEF Children, Front
  <2>2. q \in Seq(Name)
    BY <2>1, PathIsSeq
  <2> QED
    <3>1. Len(q) - 1 = Len(p) /\ Len(p) <= Len(q)
      BY <1>1, <2>1
    <3>2. p = SubSeq(q, 1, Len(p))
      BY <2>1, <3>1
    <3> QED
      BY <1>1, <2>1, <2>2, <3>1, <3>2, PrefixIs DEF Below
<1> QED
  BY <1>2, <1>3

\* The directories a path is in, up to the first, are of the source or above a root.
LEMMA AncestorsKnown ==
    ASSUME NEW r \in Roots, NEW p \in Below(r), NEW n \in 1 .. Len(p), n < Len(p) \/ p \in Dirs
    PROVE  SubSeq(p, 1, n) \in AboveRoots \union Dirs
<1>1. r \in Paths /\ p \in Paths /\ IsPrefix(r, p)
  BY CopyAssumption DEF Below
<1>2. p \in Seq(Name) /\ r \in Seq(Name) /\ Len(p) \in Nat \ {0} /\ Len(r) \in Nat \ {0}
  BY <1>1, PathIsSeq
<1>3. Len(r) <= Len(p) /\ r = SubSeq(p, 1, Len(r))
  BY <1>1, <1>2, PrefixIs
<1>4. CASE n = Len(p)
  <2>1. SubSeq(p, 1, Len(p)) = p
    BY <1>2, SubSeqFull
  <2> QED
    <3>1. p \in Dirs
      BY <1>2, <1>4
    <3> QED
      BY <1>4, <2>1, <3>1
<1>5. CASE Len(r) <= n /\ n < Len(p)
  <2>1. \A k \in Len(r) .. Len(p) - 1 : SubSeq(p, 1, k) \in Dirs
    BY <1>1, CopyAssumption
  <2>2. n \in Len(r) .. Len(p) - 1
    BY <1>2, <1>5
  <2> QED
    BY <2>1, <2>2
<1>6. CASE n < Len(r)
  <2>1. SubSeq(r, 1, n) = SubSeq(p, 1, n)
    BY <1>2, <1>3, <1>6, InitialOfInitial
  <2>2. SubSeq(Front(r), 1, n) = SubSeq(r, 1, n)
    BY <1>2, <1>6, InitialOfInitial DEF Front
  <2>3. Len(Front(r)) = Len(r) - 1
    <3>1. Len(r) - 1 \in 0 .. Len(r)
      BY <1>2
    <3> QED
      BY <1>2, <3>1, Initial DEF Front
  <2>4. SubSeq(p, 1, n) \in Ancestors(Front(r))
    BY <1>2, <1>6, <2>1, <2>2, <2>3 DEF Ancestors
  <2> QED
    BY <2>4 DEF AboveRoots
<1> QED
  BY <1>2, <1>4, <1>5, <1>6

-----------------------------------------------------------------------------
(* Where things are: what a copy takes up is below its root, mkdir comes   *)
(* down one component at a time, and nothing below the root is forgotten.  *)

\* The directory mkdir is to make in the end.
Goal(c) == IF at[c] \in Dirs THEN at[c] ELSE Front(at[c])

\* mkdir has come to component k + 1 of its goal, and component k is there.
MakesFrom(c, k) ==
    /\ make[c] = [i \in 1 .. Len(Goal(c)) - k |-> SubSeq(Goal(c), 1, k + i)]
    /\ k = 0 \/ SubSeq(Goal(c), 1, k) \in dirs

Making(c) == pc[c] \in {"stat", "mkdir"} =>
    \E k \in 0 .. Len(Goal(c)) - 1 : MakesFrom(c, k)

\* The copies that need not find the directory of a file.
MayLackDirectory(c) == relative[c] \/ (kind[c] = "scp_send" /\ ~Recurses(c))

Opening(c) ==
    /\ pc[c] = "open" => HasParent(at[c], dirs) \/ MayLackDirectory(c)
    /\ pc[c] = "no directory" => MayLackDirectory(c)

Copied(c, q) ==
    \/ q \in Files /\ q \in DOMAIN files
    \/ q \in Dirs /\ (kind[c] \in {"copy_file", "scp_recv"} => q \in dirs)

\* Everything below the root of a copy has been copied, is pending, is below a directory
\* that is, or is what the copy is at; but for a copy that has failed.
Covered(c) == pc[c] \notin Errors \union {"spin"} =>
    \A q \in Below(root[c]) :
        \/ Copied(c, q)
        \/ \E p \in todo[c] : IsPrefix(p, q)
        \/ at[c] = q /\ pc[c] \in {"stat", "mkdir", "open"}

OnCourse(c) ==
    /\ todo[c] \subseteq Below(root[c]) /\ at[c] \in Below(root[c])
    /\ Making(c) /\ Opening(c) /\ Covered(c)
    /\ pc[c] = "done" => todo[c] = {}

Placed ==
    /\ root \in [Copier -> Roots]
    /\ make \in [Copier -> Seq(Seq(Name))] /\ made \in [Copier -> SUBSET dirs]
    /\ dirs \subseteq AboveRoots \union Dirs
    /\ \A f \in DOMAIN files : HasParent(f, dirs)
    /\ \A c \in Copier : OnCourse(c)

IInv == Written /\ Race /\ Placed

LEMMA InitPlaced == Init => Placed
<1> SUFFICES ASSUME Init PROVE Placed
  OBVIOUS
<1>1. /\ pc = [c \in Copier |-> "next"] /\ at = root /\ root \in [Copier -> Roots]
      /\ make = [c \in Copier |-> <<>>] /\ made = [c \in Copier |-> {}]
      /\ files = <<>> /\ todo = [c \in Copier |-> {root[c]}] /\ dirs \in {{}, AboveRoots}
  BY DEF Init
<1>2. make \in [Copier -> Seq(Seq(Name))] /\ DOMAIN files = {}
  BY <1>1, EmptySeq
<1>3. ASSUME NEW c \in Copier PROVE OnCourse(c)
  <2>1. root[c] \in Roots /\ root[c] \in Paths /\ pc[c] = "next" /\ at[c] = root[c]
        /\ todo[c] = {root[c]}
    BY <1>1, CopyAssumption
  <2>2. root[c] \in Below(root[c]) /\ \A q \in Below(root[c]) : IsPrefix(root[c], q)
    BY <2>1, ChildrenBelow DEF Below
  <2> QED
    BY <2>1, <2>2 DEF OnCourse, Making, Opening, Covered
<1> QED
  BY <1>1, <1>2, <1>3 DEF Placed

\* What the steps of a copy leave of the others, and that nothing is taken away.
Grows(c) ==
    /\ UNCHANGED asked /\ dirs \subseteq dirs' /\ DOMAIN files \subseteq DOMAIN files'
    /\ \A d \in Copier \ {c} :
          /\ pc'[d] = pc[d] /\ at'[d] = at[d] /\ todo'[d] = todo[d]
          /\ make'[d] = make[d] /\ made'[d] = made[d]

LEMMA OthersOnCourse ==
    ASSUME NEW c \in Copier, NEW d \in Copier \ {c}, Grows(c), OnCourse(d)
    PROVE  OnCourse(d)'
<1>1. /\ pc'[d] = pc[d] /\ at'[d] = at[d] /\ todo'[d] = todo[d] /\ make'[d] = make[d]
      /\ root'[d] = root[d] /\ kind'[d] = kind[d] /\ relative'[d] = relative[d]
      /\ recurse'[d] = recurse[d] /\ dirs \subseteq dirs' /\ DOMAIN files \subseteq DOMAIN files'
  BY DEF Grows, asked
<1>2. Making(d)'
  BY <1>1 DEF OnCourse, Making, MakesFrom, Goal
<1>3. Opening(d)'
  BY <1>1 DEF OnCourse, Opening, HasParent, MayLackDirectory, Recurses
<1>4. Covered(d)'
  BY <1>1 DEF OnCourse, Covered, Copied
<1> QED
  BY <1>1, <1>2, <1>3, <1>4 DEF OnCourse

\* What is left to show of a step of copy c.
LEMMA PlacedAgain ==
    ASSUME IInv, NEW c \in Copier, Grows(c), OnCourse(c)',
           make' \in [Copier -> Seq(Seq(Name))], made' \in [Copier -> SUBSET dirs'],
           dirs' \subseteq AboveRoots \union Dirs,
           \A f \in DOMAIN files' : HasParent(f, dirs')
    PROVE  Placed'
<1>1. root' \in [Copier -> Roots]
  BY DEF IInv, Placed, Grows, asked
<1>2. \A d \in Copier \ {c} : OnCourse(d)'
  BY OthersOnCourse DEF IInv, Placed
<1> QED
  BY <1>1, <1>2 DEF Placed

\* Files and directories are as they were.
LEMMA Unmade ==
    ASSUME IInv, UNCHANGED <<dirs, files, made>>
    PROVE  /\ made' \in [Copier -> SUBSET dirs'] /\ dirs' \subseteq AboveRoots \union Dirs
           /\ \A f \in DOMAIN files' : HasParent(f, dirs')
  BY DEF IInv, Placed

\* A path that is taken up is at once covered by what it leaves pending.
LEMMA TakenCovered ==
    ASSUME IInv, NEW c \in Copier, NEW p \in todo[c], Takes(c, p), Grows(c),
           \/ p \in Dirs /\ todo'[c] = Remaining(c, p) \union Children(p)
           \/ p \in Files /\ todo'[c] = Remaining(c, p),
           Copied(c, p)' \/ pc'[c] \in {"stat", "mkdir", "open"}
    PROVE  /\ Covered(c)' /\ todo'[c] \subseteq Below(root'[c]) /\ at'[c] \in Below(root'[c])
           /\ at'[c] = p /\ p \in Paths
<1>1. /\ pc[c] = "next" /\ at'[c] = p /\ root'[c] = root[c] /\ kind'[c] = kind[c]
      /\ dirs \subseteq dirs' /\ DOMAIN files \subseteq DOMAIN files'
  BY DEF Takes, Grows, asked, IInv, Written, WriteTypes
<1>2. root[c] \in Roots /\ root[c] \in Paths /\ OnCourse(c)
  BY CopyAssumption DEF IInv, Placed
<1>3. p \in Below(root[c]) /\ p \in Paths /\ todo[c] \subseteq Below(root[c])
  BY <1>2 DEF OnCourse, Below
<1>4. Children(p) \subseteq Below(root[c])
  BY <1>2, <1>3, ChildrenBelow, BelowBelow
<1>5. todo'[c] \subseteq Below(root[c])
  BY <1>3, <1>4 DEF Remaining
<1>6. ASSUME NEW q \in Below(root[c])
      PROVE  \/ Copied(c, q)'
             \/ \E t \in todo'[c] : IsPrefix(t, q)
             \/ at'[c] = q /\ pc'[c] \in {"stat", "mkdir", "open"}
  <2>1. CASE q = p
    BY <1>1, <2>1
  <2>2. CASE q # p /\ IsPrefix(p, q)
    <3>1. q \in Below(p)
      BY <2>2 DEF Below
    <3>2. p \in Dirs /\ \E h \in Children(p) : IsPrefix(h, q)
      BY <1>2, <1>3, <2>2, <3>1, BelowIs
    <3>3. p \notin Files
      BY <3>2, CopyAssumption
    <3> QED
      BY <3>2, <3>3
  <2>3. CASE \E t \in todo[c] : t # p /\ IsPrefix(t, q)
    BY <2>3 DEF Remaining
  <2>4. CASE Copied(c, q)
    BY <1>1, <2>4 DEF Copied
  <2> QED
    BY <1>1, <1>2, <2>1, <2>2, <2>3, <2>4 DEF OnCourse, Covered, Errors
<1> QED
  BY <1>1, <1>3, <1>5, <1>6 DEF Covered

LEMMA TakeGrows ==
    ASSUME IInv, NEW c \in Copier, NEW p \in todo[c],
           \/ RefuseDir(c, p) \/ CopyDir(c, p) \/ RecvDir(c, p) \/ ListDir(c, p)
           \/ PutFile(c, p) \/ SendFile(c, p) \/ GetFile(c, p) \/ RecvFile(c, p)
    PROVE  Grows(c)
<1>1. CASE RefuseDir(c, p) \/ ListDir(c, p)
  BY <1>1 DEF RefuseDir, ListDir, Descends, Takes, Goes, Grows, asked, IInv, Written, WriteTypes
<1>2. CASE CopyDir(c, p) \/ RecvDir(c, p)
  BY <1>2 DEF CopyDir, RecvDir, Descends, Takes, Goes, Grows, asked, IInv, Written, WriteTypes,
              Placed
<1>3. CASE PutFile(c, p) \/ SendFile(c, p)
  BY <1>3 DEF PutFile, SendFile, ToHost, Takes, Goes, Grows, asked, IInv, Written, WriteTypes,
              Placed
<1>4. CASE GetFile(c, p) \/ RecvFile(c, p)
  BY <1>4 DEF GetFile, RecvFile, FromHost, Takes, Goes, Grows, asked, IInv, Written, WriteTypes
<1> QED
  BY <1>1, <1>2, <1>3, <1>4

\* The first directory of mkdir is to be looked for.
LEMMA StartsMaking ==
    ASSUME NEW c \in Copier, make'[c] = Components(Goal(c)'), Goal(c)' \in Seq(Name),
           Goal(c)' # <<>>
    PROVE  Making(c)' /\ make'[c] \in Seq(Seq(Name))
<1> DEFINE t == Goal(c)'
<1>1. Len(t) \in Nat \ {0}
  BY EmptySeq
<1>2. make'[c] = [i \in 1 .. Len(t) - 0 |-> SubSeq(t, 1, 0 + i)]
  BY <1>1 DEF Components
<1>3. MakesFrom(c, 0)' /\ 0 \in 0 .. Len(t) - 1
  BY <1>1, <1>2 DEF MakesFrom
<1>4. \A i \in 1 .. Len(t) : SubSeq(t, 1, i) \in Seq(Name)
  BY <1>1, Initial
<1>5. make'[c] \in [1 .. Len(t) -> Seq(Name)]
  BY <1>1, <1>4 DEF Components
<1> QED
  BY <1>1, <1>3, <1>5, SeqDef DEF Making

\* RefuseDir and ListDir make nothing.
LEMMA RefuseListPlaced ==
    ASSUME IInv, NEW c \in Copier, NEW p \in todo[c], RefuseDir(c, p) \/ ListDir(c, p)
    PROVE  Placed'
<1>1. Grows(c) /\ UNCHANGED <<dirs, files, made, make>> /\ OnCourse(c) /\ Takes(c, p)
  BY TakeGrows DEF RefuseDir, ListDir, Descends, IInv, Placed
<1>2. make' \in [Copier -> Seq(Seq(Name))]
  BY <1>1 DEF IInv, Placed
<1>3. CASE RefuseDir(c, p)
  <2>1. /\ pc'[c] \in {"failed", "not recursive"}
        /\ todo'[c] = todo[c] /\ at'[c] = p /\ root'[c] = root[c]
    BY <1>3 DEF RefuseDir, Takes, Goes, asked, IInv, Written, WriteTypes
  <2>2. OnCourse(c)'
    BY <1>1, <2>1 DEF OnCourse, Making, Opening, Covered, Errors
  <2> QED
    BY <1>1, <1>2, <2>2, Unmade, PlacedAgain
<1>4. CASE ListDir(c, p)
  <2>1. /\ pc'[c] = "next" /\ p \in Dirs /\ todo'[c] = Remaining(c, p) \union Children(p)
        /\ kind'[c] \notin {"copy_file", "scp_recv"}
    BY <1>4 DEF ListDir, Descends, Takes, asked, IInv, Written, WriteTypes
  <2>2. Covered(c)' /\ todo'[c] \subseteq Below(root'[c]) /\ at'[c] \in Below(root'[c])
    BY <1>1, <2>1, TakenCovered DEF Copied
  <2>3. OnCourse(c)'
    BY <2>1, <2>2 DEF OnCourse, Making, Opening
  <2> QED
    BY <1>1, <1>2, <2>3, Unmade, PlacedAgain
<1> QED
  BY <1>3, <1>4

LEMMA CopyDirPlaced ==
    ASSUME IInv, NEW c \in Copier, NEW p \in todo[c], CopyDir(c, p)
    PROVE  Placed'
<1>1. Grows(c) /\ UNCHANGED <<dirs, files, made>> /\ Takes(c, p)
  BY TakeGrows DEF CopyDir, Descends
<1>2. /\ pc'[c] = "stat" /\ p \in Dirs /\ todo'[c] = Remaining(c, p) \union Children(p)
      /\ make' = [make EXCEPT ![c] = Components(p)]
  BY DEF CopyDir, Descends, Takes, Goes, IInv, Written, WriteTypes
<1>3. /\ Covered(c)' /\ todo'[c] \subseteq Below(root'[c]) /\ at'[c] \in Below(root'[c])
      /\ at'[c] = p /\ p \in Paths
  BY <1>1, <1>2, TakenCovered
<1>4. Goal(c)' = p /\ p \in Seq(Name) /\ p # <<>> /\ make'[c] = Components(p)
  BY <1>2, <1>3, PathIsSeq, CopyAssumption DEF Goal, IInv, Placed
<1>5. Making(c)' /\ make'[c] \in Seq(Seq(Name))
  BY <1>4, StartsMaking
<1>6. make' \in [Copier -> Seq(Seq(Name))]
  BY <1>2, <1>4, <1>5 DEF IInv, Placed
<1>7. OnCourse(c)'
  BY <1>2, <1>3, <1>5 DEF OnCourse, Opening
<1> QED
  BY <1>1, <1>6, <1>7, Unmade, PlacedAgain

\* os.makedirs makes a directory with all it is in.
LEMMA RecvDirPlaced ==
    ASSUME IInv, NEW c \in Copier, NEW p \in todo[c], RecvDir(c, p)
    PROVE  Placed'
<1>1. Grows(c) /\ UNCHANGED <<files, made, make>> /\ Takes(c, p) /\ dirs' = dirs \union Ancestors(p)
  BY TakeGrows DEF RecvDir, Descends
<1>2. pc'[c] = "next" /\ p \in Dirs /\ todo'[c] = Remaining(c, p) \union Children(p)
  BY DEF RecvDir, Descends, Takes, IInv, Written, WriteTypes
<1>3. OnCourse(c) /\ root[c] \in Roots
  BY DEF IInv, Placed
<1>4. p \in Below(root[c]) /\ p \in Paths /\ p \in Seq(Name) /\ Len(p) \in Nat \ {0}
  BY <1>3, PathIsSeq DEF OnCourse, Below
<1>5. SubSeq(p, 1, Len(p)) = p /\ p \in dirs'
  <2>1. SubSeq(p, 1, Len(p)) = p
    BY <1>4, SubSeqFull
  <2>2. SubSeq(p, 1, Len(p)) \in Ancestors(p)
    BY <1>4 DEF Ancestors
  <2> QED
    BY <1>1, <2>1, <2>2
<1>6. dirs' \subseteq AboveRoots \union Dirs
  <2>1. Ancestors(p) \subseteq AboveRoots \union Dirs
    BY <1>2, <1>3, <1>4, AncestorsKnown DEF Ancestors
  <2> QED
    BY <1>1, <2>1 DEF IInv, Placed
<1>7. Covered(c)' /\ todo'[c] \subseteq Below(root'[c]) /\ at'[c] \in Below(root'[c])
  BY <1>1, <1>2, <1>5, TakenCovered DEF Copied
<1>8. OnCourse(c)'
  BY <1>2, <1>7 DEF OnCourse, Making, Opening
<1>9. /\ make' \in [Copier -> Seq(Seq(Name))] /\ made' \in [Copier -> SUBSET dirs']
      /\ \A f \in DOMAIN files' : HasParent(f, dirs')
  BY <1>1 DEF IInv, Placed, HasParent
<1> QED
  BY <1>1, <1>6, <1>8, <1>9, PlacedAgain

\* The directory of a file, and those it is in.
LEMMA FrontKnown ==
    ASSUME NEW r \in Roots, NEW p \in Below(r)
    PROVE  /\ Front(p) \in Seq(Name) /\ Len(Front(p)) = Len(p) - 1 /\ Len(p) \in Nat \ {0}
           /\ Ancestors(Front(p)) \subseteq AboveRoots \union Dirs
           /\ Len(p) # 1 => Front(p) # <<>> /\ Front(p) \in Ancestors(Front(p))
<1>1. p \in Paths /\ p \in Seq(Name) /\ Len(p) \in Nat \ {0}
  BY PathIsSeq DEF Below
<1>2. Len(p) - 1 \in 0 .. Len(p)
  BY <1>1
<1>3. Front(p) \in Seq(Name) /\ Len(Front(p)) = Len(p) - 1
  BY <1>1, <1>2, Initial DEF Front
<1>4. ASSUME NEW n \in 1 .. Len(Front(p)) PROVE SubSeq(Front(p), 1, n) \in AboveRoots \union Dirs
  <2>1. n \in 1 .. Len(p) /\ n < Len(p) /\ n \in 0 .. Len(p) - 1
    BY <1>1, <1>3
  <2>2. SubSeq(p, 1, n) \in AboveRoots \union Dirs
    BY <2>1, AncestorsKnown
  <2>3. SubSeq(SubSeq(p, 1, Len(p) - 1), 1, n) = SubSeq(p, 1, n)
    BY <1>1, <1>2, <2>1, InitialOfInitial
  <2> QED
    BY <2>2, <2>3 DEF Front
<1>5. ASSUME Len(p) # 1 PROVE Front(p) # <<>> /\ Front(p) \in Ancestors(Front(p))
  <2>1. Len(Front(p)) \in Nat \ {0} /\ Len(Front(p)) \in 1 .. Len(Front(p))
    BY <1>1, <1>3, <1>5
  <2>2. SubSeq(Front(p), 1, Len(Front(p))) = Front(p)
    BY <1>3, SubSeqFull
  <2> QED
    BY <2>1, <2>2, EmptySeq DEF Ancestors
<1> QED
  BY <1>1, <1>3, <1>4, <1>5 DEF Ancestors

LEMMA ToHostPlaced ==
    ASSUME IInv, NEW c \in Copier, NEW p \in todo[c], PutFile(c, p) \/ SendFile(c, p)
    PROVE  Placed'
<1>1. /\ Grows(c) /\ UNCHANGED <<dirs, files, made>> /\ ToHost(c, p) /\ Takes(c, p)
      /\ kind[c] \in {"copy_file", "scp_send"}
  BY TakeGrows DEF PutFile, SendFile, ToHost
<1>2. /\ p \in Files /\ todo'[c] = Remaining(c, p) /\ OnCourse(c) /\ root[c] \in Roots
      /\ p \in Below(root[c])
  BY <1>1 DEF ToHost, IInv, Written, WriteTypes, Placed, OnCourse
<1>3. pc'[c] \in {"stat", "open"}
  BY <1>1 DEF ToHost, Goes, IInv, Written, WriteTypes
<1>4. /\ Covered(c)' /\ todo'[c] \subseteq Below(root'[c]) /\ at'[c] \in Below(root'[c])
      /\ at'[c] = p
  BY <1>1, <1>2, <1>3, TakenCovered
<1>5. CASE AsksForParent(c, p) /\ ~HasParent(p, dirs)
  <2>1. /\ pc'[c] = "stat" /\ make' = [make EXCEPT ![c] = Components(Front(p))]
        /\ make'[c] = Components(Front(p)) /\ Len(p) # 1
    BY <1>1, <1>5 DEF ToHost, Goes, HasParent, IInv, Written, WriteTypes, Placed
  <2>2. Goal(c)' = Front(p) /\ Front(p) \in Seq(Name) /\ Front(p) # <<>>
    BY <1>2, <1>4, <2>1, FrontKnown, CopyAssumption DEF Goal
  <2>3. Making(c)' /\ make'[c] \in Seq(Seq(Name))
    BY <2>1, <2>2, StartsMaking
  <2>4. make' \in [Copier -> Seq(Seq(Name))]
    BY <2>1, <2>3 DEF IInv, Placed
  <2>5. OnCourse(c)'
    BY <1>4, <2>1, <2>3 DEF OnCourse, Opening
  <2> QED
    BY <1>1, <2>4, <2>5, Unmade, PlacedAgain
<1>6. CASE ~(AsksForParent(c, p) /\ ~HasParent(p, dirs))
  <2>1. pc'[c] = "open" /\ UNCHANGED make
    BY <1>1, <1>6 DEF ToHost, Goes, IInv, Written, WriteTypes
  <2>2. HasParent(p, dirs) \/ MayLackDirectory(c)
    BY <1>1, <1>6, <1>2, FrontKnown DEF AsksForParent, HasParent, MayLackDirectory
  <2>3. HasParent(at'[c], dirs') \/ MayLackDirectory(c)'
    BY <1>1, <1>4, <2>2 DEF Grows, asked, MayLackDirectory, Recurses, HasParent
  <2>4. OnCourse(c)'
    BY <1>4, <2>1, <2>3 DEF OnCourse, Opening, Making
  <2>5. make' \in [Copier -> Seq(Seq(Name))]
    BY <2>1 DEF IInv, Placed
  <2> QED
    BY <1>1, <2>4, <2>5, Unmade, PlacedAgain
<1> QED
  BY <1>5, <1>6

LEMMA FromHostPlaced ==
    ASSUME IInv, NEW c \in Copier, NEW p \in todo[c], GetFile(c, p) \/ RecvFile(c, p)
    PROVE  Placed'
<1>1. /\ Grows(c) /\ UNCHANGED <<files, make, made>> /\ Takes(c, p) /\ p \in Files
      /\ dirs' = dirs \union (IF relative[c] THEN {} ELSE Ancestors(Front(p)))
  BY TakeGrows DEF GetFile, RecvFile, FromHost
<1>2. /\ todo'[c] = Remaining(c, p) /\ pc'[c] = "open" /\ OnCourse(c) /\ root[c] \in Roots
      /\ p \in Below(root[c])
  BY DEF GetFile, RecvFile, FromHost, Goes, IInv, Written, WriteTypes, Placed, OnCourse
<1>3. /\ Covered(c)' /\ todo'[c] \subseteq Below(root'[c]) /\ at'[c] \in Below(root'[c])
      /\ at'[c] = p
  BY <1>1, <1>2, TakenCovered
<1>4. dirs' \subseteq AboveRoots \union Dirs
  BY <1>1, <1>2, FrontKnown DEF IInv, Placed
<1>5. HasParent(p, dirs') \/ relative[c]
  BY <1>1, <1>2, FrontKnown DEF HasParent
<1>6. OnCourse(c)'
  BY <1>1, <1>2, <1>3, <1>5 DEF OnCourse, Opening, Making, MayLackDirectory, Grows, asked
<1>7. /\ make' \in [Copier -> Seq(Seq(Name))] /\ made' \in [Copier -> SUBSET dirs']
      /\ \A f \in DOMAIN files' : HasParent(f, dirs')
  BY <1>1 DEF IInv, Placed, HasParent
<1> QED
  BY <1>1, <1>4, <1>6, <1>7, PlacedAgain

\* What mkdir is to make is known, and has a directory to be made in.
LEMMA GoalKnown ==
    ASSUME IInv, NEW c \in Copier
    PROVE  /\ Goal(c) \in Seq(Name) /\ Len(Goal(c)) \in Nat
           /\ \A n \in 1 .. Len(Goal(c)) : SubSeq(Goal(c), 1, n) \in AboveRoots \union Dirs
<1>1. root[c] \in Roots /\ at[c] \in Below(root[c]) /\ at[c] \in Paths
  BY DEF IInv, Placed, OnCourse, Below
<1>2. at[c] \in Seq(Name) /\ Len(at[c]) \in Nat
  BY <1>1, PathIsSeq
<1>3. CASE at[c] \in Dirs
  <2>1. \A n \in 1 .. Len(at[c]) : SubSeq(at[c], 1, n) \in AboveRoots \union Dirs
    BY <1>1, <1>3, AncestorsKnown
  <2> QED
    BY <1>2, <1>3, <2>1 DEF Goal
<1>4. CASE at[c] \notin Dirs
  <2>1. /\ Front(at[c]) \in Seq(Name)
        /\ Ancestors(Front(at[c])) \subseteq AboveRoots \union Dirs
    BY <1>1, FrontKnown
  <2> QED
    BY <1>4, <2>1, LenProperties DEF Goal, Ancestors
<1> QED
  BY <1>3, <1>4


\* The components mkdir has yet to look at, and what is left of them after one.
LEMMA NextComponent ==
    ASSUME IInv, NEW c \in Copier, NEW k \in 0 .. Len(Goal(c)) - 1, MakesFrom(c, k)
    PROVE  /\ Head(make[c]) = SubSeq(Goal(c), 1, k + 1) /\ Len(make[c]) = Len(Goal(c)) - k
           /\ Head(make[c]) \in AboveRoots \union Dirs /\ HasParent(Head(make[c]), dirs)
           /\ Tail(make[c])
                 = [i \in 1 .. Len(Goal(c)) - (k + 1) |-> SubSeq(Goal(c), 1, (k + 1) + i)]
           /\ Tail(make[c]) \in Seq(Seq(Name)) /\ make[c] # <<>>
<1> DEFINE t == Goal(c)
<1>1. /\ t \in Seq(Name) /\ Len(t) \in Nat
      /\ \A n \in 1 .. Len(t) : SubSeq(t, 1, n) \in AboveRoots \union Dirs
  BY GoalKnown
<1>2. make[c] = [i \in 1 .. Len(t) - k |-> SubSeq(t, 1, k + i)] /\ make[c] \in Seq(Seq(Name))
  BY DEF MakesFrom, IInv, Placed
<1> HIDE DEF t
<1>3. Len(t) - k \in Nat \ {0} /\ k + 1 \in 1 .. Len(t) /\ (k + 1) - 1 = k
  BY <1>1 DEF t
<1>4. Len(make[c]) = Len(t) - k /\ make[c] # <<>>
  <2>1. DOMAIN make[c] = 1 .. Len(t) - k
    BY <1>2
  <2>2. Len(make[c]) \in Nat /\ DOMAIN make[c] = 1 .. Len(make[c])
    BY <1>2, LenProperties
  <2>3. Len(make[c]) = Len(t) - k
    <3> DEFINE n == Len(t) - k
    <3>1. n \in Nat /\ 1 .. n = 1 .. Len(make[c])
      BY <1>3, <2>1, <2>2
    <3> HIDE DEF n
    <3> QED
      BY <2>2, <3>1 DEF n
  <2> QED
    BY <1>2, <1>3, <2>3, EmptySeq
<1>5. Head(make[c]) = SubSeq(t, 1, k + 1)
  <2>1. 1 \in 1 .. Len(t) - k
    BY <1>3
  <2>2. make[c][1] = SubSeq(t, 1, k + 1)
    BY <1>2, <2>1
  <2> QED
    BY <1>2, <1>4, <2>2, HeadTailProperties
<1>6. Head(make[c]) \in AboveRoots \union Dirs
  BY <1>1, <1>3, <1>5
<1>7. HasParent(Head(make[c]), dirs)
  <2>1. Len(SubSeq(t, 1, k + 1)) = k + 1 /\ Front(SubSeq(t, 1, k + 1)) = SubSeq(t, 1, (k + 1) - 1)
    BY <1>1, <1>3, PathInitial
  <2>2. k = 0 \/ SubSeq(t, 1, k) \in dirs
    BY DEF MakesFrom, t
  <2>3. Len(Head(make[c])) = k + 1 /\ Front(Head(make[c])) = SubSeq(t, 1, k)
    BY <1>3, <1>5, <2>1
  <2>4. CASE k = 0
    BY <2>3, <2>4 DEF HasParent
  <2> QED
    BY <2>2, <2>3, <2>4 DEF HasParent
<1>8. Tail(make[c]) = [i \in 1 .. Len(t) - (k + 1) |-> SubSeq(t, 1, (k + 1) + i)]
  <2> DEFINE u == [i \in 1 .. Len(t) - (k + 1) |-> SubSeq(t, 1, (k + 1) + i)]
  <2>1. /\ Tail(make[c]) \in Seq(Seq(Name)) /\ Len(Tail(make[c])) = Len(make[c]) - 1
        /\ \A i \in 1 .. Len(Tail(make[c])) : Tail(make[c])[i] = make[c][i + 1]
    BY <1>2, <1>4, HeadTailProperties
  <2>2. Len(t) - (k + 1) \in Nat /\ Len(make[c]) - 1 = Len(t) - (k + 1)
    BY <1>1, <1>3, <1>4
  <2>3. \A i \in 1 .. Len(t) - (k + 1) :
            /\ i + 1 \in 1 .. Len(t) - k /\ k + (i + 1) = (k + 1) + i
            /\ (k + 1) + i \in 1 .. Len(t)
    BY <1>1, <1>3
  <2>4. \A i \in 1 .. Len(t) - (k + 1) : Tail(make[c])[i] = SubSeq(t, 1, (k + 1) + i)
    BY <1>2, <2>1, <2>2, <2>3
  <2>5. DOMAIN Tail(make[c]) = 1 .. Len(t) - (k + 1)
    BY <2>1, <2>2, LenProperties
  <2>6. Tail(make[c]) = [i \in DOMAIN Tail(make[c]) |-> Tail(make[c])[i]]
    BY <2>1, LenProperties
  <2> QED
    BY <2>4, <2>5, <2>6
<1>9. Tail(make[c]) \in Seq(Seq(Name))
  BY <1>2, <1>4, HeadTailProperties
<1> QED
  BY <1>4, <1>5, <1>6, <1>7, <1>8, <1>9 DEF t

\* With a component there, mkdir goes on to the next, or has reached its goal.
LEMMA MadePlaced ==
    ASSUME IInv, NEW c \in Copier, pc[c] \in {"stat", "mkdir"}, Made(c), Grows(c),
           UNCHANGED <<at, todo>>, Head(make[c]) \in dirs'
    PROVE  OnCourse(c)' /\ make' \in [Copier -> Seq(Seq(Name))]
<1>1. /\ OnCourse(c) /\ make \in [Copier -> Seq(Seq(Name))]
      /\ root'[c] = root[c] /\ kind'[c] = kind[c]
      /\ dirs \subseteq dirs' /\ DOMAIN files \subseteq DOMAIN files'
  BY DEF IInv, Placed, Grows, asked
<1>2. PICK k \in 0 .. Len(Goal(c)) - 1 : MakesFrom(c, k)
  BY <1>1 DEF OnCourse, Making
<1>3. /\ Head(make[c]) = SubSeq(Goal(c), 1, k + 1) /\ Len(make[c]) = Len(Goal(c)) - k
      /\ Tail(make[c]) = [i \in 1 .. Len(Goal(c)) - (k + 1) |-> SubSeq(Goal(c), 1, (k + 1) + i)]
      /\ Tail(make[c]) \in Seq(Seq(Name))
      /\ Goal(c) \in Seq(Name) /\ Len(Goal(c)) \in Nat
  BY <1>2, NextComponent, GoalKnown
<1>4. make' = [make EXCEPT ![c] = Tail(make[c])] /\ make'[c] = Tail(make[c])
  BY <1>1 DEF Made
<1>5. make' \in [Copier -> Seq(Seq(Name))]
  BY <1>1, <1>3, <1>4
<1>6. Goal(c)' = Goal(c) /\ at'[c] = at[c] /\ todo'[c] = todo[c]
  BY DEF Goal
<1>7. CASE Len(make[c]) > 1
  <2>1. pc'[c] = "stat"
    BY <1>7 DEF Made, Goes, IInv, Written, WriteTypes
  <2>2. k + 1 \in 0 .. Len(Goal(c)) - 1 /\ SubSeq(Goal(c), 1, k + 1) \in dirs'
    <3>1. k + 1 \in 0 .. Len(Goal(c)) - 1
      BY <1>3, <1>7
    <3> QED
      BY <1>3, <3>1
  <2>3. MakesFrom(c, k + 1)'
    BY <1>3, <1>4, <1>6, <2>2 DEF MakesFrom
  <2>4. Making(c)'
    BY <1>6, <2>2, <2>3 DEF Making
  <2> QED
    BY <1>1, <1>5, <1>6, <2>1, <2>4 DEF OnCourse, Opening, Covered, Copied, Errors
<1>8. CASE ~(Len(make[c]) > 1)
  <2>1. Goal(c) \in dirs'
    <3>1. k + 1 = Len(Goal(c))
      BY <1>3, <1>8
    <3> QED
      BY <1>3, <3>1, SubSeqFull
  <2>2. at[c] \in Paths
    BY <1>1 DEF OnCourse, Below
  <2>3. CASE at[c] \in Dirs
    <3>1. pc'[c] = "next" /\ at[c] \in dirs'
      BY <1>8, <2>1, <2>3 DEF Made, Goes, Goal, IInv, Written, WriteTypes
    <3> QED
      BY <1>1, <1>5, <1>6, <2>3, <3>1 DEF OnCourse, Making, Opening, Covered, Copied, Errors
  <2>4. CASE at[c] \notin Dirs
    <3>1. pc'[c] = "open" /\ Front(at[c]) \in dirs'
      BY <1>8, <2>1, <2>4 DEF Made, Goes, Goal, IInv, Written, WriteTypes
    <3> QED
      BY <1>1, <1>5, <1>6, <3>1 DEF OnCourse, Making, Opening, HasParent, Covered, Copied, Errors
  <2> QED
    BY <2>3, <2>4
<1> QED
  BY <1>7, <1>8

LEMMA StatDirPlaced ==
    ASSUME IInv, NEW c \in Copier, StatDir(c)
    PROVE  Placed'
<1>1. /\ UNCHANGED <<dirs, files, made, at, todo, asked>> /\ pc[c] = "stat"
      /\ pc \in [Copier -> {"next", "stat", "mkdir", "open", "write", "spin"} \union Ends]
      /\ OnCourse(c) /\ make \in [Copier -> Seq(Seq(Name))]
  BY DEF StatDir, IInv, Written, WriteTypes, Placed
<1>2. Grows(c)
  BY <1>1 DEF StatDir, Made, Goes, Grows
<1>3. OnCourse(c)' /\ make' \in [Copier -> Seq(Seq(Name))]
  <2>1. CASE Head(make[c]) \in dirs
    BY <1>1, <1>2, <2>1, MadePlaced DEF StatDir
  <2>2. CASE Head(make[c]) \notin dirs
    <3>1. pc'[c] = "mkdir" /\ make' = make
      BY <1>1, <2>2 DEF StatDir, Goes
    <3> QED
      BY <1>1, <3>1 DEF OnCourse, Making, MakesFrom, Goal, Opening, Covered, Copied, Errors, asked
  <2> QED
    BY <2>1, <2>2
<1> QED
  BY <1>1, <1>2, <1>3, Unmade, PlacedAgain

LEMMA MakeDirPlaced ==
    ASSUME IInv, NEW c \in Copier, MakeDir(c)
    PROVE  Placed'
<1>1. /\ UNCHANGED <<files, at, todo, asked>> /\ pc[c] = "mkdir" /\ Made(c)
      /\ dirs' = dirs \union {Head(make[c])}
      /\ made' = [made EXCEPT ![c] = @ \union {Head(make[c])}]
      /\ pc \in [Copier -> {"next", "stat", "mkdir", "open", "write", "spin"} \union Ends]
      /\ OnCourse(c) /\ made \in [Copier -> SUBSET dirs] /\ make \in [Copier -> Seq(Seq(Name))]
  BY DEF MakeDir, IInv, Written, WriteTypes, Placed
<1>2. Grows(c)
  BY <1>1 DEF Made, Goes, Grows
<1>3. OnCourse(c)' /\ make' \in [Copier -> Seq(Seq(Name))]
  BY <1>1, <1>2, MadePlaced
<1>4. dirs' \subseteq AboveRoots \union Dirs
  BY <1>1, NextComponent DEF OnCourse, Making, IInv, Placed
<1>5. made' \in [Copier -> SUBSET dirs'] /\ \A f \in DOMAIN files' : HasParent(f, dirs')
  BY <1>1 DEF IInv, Placed, HasParent
<1> QED
  BY <1>2, <1>3, <1>4, <1>5, PlacedAgain

\* Without the parent of what it is to make, mkdir would have failed before.
LEMMA MakeDirFailsPlaced ==
    ASSUME IInv, NEW c \in Copier, MakeDirFails(c)
    PROVE  Placed'
<1>1. /\ UNCHANGED <<dirs, files, made, make, at, todo, asked>> /\ pc[c] = "mkdir"
      /\ pc \in [Copier -> {"next", "stat", "mkdir", "open", "write", "spin"} \union Ends]
      /\ OnCourse(c) /\ make \in [Copier -> Seq(Seq(Name))]
  BY DEF MakeDirFails, IInv, Written, WriteTypes, Placed
<1>2. HasParent(Head(make[c]), dirs)
  BY <1>1, NextComponent DEF OnCourse, Making
<1>3. pc' = [pc EXCEPT ![c] = "exists"]
  BY <1>2 DEF MakeDirFails, Goes
<1>4. Grows(c) /\ OnCourse(c)'
  BY <1>1, <1>3 DEF Grows, OnCourse, Making, Opening, Covered, Errors, asked
<1> QED
  BY <1>1, <1>4, Unmade, PlacedAgain

LEMMA OpenPlaced ==
    ASSUME IInv, NEW c \in Copier, Open(c)
    PROVE  Placed'
<1>1. /\ UNCHANGED <<dirs, made, make, at, todo, asked>> /\ pc[c] = "open" /\ HasParent(at[c], dirs)
      /\ pc' = [pc EXCEPT ![c] = "write"] /\ DOMAIN files' = DOMAIN files \union {at[c]}
      /\ pc \in [Copier -> {"next", "stat", "mkdir", "open", "write", "spin"} \union Ends]
      /\ OnCourse(c) /\ make \in [Copier -> Seq(Seq(Name))] /\ at[c] \in Files
  BY DEF Open, Goes, IInv, Written, WriteTypes, Placed
<1>2. Grows(c) /\ pc'[c] = "write"
  BY <1>1 DEF Grows
<1>3. Covered(c)'
  BY <1>1, <1>2 DEF OnCourse, Covered, Copied, Errors, asked
<1>4. OnCourse(c)'
  BY <1>1, <1>2, <1>3 DEF OnCourse, Making, Opening, asked
<1>5. /\ made' \in [Copier -> SUBSET dirs'] /\ dirs' \subseteq AboveRoots \union Dirs
      /\ \A f \in DOMAIN files' : HasParent(f, dirs')
  BY <1>1 DEF IInv, Placed, HasParent
<1> QED
  BY <1>1, <1>2, <1>4, <1>5, PlacedAgain

\* The steps that make nothing and take up nothing.
LEMMA RestPlaced ==
    ASSUME IInv, NEW c \in Copier,
           NoDirectory(c) \/ Write(c) \/ Close(c) \/ Return(c) \/ Fail(c) \/ Spin(c)
    PROVE  Placed'
<1>1. /\ UNCHANGED <<dirs, made, make, at, todo, asked>> /\ DOMAIN files' = DOMAIN files
      /\ pc \in [Copier -> {"next", "stat", "mkdir", "open", "write", "spin"} \union Ends]
      /\ OnCourse(c) /\ make \in [Copier -> Seq(Seq(Name))]
  BY DEF NoDirectory, Write, Close, Return, Fail, Spin, IInv, Written, WriteTypes, Placed
<1>2. \/ pc'[c] = pc[c]
      \/ pc[c] = "write" /\ pc'[c] = "next"
      \/ pc[c] = "next" /\ pc'[c] = "done" /\ todo[c] = {}
      \/ pc'[c] \in {"failed", "cut", "spin"}
      \/ pc[c] = "open" /\ ~HasParent(at[c], dirs) /\ pc'[c] = "no directory"
  BY <1>1 DEF NoDirectory, Write, Close, Return, Fail, Spin, Goes
<1>3. Grows(c)
  BY <1>1 DEF NoDirectory, Write, Close, Return, Fail, Spin, Goes, Grows
<1>4. Covered(c)'
  BY <1>1, <1>2 DEF OnCourse, Covered, Copied, Errors, asked
<1>5. Making(c)' /\ Opening(c)' /\ (pc'[c] = "done" => todo'[c] = {})
  BY <1>1, <1>2 DEF OnCourse, Making, MakesFrom, Goal, Opening, MayLackDirectory, Recurses,
                    HasParent, asked
<1>6. OnCourse(c)'
  BY <1>1, <1>4, <1>5 DEF OnCourse, asked
<1>7. /\ made' \in [Copier -> SUBSET dirs'] /\ dirs' \subseteq AboveRoots \union Dirs
      /\ \A f \in DOMAIN files' : HasParent(f, dirs')
  BY <1>1 DEF IInv, Placed, HasParent
<1> QED
  BY <1>1, <1>3, <1>6, <1>7, PlacedAgain

LEMMA StepPlaced == IInv /\ [Next]_vars => Placed'
<1> SUFFICES ASSUME IInv, [Next]_vars PROVE Placed'
  OBVIOUS
<1>1. CASE UNCHANGED vars
  <2>1. UNCHANGED <<asked, dirs, files, pc, at, todo, make, made>>
    BY <1>1 DEF vars, asked
  <2>2. ASSUME NEW c \in Copier PROVE OnCourse(c)'
    <3>1. OnCourse(c)
      BY DEF IInv, Placed
    <3>2. Making(c)'
      BY <2>1, <3>1 DEF OnCourse, Making, MakesFrom, Goal
    <3>3. Opening(c)'
      BY <2>1, <3>1 DEF asked, OnCourse, Opening, MayLackDirectory, Recurses, HasParent
    <3>4. Covered(c)'
      BY <2>1, <3>1 DEF asked, OnCourse, Covered, Copied
    <3> QED
      BY <2>1, <3>1, <3>2, <3>3, <3>4 DEF asked, OnCourse
  <2> QED
    BY <2>1, <2>2 DEF asked, IInv, Placed, HasParent
<1>2. ASSUME NEW c \in Copier, Step(c) \/ Fail(c) \/ Spin(c) PROVE Placed'
  <2>1. ASSUME NEW p \in todo[c],
               \/ RefuseDir(c, p) \/ CopyDir(c, p) \/ RecvDir(c, p) \/ ListDir(c, p)
               \/ PutFile(c, p) \/ SendFile(c, p) \/ GetFile(c, p) \/ RecvFile(c, p)
        PROVE  Placed'
    BY <2>1, RefuseListPlaced, CopyDirPlaced, RecvDirPlaced, ToHostPlaced, FromHostPlaced
  <2>2. CASE StatDir(c) \/ MakeDir(c) \/ MakeDirFails(c) \/ Open(c)
    BY <2>2, StatDirPlaced, MakeDirPlaced, MakeDirFailsPlaced, OpenPlaced
  <2>3. CASE NoDirectory(c) \/ Write(c) \/ Close(c) \/ Return(c) \/ Fail(c) \/ Spin(c)
    BY <2>3, RestPlaced
  <2> QED
    BY <1>2, <2>1, <2>2, <2>3 DEF Step
<1> QED
  BY <1>1, <1>2 DEF Next

LEMMA Inductive == Spec => []IInv
  BY InitWritten, InitRace, InitPlaced, StepWritten, StepRace, StepPlaced, PTL DEF Spec, IInv

LEMMA IInvTypes == IInv => TypeOK
<1> SUFFICES ASSUME IInv PROVE TypeOK
  OBVIOUS
<1>1. /\ dirs \subseteq AboveRoots \union Dirs /\ DOMAIN files \subseteq Files
      /\ \A f \in DOMAIN files : files[f] \subseteq 1 .. Size[f] /\ HasParent(f, dirs)
  BY DEF IInv, Placed, Written, WriteTypes
<1>2. ASSUME NEW c \in Copier
      PROVE  /\ pc[c] \in {"next", "stat", "mkdir", "open", "write", "spin"} \union Ends
             /\ at[c] \in Paths /\ todo[c] \subseteq Paths /\ made[c] \subseteq dirs
             /\ pc[c] = "write" => at[c] \in DOMAIN files /\ put[c] <= Size[at[c]]
  BY DEF IInv, Placed, Written, WriteTypes, Writing
<1>3. ASSUME NEW c \in Copier, pc[c] \in {"stat", "mkdir"} PROVE make[c] # <<>>
  BY <1>3, NextComponent DEF IInv, Placed, OnCourse, Making
<1> QED
  BY <1>1, <1>2, <1>3 DEF TypeOK

\* In every state of every copy: a file in the target is in a directory that is there, and
\* whole but for the one that a copy is writing or was cut off at; a copy misses no directory
\* of a file unless it is one that makes none; mkdir fails on a directory that is there only
\* if another copy made it.
THEOREM Invariance == Spec => []Inv
<1>1. IInv => NoDirectoryMissing
  BY DEF IInv, Placed, OnCourse, Opening, MayLackDirectory, NoDirectoryMissing
<1>2. IInv => OnlyCutFilesPartial /\ ExistsByOther
  BY DEF IInv, Race, Written, WriteTypes, LastOpened, OnlyCutFilesPartial, Complete, Writing
<1>3. IInv => Inv
  BY <1>1, <1>2, IInvTypes DEF Inv
<1> QED
  BY <1>3, Inductive, PTL

\* A copy that has returned has everything below its root in the target, whatever order the
\* listings came in and whatever other copies did meanwhile; and whole, unless another copy
\* has one of the files open or was cut off.
THEOREM Completeness == Spec => []CopyComplete
<1>1. ASSUME IInv PROVE CopyComplete
  <2> SUFFICES ASSUME NEW c \in Copier, pc[c] = "done"
               PROVE  /\ Below(root[c]) \intersect Files \subseteq DOMAIN files
                      /\ (\A d \in Copier : pc[d] \in {"next", "done"}) =>
                          \A f \in Below(root[c]) \intersect Files : Complete(f)
                      /\ kind[c] \in {"copy_file", "scp_recv"} =>
                          Below(root[c]) \intersect Dirs \subseteq dirs
    BY DEF CopyComplete
  <2>1. \A q \in Below(root[c]) : Copied(c, q)
    BY <1>1 DEF IInv, Placed, OnCourse, Covered, Errors
  <2>2. Dirs \intersect Files = {}
    BY CopyAssumption
  <2>3. Below(root[c]) \intersect Files \subseteq DOMAIN files
    BY <2>1, <2>2 DEF Copied
  <2>4. ASSUME \A d \in Copier : pc[d] \in {"next", "done"},
               NEW f \in Below(root[c]) \intersect Files
        PROVE  Complete(f)
    <3>1. f \in DOMAIN files
      BY <2>3
    <3> QED
      BY <1>1, <2>4, <3>1 DEF IInv, Written, LastOpened, Writing, Complete
  <2>5. kind[c] \in {"copy_file", "scp_recv"} => Below(root[c]) \intersect Dirs \subseteq dirs
    BY <2>1, <2>2 DEF Copied
  <2> QED
    BY <2>3, <2>4, <2>5
<1> QED
  BY <1>1, Inductive, PTL
=============================================================================
