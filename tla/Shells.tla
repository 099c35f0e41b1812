------------------------------ MODULE Shells ------------------------------
(***************************************************************************)
(* Commands on interactive shells: run_shell_commands and join_shells of   *)
(* pssh/clients/base/parallel.py over InteractiveShell.run and close of    *)
(* pssh/clients/base/single.py.                                            *)
(*                                                                         *)
(* Each command for each shell is a pool greenlet of its own, which writes *)
(* the command to the channel of the shell in as many writes as that takes *)
(* and lets others run after each of them.  A command is a number of       *)
(* pieces, of which a write takes some; commands are numbered in the order *)
(* in which they are given.                                                *)
(***************************************************************************)
EXTENDS Integers, SequencesExt

CONSTANTS Shell,       \* the shells, in a sequence
          Pieces,      \* of how many pieces a command is
          MaxCommands, \* bound: commands in a call
          PoolSize,    \* size of the client's pool
          MaxCalls,    \* bound: calls
          MaxJobs      \* bound: greenlets of all calls

ASSUME ShellsAssumption ==
    /\ Shell \in Seq(ToSet(Shell)) /\ IsInjective(Shell)
    /\ Pieces \in Nat \ {0} /\ MaxCommands \in Nat /\ PoolSize \in Nat \ {0}
    /\ MaxCalls \in Nat /\ MaxJobs \in Nat

VARIABLES
    wire,     \* what was written to each shell: commands and their pieces
    sent_eof, \* shells whose input was ended
    ended,    \* shells whose remote end has exited
    jobs,     \* the pool greenlets
    call,     \* the call in progress
    given,    \* commands given so far
    calls,    \* calls made
    short,    \* history: some write took less than it was given
    left      \* history: a call has ended before its greenlets

shellsvars == <<wire, sent_eof, ended, jobs, call, given, calls, short, left>>

Shells == ToSet(Shell)

Job == [kind : {"run", "close"}, shell : Shells, cmd : Nat, put : 0 .. Pieces,
        pc : {"new", "writing", "waiting", "done", "error"}]

NoCall == [pc |-> "idle", todo |-> <<>>, jobs |-> {}, kind |-> "run", timed |-> FALSE]

ShellsInit ==
    /\ wire = [s \in Shells |-> <<>>] /\ sent_eof = {} /\ ended = {}
    /\ jobs = <<>> /\ call = NoCall /\ given = 0 /\ calls = 0
    /\ short = FALSE /\ left = FALSE

Over(j) == jobs[j].pc \in {"done", "error"}

Full == Cardinality({j \in DOMAIN jobs : ~Over(j)}) >= PoolSize

---------------------------------------------------------------------------
(* Calls of the parallel client.                                           *)

NewJob(kind, s, cmd) ==
    [kind |-> kind, shell |-> s, cmd |-> cmd, put |-> 0, pc |-> "new"]

\* Mutant of RunJobs: the commands in the wrong order.
RunJobsReversed(n) == Reverse(
    [i \in 1 .. n * Len(Shell) |->
        NewJob("run", Shell[((i - 1) \div n) + 1], given + ((i - 1) % n) + 1)])

\* Every command on one shell, and then on the next.
RunJobs(n) ==
    [i \in 1 .. n * Len(Shell) |->
        NewJob("run", Shell[((i - 1) \div n) + 1], given + ((i - 1) % n) + 1)]

CloseJobs == [i \in DOMAIN Shell |-> NewJob("close", Shell[i], 0)]

Begins(kind, todo, timed) ==
    /\ call.pc = "idle" /\ calls < MaxCalls
    /\ todo # <<>> /\ Len(jobs) + Len(todo) <= MaxJobs
    /\ call' = [pc |-> "spawning", todo |-> todo, jobs |-> {}, kind |-> kind,
                timed |-> timed]
    /\ calls' = calls + 1
    /\ UNCHANGED <<wire, sent_eof, ended, jobs, short, left>>

RunShellCommands ==
    \E n \in 1 .. MaxCommands, timed \in BOOLEAN :
        Begins("run", RunJobs(n), timed) /\ given' = given + n

JoinShells ==
    \E timed \in BOOLEAN : Begins("close", CloseJobs, timed) /\ UNCHANGED given

\* joinall follows the last spawn without a pause.
Spawn ==
    /\ call.pc \in {"spawning", "blocked"} /\ ~Full
    /\ jobs' = Append(jobs, Head(call.todo))
    /\ call' = [call EXCEPT !.todo = Tail(@), !.jobs = @ \union {Len(jobs')},
                            !.pc = IF Len(call.todo) = 1 THEN "joining" ELSE "spawning"]
    /\ UNCHANGED <<wire, sent_eof, ended, given, calls, short, left>>

\* The pool makes spawn wait.
Block ==
    /\ call.pc = "spawning" /\ Full
    /\ call' = [call EXCEPT !.pc = "blocked"]
    /\ UNCHANGED <<wire, sent_eof, ended, jobs, given, calls, short, left>>

\* Mutant of AllOver: joinall is over when one greenlet is.
FirstOver == \E j \in call.jobs : jobs[j].pc = "done"

AllOver == \A j \in call.jobs : Over(j)

Failed == \E j \in call.jobs : jobs[j].pc = "error"

Ends(early) ==
    /\ call' = [call EXCEPT !.pc = "idle", !.todo = <<>>]
    /\ left' = (left \/ early)
    /\ UNCHANGED <<wire, sent_eof, ended, jobs, given, calls, short>>

\* A failure of a greenlet that closes ends join_shells no earlier.
Return ==
    /\ call.pc = "joining" /\ AllOver /\ (call.kind = "run" => ~Failed)
    /\ Ends(FALSE)

\* ShellError, as soon as one command could not be written.
RaiseShellError ==
    /\ call.pc = "joining" /\ call.kind = "run" /\ Failed
    /\ Ends(TRUE)

\* run_shell_commands returns when its timer expires, join_shells raises.
Expire ==
    /\ call.pc = "joining" /\ call.timed /\ ~AllOver
    /\ Ends(TRUE)

UserStep ==
    \/ RunShellCommands \/ JoinShells \/ Spawn \/ Block
    \/ Return \/ RaiseShellError \/ Expire

---------------------------------------------------------------------------
(* The greenlets.                                                          *)

\* Greenlets start in the order in which they were spawned.
Turn(j) == jobs[j].pc = "new" => \A i \in 1 .. j - 1 : jobs[i].pc # "new"

\* Mutant of Written: each write starts at the beginning of the command.
WrittenAgain(j, n) == [i \in 1 .. n |-> <<jobs[j].cmd, i>>]

\* What a write of the rest of the command takes of it.
Written(j, n) == [i \in 1 .. n |-> <<jobs[j].cmd, jobs[j].put + i>>]

\* The channel takes a part, or nothing for now.  After each write others run.
EagainWrite(j) ==
    /\ jobs[j].kind = "run" /\ jobs[j].pc \in {"new", "writing"}
    /\ jobs[j].put < Pieces /\ jobs[j].shell \notin sent_eof
    /\ \E n \in 0 .. Pieces - jobs[j].put :
          /\ wire' = [wire EXCEPT ![jobs[j].shell] = @ \o Written(j, n)]
          /\ jobs' = [jobs EXCEPT ![j].put = @ + n, ![j].pc = "writing"]
          /\ short' = (short \/ n < Pieces - jobs[j].put)
    /\ UNCHANGED <<sent_eof, ended, call, given, calls, left>>

\* Mutant of RunEnds: one write is all.
RunEndsAfterWrite(j) ==
    /\ jobs[j].pc = "writing"
    /\ jobs' = [jobs EXCEPT ![j].pc = "done"]
    /\ UNCHANGED <<wire, sent_eof, ended, call, given, calls, short, left>>

RunEnds(j) ==
    /\ jobs[j].pc = "writing" /\ jobs[j].put = Pieces
    /\ jobs' = [jobs EXCEPT ![j].pc = "done"]
    /\ UNCHANGED <<wire, sent_eof, ended, call, given, calls, short, left>>

\* The channel takes nothing after its end, and the session may fail at any time.
WriteFails(j) ==
    /\ jobs[j].kind = "run" /\ jobs[j].pc \in {"new", "writing"}
    /\ jobs[j].put < Pieces
    /\ jobs' = [jobs EXCEPT ![j].pc = "error"]
    /\ UNCHANGED <<wire, sent_eof, ended, call, given, calls, short, left>>

SendEof(j) ==
    /\ jobs[j].kind = "close" /\ jobs[j].pc = "new"
    /\ sent_eof' = sent_eof \union {jobs[j].shell}
    /\ jobs' = [jobs EXCEPT ![j].pc = "waiting"]
    /\ UNCHANGED <<wire, ended, call, given, calls, short, left>>

\* wait_finished.
CloseEnds(j) ==
    /\ jobs[j].pc = "waiting" /\ jobs[j].shell \in ended
    /\ jobs' = [jobs EXCEPT ![j].pc = "done"]
    /\ UNCHANGED <<wire, sent_eof, ended, call, given, calls, short, left>>

CloseFails(j) ==
    /\ jobs[j].kind = "close" /\ jobs[j].pc \in {"new", "waiting"}
    /\ jobs' = [jobs EXCEPT ![j].pc = "error"]
    /\ UNCHANGED <<wire, sent_eof, ended, call, given, calls, short, left>>

\* No greenlet runs while the user spawns.
JobStep(j) ==
    /\ call.pc # "spawning" /\ Turn(j)
    /\ \/ EagainWrite(j) \/ RunEnds(j) \/ WriteFails(j)
       \/ SendEof(j) \/ CloseEnds(j) \/ CloseFails(j)

\* A shell exits at the end of its input, or because a command tells it to.
Exit(s) ==
    /\ s \notin ended /\ (s \in sent_eof \/ wire[s] # <<>>)
    /\ ended' = ended \union {s}
    /\ UNCHANGED <<wire, sent_eof, jobs, call, given, calls, short, left>>

ShellsNext == UserStep \/ (\E j \in DOMAIN jobs : JobStep(j)) \/ (\E s \in Shells : Exit(s))

ShellsSpec == ShellsInit /\ [][ShellsNext]_shellsvars

---------------------------------------------------------------------------
ShellsTypeOK ==
    /\ wire \in [Shells -> Seq(Nat \X (1 .. Pieces))]
    /\ sent_eof \subseteq Shells /\ ended \subseteq Shells
    /\ jobs \in Seq(Job) /\ Len(jobs) <= MaxJobs
    /\ call.pc \in {"idle", "spawning", "blocked", "joining"}
    /\ call.todo \in Seq(Job) /\ call.jobs \subseteq DOMAIN jobs
    /\ call.kind \in {"run", "close"} /\ call.timed \in BOOLEAN
    /\ (call.todo = <<>>) = (call.pc \in {"idle", "joining"})
    /\ given \in Nat /\ calls \in 0 .. MaxCalls
    /\ short \in BOOLEAN /\ left \in BOOLEAN

\* Where the pieces of a command are in what was written to its shell.
Places(j) == {i \in DOMAIN wire[jobs[j].shell] : wire[jobs[j].shell][i][1] = jobs[j].cmd}

\* Each command is written once, from its beginning and without a gap, however its
\* writes alternate with those of other commands (eagain_write): the numbers of its
\* pieces, in the order of their places, are 1 to what it has put.
WrittenOnce ==
    \A j \in DOMAIN jobs : jobs[j].kind = "run" =>
        LET piece(i) == wire[jobs[j].shell][i][2] IN
        /\ {piece(i) : i \in Places(j)} = 1 .. jobs[j].put
        /\ \A a, b \in Places(j) : a < b => piece(a) < piece(b)

\* As long as every write takes all it is given, a shell gets its commands whole and in
\* the order given, although greenlets of their own write them.
InOrderUnlessShort ==
    ~short => \A s \in Shells : \A i \in 1 .. Len(wire[s]) - 1 :
        \/ wire[s][i][1] < wire[s][i + 1][1]
        \/ wire[s][i][1] = wire[s][i + 1][1] /\ wire[s][i][2] < wire[s][i + 1][2]

\* The greenlets' types and what they have written.
ShellsInv == ShellsTypeOK /\ WrittenOnce /\ InOrderUnlessShort

\* When run_shell_commands returns before its timer has expired, every shell has
\* every command; to a shell that is closed it never returns, it raises.
RunDelivers ==
    [][Return /\ call.kind = "run" =>
        \A j \in call.jobs : jobs[j].put = Pieces]_shellsvars

\* The input of a shell is ended only when all commands for it have been written or
\* have failed, unless an earlier call ended before its greenlets (join_shells after
\* run_shell_commands).
EndAfterCommands ==
    [][left \/ \A s \in sent_eof' \ sent_eof : \A j \in DOMAIN jobs :
        jobs[j].kind = "run" /\ jobs[j].shell = s => Over(j)]_shellsvars
=============================================================================
