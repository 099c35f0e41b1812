------------------------------ MODULE Connect ------------------------------
(***************************************************************************)
(* How a client of one host gets its session: BaseSSHClient._init of       *)
(* pssh/clients/base/single.py with _init_session and auth of either       *)
(* client, pssh/clients/native/single.py and pssh/clients/ssh/single.py.   *)
(* Addresses are resolved and connected to in turn, a handshake is made on *)
(* the connection, and the configured methods of authentication are tried; *)
(* each of the three stages retries.                                       *)
(*                                                                         *)
(* _connect calls itself from within its loop over addresses: a retry that *)
(* ends in a refused connection returns to the loop of the call that       *)
(* retried, with that call's own count of retries.  frames is that stack.  *)
(***************************************************************************)
EXTENDS Integers, Sequences, FiniteSets

CONSTANTS num_retries,  \* attempts before a stage gives up
          MaxAddrs,     \* addresses a host name may resolve to
          MaxRounds     \* bound: where the history of attempts stops counting

ASSUME RetriesAssumption == num_retries \in Nat
ASSUME AddrsAssumption == MaxAddrs \in Nat \ {0}
ASSUME RoundsAssumption ==
    MaxRounds \in Nat /\ MaxRounds > num_retries /\ MaxRounds > 1

VARIABLES
    config,    \* which credentials were given
    pc,        \* stage of _init
    frames,    \* calls of _connect in progress, innermost last
    attempt,   \* retries of _init_session
    sock,      \* self.sock: none, connecting, open, or one a handshake failed on
    tries,     \* retries of _auth_retry
    left,      \* methods the auth() in progress, or to come, has not tried yet
    error,     \* what _init has raised
    rounds,    \* history: calls of _connect, which resolve and try addresses
    asked      \* history: how often each method was tried

vars == <<config, pc, frames, attempt, sock, tries, left, error, rounds, asked>>

\* GSSAPI is for the libssh client, which tries it before all others.
Method == {"gssapi", "pkey", "agent", "identity", "password"}
Config == [Method -> BOOLEAN]
Errors == {"none", "unknown host", "no ipv6", "refused", "connection", "session",
           "authentication"}

\* A first attempt is made even when num_retries is 0.
Limit == IF num_retries = 0 THEN 1 ELSE num_retries

\* Mutant of MayRetry: one attempt too many.
MayRetryOnceMore(count) == count <= num_retries

\* Whether a count of attempts, which starts at 1, allows another one.
MayRetry(count) == count < num_retries

Counted(n) == IF n < MaxRounds THEN n + 1 ELSE n

\* A call of _connect: its retries, how many addresses it got, which one it is at.
Frame(retries) == [retries |-> retries, addrs |-> 0, addr |-> 0]

Top == Len(frames)

\* What auth() tries: a given key alone, or else what is configured; GSSAPI before either.
Usable == {m \in Method : config[m] /\ (config["pkey"] => m \in {"gssapi", "pkey"})}

Init ==
    /\ config \in Config
    /\ pc = "resolving" /\ frames = <<Frame(1)>> /\ rounds = 1
    /\ attempt = 1 /\ sock = "none" /\ tries = 1 /\ left = Usable
    /\ error = "none" /\ asked = [m \in Method |-> 0]

Fail(e) == pc' = "failed" /\ error' = e /\ frames' = <<>>

---------------------------------------------------------------------------
(* _connect and _connect_socket.                                           *)

Resolve ==
    /\ pc = "resolving"
    /\ \E n \in 1 .. MaxAddrs :
          frames' = [frames EXCEPT ![Top] =
                        [retries |-> @.retries, addrs |-> n, addr |-> 1]]
    /\ pc' = "connecting" /\ sock' = "connecting"
    /\ UNCHANGED <<config, attempt, tries, left, error, rounds, asked>>

\* The retry is made outside the loop: this call only hands its outcome on.
ResolveFails ==
    /\ pc = "resolving"
    /\ IF MayRetry(frames[Top].retries)
       THEN /\ frames' = [frames EXCEPT ![Top].retries = @ + 1]
            /\ rounds' = Counted(rounds)
            /\ UNCHANGED <<pc, error>>
       ELSE Fail("unknown host") /\ UNCHANGED rounds
    /\ UNCHANGED <<config, attempt, sock, tries, left, asked>>

\* ipv6_only, and no such address.
NoIPv6Address ==
    /\ pc = "resolving"
    /\ Fail("no ipv6")
    /\ UNCHANGED <<config, attempt, sock, tries, left, rounds, asked>>

Connected ==
    /\ pc = "connecting"
    /\ pc' = "handshaking" /\ sock' = "open" /\ frames' = <<>>
    /\ UNCHANGED <<config, attempt, tries, left, error, rounds, asked>>

\* The calls of _connect that have addresses left.
Unexhausted == {k \in 1 .. Top : frames[k].addr < frames[k].addrs}

\* Refused: the innermost call with an address left goes on to it; the calls within
\* it are over.
Refused ==
    /\ pc = "connecting"
    /\ IF Unexhausted = {} THEN Fail("refused") /\ UNCHANGED sock
       ELSE /\ \E k \in Unexhausted :
                  /\ \A l \in Unexhausted : l <= k
                  /\ frames' = [SubSeq(frames, 1, k) EXCEPT ![k].addr = @ + 1]
            /\ sock' = "connecting"
            /\ UNCHANGED <<pc, error>>
    /\ UNCHANGED <<config, attempt, tries, left, rounds, asked>>

\* Any other error of the socket, its timeout included.
ConnectFails ==
    /\ pc = "connecting"
    /\ IF MayRetry(frames[Top].retries)
       THEN /\ frames' = Append(frames, Frame(frames[Top].retries + 1))
            /\ pc' = "resolving" /\ rounds' = Counted(rounds)
            /\ UNCHANGED error
       ELSE Fail("connection") /\ UNCHANGED rounds
    /\ UNCHANGED <<config, attempt, sock, tries, left, asked>>

---------------------------------------------------------------------------
(* _init_session.                                                          *)

Handshake ==
    /\ pc = "handshaking"
    /\ pc' = "authenticating"
    /\ UNCHANGED <<config, frames, attempt, sock, tries, left, error, rounds, asked>>

\* Mutant of HandshakeFails: the handshake is repeated on the connection it failed on.
HandshakeAgain ==
    /\ pc = "handshaking"
    /\ IF MayRetry(attempt)
       THEN /\ attempt' = attempt + 1 /\ sock' = "spent"
            /\ UNCHANGED <<pc, frames, rounds, error>>
       ELSE Fail("session") /\ sock' = "spent" /\ UNCHANGED <<attempt, rounds>>
    /\ UNCHANGED <<config, tries, left, asked>>

\* _connect_init_session_retry: a new connection, whose own retries count on from this.
Reconnect ==
    /\ attempt' = attempt + 1 /\ sock' = "none"
    /\ frames' = <<Frame(attempt + 1)>> /\ rounds' = Counted(rounds)
    /\ pc' = "resolving"

HandshakeFails ==
    /\ pc = "handshaking"
    /\ IF MayRetry(attempt)
       THEN Reconnect /\ UNCHANGED error
       ELSE Fail("session") /\ sock' = "spent" /\ UNCHANGED <<attempt, rounds>>
    /\ UNCHANGED <<config, tries, left, asked>>

---------------------------------------------------------------------------
(* auth and _auth_retry.                                                   *)

\* The order of auth().
Rank == [gssapi |-> 0, pkey |-> 1, agent |-> 2, identity |-> 3, password |-> 4]

\* auth() tries the next method.
Ask(m) ==
    /\ pc = "authenticating" /\ m \in left
    /\ \A other \in left : Rank[m] <= Rank[other]
    /\ asked' = [asked EXCEPT ![m] = Counted(@)]

Accepted ==
    /\ \E m \in left : Ask(m)
    /\ pc' = "connected"
    /\ UNCHANGED <<config, frames, attempt, sock, tries, left, error, rounds>>

\* Mutant of NotAccepted: the first method to be refused ends auth().
NotAcceptedEnds ==
    /\ \E m \in left : Ask(m)
    /\ left' = {}
    /\ UNCHANGED <<config, pc, frames, attempt, sock, tries, error, rounds>>

\* Whatever goes wrong with a method, the next one is tried.
NotAccepted ==
    /\ \E m \in left : Ask(m) /\ left' = left \ {m}
    /\ UNCHANGED <<config, pc, frames, attempt, sock, tries, error, rounds>>

\* Mutant of AuthFails: the retries are not counted.
AuthFailsUncounted ==
    /\ pc = "authenticating" /\ left = {}
    /\ IF MayRetry(tries)
       THEN left' = Usable /\ UNCHANGED <<pc, frames, error, tries>>
       ELSE Fail("authentication") /\ UNCHANGED <<tries, left>>
    /\ UNCHANGED <<config, attempt, sock, rounds, asked>>

\* No method is left: auth() raises, and is retried on the same session.
AuthFails ==
    /\ pc = "authenticating" /\ left = {}
    /\ IF MayRetry(tries)
       THEN tries' = tries + 1 /\ left' = Usable /\ UNCHANGED <<pc, frames, error>>
       ELSE Fail("authentication") /\ UNCHANGED <<tries, left>>
    /\ UNCHANGED <<config, attempt, sock, rounds, asked>>

Next ==
    \/ Resolve \/ ResolveFails \/ NoIPv6Address
    \/ Connected \/ Refused \/ ConnectFails
    \/ Handshake \/ HandshakeFails
    \/ Accepted \/ NotAccepted \/ AuthFails

\* Every step of connecting ends: sockets and sessions have timeouts.
Fairness == WF_vars(Next)

Spec == Init /\ [][Next]_vars

FairSpec == Spec /\ Fairness

---------------------------------------------------------------------------
TypeOK ==
    /\ config \in Config
    /\ pc \in {"resolving", "connecting", "handshaking", "authenticating",
               "connected", "failed"}
    /\ frames \in Seq([retries : 1 .. Limit, addrs : 0 .. MaxAddrs, addr : 0 .. MaxAddrs])
    /\ attempt \in 1 .. Limit /\ tries \in 1 .. Limit
    /\ sock \in {"none", "connecting", "open", "spent"}
    /\ left \subseteq Usable /\ error \in Errors
    /\ rounds \in 1 .. MaxRounds /\ asked \in [Method -> 0 .. MaxRounds]

\* The recursion of _connect is never deeper than the attempts it may make, wherever
\* a refused connection has made it resume.
DepthBounded == Len(frames) <= Limit

\* No handshake or authentication goes over a connection on which a handshake has
\* failed (_connect_init_session_retry makes a new one).
FreshConnection ==
    pc \in {"handshaking", "authenticating", "connected"} => sock = "open"

\* The client gives up only when a stage has had its attempts: connection errors and
\* unknown hosts after as many rounds, session errors after as many handshakes, and
\* authentication errors after as many rounds of every method it could use.
GivesUpLate ==
    /\ error \in {"connection", "unknown host"} => rounds >= Limit
    /\ error = "session" => attempt = Limit
    /\ error = "authentication" => \A m \in Usable : asked[m] >= Limit

\* No method is tried more often than there are attempts, and none instead of a key.
AuthAttemptsBounded ==
    /\ \A m \in Method : asked[m] <= Limit
    /\ config["pkey"] => \A m \in Method \ {"gssapi", "pkey"} : asked[m] = 0

\* A client is connected or raises, however its retries nest.
ClientEnds == <>(pc \in {"connected", "failed"})

---------------------------------------------------------------------------
(* What makes the invariants inductive.                                    *)

\* Each call of _connect in progress has more retries than those around it, and as
\* many rounds have been made as any stage has counted.
Stack ==
    /\ \A k \in 1 .. Len(frames) : k <= frames[k].retries /\ frames[k].retries <= rounds
    /\ attempt <= rounds
    /\ pc \in {"resolving", "connecting"} <=> frames # <<>>

\* Each usable method has been tried once in every round of authentication, except
\* for what is left of this one.
Asked ==
    /\ pc # "connected" =>
          \A m \in Usable : asked[m] = IF m \in left THEN tries - 1 ELSE tries
    /\ \A m \in Usable : asked[m] <= tries
    /\ \A m \in Method \ Usable : asked[m] = 0

\* How a stage may have failed.
Failure ==
    /\ pc = "failed" <=> error # "none"
    /\ error = "authentication" => left = {} /\ tries = Limit

IInv == TypeOK /\ FreshConnection /\ GivesUpLate /\ Stack /\ Asked /\ Failure
=============================================================================
