----------------------------- MODULE ActionOtp -----------------------------
(***************************************************************************)
(* The one-time code of a parked action (services/action_otp_service.rs):  *)
(* a row of action_otps, inserted when the action is requested and         *)
(* consumed by the right code or by too many wrong ones.                   *)
(*                                                                         *)
(* The service has no life of its own: handlers call it.  The actions here *)
(* move the rows and the calling request; a module that EXTENDS this one   *)
(* says what its handlers do before and after, and what else stays as it   *)
(* is.  A handler passes the user and the purpose the row must have, so a  *)
(* request about another customer's row, or another action's, finds none   *)
(* and leaves no trace.                                                    *)
(***************************************************************************)
EXTENDS Integers

CONSTANTS
    Challenges,    \* ids of the rows of action_otps
    Issued,        \* rows already open at the start
    Workers,       \* requests in flight at a time
    NoWorker,      \* holder of a free lock
    NoChallenge,   \* job of a request that has no code to verify
    MaxAttempts,   \* 3 wrong codes cancel the action
    CodeTtl,       \* 10 minutes
    MaxNow         \* bound of the clock

VARIABLES
    code,          \* "none" before the INSERT, "consumed" once consumed_at is set
    attempts,      \* action_otps.attempts
    issuedAt,      \* action_otps.created_at
    guesses,       \* wrong codes compared with the row's hash, stored or not
    effects,       \* how often each action has been carried out
    codeLock,      \* FOR UPDATE holder of each row
    noted,         \* the attempts each request read under the lock
    pc, job,       \* each request's next statement and its row
    now            \* the clock of the database

rowVars  == <<code, attempts, issuedAt, guesses>>
callVars == <<noted, pc, job>>

Codes == {"none", "open", "consumed"}

ASSUME OtpAssumption ==
    /\ NoWorker \notin Workers
    /\ NoChallenge \notin Challenges
    /\ Issued \subseteq Challenges
    /\ MaxAttempts \in Nat \ {0}
    /\ CodeTtl \in Nat
    /\ MaxNow \in Nat

OtpInit ==
    /\ code = [c \in Challenges |-> IF c \in Issued THEN "open" ELSE "none"]
    /\ attempts = [c \in Challenges |-> 0]
    /\ issuedAt = [c \in Challenges |-> 0]
    /\ guesses = [c \in Challenges |-> 0]
    /\ effects = [c \in Challenges |-> 0]
    /\ codeLock = [c \in Challenges |-> NoWorker]
    /\ noted = [w \in Workers |-> 0]
    /\ pc = [w \in Workers |-> "idle"]
    /\ job = [w \in Workers |-> NoChallenge]
    /\ now = 0

-----------------------------------------------------------------------------
\* Requests

Begin(w, c, label) ==
    /\ pc[w] = "idle"
    /\ pc' = [pc EXCEPT ![w] = label]
    /\ job' = [job EXCEPT ![w] = c]
    /\ UNCHANGED noted

Goto(w, label) ==
    /\ pc' = [pc EXCEPT ![w] = label]
    /\ UNCHANGED <<noted, job>>

Finish(w) ==
    /\ pc' = [pc EXCEPT ![w] = "idle"]
    /\ job' = [job EXCEPT ![w] = NoChallenge]
    /\ noted' = [noted EXCEPT ![w] = 0]

\* COMMIT and ROLLBACK of verify's transaction.
ReleaseCode(w) ==
    codeLock' = [c \in Challenges |-> IF codeLock[c] = w THEN NoWorker ELSE codeLock[c]]

-----------------------------------------------------------------------------
\* begin and verify

Insert(c) ==
    /\ code[c] = "none"
    /\ code' = [code EXCEPT ![c] = "open"]
    /\ issuedAt' = [issuedAt EXCEPT ![c] = now]
    /\ UNCHANGED <<attempts, guesses, codeLock>>

\* Mutant: the row is read without FOR UPDATE.
CodeReadUnlocked(c) == TRUE

CodeFree(c) == codeLock[c] = NoWorker

\* SELECT ... FOR UPDATE of an unconsumed row.
LockCode(w) ==
    LET c == job[w] IN
    /\ pc[w] = "find"
    /\ CodeFree(c)
    /\ code[c] = "open"
    /\ codeLock' = [codeLock EXCEPT ![c] = w]
    /\ noted' = [noted EXCEPT ![w] = attempts[c]]
    /\ pc' = [pc EXCEPT ![w] = "verify"]
    /\ UNCHANGED <<rowVars, job>>

\* The row has been consumed (or never was): nothing to verify.
CodeGone(w) ==
    /\ pc[w] = "find"
    /\ CodeFree(job[w])
    /\ code[job[w]] # "open"
    /\ UNCHANGED <<rowVars, codeLock>>

\* Mutant: a code never expires.
NeverStale(c) == FALSE

Stale(c) == now - issuedAt[c] > CodeTtl

\* An expired code is refused and its row left as it is.
CodeExpired(w) ==
    /\ pc[w] = "verify"
    /\ Stale(job[w])
    /\ ReleaseCode(w)
    /\ UNCHANGED rowVars

Compared(w) == pc[w] = "verify" /\ ~Stale(job[w])

\* A wrong code is counted ...
WrongCode(w) ==
    LET c == job[w] IN
    /\ Compared(w)
    /\ noted[w] + 1 < MaxAttempts
    /\ attempts' = [attempts EXCEPT ![c] = noted[w] + 1]
    /\ guesses' = [guesses EXCEPT ![c] = @ + 1]
    /\ ReleaseCode(w)
    /\ UNCHANGED <<code, issuedAt>>

\* Mutant: the last strike is counted and the action stays.
LastStrikeForgiven(w) ==
    LET c == job[w] IN
    /\ Compared(w)
    /\ noted[w] + 1 >= MaxAttempts
    /\ attempts' = [attempts EXCEPT ![c] = noted[w] + 1]
    /\ guesses' = [guesses EXCEPT ![c] = @ + 1]
    /\ ReleaseCode(w)
    /\ UNCHANGED <<code, issuedAt>>

\* ... and the last one also consumes the row.
LastStrike(w) ==
    LET c == job[w] IN
    /\ Compared(w)
    /\ noted[w] + 1 >= MaxAttempts
    /\ attempts' = [attempts EXCEPT ![c] = noted[w] + 1]
    /\ guesses' = [guesses EXCEPT ![c] = @ + 1]
    /\ code' = [code EXCEPT ![c] = "consumed"]
    /\ ReleaseCode(w)
    /\ UNCHANGED issuedAt

\* Mutant: the row is consumed by whoever performs the action, later.
RightCodeKept(w) ==
    /\ Compared(w)
    /\ ReleaseCode(w)
    /\ UNCHANGED rowVars

\* The right code consumes the row; the action itself follows the commit.
RightCode(w) ==
    /\ Compared(w)
    /\ code' = [code EXCEPT ![job[w]] = "consumed"]
    /\ ReleaseCode(w)
    /\ UNCHANGED <<attempts, issuedAt, guesses>>

-----------------------------------------------------------------------------
\* Properties

OtpTypeOK ==
    /\ code \in [Challenges -> Codes]
    /\ attempts \in [Challenges -> 0 .. MaxAttempts]
    /\ issuedAt \in [Challenges -> 0 .. MaxNow]
    /\ guesses \in [Challenges -> Nat]
    /\ effects \in [Challenges -> Nat]
    /\ codeLock \in [Challenges -> Workers \cup {NoWorker}]
    /\ noted \in [Workers -> 0 .. MaxAttempts]
    /\ DOMAIN pc = Workers
    /\ job \in [Workers -> Challenges \cup {NoChallenge}]
    /\ now \in 0 .. MaxNow

\* The steps of a handler between the accepted code and its effect.
Acting == {"act", "writeLimit"}

Granted(c) == \E w \in Workers : pc[w] \in Acting /\ job[w] = c

\* Who holds a row has read it open and is comparing its code; what it noted is
\* what the row says, and what the row says is what has been guessed.
RowsHeld ==
    /\ \A w \in Workers, c \in Challenges :
          codeLock[c] = w <=> pc[w] = "verify" /\ job[w] = c
    /\ \A w \in Workers : pc[w] \in {"find", "verify"} \cup Acting => job[w] \in Challenges
    /\ \A w \in Workers :
          pc[w] = "verify" => code[job[w]] = "open" /\ noted[w] = attempts[job[w]]

RowsCount ==
    \A c \in Challenges :
        /\ guesses[c] = attempts[c]
        /\ code[c] = "open" => attempts[c] < MaxAttempts
        /\ code[c] = "none" => attempts[c] = 0
        /\ issuedAt[c] <= now

\* One request at most carries out an action: its row is consumed and nobody
\* has carried it out before.
OneActor ==
    /\ \A v, w \in Workers : pc[v] \in Acting /\ pc[w] \in Acting /\ job[v] = job[w] => v = w
    /\ \A w \in Workers :
          pc[w] \in Acting =>
              /\ code[job[w]] = "consumed"
              /\ effects[job[w]] = 0
              /\ guesses[job[w]] < MaxAttempts
    /\ \A c \in Challenges :
          effects[c] > 0 => effects[c] = 1 /\ code[c] = "consumed" /\ guesses[c] < MaxAttempts

OtpRows == RowsHeld /\ RowsCount /\ OneActor

\* The handlers carry out their actions as the codes promise: at most once,
\* after the right code in time, with a bounded number of guesses, however many
\* confirmations are under way and wherever one of them dies.
Stage(c) ==
    CASE code[c] = "none" -> "none"
      [] code[c] = "open" -> "offered"
      [] OTHER -> IF Granted(c) THEN "accepted" ELSE "closed"

Promise == INSTANCE OneTimeAction WITH
    stage <- [c \in Challenges |-> Stage(c)],
    wrong <- guesses,
    offeredAt <- issuedAt,
    times <- effects

KeepsPromise == Promise!Spec
=============================================================================
