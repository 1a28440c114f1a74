------------------------------- MODULE SignIn -------------------------------
(***************************************************************************)
(* A customer signs in (handlers/auth.rs with services/auth_service.rs)    *)
(* and uses the bank (middleware/auth.rs), from several browsers at once.  *)
(*                                                                         *)
(* The password opens the way to a one-time code sent to the linked chat;  *)
(* the code opens the session.  Too many wrong codes block the origin they *)
(* were asked from.  Every later request passes the ActivityGuard, which   *)
(* ends idle sessions and keeps unlinked customers to the settings page.   *)
(* The session is a cookie under a key made at start-up: a restart ends    *)
(* them all.  What Telegram, the poller and the settings page do to the    *)
(* link meanwhile is LinkState, which TelegramLink implements.             *)
(***************************************************************************)
EXTENDS ActionOtp

CONSTANTS
    Browsers,        \* browser family and address: the origins
    NoBrowser,       \* where an idle request comes from
    IdleWindow,      \* 5 minutes
    BlockTime,       \* 24 hours
    NoticePeriod     \* a scheduled unlink waits 24 hours

VARIABLES
    linked,          \* users.telegram_chat_id is set
    unlinkAt,        \* users.telegram_unlink_at
    lastActive,      \* users.last_activity_at
    blockedUntil,    \* the latest blocked_origins row of each origin; 0: none
    session,         \* how the session in each browser's cookie was opened
    origin,          \* payload of a step-up challenge
    at,              \* the browser each request comes from
    excused,         \* requests during which the chat could not be reached
    overdue,         \* requests that had an unlink fall due before they came to it
    unblocked        \* used-up challenges whose block was lost

linkVars  == <<linked, unlinkAt>>
blockVars == <<blockedUntil, unblocked>>
loginVars == <<lastActive, blockVars, session, origin, effects>>
ghostVars == <<excused, overdue>>
vars == <<rowVars, codeLock, callVars, now, linkVars, loginVars, at, ghostVars>>

Env == INSTANCE LinkState

Labels == {"idle", "checkBlock", "applyUnlink", "checkLink", "issue", "deliver",
           "plain", "find", "verify", "act", "block",
           "touch", "guardUnlink", "gate", "handler"}

ASSUME SignInAssumption ==
    /\ Issued = {}
    /\ NoBrowser \notin Browsers
    /\ IdleWindow \in Nat
    /\ BlockTime \in Nat \ {0}
    /\ NoticePeriod \in Nat \ {0}

Init ==
    /\ OtpInit
    /\ Env!LinkInit
    /\ lastActive = 0
    /\ blockedUntil = [b \in Browsers |-> 0]
    /\ session = [b \in Browsers |-> "none"]
    /\ origin = [c \in Challenges |-> NoBrowser]
    /\ at = [w \in Workers |-> NoBrowser]
    /\ excused = {}
    /\ overdue = {}
    /\ unblocked = {}

\* The request is answered.
Respond(w) ==
    /\ Finish(w)
    /\ at' = [at EXCEPT ![w] = NoBrowser]
    /\ excused' = excused \ {w}
    /\ overdue' = overdue \ {w}

\* A request arrives from browser b.
Arrive(w, c, b, label) ==
    /\ Begin(w, c, label)
    /\ at' = [at EXCEPT ![w] = b]
    /\ excused' = IF linked THEN excused ELSE excused \cup {w}
    /\ overdue' = IF Env!Due THEN overdue \cup {w} ELSE overdue

Step(w, label) == Goto(w, label) /\ UNCHANGED <<at, ghostVars>>

\* Whoever is under way has now seen the customer without a chat.
ExcuseAll == excused' = {w \in Workers : pc[w] # "idle"}

\* The UPDATE that carries out a schedule that has fallen due.  Should it fail,
\* nobody notices: its request goes on with the link as it is.
ApplyDue(w) ==
    \/ /\ Env!ApplyDue
       /\ IF Env!Due THEN ExcuseAll ELSE UNCHANGED excused
       /\ UNCHANGED overdue
    \/ /\ overdue' = overdue \ {w}
       /\ UNCHANGED <<linkVars, excused>>

-----------------------------------------------------------------------------
\* login_submit

\* The right password resets the inactivity clock (AuthService::login).  A
\* wrong one changes nothing.
SubmitPassword(w, b) ==
    /\ Arrive(w, NoChallenge, b, "checkBlock")
    /\ lastActive' = now
    /\ UNCHANGED <<rowVars, codeLock, now, linkVars, blockVars, session, origin, effects>>

Blocked(b) == blockedUntil[b] > now

\* An origin whose blocks cannot be read counts as not blocked.
CheckBlock(w) ==
    /\ pc[w] = "checkBlock"
    /\ \/ Blocked(at[w]) /\ Respond(w)
       \/ Step(w, "applyUnlink")
    /\ UNCHANGED <<rowVars, codeLock, now, linkVars, loginVars>>

\* Mutant: the unlink that has fallen due is left to the next request.
ApplyUnlinkLater(w) ==
    /\ pc[w] = "applyUnlink"
    /\ Step(w, "checkLink")
    /\ UNCHANGED <<rowVars, codeLock, now, linkVars, loginVars>>

ApplyUnlink(w) ==
    /\ pc[w] = "applyUnlink"
    /\ ApplyDue(w)
    /\ Goto(w, "checkLink")
    /\ UNCHANGED <<rowVars, codeLock, now, loginVars, at>>

\* Mutant: from an origin the customer has used before, the password is enough.
CheckLinkOfNewOrigin(w) ==
    /\ pc[w] = "checkLink"
    /\ \/ linked /\ Step(w, "issue")
       \/ Step(w, "plain")
    /\ UNCHANGED <<rowVars, codeLock, now, linkVars, loginVars>>

CheckLink(w) ==
    /\ pc[w] = "checkLink"
    /\ \/ linked /\ Step(w, "issue")
       \/ ~linked /\ Step(w, "plain")
    /\ UNCHANGED <<rowVars, codeLock, now, linkVars, loginVars>>

IssueStepup(w, c) ==
    /\ pc[w] = "issue"
    /\ Insert(c)
    /\ origin' = [origin EXCEPT ![c] = at[w]]
    /\ Step(w, "deliver")
    /\ UNCHANGED <<now, linkVars, lastActive, blockVars, session, effects>>

\* send_otp to a linked chat: the code page is the response.
Deliver(w) ==
    /\ pc[w] = "deliver"
    /\ linked
    /\ Respond(w)
    /\ UNCHANGED <<rowVars, codeLock, now, linkVars, loginVars>>

\* No chat any more, or Telegram does not answer: a normal sign-in after all.
Undelivered(w) ==
    /\ pc[w] = "deliver"
    /\ Goto(w, "plain")
    /\ excused' = excused \cup {w}
    /\ UNCHANGED <<rowVars, codeLock, now, linkVars, loginVars, at, overdue>>

OpenPlain(w) ==
    /\ pc[w] = "plain"
    /\ session' = [session EXCEPT ![at[w]] = "password"]
    /\ Respond(w)
    /\ UNCHANGED <<rowVars, codeLock, now, linkVars, lastActive, blockVars, origin, effects>>

-----------------------------------------------------------------------------
\* login_stepup

\* The pending row says who signs in; the browser that sends it gets the session.
StepupFind(w, c, b) ==
    /\ code[c] = "open"
    /\ Arrive(w, c, b, "find")
    /\ UNCHANGED <<rowVars, codeLock, now, linkVars, loginVars>>

StepupVerify(w) ==
    /\ \/ LockCode(w) /\ UNCHANGED <<at, ghostVars>>
       \/ CodeGone(w) /\ Respond(w)
       \/ CodeExpired(w) /\ Respond(w)
       \/ WrongCode(w) /\ Respond(w)
       \/ LastStrike(w) /\ Step(w, "block")
       \/ RightCode(w) /\ Step(w, "act")
    /\ UNCHANGED <<now, linkVars, loginVars>>

\* Mutant: the origin that sends the last code is blocked.
BlockSender(w) ==
    /\ pc[w] = "block"
    /\ blockedUntil' = [blockedUntil EXCEPT ![at[w]] = now + BlockTime]
    /\ Respond(w)
    /\ UNCHANGED <<rowVars, codeLock, now, linkVars, lastActive, unblocked, session, origin,
                   effects>>

\* block_origin, after the strike has been committed.  Should its INSERT fail,
\* the page says all the same that the origin is blocked.
Block(w) ==
    /\ pc[w] = "block"
    /\ \/ /\ blockedUntil' = [blockedUntil EXCEPT ![origin[job[w]]] = now + BlockTime]
          /\ UNCHANGED unblocked
       \/ /\ unblocked' = unblocked \cup {job[w]}
          /\ UNCHANGED blockedUntil
    /\ Respond(w)
    /\ UNCHANGED <<rowVars, codeLock, now, linkVars, lastActive, session, origin, effects>>

OpenWithCode(w) ==
    /\ pc[w] = "act"
    /\ session' = [session EXCEPT ![at[w]] = "code"]
    /\ effects' = [effects EXCEPT ![job[w]] = @ + 1]
    /\ Respond(w)
    /\ UNCHANGED <<rowVars, codeLock, now, linkVars, lastActive, blockVars, origin>>

-----------------------------------------------------------------------------
\* ActivityGuard, in front of every request that carries a session

Idle == now - lastActive > IdleWindow

\* The session has been idle: it is purged and the request sent to the login.
GuardExpire(b) ==
    /\ session[b] # "none"
    /\ Idle
    /\ session' = [session EXCEPT ![b] = "none"]
    /\ UNCHANGED <<rowVars, codeLock, callVars, now, linkVars, lastActive, blockVars,
                   origin, effects, at, ghostVars>>

\* It has not, or the database does not say.
GuardCheck(w, b) ==
    /\ session[b] # "none"
    /\ Arrive(w, NoChallenge, b, "touch")
    /\ UNCHANGED <<rowVars, codeLock, now, linkVars, loginVars>>

\* The inactivity clock starts anew, unless that UPDATE fails.
GuardTouch(w) ==
    /\ pc[w] = "touch"
    /\ lastActive' \in {now, lastActive}
    /\ Step(w, "guardUnlink")
    /\ UNCHANGED <<rowVars, codeLock, now, linkVars, blockVars, session, origin, effects>>

GuardUnlink(w) ==
    /\ pc[w] = "guardUnlink"
    /\ ApplyDue(w)
    /\ Goto(w, "gate")
    /\ UNCHANGED <<rowVars, codeLock, now, loginVars, at>>

\* Without a chat, or without an answer of the database, only the settings page,
\* logout and notifications are served.
GuardGate(w) ==
    /\ pc[w] = "gate"
    /\ \/ linked /\ Step(w, "handler")
       \/ Respond(w)
    /\ UNCHANGED <<rowVars, codeLock, now, linkVars, loginVars>>

Handle(w) ==
    /\ pc[w] = "handler"
    /\ Respond(w)
    /\ UNCHANGED <<rowVars, codeLock, now, linkVars, loginVars>>

Logout(b) ==
    /\ session[b] # "none"
    /\ session' = [session EXCEPT ![b] = "none"]
    /\ UNCHANGED <<rowVars, codeLock, callVars, now, linkVars, lastActive, blockVars,
                   origin, effects, at, ghostVars>>

-----------------------------------------------------------------------------
\* Everything else that moves

\* The link changes under the requests in flight: a new chat or a cancelled
\* schedule settles what was overdue, an unlink excuses them all.
LinkMoves ==
    /\ \/ Env!Link /\ overdue' = {} /\ UNCHANGED excused
       \/ Env!Cancel /\ overdue' = {} /\ UNCHANGED excused
       \/ Env!Schedule /\ UNCHANGED ghostVars
       \/ Env!Unlink /\ ExcuseAll /\ UNCHANGED overdue
    /\ UNCHANGED <<rowVars, codeLock, callVars, now, loginVars, at>>

\* The challenges a request is about to block an origin for.
BlockPending(w) == {c \in Challenges : pc[w] = "block" /\ job[w] = c}

\* A request ends between two statements: the database fails one whose error
\* the handler passes on, or the browser goes away.  An open transaction rolls
\* back, and a strike just committed blocks nobody.
Abort(w) ==
    /\ pc[w] # "idle"
    /\ ReleaseCode(w)
    /\ unblocked' = unblocked \cup BlockPending(w)
    /\ Respond(w)
    /\ UNCHANGED <<rowVars, now, linkVars, lastActive, blockedUntil, session, origin, effects>>

\* The server stops and starts again, with a new session key.
Restart ==
    /\ session' = [b \in Browsers |-> "none"]
    /\ pc' = [w \in Workers |-> "idle"]
    /\ job' = [w \in Workers |-> NoChallenge]
    /\ noted' = [w \in Workers |-> 0]
    /\ at' = [w \in Workers |-> NoBrowser]
    /\ excused' = {}
    /\ overdue' = {}
    /\ unblocked' = unblocked \cup UNION {BlockPending(w) : w \in Workers}
    /\ codeLock' = [c \in Challenges |-> NoWorker]
    /\ UNCHANGED <<rowVars, now, linkVars, lastActive, blockedUntil, origin, effects>>

\* The requests that have yet to carry out an unlink that falls due.
BeforeUnlink == {w \in Workers : pc[w] \in {"checkBlock", "applyUnlink", "touch", "guardUnlink"}}

Tick ==
    /\ Env!Tick
    /\ overdue' = IF Env!Due' THEN overdue \cup BeforeUnlink ELSE overdue
    /\ UNCHANGED <<rowVars, codeLock, callVars, loginVars, at, excused>>

Continue(w) ==
    \/ CheckBlock(w) \/ ApplyUnlink(w) \/ CheckLink(w)
    \/ \E c \in Challenges : IssueStepup(w, c)
    \/ Deliver(w) \/ Undelivered(w) \/ OpenPlain(w)
    \/ StepupVerify(w) \/ Block(w) \/ OpenWithCode(w)
    \/ GuardTouch(w) \/ GuardUnlink(w) \/ GuardGate(w) \/ Handle(w)

Next ==
    \/ \E w \in Workers : Continue(w) \/ Abort(w)
    \/ \E w \in Workers, b \in Browsers : SubmitPassword(w, b) \/ GuardCheck(w, b)
    \/ \E w \in Workers, c \in Challenges, b \in Browsers : StepupFind(w, c, b)
    \/ \E b \in Browsers : GuardExpire(b) \/ Logout(b)
    \/ LinkMoves
    \/ Restart
    \/ Tick

Spec == Init /\ [][Next]_vars

-----------------------------------------------------------------------------
\* Properties

TypeOK ==
    /\ OtpTypeOK
    /\ pc \in [Workers -> Labels]
    /\ linked \in BOOLEAN
    /\ unlinkAt \in Nat \cup {Env!Never}
    /\ lastActive \in 0 .. MaxNow
    /\ blockedUntil \in [Browsers -> Nat]
    /\ session \in [Browsers -> {"none", "password", "code"}]
    /\ origin \in [Challenges -> Browsers \cup {NoBrowser}]
    /\ at \in [Workers -> Browsers \cup {NoBrowser}]
    /\ excused \subseteq Workers
    /\ overdue \subseteq Workers
    /\ unblocked \subseteq Challenges

\* "Password alone is never enough for a linked customer", says login_submit: it
\* opens a session only if, at some moment of that very sign-in, the customer
\* had no chat or the chat could not be reached - whether the origin is known or
\* not, and however the poller, the settings page and other sign-ins move the
\* link meanwhile.
PasswordAloneExcused == \A w \in Workers : pc[w] = "plain" => w \in excused

\* An unlink that falls due before a request comes to it - before it arrives or
\* while it is under way - is in force before that request sends a code to the
\* chat or gets at the bank, unless its own UPDATE fails, or the customer links
\* a chat or cancels meanwhile.
DueUnlinkInForce ==
    \A w \in overdue : pc[w] \notin {"issue", "deliver", "handler"}

\* An origin is blocked only for a challenge asked from it that has used up its
\* guesses, whichever browser sent them.
BlocksAreEarned ==
    \A b \in Browsers :
        blockedUntil[b] > 0 =>
            \E c \in Challenges : /\ origin[c] = b
                                  /\ guesses[c] >= MaxAttempts
                                  /\ effects[c] = 0

\* The strike and the block are two statements, and yet a used-up challenge has
\* its origin blocked, or about to be: a block is lost only with the statement,
\* the request or the server that was about to make it.
StrikesBlock ==
    \A c \in Challenges :
        guesses[c] >= MaxAttempts =>
            \/ \E w \in Workers : pc[w] = "block" /\ job[w] = c
            \/ blockedUntil[origin[c]] > 0
            \/ c \in unblocked

\* The inductive invariant behind the theorems: while the customer has no chat
\* every request under way is excused, an overdue unlink stays due until it is
\* carried out, and a strike's request knows which origin it has to block.
LinkSeen ==
    /\ \A w \in Workers : pc[w] # "idle" /\ ~linked => w \in excused
    /\ overdue # {} => Env!Due \/ ~linked
    /\ \A w \in overdue : pc[w] \in {"checkLink", "gate"} => ~linked

OriginsKnown ==
    /\ \A w \in Workers : pc[w] # "idle" => at[w] \in Browsers
    /\ \A c \in Challenges : code[c] # "none" => origin[c] \in Browsers
    /\ \A w \in Workers :
          pc[w] = "block" => /\ job[w] \in Challenges
                             /\ code[job[w]] = "consumed"
                             /\ guesses[job[w]] >= MaxAttempts

IInv ==
    /\ TypeOK
    /\ OtpRows
    /\ LinkSeen
    /\ OriginsKnown
    /\ PasswordAloneExcused
    /\ DueUnlinkInForce
    /\ BlocksAreEarned
    /\ StrikesBlock

\* What the comment in AuthService::login promises of a sign-in that succeeds:
\* its own first request is not turned away as idle.
FreshSessionServed ==
    [][\A b \in Browsers : session'[b] = "code" /\ session[b] # "code" => ~Idle']_vars
=============================================================================
