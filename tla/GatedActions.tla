---------------------------- MODULE GatedActions ----------------------------
(***************************************************************************)
(* The customer's code-gated actions: each is parked by one request        *)
(* (limit_change, create, apply_submit, email_change, password_change) and *)
(* carried out by another once its code verifies.  The change of a         *)
(* per-transfer limit is followed to the rows it writes                    *)
(* (services/account_service.rs): a lower limit at once, a higher one      *)
(* parked in limit_changes until its hold has passed and then promoted by  *)
(* whoever reads the account.  The other actions are a single INSERT or    *)
(* UPDATE that succeeds or is refused.                                     *)
(***************************************************************************)
EXTENDS ActionOtp

CONSTANTS
    Accounts,        \* the customer's accounts
    LimitChanges,    \* the parked actions that change a limit
    Account,         \* Account[c]: payload.account_id of a limit change
    NewLimit,        \* NewLimit[c]: payload.new_limit
    OpeningLimit,    \* transfer limits at the start
    Hold             \* accounts.limit_hold_seconds: 12 hours

VARIABLES
    transferLimit,   \* accounts.transfer_limit
    parked,          \* limit_changes row of an action: "none", "waiting", "applied"
    effectiveAt,     \* limit_changes.effective_at
    path,            \* the account in each request's URL
    current          \* the limit request_limit_change has read

limitVars == <<transferLimit, parked, effectiveAt>>
bookVars  == <<limitVars, effects>>
localVars == <<path, current>>
vars == <<rowVars, codeLock, callVars, now, bookVars, localVars>>

Labels == {"idle", "markViewed", "markBegun", "issue", "markFound",
           "find", "verify", "act", "writeLimit", "render"}

ASSUME GatedAssumption ==
    /\ Accounts # {}
    /\ LimitChanges \subseteq Challenges
    /\ Account \in [LimitChanges -> Accounts]
    /\ NewLimit \in [LimitChanges -> Nat \ {0}]
    /\ OpeningLimit \in [Accounts -> Nat]
    /\ Hold \in Nat

AnyAccount == CHOOSE a \in Accounts : TRUE

\* The response: what the request read is forgotten.
Respond(w) ==
    /\ Finish(w)
    /\ path' = [path EXCEPT ![w] = AnyAccount]
    /\ current' = [current EXCEPT ![w] = 0]

Init ==
    /\ OtpInit
    /\ transferLimit = OpeningLimit
    /\ parked = [c \in LimitChanges |-> "none"]
    /\ effectiveAt = [c \in LimitChanges |-> 0]
    /\ path = [w \in Workers |-> AnyAccount]
    /\ current = [w \in Workers |-> 0]

-----------------------------------------------------------------------------
\* apply_matured_limit_changes: two statements, on every read of an account

\* Mutant: a raise does not wait for its hold.
Unheld(a) == {c \in LimitChanges : Account[c] = a /\ parked[c] = "waiting"}

Matured(a) ==
    {c \in LimitChanges : /\ Account[c] = a
                          /\ parked[c] = "waiting"
                          /\ effectiveAt[c] <= now}

Latest(a) == {c \in Matured(a) : \A d \in Matured(a) : effectiveAt[d] <= effectiveAt[c]}

\* The matured raise with the latest effective_at becomes the limit ...
Promote(a) ==
    \/ Matured(a) = {} /\ UNCHANGED transferLimit
    \/ \E c \in Latest(a) : transferLimit' = [transferLimit EXCEPT ![a] = NewLimit[c]]

\* ... and a second statement marks every matured raise as applied.
MarkApplied(w) ==
    /\ parked' = [c \in LimitChanges |-> IF c \in Matured(path[w]) THEN "applied" ELSE parked[c]]
    /\ UNCHANGED <<rowVars, codeLock, now, transferLimit, effectiveAt, effects>>

\* The first statement of a handler that begins with get_by_id.
OpenAccount(w, c, a, label) ==
    /\ Begin(w, c, label)
    /\ Promote(a)
    /\ path' = [path EXCEPT ![w] = a]
    /\ UNCHANGED <<rowVars, codeLock, now, parked, effectiveAt, effects, current>>

\* Somebody looks at an account: its page, or create of the transfer engine.
View(w, a) == OpenAccount(w, NoChallenge, a, "markViewed")

MarkViewed(w) == pc[w] = "markViewed" /\ MarkApplied(w) /\ Respond(w)

-----------------------------------------------------------------------------
\* Parking an action

\* limit_change reads the account first.
BeginLimit(w, c) ==
    /\ c \in LimitChanges
    /\ code[c] = "none"
    /\ \A v \in Workers : job[v] # c
    /\ OpenAccount(w, c, Account[c], "markBegun")

MarkBegun(w) == pc[w] = "markBegun" /\ MarkApplied(w) /\ Goto(w, "issue") /\ UNCHANGED localVars

IssueLimit(w) ==
    /\ pc[w] = "issue"
    /\ Insert(job[w])
    /\ Respond(w)
    /\ UNCHANGED <<now, bookVars>>

\* create, apply_submit, email_change, password_change.
BeginOther(c) ==
    /\ c \in Challenges \ LimitChanges
    /\ Insert(c)
    /\ UNCHANGED <<callVars, now, bookVars, localVars>>

-----------------------------------------------------------------------------
\* Carrying it out

\* limit_change_confirm reads the account of its URL, whatever the code is for.
ConfirmLimit(w, c, a) ==
    /\ c \in LimitChanges
    /\ code[c] # "none"
    /\ OpenAccount(w, c, a, "markFound")

MarkFound(w) == pc[w] = "markFound" /\ MarkApplied(w) /\ Goto(w, "find") /\ UNCHANGED localVars

ConfirmOther(w, c) ==
    /\ c \in Challenges \ LimitChanges
    /\ code[c] # "none"
    /\ Begin(w, c, "find")
    /\ UNCHANGED <<rowVars, codeLock, now, bookVars, localVars>>

FindCode(w) == LockCode(w) /\ UNCHANGED <<now, bookVars, localVars>>

\* A conflict ends on the account page (limit change) or a blank form.
Conflict(w) ==
    \/ job[w] \in LimitChanges /\ Goto(w, "render") /\ UNCHANGED localVars
    \/ job[w] \notin LimitChanges /\ Respond(w)

RefuseCode(w) ==
    /\ CodeGone(w) \/ CodeExpired(w) \/ LastStrike(w)
    /\ pc[w] = "find" => UNCHANGED codeLock
    /\ Conflict(w)
    /\ UNCHANGED <<now, bookVars>>

RetryCode(w) == WrongCode(w) /\ Respond(w) /\ UNCHANGED <<now, bookVars>>

AcceptCode(w) == RightCode(w) /\ Goto(w, "act") /\ UNCHANGED <<now, bookVars, localVars>>

\* open_account, apply, change_email, change_password: done, or refused (an
\* e-mail that is taken, a loan beyond its bounds) with the code spent.
PerformOther(w) ==
    /\ pc[w] = "act"
    /\ job[w] \notin LimitChanges
    /\ \/ effects' = [effects EXCEPT ![job[w]] = @ + 1]
       \/ UNCHANGED effects
    /\ Respond(w)
    /\ UNCHANGED <<rowVars, codeLock, now, limitVars>>

\* A code for one account, sent to the page of another: spent for nothing.
WrongAccount(w) ==
    /\ pc[w] = "act"
    /\ job[w] \in LimitChanges
    /\ path[w] # Account[job[w]]
    /\ Respond(w)
    /\ UNCHANGED <<rowVars, codeLock, now, bookVars>>

\* request_limit_change reads the limit in one statement ...
ReadLimit(w) ==
    /\ pc[w] = "act"
    /\ job[w] \in LimitChanges
    /\ path[w] = Account[job[w]]
    /\ current' = [current EXCEPT ![w] = transferLimit[path[w]]]
    /\ Goto(w, "writeLimit")
    /\ UNCHANGED <<rowVars, codeLock, now, limitVars, effects, path>>

\* ... and by what it read then lowers the limit ...
LowerLimit(w) ==
    /\ pc[w] = "writeLimit"
    /\ NewLimit[job[w]] <= current[w]
    /\ transferLimit' = [transferLimit EXCEPT ![path[w]] = NewLimit[job[w]]]
    /\ effects' = [effects EXCEPT ![job[w]] = @ + 1]
    /\ Goto(w, "render")
    /\ UNCHANGED <<rowVars, codeLock, now, parked, effectiveAt, path, current>>

\* ... or parks the raise, in another statement.
ParkRaise(w) ==
    LET c == job[w] IN
    /\ pc[w] = "writeLimit"
    /\ NewLimit[c] > current[w]
    /\ parked' = [parked EXCEPT ![c] = "waiting"]
    /\ effectiveAt' = [effectiveAt EXCEPT ![c] = now + Hold]
    /\ effects' = [effects EXCEPT ![c] = @ + 1]
    /\ Goto(w, "render")
    /\ UNCHANGED <<rowVars, codeLock, now, transferLimit, path, current>>

\* render_detail reads the account once more.
Render(w) ==
    /\ pc[w] = "render"
    /\ Promote(path[w])
    /\ Goto(w, "markViewed")
    /\ UNCHANGED <<rowVars, codeLock, now, parked, effectiveAt, effects, path, current>>

-----------------------------------------------------------------------------
\* Everything else that moves

\* A request dies between two statements: the open transaction rolls back.
Abort(w) ==
    /\ pc[w] # "idle"
    /\ ReleaseCode(w)
    /\ Respond(w)
    /\ UNCHANGED <<rowVars, now, bookVars>>

Tick ==
    /\ now < MaxNow
    /\ now' = now + 1
    /\ UNCHANGED <<rowVars, codeLock, callVars, bookVars, localVars>>

Continue(w) ==
    \/ MarkViewed(w) \/ MarkBegun(w) \/ IssueLimit(w) \/ MarkFound(w)
    \/ FindCode(w) \/ RefuseCode(w) \/ RetryCode(w) \/ AcceptCode(w)
    \/ PerformOther(w) \/ WrongAccount(w) \/ ReadLimit(w)
    \/ LowerLimit(w) \/ ParkRaise(w) \/ Render(w)

Next ==
    \/ \E w \in Workers : Continue(w) \/ Abort(w)
    \/ \E w \in Workers, a \in Accounts : View(w, a)
    \/ \E w \in Workers, c \in Challenges : BeginLimit(w, c) \/ ConfirmOther(w, c)
    \/ \E w \in Workers, c \in Challenges, a \in Accounts : ConfirmLimit(w, c, a)
    \/ \E c \in Challenges : BeginOther(c)
    \/ Tick

Spec == Init /\ [][Next]_vars

-----------------------------------------------------------------------------
\* Properties

TypeOK ==
    /\ OtpTypeOK
    /\ pc \in [Workers -> Labels]
    /\ transferLimit \in [Accounts -> Nat]
    /\ parked \in [LimitChanges -> {"none", "waiting", "applied"}]
    /\ effectiveAt \in [LimitChanges -> Nat]
    /\ path \in [Workers -> Accounts]
    /\ current \in [Workers -> Nat]

\* What a limit may be by now: what it was at the start, or a raise whose code
\* was issued at least the hold before.
Earned(a) ==
    {OpeningLimit[a]} \cup
    {NewLimit[c] : c \in {d \in LimitChanges : /\ Account[d] = a
                                               /\ effects[d] > 0
                                               /\ issuedAt[d] + Hold <= now}}

\* Whatever the requests that read, lower, park and promote do to one another,
\* no limit is higher than the highest one that has waited out its hold.
WithinEarned(a, limit) == \E x \in Earned(a) : limit <= x

RaisesWait == \A a \in Accounts : WithinEarned(a, transferLimit[a])

\* The inductive invariant behind the theorems: what a request that changes a
\* limit has read was earned then, and so it still is; a parked raise belongs to
\* an accepted action and falls due a hold after its code.
LimitsUnderWay ==
    \A w \in Workers :
        /\ pc[w] \in {"markBegun", "issue", "markFound", "writeLimit"} => job[w] \in LimitChanges
        /\ pc[w] = "writeLimit" => path[w] = Account[job[w]] /\ WithinEarned(path[w], current[w])

RaisesParked ==
    \A c \in LimitChanges :
        parked[c] # "none" => effects[c] > 0 /\ effectiveAt[c] >= issuedAt[c] + Hold

IInv == TypeOK /\ OtpRows /\ LimitsUnderWay /\ RaisesParked /\ RaisesWait
=============================================================================
