--------------------------- MODULE TransferEngine ---------------------------
(***************************************************************************)
(* PgTransferService (services/transfer_service.rs) as its requests meet   *)
(* in the database: create, confirm, release, deny and submit_review, each *)
(* run by a worker that issues one SQL statement at a time, plus the       *)
(* staff's account freeze and unfreeze.                                    *)
(*                                                                         *)
(* Outside a transaction every statement commits by itself and is a step   *)
(* of its own.  Inside a transaction the steps are the row locks it takes  *)
(* (SELECT ... FOR UPDATE); what it writes becomes visible in the step     *)
(* that commits it.  A worker acts on the rows it read (seen), not on the  *)
(* rows as they are.  A request that is refused before it has changed or   *)
(* locked anything leaves no trace and is a stuttering step.               *)
(***************************************************************************)
EXTENDS Integers, FiniteSets, FiniteSetsExt

CONSTANTS
    Accounts,          \* account ids: the integers that ORDER BY id compares
    Owner,             \* Owner[a]: the customer account a belongs to
    Transfers,         \* ids of the transfers customers attempt
    From, To, Amount,  \* the immutable columns of each attempt
    Workers,           \* requests in flight at a time
    NoWorker,          \* holder of a free lock
    NoTransfer,        \* job of an idle worker
    Events,            \* the requests and faults an instance exercises
    OpeningBalance, OpeningStatus, OpeningLimit, \* account rows at the start
    Posted,            \* rows already pending at the start
    Raised,            \* accounts with a limit increase on file at the start
    RaiseTo, RaiseAt,  \* its new limit and the time its hold window ends
    LargeTransfer,     \* $10,000: hold at or above
    SizeableBalance,   \* $5,000: balances the emptying rules watch
    StructuringSlack,  \* $49: what an emptied account may keep
    VelocityLimit,     \* 3 earlier transfers in VelocityWindow hold the next
    MaxStrikes,        \* 3 wrong codes reject the transfer
    OverdraftLimit,    \* 3 overdraft rejections in OverdraftWindow freeze
    MaxPerWindow,      \* 5 rate-limiter tokens per account
    ConfirmWindow, VelocityWindow, OverdraftWindow, \* 10 min, 1 h, 24 h
    MaxNow             \* bound of the clock

VARIABLES
    balance,           \* accounts.balance
    accountStatus,     \* accounts.status
    transferLimit,     \* accounts.transfer_limit
    pendingRaise,      \* accounts whose limit_changes row has no applied_at
    status,            \* transfers.status; "none" before the row is inserted
    strikes,           \* transfers.otp_attempts
    overdrawn,         \* rejected rows whose reason is 'insufficient funds...'
    createdAt,         \* transfers.created_at
    review,            \* transfer_reviews: "none" or the decision of the row
    tokens,            \* live timestamps in the rate limiter's map
    now,               \* the clock
    rowLock,           \* FOR UPDATE holder of each transfer row
    accountLock,       \* FOR UPDATE holder of each account row
    pc, job,           \* each worker's next statement and its transfer
    seen               \* the account rows each worker has read

accountVars  == <<balance, accountStatus, transferLimit, pendingRaise>>
transferVars == <<status, strikes, overdrawn, createdAt>>
lockVars     == <<rowLock, accountLock>>
requestVars  == <<pc, job, seen>>
vars == <<accountVars, transferVars, review, tokens, now, lockVars, requestVars>>

AccountStatuses == {"pending", "active", "frozen", "closed"}
Statuses == {"none", "pending", "on_hold", "completed", "rejected"}
Terminal == {"completed", "rejected"}
Reviews  == {"none", "open", "released", "denied"}
Labels   == {"idle", "markApplied", "readFunds", "recordOverdraft",
             "checkAvailable", "checkRate", "postPending",
             "countOverdrafts", "autoFreeze",
             "confirmLow", "confirmHigh", "confirmDecide",
             "releaseLow", "releaseHigh", "releaseDecide",
             "closeReview", "fileReview"}

ASSUME ConstantsAssumption ==
    /\ Accounts \subseteq Nat
    /\ From \in [Transfers -> Accounts]
    /\ To \in [Transfers -> Accounts]
    /\ Amount \in [Transfers -> Int]
    /\ NoWorker \notin Workers
    /\ NoTransfer \notin Transfers
    /\ OpeningBalance \in [Accounts -> Nat]
    /\ OpeningStatus \in [Accounts -> AccountStatuses]
    /\ OpeningLimit \in [Accounts -> Int]
    /\ Posted \subseteq Transfers
    /\ Raised \subseteq Accounts
    /\ RaiseTo \in [Accounts -> Int]
    /\ MaxStrikes \in Nat \ {0}
    /\ MaxPerWindow \in Nat
    /\ MaxNow \in Nat

\* The tables are finite.
ASSUME FiniteAssumption == IsFiniteSet(Accounts) /\ IsFiniteSet(Transfers)

-----------------------------------------------------------------------------
\* Rows

\* Mutant: the amount is not checked.
ValidEnds(t) ==
    /\ From[t] # To[t]
    /\ Owner[From[t]] # Owner[To[t]]

\* The checks of create that need nothing but the request and the owners; a
\* CHECK and a trigger of the schema repeat the last two.
Valid(t) ==
    /\ Amount[t] > 0
    /\ From[t] # To[t]
    /\ Owner[From[t]] # Owner[To[t]]

ASSUME PostedAssumption == \A t \in Posted : Valid(t)

AccountRow == [balance : Int, status : AccountStatuses, limit : Int]

Row(a) == [balance |-> balance[a], status |-> accountStatus[a], limit |-> transferLimit[a]]

NoRows == [a \in Accounts |-> [balance |-> 0, status |-> "closed", limit |-> 0]]

\* Amounts add up over the rows of account a in one of the given states.
Total(a, states, except) ==
    MapThenSumSet(LAMBDA u : Amount[u],
                  {u \in Transfers \ except : From[u] = a /\ status[u] \in states})

Reserved(a) == Total(a, {"pending", "on_hold"}, {})

\* Mutant: funds of held transfers are not set aside.
HeldForgotten(t) == 0

HeldElsewhere(t) == Total(From[t], {"on_hold"}, {t})

OverdraftAttempts(a) ==
    Cardinality({u \in overdrawn : From[u] = a /\ now - createdAt[u] < OverdraftWindow})

RecentTransfers(a) ==
    Cardinality({u \in Transfers : /\ From[u] = a
                                   /\ status[u] \in {"completed", "on_hold"}
                                   /\ now - createdAt[u] < VelocityWindow})

Due(a) == a \in pendingRaise /\ RaiseAt[a] <= now

Expired(t) == now - createdAt[t] > ConfirmWindow

\* The fraud rules, over the locked source row.
Suspicious(t, from) ==
    \/ Amount[t] >= LargeTransfer
    \/ /\ from.balance >= SizeableBalance
       /\ Amount[t] < from.limit
       /\ from.balance - Amount[t] <= StructuringSlack
    \/ /\ from.balance > SizeableBalance
       /\ Amount[t] * 2 > from.balance
    \/ RecentTransfers(From[t]) >= VelocityLimit

-----------------------------------------------------------------------------
\* Workers and locks

Begin(w, t, label) ==
    /\ pc[w] = "idle"
    /\ pc' = [pc EXCEPT ![w] = label]
    /\ job' = [job EXCEPT ![w] = t]
    /\ UNCHANGED seen

Goto(w, label) ==
    /\ pc' = [pc EXCEPT ![w] = label]
    /\ UNCHANGED <<job, seen>>

Finish(w) ==
    /\ pc' = [pc EXCEPT ![w] = "idle"]
    /\ job' = [job EXCEPT ![w] = NoTransfer]
    /\ seen' = [seen EXCEPT ![w] = NoRows]

\* COMMIT and ROLLBACK both free every row lock of the transaction.
Unlock(w) ==
    /\ rowLock' = [t \in Transfers |-> IF rowLock[t] = w THEN NoWorker ELSE rowLock[t]]
    /\ accountLock' = [a \in Accounts |-> IF accountLock[a] = w THEN NoWorker ELSE accountLock[a]]

\* Mutant: the transfer row is read without FOR UPDATE.
RowReadUnlocked(t) == TRUE

RowFree(t) == rowLock[t] = NoWorker

\* Mutant: the account rows are read without FOR UPDATE.
AccountReadUnlocked(a) == TRUE

\* An INSERT into transfers shares-locks both account rows (its foreign keys)
\* and an UPDATE of an account locks it: both wait for a FOR UPDATE holder.
AccountFree(a) == accountLock[a] = NoWorker
EndsFree(t) == AccountFree(From[t]) /\ AccountFree(To[t])

\* Mutant: the source is locked first, whatever the ids.
SourceFirst(t) == From[t]

\* SELECT ... WHERE id IN (low, high) ORDER BY id FOR UPDATE takes two locks.
Low(t)  == IF From[t] < To[t] THEN From[t] ELSE To[t]
High(t) == IF Low(t) = From[t] THEN To[t] ELSE From[t]

LockAccount(w, a, label, next) ==
    /\ pc[w] = label
    /\ AccountFree(a)
    /\ accountLock' = [accountLock EXCEPT ![a] = w]
    /\ seen' = [seen EXCEPT ![w] = [@ EXCEPT ![a] = Row(a)]]
    /\ pc' = [pc EXCEPT ![w] = next]
    /\ UNCHANGED <<accountVars, transferVars, review, tokens, now, rowLock, job>>

\* A transaction locks a transfer row as its first statement.
LockRow(w, t, label) ==
    /\ RowFree(t)
    /\ rowLock' = [rowLock EXCEPT ![t] = w]
    /\ Begin(w, t, label)
    /\ UNCHANGED <<accountVars, transferVars, review, tokens, now, accountLock>>

Init ==
    /\ balance = OpeningBalance
    /\ accountStatus = OpeningStatus
    /\ transferLimit = OpeningLimit
    /\ pendingRaise = Raised
    /\ status = [t \in Transfers |-> IF t \in Posted THEN "pending" ELSE "none"]
    /\ strikes = [t \in Transfers |-> 0]
    /\ overdrawn = {}
    /\ createdAt = [t \in Transfers |-> 0]
    /\ review = [t \in Transfers |-> "none"]
    /\ tokens = [a \in Accounts |-> 0]
    /\ now = 0
    /\ rowLock = [t \in Transfers |-> NoWorker]
    /\ accountLock = [a \in Accounts |-> NoWorker]
    /\ pc = [w \in Workers |-> "idle"]
    /\ job = [w \in Workers |-> NoTransfer]
    /\ seen = [w \in Workers |-> NoRows]

-----------------------------------------------------------------------------
\* create: no transaction, one autocommitted statement after the other

\* A matured limit increase takes effect ...
CreatePromote(w, t) ==
    /\ "create" \in Events
    /\ status[t] = "none"
    /\ Valid(t)
    /\ \A v \in Workers : job[v] # t
    /\ Due(From[t]) => AccountFree(From[t])
    /\ transferLimit' = [transferLimit EXCEPT ![From[t]] = IF Due(From[t]) THEN RaiseTo[From[t]] ELSE @]
    /\ Begin(w, t, "markApplied")
    /\ UNCHANGED <<balance, accountStatus, pendingRaise, transferVars, review, tokens, now, lockVars>>

\* ... and is marked applied by a second statement with a clock of its own.
CreateMarkApplied(w) ==
    /\ pc[w] = "markApplied"
    /\ pendingRaise' = {a \in pendingRaise : ~(a = From[job[w]] /\ Due(a))}
    /\ Goto(w, "readFunds")
    /\ UNCHANGED <<balance, accountStatus, transferLimit, transferVars, review, tokens, now, lockVars>>

CreateReadFunds(w) ==
    LET a == From[job[w]] IN
    /\ pc[w] = "readFunds"
    /\ seen' = [seen EXCEPT ![w] = [@ EXCEPT ![a] = Row(a)]]
    /\ \/ Amount[job[w]] > balance[a] /\ pc' = [pc EXCEPT ![w] = "recordOverdraft"]
       \/ Amount[job[w]] <= balance[a] /\ pc' = [pc EXCEPT ![w] = "checkAvailable"]
    /\ UNCHANGED <<accountVars, transferVars, review, tokens, now, lockVars, job>>

CreateRecordOverdraft(w) ==
    LET t == job[w] IN
    /\ pc[w] = "recordOverdraft"
    /\ EndsFree(t)
    /\ status' = [status EXCEPT ![t] = "rejected"]
    /\ overdrawn' = overdrawn \cup {t}
    /\ createdAt' = [createdAt EXCEPT ![t] = now]
    /\ Goto(w, "countOverdrafts")
    /\ UNCHANGED <<accountVars, strikes, review, tokens, now, lockVars>>

CreateCheckAvailable(w) ==
    LET t == job[w]
        from == seen[w][From[t]]
        affordable == Amount[t] <= from.balance - Reserved(From[t]) /\ Amount[t] <= from.limit
    IN
    /\ pc[w] = "checkAvailable"
    /\ \/ affordable /\ Goto(w, "checkRate")
       \/ ~affordable /\ Finish(w)
    /\ UNCHANGED <<accountVars, transferVars, review, tokens, now, lockVars>>

CreateCheckRate(w) ==
    LET a == From[job[w]] IN
    /\ pc[w] = "checkRate"
    /\ \/ /\ tokens[a] < MaxPerWindow
          /\ tokens' = [tokens EXCEPT ![a] = @ + 1]
          /\ Goto(w, "postPending")
       \/ /\ tokens[a] >= MaxPerWindow
          /\ Finish(w)
          /\ UNCHANGED tokens
    /\ UNCHANGED <<accountVars, transferVars, review, now, lockVars>>

CreatePostPending(w) ==
    LET t == job[w] IN
    /\ pc[w] = "postPending"
    /\ EndsFree(t)
    /\ status' = [status EXCEPT ![t] = "pending"]
    /\ createdAt' = [createdAt EXCEPT ![t] = now]
    /\ Finish(w)
    /\ UNCHANGED <<accountVars, strikes, overdrawn, review, tokens, now, lockVars>>

-----------------------------------------------------------------------------
\* check_overdraft_freeze: after the rejection has been committed

\* Mutant: the last allowed attempt does not count.
CountOverdraftsLate(w) ==
    LET enough == OverdraftAttempts(From[job[w]]) > OverdraftLimit IN
    /\ pc[w] = "countOverdrafts"
    /\ \/ enough /\ Goto(w, "autoFreeze")
       \/ ~enough /\ Finish(w)
    /\ UNCHANGED <<accountVars, transferVars, review, tokens, now, lockVars>>

CountOverdrafts(w) ==
    LET enough == OverdraftAttempts(From[job[w]]) >= OverdraftLimit IN
    /\ pc[w] = "countOverdrafts"
    /\ \/ enough /\ Goto(w, "autoFreeze")
       \/ ~enough /\ Finish(w)
    /\ UNCHANGED <<accountVars, transferVars, review, tokens, now, lockVars>>

AutoFreeze(w) ==
    LET a == From[job[w]] IN
    /\ pc[w] = "autoFreeze"
    /\ accountStatus[a] = "active" => AccountFree(a)
    /\ accountStatus' = [accountStatus EXCEPT ![a] = IF @ = "active" THEN "frozen" ELSE @]
    /\ Finish(w)
    /\ UNCHANGED <<balance, transferLimit, pendingRaise, transferVars, review, tokens, now, lockVars>>

-----------------------------------------------------------------------------
\* confirm: one transaction

\* Outcomes that touch the transfer row alone lock it and commit in one step.
ConfirmExpired(t) ==
    /\ "confirm" \in Events
    /\ RowFree(t)
    /\ status[t] = "pending"
    /\ Expired(t)
    /\ status' = [status EXCEPT ![t] = "rejected"]
    /\ UNCHANGED <<accountVars, strikes, overdrawn, createdAt, review, tokens, now, lockVars, requestVars>>

\* Mutant: wrong codes are counted and never reject.
ConfirmWrongCodeForgiven(t) ==
    /\ "confirm" \in Events
    /\ RowFree(t)
    /\ status[t] = "pending"
    /\ ~Expired(t)
    /\ strikes' = [strikes EXCEPT ![t] = @ + 1]
    /\ UNCHANGED <<accountVars, status, overdrawn, createdAt, review, tokens, now, lockVars, requestVars>>

\* The owner's wrong code: the last strike rejects and is not itself stored.
ConfirmWrongCode(t) ==
    /\ "confirm" \in Events
    /\ RowFree(t)
    /\ status[t] = "pending"
    /\ ~Expired(t)
    /\ \/ /\ strikes[t] + 1 >= MaxStrikes
          /\ status' = [status EXCEPT ![t] = "rejected"]
          /\ UNCHANGED strikes
       \/ /\ strikes[t] + 1 < MaxStrikes
          /\ strikes' = [strikes EXCEPT ![t] = @ + 1]
          /\ UNCHANGED status
    /\ UNCHANGED <<accountVars, overdrawn, createdAt, review, tokens, now, lockVars, requestVars>>

\* The owner's right code keeps the row locked and goes on to the accounts.
ConfirmRightCode(w, t) ==
    /\ "confirm" \in Events
    /\ status[t] = "pending"
    /\ ~Expired(t)
    /\ LockRow(w, t, "confirmLow")

ConfirmLockLow(w)  == LockAccount(w, Low(job[w]), "confirmLow", "confirmHigh")
ConfirmLockHigh(w) == LockAccount(w, High(job[w]), "confirmHigh", "confirmDecide")

\* The account rows as the transaction locked them.
Source(w) == seen[w][From[job[w]]]
Destination(w) == seen[w][To[job[w]]]

BothActive(w) == Source(w).status = "active" /\ Destination(w).status = "active"

\* What confirm still has to read under its locks (held rows, recent rows) it
\* reads in the step that commits: a row can become held or completed only
\* under the account lock it has, and a row that stops being held meanwhile
\* commutes with the reading.
ConfirmInactive(w) ==
    /\ pc[w] = "confirmDecide"
    /\ ~BothActive(w)
    /\ status' = [status EXCEPT ![job[w]] = "rejected"]
    /\ Unlock(w)
    /\ Finish(w)
    /\ UNCHANGED <<accountVars, strikes, overdrawn, createdAt, review, tokens, now>>

ConfirmOverdraft(w) ==
    LET t == job[w] IN
    /\ pc[w] = "confirmDecide"
    /\ BothActive(w)
    /\ Source(w).balance < Amount[t]
    /\ status' = [status EXCEPT ![t] = "rejected"]
    /\ overdrawn' = overdrawn \cup {t}
    /\ Unlock(w)
    /\ Goto(w, "countOverdrafts")
    /\ UNCHANGED <<accountVars, strikes, createdAt, review, tokens, now>>

ConfirmEarmarked(w) ==
    LET t == job[w] IN
    /\ pc[w] = "confirmDecide"
    /\ BothActive(w)
    /\ Amount[t] <= Source(w).balance
    /\ Source(w).balance - HeldElsewhere(t) < Amount[t]
    /\ status' = [status EXCEPT ![t] = "rejected"]
    /\ Unlock(w)
    /\ Finish(w)
    /\ UNCHANGED <<accountVars, strikes, overdrawn, createdAt, review, tokens, now>>

\* Mutant: confirm trusts the balance create has read.
PayableUnchecked(w) == pc[w] = "confirmDecide" /\ BothActive(w)

\* The transfer is payable: the checks that precede the fraud rules passed.
Payable(w) ==
    /\ pc[w] = "confirmDecide"
    /\ BothActive(w)
    /\ Amount[job[w]] <= Source(w).balance
    /\ Amount[job[w]] <= Source(w).balance - HeldElsewhere(job[w])

ConfirmHold(w) ==
    /\ Payable(w)
    /\ Suspicious(job[w], Source(w))
    /\ status' = [status EXCEPT ![job[w]] = "on_hold"]
    /\ Unlock(w)
    /\ Finish(w)
    /\ UNCHANGED <<accountVars, strikes, overdrawn, createdAt, review, tokens, now>>

\* Mutant: the debit is lost.
MoveMoneyCreditOnly(t) ==
    /\ balance' = [balance EXCEPT ![To[t]] = @ + Amount[t]]
    /\ status' = [status EXCEPT ![t] = "completed"]
    /\ UNCHANGED <<accountStatus, transferLimit, pendingRaise, strikes, overdrawn, createdAt>>

\* apply_money_move: debit, credit and completion commit together.
MoveMoney(t) ==
    /\ balance' = [balance EXCEPT ![From[t]] = @ - Amount[t], ![To[t]] = @ + Amount[t]]
    /\ status' = [status EXCEPT ![t] = "completed"]
    /\ UNCHANGED <<accountStatus, transferLimit, pendingRaise, strikes, overdrawn, createdAt>>

ConfirmPay(w) ==
    /\ Payable(w)
    /\ ~Suspicious(job[w], Source(w))
    /\ MoveMoney(job[w])
    /\ Unlock(w)
    /\ Finish(w)
    /\ UNCHANGED <<review, tokens, now>>

-----------------------------------------------------------------------------
\* The review desk: submit_review by the owner, release and deny by staff

\* submit_review reads the row without a lock ...
ReviewRead(w, t) ==
    /\ "review" \in Events
    /\ status[t] = "on_hold"
    /\ Begin(w, t, "fileReview")
    /\ UNCHANGED <<accountVars, transferVars, review, tokens, now, lockVars>>

\* ... and inserts in a second statement, whose foreign key waits for the
\* row's holder.  An upsert of an open review only rewrites its text.
FileReview(w) ==
    LET t == job[w] IN
    /\ pc[w] = "fileReview"
    /\ review[t] = "none" => RowFree(t)
    /\ review' = [review EXCEPT ![t] = IF @ = "none" THEN "open" ELSE @]
    /\ Finish(w)
    /\ UNCHANGED <<accountVars, transferVars, tokens, now, lockVars>>

\* release locks the transfer row, then the undecided review.  While the row is
\* on hold and locked nobody else decides its review: one lock stands for both.
ReleaseStart(w, t) ==
    /\ "release" \in Events
    /\ status[t] = "on_hold"
    /\ review[t] = "open"
    /\ LockRow(w, t, "releaseLow")

ReleaseLockLow(w)  == LockAccount(w, Low(job[w]), "releaseLow", "releaseHigh")
ReleaseLockHigh(w) == LockAccount(w, High(job[w]), "releaseHigh", "releaseDecide")

Releasable(w) == BothActive(w) /\ Amount[job[w]] <= Source(w).balance

ReleaseFail(w) ==
    /\ pc[w] = "releaseDecide"
    /\ ~Releasable(w)
    /\ status' = [status EXCEPT ![job[w]] = "rejected"]
    /\ review' = [review EXCEPT ![job[w]] = "denied"]
    /\ Unlock(w)
    /\ Finish(w)
    /\ UNCHANGED <<accountVars, strikes, overdrawn, createdAt, tokens, now>>

ReleasePay(w) ==
    /\ pc[w] = "releaseDecide"
    /\ Releasable(w)
    /\ MoveMoney(job[w])
    /\ review' = [review EXCEPT ![job[w]] = "released"]
    /\ Unlock(w)
    /\ Finish(w)
    /\ UNCHANGED <<tokens, now>>

\* Mutant: deny does not ask whether the transfer is still held.
DenyAnyTransfer(w, t) ==
    /\ "deny" \in Events
    /\ RowFree(t)
    /\ status[t] # "none"
    /\ status' = [status EXCEPT ![t] = "rejected"]
    /\ Begin(w, t, "closeReview")
    /\ UNCHANGED <<accountVars, strikes, overdrawn, createdAt, review, tokens, now, lockVars>>

\* deny: two autocommitted statements.
DenyTransfer(w, t) ==
    /\ "deny" \in Events
    /\ RowFree(t)
    /\ status[t] = "on_hold"
    /\ status' = [status EXCEPT ![t] = "rejected"]
    /\ Begin(w, t, "closeReview")
    /\ UNCHANGED <<accountVars, strikes, overdrawn, createdAt, review, tokens, now, lockVars>>

CloseReview(w) ==
    LET t == job[w] IN
    /\ pc[w] = "closeReview"
    /\ review' = [review EXCEPT ![t] = IF @ = "open" THEN "denied" ELSE @]
    /\ Finish(w)
    /\ UNCHANGED <<accountVars, transferVars, tokens, now, lockVars>>

-----------------------------------------------------------------------------
\* Everything else that moves

\* Mutant: a failed transaction stays open.
AbortWithoutRollback(w) ==
    /\ "abort" \in Events
    /\ pc[w] # "idle"
    /\ Finish(w)
    /\ UNCHANGED <<accountVars, transferVars, review, tokens, now, lockVars>>

\* A handler that stops between two statements: a database error propagated
\* by `?`, a disconnected client, a crash of the process.
Abort(w) ==
    /\ "abort" \in Events
    /\ pc[w] # "idle"
    /\ Unlock(w)
    /\ Finish(w)
    /\ UNCHANGED <<accountVars, transferVars, review, tokens, now>>

\* Mutant: the freeze does not wait for the account's lock.
FreezeUnlocked(a) ==
    /\ "freeze" \in Events
    /\ accountStatus[a] = "active"
    /\ accountStatus' = [accountStatus EXCEPT ![a] = "frozen"]
    /\ UNCHANGED <<balance, transferLimit, pendingRaise, transferVars, review, tokens, now, lockVars, requestVars>>

Freeze(a) ==
    /\ "freeze" \in Events
    /\ AccountFree(a)
    /\ accountStatus[a] = "active"
    /\ accountStatus' = [accountStatus EXCEPT ![a] = "frozen"]
    /\ UNCHANGED <<balance, transferLimit, pendingRaise, transferVars, review, tokens, now, lockVars, requestVars>>

Unfreeze(a) ==
    /\ "unfreeze" \in Events
    /\ AccountFree(a)
    /\ accountStatus[a] = "frozen"
    /\ accountStatus' = [accountStatus EXCEPT ![a] = "active"]
    /\ UNCHANGED <<balance, transferLimit, pendingRaise, transferVars, review, tokens, now, lockVars, requestVars>>

\* A timestamp leaves the 60-second window (or its process restarts).
TokenExpires(a) ==
    /\ tokens[a] > 0
    /\ tokens' = [tokens EXCEPT ![a] = @ - 1]
    /\ UNCHANGED <<accountVars, transferVars, review, now, lockVars, requestVars>>

Tick ==
    /\ now < MaxNow
    /\ now' = now + 1
    /\ UNCHANGED <<accountVars, transferVars, review, tokens, lockVars, requestVars>>

Request(w, t) ==
    \/ CreatePromote(w, t)
    \/ ConfirmRightCode(w, t)
    \/ ReviewRead(w, t)
    \/ ReleaseStart(w, t)
    \/ DenyTransfer(w, t)

Continue(w) ==
    \/ CreateMarkApplied(w) \/ CreateReadFunds(w) \/ CreateRecordOverdraft(w)
    \/ CreateCheckAvailable(w) \/ CreateCheckRate(w) \/ CreatePostPending(w)
    \/ CountOverdrafts(w) \/ AutoFreeze(w)
    \/ ConfirmLockLow(w) \/ ConfirmLockHigh(w)
    \/ ConfirmInactive(w) \/ ConfirmOverdraft(w) \/ ConfirmEarmarked(w)
    \/ ConfirmHold(w) \/ ConfirmPay(w)
    \/ FileReview(w)
    \/ ReleaseLockLow(w) \/ ReleaseLockHigh(w) \/ ReleaseFail(w) \/ ReleasePay(w)
    \/ CloseReview(w)

Next ==
    \/ \E w \in Workers : Continue(w) \/ Abort(w)
    \/ \E w \in Workers, t \in Transfers : Request(w, t)
    \/ \E t \in Transfers : ConfirmExpired(t) \/ ConfirmWrongCode(t)
    \/ \E a \in Accounts : Freeze(a) \/ Unfreeze(a) \/ TokenExpires(a)
    \/ Tick

Spec == Init /\ [][Next]_vars

\* A request that has begun keeps running: the runtime polls every task to its
\* end, and the database queues lock waiters, so a lock that keeps being freed
\* is eventually granted.  What clients, staff and the clock do is not owed.
FairSpec == Spec /\ \A w \in Workers : SF_vars(Continue(w))

-----------------------------------------------------------------------------
\* Properties

\* Every variable has its type; the strike counter never reaches the strike
\* that rejects, and the rate limiter never hands out more than its tokens
\* (confirm, check_rate_limit).
TypeOK ==
    /\ balance \in [Accounts -> Int]
    /\ accountStatus \in [Accounts -> AccountStatuses]
    /\ transferLimit \in [Accounts -> Int]
    /\ pendingRaise \subseteq Raised
    /\ status \in [Transfers -> Statuses]
    /\ strikes \in [Transfers -> 0 .. MaxStrikes - 1]
    /\ overdrawn \subseteq Transfers
    /\ createdAt \in [Transfers -> 0 .. MaxNow]
    /\ review \in [Transfers -> Reviews]
    /\ tokens \in [Accounts -> 0 .. MaxPerWindow]
    /\ now \in 0 .. MaxNow
    /\ rowLock \in [Transfers -> Workers \cup {NoWorker}]
    /\ accountLock \in [Accounts -> Workers \cup {NoWorker}]
    /\ pc \in [Workers -> Labels]
    /\ job \in [Workers -> Transfers \cup {NoTransfer}]
    /\ seen \in [Workers -> [Accounts -> AccountRow]]

\* No interleaving of requests drives a balance below zero, whatever create
\* read before it posted: confirm and release look again under the row locks.
NoOverdraw == \A a \in Accounts : balance[a] >= 0

\* Requests, crashes and stale reads included, the service does to balances
\* and statuses only what the ledger allows: a row is paid at most once, in
\* one step, and never with money another parked row has a claim on.
Ledger == INSTANCE TransferLedger
ImplementsLedger == Ledger!Spec

\* The ledger's properties, of the engine: transfers make and lose no money, the
\* money a held transfer waits to move stays there while other requests spend,
\* and a row that confirm, release or deny has settled stays settled.
Conserved       == Ledger!Conserved
HeldCovered     == Ledger!HeldCovered
TerminalIsFinal == Ledger!TerminalIsFinal

\* Money moves only between accounts that are active at the moment it moves:
\* no freeze slips between the locked look at an account and the commit.
PaidBetweenActive ==
    [][\A t \in Transfers :
          status[t] # "completed" /\ status'[t] = "completed" =>
              accountStatus[From[t]] = "active" /\ accountStatus[To[t]] = "active"]_vars

\* A review and its transfer never tell different stories, whoever of the
\* owner, a releasing and a denying reviewer comes first: a released review
\* belongs to a completed transfer, a denied one to a rejected transfer, and
\* an open one never to a transfer that was paid.
DecisionsAgree ==
    \A t \in Transfers :
        /\ review[t] = "open" => status[t] \in {"on_hold", "rejected"}
        /\ review[t] = "released" => status[t] = "completed"
        /\ review[t] = "denied" => status[t] = "rejected"

\* w is waiting for an account row that v has locked.
WaitsFor(w, v) ==
    \/ pc[w] \in {"confirmLow", "releaseLow"} /\ accountLock[Low(job[w])] = v
    \/ pc[w] \in {"confirmHigh", "releaseHigh"} /\ accountLock[High(job[w])] = v

\* The id order of the account locks: no set of transactions can all be
\* waiting for one another, in whichever directions their transfers run.
NoWaitCycle ==
    \A S \in (SUBSET Workers) \ {{}} : \E w \in S : \A v \in S : ~WaitsFor(w, v)

\* Every request that has begun comes to its end: no lock is left behind and
\* no lock wait lasts for ever.
EveryRequestFinishes == \A w \in Workers : pc[w] # "idle" ~> pc[w] = "idle"

\* The hijack heuristic, with nobody unfreezing and no request cut short: when
\* an account has collected its overdraft rejections it stops being active,
\* although each rejection and its count are separate statements.
OverdraftsFreeze ==
    \A a \in Accounts :
        OverdraftAttempts(a) >= OverdraftLimit ~> accountStatus[a] # "active"

\* The inductive invariant behind the theorems: who holds which lock, that what
\* a worker saw under a lock is still so, and what no other request can have
\* changed about a row while a worker is busy with it.
Creating  == {"markApplied", "readFunds", "recordOverdraft", "checkAvailable",
              "checkRate", "postPending"}
InConfirm == {"confirmLow", "confirmHigh", "confirmDecide"}
InRelease == {"releaseLow", "releaseHigh", "releaseDecide"}

HoldsRow(w, t) == pc[w] \in InConfirm \cup InRelease /\ job[w] = t

HoldsAccount(w, a) ==
    \/ pc[w] \in {"confirmHigh", "releaseHigh"} /\ a = Low(job[w])
    \/ pc[w] \in {"confirmDecide", "releaseDecide"} /\ a \in {From[job[w]], To[job[w]]}

LocksOwned ==
    /\ \A w \in Workers, t \in Transfers : rowLock[t] = w <=> HoldsRow(w, t)
    /\ \A w \in Workers, a \in Accounts : accountLock[a] = w <=> HoldsAccount(w, a)

SeenIsCurrent ==
    \A w \in Workers, a \in Accounts : HoldsAccount(w, a) => seen[w][a] = Row(a)

RowsValid == \A t \in Transfers : status[t] # "none" => Valid(t)

RowsUnderWay ==
    \A w \in Workers :
        /\ pc[w] # "idle" => job[w] \in Transfers
        /\ pc[w] \in Creating =>
              /\ status[job[w]] = "none"
              /\ Valid(job[w])
              /\ \A v \in Workers \ {w} : job[v] # job[w]
        /\ pc[w] \in InConfirm => status[job[w]] = "pending"
        /\ pc[w] \in InRelease => status[job[w]] = "on_hold" /\ review[job[w]] = "open"
        /\ pc[w] = "fileReview" =>
              status[job[w]] \in {"on_hold", "rejected"} \/ review[job[w]] = "released"
        /\ pc[w] = "closeReview" => status[job[w]] = "rejected"

IInv ==
    /\ TypeOK
    /\ NoOverdraw
    /\ LocksOwned
    /\ SeenIsCurrent
    /\ RowsValid
    /\ RowsUnderWay
    /\ DecisionsAgree

\* What create's comment says of limit changes: a matured change is promoted
\* before it is off the books.
RaiseTakesEffect ==
    \A a \in Raised : a \notin pendingRaise => transferLimit[a] = RaiseTo[a]
=============================================================================
