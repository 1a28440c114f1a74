---------------------------- MODULE AccountService ----------------------------
(***************************************************************************)
(* PgAccountService (services/account_service.rs) as its requests meet in  *)
(* the database: opening, approving, closing, freezing and unfreezing      *)
(* accounts, and staff adjustments with dual control, next to the money    *)
(* other services move.  Transfer limits are not part of it.               *)
(*                                                                         *)
(* A worker is a request in flight, a step is a statement other requests   *)
(* can notice, what a transaction writes appears in the step that commits, *)
(* and a request refused at once is a stuttering step.  Money is in mills: *)
(* staff may type any decimal, and balances are stored to the cent.        *)
(***************************************************************************)
EXTENDS Money

CONSTANTS
    Accounts, Requests, Staff, RoleOf, Nobody, NotParked,
    Threshold,         \* $1,000
    MaxBalance,        \* the most NUMERIC(18, 2) holds
    OpeningBalance,    \* balances at the start; 0 of accounts not opened yet
    OpeningStatus,     \* accounts.status at the start; "none" if not opened yet
    Deltas,            \* adjustments as staff type them
    Moves,             \* what other services add to an account or take, to the cent
    Workers,           \* requests in flight at a time
    NoWorker,          \* holder of a free lock
    NoJob              \* job of an idle worker

VARIABLES
    balance, accountStatus,     \* accounts
    request,                    \* adjustment_requests
    accountLock, requestLock,   \* FOR UPDATE holders
    pc, job,                    \* each worker's next statement and what it was asked
    seen                        \* the balance each worker has locked and read

bankVars   == <<balance, accountStatus>>
lockVars   == <<accountLock, requestLock>>
workerVars == <<pc, job, seen>>
vars == <<bankVars, request, lockVars, workerVars>>

AccountStatuses == {"none", "pending", "active", "frozen", "closed"}
Roles  == {"teller", "admin"}
Labels == {"idle", "closeWrite", "adjustDecide", "approveLock", "approveDecide"}

\* Adjustments one member of staff may make, and those that take two.
Small == {delta \in Deltas : delta # 0 /\ -Threshold <= delta /\ delta <= Threshold}
Large == {delta \in Deltas : delta < -Threshold \/ Threshold < delta}

\* What adjustment_requests.delta stores of the large ones.
Parkable == {InCents(delta) : delta \in Large}

\* A debit below zero is refused, a credit beyond the column is an error.
Storable == {mills \in 0 .. MaxBalance : WholeCents(mills)}

ASSUME AccountAssumption ==
    /\ RoleOf \in [Staff -> Roles]
    /\ Nobody \notin Staff
    /\ Threshold \in Nat /\ WholeCents(Threshold)
    /\ MaxBalance \in Nat
    /\ OpeningBalance \in [Accounts -> Storable]
    /\ OpeningStatus \in [Accounts -> AccountStatuses]
    /\ Deltas \subseteq Int /\ Moves \subseteq Int
    /\ NoWorker \notin Workers

AdjustmentRequest ==
    [account : Accounts, delta : Parkable, requestedBy : Staff, approvedBy : Staff \union {Nobody}]

Job == [account : Accounts, delta : Small \union Parkable \union {0}, by : Staff \union {Nobody},
        request : Requests \union {NotParked}]

Init ==
    /\ balance = OpeningBalance
    /\ accountStatus = OpeningStatus
    /\ request = [r \in Requests |-> NotParked]
    /\ accountLock = [a \in Accounts |-> NoWorker]
    /\ requestLock = [r \in Requests |-> NoWorker]
    /\ pc = [w \in Workers |-> "idle"]
    /\ job = [w \in Workers |-> NoJob]
    /\ seen = [w \in Workers |-> 0]

-----------------------------------------------------------------------------
\* Locks and requests

\* Mutants: a row is read without FOR UPDATE.
AccountReadUnlocked(a) == TRUE
RequestReadUnlocked(r) == TRUE

AccountFree(a) == accountLock[a] = NoWorker
RequestFree(r) == requestLock[r] = NoWorker

Exists(a) == accountStatus[a] # "none"

Begin(w, label, asked) ==
    /\ pc[w] = "idle"
    /\ pc' = [pc EXCEPT ![w] = label]
    /\ job' = [job EXCEPT ![w] = asked]

\* A request ends; its transaction, committed or rolled back, gives up its locks.
Finish(w) ==
    /\ accountLock' = [a \in Accounts |-> IF accountLock[a] = w THEN NoWorker ELSE accountLock[a]]
    /\ requestLock' = [r \in Requests |-> IF requestLock[r] = w THEN NoWorker ELSE requestLock[r]]
    /\ pc' = [pc EXCEPT ![w] = "idle"]
    /\ job' = [job EXCEPT ![w] = NoJob]
    /\ seen' = [seen EXCEPT ![w] = 0]

\* Refused, failed, or cut short: nothing was written.
Abort(w) ==
    /\ pc[w] # "idle"
    /\ Finish(w)
    /\ UNCHANGED <<bankVars, request>>

-----------------------------------------------------------------------------
\* One statement each

\* open_account: pending when a customer asks, active when staff do.
OpenAccount(a, status) ==
    /\ accountStatus[a] = "none"
    /\ accountStatus' = [accountStatus EXCEPT ![a] = status]
    /\ UNCHANGED <<balance, request, lockVars, workerVars>>

\* approve_account, freeze_account, unfreeze_account: UPDATE ... WHERE status = ...
SetStatus(a, from, to) ==
    /\ AccountFree(a)
    /\ accountStatus[a] = from
    /\ accountStatus' = [accountStatus EXCEPT ![a] = to]
    /\ UNCHANGED <<balance, request, lockVars, workerVars>>

ApproveAccount(a)  == SetStatus(a, "pending", "active")
FreezeAccount(a)   == SetStatus(a, "active", "frozen")
UnfreezeAccount(a) == SetStatus(a, "frozen", "active")

\* A transfer, a disbursement or a repayment.
Move(a, delta) ==
    /\ AccountFree(a)
    /\ accountStatus[a] = "active"
    /\ balance[a] + delta \in Storable
    /\ balance' = [balance EXCEPT ![a] = @ + delta]
    /\ UNCHANGED <<accountStatus, request, lockVars, workerVars>>

-----------------------------------------------------------------------------
\* close_account: a look at the row, then UPDATE ... WHERE status <> 'closed'

CloseRead(w, a) ==
    /\ Exists(a)
    /\ accountStatus[a] # "closed"
    /\ balance[a] = 0
    /\ Begin(w, "closeWrite", [account |-> a, delta |-> 0, by |-> Nobody, request |-> NotParked])
    /\ UNCHANGED <<bankVars, request, lockVars, seen>>

CloseWrite(w) ==
    /\ pc[w] = "closeWrite"
    /\ AccountFree(job[w].account)
    /\ accountStatus' = [accountStatus EXCEPT ![job[w].account] = "closed"]
    /\ Finish(w)
    /\ UNCHANGED <<balance, request>>

-----------------------------------------------------------------------------
\* adjust_balance: lock the account, write the sum of what was read and delta,
\* which the column rounds to the cent

LockAccount(w, a) ==
    /\ AccountFree(a)
    /\ accountLock' = [accountLock EXCEPT ![a] = w]
    /\ seen' = [seen EXCEPT ![w] = balance[a]]
    /\ UNCHANGED <<bankVars, request, requestLock>>

Adjust(w, a, delta) ==
    /\ Exists(a)
    /\ Begin(w, "adjustDecide", [account |-> a, delta |-> delta, by |-> Nobody, request |-> NotParked])
    /\ LockAccount(w, a)

NewBalance(w) == seen[w] + job[w].delta
Adjusted(w)   == Rounded(NewBalance(w))

AdjustCommit(w) ==
    /\ pc[w] = "adjustDecide"
    /\ NewBalance(w) >= 0
    /\ Adjusted(w) \in Storable
    /\ balance' = [balance EXCEPT ![job[w].account] = Adjusted(w)]
    /\ Finish(w)
    /\ UNCHANGED <<accountStatus, request>>

-----------------------------------------------------------------------------
\* request_adjustment beyond the threshold, and approve_adjustment

\* The foreign key waits for whoever has the account FOR UPDATE.
Park(r, a, by, delta) ==
    /\ request[r] = NotParked
    /\ Exists(a)
    /\ AccountFree(a)
    /\ request' = [request EXCEPT
          ![r] = [account |-> a, delta |-> InCents(delta), requestedBy |-> by, approvedBy |-> Nobody]]
    /\ UNCHANGED <<bankVars, lockVars, workerVars>>

\* Mutant: the same role will do.
AnotherPerson(by, requestedBy) == by # requestedBy

DualControl(by, requestedBy) == by # requestedBy /\ RoleOf[by] # RoleOf[requestedBy]

\* The request, if still waiting, and locked.
ApproveRead(w, r, by) ==
    /\ request[r] # NotParked
    /\ request[r].approvedBy = Nobody
    /\ RequestFree(r)
    /\ DualControl(by, request[r].requestedBy)
    /\ requestLock' = [requestLock EXCEPT ![r] = w]
    /\ Begin(w, "approveLock",
             [account |-> request[r].account, delta |-> request[r].delta, by |-> by, request |-> r])
    /\ UNCHANGED <<bankVars, request, accountLock, seen>>

ApproveLock(w) ==
    /\ pc[w] = "approveLock"
    /\ LockAccount(w, job[w].account)
    /\ pc' = [pc EXCEPT ![w] = "approveDecide"]
    /\ UNCHANGED job

ApproveCommit(w) ==
    /\ pc[w] = "approveDecide"
    /\ NewBalance(w) >= 0
    /\ Adjusted(w) \in Storable
    /\ balance' = [balance EXCEPT ![job[w].account] = Adjusted(w)]
    /\ request' = [request EXCEPT ![job[w].request] = [@ EXCEPT !.approvedBy = job[w].by]]
    /\ Finish(w)
    /\ UNCHANGED accountStatus

-----------------------------------------------------------------------------

Continue(w) ==
    \/ CloseWrite(w)
    \/ AdjustCommit(w)
    \/ ApproveLock(w) \/ ApproveCommit(w)
    \/ Abort(w)

Start(w) ==
    \/ \E a \in Accounts : CloseRead(w, a) \/ \E delta \in Small : Adjust(w, a, delta)
    \/ \E r \in Requests, by \in Staff : ApproveRead(w, r, by)

Statement ==
    \/ \E a \in Accounts :
          \/ \E status \in {"pending", "active"} : OpenAccount(a, status)
          \/ ApproveAccount(a) \/ FreezeAccount(a) \/ UnfreezeAccount(a)
          \/ \E delta \in Moves : Move(a, delta)
    \/ \E r \in Requests, a \in Accounts, by \in Staff, delta \in Large : Park(r, a, by, delta)

Next == Statement \/ \E w \in Workers : Continue(w) \/ Start(w)

Spec == Init /\ [][Next]_vars

-----------------------------------------------------------------------------
\* Properties

TypeOK ==
    /\ balance \in [Accounts -> Storable]
    /\ accountStatus \in [Accounts -> AccountStatuses]
    /\ request \in [Requests -> AdjustmentRequest \union {NotParked}]
    /\ accountLock \in [Accounts -> Workers \union {NoWorker}]
    /\ requestLock \in [Requests -> Workers \union {NoWorker}]
    /\ pc \in [Workers -> Labels]
    /\ job \in [Workers -> Job \union {NoJob}]
    /\ seen \in [Workers -> Storable]

AccountHeld == {"adjustDecide", "approveDecide"}
RequestHeld == {"approveLock", "approveDecide"}

\* What a worker decides on is locked by it, nothing else is, and it is still
\* as it was read.
WorkerInv(w) ==
    /\ pc[w] # "idle" => job[w] \in Job
    /\ \A a \in Accounts : accountLock[a] = w <=> pc[w] \in AccountHeld /\ job[w].account = a
    /\ \A r \in Requests : requestLock[r] = w <=> pc[w] \in RequestHeld /\ job[w].request = r
    /\ pc[w] \in AccountHeld => seen[w] = balance[job[w].account]
    /\ pc[w] = "adjustDecide" => job[w].delta \in Small
    /\ pc[w] \in RequestHeld =>
          /\ job[w].request \in Requests
          /\ request[job[w].request] # NotParked
          /\ request[job[w].request].approvedBy = Nobody
          /\ request[job[w].request].account = job[w].account
          /\ request[job[w].request].delta = job[w].delta
          /\ job[w].by \in Staff
          /\ DualControl(job[w].by, request[job[w].request].requestedBy)

\* Statement by statement, the service does to balances and requests only what
\* the book allows: to the cent, no adjustment is lost or made twice, no large
\* one is made by one person, and no balance becomes negative.  A small one
\* arrives as the nearest cent, half a cent rounded up whatever its sign (-0.005
\* takes nothing); a large one arrives as what was parked.
Book == INSTANCE AccountBook WITH Deltas <- {Rounded(delta) : delta \in Small} \union Parkable
ImplementsAccountBook == Book!Spec

\* The book's properties, of the service.
AppliedOnce == Book!AppliedOnce
TwoPeople   == Book!TwoPeople

\* The inductive invariant.
IInv == TypeOK /\ TwoPeople /\ \A w \in Workers : WorkerInv(w)

\* close_account's comment: an account that still holds money is not closed.
CloseOnlyEmpty ==
    [][\A a \in Accounts :
          accountStatus[a] # "closed" /\ accountStatus'[a] = "closed" => balance[a] = 0]_vars
=============================================================================
