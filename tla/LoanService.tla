------------------------------ MODULE LoanService ------------------------------
(***************************************************************************)
(* PgLoanService (services/loan_service.rs) as its requests meet in the    *)
(* database: apply, approve, reject and record_repayment, next to account  *)
(* freezes and the money other services move.                              *)
(*                                                                         *)
(* As in TransferEngine a worker is a request in flight, a step is a       *)
(* statement other requests can notice, what a transaction writes appears  *)
(* in the step that commits, decisions are made on rows as they were read, *)
(* and a request refused at once is a stuttering step.                     *)
(***************************************************************************)
EXTENDS Money

CONSTANTS
    Accounts, Loans,
    DisburseTo,        \* loans.disbursement_account_id
    Principal,         \* loans.principal, in mills (tenths of a cent)
    Interest,          \* interest over the whole term, in mills
    OpeningBalance,    \* balances at the start, in mills
    Amounts,           \* what customers type into the repayment form, in mills
    Moves,             \* what other services add to an account or take
    Workers,           \* requests in flight at a time
    NoWorker,          \* holder of a free lock
    NoRequest,         \* job of an idle worker
    Ttl,               \* 7 days
    MaxNow             \* bound of the clock

VARIABLES
    balance, accountStatus,           \* accounts
    loanStatus, appliedAt, approvals, \* loans, and the roles in loan_approvals
    paid,                             \* SUM(amount) of each loan's repayments
    now,
    loanLock, accountLock,            \* FOR UPDATE holders
    pc, job,                          \* each worker's next statement and request
    seen                              \* the rows each worker has locked, as read

bankVars    == <<balance, accountStatus>>
loanVars    == <<loanStatus, appliedAt, approvals, paid>>
lockVars    == <<loanLock, accountLock>>
requestVars == <<pc, job, seen>>
vars == <<bankVars, loanVars, now, lockVars, requestVars>>

LoanStatuses == {"none", "pending", "approved", "active", "paid_off", "rejected"}
Roles        == {"teller", "admin"}
Repayable    == {"approved", "active"}
Labels       == {"idle", "applyInsert", "approveDecide", "disburse", "repayAccount", "repayDecide"}

ASSUME LoanAssumption ==
    /\ DisburseTo \in [Loans -> Accounts]
    /\ Principal \in [Loans -> Nat \ {0}] /\ \A l \in Loans : WholeCents(Principal[l])
    /\ Interest \in [Loans -> Nat]
    /\ OpeningBalance \in [Accounts -> Nat] /\ \A a \in Accounts : WholeCents(OpeningBalance[a])
    /\ Amounts \subseteq Nat \ {0}
    /\ Moves \subseteq Int /\ \A delta \in Moves : WholeCents(delta)
    /\ NoWorker \notin Workers
    /\ Ttl \in Nat
    /\ MaxNow \in Nat

-----------------------------------------------------------------------------
\* Rows and arithmetic

\* total_due
Due(l) == Principal[l] + Interest[l]

Expired(l) == now - appliedAt[l] > Ttl

Request    == [loan : Loans, account : Accounts, role : Roles \union {"customer"}, amount : Nat]
LoanRow    == [status : LoanStatuses, approvals : SUBSET Roles, paid : Nat]
AccountRow == [status : {"active", "frozen"}, balance : Nat]

Row(l)     == [status |-> loanStatus[l], approvals |-> approvals[l], paid |-> paid[l]]
Account(a) == [status |-> accountStatus[a], balance |-> balance[a]]

NoRows == [loan    |-> [status |-> "none", approvals |-> {}, paid |-> 0],
           account |-> [status |-> "frozen", balance |-> 0]]

Init ==
    /\ balance = OpeningBalance
    /\ accountStatus = [a \in Accounts |-> "active"]
    /\ loanStatus = [l \in Loans |-> "none"]
    /\ appliedAt = [l \in Loans |-> 0]
    /\ approvals = [l \in Loans |-> {}]
    /\ paid = [l \in Loans |-> 0]
    /\ now = 0
    /\ loanLock = [l \in Loans |-> NoWorker]
    /\ accountLock = [a \in Accounts |-> NoWorker]
    /\ pc = [w \in Workers |-> "idle"]
    /\ job = [w \in Workers |-> NoRequest]
    /\ seen = [w \in Workers |-> NoRows]

-----------------------------------------------------------------------------
\* Locks and requests

\* Mutants: a row is read without FOR UPDATE.
LoanReadUnlocked(l) == TRUE
AccountReadUnlocked(a) == TRUE

LoanFree(l)    == loanLock[l] = NoWorker
AccountFree(a) == accountLock[a] = NoWorker

Begin(w, label, request) ==
    /\ pc[w] = "idle"
    /\ pc' = [pc EXCEPT ![w] = label]
    /\ job' = [job EXCEPT ![w] = request]

LockLoan(w, l) ==
    /\ LoanFree(l)
    /\ loanLock' = [loanLock EXCEPT ![l] = w]
    /\ seen' = [seen EXCEPT ![w] = [loan |-> Row(l), account |-> @.account]]
    /\ UNCHANGED accountLock

LockAccount(w, label) ==
    /\ AccountFree(job[w].account)
    /\ accountLock' = [accountLock EXCEPT ![job[w].account] = w]
    /\ seen' = [seen EXCEPT ![w] = [loan |-> @.loan, account |-> Account(job[w].account)]]
    /\ pc' = [pc EXCEPT ![w] = label]
    /\ UNCHANGED <<bankVars, loanVars, now, loanLock, job>>

\* A request ends; its transaction, committed or rolled back, gives up its locks.
Finish(w) ==
    /\ loanLock' = [l \in Loans |-> IF loanLock[l] = w THEN NoWorker ELSE loanLock[l]]
    /\ accountLock' = [a \in Accounts |-> IF accountLock[a] = w THEN NoWorker ELSE accountLock[a]]
    /\ pc' = [pc EXCEPT ![w] = "idle"]
    /\ job' = [job EXCEPT ![w] = NoRequest]
    /\ seen' = [seen EXCEPT ![w] = NoRows]
    /\ UNCHANGED now

\* Refused, failed, or cut short: nothing was written.
Abort(w) ==
    /\ pc[w] # "idle"
    /\ Finish(w)
    /\ UNCHANGED <<bankVars, loanVars>>

-----------------------------------------------------------------------------
\* apply: a look at the account, then the INSERT

Apply(w, l) ==
    /\ loanStatus[l] = "none"
    /\ accountStatus[DisburseTo[l]] = "active"
    /\ Begin(w, "applyInsert",
             [loan |-> l, account |-> DisburseTo[l], role |-> "customer", amount |-> 0])
    /\ UNCHANGED <<bankVars, loanVars, now, lockVars, seen>>

\* The foreign key waits for whoever has the account FOR UPDATE.
ApplyInsert(w) ==
    LET l == job[w].loan IN
    /\ pc[w] = "applyInsert"
    /\ loanStatus[l] = "none"
    /\ AccountFree(job[w].account)
    /\ loanStatus' = [loanStatus EXCEPT ![l] = "pending"]
    /\ appliedAt' = [appliedAt EXCEPT ![l] = now]
    /\ Finish(w)
    /\ UNCHANGED <<bankVars, approvals, paid>>

-----------------------------------------------------------------------------
\* approve: lock the loan, count the roles, and with both lock the account

Approve(w, l, role) ==
    /\ Begin(w, "approveDecide",
             [loan |-> l, account |-> DisburseTo[l], role |-> role, amount |-> 0])
    /\ LockLoan(w, l)
    /\ loanStatus[l] = "pending"
    /\ UNCHANGED <<bankVars, loanVars, now>>

Approving(w) == pc[w] = "approveDecide" /\ ~Expired(job[w].loan)

\* Mutant: any approval counts for both roles.
CountedTwice(w) == Roles

\* loan_approvals as this transaction sees it after its INSERT
Counted(w) == seen[w].loan.approvals \union {job[w].role}

\* The application is too old.
ApproveExpired(w) ==
    /\ pc[w] = "approveDecide"
    /\ Expired(job[w].loan)
    /\ loanStatus' = [loanStatus EXCEPT ![job[w].loan] = "rejected"]
    /\ Finish(w)
    /\ UNCHANGED <<bankVars, appliedAt, approvals, paid>>

\* One role is not enough; the loan stays pending.
ApproveFirst(w) ==
    /\ Approving(w)
    /\ job[w].role \notin seen[w].loan.approvals
    /\ Counted(w) # Roles
    /\ approvals' = [approvals EXCEPT ![job[w].loan] = @ \union {job[w].role}]
    /\ Finish(w)
    /\ UNCHANGED <<bankVars, loanStatus, appliedAt, paid>>

ApproveLockAccount(w) ==
    /\ Approving(w)
    /\ job[w].role \notin seen[w].loan.approvals
    /\ Counted(w) = Roles
    /\ LockAccount(w, "disburse")

\* An account that is no longer active rolls everything back (Abort), the
\* second approval included.
Disburse(w) ==
    /\ pc[w] = "disburse"
    /\ seen[w].account.status = "active"
    /\ balance' = [balance EXCEPT ![job[w].account] = @ + Principal[job[w].loan]]
    /\ approvals' = [approvals EXCEPT ![job[w].loan] = @ \union {job[w].role}]
    /\ loanStatus' = [loanStatus EXCEPT ![job[w].loan] = "approved"]
    /\ Finish(w)
    /\ UNCHANGED <<accountStatus, appliedAt, paid>>

-----------------------------------------------------------------------------
\* reject: one UPDATE ... WHERE status = 'pending'

Reject(l) ==
    /\ LoanFree(l)
    /\ loanStatus[l] = "pending"
    /\ loanStatus' = [loanStatus EXCEPT ![l] = "rejected"]
    /\ UNCHANGED <<bankVars, appliedAt, approvals, paid, now, lockVars, requestVars>>

-----------------------------------------------------------------------------
\* record_repayment: lock the loan, lock the funding account, pay

Repay(w, l, a, amount) ==
    /\ Begin(w, "repayAccount", [loan |-> l, account |-> a, role |-> "customer", amount |-> amount])
    /\ LockLoan(w, l)
    /\ loanStatus[l] \in Repayable
    /\ UNCHANGED <<bankVars, loanVars, now>>

RepayLockAccount(w) ==
    /\ pc[w] = "repayAccount"
    /\ LockAccount(w, "repayDecide")

\* Mutant: the sum is taken before the new row is in.
PaidBefore(w) == seen[w].loan.paid

\* SUM(amount) as this transaction sees it after its INSERT
Paid(w) == seen[w].loan.paid + Rounded(job[w].amount)

Covered(w) ==
    /\ seen[w].account.status = "active"
    /\ seen[w].account.balance >= job[w].amount

\* The debit, the ledger row, and the status that the sum of rows now calls for.
\* The CHECK of repayments refuses an amount that rounds to nothing.
RepayCommit(w) ==
    LET l == job[w].loan
        amount == job[w].amount
    IN
    /\ pc[w] = "repayDecide"
    /\ Covered(w)
    /\ Rounded(amount) > 0
    /\ balance' = [balance EXCEPT ![job[w].account] = Rounded(@ - amount)]
    /\ paid' = [paid EXCEPT ![l] = @ + Rounded(amount)]
    /\ loanStatus' = [loanStatus EXCEPT ![l] = IF Due(l) - Paid(w) <= 0 THEN "paid_off" ELSE "active"]
    /\ Finish(w)
    /\ UNCHANGED <<accountStatus, appliedAt, approvals>>

-----------------------------------------------------------------------------
\* The rest of the bank

\* Mutant: the status of a locked row changes.
SetStatusUnlocked(a, status) ==
    /\ accountStatus[a] # status
    /\ accountStatus' = [accountStatus EXCEPT ![a] = status]
    /\ UNCHANGED <<balance, loanVars, now, lockVars, requestVars>>

\* freeze_account and unfreeze_account; "frozen" stands for every status that is
\* not active, so that a closing is one of these steps as well.
SetStatus(a, status) ==
    /\ AccountFree(a)
    /\ accountStatus[a] # status
    /\ accountStatus' = [accountStatus EXCEPT ![a] = status]
    /\ UNCHANGED <<balance, loanVars, now, lockVars, requestVars>>

\* A transfer or an adjustment.
Move(a, delta) ==
    /\ AccountFree(a)
    /\ 0 <= balance[a] + delta
    /\ balance' = [balance EXCEPT ![a] = @ + delta]
    /\ UNCHANGED <<accountStatus, loanVars, now, lockVars, requestVars>>

Tick ==
    /\ now < MaxNow
    /\ now' = now + 1
    /\ UNCHANGED <<bankVars, loanVars, lockVars, requestVars>>

Continue(w) ==
    \/ ApplyInsert(w)
    \/ ApproveExpired(w) \/ ApproveFirst(w) \/ ApproveLockAccount(w) \/ Disburse(w)
    \/ RepayLockAccount(w) \/ RepayCommit(w)
    \/ Abort(w)

Next ==
    \/ \E w \in Workers :
          \/ Continue(w)
          \/ \E l \in Loans :
                \/ Apply(w, l)
                \/ \E role \in Roles : Approve(w, l, role)
                \/ \E a \in Accounts, amount \in Amounts : Repay(w, l, a, amount)
    \/ \E l \in Loans : Reject(l)
    \/ \E a \in Accounts :
          \/ \E status \in {"active", "frozen"} : SetStatus(a, status)
          \/ \E delta \in Moves : Move(a, delta)
    \/ Tick

Spec == Init /\ [][Next]_vars
-----------------------------------------------------------------------------
\* Properties

TypeOK ==
    /\ balance \in [Accounts -> Nat]
    /\ accountStatus \in [Accounts -> {"active", "frozen"}]
    /\ loanStatus \in [Loans -> LoanStatuses]
    /\ appliedAt \in [Loans -> Nat]
    /\ approvals \in [Loans -> SUBSET Roles]
    /\ paid \in [Loans -> Nat]
    /\ now \in 0 .. MaxNow
    /\ loanLock \in [Loans -> Workers \union {NoWorker}]
    /\ accountLock \in [Accounts -> Workers \union {NoWorker}]
    /\ pc \in [Workers -> Labels]
    /\ job \in [Workers -> Request \union {NoRequest}]
    /\ seen \in [Workers -> [loan : LoanRow, account : AccountRow]]

LoanHeld    == {"approveDecide", "disburse", "repayAccount", "repayDecide"}
AccountHeld == {"disburse", "repayDecide"}

\* What a worker decides on is locked by it, nothing else is, and it is still
\* as it was read.
WorkerInv(w) ==
    /\ pc[w] # "idle" => job[w] \in Request
    /\ \A l \in Loans : loanLock[l] = w <=> pc[w] \in LoanHeld /\ job[w].loan = l
    /\ \A a \in Accounts : accountLock[a] = w <=> pc[w] \in AccountHeld /\ job[w].account = a
    /\ pc[w] \in LoanHeld => seen[w].loan = Row(job[w].loan)
    /\ pc[w] \in AccountHeld => seen[w].account = Account(job[w].account)
    /\ pc[w] \in {"approveDecide", "disburse"} =>
          /\ job[w].role \in Roles
          /\ job[w].account = DisburseTo[job[w].loan]
          /\ seen[w].loan.status = "pending"
    /\ pc[w] = "disburse" => job[w].role \notin seen[w].loan.approvals /\ Counted(w) = Roles
    /\ pc[w] \in {"repayAccount", "repayDecide"} =>
          /\ job[w].amount \in Amounts
          /\ seen[w].loan.status \in Repayable

\* Money columns hold whole cents whatever was typed.
MoneyInCents ==
    /\ \A a \in Accounts : WholeCents(balance[a])
    /\ \A l \in Loans : WholeCents(paid[l])

\* The inductive invariant.
IInv == TypeOK /\ MoneyInCents /\ \A w \in Workers : WorkerInv(w)

Book == INSTANCE LoanBook WITH Amounts <- {Rounded(amount) : amount \in Amounts}

\* Statement by statement, in any interleaving and with requests cut short
\* anywhere, the service does what LoanBook says: both roles approve, the
\* principal is paid out once, repayments are money, the debt ends when paid.
ImplementsLoanBook == Book!Spec

\* The book's properties, of the service.
LoansKeepMoney  == Book!LoansKeepMoney
BothRolesDecide == Book!BothRolesDecide
ClosedWhenPaid  == Book!ClosedWhenPaid

\* A loan is paid out to an account that is active in that very step, although
\* its status was read before.
PaidOutToActive ==
    [][\A l \in Loans :
          loanStatus[l] = "pending" /\ loanStatus'[l] = "approved"
              => accountStatus[DisburseTo[l]] = "active"]_vars

\* A repayment moves real money instead of just writing a ledger row (the
\* comment at record_repayment's account lock).
RepaymentMovesMoney ==
    [][\A l \in Loans :
          paid'[l] # paid[l] =>
              \E a \in Accounts : balance'[a] = balance[a] - (paid'[l] - paid[l])]_vars
=============================================================================
