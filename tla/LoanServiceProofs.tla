--------------------------- MODULE LoanServiceProofs ---------------------------
(***************************************************************************)
(* Theorems about LoanService, for any loans, accounts, amounts and number *)
(* of requests in flight.                                                  *)
(***************************************************************************)
EXTENDS LoanService, TLAPS

-----------------------------------------------------------------------------
\* Arithmetic

\* What a money column stores is a natural number of whole cents.
LEMMA RoundedIsMoney ==
  ASSUME NEW x \in Nat
  PROVE  Rounded(x) \in Nat /\ WholeCents(Rounded(x))
BY DEF Rounded, WholeCents

\* Whole cents stay whole cents.
LEMMA WholeCentsAdd ==
  ASSUME NEW x \in Int, NEW y \in Int, WholeCents(x), WholeCents(y)
  PROVE  WholeCents(x + y)
BY DEF WholeCents

\* Off the exact half cent, debit and ledger row round to the same amount.
LEMMA RoundingAgrees ==
  ASSUME NEW b \in Nat, NEW x \in Nat, WholeCents(b), x <= b, x % 10 # 5
  PROVE  Rounded(b - x) = b - Rounded(x) /\ Rounded(x) <= b
BY DEF Rounded, WholeCents

\* On the half cent the debit is a cent short, never anything else.
LEMMA RoundingApart ==
  ASSUME NEW b \in Nat, NEW x \in Nat, WholeCents(b), x <= b
  PROVE  Rounded(x) - (b - Rounded(b - x)) \in {0, 10}
BY DEF Rounded, WholeCents

-----------------------------------------------------------------------------
\* Requests and locks

\* The rows others have locked are as they were.
Untouched(w) ==
    /\ \A l \in Loans : loanLock[l] \in Workers \ {w} => Row(l)' = Row(l)
    /\ \A a \in Accounts : accountLock[a] \in Workers \ {w} => Account(a)' = Account(a)

\* A request that ends without touching rows others have locked.
LEMMA FinishStep ==
  ASSUME IInv, NEW w \in Workers, Finish(w), Untouched(w)
  PROVE  \A v \in Workers : WorkerInv(v)'
<1> TAKE v \in Workers
<1>1. CASE v = w
  <2>1. pc'[v] = "idle"
    BY <1>1 DEF Finish, IInv, TypeOK
  <2>2. /\ \A l \in Loans : loanLock'[l] # v
        /\ \A a \in Accounts : accountLock'[a] # v
    BY <1>1, LoanAssumption DEF Finish
  <2> QED
    BY <2>1, <2>2 DEF WorkerInv, LoanHeld, AccountHeld
<1>2. CASE v # w
  <2>1. pc'[v] = pc[v] /\ job'[v] = job[v] /\ seen'[v] = seen[v]
    BY <1>2 DEF Finish, IInv, TypeOK
  <2>2. WorkerInv(v)
    BY DEF IInv
  <2>3. ASSUME pc[v] \in LoanHeld PROVE seen[v].loan = Row(job[v].loan)'
    BY <1>2, <2>1, <2>2, <2>3 DEF WorkerInv, LoanHeld, Request, Untouched
  <2>4. ASSUME pc[v] \in AccountHeld PROVE seen[v].account = Account(job[v].account)'
    BY <1>2, <2>1, <2>2, <2>4 DEF WorkerInv, AccountHeld, Request, Untouched
  <2>5. /\ \A l \in Loans : loanLock'[l] = v <=> loanLock[l] = v
        /\ \A a \in Accounts : accountLock'[a] = v <=> accountLock[a] = v
    BY <1>2, LoanAssumption DEF Finish
  <2> QED
    BY <2>1, <2>2, <2>3, <2>4, <2>5 DEF WorkerInv, Counted
<1> QED
  BY <1>1, <1>2

\* A statement of somebody else, on rows nobody has locked.
LEMMA OutsideStep ==
  ASSUME IInv, UNCHANGED <<lockVars, requestVars>>,
         \A l \in Loans : loanLock[l] \in Workers => Row(l)' = Row(l),
         \A a \in Accounts : accountLock[a] \in Workers => Account(a)' = Account(a)
  PROVE  \A v \in Workers : WorkerInv(v)'
<1> TAKE v \in Workers
<1>1. pc'[v] = pc[v] /\ job'[v] = job[v] /\ seen'[v] = seen[v]
  BY DEF requestVars
<1>2. WorkerInv(v)
  BY DEF IInv
<1>3. ASSUME pc[v] \in LoanHeld PROVE seen[v].loan = Row(job[v].loan)'
  BY <1>1, <1>2, <1>3 DEF WorkerInv, LoanHeld, Request
<1>4. ASSUME pc[v] \in AccountHeld PROVE seen[v].account = Account(job[v].account)'
  BY <1>1, <1>2, <1>4 DEF WorkerInv, AccountHeld, Request
<1> QED
  BY <1>1, <1>2, <1>3, <1>4 DEF WorkerInv, Counted, lockVars

\* A locked loan row is one that was worth locking.
LEMMA LockedLoan ==
  ASSUME IInv, NEW l \in Loans, loanLock[l] \in Workers
  PROVE  loanStatus[l] = "pending" \/ loanStatus[l] \in Repayable
<1>1. PICK v \in Workers : loanLock[l] = v
  OBVIOUS
<1>2. pc[v] \in LoanHeld /\ job[v].loan = l /\ seen[v].loan = Row(l)
  BY <1>1 DEF IInv, WorkerInv
<1>3. seen[v].loan.status = "pending" \/ seen[v].loan.status \in Repayable
  BY <1>2 DEF IInv, WorkerInv, LoanHeld
<1> QED
  BY <1>2, <1>3 DEF Row

\* Taking a lock that is free: the others keep theirs, and the rows stay.
LEMMA LockStep ==
  ASSUME IInv, NEW w \in Workers, UNCHANGED <<bankVars, loanVars>>,
         NEW v \in Workers, v # w,
         pc'[v] = pc[v], job'[v] = job[v], seen'[v] = seen[v],
         \A l \in Loans : loanLock'[l] = v <=> loanLock[l] = v,
         \A a \in Accounts : accountLock'[a] = v <=> accountLock[a] = v
  PROVE  WorkerInv(v)'
<1>1. WorkerInv(v)
  BY DEF IInv
<1>2. ASSUME pc[v] \in LoanHeld PROVE seen[v].loan = Row(job[v].loan)'
  BY <1>1, <1>2 DEF WorkerInv, loanVars, Row
<1>3. ASSUME pc[v] \in AccountHeld PROVE seen[v].account = Account(job[v].account)'
  BY <1>1, <1>3 DEF WorkerInv, bankVars, Account
<1> QED
  BY <1>1, <1>2, <1>3 DEF WorkerInv, Counted

-----------------------------------------------------------------------------
\* The inductive invariant

LEMMA InitStep == Init => IInv
<1> SUFFICES ASSUME Init PROVE IInv
  OBVIOUS
<1> USE LoanAssumption
<1>1. TypeOK
  BY DEF Init, TypeOK, LoanStatuses, Roles, Labels, NoRows, LoanRow, AccountRow
<1>2. MoneyInCents
  BY DEF Init, MoneyInCents, WholeCents
<1>3. ASSUME NEW w \in Workers PROVE WorkerInv(w)
  BY DEF Init, WorkerInv, LoanHeld, AccountHeld
<1> QED
  BY <1>1, <1>2, <1>3 DEF IInv

\* A row has the type of its columns.
LEMMA RowTypes ==
  ASSUME TypeOK
  PROVE  /\ \A l \in Loans : Row(l) \in LoanRow
         /\ \A a \in Accounts : Account(a) \in AccountRow
BY DEF TypeOK, Row, Account, LoanRow, AccountRow

\* The end of a request keeps the types of locks and requests.
LEMMA FinishTypes ==
  ASSUME TypeOK, NEW w \in Workers, Finish(w)
  PROVE  /\ loanLock' \in [Loans -> Workers \union {NoWorker}]
         /\ accountLock' \in [Accounts -> Workers \union {NoWorker}]
         /\ pc' \in [Workers -> Labels]
         /\ job' \in [Workers -> Request \union {NoRequest}]
         /\ seen' \in [Workers -> [loan : LoanRow, account : AccountRow]]
         /\ now' \in 0 .. MaxNow
<1>1. NoRows \in [loan : LoanRow, account : AccountRow]
  BY DEF NoRows, LoanRow, AccountRow, LoanStatuses
<1> QED
  BY <1>1 DEF TypeOK, Finish, Labels

\* A step that begins a request: the worker had none, and nobody else moves.
LEMMA ApplyStep ==
  ASSUME IInv, NEW w \in Workers, NEW l \in Loans, Apply(w, l)
  PROVE  IInv'
<1> DEFINE request == [loan |-> l, account |-> DisburseTo[l], role |-> "customer", amount |-> 0]
<1>1. request \in Request
  BY LoanAssumption DEF Request
<1>2. /\ pc' = [pc EXCEPT ![w] = "applyInsert"] /\ job' = [job EXCEPT ![w] = request]
      /\ UNCHANGED <<bankVars, loanVars, now, lockVars, seen>>
  BY DEF Apply, Begin
<1> HIDE DEF request
<1>3. TypeOK'
  BY <1>1, <1>2 DEF IInv, TypeOK, Labels, bankVars, loanVars, lockVars
<1>4. MoneyInCents'
  BY <1>2 DEF IInv, MoneyInCents, WholeCents, bankVars, loanVars
<1>5. WorkerInv(w)'
  <2>1. pc'[w] = "applyInsert" /\ job'[w] = request
    BY <1>2 DEF IInv, TypeOK
  <2> QED
    BY <1>1, <1>2, <2>1 DEF WorkerInv, LoanHeld, AccountHeld, Apply, Begin, lockVars, IInv
<1>6. ASSUME NEW v \in Workers, v # w PROVE WorkerInv(v)'
  <2>1. pc'[v] = pc[v] /\ job'[v] = job[v] /\ seen'[v] = seen[v]
    BY <1>2, <1>6 DEF IInv, TypeOK
  <2> QED
    BY <1>2, <1>6, <2>1, LockStep DEF lockVars
<1> QED
  BY <1>3, <1>4, <1>5, <1>6 DEF IInv

LEMMA ApplyInsertStep ==
  ASSUME IInv, NEW w \in Workers, ApplyInsert(w)
  PROVE  IInv'
<1> DEFINE l == job[w].loan
<1>1. l \in Loans /\ loanStatus[l] = "none"
  BY DEF IInv, WorkerInv, ApplyInsert, Request
<1>2. /\ loanStatus' = [loanStatus EXCEPT ![l] = "pending"]
      /\ appliedAt' = [appliedAt EXCEPT ![l] = now]
      /\ Finish(w) /\ UNCHANGED <<bankVars, approvals, paid>>
  BY DEF ApplyInsert
<1> HIDE DEF l
<1>3. TypeOK'
  BY <1>1, <1>2, FinishTypes DEF IInv, TypeOK, LoanStatuses, bankVars
<1>4. MoneyInCents'
  BY <1>2 DEF IInv, MoneyInCents, WholeCents, bankVars
<1>5. Untouched(w)
  <2>1. ASSUME loanLock[l] \in Workers PROVE FALSE
    BY <1>1, <2>1, LockedLoan DEF Repayable
  <2> QED
    BY <1>1, <1>2, <2>1 DEF Untouched, Row, Account, bankVars, IInv, TypeOK
<1> QED
  BY <1>2, <1>3, <1>4, <1>5, FinishStep DEF IInv

\* Starting a transaction locks the loan and remembers its row.
LEMMA StartStep ==
  ASSUME IInv, NEW w \in Workers, NEW l \in Loans, NEW request \in Request,
         NEW label \in {"approveDecide", "repayAccount"},
         Begin(w, label, request), LockLoan(w, l), request.loan = l,
         UNCHANGED <<bankVars, loanVars, now>>,
         label = "approveDecide" =>
            request.role \in Roles /\ request.account = DisburseTo[l] /\ loanStatus[l] = "pending",
         label = "repayAccount" => request.amount \in Amounts /\ loanStatus[l] \in Repayable
  PROVE  IInv'
<1>1. /\ pc' = [pc EXCEPT ![w] = label] /\ job' = [job EXCEPT ![w] = request]
      /\ loanLock[l] = NoWorker /\ loanLock' = [loanLock EXCEPT ![l] = w]
      /\ seen' = [seen EXCEPT ![w] = [loan |-> Row(l), account |-> seen[w].account]]
      /\ UNCHANGED accountLock
      /\ pc[w] = "idle"
  BY DEF Begin, LockLoan, LoanFree
<1>2. Row(l) \in LoanRow
  BY RowTypes DEF IInv
<1>3. seen[w] \in [loan : LoanRow, account : AccountRow]
  BY DEF IInv, TypeOK
<1>4. seen' \in [Workers -> [loan : LoanRow, account : AccountRow]]
  BY <1>1, <1>2, <1>3 DEF IInv, TypeOK
<1>6. TypeOK'
  BY <1>1, <1>4 DEF IInv, TypeOK, Labels, bankVars, loanVars
<1>7. MoneyInCents'
  BY DEF IInv, MoneyInCents, WholeCents, bankVars, loanVars
<1>8. WorkerInv(w)'
  <2>1. pc'[w] = label /\ job'[w] = request /\ seen'[w].loan = Row(l)
    BY <1>1 DEF IInv, TypeOK
  <2>2. Row(l)' = Row(l)
    BY DEF Row, loanVars
  <2>3. /\ \A m \in Loans : loanLock[m] # w
        /\ \A a \in Accounts : accountLock[a] # w
    BY <1>1 DEF IInv, WorkerInv, LoanHeld, AccountHeld
  <2>4. /\ \A m \in Loans : loanLock'[m] = w <=> m = l
        /\ \A a \in Accounts : accountLock'[a] # w
    BY <1>1, <2>3 DEF IInv, TypeOK
  <2>5. seen'[w].loan.status = loanStatus[l]
    BY <2>1 DEF Row
  <2> QED
    BY <2>1, <2>2, <2>4, <2>5 DEF WorkerInv, LoanHeld, AccountHeld, Repayable
<1>9. ASSUME NEW v \in Workers, v # w PROVE WorkerInv(v)'
  <2>1. pc'[v] = pc[v] /\ job'[v] = job[v] /\ seen'[v] = seen[v]
    BY <1>1, <1>9 DEF IInv, TypeOK
  <2>2. /\ \A m \in Loans : loanLock'[m] = v <=> loanLock[m] = v
        /\ \A a \in Accounts : accountLock'[a] = v <=> accountLock[a] = v
    BY <1>1, <1>9, LoanAssumption DEF IInv, TypeOK
  <2> QED
    BY <1>9, <2>1, <2>2, LockStep
<1> QED
  BY <1>6, <1>7, <1>8, <1>9 DEF IInv

LEMMA ApproveStep ==
  ASSUME IInv, NEW w \in Workers, NEW l \in Loans, NEW role \in Roles, Approve(w, l, role)
  PROVE  IInv'
<1> DEFINE request == [loan |-> l, account |-> DisburseTo[l], role |-> role, amount |-> 0]
<1>1. request \in Request
  BY LoanAssumption DEF Request
<1>2. request.loan = l /\ request.role \in Roles /\ request.account = DisburseTo[l]
  OBVIOUS
<1>3. /\ Begin(w, "approveDecide", request) /\ LockLoan(w, l) /\ loanStatus[l] = "pending"
      /\ UNCHANGED <<bankVars, loanVars, now>>
  BY DEF Approve
<1> HIDE DEF request
<1> QED
  BY <1>1, <1>2, <1>3, StartStep

LEMMA RepayStep ==
  ASSUME IInv, NEW w \in Workers, NEW l \in Loans, NEW a \in Accounts, NEW amount \in Amounts,
         Repay(w, l, a, amount)
  PROVE  IInv'
<1> DEFINE request == [loan |-> l, account |-> a, role |-> "customer", amount |-> amount]
<1>1. request \in Request
  BY LoanAssumption DEF Request
<1>2. request.loan = l /\ request.amount \in Amounts
  OBVIOUS
<1>3. /\ Begin(w, "repayAccount", request) /\ LockLoan(w, l) /\ loanStatus[l] \in Repayable
      /\ UNCHANGED <<bankVars, loanVars, now>>
  BY DEF Repay
<1> HIDE DEF request
<1> QED
  BY <1>1, <1>2, <1>3, StartStep

\* The second lock of a transaction.
LEMMA AccountStep ==
  ASSUME IInv, NEW w \in Workers, NEW label \in AccountHeld, LockAccount(w, label),
         label = "disburse" =>
            /\ pc[w] = "approveDecide"
            /\ job[w].role \notin seen[w].loan.approvals
            /\ Counted(w) = Roles,
         label = "repayDecide" => pc[w] = "repayAccount"
  PROVE  IInv'
<1> DEFINE a == job[w].account
           l == job[w].loan
<1>1. /\ accountLock[a] = NoWorker /\ accountLock' = [accountLock EXCEPT ![a] = w]
      /\ seen' = [seen EXCEPT ![w] = [loan |-> seen[w].loan, account |-> Account(a)]]
      /\ pc' = [pc EXCEPT ![w] = label]
      /\ UNCHANGED <<bankVars, loanVars, now, loanLock, job>>
  BY DEF LockAccount, AccountFree
<1>2. pc[w] \in {"approveDecide", "repayAccount"} /\ job[w] \in Request /\ a \in Accounts /\ l \in Loans
  BY DEF AccountHeld, IInv, WorkerInv, Request
<1> HIDE DEF a, l
<1>3. Account(a) \in AccountRow
  BY <1>2, RowTypes DEF IInv
<1>4. seen[w] \in [loan : LoanRow, account : AccountRow]
  BY DEF IInv, TypeOK
<1>5. seen' \in [Workers -> [loan : LoanRow, account : AccountRow]]
  BY <1>1, <1>3, <1>4 DEF IInv, TypeOK
<1>7. TypeOK'
  BY <1>1, <1>2, <1>5 DEF IInv, TypeOK, AccountHeld, Labels, bankVars, loanVars
<1>8. MoneyInCents'
  BY <1>1 DEF IInv, MoneyInCents, WholeCents, bankVars, loanVars
<1>9. WorkerInv(w)'
  <2>1. /\ pc'[w] = label /\ job'[w] = job[w]
        /\ seen'[w].loan = seen[w].loan /\ seen'[w].account = Account(a)
    BY <1>1 DEF IInv, TypeOK
  <2>2. Row(l)' = Row(job[w].loan) /\ Account(a)' = Account(job[w].account)
    BY <1>1 DEF Row, Account, loanVars, bankVars, a, l
  <2>3. WorkerInv(w)
    BY DEF IInv
  <2>4. \A b \in Accounts : accountLock[b] # w
    BY <1>2, <2>3 DEF WorkerInv, AccountHeld
  <2>5. /\ \A b \in Accounts : accountLock'[b] = w <=> b = a
        /\ loanLock' = loanLock
    BY <1>1, <1>2, <2>4 DEF IInv, TypeOK
  <2>6. pc[w] \in LoanHeld /\ label \in LoanHeld
    BY <1>2 DEF LoanHeld, AccountHeld
  <2> QED
    BY <1>2, <2>1, <2>2, <2>3, <2>5, <2>6 DEF WorkerInv, AccountHeld, Counted, a, l
<1>10. ASSUME NEW v \in Workers, v # w PROVE WorkerInv(v)'
  <2>1. pc'[v] = pc[v] /\ job'[v] = job[v] /\ seen'[v] = seen[v]
    BY <1>1, <1>10 DEF IInv, TypeOK
  <2>2. /\ \A m \in Loans : loanLock'[m] = v <=> loanLock[m] = v
        /\ \A b \in Accounts : accountLock'[b] = v <=> accountLock[b] = v
    BY <1>1, <1>10, LoanAssumption DEF IInv, TypeOK
  <2> QED
    BY <1>1, <1>10, <2>1, <2>2, LockStep
<1> QED
  BY <1>7, <1>8, <1>9, <1>10 DEF IInv

\* What a worker that decides on a loan knows about it.
LEMMA Deciding ==
  ASSUME IInv, NEW w \in Workers, pc[w] \in LoanHeld
  PROVE  /\ job[w] \in Request
         /\ job[w].loan \in Loans /\ job[w].account \in Accounts /\ job[w].amount \in Nat
         /\ loanLock[job[w].loan] = w
         /\ seen[w].loan = Row(job[w].loan)
         /\ pc[w] \in AccountHeld =>
               accountLock[job[w].account] = w /\ seen[w].account = Account(job[w].account)
         /\ pc[w] \in {"approveDecide", "disburse"} =>
               /\ job[w].role \in Roles
               /\ job[w].account = DisburseTo[job[w].loan]
               /\ loanStatus[job[w].loan] = "pending"
         /\ pc[w] = "repayDecide" => job[w].amount \in Amounts /\ loanStatus[job[w].loan] \in Repayable
<1>1. WorkerInv(w) /\ job[w] \in Request
  BY DEF IInv, WorkerInv, LoanHeld
<1> QED
  BY <1>1 DEF WorkerInv, Request, Row

\* A request that ends having written only to rows it has locked.
LEMMA CommitStep ==
  ASSUME IInv, NEW w \in Workers, Finish(w), pc[w] \in LoanHeld,
         balance' \in [Accounts -> Nat], loanStatus' \in [Loans -> LoanStatuses],
         approvals' \in [Loans -> SUBSET Roles], paid' \in [Loans -> Nat],
         UNCHANGED <<accountStatus, appliedAt>>,
         \A l \in Loans \ {job[w].loan} :
            loanStatus'[l] = loanStatus[l] /\ approvals'[l] = approvals[l] /\ paid'[l] = paid[l],
         \A a \in Accounts :
            balance'[a] = balance[a] \/ (pc[w] \in AccountHeld /\ a = job[w].account),
         MoneyInCents'
  PROVE  IInv'
<1>1. TypeOK'
  BY FinishTypes DEF IInv, TypeOK
<1>2. Untouched(w)
  <2>1. ASSUME NEW l \in Loans, loanLock[l] \in Workers \ {w} PROVE Row(l)' = Row(l)
    BY <2>1, Deciding DEF Row
  <2>2. ASSUME NEW a \in Accounts, accountLock[a] \in Workers \ {w} PROVE Account(a)' = Account(a)
    BY <2>2, Deciding DEF Account
  <2> QED
    BY <2>1, <2>2 DEF Untouched
<1> QED
  BY <1>1, <1>2, FinishStep DEF IInv

LEMMA AbortStep ==
  ASSUME IInv, NEW w \in Workers, Abort(w)
  PROVE  IInv'
<1>1. Finish(w) /\ UNCHANGED <<bankVars, loanVars>>
  BY DEF Abort
<1>2. TypeOK'
  BY <1>1, FinishTypes DEF IInv, TypeOK, bankVars, loanVars
<1>3. MoneyInCents'
  BY <1>1 DEF IInv, MoneyInCents, WholeCents, bankVars, loanVars
<1>4. Untouched(w)
  BY <1>1 DEF Untouched, Row, Account, bankVars, loanVars
<1> QED
  BY <1>1, <1>2, <1>3, <1>4, FinishStep DEF IInv

\* The loan's decisions: expired, first role, paid out.
LEMMA DecideStep ==
  ASSUME IInv, NEW w \in Workers, ApproveExpired(w) \/ ApproveFirst(w) \/ Disburse(w)
  PROVE  IInv'
<1> DEFINE l == job[w].loan
<1>1. pc[w] \in LoanHeld /\ Finish(w) /\ UNCHANGED <<accountStatus, appliedAt, paid>>
  BY DEF ApproveExpired, ApproveFirst, Approving, Disburse, LoanHeld, bankVars
<1>2. l \in Loans /\ job[w].account \in Accounts /\ job[w].role \in Roles
  BY <1>1, Deciding DEF ApproveExpired, ApproveFirst, Approving, Disburse
<1>3. loanStatus' \in [Loans -> LoanStatuses] /\ \A m \in Loans \ {l} : loanStatus'[m] = loanStatus[m]
  BY <1>2 DEF IInv, TypeOK, ApproveExpired, ApproveFirst, Disburse, LoanStatuses
<1>4. approvals' \in [Loans -> SUBSET Roles] /\ \A m \in Loans \ {l} : approvals'[m] = approvals[m]
  BY <1>2 DEF IInv, TypeOK, ApproveExpired, ApproveFirst, Disburse
<1>5. /\ balance' \in [Accounts -> Nat] /\ \A a \in Accounts : WholeCents(balance'[a])
      /\ \A a \in Accounts :
            balance'[a] = balance[a] \/ (pc[w] \in AccountHeld /\ a = job[w].account)
  <2>1. CASE UNCHANGED balance
    BY <2>1 DEF IInv, TypeOK, MoneyInCents
  <2>2. CASE Disburse(w)
    <3> DEFINE lent == Principal[l]
    <3>1. lent \in Nat /\ WholeCents(lent)
      BY <1>2, LoanAssumption
    <3>2. balance' = [balance EXCEPT ![job[w].account] = @ + lent] /\ pc[w] \in AccountHeld
      BY <2>2 DEF Disburse, AccountHeld
    <3> HIDE DEF lent
    <3>3. balance[job[w].account] \in Nat /\ WholeCents(balance[job[w].account])
      BY <1>2 DEF IInv, TypeOK, MoneyInCents
    <3>4. \A x, y \in Nat : WholeCents(x) /\ WholeCents(y) => WholeCents(x + y)
      BY WholeCentsAdd
    <3>5. WholeCents(balance[job[w].account] + lent)
      BY <3>1, <3>3, <3>4, Zenon
    <3> QED
      BY <1>2, <3>1, <3>2, <3>3, <3>5 DEF IInv, TypeOK, MoneyInCents
  <2> QED
    BY <2>1, <2>2 DEF ApproveExpired, ApproveFirst, bankVars
<1>6. MoneyInCents' /\ paid' \in [Loans -> Nat]
  BY <1>1, <1>5 DEF IInv, TypeOK, MoneyInCents, WholeCents
<1> QED
  BY <1>1, <1>3, <1>4, <1>5, <1>6, CommitStep

\* What a repayment leaves in the account and in the ledger.
LEMMA RepayMoney ==
  ASSUME IInv, NEW w \in Workers, RepayCommit(w)
  PROVE  /\ job[w].amount \in Nat /\ job[w].amount <= balance[job[w].account]
         /\ balance[job[w].account] \in Nat
         /\ Rounded(balance[job[w].account] - job[w].amount) \in Nat
         /\ WholeCents(Rounded(balance[job[w].account] - job[w].amount))
         /\ Rounded(job[w].amount) \in Nat /\ WholeCents(Rounded(job[w].amount))
<1>1. pc[w] = "repayDecide" /\ Covered(w)
  BY DEF RepayCommit
<1>2. seen[w].account = Account(job[w].account) /\ job[w].account \in Accounts /\ job[w].amount \in Nat
  BY <1>1, Deciding DEF LoanHeld, AccountHeld
<1>3. job[w].amount <= balance[job[w].account] /\ balance[job[w].account] \in Nat
  BY <1>1, <1>2 DEF Covered, Account, IInv, TypeOK
<1>4. balance[job[w].account] - job[w].amount \in Nat
  BY <1>2, <1>3
<1> QED
  BY <1>2, <1>3, <1>4, RoundedIsMoney

LEMMA RepayCommitStep ==
  ASSUME IInv, NEW w \in Workers, RepayCommit(w)
  PROVE  IInv'
<1> DEFINE l == job[w].loan
           a == job[w].account
           left == Rounded(balance[a] - job[w].amount)
           more == Rounded(job[w].amount)
<1>1. /\ pc[w] \in LoanHeld /\ pc[w] \in AccountHeld /\ l \in Loans /\ a \in Accounts
      /\ Finish(w) /\ UNCHANGED <<accountStatus, appliedAt, approvals>>
  BY Deciding DEF RepayCommit, LoanHeld, AccountHeld
<1>2. left \in Nat /\ WholeCents(left) /\ more \in Nat /\ WholeCents(more)
  BY RepayMoney
<1>3. /\ balance' = [balance EXCEPT ![a] = left]
      /\ paid' = [paid EXCEPT ![l] = @ + more]
      /\ \E s \in {"paid_off", "active"} : loanStatus' = [loanStatus EXCEPT ![l] = s]
  BY DEF RepayCommit
<1> HIDE DEF left, more, l, a
<1>4. /\ balance' \in [Accounts -> Nat] /\ loanStatus' \in [Loans -> LoanStatuses]
      /\ approvals' \in [Loans -> SUBSET Roles] /\ paid' \in [Loans -> Nat]
  BY <1>1, <1>2, <1>3 DEF IInv, TypeOK, LoanStatuses
<1>5. MoneyInCents'
  <2>1. paid[l] \in Nat /\ WholeCents(paid[l] + more)
    BY <1>1, <1>2, WholeCentsAdd DEF IInv, TypeOK, MoneyInCents
  <2> QED
    BY <1>1, <1>2, <1>3, <2>1 DEF IInv, TypeOK, MoneyInCents
<1>6. /\ \A m \in Loans \ {l} : /\ loanStatus'[m] = loanStatus[m] /\ approvals'[m] = approvals[m]
                                /\ paid'[m] = paid[m]
      /\ \A b \in Accounts : balance'[b] = balance[b] \/ b = a
  BY <1>1, <1>3 DEF IInv, TypeOK
<1> QED
  BY <1>1, <1>4, <1>5, <1>6, CommitStep DEF l, a

LEMMA RejectStep ==
  ASSUME IInv, NEW l \in Loans, Reject(l)
  PROVE  IInv'
<1>1. /\ loanLock[l] = NoWorker /\ loanStatus' = [loanStatus EXCEPT ![l] = "rejected"]
      /\ UNCHANGED <<bankVars, appliedAt, approvals, paid, now, lockVars, requestVars>>
  BY DEF Reject, LoanFree
<1>2. TypeOK'
  BY <1>1 DEF IInv, TypeOK, LoanStatuses, bankVars, lockVars, requestVars
<1>3. MoneyInCents'
  BY <1>1 DEF IInv, MoneyInCents, WholeCents, bankVars
<1>4. ASSUME NEW m \in Loans, loanLock[m] \in Workers PROVE Row(m)' = Row(m)
  BY <1>1, <1>4, LoanAssumption DEF Row, IInv, TypeOK
<1>5. \A a \in Accounts : Account(a)' = Account(a)
  BY <1>1 DEF Account, bankVars
<1> QED
  BY <1>1, <1>2, <1>3, <1>4, <1>5, OutsideStep DEF IInv

LEMMA BankStep ==
  ASSUME IInv, NEW a \in Accounts,
         \/ \E s \in {"active", "frozen"} : SetStatus(a, s)
         \/ \E delta \in Moves : Move(a, delta)
  PROVE  IInv'
<1>1. accountLock[a] = NoWorker /\ UNCHANGED <<loanVars, now, lockVars, requestVars>>
  BY DEF SetStatus, Move, AccountFree
<1>2. /\ accountStatus' \in [Accounts -> {"active", "frozen"}]
      /\ \A b \in Accounts \ {a} : accountStatus'[b] = accountStatus[b]
  BY DEF SetStatus, Move, IInv, TypeOK
<1>3. /\ balance' \in [Accounts -> Nat] /\ \A b \in Accounts : WholeCents(balance'[b])
      /\ \A b \in Accounts \ {a} : balance'[b] = balance[b]
  <2>1. CASE UNCHANGED balance
    BY <2>1 DEF IInv, TypeOK, MoneyInCents
  <2>2. ASSUME NEW delta \in Moves, Move(a, delta)
        PROVE  <1>3!:
    <3>1. delta \in Int /\ WholeCents(delta)
      BY LoanAssumption
    <3>2. balance[a] \in Nat /\ WholeCents(balance[a] + delta)
      BY <3>1, WholeCentsAdd DEF IInv, TypeOK, MoneyInCents
    <3> QED
      BY <2>2, <3>1, <3>2 DEF Move, IInv, TypeOK, MoneyInCents
  <2> QED
    BY <2>1, <2>2 DEF SetStatus
<1>4. TypeOK'
  BY <1>1, <1>2, <1>3 DEF IInv, TypeOK, loanVars, lockVars, requestVars
<1>5. MoneyInCents'
  BY <1>1, <1>3 DEF IInv, MoneyInCents, WholeCents, loanVars
<1>6. ASSUME NEW b \in Accounts, accountLock[b] \in Workers PROVE Account(b)' = Account(b)
  BY <1>1, <1>2, <1>3, <1>6, LoanAssumption DEF Account
<1>7. \A l \in Loans : Row(l)' = Row(l)
  BY <1>1 DEF Row, loanVars
<1> QED
  BY <1>1, <1>4, <1>5, <1>6, <1>7, OutsideStep DEF IInv

\* The clock, and stuttering.
LEMMA IdleStep ==
  ASSUME IInv, Tick \/ UNCHANGED vars
  PROVE  IInv'
<1>1. UNCHANGED <<bankVars, loanVars, lockVars, requestVars>>
  BY DEF Tick, vars
<1>2. now' \in 0 .. MaxNow
  BY LoanAssumption DEF Tick, vars, IInv, TypeOK
<1>3. TypeOK'
  BY <1>1, <1>2 DEF IInv, TypeOK, bankVars, loanVars, lockVars, requestVars
<1>4. MoneyInCents'
  BY <1>1 DEF IInv, MoneyInCents, WholeCents, bankVars, loanVars
<1>5. /\ \A l \in Loans : Row(l)' = Row(l)
      /\ \A a \in Accounts : Account(a)' = Account(a)
  BY <1>1 DEF Row, Account, bankVars, loanVars
<1> QED
  BY <1>1, <1>3, <1>4, <1>5, OutsideStep DEF IInv

\* Every step preserves the invariant.
LEMMA NextStep == IInv /\ [Next]_vars => IInv'
<1> SUFFICES ASSUME IInv, [Next]_vars PROVE IInv'
  OBVIOUS
<1>1. ASSUME NEW w \in Workers, Continue(w) PROVE IInv'
  <2>1. CASE ApproveLockAccount(w)
    BY <2>1, AccountStep DEF ApproveLockAccount, Approving, AccountHeld
  <2>2. CASE RepayLockAccount(w)
    BY <2>2, AccountStep DEF RepayLockAccount, AccountHeld
  <2> QED
    BY <1>1, <2>1, <2>2, ApplyInsertStep, DecideStep, RepayCommitStep, AbortStep DEF Continue
<1>2. ASSUME NEW w \in Workers, NEW l \in Loans,
             \/ Apply(w, l)
             \/ \E role \in Roles : Approve(w, l, role)
             \/ \E a \in Accounts, amount \in Amounts : Repay(w, l, a, amount)
      PROVE IInv'
  BY <1>2, ApplyStep, ApproveStep, RepayStep
<1> QED
  BY <1>1, <1>2, RejectStep, BankStep, IdleStep DEF Next

\* In every reachable state, of any interleaving of requests: what a request
\* decides on is locked by it and still as it read it, and money is in cents.
THEOREM Inductive == Spec => []IInv
BY InitStep, NextStep, PTL DEF Spec

-----------------------------------------------------------------------------
\* Payment to active accounts

\* A loan is paid out to an account that is active in that very step.
THEOREM PaidToActive == Spec => PaidOutToActive
<1>1. ASSUME IInv, [Next]_vars,
             NEW l \in Loans, loanStatus[l] = "pending", loanStatus'[l] = "approved"
      PROVE  accountStatus[DisburseTo[l]] = "active"
  <2>1. PICK w \in Workers : Disburse(w)
    <3>1. ASSUME NEW w \in Workers, Continue(w) PROVE Disburse(w)
      BY <1>1, <3>1 DEF Continue, ApplyInsert, ApproveExpired, ApproveFirst, ApproveLockAccount,
            LockAccount, RepayLockAccount, RepayCommit, Abort, loanVars, IInv, TypeOK
    <3> QED
      BY <1>1, <3>1 DEF Next, vars, loanVars, Apply, Approve, Repay, Reject, SetStatus, Move, Tick,
            IInv, TypeOK
  <2>2. pc[w] \in LoanHeld /\ pc[w] \in AccountHeld
    BY <2>1 DEF Disburse, LoanHeld, AccountHeld
  <2>3. job[w].loan = l
    BY <1>1, <2>1, <2>2, Deciding DEF Disburse, IInv, TypeOK
  <2>4. /\ seen[w].account = Account(job[w].account) /\ job[w].account = DisburseTo[l]
        /\ seen[w].account.status = "active"
    BY <1>1, <2>1, <2>2, <2>3, Deciding DEF Disburse
  <2> QED
    BY <2>4 DEF Account
<1>2. IInv /\ [Next]_vars =>
         [\A l \in Loans : loanStatus[l] = "pending" /\ loanStatus'[l] = "approved"
              => accountStatus[DisburseTo[l]] = "active"]_vars
  BY <1>1
<1> QED
  BY <1>2, Inductive, PTL DEF Spec, PaidOutToActive

-----------------------------------------------------------------------------
\* Refinement

\* Nobody types an amount that ends in exactly half a cent: the one case in
\* which debit and ledger row are rounded apart.
NoHalfCents == \A amount \in Amounts : amount % 10 # 5

\* Each step is a step of the book or leaves it alone.
LEMMA BookStep ==
  ASSUME NoHalfCents, IInv, [Next]_vars
  PROVE  [Book!Next]_(Book!bookVars)
<1> USE DEF Book!bookVars
<1>1. ASSUME NEW w \in Workers, ApplyInsert(w) PROVE Book!Apply(job[w].loan) /\ job[w].loan \in Loans
  BY <1>1 DEF ApplyInsert, Book!Apply, bankVars, IInv, WorkerInv, Request
<1>2. ASSUME NEW w \in Workers, ApproveExpired(w) PROVE Book!Reject(job[w].loan) /\ job[w].loan \in Loans
  BY <1>2, Deciding DEF ApproveExpired, LoanHeld, Book!Reject, bankVars
<1>3. ASSUME NEW w \in Workers, ApproveFirst(w)
      PROVE  Book!Endorse(job[w].loan, job[w].role) /\ job[w].loan \in Loans /\ job[w].role \in Roles
  <2> DEFINE l == job[w].loan
             role == job[w].role
  <2>1. /\ l \in Loans /\ role \in Roles /\ loanStatus[l] = "pending"
        /\ seen[w].loan = Row(l)
    BY <1>3, Deciding DEF ApproveFirst, Approving, LoanHeld
  <2>2. /\ role \notin approvals[l] /\ approvals[l] \union {role} # Roles
        /\ approvals' = [approvals EXCEPT ![l] = @ \union {role}]
        /\ UNCHANGED <<balance, loanStatus, paid>>
    BY <1>3, <2>1 DEF ApproveFirst, Counted, Row, bankVars
  <2>3. approvals[l] = {}
    <3>1. approvals[l] \subseteq {"teller", "admin"} /\ (role = "teller" \/ role = "admin")
      BY <2>1 DEF Roles, IInv, TypeOK
    <3>2. ASSUME NEW other \in approvals[l] PROVE FALSE
      <4>1. approvals[l] \union {role} = {"teller", "admin"}
        BY <2>2, <3>1, <3>2
      <4> QED
        BY <2>2, <4>1 DEF Roles
    <3> QED
      BY <3>2
  <2> QED
    BY <2>1, <2>2, <2>3 DEF Book!Endorse
<1>4. ASSUME NEW w \in Workers, Disburse(w)
      PROVE  Book!Disburse(job[w].loan, job[w].role) /\ job[w].loan \in Loans /\ job[w].role \in Roles
  <2> DEFINE l == job[w].loan
             role == job[w].role
  <2>1. /\ l \in Loans /\ role \in Roles /\ loanStatus[l] = "pending"
        /\ job[w].account = DisburseTo[l] /\ seen[w].loan = Row(l)
    BY <1>4, Deciding DEF Disburse, LoanHeld
  <2>2. role \notin seen[w].loan.approvals /\ Counted(w) = Roles
    BY <1>4 DEF Disburse, IInv, WorkerInv
  <2>3. role \notin approvals[l] /\ approvals[l] \union {role} = Roles
    BY <2>1, <2>2 DEF Counted, Row
  <2> QED
    BY <1>4, <2>1, <2>3 DEF Disburse, Book!Disburse, Book!Roles, Roles
<1>5. ASSUME NEW w \in Workers, RepayCommit(w)
      PROVE  /\ Book!Repay(job[w].loan, job[w].account, Rounded(job[w].amount))
             /\ job[w].loan \in Loans /\ job[w].account \in Accounts /\ job[w].amount \in Amounts
  <2> DEFINE l == job[w].loan
             a == job[w].account
             more == Rounded(job[w].amount)
  <2>1. /\ l \in Loans /\ a \in Accounts /\ job[w].amount \in Amounts
        /\ loanStatus[l] \in Repayable /\ seen[w].loan = Row(l)
    BY <1>5, Deciding DEF RepayCommit, LoanHeld
  <2>2. /\ job[w].amount \in Nat /\ job[w].amount <= balance[a] /\ balance[a] \in Nat
        /\ WholeCents(balance[a]) /\ job[w].amount % 10 # 5
    BY <1>5, <2>1, RepayMoney DEF NoHalfCents, IInv, MoneyInCents
  <2>3. Rounded(balance[a] - job[w].amount) = balance[a] - more /\ more <= balance[a]
    BY <2>2, RoundingAgrees
  <2>4. more \in Nat /\ paid[l] \in Nat /\ seen[w].loan.paid = paid[l]
        /\ Due(l) \in Nat /\ Book!Due(l) = Due(l)
    BY <1>5, <2>1, RepayMoney, LoanAssumption DEF Row, IInv, TypeOK, Due, Book!Due
  <2>5. /\ balance' = [balance EXCEPT ![a] = Rounded(balance[a] - job[w].amount)]
        /\ paid' = [paid EXCEPT ![l] = @ + more]
        /\ loanStatus' = [loanStatus EXCEPT
                             ![l] = IF Due(l) - (seen[w].loan.paid + more) <= 0 THEN "paid_off" ELSE "active"]
        /\ UNCHANGED approvals
    BY <1>5 DEF RepayCommit, Paid
  <2> HIDE DEF l, a, more
  <2>6. paid'[l] = paid[l] + more
    BY <2>1, <2>5 DEF IInv, TypeOK
  <2>7. Due(l) - (seen[w].loan.paid + more) <= 0 <=> Due(l) <= paid'[l]
    BY <2>4, <2>6
  <2> QED
    BY <2>1, <2>3, <2>4, <2>5, <2>7 DEF Book!Repay, Book!Repayable, Repayable, l, a, more
<1>6. ASSUME NEW l \in Loans, Reject(l) PROVE Book!Reject(l)
  BY <1>6 DEF Reject, Book!Reject, bankVars
<1>7. ASSUME NEW a \in Accounts, NEW delta \in Moves, Move(a, delta) PROVE Book!Elsewhere(a, delta)
  BY <1>7 DEF Move, Book!Elsewhere, loanVars
<1>8. ASSUME NEW w \in Workers, Continue(w) PROVE [Book!Next]_(Book!bookVars)
  <2>1. CASE ApplyInsert(w) \/ ApproveExpired(w)
    BY <1>1, <1>2, <2>1 DEF Book!Next
  <2>2. CASE ApproveFirst(w) \/ Disburse(w)
    BY <1>3, <1>4, <2>2 DEF Book!Next, Book!Roles, Roles
  <2>3. CASE RepayCommit(w)
    BY <1>5, <2>3 DEF Book!Next
  <2>4. CASE ApproveLockAccount(w) \/ RepayLockAccount(w) \/ Abort(w)
    BY <2>4 DEF ApproveLockAccount, RepayLockAccount, LockAccount, Abort, bankVars, loanVars
  <2> QED
    BY <1>8, <2>1, <2>2, <2>3, <2>4 DEF Continue
<1>9. ASSUME NEW w \in Workers, NEW l \in Loans,
             \/ Apply(w, l)
             \/ \E role \in Roles : Approve(w, l, role)
             \/ \E a \in Accounts, amount \in Amounts : Repay(w, l, a, amount)
      PROVE  UNCHANGED Book!bookVars
  BY <1>9 DEF Apply, Approve, Repay, bankVars, loanVars
<1>10. ASSUME \/ \E a \in Accounts, s \in {"active", "frozen"} : SetStatus(a, s)
              \/ Tick
              \/ UNCHANGED vars
       PROVE  UNCHANGED Book!bookVars
  BY <1>10 DEF SetStatus, Tick, vars, bankVars, loanVars
<1> QED
  BY <1>6, <1>7, <1>8, <1>9, <1>10 DEF Next, Book!Next

\* The statement-level loan service implements the book, as long as nobody
\* repays an amount that ends in exactly half a cent.
THEOREM Refinement ==
  ASSUME NoHalfCents
  PROVE  Spec => ImplementsLoanBook
<1>1. Init => Book!Init
  BY DEF Init, Book!Init
<1>2. IInv /\ [Next]_vars => [Book!Next]_(Book!bookVars)
  BY BookStep
<1> QED
  BY <1>1, <1>2, Inductive, PTL DEF Spec, ImplementsLoanBook, Book!Spec

-----------------------------------------------------------------------------
\* What a repayment takes and what it records

\* Only a repayment of the loan changes what has been paid back of it.
LEMMA OnlyRepaymentsPay ==
  ASSUME IInv, [Next]_vars, NEW l \in Loans, paid'[l] # paid[l]
  PROVE  \E w \in Workers : RepayCommit(w) /\ job[w].loan = l
<1>1. ASSUME NEW w \in Workers, Continue(w) PROVE RepayCommit(w)
  BY <1>1 DEF Continue, ApplyInsert, ApproveExpired, ApproveFirst, ApproveLockAccount,
        LockAccount, RepayLockAccount, Disburse, Abort, loanVars
<1>2. PICK w \in Workers : RepayCommit(w)
  BY <1>1 DEF Next, vars, loanVars, Apply, Approve, Repay, Reject, SetStatus, Move, Tick
<1>3. job[w].loan = l
  BY <1>2 DEF RepayCommit, IInv, TypeOK
<1> QED
  BY <1>2, <1>3

\* The account a repayment is taken from, and what is recorded for the loan.
LEMMA RepaymentTakes ==
  ASSUME IInv, NEW w \in Workers, RepayCommit(w)
  PROVE  LET l == job[w].loan
             a == job[w].account
             recorded == paid'[l] - paid[l]
             taken == balance[a] - balance'[a]
         IN  /\ l \in Loans /\ a \in Accounts
             /\ recorded \in Nat /\ taken \in Int
             /\ recorded - taken \in {0, 10}
             /\ NoHalfCents => recorded = taken
<1> DEFINE l == job[w].loan
           a == job[w].account
           x == job[w].amount
<1>1. l \in Loans /\ a \in Accounts /\ x \in Amounts
  BY Deciding DEF RepayCommit, LoanHeld
<1>2. /\ x \in Nat /\ x <= balance[a] /\ balance[a] \in Nat /\ WholeCents(balance[a])
      /\ Rounded(x) \in Nat /\ Rounded(balance[a] - x) \in Nat
  BY <1>1, RepayMoney DEF IInv, MoneyInCents
<1>3. paid[l] \in Nat /\ paid'[l] = paid[l] + Rounded(x)
  BY <1>1 DEF RepayCommit, IInv, TypeOK
<1>4. balance'[a] = Rounded(balance[a] - x)
  BY <1>1 DEF RepayCommit, IInv, TypeOK
<1>5. Rounded(x) - (balance[a] - Rounded(balance[a] - x)) \in {0, 10}
  BY <1>2, RoundingApart
<1>6. NoHalfCents => Rounded(balance[a] - x) = balance[a] - Rounded(x)
  BY <1>1, <1>2, RoundingAgrees DEF NoHalfCents
<1> HIDE DEF l, a, x
<1>7. paid'[l] - paid[l] = Rounded(x)
  BY <1>2, <1>3
<1>8. balance[a] - balance'[a] \in Int
  BY <1>2, <1>4
<1>9. NoHalfCents => paid'[l] - paid[l] = balance[a] - balance'[a]
  BY <1>2, <1>4, <1>6, <1>7
<1> QED
  BY <1>1, <1>2, <1>4, <1>5, <1>7, <1>8, <1>9 DEF l, a

\* What the comment at record_repayment's account lock says, off the half cent.
THEOREM RepaymentsMoveMoney ==
  ASSUME NoHalfCents
  PROVE  Spec => RepaymentMovesMoney
<1>1. ASSUME IInv, [Next]_vars, NEW l \in Loans, paid'[l] # paid[l]
      PROVE  \E a \in Accounts : balance'[a] = balance[a] - (paid'[l] - paid[l])
  <2>1. PICK w \in Workers : RepayCommit(w) /\ job[w].loan = l
    BY <1>1, OnlyRepaymentsPay
  <2> DEFINE a == job[w].account
  <2>2. a \in Accounts /\ paid'[l] - paid[l] = balance[a] - balance'[a]
    BY <1>1, <2>1, RepaymentTakes
  <2>3. balance[a] \in Int /\ balance'[a] \in Int
    BY <1>1, <2>2, NextStep DEF IInv, TypeOK
  <2> QED
    BY <2>2, <2>3
<1>2. IInv /\ [Next]_vars =>
         [\A l \in Loans : paid'[l] # paid[l] =>
              \E a \in Accounts : balance'[a] = balance[a] - (paid'[l] - paid[l])]_vars
  BY <1>1
<1> QED
  BY <1>2, Inductive, PTL DEF Spec, RepaymentMovesMoney

\* Half cents or not, a repayment is taken from an account: record_repayment
\* records what it takes or, on the half cent, one cent more, never less and
\* never any other sum.
THEOREM RepaymentsWithinACent ==
  Spec => [][\A l \in Loans : paid'[l] # paid[l] =>
                \E a \in Accounts :
                   (paid'[l] - paid[l]) - (balance[a] - balance'[a]) \in {0, 10}]_vars
<1>1. ASSUME IInv, [Next]_vars, NEW l \in Loans, paid'[l] # paid[l]
      PROVE  \E a \in Accounts :
                (paid'[l] - paid[l]) - (balance[a] - balance'[a]) \in {0, 10}
  <2>1. PICK w \in Workers : RepayCommit(w) /\ job[w].loan = l
    BY <1>1, OnlyRepaymentsPay
  <2> QED
    BY <1>1, <2>1, RepaymentTakes
<1>2. IInv /\ [Next]_vars =>
         [\A l \in Loans : paid'[l] # paid[l] =>
              \E a \in Accounts :
                 (paid'[l] - paid[l]) - (balance[a] - balance'[a]) \in {0, 10}]_vars
  BY <1>1
<1> QED
  BY <1>2, Inductive, PTL DEF Spec

-----------------------------------------------------------------------------
\* What a loan's row, its approvals and its repayments say of each other

\* Nothing is repaid before the principal is paid out.
RepaidAfterPayout == \A l \in Loans : l \notin Book!Disbursed => paid[l] = 0

\* Status, approvals and repayments agree.
LoanInv == BothRolesDecide /\ ClosedWhenPaid /\ RepaidAfterPayout

\* The same, of one loan.
LoanAgrees(l) ==
    LET disbursed == loanStatus[l] \in {"approved", "active", "paid_off"} IN
    /\ disbursed <=> approvals[l] = Roles
    /\ disbursed => /\ loanStatus[l] = "paid_off" <=> Due(l) <= paid[l]
                    /\ loanStatus[l] = "approved" <=> paid[l] = 0
    /\ ~disbursed => paid[l] = 0

LEMMA LoanByLoan == LoanInv <=> \A l \in Loans : LoanAgrees(l)
BY DEF LoanInv, BothRolesDecide, ClosedWhenPaid, RepaidAfterPayout, LoanAgrees,
       Book!BothRolesDecide, Book!ClosedWhenPaid, Book!Disbursed, Book!Roles, Roles, Book!Due, Due

\* A loan is worth lending: what is due is more than nothing.
LEMMA DueIsMoney ==
  ASSUME NEW l \in Loans
  PROVE  Due(l) \in Nat /\ Due(l) > 0
BY LoanAssumption DEF Due

\* Each step of the service keeps each loan in agreement.
LEMMA LoanStep ==
  ASSUME IInv, [Next]_vars, NEW l \in Loans, LoanAgrees(l)
  PROVE  LoanAgrees(l)'
<1>1. ASSUME UNCHANGED <<loanStatus, approvals, paid>> PROVE LoanAgrees(l)'
  BY <1>1 DEF LoanAgrees, Due
<1>2. ASSUME NEW w \in Workers, ApplyInsert(w) PROVE LoanAgrees(l)'
  BY <1>2 DEF ApplyInsert, LoanAgrees, Due, IInv, TypeOK
<1>3. ASSUME NEW w \in Workers, ApproveExpired(w) PROVE LoanAgrees(l)'
  <2>1. loanStatus[job[w].loan] = "pending"
    BY <1>3, Deciding DEF ApproveExpired, LoanHeld
  <2> QED
    BY <1>3, <2>1 DEF ApproveExpired, LoanAgrees, Due, IInv, TypeOK
<1>4. ASSUME NEW w \in Workers, ApproveFirst(w) PROVE LoanAgrees(l)'
  <2>1. /\ loanStatus[job[w].loan] = "pending"
        /\ approvals[job[w].loan] \union {job[w].role} # Roles
    <3>1. pc[w] = "approveDecide" /\ Counted(w) # Roles
      BY <1>4 DEF ApproveFirst, Approving
    <3>2. loanStatus[job[w].loan] = "pending" /\ seen[w].loan = Row(job[w].loan)
      BY <3>1, Deciding DEF LoanHeld
    <3> QED
      BY <3>1, <3>2 DEF Counted, Row
  <2> QED
    BY <1>4, <2>1 DEF ApproveFirst, LoanAgrees, Due, IInv, TypeOK
<1>5. ASSUME NEW w \in Workers, Disburse(w) PROVE LoanAgrees(l)'
  <2>1. /\ loanStatus[job[w].loan] = "pending" /\ job[w].loan \in Loans
        /\ approvals[job[w].loan] \union {job[w].role} = Roles
    <3>1. WorkerInv(w) /\ seen[w].loan = Row(job[w].loan)
      BY <1>5, Deciding DEF Disburse, LoanHeld, IInv
    <3> QED
      BY <1>5, <3>1, Deciding DEF Disburse, LoanHeld, WorkerInv, Counted, Row
  <2> QED
    BY <1>5, <2>1, DueIsMoney DEF Disburse, LoanAgrees, Due, IInv, TypeOK
<1>6. ASSUME NEW w \in Workers, RepayCommit(w) PROVE LoanAgrees(l)'
  <2> DEFINE k == job[w].loan
             more == Rounded(job[w].amount)
  <2>1. k \in Loans /\ loanStatus[k] \in Repayable /\ seen[w].loan = Row(k)
    BY <1>6, Deciding DEF RepayCommit, LoanHeld
  <2>2. more \in Nat /\ more > 0 /\ paid[k] \in Nat /\ Due(k) \in Nat
    BY <1>6, <2>1, RepayMoney, DueIsMoney DEF RepayCommit, IInv, TypeOK
  <2>3. /\ paid' = [paid EXCEPT ![k] = @ + more]
        /\ loanStatus' = [loanStatus EXCEPT
                             ![k] = IF Due(k) - (paid[k] + more) <= 0 THEN "paid_off" ELSE "active"]
        /\ UNCHANGED approvals
    BY <1>6, <2>1 DEF RepayCommit, Paid, Row
  <2> HIDE DEF k, more
  <2>4. CASE l # k
    BY <2>1, <2>3, <2>4 DEF LoanAgrees, Due, IInv, TypeOK
  <2>5. CASE l = k
    <3>1. /\ paid'[l] = paid[l] + more
          /\ loanStatus'[l] = IF Due(l) - (paid[l] + more) <= 0 THEN "paid_off" ELSE "active"
          /\ approvals'[l] = Roles
      BY <2>1, <2>3, <2>5 DEF LoanAgrees, Repayable, IInv, TypeOK
    <3>2. paid'[l] > 0 /\ (Due(l) - (paid[l] + more) <= 0 <=> Due(l) <= paid'[l])
      BY <2>2, <2>5, <3>1
    <3> QED
      BY <3>1, <3>2 DEF LoanAgrees, Due
  <2> QED
    BY <2>4, <2>5
<1>7. ASSUME NEW k \in Loans, Reject(k) PROVE LoanAgrees(l)'
  BY <1>7 DEF Reject, LoanAgrees, Due, IInv, TypeOK
<1>8. ASSUME NEW w \in Workers, Continue(w) PROVE LoanAgrees(l)'
  <2>1. CASE ApproveLockAccount(w) \/ RepayLockAccount(w) \/ Abort(w)
    BY <1>1, <2>1 DEF ApproveLockAccount, RepayLockAccount, LockAccount, Abort, loanVars
  <2> QED
    BY <1>2, <1>3, <1>4, <1>5, <1>6, <1>8, <2>1 DEF Continue
<1>9. ASSUME \/ UNCHANGED vars
             \/ Tick
             \/ \E w \in Workers, k \in Loans :
                   \/ Apply(w, k)
                   \/ \E role \in Roles : Approve(w, k, role)
                   \/ \E a \in Accounts, amount \in Amounts : Repay(w, k, a, amount)
             \/ \E a \in Accounts, s \in {"active", "frozen"} : SetStatus(a, s)
             \/ \E a \in Accounts, delta \in Moves : Move(a, delta)
      PROVE  LoanAgrees(l)'
  BY <1>1, <1>9 DEF Apply, Approve, Repay, SetStatus, Move, Tick, vars, loanVars
<1> QED
  BY <1>7, <1>8, <1>9 DEF Next

LEMMA LoanInvariant == Spec => []LoanInv
<1>1. Init => LoanInv
  BY LoanByLoan DEF Init, LoanAgrees, Roles
<1>2. ASSUME IInv, LoanInv, [Next]_vars PROVE LoanInv'
  <2>1. \A l \in Loans : LoanAgrees(l)'
    BY <1>2, LoanStep, LoanByLoan
  <2> QED
    BY <2>1 DEF LoanInv, BothRolesDecide, ClosedWhenPaid, RepaidAfterPayout, LoanAgrees,
           Book!BothRolesDecide, Book!ClosedWhenPaid, Book!Disbursed, Book!Roles, Roles,
           Book!Due, Due
<1> QED
  BY <1>1, <1>2, Inductive, PTL DEF Spec

\* A loan is paid out exactly when both staff roles have approved it; half
\* cents or not.
THEOREM PaidOutByBoth == Spec => []BothRolesDecide
BY LoanInvariant, PTL DEF LoanInv

\* A loan is closed exactly when its repayments reach the debt.
THEOREM ClosedByPayment == Spec => []ClosedWhenPaid
BY LoanInvariant, PTL DEF LoanInv
=============================================================================
