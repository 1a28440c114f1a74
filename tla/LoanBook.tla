------------------------------- MODULE LoanBook -------------------------------
(***************************************************************************)
(* What the loan service promises, without requests, locks or statements:  *)
(* a loan is approved by both staff roles or not at all, its principal     *)
(* reaches the borrower in the step that approves it, and every repayment  *)
(* is money taken from an account, until the debt is paid.                 *)
(***************************************************************************)
EXTENDS Integers, FiniteSetsExt

CONSTANTS
    Accounts,          \* account ids
    Loans,             \* ids of the loans customers apply for
    DisburseTo,        \* loans.disbursement_account_id
    Principal,         \* loans.principal, in mills (tenths of a cent)
    Interest,          \* interest over the whole term, in mills
    OpeningBalance,    \* balances before the first modelled step, in mills
    Amounts,           \* what a repayment may come to
    Moves              \* what other services may add to an account or take

VARIABLES
    balance,           \* accounts.balance, in mills
    loanStatus,        \* loans.status; "none" before the row is inserted
    approvals,         \* the roles with a row in loan_approvals
    paid               \* the sum of the loan's repayments, in mills

bookVars == <<balance, loanStatus, approvals, paid>>

LoanStatuses == {"none", "pending", "approved", "active", "paid_off", "rejected"}
Roles == {"teller", "admin"}
Repayable == {"approved", "active"}

\* total_due
Due(l) == Principal[l] + Interest[l]

Init ==
    /\ balance = OpeningBalance
    /\ loanStatus = [l \in Loans |-> "none"]
    /\ approvals = [l \in Loans |-> {}]
    /\ paid = [l \in Loans |-> 0]

-----------------------------------------------------------------------------

Apply(l) ==
    /\ loanStatus[l] = "none"
    /\ loanStatus' = [loanStatus EXCEPT ![l] = "pending"]
    /\ UNCHANGED <<balance, approvals, paid>>

\* The first of the two roles.
Endorse(l, role) ==
    /\ loanStatus[l] = "pending"
    /\ approvals[l] = {}
    /\ approvals' = [approvals EXCEPT ![l] = {role}]
    /\ UNCHANGED <<balance, loanStatus, paid>>

\* The other role: the loan is approved and paid out in one step.
Disburse(l, role) ==
    /\ loanStatus[l] = "pending"
    /\ role \notin approvals[l]
    /\ approvals[l] \union {role} = Roles
    /\ approvals' = [approvals EXCEPT ![l] = Roles]
    /\ loanStatus' = [loanStatus EXCEPT ![l] = "approved"]
    /\ balance' = [balance EXCEPT ![DisburseTo[l]] = @ + Principal[l]]
    /\ UNCHANGED paid

\* Declined by staff, or expired.
Reject(l) ==
    /\ loanStatus[l] = "pending"
    /\ loanStatus' = [loanStatus EXCEPT ![l] = "rejected"]
    /\ UNCHANGED <<balance, approvals, paid>>

\* A repayment may exceed what is owed.
Repay(l, a, amount) ==
    /\ loanStatus[l] \in Repayable
    /\ amount <= balance[a]
    /\ balance' = [balance EXCEPT ![a] = @ - amount]
    /\ paid' = [paid EXCEPT ![l] = @ + amount]
    /\ loanStatus' = [loanStatus EXCEPT ![l] = IF Due(l) <= paid'[l] THEN "paid_off" ELSE "active"]
    /\ UNCHANGED approvals

\* Money moved by other services.
Elsewhere(a, delta) ==
    /\ 0 <= balance[a] + delta
    /\ balance' = [balance EXCEPT ![a] = @ + delta]
    /\ UNCHANGED <<loanStatus, approvals, paid>>

Next ==
    \/ \E l \in Loans :
          \/ Apply(l) \/ Reject(l)
          \/ \E role \in Roles : Endorse(l, role) \/ Disburse(l, role)
          \/ \E a \in Accounts, amount \in Amounts : Repay(l, a, amount)
    \/ \E a \in Accounts, delta \in Moves : Elsewhere(a, delta)

Spec == Init /\ [][Next]_bookVars

-----------------------------------------------------------------------------
\* Properties

Disbursed == {l \in Loans : loanStatus[l] \in {"approved", "active", "paid_off"}}

\* What is in the accounts and has been paid back, less what has been lent.
Worth ==
    MapThenSumSet(LAMBDA a : balance[a], Accounts) + MapThenSumSet(LAMBDA l : paid[l], Loans)
        - MapThenSumSet(LAMBDA l : Principal[l], Disbursed)

\* Loans neither make nor lose money as long as no amount is half a cent past a
\* cent: approve lends what it pays out, and what record_repayment credits to the
\* loan an account has paid.  (On the half cent the service is not this book:
\* RepaymentMovesMoney.)
LoansKeepMoney == [][<<loanStatus, approvals, paid>>' # <<loanStatus, approvals, paid>>
                        => Worth' = Worth]_bookVars

\* A loan is paid out exactly when both roles have approved it (approve), and a
\* declined or expired one never had both.
BothRolesDecide == \A l \in Loans : l \in Disbursed <=> approvals[l] = Roles

\* A loan is closed as paid exactly when its repayments reach the debt, however
\* many they were and whichever accounts they came from (record_repayment).
ClosedWhenPaid ==
    \A l \in Disbursed :
        /\ loanStatus[l] = "paid_off" <=> Due(l) <= paid[l]
        /\ loanStatus[l] = "approved" <=> paid[l] = 0
=============================================================================
