------------------------------ MODULE AccountBook ------------------------------
(***************************************************************************)
(* What the account service promises about balances: money moved by other  *)
(* services, small adjustments by one member of staff, and large ones that *)
(* one parks and another, of the other role, approves.                     *)
(***************************************************************************)
EXTENDS Integers, FiniteSetsExt

CONSTANTS
    Accounts,          \* account ids
    Requests,          \* ids of adjustment requests
    Staff, RoleOf,     \* users with a staff role, and which
    Nobody,            \* approved_by of a request that waits
    NotParked,         \* a request id not in use
    Threshold,         \* $1,000
    OpeningBalance,    \* balances at the start; 0 of accounts not opened yet
    Deltas,            \* what adjustments add to a balance or take, to the cent
    Moves              \* what other services may add to an account or take

VARIABLES
    balance,           \* accounts.balance
    request            \* adjustment_requests

accountBookVars == <<balance, request>>

\* What one person may add or take, and what takes two.  An adjustment of less
\* than half a cent adds nothing, and one just above the threshold may come to
\* the threshold.
Small == {delta \in Deltas : -Threshold <= delta /\ delta <= Threshold}
Large == {delta \in Deltas : delta <= -Threshold \/ Threshold <= delta}

AdjustmentRequest ==
    [account : Accounts, delta : Large, requestedBy : Staff, approvedBy : Staff \union {Nobody}]

Parked(r)  == request[r] # NotParked
Pending(r) == Parked(r) /\ request[r].approvedBy = Nobody

\* Dual control: another person, of the other role.
MayApprove(by, r) ==
    /\ by # request[r].requestedBy
    /\ RoleOf[by] # RoleOf[request[r].requestedBy]

Init ==
    /\ balance = OpeningBalance
    /\ request = [r \in Requests |-> NotParked]

-----------------------------------------------------------------------------

\* One account gains or loses money, and never goes below zero.
Change(a, delta) ==
    /\ 0 <= balance[a] + delta
    /\ balance' = [balance EXCEPT ![a] = @ + delta]

\* A transfer, a loan, a repayment, or an adjustment one person may make.
ChangeAlone(a, delta) ==
    /\ Change(a, delta)
    /\ UNCHANGED request

Park(r, a, by, delta) ==
    /\ ~Parked(r)
    /\ request' = [request EXCEPT
          ![r] = [account |-> a, delta |-> delta, requestedBy |-> by, approvedBy |-> Nobody]]
    /\ UNCHANGED balance

Approve(r, by) ==
    /\ Pending(r)
    /\ MayApprove(by, r)
    /\ Change(request[r].account, request[r].delta)
    /\ request' = [request EXCEPT ![r] = [@ EXCEPT !.approvedBy = by]]

Next ==
    \/ \E a \in Accounts, delta \in Small \union Moves : ChangeAlone(a, delta)
    \/ \E r \in Requests, a \in Accounts, by \in Staff, delta \in Large : Park(r, a, by, delta)
    \/ \E r \in Requests, by \in Staff : Approve(r, by)

Spec == Init /\ [][Next]_accountBookVars

-----------------------------------------------------------------------------
\* Properties

Approved == {r \in Requests : Parked(r) /\ request[r].approvedBy # Nobody}

\* A parked adjustment is applied in the step that approves it, once and in
\* full, whoever else moves money meanwhile (approve_adjustment).
AppliedOnce ==
    [][LET Unexplained(bal, done) ==
               MapThenSumSet(LAMBDA a : bal[a], Accounts)
                   - MapThenSumSet(LAMBDA r : request'[r].delta, done)
       IN request' # request =>
              Unexplained(balance, Approved) = Unexplained(balance', Approved')]_accountBookVars

\* Behind every approved adjustment are two people of different roles.
TwoPeople ==
    \A r \in Approved :
        /\ request[r].approvedBy # request[r].requestedBy
        /\ RoleOf[request[r].approvedBy] # RoleOf[request[r].requestedBy]
=============================================================================
