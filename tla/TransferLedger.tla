--------------------------- MODULE TransferLedger ---------------------------
(***************************************************************************)
(* What the transfer service promises about money, with no requests, locks *)
(* or statements in sight: every transfer row walks one life cycle, money  *)
(* moves in the single step that completes a row, and a row can be paid or *)
(* parked for review only with money no other parked row has a claim on.   *)
(***************************************************************************)
EXTENDS Integers, FiniteSetsExt

CONSTANTS
    Accounts,        \* account ids
    Owner,           \* Owner[a]: the customer account a belongs to
    Transfers,       \* transfer ids
    From, To, Amount, \* the immutable columns of a transfer row
    OpeningBalance,  \* balances before the first modelled step
    Posted           \* rows already pending before the first modelled step

VARIABLES
    balance,         \* accounts.balance
    status           \* transfers.status; "none" before the row is inserted

ledgerVars == <<balance, status>>

Statuses == {"none", "pending", "on_hold", "completed", "rejected"}
Terminal == {"completed", "rejected"}

\* The amount and ownership checks every new row has passed.
Valid(t) ==
    /\ Amount[t] > 0
    /\ From[t] # To[t]
    /\ Owner[From[t]] # Owner[To[t]]

\* What the rows parked for review, other than t, have a claim on.
HeldElsewhere(t) ==
    MapThenSumSet(LAMBDA u : Amount[u],
                  {u \in Transfers : From[u] = From[t] /\ status[u] = "on_hold" /\ u # t})

\* The balance of t's source account that no other parked row has a claim on.
Available(t) == balance[From[t]] - HeldElsewhere(t)

Init ==
    /\ balance = OpeningBalance
    /\ status = [t \in Transfers |-> IF t \in Posted THEN "pending" ELSE "none"]

-----------------------------------------------------------------------------

\* A row enters the table, to be confirmed or already turned away.
Post(t) ==
    /\ status[t] = "none"
    /\ Valid(t)
    /\ \E s \in {"pending", "rejected"} : status' = [status EXCEPT ![t] = s]
    /\ UNCHANGED balance

Hold(t) ==
    /\ status[t] = "pending"
    /\ Amount[t] <= Available(t)
    /\ status' = [status EXCEPT ![t] = "on_hold"]
    /\ UNCHANGED balance

\* The only step that moves money. A row released after a review was counted
\* when it was parked, so it is not measured against the other parked rows.
Pay(t) ==
    /\ \/ status[t] = "pending" /\ Amount[t] <= Available(t)
       \/ status[t] = "on_hold"
    /\ Amount[t] <= balance[From[t]]
    /\ status' = [status EXCEPT ![t] = "completed"]
    /\ balance' = [balance EXCEPT ![From[t]] = @ - Amount[t], ![To[t]] = @ + Amount[t]]

Reject(t) ==
    /\ status[t] \in {"pending", "on_hold"}
    /\ status' = [status EXCEPT ![t] = "rejected"]
    /\ UNCHANGED balance

Next == \E t \in Transfers : Post(t) \/ Hold(t) \/ Pay(t) \/ Reject(t)

Spec == Init /\ [][Next]_ledgerVars

-----------------------------------------------------------------------------
\* Properties

\* Transfers move money between accounts and neither make nor lose any.
Conserved ==
    MapThenSumSet(LAMBDA a : balance[a], Accounts)
        = MapThenSumSet(LAMBDA a : OpeningBalance[a], Accounts)

\* The money a parked transfer waits to move is there when staff release it:
\* an account always covers all its held transfers together (confirm's
\* reserved-funds re-check), however many rows were posted over its balance.
HeldCovered ==
    \A a \in Accounts :
        MapThenSumSet(LAMBDA u : Amount[u],
                      {u \in Transfers : From[u] = a /\ status[u] = "on_hold"}) <= balance[a]

\* A row that was paid or rejected is never touched again.
TerminalIsFinal ==
    [][\A t \in Transfers : status[t] \in Terminal => status'[t] = status[t]]_ledgerVars
=============================================================================
