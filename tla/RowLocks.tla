------------------------------- MODULE RowLocks -------------------------------
(***************************************************************************)
(* The transactions of FerroBank's services reduced to the row locks they  *)
(* take, in the order they take them: which mixes of requests can end up   *)
(* waiting for one another in a circle.                                    *)
(*                                                                         *)
(* A transaction that is one statement on one row is listed too, for it    *)
(* makes others wait.  Rows a transaction inserts or has locked already    *)
(* are left out, and so are the key shares on users: the only statement    *)
(* that conflicts with them, an e-mail change, locks nothing else.         *)
(***************************************************************************)
EXTENDS Integers, Sequences

CONSTANTS
    Accounts, MaxAccount,  \* account ids, and a bound on them
    Ids,                   \* ids of transfers, loans and adjustment requests
    Requests,              \* requests in flight
    Program                \* Program[r]: the locks request r takes, in order

VARIABLES
    taken,                 \* how many of its locks each request has
    outcome                \* "running", "committed" or "failed"

vars == <<taken, outcome>>

Lock(table, id, mode) == [table |-> table, id |-> id, mode |-> mode]

-----------------------------------------------------------------------------
\* The transactions

\* Mutant: the account rows are locked source first.
SourceFirst(a, b) == a

\* SELECT ... WHERE id IN (a, b) ORDER BY id FOR UPDATE
Low(a, b)  == IF a < b THEN a ELSE b
High(a, b) == IF Low(a, b) = a THEN b ELSE a

Confirm(t, a, b) ==
    << Lock("transfers", t, "UPDATE"),
       Lock("accounts", Low(a, b), "UPDATE"), Lock("accounts", High(a, b), "UPDATE") >>

Release(t, a, b) ==
    << Lock("transfers", t, "UPDATE"), Lock("transfer_reviews", t, "UPDATE"),
       Lock("accounts", Low(a, b), "UPDATE"), Lock("accounts", High(a, b), "UPDATE") >>

\* create's INSERT: the foreign keys are checked column by column.
InsertTransfer(a, b) == <<Lock("accounts", a, "KEY SHARE"), Lock("accounts", b, "KEY SHARE")>>

\* deny, its two transactions
RejectHeld(t)  == <<Lock("transfers", t, "NO KEY UPDATE")>>
CloseReview(t) == <<Lock("transfer_reviews", t, "NO KEY UPDATE")>>

\* submit_review: the first review of a transfer (a later one is CloseReview's lock)
FileReview(t) == <<Lock("transfers", t, "KEY SHARE")>>

\* approve (the approval that disburses) and record_repayment
MoveLoanMoney(l, a) == <<Lock("loans", l, "UPDATE"), Lock("accounts", a, "UPDATE")>>

ApproveAdjustment(q, a) ==
    <<Lock("adjustment_requests", q, "UPDATE"), Lock("accounts", a, "UPDATE")>>

AdjustBalance(a) == <<Lock("accounts", a, "UPDATE")>>

\* freeze, unfreeze, approve, close, promote or lower a limit, automatic freeze
ChangeAccount(a) == <<Lock("accounts", a, "NO KEY UPDATE")>>

\* apply for a loan, park a limit increase or an adjustment
ReferToAccount(a) == <<Lock("accounts", a, "KEY SHARE")>>

\* The two accounts of a transfer differ.
Ends == {e \in Accounts \X Accounts : e[1] # e[2]}

Transactions ==
    UNION { {Confirm(t, e[1], e[2]) : t \in Ids, e \in Ends},
            {Release(t, e[1], e[2]) : t \in Ids, e \in Ends},
            {InsertTransfer(e[1], e[2]) : e \in Ends},
            {RejectHeld(t) : t \in Ids}, {CloseReview(t) : t \in Ids}, {FileReview(t) : t \in Ids},
            {MoveLoanMoney(l, a) : l \in Ids, a \in Accounts},
            {ApproveAdjustment(q, a) : q \in Ids, a \in Accounts},
            {AdjustBalance(a) : a \in Accounts}, {ChangeAccount(a) : a \in Accounts},
            {ReferToAccount(a) : a \in Accounts} }

ASSUME RowLocksAssumption ==
    /\ MaxAccount \in Nat
    /\ Accounts \subseteq 0 .. MaxAccount
    /\ Program \in [Requests -> Transactions]

-----------------------------------------------------------------------------
\* Lock tables

\* PostgreSQL's row-level lock conflicts, for the modes in use.
Conflict(m, n) ==
    \/ m = "UPDATE" \/ n = "UPDATE"
    \/ m = "NO KEY UPDATE" /\ n = "NO KEY UPDATE"

\* Mutant: a transaction that fails is not rolled back.
OpenUntilCommit(r) == outcome[r] # "committed"

Open(r) == outcome[r] = "running"

\* The lock r asks for next.
Waiting(r) == outcome[r] = "running" /\ taken[r] < Len(Program[r])
Wanted(r)  == Program[r][taken[r] + 1]

WaitsFor(r, s) ==
    /\ Waiting(r)
    /\ s # r
    /\ Open(s)
    /\ \E i \in 1 .. taken[s] :
          /\ Program[s][i].table = Wanted(r).table
          /\ Program[s][i].id = Wanted(r).id
          /\ Conflict(Program[s][i].mode, Wanted(r).mode)

Blocked == {r \in Requests : \E s \in Requests : WaitsFor(r, s)}

\* Every member of S waits for another member.
Circle(S) == S # {} /\ \A r \in S : \E s \in S : WaitsFor(r, s)

Init ==
    /\ taken = [r \in Requests |-> 0]
    /\ outcome = [r \in Requests |-> "running"]

Take(r) ==
    /\ Waiting(r)
    /\ r \notin Blocked
    /\ taken' = [taken EXCEPT ![r] = @ + 1]
    /\ UNCHANGED outcome

Commit(r) ==
    /\ outcome[r] = "running"
    /\ taken[r] = Len(Program[r])
    /\ outcome' = [outcome EXCEPT ![r] = "committed"]
    /\ UNCHANGED taken

\* PostgreSQL's deadlock detector fails one request of a circle; the handler
\* answers with a database error.
DetectDeadlock(r) ==
    /\ r \in Blocked
    /\ \E S \in SUBSET Blocked : r \in S /\ Circle(S)
    /\ outcome' = [outcome EXCEPT ![r] = "failed"]
    /\ UNCHANGED taken

Step(r) == Take(r) \/ Commit(r) \/ DetectDeadlock(r)

Next == \E r \in Requests : Step(r)

Spec == Init /\ [][Next]_vars

\* Statements are executed, lock queues are served, and the deadlock detector
\* runs after a second of waiting.
FairSpec == Spec /\ \A r \in Requests : SF_vars(Step(r))

-----------------------------------------------------------------------------
\* Properties

\* A request has taken at most the locks of its transaction.
LocksTypeOK ==
    /\ taken \in [Requests -> Nat]
    /\ \A r \in Requests : taken[r] <= Len(Program[r])
    /\ outcome \in [Requests -> {"running", "committed", "failed"}]

\* The order the services keep: loans, adjustments and transfers first, then
\* the review, then the accounts by id.
Position(lock) ==
    IF lock.table = "accounts" THEN lock.id + 2
    ELSE IF lock.table = "transfer_reviews" THEN 1
    ELSE 0

Ascending(program) ==
    \A i, j \in 1 .. Len(program) : i < j => Position(program[i]) < Position(program[j])

\* No set of requests waits for one another in a circle (the comment at
\* confirm's account locks).
NoWaitCycle == \A S \in SUBSET Blocked : ~Circle(S)

\* Whatever mix of requests is in flight, a circle goes through a request that
\* locks against the order: by the transactions above, through an INSERT of a
\* transfer from a higher account id to a lower one and nothing else.
CirclesNeedAnInsert ==
    \A S \in SUBSET Blocked :
        Circle(S) =>
            \E r \in S : \E a, b \in Accounts : b < a /\ Program[r] = InsertTransfer(a, b)

\* Every request ends, in the worst case by the deadlock detector.
EveryRequestEnds == \A r \in Requests : <>(outcome[r] # "running")
=============================================================================
