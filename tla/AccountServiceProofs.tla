------------------------- MODULE AccountServiceProofs -------------------------
(***************************************************************************)
(* Theorems about AccountService, for any accounts, staff, adjustments and *)
(* number of requests in flight.                                           *)
(***************************************************************************)
EXTENDS AccountService, TLAPS

-----------------------------------------------------------------------------
\* Money

\* A column stores whole cents.
LEMMA ColumnsHoldCents ==
  ASSUME NEW x \in Int
  PROVE  /\ Rounded(x) \in Int /\ WholeCents(Rounded(x))
         /\ InCents(x) \in Int /\ WholeCents(InCents(x))
BY DEF Rounded, InCents, WholeCents

\* Rounding the sum is rounding what is added, and nothing on whole cents.
LEMMA RoundedSum ==
  ASSUME NEW b \in Int, NEW x \in Int, WholeCents(b)
  PROVE  /\ Rounded(b + x) = b + Rounded(x)
         /\ WholeCents(x) => Rounded(b + x) = b + x
BY DEF Rounded, WholeCents

\* Rounding takes no amount across a threshold in whole cents.
LEMMA RoundedWithin ==
  ASSUME NEW t \in Nat, NEW x \in Int, WholeCents(t)
  PROVE  /\ -t <= x /\ x <= t => -t <= Rounded(x) /\ Rounded(x) <= t
         /\ x < -t => InCents(x) <= -t
         /\ t < x => t <= InCents(x)
BY DEF Rounded, InCents, WholeCents

LEMMA NothingIsStorable == 0 \in Storable
BY AccountAssumption DEF Storable, WholeCents

LEMMA StorableIsMoney ==
  ASSUME NEW x \in Storable
  PROVE  x \in Nat /\ WholeCents(x) /\ x <= MaxBalance
BY AccountAssumption DEF Storable

\* What staff add or take, and what a parked request says.
LEMMA AdjustmentsAreMoney ==
  /\ Small \subseteq Int
  /\ \A delta \in Parkable : delta \in Int /\ WholeCents(delta)
<1>1. Small \subseteq Int /\ Large \subseteq Int
  BY AccountAssumption DEF Small, Large
<1> QED
  BY <1>1, ColumnsHoldCents DEF Parkable

-----------------------------------------------------------------------------
\* Requests and locks

\* The rows others have locked are as they were.
Untouched(w) ==
    /\ \A a \in Accounts : accountLock[a] \in Workers \ {w} => balance'[a] = balance[a]
    /\ \A r \in Requests : requestLock[r] \in Workers \ {w} => request'[r] = request[r]

\* A worker that did not move keeps its invariant when its locks, and the rows
\* under them, stay.
LEMMA BystanderStep ==
  ASSUME IInv, NEW v \in Workers,
         pc'[v] = pc[v], job'[v] = job[v], seen'[v] = seen[v],
         \A a \in Accounts : accountLock'[a] = v <=> accountLock[a] = v,
         \A r \in Requests : requestLock'[r] = v <=> requestLock[r] = v,
         \A a \in Accounts : accountLock[a] = v => balance'[a] = balance[a],
         \A r \in Requests : requestLock[r] = v => request'[r] = request[r]
  PROVE  WorkerInv(v)'
<1>1. WorkerInv(v)
  BY DEF IInv
<1>2. ASSUME pc[v] \in AccountHeld PROVE balance'[job[v].account] = balance[job[v].account]
  BY <1>1, <1>2 DEF WorkerInv, AccountHeld, Job
<1>3. ASSUME pc[v] \in RequestHeld PROVE request'[job[v].request] = request[job[v].request]
  BY <1>1, <1>3 DEF WorkerInv, RequestHeld
<1> QED
  BY <1>1, <1>2, <1>3 DEF WorkerInv

\* A request that ends without touching rows others have locked.
LEMMA FinishStep ==
  ASSUME IInv, NEW w \in Workers, Finish(w), Untouched(w)
  PROVE  \A v \in Workers : WorkerInv(v)'
<1> TAKE v \in Workers
<1>1. CASE v = w
  <2>1. pc'[v] = "idle"
    BY <1>1 DEF Finish, IInv, TypeOK
  <2>2. /\ \A a \in Accounts : accountLock'[a] # v
        /\ \A r \in Requests : requestLock'[r] # v
    BY <1>1, AccountAssumption DEF Finish
  <2> QED
    BY <2>1, <2>2 DEF WorkerInv, AccountHeld, RequestHeld
<1>2. CASE v # w
  <2>1. pc'[v] = pc[v] /\ job'[v] = job[v] /\ seen'[v] = seen[v]
    BY <1>2 DEF Finish, IInv, TypeOK
  <2>2. /\ \A a \in Accounts : accountLock'[a] = v <=> accountLock[a] = v
        /\ \A r \in Requests : requestLock'[r] = v <=> requestLock[r] = v
    BY <1>2, AccountAssumption DEF Finish
  <2>3. /\ \A a \in Accounts : accountLock[a] = v => balance'[a] = balance[a]
        /\ \A r \in Requests : requestLock[r] = v => request'[r] = request[r]
    BY <1>2 DEF Untouched
  <2> QED
    BY <2>1, <2>2, <2>3, BystanderStep
<1> QED
  BY <1>1, <1>2

\* The end of a request keeps the types of locks and requests.
LEMMA FinishTypes ==
  ASSUME TypeOK, NEW w \in Workers, Finish(w)
  PROVE  /\ accountLock' \in [Accounts -> Workers \union {NoWorker}]
         /\ requestLock' \in [Requests -> Workers \union {NoWorker}]
         /\ pc' \in [Workers -> Labels]
         /\ job' \in [Workers -> Job \union {NoJob}]
         /\ seen' \in [Workers -> Storable]
BY AccountAssumption, NothingIsStorable DEF TypeOK, Finish, Labels

\* Approved requests stay as they are when no request changes.
LEMMA TwoPeopleStay ==
  ASSUME TwoPeople, UNCHANGED request
  PROVE  TwoPeople'
BY DEF TwoPeople, Book!TwoPeople, Book!Approved, Book!Parked

-----------------------------------------------------------------------------
\* The inductive invariant

LEMMA InitStep == Init => IInv
<1> SUFFICES ASSUME Init PROVE IInv
  OBVIOUS
<1> USE AccountAssumption
<1>1. TypeOK
  BY NothingIsStorable DEF Init, TypeOK, Labels
<1>2. TwoPeople
  BY DEF Init, TwoPeople, Book!TwoPeople, Book!Approved, Book!Parked
<1>3. ASSUME NEW w \in Workers PROVE WorkerInv(w)
  BY DEF Init, WorkerInv, AccountHeld, RequestHeld
<1> QED
  BY <1>1, <1>2, <1>3 DEF IInv

\* A statement of somebody else, on rows nobody has locked.
LEMMA OutsideStep ==
  ASSUME IInv, UNCHANGED <<lockVars, workerVars>>,
         \A a \in Accounts : accountLock[a] \in Workers => balance'[a] = balance[a],
         \A r \in Requests : requestLock[r] \in Workers => request'[r] = request[r]
  PROVE  \A v \in Workers : WorkerInv(v)'
<1> TAKE v \in Workers
<1>1. /\ pc'[v] = pc[v] /\ job'[v] = job[v] /\ seen'[v] = seen[v]
      /\ \A a \in Accounts : accountLock'[a] = v <=> accountLock[a] = v
      /\ \A r \in Requests : requestLock'[r] = v <=> requestLock[r] = v
  BY DEF lockVars, workerVars
<1> QED
  BY <1>1, BystanderStep

LEMMA StatusStep ==
  ASSUME IInv, NEW a \in Accounts, NEW status \in AccountStatuses,
         accountStatus' = [accountStatus EXCEPT ![a] = status],
         UNCHANGED <<balance, request, lockVars, workerVars>>
  PROVE  IInv'
<1>1. TypeOK'
  BY DEF IInv, TypeOK, lockVars, workerVars
<1>2. TwoPeople'
  BY TwoPeopleStay DEF IInv
<1> QED
  BY <1>1, <1>2, OutsideStep DEF IInv

LEMMA MoveStep ==
  ASSUME IInv, NEW a \in Accounts, NEW delta \in Moves, Move(a, delta)
  PROVE  IInv'
<1>1. /\ balance' = [balance EXCEPT ![a] = balance[a] + delta]
      /\ balance[a] + delta \in Storable /\ accountLock[a] = NoWorker
      /\ UNCHANGED <<accountStatus, request, lockVars, workerVars>>
  BY DEF Move, AccountFree
<1>2. TypeOK'
  BY <1>1 DEF IInv, TypeOK, lockVars, workerVars
<1>3. TwoPeople'
  BY <1>1, TwoPeopleStay DEF IInv
<1>4. \A b \in Accounts : accountLock[b] \in Workers => balance'[b] = balance[b]
  BY <1>1, AccountAssumption DEF IInv, TypeOK
<1> QED
  BY <1>1, <1>2, <1>3, <1>4, OutsideStep DEF IInv

LEMMA ParkStep ==
  ASSUME IInv, NEW r \in Requests, NEW a \in Accounts, NEW by \in Staff, NEW delta \in Large,
         Park(r, a, by, delta)
  PROVE  IInv'
<1> DEFINE row == [account |-> a, delta |-> InCents(delta), requestedBy |-> by, approvedBy |-> Nobody]
<1>1. /\ request' = [request EXCEPT ![r] = row] /\ request[r] = NotParked
      /\ UNCHANGED <<bankVars, lockVars, workerVars>>
  BY DEF Park
<1>2. row \in AdjustmentRequest /\ row.approvedBy = Nobody
  BY DEF AdjustmentRequest, Parkable
<1> HIDE DEF row
<1>3. TypeOK'
  BY <1>1, <1>2 DEF IInv, TypeOK, bankVars, lockVars, workerVars
<1>4. \A q \in Requests : q # r => request'[q] = request[q]
  BY <1>1 DEF IInv, TypeOK
<1>5. request'[r].approvedBy = Nobody
  BY <1>1, <1>2 DEF IInv, TypeOK
<1>6. TwoPeople'
  BY <1>4, <1>5 DEF IInv, TwoPeople, Book!TwoPeople, Book!Approved, Book!Parked
<1>7. requestLock[r] \notin Workers
  BY <1>1 DEF IInv, WorkerInv
<1> QED
  BY <1>1, <1>3, <1>4, <1>6, <1>7, OutsideStep DEF IInv, bankVars

\* A request begins: its worker had no lock, and the bank stays as it is.
LEMMA BeginStep ==
  ASSUME IInv, NEW w \in Workers, NEW label \in Labels, NEW asked \in Job, Begin(w, label, asked),
         UNCHANGED <<bankVars, request>>,
         accountLock' \in [Accounts -> Workers \union {NoWorker}],
         requestLock' \in [Requests -> Workers \union {NoWorker}],
         seen' \in [Workers -> Storable],
         \A v \in Workers \ {w} :
            /\ seen'[v] = seen[v]
            /\ \A a \in Accounts : accountLock'[a] = v <=> accountLock[a] = v
            /\ \A r \in Requests : requestLock'[r] = v <=> requestLock[r] = v,
         WorkerInv(w)'
  PROVE  IInv'
<1>1. pc' = [pc EXCEPT ![w] = label] /\ job' = [job EXCEPT ![w] = asked]
  BY DEF Begin
<1>2. TypeOK'
  BY <1>1 DEF IInv, TypeOK, bankVars
<1>3. TwoPeople'
  BY TwoPeopleStay DEF IInv
<1>4. ASSUME NEW v \in Workers, v # w PROVE WorkerInv(v)'
  <2>1. pc'[v] = pc[v] /\ job'[v] = job[v]
    BY <1>1, <1>4 DEF IInv, TypeOK
  <2> QED
    BY <1>4, <2>1, BystanderStep DEF bankVars
<1> QED
  BY <1>2, <1>3, <1>4 DEF IInv

\* An idle worker has no lock.
LEMMA IdleHoldsNothing ==
  ASSUME IInv, NEW w \in Workers, pc[w] = "idle"
  PROVE  /\ \A a \in Accounts : accountLock[a] # w
         /\ \A r \in Requests : requestLock[r] # w
BY DEF IInv, WorkerInv, AccountHeld, RequestHeld

LEMMA CloseReadStep ==
  ASSUME IInv, NEW w \in Workers, NEW a \in Accounts, CloseRead(w, a)
  PROVE  IInv'
<1> DEFINE asked == [account |-> a, delta |-> 0, by |-> Nobody, request |-> NotParked]
<1>1. /\ Begin(w, "closeWrite", asked) /\ UNCHANGED <<bankVars, request, lockVars, seen>>
      /\ pc[w] = "idle"
  BY DEF CloseRead, Begin
<1>2. asked \in Job
  BY DEF Job
<1> HIDE DEF asked
<1>3. pc'[w] = "closeWrite" /\ job'[w] = asked
  BY <1>1 DEF Begin, IInv, TypeOK
<1>4. WorkerInv(w)'
  BY <1>1, <1>2, <1>3, IdleHoldsNothing DEF WorkerInv, AccountHeld, RequestHeld, lockVars
<1>5. /\ accountLock' \in [Accounts -> Workers \union {NoWorker}]
      /\ requestLock' \in [Requests -> Workers \union {NoWorker}]
      /\ seen' \in [Workers -> Storable]
      /\ "closeWrite" \in Labels
  BY <1>1 DEF IInv, TypeOK, lockVars, Labels
<1>6. \A v \in Workers \ {w} :
         /\ seen'[v] = seen[v]
         /\ \A b \in Accounts : accountLock'[b] = v <=> accountLock[b] = v
         /\ \A r \in Requests : requestLock'[r] = v <=> requestLock[r] = v
  BY <1>1 DEF lockVars
<1> QED
  BY <1>1, <1>2, <1>4, <1>5, <1>6, BeginStep

LEMMA AdjustStep ==
  ASSUME IInv, NEW w \in Workers, NEW a \in Accounts, NEW delta \in Small, Adjust(w, a, delta)
  PROVE  IInv'
<1> DEFINE asked == [account |-> a, delta |-> delta, by |-> Nobody, request |-> NotParked]
<1>1. /\ Begin(w, "adjustDecide", asked)
      /\ accountLock[a] = NoWorker /\ accountLock' = [accountLock EXCEPT ![a] = w]
      /\ seen' = [seen EXCEPT ![w] = balance[a]]
      /\ UNCHANGED <<bankVars, request, requestLock>>
      /\ pc[w] = "idle"
  BY DEF Adjust, Begin, LockAccount, AccountFree
<1>2. asked \in Job /\ asked.account = a /\ asked.delta \in Small
  BY DEF Job, Small
<1> HIDE DEF asked
<1>3. pc'[w] = "adjustDecide" /\ job'[w] = asked /\ seen'[w] = balance'[a]
  BY <1>1 DEF Begin, IInv, TypeOK, bankVars
<1>4. \A b \in Accounts : accountLock'[b] = w <=> b = a
  BY <1>1, IdleHoldsNothing DEF IInv, TypeOK
<1>5. WorkerInv(w)'
  BY <1>1, <1>2, <1>3, <1>4, IdleHoldsNothing DEF WorkerInv, AccountHeld, RequestHeld
<1>6. /\ accountLock' \in [Accounts -> Workers \union {NoWorker}]
      /\ requestLock' \in [Requests -> Workers \union {NoWorker}]
      /\ seen' \in [Workers -> Storable]
      /\ "adjustDecide" \in Labels
  BY <1>1 DEF IInv, TypeOK, Labels
<1>7. \A v \in Workers \ {w} :
         /\ seen'[v] = seen[v]
         /\ \A b \in Accounts : accountLock'[b] = v <=> accountLock[b] = v
         /\ \A r \in Requests : requestLock'[r] = v <=> requestLock[r] = v
  BY <1>1, AccountAssumption DEF IInv, TypeOK
<1> QED
  BY <1>1, <1>2, <1>5, <1>6, <1>7, BeginStep

LEMMA ApproveReadStep ==
  ASSUME IInv, NEW w \in Workers, NEW r \in Requests, NEW by \in Staff, ApproveRead(w, r, by)
  PROVE  IInv'
<1> DEFINE asked == [account |-> request[r].account, delta |-> request[r].delta,
                     by |-> by, request |-> r]
<1>1. /\ Begin(w, "approveLock", asked)
      /\ requestLock[r] = NoWorker /\ requestLock' = [requestLock EXCEPT ![r] = w]
      /\ request[r] # NotParked /\ request[r].approvedBy = Nobody
      /\ DualControl(by, request[r].requestedBy)
      /\ UNCHANGED <<bankVars, request, accountLock, seen>>
      /\ pc[w] = "idle"
  BY DEF ApproveRead, Begin, RequestFree
<1>2. request[r] \in AdjustmentRequest
  BY <1>1 DEF IInv, TypeOK
<1>3. /\ asked \in Job /\ asked.account = request[r].account /\ asked.delta = request[r].delta
      /\ asked.by = by /\ asked.request = r
  BY <1>2 DEF Job, AdjustmentRequest
<1> HIDE DEF asked
<1>4. pc'[w] = "approveLock" /\ job'[w] = asked
  BY <1>1 DEF Begin, IInv, TypeOK
<1>5. \A q \in Requests : requestLock'[q] = w <=> q = r
  BY <1>1, IdleHoldsNothing DEF IInv, TypeOK
<1>6. WorkerInv(w)'
  BY <1>1, <1>3, <1>4, <1>5, IdleHoldsNothing DEF WorkerInv, AccountHeld, RequestHeld, DualControl
<1>7. /\ accountLock' \in [Accounts -> Workers \union {NoWorker}]
      /\ requestLock' \in [Requests -> Workers \union {NoWorker}]
      /\ seen' \in [Workers -> Storable]
      /\ "approveLock" \in Labels
  BY <1>1 DEF IInv, TypeOK, Labels
<1>8. \A v \in Workers \ {w} :
         /\ seen'[v] = seen[v]
         /\ \A b \in Accounts : accountLock'[b] = v <=> accountLock[b] = v
         /\ \A q \in Requests : requestLock'[q] = v <=> requestLock[q] = v
  BY <1>1, AccountAssumption DEF IInv, TypeOK
<1> QED
  BY <1>1, <1>3, <1>6, <1>7, <1>8, BeginStep

\* The second lock of an approval.
LEMMA ApproveLockStep ==
  ASSUME IInv, NEW w \in Workers, ApproveLock(w)
  PROVE  IInv'
<1> DEFINE a == job[w].account
<1>1. /\ pc[w] = "approveLock" /\ pc' = [pc EXCEPT ![w] = "approveDecide"]
      /\ accountLock[a] = NoWorker /\ accountLock' = [accountLock EXCEPT ![a] = w]
      /\ seen' = [seen EXCEPT ![w] = balance[a]]
      /\ UNCHANGED <<bankVars, request, requestLock, job>>
  BY DEF ApproveLock, LockAccount, AccountFree
<1>2. WorkerInv(w) /\ job[w] \in Job /\ a \in Accounts
  BY <1>1 DEF IInv, WorkerInv, Job
<1>3. TypeOK'
  BY <1>1, <1>2 DEF IInv, TypeOK, Labels, bankVars
<1>4. TwoPeople'
  BY <1>1, TwoPeopleStay DEF IInv
<1>5. WorkerInv(w)'
  <2>1. pc'[w] = "approveDecide" /\ job'[w] = job[w] /\ seen'[w] = balance'[a]
    BY <1>1 DEF IInv, TypeOK, bankVars
  <2>2. \A b \in Accounts : accountLock[b] # w
    BY <1>1, <1>2 DEF WorkerInv, AccountHeld
  <2>3. \A b \in Accounts : accountLock'[b] = w <=> b = a
    BY <1>1, <1>2, <2>2 DEF IInv, TypeOK
  <2> QED
    BY <1>1, <1>2, <2>1, <2>3 DEF WorkerInv, AccountHeld, RequestHeld
<1>6. ASSUME NEW v \in Workers, v # w PROVE WorkerInv(v)'
  <2>1. /\ pc'[v] = pc[v] /\ job'[v] = job[v] /\ seen'[v] = seen[v]
        /\ \A b \in Accounts : accountLock'[b] = v <=> accountLock[b] = v
        /\ \A q \in Requests : requestLock'[q] = v <=> requestLock[q] = v
    BY <1>1, <1>2, <1>6, AccountAssumption DEF IInv, TypeOK
  <2> QED
    BY <1>1, <2>1, BystanderStep DEF bankVars
<1> QED
  BY <1>3, <1>4, <1>5, <1>6 DEF IInv

LEMMA CloseWriteStep ==
  ASSUME IInv, NEW w \in Workers, CloseWrite(w)
  PROVE  IInv'
<1>1. /\ accountStatus' = [accountStatus EXCEPT ![job[w].account] = "closed"]
      /\ Finish(w) /\ UNCHANGED <<balance, request>>
  BY DEF CloseWrite
<1>2. TypeOK'
  BY <1>1, FinishTypes DEF IInv, TypeOK, AccountStatuses
<1>3. TwoPeople'
  BY <1>1, TwoPeopleStay DEF IInv
<1> QED
  BY <1>1, <1>2, <1>3, FinishStep DEF IInv, Untouched

\* What a deciding worker knows: its account is locked and as it read it.
LEMMA Deciding ==
  ASSUME IInv, NEW w \in Workers, pc[w] \in AccountHeld
  PROVE  /\ job[w] \in Job /\ job[w].account \in Accounts
         /\ accountLock[job[w].account] = w
         /\ seen[w] = balance[job[w].account]
         /\ seen[w] \in Nat /\ WholeCents(seen[w])
         /\ job[w].delta \in Int
         /\ pc[w] = "approveDecide" => WholeCents(job[w].delta)
<1>1. job[w] \in Job
  BY DEF IInv, WorkerInv, AccountHeld
<1>2. job[w].account \in Accounts /\ job[w].delta \in Small \union Parkable \union {0}
  BY <1>1 DEF Job
<1>3. job[w].delta \in Int
  <2>1. \A delta \in Small \union Parkable \union {0} : delta \in Int
    BY AdjustmentsAreMoney
  <2> QED
    BY <1>2, <2>1
<1>4. seen[w] \in Nat /\ WholeCents(seen[w])
  BY StorableIsMoney DEF IInv, TypeOK
<1>5. ASSUME pc[w] = "approveDecide" PROVE WholeCents(job[w].delta)
  <2>1. request[job[w].request] \in AdjustmentRequest /\ request[job[w].request].delta = job[w].delta
    BY <1>5 DEF IInv, TypeOK, WorkerInv, RequestHeld
  <2> QED
    BY <2>1, AdjustmentsAreMoney DEF AdjustmentRequest
<1> QED
  BY <1>1, <1>2, <1>3, <1>4, <1>5 DEF IInv, WorkerInv

LEMMA AdjustCommitStep ==
  ASSUME IInv, NEW w \in Workers, AdjustCommit(w)
  PROVE  IInv'
<1>1. /\ pc[w] \in AccountHeld /\ Adjusted(w) \in Storable
      /\ balance' = [balance EXCEPT ![job[w].account] = Adjusted(w)]
      /\ Finish(w) /\ UNCHANGED <<accountStatus, request>>
  BY DEF AdjustCommit, AccountHeld
<1>2. job[w].account \in Accounts /\ accountLock[job[w].account] = w
  BY <1>1, Deciding
<1>3. TypeOK'
  BY <1>1, <1>2, FinishTypes DEF IInv, TypeOK
<1>4. TwoPeople'
  BY <1>1, TwoPeopleStay DEF IInv
<1>5. Untouched(w)
  BY <1>1, <1>2 DEF Untouched, IInv, TypeOK
<1> QED
  BY <1>1, <1>3, <1>4, <1>5, FinishStep DEF IInv

\* What an approver knows of the request.
LEMMA Approving ==
  ASSUME IInv, NEW w \in Workers, pc[w] = "approveDecide"
  PROVE  LET r == job[w].request IN
         /\ r \in Requests /\ requestLock[r] = w
         /\ request[r] \in AdjustmentRequest /\ request[r].approvedBy = Nobody
         /\ request[r].account = job[w].account /\ request[r].delta = job[w].delta
         /\ DualControl(job[w].by, request[r].requestedBy)
BY DEF IInv, WorkerInv, RequestHeld, TypeOK

LEMMA ApproveCommitStep ==
  ASSUME IInv, NEW w \in Workers, job[w].by \in Staff, ApproveCommit(w)
  PROVE  IInv'
<1> DEFINE r == job[w].request
           row == [request[r] EXCEPT !.approvedBy = job[w].by]
<1>1. /\ pc[w] = "approveDecide" /\ pc[w] \in AccountHeld /\ Adjusted(w) \in Storable
      /\ balance' = [balance EXCEPT ![job[w].account] = Adjusted(w)]
      /\ request' = [request EXCEPT ![r] = row]
      /\ Finish(w) /\ UNCHANGED accountStatus
  BY DEF ApproveCommit, AccountHeld
<1>2. job[w].account \in Accounts /\ accountLock[job[w].account] = w
  BY <1>1, Deciding
<1>3. /\ r \in Requests /\ requestLock[r] = w /\ request[r] \in AdjustmentRequest
      /\ DualControl(job[w].by, request[r].requestedBy)
  BY <1>1, Approving
<1>4. /\ row \in AdjustmentRequest /\ row.approvedBy = job[w].by
      /\ row.requestedBy = request[r].requestedBy
  BY <1>3 DEF AdjustmentRequest
<1> HIDE DEF r, row
<1>5. /\ request'[r] = row
      /\ \A q \in Requests : q # r => request'[q] = request[q]
  BY <1>1, <1>3 DEF IInv, TypeOK
<1>6. TypeOK'
  BY <1>1, <1>2, <1>3, <1>4, FinishTypes DEF IInv, TypeOK
<1>7. TwoPeople'
  BY <1>3, <1>4, <1>5 DEF IInv, DualControl, TwoPeople, Book!TwoPeople, Book!Approved, Book!Parked
<1>8. Untouched(w)
  BY <1>1, <1>2, <1>3, <1>5 DEF Untouched, IInv, TypeOK
<1> QED
  BY <1>1, <1>6, <1>7, <1>8, FinishStep DEF IInv

LEMMA AbortStep ==
  ASSUME IInv, NEW w \in Workers, Abort(w)
  PROVE  IInv'
<1>1. Finish(w) /\ UNCHANGED <<bankVars, request>>
  BY DEF Abort
<1>2. TypeOK'
  BY <1>1, FinishTypes DEF IInv, TypeOK, bankVars
<1>3. TwoPeople'
  BY <1>1, TwoPeopleStay DEF IInv
<1> QED
  BY <1>1, <1>2, <1>3, FinishStep DEF IInv, Untouched, bankVars

LEMMA StatementStep ==
  ASSUME IInv, Statement
  PROVE  IInv'
<1>1. ASSUME NEW a \in Accounts, NEW status \in {"pending", "active"}, OpenAccount(a, status)
      PROVE  IInv'
  BY <1>1, StatusStep DEF OpenAccount, AccountStatuses
<1>2. ASSUME NEW a \in Accounts, ApproveAccount(a) \/ FreezeAccount(a) \/ UnfreezeAccount(a)
      PROVE  IInv'
  BY <1>2, StatusStep DEF ApproveAccount, FreezeAccount, UnfreezeAccount, SetStatus, AccountStatuses
<1> QED
  BY <1>1, <1>2, MoveStep, ParkStep DEF Statement

LEMMA NextStep == IInv /\ [Next]_vars => IInv'
<1> SUFFICES ASSUME IInv, [Next]_vars PROVE IInv'
  OBVIOUS
<1>1. ASSUME UNCHANGED vars PROVE IInv'
  <2>1. /\ UNCHANGED <<bankVars, request, lockVars, workerVars>>
    BY <1>1 DEF vars
  <2>2. TypeOK'
    BY <2>1 DEF IInv, TypeOK, bankVars, lockVars, workerVars
  <2>3. TwoPeople'
    BY <2>1, TwoPeopleStay DEF IInv
  <2> QED
    BY <2>1, <2>2, <2>3, OutsideStep DEF IInv, bankVars
<1>2. ASSUME NEW w \in Workers, Continue(w) PROVE IInv'
  <2>1. ASSUME ApproveCommit(w) PROVE job[w].by \in Staff
    BY <2>1 DEF ApproveCommit, IInv, WorkerInv, RequestHeld
  <2> QED
    BY <1>2, <2>1, CloseWriteStep, AdjustCommitStep, ApproveLockStep, ApproveCommitStep, AbortStep
       DEF Continue
<1>3. ASSUME NEW w \in Workers, Start(w) PROVE IInv'
  BY <1>3, CloseReadStep, AdjustStep, ApproveReadStep DEF Start
<1> QED
  BY <1>1, <1>2, <1>3, StatementStep DEF Next

\* In every reachable state, of any interleaving of requests: what a request
\* decides on is locked by it and still as it read it.
THEOREM Inductive == Spec => []IInv
BY InitStep, NextStep, PTL DEF Spec

\* Behind every approved adjustment are two people of different roles.
THEOREM DualControlled == Spec => []TwoPeople
<1>1. IInv => TwoPeople
  BY DEF IInv
<1> QED
  BY <1>1, Inductive, PTL

-----------------------------------------------------------------------------
\* Refinement

LEMMA BookStep ==
  ASSUME IInv, [Next]_vars
  PROVE  [Book!Next]_(Book!accountBookVars)
<1> USE DEF Book!accountBookVars
<1>1. ASSUME NEW a \in Accounts, NEW delta \in Moves, Move(a, delta)
      PROVE  Book!ChangeAlone(a, delta)
  BY <1>1, StorableIsMoney DEF Move, Book!ChangeAlone, Book!Change
<1>2. ASSUME NEW r \in Requests, NEW a \in Accounts, NEW by \in Staff, NEW delta \in Large,
             Park(r, a, by, delta)
      PROVE  Book!Park(r, a, by, InCents(delta))
  BY <1>2 DEF Park, bankVars, Book!Park, Book!Parked
<1>3. ASSUME NEW w \in Workers, AdjustCommit(w)
      PROVE  /\ Book!ChangeAlone(job[w].account, Rounded(job[w].delta))
             /\ job[w].account \in Accounts /\ job[w].delta \in Small
  <2>1. pc[w] \in AccountHeld /\ pc[w] = "adjustDecide"
    BY <1>3 DEF AdjustCommit, AccountHeld
  <2>2. job[w].account \in Accounts /\ seen[w] = balance[job[w].account]
    BY <2>1, Deciding
  <2>3. job[w].delta \in Small
    BY <2>1 DEF IInv, WorkerInv
  <2>4. Adjusted(w) = balance[job[w].account] + Rounded(job[w].delta)
    BY <2>1, <2>2, Deciding, RoundedSum DEF Adjusted, NewBalance
  <2>5. Adjusted(w) \in Nat
    BY <1>3, StorableIsMoney DEF AdjustCommit
  <2> QED
    BY <1>3, <2>2, <2>3, <2>4, <2>5 DEF AdjustCommit, Book!ChangeAlone, Book!Change
<1>4. ASSUME NEW w \in Workers, ApproveCommit(w)
      PROVE  Book!Approve(job[w].request, job[w].by) /\ job[w].request \in Requests /\ job[w].by \in Staff
  <2>1. pc[w] \in AccountHeld /\ pc[w] = "approveDecide"
    BY <1>4 DEF ApproveCommit, AccountHeld
  <2>2. job[w].account \in Accounts /\ seen[w] = balance[job[w].account]
    BY <2>1, Deciding
  <2>3. /\ job[w].request \in Requests /\ request[job[w].request] # NotParked
        /\ request[job[w].request].approvedBy = Nobody
        /\ request[job[w].request].account = job[w].account
        /\ request[job[w].request].delta = job[w].delta
        /\ DualControl(job[w].by, request[job[w].request].requestedBy)
        /\ job[w].by \in Staff
    BY <2>1 DEF IInv, WorkerInv, RequestHeld
  <2>4. Adjusted(w) = balance[job[w].account] + job[w].delta
    BY <2>1, <2>2, Deciding, RoundedSum DEF Adjusted, NewBalance
  <2>5. Adjusted(w) \in Nat
    BY <1>4, StorableIsMoney DEF ApproveCommit
  <2>6. Book!Change(request[job[w].request].account, request[job[w].request].delta)
    BY <1>4, <2>2, <2>3, <2>4, <2>5 DEF ApproveCommit, Book!Change
  <2> QED
    BY <1>4, <2>3, <2>6 DEF ApproveCommit, DualControl, Book!Approve, Book!Pending, Book!Parked, Book!MayApprove
<1>5. ASSUME NEW w \in Workers, Start(w) PROVE UNCHANGED <<balance, request>>
  BY <1>5 DEF Start, CloseRead, Adjust, LockAccount, ApproveRead, bankVars
<1>6. ASSUME NEW w \in Workers, CloseWrite(w) \/ ApproveLock(w) \/ Abort(w)
      PROVE  UNCHANGED <<balance, request>>
  BY <1>6 DEF CloseWrite, ApproveLock, LockAccount, Abort, bankVars
<1>7. ASSUME NEW a \in Accounts,
             \/ \E status \in {"pending", "active"} : OpenAccount(a, status)
             \/ ApproveAccount(a) \/ FreezeAccount(a) \/ UnfreezeAccount(a)
      PROVE  UNCHANGED <<balance, request>>
  BY <1>7 DEF OpenAccount, ApproveAccount, FreezeAccount, UnfreezeAccount, SetStatus
<1>8. ASSUME UNCHANGED vars PROVE UNCHANGED <<balance, request>>
  BY <1>8 DEF vars, bankVars
<1>9. /\ \A delta \in Small : Rounded(delta) \in Book!Small
      /\ \A delta \in Large : InCents(delta) \in Book!Large
  <2>1. Small \subseteq Int /\ Large \subseteq Int /\ Threshold \in Nat /\ WholeCents(Threshold)
    BY AccountAssumption DEF Small, Large
  <2>2. ASSUME NEW delta \in Small PROVE Rounded(delta) \in Book!Small
    <3>1. -Threshold <= Rounded(delta) /\ Rounded(delta) <= Threshold
      BY <2>1, <2>2, RoundedWithin DEF Small
    <3> QED
      BY <3>1 DEF Book!Small
  <2>3. ASSUME NEW delta \in Large PROVE InCents(delta) \in Book!Large
    <3>1. InCents(delta) <= -Threshold \/ Threshold <= InCents(delta)
      BY <2>1, <2>3, RoundedWithin DEF Large
    <3> QED
      BY <3>1 DEF Book!Large, Parkable
  <2> QED
    BY <2>2, <2>3
<1>10. ASSUME Statement PROVE Book!Next \/ UNCHANGED <<balance, request>>
  BY <1>10, <1>1, <1>2, <1>7, <1>9 DEF Statement, Book!Next
<1>11. ASSUME NEW w \in Workers, Continue(w) PROVE Book!Next \/ UNCHANGED <<balance, request>>
  BY <1>11, <1>3, <1>4, <1>6, <1>9 DEF Continue, Book!Next
<1> QED
  BY <1>5, <1>8, <1>10, <1>11 DEF Next

\* The statement-level account service implements the book: to the nearest cent,
\* no adjustment is lost or made twice, none that is large by one person.
THEOREM Refinement == Spec => ImplementsAccountBook
<1>1. Init => Book!Init
  BY DEF Init, Book!Init
<1>2. IInv /\ [Next]_vars => [Book!Next]_(Book!accountBookVars)
  BY BookStep
<1> QED
  BY <1>1, <1>2, Inductive, PTL DEF Spec, ImplementsAccountBook, Book!Spec

\* Request r is parked, which moves nothing.
ParkedNow(r) == ~Book!Parked(r) /\ Book!Pending(r)' /\ UNCHANGED balance

\* Request r is approved, its whole delta reaches its account, and nothing else
\* moves.
ApprovedNow(r) ==
    /\ Book!Pending(r)
    /\ \E by \in Staff : request' = [request EXCEPT ![r] = [@ EXCEPT !.approvedBy = by]]
    /\ balance' = [balance EXCEPT ![request[r].account] = @ + request[r].delta]

\* A request changes when it is parked, and once more in the step that approves
\* and applies it; nothing happens to it after that (approve_adjustment).
THEOREM ApprovedOnce ==
  Spec => [][\A r \in Requests : request'[r] # request[r] => ParkedNow(r) \/ ApprovedNow(r)]_vars
<1>1. ASSUME IInv, [Next]_vars, NEW r \in Requests, request'[r] # request[r]
      PROVE  ParkedNow(r) \/ ApprovedNow(r)
  <2>1. CASE \E q \in Requests, a \in Accounts, by \in Staff, delta \in Book!Large :
                Book!Park(q, a, by, delta)
    <3>1. PICK q \in Requests, a \in Accounts, by \in Staff, delta \in Book!Large :
             Book!Park(q, a, by, delta)
      BY <2>1
    <3> DEFINE row == [account |-> a, delta |-> delta, requestedBy |-> by, approvedBy |-> Nobody]
    <3>2. q = r /\ request'[r] = row /\ ~Book!Parked(r) /\ UNCHANGED balance
      BY <1>1, <3>1 DEF Book!Park, IInv, TypeOK
    <3>3. row # NotParked
      BY <1>1, <3>2 DEF Book!Parked
    <3> QED
      BY <3>2, <3>3 DEF ParkedNow, Book!Pending, Book!Parked
  <2>2. CASE \E q \in Requests, by \in Staff : Book!Approve(q, by)
    <3>1. PICK q \in Requests, by \in Staff : Book!Approve(q, by)
      BY <2>2
    <3>2. q = r
      BY <1>1, <3>1 DEF Book!Approve, IInv, TypeOK
    <3> QED
      BY <3>1, <3>2 DEF ApprovedNow, Book!Approve, Book!Change
  <2>3. request' # request
    BY <1>1
  <2> QED
    BY <1>1, <2>1, <2>2, <2>3, BookStep
       DEF Book!Next, Book!ChangeAlone, Book!accountBookVars, Large, Book!Large
<1>2. IInv /\ [Next]_vars =>
         [\A r \in Requests : request'[r] # request[r] => ParkedNow(r) \/ ApprovedNow(r)]_vars
  BY <1>1
<1> QED
  BY <1>2, Inductive, PTL DEF Spec
=============================================================================
