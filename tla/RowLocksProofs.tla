---------------------------- MODULE RowLocksProofs ----------------------------
(***************************************************************************)
(* Why the lock order works: in a circle of waiting requests, whoever      *)
(* waits for the row of the highest position is waiting for a request that *)
(* asks for a lower row than one it has.                                   *)
(***************************************************************************)
EXTENDS RowLocks, WellFoundedInduction, TLAPS

\* The position of each kind of row.
LEMMA Positions ==
  ASSUME NEW id, NEW mode
  PROVE  /\ Position(Lock("accounts", id, mode)) = id + 2
         /\ Position(Lock("transfer_reviews", id, mode)) = 1
         /\ Position(Lock("transfers", id, mode)) = 0
         /\ Position(Lock("loans", id, mode)) = 0
         /\ Position(Lock("adjustment_requests", id, mode)) = 0
BY DEF Position, Lock

\* A sequence that ascends within the bound on positions.
Sound(p) ==
    /\ Len(p) \in Nat
    /\ \A i \in 1 .. Len(p) : Position(p[i]) \in 0 .. MaxAccount + 2

\* Programs of one to four locks, given the positions of their locks.
LEMMA OneLock ==
  ASSUME NEW k, Position(k) \in 0 .. MaxAccount + 2
  PROVE  Ascending(<<k>>) /\ Sound(<<k>>)
BY DEF Ascending, Sound

LEMMA TwoLocks ==
  ASSUME NEW k, NEW l,
         Position(k) \in 0 .. MaxAccount + 2, Position(l) \in 0 .. MaxAccount + 2
  PROVE  /\ Sound(<<k, l>>)
         /\ Position(k) < Position(l) => Ascending(<<k, l>>)
BY DEF Ascending, Sound

LEMMA ThreeLocks ==
  ASSUME NEW k, NEW l, NEW m,
         Position(k) \in 0 .. MaxAccount + 2, Position(l) \in 0 .. MaxAccount + 2,
         Position(m) \in 0 .. MaxAccount + 2,
         Position(k) < Position(l), Position(l) < Position(m)
  PROVE  Ascending(<<k, l, m>>) /\ Sound(<<k, l, m>>)
<1> DEFINE p == <<k, l, m>>
<1>1. Len(p) = 3 /\ p[1] = k /\ p[2] = l /\ p[3] = m
  OBVIOUS
<1> HIDE DEF p
<1>2. \A i \in 1 .. 3 : i = 1 \/ i = 2 \/ i = 3
  OBVIOUS
<1>3. Sound(p)
  BY <1>1, <1>2 DEF Sound
<1>4. Position(k) \in Int /\ Position(l) \in Int /\ Position(m) \in Int
  OBVIOUS
<1>5. Ascending(p)
  BY <1>1, <1>2, <1>4 DEF Ascending
<1> QED
  BY <1>3, <1>5 DEF p

LEMMA FourLocks ==
  ASSUME NEW k, NEW l, NEW m, NEW n,
         Position(k) \in 0 .. MaxAccount + 2, Position(l) \in 0 .. MaxAccount + 2,
         Position(m) \in 0 .. MaxAccount + 2, Position(n) \in 0 .. MaxAccount + 2,
         Position(k) < Position(l), Position(l) < Position(m), Position(m) < Position(n)
  PROVE  Ascending(<<k, l, m, n>>) /\ Sound(<<k, l, m, n>>)
<1> DEFINE p == <<k, l, m, n>>
<1>1. Len(p) = 4 /\ p[1] = k /\ p[2] = l /\ p[3] = m /\ p[4] = n
  OBVIOUS
<1> HIDE DEF p
<1>2. \A i \in 1 .. 4 : i = 1 \/ i = 2 \/ i = 3 \/ i = 4
  OBVIOUS
<1>3. Sound(p)
  BY <1>1, <1>2 DEF Sound
<1>4. Position(k) \in Int /\ Position(l) \in Int /\ Position(m) \in Int /\ Position(n) \in Int
  OBVIOUS
<1>5. Ascending(p)
  BY <1>1, <1>2, <1>4 DEF Ascending
<1> QED
  BY <1>3, <1>5 DEF p

\* Ordering two account ids.
LEMMA LowHigh ==
  ASSUME NEW e \in Ends
  PROVE  /\ e[1] \in Accounts /\ e[2] \in Accounts /\ e[1] # e[2]
         /\ e[1] \in Int /\ e[2] \in Int
         /\ Low(e[1], e[2]) \in 0 .. MaxAccount /\ High(e[1], e[2]) \in 0 .. MaxAccount
         /\ Low(e[1], e[2]) < High(e[1], e[2])
<1>1. e[1] \in Accounts /\ e[2] \in Accounts /\ e[1] # e[2]
  BY DEF Ends
<1>2. e[1] \in 0 .. MaxAccount /\ e[2] \in 0 .. MaxAccount /\ MaxAccount \in Nat
  BY <1>1, RowLocksAssumption
<1> QED
  BY <1>1, <1>2 DEF Low, High

\* Each transaction locks in ascending order, except an INSERT from a higher
\* account to a lower one.
LEMMA ProgramsOrdered ==
  ASSUME NEW p \in Transactions
  PROVE  /\ Sound(p)
         /\ \/ Ascending(p)
            \/ \E a, b \in Accounts : b < a /\ p = InsertTransfer(a, b)
<1> DEFINE Goal == /\ Sound(p)
                   /\ \/ Ascending(p)
                      \/ \E a, b \in Accounts : b < a /\ p = InsertTransfer(a, b)
<1>0. MaxAccount \in Nat /\ \A a \in Accounts : a \in 0 .. MaxAccount
  BY RowLocksAssumption
<1>b. /\ 0 \in 0 .. MaxAccount + 2 /\ 1 \in 0 .. MaxAccount + 2
      /\ \A a \in Accounts : a + 2 \in 0 .. MaxAccount + 2
  BY <1>0
<1>1. ASSUME NEW t \in Ids, NEW e \in Ends, p = Confirm(t, e[1], e[2])
      PROVE  Goal
  <2> DEFINE lo == Low(e[1], e[2])
             hi == High(e[1], e[2])
  <2>1. lo \in 0 .. MaxAccount /\ hi \in 0 .. MaxAccount /\ lo < hi
    BY LowHigh
  <2> HIDE DEF lo, hi
  <2> DEFINE k == Lock("transfers", t, "UPDATE")
             l == Lock("accounts", lo, "UPDATE")
             m == Lock("accounts", hi, "UPDATE")
  <2>2. Position(k) = 0 /\ Position(l) = lo + 2 /\ Position(m) = hi + 2
    BY Positions
  <2>3. p = <<k, l, m>>
    BY <1>1 DEF Confirm, lo, hi
  <2> HIDE DEF k, l, m
  <2>4. /\ Position(k) \in 0 .. MaxAccount + 2 /\ Position(l) \in 0 .. MaxAccount + 2
        /\ Position(m) \in 0 .. MaxAccount + 2
        /\ Position(k) < Position(l) /\ Position(l) < Position(m)
    BY <1>0, <2>1, <2>2
  <2> QED
    BY <2>3, <2>4, ThreeLocks
<1>2. ASSUME NEW t \in Ids, NEW e \in Ends, p = Release(t, e[1], e[2])
      PROVE  Goal
  <2> DEFINE lo == Low(e[1], e[2])
             hi == High(e[1], e[2])
  <2>1. lo \in 0 .. MaxAccount /\ hi \in 0 .. MaxAccount /\ lo < hi
    BY LowHigh
  <2> HIDE DEF lo, hi
  <2> DEFINE k == Lock("transfers", t, "UPDATE")
             l == Lock("transfer_reviews", t, "UPDATE")
             m == Lock("accounts", lo, "UPDATE")
             n == Lock("accounts", hi, "UPDATE")
  <2>2. /\ Position(k) = 0 /\ Position(l) = 1
        /\ Position(m) = lo + 2 /\ Position(n) = hi + 2
    BY Positions
  <2>3. p = <<k, l, m, n>>
    BY <1>2 DEF Release, lo, hi
  <2> HIDE DEF k, l, m, n
  <2>4. /\ Position(k) \in 0 .. MaxAccount + 2 /\ Position(l) \in 0 .. MaxAccount + 2
        /\ Position(m) \in 0 .. MaxAccount + 2 /\ Position(n) \in 0 .. MaxAccount + 2
        /\ Position(k) < Position(l) /\ Position(l) < Position(m) /\ Position(m) < Position(n)
    BY <1>0, <2>1, <2>2
  <2> QED
    BY <2>3, <2>4, FourLocks
<1>3. ASSUME NEW e \in Ends, p = InsertTransfer(e[1], e[2])
      PROVE  Goal
  <2> DEFINE k == Lock("accounts", e[1], "KEY SHARE")
             l == Lock("accounts", e[2], "KEY SHARE")
  <2>1. e[1] \in Accounts /\ e[2] \in Accounts /\ e[1] # e[2] /\ e[1] \in Int /\ e[2] \in Int
    BY LowHigh
  <2>2. p = <<k, l>> /\ Position(k) = e[1] + 2 /\ Position(l) = e[2] + 2
    BY <1>3, Positions DEF InsertTransfer
  <2> HIDE DEF k, l
  <2>3. Position(k) \in 0 .. MaxAccount + 2 /\ Position(l) \in 0 .. MaxAccount + 2
    BY <1>0, <2>1, <2>2
  <2>4. Sound(p) /\ (Position(k) < Position(l) => Ascending(p))
    BY <2>2, <2>3, TwoLocks
  <2>5. CASE e[1] < e[2]
    BY <2>1, <2>2, <2>4, <2>5
  <2>6. CASE e[2] < e[1]
    BY <1>3, <2>1, <2>4, <2>6
  <2> QED
    BY <2>1, <2>5, <2>6
<1>4. ASSUME NEW l \in Ids, NEW a \in Accounts,
             p \in {MoveLoanMoney(l, a), ApproveAdjustment(l, a)}
      PROVE  Goal
  <2> DEFINE k(table) == Lock(table, l, "UPDATE")
             m == Lock("accounts", a, "UPDATE")
  <2>1. PICK table \in {"loans", "adjustment_requests"} : p = <<k(table), m>>
    BY <1>4 DEF MoveLoanMoney, ApproveAdjustment
  <2>2. Position(k(table)) = 0 /\ Position(m) = a + 2
    BY Positions
  <2> HIDE DEF k, m
  <2>3. /\ Position(k(table)) \in 0 .. MaxAccount + 2 /\ Position(m) \in 0 .. MaxAccount + 2
        /\ Position(k(table)) < Position(m)
    BY <1>0, <2>2
  <2> QED
    BY <2>1, <2>3, TwoLocks
<1>5. ASSUME NEW t \in Ids, p \in {RejectHeld(t), CloseReview(t), FileReview(t)}
      PROVE  Goal
  <2>1. PICK table \in {"transfers", "transfer_reviews"}, mode \in {"NO KEY UPDATE", "KEY SHARE"} :
           p = <<Lock(table, t, mode)>>
    BY <1>5 DEF RejectHeld, CloseReview, FileReview
  <2> DEFINE k == Lock(table, t, mode)
  <2>2. Position(k) = 0 \/ Position(k) = 1
    BY Positions
  <2> HIDE DEF k
  <2>3. Position(k) \in 0 .. MaxAccount + 2
    BY <1>b, <2>2, Zenon
  <2> QED
    BY <2>1, <2>3, OneLock DEF k
<1>6. ASSUME NEW a \in Accounts, p \in {AdjustBalance(a), ChangeAccount(a), ReferToAccount(a)}
      PROVE  Goal
  <2>1. PICK mode \in {"UPDATE", "NO KEY UPDATE", "KEY SHARE"} : p = <<Lock("accounts", a, mode)>>
    BY <1>6 DEF AdjustBalance, ChangeAccount, ReferToAccount
  <2> DEFINE k == Lock("accounts", a, mode)
  <2>2. Position(k) = a + 2
    BY Positions
  <2> HIDE DEF k
  <2>3. Position(k) \in 0 .. MaxAccount + 2
    BY <1>b, <2>2, Zenon
  <2> QED
    BY <2>1, <2>3, OneLock DEF k
<1> QED
  BY <1>1, <1>2, <1>3, <1>4, <1>5, <1>6 DEF Transactions

\* A nonempty set of bounded naturals has a greatest element.
LEMMA Greatest ==
  ASSUME NEW T \in SUBSET Nat, NEW m \in Nat, T # {}, \A n \in T : n <= m
  PROVE  \E n \in T : \A k \in T : k <= n
<1> DEFINE D == {m - n : n \in T}
<1>1. D \subseteq Nat /\ D # {}
  <2>1. \A n \in T : m - n \in Nat
    OBVIOUS
  <2>2. PICK n \in T : TRUE
    OBVIOUS
  <2> QED
    BY <2>1, <2>2
<1>2. PICK d \in D : \A k \in D : ~(<<k, d>> \in OpToRel(<, Nat))
  BY <1>1, NatLessThanWellFounded, WFMin
<1>3. PICK n \in T : d = m - n
  OBVIOUS
<1>4. ASSUME NEW k \in T PROVE k <= n
  <2>1. m - k \in D /\ m - k \in Nat /\ d \in Nat
    BY <1>1
  <2>2. ~(m - k < d)
    BY <1>2, <2>1 DEF OpToRel
  <2> QED
    BY <1>3, <2>2
<1> QED
  BY <1>4

\* In a circle somebody locks against the order.
LEMMA CircleBreaksOrder ==
  ASSUME LocksTypeOK, NEW S \in SUBSET Requests, Circle(S)
  PROVE  \E r \in S : ~Ascending(Program[r])
<1> SUFFICES ASSUME \A r \in S : Ascending(Program[r]) PROVE FALSE
  OBVIOUS
<1> DEFINE Pos(r) == Position(Wanted(r))
<1>1. ASSUME NEW r \in S
      PROVE  /\ taken[r] \in Nat /\ taken[r] + 1 \in 1 .. Len(Program[r])
             /\ Len(Program[r]) \in Nat
             /\ Pos(r) \in 0 .. MaxAccount + 2
  <2>1. Sound(Program[r]) /\ Len(Program[r]) \in Nat
    BY ProgramsOrdered, RowLocksAssumption DEF Sound
  <2>2. taken[r] \in Nat /\ taken[r] < Len(Program[r])
    BY DEF LocksTypeOK, Circle, WaitsFor, Waiting
  <2>3. taken[r] + 1 \in 1 .. Len(Program[r])
    BY <2>1, <2>2
  <2> QED
    BY <2>1, <2>2, <2>3 DEF Wanted, Sound
<1> DEFINE T == {Pos(r) : r \in S}
<1>2. PICK r \in S : \A s \in S : Pos(s) <= Pos(r)
  <2>1. T \in SUBSET Nat /\ T # {} /\ \A n \in T : n <= MaxAccount + 2
    <3>1. MaxAccount + 2 \in Nat /\ \A n \in 0 .. MaxAccount + 2 : n \in Nat /\ n <= MaxAccount + 2
      BY RowLocksAssumption
    <3>2. S # {}
      BY DEF Circle
    <3> QED
      BY <1>1, <3>1, <3>2
  <2>2. PICK n \in T : \A k \in T : k <= n
    <3>1. MaxAccount + 2 \in Nat
      BY RowLocksAssumption
    <3> HIDE DEF T
    <3> QED
      BY <2>1, <3>1, Greatest
  <2> QED
    BY <2>2
<1>3. PICK s \in S : WaitsFor(r, s)
  BY DEF Circle
<1>4. PICK i \in 1 .. taken[s] : /\ Program[s][i].table = Wanted(r).table
                                 /\ Program[s][i].id = Wanted(r).id
  BY <1>3 DEF WaitsFor
<1>5. Position(Program[s][i]) = Pos(r)
  BY <1>4 DEF Position
<1>6. i \in 1 .. Len(Program[s]) /\ i < taken[s] + 1
  BY <1>1, <1>4
<1>7. Position(Program[s][i]) < Pos(s)
  BY <1>1, <1>6 DEF Ascending, Wanted
<1> QED
  BY <1>1, <1>2, <1>5, <1>7

\* The counters of locks taken stay within the programs.
LEMMA TypeInductive == Spec => []LocksTypeOK
<1>0. \A r \in Requests : Len(Program[r]) \in Nat
  BY ProgramsOrdered, RowLocksAssumption DEF Sound
<1>1. Init => LocksTypeOK
  BY <1>0 DEF Init, LocksTypeOK
<1>2. LocksTypeOK /\ [Next]_vars => LocksTypeOK'
  <2> SUFFICES ASSUME LocksTypeOK, [Next]_vars PROVE LocksTypeOK'
    OBVIOUS
  <2>1. ASSUME NEW r \in Requests, Take(r) PROVE LocksTypeOK'
    BY <1>0, <2>1 DEF LocksTypeOK, Take, Waiting
  <2>2. ASSUME NEW r \in Requests, Commit(r) PROVE LocksTypeOK'
    BY <2>2 DEF LocksTypeOK, Commit
  <2>3. ASSUME NEW r \in Requests, DetectDeadlock(r) PROVE LocksTypeOK'
    BY <2>3 DEF LocksTypeOK, DetectDeadlock
  <2>4. CASE UNCHANGED vars
    BY <2>4 DEF LocksTypeOK, vars
  <2> QED
    BY <2>1, <2>2, <2>3, <2>4 DEF Next, Step
<1> QED
  BY <1>1, <1>2, PTL DEF Spec

\* Whatever requests are in flight, and however many: a circle of waits goes
\* through an INSERT of a transfer from a higher account id to a lower one.
THEOREM CirclesThroughInserts == Spec => []CirclesNeedAnInsert
<1>1. LocksTypeOK => CirclesNeedAnInsert
  <2> SUFFICES ASSUME LocksTypeOK, NEW S \in SUBSET Blocked, Circle(S)
               PROVE  \E r \in S : \E a, b \in Accounts : b < a /\ Program[r] = InsertTransfer(a, b)
    BY DEF CirclesNeedAnInsert
  <2>1. S \in SUBSET Requests
    BY DEF Blocked
  <2>2. PICK r \in S : ~Ascending(Program[r])
    BY <2>1, CircleBreaksOrder
  <2> QED
    BY <2>1, <2>2, ProgramsOrdered, RowLocksAssumption
<1> QED
  BY <1>1, TypeInductive, PTL

\* Without such an INSERT nobody ever waits in a circle: what the comment at
\* confirm's account locks promises, for every mix of the other transactions.
THEOREM OrderedLocksNeverCircle ==
  ASSUME \A r \in Requests, a, b \in Accounts : b < a => Program[r] # InsertTransfer(a, b)
  PROVE  Spec => []NoWaitCycle
<1>1. CirclesNeedAnInsert => NoWaitCycle
  BY DEF CirclesNeedAnInsert, NoWaitCycle, Blocked
<1> QED
  BY <1>1, CirclesThroughInserts, PTL
=============================================================================
