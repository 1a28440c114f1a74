------------------------ MODULE TransferEngineProofs ------------------------
(***************************************************************************)
(* Safety of the transfer service for every number of accounts, transfers  *)
(* and requests in flight, by the inductive invariant IInv: an initial     *)
(* lemma, one lemma per action, and the theorems that follow.  What is     *)
(* said of sums of money rests on lemmas about sums over finite sets.      *)
(***************************************************************************)
EXTENDS TransferEngine, FiniteSetTheorems, WellFoundedInduction, TLAPS

-----------------------------------------------------------------------------
\* Sums over finite sets

\* The sum of f over S, as the modules of the model write it.
SumOver(f, S) == MapThenSumSet(LAMBDA x : f[x], S)

\* The element that sum adds last.
Any(s) == CHOOSE x \in s : TRUE

\* g[s] is the sum of f over s, for every s of the family F.
Adds(g, f, F) ==
  g = [s \in F |-> IF s = {} THEN 0 ELSE f[Any(s)] + g[s \ {Any(s)}]]

\* A nonempty set of naturals has a least element.  Induction over the size of
\* a set is a search for the smallest size that fails.
LEMMA Smallest ==
  ASSUME NEW T \in SUBSET Nat, T # {}
  PROVE  \E n \in T : \A m \in T : n <= m
<1>1. PICK n \in T : \A m \in T : ~(<<m, n>> \in OpToRel(<, Nat))
  BY NatLessThanWellFounded, WFMin
<1>2. ASSUME NEW m \in T PROVE n <= m
  <2>1. ~(m < n)
    BY <1>1 DEF OpToRel
  <2> QED
    BY <2>1
<1> QED
  BY <1>2

\* A sum is what the function chosen by MapThenFoldSet says of the whole set.
LEMMA SumIsAdds ==
  ASSUME NEW S, NEW f
  PROVE  SumOver(f, S) = (CHOOSE g : Adds(g, f, SUBSET S))[S]
BY Zenon DEF SumOver, MapThenSumSet, MapThenFoldSet, Adds, Any

\* Taking an element out of a finite set leaves one fewer.
LEMMA TakeOne ==
  ASSUME NEW S, IsFiniteSet(S), NEW x \in S
  PROVE  /\ IsFiniteSet(S \ {x})
         /\ Cardinality(S) \in Nat \ {0}
         /\ Cardinality(S \ {x}) = Cardinality(S) - 1
BY FS_RemoveElement, FS_CardinalityType, FS_EmptySet

\* The element added last is one of the set.
LEMMA AnyIn ==
  ASSUME NEW S, S # {}
  PROVE  Any(S) \in S
BY DEF Any

\* Every finite set has a function that adds up its subsets.
LEMMA AddsExists ==
  ASSUME NEW S, IsFiniteSet(S), NEW f
  PROVE  \E g : Adds(g, f, SUBSET S)
<1> DEFINE Small(n) == {s \in SUBSET S : Cardinality(s) <= n}
           Failing == {n \in Nat : ~ \E g : Adds(g, f, Small(n))}
<1>1. Failing = {}
  <2>1. SUFFICES ASSUME Failing # {} PROVE FALSE
    OBVIOUS
  <2>2. PICK n \in Failing : \A m \in Failing : n <= m
    BY <2>1, Smallest, Zenon
  <2>3. \A s \in SUBSET S : IsFiniteSet(s) /\ Cardinality(s) \in Nat
    BY FS_Subset, FS_CardinalityType
  <2>4. PICK g : n # 0 => Adds(g, f, Small(n - 1))
    <3>1. n # 0 => n - 1 \in Nat /\ ~(n <= n - 1)
      BY <2>2
    <3>2. n # 0 => n - 1 \notin Failing
      BY <2>2, <3>1
    <3>3. n # 0 => \E g : Adds(g, f, Small(n - 1))
      BY <3>1, <3>2
    <3> QED
      BY <3>3, Zenon
  <2> DEFINE h == [s \in Small(n) |-> IF s = {} THEN 0 ELSE f[Any(s)] + g[s \ {Any(s)}]]
  <2>5. ASSUME NEW s \in Small(n), s # {}
        PROVE  h[s \ {Any(s)}] = g[s \ {Any(s)}]
    <3> DEFINE u == s \ {Any(s)}
    <3>1. n # 0 /\ u \in Small(n) /\ u \in Small(n - 1)
      <4>1. Any(s) \in s
        BY <2>5, AnyIn
      <4>2. Cardinality(u) = Cardinality(s) - 1 /\ Cardinality(s) \in Nat \ {0}
        BY <2>3, <4>1, TakeOne
      <4> QED
        BY <4>2, <2>2
    <3>2. h[u] = IF u = {} THEN 0 ELSE f[Any(u)] + g[u \ {Any(u)}]
      BY <3>1, Zenon
    <3>3. g[u] = IF u = {} THEN 0 ELSE f[Any(u)] + g[u \ {Any(u)}]
      BY <3>1, <2>4, Zenon DEF Adds
    <3> QED
      BY <3>2, <3>3
  <2>6. Adds(h, f, Small(n))
    BY <2>5 DEF Adds
  <2> QED
    BY <2>2, <2>6
<1>2. Cardinality(S) \in Nat /\ Small(Cardinality(S)) = SUBSET S
  BY FS_Subset, FS_CardinalityType
<1> QED
  BY <1>1, <1>2

\* Two such functions agree where both are defined.
LEMMA AddsUnique ==
  ASSUME NEW S, NEW T, NEW f, NEW g, NEW h,
         IsFiniteSet(S), T \subseteq S, Adds(g, f, SUBSET S), Adds(h, f, SUBSET T)
  PROVE  g[T] = h[T]
<1> DEFINE Differing == {n \in Nat : \E s \in SUBSET T : Cardinality(s) = n /\ g[s] # h[s]}
<1>1. Differing = {}
  <2>1. SUFFICES ASSUME Differing # {} PROVE FALSE
    OBVIOUS
  <2>2. PICK n \in Differing : \A m \in Differing : n <= m
    BY <2>1, Smallest, Zenon
  <2>3. PICK s \in SUBSET T : Cardinality(s) = n /\ g[s] # h[s]
    BY <2>2
  <2>4. /\ g[s] = IF s = {} THEN 0 ELSE f[Any(s)] + g[s \ {Any(s)}]
        /\ h[s] = IF s = {} THEN 0 ELSE f[Any(s)] + h[s \ {Any(s)}]
    <3>1. s \in SUBSET S
      OBVIOUS
    <3> QED
      BY <3>1, Zenon DEF Adds
  <2>5. s # {}
    BY <2>3, <2>4
  <2>6. IsFiniteSet(s)
    BY FS_Subset
  <2>7. Cardinality(s \ {Any(s)}) = n - 1 /\ n - 1 \in Nat
    BY <2>3, <2>5, <2>6, AnyIn, TakeOne
  <2>8. g[s \ {Any(s)}] = h[s \ {Any(s)}]
    BY <2>2, <2>7
  <2> QED
    BY <2>3, <2>4, <2>8
<1>2. Cardinality(T) \in Nat
  BY FS_Subset, FS_CardinalityType
<1> QED
  BY <1>1, <1>2

\* The sum of a finite set: of none 0, of more one element and the others' sum.
LEMMA SumStep ==
  ASSUME NEW S, IsFiniteSet(S), NEW f
  PROVE  SumOver(f, S) = IF S = {} THEN 0 ELSE f[Any(S)] + SumOver(f, S \ {Any(S)})
<1>1. PICK g : SumOver(f, S) = g[S] /\ Adds(g, f, SUBSET S)
  BY SumIsAdds, AddsExists, Zenon
<1>2. PICK U : U = S \ {Any(S)}
  OBVIOUS
<1>3. IsFiniteSet(U) /\ U \in SUBSET S
  BY <1>2, FS_Subset
<1>4. PICK h : SumOver(f, U) = h[U] /\ Adds(h, f, SUBSET U)
  BY <1>3, SumIsAdds, AddsExists, Zenon
<1>5. g[U] = h[U]
  <2>1. Adds(g, f, SUBSET S)
    BY <1>1
  <2>2. Adds(h, f, SUBSET U)
    BY <1>4
  <2>3. U \subseteq S
    BY <1>3
  <2> QED
    BY ONLY <2>1, <2>2, <2>3, IsFiniteSet(S), AddsUnique
<1>6. g[S] = IF S = {} THEN 0 ELSE f[Any(S)] + g[U]
  BY <1>1, <1>2, Zenon DEF Adds
<1> QED
  BY <1>1, <1>2, <1>4, <1>5, <1>6

\* Sums of integers: functions that agree have the same sum, and a change in
\* one place changes the sum by as much.
LEMMA SumShift ==
  ASSUME NEW S, IsFiniteSet(S), NEW x, NEW f, NEW h,
         \A y \in S : f[y] \in Int /\ h[y] \in Int,
         \A y \in S \ {x} : h[y] = f[y]
  PROVE  /\ SumOver(f, S) \in Int
         /\ SumOver(h, S) = IF x \in S THEN SumOver(f, S) - f[x] + h[x] ELSE SumOver(f, S)
<1> DEFINE Shifts(U) ==
             /\ SumOver(f, U) \in Int
             /\ SumOver(h, U) = IF x \in U THEN SumOver(f, U) - f[x] + h[x] ELSE SumOver(f, U)
           Failing == {n \in Nat : \E U \in SUBSET S : Cardinality(U) = n /\ ~Shifts(U)}
<1>1. Failing = {}
  <2>1. SUFFICES ASSUME Failing # {} PROVE FALSE
    OBVIOUS
  <2>2. PICK n \in Failing : \A m \in Failing : n <= m
    BY <2>1, Smallest, Zenon
  <2>3. PICK U \in SUBSET S : Cardinality(U) = n /\ ~Shifts(U)
    BY <2>2
  <2>4. IsFiniteSet(U)
    BY FS_Subset
  <2>5. /\ SumOver(f, U) = IF U = {} THEN 0 ELSE f[Any(U)] + SumOver(f, U \ {Any(U)})
        /\ SumOver(h, U) = IF U = {} THEN 0 ELSE h[Any(U)] + SumOver(h, U \ {Any(U)})
    BY <2>4, SumStep, Zenon
  <2>6. CASE U = {}
    BY <2>3, <2>5, <2>6
  <2>7. CASE U # {}
    <3>1. PICK y \in U : y = Any(U)
      BY <2>7, AnyIn
    <3> DEFINE V == U \ {y}
    <3>2. Cardinality(V) \in Nat /\ ~(n <= Cardinality(V))
      BY <2>3, <2>4, <3>1, TakeOne
    <3>3. Shifts(V)
      BY <2>2, <3>2
    <3>4. f[y] \in Int /\ h[y] \in Int /\ (y # x => h[y] = f[y])
      OBVIOUS
    <3>5. /\ SumOver(f, U) = f[y] + SumOver(f, V)
          /\ SumOver(h, U) = h[y] + SumOver(h, V)
      BY <2>5, <2>7, <3>1
    <3>6. Shifts(U)
      <4>1. x \in V <=> x \in U /\ x # y
        BY <3>1
      <4>2. x \in V => f[x] \in Int /\ h[x] \in Int
        OBVIOUS
      <4> QED
        BY <3>3, <3>4, <3>5, <4>1, <4>2
    <3> QED
      BY <2>3, <3>6
  <2> QED
    BY <2>6, <2>7
<1>2. Cardinality(S) \in Nat
  BY FS_CardinalityType
<1>3. Shifts(S)
  BY <1>1, <1>2
<1> QED
  BY <1>3

\* Any element may be added last.
LEMMA SumSplit ==
  ASSUME NEW S, IsFiniteSet(S), NEW x \in S, NEW f, \A y \in S : f[y] \in Int
  PROVE  SumOver(f, S) = f[x] + SumOver(f, S \ {x})
<1> DEFINE Splits(U) == \A z \in U : SumOver(f, U) = f[z] + SumOver(f, U \ {z})
           Failing == {n \in Nat : \E U \in SUBSET S : Cardinality(U) = n /\ ~Splits(U)}
<1>1. Failing = {}
  <2>1. SUFFICES ASSUME Failing # {} PROVE FALSE
    OBVIOUS
  <2>2. PICK n \in Failing : \A m \in Failing : n <= m
    BY <2>1, Smallest, Zenon
  <2>3. PICK U \in SUBSET S : Cardinality(U) = n /\ ~Splits(U)
    BY <2>2
  <2>4. PICK z \in U : SumOver(f, U) # f[z] + SumOver(f, U \ {z})
    BY <2>3
  <2>5. PICK y \in U : y = Any(U)
    BY AnyIn
  <2>6. IsFiniteSet(U)
    BY FS_Subset
  <2>7. SumOver(f, U) = f[y] + SumOver(f, U \ {y})
    BY <2>5, <2>6, SumStep
  <2>8. y # z
    BY <2>4, <2>7
  <2>9. ASSUME NEW v \in U
        PROVE  /\ U \ {v} \in SUBSET S
               /\ IsFiniteSet(U \ {v})
               /\ Splits(U \ {v})
    <3>1. /\ U \ {v} \in SUBSET S
          /\ Cardinality(U \ {v}) \in Nat /\ ~(n <= Cardinality(U \ {v}))
          /\ IsFiniteSet(U \ {v})
      BY <2>3, <2>6, TakeOne
    <3> QED
      BY <2>2, <3>1
  <2>10. SumOver(f, U \ {y}) = f[z] + SumOver(f, (U \ {y}) \ {z})
    BY <2>8, <2>9
  <2>11. SumOver(f, U \ {z}) = f[y] + SumOver(f, (U \ {y}) \ {z})
    <3>1. SumOver(f, U \ {z}) = f[y] + SumOver(f, (U \ {z}) \ {y})
      BY <2>8, <2>9
    <3>2. (U \ {y}) \ {z} = (U \ {z}) \ {y}
      OBVIOUS
    <3> QED
      BY <3>1, <3>2, Zenon
  <2>12. f[y] \in Int /\ f[z] \in Int /\ SumOver(f, (U \ {y}) \ {z}) \in Int
    <3>1. IsFiniteSet((U \ {y}) \ {z})
      BY <2>6, FS_RemoveElement
    <3>2. \A v \in (U \ {y}) \ {z} : f[v] \in Int
      OBVIOUS
    <3> QED
      BY <3>1, <3>2, SumShift
  <2> QED
    BY <2>4, <2>7, <2>10, <2>11, <2>12
<1>2. Cardinality(S) \in Nat
  BY FS_CardinalityType
<1> QED
  BY <1>1, <1>2

\* Amounts that are not negative do not add up to less than nothing.
LEMMA SumNat ==
  ASSUME NEW S, IsFiniteSet(S), NEW f, \A y \in S : f[y] \in Int /\ f[y] >= 0
  PROVE  SumOver(f, S) >= 0
<1> DEFINE Failing == {n \in Nat :
                         \E U \in SUBSET S : Cardinality(U) = n /\ ~(SumOver(f, U) >= 0)}
<1>1. Failing = {}
  <2>1. SUFFICES ASSUME Failing # {} PROVE FALSE
    OBVIOUS
  <2>2. PICK n \in Failing : \A m \in Failing : n <= m
    BY <2>1, Smallest, Zenon
  <2>3. PICK U \in SUBSET S : Cardinality(U) = n /\ ~(SumOver(f, U) >= 0)
    BY <2>2
  <2>4. IsFiniteSet(U)
    BY FS_Subset
  <2>5. SumOver(f, U) = IF U = {} THEN 0 ELSE f[Any(U)] + SumOver(f, U \ {Any(U)})
    BY <2>4, SumStep, Zenon
  <2>6. Any(U) \in U
    BY <2>3, <2>5, AnyIn
  <2>7. Cardinality(U \ {Any(U)}) \in Nat /\ ~(n <= Cardinality(U \ {Any(U)}))
    BY <2>3, <2>4, <2>6, TakeOne
  <2>8. SumOver(f, U \ {Any(U)}) >= 0 /\ SumOver(f, U \ {Any(U)}) \in Int
    <3>1. IsFiniteSet(U \ {Any(U)}) /\ \A y \in U \ {Any(U)} : f[y] \in Int
      BY <2>4, FS_RemoveElement
    <3>2. SumOver(f, U \ {Any(U)}) \in Int
      BY <3>1, SumShift
    <3> QED
      BY <2>2, <2>7, <3>2
  <2> QED
    BY <2>3, <2>5, <2>6, <2>8
<1>2. Cardinality(S) \in Nat
  BY FS_CardinalityType
<1> QED
  BY <1>1, <1>2

-----------------------------------------------------------------------------
\* Types

\* What a busy worker's job says of accounts and amounts.
LEMMA JobTyped ==
  ASSUME IInv, NEW w \in Workers, pc[w] # "idle"
  PROVE  /\ job[w] \in Transfers
         /\ From[job[w]] \in Accounts
         /\ To[job[w]] \in Accounts
         /\ Low(job[w]) \in Accounts
         /\ High(job[w]) \in Accounts
         /\ Amount[job[w]] \in Int
BY ConstantsAssumption DEF IInv, RowsUnderWay, Low, High

\* An account row as a SELECT returns it, and the rows of a fresh worker.
LEMMA RowsTyped ==
  ASSUME TypeOK
  PROVE  /\ \A a \in Accounts : Row(a) \in AccountRow
         /\ NoRows \in [Accounts -> AccountRow]
BY DEF TypeOK, Row, NoRows, AccountRow, AccountStatuses

\* The ends of a request keep the types of the request variables.
LEMMA FinishTyped ==
  ASSUME TypeOK, NEW w \in Workers, Finish(w)
  PROVE  /\ pc' \in [Workers -> Labels]
         /\ job' \in [Workers -> Transfers \cup {NoTransfer}]
         /\ seen' \in [Workers -> [Accounts -> AccountRow]]
BY RowsTyped DEF TypeOK, Finish, Labels

\* Reading one account row keeps the type of what a worker has seen.
LEMMA SeenTyped ==
  ASSUME TypeOK, NEW w \in Workers, NEW a \in Accounts
  PROVE  [seen EXCEPT ![w] = [@ EXCEPT ![a] = Row(a)]] \in [Workers -> [Accounts ->
      AccountRow]]
<1>1. [seen[w] EXCEPT ![a] = Row(a)] \in [Accounts -> AccountRow]
  BY RowsTyped DEF TypeOK
<1> QED
  BY <1>1 DEF TypeOK

\* apply_money_move on a valid row the source can afford.
LEMMA MoveMoneyKeeps ==
  ASSUME TypeOK, NoOverdraw, NEW t \in Transfers, Valid(t),
         Amount[t] <= balance[From[t]], MoveMoney(t)
  PROVE  balance' \in [Accounts -> Int] /\ NoOverdraw'
<1>1. From[t] \in Accounts /\ To[t] \in Accounts /\ Amount[t] \in Int
  BY ConstantsAssumption
<1>2. \A a \in Accounts : balance[a] \in Int
  BY DEF TypeOK
<1>3. balance' \in [Accounts -> Int]
  BY <1>1, <1>2 DEF MoveMoney, TypeOK
<1>4. ASSUME NEW a \in Accounts PROVE balance'[a] >= 0
  <2>1. CASE a = From[t]
    BY <1>1, <1>2, <2>1 DEF MoveMoney, TypeOK, Valid
  <2>2. CASE a = To[t]
    BY <1>1, <1>2, <2>2 DEF MoveMoney, TypeOK, NoOverdraw, Valid
  <2>3. CASE a # From[t] /\ a # To[t]
    BY <1>1, <1>2, <2>3 DEF MoveMoney, TypeOK, NoOverdraw
  <2> QED
    BY <2>1, <2>2, <2>3
<1> QED
  BY <1>3, <1>4 DEF NoOverdraw

-----------------------------------------------------------------------------
\* Locks

\* A step of a worker outside any transaction: no lock moves, and no row that
\* somebody has locked changes.
LEMMA LocklessStep ==
  ASSUME IInv, NEW w \in Workers,
         pc[w] \notin InConfirm \cup InRelease,
         pc'[w] \notin InConfirm \cup InRelease,
         \A v \in Workers \ {w} : pc'[v] = pc[v] /\ job'[v] = job[v] /\ seen'[v] = seen[v],
         UNCHANGED lockVars,
         \A a \in Accounts : accountLock[a] \in Workers => Row(a)' = Row(a)
  PROVE  LocksOwned' /\ SeenIsCurrent'
<1>1. ASSUME NEW v \in Workers
      PROVE  /\ \A t \in Transfers : HoldsRow(v, t)' <=> HoldsRow(v, t)
             /\ \A a \in Accounts : HoldsAccount(v, a)' <=> HoldsAccount(v, a)
             /\ \A a \in Accounts : HoldsAccount(v, a) => v # w
  <2>1. CASE v = w
    BY <2>1 DEF HoldsRow, HoldsAccount, InConfirm, InRelease
  <2>2. CASE v # w
    BY <2>2 DEF HoldsRow, HoldsAccount, InConfirm, InRelease, Low, High
  <2> QED
    BY <2>1, <2>2
<1>2. LocksOwned'
  BY <1>1 DEF IInv, LocksOwned, lockVars
<1>3. ASSUME NEW v \in Workers, NEW a \in Accounts, HoldsAccount(v, a)'
      PROVE  seen'[v][a] = Row(a)'
  <2>1. HoldsAccount(v, a) /\ v # w
    BY <1>1, <1>3
  <2>2. accountLock[a] = v /\ seen[v][a] = Row(a)
    BY <2>1 DEF IInv, LocksOwned, SeenIsCurrent
  <2> QED
    BY <2>1, <2>2
<1> QED
  BY <1>2, <1>3 DEF SeenIsCurrent

\* A step that ends a worker's transaction: its own locks go, and it changes
\* no row that another worker has locked.
LEMMA CommitStep ==
  ASSUME IInv, NEW w \in Workers, Unlock(w),
         pc'[w] \notin InConfirm \cup InRelease,
         \A v \in Workers \ {w} : pc'[v] = pc[v] /\ job'[v] = job[v] /\ seen'[v] = seen[v],
         \A a \in Accounts : accountLock[a] \in Workers \ {w} => Row(a)' = Row(a)
  PROVE  LocksOwned' /\ SeenIsCurrent'
<1>1. ASSUME NEW t \in Transfers
      PROVE  /\ ~HoldsRow(w, t)'
             /\ \A v \in Workers \ {w} : HoldsRow(v, t)' <=> HoldsRow(v, t)
  BY DEF HoldsRow
<1>2. ASSUME NEW a \in Accounts
      PROVE  /\ ~HoldsAccount(w, a)'
             /\ \A v \in Workers \ {w} : HoldsAccount(v, a)' <=> HoldsAccount(v, a)
  BY DEF HoldsAccount, InConfirm, InRelease, Low, High
<1>3. ASSUME NEW v \in Workers, NEW t \in Transfers
      PROVE  rowLock'[t] = v <=> HoldsRow(v, t)'
  <2>1. CASE v = w
    BY <2>1, <1>1, ConstantsAssumption DEF Unlock
  <2>2. CASE v # w
    BY <2>2, <1>1, ConstantsAssumption DEF Unlock, IInv, LocksOwned
  <2> QED
    BY <2>1, <2>2
<1>4. ASSUME NEW v \in Workers, NEW a \in Accounts
      PROVE  accountLock'[a] = v <=> HoldsAccount(v, a)'
  <2>1. CASE v = w
    BY <2>1, <1>2, ConstantsAssumption DEF Unlock
  <2>2. CASE v # w
    BY <2>2, <1>2, ConstantsAssumption DEF Unlock, IInv, LocksOwned
  <2> QED
    BY <2>1, <2>2
<1>5. ASSUME NEW v \in Workers, NEW a \in Accounts, HoldsAccount(v, a)'
      PROVE  seen'[v][a] = Row(a)'
  <2>1. v # w /\ HoldsAccount(v, a)
    BY <1>2, <1>5
  <2>2. accountLock[a] = v /\ seen[v][a] = Row(a)
    BY <2>1 DEF IInv, LocksOwned, SeenIsCurrent
  <2> QED
    BY <2>1, <2>2
<1> QED
  BY <1>3, <1>4, <1>5 DEF LocksOwned, SeenIsCurrent

\* A SELECT ... FOR UPDATE that is granted: w holds one account row more, and
\* has just seen it.
LEMMA LockStep ==
  ASSUME IInv, NEW w \in Workers, NEW a \in Accounts,
         NEW label \in Labels, NEW next \in Labels,
         LockAccount(w, a, label, next),
         \A b \in Accounts : HoldsAccount(w, b)' <=> HoldsAccount(w, b) \/ b = a,
         \A t \in Transfers : HoldsRow(w, t)' <=> HoldsRow(w, t)
  PROVE  LocksOwned' /\ SeenIsCurrent'
<1> USE DEF LockAccount, AccountFree
<1>1. ASSUME NEW v \in Workers \ {w}
      PROVE  /\ pc'[v] = pc[v] /\ job'[v] = job[v] /\ seen'[v] = seen[v]
             /\ \A b \in Accounts : HoldsAccount(v, b)' <=> HoldsAccount(v, b)
             /\ \A t \in Transfers : HoldsRow(v, t)' <=> HoldsRow(v, t)
  <2>1. pc'[v] = pc[v] /\ job'[v] = job[v] /\ seen'[v] = seen[v]
    BY DEF IInv, TypeOK
  <2> QED
    BY <2>1 DEF HoldsAccount, HoldsRow, Low, High
<1>2. \A b \in Accounts : Row(b)' = Row(b)
  BY DEF Row, accountVars
<1>3. LocksOwned'
  <2>1. \A v \in Workers, t \in Transfers : rowLock'[t] = v <=> HoldsRow(v, t)'
    BY <1>1 DEF IInv, LocksOwned
  <2>2. ASSUME NEW v \in Workers, NEW b \in Accounts
        PROVE  accountLock'[b] = v <=> HoldsAccount(v, b)'
    <3>1. accountLock[b] = v <=> HoldsAccount(v, b)
      BY DEF IInv, LocksOwned
    <3>2. accountLock'[b] = IF b = a THEN w ELSE accountLock[b]
      BY DEF IInv, TypeOK
    <3>3. CASE v = w
      BY <3>1, <3>2, <3>3
    <3>4. CASE v # w
      BY <1>1, <3>1, <3>2, <3>4, ConstantsAssumption
    <3> QED
      BY <3>3, <3>4
  <2> QED
    BY <2>1, <2>2 DEF LocksOwned
<1>4. ASSUME NEW v \in Workers, NEW b \in Accounts, HoldsAccount(v, b)'
      PROVE  seen'[v][b] = Row(b)'
  <2>1. CASE v = w /\ b = a
    BY <1>2, <2>1 DEF IInv, TypeOK
  <2>2. CASE v = w /\ b # a
    <3>1. seen[v][b] = Row(b)
      BY <1>4, <2>2 DEF IInv, SeenIsCurrent
    <3>2. seen'[v][b] = seen[v][b]
      BY <2>2 DEF IInv, TypeOK
    <3> QED
      BY <1>2, <3>1, <3>2
  <2>3. CASE v # w
    BY <1>1, <1>2, <1>4, <2>3 DEF IInv, SeenIsCurrent
  <2> QED
    BY <2>1, <2>2, <2>3
<1> QED
  BY <1>3, <1>4 DEF LocksOwned, SeenIsCurrent

\* The two ends of a valid transfer are its low and its high account.
LEMMA TwoEnds ==
  ASSUME NEW t \in Transfers, Valid(t)
  PROVE  /\ Low(t) \in Accounts /\ High(t) \in Accounts
         /\ Low(t) # High(t)
         /\ {Low(t), High(t)} = {From[t], To[t]}
BY ConstantsAssumption DEF Valid, Low, High

-----------------------------------------------------------------------------
\* The inductive invariant

\* The service starts with no request in flight and no lock held.
LEMMA InitIInv == Init => IInv
<1> SUFFICES ASSUME Init PROVE IInv
  OBVIOUS
<1> USE DEF Init
<1>1. TypeOK
  BY ConstantsAssumption, PostedAssumption
  DEF TypeOK, NoRows, AccountRow, Labels, AccountStatuses, Statuses, Reviews
<1>2. NoOverdraw /\ RowsValid /\ DecisionsAgree
  BY ConstantsAssumption, PostedAssumption DEF NoOverdraw, RowsValid, DecisionsAgree
<1>3. \A w \in Workers : pc[w] = "idle" /\ job[w] = NoTransfer
  OBVIOUS
<1>4. LocksOwned /\ SeenIsCurrent
  BY <1>3, ConstantsAssumption DEF LocksOwned, SeenIsCurrent, HoldsRow, HoldsAccount,
      InConfirm, InRelease
<1>5. RowsUnderWay
  BY <1>3 DEF RowsUnderWay, Creating, InConfirm, InRelease
<1> QED
  BY <1>1, <1>2, <1>4, <1>5 DEF IInv

-----------------------------------------------------------------------------
\* create

\* create, promoting a matured limit.
LEMMA CreatePromoteKeeps ==
  ASSUME IInv, NEW w \in Workers, NEW t \in Transfers, CreatePromote(w, t)
  PROVE  IInv'
<1> USE DEF IInv, CreatePromote, Begin, AccountFree, accountVars, transferVars, lockVars,
    requestVars
<1>1. TypeOK'
  BY ConstantsAssumption DEF TypeOK, Labels, AccountStatuses, Statuses, Reviews
<1>2. ASSUME NEW a \in Accounts, accountLock[a] \in Workers
      PROVE  Row(a)' = Row(a)
  BY <1>2, ConstantsAssumption, JobTyped DEF Row, TypeOK
<1>3. LocksOwned' /\ SeenIsCurrent'
  BY LocklessStep, <1>2 DEF TypeOK, Row, InConfirm, InRelease
<1>4. NoOverdraw' /\ RowsValid' /\ RowsUnderWay' /\ DecisionsAgree'
  BY ConstantsAssumption DEF TypeOK, NoOverdraw, RowsValid, RowsUnderWay, DecisionsAgree,
      Creating, InConfirm, InRelease, LocksOwned, HoldsRow, Valid
<1> QED
  BY <1>1, <1>3, <1>4

\* create, marking the limit change applied.
LEMMA CreateMarkAppliedKeeps ==
  ASSUME IInv, NEW w \in Workers, CreateMarkApplied(w)
  PROVE  IInv'
<1> USE DEF IInv, CreateMarkApplied, Goto, accountVars, transferVars, lockVars, requestVars
<1>1. TypeOK'
  BY JobTyped, ConstantsAssumption DEF TypeOK, Labels, AccountStatuses, Statuses, Reviews
<1>2. LocksOwned' /\ SeenIsCurrent'
  BY LocklessStep DEF TypeOK, Row, InConfirm, InRelease
<1>3. NoOverdraw' /\ RowsValid' /\ RowsUnderWay' /\ DecisionsAgree'
  BY ConstantsAssumption DEF TypeOK, NoOverdraw, RowsValid, RowsUnderWay, DecisionsAgree,
      Creating, InConfirm, InRelease, LocksOwned, HoldsRow, Valid
<1> QED
  BY <1>1, <1>2, <1>3

\* create, reading the source row without a lock.
LEMMA CreateReadFundsKeeps ==
  ASSUME IInv, NEW w \in Workers, CreateReadFunds(w)
  PROVE  IInv'
<1> USE DEF IInv, CreateReadFunds, accountVars, transferVars, lockVars, requestVars
<1>1. TypeOK'
  BY SeenTyped, JobTyped, ConstantsAssumption DEF TypeOK, Labels, AccountStatuses,
      Statuses, Reviews
<1>2. LocksOwned' /\ SeenIsCurrent'
  BY LocklessStep DEF TypeOK, Row, InConfirm, InRelease
<1>3. NoOverdraw' /\ RowsValid' /\ RowsUnderWay' /\ DecisionsAgree'
  BY ConstantsAssumption DEF TypeOK, NoOverdraw, RowsValid, RowsUnderWay, DecisionsAgree,
      Creating, InConfirm, InRelease, LocksOwned, HoldsRow, Valid
<1> QED
  BY <1>1, <1>2, <1>3

\* create, recording an overdraft attempt: nobody else can have used the row.
LEMMA CreateRecordOverdraftKeeps ==
  ASSUME IInv, NEW w \in Workers, CreateRecordOverdraft(w)
  PROVE  IInv'
<1> USE DEF IInv, CreateRecordOverdraft, Goto, accountVars, transferVars, lockVars,
    requestVars
<1>1. TypeOK'
  BY JobTyped, ConstantsAssumption DEF TypeOK, Labels, AccountStatuses, Statuses, Reviews
<1>2. LocksOwned' /\ SeenIsCurrent'
  BY LocklessStep DEF TypeOK, Row, InConfirm, InRelease
<1>3. NoOverdraw' /\ RowsValid' /\ RowsUnderWay' /\ DecisionsAgree'
  BY ConstantsAssumption DEF TypeOK, NoOverdraw, RowsValid, RowsUnderWay, DecisionsAgree,
      Creating, InConfirm, InRelease, LocksOwned, HoldsRow, Valid
<1> QED
  BY <1>1, <1>2, <1>3

\* create, the available-balance and limit checks.
LEMMA CreateCheckAvailableKeeps ==
  ASSUME IInv, NEW w \in Workers, CreateCheckAvailable(w)
  PROVE  IInv'
<1> USE DEF IInv, CreateCheckAvailable, Goto, accountVars, transferVars, lockVars,
    requestVars
<1>1. TypeOK'
  BY FinishTyped, JobTyped, ConstantsAssumption DEF TypeOK, Labels, AccountStatuses,
      Statuses, Reviews
<1>2. LocksOwned' /\ SeenIsCurrent'
  BY LocklessStep DEF Finish, TypeOK, Row, InConfirm, InRelease
<1>3. NoOverdraw' /\ RowsValid' /\ RowsUnderWay' /\ DecisionsAgree'
  BY ConstantsAssumption DEF Finish, TypeOK, NoOverdraw, RowsValid, RowsUnderWay,
      DecisionsAgree, Creating, InConfirm, InRelease, LocksOwned, HoldsRow, Valid
<1> QED
  BY <1>1, <1>2, <1>3

\* create, the rate limiter.
LEMMA CreateCheckRateKeeps ==
  ASSUME IInv, NEW w \in Workers, CreateCheckRate(w)
  PROVE  IInv'
<1> USE DEF IInv, CreateCheckRate, Goto, accountVars, transferVars, lockVars, requestVars
<1>1. TypeOK'
  BY FinishTyped, JobTyped, ConstantsAssumption DEF TypeOK, Labels, AccountStatuses,
      Statuses, Reviews
<1>2. LocksOwned' /\ SeenIsCurrent'
  BY LocklessStep DEF Finish, TypeOK, Row, InConfirm, InRelease
<1>3. NoOverdraw' /\ RowsValid' /\ RowsUnderWay' /\ DecisionsAgree'
  BY ConstantsAssumption DEF Finish, TypeOK, NoOverdraw, RowsValid, RowsUnderWay,
      DecisionsAgree, Creating, InConfirm, InRelease, LocksOwned, HoldsRow, Valid
<1> QED
  BY <1>1, <1>2, <1>3

\* create, the pending row.
LEMMA CreatePostPendingKeeps ==
  ASSUME IInv, NEW w \in Workers, CreatePostPending(w)
  PROVE  IInv'
<1> USE DEF IInv, CreatePostPending, accountVars, transferVars, lockVars, requestVars
<1>1. TypeOK'
  BY FinishTyped, JobTyped, ConstantsAssumption DEF TypeOK, Labels, AccountStatuses,
      Statuses, Reviews
<1>2. LocksOwned' /\ SeenIsCurrent'
  BY LocklessStep DEF Finish, TypeOK, Row, InConfirm, InRelease
<1>3. NoOverdraw' /\ RowsValid' /\ RowsUnderWay' /\ DecisionsAgree'
  BY ConstantsAssumption DEF Finish, TypeOK, NoOverdraw, RowsValid, RowsUnderWay,
      DecisionsAgree, Creating, InConfirm, InRelease, LocksOwned, HoldsRow, Valid
<1> QED
  BY <1>1, <1>2, <1>3

-----------------------------------------------------------------------------
\* check_overdraft_freeze

\* check_overdraft_freeze, counting.
LEMMA CountOverdraftsKeeps ==
  ASSUME IInv, NEW w \in Workers, CountOverdrafts(w)
  PROVE  IInv'
<1> USE DEF IInv, CountOverdrafts, Goto, accountVars, transferVars, lockVars, requestVars
<1>1. TypeOK'
  BY FinishTyped, JobTyped, ConstantsAssumption DEF TypeOK, Labels, AccountStatuses,
      Statuses, Reviews
<1>2. LocksOwned' /\ SeenIsCurrent'
  BY LocklessStep DEF Finish, TypeOK, Row, InConfirm, InRelease
<1>3. NoOverdraw' /\ RowsValid' /\ RowsUnderWay' /\ DecisionsAgree'
  BY ConstantsAssumption DEF Finish, TypeOK, NoOverdraw, RowsValid, RowsUnderWay,
      DecisionsAgree, Creating, InConfirm, InRelease, LocksOwned, HoldsRow, Valid
<1> QED
  BY <1>1, <1>2, <1>3

\* check_overdraft_freeze, freezing: it waits for the account lock.
LEMMA AutoFreezeKeeps ==
  ASSUME IInv, NEW w \in Workers, AutoFreeze(w)
  PROVE  IInv'
<1> USE DEF IInv, AutoFreeze, AccountFree, accountVars, transferVars, lockVars, requestVars
<1>1. TypeOK'
  BY FinishTyped, JobTyped, ConstantsAssumption DEF TypeOK, Labels, AccountStatuses,
      Statuses, Reviews
<1>2. ASSUME NEW a \in Accounts, accountLock[a] \in Workers
      PROVE  Row(a)' = Row(a)
  BY <1>2, ConstantsAssumption, JobTyped DEF Row, TypeOK
<1>3. LocksOwned' /\ SeenIsCurrent'
  BY LocklessStep, <1>2 DEF Finish, TypeOK, Row, InConfirm, InRelease
<1>4. NoOverdraw' /\ RowsValid' /\ RowsUnderWay' /\ DecisionsAgree'
  BY ConstantsAssumption DEF Finish, TypeOK, NoOverdraw, RowsValid, RowsUnderWay,
      DecisionsAgree, Creating, InConfirm, InRelease, LocksOwned, HoldsRow, Valid
<1> QED
  BY <1>1, <1>3, <1>4

-----------------------------------------------------------------------------
\* confirm

\* confirm after the window.
LEMMA ConfirmExpiredKeeps ==
  ASSUME IInv, NEW t \in Transfers, ConfirmExpired(t)
  PROVE  IInv'
<1> USE DEF IInv, ConfirmExpired, RowFree, accountVars, transferVars, lockVars, requestVars
<1>1. TypeOK'
  BY ConstantsAssumption DEF TypeOK, Labels, AccountStatuses, Statuses, Reviews
<1>2. LocksOwned' /\ SeenIsCurrent'
  BY ConstantsAssumption, JobTyped DEF TypeOK, LocksOwned, SeenIsCurrent, HoldsRow,
      HoldsAccount, InConfirm, InRelease, RowsUnderWay, Low, High, Row
<1>3. NoOverdraw' /\ RowsValid' /\ RowsUnderWay' /\ DecisionsAgree'
  BY ConstantsAssumption DEF TypeOK, NoOverdraw, RowsValid, RowsUnderWay, DecisionsAgree,
      Creating, InConfirm, InRelease, LocksOwned, HoldsRow, Valid
<1> QED
  BY <1>1, <1>2, <1>3

\* confirm with a wrong code: a strike below the last is a legal count.
LEMMA ConfirmWrongCodeKeeps ==
  ASSUME IInv, NEW t \in Transfers, ConfirmWrongCode(t)
  PROVE  IInv'
<1> USE DEF IInv, ConfirmWrongCode, RowFree, accountVars, transferVars, lockVars,
    requestVars
<1>1. TypeOK'
  BY ConstantsAssumption DEF TypeOK, Labels, AccountStatuses, Statuses, Reviews
<1>2. LocksOwned' /\ SeenIsCurrent'
  BY ConstantsAssumption, JobTyped DEF TypeOK, LocksOwned, SeenIsCurrent, HoldsRow,
      HoldsAccount, InConfirm, InRelease, RowsUnderWay, Low, High, Row
<1>3. NoOverdraw' /\ RowsValid' /\ RowsUnderWay' /\ DecisionsAgree'
  BY ConstantsAssumption DEF TypeOK, NoOverdraw, RowsValid, RowsUnderWay, DecisionsAgree,
      Creating, InConfirm, InRelease, LocksOwned, HoldsRow, Valid
<1> QED
  BY <1>1, <1>2, <1>3

\* confirm, locking the transfer row.
LEMMA ConfirmRightCodeKeeps ==
  ASSUME IInv, NEW w \in Workers, NEW t \in Transfers, ConfirmRightCode(w, t)
  PROVE  IInv'
<1> USE DEF IInv, ConfirmRightCode, LockRow, RowFree, Begin, accountVars, transferVars,
    lockVars, requestVars
<1>1. TypeOK'
  BY ConstantsAssumption DEF TypeOK, Labels, AccountStatuses, Statuses, Reviews
<1>2. LocksOwned' /\ SeenIsCurrent'
  BY ConstantsAssumption, JobTyped DEF TypeOK, LocksOwned, SeenIsCurrent, HoldsRow,
      HoldsAccount, InConfirm, InRelease, RowsUnderWay, Low, High, Row
<1>3. NoOverdraw' /\ RowsValid' /\ RowsUnderWay' /\ DecisionsAgree'
  BY ConstantsAssumption DEF TypeOK, NoOverdraw, RowsValid, RowsUnderWay, DecisionsAgree,
      Creating, InConfirm, InRelease, LocksOwned, HoldsRow, Valid
<1> QED
  BY <1>1, <1>2, <1>3

\* confirm, locking the lower account.
LEMMA ConfirmLockLowKeeps ==
  ASSUME IInv, NEW w \in Workers, ConfirmLockLow(w)
  PROVE  IInv'
<1> USE DEF IInv, ConfirmLockLow, LockAccount, AccountFree, accountVars, transferVars,
    lockVars, requestVars
<1>1. TypeOK'
  BY SeenTyped, JobTyped, ConstantsAssumption DEF TypeOK, Labels, AccountStatuses,
      Statuses, Reviews
<1>2. LocksOwned' /\ SeenIsCurrent'
  <2>1. pc[w] = "confirmLow" /\ pc'[w] = "confirmHigh" /\ job'[w] = job[w] /\ job[w] \in
      Transfers /\ Valid(job[w])
    BY DEF TypeOK, RowsUnderWay, RowsValid, InConfirm, InRelease
  <2>2. \A b \in Accounts : HoldsAccount(w, b)' <=> HoldsAccount(w, b) \/ b = Low(job[w])
    BY <2>1, TwoEnds DEF HoldsAccount, Low, High
  <2>3. \A t \in Transfers : HoldsRow(w, t)' <=> HoldsRow(w, t)
    BY <2>1 DEF HoldsRow, InConfirm, InRelease
  <2>4. LockAccount(w, Low(job[w]), "confirmLow", "confirmHigh")
    BY DEF ConfirmLockLow
  <2> QED
    BY <2>1, <2>2, <2>3, <2>4, TwoEnds, LockStep DEF Labels
<1>3. NoOverdraw' /\ RowsValid' /\ RowsUnderWay' /\ DecisionsAgree'
  BY ConstantsAssumption DEF TypeOK, NoOverdraw, RowsValid, RowsUnderWay, DecisionsAgree,
      Creating, InConfirm, InRelease, LocksOwned, HoldsRow, Valid
<1> QED
  BY <1>1, <1>2, <1>3

\* confirm, locking the higher account.
LEMMA ConfirmLockHighKeeps ==
  ASSUME IInv, NEW w \in Workers, ConfirmLockHigh(w)
  PROVE  IInv'
<1> USE DEF IInv, ConfirmLockHigh, LockAccount, AccountFree, accountVars, transferVars,
    lockVars, requestVars
<1>1. TypeOK'
  BY SeenTyped, JobTyped, ConstantsAssumption DEF TypeOK, Labels, AccountStatuses,
      Statuses, Reviews
<1>2. LocksOwned' /\ SeenIsCurrent'
  <2>1. pc[w] = "confirmHigh" /\ pc'[w] = "confirmDecide" /\ job'[w] = job[w] /\ job[w]
      \in Transfers /\ Valid(job[w])
    BY DEF TypeOK, RowsUnderWay, RowsValid, InConfirm, InRelease
  <2>2. \A b \in Accounts : HoldsAccount(w, b)' <=> HoldsAccount(w, b) \/ b = High(job[w])
    BY <2>1, TwoEnds DEF HoldsAccount, Low, High
  <2>3. \A t \in Transfers : HoldsRow(w, t)' <=> HoldsRow(w, t)
    BY <2>1 DEF HoldsRow, InConfirm, InRelease
  <2>4. LockAccount(w, High(job[w]), "confirmHigh", "confirmDecide")
    BY DEF ConfirmLockHigh
  <2> QED
    BY <2>1, <2>2, <2>3, <2>4, TwoEnds, LockStep DEF Labels
<1>3. NoOverdraw' /\ RowsValid' /\ RowsUnderWay' /\ DecisionsAgree'
  BY ConstantsAssumption DEF TypeOK, NoOverdraw, RowsValid, RowsUnderWay, DecisionsAgree,
      Creating, InConfirm, InRelease, LocksOwned, HoldsRow, Valid
<1> QED
  BY <1>1, <1>2, <1>3

\* confirm, an account not active.
LEMMA ConfirmInactiveKeeps ==
  ASSUME IInv, NEW w \in Workers, ConfirmInactive(w)
  PROVE  IInv'
<1> USE DEF IInv, ConfirmInactive, accountVars, transferVars, lockVars, requestVars
<1>1. TypeOK'
  BY FinishTyped, JobTyped, ConstantsAssumption DEF Unlock, TypeOK, Labels,
      AccountStatuses, Statuses, Reviews
<1>2. LocksOwned' /\ SeenIsCurrent'
  BY CommitStep DEF Finish, TypeOK, Row, InConfirm, InRelease
<1>3. NoOverdraw' /\ RowsValid' /\ RowsUnderWay' /\ DecisionsAgree'
  BY ConstantsAssumption DEF Finish, Unlock, TypeOK, NoOverdraw, RowsValid, RowsUnderWay,
      DecisionsAgree, Creating, InConfirm, InRelease, LocksOwned, HoldsRow, Valid
<1> QED
  BY <1>1, <1>2, <1>3

\* confirm, insufficient funds.
LEMMA ConfirmOverdraftKeeps ==
  ASSUME IInv, NEW w \in Workers, ConfirmOverdraft(w)
  PROVE  IInv'
<1> USE DEF IInv, ConfirmOverdraft, Goto, accountVars, transferVars, lockVars, requestVars
<1>1. TypeOK'
  BY JobTyped, ConstantsAssumption DEF Unlock, TypeOK, Labels, AccountStatuses, Statuses,
      Reviews
<1>2. LocksOwned' /\ SeenIsCurrent'
  BY CommitStep DEF TypeOK, Row, InConfirm, InRelease
<1>3. NoOverdraw' /\ RowsValid' /\ RowsUnderWay' /\ DecisionsAgree'
  BY ConstantsAssumption DEF Unlock, TypeOK, NoOverdraw, RowsValid, RowsUnderWay,
      DecisionsAgree, Creating, InConfirm, InRelease, LocksOwned, HoldsRow, Valid
<1> QED
  BY <1>1, <1>2, <1>3

\* confirm, funds claimed by held transfers.
LEMMA ConfirmEarmarkedKeeps ==
  ASSUME IInv, NEW w \in Workers, ConfirmEarmarked(w)
  PROVE  IInv'
<1> USE DEF IInv, ConfirmEarmarked, accountVars, transferVars, lockVars, requestVars
<1>1. TypeOK'
  BY FinishTyped, JobTyped, ConstantsAssumption DEF Unlock, TypeOK, Labels,
      AccountStatuses, Statuses, Reviews
<1>2. LocksOwned' /\ SeenIsCurrent'
  BY CommitStep DEF Finish, TypeOK, Row, InConfirm, InRelease
<1>3. NoOverdraw' /\ RowsValid' /\ RowsUnderWay' /\ DecisionsAgree'
  BY ConstantsAssumption DEF Finish, Unlock, TypeOK, NoOverdraw, RowsValid, RowsUnderWay,
      DecisionsAgree, Creating, InConfirm, InRelease, LocksOwned, HoldsRow, Valid
<1> QED
  BY <1>1, <1>2, <1>3

\* confirm, parked by a fraud rule.
LEMMA ConfirmHoldKeeps ==
  ASSUME IInv, NEW w \in Workers, ConfirmHold(w)
  PROVE  IInv'
<1> USE DEF IInv, ConfirmHold, Payable, accountVars, transferVars, lockVars, requestVars
<1>1. TypeOK'
  BY FinishTyped, JobTyped, ConstantsAssumption DEF Unlock, TypeOK, Labels,
      AccountStatuses, Statuses, Reviews
<1>2. LocksOwned' /\ SeenIsCurrent'
  BY CommitStep DEF Finish, TypeOK, Row, InConfirm, InRelease
<1>3. NoOverdraw' /\ RowsValid' /\ RowsUnderWay' /\ DecisionsAgree'
  BY ConstantsAssumption DEF Finish, Unlock, TypeOK, NoOverdraw, RowsValid, RowsUnderWay,
      DecisionsAgree, Creating, InConfirm, InRelease, LocksOwned, HoldsRow, Valid
<1> QED
  BY <1>1, <1>2, <1>3

\* confirm, moving the money it saw under the lock.
LEMMA ConfirmPayKeeps ==
  ASSUME IInv, NEW w \in Workers, ConfirmPay(w)
  PROVE  IInv'
<1> USE DEF IInv, ConfirmPay, Payable, MoveMoney, accountVars, transferVars, lockVars,
    requestVars
<1>1. job[w] \in Transfers /\ Valid(job[w])
  BY JobTyped DEF RowsValid, RowsUnderWay, InConfirm, InRelease
<1>2. Amount[job[w]] <= balance[From[job[w]]]
  <2>1. HoldsAccount(w, From[job[w]]) /\ From[job[w]] \in Accounts
    BY JobTyped DEF HoldsAccount
  <2>2. Source(w) = Row(From[job[w]])
    BY <2>1 DEF SeenIsCurrent, Source
  <2> QED
    BY <2>2 DEF Row
<1>3. TypeOK'
  BY <1>1, <1>2, MoveMoneyKeeps, FinishTyped DEF Unlock, TypeOK, Labels, AccountStatuses,
      Statuses, Reviews
<1>4. ASSUME NEW a \in Accounts, accountLock[a] \in Workers \ {w}
      PROVE  Row(a)' = Row(a)
  <2>1. ~HoldsAccount(w, a)
    BY <1>4 DEF LocksOwned
  <2>2. a # From[job[w]] /\ a # To[job[w]]
    BY <2>1 DEF HoldsAccount
  <2> QED
    BY <1>1, <2>2, ConstantsAssumption DEF Row, TypeOK
<1>5. LocksOwned' /\ SeenIsCurrent'
  BY CommitStep, <1>4 DEF Finish, TypeOK, Row, InConfirm, InRelease
<1>6. NoOverdraw'
  BY <1>1, <1>2, MoveMoneyKeeps
<1>7. RowsValid' /\ RowsUnderWay' /\ DecisionsAgree'
  BY <1>1, ConstantsAssumption DEF Finish, Unlock, TypeOK, RowsValid, RowsUnderWay,
      DecisionsAgree, Creating, InConfirm, InRelease, LocksOwned, HoldsRow, Valid
<1> QED
  BY <1>3, <1>5, <1>6, <1>7

-----------------------------------------------------------------------------
\* submit_review, release, deny

\* submit_review, its reading.
LEMMA ReviewReadKeeps ==
  ASSUME IInv, NEW w \in Workers, NEW t \in Transfers, ReviewRead(w, t)
  PROVE  IInv'
<1> USE DEF IInv, ReviewRead, Begin, accountVars, transferVars, lockVars, requestVars
<1>1. TypeOK'
  BY ConstantsAssumption DEF TypeOK, Labels, AccountStatuses, Statuses, Reviews
<1>2. LocksOwned' /\ SeenIsCurrent'
  BY LocklessStep DEF TypeOK, Row, InConfirm, InRelease
<1>3. NoOverdraw' /\ RowsValid' /\ RowsUnderWay' /\ DecisionsAgree'
  BY ConstantsAssumption DEF TypeOK, NoOverdraw, RowsValid, RowsUnderWay, DecisionsAgree,
      Creating, InConfirm, InRelease, LocksOwned, HoldsRow, Valid
<1> QED
  BY <1>1, <1>2, <1>3

\* submit_review, its insert: late or not, never on a row paid without review.
LEMMA FileReviewKeeps ==
  ASSUME IInv, NEW w \in Workers, FileReview(w)
  PROVE  IInv'
<1> USE DEF IInv, FileReview, RowFree, accountVars, transferVars, lockVars, requestVars
<1>1. TypeOK'
  BY FinishTyped, JobTyped, ConstantsAssumption DEF TypeOK, Labels, AccountStatuses,
      Statuses, Reviews
<1>2. LocksOwned' /\ SeenIsCurrent'
  BY LocklessStep DEF Finish, TypeOK, Row, InConfirm, InRelease
<1>3. NoOverdraw' /\ RowsValid' /\ RowsUnderWay' /\ DecisionsAgree'
  BY ConstantsAssumption DEF Finish, TypeOK, NoOverdraw, RowsValid, RowsUnderWay,
      DecisionsAgree, Creating, InConfirm, InRelease, LocksOwned, HoldsRow, Valid
<1> QED
  BY <1>1, <1>2, <1>3

\* release, locking the transfer row and its review.
LEMMA ReleaseStartKeeps ==
  ASSUME IInv, NEW w \in Workers, NEW t \in Transfers, ReleaseStart(w, t)
  PROVE  IInv'
<1> USE DEF IInv, ReleaseStart, LockRow, RowFree, Begin, accountVars, transferVars,
    lockVars, requestVars
<1>1. TypeOK'
  BY ConstantsAssumption DEF TypeOK, Labels, AccountStatuses, Statuses, Reviews
<1>2. LocksOwned' /\ SeenIsCurrent'
  BY ConstantsAssumption, JobTyped DEF TypeOK, LocksOwned, SeenIsCurrent, HoldsRow,
      HoldsAccount, InConfirm, InRelease, RowsUnderWay, Low, High, Row
<1>3. NoOverdraw' /\ RowsValid' /\ RowsUnderWay' /\ DecisionsAgree'
  BY ConstantsAssumption DEF TypeOK, NoOverdraw, RowsValid, RowsUnderWay, DecisionsAgree,
      Creating, InConfirm, InRelease, LocksOwned, HoldsRow, Valid
<1> QED
  BY <1>1, <1>2, <1>3

\* release, locking the lower account.
LEMMA ReleaseLockLowKeeps ==
  ASSUME IInv, NEW w \in Workers, ReleaseLockLow(w)
  PROVE  IInv'
<1> USE DEF IInv, ReleaseLockLow, LockAccount, AccountFree, accountVars, transferVars,
    lockVars, requestVars
<1>1. TypeOK'
  BY SeenTyped, JobTyped, ConstantsAssumption DEF TypeOK, Labels, AccountStatuses,
      Statuses, Reviews
<1>2. LocksOwned' /\ SeenIsCurrent'
  <2>1. pc[w] = "releaseLow" /\ pc'[w] = "releaseHigh" /\ job'[w] = job[w] /\ job[w] \in
      Transfers /\ Valid(job[w])
    BY DEF TypeOK, RowsUnderWay, RowsValid, InConfirm, InRelease
  <2>2. \A b \in Accounts : HoldsAccount(w, b)' <=> HoldsAccount(w, b) \/ b = Low(job[w])
    BY <2>1, TwoEnds DEF HoldsAccount, Low, High
  <2>3. \A t \in Transfers : HoldsRow(w, t)' <=> HoldsRow(w, t)
    BY <2>1 DEF HoldsRow, InConfirm, InRelease
  <2>4. LockAccount(w, Low(job[w]), "releaseLow", "releaseHigh")
    BY DEF ReleaseLockLow
  <2> QED
    BY <2>1, <2>2, <2>3, <2>4, TwoEnds, LockStep DEF Labels
<1>3. NoOverdraw' /\ RowsValid' /\ RowsUnderWay' /\ DecisionsAgree'
  BY ConstantsAssumption DEF TypeOK, NoOverdraw, RowsValid, RowsUnderWay, DecisionsAgree,
      Creating, InConfirm, InRelease, LocksOwned, HoldsRow, Valid
<1> QED
  BY <1>1, <1>2, <1>3

\* release, locking the higher account.
LEMMA ReleaseLockHighKeeps ==
  ASSUME IInv, NEW w \in Workers, ReleaseLockHigh(w)
  PROVE  IInv'
<1> USE DEF IInv, ReleaseLockHigh, LockAccount, AccountFree, accountVars, transferVars,
    lockVars, requestVars
<1>1. TypeOK'
  BY SeenTyped, JobTyped, ConstantsAssumption DEF TypeOK, Labels, AccountStatuses,
      Statuses, Reviews
<1>2. LocksOwned' /\ SeenIsCurrent'
  <2>1. pc[w] = "releaseHigh" /\ pc'[w] = "releaseDecide" /\ job'[w] = job[w] /\ job[w]
      \in Transfers /\ Valid(job[w])
    BY DEF TypeOK, RowsUnderWay, RowsValid, InConfirm, InRelease
  <2>2. \A b \in Accounts : HoldsAccount(w, b)' <=> HoldsAccount(w, b) \/ b = High(job[w])
    BY <2>1, TwoEnds DEF HoldsAccount, Low, High
  <2>3. \A t \in Transfers : HoldsRow(w, t)' <=> HoldsRow(w, t)
    BY <2>1 DEF HoldsRow, InConfirm, InRelease
  <2>4. LockAccount(w, High(job[w]), "releaseHigh", "releaseDecide")
    BY DEF ReleaseLockHigh
  <2> QED
    BY <2>1, <2>2, <2>3, <2>4, TwoEnds, LockStep DEF Labels
<1>3. NoOverdraw' /\ RowsValid' /\ RowsUnderWay' /\ DecisionsAgree'
  BY ConstantsAssumption DEF TypeOK, NoOverdraw, RowsValid, RowsUnderWay, DecisionsAgree,
      Creating, InConfirm, InRelease, LocksOwned, HoldsRow, Valid
<1> QED
  BY <1>1, <1>2, <1>3

\* release of a transfer that cannot be paid any more.
LEMMA ReleaseFailKeeps ==
  ASSUME IInv, NEW w \in Workers, ReleaseFail(w)
  PROVE  IInv'
<1> USE DEF IInv, ReleaseFail, accountVars, transferVars, lockVars, requestVars
<1>1. TypeOK'
  BY FinishTyped, JobTyped, ConstantsAssumption DEF Unlock, TypeOK, Labels,
      AccountStatuses, Statuses, Reviews
<1>2. LocksOwned' /\ SeenIsCurrent'
  BY CommitStep DEF Finish, TypeOK, Row, InConfirm, InRelease
<1>3. NoOverdraw' /\ RowsValid' /\ RowsUnderWay' /\ DecisionsAgree'
  BY ConstantsAssumption DEF Finish, Unlock, TypeOK, NoOverdraw, RowsValid, RowsUnderWay,
      DecisionsAgree, Creating, InConfirm, InRelease, LocksOwned, HoldsRow, Valid
<1> QED
  BY <1>1, <1>2, <1>3

\* release, moving the money it saw under the lock.
LEMMA ReleasePayKeeps ==
  ASSUME IInv, NEW w \in Workers, ReleasePay(w)
  PROVE  IInv'
<1> USE DEF IInv, ReleasePay, MoveMoney, accountVars, transferVars, lockVars, requestVars
<1>1. job[w] \in Transfers /\ Valid(job[w])
  BY JobTyped DEF RowsValid, RowsUnderWay, InConfirm, InRelease
<1>2. Amount[job[w]] <= balance[From[job[w]]]
  <2>1. HoldsAccount(w, From[job[w]]) /\ From[job[w]] \in Accounts
    BY JobTyped DEF HoldsAccount
  <2>2. Source(w) = Row(From[job[w]])
    BY <2>1 DEF SeenIsCurrent, Source
  <2> QED
    BY <2>2 DEF Releasable, Row
<1>3. TypeOK'
  BY <1>1, <1>2, MoveMoneyKeeps, FinishTyped DEF Unlock, TypeOK, Labels, AccountStatuses,
      Statuses, Reviews
<1>4. ASSUME NEW a \in Accounts, accountLock[a] \in Workers \ {w}
      PROVE  Row(a)' = Row(a)
  <2>1. ~HoldsAccount(w, a)
    BY <1>4 DEF LocksOwned
  <2>2. a # From[job[w]] /\ a # To[job[w]]
    BY <2>1 DEF HoldsAccount
  <2> QED
    BY <1>1, <2>2, ConstantsAssumption DEF Row, TypeOK
<1>5. LocksOwned' /\ SeenIsCurrent'
  BY CommitStep, <1>4 DEF Finish, TypeOK, Row, InConfirm, InRelease
<1>6. NoOverdraw'
  BY <1>1, <1>2, MoveMoneyKeeps
<1>7. RowsValid' /\ RowsUnderWay' /\ DecisionsAgree'
  BY <1>1, ConstantsAssumption DEF Finish, Unlock, TypeOK, RowsValid, RowsUnderWay,
      DecisionsAgree, Creating, InConfirm, InRelease, LocksOwned, HoldsRow, Valid
<1> QED
  BY <1>3, <1>5, <1>6, <1>7

\* deny, its first statement: it waits for the transfer row.
LEMMA DenyTransferKeeps ==
  ASSUME IInv, NEW w \in Workers, NEW t \in Transfers, DenyTransfer(w, t)
  PROVE  IInv'
<1> USE DEF IInv, DenyTransfer, RowFree, Begin, accountVars, transferVars, lockVars,
    requestVars
<1>1. TypeOK'
  BY ConstantsAssumption DEF TypeOK, Labels, AccountStatuses, Statuses, Reviews
<1>2. LocksOwned' /\ SeenIsCurrent'
  BY LocklessStep DEF TypeOK, Row, InConfirm, InRelease
<1>3. NoOverdraw' /\ RowsValid' /\ RowsUnderWay' /\ DecisionsAgree'
  BY ConstantsAssumption DEF TypeOK, NoOverdraw, RowsValid, RowsUnderWay, DecisionsAgree,
      Creating, InConfirm, InRelease, LocksOwned, HoldsRow, Valid
<1> QED
  BY <1>1, <1>2, <1>3

\* deny, its second statement.
LEMMA CloseReviewKeeps ==
  ASSUME IInv, NEW w \in Workers, CloseReview(w)
  PROVE  IInv'
<1> USE DEF IInv, CloseReview, accountVars, transferVars, lockVars, requestVars
<1>1. TypeOK'
  BY FinishTyped, JobTyped, ConstantsAssumption DEF TypeOK, Labels, AccountStatuses,
      Statuses, Reviews
<1>2. LocksOwned' /\ SeenIsCurrent'
  BY LocklessStep DEF Finish, TypeOK, Row, InConfirm, InRelease
<1>3. NoOverdraw' /\ RowsValid' /\ RowsUnderWay' /\ DecisionsAgree'
  BY ConstantsAssumption DEF Finish, TypeOK, NoOverdraw, RowsValid, RowsUnderWay,
      DecisionsAgree, Creating, InConfirm, InRelease, LocksOwned, HoldsRow, Valid
<1> QED
  BY <1>1, <1>2, <1>3

-----------------------------------------------------------------------------
\* Everything else that moves

\* a request cut short: its locks are freed.
LEMMA AbortKeeps ==
  ASSUME IInv, NEW w \in Workers, Abort(w)
  PROVE  IInv'
<1> USE DEF IInv, Abort, accountVars, transferVars, lockVars, requestVars
<1>1. TypeOK'
  BY FinishTyped, ConstantsAssumption DEF Unlock, TypeOK, Labels, AccountStatuses,
      Statuses, Reviews
<1>2. LocksOwned' /\ SeenIsCurrent'
  BY CommitStep DEF Finish, TypeOK, Row, InConfirm, InRelease
<1>3. NoOverdraw' /\ RowsValid' /\ RowsUnderWay' /\ DecisionsAgree'
  BY ConstantsAssumption DEF Finish, Unlock, TypeOK, NoOverdraw, RowsValid, RowsUnderWay,
      DecisionsAgree, Creating, InConfirm, InRelease, LocksOwned, HoldsRow, Valid
<1> QED
  BY <1>1, <1>2, <1>3

\* freeze_account: it waits for the account lock.
LEMMA FreezeKeeps ==
  ASSUME IInv, NEW a \in Accounts, Freeze(a)
  PROVE  IInv'
<1> USE DEF IInv, Freeze, AccountFree, accountVars, transferVars, lockVars, requestVars
<1>1. TypeOK'
  BY ConstantsAssumption DEF TypeOK, Labels, AccountStatuses, Statuses, Reviews
<1>2. LocksOwned' /\ SeenIsCurrent'
  BY ConstantsAssumption, JobTyped DEF TypeOK, LocksOwned, SeenIsCurrent, HoldsRow,
      HoldsAccount, InConfirm, InRelease, RowsUnderWay, Low, High, Row
<1>3. NoOverdraw' /\ RowsValid' /\ RowsUnderWay' /\ DecisionsAgree'
  BY ConstantsAssumption DEF TypeOK, NoOverdraw, RowsValid, RowsUnderWay, DecisionsAgree,
      Creating, InConfirm, InRelease, LocksOwned, HoldsRow, Valid
<1> QED
  BY <1>1, <1>2, <1>3

\* unfreeze_account: it waits for the account lock.
LEMMA UnfreezeKeeps ==
  ASSUME IInv, NEW a \in Accounts, Unfreeze(a)
  PROVE  IInv'
<1> USE DEF IInv, Unfreeze, AccountFree, accountVars, transferVars, lockVars, requestVars
<1>1. TypeOK'
  BY ConstantsAssumption DEF TypeOK, Labels, AccountStatuses, Statuses, Reviews
<1>2. LocksOwned' /\ SeenIsCurrent'
  BY ConstantsAssumption, JobTyped DEF TypeOK, LocksOwned, SeenIsCurrent, HoldsRow,
      HoldsAccount, InConfirm, InRelease, RowsUnderWay, Low, High, Row
<1>3. NoOverdraw' /\ RowsValid' /\ RowsUnderWay' /\ DecisionsAgree'
  BY ConstantsAssumption DEF TypeOK, NoOverdraw, RowsValid, RowsUnderWay, DecisionsAgree,
      Creating, InConfirm, InRelease, LocksOwned, HoldsRow, Valid
<1> QED
  BY <1>1, <1>2, <1>3

\* a token of the rate limiter expires.
LEMMA TokenExpiresKeeps ==
  ASSUME IInv, NEW a \in Accounts, TokenExpires(a)
  PROVE  IInv'
<1> USE DEF IInv, TokenExpires, accountVars, transferVars, lockVars, requestVars
<1>1. TypeOK'
  BY ConstantsAssumption DEF TypeOK, Labels, AccountStatuses, Statuses, Reviews
<1>2. LocksOwned' /\ SeenIsCurrent'
  BY ConstantsAssumption, JobTyped DEF TypeOK, LocksOwned, SeenIsCurrent, HoldsRow,
      HoldsAccount, InConfirm, InRelease, RowsUnderWay, Low, High, Row
<1>3. NoOverdraw' /\ RowsValid' /\ RowsUnderWay' /\ DecisionsAgree'
  BY ConstantsAssumption DEF TypeOK, NoOverdraw, RowsValid, RowsUnderWay, DecisionsAgree,
      Creating, InConfirm, InRelease, LocksOwned, HoldsRow, Valid
<1> QED
  BY <1>1, <1>2, <1>3

\* time passes.
LEMMA TickKeeps ==
  ASSUME IInv, Tick
  PROVE  IInv'
<1> USE DEF IInv, Tick, accountVars, transferVars, lockVars, requestVars
<1>1. TypeOK'
  BY ConstantsAssumption DEF TypeOK, Labels, AccountStatuses, Statuses, Reviews
<1>2. LocksOwned' /\ SeenIsCurrent'
  BY ConstantsAssumption, JobTyped DEF TypeOK, LocksOwned, SeenIsCurrent, HoldsRow,
      HoldsAccount, InConfirm, InRelease, RowsUnderWay, Low, High, Row
<1>3. NoOverdraw' /\ RowsValid' /\ RowsUnderWay' /\ DecisionsAgree'
  BY ConstantsAssumption DEF TypeOK, NoOverdraw, RowsValid, RowsUnderWay, DecisionsAgree,
      Creating, InConfirm, InRelease, LocksOwned, HoldsRow, Valid
<1> QED
  BY <1>1, <1>2, <1>3

-----------------------------------------------------------------------------
\* The theorems

\* A stuttering step changes nothing the invariant reads.
LEMMA StutterKeeps ==
  ASSUME IInv, UNCHANGED vars
  PROVE  IInv'
<1> USE DEF IInv, vars, accountVars, transferVars, lockVars, requestVars
<1>1. TypeOK' /\ NoOverdraw'
  BY DEF TypeOK, NoOverdraw
<1>2. LocksOwned' /\ SeenIsCurrent'
  BY DEF LocksOwned, SeenIsCurrent, HoldsRow, HoldsAccount, Row
<1>3. RowsValid' /\ RowsUnderWay' /\ DecisionsAgree'
  BY DEF RowsValid, RowsUnderWay, DecisionsAgree
<1> QED
  BY <1>1, <1>2, <1>3

\* Every step of the service keeps the invariant.
LEMMA NextIInv ==
  ASSUME IInv, [Next]_vars
  PROVE  IInv'
<1>1. CASE \E w \in Workers : Continue(w) \/ Abort(w)
  <2>1. PICK w \in Workers : Continue(w) \/ Abort(w)
    BY <1>1
  <2>2. CASE CreateMarkApplied(w) \/ CreateReadFunds(w) \/ CreateRecordOverdraft(w)
    BY <2>2, CreateMarkAppliedKeeps, CreateReadFundsKeeps, CreateRecordOverdraftKeeps
  <2>3. CASE CreateCheckAvailable(w) \/ CreateCheckRate(w) \/ CreatePostPending(w)
    BY <2>3, CreateCheckAvailableKeeps, CreateCheckRateKeeps, CreatePostPendingKeeps
  <2>4. CASE CountOverdrafts(w) \/ AutoFreeze(w)
    BY <2>4, CountOverdraftsKeeps, AutoFreezeKeeps
  <2>5. CASE ConfirmLockLow(w) \/ ConfirmLockHigh(w)
    BY <2>5, ConfirmLockLowKeeps, ConfirmLockHighKeeps
  <2>6. CASE ConfirmInactive(w) \/ ConfirmOverdraft(w) \/ ConfirmEarmarked(w)
    BY <2>6, ConfirmInactiveKeeps, ConfirmOverdraftKeeps, ConfirmEarmarkedKeeps
  <2>7. CASE ConfirmHold(w) \/ ConfirmPay(w)
    BY <2>7, ConfirmHoldKeeps, ConfirmPayKeeps
  <2>8. CASE ReleaseLockLow(w) \/ ReleaseLockHigh(w) \/ ReleaseFail(w) \/ ReleasePay(w)
    BY <2>8, ReleaseLockLowKeeps, ReleaseLockHighKeeps, ReleaseFailKeeps, ReleasePayKeeps
  <2>9. CASE FileReview(w) \/ CloseReview(w) \/ Abort(w)
    BY <2>9, FileReviewKeeps, CloseReviewKeeps, AbortKeeps
  <2> QED
    BY <2>1, <2>2, <2>3, <2>4, <2>5, <2>6, <2>7, <2>8, <2>9 DEF Continue
<1>2. CASE \E w \in Workers, t \in Transfers : Request(w, t)
  BY <1>2, CreatePromoteKeeps, ConfirmRightCodeKeeps, ReviewReadKeeps, ReleaseStartKeeps,
     DenyTransferKeeps DEF Request
<1>3. CASE \E t \in Transfers : ConfirmExpired(t) \/ ConfirmWrongCode(t)
  BY <1>3, ConfirmExpiredKeeps, ConfirmWrongCodeKeeps
<1>4. CASE \E a \in Accounts : Freeze(a) \/ Unfreeze(a) \/ TokenExpires(a)
  BY <1>4, FreezeKeeps, UnfreezeKeeps, TokenExpiresKeeps
<1>5. CASE Tick
  BY <1>5, TickKeeps
<1>6. CASE UNCHANGED vars
  BY <1>6, StutterKeeps
<1> QED
  BY <1>1, <1>2, <1>3, <1>4, <1>5, <1>6 DEF Next

\* The inductive invariant holds in every reachable state.
THEOREM Inductive == Spec => []IInv
<1> QED
  BY InitIInv, NextIInv, PTL DEF Spec

\* Type correctness.
THEOREM TypeCorrect == Spec => []TypeOK
<1>1. IInv => TypeOK
  BY DEF IInv
<1> QED
  BY <1>1, Inductive, PTL

\* No interleaving of creates, confirms, releases, freezes and crashes
\* overdraws an account.
THEOREM NeverOverdrawn == Spec => []NoOverdraw
<1>1. IInv => NoOverdraw
  BY DEF IInv
<1> QED
  BY <1>1, Inductive, PTL

\* A review and its transfer never tell different stories.
THEOREM ReviewsAgree == Spec => []DecisionsAgree
<1>1. IInv => DecisionsAgree
  BY DEF IInv
<1> QED
  BY <1>1, Inductive, PTL

-----------------------------------------------------------------------------
\* Steps that move money, and the refinement of TransferLedger

\* What a worker that has locked both accounts and found them active, with
\* enough in the source, knows of the accounts as they are now.
LEMMA DecideKnows ==
  ASSUME IInv, NEW w \in Workers, pc[w] \in {"confirmDecide", "releaseDecide"}
  PROVE  /\ job[w] \in Transfers
         /\ Valid(job[w])
         /\ Source(w) = Row(From[job[w]])
         /\ Destination(w) = Row(To[job[w]])
<1>1. /\ job[w] \in Transfers
      /\ From[job[w]] \in Accounts
      /\ To[job[w]] \in Accounts
  BY JobTyped
<1>2. Valid(job[w])
  BY <1>1 DEF IInv, RowsValid, RowsUnderWay, InConfirm, InRelease
<1>3. HoldsAccount(w, From[job[w]]) /\ HoldsAccount(w, To[job[w]])
  BY DEF HoldsAccount
<1>4. Source(w) = Row(From[job[w]]) /\ Destination(w) = Row(To[job[w]])
  BY <1>1, <1>3 DEF IInv, SeenIsCurrent, Source, Destination
<1> QED
  BY <1>1, <1>2, <1>4

\* Which steps touch a balance or a status, and how: everything else is a
\* step the ledger does not see.
LEMMA MoneySteps ==
  ASSUME Next
  PROVE  \/ UNCHANGED <<balance, status>>
         \/ \E w \in Workers :
               \/ CreateRecordOverdraft(w) \/ CreatePostPending(w)
               \/ ConfirmInactive(w) \/ ConfirmOverdraft(w) \/ ConfirmEarmarked(w)
               \/ ConfirmHold(w) \/ ConfirmPay(w) \/ ReleaseFail(w) \/ ReleasePay(w)
         \/ \E w \in Workers, t \in Transfers : DenyTransfer(w, t)
         \/ \E t \in Transfers : ConfirmExpired(t) \/ ConfirmWrongCode(t)
<1> USE DEF accountVars, transferVars
<1>1. CASE \E w \in Workers : Continue(w) \/ Abort(w)
  BY <1>1 DEF Continue, Abort, CreateMarkApplied, CreateReadFunds, CreateCheckAvailable,
      CreateCheckRate,
     CountOverdrafts, AutoFreeze, ConfirmLockLow, ConfirmLockHigh, ReleaseLockLow,
         ReleaseLockHigh,
     LockAccount, FileReview, CloseReview
<1>2. CASE \E w \in Workers, t \in Transfers : Request(w, t)
  BY <1>2 DEF Request, CreatePromote, ConfirmRightCode, ReviewRead, ReleaseStart, LockRow
<1>3. CASE \E a \in Accounts : Freeze(a) \/ Unfreeze(a) \/ TokenExpires(a)
  BY <1>3 DEF Freeze, Unfreeze, TokenExpires
<1>4. CASE Tick
  BY <1>4 DEF Tick
<1> QED
  BY <1>1, <1>2, <1>3, <1>4 DEF Next

\* The two readings of "what other held rows have a claim on" are the same sum.
LEMMA SameHeld ==
  ASSUME NEW t \in Transfers
  PROVE  HeldElsewhere(t) = Ledger!HeldElsewhere(t)
<1> DEFINE S == {u \in Transfers \ {t} : From[u] = From[t] /\ status[u] \in {"on_hold"}}
           L == {u \in Transfers : From[u] = From[t] /\ status[u] = "on_hold" /\ u # t}
<1>1. S = L
  OBVIOUS
<1> HIDE DEF S, L
<1>2. MapThenSumSet(LAMBDA u : Amount[u], S) = MapThenSumSet(LAMBDA u : Amount[u], L)
  BY <1>1
<1>3. HeldElsewhere(t) = MapThenSumSet(LAMBDA u : Amount[u], S)
  BY DEF HeldElsewhere, Total, S
<1>4. Ledger!HeldElsewhere(t) = MapThenSumSet(LAMBDA u : Amount[u], L)
  BY DEF Ledger!HeldElsewhere, L, Ledger!MapThenSumSet, MapThenSumSet,
         Ledger!MapThenFoldSet, MapThenFoldSet
<1> QED
  BY <1>2, <1>3, <1>4

\* A payable transfer is within what the ledger calls available.
LEMMA PayableMaps ==
  ASSUME IInv, NEW w \in Workers, Payable(w)
  PROVE  /\ job[w] \in Transfers
         /\ Amount[job[w]] <= balance[From[job[w]]]
         /\ Amount[job[w]] <= Ledger!Available(job[w])
<1>1. job[w] \in Transfers /\ Source(w) = Row(From[job[w]])
  BY DecideKnows DEF Payable
<1>2. Source(w).balance = balance[From[job[w]]]
  BY <1>1 DEF Row
<1>3. HeldElsewhere(job[w]) = Ledger!HeldElsewhere(job[w])
  BY <1>1, SameHeld
<1> QED
  BY <1>1, <1>2, <1>3 DEF Payable, Ledger!Available

\* Every step of the service is a step of the ledger or leaves it alone.
LEMMA StepMaps ==
  ASSUME IInv, Next
  PROVE  Ledger!Next \/ UNCHANGED <<balance, status>>
<1>1. ASSUME NEW w \in Workers, CreateRecordOverdraft(w) \/ CreatePostPending(w)
      PROVE  Ledger!Post(job[w]) /\ job[w] \in Transfers
  BY <1>1 DEF CreateRecordOverdraft, CreatePostPending, IInv, RowsUnderWay, Creating,
      accountVars,
     Ledger!Post, Ledger!Valid, Valid
<1>2. ASSUME NEW w \in Workers,
             ConfirmInactive(w) \/ ConfirmOverdraft(w) \/ ConfirmEarmarked(w)
                 \/ ReleaseFail(w)
      PROVE  Ledger!Reject(job[w]) /\ job[w] \in Transfers
  BY <1>2 DEF ConfirmInactive, ConfirmOverdraft, ConfirmEarmarked, ReleaseFail, IInv,
      RowsUnderWay,
     InConfirm, InRelease, accountVars, Ledger!Reject
<1>3. ASSUME NEW w \in Workers, ConfirmHold(w)
      PROVE  Ledger!Hold(job[w]) /\ job[w] \in Transfers
  <2>1. status[job[w]] = "pending"
    BY <1>3 DEF ConfirmHold, Payable, IInv, RowsUnderWay, InConfirm
  <2> QED
    BY <1>3, <2>1, PayableMaps DEF ConfirmHold, Ledger!Hold, accountVars
<1>4. ASSUME NEW w \in Workers, ConfirmPay(w)
      PROVE  Ledger!Pay(job[w]) /\ job[w] \in Transfers
  <2>1. status[job[w]] = "pending"
    BY <1>4 DEF ConfirmPay, Payable, IInv, RowsUnderWay, InConfirm
  <2> QED
    BY <1>4, <2>1, PayableMaps DEF ConfirmPay, MoveMoney, Ledger!Pay
<1>5. ASSUME NEW w \in Workers, ReleasePay(w)
      PROVE  Ledger!Pay(job[w]) /\ job[w] \in Transfers
  <2>1. status[job[w]] = "on_hold"
    BY <1>5 DEF ReleasePay, IInv, RowsUnderWay, InRelease
  <2>2. job[w] \in Transfers /\ Source(w) = Row(From[job[w]])
    BY <1>5, DecideKnows DEF ReleasePay
  <2>3. Amount[job[w]] <= balance[From[job[w]]]
    BY <1>5, <2>2 DEF ReleasePay, Releasable, Row
  <2> QED
    BY <1>5, <2>1, <2>2, <2>3 DEF ReleasePay, MoveMoney, Ledger!Pay
<1>6. ASSUME NEW w \in Workers, NEW t \in Transfers, DenyTransfer(w, t)
      PROVE  Ledger!Reject(t)
  BY <1>6 DEF DenyTransfer, accountVars, Ledger!Reject
<1>7. ASSUME NEW t \in Transfers, ConfirmExpired(t) \/ ConfirmWrongCode(t)
      PROVE  Ledger!Reject(t) \/ UNCHANGED <<balance, status>>
  BY <1>7 DEF ConfirmExpired, ConfirmWrongCode, accountVars, Ledger!Reject
<1> QED
  BY <1>1, <1>2, <1>3, <1>4, <1>5, <1>6, <1>7, MoneySteps DEF Ledger!Next

\* The service implements the ledger: at most one payment per transfer, debit
\* and credit together, never out of money another held transfer waits for.
THEOREM Refinement == Spec => ImplementsLedger
<1>1. Init => Ledger!Init
  BY DEF Init, Ledger!Init
<1>2. ASSUME IInv, [Next]_vars
      PROVE  [Ledger!Next]_(Ledger!ledgerVars)
  BY <1>2, StepMaps DEF vars, accountVars, transferVars, Ledger!ledgerVars
<1> QED
  BY <1>1, <1>2, Inductive, PTL DEF Spec, ImplementsLedger, Ledger!Spec

\* A row that was paid or rejected is never touched again.
THEOREM SettledForGood == Spec => TerminalIsFinal
<1>1. ASSUME IInv, [Next]_vars, NEW t \in Transfers, status[t] \in Ledger!Terminal
      PROVE  status'[t] = status[t]
  <2>1. CASE UNCHANGED <<balance, status>>
    BY <2>1
  <2>2. CASE Ledger!Next
    <3>1. PICK u \in Transfers :
              Ledger!Post(u) \/ Ledger!Hold(u) \/ Ledger!Pay(u) \/ Ledger!Reject(u)
      BY <2>2 DEF Ledger!Next
    <3>2. u # t
      BY <1>1, <3>1 DEF Ledger!Post, Ledger!Hold, Ledger!Pay, Ledger!Reject, Ledger!Terminal
    <3>3. \E s : status' = [status EXCEPT ![u] = s]
      BY <3>1 DEF Ledger!Post, Ledger!Hold, Ledger!Pay, Ledger!Reject
    <3> QED
      BY <1>1, <3>2, <3>3 DEF IInv, TypeOK
  <2> QED
    BY <1>1, <2>1, <2>2, StepMaps DEF vars, accountVars, transferVars
<1>2. ASSUME IInv, [Next]_vars
      PROVE  [\A t \in Transfers :
                 status[t] \in Ledger!Terminal => status'[t] = status[t]]_(Ledger!ledgerVars)
  BY <1>1, <1>2
<1> QED
  BY <1>2, Inductive, PTL DEF Spec, TerminalIsFinal, Ledger!TerminalIsFinal

\* Only a payment completes a row, and it pays the row its worker has locked.
LEMMA OnlyPaymentsComplete ==
  ASSUME IInv, Next, NEW t \in Transfers, status[t] # "completed", status'[t] = "completed"
  PROVE  \E w \in Workers : (ConfirmPay(w) \/ ReleasePay(w)) /\ job[w] = t
<1>1. \E u \in Transfers : Ledger!Pay(u) /\ u = t
  BY StepMaps DEF IInv, TypeOK, Ledger!Next, Ledger!Post, Ledger!Hold, Ledger!Pay,
      Ledger!Reject
<1> QED
  BY MoneySteps DEF IInv, TypeOK, CreateRecordOverdraft, CreatePostPending,
      ConfirmInactive, ConfirmOverdraft,
     ConfirmEarmarked, ConfirmHold, ConfirmPay, ReleaseFail, ReleasePay, MoveMoney,
         DenyTransfer,
     ConfirmExpired, ConfirmWrongCode

\* Money moves only between accounts active at the moment it moves.
THEOREM ActivePayments == Spec => PaidBetweenActive
<1>1. ASSUME IInv, [Next]_vars, NEW t \in Transfers, status[t] # "completed", status'[t] =
    "completed"
      PROVE  accountStatus[From[t]] = "active" /\ accountStatus[To[t]] = "active"
  <2>1. CASE UNCHANGED vars
    BY <1>1, <2>1 DEF vars, transferVars
  <2>2. CASE Next
    <3>1. PICK w \in Workers : (ConfirmPay(w) \/ ReleasePay(w)) /\ job[w] = t
      BY <1>1, <2>2, OnlyPaymentsComplete
    <3>2. BothActive(w) /\ pc[w] \in {"confirmDecide", "releaseDecide"}
      BY <3>1 DEF ConfirmPay, Payable, ReleasePay, Releasable
    <3> QED
      BY <1>1, <3>1, <3>2, DecideKnows DEF BothActive, Row
  <2> QED
    BY <1>1, <2>1, <2>2
<1>2. ASSUME IInv, [Next]_vars
      PROVE  [\A t \in Transfers :
                 status[t] # "completed" /\ status'[t] = "completed" =>
                     accountStatus[From[t]] = "active" /\
                         accountStatus[To[t]] = "active"]_vars
  BY <1>1, <1>2
<1> QED
  BY <1>2, Inductive, PTL DEF Spec, PaidBetweenActive

-----------------------------------------------------------------------------
\* The money: sums over the ledger's rows

\* The rows parked for review at the expense of account a.
Parked(a) == {u \in Transfers : From[u] = a /\ status[u] = "on_hold"}

\* The ledger's sums in the notation of the lemmas above.
LEMMA LedgerSums ==
  /\ Ledger!Conserved <=> SumOver(balance, Accounts) = SumOver(OpeningBalance, Accounts)
  /\ Ledger!HeldCovered <=> \A a \in Accounts : SumOver(Amount, Parked(a)) <= balance[a]
  /\ \A t \in Transfers : Ledger!HeldElsewhere(t) = SumOver(Amount, Parked(From[t]) \ {t})
<1>1. Ledger!Conserved <=> SumOver(balance, Accounts) = SumOver(OpeningBalance, Accounts)
  BY Zenon DEF Ledger!Conserved, SumOver, Ledger!MapThenSumSet, MapThenSumSet,
         Ledger!MapThenFoldSet, MapThenFoldSet
<1>2. Ledger!HeldCovered <=> \A a \in Accounts : SumOver(Amount, Parked(a)) <= balance[a]
  BY Zenon DEF Ledger!HeldCovered, SumOver, Ledger!MapThenSumSet, MapThenSumSet,
         Ledger!MapThenFoldSet, MapThenFoldSet, Parked
<1>3. ASSUME NEW t \in Transfers
      PROVE  Ledger!HeldElsewhere(t) = SumOver(Amount, Parked(From[t]) \ {t})
  <2> DEFINE L == {u \in Transfers : From[u] = From[t] /\ status[u] = "on_hold" /\ u # t}
  <2>1. L = Parked(From[t]) \ {t}
    BY DEF Parked
  <2>2. Ledger!HeldElsewhere(t) = SumOver(Amount, L)
    BY Zenon DEF Ledger!HeldElsewhere, SumOver, Ledger!MapThenSumSet, MapThenSumSet,
           Ledger!MapThenFoldSet, MapThenFoldSet
  <2> QED
    BY <2>1, <2>2, Zenon
<1> QED
  BY <1>1, <1>2, <1>3

\* Parked rows of a finite table, with amounts.
LEMMA ParkedRows ==
  ASSUME NEW a \in Accounts
  PROVE  /\ IsFiniteSet(Parked(a))
         /\ \A u \in Parked(a) : u \in Transfers /\ Amount[u] \in Int
<1>1. Parked(a) \in SUBSET Transfers
  BY DEF Parked
<1>2. IsFiniteSet(Parked(a))
  BY <1>1, FiniteAssumption, FS_Subset
<1> QED
  BY <1>1, <1>2, ConstantsAssumption

\* A row that is parked, or stops being parked, weighs as much as its amount.
LEMMA ParkedWeight ==
  ASSUME NEW a \in Accounts, NEW t \in Parked(a)
  PROVE  /\ SumOver(Amount, Parked(a)) = Amount[t] + SumOver(Amount, Parked(a) \ {t})
         /\ SumOver(Amount, Parked(a)) \in Int
         /\ SumOver(Amount, Parked(a) \ {t}) \in Int
<1>1. IsFiniteSet(Parked(a)) /\ \A u \in Parked(a) : Amount[u] \in Int
  BY ParkedRows
<1>2. IsFiniteSet(Parked(a) \ {t}) /\ \A u \in Parked(a) \ {t} : Amount[u] \in Int
  BY <1>1, FS_RemoveElement
<1>3. SumOver(Amount, Parked(a)) = Amount[t] + SumOver(Amount, Parked(a) \ {t})
  BY <1>1, SumSplit
<1>4. SumOver(Amount, Parked(a)) \in Int
  BY <1>1, SumShift
<1>5. SumOver(Amount, Parked(a) \ {t}) \in Int
  BY <1>2, SumShift
<1> QED
  BY <1>3, <1>4, <1>5

\* A step that neither parks nor unparks a row of a, and takes nothing from it.
LEMMA UntouchedCovers ==
  ASSUME TypeOK, NEW a \in Accounts, Parked(a)' = Parked(a),
         SumOver(Amount, Parked(a)) <= balance[a], balance'[a] \in Int, balance[a] <= balance'[a]
  PROVE  SumOver(Amount, Parked(a)') <= balance'[a]
<1>1. SumOver(Amount, Parked(a)) \in Int
  BY ParkedRows, SumShift
<1>2. balance[a] \in Int
  BY DEF TypeOK
<1>3. SumOver(Amount, Parked(a)') = SumOver(Amount, Parked(a))
  BY Zenon
<1> QED
  BY <1>1, <1>2, <1>3

\* HeldCovered for one account.
HeldCoveredHere(a) == SumOver(Amount, Parked(a)) <= balance[a]

\* A row that becomes parked was measured against the others.
LEMMA HoldKeepsCovered ==
  ASSUME IInv, NEW t \in Transfers, Ledger!Hold(t), NEW a \in Accounts, HeldCoveredHere(a)
  PROVE  HeldCoveredHere(a)'
<1>1. /\ From[t] \in Accounts /\ Amount[t] \in Int
      /\ balance' = balance /\ balance[a] \in Int
      /\ status[t] = "pending" /\ status' = [status EXCEPT ![t] = "on_hold"]
  BY ConstantsAssumption DEF IInv, TypeOK, Ledger!Hold
<1>2. CASE a # From[t]
  <2>1. Parked(a)' = Parked(a)
    BY <1>1, <1>2 DEF Parked, IInv, TypeOK
  <2> QED
    BY <1>1, <2>1, UntouchedCovers DEF HeldCoveredHere, IInv
<1>3. CASE a = From[t]
  <2>1. t \in Parked(a)' /\ Parked(a)' \ {t} = Parked(a) /\ t \notin Parked(a)
    BY <1>1, <1>3 DEF Parked, IInv, TypeOK
  <2>2. SumOver(Amount, Parked(a)') = Amount[t] + SumOver(Amount, Parked(a))
    <3>1. IsFiniteSet(Parked(a)') /\ \A u \in Parked(a)' : Amount[u] \in Int
      <4>1. Parked(a)' = Parked(a) \cup {t}
        BY <2>1
      <4> QED
        BY <1>1, <4>1, ParkedRows, FS_AddElement
    <3>2. SumOver(Amount, Parked(a)') = Amount[t] + SumOver(Amount, Parked(a)' \ {t})
      BY <2>1, <3>1, SumSplit
    <3> QED
      BY <2>1, <3>2
  <2>3. Amount[t] <= balance[a] - SumOver(Amount, Parked(a))
    <3>1. Parked(a) \ {t} = Parked(a)
      BY <2>1
    <3>2. Ledger!HeldElsewhere(t) = SumOver(Amount, Parked(a))
      BY <1>3, <3>1, LedgerSums
    <3> QED
      BY <1>3, <3>2 DEF Ledger!Hold, Ledger!Available
  <2>4. SumOver(Amount, Parked(a)) \in Int
    BY ParkedRows, SumShift
  <2> QED
    BY <1>1, <2>2, <2>3, <2>4 DEF HeldCoveredHere
<1> QED
  BY <1>2, <1>3

\* A row that is turned away gives its claim back.
LEMMA RejectKeepsCovered ==
  ASSUME IInv, NEW t \in Transfers, Ledger!Reject(t), NEW a \in Accounts, HeldCoveredHere(a)
  PROVE  HeldCoveredHere(a)'
<1>1. /\ From[t] \in Accounts /\ Amount[t] \in Int
      /\ balance' = balance /\ balance[a] \in Int
      /\ status[t] # "none" /\ status' = [status EXCEPT ![t] = "rejected"]
  BY ConstantsAssumption DEF IInv, TypeOK, Ledger!Reject
<1>2. Amount[t] > 0
  BY <1>1 DEF IInv, RowsValid, Valid
<1>3. CASE t \notin Parked(a)
  <2>1. Parked(a)' = Parked(a)
    BY <1>1, <1>3 DEF Parked, IInv, TypeOK
  <2> QED
    BY <1>1, <2>1, UntouchedCovers DEF HeldCoveredHere, IInv
<1>4. CASE t \in Parked(a)
  <2>1. Parked(a)' = Parked(a) \ {t}
    BY <1>1 DEF Parked, IInv, TypeOK
  <2> QED
    BY <1>1, <1>2, <1>4, <2>1, ParkedWeight DEF HeldCoveredHere
<1> QED
  BY <1>3, <1>4

\* A payment takes its amount from the source: out of its own claim, or out of
\* what nobody else has a claim on.
LEMMA PayKeepsCovered ==
  ASSUME IInv, NEW t \in Transfers, Ledger!Pay(t), NEW a \in Accounts, HeldCoveredHere(a)
  PROVE  HeldCoveredHere(a)'
<1>1. /\ From[t] \in Accounts /\ To[t] \in Accounts /\ Amount[t] \in Int
      /\ \A b \in Accounts : balance[b] \in Int
      /\ status[t] \in {"pending", "on_hold"}
      /\ status' = [status EXCEPT ![t] = "completed"]
  BY ConstantsAssumption DEF IInv, TypeOK, Ledger!Pay
<1>2. Amount[t] > 0 /\ From[t] # To[t]
  BY <1>1 DEF IInv, RowsValid, Valid
<1>3. balance'[a] = IF a = From[t] THEN balance[a] - Amount[t]
                    ELSE IF a = To[t] THEN balance[a] + Amount[t] ELSE balance[a]
  BY <1>1, <1>2 DEF IInv, TypeOK, Ledger!Pay
<1>4. CASE a # From[t]
  <2>1. Parked(a)' = Parked(a)
    BY <1>1, <1>4 DEF Parked, IInv, TypeOK
  <2>2. balance'[a] \in Int /\ balance[a] <= balance'[a]
    BY <1>1, <1>2, <1>3, <1>4
  <2> QED
    BY <2>1, <2>2, UntouchedCovers DEF HeldCoveredHere, IInv
<1>5. CASE a = From[t] /\ status[t] = "on_hold"
  <2>1. t \in Parked(a) /\ Parked(a)' = Parked(a) \ {t}
    BY <1>1, <1>5 DEF Parked, IInv, TypeOK
  <2> QED
    BY <1>1, <1>3, <1>5, <2>1, ParkedWeight DEF HeldCoveredHere
<1>6. CASE a = From[t] /\ status[t] = "pending"
  <2>1. Parked(a)' = Parked(a) /\ Parked(a) \ {t} = Parked(a)
    BY <1>1, <1>6 DEF Parked, IInv, TypeOK
  <2>2. Ledger!HeldElsewhere(t) = SumOver(Amount, Parked(a))
    BY <1>6, <2>1, LedgerSums
  <2>3. Amount[t] <= balance[a] - SumOver(Amount, Parked(a))
    BY <1>6, <2>2 DEF Ledger!Pay, Ledger!Available
  <2>4. SumOver(Amount, Parked(a)) \in Int
    BY ParkedRows, SumShift
  <2> QED
    BY <1>1, <1>3, <1>6, <2>1, <2>3, <2>4 DEF HeldCoveredHere
<1> QED
  BY <1>1, <1>4, <1>5, <1>6

\* An account always covers all its held transfers together, although each of
\* them was parked by a request that saw only the rows parked before it.
THEOREM HeldMoneyStays == Spec => []HeldCovered
<1> DEFINE Covered == \A a \in Accounts : HeldCoveredHere(a)
<1>1. Init => Covered
  <2> SUFFICES ASSUME Init, NEW a \in Accounts PROVE HeldCoveredHere(a)
    OBVIOUS
  <2>1. Parked(a) = {} /\ balance[a] \in Nat
    BY ConstantsAssumption DEF Init, Parked
  <2>2. SumOver(Amount, {}) = 0
    BY FS_EmptySet, SumStep
  <2> QED
    BY <2>1, <2>2 DEF HeldCoveredHere
<1>2. IInv /\ Covered /\ [Next]_vars => Covered'
  <2> SUFFICES ASSUME IInv, Covered, [Next]_vars, NEW a \in Accounts
               PROVE  HeldCoveredHere(a)'
    OBVIOUS
  <2>1. HeldCoveredHere(a)
    OBVIOUS
  <2> HIDE DEF Covered
  <2>2. CASE UNCHANGED <<balance, status>>
    BY <2>1, <2>2 DEF HeldCoveredHere, Parked
  <2>3. CASE Ledger!Next
    <3>1. PICK t \in Transfers :
              Ledger!Post(t) \/ Ledger!Hold(t) \/ Ledger!Pay(t) \/ Ledger!Reject(t)
      BY <2>3 DEF Ledger!Next
    <3>2. CASE Ledger!Post(t)
      <4>1. Parked(a)' = Parked(a) /\ balance' = balance /\ balance[a] \in Int
        BY <3>2 DEF Ledger!Post, Parked, IInv, TypeOK
      <4> QED
        BY <2>1, <4>1, UntouchedCovers DEF HeldCoveredHere, IInv
    <3> QED
      BY <2>1, <3>1, <3>2, HoldKeepsCovered, PayKeepsCovered, RejectKeepsCovered
  <2> QED
    BY <2>2, <2>3, StepMaps DEF vars, accountVars, transferVars
<1>3. Covered => HeldCovered
  BY LedgerSums DEF HeldCovered, HeldCoveredHere
<1> QED
  BY <1>1, <1>2, <1>3, Inductive, PTL DEF Spec

\* As far as transfers go, a release is refused only because an account is not
\* active, never because its money has gone (release).
THEOREM HeldCanBePaid == Spec => [][\A w \in Workers : ReleaseFail(w) => ~BothActive(w)]_vars
<1>1. ASSUME IInv, HeldCovered, NEW w \in Workers, ReleaseFail(w), BothActive(w)
      PROVE  FALSE
  <2> DEFINE t == job[w]
             a == From[t]
  <2>1. t \in Transfers /\ a \in Accounts /\ Source(w).balance = balance[a] /\ balance[a] \in Int
    <3>1. t \in Transfers /\ Source(w) = Row(a)
      BY <1>1, DecideKnows DEF ReleaseFail
    <3>2. a \in Accounts
      BY <3>1, ConstantsAssumption
    <3> QED
      BY <1>1, <3>1, <3>2 DEF Row, IInv, TypeOK
  <2>2. t \in Parked(a)
    BY <1>1, <2>1 DEF Parked, ReleaseFail, IInv, RowsUnderWay, InRelease
  <2>3. SumOver(Amount, Parked(a)) <= balance[a]
    BY <1>1, <2>1, LedgerSums DEF HeldCovered
  <2>4. \A u \in Parked(a) \ {t} : Amount[u] \in Int /\ Amount[u] >= 0
    <3> SUFFICES ASSUME NEW u \in Parked(a) \ {t}
                 PROVE  Amount[u] \in Int /\ Amount[u] >= 0
      OBVIOUS
    <3>1. u \in Transfers /\ status[u] = "on_hold"
      BY DEF Parked
    <3>2. Valid(u)
      BY <1>1, <3>1 DEF IInv, RowsValid
    <3> QED
      BY <3>1, <3>2, ConstantsAssumption DEF Valid
  <2>5. SumOver(Amount, Parked(a) \ {t}) >= 0
    <3>1. IsFiniteSet(Parked(a) \ {t})
      BY <2>1, ParkedRows, FS_RemoveElement
    <3> QED
      BY <2>4, <3>1, SumNat
  <2>6. Amount[t] <= balance[a]
    BY <2>1, <2>2, <2>3, <2>5, ParkedWeight, ParkedRows
  <2> QED
    BY <1>1, <2>1, <2>6 DEF ReleaseFail, Releasable
<1>2. ASSUME IInv, HeldCovered, [Next]_vars
      PROVE  [\A w \in Workers : ReleaseFail(w) => ~BothActive(w)]_vars
  BY <1>1, <1>2
<1> QED
  BY <1>2, Inductive, HeldMoneyStays, PTL DEF Spec

\* Transfers move money between accounts and neither make nor lose any.
THEOREM MoneyConserved == Spec => []Conserved
<1> DEFINE Same == SumOver(balance, Accounts) = SumOver(OpeningBalance, Accounts)
<1>1. Init => Same
  BY DEF Init
<1>2. IInv /\ [Next]_vars => SumOver(balance', Accounts) = SumOver(balance, Accounts)
  <2> SUFFICES ASSUME IInv, [Next]_vars, balance' # balance
               PROVE  SumOver(balance', Accounts) = SumOver(balance, Accounts)
    BY Zenon
  <2>1. PICK t \in Transfers : Ledger!Pay(t)
    BY StepMaps DEF vars, accountVars, Ledger!Next, Ledger!Post, Ledger!Hold, Ledger!Reject
  <2>2. /\ From[t] \in Accounts /\ To[t] \in Accounts /\ Amount[t] \in Int
        /\ balance \in [Accounts -> Int]
    BY ConstantsAssumption DEF IInv, TypeOK
  <2>3. From[t] # To[t]
    BY <2>1 DEF IInv, RowsValid, Valid, Ledger!Pay
  <2> DEFINE debited == [balance EXCEPT ![From[t]] = @ - Amount[t]]
  <2>4. /\ debited \in [Accounts -> Int] /\ balance' \in [Accounts -> Int]
        /\ debited[From[t]] = balance[From[t]] - Amount[t]
        /\ \A a \in Accounts \ {From[t]} : debited[a] = balance[a]
        /\ balance'[To[t]] = debited[To[t]] + Amount[t]
        /\ \A a \in Accounts \ {To[t]} : balance'[a] = debited[a]
    BY <2>1, <2>2, <2>3 DEF Ledger!Pay
  <2> HIDE DEF debited
  <2>5. /\ SumOver(debited, Accounts) = SumOver(balance, Accounts) - Amount[t]
        /\ SumOver(balance, Accounts) \in Int
    <3>1. /\ SumOver(balance, Accounts) \in Int
          /\ SumOver(debited, Accounts)
                 = SumOver(balance, Accounts) - balance[From[t]] + debited[From[t]]
      BY <2>2, <2>4, FiniteAssumption, SumShift
    <3> QED
      BY <2>2, <2>4, <3>1
  <2>6. SumOver(balance', Accounts) = SumOver(debited, Accounts) + Amount[t]
    <3>1. /\ SumOver(debited, Accounts) \in Int
          /\ SumOver(balance', Accounts)
                 = SumOver(debited, Accounts) - debited[To[t]] + balance'[To[t]]
      BY <2>2, <2>4, FiniteAssumption, SumShift
    <3> QED
      BY <2>2, <2>4, <3>1
  <2> QED
    BY <2>2, <2>5, <2>6
<1>3. IInv /\ Same /\ [Next]_vars => Same'
  BY <1>2
<1>4. Same => Conserved
  BY LedgerSums DEF Conserved
<1> QED
  BY <1>1, <1>3, <1>4, Inductive, PTL DEF Spec

-----------------------------------------------------------------------------
\* Waiting for locks

\* A worker that somebody waits for, and that waits itself, has locked its low
\* account and waits for its high one: it asks for more than the first waits for.
LEMMA WaitsClimb ==
  ASSUME IInv, NEW w \in Workers, NEW v \in Workers, NEW u \in Workers,
         WaitsFor(w, v), WaitsFor(v, u)
  PROVE  /\ pc[v] \in {"confirmHigh", "releaseHigh"}
         /\ Low(job[v]) \in Accounts
         /\ pc[w] \in {"confirmHigh", "releaseHigh"} =>
               Low(job[w]) \in Accounts /\ Low(job[w]) < Low(job[v])
<1>1. /\ pc[w] # "idle" /\ pc[v] # "idle"
      /\ pc[v] \notin {"confirmDecide", "releaseDecide"}
  BY DEF WaitsFor
<1>2. /\ Low(job[w]) \in Accounts /\ High(job[w]) \in Accounts
      /\ Low(job[v]) \in Accounts
  BY <1>1, JobTyped
<1>3. PICK a \in {Low(job[w]), High(job[w])} :
         /\ accountLock[a] = v
         /\ pc[w] \in {"confirmHigh", "releaseHigh"} => a = High(job[w])
  BY DEF WaitsFor
<1>4. HoldsAccount(v, a)
  BY <1>2, <1>3 DEF IInv, LocksOwned
<1>5. pc[v] \in {"confirmHigh", "releaseHigh"} /\ a = Low(job[v])
  BY <1>1, <1>4 DEF HoldsAccount
<1>6. pc[w] \in {"confirmHigh", "releaseHigh"} => Low(job[w]) < High(job[w])
  <2> SUFFICES ASSUME pc[w] \in {"confirmHigh", "releaseHigh"}
               PROVE  Low(job[w]) < High(job[w])
    OBVIOUS
  <2>1. /\ job[w] \in Transfers
        /\ From[job[w]] \in Accounts /\ To[job[w]] \in Accounts
    BY <1>1, JobTyped
  <2>2. Valid(job[w])
    BY <2>1 DEF IInv, RowsUnderWay, RowsValid, InConfirm, InRelease
  <2> QED
    <3>1. \A b \in Accounts : b \in Int
      BY ConstantsAssumption
    <3> QED
      BY <2>1, <2>2, <3>1 DEF Valid, Low, High
<1> QED
  BY <1>2, <1>3, <1>5, <1>6

\* No set of confirms and releases waits in a circle, however many there are and
\* in whichever directions their transfers run: of those that wait for a high
\* account, the one whose low account has the fewest above it waits for nobody
\* that waits.
THEOREM NobodyWaitsInCircles == Spec => []NoWaitCycle
<1>1. IInv => NoWaitCycle
  <2> SUFFICES ASSUME IInv, NEW S \in SUBSET Workers, S # {},
                      \A w \in S : \E v \in S : WaitsFor(w, v)
               PROVE  FALSE
    BY DEF NoWaitCycle
  <2> DEFINE Above(w) == {a \in Accounts : Low(job[w]) < a}
             High2 == {w \in S : pc[w] \in {"confirmHigh", "releaseHigh"}}
             Counts == {Cardinality(Above(w)) : w \in High2}
  <2>1. ASSUME NEW w \in S
        PROVE  \E v \in High2 : /\ Low(job[v]) \in Accounts
                                /\ w \in High2 => /\ Low(job[w]) \in Accounts
                                                  /\ Low(job[w]) < Low(job[v])
    <3>1. PICK v \in S : WaitsFor(w, v)
      OBVIOUS
    <3>2. PICK u \in S : WaitsFor(v, u)
      OBVIOUS
    <3> QED
      BY <3>1, <3>2, WaitsClimb
  <2>2. \A w \in S : IsFiniteSet(Above(w)) /\ Cardinality(Above(w)) \in Nat
    BY FiniteAssumption, FS_Subset, FS_CardinalityType
  <2>3. Counts \in SUBSET Nat /\ Counts # {}
    BY <2>1, <2>2
  <2>4. PICK n \in Counts : \A m \in Counts : n <= m
    <3> HIDE DEF Counts
    <3> QED
      BY <2>3, Smallest, Zenon
  <2>5. PICK w \in High2 : n = Cardinality(Above(w))
    OBVIOUS
  <2>6. PICK v \in High2 : /\ Low(job[v]) \in Accounts /\ Low(job[w]) \in Accounts
                           /\ Low(job[w]) < Low(job[v])
    BY <2>1
  <2>7. Above(v) \in SUBSET Above(w) /\ Low(job[v]) \in Above(w) \ Above(v)
    <3>1. \A a \in Accounts : a \in Nat
      BY ConstantsAssumption
    <3>2. \A a \in Above(v) : a \in Above(w)
      BY <2>6, <3>1
    <3>3. Low(job[v]) \in Above(w) /\ Low(job[v]) \notin Above(v)
      BY <2>6, <3>1
    <3> HIDE DEF Above
    <3> QED
      BY <3>2, <3>3
  <2>8. Cardinality(Above(v)) <= Cardinality(Above(w))
        /\ Cardinality(Above(v)) # Cardinality(Above(w))
    <3> HIDE DEF Above
    <3> QED
      BY <2>2, <2>7, FS_Subset
  <2>9. n <= Cardinality(Above(v))
    BY <2>4
  <2>10. Cardinality(Above(v)) \in Nat /\ Cardinality(Above(w)) \in Nat
    BY <2>2
  <2> HIDE DEF Above, Counts, High2
  <2> QED
    BY <2>5, <2>8, <2>9, <2>10
<1> QED
  BY <1>1, Inductive, PTL
=============================================================================
