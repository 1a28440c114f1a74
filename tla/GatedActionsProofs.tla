------------------------- MODULE GatedActionsProofs -------------------------
(***************************************************************************)
(* Theorems about GatedActions, for every number of accounts, actions and  *)
(* requests: the one-time codes keep their promise, and no limit is raised *)
(* before its hold has passed.                                             *)
(***************************************************************************)
EXTENDS GatedActions, ActionOtpProofs

USE OtpAssumption, GatedAssumption

LEMMA GatedInv == IInv => OtpInv
  BY DEF IInv, TypeOK, OtpInv

LEMMA GatedInit == Init => IInv /\ Promise!Init
<1> SUFFICES ASSUME Init
             PROVE  IInv /\ Promise!Init
  OBVIOUS
<1>1. OtpInv /\ Promise!Init
  BY OtpInitial DEF Init
<1>2. AnyAccount \in Accounts
  BY DEF AnyAccount
<1>3. TypeOK
  BY <1>1, <1>2 DEF Init, OtpInit, OtpInv, TypeOK, Labels
<1>4. LimitsUnderWay /\ RaisesParked
  BY DEF Init, OtpInit, LimitsUnderWay, RaisesParked
<1>5. RaisesWait
  BY DEF Init, RaisesWait, WithinEarned, Earned
<1> QED BY <1>1, <1>3, <1>4, <1>5 DEF IInv, OtpInv

\* Every step of the handlers is one of the steps the code service knows.
LEMMA GatedOtp ==
    ASSUME IInv, [Next]_vars
    PROVE  OtpKept
<1> USE GatedInv
<1> USE DEF bookVars, limitVars
<1>1. ASSUME NEW w \in Workers, MarkViewed(w)
      PROVE  OtpKept
  BY <1>1, FinishMoves, OtpMove DEF MarkViewed, MarkApplied, Respond, CallsMove, Busy, Acting
<1>2. ASSUME NEW w \in Workers, MarkBegun(w)
      PROVE  OtpKept
  BY <1>2, GotoMoves, OtpMove DEF MarkBegun, MarkApplied, CallsMove, Busy, Acting
<1>3. ASSUME NEW w \in Workers, IssueLimit(w)
      PROVE  OtpKept
  BY <1>3, FinishMoves, OtpInsert DEF IssueLimit, Respond, CallsMove, Busy, Acting, IInv, LimitsUnderWay
<1>4. ASSUME NEW w \in Workers, MarkFound(w)
      PROVE  OtpKept
  BY <1>4, GotoMoves, OtpMove DEF MarkFound, MarkApplied, CallsMove, Busy, Acting, IInv, LimitsUnderWay
<1>5. ASSUME NEW w \in Workers, FindCode(w)
      PROVE  OtpKept
  BY <1>5, OtpLock DEF FindCode
<1>6. ASSUME NEW w \in Workers, RefuseCode(w)
      PROVE  OtpKept
  <2>1. Moved(w)
    BY <1>6, FinishMoves, GotoMoves DEF RefuseCode, Conflict, Respond, Busy, Acting
  <2>2. CASE CodeGone(w)
    BY <1>6, <2>1, <2>2, OtpMove DEF RefuseCode, CodeGone, CallsMove, Busy, Acting
  <2>3. CASE CodeExpired(w)
    BY <1>6, <2>1, <2>3, OtpRefused DEF RefuseCode, CodeExpired
  <2>4. CASE LastStrike(w)
    BY <1>6, <2>1, <2>4, OtpStrike DEF RefuseCode
  <2> QED BY <1>6, <2>2, <2>3, <2>4 DEF RefuseCode
<1>7. ASSUME NEW w \in Workers, RetryCode(w)
      PROVE  OtpKept
  BY <1>7, FinishMoves, OtpWrong DEF RetryCode, Respond
<1>8. ASSUME NEW w \in Workers, AcceptCode(w)
      PROVE  OtpKept
  BY <1>8, OtpRight DEF AcceptCode
<1>9. ASSUME NEW w \in Workers, PerformOther(w) \/ WrongAccount(w)
      PROVE  OtpKept
  BY <1>9, FinishMoves, OtpPerform DEF PerformOther, WrongAccount, Respond, Acting
<1>10. ASSUME NEW w \in Workers, ReadLimit(w)
       PROVE  OtpKept
  BY <1>10, OtpCarryOn DEF ReadLimit, Acting
<1>11. ASSUME NEW w \in Workers, LowerLimit(w) \/ ParkRaise(w)
       PROVE  OtpKept
  BY <1>11, GotoMoves, OtpPerform DEF LowerLimit, ParkRaise, Busy, Acting
<1>12. ASSUME NEW w \in Workers, Render(w)
       PROVE  OtpKept
  BY <1>12, GotoMoves, OtpMove DEF Render, CallsMove, Busy, Acting
<1>13. ASSUME NEW w \in Workers, Abort(w)
       PROVE  OtpKept
  BY <1>13, FinishMoves, OtpDied DEF Abort, Respond
<1>14. ASSUME NEW w \in Workers, NEW a \in Accounts, View(w, a)
       PROVE  OtpKept
  BY <1>14, BeginMoves, OtpMove DEF View, OpenAccount, Busy, Acting
<1>15. ASSUME NEW w \in Workers, NEW c \in Challenges, BeginLimit(w, c) \/ ConfirmOther(w, c)
       PROVE  OtpKept
  BY <1>15, BeginMoves, OtpMove DEF BeginLimit, ConfirmOther, OpenAccount, Busy, Acting
<1>16. ASSUME NEW w \in Workers, NEW c \in Challenges, NEW a \in Accounts, ConfirmLimit(w, c, a)
       PROVE  OtpKept
  BY <1>16, BeginMoves, OtpMove DEF ConfirmLimit, OpenAccount, Busy, Acting
<1>17. ASSUME NEW c \in Challenges, BeginOther(c)
       PROVE  OtpKept
  BY <1>17, OtpInsert DEF BeginOther, CallsMove
<1>18. CASE Tick
  BY <1>18, OtpTick DEF Tick
<1>19. CASE UNCHANGED vars
  BY <1>19, OtpMove DEF vars, CallsMove
<1> QED BY <1>1, <1>2, <1>3, <1>4, <1>5, <1>6, <1>7, <1>8, <1>9, <1>10, <1>11, <1>12, <1>13,
           <1>14, <1>15, <1>16, <1>17, <1>18, <1>19 DEF Next, Continue

\* What is earned once is earned for ever.
LEMMA StaysEarned ==
    ASSUME IInv, OtpKept, NEW a \in Accounts, NEW limit \in Nat, WithinEarned(a, limit)
    PROVE  WithinEarned(a, limit)'
<1>1. ASSUME NEW d \in LimitChanges, effects[d] > 0, issuedAt[d] + Hold <= now
      PROVE  effects'[d] > 0 /\ issuedAt'[d] + Hold <= now'
  <2>1. code[d] # "none"
    BY <1>1 DEF IInv, OtpRows, OneActor
  <2>2. effects'[d] >= effects[d] /\ issuedAt'[d] = issuedAt[d] /\ now' >= now
    BY <2>1, OtpHistory, GatedInv
  <2> QED BY <1>1, <2>2 DEF OtpKept, OtpInv, OtpTypeOK, IInv, TypeOK
<1>2. Earned(a) \subseteq Earned(a)'
  BY <1>1 DEF Earned
<1> QED BY <1>2 DEF WithinEarned

\* A raise that has matured was earned.
LEMMA MaturedEarned ==
    ASSUME IInv, NEW a \in Accounts, NEW c \in Matured(a)
    PROVE  NewLimit[c] \in Nat /\ WithinEarned(a, NewLimit[c])
<1>1. /\ c \in LimitChanges /\ Account[c] = a
      /\ effects[c] > 0 /\ effectiveAt[c] >= issuedAt[c] + Hold /\ effectiveAt[c] <= now
  BY DEF Matured, IInv, RaisesParked
<1>2. issuedAt[c] + Hold <= now
  BY <1>1 DEF IInv, TypeOK, OtpTypeOK
<1>3. NewLimit[c] \in Earned(a)
  BY <1>1, <1>2 DEF Earned
<1> QED BY <1>1, <1>3 DEF WithinEarned

LEMMA PromoteEarned ==
    ASSUME IInv, OtpKept, NEW a \in Accounts, Promote(a)
    PROVE  transferLimit' \in [Accounts -> Nat] /\ RaisesWait'
<1>1. CASE UNCHANGED transferLimit
  BY <1>1, StaysEarned DEF RaisesWait, IInv, TypeOK
<1>2. ASSUME NEW c \in Latest(a), transferLimit' = [transferLimit EXCEPT ![a] = NewLimit[c]]
      PROVE  transferLimit' \in [Accounts -> Nat] /\ RaisesWait'
  <2>1. NewLimit[c] \in Nat /\ WithinEarned(a, NewLimit[c])
    BY MaturedEarned DEF Latest
  <2>2. transferLimit' \in [Accounts -> Nat]
    BY <1>2, <2>1 DEF IInv, TypeOK
  <2>3. ASSUME NEW b \in Accounts
        PROVE  WithinEarned(b, transferLimit[b])'
    <3>2. CASE b = a
      BY <1>2, <2>1, <3>2, StaysEarned DEF WithinEarned, IInv, TypeOK
    <3>3. CASE b # a
      <4>1. WithinEarned(b, transferLimit[b]) /\ transferLimit[b] \in Nat
        BY DEF RaisesWait, IInv, TypeOK
      <4>2. PICK limit \in Nat : limit = transferLimit[b]
        BY <4>1
      <4>3. WithinEarned(b, limit)'
        BY <4>1, <4>2, StaysEarned
      <4>4. transferLimit'[b] = limit
        BY <1>2, <3>3, <4>2 DEF IInv, TypeOK
      <4> QED BY <4>3, <4>4 DEF WithinEarned
    <3> QED BY <3>2, <3>3
  <2> QED BY <2>2, <2>3 DEF RaisesWait
<1> QED BY <1>1, <1>2 DEF Promote

-----------------------------------------------------------------------------
\* The inductive invariant

\* A step that neither writes limits nor reads one.
LEMMA LimitsKept ==
    ASSUME IInv, OtpKept, UNCHANGED transferLimit
    PROVE  RaisesWait'
<1> SUFFICES ASSUME NEW a \in Accounts
             PROVE  WithinEarned(a, transferLimit[a])'
  BY DEF RaisesWait
<1>1. PICK limit \in Nat : limit = transferLimit[a]
  BY DEF IInv, TypeOK
<1>2. WithinEarned(a, limit)'
  BY <1>1, StaysEarned DEF IInv, RaisesWait
<1> QED BY <1>1, <1>2 DEF WithinEarned

LEMMA ParkedKept ==
    ASSUME IInv, OtpKept, parked' = parked, effectiveAt' = effectiveAt
    PROVE  RaisesParked'
<1> SUFFICES ASSUME NEW c \in LimitChanges, parked[c] # "none"
             PROVE  effects'[c] > 0 /\ effectiveAt[c] >= issuedAt'[c] + Hold
  BY DEF RaisesParked
<1>1. effects[c] > 0 /\ effectiveAt[c] >= issuedAt[c] + Hold
  BY DEF IInv, RaisesParked
<1>2. code[c] # "none"
  BY <1>1 DEF IInv, OtpRows, OneActor
<1>3. effects'[c] >= effects[c] /\ issuedAt'[c] = issuedAt[c]
  BY <1>2, OtpHistory, GatedInv
<1> QED BY <1>1, <1>3 DEF OtpKept, OtpInv, OtpTypeOK, IInv, TypeOK

\* Marking raises as applied makes none out of nothing.
LEMMA MarkedKept ==
    ASSUME IInv, OtpKept, NEW w \in Workers, MarkApplied(w)
    PROVE  RaisesParked' /\ RaisesWait'
<1>1. \A c \in LimitChanges : parked'[c] # "none" => parked[c] # "none"
  BY DEF MarkApplied, Matured
<1>2. RaisesParked'
  <2> SUFFICES ASSUME NEW c \in LimitChanges, parked'[c] # "none"
               PROVE  effects'[c] > 0 /\ effectiveAt'[c] >= issuedAt'[c] + Hold
    BY DEF RaisesParked
  <2> QED BY <1>1 DEF MarkApplied, IInv, RaisesParked, rowVars
<1> QED BY <1>2, LimitsKept DEF MarkApplied

\* The requests other than w know what they knew.
LEMMA OthersUnderWay ==
    ASSUME IInv, OtpKept, NEW w \in Workers,
           \A v \in Workers \ {w} : /\ pc'[v] = pc[v] /\ job'[v] = job[v]
                                    /\ path'[v] = path[v] /\ current'[v] = current[v]
    PROVE  \A v \in Workers \ {w} :
              /\ pc'[v] \in {"markBegun", "issue", "markFound", "writeLimit"} => job'[v] \in LimitChanges
              /\ pc'[v] = "writeLimit" =>
                   path'[v] = Account[job'[v]] /\ WithinEarned(path[v], current[v])'
<1> SUFFICES ASSUME NEW v \in Workers \ {w}, pc[v] = "writeLimit"
             PROVE  WithinEarned(path[v], current[v])'
  BY DEF IInv, LimitsUnderWay
<1>1. WithinEarned(path[v], current[v])
  BY DEF IInv, LimitsUnderWay
<1>2. PICK a \in Accounts : a = path[v]
  BY DEF IInv, TypeOK
<1>3. PICK limit \in Nat : limit = current[v]
  BY DEF IInv, TypeOK
<1>4. WithinEarned(a, limit)'
  BY <1>1, <1>2, <1>3, StaysEarned
<1> QED BY <1>2, <1>3, <1>4 DEF WithinEarned, Earned

\* So LimitsUnderWay is a matter of the request that moves.
LEMMA MoverUnderWay ==
    ASSUME IInv, OtpKept, NEW w \in Workers,
           \A v \in Workers \ {w} : /\ pc'[v] = pc[v] /\ job'[v] = job[v]
                                    /\ path'[v] = path[v] /\ current'[v] = current[v],
           pc'[w] \in {"markBegun", "issue", "markFound"} => job'[w] \in LimitChanges,
           pc'[w] # "writeLimit"
    PROVE  LimitsUnderWay'
  BY OthersUnderWay DEF LimitsUnderWay

LEMMA GatedTypes ==
    ASSUME IInv, OtpKept, Next
    PROVE  TypeOK'
<1> USE DEF bookVars, limitVars, localVars
<1>0. OtpTypeOK' /\ AnyAccount \in Accounts
  BY DEF OtpKept, OtpInv, AnyAccount
<1> SUFFICES /\ pc' \in [Workers -> Labels]
             /\ transferLimit' \in [Accounts -> Nat]
             /\ parked' \in [LimitChanges -> {"none", "waiting", "applied"}]
             /\ effectiveAt' \in [LimitChanges -> Nat]
             /\ path' \in [Workers -> Accounts]
             /\ current' \in [Workers -> Nat]
  BY <1>0 DEF TypeOK
<1> DEFINE Typed == /\ pc' \in [Workers -> Labels]
                    /\ transferLimit' \in [Accounts -> Nat]
                    /\ parked' \in [LimitChanges -> {"none", "waiting", "applied"}]
                    /\ effectiveAt' \in [LimitChanges -> Nat]
                    /\ path' \in [Workers -> Accounts]
                    /\ current' \in [Workers -> Nat]
<1> USE DEF IInv, TypeOK, Labels
<1>1. ASSUME NEW w \in Workers, MarkViewed(w) \/ MarkBegun(w) \/ MarkFound(w)
      PROVE  Typed
  BY <1>0, <1>1 DEF MarkViewed, MarkBegun, MarkFound, MarkApplied, Respond, Finish, Goto
<1>2. ASSUME NEW w \in Workers, IssueLimit(w) \/ FindCode(w) \/ RetryCode(w) \/ AcceptCode(w) \/ Abort(w)
      PROVE  Typed
  BY <1>0, <1>2 DEF IssueLimit, FindCode, LockCode, RetryCode, AcceptCode, Abort, Respond, Finish, Goto
<1>3. ASSUME NEW w \in Workers, RefuseCode(w) \/ PerformOther(w) \/ WrongAccount(w)
      PROVE  Typed
  BY <1>0, <1>3 DEF RefuseCode, Conflict, PerformOther, WrongAccount, Respond, Finish, Goto
<1>4. ASSUME NEW w \in Workers, ReadLimit(w) \/ LowerLimit(w) \/ ParkRaise(w)
      PROVE  Typed
  <2>1. NewLimit[job[w]] \in Nat \/ job[w] \notin LimitChanges
    OBVIOUS
  <2>2. job[w] \in LimitChanges
    BY <1>4 DEF ReadLimit, LowerLimit, ParkRaise, LimitsUnderWay
  <2>3. now + Hold \in Nat
    BY DEF OtpTypeOK
  <2>4. CASE ReadLimit(w)
    BY <2>4 DEF ReadLimit, Goto
  <2>5. CASE LowerLimit(w)
    BY <2>1, <2>2, <2>5 DEF LowerLimit, Goto
  <2>6. CASE ParkRaise(w)
    BY <2>2, <2>3, <2>6 DEF ParkRaise, Goto
  <2> QED BY <1>4, <2>4, <2>5, <2>6
<1>5. ASSUME NEW w \in Workers, Render(w)
      PROVE  Typed
  BY <1>5, PromoteEarned DEF Render, Goto
<1>6. ASSUME NEW w \in Workers, NEW c, NEW a \in Accounts, NEW l \in Labels, OpenAccount(w, c, a, l)
      PROVE  Typed
  BY <1>6, PromoteEarned DEF OpenAccount, Begin
<1>7. ASSUME NEW w \in Workers, NEW c \in Challenges, ConfirmOther(w, c)
      PROVE  Typed
  BY <1>7 DEF ConfirmOther, Begin
<1>8. CASE (\E c \in Challenges : BeginOther(c)) \/ Tick
  BY <1>8 DEF BeginOther, Tick, callVars
<1>9. ASSUME NEW w \in Workers, NEW a \in Accounts, View(w, a)
      PROVE  Typed
  BY <1>6, <1>9 DEF View
<1>10. ASSUME NEW w \in Workers, NEW c \in Challenges, BeginLimit(w, c)
       PROVE  Typed
  BY <1>6, <1>10 DEF BeginLimit
<1>11. ASSUME NEW w \in Workers, NEW c \in Challenges, NEW a \in Accounts, ConfirmLimit(w, c, a)
       PROVE  Typed
  BY <1>6, <1>11 DEF ConfirmLimit
<1> QED BY <1>1, <1>2, <1>3, <1>4, <1>5, <1>7, <1>8, <1>9, <1>10, <1>11 DEF Next, Continue

LEMMA GatedStep ==
    ASSUME IInv, [Next]_vars
    PROVE  IInv'
<1>0. OtpKept
  BY GatedOtp
<1> SUFFICES ASSUME Next
             PROVE  LimitsUnderWay' /\ RaisesParked' /\ RaisesWait'
  <2>1. CASE UNCHANGED vars
    BY <2>1 DEF vars, rowVars, callVars, bookVars, limitVars, localVars, IInv, TypeOK, OtpTypeOK,
                OtpRows, RowsHeld, RowsCount, OneActor, LimitsUnderWay, RaisesParked, RaisesWait,
                WithinEarned, Earned, Acting
  <2>2. CASE Next
    BY <1>0, <2>2, GatedTypes DEF IInv, OtpKept, OtpInv
  <2> QED BY <2>1, <2>2
<1> DEFINE Kept == LimitsUnderWay' /\ RaisesParked' /\ RaisesWait'
<1> USE DEF bookVars, limitVars, localVars
<1>a. /\ DOMAIN pc = Workers /\ job \in [Workers -> Challenges \cup {NoChallenge}]
      /\ path \in [Workers -> Accounts] /\ current \in [Workers -> Nat]
  BY DEF IInv, TypeOK, OtpTypeOK
\* Requests that neither write a limit nor are about to.
<1>1. ASSUME NEW w \in Workers, MarkViewed(w) \/ MarkBegun(w) \/ MarkFound(w)
      PROVE  Kept
  <2>1. LimitsUnderWay'
    BY <1>0, <1>1, <1>a, MoverUnderWay
       DEF MarkViewed, MarkBegun, MarkFound, Respond, Finish, Goto, IInv, LimitsUnderWay
  <2>2. RaisesParked' /\ RaisesWait'
    BY <1>0, <1>1, MarkedKept DEF MarkViewed, MarkBegun, MarkFound
  <2> QED BY <2>1, <2>2
<1>2. ASSUME NEW w \in Workers, IssueLimit(w) \/ FindCode(w) \/ RetryCode(w) \/ AcceptCode(w) \/ Abort(w)
      PROVE  Kept
  <2>1. LimitsUnderWay'
    BY <1>0, <1>2, <1>a, MoverUnderWay
       DEF IssueLimit, FindCode, LockCode, RetryCode, AcceptCode, Abort, Respond, Finish, Goto
  <2>2. UNCHANGED <<transferLimit, parked, effectiveAt>>
    BY <1>2 DEF IssueLimit, FindCode, RetryCode, AcceptCode, Abort
  <2> QED BY <1>0, <2>1, <2>2, ParkedKept, LimitsKept
<1>3. ASSUME NEW w \in Workers, RefuseCode(w) \/ PerformOther(w) \/ WrongAccount(w)
      PROVE  Kept
  <2>1. LimitsUnderWay'
    BY <1>0, <1>3, <1>a, MoverUnderWay
       DEF RefuseCode, Conflict, PerformOther, WrongAccount, Respond, Finish, Goto
  <2>2. UNCHANGED <<transferLimit, parked, effectiveAt>>
    BY <1>3 DEF RefuseCode, PerformOther, WrongAccount
  <2> QED BY <1>0, <2>1, <2>2, ParkedKept, LimitsKept
\* The limit that is read is earned.
<1>4. ASSUME NEW w \in Workers, ReadLimit(w)
      PROVE  Kept
  <2>1. RaisesParked' /\ RaisesWait'
    BY <1>0, <1>4, ParkedKept, LimitsKept DEF ReadLimit
  <2>2. /\ job'[w] \in LimitChanges /\ path'[w] = Account[job'[w]]
        /\ pc'[w] = "writeLimit" /\ current'[w] = transferLimit'[path'[w]]
        /\ \A v \in Workers \ {w} : /\ pc'[v] = pc[v] /\ job'[v] = job[v]
                                    /\ path'[v] = path[v] /\ current'[v] = current[v]
    BY <1>4, <1>a DEF ReadLimit, Goto
  <2>3. WithinEarned(path[w], current[w])'
    <3>1. path'[w] \in Accounts
      BY <1>4, <1>a DEF ReadLimit
    <3> QED BY <2>1, <2>2, <3>1 DEF RaisesWait, WithinEarned, Earned
  <2>4. LimitsUnderWay'
    <3> SUFFICES ASSUME NEW v \in Workers
                 PROVE  /\ pc'[v] \in {"markBegun", "issue", "markFound", "writeLimit"} =>
                             job'[v] \in LimitChanges
                        /\ pc'[v] = "writeLimit" =>
                             path'[v] = Account[job'[v]] /\ WithinEarned(path[v], current[v])'
      BY DEF LimitsUnderWay
    <3>1. CASE v = w
      BY <2>2, <2>3, <3>1 DEF WithinEarned, Earned
    <3>2. CASE v # w
      BY <1>0, <2>2, <3>2, OthersUnderWay
    <3> QED BY <3>1, <3>2
  <2> QED BY <2>1, <2>4
\* A lower limit is below the one that was read.
<1>5. ASSUME NEW w \in Workers, LowerLimit(w)
      PROVE  Kept
  <2>1. LimitsUnderWay'
    BY <1>0, <1>5, <1>a, MoverUnderWay DEF LowerLimit, Goto
  <2>2. RaisesParked'
    BY <1>0, <1>5, ParkedKept DEF LowerLimit
  <2>3. PICK a \in Accounts : a = path[w]
    BY <1>a
  <2>4. PICK limit \in Nat : limit = NewLimit[job[w]]
    BY <1>5 DEF LowerLimit, IInv, LimitsUnderWay
  <2>5. WithinEarned(a, limit)
    <3>1. \E x \in Earned(a) : current[w] <= x
      BY <1>5, <2>3 DEF LowerLimit, IInv, LimitsUnderWay, WithinEarned
    <3>2. limit <= current[w] /\ current[w] \in Nat
      BY <1>5, <1>a, <2>4 DEF LowerLimit
    <3>3. Earned(a) \subseteq Nat
      BY DEF Earned
    <3> QED BY <3>1, <3>2, <3>3 DEF WithinEarned
  <2>6. RaisesWait'
    <3> SUFFICES ASSUME NEW b \in Accounts
                 PROVE  WithinEarned(b, transferLimit[b])'
      BY DEF RaisesWait
    <3>1. transferLimit' = [transferLimit EXCEPT ![a] = limit]
      BY <1>5, <2>3, <2>4 DEF LowerLimit
    <3>2. PICK old \in Nat : old = transferLimit[b]
      BY DEF IInv, TypeOK
    <3>3. WithinEarned(b, old)'
      BY <1>0, <3>2, StaysEarned DEF IInv, RaisesWait
    <3>4. WithinEarned(a, limit)'
      BY <1>0, <2>5, StaysEarned
    <3>5. transferLimit'[b] = IF b = a THEN limit ELSE old
      BY <3>1, <3>2 DEF IInv, TypeOK
    <3> QED BY <3>3, <3>4, <3>5 DEF WithinEarned
  <2> QED BY <2>1, <2>2, <2>6
\* A raise is parked for a hold from now, and its code is no younger.
<1>6. ASSUME NEW w \in Workers, ParkRaise(w)
      PROVE  Kept
  <2>1. LimitsUnderWay'
    BY <1>0, <1>6, <1>a, MoverUnderWay DEF ParkRaise, Goto
  <2>2. RaisesWait'
    BY <1>0, <1>6, LimitsKept DEF ParkRaise
  <2>3. PICK c \in LimitChanges : c = job[w]
    BY <1>6 DEF ParkRaise, IInv, LimitsUnderWay
  <2>4. issuedAt[c] <= now
    BY <1>6, <2>3 DEF IInv, OtpRows, RowsCount
  <2>5. RaisesParked'
    <3> SUFFICES ASSUME NEW d \in LimitChanges, parked'[d] # "none"
                 PROVE  effects'[d] > 0 /\ effectiveAt'[d] >= issuedAt'[d] + Hold
      BY DEF RaisesParked
    <3>1. CASE d = c
      BY <1>6, <2>3, <2>4, <3>1 DEF ParkRaise, rowVars, IInv, TypeOK, OtpTypeOK
    <3>2. CASE d # c
      BY <1>6, <2>3, <3>2 DEF ParkRaise, rowVars, IInv, TypeOK, OtpTypeOK, RaisesParked
    <3> QED BY <3>1, <3>2
  <2> QED BY <2>1, <2>2, <2>5
\* What matures was earned.
<1>7. ASSUME NEW w \in Workers, Render(w)
      PROVE  Kept
  <2>1. LimitsUnderWay'
    BY <1>0, <1>7, <1>a, MoverUnderWay DEF Render, Goto
  <2>2. RaisesWait'
    BY <1>0, <1>7, <1>a, PromoteEarned DEF Render
  <2> QED BY <1>0, <1>7, <2>1, <2>2, ParkedKept DEF Render
<1>8. ASSUME NEW w \in Workers, NEW c, NEW a \in Accounts, NEW l, OpenAccount(w, c, a, l),
             l # "writeLimit", l \in {"markBegun", "markFound"} => c \in LimitChanges, l # "issue"
      PROVE  Kept
  <2>1. LimitsUnderWay'
    BY <1>0, <1>8, <1>a, MoverUnderWay DEF OpenAccount, Begin
  <2>2. RaisesWait'
    BY <1>0, <1>8, PromoteEarned DEF OpenAccount
  <2> QED BY <1>0, <1>8, <2>1, <2>2, ParkedKept DEF OpenAccount
<1>9. ASSUME NEW w \in Workers, NEW a \in Accounts, View(w, a)
      PROVE  Kept
  BY <1>8, <1>9 DEF View
<1>10. ASSUME NEW w \in Workers, NEW c \in Challenges, BeginLimit(w, c)
       PROVE  Kept
  BY <1>8, <1>10 DEF BeginLimit
<1>11. ASSUME NEW w \in Workers, NEW c \in Challenges, NEW a \in Accounts, ConfirmLimit(w, c, a)
       PROVE  Kept
  BY <1>8, <1>11 DEF ConfirmLimit
<1>12. ASSUME NEW w \in Workers, NEW c \in Challenges, ConfirmOther(w, c)
       PROVE  Kept
  <2>1. LimitsUnderWay'
    BY <1>0, <1>12, <1>a, MoverUnderWay DEF ConfirmOther, Begin
  <2> QED BY <1>0, <1>12, <2>1, ParkedKept, LimitsKept DEF ConfirmOther
<1>13. CASE (\E c \in Challenges : BeginOther(c)) \/ Tick
  <2>1. UNCHANGED <<transferLimit, parked, effectiveAt, pc, job, path, current>>
    BY <1>13 DEF BeginOther, Tick, callVars
  <2>2. LimitsUnderWay'
    <3> SUFFICES ASSUME NEW w \in Workers
                 PROVE  /\ pc'[w] \in {"markBegun", "issue", "markFound", "writeLimit"} =>
                             job'[w] \in LimitChanges
                        /\ pc'[w] = "writeLimit" =>
                             path'[w] = Account[job'[w]] /\ WithinEarned(path[w], current[w])'
      BY DEF LimitsUnderWay
    <3>1. PICK a \in Accounts, limit \in Nat : a = path[w] /\ limit = current[w]
      BY <1>a
    <3>2. pc[w] = "writeLimit" => WithinEarned(a, limit)'
      BY <1>0, <3>1, StaysEarned DEF IInv, LimitsUnderWay
    <3> QED BY <2>1, <3>1, <3>2 DEF IInv, LimitsUnderWay, WithinEarned, Earned
  <2> QED BY <1>0, <2>1, <2>2, ParkedKept, LimitsKept
<1> QED BY <1>1, <1>2, <1>3, <1>4, <1>5, <1>6, <1>7, <1>9, <1>10, <1>11, <1>12, <1>13
        DEF Next, Continue

-----------------------------------------------------------------------------
\* Theorems

\* The inductive invariant holds in every reachable state.
THEOREM GatedInvariant == Spec => []IInv
<1>1. Init => IInv
  BY GatedInit
<1>2. IInv /\ [Next]_vars => IInv'
  BY GatedStep
<1> QED BY <1>1, <1>2, PTL DEF Spec

\* Every variable keeps its type.
THEOREM GatedTypeCorrect == Spec => []TypeOK
<1>1. IInv => TypeOK
  BY DEF IInv
<1> QED BY <1>1, GatedInvariant, PTL

\* No per-transfer limit is higher than what has waited out its hold
\* (request_limit_change, apply_matured_limit_changes).
THEOREM RaisesAlwaysWait == Spec => []RaisesWait
<1>1. IInv => RaisesWait
  BY DEF IInv
<1> QED BY <1>1, GatedInvariant, PTL

\* The code-gated handlers implement OneTimeAction (action_otp_service.rs).
THEOREM GatedKeepsPromise == Spec => KeepsPromise
<1>1. Init => Promise!Init
  BY GatedInit
<1>2. IInv /\ [Next]_vars => [Promise!Next]_(Promise!vars)
  BY GatedOtp DEF OtpKept
<1> QED BY <1>1, <1>2, GatedInvariant, PTL DEF Spec, KeepsPromise, Promise!Spec
=============================================================================
