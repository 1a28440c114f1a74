-------------------------- MODULE ActionOtpProofs --------------------------
(***************************************************************************)
(* What every handler that parks an action behind a one-time code can rely *)
(* on.  One lemma for each kind of step a handler may make: from OtpInv it *)
(* leads to OtpInv, and it is a step of OneTimeAction or none.  A module   *)
(* that EXTENDS ActionOtp sorts its actions into these kinds.              *)
(***************************************************************************)
EXTENDS ActionOtp, TLAPS

OtpInv == OtpTypeOK /\ OtpRows

\* What each lemma is about.
OtpKept == /\ OtpInv'
           /\ [Promise!Next]_(Promise!vars)

\* A request that holds a row or has an action to carry out.
Busy == {"verify"} \cup Acting

\* Request w moves on, and to a label from which nothing is verified or done.
Moves(w, l, j, n) ==
    /\ l \notin Busy
    /\ j \in Challenges \cup {NoChallenge}
    /\ n \in 0 .. MaxAttempts
    /\ l = "find" => j \in Challenges
    /\ pc' = [pc EXCEPT ![w] = l]
    /\ job' = [job EXCEPT ![w] = j]
    /\ noted' = [noted EXCEPT ![w] = n]

Moved(w) == \E l, j, n : Moves(w, l, j, n)

CallsMove == UNCHANGED callVars \/ \E w \in Workers : pc[w] \notin Busy /\ Moved(w)

\* The initial rows keep the invariant, and nothing has been promised yet.
LEMMA OtpInitial ==
    ASSUME OtpInit
    PROVE  OtpInv /\ Promise!Init
<1> USE OtpAssumption
<1>1. OtpTypeOK
  <2>1. /\ code \in [Challenges -> Codes]
        /\ codeLock \in [Challenges -> Workers \cup {NoWorker}]
        /\ job \in [Workers -> Challenges \cup {NoChallenge}]
    BY DEF OtpInit, Codes
  <2>2. /\ attempts \in [Challenges -> 0 .. MaxAttempts]
        /\ issuedAt \in [Challenges -> 0 .. MaxNow]
        /\ guesses \in [Challenges -> Nat]
        /\ effects \in [Challenges -> Nat]
        /\ noted \in [Workers -> 0 .. MaxAttempts]
        /\ now \in 0 .. MaxNow
    BY DEF OtpInit
  <2>3. DOMAIN pc = Workers
    BY DEF OtpInit
  <2> QED BY <2>1, <2>2, <2>3 DEF OtpTypeOK
<1>2. \A w \in Workers : pc[w] = "idle"
  BY DEF OtpInit
<1>3. OtpRows
  BY <1>2 DEF OtpInit, OtpRows, RowsHeld, RowsCount, OneActor, Acting
<1>4. ASSUME NEW c \in Challenges
      PROVE  Stage(c) = IF c \in Issued THEN "offered" ELSE "none"
  BY DEF OtpInit, Stage
<1>5. Promise!Init
  BY <1>4 DEF OtpInit, Promise!Init
<1> QED BY <1>1, <1>3, <1>5 DEF OtpInv

\* Nobody begins or ends to verify or to carry out.
LEMMA OtpCalls ==
    ASSUME OtpInv, CallsMove
    PROVE  /\ DOMAIN pc' = Workers
           /\ job' \in [Workers -> Challenges \cup {NoChallenge}]
           /\ noted' \in [Workers -> 0 .. MaxAttempts]
           /\ \A v \in Workers : pc'[v] = "find" => job'[v] \in Challenges
           /\ \A v \in Workers :
                 /\ pc[v] \in Busy <=> pc'[v] \in Busy
                 /\ pc[v] \in Busy => pc'[v] = pc[v] /\ job'[v] = job[v] /\ noted'[v] = noted[v]
<1>1. CASE UNCHANGED callVars
  BY <1>1 DEF OtpInv, OtpTypeOK, OtpRows, RowsHeld, callVars
<1>2. ASSUME NEW w \in Workers, pc[w] \notin Busy, NEW l, NEW j, NEW n, Moves(w, l, j, n)
      PROVE  /\ DOMAIN pc' = Workers
             /\ job' \in [Workers -> Challenges \cup {NoChallenge}]
             /\ noted' \in [Workers -> 0 .. MaxAttempts]
             /\ \A v \in Workers : pc'[v] = "find" => job'[v] \in Challenges
             /\ \A v \in Workers :
                   /\ pc[v] \in Busy <=> pc'[v] \in Busy
                   /\ pc[v] \in Busy => pc'[v] = pc[v] /\ job'[v] = job[v] /\ noted'[v] = noted[v]
  BY <1>2 DEF OtpInv, OtpTypeOK, OtpRows, RowsHeld, Moves
<1> QED BY <1>1, <1>2 DEF CallsMove, Moved

\* Request w is done with its row, or with its action.
LEMMA OtpLeaves ==
    ASSUME OtpInv, NEW w \in Workers, Moved(w)
    PROVE  /\ DOMAIN pc' = Workers
           /\ job' \in [Workers -> Challenges \cup {NoChallenge}]
           /\ noted' \in [Workers -> 0 .. MaxAttempts]
           /\ pc'[w] \notin Busy
           /\ pc'[w] = "find" => job'[w] \in Challenges
           /\ \A v \in Workers \ {w} :
                 pc'[v] = pc[v] /\ job'[v] = job[v] /\ noted'[v] = noted[v]
<1> PICK l, j, n : Moves(w, l, j, n)
  BY DEF Moved
<1> QED BY DEF OtpInv, OtpTypeOK, Moves

\* A request moves that holds no row and has nothing to carry out, or none does.
LEMMA OtpMove ==
    ASSUME OtpInv, CallsMove, UNCHANGED <<rowVars, effects, codeLock, now>>
    PROVE  OtpKept
<1>1. OtpTypeOK'
  BY OtpCalls DEF OtpInv, OtpTypeOK, rowVars
<1>2. RowsHeld'
  BY OtpCalls DEF OtpInv, OtpRows, RowsHeld, rowVars, Busy, Acting
<1>3. RowsCount' /\ OneActor'
  BY OtpCalls DEF OtpInv, OtpRows, RowsCount, OneActor, rowVars, Busy, Acting
<1>4. ASSUME NEW c \in Challenges
      PROVE  Stage(c)' = Stage(c)
  <2>1. Granted(c)' <=> Granted(c)
    BY OtpCalls DEF Granted, Busy, Acting
  <2> QED BY <2>1 DEF Stage, rowVars
<1>5. UNCHANGED Promise!vars
  BY <1>4 DEF Promise!vars, rowVars
<1> QED BY <1>1, <1>2, <1>3, <1>5 DEF OtpKept, OtpInv, OtpRows

\* The row of an action is inserted.
LEMMA OtpInsert ==
    ASSUME OtpInv, NEW c \in Challenges, Insert(c), CallsMove, UNCHANGED <<effects, now>>
    PROVE  OtpKept
<1> USE OtpAssumption
<1>1. OtpTypeOK'
  BY OtpCalls DEF OtpInv, OtpTypeOK, Insert, Codes
<1>2. \A w \in Workers : pc[w] \in Busy => job[w] # c
  BY DEF OtpInv, OtpRows, RowsHeld, OneActor, Insert, Busy
<1>3. RowsHeld'
  BY <1>2, OtpCalls DEF OtpInv, OtpTypeOK, OtpRows, RowsHeld, Insert, Busy, Acting
<1>4. RowsCount'
  BY DEF OtpInv, OtpTypeOK, OtpRows, RowsCount, Insert
<1>5. OneActor'
  BY <1>2, OtpCalls DEF OtpInv, OtpTypeOK, OtpRows, RowsHeld, OneActor, Insert, Busy, Acting
<1>6. ASSUME NEW d \in Challenges
      PROVE  Stage(d)' = IF d = c THEN "offered" ELSE Stage(d)
  <2>1. Granted(d)' <=> Granted(d)
    BY OtpCalls DEF Granted, Busy, Acting
  <2> QED BY <2>1 DEF Stage, Insert, OtpInv, OtpTypeOK
<1>7. Stage(c) = "none"
  BY DEF Stage, Insert
<1>8. Promise!Offer(c)
  BY <1>6, <1>7 DEF Promise!Offer, Promise!Move, Insert
<1> QED BY <1>1, <1>3, <1>4, <1>5, <1>8 DEF OtpKept, OtpInv, OtpRows, Promise!Next

\* The row is read and locked.
LEMMA OtpLock ==
    ASSUME OtpInv, NEW w \in Workers, LockCode(w), UNCHANGED <<effects, now>>
    PROVE  OtpKept
<1> USE OtpAssumption
<1> DEFINE c == job[w]
<1>1. c \in Challenges /\ pc[w] = "find"
  BY DEF OtpInv, OtpRows, RowsHeld, LockCode
<1>2. /\ pc'[w] = "verify" /\ noted'[w] = attempts[c] /\ job' = job
      /\ \A v \in Workers \ {w} : pc'[v] = pc[v] /\ noted'[v] = noted[v]
      /\ codeLock'[c] = w
      /\ \A d \in Challenges \ {c} : codeLock'[d] = codeLock[d]
  BY <1>1 DEF OtpInv, OtpTypeOK, LockCode
<1>3. OtpTypeOK'
  BY <1>1 DEF OtpInv, OtpTypeOK, LockCode, rowVars
<1>4. RowsHeld'
  <2>1. \A v \in Workers : pc[v] = "verify" => job[v] # c
    BY <1>1 DEF OtpInv, OtpRows, RowsHeld, LockCode, CodeFree
  <2> QED BY <1>1, <1>2, <2>1 DEF OtpInv, OtpRows, RowsHeld, LockCode, rowVars, Acting
<1>5. RowsCount' /\ OneActor'
  BY <1>1, <1>2 DEF OtpInv, OtpRows, RowsCount, OneActor, LockCode, rowVars, Acting
<1>6. ASSUME NEW d \in Challenges
      PROVE  Stage(d)' = Stage(d)
  <2>1. Granted(d)' <=> Granted(d)
    BY <1>1, <1>2 DEF Granted, Acting
  <2> QED BY <2>1 DEF Stage, LockCode, rowVars
<1>7. UNCHANGED Promise!vars
  BY <1>6 DEF Promise!vars, LockCode, rowVars
<1> QED BY <1>3, <1>4, <1>5, <1>7 DEF OtpKept, OtpInv, OtpRows

\* Only its own row is freed when a request that verifies lets go.
LEMMA OtpReleases ==
    ASSUME OtpInv, NEW w \in Workers, pc[w] = "verify", ReleaseCode(w)
    PROVE  /\ job[w] \in Challenges
           /\ code[job[w]] = "open"
           /\ noted[w] = attempts[job[w]]
           /\ guesses[job[w]] = attempts[job[w]]
           /\ codeLock' \in [Challenges -> Workers \cup {NoWorker}]
           /\ codeLock'[job[w]] = NoWorker
           /\ \A d \in Challenges \ {job[w]} : codeLock'[d] = codeLock[d] /\ codeLock[d] # w
           /\ \A v \in Workers \ {w} : pc[v] \in Busy => job[v] # job[w]
<1> USE OtpAssumption
<1>1. job[w] \in Challenges /\ code[job[w]] = "open" /\ noted[w] = attempts[job[w]]
  BY DEF OtpInv, OtpRows, RowsHeld
<1>2. \A d \in Challenges : codeLock[d] = w <=> d = job[w]
  BY DEF OtpInv, OtpRows, RowsHeld
<1>3. \A v \in Workers \ {w} : pc[v] \in Busy => job[v] # job[w]
  BY <1>1, <1>2 DEF OtpInv, OtpRows, RowsHeld, OneActor, Busy
<1> QED BY <1>1, <1>2, <1>3 DEF OtpInv, OtpTypeOK, OtpRows, RowsCount, ReleaseCode

\* An expired code is refused, and so is any request that dies verifying.
LEMMA OtpRefused ==
    ASSUME OtpInv, NEW w \in Workers, pc[w] = "verify", ReleaseCode(w), Moved(w),
           UNCHANGED <<rowVars, effects, now>>
    PROVE  OtpKept
<1> USE OtpAssumption
<1>1. OtpTypeOK'
  BY OtpReleases, OtpLeaves DEF OtpInv, OtpTypeOK, rowVars
<1>2. RowsHeld'
  BY OtpReleases, OtpLeaves DEF OtpInv, OtpTypeOK, OtpRows, RowsHeld, rowVars, Busy, Acting
<1>3. RowsCount' /\ OneActor'
  BY OtpLeaves DEF OtpInv, OtpRows, RowsCount, OneActor, rowVars, Busy, Acting
<1>4. ASSUME NEW d \in Challenges
      PROVE  Stage(d)' = Stage(d)
  <2>1. Granted(d)' <=> Granted(d)
    BY OtpLeaves DEF Granted, Busy, Acting
  <2> QED BY <2>1 DEF Stage, rowVars
<1>5. UNCHANGED Promise!vars
  BY <1>4 DEF Promise!vars, rowVars
<1> QED BY <1>1, <1>2, <1>3, <1>5 DEF OtpKept, OtpInv, OtpRows

\* A wrong code is counted.
LEMMA OtpWrong ==
    ASSUME OtpInv, NEW w \in Workers, WrongCode(w), Moved(w), UNCHANGED <<effects, now>>
    PROVE  OtpKept
<1> USE OtpAssumption
<1> DEFINE c == job[w]
<1>1. pc[w] = "verify" /\ ReleaseCode(w)
  BY DEF WrongCode, Compared
<1>2. attempts[c] \in Nat /\ attempts[c] + 1 < MaxAttempts
  BY <1>1, OtpReleases DEF OtpInv, OtpTypeOK, WrongCode
<1>3. OtpTypeOK'
  BY <1>1, <1>2, OtpReleases, OtpLeaves DEF OtpInv, OtpTypeOK, WrongCode
<1>4. RowsHeld'
  BY <1>1, OtpReleases, OtpLeaves DEF OtpInv, OtpTypeOK, OtpRows, RowsHeld, WrongCode, Busy, Acting
<1>5. RowsCount'
  BY <1>1, <1>2, OtpReleases DEF OtpInv, OtpTypeOK, OtpRows, RowsCount, WrongCode
<1>6. OneActor'
  BY <1>1, OtpReleases, OtpLeaves DEF OtpInv, OtpTypeOK, OtpRows, RowsHeld, OneActor, WrongCode, Busy, Acting
<1>7. ASSUME NEW d \in Challenges
      PROVE  Stage(d)' = Stage(d)
  <2>1. Granted(d)' <=> Granted(d)
    BY <1>1, OtpLeaves DEF Granted, Busy, Acting
  <2> QED BY <2>1 DEF Stage, WrongCode
<1>8. Stage(c) = "offered"
  BY <1>1, OtpReleases DEF Stage
<1>9. Promise!Mistake(c)
  BY <1>1, <1>2, <1>7, <1>8, OtpReleases DEF Promise!Mistake, WrongCode
<1> QED BY <1>1, <1>3, <1>4, <1>5, <1>6, <1>9, OtpReleases DEF OtpKept, OtpInv, OtpRows, Promise!Next

\* The last wrong code also consumes the row.
LEMMA OtpStrike ==
    ASSUME OtpInv, NEW w \in Workers, LastStrike(w), Moved(w), UNCHANGED <<effects, now>>
    PROVE  OtpKept
<1> USE OtpAssumption
<1> DEFINE c == job[w]
<1>1. pc[w] = "verify" /\ ReleaseCode(w)
  BY DEF LastStrike, Compared
<1>2. attempts[c] \in Nat /\ attempts[c] + 1 = MaxAttempts
  BY <1>1, OtpReleases DEF OtpInv, OtpTypeOK, OtpRows, RowsCount, LastStrike
<1>3. OtpTypeOK'
  BY <1>1, <1>2, OtpReleases, OtpLeaves DEF OtpInv, OtpTypeOK, LastStrike, Codes
<1>4. RowsHeld'
  BY <1>1, OtpReleases, OtpLeaves DEF OtpInv, OtpTypeOK, OtpRows, RowsHeld, LastStrike, Busy, Acting
<1>5. RowsCount'
  BY <1>1, <1>2, OtpReleases DEF OtpInv, OtpTypeOK, OtpRows, RowsCount, LastStrike
<1>6. OneActor'
  BY <1>1, OtpReleases, OtpLeaves DEF OtpInv, OtpTypeOK, OtpRows, RowsHeld, OneActor, LastStrike, Busy, Acting
<1>7. ASSUME NEW d \in Challenges
      PROVE  Stage(d)' = IF d = c THEN "closed" ELSE Stage(d)
  <2>1. Granted(d)' <=> Granted(d)
    BY <1>1, OtpLeaves DEF Granted, Busy, Acting
  <2>2. ~Granted(c)
    BY <1>1, OtpReleases DEF Granted, Busy, Acting
  <2> QED BY <2>1, <2>2, <1>1, OtpReleases DEF Stage, LastStrike, OtpInv, OtpTypeOK
<1>8. Stage(c) = "offered"
  BY <1>1, OtpReleases DEF Stage
<1>9. Promise!LastMistake(c)
  BY <1>1, <1>2, <1>7, <1>8, OtpReleases DEF Promise!LastMistake, Promise!Move, LastStrike
<1> QED BY <1>1, <1>3, <1>4, <1>5, <1>6, <1>9, OtpReleases DEF OtpKept, OtpInv, OtpRows, Promise!Next

\* The right code consumes the row; request w has an action to carry out.
LEMMA OtpRight ==
    ASSUME OtpInv, NEW w \in Workers, RightCode(w), Goto(w, "act"), UNCHANGED <<effects, now>>
    PROVE  OtpKept
<1> USE OtpAssumption
<1>1. pc[w] = "verify" /\ ReleaseCode(w)
  BY DEF RightCode, Compared
<1> PICK c \in Challenges : c = job[w]
  BY <1>1, OtpReleases
<1>2. /\ pc'[w] = "act" /\ job' = job /\ noted' = noted /\ DOMAIN pc' = Workers
      /\ \A v \in Workers \ {w} : pc'[v] = pc[v]
  BY DEF Goto, OtpInv, OtpTypeOK
<1>3. OtpTypeOK'
  BY <1>1, <1>2, OtpReleases DEF OtpInv, OtpTypeOK, RightCode, Codes
<1>4. RowsHeld'
  BY <1>1, <1>2, OtpReleases DEF OtpInv, OtpTypeOK, OtpRows, RowsHeld, RightCode, Busy, Acting
<1>5. RowsCount'
  BY <1>1, OtpReleases DEF OtpInv, OtpTypeOK, OtpRows, RowsCount, RightCode
<1>6. effects[c] = 0 /\ guesses[c] < MaxAttempts
  BY <1>1, OtpReleases DEF OtpInv, OtpTypeOK, OtpRows, RowsCount, OneActor
<1>7. OneActor'
  BY <1>1, <1>2, <1>6, OtpReleases DEF OtpInv, OtpTypeOK, OtpRows, RowsHeld, OneActor, RightCode, Busy, Acting
<1>8. ASSUME NEW d \in Challenges
      PROVE  Stage(d)' = IF d = c THEN "accepted" ELSE Stage(d)
  <2>1. Granted(c)'
    BY <1>2 DEF Granted, Acting
  <2>2. d # c => (Granted(d)' <=> Granted(d))
    BY <1>1, <1>2 DEF Granted, Acting
  <2>3. code[c] = "open" /\ code' = [code EXCEPT ![c] = "consumed"]
    BY <1>1, OtpReleases DEF RightCode
  <2>4. code'[c] = "consumed" /\ (d # c => code'[d] = code[d])
    BY <2>3 DEF OtpInv, OtpTypeOK
  <2>5. Stage(c)' = "accepted"
    BY <2>1, <2>4 DEF Stage
  <2>6. CASE d # c
    BY <2>2, <2>4, <2>6 DEF Stage
  <2> QED BY <2>5, <2>6
<1>9. Stage(c) = "offered"
  BY <1>1, OtpReleases DEF Stage
<1>10. now - issuedAt[c] <= CodeTtl
  BY <1>1, OtpReleases DEF RightCode, Compared, Stale, OtpInv, OtpTypeOK
<1>11. Promise!Move(c, "offered", "accepted")
  BY <1>8, <1>9 DEF Promise!Move
<1>12. Promise!Accept(c)
  BY <1>10, <1>11 DEF Promise!Accept, RightCode
<1> QED BY <1>1, <1>3, <1>4, <1>5, <1>7, <1>12, OtpReleases DEF OtpKept, OtpInv, OtpRows, Promise!Next

\* The action is under way, and will be for another statement.
LEMMA OtpCarryOn ==
    ASSUME OtpInv, NEW w \in Workers, pc[w] \in Acting, NEW l \in Acting, Goto(w, l),
           UNCHANGED <<rowVars, effects, codeLock, now>>
    PROVE  OtpKept
<1> USE OtpAssumption
<1>1. /\ pc'[w] = l /\ job' = job /\ noted' = noted /\ DOMAIN pc' = Workers
      /\ \A v \in Workers \ {w} : pc'[v] = pc[v]
  BY DEF Goto, OtpInv, OtpTypeOK
<1>2. OtpTypeOK'
  BY <1>1 DEF OtpInv, OtpTypeOK, rowVars
<1>3. RowsHeld'
  BY <1>1 DEF OtpInv, OtpRows, RowsHeld, rowVars, Acting
<1>4. RowsCount' /\ OneActor'
  BY <1>1 DEF OtpInv, OtpRows, RowsCount, OneActor, rowVars, Acting
<1>5. ASSUME NEW d \in Challenges
      PROVE  Stage(d)' = Stage(d)
  <2>1. Granted(d)' <=> Granted(d)
    BY <1>1 DEF Granted
  <2> QED BY <2>1 DEF Stage, rowVars
<1>6. UNCHANGED Promise!vars
  BY <1>5 DEF Promise!vars, rowVars
<1> QED BY <1>2, <1>3, <1>4, <1>6 DEF OtpKept, OtpInv, OtpRows

\* The action is carried out, or refused with the code spent.
LEMMA OtpPerform ==
    ASSUME OtpInv, NEW w \in Workers, pc[w] \in Acting, Moved(w),
           effects' = [effects EXCEPT ![job[w]] = @ + 1] \/ UNCHANGED effects,
           UNCHANGED <<rowVars, codeLock, now>>
    PROVE  OtpKept
<1> USE OtpAssumption
<1> PICK c \in Challenges : c = job[w]
  BY DEF OtpInv, OtpRows, RowsHeld
<1>1. code[c] = "consumed" /\ effects[c] = 0 /\ guesses[c] < MaxAttempts
  BY DEF OtpInv, OtpRows, OneActor
<1>2. \A v \in Workers \ {w} : pc[v] \in Acting => job[v] # c
  BY DEF OtpInv, OtpRows, OneActor
<1>3. /\ effects' \in [Challenges -> Nat]
      /\ effects'[c] \in {0, 1}
      /\ \A d \in Challenges \ {c} : effects'[d] = effects[d]
  BY <1>1 DEF OtpInv, OtpTypeOK
<1>4. OtpTypeOK'
  BY <1>3, OtpLeaves DEF OtpInv, OtpTypeOK, rowVars
<1>5. RowsHeld'
  BY OtpLeaves DEF OtpInv, OtpTypeOK, OtpRows, RowsHeld, rowVars, Busy, Acting
<1>6. RowsCount'
  BY DEF OtpInv, OtpRows, RowsCount, rowVars
<1>7. OneActor'
  <2>1. ASSUME NEW v \in Workers, pc'[v] \in Acting
        PROVE  v # w /\ pc[v] \in Acting /\ job'[v] = job[v] /\ job[v] # c
    BY <1>2, <2>1, OtpLeaves DEF Busy
  <2> QED BY <1>1, <1>3, <2>1 DEF OtpInv, OtpRows, RowsHeld, OneActor, rowVars
<1>8. ASSUME NEW d \in Challenges
      PROVE  Stage(d)' = IF d = c THEN "closed" ELSE Stage(d)
  <2>1. ~Granted(c)'
    BY <1>2, OtpLeaves DEF Granted, Busy
  <2>2. d # c => (Granted(d)' <=> Granted(d))
    BY OtpLeaves DEF Granted, Busy
  <2> QED BY <1>1, <2>1, <2>2 DEF Stage, rowVars
<1>9. Stage(c) = "accepted"
  BY <1>1 DEF Stage, Granted
<1>10. CASE effects' = [effects EXCEPT ![job[w]] = @ + 1]
  <2>1. Promise!Move(c, "accepted", "closed")
    BY <1>8, <1>9 DEF Promise!Move
  <2>2. Promise!Perform(c)
    BY <1>10, <2>1 DEF Promise!Perform, rowVars
  <2> QED BY <1>4, <1>5, <1>6, <1>7, <2>2 DEF OtpKept, OtpInv, OtpRows, Promise!Next
<1>11. CASE UNCHANGED effects
  <2>1. Promise!Drop
    <3> DEFINE D == {c}
    <3>1. D \in SUBSET {d \in Challenges : [e \in Challenges |-> Stage(e)][d] = "accepted"} /\ D # {}
      BY <1>9
    <3>2. [d \in Challenges |-> Stage(d)]'
            = [d \in Challenges |-> IF d \in D THEN "closed" ELSE [e \in Challenges |-> Stage(e)][d]]
      BY <1>8
    <3> QED BY <1>11, <3>1, <3>2 DEF Promise!Drop, rowVars
  <2> QED BY <1>4, <1>5, <1>6, <1>7, <2>1 DEF OtpKept, OtpInv, OtpRows, Promise!Next
<1> QED BY <1>10, <1>11

\* A request dies, whatever it was at.
LEMMA OtpDied ==
    ASSUME OtpInv, NEW w \in Workers, ReleaseCode(w), Moved(w),
           UNCHANGED <<rowVars, effects, now>>
    PROVE  OtpKept
<1>1. CASE pc[w] = "verify"
  BY <1>1, OtpRefused
<1>2. CASE pc[w] # "verify"
  <2>1. UNCHANGED codeLock
    <3>1. \A c \in Challenges : codeLock[c] # w
      BY <1>2 DEF OtpInv, OtpRows, RowsHeld
    <3> QED BY <3>1 DEF ReleaseCode, OtpInv, OtpTypeOK
  <2>2. CASE pc[w] \in Acting
    BY <2>1, <2>2, OtpPerform
  <2>3. CASE pc[w] \notin Acting
    BY <1>2, <2>1, <2>3, OtpMove DEF CallsMove, Busy
  <2> QED BY <2>2, <2>3
<1> QED BY <1>1, <1>2

\* The clock moves.
LEMMA OtpTick ==
    ASSUME OtpInv, now < MaxNow, now' = now + 1, UNCHANGED <<rowVars, effects, codeLock, callVars>>
    PROVE  OtpKept
<1> USE OtpAssumption
<1>1. OtpInv'
  BY DEF OtpInv, OtpTypeOK, OtpRows, RowsHeld, RowsCount, OneActor, rowVars, callVars
<1>2. ASSUME NEW c \in Challenges
      PROVE  Stage(c)' = Stage(c)
  BY DEF Stage, Granted, rowVars, callVars
<1>3. Promise!Tick
  BY <1>2 DEF Promise!Tick, rowVars
<1> QED BY <1>1, <1>3 DEF OtpKept, Promise!Next

\* The server restarts: every request dies, every lock is gone.
LEMMA OtpRestart ==
    ASSUME OtpInv,
           pc' = [w \in Workers |-> "idle"],
           job' = [w \in Workers |-> NoChallenge],
           noted' = [w \in Workers |-> 0],
           codeLock' = [c \in Challenges |-> NoWorker],
           UNCHANGED <<rowVars, effects, now>>
    PROVE  OtpKept
<1> USE OtpAssumption
<1>1. OtpTypeOK'
  BY DEF OtpInv, OtpTypeOK, rowVars
<1>2. RowsHeld' /\ RowsCount' /\ OneActor'
  BY DEF OtpInv, OtpRows, RowsHeld, RowsCount, OneActor, rowVars, Acting
<1>3. ASSUME NEW c \in Challenges
      PROVE  Stage(c)' = IF Stage(c) = "accepted" THEN "closed" ELSE Stage(c)
  <2>1. ~Granted(c)'
    BY DEF Granted, Acting
  <2> QED BY <2>1 DEF Stage, rowVars, OtpInv, OtpTypeOK, Codes
<1> DEFINE D == {c \in Challenges : Stage(c) = "accepted"}
<1>4. CASE D = {}
  <2>1. UNCHANGED Promise!vars
    BY <1>3, <1>4 DEF Promise!vars, rowVars
  <2> QED BY <1>1, <1>2, <2>1 DEF OtpKept, OtpInv, OtpRows
<1>5. CASE D # {}
  <2>1. Promise!Drop
    <3>1. D \in SUBSET {d \in Challenges : [e \in Challenges |-> Stage(e)][d] = "accepted"}
      OBVIOUS
    <3>2. [d \in Challenges |-> Stage(d)]'
            = [d \in Challenges |-> IF d \in D THEN "closed" ELSE [e \in Challenges |-> Stage(e)][d]]
      BY <1>3
    <3> QED BY <1>5, <3>1, <3>2 DEF Promise!Drop, rowVars
  <2> QED BY <1>1, <1>2, <2>1 DEF OtpKept, OtpInv, OtpRows, Promise!Next
<1> QED BY <1>4, <1>5

-----------------------------------------------------------------------------
\* The three ways in which requests move

LEMMA FinishMoves ==
    ASSUME OtpInv, NEW w \in Workers, Finish(w)
    PROVE  Moved(w)
<1>1. Moves(w, "idle", NoChallenge, 0)
  BY OtpAssumption DEF Finish, Moves, Busy, Acting
<1> QED BY <1>1 DEF Moved

LEMMA BeginMoves ==
    ASSUME OtpInv, NEW w \in Workers, NEW c \in Challenges \cup {NoChallenge}, NEW l,
           l \notin Busy, l = "find" => c \in Challenges, Begin(w, c, l)
    PROVE  CallsMove
<1>1. Moves(w, l, c, noted[w])
  BY DEF Begin, Moves, OtpInv, OtpTypeOK
<1>2. pc[w] \notin Busy
  BY DEF Begin, Busy, Acting
<1> QED BY <1>1, <1>2 DEF Moved, CallsMove

LEMMA GotoMoves ==
    ASSUME OtpInv, NEW w \in Workers, NEW l, l \notin Busy,
           l = "find" => job[w] \in Challenges, Goto(w, l)
    PROVE  Moved(w)
<1>1. Moves(w, l, job[w], noted[w])
  BY DEF Goto, Moves, OtpInv, OtpTypeOK
<1> QED BY <1>1 DEF Moved

\* What every step preserves of the past: when a row was issued, what has been
\* carried out, and the clock.
LEMMA OtpHistory ==
    ASSUME OtpInv, OtpKept
    PROVE  /\ \A c \in Challenges : /\ effects'[c] >= effects[c]
                                    /\ code[c] # "none" => issuedAt'[c] = issuedAt[c]
           /\ now' >= now
<1> DEFINE S(c) == [d \in Challenges |-> Stage(d)][c]
<1>0. \A c \in Challenges : S(c) = "none" => code[c] = "none"
  BY DEF Stage
<1>1. CASE UNCHANGED Promise!vars
  BY <1>1 DEF Promise!vars, OtpInv, OtpTypeOK
<1>2. ASSUME NEW c \in Challenges, Promise!Offer(c)
      PROVE  /\ effects' = effects /\ now' = now /\ code[c] = "none"
             /\ issuedAt' = [issuedAt EXCEPT ![c] = now]
  BY <1>0, <1>2 DEF Promise!Offer, Promise!Move
<1>3. ASSUME NEW c \in Challenges, Promise!Mistake(c) \/ Promise!LastMistake(c) \/ Promise!Accept(c)
      PROVE  effects' = effects /\ now' = now /\ issuedAt' = issuedAt
  BY <1>3 DEF Promise!Mistake, Promise!LastMistake, Promise!Accept
<1>4. ASSUME NEW c \in Challenges, Promise!Perform(c)
      PROVE  effects' = [effects EXCEPT ![c] = @ + 1] /\ now' = now /\ issuedAt' = issuedAt
  BY <1>4 DEF Promise!Perform
<1>5. Promise!Drop => effects' = effects /\ now' = now /\ issuedAt' = issuedAt
  BY DEF Promise!Drop
<1>6. Promise!Tick => effects' = effects /\ now' = now + 1 /\ issuedAt' = issuedAt
  BY DEF Promise!Tick
<1> QED BY <1>1, <1>2, <1>3, <1>4, <1>5, <1>6 DEF OtpKept, Promise!Next, OtpInv, OtpTypeOK
=============================================================================
