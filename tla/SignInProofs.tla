---------------------------- MODULE SignInProofs ----------------------------
(***************************************************************************)
(* Theorems about SignIn, for every number of browsers, challenges and     *)
(* requests: the password alone opens no session of a customer with a      *)
(* chat, an unlink that is due takes effect first, and origins are blocked *)
(* for their own challenges' strikes.                                      *)
(***************************************************************************)
EXTENDS SignIn, ActionOtpProofs

USE OtpAssumption, SignInAssumption

LEMMA SignInInv == IInv => OtpInv
  BY DEF IInv, TypeOK, OtpInv

LEMMA SignInInit == Init => IInv /\ Promise!Init
<1> SUFFICES ASSUME Init
             PROVE  IInv /\ Promise!Init
  OBVIOUS
<1>1. OtpInv /\ Promise!Init
  BY OtpInitial DEF Init
<1>2. TypeOK
  BY <1>1 DEF Init, OtpInit, OtpInv, TypeOK, Labels, Env!LinkInit
<1>3. LinkSeen /\ PasswordAloneExcused /\ DueUnlinkInForce
  BY DEF Init, OtpInit, LinkSeen, PasswordAloneExcused, DueUnlinkInForce
<1>4. OriginsKnown /\ BlocksAreEarned /\ StrikesBlock
  BY DEF Init, OtpInit, OriginsKnown, BlocksAreEarned, StrikesBlock
<1> QED BY <1>1, <1>2, <1>3, <1>4 DEF IInv, OtpInv

\* Every step of sign-in and guard is one of the steps the code service knows.
LEMMA SignInOtp ==
    ASSUME IInv, [Next]_vars
    PROVE  OtpKept
<1> USE SignInInv
<1> USE DEF loginVars, blockVars, linkVars, ghostVars
\* The requests that arrive.
<1>1. ASSUME NEW w \in Workers, NEW b \in Browsers, SubmitPassword(w, b) \/ GuardCheck(w, b)
      PROVE  OtpKept
  BY <1>1, BeginMoves, OtpMove DEF SubmitPassword, GuardCheck, Arrive, Busy, Acting
<1>2. ASSUME NEW w \in Workers, NEW c \in Challenges, NEW b \in Browsers, StepupFind(w, c, b)
      PROVE  OtpKept
  BY <1>2, BeginMoves, OtpMove DEF StepupFind, Arrive, Busy, Acting
\* The steps of login_submit and of the guard.
<1>3. ASSUME NEW w \in Workers, CheckBlock(w) \/ CheckLink(w)
      PROVE  OtpKept
  BY <1>3, GotoMoves, FinishMoves, OtpMove
     DEF CheckBlock, CheckLink, Step, Respond, CallsMove, Busy, Acting
<1>4. ASSUME NEW w \in Workers, ApplyUnlink(w) \/ Undelivered(w)
      PROVE  OtpKept
  BY <1>4, GotoMoves, OtpMove DEF ApplyUnlink, Undelivered, CallsMove, Busy, Acting
<1>5. ASSUME NEW w \in Workers, Deliver(w) \/ OpenPlain(w)
      PROVE  OtpKept
  BY <1>5, FinishMoves, OtpMove DEF Deliver, OpenPlain, Respond, CallsMove, Busy, Acting
<1>6. ASSUME NEW w \in Workers, GuardTouch(w) \/ GuardUnlink(w)
      PROVE  OtpKept
  BY <1>6, GotoMoves, OtpMove DEF GuardTouch, GuardUnlink, Step, CallsMove, Busy, Acting
<1>7. ASSUME NEW w \in Workers, GuardGate(w) \/ Handle(w)
      PROVE  OtpKept
  BY <1>7, GotoMoves, FinishMoves, OtpMove
     DEF GuardGate, Handle, Step, Respond, CallsMove, Busy, Acting
\* The life of a challenge.
<1>8. ASSUME NEW w \in Workers, NEW c \in Challenges, IssueStepup(w, c)
      PROVE  OtpKept
  BY <1>8, GotoMoves, OtpInsert DEF IssueStepup, Step, CallsMove, Busy, Acting
<1>9. ASSUME NEW w \in Workers, StepupVerify(w)
      PROVE  OtpKept
  <2>1. CASE LockCode(w)
    BY <1>9, <2>1, OtpLock DEF StepupVerify
  <2>2. CASE CodeGone(w) /\ Respond(w)
    BY <1>9, <2>2, FinishMoves, OtpMove DEF StepupVerify, CodeGone, Respond, CallsMove, Busy, Acting
  <2>3. CASE CodeExpired(w) /\ Respond(w)
    BY <1>9, <2>3, FinishMoves, OtpRefused DEF StepupVerify, CodeExpired, Respond
  <2>4. CASE WrongCode(w) /\ Respond(w)
    BY <1>9, <2>4, FinishMoves, OtpWrong DEF StepupVerify, Respond
  <2>5. CASE LastStrike(w) /\ Step(w, "block")
    BY <1>9, <2>5, GotoMoves, OtpStrike DEF StepupVerify, Step, Busy, Acting
  <2>6. CASE RightCode(w) /\ Step(w, "act")
    BY <1>9, <2>6, OtpRight DEF StepupVerify, Step
  <2> QED BY <1>9, <2>1, <2>2, <2>3, <2>4, <2>5, <2>6 DEF StepupVerify
<1>10. ASSUME NEW w \in Workers, Block(w)
       PROVE  OtpKept
  BY <1>10, FinishMoves, OtpMove DEF Block, Respond, CallsMove, Busy, Acting
<1>11. ASSUME NEW w \in Workers, OpenWithCode(w)
       PROVE  OtpKept
  BY <1>11, FinishMoves, OtpPerform DEF OpenWithCode, Respond, Acting
\* What the requests have no part in.
<1>12. ASSUME NEW b \in Browsers, GuardExpire(b) \/ Logout(b)
       PROVE  OtpKept
  BY <1>12, OtpMove DEF GuardExpire, Logout, CallsMove
<1>13. CASE LinkMoves
  BY <1>13, OtpMove DEF LinkMoves, CallsMove
<1>14. CASE Restart
  BY <1>14, OtpRestart DEF Restart
<1>15. CASE Tick
  BY <1>15, OtpTick DEF Tick, Env!Tick
<1>16. ASSUME NEW w \in Workers, Abort(w)
       PROVE  OtpKept
  BY <1>16, FinishMoves, OtpDied DEF Abort, Respond
<1>17. CASE UNCHANGED vars
  BY <1>17, OtpMove DEF vars, CallsMove
<1> QED BY <1>1, <1>2, <1>3, <1>4, <1>5, <1>6, <1>7, <1>8, <1>9, <1>10, <1>11, <1>12, <1>13,
           <1>14, <1>15, <1>16, <1>17 DEF Next, Continue

LEMMA SignInTypes ==
    ASSUME IInv, OtpKept, Next
    PROVE  TypeOK'
<1> USE DEF loginVars, blockVars, linkVars, ghostVars
<1>0. OtpTypeOK'
  BY DEF OtpKept, OtpInv
<1> DEFINE Typed == /\ pc' \in [Workers -> Labels]
                    /\ linked' \in BOOLEAN
                    /\ unlinkAt' \in Nat \cup {Env!Never}
                    /\ lastActive' \in 0 .. MaxNow
                    /\ blockedUntil' \in [Browsers -> Nat]
                    /\ session' \in [Browsers -> {"none", "password", "code"}]
                    /\ origin' \in [Challenges -> Browsers \cup {NoBrowser}]
                    /\ at' \in [Workers -> Browsers \cup {NoBrowser}]
                    /\ excused' \subseteq Workers
                    /\ overdue' \subseteq Workers
                    /\ unblocked' \subseteq Challenges
<1> SUFFICES Typed
  BY <1>0 DEF TypeOK
<1> USE DEF IInv, TypeOK, OtpTypeOK, Labels
<1>1. ASSUME NEW w \in Workers, NEW b \in Browsers, SubmitPassword(w, b) \/ GuardCheck(w, b)
      PROVE  Typed
  BY <1>1 DEF SubmitPassword, GuardCheck, Arrive, Begin
<1>2. ASSUME NEW w \in Workers, NEW c \in Challenges, NEW b \in Browsers, StepupFind(w, c, b)
      PROVE  Typed
  BY <1>2 DEF StepupFind, Arrive, Begin
<1>3. ASSUME NEW w \in Workers, CheckBlock(w) \/ CheckLink(w) \/ Undelivered(w) \/ Deliver(w)
      PROVE  Typed
  BY <1>3 DEF CheckBlock, CheckLink, Undelivered, Deliver, Step, Respond, Goto, Finish
<1>4. ASSUME NEW w \in Workers, ApplyUnlink(w) \/ GuardUnlink(w)
      PROVE  Typed
  BY <1>4 DEF ApplyUnlink, GuardUnlink, ApplyDue, ExcuseAll, Env!ApplyDue, Goto
<1>5. ASSUME NEW w \in Workers, OpenPlain(w) \/ GuardTouch(w) \/ GuardGate(w) \/ Handle(w)
      PROVE  Typed
  BY <1>5 DEF OpenPlain, GuardTouch, GuardGate, Handle, Step, Respond, Goto, Finish
<1>6. ASSUME NEW w \in Workers, NEW c \in Challenges, IssueStepup(w, c)
      PROVE  Typed
  BY <1>6 DEF IssueStepup, Step, Goto
<1>7. ASSUME NEW w \in Workers, StepupVerify(w)
      PROVE  Typed
  BY <1>7 DEF StepupVerify, LockCode, Step, Respond, Goto, Finish
<1>8. ASSUME NEW w \in Workers, Block(w) \/ OpenWithCode(w)
      PROVE  Typed
  <2>1. now + BlockTime \in Nat
    OBVIOUS
  <2>2. pc[w] = "block" => job[w] \in Challenges
    BY DEF OriginsKnown
  <2> QED BY <1>8, <2>1, <2>2 DEF Block, OpenWithCode, Respond, Finish
<1>9. ASSUME NEW b \in Browsers, GuardExpire(b) \/ Logout(b)
      PROVE  Typed
  BY <1>9 DEF GuardExpire, Logout, callVars
<1>10. CASE LinkMoves
  <2>1. now + NoticePeriod \in Nat
    OBVIOUS
  <2> QED BY <1>10, <2>1 DEF LinkMoves, callVars, ExcuseAll,
                             Env!Link, Env!Unlink, Env!Cancel, Env!Schedule
<1>11. CASE Restart
  BY <1>11 DEF Restart, BlockPending
<1>12. CASE Tick
  BY <1>12 DEF Tick, Env!Tick, BeforeUnlink, callVars
<1>13. ASSUME NEW w \in Workers, Abort(w)
       PROVE  Typed
  BY <1>13 DEF Abort, BlockPending, Respond, Finish
<1> QED BY <1>1, <1>2, <1>3, <1>4, <1>5, <1>6, <1>7, <1>8, <1>9, <1>10, <1>11, <1>12, <1>13
        DEF Next, Continue

-----------------------------------------------------------------------------
\* What the link does under the requests

Links == LinkSeen /\ PasswordAloneExcused /\ DueUnlinkInForce

\* A request of w moves on while the link stays: what it may move to.
LEMMA LinkStays ==
    ASSUME IInv, NEW w \in Workers,
           UNCHANGED <<linked, unlinkAt, now>>,
           \A v \in Workers \ {w} : /\ pc'[v] = pc[v]
                                    /\ v \in excused => v \in excused'
                                    /\ v \in overdue' => v \in overdue,
           w \in overdue' => pc'[w] # "idle" /\ (w \in overdue \/ Env!Due),
           pc'[w] # "idle" /\ ~linked => w \in excused',
           pc'[w] = "plain" => w \in excused',
           w \in overdue' => pc'[w] \notin {"checkLink", "gate", "issue", "deliver", "handler"},
           overdue' \subseteq Workers
    PROVE  Links'
<1>1. LinkSeen'
  BY DEF IInv, LinkSeen, Env!Due, Env!Never
<1>2. PasswordAloneExcused'
  BY DEF IInv, PasswordAloneExcused
<1>3. DueUnlinkInForce'
  BY DEF IInv, DueUnlinkInForce
<1> QED BY <1>1, <1>2, <1>3 DEF Links

\* Request w has come to the unlink that may be due: it carries it out, or fails
\* to and is no longer held to it.
LEMMA LinkApplied ==
    ASSUME IInv, NEW w \in Workers, pc[w] \in {"applyUnlink", "guardUnlink"},
           NEW l \in {"checkLink", "gate"}, ApplyDue(w), Goto(w, l), UNCHANGED now
    PROVE  Links'
<1> USE DEF IInv, TypeOK, OtpTypeOK
<1>1. /\ pc'[w] = l
      /\ \A v \in Workers \ {w} : pc'[v] = pc[v]
  BY DEF Goto
<1>2. CASE Env!Due /\ Env!ApplyDue /\ ExcuseAll /\ UNCHANGED overdue
  <2>1. ~linked' /\ \A v \in Workers : pc'[v] # "idle" => v \in excused'
    BY <1>1, <1>2 DEF ExcuseAll, Env!ApplyDue
  <2>2. LinkSeen'
    BY <2>1 DEF LinkSeen
  <2>3. PasswordAloneExcused' /\ DueUnlinkInForce'
    BY <1>1, <1>2, <2>1 DEF PasswordAloneExcused, DueUnlinkInForce
  <2> QED BY <2>2, <2>3 DEF Links
<1>3. CASE ~Env!Due /\ UNCHANGED <<linked, unlinkAt, excused, overdue>>
  <2>1. w \in overdue => ~linked
    BY <1>3 DEF LinkSeen
  <2>2. LinkSeen'
    BY <1>1, <1>3, <2>1 DEF LinkSeen, Env!Due, Env!Never
  <2>3. PasswordAloneExcused' /\ DueUnlinkInForce'
    BY <1>1, <1>3, <2>1 DEF PasswordAloneExcused, DueUnlinkInForce
  <2> QED BY <2>2, <2>3 DEF Links
<1>4. CASE overdue' = overdue \ {w} /\ UNCHANGED <<linked, unlinkAt, excused>>
  <2>1. LinkSeen'
    BY <1>1, <1>4 DEF LinkSeen, Env!Due, Env!Never
  <2>2. PasswordAloneExcused' /\ DueUnlinkInForce'
    BY <1>1, <1>4 DEF PasswordAloneExcused, DueUnlinkInForce
  <2> QED BY <2>1, <2>2 DEF Links
<1> QED BY <1>2, <1>3, <1>4 DEF ApplyDue, Env!ApplyDue, linkVars

LEMMA LinkStep ==
    ASSUME IInv, OtpKept, Next
    PROVE  Links'
<1> USE DEF loginVars, blockVars, linkVars, ghostVars
<1>0. DOMAIN pc = Workers /\ overdue \subseteq Workers /\ excused \subseteq Workers /\ now \in Nat
  BY DEF IInv, TypeOK, OtpTypeOK
<1>1. ASSUME NEW w \in Workers, NEW c, NEW b, NEW l, Arrive(w, c, b, l),
             l \notin {"idle", "plain", "checkLink", "gate", "issue", "deliver", "handler"},
             UNCHANGED <<linked, unlinkAt, now>>
      PROVE  Links'
  BY <1>0, <1>1, LinkStays DEF Arrive, Begin, IInv, LinkSeen
<1>2. ASSUME NEW w \in Workers, Respond(w), UNCHANGED <<linked, unlinkAt, now>>
      PROVE  Links'
  BY <1>0, <1>2, LinkStays DEF Respond, Finish
<1>3. ASSUME NEW w \in Workers, NEW l, pc[w] # "idle", Step(w, l), UNCHANGED <<linked, unlinkAt, now>>,
             l = "plain" => ~linked,
             l \in {"checkLink", "gate", "issue", "deliver", "handler"} => w \notin overdue,
             l # "idle"
      PROVE  Links'
  BY <1>0, <1>3, LinkStays DEF Step, Goto, IInv, LinkSeen
<1>4. ASSUME NEW w \in Workers, NEW b \in Browsers, SubmitPassword(w, b) \/ GuardCheck(w, b)
      PROVE  Links'
  BY <1>1, <1>4 DEF SubmitPassword, GuardCheck
<1>5. ASSUME NEW w \in Workers, NEW c \in Challenges, NEW b \in Browsers, StepupFind(w, c, b)
      PROVE  Links'
  BY <1>1, <1>5 DEF StepupFind
<1>6. ASSUME NEW w \in Workers, CheckBlock(w)
      PROVE  Links'
  BY <1>2, <1>3, <1>6 DEF CheckBlock
<1>7. ASSUME NEW w \in Workers, CheckLink(w)
      PROVE  Links'
  <2>1. w \in overdue => ~linked
    BY <1>7 DEF CheckLink, IInv, LinkSeen
  <2> QED BY <1>3, <1>7, <2>1 DEF CheckLink
<1>8. ASSUME NEW w \in Workers, GuardGate(w)
      PROVE  Links'
  <2>1. w \in overdue => ~linked
    BY <1>8 DEF GuardGate, IInv, LinkSeen
  <2> QED BY <1>2, <1>3, <1>8, <2>1 DEF GuardGate
<1>9. ASSUME NEW w \in Workers, ApplyUnlink(w) \/ GuardUnlink(w)
      PROVE  Links'
  BY <1>9, LinkApplied DEF ApplyUnlink, GuardUnlink
<1>10. ASSUME NEW w \in Workers, NEW c \in Challenges, IssueStepup(w, c)
       PROVE  Links'
  <2>1. w \notin overdue
    BY <1>10 DEF IssueStepup, IInv, DueUnlinkInForce
  <2> QED BY <1>3, <1>10, <2>1 DEF IssueStepup
<1>11. ASSUME NEW w \in Workers, Undelivered(w)
       PROVE  Links'
  <2>1. w \notin overdue
    BY <1>11 DEF Undelivered, IInv, DueUnlinkInForce
  <2> QED BY <1>0, <1>11, <2>1, LinkStays DEF Undelivered, Goto
<1>12. ASSUME NEW w \in Workers, Deliver(w) \/ OpenPlain(w) \/ Block(w) \/ OpenWithCode(w) \/ Handle(w)
       PROVE  Links'
  BY <1>2, <1>12 DEF Deliver, OpenPlain, Block, OpenWithCode, Handle
<1>13. ASSUME NEW w \in Workers, GuardTouch(w)
       PROVE  Links'
  BY <1>3, <1>13 DEF GuardTouch
<1>14. ASSUME NEW w \in Workers, StepupVerify(w)
       PROVE  Links'
  <2>1. CASE LockCode(w) /\ UNCHANGED <<at, ghostVars>>
    BY <1>0, <1>14, <2>1, LinkStays DEF StepupVerify, LockCode, IInv, LinkSeen
  <2>2. CASE Respond(w)
    BY <1>2, <1>14, <2>2 DEF StepupVerify
  <2>3. CASE LastStrike(w) /\ Step(w, "block")
    BY <1>3, <1>14, <2>3 DEF StepupVerify, LastStrike, Compared
  <2>4. CASE RightCode(w) /\ Step(w, "act")
    BY <1>3, <1>14, <2>4 DEF StepupVerify, RightCode, Compared
  <2> QED BY <1>14, <2>1, <2>2, <2>3, <2>4 DEF StepupVerify
<1>15. ASSUME NEW b \in Browsers, GuardExpire(b) \/ Logout(b)
       PROVE  Links'
  BY <1>15 DEF GuardExpire, Logout, callVars, Links, IInv, LinkSeen, PasswordAloneExcused,
               DueUnlinkInForce, Env!Due, Env!Never
<1>16. CASE LinkMoves
  <2> USE DEF IInv, LinkSeen, PasswordAloneExcused, DueUnlinkInForce, Links, callVars
  <2>1. CASE overdue' = {} /\ UNCHANGED excused /\ (Env!Link \/ Env!Cancel)
    BY <1>16, <2>1 DEF LinkMoves, Env!Link, Env!Cancel
  <2>2. CASE Env!Schedule /\ UNCHANGED ghostVars
    BY <1>16, <2>2 DEF LinkMoves, Env!Schedule, Env!Due
  <2>3. CASE Env!Unlink /\ ExcuseAll /\ UNCHANGED overdue
    BY <1>16, <2>3 DEF LinkMoves, Env!Unlink, ExcuseAll
  <2> QED BY <1>16, <2>1, <2>2, <2>3 DEF LinkMoves
<1>17. CASE Restart
  BY <1>17 DEF Restart, Links, LinkSeen, PasswordAloneExcused, DueUnlinkInForce
<1>18. CASE Tick
  <2>1. Env!Due => Env!Due'
    BY <1>0, <1>18 DEF Tick, Env!Tick, Env!Due, Env!Never, IInv, TypeOK
  <2>2. /\ overdue' # {} => Env!Due' \/ ~linked
        /\ \A v \in overdue' \ overdue : pc[v] \notin {"checkLink", "gate", "issue", "deliver", "handler"}
    BY <1>18, <2>1 DEF Tick, BeforeUnlink, IInv, LinkSeen
  <2> QED BY <1>18, <2>2 DEF Tick, Env!Tick, callVars, Links, IInv, LinkSeen, PasswordAloneExcused,
                             DueUnlinkInForce
<1>19. ASSUME NEW w \in Workers, Abort(w)
       PROVE  Links'
  BY <1>2, <1>19 DEF Abort
<1> QED BY <1>4, <1>5, <1>6, <1>7, <1>8, <1>9, <1>10, <1>11, <1>12, <1>13, <1>14, <1>15, <1>16,
           <1>17, <1>18, <1>19 DEF Next, Continue

-----------------------------------------------------------------------------
\* Strikes and blocks

Blocks == OriginsKnown /\ BlocksAreEarned /\ StrikesBlock

\* A step about neither.
LEMMA BlocksStay ==
    ASSUME IInv, NEW w \in Workers,
           UNCHANGED <<code, guesses, effects, origin, blockVars>>,
           \A v \in Workers \ {w} : pc'[v] = pc[v] /\ job'[v] = job[v] /\ at'[v] = at[v],
           pc[w] # "block", pc'[w] # "block",
           pc'[w] # "idle" => at'[w] \in Browsers
    PROVE  Blocks'
<1> USE DEF blockVars
<1>1. OriginsKnown'
  BY DEF IInv, OriginsKnown
<1>2. BlocksAreEarned'
  BY DEF IInv, BlocksAreEarned
<1>3. StrikesBlock'
  BY DEF IInv, StrikesBlock
<1> QED BY <1>1, <1>2, <1>3 DEF Blocks

LEMMA BlockStep ==
    ASSUME IInv, OtpKept, Next
    PROVE  Blocks'
<1> USE SignInInv
<1> USE DEF loginVars, blockVars, linkVars, ghostVars
<1>0. /\ DOMAIN pc = Workers /\ job \in [Workers -> Challenges \cup {NoChallenge}]
      /\ at \in [Workers -> Browsers \cup {NoBrowser}]
      /\ \A v \in Workers : pc[v] # "idle" => at[v] \in Browsers
  BY DEF IInv, TypeOK, OtpTypeOK, OriginsKnown
<1>1. ASSUME NEW w \in Workers, NEW c, NEW b \in Browsers, NEW l, Arrive(w, c, b, l), l # "block",
             UNCHANGED <<rowVars, effects, origin, blockVars>>
      PROVE  Blocks'
  BY <1>0, <1>1, BlocksStay DEF Arrive, Begin, rowVars
<1>2. ASSUME NEW w \in Workers, Respond(w), pc[w] # "block",
             UNCHANGED <<rowVars, effects, origin, blockVars>>
      PROVE  Blocks'
  BY <1>0, <1>2, BlocksStay DEF Respond, Finish, rowVars
<1>3. ASSUME NEW w \in Workers, NEW l, Goto(w, l), UNCHANGED at, pc[w] \notin {"idle", "block"}, l # "block",
             UNCHANGED <<rowVars, effects, origin, blockVars>>
      PROVE  Blocks'
  BY <1>0, <1>3, BlocksStay DEF Goto, rowVars
<1>4. ASSUME NEW w \in Workers, NEW b \in Browsers, SubmitPassword(w, b) \/ GuardCheck(w, b)
      PROVE  Blocks'
  BY <1>1, <1>4 DEF SubmitPassword, GuardCheck
<1>5. ASSUME NEW w \in Workers, NEW c \in Challenges, NEW b \in Browsers, StepupFind(w, c, b)
      PROVE  Blocks'
  BY <1>1, <1>5 DEF StepupFind
<1>6. ASSUME NEW w \in Workers, CheckBlock(w) \/ CheckLink(w) \/ GuardGate(w) \/ GuardTouch(w)
      PROVE  Blocks'
  BY <1>2, <1>3, <1>6 DEF CheckBlock, CheckLink, GuardGate, GuardTouch, Step
<1>7. ASSUME NEW w \in Workers, ApplyUnlink(w) \/ GuardUnlink(w) \/ Undelivered(w)
      PROVE  Blocks'
  BY <1>3, <1>7 DEF ApplyUnlink, GuardUnlink, Undelivered
<1>8. ASSUME NEW w \in Workers, Deliver(w) \/ OpenPlain(w) \/ Handle(w)
      PROVE  Blocks'
  BY <1>2, <1>8 DEF Deliver, OpenPlain, Handle
\* A fresh challenge has no guesses.
<1>9. ASSUME NEW w \in Workers, NEW c \in Challenges, IssueStepup(w, c)
      PROVE  Blocks'
  <2>1. /\ code[c] = "none" /\ guesses[c] = 0
        /\ code' = [code EXCEPT ![c] = "open"] /\ origin' = [origin EXCEPT ![c] = at[w]]
        /\ guesses' = guesses /\ effects' = effects
        /\ blockedUntil' = blockedUntil /\ unblocked' = unblocked
    BY <1>9 DEF IssueStepup, Insert, IInv, OtpRows, RowsCount
  <2>2. /\ at[w] \in Browsers /\ at' = at /\ job' = job /\ pc'[w] = "deliver"
        /\ \A v \in Workers \ {w} : pc'[v] = pc[v]
    BY <1>0, <1>9 DEF IssueStepup, Step, Goto
  <2>3. /\ code'[c] = "open" /\ origin'[c] \in Browsers
        /\ \A d \in Challenges \ {c} : code'[d] = code[d] /\ origin'[d] = origin[d]
    BY <2>1, <2>2 DEF IInv, TypeOK, OtpTypeOK
  <2>4. OriginsKnown'
    BY <1>0, <2>1, <2>2, <2>3 DEF IInv, OriginsKnown
  <2>5. BlocksAreEarned'
    BY <2>1, <2>3 DEF IInv, BlocksAreEarned
  <2>6. StrikesBlock'
    BY <1>9, <2>1, <2>2, <2>3 DEF IInv, StrikesBlock, IssueStepup
  <2> QED BY <2>4, <2>5, <2>6 DEF Blocks
<1>10. ASSUME NEW w \in Workers, StepupVerify(w)
       PROVE  Blocks'
  <2>1. CASE LockCode(w) /\ UNCHANGED <<at, ghostVars>>
    BY <1>0, <1>10, <2>1, BlocksStay DEF StepupVerify, LockCode, rowVars
  <2>2. CASE (CodeGone(w) \/ CodeExpired(w)) /\ Respond(w)
    BY <1>2, <1>10, <2>2 DEF StepupVerify, CodeGone, CodeExpired
  <2>3. ASSUME pc[w] = "verify"
        PROVE  /\ job[w] \in Challenges /\ code[job[w]] = "open"
               /\ attempts[job[w]] \in Nat /\ noted[w] = attempts[job[w]]
               /\ guesses[job[w]] = attempts[job[w]] /\ effects[job[w]] = 0
               /\ \A v \in Workers : pc[v] = "block" => job[v] # job[w]
    BY <2>3 DEF IInv, TypeOK, OtpTypeOK, OtpRows, RowsHeld, RowsCount, OneActor, OriginsKnown
  <2>4. CASE WrongCode(w) /\ Respond(w)
    <3>1. pc[w] = "verify" /\ UNCHANGED <<code, effects, origin, blockVars>>
      BY <1>10, <2>4 DEF StepupVerify, WrongCode, Compared
    <3>2. PICK c \in Challenges : c = job[w]
      BY <2>3, <3>1
    <3>3. /\ guesses[c] < MaxAttempts /\ guesses'[c] < MaxAttempts
          /\ \A d \in Challenges \ {c} : guesses'[d] = guesses[d]
      BY <2>3, <2>4, <3>1, <3>2 DEF WrongCode, IInv, TypeOK, OtpTypeOK
    <3>4. /\ pc'[w] = "idle"
          /\ \A v \in Workers \ {w} : pc'[v] = pc[v] /\ job'[v] = job[v] /\ at'[v] = at[v]
      BY <1>0, <2>4 DEF Respond, Finish
    <3>5. OriginsKnown'
      BY <2>3, <3>1, <3>2, <3>3, <3>4 DEF IInv, OriginsKnown
    <3>6. BlocksAreEarned'
      BY <3>1, <3>3 DEF IInv, BlocksAreEarned, TypeOK, OtpTypeOK
    <3>7. StrikesBlock'
      <4> SUFFICES ASSUME NEW d \in Challenges, guesses'[d] >= MaxAttempts
                   PROVE  \/ \E v \in Workers : pc'[v] = "block" /\ job'[v] = d
                          \/ blockedUntil[origin[d]] > 0
                          \/ d \in unblocked
        BY <3>1 DEF StrikesBlock
      <4>1. guesses[d] >= MaxAttempts
        BY <3>3 DEF IInv, TypeOK, OtpTypeOK, OtpKept, OtpInv
      <4>2. CASE \E v \in Workers : pc[v] = "block" /\ job[v] = d
        BY <3>1, <3>4, <4>2
      <4> QED BY <4>1, <4>2 DEF IInv, StrikesBlock
    <3> QED BY <3>5, <3>6, <3>7 DEF Blocks
  <2>5. CASE LastStrike(w) /\ Step(w, "block")
    <3>1. pc[w] = "verify" /\ UNCHANGED <<effects, origin, blockVars>>
      BY <1>10, <2>5 DEF StepupVerify, LastStrike, Compared
    <3>2. PICK c \in Challenges : c = job[w]
      BY <2>3, <3>1
    <3>3. /\ guesses'[c] >= MaxAttempts /\ code'[c] = "consumed" /\ code[c] = "open"
          /\ \A d \in Challenges \ {c} : guesses'[d] = guesses[d] /\ code'[d] = code[d]
          /\ guesses'[c] >= guesses[c]
      BY <2>3, <2>5, <3>1, <3>2 DEF LastStrike, IInv, TypeOK, OtpTypeOK
    <3>4. /\ pc'[w] = "block" /\ job' = job /\ at' = at
          /\ \A v \in Workers \ {w} : pc'[v] = pc[v]
      BY <1>0, <2>5 DEF Step, Goto
    <3>5. OriginsKnown'
      BY <1>0, <3>1, <3>2, <3>3, <3>4 DEF IInv, OriginsKnown
    <3>6. BlocksAreEarned'
      BY <3>1, <3>3 DEF IInv, BlocksAreEarned, TypeOK, OtpTypeOK
    <3>7. StrikesBlock'
      BY <3>1, <3>2, <3>3, <3>4 DEF IInv, StrikesBlock
    <3> QED BY <3>5, <3>6, <3>7 DEF Blocks
  <2>6. CASE RightCode(w) /\ Step(w, "act")
    <3>1. pc[w] = "verify" /\ UNCHANGED <<guesses, effects, origin, blockVars>>
      BY <1>10, <2>6 DEF StepupVerify, RightCode, Compared
    <3>2. PICK c \in Challenges : c = job[w]
      BY <2>3, <3>1
    <3>3. /\ code'[c] = "consumed" /\ code[c] = "open"
          /\ \A d \in Challenges \ {c} : code'[d] = code[d]
      BY <2>3, <2>6, <3>1, <3>2 DEF RightCode, IInv, TypeOK, OtpTypeOK
    <3>4. /\ pc'[w] = "act" /\ job' = job /\ at' = at
          /\ \A v \in Workers \ {w} : pc'[v] = pc[v]
      BY <1>0, <2>6 DEF Step, Goto
    <3>5. OriginsKnown'
      BY <1>0, <3>1, <3>2, <3>3, <3>4 DEF IInv, OriginsKnown
    <3>6. BlocksAreEarned' /\ StrikesBlock'
      BY <3>1, <3>4 DEF IInv, BlocksAreEarned, StrikesBlock
    <3> QED BY <3>5, <3>6 DEF Blocks
  <2> QED BY <1>10, <2>1, <2>2, <2>4, <2>5, <2>6 DEF StepupVerify
\* The origin that is blocked is the one the used-up challenge came from.
<1>11. ASSUME NEW w \in Workers, Block(w)
       PROVE  Blocks'
  <2>1. PICK c \in Challenges : c = job[w] /\ code[c] = "consumed" /\ guesses[c] >= MaxAttempts
    BY <1>11 DEF Block, IInv, OriginsKnown
  <2>2. origin[c] \in Browsers /\ effects[c] = 0
    <3>1. origin[c] \in Browsers
      BY <2>1 DEF IInv, OriginsKnown
    <3>2. guesses[c] \in Nat /\ effects[c] \in Nat
      BY DEF IInv, TypeOK, OtpTypeOK
    <3>3. effects[c] > 0 => guesses[c] < MaxAttempts
      BY DEF IInv, OtpRows, OneActor
    <3> QED BY <2>1, <3>1, <3>2, <3>3
  <2>3. /\ blockedUntil'[origin[c]] > 0 \/ (blockedUntil' = blockedUntil /\ c \in unblocked')
        /\ \A b \in Browsers \ {origin[c]} : blockedUntil'[b] = blockedUntil[b]
        /\ blockedUntil'[origin[c]] > 0 \/ blockedUntil'[origin[c]] = blockedUntil[origin[c]]
        /\ unblocked \subseteq unblocked'
    BY <1>11, <2>1, <2>2 DEF Block, IInv, TypeOK, OtpTypeOK
  <2>4. /\ pc'[w] = "idle"
        /\ \A v \in Workers \ {w} : pc'[v] = pc[v] /\ job'[v] = job[v] /\ at'[v] = at[v]
        /\ UNCHANGED <<code, guesses, effects, origin>>
    BY <1>0, <1>11 DEF Block, Respond, Finish, rowVars
  <2>5. OriginsKnown'
    BY <2>4 DEF IInv, OriginsKnown
  <2>6. BlocksAreEarned'
    BY <2>1, <2>2, <2>3, <2>4 DEF IInv, BlocksAreEarned
  <2>7. StrikesBlock'
    <3> SUFFICES ASSUME NEW d \in Challenges, guesses[d] >= MaxAttempts
                 PROVE  \/ \E v \in Workers : pc'[v] = "block" /\ job'[v] = d
                        \/ blockedUntil'[origin[d]] > 0
                        \/ d \in unblocked'
      BY <2>4 DEF StrikesBlock
    <3>1. code[d] # "none"
      BY DEF IInv, OtpRows, RowsCount, TypeOK, OtpTypeOK
    <3>2. origin[d] \in Browsers
      BY <3>1 DEF IInv, OriginsKnown
    <3> QED BY <2>1, <2>3, <2>4, <3>2 DEF IInv, StrikesBlock
  <2> QED BY <2>5, <2>6, <2>7 DEF Blocks
<1>12. ASSUME NEW w \in Workers, OpenWithCode(w)
       PROVE  Blocks'
  <2>1. PICK c \in Challenges : c = job[w]
    BY <1>12 DEF OpenWithCode, IInv, OtpRows, RowsHeld, Acting
  <2>2. guesses[c] < MaxAttempts /\ guesses[c] \in Nat
    BY <1>12, <2>1 DEF OpenWithCode, IInv, OtpRows, OneActor, Acting, TypeOK, OtpTypeOK
  <2>3. /\ pc'[w] = "idle" /\ pc[w] = "act"
        /\ \A v \in Workers \ {w} : pc'[v] = pc[v] /\ job'[v] = job[v] /\ at'[v] = at[v]
        /\ UNCHANGED <<code, guesses, origin, blockVars>>
        /\ \A d \in Challenges \ {c} : effects'[d] = effects[d]
    BY <1>0, <1>12, <2>1 DEF OpenWithCode, Respond, Finish, rowVars, IInv, TypeOK, OtpTypeOK
  <2>4. OriginsKnown' /\ StrikesBlock'
    BY <2>3 DEF IInv, OriginsKnown, StrikesBlock
  <2>5. BlocksAreEarned'
    BY <2>2, <2>3 DEF IInv, BlocksAreEarned
  <2> QED BY <2>4, <2>5 DEF Blocks
<1>13. ASSUME UNCHANGED <<rowVars, effects, callVars, origin, blockVars, at>>
       PROVE  Blocks'
  BY <1>13 DEF rowVars, callVars, Blocks, IInv, OriginsKnown, BlocksAreEarned, StrikesBlock
<1>14. ASSUME NEW b \in Browsers, GuardExpire(b) \/ Logout(b)
       PROVE  Blocks'
  BY <1>13, <1>14 DEF GuardExpire, Logout
<1>15. CASE LinkMoves \/ Tick
  BY <1>13, <1>15 DEF LinkMoves, Tick
\* A block that was pending is lost.
<1>16. ASSUME NEW D \in SUBSET Workers, UNCHANGED <<rowVars, effects, origin, blockedUntil>>,
              \A v \in D : pc'[v] = "idle",
              \A v \in Workers \ D : pc'[v] = pc[v] /\ job'[v] = job[v] /\ at'[v] = at[v],
              unblocked' = unblocked \cup UNION {BlockPending(v) : v \in D}
       PROVE  Blocks'
  <2>1. OriginsKnown'
    BY <1>16 DEF rowVars, IInv, OriginsKnown
  <2>2. BlocksAreEarned'
    BY <1>16 DEF rowVars, IInv, BlocksAreEarned
  <2>3. StrikesBlock'
    <3> SUFFICES ASSUME NEW d \in Challenges, guesses[d] >= MaxAttempts
                 PROVE  \/ \E v \in Workers : pc'[v] = "block" /\ job'[v] = d
                        \/ blockedUntil[origin[d]] > 0
                        \/ d \in unblocked'
      BY <1>16 DEF rowVars, StrikesBlock
    <3>1. CASE blockedUntil[origin[d]] > 0 \/ d \in unblocked
      BY <1>16, <3>1
    <3>2. ASSUME NEW v \in Workers, pc[v] = "block" /\ job[v] = d
          PROVE  (\E u \in Workers : pc'[u] = "block" /\ job'[u] = d) \/ d \in unblocked'
      BY <1>16, <3>2 DEF BlockPending
    <3> QED BY <3>1, <3>2 DEF IInv, StrikesBlock
  <2> QED BY <2>1, <2>2, <2>3 DEF Blocks
<1>17. ASSUME NEW w \in Workers, Abort(w)
       PROVE  Blocks'
  <2>1. /\ pc'[w] = "idle"
        /\ \A v \in Workers \ {w} : pc'[v] = pc[v] /\ job'[v] = job[v] /\ at'[v] = at[v]
    BY <1>0, <1>17 DEF Abort, Respond, Finish
  <2>2. {w} \in SUBSET Workers /\ \A v \in {w} : pc'[v] = "idle"
    BY <2>1
  <2>3. unblocked' = unblocked \cup UNION {BlockPending(v) : v \in {w}}
    BY <1>17 DEF Abort
  <2>4. UNCHANGED <<rowVars, effects, origin, blockedUntil>>
    BY <1>17 DEF Abort
  <2> QED BY <1>16, <2>1, <2>2, <2>3, <2>4
<1>18. CASE Restart
  BY <1>16, <1>18 DEF Restart
<1> QED BY <1>4, <1>5, <1>6, <1>7, <1>8, <1>9, <1>10, <1>11, <1>12, <1>14, <1>15, <1>17, <1>18
        DEF Next, Continue

LEMMA SignInStep ==
    ASSUME IInv, [Next]_vars
    PROVE  IInv'
<1>1. CASE UNCHANGED vars
  BY <1>1 DEF vars, rowVars, callVars, linkVars, loginVars, blockVars, ghostVars, IInv, TypeOK, OtpTypeOK,
              OtpRows, RowsHeld, RowsCount, OneActor, LinkSeen, OriginsKnown, PasswordAloneExcused,
              DueUnlinkInForce, BlocksAreEarned, StrikesBlock, Env!Due, Env!Never
<1>2. CASE Next
  <2>1. OtpKept
    BY SignInOtp
  <2> QED BY <1>2, <2>1, SignInTypes, LinkStep, BlockStep DEF IInv, OtpKept, OtpInv, Links, Blocks
<1> QED BY <1>1, <1>2

-----------------------------------------------------------------------------
\* Theorems

\* The inductive invariant holds in every reachable state.
THEOREM SignInInvariant == Spec => []IInv
<1>1. Init => IInv
  BY SignInInit
<1>2. IInv /\ [Next]_vars => IInv'
  BY SignInStep
<1> QED BY <1>1, <1>2, PTL DEF Spec

\* Every variable keeps its type.
THEOREM SignInTypeCorrect == Spec => []TypeOK
<1>1. IInv => TypeOK
  BY DEF IInv
<1> QED BY <1>1, SignInInvariant, PTL

\* login_submit opens a session on the password alone only to a customer whom
\* no code could reach, known origin or not.
THEOREM PasswordNeedsExcuse == Spec => []PasswordAloneExcused
<1>1. IInv => PasswordAloneExcused
  BY DEF IInv
<1> QED BY <1>1, SignInInvariant, PTL

\* login_submit and the ActivityGuard carry out an unlink that falls due before
\* they come to it, and only then rely on the link, unless their UPDATE fails.
THEOREM DueUnlinkTakesEffect == Spec => []DueUnlinkInForce
<1>1. IInv => DueUnlinkInForce
  BY DEF IInv
<1> QED BY <1>1, SignInInvariant, PTL

\* block_origin blocks origins whose own challenges were used up ...
THEOREM OnlyEarnedBlocks == Spec => []BlocksAreEarned
<1>1. IInv => BlocksAreEarned
  BY DEF IInv
<1> QED BY <1>1, SignInInvariant, PTL

\* ... and every one of them, unless block_origin's INSERT fails or is never
\* reached.
THEOREM EveryStrikeBlocks == Spec => []StrikesBlock
<1>1. IInv => StrikesBlock
  BY DEF IInv
<1> QED BY <1>1, SignInInvariant, PTL

\* login_stepup implements OneTimeAction, restarts included.
THEOREM SignInKeepsPromise == Spec => KeepsPromise
<1>1. Init => Promise!Init
  BY SignInInit
<1>2. IInv /\ [Next]_vars => [Promise!Next]_(Promise!vars)
  BY SignInOtp DEF OtpKept
<1> QED BY <1>1, <1>2, SignInInvariant, PTL DEF Spec, KeepsPromise, Promise!Spec
=============================================================================
