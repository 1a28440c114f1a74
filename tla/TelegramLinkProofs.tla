------------------------- MODULE TelegramLinkProofs -------------------------
(***************************************************************************)
(* Theorems about TelegramLink, for every number of customers, chats,      *)
(* updates and restarts: a link code links once, nobody loses the link     *)
(* without notice or a code, and each customer's link is the one SignIn    *)
(* assumes.                                                                *)
(***************************************************************************)
EXTENDS TelegramLink, ActionOtpProofs

USE OtpAssumption, LinkAssumption

LEMMA LinkInv == IInv => OtpInv
  BY DEF IInv, TypeOK, OtpInv

LEMMA LinkInitial == Init => IInv /\ Promise!Init /\ Link!LinkInit /\ now = 0
<1> SUFFICES ASSUME Init
             PROVE  IInv /\ Promise!Init /\ Link!LinkInit /\ now = 0
  OBVIOUS
<1>1. OtpInv /\ Promise!Init
  BY OtpInitial DEF Init
<1>2. TypeOK
  <2>1. stream \in Seq(Updates) /\ Len(stream) = 0
    BY DEF Init
  <2> QED BY <1>1, <2>1 DEF Init, OtpInit, OtpInv, TypeOK
<1>3. CodesLinkOnce /\ CodesMinted /\ SchedulesAsked
  BY DEF Init, OtpInit, CodesLinkOnce, CodesMinted, SchedulesAsked, NoCode
<1>4. Link!LinkInit /\ now = 0
  BY DEF Init, OtpInit, Link!LinkInit, Link!Never, Never
<1> QED BY <1>1, <1>2, <1>3, <1>4 DEF IInv, OtpInv

\* Every step is one of the steps the code service knows.
LEMMA LinkOtp ==
    ASSUME IInv, [Next]_vars
    PROVE  OtpKept
<1> USE LinkInv
<1> USE DEF linkVars, pollerVars
<1>1. ASSUME NEW w \in Workers, NEW u \in Users, ReadLink(w, u)
      PROVE  OtpKept
  BY <1>1, BeginMoves, OtpMove DEF ReadLink, Busy, Acting
<1>2. ASSUME NEW w \in Workers, NEW c \in Challenges, ConfirmUnlink(w, c)
      PROVE  OtpKept
  BY <1>2, BeginMoves, OtpMove DEF ConfirmUnlink, Busy, Acting
<1>3. ASSUME NEW w \in Workers, MintCode(w)
      PROVE  OtpKept
  BY <1>3, FinishMoves, OtpMove DEF MintCode, CallsMove, Busy, Acting
<1>4. ASSUME NEW w \in Workers, VerifyUnlink(w)
      PROVE  OtpKept
  <2>1. CASE LockCode(w)
    BY <1>4, <2>1, OtpLock DEF VerifyUnlink
  <2>2. CASE CodeGone(w) /\ Finish(w)
    BY <1>4, <2>2, FinishMoves, OtpMove DEF VerifyUnlink, CodeGone, CallsMove, Busy, Acting
  <2>3. CASE CodeExpired(w) /\ Finish(w)
    BY <1>4, <2>3, FinishMoves, OtpRefused DEF VerifyUnlink, CodeExpired
  <2>4. CASE WrongCode(w) /\ Finish(w)
    BY <1>4, <2>4, FinishMoves, OtpWrong DEF VerifyUnlink
  <2>5. CASE LastStrike(w) /\ Finish(w)
    BY <1>4, <2>5, FinishMoves, OtpStrike DEF VerifyUnlink
  <2>6. CASE RightCode(w) /\ Goto(w, "act")
    BY <1>4, <2>6, OtpRight DEF VerifyUnlink
  <2> QED BY <1>4, <2>1, <2>2, <2>3, <2>4, <2>5, <2>6 DEF VerifyUnlink
<1>5. ASSUME NEW w \in Workers, UnlinkNow(w)
      PROVE  OtpKept
  BY <1>5, FinishMoves, OtpPerform DEF UnlinkNow, Acting
<1>6. ASSUME NEW w \in Workers, Abort(w)
      PROVE  OtpKept
  BY <1>6, FinishMoves, OtpDied DEF Abort
<1>7. ASSUME NEW u \in Users, CancelUnlink(u) \/ ApplyUnlink(u)
      PROVE  OtpKept
  BY <1>7, OtpMove DEF CancelUnlink, ApplyUnlink, CallsMove
<1>8. ASSUME NEW c \in Challenges, BeginUnlink(c)
      PROVE  OtpKept
  BY <1>8, OtpInsert DEF BeginUnlink, CallsMove
<1>9. ASSUME NEW h, NEW k, Send(h, k)
      PROVE  OtpKept
  BY <1>9, OtpMove DEF Send, CallsMove
<1>10. CASE Poller
  BY <1>10, OtpMove DEF Poller, Poll, LinkChat, ScheduleUnlink, SkipUpdate, Take, CallsMove
<1>11. CASE Restart
  BY <1>11, OtpRestart DEF Restart
<1>12. CASE Tick
  BY <1>12, OtpTick DEF Tick
<1>13. CASE UNCHANGED vars
  BY <1>13, OtpMove DEF vars, CallsMove
<1> QED BY <1>1, <1>2, <1>3, <1>4, <1>5, <1>6, <1>7, <1>8, <1>9, <1>10, <1>11, <1>12, <1>13 DEF Next

-----------------------------------------------------------------------------
\* The inductive invariant

\* The update being handled is one of the stream.
LEMMA MessageType ==
    ASSUME IInv, Take
    PROVE  Message.chat \in Chats /\ Message.code \in Minted \cup {NoCode}
<1>1. handled + 1 \in 1 .. Len(stream) /\ stream \in Seq(Updates)
  BY DEF IInv, TypeOK, Take
<1>2. stream[handled + 1] \in Updates
  BY <1>1
<1> QED BY <1>2 DEF Message, Updates

LEMMA LinkTypes ==
    ASSUME IInv, OtpKept, Next
    PROVE  TypeOK'
<1> USE DEF linkVars, pollerVars, Minted, NoCode
<1>0. OtpTypeOK'
  BY DEF OtpKept, OtpInv
<1> DEFINE Typed == /\ pc' \in [Workers -> {"idle", "mint", "find", "verify", "act"}]
                    /\ chat' \in [Users -> Chats \cup {NoChat}]
                    /\ linkCode' \in [Users -> Minted \cup {NoCode}]
                    /\ unlinkAt' \in [Users -> Nat \cup {Never}]
                    /\ minted' \in 0 .. MaxMinted
                    /\ links' \in [Minted -> Nat]
                    /\ asked' \in [Users -> [chat : Chats \cup {NoChat}, at : 0 .. MaxNow]]
                    /\ reader' \in [Workers -> Users \cup {NoUser}]
           Streamed == /\ stream' \in Seq(Updates)
                       /\ acked' \in 0 .. Len(stream')
                       /\ handled' \in acked' .. fetched'
                       /\ fetched' \in acked' .. Len(stream')
                       /\ restarts' \in 0 .. MaxRestarts
<1> SUFFICES Typed /\ Streamed
  BY <1>0 DEF TypeOK
<1> USE DEF IInv, TypeOK, OtpTypeOK
<1>1. ASSUME UNCHANGED <<stream, pollerVars>>
      PROVE  Streamed
  BY <1>1
<1>2. ASSUME NEW w \in Workers, NEW u \in Users, ReadLink(w, u)
      PROVE  Typed /\ Streamed
  BY <1>1, <1>2 DEF ReadLink, Begin
<1>3. ASSUME NEW w \in Workers, NEW c \in Challenges, ConfirmUnlink(w, c)
      PROVE  Typed /\ Streamed
  BY <1>1, <1>3 DEF ConfirmUnlink, Begin
<1>4. ASSUME NEW w \in Workers, MintCode(w)
      PROVE  Typed /\ Streamed
  <2>1. minted + 1 \in Minted /\ minted' \in 0 .. MaxMinted
    BY <1>4 DEF MintCode
  <2>2. linkCode' \in [Users -> Minted \cup {NoCode}]
    BY <1>4, <2>1 DEF MintCode
  <2>3. pc' \in [Workers -> {"idle", "mint", "find", "verify", "act"}]
        /\ reader' \in [Workers -> Users \cup {NoUser}]
    BY <1>4 DEF MintCode, Finish
  <2> QED BY <1>1, <1>4, <2>1, <2>2, <2>3 DEF MintCode
<1>5. ASSUME NEW w \in Workers, VerifyUnlink(w)
      PROVE  Typed /\ Streamed
  BY <1>1, <1>5 DEF VerifyUnlink, LockCode, Finish, Goto
<1>6. ASSUME NEW w \in Workers, UnlinkNow(w) \/ Abort(w)
      PROVE  Typed /\ Streamed
  BY <1>1, <1>6 DEF UnlinkNow, Abort, Finish
<1>7. ASSUME NEW u \in Users, CancelUnlink(u) \/ ApplyUnlink(u)
      PROVE  Typed /\ Streamed
  BY <1>1, <1>7 DEF CancelUnlink, ApplyUnlink, callVars
<1>8. CASE (\E c \in Challenges : BeginUnlink(c)) \/ Tick
  BY <1>1, <1>8 DEF BeginUnlink, Tick, callVars
<1>9. ASSUME NEW h \in Chats, NEW k \in Minted \cup {NoCode}, Send(h, k)
      PROVE  Typed /\ Streamed
  <2>1. [chat |-> h, code |-> k] \in Updates
    BY DEF Updates
  <2>2. stream' \in Seq(Updates) /\ Len(stream') = Len(stream) + 1
    BY <1>9, <2>1 DEF Send
  <2> QED BY <1>9, <2>2 DEF Send, callVars
<1>10. CASE Poll
  BY <1>10 DEF Poll, callVars
<1>11. ASSUME Take
       PROVE  Streamed /\ UNCHANGED <<pc, minted, reader>>
  BY <1>11 DEF Take, callVars
<1>12. CASE LinkChat
  <2>1. Take /\ Message.chat \in Chats /\ Message.code \in Minted
    BY <1>12, MessageType DEF LinkChat
  <2>2. PICK u \in Users : /\ chat' = [chat EXCEPT ![u] = Message.chat]
                           /\ linkCode' = [linkCode EXCEPT ![u] = NoCode]
                           /\ links' = [links EXCEPT ![Message.code] = @ + 1]
    BY <1>12 DEF LinkChat
  <2>3. chat' \in [Users -> Chats \cup {NoChat}]
    BY <2>1, <2>2
  <2>4. linkCode' \in [Users -> Minted \cup {NoCode}]
    BY <2>2
  <2>5. links' \in [Minted -> Nat]
    <3> HIDE DEF Minted
    <3> QED BY <2>1, <2>2
  <2> QED BY <1>11, <1>12, <2>1, <2>3, <2>4, <2>5 DEF LinkChat
<1>13. CASE ScheduleUnlink
  <2>1. Take /\ Message.chat \in Chats
    BY <1>13, MessageType DEF ScheduleUnlink
  <2>2. now \in Nat /\ now + NoticePeriod \in Nat
    OBVIOUS
  <2> QED BY <1>11, <1>13, <2>1, <2>2 DEF ScheduleUnlink
<1>14. CASE SkipUpdate
  BY <1>11, <1>14 DEF SkipUpdate
<1>15. CASE Restart
  BY <1>15 DEF Restart
<1> QED BY <1>2, <1>3, <1>4, <1>5, <1>6, <1>7, <1>8, <1>9, <1>10, <1>12, <1>13, <1>14, <1>15
        DEF Next, Poller

LEMMA LinkCodes ==
    ASSUME IInv, Next
    PROVE  CodesLinkOnce' /\ CodesMinted'
<1> DEFINE CodesKept == CodesLinkOnce' /\ CodesMinted'
           Minting == \A w \in Workers : pc'[w] = "mint" => reader'[w] \in Users
<1> USE DEF linkVars, pollerVars
<1>0. /\ pc \in [Workers -> {"idle", "mint", "find", "verify", "act"}]
      /\ reader \in [Workers -> Users \cup {NoUser}]
      /\ \A w \in Workers : pc[w] = "mint" => reader[w] \in Users
  BY DEF IInv, TypeOK, CodesMinted
<1>1. ASSUME UNCHANGED <<linkCode, links, minted>>, Minting
      PROVE  CodesKept
  BY <1>1 DEF IInv, CodesLinkOnce, CodesMinted
<1>2. ASSUME UNCHANGED <<pc, reader>>
      PROVE  Minting
  BY <1>0, <1>2
<1>3. ASSUME NEW w \in Workers, NEW u \in Users, ReadLink(w, u)
      PROVE  CodesKept
  <2>1. Minting
    BY <1>0, <1>3 DEF ReadLink, Begin
  <2> QED BY <1>1, <1>3, <2>1 DEF ReadLink
<1>4. ASSUME NEW w \in Workers, NEW c \in Challenges, ConfirmUnlink(w, c)
      PROVE  CodesKept
  <2>1. Minting
    BY <1>0, <1>4 DEF ConfirmUnlink, Begin
  <2> QED BY <1>1, <1>4, <2>1 DEF ConfirmUnlink
\* The new code has never linked anybody, and no other customer holds it.
<1>5. ASSUME NEW w \in Workers, MintCode(w)
      PROVE  CodesKept
  <2>1. Minting
    BY <1>0, <1>5 DEF MintCode, Finish
  <2>2. /\ minted \in Nat /\ minted' = minted + 1 /\ links' = links
        /\ linkCode'[reader[w]] = minted + 1
        /\ \A v \in Users \ {reader[w]} : linkCode'[v] = linkCode[v]
    BY <1>0, <1>5 DEF MintCode, IInv, TypeOK
  <2>3. /\ \A v \in Users : linkCode[v] \in Nat /\ linkCode[v] <= minted
        /\ \A k \in Minted : links[k] \in Nat /\ (links[k] > 0 => k <= minted)
        /\ minted + 1 \in Minted
    BY <1>5 DEF MintCode, IInv, TypeOK, CodesMinted, Minted, NoCode
  <2>4. links[minted + 1] = 0
    BY <2>2, <2>3
  <2>5. \A v \in Users : linkCode'[v] = linkCode[v] \/ linkCode'[v] = minted + 1
    BY <2>2
  <2>6. CodesMinted'
    BY <2>1, <2>2, <2>3, <2>5 DEF CodesMinted, Minted
  <2>7. \A v \in Users : linkCode'[v] # NoCode => links[linkCode'[v]] = 0
    BY <2>4, <2>5 DEF IInv, CodesLinkOnce
  <2>8. \A u, v \in Users : linkCode'[u] = linkCode'[v] /\ linkCode'[u] # NoCode => u = v
    BY <2>2, <2>3 DEF IInv, CodesLinkOnce
  <2> QED BY <2>2, <2>6, <2>7, <2>8 DEF IInv, CodesLinkOnce
<1>6. ASSUME NEW w \in Workers, VerifyUnlink(w)
      PROVE  CodesKept
  <2>1. Minting
    BY <1>0, <1>6 DEF VerifyUnlink, LockCode, Finish, Goto
  <2> QED BY <1>1, <1>6, <2>1 DEF VerifyUnlink
<1>7. ASSUME NEW w \in Workers, UnlinkNow(w)
      PROVE  CodesKept
  <2>1. Minting
    BY <1>0, <1>7 DEF UnlinkNow, Finish
  <2>2. /\ \A v \in Users : linkCode'[v] = linkCode[v] \/ linkCode'[v] = NoCode
        /\ links' = links /\ minted' = minted /\ minted \in Nat
    BY <1>7 DEF UnlinkNow, IInv, TypeOK
  <2> QED BY <2>1, <2>2 DEF IInv, CodesLinkOnce, CodesMinted, NoCode
<1>8. ASSUME NEW w \in Workers, Abort(w)
      PROVE  CodesKept
  <2>1. Minting
    BY <1>0, <1>8 DEF Abort, Finish
  <2> QED BY <1>1, <1>8, <2>1 DEF Abort
<1>9. ASSUME NEW u \in Users, CancelUnlink(u) \/ ApplyUnlink(u)
      PROVE  CodesKept
  BY <1>1, <1>2, <1>9 DEF CancelUnlink, ApplyUnlink, callVars
<1>10. CASE (\E c \in Challenges : BeginUnlink(c)) \/ Tick \/ Poll
  BY <1>1, <1>2, <1>10 DEF BeginUnlink, Tick, Poll, callVars
<1>11. ASSUME NEW h, NEW k, Send(h, k)
       PROVE  CodesKept
  BY <1>1, <1>2, <1>11 DEF Send, callVars
\* The code that links is spent with the same statement.
<1>12. CASE LinkChat
  <2>1. Take /\ Message.code \in Minted
    BY <1>12, MessageType DEF LinkChat
  <2>2. PICK u \in Users : /\ linkCode[u] = Message.code
                           /\ linkCode' = [linkCode EXCEPT ![u] = NoCode]
                           /\ links' = [links EXCEPT ![Message.code] = @ + 1]
    BY <1>12 DEF LinkChat
  <2>3. PICK k \in Minted : k = Message.code /\ k # NoCode
    BY <1>12, <2>1 DEF LinkChat
  <2>4. /\ links[k] = 0 /\ links'[k] = 1 /\ k <= minted
        /\ \A j \in Minted \ {k} : links'[j] = links[j]
    BY <2>2, <2>3 DEF IInv, TypeOK, CodesLinkOnce, CodesMinted
  <2>5. /\ linkCode'[u] = NoCode
        /\ \A v \in Users \ {u} : linkCode'[v] = linkCode[v] /\ linkCode'[v] # k
    BY <2>2, <2>3 DEF IInv, TypeOK, CodesLinkOnce
  <2>6. Minting /\ minted' = minted /\ minted \in Nat
    BY <1>2, <2>1 DEF Take, callVars, IInv, TypeOK
  <2>7. \A v \in Users : linkCode[v] \in Minted \cup {NoCode}
    BY DEF IInv, TypeOK
  <2>8. CodesMinted'
    BY <2>4, <2>5, <2>6 DEF IInv, CodesMinted, NoCode
  <2>9. CodesLinkOnce'
    BY <2>4, <2>5, <2>7 DEF IInv, CodesLinkOnce
  <2> QED BY <2>8, <2>9
<1>13. CASE ScheduleUnlink \/ SkipUpdate
  BY <1>1, <1>2, <1>13 DEF ScheduleUnlink, SkipUpdate, Take, callVars
<1>14. CASE Restart
  <2>1. Minting
    BY <1>14 DEF Restart
  <2> QED BY <1>1, <1>14, <2>1 DEF Restart
<1> QED BY <1>3, <1>4, <1>5, <1>6, <1>7, <1>8, <1>9, <1>10, <1>11, <1>12, <1>13, <1>14 DEF Next, Poller

LEMMA LinkSchedules ==
    ASSUME IInv, Next
    PROVE  SchedulesAsked'
<1> USE DEF linkVars
<1>1. /\ unlinkAt \in [Users -> Nat \cup {Never}]
      /\ SchedulesAsked
  BY DEF IInv, TypeOK
<1>2. ASSUME asked' = asked, \A u \in Users : unlinkAt'[u] \in {unlinkAt[u], Never}
      PROVE  SchedulesAsked'
  BY <1>1, <1>2 DEF SchedulesAsked
<1>3. CASE ScheduleUnlink
  <2>1. Message.chat # NoChat
    BY <1>3, MessageType DEF ScheduleUnlink
  <2>2. ASSUME NEW u \in Users, u \in Scheduling(Message.chat)
        PROVE  asked'[u].chat # NoChat /\ unlinkAt'[u] = asked'[u].at + NoticePeriod
    BY <1>3, <2>1, <2>2 DEF ScheduleUnlink
  <2>3. ASSUME NEW u \in Users, u \notin Scheduling(Message.chat)
        PROVE  asked'[u] = asked[u] /\ unlinkAt'[u] = unlinkAt[u]
    BY <1>3, <2>3 DEF ScheduleUnlink
  <2> QED BY <1>1, <2>2, <2>3 DEF SchedulesAsked
<1>4. ASSUME NEW u \in Users, CancelUnlink(u) \/ ApplyUnlink(u)
      PROVE  SchedulesAsked'
  BY <1>1, <1>2, <1>4 DEF CancelUnlink, ApplyUnlink
<1>5. ASSUME UNCHANGED <<unlinkAt, asked>>
      PROVE  SchedulesAsked'
  BY <1>2, <1>5
<1>6. ASSUME NEW w \in Workers, NEW u \in Users, ReadLink(w, u)
      PROVE  SchedulesAsked'
  BY <1>5, <1>6 DEF ReadLink
<1>7. ASSUME NEW w \in Workers, NEW c \in Challenges, ConfirmUnlink(w, c)
      PROVE  SchedulesAsked'
  BY <1>5, <1>7 DEF ConfirmUnlink
<1>8. ASSUME NEW w \in Workers, MintCode(w) \/ VerifyUnlink(w) \/ UnlinkNow(w) \/ Abort(w)
      PROVE  SchedulesAsked'
  BY <1>5, <1>8 DEF MintCode, VerifyUnlink, UnlinkNow, Abort
<1>9. ASSUME NEW h, NEW k, Send(h, k)
      PROVE  SchedulesAsked'
  BY <1>5, <1>9 DEF Send
<1>10. CASE (\E c \in Challenges : BeginUnlink(c)) \/ Tick \/ Poll \/ LinkChat \/ SkipUpdate \/ Restart
  BY <1>5, <1>10 DEF BeginUnlink, Tick, Poll, LinkChat, SkipUpdate, Restart
<1> QED BY <1>3, <1>4, <1>6, <1>7, <1>8, <1>9, <1>10 DEF Next, Poller

LEMMA LinkStep ==
    ASSUME IInv, [Next]_vars
    PROVE  IInv'
<1>1. CASE UNCHANGED vars
  BY <1>1 DEF vars, rowVars, callVars, linkVars, pollerVars, IInv, TypeOK, OtpTypeOK, OtpRows,
              RowsHeld, RowsCount, OneActor, CodesLinkOnce, CodesMinted, SchedulesAsked
<1>2. CASE Next
  <2>1. OtpKept
    BY LinkOtp
  <2> QED BY <1>2, <2>1, LinkTypes, LinkCodes, LinkSchedules DEF IInv, OtpKept, OtpInv
<1> QED BY <1>1, <1>2

-----------------------------------------------------------------------------
\* Losing the link

\* The two statements that clear telegram_chat_id.
LEMMA OnlyTwoUnlink ==
    ASSUME IInv, [Next]_vars, NEW u \in Users, chat[u] # NoChat, chat'[u] = NoChat
    PROVE  \/ \E w \in Workers : UnlinkNow(w) /\ Subject[job[w]] = u
           \/ ApplyUnlink(u)
<1> USE DEF linkVars
<1>0. chat \in [Users -> Chats \cup {NoChat}]
  BY DEF IInv, TypeOK
<1>1. chat' # chat
  OBVIOUS
<1>2. ASSUME NEW w \in Workers, UnlinkNow(w)
      PROVE  Subject[job[w]] = u
  BY <1>0, <1>2 DEF UnlinkNow
<1>3. ASSUME NEW v \in Users, ApplyUnlink(v)
      PROVE  v = u
  BY <1>0, <1>3 DEF ApplyUnlink
<1>4. ~LinkChat
  <2> SUFFICES ASSUME LinkChat
               PROVE  FALSE
    OBVIOUS
  <2>1. Message.chat \in Chats
    BY MessageType DEF LinkChat
  <2>2. PICK v \in Users : chat' = [chat EXCEPT ![v] = Message.chat]
    BY DEF LinkChat
  <2> QED BY <1>0, <2>1, <2>2
<1> QED BY <1>1, <1>2, <1>3, <1>4
        DEF Next, vars, Poller, ReadLink, ConfirmUnlink, MintCode, VerifyUnlink, Abort, CancelUnlink,
            BeginUnlink, Send, Poll, ScheduleUnlink, SkipUpdate, Restart, Tick

LEMMA NoticeGiven ==
    ASSUME IInv, [Next]_vars, NEW u \in Users, chat[u] # NoChat, chat'[u] = NoChat
    PROVE  \/ \E c \in Challenges : Subject[c] = u /\ effects'[c] > effects[c]
           \/ asked[u].chat # NoChat /\ asked[u].at + NoticePeriod <= now
<1>1. ASSUME NEW w \in Workers, UnlinkNow(w), Subject[job[w]] = u
      PROVE  \E c \in Challenges : Subject[c] = u /\ effects'[c] > effects[c]
  <2>1. PICK c \in Challenges : c = job[w]
    BY <1>1 DEF UnlinkNow, IInv, OtpRows, RowsHeld, Acting
  <2>2. effects'[c] = effects[c] + 1 /\ effects[c] \in Nat
    BY <1>1, <2>1 DEF UnlinkNow, IInv, TypeOK, OtpTypeOK
  <2> QED BY <1>1, <2>1, <2>2
<1>2. ASSUME ApplyUnlink(u)
      PROVE  asked[u].chat # NoChat /\ asked[u].at + NoticePeriod <= now
  BY <1>2 DEF ApplyUnlink, UnlinkDue, IInv, SchedulesAsked
<1> QED BY <1>1, <1>2, OnlyTwoUnlink

-----------------------------------------------------------------------------
\* What SignIn relies on

LEMMA LinkMapped ==
    ASSUME IInv, [Next]_vars
    PROVE  [Link!Next]_<<chat[Someone] # NoChat, unlinkAt[Someone], now>>
<1> USE DEF linkVars
<1> DEFINE Stays == UNCHANGED <<chat[Someone], unlinkAt[Someone], now>>
           Goal == [Link!Next]_<<chat[Someone] # NoChat, unlinkAt[Someone], now>>
<1>0. /\ chat \in [Users -> Chats \cup {NoChat}]
      /\ unlinkAt \in [Users -> Nat \cup {Never}]
  BY DEF IInv, TypeOK
<1>1. ASSUME Stays
      PROVE  Goal
  BY <1>1
<1>2. ASSUME NEW w \in Workers, UnlinkNow(w)
      PROVE  Goal
  <2>1. CASE Subject[job[w]] = Someone
    <3>1. chat'[Someone] = NoChat /\ UNCHANGED <<unlinkAt, now>>
      BY <1>0, <1>2, <2>1 DEF UnlinkNow
    <3> QED BY <3>1 DEF Link!Next, Link!Unlink
  <2>2. CASE Subject[job[w]] # Someone
    BY <1>0, <1>1, <1>2, <2>2 DEF UnlinkNow
  <2> QED BY <2>1, <2>2
<1>3. ASSUME NEW u \in Users, CancelUnlink(u)
      PROVE  Goal
  <2>1. CASE u = Someone
    <3>1. unlinkAt'[Someone] = Never /\ UNCHANGED <<chat, now>>
      BY <1>0, <1>3, <2>1 DEF CancelUnlink
    <3> QED BY <3>1 DEF Link!Next, Link!Cancel, Link!Never, Never
  <2>2. CASE u # Someone
    BY <1>0, <1>1, <1>3, <2>2 DEF CancelUnlink
  <2> QED BY <2>1, <2>2
<1>4. ASSUME NEW u \in Users, ApplyUnlink(u)
      PROVE  Goal
  <2>1. CASE u = Someone
    <3>1. /\ chat'[Someone] = NoChat /\ unlinkAt'[Someone] = Never /\ UNCHANGED now
          /\ unlinkAt[Someone] # Never /\ unlinkAt[Someone] <= now
      BY <1>0, <1>4, <2>1 DEF ApplyUnlink, UnlinkDue
    <3> QED BY <3>1 DEF Link!Next, Link!ApplyDue, Link!Due, Link!Never, Never
  <2>2. CASE u # Someone
    BY <1>0, <1>1, <1>4, <2>2 DEF ApplyUnlink
  <2> QED BY <2>1, <2>2
<1>5. CASE LinkChat
  <2>1. Take /\ Message.chat \in Chats
    BY <1>5, MessageType DEF LinkChat
  <2>2. PICK u \in Users : chat' = [chat EXCEPT ![u] = Message.chat]
    BY <1>5 DEF LinkChat
  <2>3. CASE u = Someone
    <3>1. chat'[Someone] # NoChat /\ UNCHANGED <<unlinkAt, now>>
      BY <1>0, <1>5, <2>1, <2>2, <2>3 DEF LinkChat, Take
    <3> QED BY <3>1 DEF Link!Next, Link!Link
  <2>4. CASE u # Someone
    BY <1>0, <1>1, <1>5, <2>1, <2>2, <2>4 DEF LinkChat, Take
  <2> QED BY <2>3, <2>4
<1>6. CASE ScheduleUnlink
  <2>1. Message.chat # NoChat /\ UNCHANGED <<chat, now>>
    BY <1>6, MessageType DEF ScheduleUnlink, Take
  <2>2. CASE Someone \in Scheduling(Message.chat)
    <3>1. /\ chat[Someone] # NoChat /\ unlinkAt[Someone] = Never
          /\ unlinkAt'[Someone] = now + NoticePeriod
      BY <1>6, <2>1, <2>2 DEF ScheduleUnlink, Scheduling
    <3> QED BY <2>1, <3>1 DEF Link!Next, Link!Schedule, Link!Never, Never
  <2>3. CASE Someone \notin Scheduling(Message.chat)
    BY <1>1, <1>6, <2>1, <2>3 DEF ScheduleUnlink
  <2> QED BY <2>2, <2>3
<1>7. CASE Tick
  <2>1. /\ now < MaxNow /\ now' = now + 1
        /\ UNCHANGED <<chat, unlinkAt>>
    BY <1>7 DEF Tick
  <2> QED BY <2>1 DEF Link!Next, Link!Tick
<1>8. ASSUME NEW w \in Workers, NEW u \in Users, ReadLink(w, u)
      PROVE  Goal
  BY <1>1, <1>8 DEF ReadLink
<1>9. ASSUME NEW w \in Workers, NEW c \in Challenges, ConfirmUnlink(w, c)
      PROVE  Goal
  BY <1>1, <1>9 DEF ConfirmUnlink
<1>10. ASSUME NEW w \in Workers, MintCode(w) \/ VerifyUnlink(w) \/ Abort(w)
      PROVE  Goal
  BY <1>1, <1>10 DEF MintCode, VerifyUnlink, Abort
<1>11. ASSUME NEW h, NEW k, Send(h, k)
      PROVE  Goal
  BY <1>1, <1>11 DEF Send
<1>12. CASE (\E c \in Challenges : BeginUnlink(c)) \/ Poll \/ SkipUpdate \/ Restart \/ UNCHANGED vars
  BY <1>1, <1>12 DEF BeginUnlink, Poll, SkipUpdate, Take, Restart, vars
<1> QED BY <1>2, <1>3, <1>4, <1>5, <1>6, <1>7, <1>8, <1>9, <1>10, <1>11, <1>12 DEF Next, Poller

-----------------------------------------------------------------------------
\* Theorems

\* The inductive invariant holds in every reachable state.
THEOREM LinkInvariant == Spec => []IInv
<1>1. Init => IInv
  BY LinkInitial
<1>2. IInv /\ [Next]_vars => IInv'
  BY LinkStep
<1> QED BY <1>1, <1>2, PTL DEF Spec

\* Every variable keeps its type; the poller never skips ahead of the stream.
THEOREM LinkTypeCorrect == Spec => []TypeOK
<1>1. IInv => TypeOK
  BY DEF IInv
<1> QED BY <1>1, LinkInvariant, PTL

\* telegram_page and the poller's /start let a link code link one chat, once.
THEOREM CodesLinkOneChat == Spec => []CodesLinkOnce
<1>1. IInv => CodesLinkOnce
  BY DEF IInv
<1> QED BY <1>1, LinkInvariant, PTL

\* Nobody is unlinked without a right code or a full notice period.
THEOREM NobodyDroppedUnwarned == Spec => DroppedWithNotice
<1> DEFINE Warned ==
      \A u \in Users :
          chat[u] # NoChat /\ chat'[u] = NoChat =>
              \/ \E c \in Challenges : Subject[c] = u /\ effects'[c] > effects[c]
              \/ asked[u].chat # NoChat /\ asked[u].at + NoticePeriod <= now
<1>1. IInv /\ [Next]_vars => [Warned]_vars
  BY NoticeGiven
<1> QED BY <1>1, LinkInvariant, PTL DEF Spec, DroppedWithNotice

\* The link SignIn assumes is the one the poller, the settings page and the
\* statement that applies schedules implement.
THEOREM LinkRefines == Spec => ImplementsLinkState
<1>1. Init => Link!LinkInit /\ now = 0
  BY LinkInitial
<1>2. IInv /\ [Next]_vars => [Link!Next]_<<chat[Someone] # NoChat, unlinkAt[Someone], now>>
  BY LinkMapped
<1> QED BY <1>1, <1>2, LinkInvariant, PTL DEF Spec, ImplementsLinkState, Link!Spec

\* The website's unlink keeps the promise of its code, restarts included.
THEOREM LinkKeepsPromise == Spec => KeepsPromise
<1>1. Init => Promise!Init
  BY LinkInitial
<1>2. IInv /\ [Next]_vars => [Promise!Next]_(Promise!vars)
  BY LinkOtp DEF OtpKept
<1> QED BY <1>1, <1>2, LinkInvariant, PTL DEF Spec, KeepsPromise, Promise!Spec
=============================================================================
