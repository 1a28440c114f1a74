---------------------------- MODULE TelegramLink ----------------------------
(***************************************************************************)
(* The link between a customer and a Telegram chat: the settings page that *)
(* mints link codes (handlers/settings.rs), the bot's update stream read   *)
(* by run_link_poller (services/telegram_service.rs), the unlink the bot   *)
(* schedules and the website cancels, the code-confirmed unlink of the     *)
(* website, and the statement by which logins and requests carry out a     *)
(* schedule that has fallen due.                                           *)
(*                                                                         *)
(* Telegram redelivers every update the poller has not acknowledged, and   *)
(* the poller acknowledges a batch only by asking for the next one; what   *)
(* it has handled lives in a local variable.                               *)
(***************************************************************************)
EXTENDS ActionOtp, Sequences

CONSTANTS
    Users, NoUser,   \* the customers; reader of an idle request
    Someone,         \* the one of them LinkState is about
    Chats, NoChat,   \* Telegram chats; users.telegram_chat_id IS NULL
    Subject,         \* Subject[c]: the customer whose unlink c confirms
    NoticePeriod,    \* a scheduled unlink waits 24 hours
    OpeningChat,     \* chats linked at the start
    MaxMinted, MaxUpdates, MaxRestarts \* bounds of the instance

VARIABLES
    chat,            \* users.telegram_chat_id
    linkCode,        \* users.telegram_link_code; NoCode when NULL
    unlinkAt,        \* users.telegram_unlink_at; Never when NULL
    minted,          \* link codes generated so far: code k is the k-th
    links,           \* how often each code has linked a chat
    asked,           \* per customer, the last /unlink that set a schedule
    reader,          \* the customer whose settings page each request renders
    stream,          \* updates in the order Telegram received them
    acked,           \* updates Telegram will not deliver again
    handled,         \* the poller's offset: updates it has dealt with
    fetched,         \* end of the batch the poller is working through
    restarts         \* restarts of the server so far

linkVars   == <<chat, linkCode, unlinkAt, minted, links, asked>>
pollerVars == <<acked, handled, fetched, restarts>>
vars == <<rowVars, codeLock, callVars, now, linkVars, effects, reader, stream, pollerVars>>

NoCode == 0
Never  == -1
Minted == 1 .. MaxMinted

ASSUME LinkAssumption ==
    /\ Someone \in Users
    /\ NoChat \notin Chats
    /\ NoUser \notin Users
    /\ Subject \in [Challenges -> Users]
    /\ NoticePeriod \in Nat
    /\ OpeningChat \in [Users -> Chats \cup {NoChat}]
    /\ MaxMinted \in Nat /\ MaxUpdates \in Nat /\ MaxRestarts \in Nat

\* A message to the bot: /start with a link code, or /unlink.
Updates == [chat : Chats, code : Minted \cup {NoCode}]

Init ==
    /\ OtpInit
    /\ chat = OpeningChat
    /\ linkCode = [u \in Users |-> NoCode]
    /\ unlinkAt = [u \in Users |-> Never]
    /\ minted = 0
    /\ links = [k \in Minted |-> 0]
    /\ asked = [u \in Users |-> [chat |-> NoChat, at |-> 0]]
    /\ reader = [w \in Workers |-> NoUser]
    /\ stream = <<>>
    /\ acked = 0
    /\ handled = 0
    /\ fetched = 0
    /\ restarts = 0

-----------------------------------------------------------------------------
\* The settings page

\* telegram_page reads the link; a linked customer is shown no code.
ReadLink(w, u) ==
    /\ chat[u] = NoChat
    /\ minted < MaxMinted
    /\ Begin(w, NoChallenge, "mint")
    /\ reader' = [reader EXCEPT ![w] = u]
    /\ UNCHANGED <<rowVars, codeLock, now, linkVars, effects, stream, pollerVars>>

\* An unlinked one gets a fresh code, which replaces the one before.
MintCode(w) ==
    /\ pc[w] = "mint"
    /\ minted < MaxMinted
    /\ minted' = minted + 1
    /\ linkCode' = [linkCode EXCEPT ![reader[w]] = minted + 1]
    /\ reader' = [reader EXCEPT ![w] = NoUser]
    /\ Finish(w)
    /\ UNCHANGED <<rowVars, codeLock, now, chat, unlinkAt, links, asked, effects, stream, pollerVars>>

\* telegram_unlink_cancel.
CancelUnlink(u) ==
    /\ unlinkAt[u] # Never
    /\ unlinkAt' = [unlinkAt EXCEPT ![u] = Never]
    /\ UNCHANGED <<rowVars, codeLock, callVars, now, chat, linkCode, minted, links, asked,
                   effects, reader, stream, pollerVars>>

\* telegram_unlink.
BeginUnlink(c) ==
    /\ Insert(c)
    /\ UNCHANGED <<callVars, now, linkVars, effects, reader, stream, pollerVars>>

\* telegram_unlink_confirm: the code first ...
ConfirmUnlink(w, c) ==
    /\ code[c] # "none"
    /\ Begin(w, c, "find")
    /\ UNCHANGED <<rowVars, codeLock, now, linkVars, effects, reader, stream, pollerVars>>

VerifyUnlink(w) ==
    /\ \/ LockCode(w)
       \/ CodeGone(w) /\ Finish(w)
       \/ CodeExpired(w) /\ Finish(w)
       \/ WrongCode(w) /\ Finish(w)
       \/ LastStrike(w) /\ Finish(w)
       \/ RightCode(w) /\ Goto(w, "act")
    /\ UNCHANGED <<now, linkVars, effects, reader, stream, pollerVars>>

\* ... then the unlink; a schedule the bot has set stays in the row.
UnlinkNow(w) ==
    LET u == Subject[job[w]] IN
    /\ pc[w] = "act"
    /\ chat' = [chat EXCEPT ![u] = NoChat]
    /\ linkCode' = [linkCode EXCEPT ![u] = NoCode]
    /\ effects' = [effects EXCEPT ![job[w]] = @ + 1]
    /\ Finish(w)
    /\ UNCHANGED <<rowVars, codeLock, now, unlinkAt, minted, links, asked, reader, stream, pollerVars>>

\* A request dies between two statements.
Abort(w) ==
    /\ pc[w] # "idle"
    /\ ReleaseCode(w)
    /\ Finish(w)
    /\ reader' = [reader EXCEPT ![w] = NoUser]
    /\ UNCHANGED <<rowVars, now, linkVars, effects, stream, pollerVars>>

-----------------------------------------------------------------------------
\* A schedule that has fallen due, carried out by the next login or request

\* Mutant: a schedule is carried out by the first request that sees it.
UnlinkDueAtOnce(u) == unlinkAt[u] # Never

UnlinkDue(u) == unlinkAt[u] # Never /\ unlinkAt[u] <= now

ApplyUnlink(u) ==
    /\ UnlinkDue(u)
    /\ chat' = [chat EXCEPT ![u] = NoChat]
    /\ unlinkAt' = [unlinkAt EXCEPT ![u] = Never]
    /\ UNCHANGED <<rowVars, codeLock, callVars, now, linkCode, minted, links, asked,
                   effects, reader, stream, pollerVars>>

-----------------------------------------------------------------------------
\* Telegram and the poller

\* A message reaches the bot: a minted code from any chat, or /unlink.
Send(h, k) ==
    /\ Len(stream) < MaxUpdates
    /\ k <= minted
    /\ stream' = Append(stream, [chat |-> h, code |-> k])
    /\ UNCHANGED <<rowVars, codeLock, callVars, now, linkVars, effects, reader, pollerVars>>

\* getUpdates with the local offset: acknowledges what came before it and
\* returns everything after.
Poll ==
    /\ handled = fetched
    /\ acked' = handled
    /\ fetched' = Len(stream)
    /\ UNCHANGED <<handled, restarts>>
    /\ UNCHANGED <<rowVars, codeLock, callVars, now, linkVars, effects, reader, stream>>

\* The next update of the batch; the offset moves first.
Take ==
    /\ handled < fetched
    /\ handled' = handled + 1
    /\ UNCHANGED <<acked, fetched, restarts>>
    /\ UNCHANGED <<rowVars, codeLock, callVars, now, minted, effects, reader, stream>>

Message == stream[handled + 1]

\* Mutant: a link code can be used again.
LinkKeepingCode ==
    /\ Take
    /\ Message.code # NoCode
    /\ \E u \in Users :
          /\ linkCode[u] = Message.code
          /\ chat' = [chat EXCEPT ![u] = Message.chat]
          /\ links' = [links EXCEPT ![Message.code] = @ + 1]
    /\ UNCHANGED <<linkCode, unlinkAt, asked>>

\* /start: the code is consumed by the UPDATE that stores the chat.
LinkChat ==
    /\ Take
    /\ Message.code # NoCode
    /\ \E u \in Users :
          /\ linkCode[u] = Message.code
          /\ chat' = [chat EXCEPT ![u] = Message.chat]
          /\ linkCode' = [linkCode EXCEPT ![u] = NoCode]
          /\ links' = [links EXCEPT ![Message.code] = @ + 1]
    /\ UNCHANGED <<unlinkAt, asked>>

\* Mutant: /unlink starts the notice period again.
SchedulingAgain(h) == {u \in Users : chat[u] = h}

\* /unlink: a schedule for every customer of that chat who has none.
Scheduling(h) == {u \in Users : chat[u] = h /\ unlinkAt[u] = Never}

ScheduleUnlink ==
    LET h == Message.chat IN
    /\ Take
    /\ Message.code = NoCode
    /\ unlinkAt' = [u \in Users |-> IF u \in Scheduling(h) THEN now + NoticePeriod ELSE unlinkAt[u]]
    /\ asked' = [u \in Users |-> IF u \in Scheduling(h) THEN [chat |-> h, at |-> now] ELSE asked[u]]
    /\ UNCHANGED <<chat, linkCode, links>>

\* Mutant: the offset moves only past updates that were carried out.
SkipUpdateRetried == handled < fetched /\ UNCHANGED vars

\* A code nobody has, or a statement that failed: the update is gone.
SkipUpdate == Take /\ UNCHANGED <<chat, linkCode, unlinkAt, links, asked>>

\* The server restarts: requests die, the poller begins at offset 0, and
\* Telegram delivers again what was not acknowledged.
Restart ==
    /\ restarts < MaxRestarts
    /\ restarts' = restarts + 1
    /\ handled' = acked
    /\ fetched' = acked
    /\ acked' = acked
    /\ pc' = [w \in Workers |-> "idle"]
    /\ job' = [w \in Workers |-> NoChallenge]
    /\ noted' = [w \in Workers |-> 0]
    /\ reader' = [w \in Workers |-> NoUser]
    /\ codeLock' = [c \in Challenges |-> NoWorker]
    /\ UNCHANGED <<rowVars, now, linkVars, effects, stream>>

Tick ==
    /\ now < MaxNow
    /\ now' = now + 1
    /\ UNCHANGED <<rowVars, codeLock, callVars, linkVars, effects, reader, stream, pollerVars>>

Poller == Poll \/ LinkChat \/ ScheduleUnlink \/ SkipUpdate

Next ==
    \/ \E w \in Workers, u \in Users : ReadLink(w, u)
    \/ \E w \in Workers, c \in Challenges : ConfirmUnlink(w, c)
    \/ \E w \in Workers : MintCode(w) \/ VerifyUnlink(w) \/ UnlinkNow(w) \/ Abort(w)
    \/ \E u \in Users : CancelUnlink(u) \/ ApplyUnlink(u)
    \/ \E c \in Challenges : BeginUnlink(c)
    \/ \E h \in Chats, k \in Minted \cup {NoCode} : Send(h, k)
    \/ Poller
    \/ Restart
    \/ Tick

Spec == Init /\ [][Next]_vars

\* run_link_poller loops for ever, retrying whatever fails.
FairSpec == Spec /\ WF_vars(Poller)

-----------------------------------------------------------------------------
\* Properties

TypeOK ==
    /\ OtpTypeOK
    /\ pc \in [Workers -> {"idle", "mint", "find", "verify", "act"}]
    /\ chat \in [Users -> Chats \cup {NoChat}]
    /\ linkCode \in [Users -> Minted \cup {NoCode}]
    /\ unlinkAt \in [Users -> Nat \cup {Never}]
    /\ minted \in 0 .. MaxMinted
    /\ links \in [Minted -> Nat]
    /\ asked \in [Users -> [chat : Chats \cup {NoChat}, at : 0 .. MaxNow]]
    /\ reader \in [Workers -> Users \cup {NoUser}]
    /\ stream \in Seq(Updates)
    /\ acked \in 0 .. Len(stream)
    /\ handled \in acked .. fetched
    /\ fetched \in acked .. Len(stream)
    /\ restarts \in 0 .. MaxRestarts

\* A link code links one chat of one customer, however often its /start is
\* sent, delivered again after a restart, or raced by a newer code.
CodesLinkOnce ==
    /\ \A k \in Minted : links[k] <= 1
    /\ \A u \in Users : linkCode[u] # NoCode => links[linkCode[u]] = 0
    /\ \A u, v \in Users : linkCode[u] = linkCode[v] /\ linkCode[u] # NoCode => u = v

\* The inductive invariant behind the theorems: codes are handed out in order,
\* and a schedule is always the last asking plus the notice period.
CodesMinted ==
    /\ \A u \in Users : linkCode[u] <= minted
    /\ \A k \in Minted : links[k] > 0 => k <= minted
    /\ \A w \in Workers : pc[w] = "mint" => reader[w] \in Users

SchedulesAsked ==
    \A u \in Users :
        unlinkAt[u] # Never => asked[u].chat # NoChat /\ unlinkAt[u] = asked[u].at + NoticePeriod

IInv == TypeOK /\ OtpRows /\ CodesLinkOnce /\ CodesMinted /\ SchedulesAsked

\* A linked customer loses the link in two ways only: by a right code on the
\* website, or a full notice period after some chat of theirs asked for it.
DroppedWithNotice ==
    [][\A u \in Users :
          chat[u] # NoChat /\ chat'[u] = NoChat =>
              \/ \E c \in Challenges : Subject[c] = u /\ effects'[c] > effects[c]
              \/ asked[u].chat # NoChat /\ asked[u].at + NoticePeriod <= now]_vars

\* A customer's link behaves as LinkState describes it to the sign-in, whatever
\* the other customers, the poller and a restart do.
Link == INSTANCE LinkState WITH
    linked <- chat[Someone] # NoChat,
    unlinkAt <- unlinkAt[Someone]

ImplementsLinkState == Link!Spec

\* No message to the bot is lost: across restarts, each is dealt with and
\* acknowledged in the end.
EveryUpdateHandled == \A i \in 1 .. MaxUpdates : Len(stream) >= i ~> acked >= i
=============================================================================
