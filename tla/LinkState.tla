----------------------------- MODULE LinkState -----------------------------
(***************************************************************************)
(* One customer's Telegram link as the rest of the bank sees it: whether a *)
(* chat is linked, and when a scheduled unlink falls due.  TelegramLink    *)
(* implements it for every customer; SignIn relies on nothing more.        *)
(***************************************************************************)
EXTENDS Integers

CONSTANTS
    NoticePeriod,  \* a scheduled unlink waits 24 hours
    MaxNow         \* bound of the clock

VARIABLES
    linked,        \* users.telegram_chat_id is set
    unlinkAt,      \* users.telegram_unlink_at, or Never
    now            \* the clock

Never == -1

LinkInit ==
    /\ linked \in BOOLEAN
    /\ unlinkAt = Never

\* A chat is linked, or takes the place of another.
Link == linked' = TRUE /\ UNCHANGED unlinkAt

\* The code-confirmed unlink of the settings page.
Unlink == linked' = FALSE /\ UNCHANGED unlinkAt

\* /unlink of the bot.
Schedule ==
    /\ linked
    /\ unlinkAt = Never
    /\ unlinkAt' = now + NoticePeriod
    /\ UNCHANGED linked

Cancel == unlinkAt' = Never /\ UNCHANGED linked

Due == unlinkAt # Never /\ unlinkAt <= now

\* The UPDATE every login and every request makes before it looks at the link.
ApplyDue ==
    \/ /\ Due
       /\ linked' = FALSE
       /\ unlinkAt' = Never
    \/ /\ ~Due
       /\ UNCHANGED <<linked, unlinkAt>>

Tick ==
    /\ now < MaxNow
    /\ now' = now + 1
    /\ UNCHANGED <<linked, unlinkAt>>

Next ==
    \/ (Link \/ Unlink \/ Schedule \/ Cancel \/ ApplyDue) /\ UNCHANGED now
    \/ Tick

Spec == LinkInit /\ now = 0 /\ [][Next]_<<linked, unlinkAt, now>>
=============================================================================
