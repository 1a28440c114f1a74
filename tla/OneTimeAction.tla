--------------------------- MODULE OneTimeAction ---------------------------
(***************************************************************************)
(* What a one-time code promises, whoever asks and however often: a parked *)
(* action is offered once, tolerates fewer than MaxAttempts wrong codes,   *)
(* is accepted at most once and only while the code is fresh, and an       *)
(* accepted action is performed at most once - or dropped, never retried.  *)
(***************************************************************************)
EXTENDS Integers

CONSTANTS
    Challenges,   \* the parked actions
    Issued,       \* those on offer at the start
    MaxAttempts,  \* wrong codes that cancel an action
    CodeTtl,      \* how long a code can be accepted
    MaxNow        \* bound of the clock

VARIABLES
    stage,        \* where each action stands
    wrong,        \* wrong codes each has seen
    offeredAt,    \* when each was offered
    times,        \* how often each was performed
    now           \* the clock

vars == <<stage, wrong, offeredAt, times, now>>

Init ==
    /\ stage = [c \in Challenges |-> IF c \in Issued THEN "offered" ELSE "none"]
    /\ wrong = [c \in Challenges |-> 0]
    /\ offeredAt = [c \in Challenges |-> 0]
    /\ times = [c \in Challenges |-> 0]
    /\ now = 0

Move(c, from, to) ==
    /\ stage[c] = from
    /\ stage' = [stage EXCEPT ![c] = to]

Offer(c) ==
    /\ Move(c, "none", "offered")
    /\ offeredAt' = [offeredAt EXCEPT ![c] = now]
    /\ UNCHANGED <<wrong, times, now>>

Mistake(c) ==
    /\ wrong[c] + 1 < MaxAttempts
    /\ stage[c] = "offered"
    /\ wrong' = [wrong EXCEPT ![c] = @ + 1]
    /\ UNCHANGED <<stage, offeredAt, times, now>>

LastMistake(c) ==
    /\ wrong[c] + 1 = MaxAttempts
    /\ Move(c, "offered", "closed")
    /\ wrong' = [wrong EXCEPT ![c] = @ + 1]
    /\ UNCHANGED <<offeredAt, times, now>>

Accept(c) ==
    /\ now - offeredAt[c] <= CodeTtl
    /\ Move(c, "offered", "accepted")
    /\ UNCHANGED <<wrong, offeredAt, times, now>>

Perform(c) ==
    /\ Move(c, "accepted", "closed")
    /\ times' = [times EXCEPT ![c] = @ + 1]
    /\ UNCHANGED <<wrong, offeredAt, now>>

\* A crash may drop several accepted actions at once.
Drop ==
    \E D \in SUBSET {c \in Challenges : stage[c] = "accepted"} :
        /\ D # {}
        /\ stage' = [c \in Challenges |-> IF c \in D THEN "closed" ELSE stage[c]]
        /\ UNCHANGED <<wrong, offeredAt, times, now>>

Tick ==
    /\ now < MaxNow
    /\ now' = now + 1
    /\ UNCHANGED <<stage, wrong, offeredAt, times>>

Next ==
    \/ \E c \in Challenges :
          Offer(c) \/ Mistake(c) \/ LastMistake(c) \/ Accept(c) \/ Perform(c)
    \/ Drop
    \/ Tick

Spec == Init /\ [][Next]_vars
=============================================================================
