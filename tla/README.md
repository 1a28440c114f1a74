# FerroBank in TLA+

FerroBank is a small core-banking web application: Actix Web in front, SQLx and
PostgreSQL 16 (READ COMMITTED) behind. Its correctness rests on what happens
between SQL statements: which rows a request has locked, which values it read
before somebody else committed, which of two statements a failure falls
between. The specifications here are about exactly that. Paths below are
relative to the repository (`src/services/...`).

## 1. The system

| Component | State it keeps | Operations | Interacts with |
|---|---|---|---|
| Transfer service (`services/transfer_service.rs`) | `transfers`, `transfer_reviews`; an in-process map of recent attempts per account behind a Mutex | `create`, `confirm`, `submit_review`, `release`, `deny`; reads: `history`, `list_held`, `get_for_owner` | debits, credits and freezes `accounts`; promotes `limit_changes`; audit, notifications, Telegram after the commit |
| Account service (`services/account_service.rs`) | `accounts`, `limit_changes`, `adjustment_requests` | open, approve, close, freeze, unfreeze, adjust, request a limit, request / approve an adjustment | every other service locks its rows |
| Loan service (`services/loan_service.rs`) | `loans`, `loan_approvals`, `repayments` | `apply`, `approve` (teller and admin), `reject`, `record_repayment` | credits and debits `accounts` |
| One-time codes (`services/action_otp_service.rs`) | `action_otps` | `begin`, `verify` (single use, 10 minutes, 3 strikes) | guards account opening, loan applications, limit and profile changes |
| Authentication (`services/auth_service.rs`, `handlers/auth.rs`) | `users`, `login_sessions`, `blocked_origins`, the session cookie | login, step-up login, register, e-mail and password change | one-time codes |
| Activity guard, roles (`middleware/auth.rs`) | `users.last_activity_at` | 5-minute inactivity, matured unlink, mandatory linking | sessions, Telegram |
| Telegram (`services/telegram_service.rs`, `handlers/settings.rs`) | `users.telegram_*`, poll offset | deliver codes and notes, `/start`, `/unlink`, cancel | one background task beside the requests |
| Audit, notifications, shutdown snapshot (`services/audit_service.rs`, `main.rs`) | `audit_log`, `notifications` | append, mark seen, snapshot | called after the commits it reports |
| Staff pages (`services/admin_service.rs`, `handlers/admin.rs`) | none (the race lab owns a second transfer service) | dashboards; staff actions | account and transfer services |
| Customer handlers, wiring, templates, seed | none | parsing, ownership checks, rendering | the services |

What is hard in each, and what correct means:

* **Transfers.** A transfer is created in one request and confirmed in another,
  maybe twice at once; a suspicious one is parked and decided by staff while
  the owner files a review. Correct: a row is paid at most once, in one step,
  between active accounts, only with money no other parked row has a claim on;
  balances never go negative; a review's decision and its transfer agree; locks
  are taken in an order that cannot deadlock and are always given back; the
  three-overdrafts freeze happens although rejection, count and freeze are
  separate statements.
* **Accounts.** Closing, limit requests and limit promotion read in one
  statement and write in another. Correct: no money in a closed account, an
  increase never applies before its window ends and always applies after it,
  large adjustments have two people behind them.
* **Loans.** Two approvals by different roles race; repayments race. Correct:
  disbursed exactly once, never after rejection or expiry, paid off exactly when
  the repayments reach the debt.
* **Codes, sessions, Telegram.** Correct: a code is good for one action, once,
  for three guesses, wherever a request dies; the password alone opens a session
  only to a customer no code can reach; an origin is blocked for its own guesses
  and for all of them; a link code links one chat once, however often Telegram
  delivers it; nobody loses the link without a code or a day's notice; no message
  to the bot is lost.

The full list of hazards, each at its line, is `hazards` in `PROJECT.json`.

## 2. Modules

| Module | Models |
|---|---|
| `TransferLedger` | what the transfer service promises about money: rows walk `none -> pending -> on_hold -> completed / rejected`, and the one step that completes a row moves its money |
| `TransferEngine` | the transfer service as its requests meet in the database (below) |
| `TransferEngineProofs` | the theorems about it and their proofs |
| `RowLocks` | the transactions of all three services as the row locks they take, foreign-key share locks included, over PostgreSQL's conflict table and deadlock detector |
| `RowLocksProofs` | why only one kind of statement can close a circle of waits |
| `Money` | amounts in mills and how a NUMERIC(18, 2) column rounds them |
| `LoanBook` | what the loan service promises: both roles or nothing, one payout, repayments that are money, closed when paid |
| `LoanService` | the loan service as its requests meet in the database |
| `LoanServiceProofs` | the theorems about it and their proofs |
| `AccountBook` | what the account service promises about balances: small adjustments by one person, large ones by two, each applied once |
| `AccountService` | opening, approving, closing, freezing accounts and adjusting balances as the requests meet in the database |
| `AccountServiceProofs` | the theorems about it and their proofs |
| `OneTimeAction` | what a one-time code promises: offered once, few guesses, accepted in time, performed at most once |
| `ActionOtp` | the rows of `action_otps` and the two operations on them, as actions that handlers are composed from; `KeepsPromise` is the refinement |
| `GatedActions` | the code-gated handlers (limits, accounts, loans, profile) and what a limit change does to the account |
| `LinkState` | a customer's Telegram link as the sign-in sees it |
| `TelegramLink` | the settings page, the bot's poller and the unlinks, for several customers and chats; implements `LinkState` |
| `SignIn` | password, step-up code, blocked origins, sessions and the ActivityGuard; relies on `LinkState` only |
| `ActionOtpProofs`, `GatedActionsProofs`, `SignInProofs`, `TelegramLinkProofs` | the theorems about them and their proofs |
| `MCTransferEngine`, `MCRowLocks`, `MCLoanService`, `MCAccountService`, `MCGatedActions`, `MCSignIn`, `MCTelegramLink` | instances for TLC: accounts, attempts, opening rows, mixes of transactions |

### TransferEngine

A *worker* is a request in flight: `pc` is its next statement, `job` its
transfer, `seen` the account rows it has read. Everything else is a column of
the database (`balance`, `accountStatus`, `transferLimit`, `pendingRaise`,
`status`, `strikes`, `overdrawn`, `createdAt`, `review`), the rate limiter's map
(`tokens`), the clock, or a FOR UPDATE lock (`rowLock`, `accountLock`).

The grain follows the code's commits. `create` and `deny` run without a
transaction, so each of their statements is a step: `CreatePromote`,
`CreateMarkApplied`, `CreateReadFunds`, `CreateRecordOverdraft`,
`CreateCheckAvailable`, `CreateCheckRate`, `CreatePostPending`; `DenyTransfer`,
`CloseReview`. `submit_review` is `ReviewRead` and `FileReview`. `confirm` and
`release` are transactions: one step per row lock (`ConfirmRightCode` or
`ReleaseStart`, then `...LockLow`, `...LockHigh`) and a last step for the outcome
that commits. Inside a transaction only locks are visible to others, so the
writes belong to the commit; confirm's remaining reads (held rows, recent rows)
are safe to take there, as the comment at `ConfirmInactive` argues.
`check_overdraft_freeze` runs after the commit that rejected the row and is two
steps, `CountOverdrafts` and `AutoFreeze`. `Abort` ends a worker between any two
statements: a database error propagated by `?`, a dropped client, a crash of the
process; the database rolls its transaction back.

Data are abstracted where no property depends on them. Amounts are small
integers (cents, NUMERIC arithmetic exact). The OTP is either right or wrong;
who is asking matters only to the ownership check, which is the guard that a
confirm touching anything is the owner's. Codes' delivery, audit rows and
notifications come after the commits and change nothing modelled. A restart
loses the rate limiter's map, which `TokenExpires` covers. An account has at
most one limit increase on file, and it is on file from the start. The fraud
rule's one-hour window is measured when the request commits; PostgreSQL measures
from the start of the transaction, a lock wait earlier.

`now() `-windows are `ConfirmWindow`, `VelocityWindow`, `OverdraftWindow`; the
dollar thresholds `LargeTransfer`, `SizeableBalance`, `StructuringSlack`; the
counts `VelocityLimit`, `MaxStrikes`, `OverdraftLimit`, `MaxPerWindow`. All are
constants, so that the proofs hold for the code's values and TLC can use small
ones.

An insert into `transfers` share-locks both account rows for its foreign keys
and waits while a transaction has them FOR UPDATE (`EndsFree`). This module grants
both shares at once and does not make a FOR UPDATE wait for them; they only
delay, except that waiting for them can close a circle. `RowLocks` is about that.

### RowLocks

A request is a list of row locks (`Program`) and a count of those it has
(`taken`); it takes the next one when nobody open has a conflicting one on the
same row, commits at the end, and is failed by the detector when it waits in a
circle. Each transaction of the services is a definition: `Confirm`, `Release`,
`MoveLoanMoney` (a loan's last approval, a repayment), `ApproveAdjustment`, the
single-row updates, and the inserts with the key shares of their foreign keys
(`InsertTransfer`: `from_account_id`, then `to_account_id`). Requests keep what they
were asked for: which lock comes next never depends on data. Left out are locks
on rows the transaction inserted or has locked, and the key shares on `users`:
the one statement that conflicts with those (the e-mail change, a key update)
locks nothing else, so it is at the end of every chain of waits.

### LoanService

Built like `TransferEngine`: a worker's `pc` is the next statement of its request,
`seen` the rows it has locked. `apply` is a look at the account (`Apply`) and the
insert (`ApplyInsert`), which may come after the account was frozen. `approve` is
one step per lock and one for its outcome: `Approve` locks the loan;
`ApproveExpired`, `ApproveFirst`, or `ApproveLockAccount` and `Disburse`. `reject` is
a single conditional UPDATE. `record_repayment` is `Repay`, `RepayLockAccount`,
`RepayCommit`. Freezes, closings and the money other services move (`SetStatus`,
`Move`) wait for the account's lock as their statements do.

Money is counted in mills, tenths of a cent, because nothing limits what a
customer types to cents and the columns are NUMERIC(18, 2): `Rounded` is what such
a column stores (`Money`). Interest is a constant of the loan, computed once from principal,
rate and term, and not rounded. A loan names its account before it is applied for
(`DisburseTo`), and identifies one application; `next_payment_due` is only shown. A
NULL account (a deleted one) is left out: no statement of the program deletes.
Applying with `loanStatus = "none"` stands for an id that is not taken yet.

### AccountService

`open_account`, `approve_account`, `freeze_account` and `unfreeze_account` are one
conditional statement each, and one action each. `close_account` is `CloseRead` and
`CloseWrite`, with no lock between. `adjust_balance` locks (`Adjust`) and writes the
sum of what it read and the delta (`AdjustCommit`); a large delta is parked (`Park`)
and approved in a transaction of two locks (`ApproveRead`, `ApproveLock`,
`ApproveCommit`). Nothing in the code asks for the status of an adjusted account, so
nothing does here. Other services' money (`Move`) goes to and from active accounts
only, under their lock. `MaxBalance` is what the column holds. Staff may type a delta of any
number of decimals, so amounts are in mills here too: a small delta is added exactly and
the sum rounded by the balance column (`Adjusted`; half a cent goes up, the sum is not
negative), a large one is rounded by the request it is parked in (`Parkable`; half a cent
goes away from zero). Which of the two it is depends on what was typed. Who asks matters only for large adjustments. Transfer limits are left
to `TransferEngine` and `GatedActions`.

### ActionOtp and the handlers that use it

`begin` is one INSERT (`Insert`). `verify` is a transaction: `LockCode` takes the row
FOR UPDATE if it is unconsumed, and one of `CodeExpired`, `WrongCode`, `LastStrike`,
`RightCode` ends it; `CodeGone` is the SELECT that finds nothing. The service never
runs by itself, so `ActionOtp` has no `Next`: `GatedActions`, `SignIn` and
`TelegramLink` extend it and conjoin its actions with what their handlers do, and
each of the three is shown to implement `OneTimeAction` (`KeepsPromise`). A code is
right or wrong; `guesses` counts every wrong one that was compared, so that a lost
update of `attempts` would show. The action follows the commit that consumed the row
and may never come (a crash, a refusal): an accepted action is performed once or
dropped, never twice. A handler passes its user and purpose to `verify`, so another
customer's request, or another handler's, finds nothing and changes nothing.

### GatedActions

A limit change is followed to its rows. Every handler of an account starts with
`get_by_id`, which promotes matured raises in two statements: `OpenAccount`
(`Promote`) and `MarkFound`, `MarkBegun` or `MarkViewed` (`MarkApplied`).
`request_limit_change` is `ReadLimit` and, by what was read, `LowerLimit` or
`ParkRaise`; then the account page is rendered (`Render`), which reads it again. The
code is verified before the page's account is compared with the code's
(`WrongAccount`). The other gated actions are a single statement that succeeds or is
refused (`PerformOther`). Writes to the audit log and notifications are left out.

### TelegramLink

The bot's messages are a sequence, `stream`; `acked` is how many of them Telegram will
not deliver again, `handled` the poller's offset, `fetched` the end of its batch.
`Poll` acknowledges what was handled and fetches the rest; `LinkChat`,
`ScheduleUnlink` and `SkipUpdate` deal with one update each and move the offset; a
`Restart` puts the offset back to what was acknowledged, so that handled updates come
again. Notices and `/help` change nothing. The settings page reads the link
(`ReadLink`) and stores a fresh code (`MintCode`) in two statements, of several requests
at once. `ApplyUnlink` is the UPDATE that every login and every guarded request makes:
it may come at any moment, or not at all. Other customers are part of the model because
two of them may share a chat.

### SignIn

One customer of a bank with a bot configured, in several browsers; a browser is its
origin (browser family and address). `login_submit` is `SubmitPassword`, `CheckBlock`,
`ApplyUnlink`, `CheckLink`, `IssueStepup`, then `Deliver` or `Undelivered`, and
`OpenPlain`. `login_stepup` is `StepupFind`, `StepupVerify`, and `OpenWithCode` or
`Block`. The guard is `GuardExpire`, or `GuardCheck`, `GuardTouch`, `GuardUnlink`,
`GuardGate` and the `Handle` behind it. What happens to the link meanwhile is
`LinkMoves`, any step of `LinkState`. `excused` and `overdue` only remember: in which
requests the chat was at some point unreachable, and which had an unlink fall due before
they came to the UPDATE for it. A statement whose error the code ignores (`let _ =`,
`unwrap_or(false)`, `.ok()`) may fail: the origin then counts as not blocked
(`CheckBlock`), the unlink stays to be done (`ApplyDue`), the block is lost (`Block`,
remembered in `unblocked`), the session counts as not idle (`GuardCheck`), the clock is
not reset (`GuardTouch`), the link counts as missing (`GuardGate`). A statement whose
error is passed on ends the request, as does a browser that goes away (`Abort`). The
history of sign-ins and its new-origin alert are left out, and so is
registration: nothing decides on them. Staff and banks without a bot sign in with the
password alone and pass the guard without its last step.

## 3. Runs

| Run | Question | Bounds |
|---|---|---|
| `transfers` | can concurrent confirms and decisions overdraw, pay twice, pay a frozen account, lose money, spend held money, contradict a review, or wait in a circle? is `IInv` invariant under crashes? | 3 workers, 3 transfers crossing between 2 accounts, of which not all are affordable at once: one is held for its size, one is paid at once or held too, as structuring, once the third has paid in; freezes, unfreezes, crashes; clock stopped |
| `posting` | does create, on stale reads, still keep the ledger? does every request end, and the freeze follow the attempts? strikes, tokens, expiry, promotion | 2 workers, 4 attempts (two beyond the balance, one held, one with a negative amount), two of them pending at the start, clock 0..1, a limit increase maturing at 1, freeze after 2 overdrafts, 1 token; all five operations |
| `lock_round` | what does a circle of lock waits need, and does everybody end? | 5 requests over 3 accounts, circles of three through one insert |
| `lost_raise` | "promote any limit change whose hold window has matured"? - no | 2 workers, clock 0..1 |
| `loans` | can racing approvals, rejections, expiry, repayments, freezes and crashes break the book's promise? | 2 workers, 2 loans paid out to different accounts, clock 0..1 with expiry after 0 (old and fresh applications), repayments of 0.4, 0.6 and 1.6 cents (stored as 0, 1 and 2; none of exactly half a cent, which is `half_cent`), a transfer taking a cent away |
| `accounts` | can racing adjustments, approvals, payments, closings and crashes lose, double or single-handedly make an adjustment, beyond the rounding to a cent? | 2 workers, one account in use and one to open, three staff of whom two share a role, one request parked, adjustments of 1 and 2 cents either way, of half a cent either way and of 1.4 cents (parked as 1), with a threshold of 1 cent, balances up to 3 |
| `close_race` | "Refuse to close an account that still holds money"? - no | as `accounts` |
| `half_cent` | "move real money instead of just writing a ledger row"? - not half a cent | 1 loan, 2 workers |
| `gated` | is every code's promise kept by its handlers? does a raise always wait? | 2 workers (symmetric), 2 accounts, two raises (5 to 7 and to 9) and a lowering (to 2) of one of them and another action, 2 guesses, codes valid for one instant, clock 0..1, hold 1; wrong codes for the other action only, which begins when the limit changes have used up their codes |
| `telegram` | does a link code link once, is nobody dropped without notice, is no message lost, is this the link `SignIn` relies on? | 2 customers, 2 chats, 1 request at a time beside the poller, 2 codes, 2 messages, 1 restart, clock 0..1, notice 1 |
| `sign_in` | can racing sign-ins, step-ups, guarded requests and changes of the link open a session that lacks a code, use a link that should be gone, or block the wrong origin - although statements fail unnoticed, requests die and the server restarts? | 2 workers (symmetric), 2 browsers (symmetric), 1 challenge, 2 guesses, clock 0..1; restarts are not counted and not bounded |
| `early_expiry` | "instantly expire the NEXT login too" - prevented? - not for a slow step-up | 1 worker, 1 browser, window 1, code valid for 2, clock 0..2 |

Why these bounds: a conflict over a transfer row needs two requests and over the
accounts two transfers; a third worker adds the freeze or the reviewer that
comes between; circular waits over two accounts need two workers. The thresholds
are scaled so that holds for size, structuring and velocity, the overdraft and the strike counts
are reached; the fourth fraud rule (more than half of a sizeable balance) parks a transfer in the
same way, and the proofs cover it.
`Conserved`, `HeldCovered`, `TerminalIsFinal` and the loan properties are stated in
the abstract modules and checked on the detailed ones, where a mutated statement
can break them. For codes the conflict is two confirmations of one row, for limits a change and a
reader, for the link a request and the poller; one restart repeats a batch. Two settings pages
at once would need a second request in `telegram`; for that case `CodesLinkOnce` rests on
its theorem, which holds for any number. `gated` constrains its steps
(`OtherIsGuessed`, `OtherComesLast`): the limit changes, which meet in the account, then
race in every order, a lowering decided on a stale limit raises it, both raises mature
together, and one matures while a lower limit is being written; the other action is there
for the guesses and shares nothing with them but the two request slots. In `transfers` the first
transfer is held for its size; the third competes with it for the money of the account, and
is paid at once, or held by the structuring rule (its slack is stretched for that) if the
second has paid in before: then both are held together, and covered together. The
instances are finite: when every attempt is settled, every code used and the clock at
its end, nothing is left to do, so the configurations turn the deadlock check off; waiting in a circle is excluded
by `NoWaitCycle` and `EveryRequestFinishes` instead.

**Fairness.** `FairSpec` asks strong fairness of `Continue(w)`, a worker's next
statement. The runtime polls every spawned request until it ends, and a row lock
that is released again and again goes to the waiters in PostgreSQL's queue; a
weakly fair worker could be overtaken for ever at a lock. Nothing is assumed of
clients, staff, the clock or crashes. In `posting` no one unfreezes and no
request is cut short: a crash between the rejection and its count does skip that
count (the next attempt counts it again); the window is longer than the clock runs,
because it would otherwise forget attempts. (`IInv` with crashes is checked in
`transfers` and proved for all operations at once.) In `TelegramLink` only the poller is
weakly fair: it loops for ever, and what fails it fetches again. In `RowLocks` every request's step is strongly
fair: statements run, lock queues are served, the detector wakes after a second.

`early_expiry` constrains its steps (`PromptServer`): a request that is under way is
answered before the clock moves on, so that it is the customer who is slow and not the
server.

**What the code's comments say and the code does not do** (`findings`):

* `lost_raise`. A limit increase that matures between "apply" and "mark applied"
  is marked and never applied; the customer has to ask again.
* `half_cent`. A repayment of $0.005 leaves the balance as it was (10.00 - 0.005 is
  stored as 10.00) and is recorded as a repayment of $0.01. `ImplementsLoanBook`
  holds for every amount that is not half a cent past a cent.
* `close_race`. The balance is read in one statement and the account closed in the
  next; money that arrives in between stays in a closed account, where only a staff
  adjustment reaches it.
* `early_expiry`. The inactivity clock is reset when the password is entered. The code
  may be entered up to 10 minutes later, and nothing resets the clock then: after more
  than 5 minutes the session that was just opened is turned away as expired.

**Other disagreements**, met while modelling and visible in the models:

* `submit_review` (comment at `transfer_service.rs:847`: "only while held") looks at the
  status in one statement and inserts in the next. A deny in between has rejected the
  transfer and already looked for reviews to close, so the new review stays undecided
  on a rejected transfer (`RowsUnderWay` allows exactly this). It never leads to a
  payment (`DecisionsAgree`).
* The comment at confirm's locks says that ordering by id eliminates the deadlock of
  two transfers in opposite directions. Between confirms it does; but posting a
  transfer from a higher id to a lower one key-share locks the accounts in the order of
  its columns, and it and a confirm over the same pair can each wait for the other.
  PostgreSQL fails one of the two, and nothing is lost (`lock_round` contains such
  circles, and `CirclesNeedAnInsert` says that there are no others).
* The bot answers `/unlink` with "this chat stops receiving" (`telegram_service.rs:272`).
  The schedule belongs to the customer, not to the chat: after an unlink on the website
  and a new link, the old schedule drops the new chat. `DroppedWithNotice` states what is
  kept: a full notice period since some chat of theirs asked. Likewise a `/unlink` that
  is delivered again after a restart schedules anew what was cancelled meanwhile.
* `request_limit_change` lowers by what it read. If a lower limit was written in between,
  the "lowering" raises the limit again at once - but never above what had waited out
  its hold before (`RaisesWait`).
* An adjustment finer than a cent moves the nearest cent, or nothing: -0.005 leaves a
  balance as it was. `adjust_balance` returns the sum before it is rounded, and the audit row
  (`handlers/admin.rs:300`) records this sum and the delta as typed, so the trail and
  the balance can differ by half a cent per adjustment (`Adjusted`).
* `login_submit` says "a one-time code on EVERY login" and "Password alone is never enough
  for a linked customer" (`handlers/auth.rs:168-174`), and the code does that, unless the
  chat cannot be reached: `PasswordAloneExcused`. The repository's README (`README.md:191-193`,
  "known origins stay password-only") and the comment at `auth_service.rs:242-245` ("known
  origins log in with just the password") describe an older sign-in: today
  `login_origin_is_new` only words the code page. The mutant `CheckLinkOfNewOrigin` is that
  older behaviour.
* `README.md:191-193` says that three wrong codes "block that device/network from
  signing in", and the page shown then that it "is now blocked". `block_origin` ignores the failure of its INSERT, and a
  request that dies after the strike's commit never comes to it; the challenge is used
  up all the same, but the origin may ask for the next (`StrikesBlock` says exactly when). A
  failed look at the blocks lets a blocked origin in (`origin_blocked`).
* "Apply any matured 24h bot-scheduled unlink before checking link state"
  (`handlers/auth.rs:158`, and the guard likewise): an error of that UPDATE is ignored, and the
  request goes on with the chat that should be gone; so it does when the unlink falls due
  between the UPDATE and the look at the link. `DueUnlinkInForce` excepts both.
* `limit_change_confirm` consumes the code before it compares the accounts: a code sent to
  the wrong account's page is spent for nothing (`WrongAccount`).

## 4. Proofs

`TransferEngineProofs` proves, for any accounts, transfers, amounts, thresholds
and any number of requests in flight (assumptions: `ConstantsAssumption` - types,
`MaxStrikes > 0`, non-negative opening balances -, `FiniteAssumption` - the tables of
accounts and transfers are finite - and `PostedAssumption` - rows pending at the start
passed create's checks):

* `TypeCorrect`: `Spec => []TypeOK`
* `NeverOverdrawn`: `Spec => []NoOverdraw`
* `ReviewsAgree`: `Spec => []DecisionsAgree`
* `Refinement`: `Spec => ImplementsLedger`
* `ActivePayments`: `Spec => PaidBetweenActive`
* `SettledForGood`: `Spec => TerminalIsFinal`, from the refinement
* `HeldMoneyStays`: `Spec => []HeldCovered`
* `MoneyConserved`: `Spec => []Conserved`
* `HeldCanBePaid`: a step that refuses a release finds an account that is not active
* `NobodyWaitsInCircles`: `Spec => []NoWaitCycle`

All rest on `Inductive`, `Spec => []IInv`. None of the properties is inductive by
itself: that a confirm may pay depends on what it *saw*, and only the locks make
that still true when it commits. `IInv` therefore adds who owns which lock at
each `pc` (`LocksOwned`), that a row seen under a lock is unchanged
(`SeenIsCurrent`), that every row passed create's checks (`RowsValid`), and what
the other requests cannot have done to a row while a worker is busy with it
(`RowsUnderWay`: a row being created is nobody else's, a row being confirmed is
pending, one being released is on hold with an open review, one whose review is
being closed is rejected). There is one lemma per action, and three lemmas for
what steps do to locks: `LocklessStep`, `LockStep`, `CommitStep`. The refinement
maps a commit of confirm or release to Hold, Pay or Reject and everything else to
a stutter, or to Post for the inserts.

What is said of sums of money follows from the refinement, one step of the ledger at a
time. `HeldCovered` is not inductive on the service, where a worker decides on what it
read, but it is together with `IInv`, which makes every decision a step of the ledger: a
row is parked or paid only within what the other parked rows leave
(`HoldKeepsCovered`, `PayKeepsCovered`), and a row turned away gives its claim back
(`RejectKeepsCovered`). `MoneyConserved` is two shifts of the sum of all balances, by the
debit and by the credit, of different accounts because the row passed create's checks.
`HeldCanBePaid` is what the hold is for: with the claim covered, the check of the balance
in `release` can fail only for money that left by another way, by a repayment or
an adjustment, which this module does not have (section 5).

The lemmas about sums are at the front of the module, for any function and any finite
set: a sum can be taken apart at any element (`SumSplit`), moves by as much as one
summand does (`SumShift`), and is not negative if no summand is (`SumNat`).
`MapThenSumSet` unfolds to a function that is chosen because it satisfies a recursion
over subsets, so first such a function has to exist (`AddsExists`) and to be the only one
(`AddsUnique`). Induction over the size of a set is done by looking at the smallest
size that fails (`Smallest`), since the provers cannot instantiate an induction theorem.

`NobodyWaitsInCircles`: whoever waits and is waited for has locked its low account and
waits for its high one (`WaitsClimb`), so along a chain of waits the low accounts
climb; of a circle, take the one with the fewest accounts above its low one.

`RowLocksProofs` proves, for any accounts and any number of requests in flight,
`CirclesThroughInserts` (`Spec => []CirclesNeedAnInsert`) and from it
`OrderedLocksNeverCircle`: if nobody posts a transfer from a higher to a lower id,
`Spec => []NoWaitCycle`. The argument: the tables and account ids give every row a
position, every transaction but that insert locks in ascending positions
(`ProgramsOrdered`), and in a circle the request waiting for the highest position
waits for one that has it and asks for a lower one (`CircleBreaksOrder`).

`LoanServiceProofs` proves, for any loans, accounts and any number of requests in
flight (`LoanAssumption`: types, whole cents in the money columns):

* `Inductive`: `Spec => []IInv` - a request's locks are exactly those its `pc` calls
  for, the rows it decides on are as it read them, money is in whole cents;
* `PaidToActive`: `Spec => PaidOutToActive`;
* `Refinement`: if no amount ends in exactly half a cent, `Spec => ImplementsLoanBook`;
* `RepaymentsMoveMoney`: under the same condition `Spec => RepaymentMovesMoney`, the
  property `half_cent` refutes without it; and `RepaymentsWithinACent`, which bounds the
  damage: on the half cent one cent more is recorded than taken, never less and never
  any other sum;
* `PaidOutByBoth`: `Spec => []BothRolesDecide`, and `ClosedByPayment`:
  `Spec => []ClosedWhenPaid`, half cents or not. Neither is inductive: `LoanInv` adds
  that nothing is repaid before the payout, and `LoanStep` takes one loan at a time.

The invariant is needed for the same reason as above: `Disburse` and `RepayCommit`
write what follows from rows read two or three steps earlier. The commits map to
the book's steps of the same name, everything else to a stutter; the last lemma
about arithmetic (`RoundingAgrees`) is that rounding the new balance and rounding
the amount take the same money, which fails at the half cent only.

`AccountServiceProofs` proves, for any accounts, staff, roles, threshold and number of
requests (`AccountAssumption`: types, whole cents in the money columns and in the threshold): `Inductive` (`IInv`),
`DualControlled` (`Spec => []TwoPeople`), `Refinement` (`Spec =>
ImplementsAccountBook`) and `ApprovedOnce`: a request changes when it is parked and when
it is approved, and the step that approves it adds its delta to its account and moves
nothing else. The book's amounts are whole cents: it is implemented to the nearest
cent, because rounding the sum of a whole balance and a delta is adding the rounded
delta. An adjustment writes an absolute balance, so the step is the
book's only if what was read is still there: `WorkerInv` says that it is, and that an
approver's request is still waiting and was parked by another role.

`ActionOtpProofs` is what the next three share. `OtpInv` is `OtpRows` with the types: who
holds a row is comparing its code, what it noted is what the row says
(`RowsHeld`), what the row says is what was guessed (`RowsCount`), and an accepted action
has one actor (`OneActor`). One lemma per action of the service says that it keeps
`OtpInv` and is a step of `OneTimeAction` or none (`OtpKept`); `OtpMove`, `OtpPerform`,
`OtpDied` and `OtpRestart` say the same of what a handler does in between. From these,
for any rows, requests, guesses and lifetimes (`OtpAssumption` and one of
`GatedAssumption`, `SignInAssumption`, `LinkAssumption`: types, no row open at the start of
`SignIn`):

* `GatedActionsProofs`: `GatedInvariant`, `RaisesAlwaysWait`, `GatedKeepsPromise`. That no
  limit rises early is not inductive: `LimitsUnderWay` adds that what a change has read
  had been earned and remains so, `RaisesParked` that a parked raise belongs to a
  performed action and falls due a hold after its code was issued.
* `SignInProofs`: `SignInInvariant`, `PasswordNeedsExcuse`, `DueUnlinkTakesEffect`,
  `OnlyEarnedBlocks`, `EveryStrikeBlocks`, `SignInKeepsPromise`. `LinkSeen` adds what the
  requests under way know of the link, `OriginsKnown` that a strike's request knows a
  used-up challenge and its origin. The failures the code ignores are steps like any
  other here, so `DueUnlinkTakesEffect` and `EveryStrikeBlocks` say which failure they
  except: a request's own UPDATE, the strike's own INSERT, request or server. The link is any behaviour of `LinkState`.
* `TelegramLinkProofs`: `LinkInvariant`, `CodesLinkOneChat`, `NobodyDroppedUnwarned`,
  `LinkRefines` and `LinkKeepsPromise`. `CodesMinted` adds that codes are numbered as they
  are minted, so a new one has linked nobody; `SchedulesAsked` that a schedule is the
  last asking plus the notice. `LinkRefines` closes the circle: what `SignIn` assumes of
  the link is what the poller and the pages do to it.

Only model-checked: the leads-to properties `EveryRequestFinishes`, `OverdraftsFreeze`,
`EveryRequestEnds` and `EveryUpdateHandled` (liveness is out of the prover's reach), and
the sums `LoansKeepMoney` and `AppliedOnce`. What each step moves is proved there too
(`Refinement` and `RepaymentsWithinACent`, `ApprovedOnce`); adding it up over all accounts
is left to TLC.

## 5. What is left

Not modelled:

* **Audit log, notifications, shutdown snapshot.** Written after the fact and read by
  people; no decision depends on them. A failed audit write after a commit makes the
  caller try again: confirm may run at any time in `TransferEngine`, and a settled row is
  refused (`TerminalIsFinal`).
* **Holds against repayments and adjustments.** Only confirm and release look at held
  money. A repayment or an adjustment may spend it, and the release is then refused; the
  code promises nothing else, so there is no composed model of the three services.
* **Registration and the history of sign-ins**: an INSERT each, nothing decides on them.
* **Staff and customer pages** beyond the sequences above: parsing, ownership and role
  checks, rendering. The staff dashboards only read. The race lab builds a second
  transfer service and with it a second rate limiter.
* HTML, formatting, password and OTP hashing, configuration, wiring and the seed program.
