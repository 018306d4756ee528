# Verification of the bot in TLA+

The repository is a Telegram bot for a group chat: members earn and spend
"plyonki", pay each other, keep streaks, thank each other, play slots and solve
riddles; administrators adjust balances and roles in a private chat.  It is one
Go process (a polling goroutine, a pool of update workers, a cron scheduler)
on one PostgreSQL database.  This directory models the parts of it whose
correctness depends on the order of steps taken by several actors.

## 1. Inventory

Paths are below `src/internal/` unless they start with `cmd/` or `migrations/`.

| Component | State | Operations | Meets |
|---|---|---|---|
| transfer dialogue (`features/economy/handlers.go`, `repository.go`) | `economy_transfer_confirmations` (state, consumed_at, expires_at), the message with the buttons | command, click Yes / No, execution, expiry | balances, members (foreign keys, purge), update pool (chat lock) |
| balances (`features/economy/repository.go`) | `balances` (balance, total_earned, total_spent), ledger `transactions` | AddBalance, DeductBalance, CreateBalance, transferTx | every feature that pays or charges |
| update pool (`bot/update_pool.go`) | channel, stop flag, two wait groups, a mutex per chat | Enqueue, worker loop, Stop | polling, every handler |
| shutdown (`cmd/bot/main.go`, `bot/bot.go`) | root context | signal, Stop of the scheduler, return of main | pool, polling, database |
| routing (`bot/update_handler.go`, `bot/membership_handler.go`) | none | access filter, membership, callbacks, commands, text | every feature |
| access filter, rate limiter (`bot/filters`, `bot/middleware`) | last requests of each user | CheckAccess, Allow, cleanup | routing |
| members (`features/members`) | `members` (status, delete_after, tag) | join, seen, left, purge, tag scan | balances, streaks, karma (cascades) |
| streak (`features/streak`) | `streaks`, processed message ids | CountMessage, SendReminders, ResetDaily | balances, scheduler |
| karma (`features/karma`) | `karma_logs` | GiveThanks, in the source chat only | balances |
| casino (`features/casino`) | `casino_games`, `casino_stats` (never has a row, section 5), weights in memory | PlaySlots | balances |
| admin authentication (`features/admin/service.go`) | attempts, sessions, flow state with expiry | VerifyPassword, GetState, SetState, ClearState, cleanup | every admin flow |
| admin balance flow (`features/admin/balance_flow.go`) | flow state of the admin | mode, picker, amount, confirm, apply, roll back, undo | balances |
| admin roles (`features/admin/handlers.go`) | role of a member, last undo in memory | assign, change, undo | members |
| riddles (`features/admin/riddle_*.go`) | `riddles`, answers with a winner | create, publish, guess, stop, expire | balances |
| scheduler (`jobs/scheduler.go`) | cron entries, purge goroutine | daily reset, hourly reminders, purge, tag scan, cleanup | streak, members, admin, riddles |
| gateway, wizard, audit, router, migrations, config | none that matters here | | |

What is hard, by component:

* **Transfer dialogue.** Duplicate and late clicks, Yes against No, two
  instances of the bot during a restart, expiry between the check and the
  execution, crossing transfers that deadlock in PostgreSQL, a lost answer to
  COMMIT, a recipient who is purged in the middle, a process that ends between
  two statements.  Correct means: money moves at most once, whole, only after
  its owner answered each of the two questions with Yes; no wallet is overdrawn; a
  message that says sent or cancelled is true; handlers return.
* **Update pool.** Stop racing Enqueue, a full channel, a handler that panics
  with the chat mutex in its hand, the order in which two workers lock one chat.
  Correct means: no send on the closed channel, one handler per chat, everything
  accepted is handled, Stop returns.
* **Streak.** The daily reset, the hourly reminder and a message of the user
  write the same row in different transactions and the reminder reads a
  snapshot.
* **Balance flow.** A loop of transactions with a best-effort roll-back and an
  undo, while the members spend.  Correct means: what the admin is told of the
  operation is what happened.
* **Roles.** An undo record in memory that outlives its screen, and members who
  leave or lose their role between the list and the choice.  Correct means: a
  change is taken back at most once.
* **Members.** The purge locks, deletes and commits while its victim comes back
  or is paid; the tag scan and the private access check write answers that have
  aged.  Correct means: nobody vanishes before his time or in parts, everybody
  who left goes in the end, and the table agrees with the chat.
* **Karma, casino.** Checks made outside the transaction that depends on them;
  bet, win, statistics and game in four transactions.  Correct means: the limits
  hold as far as the two clocks let them, and the games recorded explain the balance.
* **Riddles.** A publication of four steps, guesses against stop and cleanup,
  one reward that fails for all winners.  Correct means: one riddle at a time,
  posted while it takes guesses, paid to all winners or nobody.
* **Authentication.** Failures count over a sliding hour while a cleanup deletes
  old ones; rights, sessions and the row of a dialogue end in the middle of it.
  Correct means: few guesses, and no deed without right and password.

`PROJECT.json` lists each of these hazards at its line.


## 2. Plan

Most important behaviour first.  A module that is proved about has no RECURSIVE
operator, one action per operation and constants with named assumptions; its
proofs are in a module of their own.

| Order | Module | Composes / refines | State |
|---|---|---|---|
| 1 | `Wallets`, `AtomicPayments`, `TransferConfirmation` | the dialogue implements `AtomicPayments`; both are built on `Wallets` | modelled, checked; 11 theorems, the refinement among them |
| 2 | `SerialExecutor`, `UpdatePool` | the pool implements `SerialExecutor`, which the other models assume | modelled, checked; 6 theorems, the refinement among them |
| 3 | `Streak` | relies on `SerialExecutor` (one handler per chat) | modelled, checked; 10 theorems |
| 4 | `AdminSession`, `AdminRoles`, `AdminBalance`, `AdminDraft`, `Admin` | `Admin` composes the session with the dialogues, which share one row per admin | modelled, checked; 7 theorems |
| 5 | `RiddleContest`, `Riddle` | `Riddle` implements `RiddleContest`; relies on `Members` for the purge | modelled, checked; 4 theorems, the refinement among them |
| 6 | `Members` | composes the handler of the group, the private access check, the tag scan, the purge and a payment | modelled, checked; 4 theorems |
| 7 | `Slots`, `Casino`, `Thanks`, `RateLimiter`, `Games` | `Games` composes them on one table of balances | modelled, checked; 7 theorems |
| 8 | the participants list of the panel, the rendering of screens (`telegram`), `uiwizard` | `AdminSession` | to do |

Abstract specifications: `AtomicPayments` (a request is settled at most once, in
one step), `SerialExecutor` (accepted updates, at most once, one per chat at a
time) and `RiddleContest` (one riddle at a time, an answer has one winner, and the
member who gives the last one pays them all in that step).

Every safety property and refinement of a passing run is proved, and of the
liveness properties of the transfers and the pool the part that is not liveness
(`HandlersAdvance`, `WaitersLeadOn`, `NobodyStuck`); what is left to TLC is said at
the end of section 6.  The next step would be row 8.

The number of runs is kept small: one run answers one question with one
instance, and checks every property that instance is meant for.  What TLAPS
has proved for every instance and no other property needs from TLC is not checked
again: the type invariants of all rows, `HandlersAdvance`, and what a property of
a run implies (the refinements imply `OneHandlerPerChat` and, where it holds,
`TransferMovesAmount`; `RewardNotTooHigh` implies `RewardOncePerDay`, and
`StreakLostToLateRun`, where nothing straddles midnight, `NoStreakLost`).

## 3. Modules and the code

### Transfers

`Wallets` holds what a debit, a credit and a transfer do to the rows of
`balances`.  `AtomicPayments` is the promise, without dialogue, row locks or
failures.  `TransferConfirmation` is the code.

| State | Code |
|---|---|
| `conf`, `consumed`, `timeUp` | columns `state`, `consumed_at`, `expires_at` of `economy_transfer_confirmations` (migration 0013); the columns that never change are the constants `From`, `To`, `Amount`, `ChatOf` |
| `shown` | the text of the message with the buttons |
| `wallet`, `rows` | table `balances` and which users have a row there |
| `members` | table `members`, to which balances and ledger have foreign keys |
| `confLock`, `rowLock` | the row locks a transaction holds until it ends |
| `pc`, `tok` | the statement each worker is about to run, and for which request |
| `yes` | history: how many of the two questions the owner answered Yes; a click counts when it answers the question the request waits for |
| `paid` | history: committed payments of a request |

An action is one statement: `StartTransfer` and `Persist` are the command,
`Click` with `AfterPrepare` is `prepareTransferCallback`, `MarkExpired`,
`Cancel`, `FirstYes` and `Reload` are the conditional updates of the handler,
and `BeginExecution` to `CommitFailure` are the transaction of
`ExecuteTransferConfirmation`, with `EnsureSender` and `EnsureRecipient` for the two
INSERTs before the balances are read.  Writes of a transaction become visible at its
COMMIT, so they are applied there; only the locks exist before.  `StatementFails`
and `TransactionFails` let each database call fail, `ForeignKeyRefuses` is the
error a vanished member causes, and `Crash` ends the process.  `DeadlockVictim` is
PostgreSQL's detector: `Blocker(w)` is the transaction that w waits for, and a
victim is taken from a `Ring`, a set of transactions each of which waits for one of
the set and is waited for by one of it.  The answer to the INSERT of the
request, to the conditional updates, to the COMMIT of an expiry and to that of a
payment may be lost though the statement took effect.  In the last case the user is
told of a failure although he paid: `MessageIsTrue` speaks of "sent" and "cancelled"
only and promises nothing of "failed".  A click makes its user a member or does not:
`EnsureActiveMemberSeen` runs in the source chat only and its error is only logged.

`PerChat = TRUE` gives one instance of the bot, whose pool handles the updates
of a chat one at a time (that is `OneHandlerPerChat` of `UpdatePool`);
`PerChat = FALSE` adds a second instance on the same database, as during a
restart that overlaps.  `Award`, `Charge`, `Seen`, `CreateBalance` and `Purge`
are what the other features do to the same rows.  `Purge(u)` waits for the row
locks and cannot happen while an update of `u` himself is handled: it falls due
five days after he left, and handling his update marks him active again.  Each of
these other transactions is one step that starts when the row is free, so the rings
here are those of transfers with each other.  Two more transactions of the code hold
one row while they wait for another, and could close a ring with a transfer: the
purge against a payment is modelled in `Members`; the reward of a riddle, which
credits its winners one after the other, is not (PostgreSQL would roll back one of
the two, which is `TransactionFails` here and a failed guess in `Riddle`).

### Update pool

`SerialExecutor` is what the features rely on.  `UpdatePool` has one step per
operation on something shared: the stop flag (`stopping`), the wait group of the
producers (`producing`), the channel (`sent`, of which `taken` were received;
`closed`), the mutexes (`chatLocks`).  `prod` and `work` say where each
goroutine stands.  `Enqueue` to `Leave` are the producer's path with its two
looks at the flag; `Receive`, `Begin`, `Finish`, `RangeEnds` are the loop of a
worker, where `Finish` covers a handler that panics (the deferred unlock and
`recover` run either way); `StopPool`, `Close`, `Stopped` are `Stop`; `Cancel`
and `Exit` are the signal handler and the return of `main`.

Not modelled: the warning at a full queue; the never emptied map of mutexes; and
the fine print of `sync.WaitGroup` that `Add` must not start from zero while
`Wait` runs.  The second look at the flag makes such a late `Add` harmless for
the channel, which is what `StopInv` says.

### Streak

`row[u]` is the row of `streaks`; `processed` the ids in
`streak_processed_messages`; `job`, `reset` and `run` are the CountMessage,
DailyReset and SendReminders in flight, each with the day it read from the clock
at its start; `said`, `paid`, `told` are history, read by no action except `said`, which
says how old an id is.  `Normalized` is `normalizeStateForDay`,
`ContinuityBroken` is `isContinuityBroken`; a transaction holds its row FOR
UPDATE and is one step.  Whether a text counts and the anti-spam window are left
out (a message they refuse takes no step), and so is `last_message_at`: whether
a user was active lately is a choice in `Claim`.  `Straddle` lets a handler or a
reminder run go on over midnight; `Faults` adds crashes and a release that
fails.  Two limits: `ContinuityBroken` reads a DATE as its own day, which
`In(location)` does in UTC and in zones east of it, where the bot runs, and not west
of it; and an error of Telegram is taken as "not delivered", as the code takes it, so
a reminder that arrived with its answer lost, and is sent again, is not modelled.

### Riddles

`RiddleContest` is the promise: one riddle is open at a time, an answer belongs to
whoever gave it first, and the last answer closes the riddle and pays every winner
in the same step. `Riddle` is the code of `admin/riddle_*.go`.

| State | Code |
|---|---|
| `riddle`, `expires`, `winner` | `riddles.state`, `riddles.expires_at`, `riddle_answers.winner_user_id` (migration 0012) |
| `pinned` | which posts are pinned in the group |
| `lock` | the advisory lock `pg_advisory_xact_lock` of creation, abortion, guess and stop |
| `task` | what each update handler is about to do, with the time it read and the riddle it holds |
| `job` | the hourly cleanup: listing, messages, delete |
| `members` | who has a member row, to whom a reward can be paid |
| `paid`, `denied` | history: who was paid for an answer; which publications were given up, that is unpinned or taken down, after which the publisher is told of a failure |

`Publish` to `Abort` are `handleRiddlePublish` with its four steps and what it
does when one fails; `Guess` to `Announce` are `HandleRiddleGuess` with the
transaction of `ProcessGuess`, which marks the answer, completes the riddle and
pays all winners or rolls everything back; `StopActive` and `TakeDown` are the
stop; `CleanupBegin` to `CleanupFails` the cron entry.  Each handler reads the
clock before it waits for the advisory lock; the cleanup takes no such lock and
waits for locked rows only.  A lost answer to COMMIT, a refused statement, a
failed call of Telegram and a crash may happen anywhere.  How a text is
normalised and matched is abstracted: an answer is a value.

### Members

`Members` is the table `members` with the rows of other tables that refer to it.

| State | Code |
|---|---|
| `inChat`, `news` | who is in the source chat, and the updates about it not taken up yet |
| `member` | columns `status`, `delete_after` |
| `owned` | who has rows in `balances`, `streaks`, `karma`, `transactions` |
| `group` | `handleMembershipUpdate` and the touch before a message of the source chat is handled |
| `private` | `CheckAccess` of a private message: the answer of Telegram, then the write |
| `scan` | the tag scan: who is left to ask, the answer in hand |
| `purge` | `PurgeExpiredLeftMembers`: tick, locked batch, round |
| `payer` | a payment by another feature: balance, ledger entry, COMMIT |
| `welcomed`, `doubt` | history: whose joining was handled whole; whose row was written out of order, late or not at all |

The locks of the two transactions are derived from where they stand: the purge
holds its batch FOR UPDATE, a payment its balance row and, after the ledger
entry, the member row FOR KEY SHARE, so that the two can deadlock
(`DeadlockVictim`).  The answer to the COMMIT of the purge may be lost: the round ends
as after an error, and the next one finds nobody of that batch.  `TakeUpdate(i)` lets
an update overtake the `Workers - 1`
before it, which is what the pool permits, and `Crash` loses what was queued.
`AgreesWithChat` therefore speaks of the members whose updates were handled in
their turn and about whom no late answer was written; the other ones are in
`doubt` until their next update.

### Admin panel

`AdminSession` is what every handler of the panel goes through: the rights of
`IsAdmin` and `CanManage...`, the password with its attempts, the session, and
the row of `admin_flow_states`, whose reading, saving, expiry and clearing are
`Row`, `SetState`, `ClearState`, `ShowState` and `Live`.  The dialogues extend it
and share that row: `AdminRoles` (assign, change, undo), `AdminBalance` (mode,
picker, amount, confirmation, apply, roll back, undo, and the list of deltas)
and `AdminDraft` (the wizard of a riddle up to its publication).  `Admin` is
their composition.

| State | Code |
|---|---|
| `flagged`, `active`, `role` | columns `is_admin`, `status`, `role` of `members` |
| `session`, `attempts`, `flow` | tables `admin_sessions`, `admin_login_attempts` (failures with their time), `admin_flow_states` |
| `undo` | `Handler.lastRoleUndo`, one record per admin, in memory |
| `balance`, `deltas` | `balances`, `admin_balance_deltas` |
| `job` | the handler that makes several changes: a change of a role, an apply, a roll back, an undo |
| `entered`, `guessed`, `unlogged`, `breach`, `changes`, `undone`, `net`, `told`, `drafts`, `posted` | history |

The updates of an admin come from his private chat and are handled one at a
time, so a handler with one change is one step.  Any button of any old screen
may be tapped in any state; a button for another state drops the row, as the
code does.  A statement on the row of a dialogue that the database refuses is
only logged, and the screen that follows reads the row again.  The behaviours
are cut into agendas (`Agendas`): who is at work, on which dialogue, how long and
with how many faults.  The rights and the session are tested for each of them;
dialogues of one admin that follow each other meet only in the row, which the
first screen of each overwrites.

A failure is a row with its time, as in the table: the hour for which it counts and
the cleanup look at that time.  `Zone` is how far the bot's clock is ahead of the
database's: `expires_at` of sessions and dialogues and the start of the hour are
sent by the bot and cut to its wall clock, `attempt_time` is stamped by NOW().  So a
session lives `Zone` longer than it is meant to, and the hour over which failures are
counted is `Zone` shorter; the properties say what that leaves.

### Games

`Slots` holds the functions of `casino/slots.go`: lines, base symbol, scatters and
payouts.  `Casino` is `PlaySlots`, one statement or
transaction per step (bet, draw, win, statistics, weights, game).  The step of the
statistics changes nothing: PostgreSQL refuses its statement on every call (section
5), so every player is one without statistics.  The answer to the COMMIT of a bet may
be lost, which keeps the bet and ends the spin; an error of the random source gives
the bet back on the first grid and ends the free spins on a later one.  `Thanks` is
`GiveThanks`: the daily limit, the cooldown, then the reward and the row of
`karma_logs` in one transaction.  Thanks are taken in the source chat only
(`karma/commands.go:23`, `bot/update_handler.go:37`), whose handlers run in turn;
spins are taken in several chats at once.  `RateLimiter` is `Allow` and its cleanup.
`Games` composes them on one table of balances.

| State | Code |
|---|---|
| `balance` | `balances` |
| `games` | what the rows of `casino_games` of a player add up to |
| `weights` | `RTPManager.userWeights`, in memory |
| `log` | `karma_logs`, with `created_at` in the clock `now` of the database |
| `requests` | `RateLimiter.requests`, in memory |
| `job` | the handler under way in each chat |
| `dented`, `begun`, `failed`, `passed` | history: players hit by an error or a crash, spins begun, what has gone wrong, messages let through |

`Zone` is how far the bot's clock is ahead of the database's; the driver cuts a
time it sends to its wall clock, so `WallClock` is what the comparisons use.

## 4. Runs

| Run | Instance | Shows |
|---|---|---|
| `transfer_cross` | two users who pay each other, two chats, two workers, fairness | final states stay final (so what expired is never paid); transfers deadlock with each other only if they cross, whoever waits is led to a handler that can go on or to a deadlock, and handlers return |
| `transfer_two_bots` | one request, three workers without the chat lock, awards and charges | paid at most once, after its owner answered both questions with Yes; what says sent or cancelled is true; no overdraft |
| `transfer_churn` | one sender, a recipient who is purged and one who joins | the refinement: each payment moves the whole amount at once, and no request is paid twice |
| `transfer_rejoin` (violation) | as before, and the purged recipient is seen again | finding 1 |
| `pool` | two producers, two workers, room for one update, three updates, fairness | no send on a closed channel, Stop drains and returns, everything accepted is handled; whoever waits, waits for a goroutine that can go on; the refinement, with one handler per chat |
| `streak_days` | one user, four days, two reminder runs, eight messages | nothing missed, rewards fit the streak, no reminder lost, nobody told twice, while no job runs over midnight |
| `streak_slow` | one user, three days, jobs over midnight, crashes | rewards stay single, earned and not too high; a streak ends early only by a reminder run from before midnight |
| `riddle` | two riddles of two answers, two members, two handlers, every fault | posted while it is active, paid whole; the refinement, with one riddle at a time |
| `members` | two people, batches of one, three moves of the world outside, fairness | the purge is due, whole and comes in the end; joining is complete; the table agrees with the chat |
| `admin` | six agendas of one or two admins | few guesses, nothing forbidden, undo once, operations and riddles whole |
| `games` | two players, two chats, clocks one tick apart, three spins or four thanks or a burst, each fault once | lines pay their best run, the books agree, and what the clocks leave of the limits holds |
| `thanks_zone` (violation) | one chat, the bot's clock ahead of the database's | finding 2 |

**Bounds.**  Two requests are what a deadlock or a double spend takes; three
workers are what it takes for two clicks to race while a third handler edits the
message.  `EarnLimit` bounds awards, so wallets stay finite; amounts 1 and 2
against balances 1 and 2 make one transfer affordable only before, or only
after, the other.  A channel of one place is full with one update.  The streak
runs use a quota of two messages instead of four, rewards that stop growing at
the second day, reminders from a streak of one, and ids kept for one day: four
days then hold a streak, a gap, a new streak and a capped reward, and a cleanup
that forgets ids.  Users of `Streak` share nothing but the reset and the loop of
a reminder run, so the instances have one user; the theorems hold for any
number.

The run `riddle` has two riddles because the second is the one that must not be
published; one unit of time is the life of a riddle, so the clock at 1 is the moment
of its expiry, and a handler may hold the time it read before.  `Matters` in
`MCRiddle` leaves out starts that could not change anything (a guess at an answer
that is taken, a cleanup with nothing expired, a stop without a riddle). Users,
handlers, riddles and answers are interchangeable there.  In `members`, `Budget`
counts the arrivals, departures, messages, payments, scans and faults: three are a
leave, a return and a payment, or two of them and a crash; batches of one make the
purge go two rounds over two people.  In `admin`, a login is watched over four
ticks, twice what is left of the window for which failures count, with three
failures allowed; the clocks are one tick apart (`Zone = 1`), which makes the window
of three ticks two ticks long and the session of one tick two; two admins at work
together meet in the roles; the other agendas have one admin, since nothing else is
shared by two but the balances, which members change meanwhile.  `FlowTTL = 0` lets
a row lapse at any tick.  In `games` one player can afford two bets and wins a line,
a jackpot or a bonus; three spins are two at once and one after them, which may find
the balance too low for a second bet; four thanks and a limit of two reach the limit
on each of two days of three ticks, the clocks one tick apart, so that a day has
thanks the query misses.

**Fairness.**  `transfer_cross` assumes strong fairness of a handler's next
statement and weak fairness of the deadlock detector.  PostgreSQL queues waiters
of a row lock, so a waiter is not overtaken for ever, and breaks a deadlock after
`deadlock_timeout`.  `pool` assumes that Go runs every goroutine that can run,
that a mutex (starvation mode) and a channel serve their waiters in turn, and
that handlers return.  The last is an assumption about the code and not a fact:
`BOT_UPDATE_TIMEOUT_SECONDS` is read and never used, so a call that hangs keeps
its worker.  `members` assumes that workers take up what is queued and finish
it, that the ticker of the purge fires, that PostgreSQL ends a deadlock, that a
payment ends, and that time passes; the payment's ledger entry has strong
fairness, since the ticks of a purge that blocks it are an hour apart.  Nothing
is assumed of the people in the chat: the purge must come even if they never
write again.  No fairness is assumed of users, of Telegram, of failures or, in
the other runs, of time.

**Deadlock.**  `CHECK_DEADLOCK FALSE` in the transfer, pool, riddle, members,
admin and games runs: there the system really stops, once every request is
settled and the bounds on time, faults and inputs are reached, or once the
process has ended.  In the streak runs `GetStreak` is always possible, and the
check stays on.

Every property of a passing run has a mutant: a definition beside the original,
marked "Mutant", with the mistake named, which makes TLC find the property
violated.

## 5. Findings

1. `transfer_rejoin`: the recipient's credit does not look at how many rows it
   updated.  A recipient purged after his row was ensured and seen again before
   the ledger entry costs the sender the amount, and nobody receives it.
2. `thanks_zone`: `karma_logs.created_at` is a TIMESTAMP without zone filled by
   NOW() (`migrations/0004_karma.sql:15`), and the driver cuts the start of the
   day, a time in `AppTimezone`, to its wall clock.  With the database in UTC and
   the bot in Europe/Moscow (`deploy/Dockerfile:15`) nothing counts between local
   midnight and 03:00: the daily limit does not limit, and the cooldown of five
   minutes never applies.  `karma/service_test.go:152` promises the configured
   time zone.

Met while modelling, and built into the models as the code behaves:

* **Transfers.**  One Yes that is tapped or delivered twice, one after the other,
  answers both questions: the buttons of both carry the same data, and the second
  delivery meets the request waiting for the second answer
  (`economy/handlers.go:498`).  Two deliveries handled side by side answer the first
  only.  A lost answer to the COMMIT of a payment shows "failed" on a transfer that
  was paid.
* **Pool.**  Workers receive before they lock, so two of them may handle two
  updates of one chat in the other order (`update_pool.go:61`; the test at
  `update_pool_test.go:137` expects the order of arrival).  `main` returns
  without waiting for the pool (`cmd/bot/main.go:66`), so a signal loses what was
  accepted.
* **Streak.**  A reminder claimed at 00:00 before the reset's UPDATE is unmarked
  by it and sent again an hour later (`streak/repository.go:226`).  A reminder
  run that goes on after midnight normalises for yesterday and ends the streak
  of a user who has completed today (`streak/service.go:204`): with
  `Straddle = TRUE`, `NoStreakLost` is false, and `StreakLostToLateRun` says that
  nothing else ends a streak early.
* **Riddles.**  `hasBlockingRiddleTx` ignores the expiry, so a riddle whose
  handler crashed blocks publication until the next cleanup.  The cleanup takes
  down the messages of active riddles only: a completed one whose unpinning
  failed, or a post orphaned by a crash, stays pinned.  When the answer to the
  activation is lost the riddle is active without a post (`denied`).  One winner
  who was purged keeps all others from their reward.
* **Balance flow.**  Apply may be tapped twice (`balance_flow.go:584`), and an
  undo whose ClearState was refused reverses a second time (`:585`); an undo of
  several members stops at the first error and keeps the whole record (`:633`);
  a crash within a loop leaves it half done (`:542`).  `OperationIsWhole` says
  what is left: an admin who was told "done" or "nothing done" was told the
  truth.
* **Roles.**  `UpdateRole` does not read its row count, so an admin is told of a
  change to a member who left.  The undo of a first assignment writes '' and not
  NULL: the member is then in neither list of candidates for a role.  An
  assignment does not look again whether the member still has none.  The list of
  participants leaves a dialogue about a role open.
* **Admin, clocks.**  The cause of finding 2 is here as well: sessions and failures
  are columns without a zone.  A session outlives its password by `Zone` more than
  its 24 hours (`admin/service.go:97`), and the hour over which wrong passwords are
  counted is `Zone` shorter.  With the three hours between a database in UTC and a
  bot in Europe/Moscow nothing is left of that hour: a failure written by NOW() is
  older than the start of the hour the bot sends, and the number of guesses has no
  limit. `NothingForbidden` and `GuessesAreLimited` say what holds for every `Zone`.
* **Admin, the rest.**  `LogAttempt` failing is only logged, and such an attempt
  does not count (`unlogged`).  `Handler.wizardCtx` is one field written without
  a lock by the handlers of all admins; they all store the same base context.
* **Games.**  PostgreSQL refuses the statement of `UpdateStats`
  (`casino/repository.go:72`) on every call.  Its `$2` and `$3` stand bare for
  BIGINT columns, and `$2 = 0` makes the one an integer, `$3::DECIMAL` the other a
  numeric; the driver's default protocol lets the server deduce one type for each,
  and the answer is 42P08, which `casino/service.go:94` logs.  `casino_stats` never
  gets a row, every player stays at the default of 96 percent and the weights never
  follow his luck, against the header of `casino/rtp.go`.  Six scatters and more pay
  nothing.  A win that could not be credited is announced.  A bet whose COMMIT lost
  its answer is taken, and the player is told of an error
  (`economy/repository.go:144`).  Free spins that cannot be drawn end the round
  without an error, and those before them are paid (`casino/service.go:73`).
* **Members.**  The tag scan marks nobody left; it writes a member active from an
  answer that may be older than his leaving (`members/service.go:158`), until his
  next update.

## 6. Proofs

The theorems hold for every value of the constants that the named assumptions
admit (`RequestAssumption`, `WorldAssumption`, `PoolAssumption`,
`StreakAssumption`, `RiddleAssumption`, `MembersAssumption`, `AdminAssumption` with
those of its dialogues, `CasinoAssumption`, `ThanksAssumption` and their like):
any number of users, requests, workers, riddles, chats, admins and days.  A theorem
that needs more says so in its ASSUME:

| Hypothesis | Theorems | Why it is needed |
|---|---|---|
| `PerChat` | `FinalIsFinalCorrect` | a second instance of the bot may overwrite a final state with "expired" |
| `Leavers \cap Active = {}` | `Refinement` of the transfers, `TransferMovesAmountCorrect` | whoever can be purged does not come back while he is paid: finding 1; the run `transfer_rejoin` drops it and finds the property of the second violated |
| `~Straddle` | `NoStreakLost`, `FourMessages`, `RewardMatches`, `ReminderOnce`, `ReminderNotLost` | a job that runs on after midnight works on yesterday (section 5) |
| `~Faults` | `ReminderNotLostCorrect` | a crash keeps the claim, as a comment in the code wants it |
| `Target > 1` | `RewardIsEarnedCorrect` | a quota of one would be filled by a late duplicate; the code's is four |

No theorem assumes that the two clocks agree: what is said of sessions, guesses,
limits and cooldowns holds for every `Zone`, and is the weaker the larger `Zone` is.
`GuessesAreLimitedCorrect` and `CooldownHoldsCorrect` say nothing once `Zone` is
longer than the hour of the guesses, or than the cooldown.  With the shipped clocks it
is (finding 2), which is why `PROJECT.json` does not list these two among its
theorems; they bear on a bot that runs in the zone of its database.

**Transfers.**  Type correctness first: `TypeCorrect`.  `BooksBalance` is not
inductive, since a debit is decided some steps before it is applied; `BooksInv`
adds that a worker that passed the test of the balance holds the sender's row
lock and that the balance still covers the amount (`Covered`).  Every other
action that takes from a wallet needs that lock.
`PaidAtMostOnce`, `PaidAfterTwoYes` and `MessageIsTrue` rest on one invariant,
`PayInv`: what each state of a request means (`RequestOK`), what each statement
a worker stands before has established (`HandlerOK`: between the lock of the
confirmation and the COMMIT it holds that lock and the row is `await_second` and
not consumed), and that a request is saved by one worker only (`OnePersister`).
The three theorems do not assume `PerChat`: they hold for two instances of the
bot.  `FinalIsFinal` adds `ChatInv`: handlers under way are of different chats, so
nobody moves the row between the callback and the late test of the expiry, which
overwrites any state.  The refinement adds `DeliveryInv`: after the rows were
ensured the recipient's row is there, or locked by the transaction, or the
recipient was purged and will not be a member at the COMMIT.  From the same
invariants follows that the step that pays moves the amount (`TransferMovesAmount`).

`HandlersReturn` is liveness, and three theorems say what it stands on.
`HandlersAdvanceCorrect`: a handler has a rank, the number of statements it may still
have before it, and whatever it reads and whatever fails, each step of its own lowers
it; so it returns unless it waits for ever.  `WaitersLeadOnCorrect`: a
lock is held by a transaction that is still open, so following the waits from anybody
one comes to a handler that can go on, or the walk has no end; and then
(`EndlessCycles`) a smallest set in which everybody waits for one of the set is a ring,
by the order of the finite subsets of `Workers`, the only use of
`IsFiniteSet(Workers)`.  `DeadlocksCrossCorrect`: by the order in which the rows are
taken, whoever is on a ring waits for the row of his recipient, who is the sender of
the one he waits for.  Without fairness that the waiting handler gets the lock when it
is free, which TLC's run assumes, this is not yet `HandlersReturn`.

**Update pool.**  `StopInv`: the wait group counts the producers between Add and
Done, so Stop closes the channel only when nobody can be at the send, and whoever
registers later sees the flag.  `LockInv`: a running handler holds the mutex of
its chat.  `OnceInv`: an update is in one place at a time.  `DrainInv`: what was
taken is begun or about to be, and a worker is done only on a closed, empty
channel.  Their conjunction gives `NoSendCorrect`, `OneHandlerCorrect`,
`StopDrainsCorrect` and, action by action, `Refinement`: the pool implements
`SerialExecutor` under the mapping accepted = sent, started = begun, finished =
begun and not running.  `HeldInv`, the other direction of `LockInv`, says that a
locked mutex belongs to a handler that runs, panics included; with it, a full
channel or an unfinished Stop always leaves a goroutine that can take its next step
(`NobodyStuckCorrect`), the safety part of `AcceptedIsHandled` and `StopReturns`.

**Streak.**  `PaidInv`: no day after `last_rewarded_day` is paid, and that day is
not after the day of a handler in flight, so the test of that column refuses
every second reward (`RewardOnceCorrect`, with straddling jobs and crashes).
`TodayInv`: without straddling, whatever is in flight works on the current day,
so a normalisation ends a streak only after a gap (`NoStreakLostCorrect`).
`UsersOK` says of a row what it knows of the past: its counter is not below the
messages of today until they are rewarded (`TodayCounted`), its length is that of
the unbroken run of paid days (`StreakRemembered`, a `Chain`), and every past day
with the quota is paid (`PastRewarded`).  That the four places which normalise a row
keep it is the work of the proof, and gives `FourMessagesCorrect` and
`RewardMatchesCorrect`.  `RemindInv` counts: how often a user was told, the claims
open for him and the mark that is not set add up to one, or to two once the marks
were cleared (`ReminderOnceCorrect`).  `EarnInv` holds over midnight as well: the row
claims no more messages than were counted on the day that is or on that of the
handler in flight, and where the id of a message delivered again was forgotten the
reset has emptied the counter, so that this one cannot fill it
(`RewardIsEarnedCorrect`).  `LateInv` says what midnight leaves of `RewardMatches` and
`NoStreakLost`: a streak is at most as long as the chain of paid days that ends on the
last day with the quota, since only the completion of a day lengthens it, in the step
that rewards that day, and for a day after all that were rewarded
(`RewardNotTooHighCorrect`); and `LostStep` finds, among all that normalise a row, that
only a reminder run of an earlier day can end a streak that should go on
(`StreakLostToLateRunCorrect`).

**Riddles.**  `HandlerOK`: what the statements before the one a handler stands at
have established; `RowOK`: which columns of a row go together; `OneOpen`: the
advisory lock keeps two riddles from being open; `OnePublisher`: activation, which
does without that lock, has one author; `JobOK`: what the cleanup has listed stays
expired.  The refinement maps each handler to the step of the contest its COMMIT
takes; all other steps stutter, the loss of an answer and the crash among them.

**Members.**  The invariant follows an update from the queue to the row.  `NewsOK`:
the updates about a person that were overtaken stand before those that were not,
and the last of the latter says where he is.  `GroupOK`, `AskersOK`: what the
handler, the private check and the scan hold in hand; `PurgeOK`: the rows of a
locked batch are due; `PayerOK`: the row a payment has share-locked is in no batch.
`TableOK` is `AgreesWithChat` for everybody whose last update is through.

**Admin panel.**  `Domains` gives every row of a dialogue the data its state needs
and every handler under way the data it began with (`TypeCorrect`); a step writes at
most the row of its own admin (`RowWritten`).  Over it: `UndoIsLeft`, a record for
an undo is a change not taken back; `DraftIsOne`, the parts of a draft are of one
dialogue; `SessionLife`, a session ends `Zone + SessionTTL` after its password;
`GuessesAreCounted`, by counting: a wrong password of the window has a row or was
not written, and a row more is a comparison more; `OperationsAreWhole`, what the
handler of an operation has moved so far is in its two lists, and afterwards in
the answer and the record.

**Games.**  Two parts have no state.  Sums over a set, as the folds of the library
define them, exist, are numbers and do not depend on the order (`SumExists`,
`SumIsNumber`, `SumInAnyOrder`, each by the smallest set on which it fails, so that
no induction over an operator is needed); and `PaysBestRun`, by cases on where the
base symbol of a line is found.  `Balanced` adds to the books what the handlers of
all chats still hold, a sum over the chats of which a step changes one term.
`Cooled` and `Limited` say what the handler of the thanks has found out and why it
stays true until its reward: the handlers of the source chat run in turn, so nobody
else thanks meanwhile.  For the limit that is room for one more on the day of the
look-up and on every later day (`Room`), since midnight may come before the reward;
of a day only the thanks are counted that the database dates to it too, which are the
ones the query finds.  `Remembers`: a message of a window that is not
over has its entry in the limiter, so the entries counted are all there were.

**Only model-checked.**  Liveness (`HandlersReturn`, `AcceptedIsHandled`,
`StopReturns`, `GoneInTheEnd`), which is out of the prover's reach, with the
ENABLED of its fairness.  The two violations are counterexamples of TLC.

## 7. Not modelled

Lists, histories and their formatting, the Telegram gateway, the table of
commands, the audit log, configuration and start-up keep no state that an order
of steps could spoil.

Left out of the components that are modelled: which message of the panel shows a
screen and the rendering that edits it (`telegram/ops.go`, `uiwizard`), pages of
lists (one page stands for all), the list of participants in the panel, the texts
and how they are parsed, the normalisation of answers, the tags and names of members
(with the UPDATE of a tag by the scan), the anti-spam window of the streak, a lost
answer to COMMIT in the balance flow, a lost answer of Telegram to a reminder of the
streak, and the ranking and statistics commands.  The button of the amount screen
that would type a delta in place (`cbBalAmtAddDelta`) is handled and never shown. 
The choice of the recipient of a transfer and the parsing of the amount are
constants of the request.
