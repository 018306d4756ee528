------------------------------- MODULE Streak --------------------------------
(***************************************************************************)
(* The daily streak ("ogonek"): the row of a user in table streaks, the    *)
(* message counter, the midnight reset and the hourly reminders.           *)
(*                                                                         *)
(* Three kinds of processes meet in the row: CountMessage and GetStreak    *)
(* (handlers of updates), DailyReset (cron, 00:00) and SendReminders       *)
(* (cron, every hour, so 00:00 too).  Each reads the clock ONCE, at its    *)
(* start, and works with that day until it ends; each transaction holds    *)
(* the row FOR UPDATE and is one step here.  CountMessage runs at most     *)
(* once at a time for a user, because of the mutex of the chat             *)
(* (UpdatePool!OneHandlerPerChat).                                         *)
(*                                                                         *)
(* Abstracted: which texts count and the anti-spam window (a message that  *)
(* they refuse takes no step), last_message_at (whether a user was active  *)
(* lately is a choice), the missing row (CreateTx inserts a blank one).    *)
(* Days are dates: a DATE of the database, midnight UTC, stays the same    *)
(* day in a zone at or east of UTC; west of it isContinuityBroken would    *)
(* see the day before.  An error of Telegram means not delivered, which is *)
(* how the code takes it: a message whose answer is lost is left out.      *)
(***************************************************************************)
EXTENDS Naturals, Sequences, FiniteSets

CONSTANTS
    Users,
    Runs,          \* reminder runs that may be in flight at the same time
    Target,        \* dailyMessageTarget
    MaxReward,     \* maxRewardDay
    Threshold,     \* STREAK_REMINDER_THRESHOLD
    Retention,     \* days the ids of counted messages are kept
    MaxDay,        \* bound: the days of the calendar that are explored
    MaxMessages,   \* bound: the messages of a user
    Straddle,      \* may a job or a handler be in flight over midnight?
    Faults         \* may the process crash and a claim fail to be released?

ASSUME StreakAssumption ==
    /\ Target \in Nat \ {0}
    /\ MaxReward \in Nat \ {0}
    /\ Threshold \in Nat \ {0}
    /\ Retention \in Nat \ {0}
    /\ MaxDay \in Nat \ {0}
    /\ MaxMessages \in Nat
    /\ Straddle \in BOOLEAN
    /\ Faults \in BOOLEAN

Days == 1..MaxDay
Never == 0               \* a NULL date
Dates == Days \cup {Never}

VARIABLES
    day,          \* the date in the configured time zone
    row,          \* row[u]: the row of streaks
    processed,    \* processed[u]: message ids in streak_processed_messages
    job,          \* job[u]: the CountMessage in flight, with its day
    reset,        \* the DailyReset of the last midnight
    run,          \* run[r]: a SendReminders
    said,         \* history: said[u][m] is the day message m was counted on
    paid,         \* history: paid[u][d], the rewards of day d
    told          \* history: reminders delivered today

vars == <<day, row, processed, job, reset, run, said, paid, told>>

Messages == 1..MaxMessages
NoJob == [msg |-> 0, day |-> Never]
NoRun == [pc |-> "idle", day |-> Never, todo |-> {}, user |-> {}]
Blank == [streak |-> 0, longest |-> 0, messages |-> 0, quota |-> FALSE,
          lastQuota |-> Never, progress |-> Never, rewarded |-> Never,
          total |-> 0, reminded |-> FALSE]

Init ==
    /\ day = 1
    /\ row = [u \in Users |-> Blank]
    /\ processed = [u \in Users |-> {}]
    /\ job = [u \in Users |-> NoJob]
    /\ reset = [pc |-> "idle", day |-> Never]
    /\ run = [r \in Runs |-> NoRun]
    /\ said = [u \in Users |-> <<>>]
    /\ paid = [u \in Users |-> [d \in Days |-> <<>>]]
    /\ told = [u \in Users |-> 0]

-----------------------------------------------------------------------------
(* What a transaction does to a row.                                       *)

Larger(a, b) == IF a >= b THEN a ELSE b
Smaller(a, b) == IF a <= b THEN a ELSE b

\* Mutant: a streak goes on only within the day.
ContinuityBrokenOvernight(s, d) == s.streak # 0 /\ s.lastQuota # d

\* Mutant: a day without the quota is forgiven.
ContinuityForgiven(s, d) ==
    s.streak # 0 /\ s.lastQuota # d /\ s.lastQuota + 1 # d /\ s.lastQuota + 2 # d

\* isContinuityBroken: neither the day nor the day before it was completed, in a
\* zone where In(location) keeps the date.
ContinuityBroken(s, d) ==
    /\ s.streak # 0
    /\ s.lastQuota # d
    /\ s.lastQuota = Never \/ s.lastQuota + 1 # d

\* A row of another day starts the day d afresh ...
Fresh(s, d) ==
    IF s.progress = d THEN s
    ELSE [s EXCEPT !.progress = d, !.messages = 0, !.quota = FALSE, !.reminded = FALSE]

\* ... and a gap before d ends the streak (normalizeStateForDay).
Normalized(s, d) ==
    IF ContinuityBroken(s, d)
    THEN [Fresh(s, d) EXCEPT !.streak = 0, !.messages = 0, !.quota = FALSE]
    ELSE Fresh(s, d)

\* One more message of day d on a normalized row.
Counted(s) ==
    IF s.quota THEN s ELSE [s EXCEPT !.messages = Smaller(@ + 1, Target)]

\* The message on day d that completes the quota and earns the reward.
Completes(s, d) ==
    /\ ~s.quota
    /\ s.messages + 1 >= Target
    /\ s.rewarded # d

Completed(s, d) ==
    [Counted(s) EXCEPT !.quota = TRUE, !.lastQuota = d, !.rewarded = d,
                       !.streak = @ + 1, !.longest = Larger(@, s.streak + 1),
                       !.total = @ + 1]

\* GetReward(CurrentStreak - 1)
Reward(streak) == 10 * Smaller(streak, MaxReward)

-----------------------------------------------------------------------------
(* The handlers.                                                           *)

\* CountMessage reads the clock.  A message is new, or Telegram delivers it
\* again, which it does for a day at most.
ReceiveMessage(u) ==
    /\ job[u] = NoJob
    /\ \E m \in Messages :
        /\ m <= Len(said[u]) + 1
        /\ m <= Len(said[u]) => said[u][m] + 1 >= day
        /\ job' = [job EXCEPT ![u] = [msg |-> m, day |-> day]]
    /\ UNCHANGED <<day, row, processed, reset, run, said, paid, told>>

\* The transaction of CountMessage with a message that was not counted yet;
\* the row and the reward are committed together.
CountMessage(u) ==
    /\ job[u] # NoJob
    /\ job[u].msg \notin processed[u]
    /\ LET d == job[u].day
           s == Normalized(row[u], d)
       IN IF Completes(s, d)
          THEN /\ row' = [row EXCEPT ![u] = Completed(s, d)]
               /\ paid' = [paid EXCEPT ![u][d] = Append(@, Reward(s.streak + 1))]
          ELSE /\ row' = [row EXCEPT ![u] = Counted(s)]
               /\ UNCHANGED paid
    /\ processed' = [processed EXCEPT ![u] = @ \cup {job[u].msg}]
    /\ said' = [said EXCEPT ![u] = IF job[u].msg > Len(@) THEN Append(@, job[u].day) ELSE @]
    /\ job' = [job EXCEPT ![u] = NoJob]
    /\ UNCHANGED <<day, reset, run, told>>

\* The transaction is rolled back: the id was there already (the violated key
\* aborts the transaction, whatever the handler makes of it) or a statement
\* failed.
CountNothing(u) ==
    /\ job[u] # NoJob
    /\ job' = [job EXCEPT ![u] = NoJob]
    /\ UNCHANGED <<day, row, processed, reset, run, said, paid, told>>

\* GetStreak writes the row only when the normalisation changed it.
GetStreak(u) ==
    /\ row' = [row EXCEPT ![u] = Normalized(@, day)]
    /\ UNCHANGED <<day, processed, job, reset, run, said, paid, told>>

-----------------------------------------------------------------------------
(* The midnight reset: one UPDATE of all rows, then one DELETE.            *)

\* The job is over; its day stays if the rows were reset.
Ended == [pc |-> "idle", day |-> IF reset.pc = "rows" THEN Never ELSE reset.day]

ResetBegin ==
    /\ reset.pc = "due"
    /\ reset' = [pc |-> "rows", day |-> day]
    /\ UNCHANGED <<day, row, processed, job, run, said, paid, told>>

\* Mutant: the reset does not look at the day of the progress.
ResetRowsAll ==
    /\ reset.pc = "rows"
    /\ reset' = [reset EXCEPT !.pc = "cleanup"]
    /\ row' = [u \in Users |-> [row[u] EXCEPT !.messages = 0, !.quota = FALSE, !.reminded = FALSE]]
    /\ UNCHANGED <<day, processed, job, run, said, paid, told>>

ResetRows ==
    /\ reset.pc = "rows"
    /\ reset' = [reset EXCEPT !.pc = "cleanup"]
    /\ row' = [u \in Users |->
                  LET kept == row[u].progress = reset.day
                  IN [row[u] EXCEPT !.messages = IF kept THEN @ ELSE 0,
                                    !.quota = kept /\ @,
                                    !.reminded = FALSE]]
    /\ UNCHANGED <<day, processed, job, run, said, paid, told>>

\* Mutant: the ids of yesterday are forgotten, too.
ResetCleanupEarly ==
    /\ reset.pc = "cleanup"
    /\ reset' = Ended
    /\ processed' = [u \in Users |-> {m \in processed[u] : said[u][m] >= reset.day}]
    /\ UNCHANGED <<day, row, job, run, said, paid, told>>

\* Ids of messages counted more than Retention days ago are forgotten.
ResetCleanup ==
    /\ reset.pc = "cleanup"
    /\ reset' = Ended
    /\ processed' = [u \in Users |->
                        {m \in processed[u] : said[u][m] + Retention >= reset.day}]
    /\ UNCHANGED <<day, row, job, run, said, paid, told>>

\* Either statement fails; the job is not repeated before the next midnight.
ResetFails ==
    /\ reset.pc \in {"rows", "cleanup"}
    /\ reset' = Ended
    /\ UNCHANGED <<day, row, processed, job, run, said, paid, told>>

-----------------------------------------------------------------------------
(* The reminders.                                                          *)

\* The long streaks are listed, then the clock is read.  That the list may be
\* a day older than the clock changes nothing: every row is read again.
RemindBegin(r) ==
    /\ run[r] = NoRun
    /\ LET long == {u \in Users : row[u].streak >= Threshold}
       IN /\ long # {}
          /\ run' = [run EXCEPT ![r] = [pc |-> "claim", day |-> day,
                                        todo |-> long, user |-> {}]]
    /\ UNCHANGED <<day, row, processed, job, reset, said, paid, told>>

\* Mutant: nobody looks whether the reminder was sent.
ClaimAgain(r) ==
    /\ run[r].pc = "claim"
    /\ \E u \in run[r].todo :
        LET s == Normalized(row[u], run[r].day)
        IN /\ s.streak > 0 /\ ~s.quota
           /\ row' = [row EXCEPT ![u] = [s EXCEPT !.reminded = TRUE]]
           /\ run' = [run EXCEPT ![r].pc = "deliver", ![r].todo = @ \ {u}, ![r].user = {u}]
    /\ UNCHANGED <<day, processed, job, reset, said, paid, told>>

\* The next candidate: his row is normalized for the day of the run, and
\* claimed unless the quota is met, the reminder was sent or he was active
\* lately.  The claim (MarkReminderSentIfNotSentTodayTx) finds the progress
\* date just written.
Claim(r) ==
    /\ run[r].pc = "claim"
    /\ \E u \in run[r].todo :
        LET s == Normalized(row[u], run[r].day)
            rest == run[r].todo \ {u}
        IN \/ /\ s.streak > 0 /\ ~s.quota /\ ~s.reminded
              /\ row' = [row EXCEPT ![u] = [s EXCEPT !.reminded = TRUE]]
              /\ run' = [run EXCEPT ![r].pc = "deliver", ![r].todo = rest, ![r].user = {u}]
           \/ /\ row' = [row EXCEPT ![u] = s]
              /\ run' = [run EXCEPT ![r] = IF rest = {} THEN NoRun
                                           ELSE [@ EXCEPT !.todo = rest]]
    /\ UNCHANGED <<day, processed, job, reset, said, paid, told>>

\* An error of the database ends the run for the candidates left.
ClaimFails(r) ==
    /\ run[r].pc = "claim"
    /\ run' = [run EXCEPT ![r] = NoRun]
    /\ UNCHANGED <<day, row, processed, job, reset, said, paid, told>>

Deliver(r) ==
    /\ run[r].pc = "deliver"
    /\ told' = [u \in Users |-> IF u \in run[r].user /\ run[r].day = day
                                THEN told[u] + 1 ELSE told[u]]
    /\ run' = [run EXCEPT ![r] = IF @.todo = {} THEN NoRun
                                 ELSE [@ EXCEPT !.pc = "claim", !.user = {}]]
    /\ UNCHANGED <<day, row, processed, job, reset, said, paid>>

\* Telegram answers with an error, and the user was not told
DeliverFails(r) ==
    /\ run[r].pc = "deliver"
    /\ run' = [run EXCEPT ![r].pc = "release"]
    /\ UNCHANGED <<day, row, processed, job, reset, said, paid, told>>

\* Mutant: a reminder that failed stays claimed.
ReleaseForgotten(r) ==
    /\ run[r].pc = "release"
    /\ run' = [run EXCEPT ![r] = NoRun]
    /\ UNCHANGED <<day, row, processed, job, reset, said, paid, told>>

\* The claim is given back where the row still is of the day of the run
\* (ClearReminderSentTx), and the run ends with an error.
Release(r) ==
    /\ run[r].pc = "release"
    /\ row' = [u \in Users |->
                  IF u \in run[r].user /\ row[u].progress = run[r].day
                  THEN [row[u] EXCEPT !.reminded = FALSE] ELSE row[u]]
    /\ run' = [run EXCEPT ![r] = NoRun]
    /\ UNCHANGED <<day, processed, job, reset, said, paid, told>>

ReleaseFails(r) ==
    /\ Faults
    /\ run[r].pc = "release"
    /\ run' = [run EXCEPT ![r] = NoRun]
    /\ UNCHANGED <<day, row, processed, job, reset, said, paid, told>>

-----------------------------------------------------------------------------
(* The environment.                                                        *)

Quiet ==
    /\ \A u \in Users : job[u] = NoJob
    /\ \A r \in Runs : run[r] = NoRun

\* Midnight: cron starts the reset.  The reset of one day is over before the
\* next; whatever else is in flight may go on only if Straddle.
Midnight ==
    /\ day < MaxDay
    /\ reset.pc = "idle"
    /\ Straddle \/ Quiet
    /\ day' = day + 1
    /\ reset' = [pc |-> "due", day |-> Never]
    /\ told' = [u \in Users |-> 0]
    /\ UNCHANGED <<row, processed, job, run, said, paid>>

\* The process dies and is started again: what was in flight is gone, and
\* a reset that did not start is not caught up.
Crash ==
    /\ Faults
    /\ job' = [u \in Users |-> NoJob]
    /\ run' = [r \in Runs |-> NoRun]
    /\ reset' = Ended
    /\ UNCHANGED <<day, row, processed, said, paid, told>>

Handlers(u) ==
    ReceiveMessage(u) \/ CountMessage(u) \/ CountNothing(u) \/ GetStreak(u)
DailyReset == ResetBegin \/ ResetRows \/ ResetCleanup \/ ResetFails
SendReminders(r) ==
    \/ RemindBegin(r) \/ Claim(r) \/ ClaimFails(r)
    \/ Deliver(r) \/ DeliverFails(r) \/ Release(r) \/ ReleaseFails(r)

Next ==
    \/ \E u \in Users : Handlers(u)
    \/ DailyReset
    \/ \E r \in Runs : SendReminders(r)
    \/ Midnight
    \/ Crash

Spec == Init /\ [][Next]_vars

-----------------------------------------------------------------------------
(* Properties.                                                             *)

Row == [streak : Nat, longest : Nat, messages : 0..Target, quota : BOOLEAN,
        lastQuota : Dates, progress : Dates, rewarded : Dates,
        total : Nat, reminded : BOOLEAN]

\* The domain of every variable of the streak's tables and jobs.
TypeOK ==
    /\ day \in Days
    /\ row \in [Users -> Row]
    /\ processed \in [Users -> SUBSET Messages]
    /\ job \in [Users -> [msg : Messages, day : Days] \cup {NoJob}]
    /\ reset \in [pc : {"idle", "due", "rows", "cleanup"}, day : Dates]
    /\ run \in [Runs -> [pc : {"idle", "claim", "deliver", "release"}, day : Dates,
                         todo : SUBSET Users, user : SUBSET Users]]
    /\ said \in [Users -> Seq(Days)]
    /\ paid \in [Users -> [Days -> Seq(Nat)]]
    /\ told \in [Users -> Nat]

SaidOn(u, d) == {m \in DOMAIN said[u] : said[u][m] = d}
PaidOn(u, d) == paid[u][d] # <<>>

\* A day is rewarded at most once, whatever the reset, the reminders and a
\* handler that is late do to the row in between.
RewardOncePerDay == \A u \in Users, d \in Days : Len(paid[u][d]) <= 1

\* A reward was earned: Target different messages were counted on its day; a
\* message that is delivered again is not counted again, also when the
\* cleanup has forgotten old ids.
RewardIsEarned ==
    \A u \in Users, d \in Days : PaidOn(u, d) => Cardinality(SaidOn(u, d)) >= Target

\* And it is not missed: every day with Target messages is rewarded, though
\* the reset and the reminders rewrite the row during the day.
FourMessagesRewarded ==
    \A u \in Users, d \in Days : Cardinality(SaidOn(u, d)) >= Target => PaidOn(u, d)

\* The reward of a day is that of the number of days completed without a gap:
\* a day is neither added to the streak twice nor lost from it.
Unbroken(u, d, n) == n <= d /\ \A i \in 0..n - 1 : PaidOn(u, d - i)

RewardMatchesRun ==
    \A u \in Users, d \in Days : PaidOn(u, d) =>
        \E n \in 1..d :
            /\ Unbroken(u, d, n)
            /\ ~Unbroken(u, d, n + 1)
            /\ paid[u][d] = <<Reward(n)>>

\* Over midnight, too, no reward is too high: as many days as it counts were
\* rewarded one after the other.  A late handler or run may end a streak early,
\* but none counts a day twice or bridges a gap.
RewardNotTooHigh ==
    \A u \in Users, d \in Days : PaidOn(u, d) =>
        \E n \in 1..d : Unbroken(u, d, n) /\ paid[u][d] = <<Reward(n)>>

\* A streak ends only after a whole day without the quota: who completed
\* yesterday or today keeps it.
NoStreakLost ==
    [][\A u \in Users :
          row[u].streak > 0 /\ row'[u].streak = 0 => row[u].lastQuota + 1 < day]_vars

\* A streak that ends earlier was ended by a reminder run that works on with the
\* day before midnight; neither a late message nor the reset ends one.
StreakLostToLateRun ==
    [][\A u \in Users :
          row[u].streak > 0 /\ row'[u].streak = 0 =>
              \/ row[u].lastQuota + 1 < day
              \/ \E r \in Runs : run[r].pc = "claim" /\ run[r].day < day]_vars

\* Runs that overlap do not remind a user twice: once a day, and once more
\* after the midnight reset has cleared the marks of its own day.
ReminderOncePerReset ==
    \A u \in Users : told[u] <= IF reset.day = day /\ reset.pc # "rows" THEN 2 ELSE 1

\* A reminder that could not be delivered is released and tried again: the
\* mark stays only on a user who was told or is about to be.
ReminderNotLost ==
    \A u \in Users :
        row[u].reminded /\ row[u].progress = day =>
            \/ told[u] > 0
            \/ \E r \in Runs : u \in run[r].user
=============================================================================
