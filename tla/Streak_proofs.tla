---------------------------- MODULE Streak_proofs ----------------------------
(***************************************************************************)
(* What is proved of the streak for any number of users, days, messages    *)
(* and reminder runs.                                                      *)
(*                                                                         *)
(* Whatever straddles midnight, crashes or is delivered again: the domains *)
(* of the tables, that no day is rewarded twice, and that every reward was *)
(* earned by Target different messages.                                    *)
(*                                                                         *)
(* As long as no job and no handler is in flight over midnight: that no    *)
(* streak is lost, that every day with Target messages is rewarded, that   *)
(* the reward is the one of the run of days, and that a user is reminded   *)
(* once for each time the reset clears the marks.  A reminder that failed  *)
(* is tried again unless the process crashes or cannot release it.         *)
(*                                                                         *)
(* Four invariants carry this: PaidInv (what was paid against the row),    *)
(* UsersOK (a row against the messages counted and the days paid, a day at *)
(* a time), RemindInv (reminders told, claimed and still open add up), and *)
(* EarnInv (ids known and forgotten against the handler in flight).        *)
(***************************************************************************)
EXTENDS Streak, FiniteSetTheorems, TLAPS

USE StreakAssumption

JobType == [msg : Messages, day : Days] \cup {NoJob}
RunType == [pc : {"idle", "claim", "deliver", "release"}, day : Dates,
            todo : SUBSET Users, user : SUBSET Users]

-----------------------------------------------------------------------------
(* The operators on a row.                                                 *)

\* Normalising a row of the table gives a row of the table.
LEMMA NormalizedType ==
    ASSUME NEW s \in Row, NEW d \in Dates
    PROVE  /\ Fresh(s, d) \in Row
           /\ Normalized(s, d) \in Row
<1>1. 0 \in 0..Target
  OBVIOUS
<1>2. Fresh(s, d) \in Row
  BY <1>1 DEF Fresh, Row
<1> QED
  BY <1>1, <1>2 DEF Normalized, Row

\* The writes of the reset and of the reminders.
LEMMA MarksType ==
    ASSUME NEW s \in Row, NEW n \in 0..Target, NEW q \in BOOLEAN
    PROVE  /\ [s EXCEPT !.reminded = FALSE] \in Row
           /\ [s EXCEPT !.reminded = TRUE] \in Row
           /\ [s EXCEPT !.messages = n, !.quota = q, !.reminded = FALSE] \in Row
  BY DEF Row

\* Counting a message on a row gives a row, whether the quota is met or not.
LEMMA CountedType ==
    ASSUME NEW s \in Row, NEW d \in Days
    PROVE  /\ Counted(s) \in Row
           /\ Completed(s, d) \in Row
           /\ Reward(s.streak + 1) \in Nat
<1>1. Smaller(s.messages + 1, Target) \in 0..Target
  BY DEF Smaller, Row
<1>2. Counted(s) \in Row
  BY <1>1 DEF Counted, Row
<1>3. Larger(s.longest, s.streak + 1) \in Nat
  BY DEF Larger, Row
<1>4. Larger(Counted(s).longest, s.streak + 1) \in Nat
  BY <1>3, <1>2 DEF Larger, Row
<1>5. Completed(s, d) \in Row
  <2> DEFINE c == Counted(s)
             l == Larger(c.longest, s.streak + 1)
             e == [c EXCEPT !.quota = TRUE, !.lastQuota = d, !.rewarded = d]
  <2>1. e \in Row
    BY <1>2 DEF Row, Dates
  <2>2. e.streak = c.streak /\ e.total = c.total /\ e.longest = c.longest
    BY <1>2 DEF Row
  <2>3. Completed(s, d) = [e EXCEPT !.streak = @ + 1, !.longest = Larger(@, s.streak + 1),
                                    !.total = @ + 1]
    BY DEF Completed
  <2> DEFINE n == e.streak + 1
             k == e.total + 1
  <2>4. n \in Nat /\ k \in Nat /\ l \in Nat
    <3>1. l \in Nat
      BY <1>4
    <3> HIDE DEF e, l
    <3> QED
      BY <2>1, <3>1 DEF Row
  <2>5. Completed(s, d) = [e EXCEPT !.streak = n, !.longest = l, !.total = k]
    <3> HIDE DEF e
    <3> QED
      BY <2>1, <2>2, <2>3 DEF Row
  <2>6. ASSUME NEW f \in Row, NEW x \in Nat, NEW y \in Nat, NEW z \in Nat
        PROVE  [f EXCEPT !.streak = x, !.longest = y, !.total = z] \in Row
    BY DEF Row
  <2> HIDE DEF e, l, n, k
  <2>7. [e EXCEPT !.streak = n, !.longest = l, !.total = k] \in Row
    BY <2>1, <2>4, <2>6
  <2> QED
    BY <2>5, <2>7
<1>6. Reward(s.streak + 1) \in Nat
  BY DEF Reward, Smaller, Row
<1> QED
  BY <1>2, <1>5, <1>6

\* What normalising leaves alone.
LEMMA NormalizedKeeps ==
    ASSUME NEW s \in Row, NEW d \in Dates
    PROVE  /\ Normalized(s, d).rewarded = s.rewarded
           /\ Normalized(s, d).lastQuota = s.lastQuota
           /\ Normalized(s, d).streak = IF ContinuityBroken(s, d) THEN 0 ELSE s.streak
  BY DEF Normalized, Fresh, Row

\* What counting leaves alone, and what completing writes.
LEMMA CountedKeeps ==
    ASSUME NEW s \in Row, NEW d \in Days
    PROVE  /\ Counted(s).rewarded = s.rewarded
           /\ Counted(s).lastQuota = s.lastQuota
           /\ Counted(s).streak = s.streak
           /\ Completed(s, d).rewarded = d
           /\ Completed(s, d).lastQuota = d
           /\ Completed(s, d).streak = s.streak + 1
<1>1. Counted(s) \in Row
  BY CountedType
<1>2. /\ Counted(s).rewarded = s.rewarded
      /\ Counted(s).lastQuota = s.lastQuota
      /\ Counted(s).streak = s.streak
  BY DEF Counted, Row
<1> QED
  BY <1>1, <1>2 DEF Completed, Row

-----------------------------------------------------------------------------
(* Type correctness.                                                       *)

LEMMA RunTypes ==
    ASSUME TypeOK
    PROVE  NoRun \in RunType /\ (\A r \in Runs : run[r] \in RunType)
           /\ run \in [Runs -> RunType]
  BY DEF TypeOK, RunType, NoRun, Dates

\* What one run becomes is all that changes of the runs.
LEMMA OneRunMoves ==
    ASSUME TypeOK, NEW r \in Runs, NEW x \in RunType, run' = [run EXCEPT ![r] = x]
    PROVE  run' \in [Runs -> RunType] /\ run'[r] = x
           /\ \A q \in Runs : q # r => run'[q] = run[q]
<1>1. run \in [Runs -> RunType]
  BY RunTypes
<1> QED
  BY <1>1

\* Claim(r) when the next candidate is u.
ClaimOf(r, u) ==
    LET s == Normalized(row[u], run[r].day)
        rest == run[r].todo \ {u}
    IN \/ /\ s.streak > 0 /\ ~s.quota /\ ~s.reminded
          /\ row' = [row EXCEPT ![u] = [s EXCEPT !.reminded = TRUE]]
          /\ run' = [run EXCEPT ![r].pc = "deliver", ![r].todo = rest, ![r].user = {u}]
       \/ /\ row' = [row EXCEPT ![u] = s]
          /\ run' = [run EXCEPT ![r] = IF rest = {} THEN NoRun
                                       ELSE [@ EXCEPT !.todo = rest]]

LEMMA InitType == Init => TypeOK
  BY DEF Init, TypeOK, Days, Dates, Blank, Row, NoRun

LEMMA NextType == TypeOK /\ [Next]_vars => TypeOK'
<1> SUFFICES ASSUME TypeOK, [Next]_vars PROVE TypeOK'
  OBVIOUS
<1>1. ASSUME NEW u \in Users, ReceiveMessage(u) PROVE TypeOK'
  BY <1>1 DEF ReceiveMessage, TypeOK
<1>2. ASSUME NEW u \in Users, CountMessage(u) PROVE TypeOK'
  <2> DEFINE d == job[u].day
             s == Normalized(row[u], d)
  <2>1. job[u] \in [msg : Messages, day : Days]
    BY <1>2 DEF CountMessage, TypeOK
  <2>2. row[u] \in Row /\ d \in Days /\ job[u].msg \in Messages
    BY <2>1 DEF TypeOK
  <2>3. s \in Row
    BY <2>2, NormalizedType DEF Dates
  <2>4. Counted(s) \in Row /\ Completed(s, d) \in Row /\ Reward(s.streak + 1) \in Nat
    BY <2>2, <2>3, CountedType
  <2>5. row' \in [Users -> Row]
    BY <1>2, <2>4 DEF CountMessage, TypeOK
  <2>6. paid' \in [Users -> [Days -> Seq(Nat)]]
    <3>1. CASE Completes(s, d)
      <4>1. paid' = [paid EXCEPT ![u][d] = Append(@, Reward(s.streak + 1))]
        BY <1>2, <3>1 DEF CountMessage
      <4>2. paid[u] \in [Days -> Seq(Nat)] /\ paid[u][d] \in Seq(Nat)
        BY <2>2 DEF TypeOK
      <4>3. Append(paid[u][d], Reward(s.streak + 1)) \in Seq(Nat)
        BY <2>4, <4>2
      <4> QED
        BY <4>1, <4>2, <4>3 DEF TypeOK
    <3>2. CASE ~Completes(s, d)
      BY <1>2, <3>2 DEF CountMessage, TypeOK
    <3> QED
      BY <3>1, <3>2
  <2>7. said' \in [Users -> Seq(Days)]
    <3>1. said[u] \in Seq(Days) /\ Append(said[u], d) \in Seq(Days)
      BY <2>2 DEF TypeOK
    <3> QED
      BY <1>2, <3>1 DEF CountMessage, TypeOK
  <2>8. processed' \in [Users -> SUBSET Messages] /\ job' \in [Users -> JobType]
    BY <1>2, <2>2 DEF CountMessage, TypeOK, JobType
  <2> QED
    BY <1>2, <2>5, <2>6, <2>7, <2>8 DEF CountMessage, TypeOK, JobType
<1>3. ASSUME NEW u \in Users, CountNothing(u) PROVE TypeOK'
  BY <1>3 DEF CountNothing, TypeOK
<1>4. ASSUME NEW u \in Users, GetStreak(u) PROVE TypeOK'
  <2>1. Normalized(row[u], day) \in Row
    BY NormalizedType DEF TypeOK, Dates
  <2> QED
    BY <1>4, <2>1 DEF GetStreak, TypeOK
<1>5. CASE ResetBegin
  BY <1>5 DEF ResetBegin, TypeOK, Dates
<1>6. CASE ResetRows
  <2>1. ASSUME NEW u \in Users
        PROVE  [row[u] EXCEPT !.messages = IF row[u].progress = reset.day THEN @ ELSE 0,
                              !.quota = row[u].progress = reset.day /\ @,
                              !.reminded = FALSE] \in Row
    <3>1. row[u] \in Row
      BY DEF TypeOK
    <3>2. /\ row[u].messages \in 0..Target
          /\ 0 \in 0..Target
          /\ row[u].quota \in BOOLEAN
      BY <3>1 DEF Row
    <3>3. /\ (IF row[u].progress = reset.day THEN row[u].messages ELSE 0) \in 0..Target
          /\ (row[u].progress = reset.day /\ row[u].quota) \in BOOLEAN
      BY <3>2
    <3> QED
      BY <3>1, <3>3, MarksType
  <2>2. row' \in [Users -> Row]
    BY <1>6, <2>1 DEF ResetRows
  <2> QED
    BY <1>6, <2>2 DEF ResetRows, TypeOK
<1>7. CASE ResetCleanup
  BY <1>7 DEF ResetCleanup, Ended, TypeOK, Dates
<1>8. CASE ResetFails
  BY <1>8 DEF ResetFails, Ended, TypeOK, Dates
<1>9. ASSUME NEW r \in Runs, RemindBegin(r) PROVE TypeOK'
  <2>1. [pc |-> "claim", day |-> day, todo |-> {u \in Users : row[u].streak >= Threshold},
         user |-> {}] \in RunType
    BY DEF TypeOK, RunType, Dates
  <2> QED
    BY <1>9, <2>1 DEF RemindBegin, TypeOK, RunType
<1>10. ASSUME NEW r \in Runs, Claim(r) PROVE TypeOK'
  <2>1. run[r] \in RunType /\ NoRun \in RunType
    BY RunTypes
  <2>2. PICK u \in run[r].todo : ClaimOf(r, u)
    BY <1>10 DEF Claim, ClaimOf
  <2>3. u \in Users /\ row[u] \in Row /\ run[r].day \in Dates
    BY <2>1 DEF TypeOK, RunType
  <2> DEFINE s == Normalized(row[u], run[r].day)
             rest == run[r].todo \ {u}
  <2>4. s \in Row /\ [s EXCEPT !.reminded = TRUE] \in Row
    <3>1. s \in Row
      BY <2>3, NormalizedType
    <3> QED
      BY <3>1 DEF Row
  <2>5. row' \in [Users -> Row]
    BY <2>2, <2>3, <2>4 DEF ClaimOf, TypeOK
  <2>6. /\ [run[r] EXCEPT !.pc = "deliver", !.todo = rest, !.user = {u}] \in RunType
        /\ [run[r] EXCEPT !.todo = rest] \in RunType
    BY <2>1, <2>3 DEF RunType
  <2>7. run' \in [Runs -> RunType]
    <3>1. \/ run' = [run EXCEPT ![r] = [run[r] EXCEPT !.pc = "deliver", !.todo = rest,
                                                     !.user = {u}]]
          \/ run' = [run EXCEPT ![r] = NoRun]
          \/ run' = [run EXCEPT ![r] = [run[r] EXCEPT !.todo = rest]]
      BY <2>2 DEF ClaimOf
    <3> HIDE DEF s, rest
    <3>2. \E x \in RunType : run' = [run EXCEPT ![r] = x]
      BY <2>1, <2>6, <3>1
    <3> QED
      BY <3>2, OneRunMoves
  <2>8. UNCHANGED <<day, processed, job, reset, said, paid, told>>
    BY <1>10 DEF Claim
  <2> HIDE DEF s, rest
  <2> QED
    BY <2>5, <2>7, <2>8 DEF TypeOK, RunType
<1>11. ASSUME NEW r \in Runs, ClaimFails(r) PROVE TypeOK'
  BY <1>11 DEF ClaimFails, TypeOK, NoRun, Dates
<1>12. ASSUME NEW r \in Runs, Deliver(r) PROVE TypeOK'
  <2>1. [run[r] EXCEPT !.pc = "claim", !.user = {}] \in RunType /\ NoRun \in RunType
    BY RunTypes DEF RunType
  <2>2. run' \in [Runs -> RunType]
    <3>1. \E x \in RunType : run' = [run EXCEPT ![r] = x]
      <4>1. run' = [run EXCEPT ![r] = IF run[r].todo = {} THEN NoRun
                                     ELSE [run[r] EXCEPT !.pc = "claim", !.user = {}]]
        BY <1>12 DEF Deliver
      <4>2. CASE run[r].todo = {}
        <5>1. run' = [run EXCEPT ![r] = NoRun]
          BY <4>1, <4>2
        <5> QED
          BY <2>1, <5>1
      <4>3. CASE run[r].todo # {}
        <5>1. run' = [run EXCEPT ![r] = [run[r] EXCEPT !.pc = "claim", !.user = {}]]
          BY <4>1, <4>3
        <5> DEFINE x == [run[r] EXCEPT !.pc = "claim", !.user = {}]
        <5>2. x \in RunType /\ run' = [run EXCEPT ![r] = x]
          BY <2>1, <5>1
        <5> HIDE DEF x
        <5> QED
          BY <5>2
      <4> QED
        BY <4>2, <4>3
    <3> QED
      BY <3>1, OneRunMoves
  <2>3. told' \in [Users -> Nat]
    BY <1>12 DEF Deliver, TypeOK
  <2>4. UNCHANGED <<day, row, processed, job, reset, said, paid>>
    BY <1>12 DEF Deliver
  <2> QED
    BY <2>2, <2>3, <2>4 DEF TypeOK, RunType
<1>13. ASSUME NEW r \in Runs, DeliverFails(r) PROVE TypeOK'
  <2>1. [run[r] EXCEPT !.pc = "release"] \in RunType
    BY RunTypes DEF RunType
  <2>2. run' = [run EXCEPT ![r] = [run[r] EXCEPT !.pc = "release"]]
    BY <1>13 DEF DeliverFails
  <2> QED
    BY <1>13, <2>1, <2>2 DEF DeliverFails, TypeOK, RunType
<1>14. ASSUME NEW r \in Runs, Release(r) PROVE TypeOK'
  <2>1. \A u \in Users : [row[u] EXCEPT !.reminded = FALSE] \in Row
    <3>1. 0 \in 0..Target /\ TRUE \in BOOLEAN
      OBVIOUS
    <3> QED
      BY <3>1, MarksType DEF TypeOK
  <2>2. row' \in [Users -> Row]
    BY <1>14, <2>1 DEF Release, TypeOK
  <2> QED
    BY <1>14, <2>2, RunTypes DEF Release, TypeOK, RunType
<1>15. ASSUME NEW r \in Runs, ReleaseFails(r) PROVE TypeOK'
  BY <1>15 DEF ReleaseFails, TypeOK, NoRun, Dates
<1>16. CASE Midnight
  BY <1>16 DEF Midnight, TypeOK, Days, Dates
<1>17. CASE Crash
  BY <1>17 DEF Crash, Ended, TypeOK, NoRun, Dates
<1>18. CASE UNCHANGED vars
  BY <1>18 DEF vars, TypeOK
<1> QED
  BY <1>1, <1>2, <1>3, <1>4, <1>5, <1>6, <1>7, <1>8, <1>9, <1>10, <1>11, <1>12,
     <1>13, <1>14, <1>15, <1>16, <1>17, <1>18
  DEF Next, Handlers, DailyReset, SendReminders

\* Every variable keeps to its domain (TypeOK).
THEOREM TypeCorrect == Spec => []TypeOK
  BY InitType, NextType, PTL DEF Spec

-----------------------------------------------------------------------------
(* No day is rewarded twice.                                               *)

\* Only CountMessage completes a day.
Kept ==
    /\ paid' = paid
    /\ \A u \in Users : /\ row'[u].rewarded = row[u].rewarded
                        /\ row'[u].lastQuota = row[u].lastQuota

\* A run goes on with its day or ends.
SameRun(q) ==
    \/ run'[q] = NoRun
    \/ run'[q] = run[q]
    \/ run[q] # NoRun /\ run'[q].day = run[q].day

LEMMA ClaimStep ==
    ASSUME TypeOK, NEW r \in Runs, Claim(r)
    PROVE  /\ paid' = paid /\ day' = day /\ job' = job
           /\ \E u \in Users :
                 /\ row[u] \in Row /\ run[r].day \in Dates
                 /\ LET s == Normalized(row[u], run[r].day)
                    IN row' = [row EXCEPT ![u] = s] \/ row' = [row EXCEPT ![u] = [s EXCEPT !.reminded = TRUE]]
           /\ \A q \in Runs : SameRun(q)
<1>1. PICK u \in run[r].todo : ClaimOf(r, u)
  BY DEF Claim, ClaimOf
<1>2. run[r] \in RunType
  BY RunTypes
<1>3. u \in Users /\ row[u] \in Row /\ run[r].day \in Dates
  BY <1>2 DEF TypeOK, RunType
<1>4. \/ row' = [row EXCEPT ![u] = Normalized(row[u], run[r].day)]
      \/ row' = [row EXCEPT ![u] = [Normalized(row[u], run[r].day) EXCEPT !.reminded = TRUE]]
  BY <1>1 DEF ClaimOf
<1>5. \A q \in Runs : SameRun(q)
  <2> DEFINE rest == run[r].todo \ {u}
  <2>1. \/ run' = [run EXCEPT ![r] = [run[r] EXCEPT !.pc = "deliver", !.todo = rest,
                                                   !.user = {u}]]
        \/ run' = [run EXCEPT ![r] = NoRun]
        \/ run' = [run EXCEPT ![r] = [run[r] EXCEPT !.todo = rest]]
    BY <1>1 DEF ClaimOf
  <2>2. run \in [Runs -> RunType]
    BY DEF TypeOK, RunType
  <2>3. /\ [run[r] EXCEPT !.pc = "deliver", !.todo = rest, !.user = {u}].day = run[r].day
        /\ [run[r] EXCEPT !.todo = rest].day = run[r].day
    BY <1>2 DEF RunType
  <2>4. run'[r] = NoRun \/ run'[r].day = run[r].day
    BY <2>1, <2>2, <2>3
  <2>5. \A q \in Runs : q # r => run'[q] = run[q]
    BY <2>1, <2>2
  <2>6. run[r] # NoRun
    BY DEF Claim, NoRun
  <2> QED
    BY <2>4, <2>5, <2>6 DEF SameRun
<1> QED
  BY <1>3, <1>4, <1>5 DEF Claim

LEMMA OthersKeep ==
    ASSUME TypeOK, [Next]_vars, \A u \in Users : ~CountMessage(u)
    PROVE  Kept
<1>1. ASSUME NEW u \in Users, GetStreak(u) PROVE Kept
  <2>1. row[u] \in Row /\ day \in Dates
    BY DEF TypeOK, Dates
  <2>2. \A v \in Users : row'[v] = IF v = u THEN Normalized(row[u], day) ELSE row[v]
    BY <1>1 DEF GetStreak, TypeOK
  <2> QED
    BY <1>1, <2>1, <2>2, NormalizedKeeps DEF GetStreak, Kept
<1>2. CASE ResetRows
  <2> SUFFICES ASSUME NEW u \in Users
               PROVE  /\ row'[u].rewarded = row[u].rewarded
                      /\ row'[u].lastQuota = row[u].lastQuota
    BY <1>2 DEF ResetRows, Kept
  <2>1. row[u] \in Row
    BY DEF TypeOK
  <2>2. PICK n, q : row'[u] = [row[u] EXCEPT !.messages = n, !.quota = q, !.reminded = FALSE]
    BY <1>2 DEF ResetRows
  <2> QED
    BY <2>1, <2>2 DEF Row
<1>3. ASSUME NEW r \in Runs, Claim(r) PROVE Kept
  <2>1. PICK u \in Users :
          /\ row[u] \in Row /\ run[r].day \in Dates
          /\ LET s == Normalized(row[u], run[r].day)
             IN row' = [row EXCEPT ![u] = s] \/ row' = [row EXCEPT ![u] = [s EXCEPT !.reminded = TRUE]]
    BY <1>3, ClaimStep
  <2> DEFINE s == Normalized(row[u], run[r].day)
  <2>2. s \in Row /\ s.rewarded = row[u].rewarded /\ s.lastQuota = row[u].lastQuota
    BY <2>1, NormalizedType, NormalizedKeeps
  <2>3. row'[u] = s \/ row'[u] = [s EXCEPT !.reminded = TRUE]
    BY <2>1 DEF TypeOK
  <2>4. \A v \in Users : v # u => row'[v] = row[v]
    BY <2>1 DEF TypeOK
  <2>5. row'[u].rewarded = row[u].rewarded /\ row'[u].lastQuota = row[u].lastQuota
    <3> HIDE DEF s
    <3> QED
      BY <2>2, <2>3 DEF Row
  <2> QED
    BY <1>3, <2>4, <2>5, ClaimStep DEF Kept
<1>4. ASSUME NEW r \in Runs, Release(r) PROVE Kept
  BY <1>4 DEF Release, Kept, TypeOK, Row
<1> QED
  BY <1>1, <1>2, <1>3, <1>4
  DEF Next, Handlers, DailyReset, SendReminders, ReceiveMessage, CountNothing, ResetBegin,
      ResetCleanup, ResetFails, RemindBegin, ClaimFails, Deliver, DeliverFails, ReleaseFails,
      Midnight, Crash, Kept, vars

\* What the other actions do to the day and to the handlers in flight.
LEMMA JobStep ==
    ASSUME TypeOK, [Next]_vars, \A u \in Users : ~CountMessage(u)
    PROVE  /\ day' \in Nat /\ day' >= day
           /\ \A u \in Users : \/ job'[u] = job[u]
                               \/ job'[u] = NoJob
                               \/ job'[u].day = day /\ day' = day
<1>1. day \in Nat
  BY DEF TypeOK, Days
<1>2. ASSUME NEW u \in Users, ReceiveMessage(u)
      PROVE  \A v \in Users : job'[v] = job[v] \/ (job'[v].day = day /\ day' = day)
  <2>1. PICK m \in Messages : job' = [job EXCEPT ![u] = [msg |-> m, day |-> day]]
    BY <1>2 DEF ReceiveMessage
  <2> QED
    BY <1>2, <2>1 DEF ReceiveMessage, TypeOK
<1>3. ASSUME NEW u \in Users, CountNothing(u)
      PROVE  \A v \in Users : job'[v] = job[v] \/ job'[v] = NoJob
  BY <1>3 DEF CountNothing, TypeOK
<1>4. CASE Midnight
  BY <1>1, <1>4 DEF Midnight
<1>5. CASE Crash
  BY <1>1, <1>5 DEF Crash
<1>6. CASE DailyReset \/ UNCHANGED vars \/ \E u \in Users : GetStreak(u)
  <2>1. day' = day /\ job' = job
    BY <1>6 DEF DailyReset, GetStreak, ResetBegin, ResetRows, ResetCleanup, ResetFails, vars
  <2> QED
    BY <1>1, <2>1
<1>7. ASSUME NEW r \in Runs, SendReminders(r) PROVE day' = day /\ job' = job
  BY <1>7 DEF SendReminders, RemindBegin, Claim, ClaimFails, Deliver, DeliverFails, Release,
              ReleaseFails
<1>8. ASSUME NEW u \in Users, ReceiveMessage(u) \/ CountNothing(u) PROVE day' = day
  BY <1>8 DEF ReceiveMessage, CountNothing
<1>9. \/ \E u \in Users : ReceiveMessage(u) \/ CountNothing(u)
      \/ \E r \in Runs : SendReminders(r)
      \/ Midnight \/ Crash
      \/ DailyReset \/ UNCHANGED vars \/ \E u \in Users : GetStreak(u)
  BY DEF Next, Handlers
<1>10. ASSUME NEW u \in Users, ReceiveMessage(u) \/ CountNothing(u)
       PROVE  \A v \in Users : job'[v] = job[v] \/ job'[v] = NoJob \/ (job'[v].day = day /\ day' = day)
  BY <1>2, <1>3, <1>10
<1> QED
  BY <1>1, <1>4, <1>5, <1>6, <1>7, <1>8, <1>9, <1>10

\* A day that was rewarded is not after the day the row remembers, and that
\* is not after the day of the handler in flight: the test of LastRewardedDay
\* then refuses every reward but that of a later day.
PaidInv ==
    /\ RewardOncePerDay
    /\ \A u \in Users, d \in Days : PaidOn(u, d) => d <= row[u].rewarded
    /\ \A u \in Users : row[u].rewarded <= day
    /\ \A u \in Users : job[u] # NoJob => row[u].rewarded <= job[u].day /\ job[u].day <= day

LEMMA InitPaid == Init => PaidInv
  BY DEF Init, PaidInv, RewardOncePerDay, PaidOn, Blank, Days, Never

LEMMA NextPaid == TypeOK /\ PaidInv /\ [Next]_vars => PaidInv'
<1> SUFFICES ASSUME TypeOK, PaidInv, [Next]_vars PROVE PaidInv'
  OBVIOUS
<1>1. ASSUME NEW u \in Users, CountMessage(u) PROVE PaidInv'
  <2> DEFINE d == job[u].day
             s == Normalized(row[u], d)
  <2>1. /\ job[u] \in [msg : Messages, day : Days]
        /\ d \in Days /\ d \in Dates /\ row[u] \in Row
    BY <1>1 DEF CountMessage, TypeOK, Dates
  <2>2. s \in Row /\ s.rewarded = row[u].rewarded
    BY <2>1, NormalizedType, NormalizedKeeps
  <2>3. \A v \in Users : v # u => row'[v] = row[v] /\ paid'[v] = paid[v] /\ job'[v] = job[v]
    BY <1>1 DEF CountMessage, TypeOK
  <2>4. job'[u] = NoJob /\ day' = day
    BY <1>1 DEF CountMessage, TypeOK
  <2>5. row[u].rewarded <= d /\ d <= day /\ row[u].rewarded \in Nat /\ d \in Nat /\ day \in Nat
    <3>1. job[u] # NoJob
      BY <1>1 DEF CountMessage
    <3>2. row[u].rewarded <= d /\ d <= day
      BY <1>1, <3>1 DEF PaidInv
    <3>3. row[u].rewarded \in Nat
      BY <2>1 DEF Row, Dates, Days, Never
    <3>4. d \in Nat /\ day \in Nat
      BY <2>1 DEF TypeOK, Days
    <3> QED
      BY <3>2, <3>3, <3>4
  <2>6. CASE Completes(s, d)
    <3>1. row'[u] = Completed(s, d) /\ paid' = [paid EXCEPT ![u][d] = Append(@, Reward(s.streak + 1))]
      BY <1>1, <2>6 DEF CountMessage, TypeOK
    <3>2. row'[u].rewarded = d
      BY <3>1, <2>1, <2>2, CountedKeeps
    <3>3. row[u].rewarded # d
      BY <2>2, <2>6 DEF Completes
    <3>4. paid[u][d] = <<>>
      BY <2>1, <2>5, <3>3 DEF PaidInv, PaidOn
    <3>5. paid \in [Users -> [Days -> Seq(Nat)]] /\ Reward(s.streak + 1) \in Nat
      BY <2>2, <2>1, CountedType DEF TypeOK
    <3>6. \A e \in Days : paid'[u][e] = IF e = d THEN Append(<<>>, Reward(s.streak + 1)) ELSE paid[u][e]
      BY <3>1, <3>4, <3>5, <2>1
    <3>7. Len(Append(<<>>, Reward(s.streak + 1))) = 1
      BY <3>5
    <3>8. RewardOncePerDay'
      <4>1. ASSUME NEW e \in Days PROVE Len(paid'[u][e]) <= 1
        <5>1. CASE e = d
          <6>1. paid'[u][e] = Append(<<>>, Reward(s.streak + 1))
            BY <3>6, <5>1
          <6>2. Len(paid'[u][e]) = 1
            BY <3>7, <6>1
          <6> QED
            BY <6>2
        <5>2. CASE e # d
          BY <3>6, <5>2 DEF PaidInv, RewardOncePerDay
        <5> QED
          BY <5>1, <5>2
      <4>2. \A v \in Users, e \in Days : v # u => Len(paid'[v][e]) <= 1
        BY <2>3 DEF PaidInv, RewardOncePerDay
      <4> QED
        BY <4>1, <4>2 DEF RewardOncePerDay
    <3>9. \A v \in Users, e \in Days : PaidOn(v, e)' => e <= row'[v].rewarded
      <4>1. ASSUME NEW e \in Days, PaidOn(u, e)' PROVE e <= d
        <5>1. CASE e = d
          BY <5>1, <2>5
        <5>2. CASE e # d
          <6>1. e <= row[u].rewarded
            BY <4>1, <5>2, <3>6 DEF PaidOn, PaidInv
          <6> QED
            BY <6>1, <2>5 DEF Days
        <5> QED
          BY <5>1, <5>2
      <4> QED
        BY <4>1, <2>3, <3>2 DEF PaidOn, PaidInv
    <3> QED
      BY <2>3, <2>4, <2>5, <3>2, <3>8, <3>9 DEF PaidInv
  <2>7. CASE ~Completes(s, d)
    <3>1. row'[u] = Counted(s) /\ paid' = paid
      BY <1>1, <2>7 DEF CountMessage, TypeOK
    <3>2. row'[u].rewarded = row[u].rewarded
      BY <3>1, <2>1, <2>2, CountedKeeps
    <3> QED
      BY <2>3, <2>4, <3>1, <3>2 DEF PaidInv, RewardOncePerDay, PaidOn
  <2> QED
    BY <2>6, <2>7
<1>2. ASSUME \A u \in Users : ~CountMessage(u) PROVE PaidInv'
  <2>1. Kept
    BY <1>2, OthersKeep
  <2>2. /\ day' \in Nat /\ day' >= day
        /\ \A u \in Users : \/ job'[u] = job[u]
                            \/ job'[u] = NoJob
                            \/ job'[u].day = day /\ day' = day
    BY <1>2, JobStep
  <2>3. \A u \in Users : row[u].rewarded \in Nat
    BY DEF TypeOK, Row, Dates, Days, Never
  <2>4. \A u \in Users : job[u] # NoJob => job[u].day \in Nat
    BY DEF TypeOK, Days
  <2>5. day \in Nat
    BY DEF TypeOK, Days
  <2>6. \A u \in Users : row'[u].rewarded <= day'
    BY <2>1, <2>2, <2>3, <2>5 DEF Kept, PaidInv
  <2>7. \A u \in Users : job'[u] # NoJob => row'[u].rewarded <= job'[u].day /\ job'[u].day <= day'
    BY <2>1, <2>2, <2>3, <2>4, <2>5 DEF Kept, PaidInv
  <2> QED
    BY <2>1, <2>6, <2>7 DEF Kept, PaidInv, RewardOncePerDay, PaidOn
<1> QED
  BY <1>1, <1>2

\* No day is rewarded twice, also when handlers, resets and reminders straddle
\* midnight and the process crashes (RewardOncePerDay).
THEOREM RewardOnceCorrect == Spec => []RewardOncePerDay
<1>1. PaidInv => RewardOncePerDay
  BY DEF PaidInv
<1> QED
  BY <1>1, InitPaid, NextPaid, TypeCorrect, PTL DEF Spec

-----------------------------------------------------------------------------
(* No streak is lost while every job works on the current day.             *)

\* Whatever is in flight took the day it is; and a streak has a last day.
TodayInv ==
    /\ \A u \in Users : job[u] # NoJob => job[u].day = day
    /\ \A r \in Runs : run[r] # NoRun => run[r].day = day
    /\ \A u \in Users : /\ row[u].lastQuota <= day
                        /\ row[u].streak > 0 => row[u].lastQuota # Never

\* A normalisation for today ends a streak only after a gap.
LEMMA GapOnly ==
    ASSUME NEW s \in Row, NEW d \in Days, s.lastQuota <= d,
           s.streak > 0 => s.lastQuota # Never
    PROVE  /\ Normalized(s, d).streak > 0 => s.streak > 0
           /\ s.streak > 0 /\ Normalized(s, d).streak = 0 => s.lastQuota + 1 < d
<1>1. d \in Nat /\ s.lastQuota \in Nat /\ s.streak \in Nat /\ d \in Dates
  BY DEF Row, Dates, Days, Never
<1>2. Normalized(s, d).streak = IF ContinuityBroken(s, d) THEN 0 ELSE s.streak
  BY <1>1, NormalizedKeeps
<1> QED
  BY <1>1, <1>2 DEF ContinuityBroken

LEMMA InitToday == Init => TodayInv
  BY DEF Init, TodayInv, Blank, Never

\* CountMessage and GetStreak normalise for today.
LEMMA CountToday ==
    ASSUME TypeOK, TodayInv, NEW u \in Users, CountMessage(u)
    PROVE  /\ row'[u].lastQuota <= day
           /\ row'[u].streak > 0 => row'[u].lastQuota # Never
           /\ row[u].streak > 0 /\ row'[u].streak = 0 => row[u].lastQuota + 1 < day
<1> DEFINE s == Normalized(row[u], day)
<1>1. job[u].day = day /\ day \in Days /\ day \in Dates /\ row[u] \in Row
  BY DEF CountMessage, TodayInv, TypeOK, Dates
<1>2. s \in Row /\ s.lastQuota = row[u].lastQuota
  BY <1>1, NormalizedType, NormalizedKeeps
<1>3. /\ s.streak > 0 => row[u].streak > 0
      /\ row[u].streak > 0 /\ s.streak = 0 => row[u].lastQuota + 1 < day
  BY <1>1, GapOnly DEF TodayInv
<1>4. row'[u] = Completed(s, day) \/ row'[u] = Counted(s)
  BY <1>1 DEF CountMessage, TypeOK
<1>5. \/ row'[u].lastQuota = day /\ row'[u].streak = s.streak + 1
      \/ row'[u].lastQuota = row[u].lastQuota /\ row'[u].streak = s.streak
  BY <1>1, <1>2, <1>4, CountedKeeps
<1>6. s.streak \in Nat /\ day \in Nat /\ day # Never
  BY <1>1, <1>2 DEF Row, Days, Never
<1> HIDE DEF s
<1> QED
  BY <1>3, <1>5, <1>6 DEF TodayInv

LEMMA NormalizeToday ==
    ASSUME TypeOK, TodayInv, NEW u \in Users,
           row'[u].streak = Normalized(row[u], day).streak,
           row'[u].lastQuota = row[u].lastQuota
    PROVE  /\ row'[u].lastQuota <= day
           /\ row'[u].streak > 0 => row'[u].lastQuota # Never
           /\ row[u].streak > 0 /\ row'[u].streak = 0 => row[u].lastQuota + 1 < day
<1>1. day \in Days /\ row[u] \in Row
  BY DEF TypeOK
<1> QED
  BY <1>1, GapOnly DEF TodayInv

\* The row of a user is left alone, or written for today.
StreakKept(u) ==
    row'[u].streak = row[u].streak /\ row'[u].lastQuota = row[u].lastQuota

StreakNormalized(u) ==
    /\ row'[u].streak = Normalized(row[u], day).streak
    /\ row'[u].lastQuota = row[u].lastQuota

LEMMA RowStep ==
    ASSUME TypeOK, TodayInv, [Next]_vars, NEW u \in Users
    PROVE  CountMessage(u) \/ StreakKept(u) \/ StreakNormalized(u)
<1>1. ASSUME NEW v \in Users, GetStreak(v) PROVE StreakKept(u) \/ StreakNormalized(u)
  <2>1. row[v] \in Row /\ day \in Dates
    BY DEF TypeOK, Dates
  <2>2. row'[u] = IF u = v THEN Normalized(row[v], day) ELSE row[u]
    BY <1>1 DEF GetStreak, TypeOK
  <2> QED
    BY <2>1, <2>2, NormalizedKeeps DEF StreakKept, StreakNormalized
<1>2. CASE ResetRows
  <2>1. row[u] \in Row
    BY DEF TypeOK
  <2>2. PICK n, q : row'[u] = [row[u] EXCEPT !.messages = n, !.quota = q, !.reminded = FALSE]
    BY <1>2 DEF ResetRows
  <2> QED
    BY <2>1, <2>2 DEF Row, StreakKept
<1>3. ASSUME NEW r \in Runs, Claim(r) PROVE StreakKept(u) \/ StreakNormalized(u)
  <2>1. PICK v \in Users :
          /\ row[v] \in Row /\ run[r].day \in Dates
          /\ LET s == Normalized(row[v], run[r].day)
             IN row' = [row EXCEPT ![v] = s] \/ row' = [row EXCEPT ![v] = [s EXCEPT !.reminded = TRUE]]
    BY <1>3, ClaimStep
  <2>2. run[r].day = day
    BY <1>3 DEF Claim, TodayInv, NoRun
  <2> DEFINE s == Normalized(row[v], day)
  <2>3. s \in Row /\ s.lastQuota = row[v].lastQuota
    BY <2>1, <2>2, NormalizedType, NormalizedKeeps
  <2>4. row'[v] = s \/ row'[v] = [s EXCEPT !.reminded = TRUE]
    BY <2>1, <2>2 DEF TypeOK
  <2>5. u # v => row'[u] = row[u]
    BY <2>1 DEF TypeOK
  <2>6. row'[v].streak = s.streak /\ row'[v].lastQuota = row[v].lastQuota
    <3> HIDE DEF s
    <3> QED
      BY <2>3, <2>4 DEF Row
  <2> QED
    BY <2>5, <2>6 DEF StreakKept, StreakNormalized
<1>4. ASSUME NEW r \in Runs, Release(r) PROVE StreakKept(u)
  BY <1>4 DEF Release, StreakKept, TypeOK, Row
<1>5. ASSUME NEW v \in Users, CountMessage(v), v # u PROVE StreakKept(u)
  BY <1>5 DEF CountMessage, StreakKept, TypeOK
<1> QED
  BY <1>1, <1>2, <1>3, <1>4, <1>5
  DEF Next, Handlers, DailyReset, SendReminders, ReceiveMessage, CountNothing, ResetBegin,
      ResetCleanup, ResetFails, RemindBegin, ClaimFails, Deliver, DeliverFails, ReleaseFails,
      Midnight, Crash, StreakKept, vars

LEMMA NoLossStep ==
    ASSUME TypeOK, TodayInv, [Next]_vars, NEW u \in Users
    PROVE  /\ row'[u].lastQuota <= day
           /\ row'[u].streak > 0 => row'[u].lastQuota # Never
           /\ row[u].streak > 0 /\ row'[u].streak = 0 => row[u].lastQuota + 1 < day
<1>1. CASE CountMessage(u)
  BY <1>1, CountToday
<1>2. CASE StreakNormalized(u)
  BY <1>2, NormalizeToday DEF StreakNormalized
<1>3. CASE StreakKept(u)
  BY <1>3 DEF StreakKept, TodayInv
<1> QED
  BY <1>1, <1>2, <1>3, RowStep

\* At midnight nothing is in flight; on any other step the day stays.
LEMMA DayStep ==
    ASSUME TypeOK, [Next]_vars, ~Straddle
    PROVE  \/ day' = day
           \/ day' = day + 1 /\ Quiet /\ job' = job /\ run' = run
  BY DEF Next, Handlers, DailyReset, SendReminders, ReceiveMessage, CountMessage, CountNothing,
      GetStreak, ResetBegin, ResetRows, ResetCleanup, ResetFails, RemindBegin, Claim, ClaimFails,
      Deliver, DeliverFails, Release, ReleaseFails, Midnight, Crash, vars

\* A job or a run that starts takes the day it is.
LEMMA FlightStep ==
    ASSUME TypeOK, [Next]_vars, day' = day
    PROVE  /\ \A u \in Users : job'[u] = job[u] \/ job'[u] = NoJob \/ job'[u].day = day
           /\ \A r \in Runs : SameRun(r) \/ run'[r].day = day
<1>1. ASSUME NEW u \in Users, CountMessage(u)
      PROVE  run' = run /\ \A v \in Users : job'[v] = job[v] \/ job'[v] = NoJob
  BY <1>1 DEF CountMessage, TypeOK
<1>2. ASSUME \A u \in Users : ~CountMessage(u)
      PROVE  \A u \in Users : job'[u] = job[u] \/ job'[u] = NoJob \/ job'[u].day = day
  BY <1>2, JobStep
<1>3. ASSUME NEW r \in Runs, RemindBegin(r)
      PROVE  \A q \in Runs : run'[q] = run[q] \/ run'[q].day = day
  BY <1>3 DEF RemindBegin, TypeOK
<1>4. ASSUME NEW r \in Runs, Deliver(r) \/ DeliverFails(r)
      PROVE  \A q \in Runs : SameRun(q)
  <2>1. run[r] \in RunType /\ run \in [Runs -> RunType]
    BY DEF TypeOK, RunType
  <2>2. \/ run' = [run EXCEPT ![r] = NoRun]
        \/ run' = [run EXCEPT ![r] = [run[r] EXCEPT !.pc = "claim", !.user = {}]]
        \/ run' = [run EXCEPT ![r] = [run[r] EXCEPT !.pc = "release"]]
    BY <1>4 DEF Deliver, DeliverFails
  <2>3. /\ [run[r] EXCEPT !.pc = "claim", !.user = {}].day = run[r].day
        /\ [run[r] EXCEPT !.pc = "release"].day = run[r].day
    BY <2>1 DEF RunType
  <2>4. run'[r] = NoRun \/ run'[r].day = run[r].day
    BY <2>1, <2>2, <2>3
  <2>5. \A q \in Runs : q # r => run'[q] = run[q]
    BY <2>1, <2>2
  <2>6. run[r] # NoRun
    BY <1>4 DEF Deliver, DeliverFails, NoRun
  <2> QED
    BY <2>4, <2>5, <2>6 DEF SameRun
<1>5. ASSUME NEW r \in Runs, ClaimFails(r) \/ Release(r) \/ ReleaseFails(r)
      PROVE  \A q \in Runs : run'[q] = NoRun \/ run'[q] = run[q]
  BY <1>5 DEF ClaimFails, Release, ReleaseFails, TypeOK
<1>8. \A u \in Users : job'[u] = job[u] \/ job'[u] = NoJob \/ job'[u].day = day
  BY <1>1, <1>2
<1>9. \A r \in Runs : SameRun(r) \/ run'[r].day = day
  <2>1. CASE run' = run
    BY <2>1 DEF SameRun
  <2>2. ASSUME NEW r \in Runs, SendReminders(r)
        PROVE  \A q \in Runs : SameRun(q) \/ run'[q].day = day
    BY <2>2, <1>3, <1>4, <1>5, ClaimStep DEF SendReminders, SameRun
  <2>3. CASE \E u \in Users : Handlers(u)
    BY <2>1, <2>3, <1>1 DEF Handlers, ReceiveMessage, CountNothing, GetStreak
  <2>4. CASE DailyReset \/ Midnight \/ UNCHANGED vars
    BY <2>1, <2>4 DEF DailyReset, ResetBegin, ResetRows, ResetCleanup, ResetFails, Midnight, vars
  <2>5. CASE Crash
    BY <2>5 DEF Crash, SameRun
  <2> QED
    BY <2>2, <2>3, <2>4, <2>5 DEF Next
<1> QED
  BY <1>8, <1>9

LEMMA NextToday == ~Straddle /\ TypeOK /\ TodayInv /\ [Next]_vars => TodayInv'
<1> SUFFICES ASSUME ~Straddle, TypeOK, TodayInv, [Next]_vars PROVE TodayInv'
  OBVIOUS
<1>1. TypeOK' /\ day \in Nat
  BY NextType DEF TypeOK, Days
<1>2. ASSUME NEW u \in Users PROVE row'[u].lastQuota \in Nat
  <2>1. row' \in [Users -> Row]
    BY <1>1 DEF TypeOK
  <2>2. row'[u] \in Row
    BY <2>1
  <2> QED
    BY <2>2 DEF Row, Dates, Days, Never
<1>3. \A u \in Users : /\ row'[u].lastQuota <= day
                       /\ row'[u].streak > 0 => row'[u].lastQuota # Never
  BY NoLossStep
<1>4. CASE day' = day
  <2>1. \A u \in Users : job'[u] # NoJob => job'[u].day = day
    BY <1>4, FlightStep DEF TodayInv
  <2>2. \A r \in Runs : run'[r] # NoRun => run'[r].day = day
    BY <1>4, FlightStep DEF TodayInv, SameRun
  <2> QED
    BY <1>3, <1>4, <2>1, <2>2 DEF TodayInv
<1>5. CASE day' = day + 1 /\ Quiet /\ job' = job /\ run' = run
  <2>1. \A u \in Users : row'[u].lastQuota <= day'
    <3>1. ASSUME NEW u \in Users PROVE row'[u].lastQuota <= day + 1
      BY <1>1, <1>2, <1>3
    <3> QED
      BY <1>5, <3>1
  <2>2. /\ \A u \in Users : job'[u] = NoJob
        /\ \A r \in Runs : run'[r] = NoRun
    BY <1>5 DEF Quiet
  <2> QED
    BY <1>3, <2>1, <2>2 DEF TodayInv
<1> QED
  BY <1>4, <1>5, DayStep

\* As long as handlers and reminder runs end before midnight, a user who
\* completed today or yesterday keeps his streak (NoStreakLost).
THEOREM NoStreakLostCorrect == ASSUME ~Straddle PROVE Spec => NoStreakLost
<1>1. TypeOK /\ TodayInv /\ [Next]_vars
      => [\A u \in Users : row[u].streak > 0 /\ row'[u].streak = 0
                            => row[u].lastQuota + 1 < day]_vars
  BY NoLossStep
<1>2. TypeOK /\ TodayInv /\ [Next]_vars => TodayInv'
  BY NextToday
<1> QED
  BY <1>1, <1>2, InitToday, TypeCorrect, PTL DEF Spec, NoStreakLost

-----------------------------------------------------------------------------
(* Every day with Target messages is rewarded, once and by the length of    *)
(* the streak.  What one user's row, rewards and messages have to do with   *)
(* each other on a day is stated without the variables, so that each kind   *)
(* of step is a lemma about values.                                         *)

Paid == [Days -> Seq(Nat)]

\* How many messages of q were counted on day d.
CountOn(q, d) == Cardinality({m \in DOMAIN q : q[m] = d})

\* The n days up to d were all rewarded.
Chain(p, d, n) == n <= d /\ \A i \in 0..n - 1 : p[d - i] # <<>>

\* A row of today has at least the messages of today until these are rewarded.
TodayCounted(s, q, d) ==
    /\ s.progress # d => CountOn(q, d) = 0
    /\ s.progress = d =>
          /\ ~ContinuityBroken(s, d)
          /\ s.lastQuota # d => CountOn(q, d) <= s.messages /\ s.messages < Target

\* The row remembers the last rewarded day and how long its streak is.
StreakRemembered(s, p, d) ==
    /\ s.rewarded = s.lastQuota /\ s.lastQuota <= d
    /\ s.lastQuota # Never => p[s.lastQuota] # <<>>
    /\ \A e \in Days : p[e] # <<>> => e <= s.lastQuota
    /\ s.streak = 0 => s.lastQuota = Never \/ s.lastQuota + 1 < d
    /\ s.streak > 0 => /\ s.lastQuota # Never
                       /\ Chain(p, s.lastQuota, s.streak)
                       /\ ~Chain(p, s.lastQuota, s.streak + 1)

\* Every rewarded day got the reward of its streak.
RewardsFit(p) ==
    \A e \in Days : p[e] # <<>> =>
        \E n \in 1..e : Chain(p, e, n) /\ ~Chain(p, e, n + 1) /\ p[e] = <<Reward(n)>>

\* No earlier day with enough messages went without a reward.
PastRewarded(p, q, d) ==
    \A e \in Days : e < d /\ CountOn(q, e) >= Target => p[e] # <<>>

UserOK(s, p, q, d) ==
    /\ s.progress <= d
    /\ s.quota => s.lastQuota = s.progress
    /\ \A m \in DOMAIN q : q[m] <= d
    /\ TodayCounted(s, q, d) /\ StreakRemembered(s, p, d)
    /\ RewardsFit(p) /\ PastRewarded(p, q, d)

\* What a step other than CountMessage may do to a row on day d: the row of
\* today keeps what it has counted, an older one at most becomes a fresh one.
Tidied(s, t, d) ==
    /\ t.lastQuota = s.lastQuota /\ t.rewarded = s.rewarded
    /\ s.progress = d /\ ~ContinuityBroken(s, d) =>
          /\ t.progress = d /\ t.messages = s.messages
          /\ t.quota = s.quota /\ t.streak = s.streak
    /\ s.progress # d =>
          \/ t.progress = s.progress /\ t.streak = s.streak /\ (t.quota => s.quota)
          \/ /\ t.progress = d /\ t.messages = 0 /\ ~t.quota
             /\ t.streak = IF ContinuityBroken(s, d) THEN 0 ELSE s.streak

LEMMA RowFields ==
    ASSUME NEW s \in Row
    PROVE  /\ s.streak \in Nat /\ s.messages \in 0..Target /\ s.quota \in BOOLEAN
           /\ s.reminded \in BOOLEAN
           /\ s.lastQuota \in Dates /\ s.progress \in Dates /\ s.rewarded \in Dates
           /\ s.lastQuota \in Nat /\ s.progress \in Nat /\ s.rewarded \in Nat
           /\ \A d \in Dates : d # Never => d \in Days
  BY DEF Row, Dates, Days, Never

LEMMA NormalizedTidies ==
    ASSUME NEW s \in Row, NEW d \in Days
    PROVE  /\ Normalized(s, d).progress = d
           /\ Tidied(s, Normalized(s, d), d)
           /\ Tidied(s, [Normalized(s, d) EXCEPT !.reminded = TRUE], d)
<1> DEFINE t == Normalized(s, d)
<1>1. d \in Dates /\ t \in Row
  BY NormalizedType DEF Dates
<1>2. t.lastQuota = s.lastQuota /\ t.rewarded = s.rewarded
  BY <1>1, NormalizedKeeps
<1>3. t.streak = IF ContinuityBroken(s, d) THEN 0 ELSE s.streak
  BY <1>1, NormalizedKeeps
<1>4. t.progress = d
  BY DEF Normalized, Fresh, Row
<1>5. s.progress = d /\ ~ContinuityBroken(s, d) => t = s
  BY DEF Normalized, Fresh
<1>6. s.progress # d => t.messages = 0 /\ ~t.quota
  BY DEF Normalized, Fresh, Row
<1> HIDE DEF t
<1>7. Tidied(s, t, d)
  BY <1>2, <1>3, <1>4, <1>5, <1>6 DEF Tidied
<1>8. Tidied(s, [t EXCEPT !.reminded = TRUE], d)
  <2> DEFINE r == [t EXCEPT !.reminded = TRUE]
  <2>1. /\ r.lastQuota = t.lastQuota /\ r.rewarded = t.rewarded /\ r.progress = t.progress
        /\ r.messages = t.messages /\ r.quota = t.quota /\ r.streak = t.streak
    BY <1>1 DEF Row
  <2> HIDE DEF r
  <2> QED
    BY <1>7, <2>1 DEF Tidied
<1> QED
  BY <1>4, <1>7, <1>8 DEF t

LEMMA TidiedKeepsUser ==
    ASSUME NEW s \in Row, NEW t \in Row, NEW p \in Paid, NEW q \in Seq(Days), NEW d \in Days,
           UserOK(s, p, q, d), Tidied(s, t, d)
    PROVE  UserOK(t, p, q, d)
<1>1. /\ s.streak \in Nat /\ t.streak \in Nat /\ s.lastQuota \in Nat /\ d \in Nat /\ d # Never
      /\ s.messages \in Nat /\ Target \in Nat /\ Target > 0
  BY RowFields DEF Days, Never
<1>2. t.lastQuota = s.lastQuota /\ t.rewarded = s.rewarded
  BY DEF Tidied
<1>3. CASE s.progress = d
  <2>1. ~ContinuityBroken(s, d)
    BY <1>3 DEF UserOK, TodayCounted
  <2>2. /\ t.progress = d /\ t.messages = s.messages
        /\ t.quota = s.quota /\ t.streak = s.streak
    BY <1>3, <2>1 DEF Tidied
  <2>3. TodayCounted(t, q, d)
    BY <1>2, <1>3, <2>1, <2>2 DEF UserOK, TodayCounted, ContinuityBroken
  <2>4. StreakRemembered(t, p, d)
    BY <1>2, <2>2 DEF UserOK, StreakRemembered
  <2> QED
    BY <1>2, <1>3, <2>2, <2>3, <2>4 DEF UserOK
<1>4. CASE s.progress # d /\ t.progress = s.progress /\ t.streak = s.streak /\ (t.quota => s.quota)
  <2>1. TodayCounted(t, q, d)
    BY <1>4 DEF UserOK, TodayCounted
  <2>2. StreakRemembered(t, p, d)
    BY <1>2, <1>4 DEF UserOK, StreakRemembered
  <2> QED
    BY <1>2, <1>4, <2>1, <2>2 DEF UserOK
<1>5. CASE /\ s.progress # d /\ t.progress = d /\ t.messages = 0 /\ ~t.quota
           /\ t.streak = IF ContinuityBroken(s, d) THEN 0 ELSE s.streak
  <2>1. TodayCounted(t, q, d)
    <3>1. CountOn(q, d) = 0
      BY <1>5 DEF UserOK, TodayCounted
    <3>2. ~ContinuityBroken(t, d)
      BY <1>1, <1>2, <1>5 DEF ContinuityBroken
    <3> QED
      BY <1>1, <1>5, <3>1, <3>2 DEF TodayCounted
  <2>2. StreakRemembered(t, p, d)
    <3>1. t.streak = 0 => t.lastQuota = Never \/ t.lastQuota + 1 < d
      <4>1. s.lastQuota <= d /\ (s.streak = 0 => s.lastQuota = Never \/ s.lastQuota + 1 < d)
        BY DEF UserOK, StreakRemembered
      <4>2. CASE ContinuityBroken(s, d)
        <5>1. s.lastQuota # d /\ (s.lastQuota = Never \/ s.lastQuota + 1 # d)
          BY <4>2 DEF ContinuityBroken
        <5> QED
          BY <1>1, <1>2, <4>1, <5>1
      <4>3. CASE ~ContinuityBroken(s, d)
        BY <1>2, <1>5, <4>1, <4>3
      <4> QED
        BY <4>2, <4>3
    <3>2. t.streak > 0 => t.streak = s.streak
      BY <1>1, <1>5
    <3> QED
      BY <1>1, <1>2, <3>1, <3>2 DEF UserOK, StreakRemembered
  <2> QED
    BY <1>1, <1>5, <2>1, <2>2 DEF UserOK
<1> QED
  BY <1>3, <1>4, <1>5 DEF Tidied
\* The messages counted on a day when one more is counted on day d.
LEMMA CountAppend ==
    ASSUME NEW q \in Seq(Days), NEW d \in Days, NEW e \in Days
    PROVE  /\ CountOn(q, e) \in Nat
           /\ e # d => CountOn(Append(q, d), e) = CountOn(q, e)
           /\ e = d => CountOn(Append(q, d), e) = CountOn(q, e) + 1
<1> DEFINE A == {m \in DOMAIN q : q[m] = e}
           B == {m \in DOMAIN Append(q, d) : Append(q, d)[m] = e}
<1>1. IsFiniteSet(A) /\ Cardinality(A) \in Nat
  <2>1. DOMAIN q = 1..Len(q) /\ Len(q) \in Nat
    OBVIOUS
  <2>2. IsFiniteSet(1..Len(q))
    BY <2>1, FS_Interval
  <2> QED
    BY <2>1, <2>2, FS_Subset, FS_CardinalityType
<1>2. /\ DOMAIN Append(q, d) = 1..(Len(q) + 1)
      /\ \A m \in 1..Len(q) : Append(q, d)[m] = q[m]
      /\ Append(q, d)[Len(q) + 1] = d
      /\ DOMAIN q = 1..Len(q) /\ Len(q) \in Nat
  OBVIOUS
<1>3. e # d => B = A
  BY <1>2
<1>4. e = d => B = A \cup {Len(q) + 1} /\ Len(q) + 1 \notin A
  BY <1>2
<1>5. e = d => Cardinality(B) = Cardinality(A) + 1
  BY <1>1, <1>4, FS_AddElement
<1> QED
  BY <1>1, <1>3, <1>5 DEF CountOn

LEMMA OneMore ==
    ASSUME NEW q \in Seq(Days), NEW d \in Days, NEW r \in {q, Append(q, d)}
    PROVE  /\ CountOn(q, d) \in Nat /\ CountOn(r, d) \in Nat
           /\ CountOn(r, d) <= CountOn(q, d) + 1
           /\ \A e \in Days : e # d => CountOn(r, e) = CountOn(q, e)
<1>1. \A e \in Days : CountOn(q, e) \in Nat
  BY CountAppend
<1>2. CASE r = q
  BY <1>1, <1>2
<1>3. CASE r = Append(q, d)
  <2>1. CountOn(r, d) = CountOn(q, d) + 1
    BY <1>3, CountAppend
  <2>2. \A e \in Days : e # d => CountOn(r, e) = CountOn(q, e)
    BY <1>3, CountAppend
  <2> QED
    BY <1>1, <2>1, <2>2
<1> QED
  BY <1>2, <1>3

LEMMA CountNone ==
    ASSUME NEW q \in Seq(Days), NEW e \in Days, \A m \in DOMAIN q : q[m] # e
    PROVE  CountOn(q, e) = 0
<1>1. {m \in DOMAIN q : q[m] = e} = {}
  OBVIOUS
<1> QED
  BY <1>1, FS_EmptySet DEF CountOn

\* Midnight: what was of today is of a past day.
LEMMA MidnightKeepsUser ==
    ASSUME NEW s \in Row, NEW p \in Paid, NEW q \in Seq(Days), NEW d \in Days, d + 1 \in Days,
           UserOK(s, p, q, d)
    PROVE  UserOK(s, p, q, d + 1)
<1>1. /\ s.lastQuota \in Nat /\ s.progress \in Nat /\ d \in Nat /\ Target \in Nat /\ Target > 0
      /\ s.messages \in Nat
  BY RowFields DEF Days
<1>2. s.progress <= d /\ s.lastQuota <= d /\ \A m \in DOMAIN q : q[m] <= d
  BY DEF UserOK, StreakRemembered
<1>3. \A m \in DOMAIN q : q[m] \in Nat
  BY DEF Days
<1>4. CountOn(q, d + 1) = 0
  BY <1>1, <1>2, <1>3, CountNone
<1>5. TodayCounted(s, q, d + 1)
  BY <1>1, <1>2, <1>4 DEF TodayCounted
<1>6. StreakRemembered(s, p, d + 1)
  BY <1>1, <1>2 DEF UserOK, StreakRemembered
<1>7. CountOn(q, d) >= Target => p[d] # <<>>
  <2>1. CountOn(q, d) \in Nat
    BY CountAppend
  <2>2. CASE s.lastQuota = d
    BY <1>1, <2>2 DEF UserOK, StreakRemembered, Days, Never
  <2>3. CASE s.progress = d /\ s.lastQuota # d
    BY <1>1, <2>1, <2>3 DEF UserOK, TodayCounted
  <2>4. CASE s.progress # d
    BY <1>1, <2>4 DEF UserOK, TodayCounted
  <2> QED
    BY <2>2, <2>3, <2>4
<1>8. PastRewarded(p, q, d + 1)
  <2>1. \A e \in Days : e < d + 1 => e < d \/ e = d
    BY <1>1 DEF Days
  <2> QED
    BY <1>7, <2>1 DEF UserOK, PastRewarded
<1>9. \A m \in DOMAIN q : q[m] <= d + 1
  BY <1>1, <1>2, <1>3
<1> QED
  BY <1>1, <1>2, <1>5, <1>6, <1>8, <1>9 DEF UserOK

\* A further message of a row of today that does not complete the day.
LEMMA MessageKeepsUser ==
    ASSUME NEW s \in Row, NEW p \in Paid, NEW q \in Seq(Days), NEW d \in Days,
           NEW r \in {q, Append(q, d)},
           UserOK(s, p, q, d), s.progress = d, ~Completes(s, d)
    PROVE  UserOK(Counted(s), p, r, d)
<1> DEFINE t == Counted(s)
<1>1. /\ s.messages \in 0..Target /\ d \in Nat /\ Target \in Nat /\ s.quota \in BOOLEAN
      /\ s.streak \in Nat
  BY RowFields DEF Days
<1>2. /\ t \in Row /\ t.rewarded = s.rewarded /\ t.lastQuota = s.lastQuota
      /\ t.streak = s.streak
  BY CountedType, CountedKeeps
<1>3. /\ t.progress = d /\ t.quota = s.quota
      /\ t.messages = IF s.quota THEN s.messages ELSE Smaller(s.messages + 1, Target)
  BY DEF Counted, Row
<1>4. CountOn(q, d) \in Nat /\ CountOn(r, d) \in Nat /\ CountOn(r, d) <= CountOn(q, d) + 1
      /\ \A e \in Days : e # d => CountOn(r, e) = CountOn(q, e)
  BY OneMore
<1>6. \A m \in DOMAIN r : r[m] <= d
  BY <1>1 DEF UserOK
<1> HIDE DEF t
<1>7. TodayCounted(t, r, d)
  <2>1. ~ContinuityBroken(t, d)
    BY <1>2 DEF UserOK, TodayCounted, ContinuityBroken
  <2>2. ASSUME s.lastQuota # d PROVE CountOn(r, d) <= t.messages /\ t.messages < Target
    <3>1. ~s.quota /\ s.rewarded # d
      BY <2>2 DEF UserOK, StreakRemembered
    <3>2. s.messages + 1 < Target /\ CountOn(q, d) <= s.messages
      BY <1>1, <2>2, <3>1 DEF Completes, UserOK, TodayCounted
    <3>3. t.messages = s.messages + 1
      BY <1>1, <1>3, <3>1, <3>2 DEF Smaller
    <3> QED
      BY <1>1, <1>4, <3>2, <3>3
  <2> QED
    BY <1>2, <1>3, <2>1, <2>2 DEF TodayCounted
<1>8. StreakRemembered(t, p, d)
  BY <1>2 DEF UserOK, StreakRemembered
<1>9. PastRewarded(p, r, d)
  BY <1>1, <1>4 DEF UserOK, PastRewarded
<1> QED
  BY <1>1, <1>2, <1>3, <1>6, <1>7, <1>8, <1>9 DEF UserOK, t
\* Chains that end on another day, or before it, do not see the reward of d.
LEMMA ChainElsewhere ==
    ASSUME NEW p \in Paid, NEW d \in Days, NEW x, NEW e \in Days, e < d, NEW n \in Nat
    PROVE  Chain([p EXCEPT ![d] = x], e, n) <=> Chain(p, e, n)
<1>1. ASSUME NEW i \in 0..n - 1, n <= e PROVE [p EXCEPT ![d] = x][e - i] = p[e - i]
  BY <1>1 DEF Days, Paid
<1> QED
  BY <1>1 DEF Chain

\* A chain up to the day before d goes on with d, and no further.
LEMMA ChainGrows ==
    ASSUME NEW p \in Paid, NEW d \in Days, NEW x, x # <<>>, NEW n \in Nat \ {0},
           d - 1 \in Days, Chain(p, d - 1, n), ~Chain(p, d - 1, n + 1)
    PROVE  LET r == [p EXCEPT ![d] = x]
           IN  Chain(r, d, n + 1) /\ ~Chain(r, d, n + 2)
<1> DEFINE r == [p EXCEPT ![d] = x]
<1>1. d \in Nat /\ n <= d - 1 /\ r[d] = x
  BY DEF Days, Paid, Chain
<1>2. ASSUME NEW j \in 1..d - 1 PROVE r[d - j] = p[(d - 1) - (j - 1)]
  <2>1. d - j \in Days /\ d - j # d /\ (d - 1) - (j - 1) = d - j
    BY <1>1 DEF Days
  <2> QED
    BY <2>1 DEF Paid
<1> HIDE DEF r
<1>3. Chain(r, d, n + 1)
  <2>1. ASSUME NEW i \in 0..n PROVE r[d - i] # <<>>
    <3>1. CASE i = 0
      <4>1. d - i = d
        BY <1>1, <3>1
      <4> QED
        BY <1>1, <4>1
    <3>2. CASE i # 0
      <4>1. i \in 1..d - 1 /\ i - 1 \in 0..n - 1
        BY <1>1, <3>2
      <4> QED
        BY <4>1, <1>2 DEF Chain
    <3> QED
      BY <3>1, <3>2
  <2> QED
    BY <1>1, <2>1 DEF Chain
<1>4. ASSUME Chain(r, d, n + 2) PROVE FALSE
  <2>1. n + 1 <= d - 1 /\ \A i \in 0..n + 1 : r[d - i] # <<>>
    BY <1>1, <1>4 DEF Chain
  <2>2. ASSUME NEW i \in 0..n PROVE p[(d - 1) - i] # <<>>
    <3>1. i + 1 \in 1..d - 1 /\ i + 1 \in 0..n + 1 /\ (i + 1) - 1 = i
      BY <1>1, <2>1
    <3>2. r[d - (i + 1)] = p[(d - 1) - ((i + 1) - 1)]
      BY <1>2, <3>1
    <3> QED
      BY <2>1, <3>1, <3>2
  <2> QED
    BY <2>1, <2>2 DEF Chain
<1> QED
  BY <1>3, <1>4 DEF r

\* A chain of one when the day before d was not rewarded.
LEMMA ChainStarts ==
    ASSUME NEW r \in Paid, NEW d \in Days, r[d] # <<>>,
           d - 1 \in Days => r[d - 1] = <<>>
    PROVE  Chain(r, d, 1) /\ ~Chain(r, d, 2)
<1>1. d \in Nat /\ d >= 1
  BY DEF Days
<1>2. Chain(r, d, 1)
  <2>1. \A i \in 0..0 : d - i = d
    BY <1>1
  <2> QED
    BY <1>1, <2>1 DEF Chain
<1>3. ASSUME Chain(r, d, 2) PROVE FALSE
  <2>1. d - 1 \in Days
    BY <1>1, <1>3 DEF Chain, Days
  <2>2. r[d - 1] # <<>>
    BY <1>3 DEF Chain
  <2> QED
    BY <2>1, <2>2
<1> QED
  BY <1>2, <1>3

\* The message that completes today's quota.
LEMMA RewardKeepsUser ==
    ASSUME NEW s \in Row, NEW p \in Paid, NEW q \in Seq(Days), NEW d \in Days,
           NEW r \in {q, Append(q, d)},
           UserOK(s, p, q, d), s.progress = d, Completes(s, d)
    PROVE  UserOK(Completed(s, d), [p EXCEPT ![d] = Append(@, Reward(s.streak + 1))], r, d)
<1> DEFINE t == Completed(s, d)
           n == s.streak + 1
           x == <<Reward(n)>>
           w == [p EXCEPT ![d] = x]
<1>1. /\ d \in Nat /\ d # Never /\ s.streak \in Nat /\ s.lastQuota \in Nat
      /\ s.lastQuota \in Dates /\ Target \in Nat /\ Target > 0
  <2>1. s.streak \in Nat /\ s.lastQuota \in Nat /\ s.lastQuota \in Dates
    BY ONLY RowFields, s \in Row
  <2>2. d \in Nat /\ d # Never /\ Target \in Nat /\ Target > 0
    BY DEF Days, Never
  <2> QED
    BY <2>1, <2>2
<1>2. /\ t \in Row /\ t.rewarded = d /\ t.lastQuota = d /\ t.streak = n /\ n \in Nat \ {0}
  <2>1. Completed(s, d) \in Row
    BY CountedType
  <2>2. /\ Completed(s, d).rewarded = d
        /\ Completed(s, d).lastQuota = d
        /\ Completed(s, d).streak = s.streak + 1
    BY CountedKeeps
  <2>3. n \in Nat \ {0}
    BY <1>1
  <2> QED
    BY <2>1, <2>2, <2>3
<1>3. t.progress = d
  <2>1. Counted(s).progress = d /\ Counted(s) \in Row
    BY CountedType DEF Counted, Row
  <2> QED
    BY <2>1 DEF Completed, Row
<1>4. s.lastQuota # d /\ s.lastQuota < d /\ ~ContinuityBroken(s, d)
  BY <1>1 DEF Completes, UserOK, StreakRemembered, TodayCounted
<1>5. \A e \in Days : p[e] # <<>> => e < d
  BY <1>1, <1>4 DEF UserOK, StreakRemembered, Days
<1>6. [p EXCEPT ![d] = Append(@, Reward(s.streak + 1))] = w
  <2>1. p[d] = <<>>
    BY <1>1, <1>5
  <2> QED
    BY <2>1
<1>7. w \in Paid /\ w[d] = x /\ x # <<>> /\ \A e \in Days : e # d => w[e] = p[e]
  BY <1>2, CountedType DEF Paid
<1>8. Chain(w, d, n) /\ ~Chain(w, d, n + 1)
  <2>1. CASE s.streak = 0
    <3>1. d - 1 \in Days => p[d - 1] = <<>>
      BY <1>1, <2>1 DEF UserOK, StreakRemembered, Days, Never
    <3>2. n = 1 /\ n + 1 = 2
      BY <2>1
    <3> HIDE DEF n, x, w, t
    <3>3. w[d] # <<>>
      BY <1>7
    <3>4. d - 1 \in Days => w[d - 1] = <<>>
      <4> SUFFICES ASSUME d - 1 \in Days PROVE w[d - 1] = <<>>
        OBVIOUS
      <4>1. d - 1 # d
        BY <1>1
      <4> QED
        BY <1>7, <3>1, <4>1
    <3>5. Chain(w, d, 1) /\ ~Chain(w, d, 2)
      BY <1>7, <3>3, <3>4, ChainStarts
    <3> QED
      BY <3>2, <3>5
  <2>2. CASE s.streak # 0
    <3>1. s.lastQuota # Never /\ s.lastQuota + 1 = d
      BY <1>1, <1>4, <2>2 DEF ContinuityBroken
    <3>2. s.lastQuota = d - 1 /\ d - 1 \in Days
      BY <1>1, <3>1 DEF Days, Never
    <3>3. Chain(p, d - 1, s.streak) /\ ~Chain(p, d - 1, s.streak + 1)
      BY <1>1, <2>2, <3>2 DEF UserOK, StreakRemembered
    <3>4. s.streak \in Nat \ {0} /\ n = s.streak + 1 /\ n + 1 = s.streak + 2
      BY <1>1, <2>2
    <3>5. Chain(w, d, s.streak + 1) /\ ~Chain(w, d, s.streak + 2)
      <4> HIDE DEF x
      <4> QED
        BY <1>7, <3>2, <3>3, <3>4, ChainGrows
    <3> HIDE DEF n, x, w
    <3> QED
      BY <3>4, <3>5
  <2> QED
    BY <2>1, <2>2
<1>9. /\ CountOn(r, d) \in Nat
      /\ \A e \in Days : e # d => CountOn(r, e) = CountOn(q, e)
  BY OneMore
<1> HIDE DEF t, n, x, w
<1>10. TodayCounted(t, r, d)
  BY <1>1, <1>2, <1>3 DEF TodayCounted, ContinuityBroken
<1>11. StreakRemembered(t, w, d)
  <2>1. \A e \in Days : w[e] # <<>> => e <= d
    BY <1>1, <1>5, <1>7 DEF Days
  <2> QED
    BY <1>1, <1>2, <1>7, <1>8, <2>1 DEF StreakRemembered
<1>12. RewardsFit(w)
  <2> SUFFICES ASSUME NEW e \in Days, w[e] # <<>>
               PROVE  \E k \in 1..e : Chain(w, e, k) /\ ~Chain(w, e, k + 1) /\ w[e] = <<Reward(k)>>
    BY DEF RewardsFit
  <2>1. CASE e = d
    <3>1. n <= d
      BY <1>8 DEF Chain
    <3>2. n \in 1..d
      BY <1>1, <1>2, <3>1
    <3> QED
      BY <1>7, <1>8, <2>1, <3>2 DEF x
  <2>2. CASE e # d
    <3>1. p[e] # <<>> /\ e < d /\ e \in Nat
      BY <1>5, <1>7, <2>2 DEF Days
    <3>2. PICK k \in 1..e : Chain(p, e, k) /\ ~Chain(p, e, k + 1) /\ p[e] = <<Reward(k)>>
      BY <3>1 DEF UserOK, RewardsFit
    <3>3. k \in Nat /\ k + 1 \in Nat
      BY <3>1
    <3>4. Chain(w, e, k) /\ ~Chain(w, e, k + 1)
      BY <3>1, <3>2, <3>3, ChainElsewhere DEF w
    <3> QED
      BY <1>7, <2>2, <3>2, <3>4
  <2> QED
    BY <2>1, <2>2
<1>13. PastRewarded(w, r, d)
  BY <1>1, <1>7, <1>9 DEF UserOK, PastRewarded
<1>14. \A m \in DOMAIN r : r[m] <= d
  BY <1>1 DEF UserOK
<1> QED
  BY <1>1, <1>2, <1>3, <1>6, <1>10, <1>11, <1>12, <1>13, <1>14 DEF UserOK, t
-----------------------------------------------------------------------------
(* The steps of the system on a day on which nothing of another day is in   *)
(* flight (TodayInv).                                                        *)

\* A reset at work resets for today.
CalendarOK ==
    /\ reset.pc \in {"rows", "cleanup"} => reset.day = day
    /\ reset.pc = "due" => reset.day = Never
    /\ reset.day <= day

LEMMA InitCalendar == Init => CalendarOK
  BY DEF Init, CalendarOK, Never

LEMMA NextCalendar == TypeOK /\ CalendarOK /\ [Next]_vars => CalendarOK'
<1> SUFFICES ASSUME TypeOK, CalendarOK, [Next]_vars PROVE CalendarOK'
  OBVIOUS
<1>1. day \in Nat /\ reset.day \in Nat
      /\ reset \in [pc : {"idle", "due", "rows", "cleanup"}, day : Dates]
  BY DEF TypeOK, Days, Dates, Never
<1>2. CASE ResetBegin \/ ResetRows
  <2>1. CASE ResetBegin
    BY <1>1, <2>1 DEF ResetBegin, CalendarOK
  <2>2. CASE ResetRows
    <3>1. reset' = [reset EXCEPT !.pc = "cleanup"] /\ reset.pc = "rows" /\ day' = day
      BY <2>2 DEF ResetRows
    <3>2. reset'.pc = "cleanup" /\ reset'.day = reset.day
      BY <1>1, <3>1
    <3> QED
      BY <1>1, <3>1, <3>2 DEF CalendarOK
  <2> QED
    BY <1>2, <2>1, <2>2
<1>3. CASE ResetCleanup \/ ResetFails \/ Crash
  <2>1. day' = day /\ reset' = Ended
    BY <1>3 DEF ResetCleanup, ResetFails, Crash
  <2>2. Ended.pc = "idle" /\ Ended.day \in {Never, reset.day}
    BY DEF Ended
  <2> HIDE DEF Ended
  <2> QED
    BY <1>1, <2>1, <2>2 DEF CalendarOK, Never
<1>4. CASE Midnight
  BY <1>1, <1>4 DEF Midnight, CalendarOK, Never
<1>5. CASE UNCHANGED <<day, reset>>
  BY <1>5 DEF CalendarOK
<1> QED
  BY <1>2, <1>3, <1>4, <1>5
  DEF Next, Handlers, DailyReset, SendReminders, ReceiveMessage, CountMessage, CountNothing, GetStreak,
      RemindBegin, Claim, ClaimFails, Deliver, DeliverFails, Release, ReleaseFails, vars

\* Changing the mark of a reminder tidies nothing.
LEMMA MarkTidies ==
    ASSUME NEW s \in Row, NEW d, NEW b \in BOOLEAN
    PROVE  Tidied(s, s, d) /\ Tidied(s, [s EXCEPT !.reminded = b], d)
<1> DEFINE t == [s EXCEPT !.reminded = b]
<1>1. /\ t.lastQuota = s.lastQuota /\ t.rewarded = s.rewarded /\ t.progress = s.progress
      /\ t.messages = s.messages /\ t.quota = s.quota /\ t.streak = s.streak
  BY DEF Row
<1> HIDE DEF t
<1> QED
  BY <1>1 DEF Tidied, t

LEMMA ResetTidies ==
    ASSUME TypeOK, CalendarOK, ResetRows, NEW u \in Users
    PROVE  Tidied(row[u], row'[u], day)
<1> DEFINE s == row[u]
           n == IF s.progress = day THEN s.messages ELSE 0
           q == s.progress = day /\ s.quota
<1>1. s \in Row /\ s.quota \in BOOLEAN /\ reset.day = day
  BY RowFields DEF TypeOK, ResetRows, CalendarOK
<1>2. row'[u] = [s EXCEPT !.messages = n, !.quota = q, !.reminded = FALSE]
  BY <1>1 DEF ResetRows
<1>3. /\ row'[u].lastQuota = s.lastQuota /\ row'[u].rewarded = s.rewarded
      /\ row'[u].progress = s.progress /\ row'[u].streak = s.streak
      /\ row'[u].messages = n /\ row'[u].quota = q
  <2> HIDE DEF s, n, q
  <2> QED
    BY <1>1, <1>2 DEF Row
<1>4. s.progress = day => n = s.messages /\ q = s.quota
  BY <1>1
<1>5. q => s.quota
  OBVIOUS
<1> HIDE DEF n, q
<1> QED
  BY <1>3, <1>4, <1>5 DEF Tidied

\* Only CountMessage counts and pays.
LEMMA OnlyCounting ==
    ASSUME TypeOK, [Next]_vars, NEW u \in Users, ~CountMessage(u)
    PROVE  said'[u] = said[u] /\ paid'[u] = paid[u]
<1>1. ASSUME NEW v \in Users, CountMessage(v)
      PROVE  said'[u] = said[u] /\ paid'[u] = paid[u]
  BY <1>1 DEF CountMessage, TypeOK
<1> QED
  BY <1>1
  DEF Next, Handlers, DailyReset, SendReminders, ReceiveMessage, CountNothing, GetStreak,
      ResetBegin, ResetRows, ResetCleanup, ResetFails, RemindBegin, Claim, ClaimFails, Deliver,
      DeliverFails, Release, ReleaseFails, Midnight, Crash, vars

LEMMA OthersTidy ==
    ASSUME TypeOK, TodayInv, CalendarOK, [Next]_vars, NEW u \in Users, ~CountMessage(u)
    PROVE  Tidied(row[u], row'[u], day)
<1>1. row[u] \in Row /\ day \in Days
  BY DEF TypeOK
<1>2. CASE row'[u] = row[u]
  BY <1>1, <1>2, MarkTidies
<1>3. ASSUME NEW v \in Users, GetStreak(v) PROVE Tidied(row[u], row'[u], day)
  <2>1. row'[u] = IF u = v THEN Normalized(row[u], day) ELSE row[u]
    BY <1>3 DEF GetStreak, TypeOK
  <2> QED
    BY <1>1, <1>2, <2>1, NormalizedTidies
<1>4. ASSUME NEW r \in Runs, Claim(r) PROVE Tidied(row[u], row'[u], day)
  <2>1. PICK v \in Users :
          LET s == Normalized(row[v], run[r].day)
          IN row' = [row EXCEPT ![v] = s] \/ row' = [row EXCEPT ![v] = [s EXCEPT !.reminded = TRUE]]
    BY <1>4, ClaimStep
  <2>2. run[r].day = day
    BY <1>4 DEF Claim, TodayInv, NoRun
  <2>3. \/ row'[u] = row[u]
        \/ row'[u] = Normalized(row[u], day)
        \/ row'[u] = [Normalized(row[u], day) EXCEPT !.reminded = TRUE]
    BY <2>1, <2>2 DEF TypeOK
  <2> QED
    BY <1>1, <1>2, <2>3, NormalizedTidies
<1>5. ASSUME NEW r \in Runs, Release(r) PROVE Tidied(row[u], row'[u], day)
  <2>1. row'[u] = row[u] \/ row'[u] = [row[u] EXCEPT !.reminded = FALSE]
    BY <1>5 DEF Release
  <2> QED
    BY <1>1, <2>1, MarkTidies
<1>6. CASE ResetRows
  BY <1>6, ResetTidies
<1>7. ASSUME NEW v \in Users, CountMessage(v) PROVE row'[u] = row[u]
  BY <1>7 DEF CountMessage, TypeOK
<1>8. \/ row'[u] = row[u] \/ ResetRows \/ \E v \in Users : GetStreak(v)
      \/ \E r \in Runs : Claim(r) \/ Release(r)
  BY <1>7
  DEF Next, Handlers, DailyReset, SendReminders, ReceiveMessage, CountNothing, ResetBegin,
      ResetCleanup, ResetFails, RemindBegin, ClaimFails, Deliver, DeliverFails, ReleaseFails,
      Midnight, Crash, vars
<1> QED
  BY <1>2, <1>3, <1>4, <1>5, <1>6, <1>8

UsersOK == \A u \in Users : UserOK(row[u], paid[u], said[u], day)

LEMMA InitUsers == Init => UsersOK
<1> SUFFICES ASSUME Init, NEW u \in Users PROVE UserOK(row[u], paid[u], said[u], day)
  BY DEF UsersOK
<1>0. row[u] = Blank /\ paid[u] = [d \in Days |-> <<>>] /\ said[u] = <<>> /\ day = 1
  BY DEF Init
<1>1. CountOn(<<>>, 1) = 0
  <2>1. 1 \in Days /\ <<>> \in Seq(Days) /\ DOMAIN <<>> = {}
    BY DEF Days
  <2> QED
    BY <2>1, CountNone
<1>2. TodayCounted(Blank, <<>>, 1)
  BY <1>1 DEF TodayCounted, Blank, Never
<1>3. StreakRemembered(Blank, [d \in Days |-> <<>>], 1)
  BY DEF StreakRemembered, Blank, Never
<1>4. RewardsFit([d \in Days |-> <<>>]) /\ PastRewarded([d \in Days |-> <<>>], <<>>, 1)
  BY DEF RewardsFit, PastRewarded, Days
<1>5. Blank.progress = Never /\ Blank.quota = FALSE /\ DOMAIN <<>> = {}
  BY DEF Blank
<1> QED
  BY <1>0, <1>2, <1>3, <1>4, <1>5 DEF UserOK, Never

\* CountMessage with the day of the job.
LEMMA CountKeepsUser ==
    ASSUME TypeOK, TodayInv, UsersOK, NEW u \in Users, CountMessage(u)
    PROVE  UserOK(row'[u], paid'[u], said'[u], day) /\ day' = day
<1> DEFINE s == Normalized(row[u], day)
           q == said[u]
<1>1. /\ job[u].day = day /\ day \in Days /\ day \in Dates
      /\ row[u] \in Row /\ paid[u] \in Paid /\ q \in Seq(Days)
      /\ UserOK(row[u], paid[u], q, day) /\ day' = day
  BY DEF CountMessage, TodayInv, TypeOK, Dates, Paid, UsersOK
<1>2. s \in Row /\ s.progress = day /\ UserOK(s, paid[u], q, day)
  <2>1. s \in Row /\ s.progress = day /\ Tidied(row[u], s, day)
    BY <1>1, NormalizedType, NormalizedTidies
  <2> HIDE DEF s, q
  <2> QED
    BY <1>1, <2>1, TidiedKeepsUser
<1>3. said'[u] \in {q, Append(q, day)}
  BY <1>1 DEF CountMessage, TypeOK
<1>4. CASE Completes(s, day)
  <2>1. row'[u] = Completed(s, day)
    BY <1>1, <1>4 DEF CountMessage, TypeOK
  <2>2. paid'[u] = [paid[u] EXCEPT ![day] = Append(@, Reward(s.streak + 1))]
    BY <1>1, <1>4 DEF CountMessage, TypeOK
  <2>3. UserOK(Completed(s, day), [paid[u] EXCEPT ![day] = Append(@, Reward(s.streak + 1))],
               said'[u], day)
    <3> HIDE DEF s, q
    <3> QED
      BY <1>1, <1>2, <1>3, <1>4, RewardKeepsUser
  <2> QED
    BY <1>1, <2>1, <2>2, <2>3
<1>5. CASE ~Completes(s, day)
  <2>1. row'[u] = Counted(s) /\ paid'[u] = paid[u]
    BY <1>1, <1>5 DEF CountMessage, TypeOK
  <2> HIDE DEF s, q
  <2> QED
    BY <1>1, <1>2, <1>3, <1>5, <2>1, MessageKeepsUser
<1> QED
  BY <1>4, <1>5

LEMMA NextUsers ==
    ~Straddle /\ TypeOK /\ TodayInv /\ CalendarOK /\ UsersOK /\ [Next]_vars => UsersOK'
<1> SUFFICES ASSUME ~Straddle, TypeOK, TodayInv, CalendarOK, UsersOK, [Next]_vars,
                    NEW u \in Users
             PROVE  UserOK(row'[u], paid'[u], said'[u], day')
  BY DEF UsersOK
<1>1. TypeOK'
  BY NextType
<1>2. /\ row[u] \in Row /\ row'[u] \in Row /\ day \in Days /\ day' \in Days
      /\ paid[u] \in Paid /\ paid'[u] \in Paid
      /\ said[u] \in Seq(Days) /\ said'[u] \in Seq(Days)
  BY <1>1 DEF TypeOK, Paid
<1>3. CASE CountMessage(u)
  BY <1>3, CountKeepsUser
<1>4. CASE ~CountMessage(u)
  <2>1. UserOK(row'[u], paid[u], said[u], day)
    BY <1>2, <1>4, OthersTidy, TidiedKeepsUser DEF UsersOK
  <2>2. said'[u] = said[u] /\ paid'[u] = paid[u]
    BY <1>4, OnlyCounting
  <2>3. day' = day \/ day' = day + 1
    BY DayStep
  <2> QED
    BY <1>2, <2>1, <2>2, <2>3, MidnightKeepsUser
<1> QED
  BY <1>3, <1>4
\* As long as handlers and reminder runs end before midnight, a day with Target
\* messages is rewarded, whatever the reset, the reminders and a look at the
\* streak do to the row during the day, and though processes crash
\* (FourMessagesRewarded).
THEOREM FourMessagesCorrect == ASSUME ~Straddle PROVE Spec => []FourMessagesRewarded
<1>1. TypeOK /\ UsersOK => FourMessagesRewarded
  <2> SUFFICES ASSUME TypeOK, UsersOK, NEW u \in Users, NEW d \in Days,
                      CountOn(said[u], d) >= Target
               PROVE  paid[u][d] # <<>>
    BY DEF FourMessagesRewarded, SaidOn, PaidOn, CountOn
  <2>1. /\ UserOK(row[u], paid[u], said[u], day) /\ said[u] \in Seq(Days) /\ row[u] \in Row
        /\ d \in Nat /\ day \in Nat /\ day \in Days /\ Target \in Nat /\ Target > 0
    BY DEF UsersOK, TypeOK, Days
  <2>2. CASE d < day
    BY <2>1, <2>2 DEF UserOK, PastRewarded
  <2>3. CASE d = day
    <3>1. row[u].lastQuota = day
      <4>1. row[u].messages \in Nat /\ CountOn(said[u], day) \in Nat
        BY <2>1, RowFields, CountAppend
      <4> QED
        BY <2>1, <2>3, <4>1 DEF UserOK, TodayCounted
    <3> QED
      BY <2>1, <2>3, <3>1 DEF UserOK, StreakRemembered, Days, Never
  <2>4. CASE d > day
    <3>1. \A m \in DOMAIN said[u] : said[u][m] # d
      BY <2>1, <2>4 DEF UserOK
    <3> QED
      BY <2>1, <3>1, CountNone
  <2> QED
    BY <2>1, <2>2, <2>3, <2>4
<1> QED
  BY <1>1, InitToday, NextToday, InitCalendar, NextCalendar, InitUsers, NextUsers, TypeCorrect, PTL
  DEF Spec

\* Under the same condition a day's reward is that of the number of days
\* completed without a gap up to it (RewardMatchesRun).
THEOREM RewardMatchesCorrect == ASSUME ~Straddle PROVE Spec => []RewardMatchesRun
<1>1. TypeOK /\ UsersOK => RewardMatchesRun
  <2> SUFFICES ASSUME TypeOK, UsersOK, NEW u \in Users, NEW d \in Days, paid[u][d] # <<>>
               PROVE  \E n \in 1..d : /\ Chain(paid[u], d, n) /\ ~Chain(paid[u], d, n + 1)
                                      /\ paid[u][d] = <<Reward(n)>>
    BY DEF RewardMatchesRun, Unbroken, PaidOn, Chain
  <2> QED
    BY DEF UsersOK, UserOK, RewardsFit
<1> QED
  BY <1>1, InitToday, NextToday, InitCalendar, NextCalendar, InitUsers, NextUsers, TypeCorrect, PTL
  DEF Spec

-----------------------------------------------------------------------------
(* The reminders of a day.                                                   *)

\* The runs that hold a claim on u.
Claims(u) == {r \in Runs : u \in run[r].user}

\* Whether a run may still claim u today, and whether the reset of today has
\* cleared the marks.
Marked(u) == row[u].reminded /\ row[u].progress = day
MarksCleared == reset.day = day /\ reset.pc # "rows"

\* Reminders told or about to be told are at most one for each time the mark
\* could be set; an unset mark leaves room for one more.
Told(u) == told[u] + Cardinality(Claims(u)) + (IF Marked(u) THEN 0 ELSE 1)

RemindOK(u) == IsFiniteSet(Claims(u)) /\ Told(u) <= IF MarksCleared THEN 2 ELSE 1

RemindInv ==
    /\ \A r \in Runs : run[r].pc \in {"idle", "claim"} => run[r].user = {}
    /\ \A u \in Users : RemindOK(u)

LEMMA InitRemind == Init => RemindInv
<1> SUFFICES ASSUME Init PROVE RemindInv
  OBVIOUS
<1>1. \A r \in Runs : run[r].user = {}
  BY DEF Init, NoRun
<1>2. ~MarksCleared
  BY DEF Init, MarksCleared, Never
<1>3. ASSUME NEW u \in Users PROVE RemindOK(u)
  <2>1. Claims(u) = {}
    BY <1>1 DEF Claims
  <2>2. told[u] = 0
    BY DEF Init
  <2> QED
    BY <1>2, <2>1, <2>2, FS_EmptySet DEF RemindOK, Told
<1> QED
  BY <1>1, <1>3 DEF RemindInv

\* A step that tells nobody, claims nobody and clears no mark.
LEMMA NothingTold ==
    ASSUME TypeOK, NEW u \in Users, RemindOK(u), told'[u] = told[u],
           Claims(u)' \subseteq Claims(u), Marked(u) => Marked(u)',
           MarksCleared => MarksCleared'
    PROVE  RemindOK(u)'
<1>1. /\ IsFiniteSet(Claims(u)) /\ IsFiniteSet(Claims(u)')
      /\ Cardinality(Claims(u)') <= Cardinality(Claims(u))
      /\ Cardinality(Claims(u)') \in Nat /\ Cardinality(Claims(u)) \in Nat
  BY FS_Subset, FS_CardinalityType DEF RemindOK
<1>2. told[u] \in Nat
  BY DEF TypeOK
<1>3. Told(u)' <= Told(u) /\ Told(u)' \in Nat /\ Told(u) \in Nat
  BY <1>1, <1>2 DEF Told
<1> QED
  BY <1>1, <1>3 DEF RemindOK

\* The claim on u that r held is over: it was told, or the mark may be gone.
LEMMA ClaimSpent ==
    ASSUME TypeOK, NEW u \in Users, NEW r \in Runs, RemindOK(u), r \in Claims(u),
           Claims(u)' = Claims(u) \ {r}, MarksCleared => MarksCleared',
           \/ told'[u] = told[u]
           \/ told'[u] = told[u] + 1 /\ (Marked(u) => Marked(u)')
    PROVE  RemindOK(u)'
<1>1. /\ IsFiniteSet(Claims(u)) /\ IsFiniteSet(Claims(u)')
      /\ Cardinality(Claims(u)') = Cardinality(Claims(u)) - 1
      /\ Cardinality(Claims(u)') \in Nat /\ Cardinality(Claims(u)) \in Nat
  BY FS_RemoveElement, FS_CardinalityType DEF RemindOK
<1>2. told[u] \in Nat
  BY DEF TypeOK
<1>3. Told(u)' <= Told(u) /\ Told(u)' \in Nat /\ Told(u) \in Nat
  BY <1>1, <1>2 DEF Told
<1> QED
  BY <1>1, <1>3 DEF RemindOK

\* A claim uses up the room that the missing mark left.
LEMMA ClaimMarks ==
    ASSUME TypeOK, NEW u \in Users, NEW r \in Runs, RemindOK(u), r \notin Claims(u),
           Claims(u)' = Claims(u) \cup {r}, told'[u] = told[u],
           ~Marked(u), Marked(u)', MarksCleared => MarksCleared'
    PROVE  RemindOK(u)'
<1>1. /\ IsFiniteSet(Claims(u)) /\ IsFiniteSet(Claims(u)')
      /\ Cardinality(Claims(u)') = Cardinality(Claims(u)) + 1
      /\ Cardinality(Claims(u)') \in Nat /\ Cardinality(Claims(u)) \in Nat
  BY FS_AddElement, FS_CardinalityType DEF RemindOK
<1>2. told[u] \in Nat
  BY DEF TypeOK
<1>3. Told(u)' <= Told(u) /\ Told(u)' \in Nat /\ Told(u) \in Nat
  BY <1>1, <1>2 DEF Told
<1> QED
  BY <1>1, <1>3 DEF RemindOK

\* A row of today is left alone by normalising, and counting leaves the mark.
LEMMA NormalizedToday ==
    ASSUME NEW s \in Row, NEW d \in Days, s.progress = d, ~ContinuityBroken(s, d)
    PROVE  Normalized(s, d) = s
  BY DEF Normalized, Fresh

LEMMA CountedMark ==
    ASSUME NEW s \in Row, NEW d \in Days
    PROVE  /\ Counted(s).reminded = s.reminded /\ Counted(s).progress = s.progress
           /\ Completed(s, d).reminded = s.reminded /\ Completed(s, d).progress = s.progress
<1>1. Counted(s) \in Row /\ Counted(s).reminded = s.reminded /\ Counted(s).progress = s.progress
  BY CountedType DEF Counted, Row
<1> QED
  BY <1>1 DEF Completed, Row

\* Only the reset of the rows and the release of a claim take a mark away.
LEMMA MarkStays ==
    ASSUME TypeOK, TodayInv, UsersOK, [Next]_vars, NEW u \in Users, Marked(u), day' = day,
           ~ResetRows, \A r \in Runs : Release(r) => u \notin run[r].user
    PROVE  Marked(u)'
<1>1. row[u] \in Row /\ day \in Days /\ row[u].reminded /\ row[u].progress = day
  BY DEF TypeOK, Marked
<1>2. Normalized(row[u], day) = row[u]
  BY <1>1, NormalizedToday DEF UsersOK, UserOK, TodayCounted
<1>3. CASE CountMessage(u)
  <2>1. job[u].day = day
    BY <1>3 DEF CountMessage, TodayInv
  <2>2. row'[u] = Completed(row[u], day) \/ row'[u] = Counted(row[u])
    BY <1>2, <1>3, <2>1 DEF CountMessage, TypeOK
  <2> QED
    BY <1>1, <2>2, CountedMark DEF Marked
<1>4. ASSUME NEW v \in Users, CountMessage(v), v # u PROVE row'[u] = row[u]
  BY <1>4 DEF CountMessage, TypeOK
<1>5. ASSUME NEW v \in Users, GetStreak(v) PROVE row'[u] = row[u]
  BY <1>2, <1>5 DEF GetStreak, TypeOK
<1>6. ASSUME NEW r \in Runs, Claim(r) PROVE row'[u].reminded /\ row'[u].progress = day
  <2>1. PICK v \in Users :
          LET s == Normalized(row[v], run[r].day)
          IN row' = [row EXCEPT ![v] = s] \/ row' = [row EXCEPT ![v] = [s EXCEPT !.reminded = TRUE]]
    BY <1>6, ClaimStep
  <2>2. run[r].day = day
    BY <1>6 DEF Claim, TodayInv, NoRun
  <2>3. \/ row'[u] = row[u]
        \/ row'[u] = Normalized(row[u], day)
        \/ row'[u] = [Normalized(row[u], day) EXCEPT !.reminded = TRUE]
    BY <2>1, <2>2 DEF TypeOK
  <2>4. row'[u] = row[u] \/ row'[u] = [row[u] EXCEPT !.reminded = TRUE]
    BY <1>2, <2>3
  <2> QED
    BY <1>1, <2>4 DEF Row
<1>7. ASSUME NEW r \in Runs, Release(r) PROVE row'[u] = row[u]
  BY <1>7 DEF Release
<1>8. \/ row'[u] = row[u] \/ CountMessage(u) \/ \E r \in Runs : Claim(r)
  BY <1>4, <1>5, <1>7
  DEF Next, Handlers, DailyReset, SendReminders, ReceiveMessage, CountNothing, ResetBegin,
      ResetCleanup, ResetFails, RemindBegin, ClaimFails, Deliver, DeliverFails, ReleaseFails,
      Midnight, Crash, vars
<1> QED
  BY <1>1, <1>3, <1>6, <1>8 DEF Marked
\* The bits of a run that the reminders read.
LEMMA RunFields ==
    ASSUME NEW x \in RunType
    PROVE  /\ [x EXCEPT !.pc = "release"].user = x.user
           /\ [x EXCEPT !.pc = "release"].pc = "release"
           /\ [x EXCEPT !.pc = "claim", !.user = {}].user = {}
           /\ NoRun.user = {}
           /\ \A todo \in SUBSET Users : [x EXCEPT !.todo = todo].user = x.user
           /\ \A todo \in SUBSET Users, u \in Users :
                 /\ [x EXCEPT !.pc = "deliver", !.todo = todo, !.user = {u}].user = {u}
                 /\ [x EXCEPT !.pc = "deliver", !.todo = todo, !.user = {u}].pc = "deliver"
           /\ \A todo \in SUBSET Users : [x EXCEPT !.todo = todo].pc = x.pc
  BY DEF RunType, NoRun

LEMMA ClearedStays ==
    ASSUME TypeOK, CalendarOK, [Next]_vars, day' = day, MarksCleared
    PROVE  MarksCleared'
<1>1. reset.pc \notin {"rows", "due"} /\ reset.day = day /\ day # Never /\ day \in Nat
      /\ reset \in [pc : {"idle", "due", "rows", "cleanup"}, day : Dates]
  BY DEF MarksCleared, CalendarOK, TypeOK, Days, Never
<1>2. reset' = reset \/ reset' = Ended
  <2>1. ~ResetBegin /\ ~ResetRows /\ ~Midnight
    <3>1. ~ResetBegin /\ ~ResetRows
      BY <1>1 DEF ResetBegin, ResetRows
    <3>2. day + 1 # day
      BY <1>1
    <3>3. ~Midnight
      BY <3>2 DEF Midnight
    <3> QED
      BY <3>1, <3>3
  <2>2. CASE ResetCleanup \/ ResetFails \/ Crash
    BY <2>2 DEF ResetCleanup, ResetFails, Crash
  <2>3. CASE \E u \in Users : Handlers(u)
    BY <2>3 DEF Handlers, ReceiveMessage, CountMessage, CountNothing, GetStreak
  <2>4. CASE \E r \in Runs : SendReminders(r)
    BY <2>4 DEF SendReminders, RemindBegin, Claim, ClaimFails, Deliver, DeliverFails, Release,
                ReleaseFails
  <2> QED
    BY <2>1, <2>2, <2>3, <2>4 DEF Next, DailyReset, vars
<1>3. Ended.pc = "idle" /\ Ended.day = day
  BY <1>1 DEF Ended
<1> HIDE DEF Ended
<1> QED
  BY <1>1, <1>2, <1>3 DEF MarksCleared

\* What the candidate of a claim goes through.
LEMMA RemindClaim ==
    ASSUME TypeOK, TodayInv, CalendarOK, UsersOK, RemindInv, [Next]_vars, NEW r \in Runs, Claim(r)
    PROVE  /\ run'[r].pc \in {"idle", "claim"} => run'[r].user = {}
           /\ \A u \in Users : RemindOK(u)'
<1>1. PICK v \in run[r].todo : ClaimOf(r, v)
  BY DEF Claim, ClaimOf
<1>2. /\ run[r].pc = "claim" /\ run[r].user = {} /\ run[r] \in RunType
      /\ run[r].day = day /\ v \in Users /\ row[v] \in Row /\ day \in Days /\ day \in Dates
  BY <1>1, RunTypes DEF Claim, RemindInv, TodayInv, NoRun, TypeOK, RunType, Dates
<1> DEFINE s == Normalized(row[v], day)
           rest == run[r].todo \ {v}
<1>3. s \in Row /\ s.progress = day /\ rest \in SUBSET Users
  BY <1>2, NormalizedType, NormalizedTidies DEF RunType
<1>4. /\ told' = told /\ day' = day /\ \A q \in Runs : q # r => run'[q] = run[q]
      /\ ~ResetRows /\ \A q \in Runs : Release(q) => FALSE
  <2>1. told' = told /\ day' = day /\ reset' = reset
    BY DEF Claim
  <2>2. \A q \in Runs : q # r => run'[q] = run[q]
    BY <1>1 DEF ClaimOf, TypeOK
  <2>3. ~ResetRows
    BY <2>1, <2>2 DEF ResetRows, TypeOK
  <2>4. ASSUME NEW q \in Runs, Release(q) PROVE FALSE
    <3>1. run[q].pc = "release" /\ run'[q] = NoRun
      BY <2>4 DEF Release, TypeOK
    <3>2. q # r
      BY <1>2, <3>1
    <3> QED
      BY <2>2, <3>1, <3>2 DEF NoRun
  <2> QED
    BY <2>1, <2>2, <2>3, <2>4
<1>5. MarksCleared => MarksCleared'
  BY <1>4, ClearedStays
<1>6. \A u \in Users : Marked(u) => Marked(u)'
  BY <1>4, MarkStays
<1>7. CASE /\ ~s.reminded
           /\ row' = [row EXCEPT ![v] = [s EXCEPT !.reminded = TRUE]]
           /\ run' = [run EXCEPT ![r].pc = "deliver", ![r].todo = rest, ![r].user = {v}]
  <2>1. run'[r] = [run[r] EXCEPT !.pc = "deliver", !.todo = rest, !.user = {v}]
    BY <1>7 DEF TypeOK
  <2>2. run'[r].user = {v} /\ run'[r].pc = "deliver"
    <3> HIDE DEF rest
    <3> QED
      BY <1>2, <1>3, <2>1, RunFields
  <2>3. \A u \in Users : Claims(u)' = IF u = v THEN Claims(u) \cup {r} ELSE Claims(u)
    BY <1>2, <1>4, <2>2 DEF Claims
  <2>4. r \notin Claims(v)
    BY <1>2 DEF Claims
  <2>5. ~Marked(v)
    BY <1>2, <1>7, NormalizedToday DEF Marked, UsersOK, UserOK, TodayCounted
  <2>6. Marked(v)'
    <3>1. row'[v] = [s EXCEPT !.reminded = TRUE]
      BY <1>2, <1>7 DEF TypeOK
    <3>2. row'[v].reminded /\ row'[v].progress = day
      <4> HIDE DEF s
      <4> QED
        BY <1>3, <3>1 DEF Row
    <3> QED
      BY <1>4, <3>2 DEF Marked
  <2>7. RemindOK(v)'
    BY <1>2, <1>4, <1>5, <2>3, <2>4, <2>5, <2>6, ClaimMarks DEF RemindInv
  <2>8. ASSUME NEW u \in Users, u # v PROVE RemindOK(u)'
    BY <1>4, <1>5, <1>6, <2>3, <2>8, NothingTold DEF RemindInv
  <2> QED
    BY <2>2, <2>7, <2>8
<1>8. CASE run'[r] = NoRun \/ run'[r] = [run[r] EXCEPT !.todo = rest]
  <2>1. run'[r].user = {}
    <3>1. NoRun.user = {}
      BY DEF NoRun
    <3>2. [run[r] EXCEPT !.todo = rest].user = run[r].user
      BY <1>2 DEF RunType
    <3> HIDE DEF rest
    <3> QED
      BY <1>2, <1>8, <3>1, <3>2
  <2>2. \A u \in Users : Claims(u)' \subseteq Claims(u)
    BY <1>2, <1>4, <2>1 DEF Claims
  <2>3. ASSUME NEW u \in Users PROVE RemindOK(u)'
    BY <1>4, <1>5, <1>6, <2>2, NothingTold DEF RemindInv
  <2> QED
    BY <2>1, <2>3
<1>9. \/ /\ ~s.reminded
         /\ row' = [row EXCEPT ![v] = [s EXCEPT !.reminded = TRUE]]
         /\ run' = [run EXCEPT ![r].pc = "deliver", ![r].todo = rest, ![r].user = {v}]
      \/ run'[r] = NoRun \/ run'[r] = [run[r] EXCEPT !.todo = rest]
  BY <1>1, <1>2 DEF ClaimOf, TypeOK
<1> QED
  BY <1>7, <1>8, <1>9
\* A run that has told its user, or gives up.
LEMMA RemindRelease ==
    ASSUME TypeOK, TodayInv, CalendarOK, UsersOK, RemindInv, [Next]_vars, NEW r \in Runs,
           Deliver(r) \/ DeliverFails(r) \/ Release(r) \/ ReleaseFails(r) \/ ClaimFails(r)
    PROVE  /\ run'[r].pc \in {"idle", "claim"} => run'[r].user = {}
           /\ \A u \in Users : RemindOK(u)'
<1>1. /\ run[r] \in RunType /\ run[r].pc # "idle" /\ day' = day /\ reset' = reset
      /\ \A q \in Runs : q # r => run'[q] = run[q]
  BY RunTypes DEF Deliver, DeliverFails, Release, ReleaseFails, ClaimFails, TypeOK
<1>2. MarksCleared => MarksCleared'
  BY <1>1, ClearedStays
<1>3. ~ResetRows /\ \A q \in Runs : Release(q) => q = r
  <2>1. ~ResetRows
    BY <1>1 DEF ResetRows, TypeOK
  <2>2. ASSUME NEW q \in Runs, Release(q), q # r PROVE FALSE
    <3>1. run[q].pc = "release" /\ run'[q] = NoRun
      BY <2>2 DEF Release, TypeOK
    <3> QED
      BY <1>1, <2>2, <3>1 DEF NoRun
  <2> QED
    BY <2>1, <2>2
<1>4. \A u \in Users : (Release(r) => u \notin run[r].user) => (Marked(u) => Marked(u)')
  BY <1>1, <1>3, MarkStays
<1>5. CASE DeliverFails(r)
  <2>1. run'[r] = [run[r] EXCEPT !.pc = "release"]
    BY <1>5 DEF DeliverFails, TypeOK
  <2>2. run'[r].user = run[r].user /\ run'[r].pc = "release"
    BY <1>1, <2>1, RunFields
  <2>3. \A u \in Users : Claims(u)' \subseteq Claims(u)
    BY <1>1, <2>2 DEF Claims
  <2>4. told' = told /\ ~Release(r)
    BY <1>5 DEF DeliverFails, Release
  <2> QED
    BY <1>2, <1>4, <2>2, <2>3, <2>4, NothingTold DEF RemindInv
<1>6. CASE ~DeliverFails(r)
  <2>1. run'[r].user = {}
    <3>1. run'[r] = NoRun \/ run'[r] = [run[r] EXCEPT !.pc = "claim", !.user = {}]
      BY <1>6 DEF Deliver, Release, ReleaseFails, ClaimFails, TypeOK
    <3>2. NoRun.user = {} /\ [run[r] EXCEPT !.pc = "claim", !.user = {}].user = {}
      BY <1>1 DEF NoRun, RunType
    <3> QED
      BY <3>1, <3>2
  <2>2. \A u \in Users : Claims(u)' = Claims(u) \ {r}
    BY <1>1, <2>1 DEF Claims
  <2>3. ASSUME NEW u \in Users, u \in run[r].user PROVE RemindOK(u)'
    <3>1. r \in Claims(u)
      BY <2>3 DEF Claims
    <3>2. CASE Deliver(r)
      <4>1. run[r].day = day
        BY <1>1, <3>2 DEF TodayInv, Deliver, NoRun
      <4>2. told'[u] = told[u] + 1 /\ ~Release(r)
        BY <2>3, <3>2, <4>1 DEF Deliver, Release
      <4> QED
        BY <1>2, <1>4, <2>2, <3>1, <4>2, ClaimSpent DEF RemindInv
    <3>3. CASE ~Deliver(r)
      <4>1. told' = told
        BY <1>6, <3>3 DEF Release, ReleaseFails, ClaimFails
      <4> QED
        BY <1>2, <2>2, <3>1, <4>1, ClaimSpent DEF RemindInv
    <3> QED
      BY <3>2, <3>3
  <2>4. ASSUME NEW u \in Users, u \notin run[r].user PROVE RemindOK(u)'
    <3>1. told'[u] = told[u]
      BY <1>6, <2>4 DEF Deliver, Release, ReleaseFails, ClaimFails
    <3>2. Claims(u)' \subseteq Claims(u)
      BY <2>2
    <3> QED
      BY <1>2, <1>4, <2>4, <3>1, <3>2, NothingTold DEF RemindInv
  <2> QED
    BY <2>1, <2>3, <2>4
<1> QED
  BY <1>5, <1>6

\* A step that leaves the reset or the runs alone is none of theirs.
LEMMA NoReset == ASSUME TypeOK, reset' \in {reset, Ended} PROVE ~ResetRows
<1>1. reset \in [pc : {"idle", "due", "rows", "cleanup"}, day : Dates]
  BY DEF TypeOK
<1>2. Ended.pc = "idle"
  BY DEF Ended
<1>3. ASSUME ResetRows PROVE reset.pc = "rows" /\ reset'.pc = "cleanup"
  BY <1>1, <1>3 DEF ResetRows
<1> HIDE DEF Ended
<1> QED
  BY <1>2, <1>3

LEMMA NoRelease == ASSUME TypeOK, run' = run PROVE \A r \in Runs : ~Release(r)
<1> SUFFICES ASSUME NEW r \in Runs, Release(r) PROVE FALSE
  OBVIOUS
<1>1. run[r].pc = "release" /\ run'[r] = NoRun
  BY DEF Release, TypeOK
<1> QED
  BY <1>1 DEF NoRun

LEMMA NextRemind ==
    /\ ~Straddle /\ TypeOK /\ TodayInv /\ CalendarOK /\ UsersOK /\ RemindInv /\ [Next]_vars
    => RemindInv'
<1> SUFFICES ASSUME ~Straddle, TypeOK, TodayInv, CalendarOK, UsersOK, RemindInv, [Next]_vars
             PROVE  RemindInv'
  OBVIOUS
<1>1. ASSUME NEW r \in Runs, Claim(r) PROVE RemindInv'
  <2>1. \A q \in Runs : q # r => run'[q] = run[q]
    <3>1. PICK v \in run[r].todo : ClaimOf(r, v)
      BY <1>1 DEF Claim, ClaimOf
    <3> QED
      BY <3>1 DEF ClaimOf, TypeOK
  <2> QED
    BY <1>1, <2>1, RemindClaim DEF RemindInv
<1>2. ASSUME NEW r \in Runs,
             Deliver(r) \/ DeliverFails(r) \/ Release(r) \/ ReleaseFails(r) \/ ClaimFails(r)
      PROVE  RemindInv'
  <2>1. \A q \in Runs : q # r => run'[q] = run[q]
    BY <1>2 DEF Deliver, DeliverFails, Release, ReleaseFails, ClaimFails, TypeOK
  <2> QED
    BY <1>2, <2>1, RemindRelease DEF RemindInv
<1>3. ASSUME day' = day, told' = told, \A r \in Runs : run'[r].user = {} \/ run'[r] = run[r],
             ~ResetRows, \A r \in Runs : ~Release(r)
      PROVE  RemindInv'
  <2>1. \A u \in Users : Claims(u)' \subseteq Claims(u)
    BY <1>3 DEF Claims
  <2>2. MarksCleared => MarksCleared'
    BY <1>3, ClearedStays
  <2>3. \A u \in Users : Marked(u) => Marked(u)'
    BY <1>3, MarkStays
  <2>4. \A u \in Users : RemindOK(u)'
    BY <1>3, <2>1, <2>2, <2>3, NothingTold DEF RemindInv
  <2> QED
    BY <1>3, <2>4 DEF RemindInv
<1>4. CASE ResetRows
  <2>1. /\ ~MarksCleared /\ MarksCleared' /\ run' = run /\ told' = told
    <3>1. reset.pc = "rows" /\ reset.day = day /\ reset' = [reset EXCEPT !.pc = "cleanup"]
          /\ day' = day
      BY <1>4 DEF ResetRows, CalendarOK
    <3> QED
      BY <1>4, <3>1 DEF ResetRows, MarksCleared, TypeOK
  <2>2. ASSUME NEW u \in Users PROVE RemindOK(u)'
    <3>1. Claims(u)' = Claims(u) /\ told'[u] = told[u]
      BY <2>1 DEF Claims
    <3>2. IsFiniteSet(Claims(u)) /\ Cardinality(Claims(u)) \in Nat /\ told[u] \in Nat
      BY FS_CardinalityType DEF RemindInv, RemindOK, TypeOK
    <3>3. Told(u)' <= Told(u) + 1 /\ Told(u) <= 1 /\ Told(u) \in Nat /\ Told(u)' \in Nat
      BY <2>1, <3>1, <3>2 DEF Told, RemindInv, RemindOK
    <3> QED
      BY <2>1, <3>1, <3>2, <3>3 DEF RemindOK
  <2> QED
    BY <2>1, <2>2 DEF RemindInv
<1>5. CASE Midnight
  <2>1. /\ \A r \in Runs : run[r] = NoRun /\ run' = run /\ row' = row
        /\ day' = day + 1 /\ day \in Nat
    BY <1>5 DEF Midnight, Quiet, TypeOK, Days
  <2>2. ~MarksCleared'
    BY <1>5, <2>1 DEF Midnight, MarksCleared, Never
  <2>3. \A r \in Runs : run'[r].user = {}
    BY <1>5, <2>1 DEF Midnight, NoRun
  <2>4. ASSUME NEW u \in Users PROVE RemindOK(u)'
    <3>1. Claims(u)' = {}
      BY <2>3 DEF Claims
    <3>2. told'[u] = 0
      BY <1>5 DEF Midnight
    <3> QED
      BY <2>2, <3>1, <3>2, FS_EmptySet DEF RemindOK, Told
  <2> QED
    BY <2>3, <2>4 DEF RemindInv
<1>6. CASE \E u \in Users : Handlers(u)
  <2>1. day' = day /\ told' = told /\ run' = run /\ reset' = reset
    BY <1>6 DEF Handlers, ReceiveMessage, CountMessage, CountNothing, GetStreak
  <2>2. ~ResetRows /\ \A r \in Runs : ~Release(r)
    BY <2>1, NoReset, NoRelease
  <2> QED
    BY <1>3, <2>1, <2>2
<1>7. CASE ResetBegin \/ ResetCleanup \/ ResetFails \/ UNCHANGED vars
  <2>1. day' = day /\ told' = told /\ run' = run
    BY <1>7 DEF ResetBegin, ResetCleanup, ResetFails, vars
  <2>2. ~ResetRows
    <3>1. CASE ResetBegin \/ ResetCleanup
      BY <3>1 DEF ResetBegin, ResetCleanup, ResetRows
    <3>2. CASE ResetFails \/ UNCHANGED vars
      BY <3>2, NoReset DEF ResetFails, vars
    <3> QED
      BY <1>7, <3>1, <3>2
  <2>3. \A r \in Runs : ~Release(r)
    BY <2>1, NoRelease
  <2> QED
    BY <1>3, <2>1, <2>2, <2>3
<1>8. CASE Crash
  <2>1. day' = day /\ told' = told /\ \A r \in Runs : run'[r].user = {}
    BY <1>8 DEF Crash, NoRun
  <2>2. CASE ResetRows \/ \E r \in Runs : Release(r)
    BY <1>2, <1>4, <2>2
  <2> QED
    BY <1>3, <2>1, <2>2, <1>2, <1>4
<1>9. ASSUME NEW r \in Runs, RemindBegin(r) PROVE RemindInv'
  <2>1. day' = day /\ told' = told /\ reset' = reset
        /\ \A q \in Runs : run'[q].user = {} \/ run'[q] = run[q]
    BY <1>9 DEF RemindBegin, TypeOK
  <2> QED
    BY <1>2, <1>3, <1>4, <2>1
<1> QED
  BY <1>1, <1>2, <1>4, <1>5, <1>6, <1>7, <1>8, <1>9 DEF Next, DailyReset, SendReminders

\* However many reminder runs overlap, retry, give claims back or crash, a
\* user is told at most once between two resets of the marks, so at most twice
\* on a day, as long as no run goes over midnight (ReminderOncePerReset).
THEOREM ReminderOnceCorrect == ASSUME ~Straddle PROVE Spec => []ReminderOncePerReset
<1>1. TypeOK /\ RemindInv => ReminderOncePerReset
  <2> SUFFICES ASSUME TypeOK, RemindInv, NEW u \in Users
               PROVE  told[u] <= IF MarksCleared THEN 2 ELSE 1
    BY DEF ReminderOncePerReset, MarksCleared
  <2>1. Told(u) <= IF MarksCleared THEN 2 ELSE 1
    BY DEF RemindInv, RemindOK
  <2>2. told[u] \in Nat /\ Cardinality(Claims(u)) \in Nat
    BY FS_CardinalityType DEF TypeOK, RemindInv, RemindOK
  <2>3. told[u] <= Told(u)
    BY <2>2 DEF Told
  <2> QED
    BY <2>1, <2>2, <2>3 DEF Told
<1> QED
  BY <1>1, InitToday, NextToday, InitCalendar, NextCalendar, InitUsers, NextUsers, InitRemind,
     NextRemind, TypeCorrect, PTL
  DEF Spec
\* Normalising sets no mark.
LEMMA NormalizedMark ==
    ASSUME NEW s \in Row, NEW d \in Days, Normalized(s, d).reminded
    PROVE  s.reminded /\ s.progress = d
<1>1. Fresh(s, d) \in Row /\ (Fresh(s, d).reminded => s.reminded /\ s.progress = d)
  BY NormalizedType DEF Fresh, Row, Dates
<1>2. Normalized(s, d).reminded = Fresh(s, d).reminded
  BY <1>1 DEF Normalized, Row
<1> QED
  BY <1>1, <1>2

\* A mark appears only with a claim.
LEMMA MarkAppears ==
    ASSUME TypeOK, TodayInv, UsersOK, [Next]_vars, day' = day, NEW u \in Users, Marked(u)'
    PROVE  Marked(u) \/ \E r \in Runs : u \in run'[r].user
<1>1. row[u] \in Row /\ day \in Days /\ day \in Dates /\ row'[u].reminded /\ row'[u].progress = day
  BY DEF TypeOK, Marked, Dates
<1>2. CASE row'[u] = row[u]
  BY <1>1, <1>2 DEF Marked
<1>3. Normalized(row[u], day) \in Row
  BY <1>1, NormalizedType
<1>4. CASE CountMessage(u)
  <2>1. job[u].day = day
    BY <1>4 DEF CountMessage, TodayInv
  <2>2. \/ row'[u] = Completed(Normalized(row[u], day), day)
        \/ row'[u] = Counted(Normalized(row[u], day))
    BY <1>4, <2>1 DEF CountMessage, TypeOK
  <2>3. Normalized(row[u], day).reminded
    BY <1>1, <1>3, <2>2, CountedMark
  <2> QED
    BY <1>1, <2>3, NormalizedMark DEF Marked
<1>5. ASSUME NEW v \in Users, CountMessage(v), v # u PROVE row'[u] = row[u]
  BY <1>5 DEF CountMessage, TypeOK
<1>6. ASSUME NEW v \in Users, GetStreak(v) PROVE Marked(u)
  <2>1. row'[u] = row[u] \/ row'[u] = Normalized(row[u], day)
    BY <1>6 DEF GetStreak, TypeOK
  <2> QED
    BY <1>1, <1>2, <2>1, NormalizedMark DEF Marked
<1>7. ASSUME NEW r \in Runs, Claim(r)
      PROVE  Marked(u) \/ u \in run'[r].user
  <2>1. PICK v \in run[r].todo : ClaimOf(r, v)
    BY <1>7 DEF Claim, ClaimOf
  <2>2. run[r].day = day /\ run[r] \in RunType /\ v \in Users
    BY <1>7, <2>1, RunTypes DEF Claim, TodayInv, NoRun, RunType
  <2>3. CASE row'[u] = Normalized(row[u], day)
    BY <1>1, <2>3, NormalizedMark DEF Marked
  <2>4. CASE run' = [run EXCEPT ![r].pc = "deliver", ![r].todo = run[r].todo \ {v}, ![r].user = {u}]
    <3>1. run'[r] = [run[r] EXCEPT !.pc = "deliver", !.todo = run[r].todo \ {v}, !.user = {u}]
      BY <2>4 DEF TypeOK
    <3>2. run'[r].user = {u}
      BY <2>2, <3>1 DEF RunType
    <3> QED
      BY <3>2
  <2>5. CASE v # u
    <3>1. row'[u] = row[u]
      BY <2>1, <2>5 DEF ClaimOf, TypeOK
    <3>2. Marked(u)
      BY <1>1, <3>1 DEF Marked
    <3> QED
      BY <3>2
  <2>6. v = u => \/ row'[u] = Normalized(row[u], day)
                 \/ run' = [run EXCEPT ![r].pc = "deliver", ![r].todo = run[r].todo \ {v},
                                       ![r].user = {u}]
    <3>1. row' = [row EXCEPT ![v] = Normalized(row[v], run[r].day)]
          \/ run' = [run EXCEPT ![r].pc = "deliver", ![r].todo = run[r].todo \ {v},
                                ![r].user = {v}]
      BY <2>1 DEF ClaimOf
    <3>2. row \in [Users -> Row] /\ run[r].day = day
      BY <2>2 DEF TypeOK
    <3> QED
      BY <3>1, <3>2
  <2> QED
    BY <2>3, <2>4, <2>5, <2>6
<1>8. ASSUME NEW r \in Runs, Release(r) PROVE row'[u] = row[u]
  <2>1. row'[u] = row[u] \/ row'[u] = [row[u] EXCEPT !.reminded = FALSE]
    BY <1>8 DEF Release
  <2> QED
    BY <1>1, <2>1 DEF Row
<1>9. ~ResetRows
  <2>1. ASSUME ResetRows PROVE row'[u].reminded = FALSE
    <3>1. PICK n, q : row'[u] = [row[u] EXCEPT !.messages = n, !.quota = q, !.reminded = FALSE]
      BY <2>1 DEF ResetRows
    <3> QED
      BY <1>1, <3>1 DEF Row
  <2> QED
    BY <1>1, <2>1
<1>10. \/ row'[u] = row[u] \/ CountMessage(u)
       \/ \E v \in Users : GetStreak(v)
       \/ \E r \in Runs : Claim(r)
  BY <1>5, <1>8, <1>9
  DEF Next, Handlers, DailyReset, SendReminders, ReceiveMessage, CountNothing, ResetBegin,
      ResetCleanup, ResetFails, RemindBegin, ClaimFails, Deliver, DeliverFails, ReleaseFails,
      Midnight, Crash, vars
<1> QED
  BY <1>2, <1>4, <1>6, <1>7, <1>10

\* A claim on u ends by telling him or by giving the mark back.
LEMMA ClaimEnds ==
    ASSUME ~Faults, TypeOK, TodayInv, RemindInv, [Next]_vars, day' = day,
           NEW u \in Users, NEW r \in Runs, u \in run[r].user
    PROVE  u \in run'[r].user \/ told'[u] > 0 \/ ~Marked(u)'
<1>1. /\ run[r].pc \in {"deliver", "release"} /\ run[r] \in RunType /\ run[r].day = day
      /\ row[u] \in Row /\ told[u] \in Nat
  <2>1. run[r] \in RunType /\ run[r].pc \notin {"idle", "claim"} /\ row[u] \in Row /\ told[u] \in Nat
    BY RunTypes DEF RemindInv, TypeOK
  <2> QED
    BY <2>1 DEF TodayInv, NoRun, RunType
<1>2. CASE run'[r] = run[r]
  BY <1>2
<1>3. CASE Deliver(r)
  BY <1>1, <1>3 DEF Deliver
<1>4. CASE DeliverFails(r)
  <2>1. run'[r] = [run[r] EXCEPT !.pc = "release"]
    BY <1>4 DEF DeliverFails, TypeOK
  <2> QED
    BY <1>1, <2>1 DEF RunType
<1>5. CASE Release(r)
  <2>1. row'[u] = [row[u] EXCEPT !.reminded = FALSE]
        \/ (row'[u] = row[u] /\ row[u].progress # day)
    BY <1>1, <1>5 DEF Release
  <2> QED
    BY <1>1, <2>1 DEF Marked, Row
<1>6. ~Claim(r) /\ ~ClaimFails(r) /\ ~RemindBegin(r) /\ ~ReleaseFails(r) /\ ~Crash
  <2>1. ~Claim(r) /\ ~ClaimFails(r)
    BY <1>1 DEF Claim, ClaimFails
  <2>2. ~RemindBegin(r)
    <3>1. run[r] # NoRun
      BY <1>1 DEF NoRun
    <3> QED
      BY <3>1 DEF RemindBegin
  <2>3. ~ReleaseFails(r) /\ ~Crash
    BY DEF ReleaseFails, Crash
  <2> QED
    BY <2>1, <2>2, <2>3
<1>7. ASSUME NEW q \in Runs, q # r, SendReminders(q) PROVE run'[r] = run[r]
  <2>1. CASE Claim(q)
    <3>1. PICK v \in run[q].todo : ClaimOf(q, v)
      BY <2>1 DEF Claim, ClaimOf
    <3>2. \E x : run' = [run EXCEPT ![q] = x]
      BY <3>1 DEF ClaimOf
    <3>3. run \in [Runs -> RunType]
      BY RunTypes
    <3> QED
      BY <1>7, <3>2, <3>3
  <2>2. CASE ~Claim(q)
    <3>1. \E x : run' = [run EXCEPT ![q] = x]
      BY <1>7, <2>2 DEF SendReminders, RemindBegin, ClaimFails, Deliver, DeliverFails, Release,
                        ReleaseFails
    <3>2. run \in [Runs -> RunType]
      BY RunTypes
    <3> QED
      BY <1>7, <3>1, <3>2
  <2> QED
    BY <2>1, <2>2
<1>8. run'[r] = run[r] \/ SendReminders(r)
  BY <1>6, <1>7
  DEF Next, Handlers, DailyReset, ReceiveMessage, CountMessage, CountNothing, GetStreak,
      ResetBegin, ResetRows, ResetCleanup, ResetFails, Midnight, vars
<1> QED
  BY <1>2, <1>3, <1>4, <1>5, <1>6, <1>8 DEF SendReminders

LEMMA NextNotLost ==
    /\ ~Straddle /\ ~Faults /\ TypeOK /\ TodayInv /\ UsersOK /\ RemindInv
    /\ ReminderNotLost /\ [Next]_vars
    => ReminderNotLost'
<1> SUFFICES ASSUME ~Straddle, ~Faults, TypeOK, TodayInv, UsersOK, RemindInv,
                    ReminderNotLost, [Next]_vars, NEW u \in Users, Marked(u)'
             PROVE  told'[u] > 0 \/ \E r \in Runs : u \in run'[r].user
  BY DEF ReminderNotLost, Marked
<1>1. row[u] \in Row /\ row[u].progress <= day /\ row[u].progress \in Nat /\ day \in Nat
  BY RowFields DEF TypeOK, UsersOK, UserOK, Days
<1>2. day' = day
  <2>1. ASSUME Midnight PROVE FALSE
    <3>1. row'[u].progress = row[u].progress /\ day' = day + 1
      BY <2>1 DEF Midnight
    <3>2. row'[u].progress = day'
      BY DEF Marked
    <3> QED
      BY <1>1, <3>1, <3>2
  <2> QED
    BY <2>1
    DEF Next, Handlers, DailyReset, SendReminders, ReceiveMessage, CountMessage, CountNothing,
        GetStreak, ResetBegin, ResetRows, ResetCleanup, ResetFails, RemindBegin, Claim, ClaimFails,
        Deliver, DeliverFails, Release, ReleaseFails, Crash, vars
<1>3. CASE \E r \in Runs : u \in run'[r].user
  BY <1>3
<1>4. CASE Marked(u)
  <2>1. told[u] > 0 \/ \E r \in Runs : u \in run[r].user
    BY <1>4 DEF ReminderNotLost, Marked
  <2>2. CASE told[u] > 0
    <3>1. told[u] \in Nat
      BY DEF TypeOK
    <3>2. told'[u] = told[u] \/ told'[u] = told[u] + 1
      <4>1. ASSUME Midnight PROVE FALSE
        BY <1>1, <1>2, <4>1 DEF Midnight
      <4> QED
        BY <4>1
        DEF Next, Handlers, DailyReset, SendReminders, ReceiveMessage, CountMessage, CountNothing,
            GetStreak, ResetBegin, ResetRows, ResetCleanup, ResetFails, RemindBegin, Claim,
            ClaimFails, Deliver, DeliverFails, Release, ReleaseFails, Crash, vars
    <3> QED
      BY <2>2, <3>1, <3>2
  <2>3. CASE \E r \in Runs : u \in run[r].user
    BY <1>2, <2>3, ClaimEnds
  <2> QED
    BY <2>1, <2>2, <2>3
<1> QED
  BY <1>2, <1>3, <1>4, MarkAppears

\* Without crashes and while a failed delivery can be released, whoever is
\* marked as reminded was told or is about to be (ReminderNotLost).
THEOREM ReminderNotLostCorrect ==
    ASSUME ~Straddle, ~Faults PROVE Spec => []ReminderNotLost
<1>1. Init => ReminderNotLost
  BY DEF Init, ReminderNotLost, Blank
<1> QED
  BY <1>1, NextNotLost, InitToday, NextToday, InitCalendar, NextCalendar, InitUsers, NextUsers,
     InitRemind, NextRemind, TypeCorrect, PTL
  DEF Spec
-----------------------------------------------------------------------------
(* A reward is earned, also across midnight.                               *)

\* The ids of the last days are all known, and none is known that was not
\* counted.
IdsKnown(u) ==
    /\ processed[u] \subseteq DOMAIN said[u]
    /\ \A m \in DOMAIN said[u] : said[u][m] + Retention >= day => m \in processed[u]

\* The message in flight is new or was delivered again; if its id was
\* forgotten, then the handler is of a past day.
JobFits(u) ==
    job[u] # NoJob =>
        /\ job[u].msg <= Len(said[u]) + 1
        /\ job[u].day <= day
        /\ job[u].msg \in DOMAIN said[u] =>
              /\ said[u][job[u].msg] + 1 >= job[u].day
              /\ job[u].msg \notin processed[u] => job[u].day < day

\* The handler in flight may count a message a second time: its id is
\* forgotten or about to be.
Late(u) ==
    /\ job[u] # NoJob
    /\ \/ reset.pc = "cleanup" /\ job[u].day < reset.day
       \/ job[u].msg \in DOMAIN said[u] /\ job[u].msg \notin processed[u]

\* The row claims no more messages than were counted, where that matters: on
\* the day that is or of the handler in flight.  For a late handler the reset
\* has taken the messages away, so that it does not reach the quota.
RowCounts(u) ==
    /\ row[u].progress <= day
    /\ Late(u) => (row[u].progress = job[u].day => row[u].messages = 0)
    /\ row[u].progress = day \/ (job[u] # NoJob /\ row[u].progress = job[u].day)
          => row[u].messages <= CountOn(said[u], row[u].progress)

PaidEarned(u) == \A d \in Days : paid[u][d] # <<>> => CountOn(said[u], d) >= Target

EarnOK(u) == IdsKnown(u) /\ JobFits(u) /\ RowCounts(u) /\ PaidEarned(u)

EarnInv ==
    /\ \A r \in Runs : run[r].day <= day
    /\ \A u \in Users : EarnOK(u)

LEMMA InitEarn == Init => EarnInv
<1> SUFFICES ASSUME Init PROVE EarnInv
  OBVIOUS
<1>1. \A r \in Runs : run[r].day <= day
  BY DEF Init, NoRun, Never
<1>2. ASSUME NEW u \in Users PROVE EarnOK(u)
  <2>1. /\ row[u].progress = 0 /\ row[u].messages = 0 /\ day = 1 /\ said[u] = <<>>
        /\ job[u] = NoJob /\ processed[u] = {} /\ \A d \in Days : paid[u][d] = <<>>
    BY DEF Init, Blank, Never
  <2>2. DOMAIN said[u] = {}
    BY <2>1
  <2> QED
    BY <2>1, <2>2 DEF EarnOK, IdsKnown, JobFits, Late, RowCounts, PaidEarned
<1> QED
  BY <1>1, <1>2 DEF EarnInv

\* The types the cases below compare.
LEMMA EarnTypes ==
    ASSUME TypeOK, NEW u \in Users
    PROVE  /\ day \in Nat /\ day \in Days /\ row[u] \in Row
           /\ row[u].progress \in Nat /\ row[u].messages \in Nat /\ row[u].progress \in Dates
           /\ reset.day \in Nat
           /\ reset \in [pc : {"idle", "due", "rows", "cleanup"}, day : Dates]
           /\ said[u] \in Seq(Days) /\ Len(said[u]) \in Nat /\ DOMAIN said[u] = 1..Len(said[u])
           /\ \A m \in DOMAIN said[u] : said[u][m] \in Nat /\ said[u][m] \in Days
           /\ job[u] # NoJob => /\ job[u].msg \in Messages /\ job[u].day \in Days
                                /\ job[u].msg \in Nat /\ job[u].day \in Nat
           /\ \A d \in Days : CountOn(said[u], d) \in Nat
<1>1. day \in Nat /\ day \in Days /\ row[u] \in Row
  BY DEF TypeOK, Days
<1>2. row[u].progress \in Nat /\ row[u].messages \in Nat /\ row[u].progress \in Dates
  BY <1>1 DEF Row, Dates, Days, Never
<1>3. reset \in [pc : {"idle", "due", "rows", "cleanup"}, day : Dates] /\ reset.day \in Nat
  BY DEF TypeOK, Dates, Days, Never
<1>4. said[u] \in Seq(Days)
  BY DEF TypeOK
<1>5. /\ Len(said[u]) \in Nat /\ DOMAIN said[u] = 1..Len(said[u])
      /\ \A m \in DOMAIN said[u] : said[u][m] \in Nat /\ said[u][m] \in Days
  BY <1>4 DEF Days
<1>6. job[u] # NoJob => /\ job[u].msg \in Messages /\ job[u].day \in Days
                        /\ job[u].msg \in Nat /\ job[u].day \in Nat
  BY DEF TypeOK, Messages, Days
<1>7. \A d \in Days : CountOn(said[u], d) \in Nat
  BY <1>4, CountAppend
<1> QED
  BY <1>1, <1>2, <1>3, <1>4, <1>5, <1>6, <1>7

\* A write to the row that counts nothing.
Quieter(u) ==
    \/ row'[u].progress = row[u].progress /\ row'[u].messages = row[u].messages
    \/ row'[u].progress <= day /\ row'[u].progress \in Nat /\ row'[u].messages = 0

\* A step that counts nothing and forgets no id.
LEMMA QuietEarns ==
    ASSUME TypeOK, TypeOK', NEW u \in Users, EarnOK(u), Quieter(u),
           said'[u] = said[u], paid'[u] = paid[u], processed'[u] = processed[u], day' = day,
           job'[u] \in {job[u], NoJob},
           reset' = reset \/ reset'.pc # "cleanup"
    PROVE  EarnOK(u)'
<1>1. IdsKnown(u)' /\ JobFits(u)' /\ PaidEarned(u)'
  BY DEF EarnOK, IdsKnown, JobFits, PaidEarned
<1>2. Late(u)' => Late(u) /\ job'[u] = job[u]
  BY DEF Late
<1>3. /\ row[u].progress \in Nat /\ row[u].messages \in Nat /\ day \in Days
      /\ row'[u].progress \in Dates
      /\ job[u] # NoJob => job[u].day \in Days
      /\ \A d \in Days : CountOn(said[u], d) \in Nat
  BY EarnTypes DEF TypeOK, Row
<1>4. RowCounts(u)
  BY DEF EarnOK
<1>5. row'[u].progress <= day
  BY <1>4 DEF Quieter, RowCounts
<1>6. Late(u)' => (row'[u].progress = job'[u].day => row'[u].messages = 0)
  BY <1>2, <1>4 DEF Quieter, RowCounts
<1>7. ASSUME row'[u].progress = day \/ (job'[u] # NoJob /\ row'[u].progress = job'[u].day)
      PROVE  row'[u].messages <= CountOn(said[u], row'[u].progress)
  <2>1. row'[u].progress \in Days /\ CountOn(said[u], row'[u].progress) \in Nat
    BY <1>3, <1>7
  <2>2. CASE row'[u].messages = 0
    BY <2>1, <2>2
  <2>3. CASE row'[u].progress = row[u].progress /\ row'[u].messages = row[u].messages
    BY <1>4, <1>7, <2>3 DEF RowCounts
  <2> QED
    BY <2>2, <2>3 DEF Quieter
<1>8. RowCounts(u)'
  BY <1>5, <1>6, <1>7 DEF RowCounts
<1> QED
  BY <1>1, <1>8 DEF EarnOK

\* Telegram repeats a message for a day, and ids are kept for one at least:
\* what a handler receives is new or known.
LEMMA ReceiveEarns ==
    ASSUME TypeOK, NEW u \in Users, EarnOK(u), ReceiveMessage(u), reset.day <= day
    PROVE  EarnOK(u)'
<1>1. PICK m \in Messages :
        /\ m <= Len(said[u]) + 1
        /\ m <= Len(said[u]) => said[u][m] + 1 >= day
        /\ job' = [job EXCEPT ![u] = [msg |-> m, day |-> day]]
  BY DEF ReceiveMessage
<1>2. /\ day \in Nat /\ m \in Nat /\ Len(said[u]) \in Nat /\ DOMAIN said[u] = 1..Len(said[u])
      /\ reset.day \in Nat /\ \A k \in DOMAIN said[u] : said[u][k] \in Nat
  BY EarnTypes DEF Messages
<1>3. job'[u].msg = m /\ job'[u].day = day /\ job'[u] # NoJob
  BY <1>1, <1>2 DEF TypeOK, NoJob, Messages
<1>4. /\ row' = row /\ said' = said /\ processed' = processed /\ paid' = paid /\ day' = day
      /\ reset' = reset
  BY DEF ReceiveMessage
<1>5. m \in DOMAIN said[u] => said[u][m] + 1 >= day /\ m \in processed[u]
  <2>1. m \in DOMAIN said[u] => said[u][m] + 1 >= day
    BY <1>1, <1>2
  <2>2. m \in DOMAIN said[u] => said[u][m] + Retention >= day
    BY <1>2, <2>1
  <2> QED
    BY <2>1, <2>2 DEF EarnOK, IdsKnown
<1>6. IdsKnown(u)' /\ PaidEarned(u)'
  BY <1>4 DEF EarnOK, IdsKnown, PaidEarned
<1>7. JobFits(u)'
  BY <1>1, <1>2, <1>3, <1>4, <1>5 DEF JobFits
<1>8. ~Late(u)'
  BY <1>2, <1>3, <1>4, <1>5 DEF Late
<1>9. RowCounts(u)'
  BY <1>3, <1>4, <1>8 DEF RowCounts, EarnOK
<1> QED
  BY <1>6, <1>7, <1>9 DEF EarnOK

\* The reset takes the messages of every other day away before the cleanup
\* can forget an id.
LEMMA ResetEarns ==
    ASSUME TypeOK, CalendarOK, NEW u \in Users, EarnOK(u), ResetRows
    PROVE  EarnOK(u)'
<1>1. row[u] \in Row /\ reset.day = day /\ day \in Nat /\ row[u].messages \in Nat
  BY EarnTypes DEF TypeOK, CalendarOK, ResetRows
<1>2. /\ job' = job /\ said' = said /\ processed' = processed /\ paid' = paid /\ day' = day
      /\ reset'.pc = "cleanup" /\ reset'.day = day
  BY <1>1 DEF ResetRows, TypeOK
<1>3. row'[u].progress = row[u].progress
      /\ row'[u].messages = IF row[u].progress = day THEN row[u].messages ELSE 0
  <2>1. PICK q : row'[u] = [row[u] EXCEPT !.messages = IF row[u].progress = day THEN @ ELSE 0,
                                          !.quota = q, !.reminded = FALSE]
    BY <1>1 DEF ResetRows
  <2> QED
    BY <1>1, <2>1 DEF Row
<1>4. IdsKnown(u)' /\ PaidEarned(u)' /\ JobFits(u)'
  BY <1>2 DEF EarnOK, IdsKnown, PaidEarned, JobFits
<1>5. RowCounts(u) /\ JobFits(u)
  BY DEF EarnOK
<1>6. /\ job[u] # NoJob => job[u].day \in Days /\ job[u].day \in Nat
      /\ \A d \in Days : CountOn(said[u], d) \in Nat
      /\ row[u].progress \in Dates /\ day \in Days
  BY EarnTypes
<1>7. row'[u].progress <= day
  BY <1>3, <1>5 DEF RowCounts
<1>8. Late(u)' => (row'[u].progress = job'[u].day => row'[u].messages = 0)
  <2>1. ASSUME Late(u)', row'[u].progress = job'[u].day, row[u].progress = day PROVE FALSE
    <3>1. job[u] # NoJob /\ job[u].day = day
      BY <1>2, <1>3, <2>1 DEF Late
    <3>2. ~(job[u].day < day)
      BY <1>1, <3>1
    <3>3. ~(job[u].msg \in DOMAIN said[u] /\ job[u].msg \notin processed[u])
      BY <1>5, <3>1, <3>2 DEF JobFits
    <3> QED
      BY <1>2, <2>1, <3>2, <3>3 DEF Late
  <2> QED
    BY <1>3, <2>1
<1>9. ASSUME row'[u].progress = day \/ (job[u] # NoJob /\ row'[u].progress = job[u].day)
      PROVE  row'[u].messages <= CountOn(said[u], row'[u].progress)
  <2>1. CountOn(said[u], row'[u].progress) \in Nat
    BY <1>6, <1>9
  <2>2. row[u].messages <= CountOn(said[u], row[u].progress)
    BY <1>3, <1>5, <1>9 DEF RowCounts
  <2> QED
    BY <1>1, <1>3, <2>1, <2>2
<1>10. RowCounts(u)'
  BY <1>2, <1>7, <1>8, <1>9 DEF RowCounts
<1> QED
  BY <1>4, <1>10 DEF EarnOK

\* The cleanup forgets ids of messages that only a late handler can count.
LEMMA CleanupEarns ==
    ASSUME TypeOK, CalendarOK, NEW u \in Users, EarnOK(u), ResetCleanup
    PROVE  EarnOK(u)'
<1>1. reset.pc = "cleanup" /\ reset.day = day /\ day \in Nat
      /\ \A m \in DOMAIN said[u] : said[u][m] \in Nat
  BY EarnTypes DEF CalendarOK, ResetCleanup
<1>2. /\ job' = job /\ said' = said /\ row' = row /\ paid' = paid /\ day' = day
      /\ reset'.pc = "idle"
      /\ processed'[u] = {m \in processed[u] : said[u][m] + Retention >= day}
  BY <1>1 DEF ResetCleanup, Ended
<1>3. IdsKnown(u) /\ JobFits(u) /\ RowCounts(u)
  BY DEF EarnOK
<1>4. IdsKnown(u)' /\ PaidEarned(u)'
  BY <1>2, <1>3 DEF EarnOK, IdsKnown, PaidEarned
<1>5. job[u] # NoJob => job[u].day \in Nat
  BY EarnTypes
<1>6. ASSUME job[u] # NoJob, job[u].msg \in DOMAIN said[u], job[u].msg \notin processed'[u]
      PROVE  job[u].day < day
  <2>1. CASE job[u].msg \notin processed[u]
    BY <1>3, <1>6, <2>1 DEF JobFits
  <2>2. CASE job[u].msg \in processed[u]
    <3>1. ~(said[u][job[u].msg] + Retention >= day)
      BY <1>2, <1>6, <2>2
    <3>2. said[u][job[u].msg] + 1 >= job[u].day
      BY <1>3, <1>6 DEF JobFits
    <3>3. said[u][job[u].msg] \in Nat
      BY <1>1, <1>6
    <3> QED
      BY <1>1, <1>5, <1>6, <3>1, <3>2, <3>3
  <2> QED
    BY <2>1, <2>2
<1>7. JobFits(u)'
  BY <1>2, <1>3, <1>6 DEF JobFits
<1>8. Late(u)' => Late(u)
  BY <1>1, <1>2, <1>6 DEF Late
<1>9. RowCounts(u)'
  BY <1>2, <1>3, <1>8 DEF RowCounts
<1> QED
  BY <1>4, <1>7, <1>9 DEF EarnOK

LEMMA MidnightEarns ==
    ASSUME TypeOK, NEW u \in Users, EarnOK(u), Midnight
    PROVE  EarnOK(u)'
<1>1. /\ job' = job /\ said' = said /\ row' = row /\ paid' = paid /\ day' = day + 1
      /\ processed' = processed /\ reset'.pc = "due"
  BY DEF Midnight
<1>2. /\ day \in Nat /\ row[u].progress \in Nat /\ \A m \in DOMAIN said[u] : said[u][m] \in Nat
      /\ job[u] # NoJob => job[u].day \in Nat
  BY EarnTypes
<1>3. IdsKnown(u)' /\ PaidEarned(u)'
  <2>1. ASSUME NEW m \in DOMAIN said[u], said[u][m] + Retention >= day + 1
        PROVE  m \in processed[u]
    <3>1. said[u][m] + Retention >= day
      BY <1>2, <2>1
    <3> QED
      BY <3>1 DEF EarnOK, IdsKnown
  <2> QED
    BY <1>1, <2>1 DEF EarnOK, IdsKnown, PaidEarned
<1>4. JobFits(u)'
  <2>1. job[u] # NoJob => (job[u].day <= day => job[u].day <= day + 1)
    BY <1>2
  <2>2. job[u] # NoJob => (job[u].day < day => job[u].day < day + 1)
    BY <1>2
  <2> QED
    BY <1>1, <2>1, <2>2 DEF EarnOK, JobFits
<1>5. Late(u)' => Late(u)
  BY <1>1 DEF Late
<1>6. row[u].progress <= day + 1 /\ row[u].progress # day + 1
  BY <1>2 DEF EarnOK, RowCounts
<1>7. RowCounts(u)'
  BY <1>1, <1>5, <1>6 DEF EarnOK, RowCounts
<1> QED
  BY <1>3, <1>4, <1>7 DEF EarnOK

\* Normalising for day d keeps the messages of that day and no others.
LEMMA NormalizedMessages ==
    ASSUME NEW s \in Row, NEW d \in Dates
    PROVE  LET t == Normalized(s, d)
           IN /\ t \in Row /\ t.progress = d
              /\ t.messages = 0 \/ (s.progress = d /\ t.messages = s.messages)
<1> DEFINE t == Normalized(s, d)
           f == Fresh(s, d)
<1>1. t \in Row /\ f \in Row
  BY NormalizedType
<1>2. f.progress = d /\ (f.messages = 0 \/ (s.progress = d /\ f.messages = s.messages))
  <2>1. CASE s.progress = d
    BY <2>1 DEF Fresh
  <2>2. CASE s.progress # d
    <3>1. f = [s EXCEPT !.progress = d, !.messages = 0, !.quota = FALSE, !.reminded = FALSE]
      BY <2>2 DEF Fresh
    <3> QED
      BY <1>1, <3>1 DEF Row
  <2> QED
    BY <2>1, <2>2
<1>3. t = f \/ t = [f EXCEPT !.streak = 0, !.messages = 0, !.quota = FALSE]
  BY DEF Normalized
<1>4. t.progress = d /\ (t.messages = 0 \/ (s.progress = d /\ t.messages = s.messages))
  <2> HIDE DEF f, t
  <2> QED
    BY <1>1, <1>2, <1>3 DEF Row
<1> QED
  BY <1>1, <1>4 DEF t

\* What counting on day d makes of the messages of a row.
LEMMA CountedMessages ==
    ASSUME NEW s \in Row, NEW d \in Days
    PROVE  LET t == Normalized(s, d)
           IN /\ t \in Row /\ t.messages \in Nat /\ t.progress = d
              /\ t.messages = 0 \/ (s.progress = d /\ t.messages = s.messages)
              /\ \A r \in {Counted(t), Completed(t, d)} :
                    r.progress = d /\ r.messages \in Nat /\ r.messages <= t.messages + 1
<1> DEFINE t == Normalized(s, d)
<1>1. t \in Row /\ t.messages \in Nat
  BY NormalizedType DEF Dates, Row
<1>2. t.progress = d /\ (t.messages = 0 \/ (s.progress = d /\ t.messages = s.messages))
  <2>1. d \in Dates
    BY DEF Dates
  <2> QED
    BY <2>1, NormalizedMessages
<1> HIDE DEF t
<1>3. Smaller(t.messages + 1, Target) \in Nat /\ Smaller(t.messages + 1, Target) <= t.messages + 1
  BY <1>1 DEF Smaller
<1>4. /\ Counted(t) \in Row /\ Counted(t).progress = d
      /\ Counted(t).messages \in Nat /\ Counted(t).messages <= t.messages + 1
  <2>1. Counted(t) \in Row
    BY <1>1, CountedType
  <2>2. Counted(t).progress = d /\ (\/ Counted(t).messages = t.messages
                                    \/ Counted(t).messages = Smaller(t.messages + 1, Target))
    BY <1>1, <1>2 DEF Counted, Row
  <2> QED
    BY <1>1, <1>3, <2>1, <2>2
<1>5. Completed(t, d).progress = Counted(t).progress /\ Completed(t, d).messages = Counted(t).messages
  <2> DEFINE c == Counted(t)
  <2>1. PICK l, n, m : Completed(t, d) = [c EXCEPT !.quota = TRUE, !.lastQuota = d, !.rewarded = d,
                                                  !.streak = n, !.longest = l, !.total = m]
    BY DEF Completed
  <2>2. c \in Row
    BY <1>4
  <2> HIDE DEF c
  <2>3. Completed(t, d).progress = c.progress /\ Completed(t, d).messages = c.messages
    BY <2>1, <2>2 DEF Row
  <2> QED
    BY <2>3 DEF c
<1> QED
  BY <1>1, <1>2, <1>4, <1>5 DEF t

\* A message that is counted, for the first or for a second time.
LEMMA CountEarns ==
    ASSUME Target > 1, TypeOK, NEW u \in Users, EarnOK(u), CountMessage(u)
    PROVE  EarnOK(u)'
<1> DEFINE d == job[u].day
           m == job[u].msg
           s == Normalized(row[u], d)
           q == said[u]
           r == said'[u]
           n == s.messages
<1>1. /\ job[u] # NoJob /\ m \notin processed[u] /\ processed'[u] = processed[u] \cup {m}
      /\ job'[u] = NoJob /\ day' = day
      /\ r = IF m > Len(q) THEN Append(q, d) ELSE q
  BY DEF CountMessage, TypeOK
<1>2. \/ /\ Completes(s, d) /\ row'[u] = Completed(s, d)
         /\ paid'[u] = [paid[u] EXCEPT ![d] = Append(@, Reward(s.streak + 1))]
      \/ /\ row'[u] = Counted(s)
         /\ paid'[u] = paid[u]
  BY DEF CountMessage, TypeOK
<1>3. /\ day \in Nat /\ d \in Days /\ d \in Nat /\ m \in Nat /\ m \in Messages /\ row[u] \in Row
      /\ q \in Seq(Days) /\ Len(q) \in Nat /\ DOMAIN q = 1..Len(q)
      /\ row[u].messages \in Nat /\ day \in Days
  BY <1>1, EarnTypes
<1>4. IdsKnown(u) /\ JobFits(u) /\ RowCounts(u) /\ PaidEarned(u)
  BY DEF EarnOK
<1>5. /\ s \in Row /\ n \in Nat
      /\ n = 0 \/ (row[u].progress = d /\ n = row[u].messages)
      /\ row'[u].progress = d /\ row'[u].messages \in Nat /\ row'[u].messages <= n + 1
  <2>1. /\ s \in Row /\ n \in Nat
        /\ n = 0 \/ (row[u].progress = d /\ n = row[u].messages)
        /\ \A t \in {Counted(s), Completed(s, d)} :
              t.progress = d /\ t.messages \in Nat /\ t.messages <= n + 1
    <3> HIDE DEF d
    <3> QED
      BY <1>3, CountedMessages
  <2> QED
    BY <1>2, <2>1
<1>6. Completes(s, d) => n + 1 >= Target
  BY DEF Completes
<1>7. d <= day
  BY <1>1, <1>4 DEF JobFits
<1>8. CountOn(q, d) \in Nat /\ \A e \in Days : CountOn(q, e) \in Nat
  BY <1>3, CountAppend
<1>9. /\ Reward(s.streak + 1) \in Nat /\ paid[u] \in [Days -> Seq(Nat)]
  BY <1>3, <1>5, CountedType DEF TypeOK
<1> HIDE DEF d, m, s, q, r, n
<1>10. m \in DOMAIN q <=> ~(m > Len(q))
  BY <1>3 DEF Messages
<1>11. CASE m \in DOMAIN q
  <2>1. r = q
    BY <1>1, <1>11, <1>10
  <2>2. Late(u) /\ d < day
    BY <1>1, <1>4, <1>11 DEF Late, JobFits, d, m, q
  <2>3. n = 0
    BY <1>4, <1>5, <2>2 DEF RowCounts, d
  <2>4. ~Completes(s, d)
    BY <1>6, <2>3
  <2>5. paid'[u] = paid[u]
    BY <1>2, <2>4
  <2>6. IdsKnown(u)'
    BY <1>1, <1>4, <1>11, <2>1 DEF IdsKnown, q, r
  <2>7. JobFits(u)' /\ PaidEarned(u)'
    BY <1>1, <1>4, <2>1, <2>5 DEF JobFits, PaidEarned, q, r
  <2>8. RowCounts(u)'
    BY <1>1, <1>3, <1>5, <1>7, <2>2 DEF RowCounts, Late
  <2> QED
    BY <2>6, <2>7, <2>8 DEF EarnOK
<1>12. CASE m \notin DOMAIN q
  <2>1. m = Len(q) + 1 /\ r = Append(q, d)
    <3>1. m <= Len(q) + 1
      BY <1>1, <1>4 DEF JobFits, m, q
    <3> QED
      <4>1. m > Len(q)
        BY <1>10, <1>12
      <4>2. r = Append(q, d)
        BY <1>1, <4>1
      <4>3. m = Len(q) + 1
        <5>1. m \in Nat /\ Len(q) \in Nat
          BY <1>3
        <5> QED
          BY <3>1, <4>1, <5>1
      <4> QED
        BY <4>2, <4>3
  <2>2. n <= CountOn(q, d)
    <3>1. CASE n = 0
      BY <1>8, <3>1
    <3>2. CASE row[u].progress = d /\ n = row[u].messages
      BY <1>1, <1>4, <3>2 DEF RowCounts, d, q
    <3> QED
      BY <1>5, <3>1, <3>2
  <2>3. /\ CountOn(r, d) = CountOn(q, d) + 1
        /\ \A e \in Days : e # d => CountOn(r, e) = CountOn(q, e)
    BY <1>3, <2>1, CountAppend
  <2>4. row'[u].messages <= CountOn(r, d)
    BY <1>5, <1>8, <2>2, <2>3
  <2>5. IdsKnown(u)'
    <3>1. DOMAIN r = 1..Len(q) + 1 /\ \A k \in DOMAIN q : r[k] = q[k]
      BY <1>3, <2>1
    <3>2. processed'[u] \subseteq DOMAIN r
      BY <1>1, <1>3, <1>4, <2>1, <3>1 DEF IdsKnown, q
    <3>3. ASSUME NEW k \in DOMAIN r, r[k] + Retention >= day PROVE k \in processed'[u]
      <4>1. k = m \/ k \in DOMAIN q
        BY <1>3, <2>1, <3>1
      <4>2. CASE k \in DOMAIN q
        BY <1>1, <1>4, <3>1, <3>3, <4>2 DEF IdsKnown, q
      <4> QED
        BY <1>1, <4>1, <4>2
    <3> QED
      BY <1>1, <3>2, <3>3 DEF IdsKnown, r
  <2>6. RowCounts(u)'
    BY <1>1, <1>5, <1>7, <2>4 DEF RowCounts, Late, r
  <2>7. JobFits(u)'
    BY <1>1 DEF JobFits
  <2>8. ASSUME NEW e \in Days, paid'[u][e] # <<>> PROVE CountOn(r, e) >= Target
    <3>1. CASE paid[u][e] # <<>>
      <4>1. CountOn(q, e) >= Target
        BY <1>4, <3>1 DEF PaidEarned, q
      <4>2. CountOn(r, e) = CountOn(q, e) \/ CountOn(r, e) = CountOn(q, e) + 1
        BY <2>3
      <4> QED
        BY <1>8, <4>1, <4>2
    <3>2. CASE paid[u][e] = <<>>
      <4>1. e = d /\ Completes(s, d)
        BY <1>2, <1>9, <2>8, <3>2
      <4> QED
        BY <1>5, <1>6, <1>8, <2>2, <2>3, <4>1
    <3> QED
      BY <3>1, <3>2
  <2>9. PaidEarned(u)'
    BY <2>8 DEF PaidEarned, r
  <2> QED
    BY <2>5, <2>6, <2>7, <2>9 DEF EarnOK
<1> QED
  BY <1>11, <1>12

\* A run goes on with its day, or begins with today's.
LEMMA RunDays ==
    ASSUME TypeOK, [Next]_vars, \A r \in Runs : run[r].day <= day
    PROVE  \A r \in Runs : run'[r].day <= day'
<1> SUFFICES ASSUME NEW r \in Runs PROVE run'[r].day <= day'
  OBVIOUS
<1>1. /\ day \in Nat /\ run[r] \in RunType /\ run[r].day \in Nat /\ run[r].day <= day
      /\ NoRun.day = 0
  <2>1. run[r] \in RunType /\ day \in Nat
    BY RunTypes DEF TypeOK, Days
  <2> QED
    BY <2>1 DEF RunType, Dates, Days, Never, NoRun
<1>2. day' = day \/ day' = day + 1
  BY DEF Next, Handlers, DailyReset, SendReminders, ReceiveMessage, CountMessage, CountNothing,
         GetStreak, ResetBegin, ResetRows, ResetCleanup, ResetFails, RemindBegin, Claim, ClaimFails,
         Deliver, DeliverFails, Release, ReleaseFails, Midnight, Crash, vars
<1>3. run'[r] = NoRun \/ run'[r].day = run[r].day \/ run'[r].day = day
  <2>1. CASE run' = run
    BY <2>1
  <2>2. ASSUME NEW q \in Runs, Claim(q) PROVE SameRun(r)
    BY <2>2, ClaimStep
  <2>3. ASSUME NEW q \in Runs, RemindBegin(q) PROVE run'[r].day = run[r].day \/ run'[r].day = day
    BY <2>3 DEF RemindBegin, TypeOK
  <2>4. ASSUME NEW q \in Runs, ClaimFails(q) \/ Release(q) \/ ReleaseFails(q)
        PROVE  run'[r] = NoRun \/ run'[r] = run[r]
    BY <2>4 DEF ClaimFails, Release, ReleaseFails, TypeOK
  <2>5. ASSUME NEW q \in Runs, Deliver(q) \/ DeliverFails(q)
        PROVE  run'[r] = NoRun \/ run'[r].day = run[r].day
    <3>1. \/ run' = [run EXCEPT ![q] = NoRun]
          \/ run' = [run EXCEPT ![q] = [run[q] EXCEPT !.pc = "claim", !.user = {}]]
          \/ run' = [run EXCEPT ![q] = [run[q] EXCEPT !.pc = "release"]]
      BY <2>5 DEF Deliver, DeliverFails
    <3>2. \/ run'[r] = run[r] \/ run'[r] = NoRun
          \/ run'[r] = [run[r] EXCEPT !.pc = "claim", !.user = {}]
          \/ run'[r] = [run[r] EXCEPT !.pc = "release"]
      BY <3>1 DEF TypeOK
    <3> QED
      BY <1>1, <3>2 DEF RunType
  <2>6. CASE Crash
    BY <2>6 DEF Crash
  <2>7. \/ run' = run \/ Crash
        \/ \E q \in Runs : SendReminders(q)
    BY DEF Next, Handlers, DailyReset, ReceiveMessage, CountMessage, CountNothing, GetStreak,
           ResetBegin, ResetRows, ResetCleanup, ResetFails, Midnight, vars
  <2> QED
    BY <2>1, <2>2, <2>3, <2>4, <2>5, <2>6, <2>7 DEF SendReminders, SameRun
<1> QED
  BY <1>1, <1>2, <1>3

\* What the other steps write to a row.
LEMMA OthersQuieter ==
    ASSUME TypeOK, EarnInv, [Next]_vars, NEW u \in Users, ~CountMessage(u), ~ResetRows
    PROVE  Quieter(u)
<1>1. row[u] \in Row /\ day \in Nat /\ day \in Dates
  BY EarnTypes DEF Dates
<1>2. ASSUME NEW d \in Dates, d <= day, NEW b \in BOOLEAN,
             row'[u] \in {Normalized(row[u], d), [Normalized(row[u], d) EXCEPT !.reminded = b]}
      PROVE  Quieter(u)
  <2> DEFINE t == Normalized(row[u], d)
  <2>1. /\ t \in Row /\ t.progress = d
        /\ t.messages = 0 \/ (row[u].progress = d /\ t.messages = row[u].messages)
    BY <1>1, NormalizedMessages
  <2>2. row'[u] = t \/ row'[u] = [t EXCEPT !.reminded = b]
    BY <1>2
  <2> HIDE DEF t
  <2>3. row'[u].progress = t.progress /\ row'[u].messages = t.messages
    BY <2>1, <2>2 DEF Row
  <2>4. d \in Nat
    BY DEF Dates, Days, Never
  <2> QED
    BY <1>2, <2>1, <2>3, <2>4 DEF Quieter
<1>3. CASE row'[u] = row[u]
  BY <1>3 DEF Quieter
<1>4. ASSUME NEW v \in Users, GetStreak(v) PROVE Quieter(u)
  <2>1. row'[u] = row[u] \/ row'[u] = Normalized(row[u], day)
    BY <1>4 DEF GetStreak, TypeOK
  <2> QED
    BY <1>1, <1>2, <1>3, <2>1
<1>5. ASSUME NEW r \in Runs, Claim(r) PROVE Quieter(u)
  <2>1. PICK v \in Users :
          /\ row[v] \in Row /\ run[r].day \in Dates
          /\ LET s == Normalized(row[v], run[r].day)
             IN row' = [row EXCEPT ![v] = s] \/ row' = [row EXCEPT ![v] = [s EXCEPT !.reminded = TRUE]]
    BY <1>5, ClaimStep
  <2>2. \/ row'[u] = row[u]
        \/ row'[u] = Normalized(row[u], run[r].day)
        \/ row'[u] = [Normalized(row[u], run[r].day) EXCEPT !.reminded = TRUE]
    BY <2>1 DEF TypeOK
  <2>3. run[r].day <= day
    BY DEF EarnInv
  <2> QED
    BY <1>2, <1>3, <2>1, <2>2, <2>3
<1>6. ASSUME NEW r \in Runs, Release(r) PROVE Quieter(u)
  <2>1. row'[u] = row[u] \/ row'[u] = [row[u] EXCEPT !.reminded = FALSE]
    BY <1>6 DEF Release
  <2> QED
    BY <1>1, <2>1 DEF Row, Quieter
<1>7. ASSUME NEW v \in Users, CountMessage(v) PROVE row'[u] = row[u]
  BY <1>7 DEF CountMessage, TypeOK
<1>8. \/ row'[u] = row[u] \/ \E v \in Users : GetStreak(v)
      \/ \E r \in Runs : Claim(r) \/ Release(r)
  BY <1>7
  DEF Next, Handlers, DailyReset, SendReminders, ReceiveMessage, CountNothing, ResetBegin,
      ResetCleanup, ResetFails, RemindBegin, ClaimFails, Deliver, DeliverFails, ReleaseFails,
      Midnight, Crash, vars
<1> QED
  BY <1>3, <1>4, <1>5, <1>6, <1>8

LEMMA NextEarn ==
    Target > 1 /\ TypeOK /\ CalendarOK /\ EarnInv /\ [Next]_vars => EarnInv'
<1> SUFFICES ASSUME Target > 1, TypeOK, CalendarOK, EarnInv, [Next]_vars PROVE EarnInv'
  OBVIOUS
<1>1. TypeOK'
  BY NextType
<1> SUFFICES ASSUME NEW u \in Users PROVE EarnOK(u)'
  BY RunDays DEF EarnInv
<1>2. EarnOK(u) /\ reset.day <= day
  BY DEF EarnInv, CalendarOK
<1>3. CASE CountMessage(u)
  BY <1>2, <1>3, CountEarns
<1>4. CASE ReceiveMessage(u)
  BY <1>2, <1>4, ReceiveEarns
<1>5. CASE ResetRows
  BY <1>2, <1>5, ResetEarns
<1>6. CASE ResetCleanup
  BY <1>2, <1>6, CleanupEarns
<1>7. CASE Midnight
  BY <1>2, <1>7, MidnightEarns
<1>8. CASE ~CountMessage(u) /\ ~ReceiveMessage(u) /\ ~ResetRows /\ ~ResetCleanup /\ ~Midnight
  <2>1. Quieter(u)
    BY <1>8, OthersQuieter
  <2>2. said'[u] = said[u] /\ paid'[u] = paid[u]
    BY <1>8, OnlyCounting
  <2>3. processed'[u] = processed[u] /\ day' = day
    <3>1. ASSUME NEW v \in Users, CountMessage(v) PROVE processed'[u] = processed[u] /\ day' = day
      BY <1>8, <3>1 DEF CountMessage, TypeOK
    <3> QED
      BY <1>8, <3>1
      DEF Next, Handlers, DailyReset, SendReminders, ReceiveMessage, CountNothing, GetStreak,
          ResetBegin, ResetFails, RemindBegin, Claim, ClaimFails, Deliver, DeliverFails, Release,
          ReleaseFails, Crash, vars
  <2>4. job'[u] \in {job[u], NoJob}
    <3>1. ASSUME NEW v \in Users, CountMessage(v) \/ CountNothing(v) PROVE job'[u] \in {job[u], NoJob}
      BY <3>1 DEF CountMessage, CountNothing, TypeOK
    <3>2. ASSUME NEW v \in Users, ReceiveMessage(v) PROVE job'[u] = job[u]
      BY <1>8, <3>2 DEF ReceiveMessage, TypeOK
    <3>3. CASE Crash
      BY <3>3 DEF Crash
    <3> QED
      BY <1>8, <3>1, <3>2, <3>3
      DEF Next, Handlers, DailyReset, SendReminders, GetStreak, ResetBegin, ResetFails,
          RemindBegin, Claim, ClaimFails, Deliver, DeliverFails, Release, ReleaseFails, vars
  <2>5. reset' = reset \/ reset'.pc # "cleanup"
    <3>1. CASE ResetFails \/ Crash
      <4>1. Ended.pc = "idle"
        BY DEF Ended
      <4>2. reset' = Ended
        BY <3>1 DEF ResetFails, Crash
      <4> QED
        BY <4>1, <4>2
    <3>2. CASE ResetBegin
      BY <3>2 DEF ResetBegin
    <3>3. CASE reset' = reset
      BY <3>3
    <3>4. reset' = reset \/ ResetBegin \/ ResetFails \/ Crash
      BY <1>8
      DEF Next, Handlers, DailyReset, SendReminders, CountNothing, GetStreak, RemindBegin,
          ReceiveMessage, CountMessage, Claim, ClaimFails, Deliver, DeliverFails, Release,
          ReleaseFails, vars
    <3> QED
      BY <3>1, <3>2, <3>3, <3>4
  <2> QED
    BY <1>1, <1>2, <2>1, <2>2, <2>3, <2>4, <2>5, QuietEarns
<1> QED
  BY <1>3, <1>4, <1>5, <1>6, <1>7, <1>8

\* Whoever is rewarded for a day has had Target different messages counted on
\* it, whatever is delivered again, straddles midnight or crashes
\* (RewardIsEarned).  With a Target of one a message delivered again to a
\* handler that is late would do; the code's is four.
THEOREM RewardIsEarnedCorrect ==
    ASSUME Target > 1 PROVE Spec => []RewardIsEarned
<1>1. EarnInv => RewardIsEarned
  BY DEF EarnInv, EarnOK, PaidEarned, RewardIsEarned, PaidOn, CountOn, SaidOn
<1> QED
  BY <1>1, InitEarn, NextEarn, InitCalendar, NextCalendar, TypeCorrect, PTL DEF Spec

-----------------------------------------------------------------------------
(* What survives midnight.  Only the completion of a day lengthens a streak, *)
(* and it does so in the step that rewards the day, for a day after all that *)
(* were rewarded; so the streak never counts more than a chain of rewarded   *)
(* days, whoever works on with an old day.                                  *)

StreakCounts(s, p) ==
    /\ s.lastQuota = s.rewarded
    /\ s.streak > 0 => s.lastQuota # Never /\ Chain(p, s.lastQuota, s.streak)

RewardsCovered(p) ==
    \A e \in Days : p[e] # <<>> => \E n \in 1..e : Chain(p, e, n) /\ p[e] = <<Reward(n)>>

RunsInv == \A r \in Runs : run[r] # NoRun => run[r].day \in Days /\ run[r].day <= day

LateInv ==
    /\ PaidInv /\ RunsInv
    /\ \A u \in Users : StreakCounts(row[u], paid[u]) /\ RewardsCovered(paid[u])

LEMMA InitLate == Init => LateInv
<1> SUFFICES ASSUME Init PROVE LateInv
  OBVIOUS
<1>1. \A u \in Users : row[u] = Blank /\ \A d \in Days : paid[u][d] = <<>>
  BY DEF Init
<1>2. RunsInv
  BY DEF Init, RunsInv
<1>3. \A u \in Users : StreakCounts(row[u], paid[u]) /\ RewardsCovered(paid[u])
  BY <1>1 DEF Blank, StreakCounts, RewardsCovered
<1> QED
  BY <1>2, <1>3, InitPaid DEF LateInv

\* The streak of a row ends where somebody normalizes it, for today or for the
\* day of his run.
StreakEnds(u) ==
    /\ row'[u].streak = 0
    /\ \/ ContinuityBroken(row[u], day)
       \/ \E r \in Runs : run[r].pc = "claim" /\ ContinuityBroken(row[u], run[r].day)

LEMMA StreakStep ==
    ASSUME TypeOK, [Next]_vars, \A v \in Users : ~CountMessage(v), NEW u \in Users
    PROVE  row'[u].streak = row[u].streak \/ StreakEnds(u)
<1>1. ASSUME NEW v \in Users, GetStreak(v)
      PROVE  row'[u].streak = row[u].streak \/ StreakEnds(u)
  <2>1. row[v] \in Row /\ day \in Dates
    BY DEF TypeOK, Dates
  <2>2. row'[u] = IF u = v THEN Normalized(row[v], day) ELSE row[u]
    BY <1>1 DEF GetStreak, TypeOK
  <2> QED
    BY <2>1, <2>2, NormalizedKeeps DEF StreakEnds
<1>2. CASE ResetRows
  <2>1. row[u] \in Row
    BY DEF TypeOK
  <2>2. PICK n, q : row'[u] = [row[u] EXCEPT !.messages = n, !.quota = q, !.reminded = FALSE]
    BY <1>2 DEF ResetRows
  <2> QED
    BY <2>1, <2>2 DEF Row
<1>3. ASSUME NEW r \in Runs, Claim(r)
      PROVE  row'[u].streak = row[u].streak \/ StreakEnds(u)
  <2>1. PICK v \in Users :
          /\ row[v] \in Row /\ run[r].day \in Dates
          /\ LET s == Normalized(row[v], run[r].day)
             IN row' = [row EXCEPT ![v] = s] \/ row' = [row EXCEPT ![v] = [s EXCEPT !.reminded = TRUE]]
    BY <1>3, ClaimStep
  <2> DEFINE s == Normalized(row[v], run[r].day)
  <2>2. s \in Row /\ s.streak = IF ContinuityBroken(row[v], run[r].day) THEN 0 ELSE row[v].streak
    BY <2>1, NormalizedType, NormalizedKeeps
  <2>3. row'[v] = s \/ row'[v] = [s EXCEPT !.reminded = TRUE]
    BY <2>1 DEF TypeOK
  <2>4. u # v => row'[u] = row[u]
    BY <2>1 DEF TypeOK
  <2>5. row'[v].streak = s.streak
    <3> HIDE DEF s
    <3> QED
      BY <2>2, <2>3 DEF Row
  <2>6. run[r].pc = "claim"
    BY <1>3 DEF Claim
  <2> HIDE DEF s
  <2> QED
    BY <2>2, <2>4, <2>5, <2>6 DEF StreakEnds
<1>4. ASSUME NEW r \in Runs, Release(r) PROVE row'[u].streak = row[u].streak
  BY <1>4 DEF Release, TypeOK, Row
<1> QED
  BY <1>1, <1>2, <1>3, <1>4
  DEF Next, Handlers, DailyReset, SendReminders, ReceiveMessage, CountNothing, ResetBegin,
      ResetCleanup, ResetFails, RemindBegin, ClaimFails, Deliver, DeliverFails, ReleaseFails,
      Midnight, Crash, vars

LEMMA ClockStep ==
    ASSUME [Next]_vars
    PROVE  day' = day \/ (day' = day + 1 /\ run' = run)
BY DEF Next, Handlers, DailyReset, SendReminders, ReceiveMessage, CountMessage, CountNothing,
      GetStreak, ResetBegin, ResetRows, ResetCleanup, ResetFails, RemindBegin, Claim, ClaimFails,
      Deliver, DeliverFails, Release, ReleaseFails, Midnight, Crash, vars

LEMMA RunsStep ==
    ASSUME TypeOK, RunsInv, [Next]_vars
    PROVE  RunsInv'
<1>1. day \in Days /\ day \in Nat /\ \A d \in Days : d \in Nat
  BY DEF TypeOK, Days
<1>2. CASE day' = day
  BY <1>1, <1>2, FlightStep DEF RunsInv, SameRun
<1>3. CASE day' = day + 1 /\ run' = run
  <2>1. ASSUME NEW q \in Runs, run'[q] # NoRun
        PROVE  run'[q].day \in Days /\ run'[q].day <= day'
    <3>1. run[q] # NoRun /\ run[q].day \in Days /\ run[q].day <= day
      BY <1>3, <2>1 DEF RunsInv
    <3>2. run[q].day \in Nat /\ run'[q].day = run[q].day
      BY <1>1, <1>3, <3>1
    <3> QED
      BY <1>1, <1>3, <3>1, <3>2
  <2> QED
    BY <2>1 DEF RunsInv
<1> QED
  BY <1>2, <1>3, ClockStep

\* Rewarding one more day breaks no chain.
LEMMA ChainStays ==
    ASSUME NEW p \in Paid, NEW d \in Days, NEW x, x # <<>>, NEW e \in Days, NEW n \in Nat,
           Chain(p, e, n)
    PROVE  Chain([p EXCEPT ![d] = x], e, n)
<1>1. ASSUME NEW i \in 0..n - 1 PROVE [p EXCEPT ![d] = x][e - i] # <<>>
  <2>1. e - i \in Days /\ p[e - i] # <<>>
    BY DEF Chain, Days
  <2> QED
    BY <2>1 DEF Paid
<1> QED
  BY <1>1 DEF Chain

\* The day after a chain makes it longer by one.
LEMMA ChainLonger ==
    ASSUME NEW r \in Paid, NEW d \in Days, d - 1 \in Days, NEW n \in Nat \ {0},
           Chain(r, d - 1, n), r[d] # <<>>
    PROVE  Chain(r, d, n + 1)
<1>1. d \in Nat /\ n <= d - 1 /\ \A i \in 0..n - 1 : r[(d - 1) - i] # <<>>
  BY DEF Chain, Days
<1>2. ASSUME NEW i \in 0..n PROVE r[d - i] # <<>>
  <2>1. CASE i = 0
    BY <1>1, <2>1
  <2>2. CASE i # 0
    <3>1. i - 1 \in 0..n - 1 /\ (d - 1) - (i - 1) = d - i
      BY <1>1, <2>2
    <3> QED
      BY <1>1, <3>1
  <2> QED
    BY <2>1, <2>2
<1> QED
  BY <1>1, <1>2 DEF Chain

\* The step that completes day d, which is after every day rewarded before.
LEMMA CompletedCounts ==
    ASSUME NEW s \in Row, NEW p \in Paid, NEW d \in Days,
           StreakCounts(s, p), RewardsCovered(p), Completes(Normalized(s, d), d),
           s.rewarded <= d, p[d] = <<>>
    PROVE  LET t == Completed(Normalized(s, d), d)
               r == [p EXCEPT ![d] = <<Reward(Normalized(s, d).streak + 1)>>]
           IN  StreakCounts(t, r) /\ RewardsCovered(r)
<1> DEFINE z == Normalized(s, d)
           n == z.streak + 1
           x == <<Reward(n)>>
           r == [p EXCEPT ![d] = x]
           t == Completed(z, d)
<1>1. /\ z \in Row /\ z.rewarded = s.rewarded
      /\ z.streak = IF ContinuityBroken(s, d) THEN 0 ELSE s.streak
  BY NormalizedType, NormalizedKeeps DEF Dates
<1>2. z.streak \in Nat /\ s.lastQuota \in Nat /\ s.streak \in Nat /\ d \in Nat /\ d >= 1
  BY <1>1, RowFields DEF Days
<1>3. t.rewarded = d /\ t.lastQuota = d /\ t.streak = n
  BY <1>1, CountedKeeps
<1>4. s.rewarded # d
  BY <1>1 DEF Completes
<1> HIDE DEF z
<1>5. r \in Paid /\ r[d] = x /\ x # <<>> /\ n \in Nat \ {0}
  <2>1. Reward(n) \in Nat /\ n \in Nat \ {0}
    BY <1>1, <1>2, CountedType
  <2>2. x \in Seq(Nat) /\ x # <<>>
    BY <2>1
  <2> HIDE DEF x, n
  <2> QED
    BY <2>1, <2>2 DEF Paid
<1>6. \A e \in Days : e # d => r[e] = p[e]
  BY DEF Paid
<1>7. ASSUME NEW e \in Days, NEW k \in Nat, Chain(p, e, k) PROVE Chain(r, e, k)
  BY <1>5, <1>7, ChainStays
<1> HIDE DEF r, x, n, t
<1>8. Chain(r, d, n)
  <2>1. CASE z.streak = 0
    <3>1. \A i \in 0..0 : d - i = d
      BY <1>2
    <3> QED
      BY <1>2, <1>5, <2>1, <3>1 DEF Chain, n
  <2>2. CASE z.streak # 0
    <3>1. ~ContinuityBroken(s, d) /\ s.streak = z.streak /\ s.streak > 0
      BY <1>1, <1>2, <2>2
    <3>2. s.lastQuota # Never /\ Chain(p, s.lastQuota, s.streak) /\ s.lastQuota # d
      BY <1>4, <3>1 DEF StreakCounts
    <3>3. s.lastQuota = d - 1 /\ d - 1 \in Days
      BY <1>2, <3>1, <3>2 DEF ContinuityBroken, Days, Never
    <3>4. Chain(r, d - 1, z.streak)
      BY <1>2, <1>7, <3>1, <3>2, <3>3
    <3>5. z.streak \in Nat \ {0}
      BY <1>2, <2>2
    <3> QED
      BY <1>5, <3>3, <3>4, <3>5, ChainLonger DEF n
  <2> QED
    BY <2>1, <2>2
<1>9. RewardsCovered(r)
  <2> SUFFICES ASSUME NEW e \in Days, r[e] # <<>>
               PROVE  \E k \in 1..e : Chain(r, e, k) /\ r[e] = <<Reward(k)>>
    BY DEF RewardsCovered
  <2>1. CASE e = d
    <3>1. n \in 1..d
      BY <1>2, <1>5, <1>8 DEF Chain
    <3> QED
      BY <1>5, <1>8, <2>1, <3>1 DEF x
  <2>2. CASE e # d
    <3>1. PICK k \in 1..e : Chain(p, e, k) /\ p[e] = <<Reward(k)>>
      BY <1>6, <2>2 DEF RewardsCovered
    <3>2. k \in Nat
      OBVIOUS
    <3> QED
      BY <1>6, <1>7, <2>2, <3>1, <3>2
  <2> QED
    BY <2>1, <2>2
<1>10. StreakCounts(t, r)
  BY <1>3, <1>8, <1>2 DEF StreakCounts, Never
<1> QED
  BY <1>9, <1>10 DEF r, t, x, n, z

LEMMA NextLate == TypeOK /\ LateInv /\ [Next]_vars => LateInv'
<1> SUFFICES ASSUME TypeOK, LateInv, [Next]_vars, NEW v \in Users
             PROVE  StreakCounts(row'[v], paid'[v]) /\ RewardsCovered(paid'[v])
  BY NextPaid, RunsStep DEF LateInv
<1>1. StreakCounts(row[v], paid[v]) /\ RewardsCovered(paid[v]) /\ row[v] \in Row
      /\ paid[v] \in Paid
  BY DEF LateInv, TypeOK, Paid
<1>2. ASSUME NEW u \in Users, CountMessage(u)
      PROVE  StreakCounts(row'[v], paid'[v]) /\ RewardsCovered(paid'[v])
  <2>1. CASE v # u
    <3>1. row'[v] = row[v] /\ paid'[v] = paid[v]
      BY <1>2, <2>1 DEF CountMessage, TypeOK
    <3> QED
      BY <1>1, <3>1
  <2>2. CASE v = u
    <3> DEFINE d == job[v].day
               s == Normalized(row[v], d)
    <3>1. job[v] # NoJob /\ d \in Days /\ d \in Dates
      BY <1>2, <2>2 DEF CountMessage, TypeOK, Dates
    <3>2. row[v].rewarded <= d
      BY <3>1 DEF LateInv, PaidInv
    <3>3. CASE Completes(s, d)
      <4>1. row'[v] = Completed(s, d) /\ paid'[v] = [paid[v] EXCEPT ![d] = Append(@, Reward(s.streak + 1))]
        BY <1>2, <2>2, <3>3 DEF CountMessage, TypeOK
      <4>2. paid[v][d] = <<>>
        <5>1. row[v].rewarded # d
          BY <1>1, <3>1, <3>3, NormalizedKeeps DEF Completes
        <5>2. ~(d <= row[v].rewarded)
          BY <1>1, <3>1, <3>2, <5>1, RowFields DEF Days
        <5> QED
          BY <3>1, <5>2 DEF LateInv, PaidInv, PaidOn
      <4>3. paid'[v] = [paid[v] EXCEPT ![d] = <<Reward(s.streak + 1)>>]
        <5>1. Append(<<>>, Reward(s.streak + 1)) = <<Reward(s.streak + 1)>>
          OBVIOUS
        <5> HIDE DEF s, d
        <5> QED
          BY <4>1, <4>2, <5>1
      <4>4. LET t == Completed(Normalized(row[v], d), d)
                p == [paid[v] EXCEPT ![d] = <<Reward(Normalized(row[v], d).streak + 1)>>]
            IN  StreakCounts(t, p) /\ RewardsCovered(p)
        <5> HIDE DEF d
        <5> QED
          BY <1>1, <3>1, <3>2, <3>3, <4>2, CompletedCounts
      <4>5. /\ row'[v] = Completed(Normalized(row[v], d), d)
            /\ paid'[v] = [paid[v] EXCEPT ![d] = <<Reward(Normalized(row[v], d).streak + 1)>>]
        BY <4>1, <4>3
      <4> HIDE DEF d, s
      <4> QED
        BY <4>4, <4>5
    <3>4. CASE ~Completes(s, d)
      <4>1. row'[v] = Counted(s) /\ paid'[v] = paid[v]
        BY <1>2, <2>2, <3>4 DEF CountMessage, TypeOK
      <4>2. /\ s \in Row /\ s.rewarded = row[v].rewarded /\ s.lastQuota = row[v].lastQuota
            /\ s.streak = 0 \/ s.streak = row[v].streak
        BY <1>1, <3>1, NormalizedType, NormalizedKeeps
      <4> HIDE DEF s
      <4>3. /\ row'[v].rewarded = s.rewarded /\ row'[v].lastQuota = s.lastQuota
            /\ row'[v].streak = s.streak
        BY <3>1, <4>1, <4>2, CountedKeeps
      <4> QED
        BY <1>1, <4>1, <4>2, <4>3 DEF StreakCounts
    <3> QED
      BY <3>3, <3>4
  <2> QED
    BY <2>1, <2>2
<1>3. ASSUME \A u \in Users : ~CountMessage(u)
      PROVE  StreakCounts(row'[v], paid'[v]) /\ RewardsCovered(paid'[v])
  <2>1. paid' = paid /\ row'[v].rewarded = row[v].rewarded /\ row'[v].lastQuota = row[v].lastQuota
    BY <1>3, OthersKeep DEF Kept
  <2>2. row'[v].streak = row[v].streak \/ row'[v].streak = 0
    BY <1>3, StreakStep DEF StreakEnds
  <2> QED
    BY <1>1, <2>1, <2>2 DEF StreakCounts
<1> QED
  BY <1>2, <1>3

\* However late handlers and runs are, and after crashes, a reward counts only
\* days that were rewarded one after the other (RewardNotTooHigh).
THEOREM RewardNotTooHighCorrect == Spec => []RewardNotTooHigh
<1>1. LateInv => RewardNotTooHigh
  BY DEF LateInv, RewardsCovered, RewardNotTooHigh, Chain, Unbroken, PaidOn
<1> QED
  BY <1>1, InitLate, NextLate, TypeCorrect, PTL DEF Spec

LEMMA LostStep ==
    ASSUME TypeOK, LateInv, [Next]_vars, NEW u \in Users,
           row[u].streak > 0, row'[u].streak = 0
    PROVE  \/ row[u].lastQuota + 1 < day
           \/ \E r \in Runs : run[r].pc = "claim" /\ run[r].day < day
<1>1. /\ row[u] \in Row /\ day \in Nat /\ row[u].lastQuota \in Nat
      /\ row[u].lastQuota <= day /\ row[u].lastQuota # Never
  <2>1. row[u] \in Row /\ day \in Nat
    BY DEF TypeOK, Days
  <2>2. StreakCounts(row[u], paid[u]) /\ row[u].rewarded <= day
    BY DEF LateInv, PaidInv
  <2> QED
    BY <2>1, <2>2, RowFields DEF StreakCounts
<1>2. ASSUME NEW d \in Nat, row[u].lastQuota <= d, ContinuityBroken(row[u], d)
      PROVE  row[u].lastQuota + 1 < d
  BY <1>1, <1>2 DEF ContinuityBroken
<1>3. CASE \E v \in Users : CountMessage(v)
  <2>1. PICK v \in Users : CountMessage(v)
    BY <1>3
  <2>2. v = u
    BY <2>1 DEF CountMessage, TypeOK
  <2> DEFINE d == job[u].day
             s == Normalized(row[u], d)
  <2>3. job[u] # NoJob /\ d \in Days /\ d \in Dates
    BY <2>1, <2>2 DEF CountMessage, TypeOK, Dates
  <2>4. row[u].lastQuota <= d /\ d <= day
    BY <2>3 DEF LateInv, PaidInv, StreakCounts
  <2>5. row'[u] = Completed(s, d) \/ row'[u] = Counted(s)
    BY <2>1, <2>2 DEF CountMessage, TypeOK
  <2>6. s \in Row /\ s.streak = IF ContinuityBroken(row[u], d) THEN 0 ELSE row[u].streak
    BY <1>1, <2>3, NormalizedType, NormalizedKeeps
  <2> HIDE DEF s
  <2>7. row'[u].streak = s.streak + 1 \/ row'[u].streak = s.streak
    BY <2>3, <2>5, <2>6, CountedKeeps
  <2>8. s.streak \in Nat
    BY <2>6, RowFields
  <2>9. ContinuityBroken(row[u], d)
    BY <2>6, <2>7, <2>8
  <2>10. d \in Nat
    BY <2>3 DEF Days
  <2> HIDE DEF d
  <2> QED
    BY <1>1, <1>2, <2>4, <2>9, <2>10
<1>4. CASE \A v \in Users : ~CountMessage(v)
  <2>1. \/ ContinuityBroken(row[u], day)
        \/ \E r \in Runs : run[r].pc = "claim" /\ ContinuityBroken(row[u], run[r].day)
    BY <1>4, StreakStep DEF StreakEnds
  <2>2. CASE ContinuityBroken(row[u], day)
    BY <1>1, <1>2, <2>2
  <2>3. ASSUME NEW r \in Runs, run[r].pc = "claim", ContinuityBroken(row[u], run[r].day)
        PROVE  row[u].lastQuota + 1 < day \/ run[r].day < day
    <3>1. run[r].day \in Nat /\ run[r].day <= day
      BY <2>3 DEF LateInv, RunsInv, NoRun, Days
    <3>2. CASE run[r].day = day
      BY <1>1, <1>2, <2>3, <3>2
    <3> QED
      BY <1>1, <3>1, <3>2
  <2> QED
    BY <2>1, <2>2, <2>3
<1> QED
  BY <1>3, <1>4

\* Who completed today or yesterday loses his streak to nothing but a reminder
\* run that began before midnight (StreakLostToLateRun).
THEOREM StreakLostToLateRunCorrect == Spec => StreakLostToLateRun
<1>1. TypeOK /\ LateInv /\ [Next]_vars
      => [\A u \in Users :
            row[u].streak > 0 /\ row'[u].streak = 0 =>
                \/ row[u].lastQuota + 1 < day
                \/ \E r \in Runs : run[r].pc = "claim" /\ run[r].day < day]_vars
  BY LostStep
<1> QED
  BY <1>1, InitLate, NextLate, TypeCorrect, PTL DEF Spec, StreakLostToLateRun
=============================================================================
