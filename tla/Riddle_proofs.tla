--------------------------- MODULE Riddle_proofs ---------------------------
(***************************************************************************)
(* A riddle pays all its winners or nobody, its post is pinned while it    *)
(* takes guesses, and the publication, the guesses, the stop and the       *)
(* cleanup together implement the contest of RiddleContest; for any number *)
(* of riddles, answers, members and handlers, and every fault.             *)
(*                                                                         *)
(* The invariant says of each handler what the statements before the one   *)
(* it stands at have established, of each row which of its columns go      *)
(* together, and of the cleanup that what it has listed stays expired.     *)
(* The advisory lock keeps two riddles from being open at once and two     *)
(* guesses from claiming one answer.  Activation and cleanup do without    *)
(* it: the first because a riddle has one publisher, the second because    *)
(* it waits for the row that a guess has read FOR UPDATE.                  *)
(***************************************************************************)
EXTENDS Riddle, TLAPS

USE RiddleAssumption

TaskType == [step : Steps, at : Nat, riddle : Riddles \cup {Nobody},
             user : Users \cup {Nobody}, answer : Answers \cup {Nobody}]
States == {"none", "publishing", "active", "completed", "stopped", "gone"}
Awards == [Answers -> Users \cup {Nobody}]

Publishing == {"send", "pin", "activate", "withdraw", "abort"}

\* What the statements a handler has executed have established.
HandlerOK(w) ==
    LET t == task[w]
        r == task[w].riddle
    IN
    /\ t.step \in {"insert", "claim"} => lock = w
    /\ t.step = "insert" => Blocking = {}
    /\ t.step \in Publishing => r \in Riddles /\ riddle[r] # "none"
    /\ t.step = "activate" /\ riddle[r] = "publishing" => r \in pinned
    /\ t.step \in {"guess", "claim"} => t.user \in Users /\ t.answer \in Answers
    /\ t.step = "claim" => /\ r \in Riddles /\ riddle[r] = "active"
                           /\ t.answer \in AnswersOf[r] /\ winner[r][t.answer] = Nobody
    /\ t.step = "announce" => r \in Riddles /\ riddle[r] \in {"completed", "gone"}
    /\ t.step = "takedown" => r \in Riddles /\ riddle[r] \in {"stopped", "gone"}

\* Which columns of a row, rewards and posts go together.
RowOK(r) ==
    /\ riddle[r] \in {"none", "publishing"} => winner[r] = NoWinner
    /\ riddle[r] # "completed" => paid[r] = NoWinner
    /\ riddle[r] = "completed" => /\ paid[r] = winner[r]
                                  /\ \A a \in AnswersOf[r] : winner[r][a] # Nobody
    /\ riddle[r] = "active" => expires[r] > 0
    /\ riddle[r] = "active" /\ expires[r] > now /\ r \notin denied => r \in pinned

\* What the cleanup has listed stays expired.
JobOK ==
    /\ job.at <= now
    /\ \A r \in job.todo : /\ riddle[r] \notin {"none", "publishing"}
                           /\ riddle[r] = "active" => expires[r] <= now

OneOpen == \A r, s \in Blocking : r = s
OnePublisher ==
    \A v, w \in Workers :
        v # w /\ task[v].step \in Publishing /\ task[w].step \in Publishing =>
            task[v].riddle # task[w].riddle
HandlersOK == \A w \in Workers : HandlerOK(w)
RowsOK == \A r \in Riddles : RowOK(r)

Inv == HandlersOK /\ RowsOK /\ JobOK /\ OneOpen /\ OnePublisher

-----------------------------------------------------------------------------
(* What the handlers' moves do to the table of handlers.                    *)

OthersStay(w) == \A v \in Workers \ {w} : task'[v] = task[v]

LEMMA GotoMoves ==
    ASSUME task \in [Workers -> TaskType], NEW w \in Workers, NEW s \in Steps, Goto(w, s)
    PROVE  /\ task' \in [Workers -> TaskType] /\ OthersStay(w)
           /\ task'[w].step = s /\ task'[w].at = task[w].at
           /\ task'[w].riddle = task[w].riddle
           /\ task'[w].user = task[w].user /\ task'[w].answer = task[w].answer
BY DEF Goto, OthersStay, TaskType

LEMMA ReturnMoves ==
    ASSUME task \in [Workers -> TaskType], NEW w \in Workers, Return(w)
    PROVE  /\ task' \in [Workers -> TaskType] /\ OthersStay(w)
           /\ task'[w] = Idle /\ task'[w].step = "idle"
BY DEF Return, Idle, OthersStay, TaskType, Steps

LEMMA GoOnMoves ==
    ASSUME task \in [Workers -> TaskType], NEW w \in Workers, NEW s \in Steps,
           NEW r \in Riddles, GoOn(w, s, r)
    PROVE  /\ task' \in [Workers -> TaskType] /\ OthersStay(w)
           /\ task'[w].step = s /\ task'[w].riddle = r
           /\ task'[w].user = Nobody /\ task'[w].answer = Nobody
BY DEF GoOn, Idle, OthersStay, TaskType

LEMMA BeginMoves ==
    ASSUME task \in [Workers -> TaskType], NEW w \in Workers, NEW t \in TaskType, Begin(w, t)
    PROVE  /\ task' \in [Workers -> TaskType] /\ OthersStay(w)
           /\ task'[w] = t /\ At(w, "idle")
BY DEF Begin, OthersStay

LEMMA TypeInit == Init => TypeOK
<1>1. SUFFICES ASSUME Init PROVE TypeOK
  OBVIOUS
<1>2. /\ riddle \in [Riddles -> States] /\ expires \in [Riddles -> Nat]
      /\ winner \in [Riddles -> Awards] /\ paid \in [Riddles -> Awards]
      /\ pinned \subseteq Riddles /\ members \subseteq Users /\ now \in Nat
      /\ denied \subseteq Riddles /\ lock = Nobody
  BY <1>1 DEF Init, NoWinner, Awards, States
<1>3. task \in [Workers -> TaskType]
  BY <1>1 DEF Init, Idle, TaskType, Steps
<1>4. job \in [step : {"idle", "list", "messages"}, at : Nat, todo : SUBSET Riddles]
  BY <1>1 DEF Init, JobIdle
<1>5. QED
  BY <1>2, <1>3, <1>4 DEF TypeOK, TaskType, States, Awards

LEMMA TypePublication ==
    ASSUME TypeOK, NEW w \in Workers, HandlerOK(w), Publication(w)
    PROVE  TypeOK'
<1> USE DEF States, Awards
<1>0. task \in [Workers -> TaskType] /\ task[w] \in TaskType
  BY DEF TypeOK, TaskType
<1>1. CASE Publish(w)
  <2>1. [Idle EXCEPT !.step = "create", !.at = now] \in TaskType
    BY DEF TypeOK, Idle, TaskType, Steps
  <2>2. task' \in [Workers -> TaskType] /\ OthersStay(w) /\ At(w, "idle")
    BY <1>0, <1>1, <2>1, BeginMoves DEF Publish
  <2>3. QED
    BY <1>1, <2>2 DEF Publish, TypeOK, rows, TaskType, OthersStay, At
<1>2. CASE CreateLock(w)
  <2>1. task' \in [Workers -> TaskType] /\ OthersStay(w) /\ (lock' = w => task'[w].step = "insert")
    BY <1>0, <1>2, GotoMoves, ReturnMoves DEF CreateLock, Steps, LockFree
  <2>2. QED
    BY <1>2, <2>1 DEF CreateLock, TypeOK, rows, TaskType, OthersStay, LockFree
<1>3. CASE CreateInsert(w)
  <2>1. task' \in [Workers -> TaskType] /\ OthersStay(w)
    BY <1>0, <1>3, GoOnMoves, ReturnMoves DEF CreateInsert, Steps
  <2>2. task[w].at + TTL \in Nat
    BY <1>0 DEF TaskType
  <2>3. QED
    BY <1>3, <2>1, <2>2 DEF CreateInsert, TypeOK, TaskType, OthersStay
<1>4. CASE Send(w)
  <2>1. task' \in [Workers -> TaskType] /\ OthersStay(w)
    BY <1>0, <1>4, GotoMoves DEF Send, Steps
  <2>2. QED
    BY <1>4, <2>1 DEF Send, At, TypeOK, rows, TaskType, OthersStay
<1>5. CASE Pin(w)
  <2>1. task' \in [Workers -> TaskType] /\ OthersStay(w)
    BY <1>0, <1>5, GotoMoves DEF Pin, Steps
  <2>2. task[w].riddle \in Riddles
    BY <1>5 DEF Pin, At, HandlerOK, Publishing
  <2>3. /\ pinned' \subseteq Riddles /\ task[w].step = "pin"
        /\ UNCHANGED <<riddle, expires, winner, lock, job, members, now, paid, denied>>
    BY <1>5, <2>2 DEF Pin, At, TypeOK, rows
  <2>4. QED
    BY <2>1, <2>3 DEF TypeOK, TaskType, OthersStay
<1>6. CASE Activate(w)
  <2>1. task' \in [Workers -> TaskType] /\ OthersStay(w)
    BY <1>0, <1>6, GotoMoves, ReturnMoves DEF Activate, Steps
  <2>2. task[w].riddle \in Riddles /\ now + TTL \in Nat
    BY <1>6 DEF Activate, At, HandlerOK, Publishing, TypeOK
  <2>3. /\ riddle' \in [Riddles -> States] /\ expires' \in [Riddles -> Nat]
        /\ UNCHANGED <<winner, pinned, lock, job, members, now, paid, denied>>
        /\ task[w].step = "activate"
    <3>1. Activated(task[w].riddle) \/ UNCHANGED <<riddle, expires>>
      BY <1>6 DEF Activate
    <3>2. riddle' \in [Riddles -> States] /\ expires' \in [Riddles -> Nat]
      <4>1. CASE Activated(task[w].riddle)
        BY <2>2, <4>1 DEF Activated, TypeOK
      <4>2. CASE UNCHANGED <<riddle, expires>>
        BY <4>2 DEF TypeOK
      <4>3. QED
        BY <3>1, <4>1, <4>2
    <3>3. QED
      BY <1>6, <3>2 DEF Activate, At
  <2>4. QED
    BY <2>1, <2>3 DEF TypeOK, TaskType, OthersStay
<1>7. CASE Withdraw(w)
  <2>1. task' \in [Workers -> TaskType] /\ OthersStay(w)
    BY <1>0, <1>7, GotoMoves DEF Withdraw, Steps
  <2>2. /\ denied' \subseteq Riddles /\ pinned' \subseteq Riddles /\ task[w].step = "withdraw"
        /\ UNCHANGED <<riddle, expires, winner, lock, job, members, now, paid>>
    BY <1>7 DEF Withdraw, Unpins, Active, At, TypeOK, rows
  <2>3. QED
    BY <2>1, <2>2 DEF TypeOK, TaskType, OthersStay
<1>8. CASE Abort(w)
  <2>1. task' \in [Workers -> TaskType] /\ OthersStay(w)
    BY <1>0, <1>8, ReturnMoves DEF Abort
  <2>2. /\ Vanish({task[w].riddle}) \/ UNCHANGED <<riddle, expires, pinned, denied>>
        /\ UNCHANGED <<winner, lock, job, members, now, paid>>
        /\ task[w].step = "abort"
    BY <1>8 DEF Abort, At
  <2>3. /\ riddle' \in [Riddles -> States] /\ expires' \in [Riddles -> Nat]
        /\ denied' \subseteq Riddles /\ pinned' \subseteq Riddles
    <3>1. CASE Vanish({task[w].riddle})
      BY <3>1 DEF Vanish, TypeOK
    <3>2. CASE UNCHANGED <<riddle, expires, pinned, denied>>
      BY <3>2 DEF TypeOK
    <3>3. QED
      BY <2>2, <3>1, <3>2
  <2>4. QED
    BY <2>1, <2>2, <2>3 DEF TypeOK, TaskType, OthersStay
<1>9. QED
  BY <1>1, <1>2, <1>3, <1>4, <1>5, <1>6, <1>7, <1>8 DEF Publication

LEMMA TypeGuessing ==
    ASSUME TypeOK, NEW w \in Workers, HandlerOK(w), Guessing(w)
    PROVE  TypeOK'
<1> USE DEF States, Awards
<1>0. task \in [Workers -> TaskType] /\ task[w] \in TaskType
  BY DEF TypeOK, TaskType
<1>1. ASSUME NEW u \in Users, NEW a \in Answers, Guess(w, u, a)
      PROVE  TypeOK'
  <2>1. [Idle EXCEPT !.step = "guess", !.at = now, !.user = u, !.answer = a] \in TaskType
    BY DEF TypeOK, Idle, TaskType, Steps
  <2>2. task' \in [Workers -> TaskType] /\ OthersStay(w) /\ At(w, "idle")
    BY <1>0, <1>1, <2>1, BeginMoves DEF Guess
  <2>3. QED
    BY <1>1, <2>2 DEF Guess, TypeOK, rows, TaskType, OthersStay, At
<1>2. CASE GuessLock(w)
  <2>1. task' \in [Workers -> TaskType] /\ OthersStay(w) /\ (lock' = w => task'[w].step = "claim")
    <3>1. CASE Open(w) = {}
      BY <1>0, <1>2, <3>1, ReturnMoves DEF GuessLock, LockFree
    <3>2. CASE Open(w) # {}
      <4>1. PICK r \in Riddles : task' = [task EXCEPT ![w].step = "claim", ![w].riddle = r]
        BY <1>2, <3>2 DEF GuessLock, Open, Active
      <4>2. QED
        BY <1>0, <4>1 DEF OthersStay, TaskType, Steps
    <3>3. QED
      BY <3>1, <3>2
  <2>2. QED
    BY <1>2, <2>1 DEF GuessLock, TypeOK, rows, TaskType, OthersStay, LockFree
<1>3. CASE ClaimAnswer(w)
  <2>1. task' \in [Workers -> TaskType] /\ OthersStay(w)
    BY <1>0, <1>3, ReturnMoves DEF ClaimAnswer, AfterCommit
  <2>2. Claimed(w) \in Awards /\ task[w].riddle \in Riddles
    BY <1>3 DEF ClaimAnswer, Claimed, HandlerOK, At, TypeOK
  <2>3. QED
    BY <1>3, <2>1, <2>2 DEF ClaimAnswer, AfterCommit, TypeOK, TaskType, OthersStay
<1>4. CASE CompleteRiddle(w)
  <2>2. Claimed(w) \in Awards /\ task[w].riddle \in Riddles /\ task[w].at + TTL \in Nat
    BY <1>0, <1>4 DEF CompleteRiddle, Claimed, HandlerOK, At, TypeOK, TaskType
  <2>1. task' \in [Workers -> TaskType] /\ OthersStay(w)
    BY <1>0, <1>4, <2>2, GoOnMoves, ReturnMoves DEF CompleteRiddle, AfterCommit, Steps
  <2>3. QED
    BY <1>4, <2>1, <2>2 DEF CompleteRiddle, AfterCommit, TypeOK, TaskType, OthersStay
<1>5. CASE RollBack(w)
  <2>1. task' \in [Workers -> TaskType] /\ OthersStay(w)
    BY <1>0, <1>5, ReturnMoves DEF RollBack
  <2>2. QED
    BY <1>5, <2>1 DEF RollBack, TypeOK, rows, TaskType, OthersStay
<1>6. CASE Announce(w)
  <2>1. task' \in [Workers -> TaskType] /\ OthersStay(w)
    BY <1>0, <1>6, ReturnMoves DEF Announce
  <2>2. QED
    BY <1>6, <2>1 DEF Announce, Unpins, At, TypeOK, rows, TaskType, OthersStay
<1>7. QED
  BY <1>1, <1>2, <1>3, <1>4, <1>5, <1>6 DEF Guessing

LEMMA TypeStopping ==
    ASSUME TypeOK, NEW w \in Workers, Stopping(w)
    PROVE  TypeOK'
<1> USE DEF States, Awards
<1>0. task \in [Workers -> TaskType] /\ task[w] \in TaskType
  BY DEF TypeOK, TaskType
<1>1. CASE Stop(w)
  <2>1. [Idle EXCEPT !.step = "stop", !.at = now] \in TaskType
    BY DEF TypeOK, Idle, TaskType, Steps
  <2>2. task' \in [Workers -> TaskType] /\ OthersStay(w) /\ At(w, "idle")
    BY <1>0, <1>1, <2>1, BeginMoves DEF Stop
  <2>3. QED
    BY <1>1, <2>2 DEF Stop, TypeOK, rows, TaskType, OthersStay, At
<1>2. CASE StopActive(w)
  <2>1. task' \in [Workers -> TaskType] /\ OthersStay(w)
    BY <1>0, <1>2, GoOnMoves, ReturnMoves DEF StopActive, Active, Steps
  <2>2. task[w].at + TTL \in Nat
    BY <1>0 DEF TaskType
  <2>3. riddle' \in [Riddles -> States] /\ expires' \in [Riddles -> Nat]
    <3>1. CASE UNCHANGED <<riddle, expires>>
      BY <3>1 DEF TypeOK
    <3>2. ASSUME NEW r \in Riddles, riddle' = [riddle EXCEPT ![r] = "stopped"],
                 expires' = [expires EXCEPT ![r] = task[w].at + TTL]
          PROVE  riddle' \in [Riddles -> States] /\ expires' \in [Riddles -> Nat]
      BY <2>2, <3>2 DEF TypeOK
    <3>3. QED
      BY <1>2, <3>1, <3>2 DEF StopActive, Active
  <2>4. lock = Nobody /\ UNCHANGED <<winner, pinned, lock, job, members, now, paid, denied>>
    BY <1>2 DEF StopActive, LockFree
  <2>5. QED
    BY <2>1, <2>3, <2>4 DEF TypeOK, TaskType
<1>3. CASE TakeDown(w)
  <2>1. task' \in [Workers -> TaskType] /\ OthersStay(w)
    BY <1>0, <1>3, ReturnMoves DEF TakeDown
  <2>2. QED
    BY <1>3, <2>1 DEF TakeDown, Unpins, At, TypeOK, rows, TaskType, OthersStay
<1>4. QED
  BY <1>1, <1>2, <1>3 DEF Stopping

LEMMA TypeCleanup ==
    ASSUME TypeOK, Cleanup
    PROVE  TypeOK'
<1> USE DEF States, Awards
<1>1. CASE CleanupBegin \/ ListExpired \/ CleanupFails
  <2>1. job' \in [step : {"idle", "list", "messages"}, at : Nat, todo : SUBSET Riddles]
    <3>1. CASE ListExpired
      BY <3>1 DEF ListExpired, TypeOK
    <3>2. CASE CleanupBegin
      <4>1. job' = [step |-> "list", at |-> now, todo |-> {}]
        BY <3>2 DEF CleanupBegin, JobIdle
      <4>2. QED
        BY <4>1 DEF TypeOK
    <3>4. CASE CleanupFails
      BY <3>4 DEF CleanupFails, JobIdle
    <3>3. QED
      BY <1>1, <3>1, <3>2, <3>4
  <2>2. UNCHANGED <<rows, pinned, lock, task, members, now, paid, denied>>
    BY <1>1 DEF CleanupBegin, ListExpired, CleanupFails
  <2>3. QED
    BY <2>1, <2>2 DEF rows, TypeOK
<1>2. CASE CleanupExpired
  BY <1>2 DEF CleanupExpired, Deleted, Vanish, NoWinner, JobIdle, TypeOK
<1>3. ASSUME NEW r \in Riddles, CleanupMessage(r)
      PROVE  TypeOK'
  BY <1>3 DEF CleanupMessage, Unpins, rows, TypeOK
<1>4. QED
  BY <1>1, <1>2, <1>3 DEF Cleanup

LEMMA TypeNext ==
    ASSUME TypeOK, Inv, [Next]_vars
    PROVE  TypeOK'
<1>1. ASSUME NEW w \in Workers, Publication(w) \/ Guessing(w) \/ Stopping(w)
      PROVE  TypeOK'
  BY <1>1, TypePublication, TypeGuessing, TypeStopping DEF Inv, HandlersOK
<1>2. CASE Cleanup
  BY <1>2, TypeCleanup
<1>3. ASSUME NEW u \in Users, Purge(u) \/ Seen(u)
      PROVE  TypeOK'
  BY <1>3 DEF Purge, Seen, rows, TypeOK
<1>4. CASE TimePasses
  BY <1>4 DEF TimePasses, rows, TypeOK
<1>5. CASE Crash
  BY <1>5 DEF Crash, rows, TypeOK, Idle, JobIdle, Steps
<1>6. CASE UNCHANGED vars
  BY <1>6 DEF vars, rows, TypeOK
<1>7. QED
  BY <1>1, <1>2, <1>3, <1>4, <1>5, <1>6 DEF Next

-----------------------------------------------------------------------------
(* A step of handler w (of none of them, if w is Nobody) and the others.     *)

\* The riddle that w is publishing.
Own(w) == {r \in Riddles : w \in Workers /\ task[w].step \in Publishing /\ task[w].riddle = r}

\* What such a step may do to rows, posts and locks that others rely on.
Harmless(w) ==
    /\ lock \notin {w, Nobody} => lock' = lock /\ Blocking' \subseteq Blocking
    /\ \A r \in Riddles :
        /\ riddle[r] # "none" => riddle'[r] # "none"
        /\ riddle[r] = "gone" => riddle'[r] = "gone"
        /\ riddle[r] \in {"completed", "stopped"} => riddle'[r] \in {riddle[r], "gone"}
        /\ riddle'[r] = "publishing" => riddle[r] \in {"none", "publishing"}
        /\ r \in pinned /\ riddle'[r] = "publishing" => r \in pinned' \/ r \in Own(w)
        /\ \A v \in Workers \ {w} : task[v].step = "claim" /\ task[v].riddle = r =>
               riddle'[r] = riddle[r] /\ winner'[r] = winner[r]

\* A riddle is published by the handler that has inserted its row.
OwnOrNew(w) ==
    task'[w].step \in Publishing =>
        \/ task[w].step \in Publishing /\ task'[w].riddle = task[w].riddle
        \/ riddle[task'[w].riddle] = "none"

LEMMA NobodyWorks == Nobody \notin Workers /\ Workers \ {Nobody} = Workers
OBVIOUS

\* ... leaves what another handler has established
LEMMA OtherHandlerOK ==
    ASSUME TypeOK, Inv, NEW w \in Workers \cup {Nobody}, OthersStay(w), Harmless(w),
           NEW v \in Workers \ {w}
    PROVE  HandlerOK(v)'
<1>1. task'[v] = task[v] /\ HandlerOK(v)
  BY DEF OthersStay, Inv, HandlersOK
<1>2. task[v].step \in {"insert", "claim"} => lock' = v
  BY <1>1 DEF HandlerOK, Harmless
<1>3. task[v].step = "insert" => Blocking' = {}
  BY <1>1 DEF HandlerOK, Harmless
<1>4. task[v].step \in Publishing => task[v].riddle \in Riddles /\ riddle'[task[v].riddle] # "none"
  BY <1>1 DEF HandlerOK, Harmless
<1>5. task[v].step = "activate" /\ riddle'[task[v].riddle] = "publishing" =>
          task[v].riddle \in pinned'
  <2>1. SUFFICES ASSUME task[v].step = "activate", riddle'[task[v].riddle] = "publishing"
                 PROVE  task[v].riddle \in pinned'
    OBVIOUS
  <2>2. task[v].step \in Publishing /\ task[v].riddle \in Riddles /\ task[v].riddle \in pinned
    BY <1>1, <2>1 DEF HandlerOK, Harmless, Publishing
  <2>3. task[v].riddle \notin Own(w)
    BY <2>2 DEF Inv, OnePublisher, Own
  <2>4. QED
    BY <2>1, <2>2, <2>3 DEF Harmless
<1>6. task[v].step \in {"guess", "claim"} => task[v].user \in Users /\ task[v].answer \in Answers
  BY <1>1 DEF HandlerOK
<1>7. task[v].step = "claim" =>
          /\ task[v].riddle \in Riddles /\ riddle'[task[v].riddle] = "active"
          /\ task[v].answer \in AnswersOf[task[v].riddle]
          /\ winner'[task[v].riddle][task[v].answer] = Nobody
  BY <1>1 DEF HandlerOK, Harmless
<1>8. /\ task[v].step = "announce" =>
             task[v].riddle \in Riddles /\ riddle'[task[v].riddle] \in {"completed", "gone"}
      /\ task[v].step = "takedown" =>
             task[v].riddle \in Riddles /\ riddle'[task[v].riddle] \in {"stopped", "gone"}
  BY <1>1 DEF HandlerOK, Harmless
<1>9. QED
  BY <1>1, <1>2, <1>3, <1>4, <1>5, <1>6, <1>7, <1>8 DEF HandlerOK, Blocking

\* ... so that its own handler, the rows and the cleanup remain to be looked at.
LEMMA HandlerStep ==
    ASSUME TypeOK, Inv, NEW w \in Workers, OthersStay(w), Harmless(w), OwnOrNew(w),
           HandlerOK(w)', RowsOK', JobOK', OneOpen'
    PROVE  Inv'
<1>1. HandlersOK'
  BY OtherHandlerOK DEF HandlersOK
<1>2. OnePublisher'
  <2>1. \A v \in Workers \ {w} : task[v].step \in Publishing => riddle[task[v].riddle] # "none"
    BY DEF Inv, HandlersOK, HandlerOK
  <2>2. QED
    BY <2>1 DEF OnePublisher, Inv, OwnOrNew, OthersStay
<1>3. QED
  BY <1>1, <1>2 DEF Inv

LEMMA OtherStep ==
    ASSUME TypeOK, Inv, UNCHANGED task, Harmless(Nobody), RowsOK', JobOK', OneOpen'
    PROVE  Inv'
<1>1. HandlersOK'
  BY OtherHandlerOK, NobodyWorks DEF HandlersOK, OthersStay
<1>2. OnePublisher'
  BY DEF OnePublisher, Inv
<1>3. QED
  BY <1>1, <1>2 DEF Inv

\* A step that leaves the rows, the posts and the clock as they are.
LEMMA RowsStay ==
    ASSUME Inv, UNCHANGED <<rows, pinned, job, now, paid, denied>>
    PROVE  RowsOK' /\ JobOK' /\ OneOpen' /\ Blocking' = Blocking
BY DEF Inv, RowsOK, RowOK, JobOK, OneOpen, Blocking, rows

LEMMA MoveOnly ==
    ASSUME TypeOK, Inv, NEW w \in Workers, OthersStay(w), OwnOrNew(w),
           UNCHANGED <<rows, pinned, job, now, paid, denied>>,
           lock' = lock \/ lock \in {w, Nobody},
           HandlerOK(w)'
    PROVE  Inv'
<1>1. RowsOK' /\ JobOK' /\ OneOpen' /\ Blocking' = Blocking
  BY RowsStay
<1>2. Harmless(w)
  BY <1>1 DEF Harmless, rows
<1>3. QED
  BY <1>1, <1>2, HandlerStep

\* The post of a riddle that has ended is taken down.
LEMMA UnpinsOnly ==
    ASSUME TypeOK, Inv, NEW w \in Workers, NEW r \in Riddles,
           riddle[r] \notin {"none", "publishing", "active"},
           Unpins(r), Return(w), UNCHANGED <<rows, lock, job, now, paid, denied>>
    PROVE  Inv'
<1>1. OthersStay(w) /\ task'[w].step = "idle"
  BY ReturnMoves DEF TypeOK, TaskType
<1>2. HandlerOK(w)' /\ OwnOrNew(w)
  BY <1>1 DEF HandlerOK, OwnOrNew, Publishing
<1>3. RowsOK'
  BY DEF Inv, RowsOK, RowOK, Unpins, rows
<1>4. JobOK' /\ OneOpen'
  BY DEF Inv, JobOK, OneOpen, Blocking, rows
<1>5. Harmless(w)
  BY DEF Harmless, Blocking, Unpins, rows
<1>6. QED
  BY <1>1, <1>2, <1>3, <1>4, <1>5, HandlerStep

LEMMA PublicationInv ==
    ASSUME TypeOK, TypeOK', Inv, NEW w \in Workers, Publication(w)
    PROVE  Inv'
<1>0. /\ task \in [Workers -> TaskType] /\ task[w] \in TaskType /\ HandlerOK(w)
      /\ RowsOK /\ JobOK /\ OneOpen /\ TTL \in Nat \ {0} /\ now \in Nat
  BY DEF TypeOK, TaskType, Inv, HandlersOK
<1>1. CASE Publish(w)
  <2>1. [Idle EXCEPT !.step = "create", !.at = now] \in TaskType
    BY DEF TypeOK, Idle, TaskType, Steps
  <2>2. OthersStay(w) /\ task'[w].step = "create"
    <3>1. [Idle EXCEPT !.step = "create", !.at = now].step = "create"
      BY DEF Idle
    <3>2. QED
      BY <1>0, <1>1, <2>1, <3>1, BeginMoves DEF Publish
  <2>3. HandlerOK(w)' /\ OwnOrNew(w)
    BY <2>2 DEF HandlerOK, OwnOrNew, Publishing
  <2>4. QED
    BY <1>1, <2>2, <2>3, MoveOnly DEF Publish
<1>2. CASE CreateLock(w)
  <2>1. OthersStay(w)
    BY <1>0, <1>2, GotoMoves, ReturnMoves DEF CreateLock, Steps
  <2>2. \/ task'[w].step = "idle"
        \/ task'[w].step = "insert" /\ lock' = w /\ Blocking = {}
    BY <1>0, <1>2, GotoMoves, ReturnMoves DEF CreateLock, Steps
  <2>3. UNCHANGED <<rows, pinned, job, now, paid, denied>> /\ lock = Nobody
    BY <1>2 DEF CreateLock, LockFree
  <2>4. HandlerOK(w)' /\ OwnOrNew(w)
    BY <2>2, <2>3 DEF HandlerOK, OwnOrNew, Publishing, rows, Blocking
  <2>5. QED
    BY <2>1, <2>3, <2>4, MoveOnly
<1>3. CASE CreateInsert(w)
  <2>1. PICK r \in Riddles :
            /\ riddle[r] = "none"
            /\ riddle' = [riddle EXCEPT ![r] = "publishing"]
            /\ expires' = [expires EXCEPT ![r] = task[w].at + TTL]
            /\ GoOn(w, "send", r) \/ Return(w)
    BY <1>3 DEF CreateInsert
  <2>2. /\ lock = w /\ Blocking = {}
        /\ lock' = Nobody /\ UNCHANGED <<winner, pinned, job, now, paid, denied>>
    BY <1>0, <1>3 DEF CreateInsert, At, HandlerOK
  <2>3. OthersStay(w) /\ (task'[w].step = "idle" \/ (task'[w].step = "send" /\ task'[w].riddle = r))
    <3>1. CASE GoOn(w, "send", r)
      BY <1>0, <3>1, GoOnMoves DEF Steps
    <3>2. Return(w) => OthersStay(w) /\ task'[w].step = "idle"
      BY <1>0, ReturnMoves
    <3>3. QED
      BY <2>1, <3>1, <3>2
  <2>4. riddle'[r] = "publishing"
           /\ \A s \in Riddles \ {r} : riddle'[s] = riddle[s] /\ expires'[s] = expires[s]
    BY <2>1 DEF TypeOK
  <2>5. HandlerOK(w)' /\ OwnOrNew(w)
    BY <2>1, <2>3, <2>4 DEF HandlerOK, OwnOrNew, Publishing
  <2>6. RowsOK'
    BY <1>0, <2>1, <2>2, <2>4 DEF RowsOK, RowOK
  <2>7. JobOK'
    BY <1>0, <2>1, <2>2, <2>4 DEF JobOK, TypeOK
  <2>8. OneOpen'
    BY <2>2, <2>4 DEF OneOpen, Blocking
  <2>9. Harmless(w)
    <3>1. \A v \in Workers \ {w} : task[v].step # "claim"
      BY <2>2 DEF Inv, HandlersOK, HandlerOK
    <3>2. QED
      BY <2>1, <2>2, <2>4, <3>1 DEF Harmless, TypeOK
  <2>10. QED
    BY <2>3, <2>5, <2>6, <2>7, <2>8, <2>9, HandlerStep
<1>4. CASE Send(w)
  <2>1. /\ OthersStay(w) /\ task'[w].step \in {"pin", "abort"}
        /\ task'[w].riddle = task[w].riddle /\ task[w].step = "send"
    BY <1>0, <1>4, GotoMoves DEF Send, Steps, At
  <2>2. HandlerOK(w)' /\ OwnOrNew(w)
    BY <1>0, <1>4, <2>1 DEF Send, HandlerOK, OwnOrNew, Publishing, rows
  <2>3. QED
    BY <1>4, <2>1, <2>2, MoveOnly DEF Send
<1>5. CASE Pin(w)
  <2>1. /\ OthersStay(w) /\ task'[w].riddle = task[w].riddle /\ task[w].step = "pin"
        /\ \/ pinned' = pinned \cup {task[w].riddle} /\ task'[w].step = "activate"
           \/ pinned' = pinned /\ task'[w].step = "withdraw"
        /\ UNCHANGED <<rows, lock, job, now, paid, denied>>
    BY <1>0, <1>5, GotoMoves DEF Pin, Steps, At
  <2>2. HandlerOK(w)' /\ OwnOrNew(w)
    BY <1>0, <2>1 DEF HandlerOK, OwnOrNew, Publishing, rows
  <2>3. RowsOK' /\ JobOK' /\ OneOpen'
    BY <1>0, <2>1 DEF RowsOK, RowOK, JobOK, OneOpen, Blocking, rows
  <2>4. Harmless(w)
    BY <2>1 DEF Harmless, Blocking, rows
  <2>5. QED
    BY <2>1, <2>2, <2>3, <2>4, HandlerStep
<1>6. CASE Activate(w)
  <2> DEFINE r == task[w].riddle
  <2>1. /\ r \in Riddles /\ task[w].step = "activate" /\ (riddle[r] = "publishing" => r \in pinned)
        /\ Activated(r) \/ UNCHANGED <<riddle, expires>>
        /\ UNCHANGED <<winner, pinned, lock, job, now, paid, denied>>
    BY <1>0, <1>6 DEF Activate, HandlerOK, At, Publishing
  <2>2. /\ OthersStay(w)
        /\ \/ task'[w].step = "idle"
           \/ task'[w].step = "withdraw" /\ task'[w].riddle = r
    <3>1. CASE Goto(w, "withdraw")
      BY <1>0, <3>1, GotoMoves DEF Steps
    <3>2. Return(w) => OthersStay(w) /\ task'[w].step = "idle"
      BY <1>0, ReturnMoves
    <3>3. QED
      BY <1>6, <3>1, <3>2 DEF Activate
  <2>3. CASE UNCHANGED <<riddle, expires>>
    <3>1. HandlerOK(w)' /\ OwnOrNew(w)
      BY <1>0, <2>1, <2>2, <2>3 DEF HandlerOK, OwnOrNew, Publishing
    <3>2. QED
      BY <2>1, <2>2, <2>3, <3>1, MoveOnly DEF rows
  <2>4. CASE Activated(r)
    <3>1. /\ riddle[r] = "publishing" /\ riddle'[r] = "active" /\ expires'[r] = now + TTL
          /\ \A s \in Riddles \ {r} : riddle'[s] = riddle[s] /\ expires'[s] = expires[s]
      BY <2>1, <2>4 DEF Activated, TypeOK
    <3>2. HandlerOK(w)' /\ OwnOrNew(w)
      BY <1>0, <2>1, <2>2, <3>1 DEF HandlerOK, OwnOrNew, Publishing
    <3>3. RowsOK'
      BY <1>0, <2>1, <3>1 DEF RowsOK, RowOK
    <3>4. JobOK'
      BY <1>0, <2>1, <3>1 DEF JobOK, TypeOK
    <3>5. Blocking' = Blocking
      BY <3>1 DEF Blocking
    <3>6. OneOpen'
      BY <1>0, <3>5 DEF OneOpen
    <3>7. Harmless(w)
      <4>1. \A v \in Workers : task[v].step = "claim" => task[v].riddle # r
        BY <3>1 DEF Inv, HandlersOK, HandlerOK
      <4>2. QED
        BY <2>1, <3>1, <3>5, <4>1 DEF Harmless
    <3>8. QED
      BY <2>2, <3>2, <3>3, <3>4, <3>6, <3>7, HandlerStep
  <2>5. QED
    BY <2>1, <2>3, <2>4
<1>7. CASE Withdraw(w)
  <2> DEFINE r == task[w].riddle
  <2>1. /\ r \in Riddles /\ task[w].step = "withdraw"
        /\ pinned' \in {pinned, pinned \ {r}} /\ denied' = denied \cup ({r} \cap Active(0))
        /\ UNCHANGED <<rows, lock, job, now, paid>>
    BY <1>0, <1>7 DEF Withdraw, Unpins, HandlerOK, At, Publishing
  <2>2. OthersStay(w) /\ task'[w].step = "abort" /\ task'[w].riddle = r
    BY <1>0, <1>7, GotoMoves DEF Withdraw, Steps
  <2>3. HandlerOK(w)' /\ OwnOrNew(w)
    BY <1>0, <2>1, <2>2 DEF HandlerOK, OwnOrNew, Publishing, rows
  <2>4. RowsOK'
    BY <1>0, <2>1 DEF RowsOK, RowOK, Active, rows
  <2>5. JobOK' /\ OneOpen'
    BY <1>0, <2>1 DEF JobOK, OneOpen, Blocking, rows
  <2>6. Harmless(w)
    BY <2>1 DEF Harmless, Blocking, Own, Publishing, rows
  <2>7. QED
    BY <2>2, <2>3, <2>4, <2>5, <2>6, HandlerStep
<1>8. CASE Abort(w)
  <2> DEFINE r == task[w].riddle
  <2>1. /\ r \in Riddles /\ lock = Nobody /\ UNCHANGED <<winner, lock, job, now, paid>>
        /\ \/ riddle[r] = "publishing" /\ Vanish({r})
           \/ UNCHANGED <<riddle, expires, pinned, denied>>
    BY <1>0, <1>8 DEF Abort, HandlerOK, At, Publishing, LockFree
  <2>2. OthersStay(w) /\ task'[w].step = "idle"
    BY <1>0, <1>8, ReturnMoves DEF Abort
  <2>3. HandlerOK(w)' /\ OwnOrNew(w)
    BY <2>2 DEF HandlerOK, OwnOrNew, Publishing
  <2>4. CASE UNCHANGED <<riddle, expires, pinned, denied>>
    BY <2>1, <2>2, <2>3, <2>4, MoveOnly DEF rows
  <2>5. CASE riddle[r] = "publishing" /\ Vanish({r})
    <3>1. /\ riddle'[r] = "gone" /\ pinned' = pinned \ {r} /\ denied' = denied \ {r}
          /\ \A s \in Riddles \ {r} : riddle'[s] = riddle[s] /\ expires'[s] = expires[s]
      BY <2>1, <2>5 DEF Vanish
    <3>2. RowsOK'
      BY <1>0, <2>1, <2>5, <3>1 DEF RowsOK, RowOK
    <3>3. JobOK'
      BY <1>0, <2>1, <2>5, <3>1 DEF JobOK, TypeOK
    <3>4. OneOpen'
      BY <1>0, <3>1 DEF OneOpen, Blocking
    <3>5. Harmless(w)
      <4>1. \A v \in Workers : task[v].step # "claim"
        BY <2>1 DEF Inv, HandlersOK, HandlerOK
      <4>2. QED
        BY <2>1, <2>5, <3>1, <4>1 DEF Harmless
    <3>6. QED
      BY <2>2, <2>3, <3>2, <3>3, <3>4, <3>5, HandlerStep
  <2>6. QED
    BY <2>1, <2>4, <2>5
<1>9. QED
  BY <1>1, <1>2, <1>3, <1>4, <1>5, <1>6, <1>7, <1>8 DEF Publication

LEMMA GuessingInv ==
    ASSUME TypeOK, TypeOK', Inv, NEW w \in Workers, Guessing(w)
    PROVE  Inv'
<1> DEFINE r == task[w].riddle
<1>0. /\ task \in [Workers -> TaskType] /\ task[w] \in TaskType /\ HandlerOK(w)
      /\ RowsOK /\ JobOK /\ OneOpen /\ TTL \in Nat \ {0} /\ now \in Nat
  BY DEF TypeOK, TaskType, Inv, HandlersOK
<1>1. ASSUME NEW u \in Users, NEW a \in Answers, Guess(w, u, a)
      PROVE  Inv'
  <2>1. /\ [Idle EXCEPT !.step = "guess", !.at = now, !.user = u, !.answer = a] \in TaskType
        /\ [Idle EXCEPT !.step = "guess", !.at = now, !.user = u, !.answer = a].step = "guess"
        /\ [Idle EXCEPT !.step = "guess", !.at = now, !.user = u, !.answer = a].user = u
        /\ [Idle EXCEPT !.step = "guess", !.at = now, !.user = u, !.answer = a].answer = a
    BY DEF TypeOK, Idle, TaskType, Steps
  <2>2. OthersStay(w) /\ task'[w].step = "guess" /\ task'[w].user = u /\ task'[w].answer = a
    BY <1>0, <1>1, <2>1, BeginMoves DEF Guess
  <2>3. HandlerOK(w)' /\ OwnOrNew(w)
    BY <2>2 DEF HandlerOK, OwnOrNew, Publishing
  <2>4. QED
    BY <1>1, <2>2, <2>3, MoveOnly DEF Guess
<1>2. CASE GuessLock(w)
  <2>1. /\ task[w].step = "guess" /\ lock = Nobody
        /\ UNCHANGED <<rows, pinned, job, now, paid, denied>>
    BY <1>2 DEF GuessLock, At, LockFree
  <2>2. CASE Open(w) = {}
    <3>1. OthersStay(w) /\ task'[w].step = "idle" /\ lock' = lock
      BY <1>0, <1>2, <2>2, ReturnMoves DEF GuessLock
    <3>2. HandlerOK(w)' /\ OwnOrNew(w)
      BY <3>1 DEF HandlerOK, OwnOrNew, Publishing
    <3>3. QED
      BY <2>1, <3>1, <3>2, MoveOnly
  <2>3. CASE Open(w) # {}
    <3>1. PICK s \in Open(w) : task' = [task EXCEPT ![w].step = "claim", ![w].riddle = s]
      BY <1>2, <2>3 DEF GuessLock
    <3>2. /\ s \in Riddles /\ riddle[s] = "active"
          /\ task[w].answer \in AnswersOf[s] /\ winner[s][task[w].answer] = Nobody
      BY DEF Open, Active
    <3>3. /\ OthersStay(w) /\ lock' = w /\ task'[w].step = "claim" /\ task'[w].riddle = s
          /\ task'[w].user = task[w].user /\ task'[w].answer = task[w].answer
      BY <1>0, <1>2, <2>3, <3>1, <3>2 DEF GuessLock, OthersStay, TaskType
    <3>4. HandlerOK(w)' /\ OwnOrNew(w)
      BY <1>0, <2>1, <3>2, <3>3 DEF HandlerOK, OwnOrNew, Publishing, rows
    <3>5. QED
      BY <2>1, <3>3, <3>4, MoveOnly
  <2>4. QED
    BY <2>2, <2>3
<1>3. ASSUME At(w, "claim")
      PROVE  /\ lock = w /\ r \in Riddles /\ riddle[r] = "active"
             /\ task[w].user \in Users /\ task[w].answer \in AnswersOf[r]
             /\ AnswersOf[r] \subseteq Answers /\ winner[r][task[w].answer] = Nobody
             /\ Claimed(w) = [winner[r] EXCEPT ![task[w].answer] = task[w].user]
             /\ \A v \in Workers \ {w} : task[v].step # "claim"
  BY <1>0, <1>3 DEF HandlerOK, At, Claimed, Inv, HandlersOK
<1>4. CASE ClaimAnswer(w)
  <2>1. /\ At(w, "claim") /\ lock' = Nobody /\ Return(w)
        /\ winner' = [winner EXCEPT ![r] = Claimed(w)]
        /\ UNCHANGED <<riddle, expires, pinned, job, now, paid, denied>>
    BY <1>3, <1>4 DEF ClaimAnswer, AfterCommit
  <2>2. OthersStay(w) /\ task'[w].step = "idle"
    BY <1>0, <2>1, ReturnMoves
  <2>3. HandlerOK(w)' /\ OwnOrNew(w)
    BY <2>2 DEF HandlerOK, OwnOrNew, Publishing
  <2>4. \A s \in Riddles \ {r} : winner'[s] = winner[s]
    BY <2>1 DEF TypeOK
  <2>5. RowsOK'
    BY <1>0, <1>3, <2>1, <2>4 DEF RowsOK, RowOK
  <2>6. JobOK' /\ OneOpen'
    BY <1>0, <2>1 DEF JobOK, OneOpen, Blocking
  <2>7. Harmless(w)
    BY <1>3, <2>1 DEF Harmless
  <2>8. QED
    BY <2>2, <2>3, <2>5, <2>6, <2>7, HandlerStep
<1>5. CASE CompleteRiddle(w)
  <2>1. /\ At(w, "claim") /\ lock' = Nobody /\ Complete(w)
        /\ GoOn(w, "announce", r) \/ Return(w)
        /\ winner' = [winner EXCEPT ![r] = Claimed(w)]
        /\ riddle' = [riddle EXCEPT ![r] = "completed"]
        /\ expires' = [expires EXCEPT ![r] = task[w].at + TTL]
        /\ paid' = [paid EXCEPT ![r] = Claimed(w)]
        /\ UNCHANGED <<pinned, job, now, denied>>
    BY <1>3, <1>5 DEF CompleteRiddle, AfterCommit
  <2>2. OthersStay(w) /\ (task'[w].step = "idle" \/ (task'[w].step = "announce" /\ task'[w].riddle = r))
    <3>1. CASE GoOn(w, "announce", r)
      BY <1>0, <1>3, <2>1, <3>1, GoOnMoves DEF Steps
    <3>2. Return(w) => OthersStay(w) /\ task'[w].step = "idle"
      BY <1>0, ReturnMoves
    <3>3. QED
      BY <2>1, <3>1, <3>2
  <2>3. /\ riddle'[r] = "completed" /\ winner'[r] = Claimed(w) /\ paid'[r] = Claimed(w)
        /\ \A s \in Riddles \ {r} : /\ riddle'[s] = riddle[s] /\ winner'[s] = winner[s]
                                    /\ paid'[s] = paid[s] /\ expires'[s] = expires[s]
    BY <1>3, <2>1 DEF TypeOK
  <2>4. HandlerOK(w)' /\ OwnOrNew(w)
    BY <1>3, <2>1, <2>2, <2>3 DEF HandlerOK, OwnOrNew, Publishing
  <2>5. RowsOK'
    <3>1. \A s \in Riddles : s = r => RowOK(s)'
      BY <2>1, <2>3 DEF RowOK, Complete
    <3>2. UNCHANGED <<pinned, now, denied>>
      BY <2>1
    <3>4. \A s \in Riddles \ {r} : RowOK(s)'
      BY <1>0, <2>3, <3>2 DEF RowsOK, RowOK
    <3>3. QED
      BY <3>1, <3>4 DEF RowsOK
  <2>6. JobOK'
    BY <1>0, <2>1, <2>3 DEF JobOK, TypeOK
  <2>7. OneOpen'
    BY <1>0, <2>3 DEF OneOpen, Blocking
  <2>8. Harmless(w)
    BY <1>3, <2>1, <2>3 DEF Harmless
  <2>9. QED
    BY <2>2, <2>4, <2>5, <2>6, <2>7, <2>8, HandlerStep
<1>6. CASE RollBack(w)
  <2>1. OthersStay(w) /\ task'[w].step = "idle"
    BY <1>0, <1>6, ReturnMoves DEF RollBack
  <2>2. /\ lock' = lock \/ lock \in {w, Nobody}
        /\ UNCHANGED <<rows, pinned, job, now, paid, denied>>
    BY <1>6 DEF RollBack
  <2>3. HandlerOK(w)' /\ OwnOrNew(w)
    BY <2>1 DEF HandlerOK, OwnOrNew, Publishing
  <2>4. QED
    BY <2>1, <2>2, <2>3, MoveOnly
<1>7. CASE Announce(w)
  BY <1>0, <1>7, UnpinsOnly DEF Announce, At, HandlerOK
<1>8. QED
  BY <1>1, <1>2, <1>4, <1>5, <1>6, <1>7 DEF Guessing

LEMMA StoppingInv ==
    ASSUME TypeOK, TypeOK', Inv, NEW w \in Workers, Stopping(w)
    PROVE  Inv'
<1>0. /\ task \in [Workers -> TaskType] /\ task[w] \in TaskType /\ HandlerOK(w)
      /\ RowsOK /\ JobOK /\ OneOpen /\ TTL \in Nat \ {0} /\ now \in Nat
  BY DEF TypeOK, TaskType, Inv, HandlersOK
<1>1. CASE Stop(w)
  <2>1. /\ [Idle EXCEPT !.step = "stop", !.at = now] \in TaskType
        /\ [Idle EXCEPT !.step = "stop", !.at = now].step = "stop"
    BY DEF TypeOK, Idle, TaskType, Steps
  <2>2. OthersStay(w) /\ task'[w].step = "stop"
    BY <1>0, <1>1, <2>1, BeginMoves DEF Stop
  <2>3. HandlerOK(w)' /\ OwnOrNew(w)
    BY <2>2 DEF HandlerOK, OwnOrNew, Publishing
  <2>4. QED
    BY <1>1, <2>2, <2>3, MoveOnly DEF Stop
<1>2. CASE StopActive(w)
  <2>0. lock = Nobody /\ UNCHANGED <<winner, pinned, lock, job, now, paid, denied>>
    BY <1>2 DEF StopActive, LockFree
  <2>1. CASE Active(task[w].at) = {}
    <3>1. OthersStay(w) /\ task'[w].step = "idle" /\ UNCHANGED <<riddle, expires>>
      BY <1>0, <1>2, <2>1, ReturnMoves DEF StopActive
    <3>2. HandlerOK(w)' /\ OwnOrNew(w)
      BY <3>1 DEF HandlerOK, OwnOrNew, Publishing
    <3>3. QED
      BY <2>0, <3>1, <3>2, MoveOnly DEF rows
  <2>2. CASE Active(task[w].at) # {}
    <3>1. PICK r \in Active(task[w].at) :
              /\ riddle' = [riddle EXCEPT ![r] = "stopped"]
              /\ expires' = [expires EXCEPT ![r] = task[w].at + TTL]
              /\ GoOn(w, "takedown", r) \/ Return(w)
      BY <1>2, <2>2 DEF StopActive
    <3>2. r \in Riddles /\ riddle[r] = "active"
      BY DEF Active
    <3>3. OthersStay(w) /\ (task'[w].step = "idle" \/ (task'[w].step = "takedown" /\ task'[w].riddle = r))
      <4>1. CASE GoOn(w, "takedown", r)
        BY <1>0, <3>2, <4>1, GoOnMoves DEF Steps
      <4>2. Return(w) => OthersStay(w) /\ task'[w].step = "idle"
        BY <1>0, ReturnMoves
      <4>3. QED
        BY <3>1, <4>1, <4>2
    <3>4. /\ riddle'[r] = "stopped"
          /\ \A s \in Riddles \ {r} : riddle'[s] = riddle[s] /\ expires'[s] = expires[s]
      BY <3>1, <3>2 DEF TypeOK
    <3>5. HandlerOK(w)' /\ OwnOrNew(w)
      BY <3>2, <3>3, <3>4 DEF HandlerOK, OwnOrNew, Publishing
    <3>6. RowsOK'
      BY <1>0, <2>0, <3>2, <3>4 DEF RowsOK, RowOK
    <3>7. JobOK'
      BY <1>0, <2>0, <3>4 DEF JobOK, TypeOK
    <3>8. OneOpen'
      BY <1>0, <3>4 DEF OneOpen, Blocking
    <3>9. Harmless(w)
      <4>1. \A v \in Workers : task[v].step # "claim"
        BY <2>0 DEF Inv, HandlersOK, HandlerOK
      <4>2. QED
        BY <2>0, <3>2, <3>4, <4>1 DEF Harmless
    <3>10. QED
      BY <3>3, <3>5, <3>6, <3>7, <3>8, <3>9, HandlerStep
  <2>3. QED
    BY <2>1, <2>2
<1>3. CASE TakeDown(w)
  BY <1>0, <1>3, UnpinsOnly DEF TakeDown, At, HandlerOK
<1>4. QED
  BY <1>1, <1>2, <1>3 DEF Stopping

LEMMA CleanupInv ==
    ASSUME TypeOK, Inv, Cleanup
    PROVE  Inv'
<1>0. RowsOK /\ JobOK /\ OneOpen /\ now \in Nat
  BY DEF Inv, TypeOK
<1>1. CASE CleanupBegin \/ ListExpired \/ CleanupFails
  <2>1. UNCHANGED <<rows, pinned, lock, task, now, paid, denied>>
    BY <1>1 DEF CleanupBegin, ListExpired, CleanupFails
  <2>2. RowsOK' /\ OneOpen' /\ Harmless(Nobody)
    BY <1>0, <2>1 DEF RowsOK, RowOK, OneOpen, Blocking, Harmless, rows
  <2>3. \/ job'.todo = {} /\ job'.at \in {0, now}
        \/ /\ job'.at = job.at
           /\ job'.todo = {r \in Riddles : riddle[r] = "active" /\ expires[r] <= job.at}
    <3>1. CASE CleanupBegin
      BY <3>1 DEF CleanupBegin, JobIdle
    <3>2. CASE ListExpired
      BY <3>2 DEF ListExpired, TypeOK
    <3>3. CASE CleanupFails
      BY <3>3 DEF CleanupFails, JobIdle
    <3>4. QED
      BY <1>1, <3>1, <3>2, <3>3
  <2>4. JobOK'
    BY <1>0, <2>1, <2>3 DEF JobOK, TypeOK, rows
  <2>5. QED
    BY <2>1, <2>2, <2>4, OtherStep
<1>2. ASSUME NEW r \in Riddles, CleanupMessage(r)
      PROVE  Inv'
  <2>1. /\ r \in job.todo /\ job'.at = job.at /\ job'.todo = job.todo \ {r}
        /\ pinned' \in {pinned, pinned \ {r}}
        /\ UNCHANGED <<rows, lock, task, now, paid, denied>>
    BY <1>2 DEF CleanupMessage, Unpins, TypeOK
  <2>2. riddle[r] \notin {"none", "publishing"} /\ (riddle[r] = "active" => expires[r] <= now)
    BY <1>0, <2>1 DEF JobOK
  <2>3. RowsOK'
    BY <1>0, <2>1, <2>2 DEF RowsOK, RowOK, TypeOK, rows
  <2>4. JobOK' /\ OneOpen'
    BY <1>0, <2>1 DEF JobOK, OneOpen, Blocking, rows
  <2>5. Harmless(Nobody)
    BY <2>1, <2>2 DEF Harmless, Blocking, rows
  <2>6. QED
    BY <2>1, <2>3, <2>4, <2>5, OtherStep
<1>3. CASE CleanupExpired
  <2>1. UNCHANGED <<lock, task, now>> /\ job'.todo = {} /\ job'.at = 0
    BY <1>3 DEF CleanupExpired, JobIdle
  <2>2. /\ \A r \in Expired : riddle[r] # "none" /\ riddle'[r] = "gone" /\ winner'[r] = NoWinner
                              /\ paid'[r] = NoWinner
        /\ \A r \in Riddles \ Expired :
               /\ riddle'[r] = riddle[r] /\ expires'[r] = expires[r]
               /\ winner'[r] = winner[r] /\ paid'[r] = paid[r]
        /\ pinned' = pinned \ Expired /\ denied' = denied \ Expired
    BY <1>3 DEF CleanupExpired, Deleted, Vanish, Expired
  <2>3. RowsOK'
    BY <1>0, <2>1, <2>2 DEF RowsOK, RowOK
  <2>4. JobOK'
    BY <1>0, <2>1 DEF JobOK
  <2>5. Blocking' \subseteq Blocking
    BY <2>2 DEF Blocking
  <2>6. OneOpen'
    BY <1>0, <2>5 DEF OneOpen
  <2>7. \A v \in Workers : task[v].step = "claim" => task[v].riddle \notin Expired
    BY <1>3 DEF CleanupExpired, RowLocked, At
  <2>8. Harmless(Nobody)
    BY <2>1, <2>2, <2>5, <2>7 DEF Harmless
  <2>9. QED
    BY <2>1, <2>3, <2>4, <2>6, <2>8, OtherStep
<1>4. QED
  BY <1>1, <1>2, <1>3 DEF Cleanup

LEMMA WorldInv ==
    ASSUME TypeOK, Inv, (\E u \in Users : Purge(u) \/ Seen(u)) \/ TimePasses \/ Crash \/ UNCHANGED vars
    PROVE  Inv'
<1>0. RowsOK /\ JobOK /\ OneOpen /\ now \in Nat
  BY DEF Inv, TypeOK
<1>1. CASE (\E u \in Users : Purge(u) \/ Seen(u)) \/ UNCHANGED vars
  <2>1. UNCHANGED <<rows, pinned, lock, task, job, now, paid, denied>>
    BY <1>1 DEF Purge, Seen, vars
  <2>2. RowsOK' /\ JobOK' /\ OneOpen' /\ Harmless(Nobody)
    BY <1>0, <2>1 DEF RowsOK, RowOK, JobOK, OneOpen, Blocking, Harmless, rows
  <2>3. QED
    BY <2>1, <2>2, OtherStep
<1>2. CASE TimePasses
  <2>1. UNCHANGED <<rows, pinned, lock, task, job, paid, denied>> /\ now' = now + 1
    BY <1>2 DEF TimePasses
  <2>2. OneOpen' /\ Harmless(Nobody)
    BY <1>0, <2>1 DEF OneOpen, Blocking, Harmless, rows
  <2>3. RowsOK'
    BY <1>0, <2>1 DEF RowsOK, RowOK, TypeOK, rows
  <2>4. JobOK'
    BY <1>0, <2>1 DEF JobOK, TypeOK, rows
  <2>5. QED
    BY <2>1, <2>2, <2>3, <2>4, OtherStep
<1>3. CASE Crash
  <2>1. /\ UNCHANGED <<rows, pinned, now, paid, denied>>
        /\ \A w \in Workers : task'[w].step = "idle"
        /\ job'.at = 0 /\ job'.todo = {}
    BY <1>3 DEF Crash, Idle, JobIdle
  <2>2. RowsOK' /\ JobOK' /\ OneOpen'
    BY <1>0, <2>1 DEF RowsOK, RowOK, JobOK, OneOpen, Blocking, rows
  <2>3. HandlersOK' /\ OnePublisher'
    BY <2>1 DEF HandlersOK, HandlerOK, OnePublisher, Publishing
  <2>4. QED
    BY <2>2, <2>3 DEF Inv
<1>4. QED
  BY <1>1, <1>2, <1>3

-----------------------------------------------------------------------------
(* The theorems.                                                             *)

LEMMA InvInit == Init => Inv
<1>1. SUFFICES ASSUME Init PROVE Inv
  OBVIOUS
<1>2. HandlersOK /\ OnePublisher
  BY <1>1 DEF Init, Idle, HandlersOK, HandlerOK, OnePublisher, Publishing
<1>3. RowsOK
  BY <1>1 DEF Init, RowsOK, RowOK
<1>4. JobOK /\ OneOpen
  BY <1>1 DEF Init, JobIdle, JobOK, OneOpen, Blocking
<1>5. QED
  BY <1>2, <1>3, <1>4 DEF Inv

LEMMA InvNext ==
    ASSUME TypeOK, TypeOK', Inv, [Next]_vars
    PROVE  Inv'
<1>1. ASSUME NEW w \in Workers, Publication(w) \/ Guessing(w) \/ Stopping(w)
      PROVE  Inv'
  BY <1>1, PublicationInv, GuessingInv, StoppingInv
<1>2. CASE Cleanup
  BY <1>2, CleanupInv
<1>3. CASE (\E u \in Users : Purge(u) \/ Seen(u)) \/ TimePasses \/ Crash \/ UNCHANGED vars
  BY <1>3, WorldInv
<1>4. QED
  BY <1>1, <1>2, <1>3 DEF Next

LEMMA Invariance == Spec => [](TypeOK /\ Inv)
<1>1. Init => TypeOK /\ Inv
  BY TypeInit, InvInit
<1>2. TypeOK /\ Inv /\ [Next]_vars => TypeOK' /\ Inv'
  BY TypeNext, InvNext
<1>3. QED
  BY <1>1, <1>2, PTL DEF Spec

\* Every variable keeps to its domain, and the advisory lock is held only
\* inside a transaction of its holder.
THEOREM TypeCorrect == Spec => []TypeOK
BY Invariance, PTL

\* ProcessGuess pays all winners of a riddle or nobody.
THEOREM RewardIsWholeCorrect == Spec => []RewardIsWhole
<1>1. TypeOK /\ Inv => RewardIsWhole
  BY DEF Inv, RowsOK, RowOK, RewardIsWhole
<1>2. QED
  BY <1>1, Invariance, PTL

\* While a riddle takes guesses its post is pinned, unless its publisher was
\* told that the publication failed.
THEOREM ActiveIsPostedCorrect == Spec => []ActiveIsPosted
<1>1. TypeOK /\ Inv => ActiveIsPosted
  BY DEF Inv, RowsOK, RowOK, ActiveIsPosted, Active
<1>2. QED
  BY <1>1, Invariance, PTL

-----------------------------------------------------------------------------
(* The contest.  The insertion of a row opens it, the commit of a claim is   *)
(* an answer, and rows that are deleted are forgotten; everything else is a  *)
(* stutter, because Phase hides who has pinned, activated or announced what. *)

LEMMA PhaseOf ==
    ASSUME TypeOK, NEW r \in Riddles
    PROVE  /\ Phase(r) = "none" <=> riddle[r] = "none"
           /\ Phase(r) = "open" <=> r \in Blocking
           /\ Phase(r) = "closed" <=> riddle[r] \in {"completed", "stopped"}
           /\ Phase(r) = "gone" <=> riddle[r] = "gone"
BY DEF Phase, TypeOK, Blocking

\* No phase changes, no answer is given and nobody is paid.
LEMMA StutterSteps ==
    ASSUME \A r \in Riddles : Phase(r)' = Phase(r), UNCHANGED <<winner, paid>>
    PROVE  UNCHANGED Contest!vars
BY DEF Contest!vars

LEMMA RiddleStays ==
    ASSUME UNCHANGED <<riddle, winner, paid>>
    PROVE  UNCHANGED Contest!vars
BY StutterSteps DEF Phase

\* The phase of one riddle changes.
LEMMA PhaseChanges ==
    ASSUME TypeOK, TypeOK', NEW r \in Riddles,
           \A s \in Riddles \ {r} : riddle'[s] = riddle[s]
    PROVE  [s \in Riddles |-> Phase(s)]' = [[s \in Riddles |-> Phase(s)] EXCEPT ![r] = Phase(r)']
BY DEF Phase

\* The row of a riddle that was not published is deleted.
LEMMA ForgetRefines ==
    ASSUME TypeOK, TypeOK', NEW r \in Blocking, riddle'[r] = "gone",
           winner[r] = NoWinner, paid[r] = NoWinner, UNCHANGED <<winner, paid>>,
           \A s \in Riddles \ {r} : riddle'[s] = riddle[s]
    PROVE  Contest!Next
<1>1. r \in Riddles /\ Phase(r) = "open"
  BY PhaseOf DEF Blocking
<1>2. \A s \in Riddles : Phase(s)' = IF s \in {r} THEN "gone" ELSE Phase(s)
  BY DEF Phase
<1>3. Contest!Forget({r})
  BY <1>1, <1>2 DEF Contest!Forget, Contest!NoWinner, NoWinner, TypeOK
<1>4. QED
  BY <1>1, <1>3 DEF Contest!Next

LEMMA PublicationRefines ==
    ASSUME TypeOK, TypeOK', Inv, NEW w \in Workers, Publication(w)
    PROVE  [Contest!Next]_(Contest!vars)
<1>0. HandlerOK(w) /\ RowsOK
  BY DEF Inv, HandlersOK
<1>1. CASE Publish(w) \/ CreateLock(w) \/ Send(w) \/ Pin(w) \/ Withdraw(w)
  <2>1. UNCHANGED <<riddle, winner, paid>>
    BY <1>1 DEF Publish, CreateLock, Send, Pin, Withdraw, rows
  <2>2. QED
    BY <2>1, RiddleStays
<1>2. CASE CreateInsert(w)
  <2>1. PICK r \in Riddles : riddle[r] = "none" /\ riddle' = [riddle EXCEPT ![r] = "publishing"]
    BY <1>2 DEF CreateInsert
  <2>2. /\ riddle'[r] = "publishing" /\ \A s \in Riddles \ {r} : riddle'[s] = riddle[s]
        /\ Blocking = {} /\ UNCHANGED <<winner, paid>>
    BY <1>0, <1>2, <2>1 DEF CreateInsert, At, HandlerOK, TypeOK
  <2>3. Phase(r) = "none" /\ \A s \in Riddles : Phase(s) # "open"
    BY <2>1, <2>2, PhaseOf
  <2>4. Phase(r)' = "open"
    BY <2>2 DEF Phase
  <2>5. Contest!Open(r)
    BY <2>2, <2>3, <2>4, PhaseChanges DEF Contest!Open
  <2>6. QED
    BY <2>5 DEF Contest!Next
<1>3. CASE Activate(w)
  <2>1. task[w].riddle \in Riddles /\ UNCHANGED <<winner, paid>>
    BY <1>0, <1>3 DEF Activate, At, HandlerOK, Publishing
  <2>2. Activated(task[w].riddle) \/ UNCHANGED riddle
    BY <1>3 DEF Activate
  <2>3. \A r \in Riddles : riddle'[r] = riddle[r] \/ (riddle[r] = "publishing" /\ riddle'[r] = "active")
    BY <2>1, <2>2 DEF Activated, TypeOK
  <2>4. \A r \in Riddles : Phase(r)' = Phase(r)
    BY <2>3 DEF Phase
  <2>5. QED
    BY <2>1, <2>4, StutterSteps
<1>4. CASE Abort(w)
  <2> DEFINE r == task[w].riddle
  <2>1. r \in Riddles /\ UNCHANGED <<winner, paid>>
    BY <1>0, <1>4 DEF Abort, At, HandlerOK, Publishing
  <2>2. CASE UNCHANGED riddle
    BY <2>1, <2>2, RiddleStays
  <2>3. CASE riddle[r] = "publishing" /\ Vanish({r})
    <3>1. riddle'[r] = "gone" /\ \A s \in Riddles \ {r} : riddle'[s] = riddle[s]
      BY <2>1, <2>3 DEF Vanish
    <3>2. winner[r] = NoWinner /\ paid[r] = NoWinner
      BY <1>0, <2>1, <2>3 DEF RowsOK, RowOK
    <3>3. QED
      BY <2>1, <2>3, <3>1, <3>2, ForgetRefines DEF Blocking
  <2>4. QED
    BY <1>4, <2>2, <2>3 DEF Abort
<1>5. QED
  BY <1>1, <1>2, <1>3, <1>4 DEF Publication

LEMMA GuessingRefines ==
    ASSUME TypeOK, TypeOK', Inv, NEW w \in Workers, Guessing(w)
    PROVE  [Contest!Next]_(Contest!vars)
<1>0. HandlerOK(w)
  BY DEF Inv, HandlersOK
<1>1. CASE (\E u \in Users, a \in Answers : Guess(w, u, a)) \/ GuessLock(w) \/ RollBack(w) \/ Announce(w)
  <2>1. UNCHANGED <<riddle, winner, paid>>
    BY <1>1 DEF Guess, GuessLock, RollBack, Announce, rows
  <2>2. QED
    BY <2>1, RiddleStays
<1>2. CASE ClaimAnswer(w) \/ CompleteRiddle(w)
  <2>1. PICK r \in Riddles, a \in AnswersOf[task[w].riddle], u \in Users :
            r = task[w].riddle /\ a = task[w].answer /\ u = task[w].user
    BY <1>0, <1>2 DEF ClaimAnswer, CompleteRiddle, At, HandlerOK
  <2>2. /\ r \in Blocking /\ a \in AnswersOf[r] /\ a \in Answers /\ winner[r][a] = Nobody /\ u # Nobody
        /\ Claimed(w) = [winner[r] EXCEPT ![a] = u]
        /\ winner' = [winner EXCEPT ![r] = Claimed(w)]
        /\ DOMAIN winner[r] = Answers
    BY <1>0, <1>2, <2>1 DEF ClaimAnswer, CompleteRiddle, At, HandlerOK, Blocking, Claimed, TypeOK
  <2>3. Phase(r) = "open"
    BY <2>2, PhaseOf
  <2>4. Contest!Given(r, a, u) = Claimed(w)
    BY <2>2 DEF Contest!Given
  <2>5. Contest!IsLast(r, a) <=> Complete(w)
    BY <2>1, <2>2 DEF Contest!IsLast, Complete, TypeOK
  <2>6. CASE ClaimAnswer(w)
    <3>1. ~Complete(w) /\ UNCHANGED <<riddle, paid>>
      BY <2>6 DEF ClaimAnswer
    <3>2. \A s \in Riddles : Phase(s)' = Phase(s)
      BY <3>1 DEF Phase
    <3>3. Contest!Answer(r, a, u)
      BY <2>2, <2>3, <2>4, <2>5, <3>1, <3>2 DEF Contest!Answer
    <3>4. QED
      BY <2>2, <3>3 DEF Contest!Next
  <2>7. CASE CompleteRiddle(w)
    <3>1. /\ Complete(w) /\ paid' = [paid EXCEPT ![r] = Claimed(w)]
          /\ riddle' = [riddle EXCEPT ![r] = "completed"]
      BY <2>1, <2>7 DEF CompleteRiddle
    <3>2. riddle'[r] = "completed" /\ \A s \in Riddles \ {r} : riddle'[s] = riddle[s]
      BY <3>1 DEF TypeOK
    <3>3. Phase(r)' = "closed"
      BY <3>2 DEF Phase
    <3>4. Contest!Answer(r, a, u)
      BY <2>2, <2>3, <2>4, <2>5, <3>1, <3>2, <3>3, PhaseChanges DEF Contest!Answer
    <3>5. QED
      BY <2>2, <3>4 DEF Contest!Next
  <2>8. QED
    BY <1>2, <2>6, <2>7
<1>3. QED
  BY <1>1, <1>2 DEF Guessing

LEMMA StoppingRefines ==
    ASSUME TypeOK, TypeOK', Inv, NEW w \in Workers, Stopping(w)
    PROVE  [Contest!Next]_(Contest!vars)
<1>1. CASE Stop(w) \/ TakeDown(w)
  BY <1>1, RiddleStays DEF Stop, TakeDown, rows
<1>2. CASE StopActive(w)
  <2>1. UNCHANGED <<winner, paid>>
    BY <1>2 DEF StopActive
  <2>2. CASE UNCHANGED riddle
    BY <2>1, <2>2, RiddleStays
  <2>3. ASSUME NEW r \in Active(task[w].at), riddle' = [riddle EXCEPT ![r] = "stopped"]
        PROVE  Contest!Next
    <3>1. r \in Riddles /\ r \in Blocking
      BY DEF Active, Blocking
    <3>2. riddle'[r] = "stopped" /\ \A s \in Riddles \ {r} : riddle'[s] = riddle[s]
      BY <2>3, <3>1 DEF TypeOK
    <3>3. Phase(r)' = "closed" /\ Phase(r) = "open"
      BY <3>1, <3>2, PhaseOf DEF Phase
    <3>4. Contest!Close(r)
      BY <2>1, <3>1, <3>2, <3>3, PhaseChanges DEF Contest!Close
    <3>5. QED
      BY <3>1, <3>4 DEF Contest!Next
  <2>4. QED
    BY <1>2, <2>2, <2>3 DEF StopActive
<1>3. QED
  BY <1>1, <1>2 DEF Stopping

LEMMA CleanupRefines ==
    ASSUME TypeOK, TypeOK', Inv, Cleanup
    PROVE  [Contest!Next]_(Contest!vars)
<1>1. CASE CleanupBegin \/ ListExpired \/ CleanupFails \/ \E r \in Riddles : CleanupMessage(r)
  BY <1>1, RiddleStays DEF CleanupBegin, ListExpired, CleanupFails, CleanupMessage, rows
<1>2. CASE CleanupExpired
  <2>1. /\ Expired \subseteq Riddles /\ \A r \in Expired : riddle[r] \notin {"none", "gone"}
        /\ winner' = [r \in Riddles |-> IF r \in Expired THEN NoWinner ELSE winner[r]]
        /\ paid' = [r \in Riddles |-> IF r \in Expired THEN NoWinner ELSE paid[r]]
        /\ \A r \in Riddles : riddle'[r] = IF r \in Expired THEN "gone" ELSE riddle[r]
    BY <1>2 DEF CleanupExpired, Deleted, Vanish, Expired
  <2>2. \A r \in Expired : Phase(r) \in {"open", "closed"}
    BY <2>1 DEF Phase, TypeOK
  <2>3. \A r \in Riddles : Phase(r)' = IF r \in Expired THEN "gone" ELSE Phase(r)
    BY <2>1 DEF Phase
  <2>4. Contest!Forget(Expired)
    BY <2>1, <2>2, <2>3 DEF Contest!Forget, Contest!NoWinner, NoWinner
  <2>5. QED
    BY <2>1, <2>4 DEF Contest!Next
<1>3. QED
  BY <1>1, <1>2 DEF Cleanup

\* The transactions, the failures and the cleanup implement the contest: one
\* riddle is open at a time, an answer belongs to whoever gave it first, and
\* the last one pays all winners in the same step.
THEOREM Refinement == Spec => RefinesContest
<1>1. Init => Contest!Init
  BY DEF Init, Contest!Init, Phase, NoWinner, Contest!NoWinner
<1>2. ASSUME TypeOK, TypeOK', Inv, [Next]_vars
      PROVE  [Contest!Next]_(Contest!vars)
  <2>1. ASSUME NEW w \in Workers, Publication(w) \/ Guessing(w) \/ Stopping(w)
        PROVE  [Contest!Next]_(Contest!vars)
    BY <1>2, <2>1, PublicationRefines, GuessingRefines, StoppingRefines
  <2>2. CASE Cleanup
    BY <1>2, <2>2, CleanupRefines
  <2>3. CASE (\E u \in Users : Purge(u) \/ Seen(u)) \/ TimePasses \/ Crash \/ UNCHANGED vars
    <3>1. UNCHANGED <<riddle, winner, paid>>
      BY <2>3 DEF Purge, Seen, TimePasses, Crash, vars, rows
    <3>2. QED
      BY <3>1, RiddleStays
  <2>4. QED
    BY <1>2, <2>1, <2>2, <2>3 DEF Next
<1>3. QED
  BY <1>1, <1>2, Invariance, PTL DEF Spec, RefinesContest, Contest!Spec
=============================================================================
