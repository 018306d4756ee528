------------------------------- MODULE Riddle -------------------------------
(***************************************************************************)
(* The riddles of internal/features/admin: a moderator publishes one in    *)
(* four steps (insert, send, pin, activate), members guess, the last right *)
(* guess pays all winners in its transaction, a moderator may stop it, and *)
(* the hourly cleanup takes down and deletes what has expired.             *)
(*                                                                         *)
(* Creation, abortion, guesses and stops take an advisory lock for their   *)
(* transaction; activation and the cleanup do not.  Each handler reads the *)
(* clock before it waits for that lock.  Writes of a transaction appear at *)
(* its COMMIT; until then only the lock and the row it locked exist.       *)
(***************************************************************************)
EXTENDS Integers, FiniteSets

CONSTANTS
    Riddles,      \* rows a run may insert
    Answers,      \* normalized answers
    AnswersOf,    \* the answers of a riddle
    Users,        \* members who guess
    Workers,      \* handlers of updates, of one or more instances of the bot
    TTL,          \* riddleTTL
    Horizon,      \* the last moment a run looks at
    Faults,       \* what may go wrong: "crash", "refused", "lost"
    Nobody        \* no winner, no riddle, no worker

ASSUME RiddleAssumption ==
    /\ IsFiniteSet(Riddles)
    /\ AnswersOf \in [Riddles -> (SUBSET Answers) \ {{}}]
    /\ TTL \in Nat \ {0} /\ Horizon \in Nat
    /\ Nobody \notin Riddles \cup Users \cup Workers \cup Answers

VARIABLES
    riddle,    \* column state of riddles; "none" before, "gone" after the row
    expires,   \* column expires_at
    winner,    \* column winner_user_id of riddle_answers
    pinned,    \* riddles whose message is pinned in the group
    lock,      \* holder of the advisory lock
    task,      \* what each worker is doing
    job,       \* what the cleanup is doing
    members,   \* members with a row, to whom a reward can be paid
    now,       \* the clock
    paid,      \* history: who was paid for an answer, as long as the row exists
    denied     \* history: riddles whose publication was given up: the post is
               \* taken down, then the row, then the publisher is told

rows == <<riddle, expires, winner>>
vars == <<rows, pinned, lock, task, job, members, now, paid, denied>>

NoWinner == [a \in Answers |-> Nobody]
Idle == [step |-> "idle", at |-> 0, riddle |-> Nobody, user |-> Nobody, answer |-> Nobody]
JobIdle == [step |-> "idle", at |-> 0, todo |-> {}]

Init ==
    /\ riddle = [r \in Riddles |-> "none"]
    /\ expires = [r \in Riddles |-> 0]
    /\ winner = [r \in Riddles |-> NoWinner]
    /\ pinned = {}
    /\ lock = Nobody
    /\ task = [w \in Workers |-> Idle]
    /\ job = JobIdle
    /\ members = Users
    /\ now = 0
    /\ paid = [r \in Riddles |-> NoWinner]
    /\ denied = {}
-----------------------------------------------------------------------------
(* What the statements read.                                                *)

At(w, step) == task[w].step = step
Goto(w, step) == task' = [task EXCEPT ![w].step = step]
Return(w) == task' = [task EXCEPT ![w] = Idle]
\* a transaction has ended: of what the handler read only the riddle remains
GoOn(w, step, r) == task' = [task EXCEPT ![w] = [Idle EXCEPT !.step = step, !.riddle = r]]
Begin(w, t) == At(w, "idle") /\ task' = [task EXCEPT ![w] = t]

LockFree == lock = Nobody

Blocking == {r \in Riddles : riddle[r] \in {"publishing", "active"}}
Active(t) == {r \in Riddles : riddle[r] = "active" /\ expires[r] > t}
\* the row a transaction has read FOR UPDATE
RowLocked(r) == \E w \in Workers : At(w, "claim") /\ task[w].riddle = r
\* Unpinning, or deleting the message, is attempted once; a failure is only logged.
Unpins(r) == pinned' \in {pinned, pinned \ {r}}
\* rows of riddles are deleted; what is left of them in the group is not followed
Vanish(S) ==
    /\ riddle' = [r \in Riddles |-> IF r \in S THEN "gone" ELSE riddle[r]]
    /\ expires' = [r \in Riddles |-> IF r \in S THEN 0 ELSE expires[r]]
    /\ denied' = denied \ S
    /\ pinned' = pinned \ S
-----------------------------------------------------------------------------
(* Publication.                                                             *)

Publish(w) ==
    /\ Begin(w, [Idle EXCEPT !.step = "create", !.at = now])
    /\ UNCHANGED <<rows, pinned, lock, job, members, now, paid, denied>>

\* the lock, and the test that nothing is being published or active
CreateLock(w) ==
    /\ At(w, "create") /\ LockFree
    /\ IF Blocking # {}
       THEN Return(w) /\ UNCHANGED lock
       ELSE Goto(w, "insert") /\ lock' = w
    /\ UNCHANGED <<rows, pinned, job, members, now, paid, denied>>

\* A commit whose answer is lost ends the handler like one that failed.
CreateInsert(w) ==
    /\ At(w, "insert")
    /\ \E r \in Riddles :
        /\ riddle[r] = "none"
        /\ riddle' = [riddle EXCEPT ![r] = "publishing"]
        /\ expires' = [expires EXCEPT ![r] = task[w].at + TTL]
        /\ \/ GoOn(w, "send", r)
           \/ "lost" \in Faults /\ Return(w)
    /\ lock' = IF lock = w THEN Nobody ELSE lock
    /\ UNCHANGED <<winner, pinned, job, members, now, paid, denied>>

Send(w) ==
    /\ At(w, "send")
    /\ Goto(w, "pin") \/ Goto(w, "abort")
    /\ UNCHANGED <<rows, pinned, lock, job, members, now, paid, denied>>

\* Mutant: the riddle is made active before its post is pinned.
PinLast(w) ==
    /\ At(w, "pin")
    /\ Goto(w, "activate")
    /\ UNCHANGED <<rows, pinned, lock, job, members, now, paid, denied>>

Pin(w) ==
    /\ At(w, "pin")
    /\ \/ /\ pinned' = pinned \cup {task[w].riddle}
          /\ Goto(w, "activate")
       \/ Goto(w, "withdraw") /\ UNCHANGED pinned
    /\ UNCHANGED <<rows, lock, job, members, now, paid, denied>>

Activated(r) ==
    /\ riddle[r] = "publishing"
    /\ riddle' = [riddle EXCEPT ![r] = "active"]
    /\ expires' = [expires EXCEPT ![r] = now + TTL]

Activate(w) ==
    LET r == task[w].riddle IN
    /\ At(w, "activate")
    /\ \/ Activated(r) /\ Return(w)
       \/ "lost" \in Faults /\ Activated(r) /\ Goto(w, "withdraw")
       \/ /\ riddle[r] # "publishing" \/ "refused" \in Faults
          /\ Goto(w, "withdraw") /\ UNCHANGED <<riddle, expires>>
    /\ UNCHANGED <<winner, pinned, lock, job, members, now, paid, denied>>

\* After a failure the post is unpinned and deleted, at best; from here on the
\* publication is given up.
Withdraw(w) ==
    /\ At(w, "withdraw")
    /\ Unpins(task[w].riddle)
    /\ Goto(w, "abort")
    /\ denied' = denied \cup ({task[w].riddle} \cap Active(0))
    /\ UNCHANGED <<rows, lock, job, members, now, paid>>

\* DELETE of what is still publishing
Abort(w) ==
    LET r == task[w].riddle IN
    /\ At(w, "abort") /\ LockFree
    /\ \/ riddle[r] = "publishing" /\ Vanish({r})
       \/ /\ riddle[r] # "publishing" \/ "refused" \in Faults
          /\ UNCHANGED <<riddle, expires, pinned, denied>>
    /\ Return(w)
    /\ UNCHANGED <<winner, lock, job, members, now, paid>>
-----------------------------------------------------------------------------
(* Guesses.                                                                 *)

Guess(w, u, a) ==
    /\ u \in members
    /\ Begin(w, [Idle EXCEPT !.step = "guess", !.at = now, !.user = u, !.answer = a])
    /\ UNCHANGED <<rows, pinned, lock, job, members, now, paid, denied>>

Open(w) == {r \in Active(task[w].at) : /\ task[w].answer \in AnswersOf[r]
                                       /\ winner[r][task[w].answer] = Nobody}

\* Mutant: a guess does not take the advisory lock, nor the row FOR UPDATE.
GuessUnlocked(w) ==
    /\ At(w, "guess")
    /\ IF Open(w) = {}
       THEN Return(w)
       ELSE \E r \in Open(w) : task' = [task EXCEPT ![w].step = "claim", ![w].riddle = r]
    /\ UNCHANGED <<rows, pinned, lock, job, members, now, paid, denied>>

\* the lock, the active riddle FOR UPDATE, and whether the answer is still free
GuessLock(w) ==
    /\ At(w, "guess") /\ LockFree
    /\ IF Open(w) = {}
       THEN Return(w) /\ UNCHANGED lock
       ELSE /\ \E r \in Open(w) : task' = [task EXCEPT ![w].step = "claim", ![w].riddle = r]
            /\ lock' = w
    /\ UNCHANGED <<rows, pinned, job, members, now, paid, denied>>

Claimed(w) == [winner[task[w].riddle] EXCEPT ![task[w].answer] = task[w].user]
Complete(w) == \A a \in AnswersOf[task[w].riddle] : Claimed(w)[a] # Nobody
Winners(w) == {Claimed(w)[a] : a \in AnswersOf[task[w].riddle]}
AfterCommit(w, step) ==
    /\ lock' = IF lock = w THEN Nobody ELSE lock
    /\ IF step = "idle"
       THEN Return(w)
       ELSE GoOn(w, step, task[w].riddle) \/ ("lost" \in Faults /\ Return(w))

\* answers remain: the claim is committed
ClaimAnswer(w) ==
    /\ At(w, "claim") /\ ~Complete(w)
    /\ winner' = [winner EXCEPT ![task[w].riddle] = Claimed(w)]
    /\ AfterCommit(w, "idle")
    /\ UNCHANGED <<riddle, expires, pinned, job, members, now, paid, denied>>

\* Mutant: each winner is paid in a transaction of his own, and those without a row are skipped.
CompleteInPart(w) ==
    LET r == task[w].riddle IN
    /\ At(w, "claim") /\ Complete(w)
    /\ winner' = [winner EXCEPT ![r] = Claimed(w)]
    /\ riddle' = [riddle EXCEPT ![r] = "completed"]
    /\ expires' = [expires EXCEPT ![r] = task[w].at + TTL]
    /\ paid' = [paid EXCEPT ![r] = [a \in Answers |-> IF Claimed(w)[a] \in members
                                                      THEN Claimed(w)[a] ELSE Nobody]]
    /\ AfterCommit(w, "announce")
    /\ UNCHANGED <<pinned, job, members, now, denied>>

\* the last answer: the riddle is completed and every winner paid, or nothing
CompleteRiddle(w) ==
    LET r == task[w].riddle IN
    /\ At(w, "claim") /\ Complete(w) /\ Winners(w) \subseteq members
    /\ winner' = [winner EXCEPT ![r] = Claimed(w)]
    /\ riddle' = [riddle EXCEPT ![r] = "completed"]
    /\ expires' = [expires EXCEPT ![r] = task[w].at + TTL]
    /\ paid' = [paid EXCEPT ![r] = Claimed(w)]
    /\ AfterCommit(w, "announce")
    /\ UNCHANGED <<pinned, job, members, now, denied>>

\* A winner without a row, or a refused statement, rolls the transaction back.
RollBack(w) ==
    /\ At(w, "claim") \/ At(w, "insert")
    /\ \/ "refused" \in Faults
       \/ At(w, "claim") /\ Complete(w) /\ ~(Winners(w) \subseteq members)
    /\ lock' = IF lock = w THEN Nobody ELSE lock
    /\ Return(w)
    /\ UNCHANGED <<rows, pinned, job, members, now, paid, denied>>

Announce(w) ==
    /\ At(w, "announce")
    /\ Unpins(task[w].riddle)
    /\ Return(w)
    /\ UNCHANGED <<rows, lock, job, members, now, paid, denied>>
-----------------------------------------------------------------------------
(* Stop.                                                                    *)

Stop(w) ==
    /\ Begin(w, [Idle EXCEPT !.step = "stop", !.at = now])
    /\ UNCHANGED <<rows, pinned, lock, job, members, now, paid, denied>>

StopActive(w) ==
    /\ At(w, "stop") /\ LockFree
    /\ IF Active(task[w].at) = {}
       THEN Return(w) /\ UNCHANGED <<riddle, expires>>
       ELSE \E r \in Active(task[w].at) :
                /\ riddle' = [riddle EXCEPT ![r] = "stopped"]
                /\ expires' = [expires EXCEPT ![r] = task[w].at + TTL]
                /\ \/ GoOn(w, "takedown", r)
                   \/ "lost" \in Faults /\ Return(w)
    /\ UNCHANGED <<winner, pinned, lock, job, members, now, paid, denied>>

TakeDown(w) ==
    /\ At(w, "takedown")
    /\ Unpins(task[w].riddle)
    /\ Return(w)
    /\ UNCHANGED <<rows, lock, job, members, now, paid, denied>>
-----------------------------------------------------------------------------
(* The hourly cleanup, which takes no advisory lock.                        *)

CleanupBegin ==
    /\ job.step = "idle"
    /\ job' = [JobIdle EXCEPT !.step = "list", !.at = now]
    /\ UNCHANGED <<rows, pinned, lock, task, members, now, paid, denied>>

ListExpired ==
    /\ job.step = "list"
    /\ job' = [job EXCEPT !.step = "messages",
                          !.todo = {r \in Riddles : riddle[r] = "active" /\ expires[r] <= job.at}]
    /\ UNCHANGED <<rows, pinned, lock, task, members, now, paid, denied>>

CleanupMessage(r) ==
    /\ job.step = "messages" /\ r \in job.todo
    /\ Unpins(r)
    /\ job' = [job EXCEPT !.todo = @ \ {r}]
    /\ UNCHANGED <<rows, lock, task, members, now, paid, denied>>

Expired == {r \in Riddles : riddle[r] \notin {"none", "gone"} /\ expires[r] <= job.at}

\* the answers go with their riddle
Deleted(S) ==
    /\ Vanish(S)
    /\ paid' = [r \in Riddles |-> IF r \in S THEN NoWinner ELSE paid[r]]
    /\ winner' = [r \in Riddles |-> IF r \in S THEN NoWinner ELSE winner[r]]

\* DELETE waits for a row that a guess has locked
CleanupExpired ==
    /\ job.step = "messages" /\ job.todo = {}
    /\ \A r \in Expired : ~RowLocked(r)
    /\ Deleted(Expired)
    /\ job' = JobIdle
    /\ UNCHANGED <<lock, task, members, now>>

CleanupFails ==
    /\ "refused" \in Faults /\ job.step \in {"list", "messages"}
    /\ job' = JobIdle
    /\ UNCHANGED <<rows, pinned, lock, task, members, now, paid, denied>>
-----------------------------------------------------------------------------
(* The rest of the world.                                                   *)

\* The purge does not take a member whose message is being handled.
Purge(u) ==
    /\ u \in members
    /\ \A w \in Workers : task[w].user # u
    /\ members' = members \ {u}
    /\ UNCHANGED <<rows, pinned, lock, task, job, now, paid, denied>>

Seen(u) ==
    /\ u \notin members
    /\ members' = members \cup {u}
    /\ UNCHANGED <<rows, pinned, lock, task, job, now, paid, denied>>

TimePasses ==
    /\ now < Horizon
    /\ now' = now + 1
    /\ UNCHANGED <<rows, pinned, lock, task, job, members, paid, denied>>

Crash ==
    /\ "crash" \in Faults
    /\ task' = [w \in Workers |-> Idle]
    /\ job' = JobIdle
    /\ lock' = Nobody
    /\ UNCHANGED <<rows, pinned, members, now, paid, denied>>

Publication(w) ==
    \/ Publish(w) \/ CreateLock(w) \/ CreateInsert(w) \/ Send(w) \/ Pin(w)
    \/ Activate(w) \/ Withdraw(w) \/ Abort(w)
Guessing(w) ==
    \/ \E u \in Users, a \in Answers : Guess(w, u, a)
    \/ GuessLock(w) \/ ClaimAnswer(w) \/ CompleteRiddle(w) \/ RollBack(w) \/ Announce(w)
Stopping(w) == Stop(w) \/ StopActive(w) \/ TakeDown(w)
Cleanup ==
    \/ CleanupBegin \/ ListExpired \/ CleanupExpired \/ CleanupFails
    \/ \E r \in Riddles : CleanupMessage(r)

Next ==
    \/ \E w \in Workers : Publication(w) \/ Guessing(w) \/ Stopping(w)
    \/ Cleanup
    \/ \E u \in Users : Purge(u) \/ Seen(u)
    \/ TimePasses \/ Crash

Spec == Init /\ [][Next]_vars
-----------------------------------------------------------------------------
Steps == {"idle", "create", "insert", "send", "pin", "activate", "withdraw", "abort",
          "guess", "claim", "announce", "stop", "takedown"}

\* Every variable keeps to its domain, and the advisory lock is held only
\* inside a transaction.
TypeOK ==
    /\ riddle \in [Riddles -> {"none", "publishing", "active", "completed", "stopped", "gone"}]
    /\ expires \in [Riddles -> Nat]
    /\ winner \in [Riddles -> [Answers -> Users \cup {Nobody}]]
    /\ paid \in [Riddles -> [Answers -> Users \cup {Nobody}]]
    /\ pinned \subseteq Riddles
    /\ lock \in Workers \cup {Nobody}
    /\ lock # Nobody => task[lock].step \in {"insert", "claim"}
    /\ task \in [Workers -> [step : Steps, at : Nat, riddle : Riddles \cup {Nobody},
                             user : Users \cup {Nobody}, answer : Answers \cup {Nobody}]]
    /\ job \in [step : {"idle", "list", "messages"}, at : Nat, todo : SUBSET Riddles]
    /\ members \subseteq Users
    /\ now \in Nat
    /\ denied \subseteq Riddles

\* ProcessGuess: a riddle has paid all its winners or nobody, and whoever
\* holds an answer of a completed riddle was paid for it.
RewardIsWhole ==
    \A r \in Riddles :
        /\ paid[r] # NoWinner =>
            /\ riddle[r] = "completed"
            /\ \A a \in AnswersOf[r] : paid[r][a] # Nobody
        /\ riddle[r] = "completed" => paid[r] = winner[r]

\* handleRiddlePublish: while a riddle takes guesses its post is pinned in
\* the group, unless the publication was given up, of which its publisher is told.
ActiveIsPosted ==
    \A r \in Active(now) \ denied : r \in pinned

Phase(r) ==
    CASE riddle[r] = "none" -> "none"
      [] riddle[r] \in {"publishing", "active"} -> "open"
      [] riddle[r] \in {"completed", "stopped"} -> "closed"
      [] OTHER -> "gone"

Contest == INSTANCE RiddleContest WITH phase <- [r \in Riddles |-> Phase(r)]

\* The transactions, the failures and the cleanup implement the contest.
RefinesContest == Contest!Spec
=============================================================================
