---------------------------- MODULE UpdatePool ----------------------------
(***************************************************************************)
(* The update pool of internal/bot: producers put updates on a bounded     *)
(* channel, workers take them off, lock the mutex of the chat and call the *)
(* handler; Stop lets the producers leave, closes the channel and waits    *)
(* for the workers.  The pool dies with its process: main cancels the root *)
(* context on a signal and returns.                                        *)
(*                                                                         *)
(* One step is one operation on something shared: an atomic flag, a wait   *)
(* group, the channel, a mutex.  The channel is the part of sent that has  *)
(* not been taken.                                                         *)
(***************************************************************************)
EXTENDS Integers, Sequences, FiniteSets

CONSTANTS
    Updates,      \* updates of Telegram
    Chats,        \* chats
    NoChat,       \* chat of an update that names none
    ChatOf,       \* chat of an update
    Producers,    \* goroutines that call Enqueue
    Workers,      \* goroutines of Start
    QueueSize,    \* capacity of the channel
    None          \* no worker, no update

ASSUME PoolAssumption ==
    /\ NoChat \notin Chats
    /\ ChatOf \in [Updates -> Chats \cup {NoChat}]
    /\ QueueSize \in Nat \ {0}
    /\ IsFiniteSet(Producers)
    /\ Workers # {}
    /\ None \notin Workers \cup Updates

VARIABLES
    called,      \* updates Enqueue was called with
    sent,        \* every update put on the channel, in order
    taken,       \* how many of them were taken off
    closed,      \* whether the channel is closed
    stopping,    \* the atomic flag
    producing,   \* the counter of producersWg
    prod,        \* statement of Enqueue a producer is about to run
    offer,       \* the update it was called with
    work,        \* statement of the loop a worker is about to run
    item,        \* the update it took
    chatLocks,   \* holder of the mutex of a chat
    begun,       \* updates given to the handler
    stop,        \* statement of Stop
    cancelled,   \* whether the root context is cancelled
    broken,      \* a send on the closed channel panicked
    exited       \* the process is over

channel == <<sent, taken, closed>>
producers == <<called, prod, offer, producing>>
workers == <<work, item, chatLocks, begun>>
process == <<cancelled, exited>>
vars == <<channel, producers, workers, stopping, stop, broken, process>>

Init ==
    /\ called = {} /\ sent = <<>> /\ taken = 0 /\ closed = FALSE
    /\ stopping = FALSE /\ producing = 0
    /\ prod = [p \in Producers |-> "out"]
    /\ offer = [p \in Producers |-> None]
    /\ work = [w \in Workers |-> "receive"]
    /\ item = [w \in Workers |-> None]
    /\ chatLocks = [c \in Chats |-> None]
    /\ begun = {}
    /\ stop = "running"
    /\ cancelled = FALSE /\ broken = FALSE /\ exited = FALSE
-----------------------------------------------------------------------------
(* Enqueue.                                                                 *)

Become(p, label) ==
    /\ prod' = [prod EXCEPT ![p] = label]
    /\ offer' = IF label = "out" THEN [offer EXCEPT ![p] = None] ELSE offer

\* the call, and the first look at the flag
Enqueue(p, u) ==
    /\ prod[p] = "out" /\ u \notin called
    /\ called' = called \cup {u}
    /\ prod' = [prod EXCEPT ![p] = IF stopping THEN "out" ELSE "add"]
    /\ offer' = [offer EXCEPT ![p] = IF stopping THEN None ELSE u]
    /\ UNCHANGED <<channel, producing, workers, stopping, stop, broken, process>>

Register(p) ==
    /\ prod[p] = "add"
    /\ producing' = producing + 1
    /\ Become(p, "recheck")
    /\ UNCHANGED <<channel, called, workers, stopping, stop, broken, process>>

\* Mutant: the flag is looked at only once.
RecheckForgotten(p) ==
    /\ prod[p] = "recheck"
    /\ Become(p, "send")
    /\ UNCHANGED <<channel, called, producing, workers, stopping, stop, broken, process>>

\* the second look at the flag
Recheck(p) ==
    /\ prod[p] = "recheck"
    /\ Become(p, IF stopping THEN "leave" ELSE "send")
    /\ UNCHANGED <<channel, called, producing, workers, stopping, stop, broken, process>>

\* the case of select that sends
Send(p) ==
    /\ prod[p] = "send"
    /\ IF closed
       THEN broken' = TRUE /\ UNCHANGED sent
       ELSE /\ Len(sent) - taken < QueueSize
            /\ sent' = Append(sent, offer[p])
            /\ UNCHANGED broken
    /\ Become(p, "leave")
    /\ UNCHANGED <<called, producing, taken, closed, workers, stopping, stop, process>>

\* the case of select that gives up
GiveUp(p) ==
    /\ prod[p] = "send" /\ cancelled
    /\ Become(p, "leave")
    /\ UNCHANGED <<channel, called, producing, workers, stopping, stop, broken, process>>

\* Mutant: Done is called on the way out of a send only.
LeaveForgotten(p) ==
    /\ prod[p] = "leave"
    /\ producing' = IF stopping THEN producing ELSE producing - 1
    /\ Become(p, "out")
    /\ UNCHANGED <<channel, called, workers, stopping, stop, broken, process>>

\* the deferred Done
Leave(p) ==
    /\ prod[p] = "leave"
    /\ producing' = producing - 1
    /\ Become(p, "out")
    /\ UNCHANGED <<channel, called, workers, stopping, stop, broken, process>>
-----------------------------------------------------------------------------
(* The loop of a worker.                                                    *)

Chat(w) == ChatOf[item[w]]

Receive(w) ==
    /\ work[w] = "receive" /\ taken < Len(sent)
    /\ taken' = taken + 1
    /\ item' = [item EXCEPT ![w] = sent[taken + 1]]
    /\ work' = [work EXCEPT ![w] = "lock"]
    /\ UNCHANGED <<sent, closed, producers, chatLocks, begun, stopping, stop, broken, process>>

\* Mutant: lockFor hands out a new mutex every time.
BeginUnlocked(w) ==
    /\ work[w] = "lock"
    /\ work' = [work EXCEPT ![w] = "handle"]
    /\ begun' = begun \cup {item[w]}
    /\ UNCHANGED <<channel, producers, item, chatLocks, stopping, stop, broken, process>>

\* an update that names a chat waits for the mutex of the chat
Begin(w) ==
    /\ work[w] = "lock"
    /\ IF Chat(w) = NoChat
       THEN UNCHANGED chatLocks
       ELSE /\ chatLocks[Chat(w)] = None
            /\ chatLocks' = [chatLocks EXCEPT ![Chat(w)] = w]
    /\ work' = [work EXCEPT ![w] = "handle"]
    /\ begun' = begun \cup {item[w]}
    /\ UNCHANGED <<channel, producers, item, stopping, stop, broken, process>>

\* Mutant: a handler that panics skips the unlock.
FinishPanicking(w) ==
    /\ work[w] = "handle"
    /\ work' = [work EXCEPT ![w] = "receive"]
    /\ item' = [item EXCEPT ![w] = None]
    /\ \/ chatLocks' = [c \in Chats |-> IF chatLocks[c] = w THEN None ELSE chatLocks[c]]
       \/ UNCHANGED chatLocks
    /\ UNCHANGED <<channel, producers, begun, stopping, stop, broken, process>>

\* The handler returned or panicked: the deferred unlock and recover run in
\* both cases.
Finish(w) ==
    /\ work[w] = "handle"
    /\ work' = [work EXCEPT ![w] = "receive"]
    /\ item' = [item EXCEPT ![w] = None]
    /\ chatLocks' = [c \in Chats |-> IF chatLocks[c] = w THEN None ELSE chatLocks[c]]
    /\ UNCHANGED <<channel, producers, begun, stopping, stop, broken, process>>

\* Mutant: a worker leaves as soon as the pool stops.
RangeEndsEarly(w) ==
    /\ work[w] = "receive" /\ stopping
    /\ work' = [work EXCEPT ![w] = "done"]
    /\ UNCHANGED <<channel, producers, item, chatLocks, begun, stopping, stop, broken, process>>

\* range ends: the channel is closed and empty
RangeEnds(w) ==
    /\ work[w] = "receive" /\ closed /\ taken = Len(sent)
    /\ work' = [work EXCEPT ![w] = "done"]
    /\ UNCHANGED <<channel, producers, item, chatLocks, begun, stopping, stop, broken, process>>
-----------------------------------------------------------------------------
(* Stop, and the process around the pool.                                   *)

StopPool ==
    /\ stop = "running"
    /\ stopping' = TRUE
    /\ stop' = "close"
    /\ UNCHANGED <<channel, producers, workers, broken, process>>

\* producersWg.Wait(), close(updatesCh)
Close ==
    /\ stop = "close" /\ producing = 0
    /\ closed' = TRUE
    /\ stop' = "drain"
    /\ UNCHANGED <<sent, taken, producers, workers, stopping, broken, process>>

\* wg.Wait()
Stopped ==
    /\ stop = "drain" /\ \A w \in Workers : work[w] = "done"
    /\ stop' = "stopped"
    /\ UNCHANGED <<channel, producers, workers, stopping, broken, process>>

\* the signal handler of main
Cancel ==
    /\ ~cancelled
    /\ cancelled' = TRUE
    /\ UNCHANGED <<channel, producers, workers, stopping, stop, broken, exited>>

\* main returns; it does not wait for the goroutine of Bot.Start
Exit ==
    /\ cancelled
    /\ exited' = TRUE
    /\ UNCHANGED <<channel, producers, workers, stopping, stop, broken, cancelled>>
-----------------------------------------------------------------------------
Produce(p) == Register(p) \/ Recheck(p) \/ Send(p) \/ GiveUp(p) \/ Leave(p)
Work(w) == Receive(w) \/ Begin(w) \/ Finish(w) \/ RangeEnds(w)

Next ==
    /\ ~exited
    /\ \/ \E p \in Producers : Produce(p) \/ \E u \in Updates : Enqueue(p, u)
       \/ \E w \in Workers : Work(w)
       \/ StopPool \/ Close \/ Stopped \/ Cancel \/ Exit

Spec == Init /\ [][Next]_vars

\* The Go scheduler runs every goroutine that can run, a mutex or a channel
\* on which a goroutine waits serves its waiters in turn, and handlers return.
Fairness ==
    /\ \A p \in Producers : SF_vars(~exited /\ Produce(p))
    /\ \A w \in Workers : SF_vars(~exited /\ Work(w))
    /\ WF_vars(~exited /\ (Close \/ Stopped))

FairSpec == Spec /\ Fairness
-----------------------------------------------------------------------------
(* Properties.                                                              *)

SentUpdates == {sent[i] : i \in 1..Len(sent)}
Running == {item[w] : w \in {v \in Workers : work[v] = "handle"}}
Finished == begun \ Running

\* The values every variable may take; the channel never holds more than its
\* capacity (updatePool, update_pool.go).
TypeOK ==
    /\ called \subseteq Updates /\ begun \subseteq Updates
    /\ sent \in Seq(Updates)
    /\ taken \in 0..Len(sent) /\ Len(sent) - taken <= QueueSize
    /\ closed \in BOOLEAN /\ stopping \in BOOLEAN /\ broken \in BOOLEAN
    /\ cancelled \in BOOLEAN /\ exited \in BOOLEAN
    /\ producing \in Nat
    /\ prod \in [Producers -> {"out", "add", "recheck", "send", "leave"}]
    /\ offer \in [Producers -> Updates \cup {None}]
    /\ work \in [Workers -> {"receive", "lock", "handle", "done"}]
    /\ item \in [Workers -> Updates \cup {None}]
    /\ chatLocks \in [Chats -> Workers \cup {None}]
    /\ stop \in {"running", "close", "drain", "stopped"}

\* producers counted by the wait group, and those that still hold an update
Registered == {p \in Producers : prod[p] \in {"recheck", "send", "leave"}}
Offering == {p \in Producers : prod[p] \in {"add", "recheck", "send"}}
Busy == {w \in Workers : work[w] \in {"lock", "handle"}}

\* Stop never closes the channel under a producer that is about to send: a
\* send on a closed channel would panic in the polling goroutine and end the
\* bot.
NoSendOnClosedChannel ==
    ~broken /\ (closed => \A p \in Producers : prod[p] # "send")

\* Two updates of one chat are never handled at the same time.
OneHandlerPerChat ==
    \A v, w \in Workers :
        v # w /\ work[v] = "handle" /\ work[w] = "handle" =>
            Chat(v) = NoChat \/ Chat(v) # Chat(w)

\* When Stop returns, every update that was put on the channel has been
\* handled to its end.
StopDrains == stop = "stopped" => SentUpdates \subseteq Finished

\* An update on the channel is handled, even behind handlers that panicked,
\* unless the process ends first.
AcceptedIsHandled ==
    \A u \in Updates : u \in SentUpdates ~> u \in Finished \/ exited

\* Stop returns: producers that wait for room in the channel are let go
\* because the workers go on, and the workers find the channel closed.
StopReturns == stopping ~> stop = "stopped" \/ exited

\* who can take its next step now
CanWork(w) ==
    \/ work[w] = "receive" /\ (taken < Len(sent) \/ closed)
    \/ work[w] = "lock" /\ (Chat(w) = NoChat \/ chatLocks[Chat(w)] = None)
    \/ work[w] = "handle"

CanProduce(p) ==
    \/ prod[p] \in {"add", "recheck", "leave"}
    \/ prod[p] = "send" /\ (Len(sent) - taken < QueueSize \/ cancelled)

\* Whoever waits, waits for a goroutine that can go on: a full channel for a
\* worker, the mutex of a chat for the handler that runs there, the Wait of
\* Stop for a producer or a worker.  The pool does not lock up, not even while
\* handlers panic and the pool is being stopped.
NobodyStuck ==
    LET Working == \E w \in Workers : CanWork(w)
        Producing == \E p \in Producers : CanProduce(p)
    IN /\ taken < Len(sent) => Working
       /\ \A w \in Workers :
             work[w] = "lock" => CanWork(w) \/ work[chatLocks[Chat(w)]] = "handle"
       /\ \A p \in Producers : prod[p] # "out" => CanProduce(p) \/ Working
       /\ stop = "close" => producing = 0 \/ Producing \/ Working
       /\ stop = "drain" => (\A w \in Workers : work[w] = "done") \/ Working

\* What carries the safety properties.  StopInv: Stop cannot pass its Wait
\* while a producer is between Add and Done, and who registers later sees the
\* flag.  OnceInv: an update is in one place at a time.  LockInv: a running
\* handler holds the mutex of its chat.
StopInv ==
    /\ producing = Cardinality(Registered)
    /\ stop # "running" => stopping
    /\ closed <=> stop \in {"drain", "stopped"}
    /\ NoSendOnClosedChannel

OnceInv ==
    /\ SentUpdates \subseteq called
    /\ \A i, j \in 1..Len(sent) : sent[i] = sent[j] => i = j
    /\ \A p \in Offering : offer[p] \in called \ SentUpdates
    /\ \A p, q \in Offering : offer[p] = offer[q] => p = q
    /\ \A w \in Busy : \E i \in 1..taken : item[w] = sent[i]
    /\ \A v, w \in Busy : item[v] = item[w] => v = w
    /\ \A u \in begun : \E i \in 1..taken : u = sent[i]
    /\ \A w \in Busy : item[w] \in begun <=> work[w] = "handle"

LockInv ==
    \A w \in Workers : work[w] = "handle" /\ Chat(w) # NoChat => chatLocks[Chat(w)] = w

DrainInv ==
    /\ \A i \in 1..taken : sent[i] \in begun \/ \E w \in Busy : item[w] = sent[i]
    /\ \A w \in Workers : work[w] = "done" => closed /\ taken = Len(sent)
    /\ stop = "stopped" => \A w \in Workers : work[w] = "done"

PoolInv == StopInv /\ OnceInv /\ LockInv /\ DrainInv

Abstract == INSTANCE SerialExecutor
    WITH accepted <- SentUpdates, started <- begun, finished <- Finished

\* The pool implements the executor the features rely on.
RefinesSerialExecutor == Abstract!Spec
=============================================================================
