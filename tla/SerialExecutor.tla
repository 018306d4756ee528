-------------------------- MODULE SerialExecutor --------------------------
(***************************************************************************)
(* What the features of the bot rely on: an update that was accepted is    *)
(* handled at most once, and two updates of one chat are never handled at  *)
(* the same time.  Nothing is said about the order in which the updates of *)
(* a chat are handled, because UpdatePool does not keep it.                *)
(***************************************************************************)
CONSTANTS
    Updates,      \* updates of Telegram
    ChatOf,       \* chat of an update
    NoChat        \* the chat of an update that names none

VARIABLES accepted, started, finished

vars == <<accepted, started, finished>>

Init == accepted = {} /\ started = {} /\ finished = {}

Accept(u) ==
    /\ u \notin accepted
    /\ accepted' = accepted \cup {u}
    /\ UNCHANGED <<started, finished>>

\* Start u: no update of its chat may be running.
Start(u) ==
    /\ u \in accepted \ started
    /\ \A v \in started \ finished : ChatOf[u] = NoChat \/ ChatOf[v] # ChatOf[u]
    /\ started' = started \cup {u}
    /\ UNCHANGED <<accepted, finished>>

Finish(u) ==
    /\ u \in started \ finished
    /\ finished' = finished \cup {u}
    /\ UNCHANGED <<accepted, started>>

Next == \E u \in Updates : Accept(u) \/ Start(u) \/ Finish(u)

Spec == Init /\ [][Next]_vars
=============================================================================
