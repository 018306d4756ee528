---------------------------- MODULE RateLimiter ----------------------------
(***************************************************************************)
(* The gate in front of every message handler: at most Requests messages   *)
(* of a sender in a sliding window, counted from a list in memory that is  *)
(* pruned on every message and by a timer.  A mutex makes each operation   *)
(* one step.                                                               *)
(***************************************************************************)
EXTENDS Thanks

CONSTANTS Requests, Window

ASSUME LimiterAssumption == Requests \in Nat \ {0} /\ Window \in Nat \ {0}

VARIABLES
    requests,   \* RateLimiter.requests: the messages remembered, numbered, with
                \* their times
    passed      \* history: when messages went through, and in which process

InitLimiter ==
    /\ requests = [u \in Users |-> {}]
    /\ passed = [u \in Users |-> <<>>]

\* Mutant: an entry is pruned one tick too early.
PruneOlder(times) == {request \in times : request.at > now - Window + 1}
Prune(times) == {request \in times : request.at > now - Window}

Allow(u) ==
    /\ play = "messages"
    /\ LET recent == Prune(requests[u])
       IN  IF Cardinality(recent) >= Requests
           THEN requests' = [requests EXCEPT ![u] = recent] /\ UNCHANGED passed
           ELSE /\ requests' = [requests EXCEPT ![u] =
                                   recent \cup {[no |-> Len(passed[u]) + 1, at |-> now]}]
                /\ passed' = [passed EXCEPT ![u] = Append(@, now)]

cleanup ==
    /\ play = "messages"
    /\ requests' = [u \in Users |-> Prune(requests[u])]
    /\ UNCHANGED passed

LimiterNext ==
    /\ cleanup \/ \E u \in Users : Allow(u)
    /\ UNCHANGED <<desk, balance, casino, thanks>>

\* Whatever the timer prunes, no window holds more than Requests messages of a
\* sender that one process let through.
BurstIsBounded ==
    \A u \in Users : \A t \in 0 .. now :
        Cardinality({i \in DOMAIN passed[u] : passed[u][i] \in (t - Window + 1) .. t}) <= Requests
=============================================================================
