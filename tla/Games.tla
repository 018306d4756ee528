------------------------------- MODULE Games -------------------------------
(***************************************************************************)
(* Slots and thanks together, on one table of balances, behind the rate    *)
(* limiter.  A message the limiter drops is one the others never see.      *)
(***************************************************************************)
EXTENDS RateLimiter

vars == <<desk, balance, casino, thanks, requests, passed>>

Init == InitCasino /\ InitThanks /\ InitLimiter

TimePasses ==
    /\ now < Horizon /\ play # "slots"
    /\ now' = now + 1
    /\ UNCHANGED <<desk, balance, casino, log, requests, passed>>

\* What the process kept in memory is gone.  The spins under way stay unfinished.
Crash ==
    /\ Happens("crash")
    /\ job' = [c \in Chats |-> Idle]
    /\ dented' = dented \cup {u \in Users : SpinsOf(u) # {}}
    /\ weights' = [u \in Users |-> "none"]
    /\ requests' = [u \in Users |-> {}]
    /\ passed' = [u \in Users |-> <<>>]
    /\ UNCHANGED <<play, balance, games, begun, thanks>>

Next ==
    \/ CasinoNext /\ UNCHANGED <<thanks, requests, passed>>
    \/ ThanksNext /\ UNCHANGED <<requests, passed>>
    \/ LimiterNext
    \/ TimePasses
    \/ Crash

Spec == Init /\ [][Next]_vars

-----------------------------------------------------------------------------
Received(u) == Cardinality({i \in DOMAIN log : log[i].to = u})

\* The books explain the money: for a player no spin of whom was cut short or
\* met an error, what casino_games says he bet and won and the thanks he received
\* account for his whole balance, although bet, win and game are written one by
\* one and spins of two chats interleave.  A grid that could not be drawn costs
\* nothing, free spins that broke off are paid as far as they went, and no bet,
\* error or crash leaves anybody with less than nothing.
BooksAgree ==
    /\ \A u \in Users : balance[u] >= 0
    /\ \A u \in Users \ dented : SpinsOf(u) = {} =>
        balance[u] = Funds[u] - games[u].bet + games[u].won + ThanksReward * Received(u)
=============================================================================
