------------------------------- MODULE Casino -------------------------------
(***************************************************************************)
(* A spin of the slot machine: the bet, the grid, the win, the statistics, *)
(* the weights and the record of the game, each a statement or transaction *)
(* of its own.  The handlers of one chat run one after the other; the same *)
(* player may play in the group and in his private chat at once.           *)
(*                                                                         *)
(* There is no table of statistics here: PostgreSQL refuses the statement  *)
(* of UpdateStats whenever it is called, so casino_stats never has a row.  *)
(***************************************************************************)
EXTENDS Slots

CONSTANTS
    Users,        \* members
    Chats,        \* chats in which the bot listens
    Plays,        \* what the users of a behaviour do
    Bet,          \* CasinoSlotsBet
    Grids,        \* grids the generator may give
    MinRTP, MaxRTP,
    MaxSpins,     \* spins a run looks at
    Funds,        \* balances at the start
    Faults        \* what may go wrong, each once: "refused" (a statement), "lost"
                  \* (the answer to a COMMIT), "rng" (the random source), "crash"

ASSUME CasinoAssumption ==
    /\ Bet \in Nat \ {0} /\ MaxSpins \in Nat /\ MinRTP \in Nat /\ MaxRTP \in Nat
    /\ Funds \in [Users -> Nat] /\ IsFiniteSet(Chats)

VARIABLES
    play,      \* what this behaviour is about
    balance,   \* column balance of balances
    games,     \* table casino_games: what a user's rows of it add up to
    weights,   \* RTPManager.userWeights: those for which luck, or "none"
    job,       \* the handler under way in a chat
    failed,    \* history: what has gone wrong
    dented,    \* history: players hit by an error of the database or a crash
    begun      \* history: how many spins have begun

desk == <<play, job, failed>>
casino == <<games, weights, dented, begun>>

NoGames == [bet |-> 0, won |-> 0]
Idle == [step |-> "idle"]

InitCasino ==
    /\ play \in Plays
    /\ balance = Funds
    /\ games = [u \in Users |-> NoGames]
    /\ weights = [u \in Users |-> "none"]
    /\ job = [c \in Chats |-> Idle]
    /\ failed = {}
    /\ dented = {}
    /\ begun = 0

Happens(f) == f \in Faults \ failed /\ failed' = failed \cup {f}
Fine == failed' = failed

At(c, step) == job[c].step = step
Goto(c, step) == job' = [job EXCEPT ![c].step = step]
Return(c) == job' = [job EXCEPT ![c] = Idle]

\* The statement takes effect, or is refused and only logged.  A lost answer to
\* one that took effect is only logged too.
Logged(u, effect, unchanged) == \/ effect /\ Fine /\ dented' = dented
                                \/ unchanged /\ Happens("refused") /\ dented' = dented \cup {u}

SpinsOf(u) == {c \in Chats : play = "slots" /\ job[c] # Idle /\ job[c].user = u}

\* A player who cannot afford the bet is told so
PlaySlots(c, u) ==
    /\ play = "slots" /\ job[c] = Idle
    /\ begun < MaxSpins /\ begun' = begun + 1
    /\ balance[u] >= Bet
    /\ job' = [job EXCEPT ![c] = [step |-> "bet", user |-> u, payout |-> 0]]
    /\ Fine
    /\ UNCHANGED <<play, balance, games, weights, dented>>

\* Mutant: the balance is not looked at a second time.
DeductBetUnchecked(c) ==
    /\ At(c, "bet")
    /\ balance' = [balance EXCEPT ![job[c].user] = @ - Bet]
    /\ Goto(c, "draw") /\ Fine
    /\ UNCHANGED <<play, casino>>

\* The balance is read once more, in the transaction that takes the bet.  When
\* the answer to its COMMIT is lost the bet is taken and the spin is over.
DeductBet(c) ==
    /\ At(c, "bet")
    /\ LET u == job[c].user
       IN  \/ /\ balance[u] >= Bet
              /\ balance' = [balance EXCEPT ![u] = @ - Bet]
              /\ \/ Goto(c, "draw") /\ Fine /\ dented' = dented
                 \/ Return(c) /\ Happens("lost") /\ dented' = dented \cup {u}
           \/ /\ (balance[u] < Bet /\ Fine) \/ Happens("refused")
              /\ Return(c) /\ UNCHANGED <<balance, dented>>
    /\ UNCHANGED <<play, games, weights, begun>>

\* Without a first grid the bet is given back; without the next one the free
\* spins are over, and those that were drawn are paid.
Draw(c) ==
    /\ At(c, "draw")
    /\ \/ \E grid \in Grids :
             LET n == CalculateScatterBonus(CountScatters(grid)).freeSpins
             IN  \E k \in 0 .. n : \E free \in [1 .. k -> Grids] :
                    /\ job' = [job EXCEPT ![c].step = "pay",
                                          ![c].payout = TotalPayout(Bet, grid, free)]
                    /\ (k = n /\ Fine) \/ (k < n /\ Happens("rng"))
       \/ Goto(c, "refund") /\ Happens("rng")
    /\ UNCHANGED <<play, balance, casino>>

\* An error is not looked at
Refund(c) ==
    /\ At(c, "refund")
    /\ LET u == job[c].user
       IN  Logged(u, balance' = [balance EXCEPT ![u] = @ + Bet], balance' = balance)
    /\ Return(c)
    /\ UNCHANGED <<play, games, weights, begun>>

\* A win that cannot be credited is announced all the same
PayWin(c) ==
    /\ At(c, "pay")
    /\ LET u == job[c].user
       IN  Logged(u, balance' = [balance EXCEPT ![u] = @ + job[c].payout], balance' = balance)
    /\ Goto(c, "stats")
    /\ UNCHANGED <<play, games, weights, begun>>

\* INSERT ... VALUES ($1, 1, $2, $3, $3, CASE WHEN $2 = 0 ... $3::DECIMAL ...):
\* the comparison with 0 makes $2 an integer, the cast makes $3 a numeric, and
\* both stand for a BIGINT as well.  PostgreSQL answers "inconsistent types
\* deduced for parameter" (42P08) whatever the values, and the error is logged.
UpdateStats(c) ==
    /\ At(c, "stats")
    /\ Goto(c, "rtp") /\ Fine
    /\ UNCHANGED <<play, balance, casino>>

\* A player without a row of statistics
GetStatsOrDefault == 96

Luck(rtp) == IF rtp > MaxRTP THEN "high" ELSE IF rtp < MinRTP THEN "low" ELSE "fair"

AdjustRTP(c) ==
    /\ At(c, "rtp")
    /\ weights' = [weights EXCEPT ![job[c].user] = Luck(GetStatsOrDefault)]
    /\ Goto(c, "save") /\ Fine
    /\ UNCHANGED <<play, balance, games, dented, begun>>

SaveGame(c) ==
    /\ At(c, "save")
    /\ LET u == job[c].user
       IN  Logged(u, games' = [games EXCEPT ![u] = [bet |-> @.bet + Bet,
                                                    won |-> @.won + job[c].payout]],
                  games' = games)
    /\ Return(c)
    /\ UNCHANGED <<play, balance, weights, begun>>

CasinoNext ==
    \E c \in Chats :
        \/ \E u \in Users : PlaySlots(c, u)
        \/ DeductBet(c) \/ Draw(c) \/ Refund(c)
        \/ PayWin(c) \/ UpdateStats(c) \/ AdjustRTP(c) \/ SaveGame(c)

-----------------------------------------------------------------------------
\* Every symbol a line may show stands for its kind: two cheap ones, the two
\* with a payout of their own, and the special ones.
Kinds == {"Cherry", "Grape", "Diamond", "Seven", "Wild", "Scatter"}

\* A run of a line: its first n symbols are s or wild.
Runs(line) ==
    {r \in (3 .. 5) \X ({line[i] : i \in Reels} \cup {"Wild"}) :
        r[2] # "Scatter" /\ \A i \in 1 .. r[1] : line[i] \in {r[2], "Wild"}}

BestRunsArePaid ==
    \A line \in [Reels -> Kinds] :
        LinePayout(line) = Max({calculateLinePayout(r[2], r[1]) : r \in Runs(line)} \cup {0})

\* When a grid is drawn, the single pass over a line, which fixes one base symbol
\* before it counts, pays what the best of all runs from the left pays, and
\* nothing when there is no run of three, whatever wilds and scatters are drawn.
LinePaysBestRun == (\E c \in Chats : At(c, "draw")) => BestRunsArePaid
=============================================================================
