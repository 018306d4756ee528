------------------------------- MODULE Slots -------------------------------
(***************************************************************************)
(* What a grid of the slot machine pays: functions without state.          *)
(***************************************************************************)
EXTENDS Integers, Sequences, FiniteSetsExt

DefaultWeights ==
    [Cherry |-> 25, Lemon |-> 20, Orange |-> 18, Grape |-> 15, Watermelon |-> 10,
     Diamond |-> 7, Seven |-> 3, Wild |-> 1, Scatter |-> 1]
Symbols == DOMAIN DefaultWeights

\* A grid has five reels of six rows, a line one row for each reel.
Reels == 1 .. 5
Rows == 0 .. 5
Paylines ==
    {<<r, r, r, r, r>> : r \in Rows} \cup
    {<<0, 1, 2, 1, 0>>, <<5, 4, 3, 4, 5>>, <<1, 0, 1, 0, 1>>, <<4, 5, 4, 5, 4>>,
     <<0, 1, 2, 3, 4>>, <<4, 3, 2, 1, 0>>, <<1, 2, 3, 4, 5>>, <<5, 4, 3, 2, 1>>,
     <<2, 1, 0, 1, 2>>, <<3, 4, 5, 4, 3>>, <<0, 0, 1, 2, 2>>, <<5, 5, 4, 3, 3>>,
     <<1, 2, 1, 2, 1>>, <<3, 2, 3, 2, 3>>}

PayoutTable(count) == CASE count = 3 -> 2 [] count = 4 -> 5 [] count = 5 -> 20 [] OTHER -> 0

calculateLinePayout(symbol, count) ==
    CASE symbol = "Seven" /\ count = 5 -> 50
      [] symbol = "Diamond" /\ count = 5 -> 30
      [] OTHER -> PayoutTable(count)

\* The first symbol that is neither wild nor scatter; Wild when there is none
BaseSymbol(line) ==
    LET plain == {i \in Reels : line[i] \notin {"Wild", "Scatter"}}
    IN  IF plain = {} THEN "Wild" ELSE line[Min(plain)]

\* Mutant: symbols count wherever they stand on the line.
MatchAnywhere(line) ==
    Cardinality({i \in Reels : line[i] \in {BaseSymbol(line), "Wild"}})

\* How many symbols from the left are the base symbol or wild
MatchCount(line) ==
    LET others == {i \in Reels : line[i] \notin {BaseSymbol(line), "Wild"}}
    IN  IF others = {} THEN 5 ELSE Min(others) - 1

LinePayout(line) == calculateLinePayout(BaseSymbol(line), MatchCount(line))

\* The sum of the lines that win, in bets
CheckPaylines(grid) ==
    MapThenSumSet(LAMBDA p : LinePayout([i \in Reels |-> grid[i][p[i]]]), Paylines)

CountScatters(grid) == Cardinality({c \in Reels \X Rows : grid[c[1]][c[2]] = "Scatter"})

\* Six and more scatters are not in the table and give nothing
CalculateScatterBonus(count) ==
    CASE count = 3 -> [bonus |-> 100, freeSpins |-> 1]
      [] count = 4 -> [bonus |-> 200, freeSpins |-> 2]
      [] count = 5 -> [bonus |-> 500, freeSpins |-> 3]
      [] OTHER -> [bonus |-> 0, freeSpins |-> 0]

\* The grid that was bought and its free spins, whose own free spins do not count
TotalPayout(bet, grid, free) ==
    LET Pays(g) == bet * CheckPaylines(g) + CalculateScatterBonus(CountScatters(g)).bonus
    IN  Pays(grid) + MapThenSumSet(LAMBDA i : Pays(free[i]), DOMAIN free)
=============================================================================
