------------------------------ MODULE MCGames ------------------------------
(* Grids and balances for the slot machine.                                 *)
EXTENDS Games

Dull == <<"Cherry", "Lemon", "Orange", "Grape", "Watermelon">>

\* Nothing, three cherries from the left, a jackpot, three scatters
Blank == [i \in Reels |-> [r \in Rows |-> Dull[i]]]
Cherries == [Blank EXCEPT ![2][0] = "Cherry", ![3][0] = "Wild"]
Jackpot == [i \in Reels |-> [r \in Rows |-> IF r = 0 THEN "Seven" ELSE Dull[i]]]
Bonus == [Blank EXCEPT ![1][0] = "Scatter", ![2][3] = "Scatter", ![5][5] = "Scatter"]

SomeGrids == {Blank, Cherries, Jackpot, Bonus}
Purses == [u \in Users |-> IF u = "ann" THEN 100 ELSE 0]
=============================================================================
