------------------------------ MODULE MCStreak -------------------------------
(* Streak on small calendars.                                              *)
EXTENDS Streak, TLC

CONSTANTS u1, u2, r1, r2

OneUser == {u1}
TwoUsers == {u1, u2}
OneRun == {r1}
TwoRuns == {r1, r2}

Symmetry == Permutations(TwoUsers) \cup Permutations(TwoRuns)
=============================================================================
