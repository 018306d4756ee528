--------------------------- MODULE RiddleContest ---------------------------
(***************************************************************************)
(* What riddles promise, without transactions, messages or failures: one   *)
(* is open at a time, an answer belongs to whoever gave it first, and the  *)
(* member who gives the last one makes the riddle pay all its winners in   *)
(* that same step.                                                         *)
(* A riddle that ends in any other way pays nobody.                        *)
(***************************************************************************)
CONSTANTS Riddles, Answers, AnswersOf, Users, Nobody

VARIABLES
    phase,    \* "none", "open", "closed" or "gone"
    winner,   \* who gave an answer of a riddle
    paid      \* who was paid for it

vars == <<phase, winner, paid>>

NoWinner == [a \in Answers |-> Nobody]

Init ==
    /\ phase = [r \in Riddles |-> "none"]
    /\ winner = [r \in Riddles |-> NoWinner]
    /\ paid = [r \in Riddles |-> NoWinner]

Open(r) ==
    /\ phase[r] = "none"
    /\ \A s \in Riddles : phase[s] # "open"
    /\ phase' = [phase EXCEPT ![r] = "open"]
    /\ UNCHANGED <<winner, paid>>

Given(r, a, u) == [winner[r] EXCEPT ![a] = u]
IsLast(r, a) == \A b \in AnswersOf[r] \ {a} : winner[r][b] # Nobody

Answer(r, a, u) ==
    /\ phase[r] = "open"
    /\ a \in AnswersOf[r] /\ winner[r][a] = Nobody
    /\ winner' = [winner EXCEPT ![r] = Given(r, a, u)]
    /\ IF IsLast(r, a)
       THEN /\ phase' = [phase EXCEPT ![r] = "closed"]
            /\ paid' = [paid EXCEPT ![r] = Given(r, a, u)]
       ELSE UNCHANGED <<phase, paid>>

Close(r) ==
    /\ phase[r] = "open"
    /\ phase' = [phase EXCEPT ![r] = "closed"]
    /\ UNCHANGED <<winner, paid>>

Forget(S) ==
    /\ \A r \in S : phase[r] \in {"open", "closed"}
    /\ phase' = [r \in Riddles |-> IF r \in S THEN "gone" ELSE phase[r]]
    /\ winner' = [r \in Riddles |-> IF r \in S THEN NoWinner ELSE winner[r]]
    /\ paid' = [r \in Riddles |-> IF r \in S THEN NoWinner ELSE paid[r]]

Next ==
    \/ \E r \in Riddles : Open(r) \/ Close(r)
    \/ \E r \in Riddles, a \in Answers, u \in Users : Answer(r, a, u)
    \/ \E S \in SUBSET Riddles : Forget(S)

Spec == Init /\ [][Next]_vars
=============================================================================
