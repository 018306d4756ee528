----------------------------- MODULE MCRiddle -----------------------------
(* Values for the constants of Riddle that a .cfg cannot write.             *)
EXTENDS Riddle, TLC

TwoAnswers == [r \in Riddles |-> Answers]

Alike ==
    Permutations(Users) \cup Permutations(Workers) \cup Permutations(Riddles)
        \cup Permutations(Answers)

\* Bounds: the starts that could not change anything are left out.  A guess
\* starts when its answer is free in a riddle published or active, a stop when
\* there is such a riddle, the cleanup when a row has expired, and only a
\* winner leaves.
Free == UNION {{a \in AnswersOf[r] : winner[r][a] = Nobody} : r \in Blocking}
Matters ==
    /\ vars' # vars
    /\ members' # members => Blocking # {}
    /\ \A w \in Workers : task[w].step = "idle" =>
        /\ task'[w].step = "guess" => task'[w].answer \in Free
        /\ task'[w].step = "stop" => Blocking # {}
    /\ job.step = "idle" /\ job'.step = "list" =>
        \E r \in Riddles : riddle[r] \notin {"none", "gone"} /\ expires[r] <= now
    /\ \A u \in members \ members' : \E r \in Blocking, a \in Answers : winner[r][a] = u
=============================================================================
