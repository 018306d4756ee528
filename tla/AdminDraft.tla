----------------------------- MODULE AdminDraft -----------------------------
(***************************************************************************)
(* The dialogue in which a moderator writes a riddle: text, answers and    *)
(* reward, each in a message of its own, then the button that publishes.   *)
(* What publishing does in the database and the group is module Riddle;    *)
(* here it either happens or leaves the draft where it was.                *)
(*                                                                         *)
(* A part of the draft is the number of the dialogue in which it was       *)
(* written, 0 when it is missing.                                          *)
(***************************************************************************)
EXTENDS AdminSession

CONSTANT MaxDrafts   \* dialogues a run begins, for each moderator

ASSUME DraftAssumption == MaxDrafts \in Nat

VARIABLES
    drafts,   \* history: dialogues begun, each with a row of its own
    posted    \* the draft published last

writing == <<drafts, posted>>

EmptyDraft == [text |-> 0, answers |-> 0, reward |-> 0]

InitDraft ==
    /\ drafts = [a \in Staff |-> 0]
    /\ posted = EmptyDraft

RiddleText == "admin:riddle_text"
RiddleAnswers == "admin:riddle_answers"
RiddleReward == "admin:riddle_reward"
RiddleConfirm == "admin:riddle_confirm"
DraftStates == {RiddleText, RiddleAnswers, RiddleReward, RiddleConfirm}

Writes(a) == Admitted(a, "draft") /\ CanManageRiddles(a)
Rest == UNCHANGED <<agenda, now, auth, job>>

\* When the row cannot be saved the question is asked all the same, and what is
\* typed then belongs to the dialogue before.
StartRiddleCreate(a) ==
    /\ Writes(a) /\ drafts[a] < MaxDrafts
    /\ \/ /\ Saved(a, RiddleText, EmptyDraft) /\ Fine
          /\ drafts' = [drafts EXCEPT ![a] = @ + 1]
       \/ Kept /\ Happens("refused") /\ UNCHANGED drafts
    /\ Rest /\ UNCHANGED <<breach, posted>>

\* A text of the wrong form is answered and changes nothing.  The handler knows
\* the state from one read of the row and takes the draft from another; when
\* the row lapses in between ("late"), the step goes on with an empty draft.
Step(a, from, to, part) ==
    LET Written(d) == [d EXCEPT ![part] = drafts[a]] IN
    /\ Writes(a) /\ In(a, {from})
    /\ \/ SetState(a, to, Written(flow[a].data))
       \/ Happens("late") /\ Saved(a, to, Written(EmptyDraft))
    /\ Rest /\ UNCHANGED <<breach, writing>>

TextStep(a) == Step(a, RiddleText, RiddleAnswers, "text")
AnswersStep(a) == Step(a, RiddleAnswers, RiddleReward, "answers")
RewardStep(a) == Step(a, RiddleReward, RiddleConfirm, "reward")

\* Mutant: a riddle without a text is complete.
CompleteButText(d) == d.answers # 0 /\ d.reward # 0

Complete(d) == d.text # 0 /\ d.answers # 0 /\ d.reward # 0

\* The button works in every state that holds a draft.  A draft that is not
\* complete, or none, drops the row; a publication that fails leaves it.
RiddlePublish(a) ==
    /\ Writes(a)
    /\ IF In(a, DraftStates) /\ Complete(flow[a].data)
       THEN /\ \/ posted' = flow[a].data /\ ClearState(a)
               \/ Happens("refused") /\ Kept /\ UNCHANGED posted
            /\ Deed(a, "draft")
       ELSE ClearState(a) /\ UNCHANGED <<posted, breach>>
    /\ Rest /\ UNCHANGED drafts

DraftNext ==
    \E a \in Staff :
        \/ StartRiddleCreate(a)
        \/ TextStep(a) \/ AnswersStep(a) \/ RewardStep(a)
        \/ RiddlePublish(a)

-----------------------------------------------------------------------------
\* A published riddle has a text, answers and a reward, all written in one and
\* the same dialogue that had a row of its own, whatever lapses, fails or is tapped in between.
PostedIsWhole ==
    posted # EmptyDraft =>
        Complete(posted) /\ posted.text = posted.answers /\ posted.answers = posted.reward
=============================================================================
