\* two riddles, two members, two handlers, every fault
CONSTANTS
  Riddles = {r1, r2}
  Answers = {cold, wet}
  AnswersOf <- TwoAnswers
  Users = {ann, bob}
  Workers = {w1, w2}
  TTL = 1
  Horizon = 1
  Faults = {"crash", "refused", "lost"}
  Nobody = Nobody
SPECIFICATION Spec
INVARIANTS RewardIsWhole ActiveIsPosted
PROPERTIES RefinesContest
CHECK_DEADLOCK FALSE

SYMMETRY Alike
ACTION_CONSTRAINT Matters
