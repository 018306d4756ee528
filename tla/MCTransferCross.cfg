\* two requests that cross, one instance of the bot, two chats, under fairness
CONSTANTS
  u1 = u1
  u2 = u2
  u3 = u3
  t1 = t1
  t2 = t2
  group = group
  private = private
  Users = {u1, u2}
  Tokens = {t1, t2}
  Workers = {w1, w2}
  None = None
  From <- CrossFrom
  To <- CrossTo
  Amount <- UnitAmounts
  ChatOf <- TwoChats
  PerChat = TRUE
  Sums = {}
  EarnLimit = 1
  InitialBalance <- Balances
  InitialMembers = {u1, u2}
  Active = {u1, u2}
  Leavers = {}
SPECIFICATION FairSpec
INVARIANTS WaitersLeadOn DeadlocksCross
PROPERTIES FinalIsFinal HandlersReturn
CHECK_DEADLOCK FALSE
