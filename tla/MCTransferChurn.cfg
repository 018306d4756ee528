\* two requests of one sender, to a user whose purge falls due and to a new one
CONSTANTS
  u1 = u1
  u2 = u2
  u3 = u3
  t1 = t1
  t2 = t2
  group = group
  private = private
  Users = {u1, u2, u3}
  Tokens = {t1, t2}
  Workers = {w1, w2}
  None = None
  From <- GiftFrom
  To <- GiftTo
  Amount <- UnitAmounts
  ChatOf <- TwoChats
  PerChat = TRUE
  Sums = {}
  EarnLimit = 0
  InitialBalance <- GiftBalances
  InitialMembers = {u1, u3}
  Active = {u1, u2}
  Leavers = {u3}
SPECIFICATION Spec
PROPERTIES RefinesAtomicPayments
CHECK_DEADLOCK FALSE
