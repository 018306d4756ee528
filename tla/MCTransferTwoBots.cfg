\* one request, handled by three workers of two instances of the bot
CONSTANTS
  u1 = u1
  u2 = u2
  u3 = u3
  t1 = t1
  t2 = t2
  group = group
  private = private
  Users = {u1, u2}
  Tokens = {t1}
  Workers = {w1, w2, w3}
  None = None
  From <- OneFrom
  To <- OneTo
  Amount <- OneAmount
  ChatOf <- OneGroup
  PerChat = FALSE
  Sums = {1}
  EarnLimit = 2
  InitialBalance <- Balances
  InitialMembers = {u1, u2}
  Active = {u1, u2}
  Leavers = {}
SPECIFICATION Spec
INVARIANTS BooksBalance PaidAtMostOnce PaidAfterTwoYes MessageIsTrue
CHECK_DEADLOCK FALSE
