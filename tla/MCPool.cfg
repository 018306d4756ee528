\* two producers, two workers, room for one update, under fairness
CONSTANTS
  a1 = a1
  a2 = a2
  n1 = n1
  group = group
  Updates = {a1, a2, n1}
  ChatOf <- TwoAndNone
  Chats = {group}
  NoChat = NoChat
  Producers = {p1, p2}
  Workers = {w1, w2}
  QueueSize = 1
  None = None
SPECIFICATION FairSpec
INVARIANTS NoSendOnClosedChannel StopDrains NobodyStuck
PROPERTIES RefinesSerialExecutor AcceptedIsHandled StopReturns
CHECK_DEADLOCK FALSE
