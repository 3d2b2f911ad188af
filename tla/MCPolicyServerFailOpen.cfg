SPECIFICATION ServerSpec
CONSTANTS
  t1 = t1
  t2 = t2
  t3 = t3
  Thread = {t1}
  Token <- MCToken
  LowerCase <- MCLowerCase
  Environments <- AllEnvironments
  FilterRequests <- AllFilterRequests
  OtherCalls <- ForeignCalls
  ChatReplies <- AllChatReplies
  Margin = 1
  Lifetime = 2
  Jitter = 0
  Latency = 0
  MaxTime = 2
INVARIANTS
  FailOpenAlwaysDecides
CHECK_DEADLOCK FALSE
