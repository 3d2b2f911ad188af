SPECIFICATION ServerSpec
CONSTANTS
  t1 = t1
  t2 = t2
  t3 = t3
  Thread = {t1, t2, t3}
  Token <- MCToken
  LowerCase <- MCLowerCase
  Environments <- LiveOnly
  FilterRequests <- OneFilterRequest
  OtherCalls <- NoOtherCalls
  ChatReplies <- OneDecision
  Margin = 4
  Lifetime = 5
  Jitter = 1
  Latency = 1
  MaxTime = 8
SYMMETRY ThreadSymmetry
INVARIANTS
  CacheHardlyTorn
  TokenValidWhenUsed
  TokenRetires
  CallsCanProceed
CHECK_DEADLOCK FALSE
