SPECIFICATION FairLoopSpec
CONSTANTS
  t1 = t1
  t2 = t2
  Thread = {t1, t2}
  StreamThread = t1
  Token <- MCToken
  LowerCase <- MCLowerCase
  Configs <- FewConfigs
  Requests <- OneRequest
  Responses <- MCResponses
  MaxFrames = 2
  Environments <- LiveOnly
  FilterRequests <- OneFilterRequest
  OtherCalls <- StalledCalls
  ChatReplies <- AllowOrFail
  Margin = 2
  Lifetime = 3
  Jitter = 0
  Latency = 1
  MaxTime = 1
INVARIANT
  LoopCanProceed
PROPERTIES
  HeldFramesAnswered
  CallsAnswered
CHECK_DEADLOCK FALSE
