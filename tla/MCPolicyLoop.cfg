SPECIFICATION LoopSpec
CONSTANTS
  t1 = t1
  t2 = t2
  Thread = {t1}
  StreamThread = t1
  Token <- MCToken
  LowerCase <- MCLowerCase
  Configs <- MCConfigs
  Requests <- MCRequests
  Responses <- MCResponses
  MaxFrames = 2
  Environments <- MCEnvironments
  FilterRequests <- MCFilterRequests
  OtherCalls <- StalledCalls
  ChatReplies <- MCChatReplies
  Margin = 2
  Lifetime = 2
  Jitter = 0
  Latency = 1
  MaxTime = 1
INVARIANTS
  ModeKeptEndToEnd
  WhoeverDecides
  AnswerEnforced
  ToldWhatWasAsked
  FailClosedEndToEnd
CHECK_DEADLOCK FALSE
