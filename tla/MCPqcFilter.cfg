SPECIFICATION FairSpec
CONSTANTS
  Token <- MCToken
  Configs <- MCConfigs
  Requests <- MCRequests
  Responses <- AllResponses
  MaxFrames = 3
INVARIANTS
  TypeOK
  FramesInOrder
  NoStrandedFrames
  PolicyRequestOwned
  PendingHeadersAlive
  ForwardedAsDecided
  RejectedStaysOut
  FailureModeRespected
  LocalDecisionsHonourMode
  WaitsCanEnd
PROPERTIES
  HeldFramesResolve
  ResumeLegal
  DecisionIsFinal
  NothingAfterDestroy
  ImplementsGate
CHECK_DEADLOCK FALSE
