SPECIFICATION Spec
CONSTANTS
  Token <- MCToken
  Configs <- WaitingConfigs
  Requests <- MCRequests
  Responses <- FewResponses
  MaxFrames = 1
INVARIANTS
  PqcOnlyServesCapableClients
CHECK_DEADLOCK FALSE
