SPECIFICATION Spec
CONSTANTS
  Token <- MCToken
  Policies <- MCPolicies
  Requests <- MCRequests
INVARIANTS
  RouteDenyIsTaken
CHECK_DEADLOCK FALSE
