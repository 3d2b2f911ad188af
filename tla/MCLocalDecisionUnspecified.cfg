SPECIFICATION Spec
CONSTANTS
  Token <- MCToken
  Policies <- MCPolicies
  Requests <- MCRequests
INVARIANTS
  UnspecifiedModeIsClassical
CHECK_DEADLOCK FALSE
