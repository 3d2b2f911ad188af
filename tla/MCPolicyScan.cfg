SPECIFICATION Spec
CONSTANTS
  Token <- MCToken
  PolicyLists <- MCPolicyLists
  Routes <- MCRoutes
  MaxPolicies = 3
INVARIANTS
  BestSoFar
  ScanFindsBest
  OrderMattersOnlyForTies
CHECK_DEADLOCK FALSE
