SPECIFICATION Spec
CONSTANTS
  Token <- MCToken
  Policies <- MCPolicies
  Requests <- MCRequests
INVARIANTS
  ModeGuardrails
  DenialIsKept
  RouteRequirementHolds
  CapabilityNeverHurts
  PortNeverChangesDecision
CHECK_DEADLOCK FALSE
