------------------------- MODULE LocalPolicyClient -------------------------
(***************************************************************************)
(* LocalAgentPolicyClient (src/filters/pqc/agent_policy_client.cc): what   *)
(* the filter asks locally, when no policy service is configured or when   *)
(* the service failed and the filter fails open.  It wraps the             *)
(* PolicyEngine with the defaults and the guardrails of the filter's mode. *)
(***************************************************************************)
EXTENDS PolicyEngine

\* PqcFilter::Mode of src/config/pqc_filter.proto.
Mode == {"unspecified", "classical", "hybrid", "pqc_only"}

\* AgentPolicyRequest, without authority, client_ip and sni, which no
\* decision reads.
AgentPolicyRequest == [service_name   : String,
                       request_method : String,
                       request_path   : String,
                       mode           : Mode,
                       pqc_capable    : BOOLEAN,
                       tls_version    : String,
                       cipher_suite   : String]

\* setModeDefaultDecision: nothing in the policy applied to the request.
ModeDefault(request) ==
  CASE request.mode = "hybrid" ->
         IF request.pqc_capable THEN "prefer_hybrid" ELSE "fallback"
    [] request.mode = "pqc_only" ->
         IF request.pqc_capable THEN "allow" ELSE "deny"
    [] OTHER -> "allow"

\* Bug variant: PQC_ONLY looks at the action alone.
EnforceModeGuardrailsOnActionOnly(request, action) ==
  CASE request.mode = "pqc_only" /\ action = "fallback" -> "deny"
    [] request.mode = "classical" /\ action = "prefer_hybrid" -> "allow"
    [] OTHER -> action

\* enforceModeGuardrails: the mode has the last word over a policy's action.
EnforceModeGuardrails(request, action) ==
  CASE request.mode = "pqc_only"
         /\ (~request.pqc_capable \/ action = "fallback") -> "deny"
    [] request.mode = "classical" /\ action = "prefer_hybrid" -> "allow"
    [] OTHER -> action

\* Bug variant: the mode's default replaces the policy's action.
LocalEvaluateByModeOnly(config, request) == ModeDefault(request)

\* LocalAgentPolicyClient::evaluate.  The error status of the engine is never
\* produced, so the operator has no error result.
LocalEvaluate(config, request) ==
  LET action == Evaluate(config, request.service_name, request.pqc_capable,
                         request.request_path)
  IN IF action = "unspecified"
     THEN ModeDefault(request)
     ELSE EnforceModeGuardrails(request, action)

=============================================================================
