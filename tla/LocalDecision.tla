---------------------------- MODULE LocalDecision ----------------------------
(***************************************************************************)
(* One local evaluation, from the request on the wire to the decision: the *)
(* path extractPqcContext, buildAgentPolicyRequest, evaluate, engine,      *)
(* guardrails.  The state machine has one step; its properties are about   *)
(* what that path computes for every policy, mode and request.             *)
(***************************************************************************)
EXTENDS RequestContext

CONSTANTS Policies,   \* the values of PqcFilter.policy
          Requests    \* the requests to evaluate

ASSUME PoliciesAssumption == Policies \subseteq PolicyConfig
ASSUME RequestsAssumption == Requests \subseteq Request

VARIABLES policy,    \* config_.policy()
          mode,      \* config_->mode()
          request,   \* the request being decoded
          decision   \* the action decided, "none" before

vars == <<policy, mode, request, decision>>

\* The decision for a request under the policy and the mode of this state.
DecisionFor(r, m) ==
  LocalEvaluate(policy, BuildAgentPolicyRequest(ExtractPqcContext(r), m))

Init == /\ policy \in Policies
        /\ mode \in Mode
        /\ request \in Requests
        /\ decision = "none"

EvaluatePolicyDecision == /\ decision = "none"
                          /\ decision' = DecisionFor(request, mode)
                          /\ UNCHANGED <<policy, mode, request>>

Next == EvaluatePolicyDecision

Spec == Init /\ [][Next]_vars

-----------------------------------------------------------------------------
WireContext == ExtractPqcContext(request)

Capable == WireContext.pqc_capable

Decided == decision # "none"

\* The route policy that governs this request, if one does.
RouteMatched == BestMatch(policy.route_policies, WireContext.request_path) # 0

Route == policy.route_policies
           [BestMatch(policy.route_policies, WireContext.request_path)]

EngineAction == Evaluate(policy, WireContext.service_name, Capable,
                         WireContext.request_path)

TypeOK == /\ policy \in Policies
          /\ mode \in Mode
          /\ request \in Requests
          /\ decision \in PolicyAction \cup {"none"}

\* Whatever the policy says, an evaluation does not end undecided, and in nothing
\* that the mode rules out: PQC_ONLY neither falls back nor serves an incapable client,
\* CLASSICAL never prefers hybrid.
ModeGuardrails ==
  Decided =>
    /\ decision # "unspecified"
    /\ mode = "pqc_only" => /\ decision # "fallback"
                            /\ ~Capable => decision = "deny"
    /\ mode = "classical" => decision # "prefer_hybrid"

\* A denial by the policy engine survives every mode.
DenialIsKept == Decided /\ EngineAction = "deny" => decision = "deny"

\* A route that requires PQC and offers no fallback turns an incapable client
\* away, whatever the service lists, the default action and the mode say, and
\* whatever action the route itself names.
RouteRequirementHolds ==
  Decided /\ RouteMatched /\ IsTrue(Route.require_pqc)
          /\ ~IsTrue(Route.allow_fallback) /\ ~Capable
    => decision = "deny"

\* No "deny" is reserved for capable clients: a route whose action is DENY offers
\* no fallback, nor does a service list while the default action is DENY.
NoDenyForCapableOnly ==
  /\ RouteMatched /\ Route.action = "deny"
       => ~(IsTrue(Route.require_pqc) /\ IsTrue(Route.allow_fallback))
  /\ policy.default_action = "deny"
       => WireContext.service_name \notin policy.allow_fallback_services

\* Under such a policy, presenting PQC never costs a client its access: a
\* capable client is denied only where the same client without PQC would be.
CapabilityNeverHurts ==
  Decided /\ Capable /\ NoDenyForCapableOnly /\ decision = "deny"
    => LocalEvaluate(policy, [BuildAgentPolicyRequest(WireContext, mode)
                                EXCEPT !.pqc_capable = FALSE]) = "deny"

\* An authority is a name, a bracketed address, or one of them with a port.
HasPort(host) ==
  \/ FirstIndex(host, "]") > 0 /\ Last(host) # "]"
  \/ FirstIndex(host, "]") = 0 /\ FirstIndex(host, ":") > 0

\* The port in the authority has no part in the decision: a client cannot leave
\* a service's policy by naming the port, nor is it needed to be matched.
PortNeverChangesDecision ==
  Decided /\ ~HasPort(request.headers.host)
    => DecisionFor([request EXCEPT !.headers.host = @ \o <<":", "443">>], mode)
         = decision

\* The Mode enum: "Unspecified mode (defaults to CLASSICAL)".  It does not hold:
\* the unspecified mode has its own default and no guardrail.
UnspecifiedModeIsClassical ==
  Decided /\ mode = "unspecified" => decision = DecisionFor(request, "classical")

\* RoutePolicy.action: "Action to take for this route", and DENY: "Deny the
\* connection".  It does not hold: require_pqc with allow_fallback is looked at
\* first, and serves an incapable client on a route whose action is DENY.
RouteDenyIsTaken ==
  Decided /\ RouteMatched /\ Route.action = "deny" => decision = "deny"

=============================================================================
