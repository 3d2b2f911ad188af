------------------------- MODULE LocalDecision_proofs -------------------------
(***************************************************************************)
(* The properties of one local evaluation, for every set of policies and   *)
(* of requests.  The inductive invariant says that the decision, once      *)
(* taken, is the one the policy, the mode and the request determine.       *)
(***************************************************************************)
EXTENDS LocalDecision, RequestContext_proofs

Evaluated == decision \in {"none", DecisionFor(request, mode)}

IInv == TypeOK /\ Evaluated

\* The request that the local client is handed, and the facts about it that the
\* properties are stated with.
LEMMA PolicyRequestOfWire ==
  ASSUME policy \in Policies, request \in Requests, NEW m \in Mode
  PROVE  /\ policy \in PolicyConfig
         /\ WireContext \in Context
         /\ Capable \in BOOLEAN
         /\ BuildAgentPolicyRequest(WireContext, m) \in AgentPolicyRequest
         /\ BuildAgentPolicyRequest(WireContext, m).mode = m
         /\ BuildAgentPolicyRequest(WireContext, m).pqc_capable = Capable
<1>1. policy \in PolicyConfig /\ request \in Request
  BY PoliciesAssumption, RequestsAssumption
<1>2. WireContext \in Context
  BY <1>1, ExtractPqcContextType DEF WireContext
<1>3. Capable \in BOOLEAN
  BY <1>2 DEF Capable, Context
<1>4. BuildAgentPolicyRequest(WireContext, m) \in AgentPolicyRequest
  BY <1>2, BuildAgentPolicyRequestType
<1> QED
  BY <1>1, <1>2, <1>3, <1>4 DEF BuildAgentPolicyRequest, Capable

LEMMA DecisionForType ==
  ASSUME policy \in Policies, request \in Requests, NEW m \in Mode
  PROVE  DecisionFor(request, m) \in PolicyAction \ {"unspecified"}
BY PolicyRequestOfWire, LocalEvaluateType DEF DecisionFor, WireContext

LEMMA InitIInv == Init => IInv
BY DEF Init, IInv, TypeOK, Evaluated

LEMMA NextIInv == IInv /\ [Next]_vars => IInv'
<1> SUFFICES ASSUME IInv, [Next]_vars
             PROVE  IInv'
  OBVIOUS
<1> USE DEF IInv, TypeOK
<1>1. CASE EvaluatePolicyDecision
  <2>1. UNCHANGED <<policy, mode, request>> /\ decision' = DecisionFor(request, mode)
    BY <1>1 DEF EvaluatePolicyDecision
  <2>2. DecisionFor(request, mode) \in PolicyAction
    BY DecisionForType
  <2>3. DecisionFor(request, mode)' = DecisionFor(request, mode)
    BY <2>1 DEF DecisionFor
  <2> QED
    BY <2>1, <2>2, <2>3 DEF Evaluated
<1>2. CASE UNCHANGED vars
  BY <1>2 DEF vars, Evaluated, DecisionFor
<1> QED
  BY <1>1, <1>2 DEF Next

\* A decision is taken once and is what policy, mode and request determine.
THEOREM EvaluationInvariant == Spec => []IInv
BY InitIInv, NextIInv, PTL DEF Spec

-----------------------------------------------------------------------------
(* Guardrails *)

LEMMA InvImpliesGuardrails == IInv => ModeGuardrails
<1> SUFFICES ASSUME IInv, Decided
             PROVE  /\ decision # "unspecified"
                    /\ mode = "pqc_only" => /\ decision # "fallback"
                                            /\ ~Capable => decision = "deny"
                    /\ mode = "classical" => decision # "prefer_hybrid"
  BY DEF ModeGuardrails
<1> DEFINE r == BuildAgentPolicyRequest(WireContext, mode)
<1>1. decision = LocalEvaluate(policy, r)
  BY DEF IInv, Evaluated, Decided, DecisionFor, WireContext
<1>2. /\ policy \in PolicyConfig /\ r \in AgentPolicyRequest
      /\ r.mode = mode /\ r.pqc_capable = Capable
  BY PolicyRequestOfWire DEF IInv, TypeOK
<1> HIDE DEF r
<1>3. /\ LocalEvaluate(policy, r) \in PolicyAction \ {"unspecified"}
      /\ r.mode = "pqc_only" => /\ LocalEvaluate(policy, r) # "fallback"
                                /\ ~r.pqc_capable => LocalEvaluate(policy, r) = "deny"
      /\ r.mode = "classical" => LocalEvaluate(policy, r) # "prefer_hybrid"
  BY <1>2, LocalEvaluateType, LocalEvaluateGuardrails
<1> QED
  BY <1>1, <1>2, <1>3

\* Whatever the policy, an evaluation does not end undecided, and in nothing that the
\* filter's mode rules out.
THEOREM GuardrailsHold == Spec => []ModeGuardrails
BY EvaluationInvariant, InvImpliesGuardrails, PTL

-----------------------------------------------------------------------------
(* Denials *)

\* What the client asks the engine is what the filter extracted.
LEMMA EngineSeesContext ==
  ASSUME NEW m
  PROVE  LET r == BuildAgentPolicyRequest(WireContext, m)
         IN EngineAction = Evaluate(policy, r.service_name, r.pqc_capable,
                                    r.request_path)
BY DEF EngineAction, BuildAgentPolicyRequest, Capable

LEMMA InvImpliesDenial == IInv => DenialIsKept
<1> SUFFICES ASSUME IInv, Decided, EngineAction = "deny"
             PROVE  decision = "deny"
  BY DEF DenialIsKept
<1>1. decision = LocalEvaluate(policy, BuildAgentPolicyRequest(WireContext, mode))
  BY DEF IInv, Evaluated, Decided, DecisionFor, WireContext
<1> QED
  BY <1>1, EngineSeesContext, LocalEvaluateKeepsDenial

\* No mode softens a denial by the policy engine.
THEOREM DenialHolds == Spec => []DenialIsKept
BY EvaluationInvariant, InvImpliesDenial, PTL

LEMMA InvImpliesRouteRequirement == IInv => RouteRequirementHolds
<1> SUFFICES ASSUME IInv, Decided, RouteMatched, IsTrue(Route.require_pqc),
                    ~IsTrue(Route.allow_fallback), ~Capable
             PROVE  decision = "deny"
  BY DEF RouteRequirementHolds
<1>1. RouteAction(Route, Capable) = "deny"
  BY DEF RouteAction
<1>2. EngineAction = "deny"
  BY <1>1 DEF EngineAction, Evaluate, RouteMatched, Route
<1> QED
  BY <1>2, InvImpliesDenial DEF DenialIsKept

\* A route that requires PQC without fallback denies every incapable client.
THEOREM RouteRequirement == Spec => []RouteRequirementHolds
BY EvaluationInvariant, InvImpliesRouteRequirement, PTL

-----------------------------------------------------------------------------
(* Capability *)

\* Where no denial is reserved for capable clients, the engine denies no capable
\* client that it would serve without PQC.
LEMMA EngineCapabilityNeverHurts ==
  ASSUME policy \in PolicyConfig, Capable, NoDenyForCapableOnly,
         EngineAction = "deny"
  PROVE  Evaluate(policy, WireContext.service_name, FALSE,
                  WireContext.request_path) = "deny"
<1> DEFINE best    == BestMatch(policy.route_policies, WireContext.request_path)
           service == WireContext.service_name
<1>1. CASE RouteMatched /\ RouteAction(Route, TRUE) # "unspecified"
  <2>1. RouteAction(Route, TRUE) = "deny"
    BY <1>1 DEF EngineAction, Evaluate, RouteMatched, Route
  <2>2. Route.action = "deny"
    BY <2>1 DEF RouteAction
  <2>3. RouteAction(Route, FALSE) = "deny"
    BY <1>1, <2>2 DEF NoDenyForCapableOnly, RouteAction
  <2> QED
    BY <1>1, <2>3 DEF Evaluate, RouteMatched, Route
<1>2. CASE ~RouteMatched \/ RouteAction(Route, TRUE) = "unspecified"
  <2>1. EngineAction = IF ServiceAction(policy, service, TRUE) # "unspecified"
                       THEN ServiceAction(policy, service, TRUE)
                       ELSE policy.default_action
    BY <1>2 DEF EngineAction, Evaluate, RouteMatched, Route
  <2>2. ServiceAction(policy, service, TRUE) # "deny"
          \/ service \in policy.require_pqc_services
    BY DEF ServiceAction
  <2>3. /\ ServiceAction(policy, service, TRUE) = "unspecified"
        /\ policy.default_action = "deny"
    BY <2>1 DEF ServiceAction
  <2>4. ServiceAction(policy, service, FALSE) \in {"unspecified", "deny"}
    BY <2>3 DEF ServiceAction, NoDenyForCapableOnly
  <2>5. ~RouteMatched \/ RouteAction(Route, FALSE) = "unspecified"
    BY <1>2 DEF RouteAction
  <2> QED
    BY <2>3, <2>4, <2>5 DEF Evaluate, RouteMatched, Route
<1> QED
  BY <1>1, <1>2

LEMMA InvImpliesCapability == IInv => CapabilityNeverHurts
<1> SUFFICES ASSUME IInv, Decided, Capable, NoDenyForCapableOnly,
                    decision = "deny"
             PROVE  LocalEvaluate(policy,
                      [BuildAgentPolicyRequest(WireContext, mode)
                         EXCEPT !.pqc_capable = FALSE]) = "deny"
  BY DEF CapabilityNeverHurts
<1> DEFINE r == BuildAgentPolicyRequest(WireContext, mode)
           s == [r EXCEPT !.pqc_capable = FALSE]
<1>1. decision = LocalEvaluate(policy, r)
  BY DEF IInv, Evaluated, Decided, DecisionFor, WireContext
<1>2. /\ policy \in PolicyConfig /\ r.mode = mode /\ r.pqc_capable = TRUE
      /\ mode \in Mode
  BY PolicyRequestOfWire DEF IInv, TypeOK
<1>3. /\ s.mode = mode /\ s.pqc_capable = FALSE
      /\ s.service_name = WireContext.service_name
      /\ s.request_path = WireContext.request_path
  BY DEF BuildAgentPolicyRequest
<1>4. EngineAction = Evaluate(policy, r.service_name, r.pqc_capable, r.request_path)
  BY EngineSeesContext
<1> HIDE DEF r, s
<1>5. CASE mode = "pqc_only"
  <2>1. LocalEvaluate(policy, s) = "deny"
    BY <1>3, <1>5 DEF LocalEvaluate, ModeDefault, EnforceModeGuardrails
  <2> QED
    BY <2>1 DEF r, s
<1>6. CASE mode # "pqc_only"
  <2>1. EngineAction = "deny"
    BY <1>1, <1>2, <1>4, <1>6 DEF LocalEvaluate, ModeDefault, EnforceModeGuardrails
  <2>2. Evaluate(policy, s.service_name, s.pqc_capable, s.request_path) = "deny"
    BY <1>2, <1>3, <2>1, EngineCapabilityNeverHurts
  <2>3. LocalEvaluate(policy, s) = "deny"
    BY <2>2, LocalEvaluateKeepsDenial
  <2> QED
    BY <2>3 DEF r, s
<1> QED
  BY <1>5, <1>6

\* Under a policy that reserves no denial for capable clients, a capable client
\* is denied only where it would be denied without PQC too.
THEOREM CapabilityHelps == Spec => []CapabilityNeverHurts
BY EvaluationInvariant, InvImpliesCapability, PTL

-----------------------------------------------------------------------------
(* How far the two broken promises are broken *)

\* The one case in which a route's DENY is not taken.
RouteServesIncapable == /\ IsTrue(Route.require_pqc)
                        /\ IsTrue(Route.allow_fallback)
                        /\ ~Capable
                        /\ mode # "pqc_only"

\* How far the promise of a route's DENY is kept.
RouteDenyTakenExcept ==
  Decided /\ RouteMatched /\ Route.action = "deny"
    => decision = IF RouteServesIncapable THEN "fallback" ELSE "deny"

LEMMA InvImpliesRouteDeny == IInv => RouteDenyTakenExcept
<1> SUFFICES ASSUME IInv, Decided, RouteMatched, Route.action = "deny"
             PROVE  decision = IF RouteServesIncapable THEN "fallback" ELSE "deny"
  BY DEF RouteDenyTakenExcept
<1> DEFINE r == BuildAgentPolicyRequest(WireContext, mode)
<1>1. decision = LocalEvaluate(policy, r)
  BY DEF IInv, Evaluated, Decided, DecisionFor, WireContext
<1>2. /\ r.mode = mode /\ r.pqc_capable = Capable /\ Capable \in BOOLEAN
      /\ mode \in Mode
  BY PolicyRequestOfWire DEF IInv, TypeOK
<1>3. EngineAction = Evaluate(policy, r.service_name, r.pqc_capable, r.request_path)
  BY EngineSeesContext
<1> HIDE DEF r
<1>4. EngineAction = RouteAction(Route, Capable) /\ RouteAction(Route, Capable) # "unspecified"
  BY DEF EngineAction, Evaluate, RouteMatched, Route, RouteAction
<1>5. RouteAction(Route, Capable)
        = IF IsTrue(Route.require_pqc) /\ IsTrue(Route.allow_fallback) /\ ~Capable
          THEN "fallback" ELSE "deny"
  BY DEF RouteAction
<1>6. decision = EnforceModeGuardrails(r, RouteAction(Route, Capable))
  BY <1>1, <1>3, <1>4 DEF LocalEvaluate
<1> QED
  BY <1>2, <1>5, <1>6 DEF EnforceModeGuardrails, RouteServesIncapable

\* A route's DENY is taken, but for an incapable client on a route that also requires
\* PQC and allows fallback, which falls back unless the mode is PQC_ONLY.
THEOREM RouteDenyHasOneException == Spec => []RouteDenyTakenExcept
BY EvaluationInvariant, InvImpliesRouteDeny, PTL

\* How far the unspecified mode is CLASSICAL.
UnspecifiedModeNearlyClassical ==
  Decided /\ mode = "unspecified" =>
    LET classical == DecisionFor(request, "classical")
    IN decision # classical => decision = "prefer_hybrid" /\ classical = "allow"

LEMMA InvImpliesNearlyClassical == IInv => UnspecifiedModeNearlyClassical
<1> SUFFICES ASSUME IInv, Decided, mode = "unspecified",
                    decision # DecisionFor(request, "classical")
             PROVE  decision = "prefer_hybrid" /\ DecisionFor(request, "classical") = "allow"
  BY DEF UnspecifiedModeNearlyClassical
<1> DEFINE r == BuildAgentPolicyRequest(WireContext, mode)
           s == BuildAgentPolicyRequest(WireContext, "classical")
<1>1. decision = LocalEvaluate(policy, r) /\ DecisionFor(request, "classical") = LocalEvaluate(policy, s)
  BY DEF IInv, Evaluated, Decided, DecisionFor, WireContext
<1>2. /\ r.mode = "unspecified" /\ s.mode = "classical"
      /\ r.service_name = s.service_name /\ r.pqc_capable = s.pqc_capable
      /\ r.request_path = s.request_path
  BY DEF BuildAgentPolicyRequest
<1> HIDE DEF r, s
<1>3. ModeDefault(r) = "allow" /\ ModeDefault(s) = "allow"
  BY <1>2 DEF ModeDefault
<1>4. ASSUME NEW action
      PROVE  /\ EnforceModeGuardrails(r, action) = action
             /\ EnforceModeGuardrails(s, action)
                  = IF action = "prefer_hybrid" THEN "allow" ELSE action
  BY <1>2 DEF EnforceModeGuardrails
<1> QED
  BY <1>1, <1>2, <1>3, <1>4 DEF LocalEvaluate

\* The unspecified mode differs from CLASSICAL in nothing but a preference for
\* hybrid that CLASSICAL would turn into ALLOW; who is served is the same.
THEOREM UnspecifiedDiffersInPreference == Spec => []UnspecifiedModeNearlyClassical
BY EvaluationInvariant, InvImpliesNearlyClassical, PTL

-----------------------------------------------------------------------------
(* The port *)

\* FirstIndex is the position of a token that no earlier position holds.
LEMMA FirstIndexIs ==
  ASSUME NEW value, NEW token, Len(value) \in Nat, NEW k \in 1..Len(value),
         value[k] = token, \A i \in 1..(k - 1) : value[i] # token
  PROVE  FirstIndex(value, token) = k
<1> DEFINE I == {i \in 1..Len(value) : value[i] = token}
<1>1. I \in SUBSET Nat /\ k \in I
  OBVIOUS
<1>2. FirstIndex(value, token) = IF I # {} THEN Min(I) ELSE 0
  BY DEF FirstIndex, SelectInSeq
<1>3. Min(I) \in I /\ Min(I) <= k
  BY <1>1, MinOfNaturals
<1> QED
  BY <1>1, <1>2, <1>3

LEMMA FirstIndexFound ==
  ASSUME NEW value, NEW token, Len(value) \in Nat, FirstIndex(value, token) # 0
  PROVE  /\ FirstIndex(value, token) \in 1..Len(value)
         /\ value[FirstIndex(value, token)] = token
         /\ \A i \in 1..(FirstIndex(value, token) - 1) : value[i] # token
<1> DEFINE I == {i \in 1..Len(value) : value[i] = token}
<1>1. FirstIndex(value, token) = IF I # {} THEN Min(I) ELSE 0
  BY DEF FirstIndex, SelectInSeq
<1>2. I \in SUBSET Nat /\ I # {}
  BY <1>1
<1>3. Min(I) \in I /\ \A i \in I : Min(I) <= i
  BY <1>2, MinOfNaturals
<1>4. \A i \in 1..(Min(I) - 1) : i \in 1..Len(value) /\ ~(Min(I) <= i)
  BY <1>3
<1> QED
  BY <1>1, <1>2, <1>3, <1>4

LEMMA FirstIndexNone ==
  ASSUME NEW value, NEW token, Len(value) \in Nat
  PROVE  FirstIndex(value, token) = 0 <=> \A i \in 1..Len(value) : value[i] # token
<1> DEFINE I == {i \in 1..Len(value) : value[i] = token}
<1>1. FirstIndex(value, token) = IF I # {} THEN Min(I) ELSE 0
  BY DEF FirstIndex, SelectInSeq
<1>2. I # {} => Min(I) \in 1..Len(value)
  <2>1. I \in SUBSET Nat
    OBVIOUS
  <2> QED
    BY <2>1, MinOfNaturals
<1> QED
  BY <1>1, <1>2

\* An authority and the same with a port.
WithPort(host) == host \o <<":", "443">>

LEMMA PortAppended ==
  ASSUME NEW host \in String
  PROVE  /\ Len(host) \in Nat /\ Len(WithPort(host)) = Len(host) + 2
         /\ \A i \in 1..Len(host) : WithPort(host)[i] = host[i]
         /\ WithPort(host)[Len(host) + 1] = ":"
         /\ WithPort(host)[Len(host) + 2] = "443"
<1>1. Len(host) \in Nat
  BY LenProperties DEF String
<1> QED
  BY <1>1 DEF WithPort, String

\* A token before the port is found where it was.
LEMMA FoundBeforePort ==
  ASSUME NEW host \in String, NEW token, FirstIndex(host, token) # 0
  PROVE  FirstIndex(WithPort(host), token) = FirstIndex(host, token)
<1> DEFINE k == FirstIndex(host, token)
<1>1. k \in 1..Len(host) /\ host[k] = token /\ \A i \in 1..(k - 1) : host[i] # token
  BY PortAppended, FirstIndexFound
<1> HIDE DEF k
<1>2. /\ k \in 1..Len(WithPort(host)) /\ Len(WithPort(host)) \in Nat
      /\ WithPort(host)[k] = token
      /\ \A i \in 1..(k - 1) : WithPort(host)[i] # token
  BY <1>1, PortAppended
<1> QED
  BY <1>2, FirstIndexIs DEF k

\* The bracket that is not there does not come with the port; the colon does.
LEMMA PortAlone ==
  ASSUME NEW host \in String
  PROVE  /\ FirstIndex(host, "]") = 0 => FirstIndex(WithPort(host), "]") = 0
         /\ FirstIndex(host, ":") = 0 => FirstIndex(WithPort(host), ":") = Len(host) + 1
<1>1. /\ Len(host) \in Nat /\ Len(WithPort(host)) \in Nat
      /\ Len(host) + 1 \in 1..Len(WithPort(host))
  BY PortAppended
<1>2. ASSUME FirstIndex(host, "]") = 0
      PROVE  FirstIndex(WithPort(host), "]") = 0
  <2>1. \A i \in 1..Len(host) : host[i] # "]"
    BY <1>1, <1>2, FirstIndexNone
  <2>2. \A i \in 1..Len(WithPort(host)) : i \in 1..Len(host) \cup {Len(host) + 1, Len(host) + 2}
    BY <1>1, PortAppended
  <2>3. \A i \in 1..Len(WithPort(host)) : WithPort(host)[i] # "]"
    BY <2>1, <2>2, PortAppended
  <2> QED
    BY <1>1, <2>3, FirstIndexNone
<1>3. ASSUME FirstIndex(host, ":") = 0
      PROVE  FirstIndex(WithPort(host), ":") = Len(host) + 1
  <2>1. \A i \in 1..Len(host) : host[i] # ":"
    BY <1>1, <1>3, FirstIndexNone
  <2>2. \A i \in 1..((Len(host) + 1) - 1) : i \in 1..Len(host)
    BY <1>1
  <2>3. \A i \in 1..((Len(host) + 1) - 1) : WithPort(host)[i] # ":"
    BY <2>1, <2>2, PortAppended
  <2> QED
    BY <1>1, <2>3, PortAppended, FirstIndexIs
<1> QED
  BY <1>2, <1>3

LEMMA SubSeqBeforePort ==
  ASSUME NEW host \in String, NEW m \in {1, 2}, NEW n \in 0..Len(host)
  PROVE  SubSeq(WithPort(host), m, n) = SubSeq(host, m, n)
<1>1. Len(host) \in Nat /\ \A i \in m..n : i \in 1..Len(host)
  BY PortAppended
<1>2. \A i \in m..n : host[i] \in Token /\ WithPort(host)[i] = host[i]
  BY <1>1, PortAppended, ElementOfSeq DEF String
<1>3. /\ SubSeq(host, m, n) \in Seq(Token) /\ SubSeq(WithPort(host), m, n) \in Seq(Token)
      /\ Len(SubSeq(host, m, n)) = Len(SubSeq(WithPort(host), m, n))
      /\ Len(SubSeq(host, m, n)) = IF m <= n THEN n - m + 1 ELSE 0
      /\ \A i \in 1..(n - m + 1) : /\ SubSeq(host, m, n)[i] = host[m + i - 1]
                                   /\ SubSeq(WithPort(host), m, n)[i]
                                        = WithPort(host)[m + i - 1]
  <2>1. \A i \in m..n : host[i] \in Token /\ WithPort(host)[i] \in Token
    BY <1>2
  <2>2. m \in Int /\ n \in Int
    BY <1>1
  <2> QED
    BY <2>1, <2>2, SubSeqProperties
<1>4. \A i \in 1..Len(SubSeq(host, m, n)) : i \in 1..(n - m + 1) /\ m + i - 1 \in m..n
  BY <1>1, <1>3
<1>5. \A i \in 1..Len(SubSeq(host, m, n)) :
        SubSeq(host, m, n)[i] = SubSeq(WithPort(host), m, n)[i]
  BY <1>2, <1>3, <1>4
<1> QED
  BY <1>3, <1>5, SeqEqual

\* A name or a bracketed address loses the port and nothing else.
LEMMA PortDropped ==
  ASSUME NEW host \in String, ~HasPort(host)
  PROVE  NormalizeHostLikeValue(WithPort(host)) = NormalizeHostLikeValue(host)
<1> DEFINE bracket == FirstIndex(host, "]")
           colon   == FirstIndex(host, ":")
<1>1. /\ Len(host) \in Nat /\ bracket \in 0..Len(host) /\ colon \in 0..Len(host)
      /\ host # EmptyString <=> Len(host) > 0
      /\ WithPort(host) # EmptyString
      /\ Len(host) > 0 => WithPort(host)[1] = host[1]
      /\ Len(host) = 0 => WithPort(host)[1] = ":"
  <2>1. Len(host) \in Nat /\ (host # EmptyString <=> Len(host) > 0)
    BY LenProperties, EmptySeq DEF String, EmptyString
  <2>2. WithPort(host) # EmptyString
    BY <2>1, PortAppended, EmptySeq DEF EmptyString
  <2>3. Len(host) > 0 => 1 \in 1..Len(host)
    BY <2>1
  <2>4. Len(host) = 0 => Len(host) + 1 = 1
    OBVIOUS
  <2> QED
    BY <2>1, <2>2, <2>3, <2>4, PortAppended, FirstIndexRange
<1>2. bracket > 0 => FirstIndex(WithPort(host), "]") = bracket
  BY <1>1, FoundBeforePort
<1>3. bracket = 0 => FirstIndex(WithPort(host), "]") = 0
  BY PortAlone
<1>4. FirstIndex(WithPort(host), ":") = IF colon > 0 THEN colon ELSE Len(host) + 1
  BY <1>1, FoundBeforePort, PortAlone
<1>5. bracket > 0 => SubSeq(WithPort(host), 2, bracket - 1) = SubSeq(host, 2, bracket - 1)
  BY <1>1, SubSeqBeforePort
<1>6. colon > 0 => SubSeq(WithPort(host), 1, colon - 1) = SubSeq(host, 1, colon - 1)
  BY <1>1, SubSeqBeforePort
<1>7. SubSeq(WithPort(host), 1, Len(host)) = host
  <2>1. SubSeq(WithPort(host), 1, Len(host)) = SubSeq(host, 1, Len(host))
    BY <1>1, SubSeqBeforePort
  <2>2. SubSeq(host, 1, Len(host)) = host
    BY SubSeqFull DEF String
  <2> QED
    BY <2>1, <2>2
<1> HIDE DEF bracket, colon
<1>8. CASE Len(host) > 0 /\ host[1] = "[" /\ bracket > 0
  BY <1>1, <1>2, <1>5, <1>8 DEF NormalizeHostLikeValue, bracket
<1>9. CASE ~(Len(host) > 0 /\ host[1] = "[" /\ bracket > 0)
  <2>1. NormalizeHostLikeValue(host)
          = IF colon > 0 THEN SubSeq(host, 1, colon - 1) ELSE host
    BY <1>1, <1>9 DEF NormalizeHostLikeValue, bracket, colon
  <2>2. ~(WithPort(host)[1] = "[" /\ FirstIndex(WithPort(host), "]") > 0)
    BY <1>1, <1>2, <1>3, <1>9
  <2>3. NormalizeHostLikeValue(WithPort(host))
          = IF colon > 0 THEN SubSeq(WithPort(host), 1, colon - 1)
                         ELSE SubSeq(WithPort(host), 1, Len(host))
    BY <1>1, <1>4, <2>2 DEF NormalizeHostLikeValue
  <2>4. CASE colon > 0
    <3>1. /\ NormalizeHostLikeValue(host) = SubSeq(host, 1, colon - 1)
          /\ NormalizeHostLikeValue(WithPort(host)) = SubSeq(WithPort(host), 1, colon - 1)
      BY <2>1, <2>3, <2>4, Zenon
    <3> QED
      BY <1>6, <2>4, <3>1, Zenon
  <2>5. CASE ~(colon > 0)
    <3>1. /\ NormalizeHostLikeValue(host) = host
          /\ NormalizeHostLikeValue(WithPort(host)) = SubSeq(WithPort(host), 1, Len(host))
      BY <2>1, <2>3, <2>5, Zenon
    <3> QED
      BY <1>7, <3>1, Zenon
  <2> QED
    BY <2>4, <2>5
<1> QED
  BY <1>8, <1>9

\* Naming the port, or not, leaves every decision as it is.
THEOREM PortIsIgnored == Spec => []PortNeverChangesDecision
<1>1. IInv => PortNeverChangesDecision
  <2> SUFFICES ASSUME IInv, Decided, ~HasPort(request.headers.host)
               PROVE  DecisionFor([request EXCEPT !.headers.host = @ \o <<":", "443">>], mode)
                        = decision
    BY DEF PortNeverChangesDecision
  <2> DEFINE named == [request EXCEPT !.headers.host = @ \o <<":", "443">>]
  <2>1. request \in Request
    BY RequestsAssumption DEF IInv, TypeOK
  <2>2. /\ request.headers.host \in String
        /\ named.headers.host = WithPort(request.headers.host)
        /\ named.headers.method = request.headers.method
        /\ named.headers.path = request.headers.path
        /\ named.connection = request.connection
    BY <2>1 DEF Request, RequestHeaders, WithPort
  <2> HIDE DEF named
  <2>3. ServiceName(named) = ServiceName(request)
    BY <2>2, PortDropped DEF ServiceName
  <2>4. ExtractPqcContext(named) = ExtractPqcContext(request)
    BY <2>2, <2>3 DEF ExtractPqcContext
  <2>5. DecisionFor(named, mode) = DecisionFor(request, mode)
    BY <2>4 DEF DecisionFor
  <2> QED
    BY <2>5 DEF IInv, Evaluated, Decided, named
<1> QED
  BY <1>1, EvaluationInvariant, PTL

=============================================================================
