----------------------- MODULE RequestContext_proofs -----------------------
(***************************************************************************)
(* What the pure operators return, for every policy, mode and request.     *)
(* The proofs about the state machines rest on these lemmas.               *)
(***************************************************************************)
EXTENDS RequestContext, SequenceTheorems, WellFoundedInduction, TLAPS

\* A nonempty set of naturals has a least element; Min picks it.
LEMMA MinOfNaturals ==
  ASSUME NEW S \in SUBSET Nat, S # {}
  PROVE  Min(S) \in S /\ \A y \in S : Min(S) <= y
<1> DEFINE R == {ss \in Nat \X Nat : ss[1] < ss[2]}
<1>1. IsWellFoundedOn(R, Nat)
  BY NatLessThanWellFounded, Zenon DEF OpToRel
<1> HIDE DEF R
<1>2. PICK x \in S : \A y \in S : <<y, x>> \notin R
  BY <1>1, WFMin
<1>3. \A i, j \in Nat : i < j => <<i, j>> \in R
  BY DEF R
<1>4. S \subseteq Nat
  OBVIOUS
<1>5. ASSUME NEW y \in S
      PROVE  x <= y
  <2>1. ~ (y < x)
    BY <1>2, <1>3, <1>4, Zenon
  <2> QED
    BY <1>4, <2>1
<1> QED
  BY <1>5 DEF Min

\* FirstIndex is a position of the string or 0, and 0 exactly when there is none.
LEMMA FirstIndexRange ==
  ASSUME NEW value \in String, NEW token
  PROVE  /\ FirstIndex(value, token) \in 0..Len(value)
         /\ FirstIndex(value, token) = 0 <=> \A i \in 1..Len(value) : value[i] # token
<1> DEFINE I == {i \in 1..Len(value) : value[i] = token}
<1>1. Len(value) \in Nat
  BY LenProperties DEF String
<1>2. I \in SUBSET Nat
  BY <1>1
<1>3. FirstIndex(value, token) = IF I # {} THEN Min(I) ELSE 0
  BY DEF FirstIndex, SelectInSeq
<1>4. I # {} => Min(I) \in I
  BY <1>2, MinOfNaturals
<1> QED
  BY <1>1, <1>3, <1>4

\* A service name taken from a host or SNI is a string.
LEMMA NormalizeHostLikeValueType ==
  ASSUME NEW value \in String
  PROVE  NormalizeHostLikeValue(value) \in String
<1>1. value \in Seq(Token) /\ Len(value) \in Nat
  BY LenProperties DEF String
<1>2. \A m \in Nat \ {0}, n \in 0..Len(value) : SubSeq(value, m, n) \in Seq(Token)
  <2> SUFFICES ASSUME NEW m \in Nat \ {0}, NEW n \in 0..Len(value)
               PROVE  SubSeq(value, m, n) \in Seq(Token)
    OBVIOUS
  <2>1. \A i \in m..n : i \in 1..Len(value)
    BY <1>1
  <2>2. \A i \in m..n : value[i] \in Token
    BY <1>1, <2>1, ElementOfSeq
  <2> QED
    BY <1>1, <2>2, SubSeqProperties
<1>3. /\ FirstIndex(value, "]") \in 0..Len(value)
      /\ FirstIndex(value, ":") \in 0..Len(value)
  BY FirstIndexRange
<1>4. FirstIndex(value, "]") > 0 => SubSeq(value, 2, FirstIndex(value, "]") - 1) \in Seq(Token)
  BY <1>1, <1>2, <1>3
<1>5. FirstIndex(value, ":") > 0 => SubSeq(value, 1, FirstIndex(value, ":") - 1) \in Seq(Token)
  BY <1>1, <1>2, <1>3
<1> QED
  BY <1>1, <1>4, <1>5 DEF NormalizeHostLikeValue, String

-----------------------------------------------------------------------------
(* The context *)

LEMMA EmptyContextType == EmptyContext \in Context
<1>1. EmptyString \in String
  BY EmptySeq DEF EmptyString, String
<1> QED
  BY <1>1 DEF EmptyContext, Context

LEMMA ServiceNameType ==
  ASSUME NEW request \in Request
  PROVE  ServiceName(request) \in String
<1>1. request.headers.host \in String
  BY DEF Request, RequestHeaders
<1>2. request.connection.kind = "tls" => request.connection.sni \in String
  BY DEF Request, Connection
<1> QED
  BY <1>1, <1>2, NormalizeHostLikeValueType DEF ServiceName

\* Whatever the downstream sends, the extracted context is well formed and no
\* fallback is recorded in it yet.
LEMMA ExtractPqcContextType ==
  ASSUME NEW request \in Request
  PROVE  /\ ExtractPqcContext(request) \in Context
         /\ ExtractPqcContext(request).fallback = FALSE
<1>1. EmptyString \in String
  BY EmptySeq DEF EmptyString, String
<1>2. ServiceName(request) \in String
  BY ServiceNameType
<1>3. request.headers.method \in String /\ request.headers.path \in String
  BY DEF Request, RequestHeaders
<1>4. request.connection.kind = "tls"
        => request.connection.cipher \in String /\ request.connection.tls_version \in String
  BY DEF Request, Connection
<1>5. IsPqcCipherSuite(request.connection.cipher) \in BOOLEAN
  BY DEF IsPqcCipherSuite, Contains
<1> QED
  BY <1>1, <1>2, <1>3, <1>4, <1>5 DEF ExtractPqcContext, Context

LEMMA BuildAgentPolicyRequestType ==
  ASSUME NEW context \in Context, NEW mode \in Mode
  PROVE  BuildAgentPolicyRequest(context, mode) \in AgentPolicyRequest
BY DEF BuildAgentPolicyRequest, AgentPolicyRequest, Context

-----------------------------------------------------------------------------
(* The decision *)

LEMMA BestMatchRange ==
  ASSUME NEW policies, NEW route
  PROVE  /\ BestMatch(policies, route) \in {0} \cup MatchingPolicies(policies, route)
         /\ MatchingPolicies(policies, route) \subseteq DOMAIN policies
BY DEF BestMatch, MatchingPolicies

LEMMA RouteActionType ==
  ASSUME NEW policy \in RoutePolicy, NEW pqc_capable
  PROVE  RouteAction(policy, pqc_capable) \in PolicyAction
BY DEF RouteAction, RoutePolicy, PolicyAction

LEMMA ServiceActionType ==
  ASSUME NEW config, NEW service_name, NEW pqc_capable
  PROVE  ServiceAction(config, service_name, pqc_capable)
           \in {"unspecified", "prefer_hybrid", "fallback", "deny"}
BY DEF ServiceAction

LEMMA EvaluateType ==
  ASSUME NEW config \in PolicyConfig, NEW service_name, NEW pqc_capable, NEW route
  PROVE  Evaluate(config, service_name, pqc_capable, route) \in PolicyAction
<1> DEFINE best == BestMatch(config.route_policies, route)
<1>1. /\ config.route_policies \in Seq(RoutePolicy)
      /\ config.default_action \in PolicyAction
  BY DEF PolicyConfig
<1>2. best # 0 => config.route_policies[best] \in RoutePolicy
  BY <1>1, BestMatchRange, ElementOfSeq, LenProperties
<1>3. best # 0 => RouteAction(config.route_policies[best], pqc_capable) \in PolicyAction
  BY <1>2, RouteActionType
<1>4. ServiceAction(config, service_name, pqc_capable) \in PolicyAction
  BY ServiceActionType DEF PolicyAction
<1> QED
  BY <1>1, <1>3, <1>4 DEF Evaluate

\* A local evaluation always ends in an explicit action.
LEMMA LocalEvaluateType ==
  ASSUME NEW config \in PolicyConfig, NEW request \in AgentPolicyRequest
  PROVE  LocalEvaluate(config, request) \in PolicyAction \ {"unspecified"}
<1> DEFINE action == Evaluate(config, request.service_name, request.pqc_capable,
                              request.request_path)
<1>1. action \in PolicyAction
  BY EvaluateType
<1>2. request.mode \in Mode /\ request.pqc_capable \in BOOLEAN
  BY DEF AgentPolicyRequest
<1>3. ModeDefault(request) \in PolicyAction \ {"unspecified"}
  BY <1>2 DEF ModeDefault, PolicyAction, Mode
<1>4. action # "unspecified"
        => EnforceModeGuardrails(request, action) \in PolicyAction \ {"unspecified"}
  BY <1>1, <1>2 DEF EnforceModeGuardrails, PolicyAction, Mode
<1> QED
  BY <1>3, <1>4 DEF LocalEvaluate

\* The mode has the last word over the policy, whatever the policy is.
LEMMA LocalEvaluateGuardrails ==
  ASSUME NEW config \in PolicyConfig, NEW request \in AgentPolicyRequest
  PROVE  LET action == LocalEvaluate(config, request)
         IN /\ request.mode = "pqc_only"
                 => action # "fallback" /\ (~request.pqc_capable => action = "deny")
            /\ request.mode = "classical" => action # "prefer_hybrid"
<1>1. request.pqc_capable \in BOOLEAN
  BY DEF AgentPolicyRequest
<1> QED
  BY <1>1 DEF LocalEvaluate, ModeDefault, EnforceModeGuardrails

\* No mode turns the engine's denial into anything else.
LEMMA LocalEvaluateKeepsDenial ==
  ASSUME NEW config, NEW request,
         Evaluate(config, request.service_name, request.pqc_capable,
                  request.request_path) = "deny"
  PROVE  LocalEvaluate(config, request) = "deny"
BY DEF LocalEvaluate, EnforceModeGuardrails

=============================================================================
