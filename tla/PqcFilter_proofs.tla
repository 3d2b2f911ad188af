--------------------------- MODULE PqcFilter_proofs ---------------------------
(***************************************************************************)
(* What holds of the filter for every configuration, request, response and *)
(* number of frames: the types, the inductive invariant (the phases a      *)
(* stream goes through), and the safety properties that follow from it.    *)
(***************************************************************************)
EXTENDS PqcFilter, RequestContext_proofs

\* What any answer must look like before it is acted on: an outcome that passes
\* the request carries a decision that permits it, a 403 carries a denial and a
\* 503 no decision; what was decided locally keeps to the mode; and fail_open
\* says who may decide.
Legitimate(ctx, outcome) ==
  LET decision == outcome.decision
  IN /\ outcome.code = 0 =>
          decision \in Decision /\ decision.action \notin {"deny", "unspecified"}
     /\ outcome.code = 403 => decision \in Decision /\ decision.action = "deny"
     /\ outcome.code = 503 => decision = NoDecision
     /\ outcome.code = 0 /\ decision.source \in {"local", "local_after_failure"} =>
          /\ config.mode = "pqc_only" => ctx.pqc_capable /\ decision.action # "fallback"
          /\ config.mode = "classical" => decision.action # "prefer_hybrid"
     /\ config.has_policy_service =>
          IF config.fail_open = "false"
          THEN outcome.code # 503 => decision.source = "service"
          ELSE outcome.code # 503

-----------------------------------------------------------------------------
(* The phases of a stream *)

Alive == stream \in {"open", "ended"}

\* Nothing of the request has been settled.
Undecided == /\ current_decision = NoDecision
             /\ ~context.fallback
             /\ headers = << >>
             /\ forwarded = << >>
             /\ reply = << >>

\* The request is to go upstream, decided and annotated.
ToPass == /\ IsEnabled
          /\ Legitimate(context, [decision |-> current_decision, code |-> 0])
          /\ context.fallback = (current_decision.action = "fallback")
          /\ headers = <<AnnotationOf(context, current_decision)>>
          /\ reply = << >>

\* The request is to go upstream because the filter is off.
ToPassUnasked == /\ ~IsEnabled
                 /\ current_decision = NoDecision
                 /\ headers = << >>
                 /\ reply = << >>

\* The request has been turned away.
ToReject == /\ \E code \in {403, 503} :
                 /\ reply = <<code>>
                 /\ Legitimate(context, [decision |-> current_decision, code |-> code])
            /\ headers = << >>
            /\ forwarded = << >>

\* The filter is inside no call and waits for nobody.
Idle == /\ calling = "none"
        /\ ~active_policy_request
        /\ ~pending_headers
        /\ inline_headers_status = "none"
        /\ asyncRequest \notin {"starting", "inflight"}

Fresh == /\ Idle
         /\ stream = "fresh"
         /\ Undecided
         /\ held = << >>

Sending == /\ calling = "send"
           /\ asyncRequest = "starting"
           /\ ~active_policy_request
           /\ pending_headers
           /\ inline_headers_status = "none"
           /\ IsEnabled
           /\ Alive
           /\ Undecided
           /\ held # << >>

AnsweredInline == /\ calling = "send"
                  /\ asyncRequest = "answered"
                  /\ ~active_policy_request
                  /\ ~pending_headers
                  /\ Alive
                  /\ forwarded = << >>
                  /\ held # << >>
                  /\ \/ inline_headers_status = "Continue" /\ ToPass
                     \/ inline_headers_status = "StopIteration" /\ ToReject

Waiting == /\ calling = "none"
           /\ asyncRequest = "inflight"
           /\ active_policy_request
           /\ pending_headers
           /\ inline_headers_status = "none"
           /\ IsEnabled
           /\ Alive
           /\ Undecided
           /\ held # << >>

Replying == /\ calling = "sendLocalReply"
            /\ asyncRequest = "answered"
            /\ ~active_policy_request
            /\ pending_headers => Alive
            /\ inline_headers_status = "none"
            /\ stream # "fresh"
            /\ ToReject

Passed == /\ Idle
          /\ stream # "fresh"
          /\ forwarded # << >>
          /\ held = << >>
          /\ \/ ToPass /\ forwardedHeaders = headers
             \/ ToPassUnasked

Rejected == /\ Idle
            /\ stream # "fresh"
            /\ ToReject

Abandoned == /\ Idle
             /\ stream = "gone"
             /\ Undecided

Flags == /\ destroyed <=> stream = "gone"
         /\ decoding_headers <=> calling = "send"
         /\ waiting_for_policy <=> pending_headers

Phases == \/ Fresh
          \/ Sending
          \/ AnsweredInline
          \/ Waiting
          \/ Replying
          \/ Passed
          \/ Rejected
          \/ Abandoned

IInv == TypeOK /\ Flags /\ Phases

-----------------------------------------------------------------------------
(* Outcomes *)

LEMMA ConfigType ==
  ASSUME config \in Configs
  PROVE  /\ config.policy \in PolicyConfig /\ config.mode \in Mode
         /\ config.has_policy_service \in BOOLEAN /\ config.fail_open \in BoolValue
BY ConfigsAssumption DEF FilterConfig

\* A local decision is explicit, and nothing that the mode rules out.
LEMMA LocalDecisionLegitimate ==
  ASSUME config \in Configs, NEW ctx \in Context, NEW source \in Source
  PROVE  LET decision == LocalDecision(ctx, source)
         IN /\ decision \in Decision
            /\ decision.action # "unspecified"
            /\ decision.source = source
            /\ config.mode = "pqc_only" =>
                 /\ decision.action # "fallback"
                 /\ ~ctx.pqc_capable => decision.action = "deny"
            /\ config.mode = "classical" => decision.action # "prefer_hybrid"
<1> DEFINE r == BuildAgentPolicyRequest(ctx, config.mode)
<1>1. r \in AgentPolicyRequest /\ config.policy \in PolicyConfig
  BY ConfigType, BuildAgentPolicyRequestType
<1>2. r.mode = config.mode /\ r.pqc_capable = ctx.pqc_capable
  BY DEF BuildAgentPolicyRequest
<1> HIDE DEF r
<1>3. LocalEvaluate(config.policy, r) \in PolicyAction \ {"unspecified"}
  BY <1>1, LocalEvaluateType
<1>4. /\ r.mode = "pqc_only" =>
           /\ LocalEvaluate(config.policy, r) # "fallback"
           /\ ~r.pqc_capable => LocalEvaluate(config.policy, r) = "deny"
      /\ r.mode = "classical" => LocalEvaluate(config.policy, r) # "prefer_hybrid"
  BY <1>1, LocalEvaluateGuardrails
<1>5. LocalDecision(ctx, source)
        = [action |-> LocalEvaluate(config.policy, r), source |-> source]
  BY DEF LocalDecision, r
<1> QED
  BY <1>2, <1>3, <1>4, <1>5 DEF Decision

OutcomeType == [decision : Decision \cup {NoDecision}, code : {0, 403, 503}]

\* Deciding locally, where no policy service is configured or where it failed
\* open, is legitimate.
LEMMA LocalOutcomeLegitimate ==
  ASSUME config \in Configs, NEW ctx \in Context, NEW source \in Source,
         config.has_policy_service =>
           config.fail_open # "false" /\ source # "service"
  PROVE  /\ Outcome(LocalDecision(ctx, source)) \in OutcomeType
         /\ Legitimate(ctx, Outcome(LocalDecision(ctx, source)))
<1> DEFINE decision == LocalDecision(ctx, source)
<1>1. ctx.pqc_capable \in BOOLEAN /\ config.has_policy_service \in BOOLEAN
  BY ConfigType DEF Context
<1>2. /\ decision \in Decision
      /\ decision.action # "unspecified"
      /\ decision.source = source
      /\ config.mode = "pqc_only" =>
           /\ decision.action # "fallback"
           /\ ~ctx.pqc_capable => decision.action = "deny"
      /\ config.mode = "classical" => decision.action # "prefer_hybrid"
  BY LocalDecisionLegitimate
<1> HIDE DEF decision
<1>3. Outcome(decision) \in OutcomeType
  BY <1>2 DEF Outcome, OutcomeType
<1>4. Legitimate(ctx, Outcome(decision))
  BY <1>1, <1>2 DEF Legitimate, Outcome
<1> QED
  BY <1>3, <1>4 DEF decision

\* However the policy service fails, what the filter does about it is legitimate.
LEMMA FailureOutcomeLegitimate ==
  ASSUME config \in Configs, NEW ctx \in Context
  PROVE  /\ FailureOutcome(ctx) \in OutcomeType
         /\ Legitimate(ctx, FailureOutcome(ctx))
<1>1. CASE PolicyServiceFailOpen
  BY <1>1, LocalOutcomeLegitimate DEF FailureOutcome, PolicyServiceFailOpen, Source
<1>2. CASE ~PolicyServiceFailOpen
  <2>1. config.fail_open = "false"
    BY <1>2 DEF PolicyServiceFailOpen
  <2>2. FailureOutcome(ctx) = [decision |-> NoDecision, code |-> 503]
    BY <1>2 DEF FailureOutcome, Unavailable
  <2> QED
    BY <2>1, <2>2 DEF Legitimate, OutcomeType
<1> QED
  BY <1>1, <1>2

\* So is what it does about any response.
LEMMA ResponseOutcomeLegitimate ==
  ASSUME config \in Configs, NEW ctx \in Context,
         NEW response \in Responses
  PROVE  /\ ResponseOutcome(ctx, response) \in OutcomeType
         /\ Legitimate(ctx, ResponseOutcome(ctx, response))
<1>1. CASE IsPolicyDecision(response)
  <2> DEFINE decision == [action |-> response.action, source |-> "service"]
  <2>1. response.action \in ServiceActionValue
    BY <1>1 DEF IsPolicyDecision
  <2>2. /\ decision \in Decision /\ decision.action # "unspecified"
        /\ decision.source = "service"
        /\ ResponseOutcome(ctx, response) = Outcome(decision)
    BY <1>1, <2>1 DEF ResponseOutcome, Decision, Source, ServiceActionValue, PolicyAction
  <2> HIDE DEF decision
  <2>3. Outcome(decision) \in OutcomeType
    BY <2>2 DEF Outcome, OutcomeType
  <2>4. Legitimate(ctx, Outcome(decision))
    BY <2>2 DEF Outcome, Legitimate
  <2> QED
    BY <2>2, <2>3, <2>4
<1>2. CASE ~IsPolicyDecision(response)
  BY <1>2, FailureOutcomeLegitimate DEF ResponseOutcome
<1> QED
  BY <1>1, <1>2

\* Without a policy service or its cluster, decodeHeaders settles at once, and
\* legitimately.
LEMMA ImmediateOutcomeLegitimate ==
  ASSUME config \in Configs, NEW ctx \in Context,
         NEW outcome,
         outcome = IF config.has_policy_service
                   THEN FailureOutcome(ctx)
                   ELSE Outcome(LocalDecision(ctx, "local"))
  PROVE  outcome \in OutcomeType /\ Legitimate(ctx, outcome)
<1>1. CASE config.has_policy_service
  BY <1>1, FailureOutcomeLegitimate
<1>2. CASE ~config.has_policy_service
  BY <1>2, LocalOutcomeLegitimate DEF Source
<1> QED
  BY <1>1, <1>2

-----------------------------------------------------------------------------
(* Types *)

LEMMA OneToMaxFrames == 1 \in 1..MaxFrames /\ <<1>> \in Seq(1..MaxFrames)
BY MaxFramesAssumption

\* The variables that settling a request changes.
SettledType == /\ context \in Context
               /\ current_decision \in Decision \cup {NoDecision}
               /\ headers \in Seq(Annotation)
               /\ reply \in Seq({403, 503})

LEMMA SettleType ==
  ASSUME TypeOK, NEW ctx \in Context, NEW outcome \in OutcomeType,
         Legitimate(ctx, outcome), Settle(ctx, outcome)
  PROVE  SettledType'
<1>1. /\ outcome.decision \in Decision \cup {NoDecision}
      /\ outcome.code \in {0, 403, 503}
  BY DEF OutcomeType
<1>2. ContextAfter(ctx, outcome) \in Context
  BY DEF ContextAfter, Context
<1>3. outcome.code = 0 => outcome.decision.action \in PolicyAction
  BY DEF Legitimate, Decision
<1>4. config.mode \in Mode
  BY ConfigType DEF TypeOK
<1>5. outcome.code = 0
        => AnnotationOf(ContextAfter(ctx, outcome), outcome.decision) \in Annotation
  BY <1>2, <1>3, <1>4 DEF AnnotationOf, PolicyActionToHeaderValue, Annotation, HeaderValue,
     PolicyAction, Context
<1>6. headers' \in Seq(Annotation)
  BY <1>5 DEF Settle, AnnotatePqcHeaders, StatusOf, TypeOK
<1>7. reply' \in Seq({403, 503})
  BY <1>1 DEF Settle, TypeOK
<1> QED
  BY <1>1, <1>2, <1>6, <1>7 DEF Settle, SettledType

\* The variables that move when frames do.
FramesType == /\ held \in Seq(1..MaxFrames)
              /\ forwarded \in Seq(1..MaxFrames)
              /\ forwardedHeaders \in Seq(Annotation)

LEMMA PassOnType ==
  ASSUME TypeOK, headers' \in Seq(Annotation), NEW frames \in Seq(1..MaxFrames),
         PassOn(frames)
  PROVE  FramesType'
<1>1. << >> \in Seq(1..MaxFrames)
  BY EmptySeq
<1> QED
  BY <1>1, ConcatProperties DEF PassOn, TypeOK, FramesType

LEMMA HoldType ==
  ASSUME TypeOK, NEW frames \in Seq(1..MaxFrames), Hold(frames)
  PROVE  FramesType'
BY ConcatProperties DEF Hold, TypeOK, FramesType

LEMMA FinishDecodeType ==
  ASSUME TypeOK, headers' \in Seq(Annotation), NEW status, FinishDecode(status)
  PROVE  FramesType' /\ decoding_headers' = FALSE /\ inline_headers_status' = "none"
<1>1. << >> \in Seq(1..MaxFrames)
  BY EmptySeq
<1> QED
  BY <1>1, PassOnType, HoldType DEF FinishDecode

LEMMA TypeInit == Init => TypeOK
<1> SUFFICES ASSUME Init PROVE TypeOK
  OBVIOUS
<1>1. context \in Context
  BY EmptyContextType DEF Init
<1>2. received \in 0..MaxFrames
  BY MaxFramesAssumption DEF Init
<1>3. {active_policy_request, pending_headers, waiting_for_policy, destroyed,
       decoding_headers} \subseteq BOOLEAN
  BY Zenon DEF Init
<1>4. /\ held \in Seq(1..MaxFrames) /\ forwarded \in Seq(1..MaxFrames)
      /\ headers \in Seq(Annotation) /\ forwardedHeaders \in Seq(Annotation)
      /\ reply \in Seq({403, 503}) /\ resumes \in Nat
  BY EmptySeq DEF Init
<1>5. /\ config \in Configs /\ calling = "none" /\ asyncRequest = "none"
      /\ stream = "fresh" /\ inline_headers_status = "none"
      /\ current_decision = NoDecision
  BY Zenon DEF Init
<1> QED
  BY <1>1, <1>2, <1>3, <1>4, <1>5 DEF TypeOK

LEMMA TypeDecodeHeaders == TypeOK /\ DecodeHeaders => TypeOK'
<1> SUFFICES ASSUME TypeOK, NEW end_stream \in BOOLEAN,
                    \/ DecodeHeadersDisabled(end_stream)
                    \/ \E request \in Requests, cluster \in Cluster :
                         DecodeHeadersLocally(request, end_stream, cluster)
                    \/ \E request \in Requests :
                         DecodeHeadersRemotely(request, end_stream)
             PROVE  TypeOK'
  BY DEF DecodeHeaders
<1>1. \A request \in Requests : ExtractPqcContext(request) \in Context
  BY RequestsAssumption, ExtractPqcContextType
<1>2. ASSUME HeadersArrive(end_stream)
      PROVE  /\ config' = config /\ resumes' = resumes /\ destroyed' = FALSE
             /\ received' \in 0..MaxFrames /\ stream' \in {"open", "ended"}
  BY <1>2, MaxFramesAssumption DEF HeadersArrive
<1>3. ASSUME HeadersArrive(end_stream), SettledType', NEW status,
             ReturnFromDecode(status)
      PROVE  TypeOK'
  <2>1. FramesType'
    BY <1>3, OneToMaxFrames, EmptySeq DEF ReturnFromDecode, FramesType, SettledType
  <2>2. /\ {active_policy_request', pending_headers', waiting_for_policy',
            destroyed', decoding_headers'} \subseteq BOOLEAN
        /\ inline_headers_status' = "none"
        /\ asyncRequest' \in {asyncRequest, "cancelled"}
        /\ calling' = calling
    BY <1>2, <1>3 DEF ReturnFromDecode, ClearPendingPolicyRequestState
  <2> QED
    BY <1>2, <1>3, <2>1, <2>2 DEF TypeOK, FramesType, SettledType
<1>4. CASE DecodeHeadersDisabled(end_stream)
  <2>1. SettledType'
    BY <1>4 DEF DecodeHeadersDisabled, SettledType, TypeOK
  <2> QED
    BY <1>3, <1>4, <2>1 DEF DecodeHeadersDisabled
<1>5. ASSUME NEW request \in Requests, NEW cluster \in Cluster,
             DecodeHeadersLocally(request, end_stream, cluster)
      PROVE  TypeOK'
  <2> DEFINE ctx     == ExtractPqcContext(request)
             outcome == IF config.has_policy_service
                        THEN FailureOutcome(ctx)
                        ELSE Outcome(LocalDecision(ctx, "local"))
  <2>1. outcome \in OutcomeType /\ Legitimate(ctx, outcome)
    BY <1>1, ImmediateOutcomeLegitimate DEF TypeOK
  <2>2. /\ HeadersArrive(end_stream)
        /\ Settle(ctx, outcome)
        /\ ReturnFromDecode(StatusOf(outcome))
    BY <1>5 DEF DecodeHeadersLocally
  <2> HIDE DEF outcome
  <2>3. SettledType'
    BY <1>1, <2>1, <2>2, SettleType
  <2> QED
    BY <1>3, <2>2, <2>3
<1>6. ASSUME NEW request \in Requests, DecodeHeadersRemotely(request, end_stream)
      PROVE  TypeOK'
  BY <1>1, <1>2, <1>6, OneToMaxFrames DEF DecodeHeadersRemotely, TypeOK
<1> QED
  BY <1>4, <1>5, <1>6

LEMMA TypeSendReturns == TypeOK /\ (SendReturnsRequest \/ SendReturnsNull) => TypeOK'
<1> SUFFICES ASSUME TypeOK, SendReturnsRequest \/ SendReturnsNull
             PROVE  TypeOK'
  OBVIOUS
<1>1. CASE SendReturnsRequest
  <2>1. headers' \in Seq(Annotation) /\ FinishDecode(DispatchStatus(waiting_for_policy))
    BY <1>1 DEF SendReturnsRequest, TypeOK
  <2>2. FramesType' /\ decoding_headers' = FALSE /\ inline_headers_status' = "none"
    BY <2>1, FinishDecodeType
  <2> QED
    BY <1>1, <2>2 DEF SendReturnsRequest, TypeOK, FramesType
<1>2. CASE SendReturnsNull /\ waiting_for_policy
  <2> DEFINE outcome == FailureOutcome(context)
  <2>1. outcome \in OutcomeType /\ Legitimate(context, outcome)
    BY FailureOutcomeLegitimate DEF TypeOK
  <2>2. Settle(context, outcome) /\ FinishDecode(StatusOf(outcome))
    BY <1>2 DEF SendReturnsNull
  <2> HIDE DEF outcome
  <2>3. SettledType'
    BY <2>1, <2>2, SettleType DEF TypeOK
  <2>4. FramesType' /\ decoding_headers' = FALSE /\ inline_headers_status' = "none"
    BY <2>2, <2>3, FinishDecodeType DEF SettledType
  <2> QED
    BY <1>2, <2>3, <2>4
       DEF SendReturnsNull, ClearPendingPolicyRequestState, TypeOK, FramesType, SettledType
<1>3. CASE SendReturnsNull /\ ~waiting_for_policy
  <2>1. headers' \in Seq(Annotation) /\ FinishDecode(DispatchStatus(waiting_for_policy))
    BY <1>3 DEF SendReturnsNull, TypeOK
  <2>2. FramesType' /\ decoding_headers' = FALSE /\ inline_headers_status' = "none"
    BY <2>1, FinishDecodeType
  <2>3. {active_policy_request', pending_headers', waiting_for_policy', destroyed',
         decoding_headers'} \subseteq BOOLEAN
    <3>1. active_policy_request' = FALSE
      BY <1>3, Zenon DEF SendReturnsNull
    <3>2. UNCHANGED <<pending_headers, waiting_for_policy, destroyed>>
      BY <1>3 DEF SendReturnsNull
    <3> QED
      BY <2>2, <3>1, <3>2 DEF TypeOK
  <2> QED
    BY <1>3, <2>2, <2>3 DEF SendReturnsNull, TypeOK, FramesType
<1> QED
  BY <1>1, <1>2, <1>3

LEMMA TypeDecodeFrame == TypeOK /\ (DecodeData \/ DecodeTrailers) => TypeOK'
<1> SUFFICES ASSUME TypeOK, DecodeData \/ DecodeTrailers
             PROVE  TypeOK'
  OBVIOUS
<1>1. \E end_stream \in BOOLEAN : FrameArrives(end_stream)
  BY DEF DecodeData, DecodeTrailers
<1>2. received' \in 1..MaxFrames /\ stream' \in {"open", "ended"}
  BY <1>1, MaxFramesAssumption DEF FrameArrives, TypeOK
<1>3. /\ UNCHANGED <<config, filterVars, calling, asyncRequest, headers, reply, resumes>>
      /\ Hold(<<received'>>) \/ PassOn(<<received'>>)
  BY DEF DecodeData, DecodeTrailers
<1>4. <<received'>> \in Seq(1..MaxFrames) /\ headers' \in Seq(Annotation)
  BY <1>2, <1>3 DEF TypeOK
<1>5. FramesType'
  BY <1>3, <1>4, HoldType, PassOnType
<1> QED
  BY <1>2, <1>3, <1>5 DEF TypeOK, FramesType, filterVars

LEMMA TypeAnswer ==
  ASSUME TypeOK, NEW outcome \in OutcomeType, Legitimate(context, outcome),
         Answer(outcome)
  PROVE  TypeOK'
<1>1. CASE destroyed \/ ~pending_headers
  <2>1. /\ ClearPendingPolicyRequestState(FALSE, "answered")
        /\ UNCHANGED <<config, context, current_decision, inline_headers_status,
                       calling, requestVars, headers, reply, destroyed,
                       decoding_headers, stream>>
    BY <1>1 DEF Answer
  <2>2. {active_policy_request', pending_headers', waiting_for_policy'} \subseteq BOOLEAN
    BY <2>1, Zenon DEF ClearPendingPolicyRequestState
  <2>3. asyncRequest' = "answered"
    BY <2>1 DEF ClearPendingPolicyRequestState
  <2> QED
    BY <2>1, <2>2, <2>3 DEF requestVars, TypeOK
<1>2. CASE ~(destroyed \/ ~pending_headers)
  <2>1. /\ Finish(outcome)
        /\ UNCHANGED <<config, destroyed, decoding_headers, stream>>
    BY <1>2 DEF Answer
  <2>2. SettledType'
    BY <2>1, SettleType DEF Finish, TypeOK
  <2>3. FramesType' /\ received' = received /\ resumes' \in Nat
    <3>1. << >> \in Seq(1..MaxFrames)
      BY EmptySeq
    <3>2. CASE decoding_headers
      BY <2>1, <3>2 DEF Finish, requestVars, FramesType, TypeOK
    <3>3. CASE ~decoding_headers /\ StatusOf(outcome) = "Continue"
      <4>1. received' = received /\ PassOn(<< >>) /\ resumes' = resumes + 1
        BY <2>1, <3>3 DEF Finish, ContinueDecoding
      <4>2. FramesType'
        BY <2>2, <3>1, <4>1, PassOnType DEF SettledType
      <4> QED
        BY <4>1, <4>2 DEF TypeOK
    <3>4. CASE ~decoding_headers /\ StatusOf(outcome) # "Continue"
      BY <2>1, <3>4 DEF Finish, FramesType, TypeOK
    <3> QED
      BY <3>2, <3>3, <3>4
  <2>4. /\ inline_headers_status' \in FilterHeadersStatus \cup {"none"}
        /\ calling' \in {calling, "sendLocalReply"}
        /\ asyncRequest' = "answered"
    BY <2>1 DEF Finish, ClearPendingPolicyRequestState, StatusOf, FilterHeadersStatus,
                TypeOK
  <2>5. /\ active_policy_request' = FALSE
        /\ pending_headers' \in {pending_headers, FALSE}
        /\ waiting_for_policy' \in {waiting_for_policy, FALSE}
    BY <2>1, Zenon DEF Finish, ClearPendingPolicyRequestState
  <2>6. {active_policy_request', pending_headers', waiting_for_policy'} \subseteq BOOLEAN
    BY <2>5 DEF TypeOK
  <2> QED
    BY <2>1, <2>2, <2>3, <2>4, <2>6 DEF SettledType, FramesType, TypeOK
<1> QED
  BY <1>1, <1>2

\* The answer that is handled is always a legitimate one.
LEMMA AnswersLegitimate ==
  ASSUME config \in Configs, context \in Context, OnSuccess \/ OnFailure
  PROVE  \E outcome \in OutcomeType : Legitimate(context, outcome) /\ Answer(outcome)
BY FailureOutcomeLegitimate, ResponseOutcomeLegitimate DEF OnSuccess, OnFailure

LEMMA TypeEnd == TypeOK /\ (ReturnFromLocalReply \/ OnDestroy) => TypeOK'
<1> SUFFICES ASSUME TypeOK, ReturnFromLocalReply \/ OnDestroy
             PROVE  TypeOK'
  OBVIOUS
<1>1. /\ UNCHANGED <<config, context, current_decision, decoding_headers,
                     inline_headers_status, requestVars, headers, reply>>
      /\ ClearPendingPolicyRequestState(active_policy_request, asyncRequest)
      /\ calling' \in {calling, "none"}
      /\ stream' \in {stream, "gone"}
      /\ destroyed' \in {destroyed, TRUE}
  BY Zenon DEF ReturnFromLocalReply, OnDestroy
<1>2. destroyed' \in BOOLEAN
  BY <1>1 DEF TypeOK
<1>3. {active_policy_request', pending_headers', waiting_for_policy'} \subseteq BOOLEAN
  BY <1>1, Zenon DEF ClearPendingPolicyRequestState
<1>4. asyncRequest' \in {asyncRequest, "cancelled"}
  BY <1>1 DEF ClearPendingPolicyRequestState
<1> QED
  BY <1>1, <1>2, <1>3, <1>4 DEF requestVars, TypeOK

LEMMA TypeNext == TypeOK /\ [Next]_vars => TypeOK'
<1> SUFFICES ASSUME TypeOK, [Next]_vars
             PROVE  TypeOK'
  OBVIOUS
<1>1. CASE OnSuccess \/ OnFailure
  BY <1>1, AnswersLegitimate, TypeAnswer DEF TypeOK
<1>2. CASE UNCHANGED vars
  BY <1>2 DEF vars, filterVars, requestVars, TypeOK
<1> QED
  BY <1>1, <1>2, TypeDecodeHeaders, TypeSendReturns, TypeDecodeFrame, TypeEnd DEF Next

\* Every variable of the filter and of its stream keeps to its type.
THEOREM TypeCorrect == Spec => []TypeOK
BY TypeInit, TypeNext, PTL DEF Spec

-----------------------------------------------------------------------------
(* The phases are inductive *)

\* Settling a request that is undecided leaves it to be passed or to be rejected.
LEMMA Settling ==
  ASSUME TypeOK, IsEnabled, NEW ctx \in Context, ~ctx.fallback,
         NEW outcome \in OutcomeType, Legitimate(ctx, outcome),
         headers = << >>, reply = << >>, config' = config, Settle(ctx, outcome)
  PROVE  /\ StatusOf(outcome) = "Continue" => ToPass'
         /\ StatusOf(outcome) # "Continue" /\ forwarded' = << >> => ToReject'
<1>1. /\ context'.pqc_capable = ctx.pqc_capable
      /\ context'.fallback = (outcome.decision.action = "fallback")
  BY DEF Settle, ContextAfter, Context
<1>2. outcome = [decision |-> outcome.decision, code |-> outcome.code]
  BY DEF OutcomeType
<1>3. Legitimate(context, [decision |-> current_decision, code |-> outcome.code])'
  BY <1>1, <1>2 DEF Legitimate, Settle
<1>4. CASE outcome.code = 0
  <2>1. StatusOf(outcome) = "Continue" /\ reply' = << >>
    BY <1>4 DEF StatusOf, Settle
  <2>2. headers' = <<AnnotationOf(ContextAfter(ctx, outcome), outcome.decision)>>
    BY <2>1 DEF Settle, AnnotatePqcHeaders
  <2>3. headers' = <<AnnotationOf(context, current_decision)>>'
    BY <2>2 DEF AnnotationOf, Settle
  <2>4. IsEnabled'
    BY DEF IsEnabled
  <2>5. (context.fallback = (current_decision.action = "fallback"))'
    BY <1>1 DEF Settle
  <2> QED
    BY <1>3, <1>4, <2>1, <2>3, <2>4, <2>5 DEF ToPass
<1>5. CASE outcome.code \in {403, 503}
  <2>1. /\ StatusOf(outcome) = "StopIteration"
        /\ reply' = <<outcome.code>>
        /\ headers' = << >>
    BY <1>5 DEF StatusOf, Settle, AnnotatePqcHeaders
  <2> QED
    BY <1>3, <1>5, <2>1 DEF ToReject
<1> QED
  BY <1>4, <1>5 DEF OutcomeType

\* What is settled stays so while these variables do.
LEMMA SettledStays ==
  ASSUME UNCHANGED <<config, context, current_decision, headers, reply>>
  PROVE  /\ ToPass => ToPass'
         /\ ToPassUnasked => ToPassUnasked'
         /\ forwarded' = forwarded => (ToReject => ToReject') /\ (Undecided => Undecided')
         /\ IsEnabled' = IsEnabled
BY DEF ToPass, ToPassUnasked, ToReject, Undecided, IsEnabled, Legitimate, AnnotationOf

\* The phase is known from who is calling whom.
LEMMA PhaseByCall ==
  ASSUME IInv
  PROVE  /\ stream = "fresh" => Fresh
         /\ calling = "send" => Sending \/ AnsweredInline
         /\ asyncRequest = "starting" => Sending
         /\ calling = "none" /\ asyncRequest = "inflight" => Waiting
         /\ calling = "sendLocalReply" => Replying
         /\ calling = "none" /\ stream = "open" /\ reply = << >> => Waiting \/ Passed
<1>1. ToReject => reply # << >>
  BY DEF ToReject
<1> QED
  BY <1>1 DEF IInv, Phases, Fresh, Sending, AnsweredInline, Waiting, Replying, Passed,
              Rejected, Abandoned, Idle, Alive

LEMMA PhaseDecodeHeaders == IInv /\ DecodeHeaders => Flags' /\ Phases'
<1> SUFFICES ASSUME IInv, NEW end_stream \in BOOLEAN,
                    \/ DecodeHeadersDisabled(end_stream)
                    \/ \E request \in Requests, cluster \in Cluster :
                         DecodeHeadersLocally(request, end_stream, cluster)
                    \/ \E request \in Requests :
                         DecodeHeadersRemotely(request, end_stream)
             PROVE  Flags' /\ Phases'
  BY DEF DecodeHeaders
<1>1. HeadersArrive(end_stream)
  BY DEF DecodeHeadersDisabled, DecodeHeadersLocally, DecodeHeadersRemotely
<1>2. Fresh /\ config' = config /\ Alive' /\ destroyed' = FALSE /\ calling = "none"
  BY <1>1, PhaseByCall DEF HeadersArrive, Alive
<1>3. ASSUME NEW status, ReturnFromDecode(status)
      PROVE  /\ Idle' /\ Flags'
             /\ status = "Continue" => /\ forwarded' = <<1>> /\ held' = << >>
                                       /\ forwardedHeaders' = headers'
             /\ status # "Continue" => forwarded' = << >>
  BY <1>2, <1>3
     DEF ReturnFromDecode, ClearPendingPolicyRequestState, Fresh, Idle, Flags, Alive
<1>4. \A request \in Requests : /\ ExtractPqcContext(request) \in Context
                                /\ ~ExtractPqcContext(request).fallback
  BY RequestsAssumption, ExtractPqcContextType
<1>5. stream' # "fresh"
  BY <1>2 DEF Alive
<1>6. CASE DecodeHeadersDisabled(end_stream)
  <2>1. ReturnFromDecode("Continue")
    BY <1>6 DEF DecodeHeadersDisabled
  <2>2. ToPassUnasked'
    BY <1>2, <1>6 DEF DecodeHeadersDisabled, ToPassUnasked, IsEnabled, Fresh, Undecided
  <2>3. Passed'
    BY <1>3, <1>5, <2>1, <2>2 DEF Passed
  <2> QED
    BY <1>3, <2>1, <2>3 DEF Phases
<1>7. ASSUME NEW request \in Requests, NEW cluster \in Cluster,
             DecodeHeadersLocally(request, end_stream, cluster)
      PROVE  Flags' /\ Phases'
  <2> DEFINE ctx     == ExtractPqcContext(request)
             outcome == IF config.has_policy_service
                        THEN FailureOutcome(ctx)
                        ELSE Outcome(LocalDecision(ctx, "local"))
  <2>1. outcome \in OutcomeType /\ Legitimate(ctx, outcome)
    BY <1>4, ImmediateOutcomeLegitimate DEF IInv, TypeOK
  <2>2. /\ Settle(ctx, outcome)
        /\ ReturnFromDecode(StatusOf(outcome))
        /\ IsEnabled
    BY <1>7 DEF DecodeHeadersLocally
  <2>3. ctx \in Context /\ ~ctx.fallback
    BY <1>4
  <2> HIDE DEF outcome, ctx
  <2>4. /\ StatusOf(outcome) = "Continue" => ToPass'
        /\ StatusOf(outcome) # "Continue" /\ forwarded' = << >> => ToReject'
    BY <1>2, <2>1, <2>2, <2>3, Settling DEF IInv, Fresh, Undecided
  <2>5. Idle' /\ Flags'
    BY <1>3, <2>2
  <2>6. CASE StatusOf(outcome) = "Continue"
    <3>1. ToPass' /\ forwarded' = <<1>> /\ held' = << >> /\ forwardedHeaders' = headers'
      BY <1>3, <2>2, <2>4, <2>6
    <3>2. Passed'
      BY <1>5, <2>5, <3>1 DEF Passed
    <3> QED
      BY <2>5, <3>2 DEF Phases
  <2>7. CASE StatusOf(outcome) # "Continue"
    <3>1. Rejected'
      BY <1>3, <1>5, <2>2, <2>4, <2>5, <2>7 DEF Rejected
    <3> QED
      BY <2>5, <3>1 DEF Phases
  <2> QED
    BY <2>6, <2>7
<1>8. ASSUME NEW request \in Requests, DecodeHeadersRemotely(request, end_stream)
      PROVE  Flags' /\ Phases'
  <2>1. Undecided'
    BY <1>2, <1>4, <1>8 DEF DecodeHeadersRemotely, Fresh, Undecided
  <2>2. Sending'
    BY <1>2, <1>8, <2>1 DEF DecodeHeadersRemotely, Sending, IsEnabled
  <2> QED
    BY <1>2, <1>8, <2>2 DEF DecodeHeadersRemotely, Phases, Flags, Alive
<1> QED
  BY <1>6, <1>7, <1>8

LEMMA PhaseSendReturnsRequest == IInv /\ SendReturnsRequest => Flags' /\ Phases'
<1> SUFFICES ASSUME IInv, SendReturnsRequest
             PROVE  Flags' /\ Phases'
  OBVIOUS
<1>1. Sending /\ waiting_for_policy
  BY PhaseByCall DEF SendReturnsRequest, IInv, Flags, Sending
<1>2. /\ decoding_headers' = FALSE /\ inline_headers_status' = "none"
      /\ UNCHANGED <<forwarded, held>>
  <2>1. FinishDecode("StopIteration")
    BY <1>1 DEF SendReturnsRequest, DispatchStatus
  <2>2. held \o << >> = held
    BY ConcatEmptySeq DEF IInv, TypeOK
  <2> QED
    BY <1>1, <2>1, <2>2 DEF FinishDecode, Hold, Sending
<1>3. Undecided' /\ IsEnabled'
  BY <1>1, <1>2, SettledStays DEF SendReturnsRequest, Sending
<1>4. Waiting'
  BY <1>1, <1>2, <1>3 DEF SendReturnsRequest, Sending, Waiting, Alive
<1> QED
  BY <1>2, <1>4 DEF SendReturnsRequest, IInv, Phases, Flags

\* What decodeHeaders does when it returns after send: the frames held go on, or
\* stay.
LEMMA FinishDecodeFrames ==
  ASSUME TypeOK, held # << >>, forwarded = << >>, NEW status,
         FinishDecode(status),
         NEW final,
         final = IF inline_headers_status = "none" THEN status ELSE inline_headers_status
  PROVE  /\ decoding_headers' = FALSE /\ inline_headers_status' = "none"
         /\ final = "Continue" => /\ forwarded' # << >> /\ held' = << >>
                                  /\ forwardedHeaders' = headers'
         /\ final # "Continue" => forwarded' = << >> /\ held' # << >>
<1>1. forwarded \o held \o << >> = held /\ held \o << >> = held
  BY ConcatEmptySeq DEF TypeOK
<1> QED
  BY <1>1 DEF FinishDecode, PassOn, Hold

LEMMA PhaseSendReturnsNull == IInv /\ SendReturnsNull => Flags' /\ Phases'
<1> SUFFICES ASSUME IInv, SendReturnsNull
             PROVE  Flags' /\ Phases'
  OBVIOUS
<1>1. /\ Alive /\ stream' = stream /\ config' = config /\ calling' = "none"
      /\ destroyed' = destroyed /\ held # << >> /\ forwarded = << >>
      /\ Sending \/ AnsweredInline
  BY PhaseByCall DEF SendReturnsNull, Sending, AnsweredInline, Undecided
<1>2. CASE waiting_for_policy
  <2> DEFINE outcome == FailureOutcome(context)
  <2>1. Sending
    BY <1>1, <1>2 DEF AnsweredInline, IInv, Flags
  <2>2. outcome \in OutcomeType /\ Legitimate(context, outcome)
    BY FailureOutcomeLegitimate DEF IInv, TypeOK
  <2>3. /\ ClearPendingPolicyRequestState(FALSE, "refused")
        /\ Settle(context, outcome)
        /\ FinishDecode(StatusOf(outcome))
    BY <1>2 DEF SendReturnsNull
  <2> HIDE DEF outcome
  <2>4. /\ StatusOf(outcome) = "Continue" => ToPass'
        /\ StatusOf(outcome) # "Continue" /\ forwarded' = << >> => ToReject'
    BY <1>1, <2>1, <2>2, <2>3, Settling DEF IInv, TypeOK, Sending, Undecided
  <2>5. /\ decoding_headers' = FALSE /\ inline_headers_status' = "none"
        /\ StatusOf(outcome) = "Continue" => /\ forwarded' # << >> /\ held' = << >>
                                             /\ forwardedHeaders' = headers'
        /\ StatusOf(outcome) # "Continue" => forwarded' = << >>
    BY <1>1, <2>1, <2>3, FinishDecodeFrames, Zenon DEF IInv, Sending
  <2>6. Idle'
    BY <1>1, <2>3, <2>5 DEF Idle, ClearPendingPolicyRequestState
  <2>7. Passed' \/ Rejected'
    BY <1>1, <2>4, <2>5, <2>6 DEF Passed, Rejected, Alive
  <2>8. Flags'
    BY <1>1, <2>3, <2>5 DEF IInv, Flags, ClearPendingPolicyRequestState
  <2> QED
    BY <2>7, <2>8 DEF Phases
<1>3. CASE ~waiting_for_policy
  <2>1. AnsweredInline
    BY <1>1, <1>3 DEF Sending, IInv, Flags
  <2>2. /\ FinishDecode(DispatchStatus(waiting_for_policy))
        /\ active_policy_request' = FALSE
        /\ UNCHANGED <<context, current_decision, pending_headers,
                       waiting_for_policy, asyncRequest, headers, reply>>
    BY <1>3 DEF SendReturnsNull
  <2>3. /\ decoding_headers' = FALSE /\ inline_headers_status' = "none"
        /\ inline_headers_status = "Continue" =>
             /\ forwarded' # << >> /\ held' = << >>
             /\ forwardedHeaders' = headers'
        /\ inline_headers_status = "StopIteration" => forwarded' = << >>
    BY <1>1, <2>1, <2>2, FinishDecodeFrames DEF IInv, AnsweredInline
  <2>4. Idle'
    BY <1>1, <2>1, <2>2, <2>3 DEF Idle, AnsweredInline
  <2>5. /\ inline_headers_status = "Continue" => ToPass'
        /\ inline_headers_status = "StopIteration" => ToReject'
    BY <1>1, <2>1, <2>2, <2>3, SettledStays DEF AnsweredInline, ToPass, ToReject
  <2>6. Passed' \/ Rejected'
    BY <1>1, <2>1, <2>3, <2>4, <2>5 DEF AnsweredInline, Passed, Rejected, Alive
  <2>7. Flags'
    BY <1>1, <2>2, <2>3 DEF IInv, Flags
  <2> QED
    BY <2>6, <2>7 DEF Phases
<1> QED
  BY <1>2, <1>3

LEMMA PhaseDecodeFrame == IInv /\ (DecodeData \/ DecodeTrailers) => Flags' /\ Phases'
<1> SUFFICES ASSUME IInv, DecodeData \/ DecodeTrailers
             PROVE  Flags' /\ Phases'
  OBVIOUS
<1>1. /\ calling = "none" /\ stream = "open" /\ reply = << >>
      /\ stream' \in {"open", "ended"} /\ received' \in 1..MaxFrames
  BY MaxFramesAssumption DEF DecodeData, DecodeTrailers, FrameArrives, IInv, TypeOK
<1>2. /\ UNCHANGED <<config, filterVars, calling, asyncRequest, headers, reply, resumes>>
      /\ IF waiting_for_policy THEN Hold(<<received'>>) ELSE PassOn(<<received'>>)
  BY DEF DecodeData, DecodeTrailers
<1>3. Flags'
  BY <1>1, <1>2 DEF IInv, Flags, filterVars
<1>4. CASE Waiting
  <2>1. held' = held \o <<received'>> /\ forwarded' = forwarded
    BY <1>2, <1>4 DEF Hold, IInv, Flags, Waiting
  <2>2. held' # << >>
    BY <1>1, <2>1 DEF IInv, TypeOK
  <2>3. Undecided' /\ IsEnabled'
    BY <1>2, <1>4, <2>1, SettledStays DEF Waiting, filterVars
  <2>4. Waiting'
    BY <1>1, <1>2, <1>4, <2>2, <2>3 DEF Waiting, filterVars, Alive
  <2> QED
    BY <1>3, <2>4 DEF Phases
<1>5. CASE Passed
  <2>1. PassOn(<<received'>>)
    BY <1>2, <1>5 DEF IInv, Flags, Passed, Idle
  <2>2. forwarded' # << >> /\ held' = << >> /\ forwardedHeaders' = forwardedHeaders
    <3>1. /\ forwarded \in Seq(1..MaxFrames) /\ held = << >> /\ forwarded # << >>
          /\ <<received'>> \in Seq(1..MaxFrames)
      BY <1>1, <1>5 DEF IInv, TypeOK, Passed
    <3>2. forwarded' = forwarded \o <<received'>>
      BY <2>1, <3>1, ConcatEmptySeq DEF PassOn
    <3>3. Len(forwarded') = Len(forwarded) + 1
      BY <3>1, <3>2, ConcatProperties
    <3> QED
      BY <2>1, <3>1, <3>3, EmptySeq DEF PassOn
  <2>3. (ToPass => ToPass') /\ (ToPassUnasked => ToPassUnasked')
    BY <1>2, SettledStays DEF filterVars
  <2>4. Passed'
    BY <1>1, <1>2, <1>5, <2>2, <2>3 DEF Passed, Idle, filterVars
  <2> QED
    BY <1>3, <2>4 DEF Phases
<1> QED
  BY <1>1, <1>4, <1>5, PhaseByCall

LEMMA PhaseAnswer ==
  ASSUME IInv, NEW outcome \in OutcomeType, Legitimate(context, outcome),
         Answer(outcome)
  PROVE  Flags' /\ Phases'
<1>1. Sending \/ Waiting
  BY PhaseByCall DEF Answer, AnswerPossible
<1>2. pending_headers /\ waiting_for_policy /\ ~destroyed /\ Alive /\ IsEnabled
        /\ Undecided /\ held # << >>
  BY <1>1 DEF Sending, Waiting, Alive, IInv, Flags
<1>3. /\ Finish(outcome)
      /\ UNCHANGED <<config, destroyed, decoding_headers, stream>>
  BY <1>2 DEF Answer
<1>4. /\ StatusOf(outcome) \in {"Continue", "StopIteration"}
      /\ StatusOf(outcome) = "Continue" => ToPass'
      /\ StatusOf(outcome) # "Continue" /\ forwarded' = << >> => ToReject'
  <2>1. Settle(context, outcome) /\ context \in Context
    BY <1>3 DEF Finish, IInv, TypeOK
  <2> QED
    BY <1>2, <1>3, <2>1, Settling DEF IInv, Undecided, StatusOf
<1>5. CASE Sending
  <2>1. /\ decoding_headers
        /\ UNCHANGED requestVars
        /\ inline_headers_status' = StatusOf(outcome)
        /\ UNCHANGED calling
        /\ ClearPendingPolicyRequestState(FALSE, "answered")
    BY <1>3, <1>5 DEF Finish, Sending, IInv, Flags
  <2>2. /\ StatusOf(outcome) = "Continue" => ToPass'
        /\ StatusOf(outcome) = "StopIteration" => ToReject'
    BY <1>2, <1>4, <2>1 DEF requestVars, Undecided
  <2>3. AnsweredInline'
    BY <1>2, <1>3, <1>4, <1>5, <2>1, <2>2
       DEF Sending, AnsweredInline, Undecided, requestVars, Alive,
           ClearPendingPolicyRequestState
  <2>4. Flags'
    BY <1>3, <2>1 DEF IInv, Flags, ClearPendingPolicyRequestState
  <2> QED
    BY <2>3, <2>4 DEF Phases
<1>6. CASE Waiting /\ StatusOf(outcome) = "Continue"
  <2>1. /\ ~decoding_headers
        /\ UNCHANGED <<calling, inline_headers_status>>
        /\ ContinueDecoding
        /\ ClearPendingPolicyRequestState(FALSE, "answered")
    BY <1>3, <1>6 DEF Finish, Waiting, IInv, Flags
  <2>2. forwarded \o held \o << >> = held
    BY <1>2, ConcatEmptySeq DEF Undecided, IInv, TypeOK
  <2>3. forwarded' # << >> /\ held' = << >> /\ forwardedHeaders' = headers'
    BY <1>2, <2>1, <2>2 DEF ContinueDecoding, PassOn, Undecided
  <2>4. Idle'
    BY <1>6, <2>1 DEF Waiting, Idle, ClearPendingPolicyRequestState
  <2>5. Passed'
    BY <1>2, <1>3, <1>4, <1>6, <2>3, <2>4 DEF Passed, Alive
  <2>6. Flags'
    BY <1>3, <2>1 DEF IInv, Flags, ClearPendingPolicyRequestState
  <2> QED
    BY <2>5, <2>6 DEF Phases
<1>7. CASE Waiting /\ StatusOf(outcome) = "StopIteration"
  <2>1. /\ ~decoding_headers
        /\ calling' = "sendLocalReply"
        /\ asyncRequest' = "answered"
        /\ active_policy_request' = FALSE
        /\ UNCHANGED <<pending_headers, waiting_for_policy, inline_headers_status,
                       held, forwarded>>
    BY <1>3, <1>7 DEF Finish, Waiting, IInv, Flags
  <2>2. ToReject'
    BY <1>2, <1>4, <1>7, <2>1 DEF Undecided
  <2>3. Replying'
    BY <1>2, <1>3, <1>7, <2>1, <2>2 DEF Waiting, Replying, Alive
  <2>4. Flags'
    BY <1>3, <1>7, <2>1 DEF IInv, Flags, Waiting
  <2> QED
    BY <2>3, <2>4 DEF Phases
<1> QED
  BY <1>1, <1>4, <1>5, <1>6, <1>7

LEMMA PhaseReturnFromLocalReply ==
  IInv /\ ReturnFromLocalReply => Flags' /\ Phases'
<1> SUFFICES ASSUME IInv, ReturnFromLocalReply
             PROVE  Flags' /\ Phases'
  OBVIOUS
<1>1. Replying
  BY PhaseByCall DEF ReturnFromLocalReply
<1>2. /\ calling' = "none"
      /\ ClearPendingPolicyRequestState(active_policy_request, asyncRequest)
      /\ UNCHANGED <<config, context, current_decision, destroyed, decoding_headers,
                     inline_headers_status, stream, forwarded, headers, reply>>
  BY DEF ReturnFromLocalReply, requestVars
<1>3. Idle' /\ ToReject'
  BY <1>1, <1>2, SettledStays DEF Replying, Idle, ClearPendingPolicyRequestState
<1>4. Rejected'
  BY <1>1, <1>2, <1>3 DEF Replying, Rejected
<1>5. Flags'
  BY <1>1, <1>2 DEF IInv, Flags, Replying, ClearPendingPolicyRequestState
<1> QED
  BY <1>4, <1>5 DEF Phases

LEMMA PhaseOnDestroy == IInv /\ OnDestroy => Flags' /\ Phases'
<1> SUFFICES ASSUME IInv, OnDestroy
             PROVE  Flags' /\ Phases'
  OBVIOUS
<1>1. /\ stream # "gone" /\ stream' = "gone" /\ destroyed' = TRUE
      /\ calling \in {"none", "sendLocalReply"}
      /\ ClearPendingPolicyRequestState(active_policy_request, asyncRequest)
      /\ UNCHANGED <<config, context, current_decision, decoding_headers,
                     inline_headers_status, calling, held, forwarded,
                     forwardedHeaders, headers, reply>>
  BY DEF OnDestroy, requestVars
<1>2. Flags'
  BY <1>1 DEF IInv, Flags, ClearPendingPolicyRequestState
<1>3. /\ Undecided => Undecided'
      /\ ToPass => ToPass'
      /\ ToPassUnasked => ToPassUnasked'
      /\ ToReject => ToReject'
  BY <1>1, SettledStays
<1>4. Fresh \/ Waiting \/ Passed \/ Rejected \/ Replying
  BY <1>1 DEF IInv, Phases, Sending, AnsweredInline, Abandoned
<1>5. CASE Fresh \/ Waiting \/ Passed \/ Rejected
  <2>1. Idle'
    BY <1>1, <1>5 DEF Fresh, Waiting, Passed, Rejected, Idle, ClearPendingPolicyRequestState
  <2>2. CASE Fresh \/ Waiting
    BY <1>1, <1>2, <1>3, <2>1, <2>2 DEF Fresh, Waiting, Abandoned, Phases
  <2>3. CASE Passed
    BY <1>1, <1>2, <1>3, <2>1, <2>3 DEF Passed, Phases
  <2>4. CASE Rejected
    BY <1>1, <1>2, <1>3, <2>1, <2>4 DEF Rejected, Phases
  <2> QED
    BY <1>5, <2>2, <2>3, <2>4
<1>6. CASE Replying
  <2>1. Replying'
    BY <1>1, <1>3, <1>6 DEF Replying, ClearPendingPolicyRequestState
  <2> QED
    BY <1>2, <2>1 DEF Phases
<1> QED
  BY <1>4, <1>5, <1>6

LEMMA InvInit == Init => IInv
<1> SUFFICES ASSUME Init PROVE IInv
  OBVIOUS
<1>1. TypeOK
  BY TypeInit
<1>2. Flags
  BY DEF Init, Flags
<1>3. Fresh
  BY DEF Init, Fresh, Idle, Undecided, EmptyContext
<1> QED
  BY <1>1, <1>2, <1>3 DEF IInv, Phases

LEMMA InvNext == IInv /\ [Next]_vars => IInv'
<1> SUFFICES ASSUME IInv, [Next]_vars
             PROVE  IInv'
  OBVIOUS
<1>1. TypeOK'
  BY TypeNext DEF IInv
<1>2. CASE OnSuccess \/ OnFailure
  BY <1>1, <1>2, AnswersLegitimate, PhaseAnswer DEF IInv, TypeOK
<1>3. CASE UNCHANGED vars
  <2>1. /\ Undecided => Undecided'
        /\ ToPass => ToPass'
        /\ ToPassUnasked => ToPassUnasked'
        /\ ToReject => ToReject'
        /\ IsEnabled' = IsEnabled
    BY <1>3, SettledStays DEF vars, requestVars, filterVars
  <2>2. Flags' /\ Phases'
    BY <1>3, <2>1
       DEF vars, requestVars, filterVars, IInv, Flags, Phases, Fresh, Sending,
           AnsweredInline, Waiting, Replying, Passed, Rejected, Abandoned, Idle, Alive
  <2> QED
    BY <1>1, <2>2 DEF IInv
<1> QED
  BY <1>1, <1>2, <1>3, PhaseDecodeHeaders, PhaseSendReturnsRequest,
     PhaseSendReturnsNull, PhaseDecodeFrame, PhaseReturnFromLocalReply, PhaseOnDestroy
     DEF IInv, Next

\* Every stream is in one of the phases, whatever is configured and answered.
THEOREM InvariantHolds == Spec => []IInv
BY InvInit, InvNext, PTL DEF Spec

-----------------------------------------------------------------------------
(* What the phases imply *)

LEMMA InvImplies ==
  IInv => /\ NoStrandedFrames /\ PolicyRequestOwned /\ PendingHeadersAlive
          /\ RejectedStaysOut
<1> SUFFICES ASSUME IInv
             PROVE  /\ NoStrandedFrames /\ PolicyRequestOwned /\ PendingHeadersAlive
                    /\ RejectedStaysOut
  OBVIOUS
<1>1. ToReject => Len(reply) = 1 /\ forwarded = << >> /\ headers = << >>
  BY DEF ToReject
<1>2. NoStrandedFrames
  BY <1>1 DEF NoStrandedFrames, IInv, Flags, Phases, Fresh, Sending, AnsweredInline,
              Waiting, Replying, Passed, Rejected, Abandoned, Idle, ToReject
<1>3. PolicyRequestOwned
  BY DEF PolicyRequestOwned, IInv, Phases, Fresh, Sending, AnsweredInline, Waiting,
         Replying, Passed, Rejected, Abandoned, Idle, Alive
<1>4. PendingHeadersAlive
  BY <1>1 DEF PendingHeadersAlive, IInv, Phases, Fresh, Sending, AnsweredInline, Waiting,
              Replying, Passed, Rejected, Abandoned, Idle, Alive, Undecided
<1>5. RejectedStaysOut
  BY <1>1 DEF RejectedStaysOut, IInv, Phases, Fresh, Sending, AnsweredInline, Waiting,
              Replying, Passed, Rejected, Abandoned, Undecided, ToPass, ToPassUnasked
<1> QED
  BY <1>2, <1>3, <1>4, <1>5

\* Frames are held only while a wanted answer is in flight or a reply is out.
THEOREM NoFrameStranded == Spec => []NoStrandedFrames
BY InvariantHolds, InvImplies, PTL

\* The filter points to a policy request exactly while that request may call it.
THEOREM RequestOwned == Spec => []PolicyRequestOwned
BY InvariantHolds, InvImplies, PTL

\* The bare header pointer never dangles.
THEOREM HeadersAlive == Spec => []PendingHeadersAlive
BY InvariantHolds, InvImplies, PTL

\* A rejected request is answered once, and nothing of it goes upstream.
THEOREM RejectionHolds == Spec => []RejectedStaysOut
BY InvariantHolds, InvImplies, PTL

\* A request that goes upstream is in the phase Passed.
LEMMA ForwardedIsPassed == IInv /\ forwarded # << >> => Passed
BY DEF IInv, Phases, Fresh, Sending, AnsweredInline, Waiting, Replying, Rejected,
       Abandoned, Undecided, ToReject

LEMMA InvImpliesForwarded == IInv => ForwardedAsDecided
<1> SUFFICES ASSUME IInv, forwarded # << >>
             PROVE  ForwardedAsDecided
  BY DEF ForwardedAsDecided
<1>1. CASE ToPass /\ forwardedHeaders = headers
  <2>1. /\ current_decision \in Decision
        /\ current_decision.action \notin {"deny", "unspecified"}
    BY <1>1 DEF ToPass, Legitimate
  <2>2. current_decision.action # "none"
    BY <2>1 DEF Decision, PolicyAction
  <2> QED
    BY <1>1, <2>1, <2>2 DEF ToPass, ForwardedAsDecided
<1>2. CASE ToPassUnasked
  BY <1>2 DEF ToPassUnasked, ForwardedAsDecided
<1> QED
  BY <1>1, <1>2, ForwardedIsPassed DEF Passed

\* A request goes upstream only as decided, annotated once by that decision.
THEOREM ForwardingHolds == Spec => []ForwardedAsDecided
BY InvariantHolds, InvImpliesForwarded, PTL

LEMMA InvImpliesMode == IInv => LocalDecisionsHonourMode
<1> SUFFICES ASSUME IInv, forwarded # << >>,
                    current_decision.source \in {"local", "local_after_failure"}
             PROVE  /\ config.mode = "pqc_only" => context.pqc_capable /\ ~context.fallback
                    /\ config.mode = "classical"
                         => current_decision.action # "prefer_hybrid"
  BY DEF LocalDecisionsHonourMode
<1>1. ToPass
  BY ForwardedIsPassed DEF Passed, ToPassUnasked, NoDecision
<1> QED
  BY <1>1 DEF ToPass, Legitimate

\* What the filter decides on its own keeps to its mode, also after a failure.
THEOREM LocalModeHolds == Spec => []LocalDecisionsHonourMode
BY InvariantHolds, InvImpliesMode, PTL

LEMMA InvImpliesFailureMode == IInv => FailureModeRespected
<1> SUFFICES ASSUME IInv, config.has_policy_service, IsEnabled
             PROVE  IF config.fail_open = "false"
                    THEN forwarded # << >> \/ reply = <<403>>
                           => current_decision.source = "service"
                    ELSE reply # <<503>>
  BY DEF FailureModeRespected
<1>1. CASE reply = << >>
  <2>1. forwarded # << >> => ToPass
    BY ForwardedIsPassed DEF Passed, ToPassUnasked
  <2> QED
    BY <1>1, <2>1 DEF ToPass, Legitimate
<1>2. CASE reply # << >>
  <2>1. ToReject
    BY <1>2 DEF IInv, Phases, Fresh, Sending, AnsweredInline, Waiting, Replying, Passed,
                Rejected, Abandoned, Undecided, ToPass, ToPassUnasked
  <2>2. PICK code \in {403, 503} :
          /\ reply = <<code>>
          /\ Legitimate(context, [decision |-> current_decision, code |-> code])
    BY <2>1 DEF ToReject
  <2>3. forwarded = << >>
    BY <2>1 DEF ToReject
  <2> QED
    BY <2>2, <2>3 DEF Legitimate
<1> QED
  BY <1>1, <1>2

\* Failing open never rejects by itself; failing closed lets only the service
\* decide.
THEOREM FailureModeHolds == Spec => []FailureModeRespected
BY InvariantHolds, InvImpliesFailureMode, PTL

-----------------------------------------------------------------------------
(* How far PQC_ONLY is from serving capable clients only *)

\* The policy service is asked, and decides, only where one is configured.
AskedWhereConfigured ==
  asyncRequest # "none" \/ current_decision.source = "service"
    => config.has_policy_service

LEMMA ConfigStays == [Next]_vars => config' = config
BY DEF Next, DecodeHeaders, DecodeHeadersDisabled, DecodeHeadersLocally,
       DecodeHeadersRemotely, HeadersArrive, SendReturnsRequest, SendReturnsNull,
       DecodeData, DecodeTrailers, OnSuccess, OnFailure, Answer, ReturnFromLocalReply,
       OnDestroy, vars

LEMMA OwnOutcome ==
  /\ NoDecision.source # "service"
  /\ \A ctx : Outcome(LocalDecision(ctx, "local")).decision.source = "local"
BY DEF NoDecision, LocalDecision, Outcome

LEMMA ConfiguredNext ==
  IInv /\ AskedWhereConfigured /\ [Next]_vars => AskedWhereConfigured'
<1> SUFFICES ASSUME IInv, AskedWhereConfigured, [Next]_vars
             PROVE  AskedWhereConfigured'
  OBVIOUS
<1>1. config' = config
  BY ConfigStays
<1>2. CASE config.has_policy_service
  BY <1>1, <1>2 DEF AskedWhereConfigured
<1>3. CASE ~config.has_policy_service
  <2>1. asyncRequest = "none" /\ ~active_policy_request /\ current_decision.source # "service"
    BY <1>3, InvImplies DEF AskedWhereConfigured, PolicyRequestOwned
  <2>2. CASE DecodeHeaders
    <3>1. PICK end_stream \in BOOLEAN :
            \/ DecodeHeadersDisabled(end_stream)
            \/ \E request \in Requests, cluster \in Cluster :
                 DecodeHeadersLocally(request, end_stream, cluster)
      BY <1>3, <2>2 DEF DecodeHeaders, DecodeHeadersRemotely
    <3>2. asyncRequest' = asyncRequest
      BY <2>1, <3>1 DEF DecodeHeadersDisabled, DecodeHeadersLocally, ReturnFromDecode,
         ClearPendingPolicyRequestState
    <3>3. current_decision' = NoDecision \/ current_decision'.source = "local"
      BY <1>3, <3>1, OwnOutcome
         DEF DecodeHeadersDisabled, DecodeHeadersLocally, Settle
    <3> QED
      BY <2>1, <3>2, <3>3, OwnOutcome DEF AskedWhereConfigured
  <2>3. CASE DecodeData \/ DecodeTrailers \/ ReturnFromLocalReply \/ OnDestroy
    BY <2>1, <2>3
       DEF AskedWhereConfigured, DecodeData, DecodeTrailers, filterVars,
           ReturnFromLocalReply, OnDestroy, ClearPendingPolicyRequestState
  <2>4. ~SendReturnsRequest /\ ~SendReturnsNull /\ ~OnSuccess /\ ~OnFailure
    BY <2>1 DEF SendReturnsRequest, SendReturnsNull, OnSuccess, OnFailure, Answer,
                AnswerPossible
  <2>5. CASE UNCHANGED vars
    BY <2>1, <2>5 DEF AskedWhereConfigured, vars, filterVars
  <2> QED
    BY <2>2, <2>3, <2>4, <2>5 DEF Next
<1> QED
  BY <1>2, <1>3

\* What PQC_ONLY does let through in spite of its promise.
PqcOnlyServesCapableExcept ==
  /\ IsEnabled /\ config.mode = "pqc_only" /\ forwarded # << >>
  /\ ~(context.pqc_capable /\ ~context.fallback)
  => config.has_policy_service /\ current_decision.source = "service"

\* The promise of PQC_ONLY is broken by a decision of a configured policy service
\* and by nothing else: not by a timeout, a reset, a malformed answer, a call
\* answered inside send() or a cluster that is missing.
THEOREM PqcOnlyHasOneException == Spec => []PqcOnlyServesCapableExcept
<1>1. Init => AskedWhereConfigured
  BY OwnOutcome DEF Init, AskedWhereConfigured
<1>2. IInv /\ AskedWhereConfigured => PqcOnlyServesCapableExcept
  <2> SUFFICES ASSUME IInv, AskedWhereConfigured, IsEnabled, config.mode = "pqc_only",
                      forwarded # << >>, ~(context.pqc_capable /\ ~context.fallback)
               PROVE  config.has_policy_service /\ current_decision.source = "service"
    BY DEF PqcOnlyServesCapableExcept
  <2>1. ToPass
    BY ForwardedIsPassed DEF Passed, ToPassUnasked
  <2>2. current_decision.source \in {"local", "local_after_failure", "service"}
    BY <2>1 DEF ToPass, Legitimate, Decision, Source
  <2>3. current_decision.source \notin {"local", "local_after_failure"}
    BY InvImpliesMode DEF LocalDecisionsHonourMode
  <2> QED
    BY <2>2, <2>3 DEF AskedWhereConfigured
<1> QED
  BY <1>1, <1>2, ConfiguredNext, InvariantHolds, PTL DEF Spec

-----------------------------------------------------------------------------
(* What a step may never do *)

\* Only an answer that is waited for, or the return of a send that was not
\* answered, touches what has been settled.
LEMMA StepsThatSettle ==
  ASSUME IInv, Next
  PROVE  Undecided \/ UNCHANGED <<current_decision, context, headers, reply>>
<1>1. CASE DecodeHeaders
  BY <1>1, PhaseByCall
     DEF DecodeHeaders, DecodeHeadersDisabled, DecodeHeadersLocally,
         DecodeHeadersRemotely, HeadersArrive, Fresh
<1>2. CASE SendReturnsNull
  BY <1>2, PhaseByCall DEF SendReturnsNull, Sending, AnsweredInline, IInv, Flags
<1>3. CASE OnSuccess \/ OnFailure
  <2>1. Sending \/ Waiting
    BY <1>3, PhaseByCall DEF OnSuccess, OnFailure, Answer, AnswerPossible
  <2> QED
    BY <2>1 DEF Sending, Waiting
<1>4. CASE SendReturnsRequest
  BY <1>4 DEF SendReturnsRequest
<1>5. CASE DecodeData \/ DecodeTrailers
  BY <1>5 DEF DecodeData, DecodeTrailers, filterVars
<1>6. CASE ReturnFromLocalReply \/ OnDestroy
  BY <1>6 DEF ReturnFromLocalReply, OnDestroy
<1> QED
  BY <1>1, <1>2, <1>3, <1>4, <1>5, <1>6 DEF Next

LEMMA StepIsFinal ==
  IInv /\ [Next]_vars =>
    (current_decision # NoDecision \/ reply # << >>
       => UNCHANGED <<current_decision, context, headers, reply>>)
<1>1. vars' = vars => UNCHANGED <<current_decision, context, headers, reply>>
  BY DEF vars, filterVars
<1> QED
  BY <1>1, StepsThatSettle DEF Undecided

\* No answer, failure or return changes a decision that has been taken.
THEOREM DecisionFinal == Spec => DecisionIsFinal
BY InvariantHolds, StepIsFinal, PTL DEF Spec, DecisionIsFinal

LEMMA StepResumesLegally ==
  IInv /\ [Next]_vars =>
    (resumes' # resumes => /\ held # << >> /\ ~decoding_headers
                           /\ reply = << >> /\ stream # "gone")
<1> SUFFICES ASSUME IInv, Next, resumes' # resumes
             PROVE  Waiting /\ ~decoding_headers
  BY DEF vars, requestVars, Waiting, Undecided, Alive
<1>1. OnSuccess \/ OnFailure
  BY DEF Next, DecodeHeaders, DecodeHeadersDisabled, DecodeHeadersLocally,
         DecodeHeadersRemotely, HeadersArrive, SendReturnsRequest, SendReturnsNull,
         DecodeData, DecodeTrailers, ReturnFromLocalReply, OnDestroy, requestVars
<1>2. PICK outcome : Answer(outcome)
  BY <1>1 DEF OnSuccess, OnFailure
<1>3. Finish(outcome) /\ ~decoding_headers
  BY <1>2 DEF Answer, Finish, requestVars
<1>4. Sending \/ Waiting
  BY <1>2, PhaseByCall DEF Answer, AnswerPossible
<1> QED
  BY <1>3, <1>4 DEF Sending, IInv, Flags

\* The stream is resumed only while it is stopped, unanswered and alive.
THEOREM ResumesLegally == Spec => ResumeLegal
BY InvariantHolds, StepResumesLegally, PTL DEF Spec, ResumeLegal

LEMMA StepAfterDestroy ==
  IInv /\ [Next]_vars =>
    (stream = "gone" => UNCHANGED <<stream, headers, reply, forwarded, held, resumes>>)
<1> SUFFICES ASSUME IInv, Next, stream = "gone"
             PROVE  UNCHANGED <<stream, headers, reply, forwarded, held, resumes>>
  BY DEF vars, requestVars
<1>1. ~(Sending \/ AnsweredInline \/ Waiting)
  BY DEF Sending, AnsweredInline, Waiting, Alive
<1>2. ~(SendReturnsRequest \/ SendReturnsNull)
  BY <1>1, PhaseByCall DEF SendReturnsRequest, SendReturnsNull
<1>3. ~(OnSuccess \/ OnFailure)
  BY <1>1, PhaseByCall DEF OnSuccess, OnFailure, Answer, AnswerPossible
<1>4. ReturnFromLocalReply
  BY <1>2, <1>3
     DEF Next, DecodeHeaders, DecodeHeadersDisabled, DecodeHeadersLocally,
         DecodeHeadersRemotely, HeadersArrive, DecodeData, DecodeTrailers,
         FrameArrives, OnDestroy
<1> QED
  BY <1>4 DEF ReturnFromLocalReply, requestVars

\* A destroyed filter leaves the stream alone, even from inside a handler.
THEOREM NothingHappensAfterDestroy == Spec => NothingAfterDestroy
BY InvariantHolds, StepAfterDestroy, PTL DEF Spec, NothingAfterDestroy

-----------------------------------------------------------------------------
(* Frames *)

LEMMA FramesExtend ==
  ASSUME NEW n \in Nat
  PROVE  [i \in 1..n |-> i] \o <<n + 1>> = [i \in 1..(n + 1) |-> i]
<1> DEFINE s == [i \in 1..n |-> i]
           t == [i \in 1..(n + 1) |-> i]
<1>1. s \in Seq(Nat) /\ Len(s) = n /\ \A i \in 1..n : s[i] = i
  OBVIOUS
<1>2. t \in Seq(Nat) /\ Len(t) = n + 1 /\ \A i \in 1..(n + 1) : t[i] = i
  OBVIOUS
<1> HIDE DEF s, t
<1>3. /\ s \o <<n + 1>> \in Seq(Nat) /\ Len(s \o <<n + 1>>) = n + 1
      /\ \A i \in 1..(n + 1) : (s \o <<n + 1>>)[i] = i
  BY <1>1
<1>4. s \o <<n + 1>> = t
  BY <1>2, <1>3, SeqEqual
<1> QED
  BY <1>4 DEF s, t

\* Whatever is passed on or held, the frames of the request stay in order.
LEMMA FramesMove ==
  ASSUME TypeOK, NEW frames \in Seq(1..MaxFrames), PassOn(frames) \/ Hold(frames)
  PROVE  forwarded' \o held' = forwarded \o held \o frames
<1>1. /\ (forwarded \o held \o frames) \o << >> = forwarded \o held \o frames
      /\ forwarded \o (held \o frames) = forwarded \o held \o frames
  <2>1. forwarded \in Seq(1..MaxFrames) /\ held \in Seq(1..MaxFrames)
    BY DEF TypeOK
  <2>2. forwarded \o held \in Seq(1..MaxFrames)
    BY <2>1, ConcatProperties
  <2>3. forwarded \o held \o frames \in Seq(1..MaxFrames)
    BY <2>2, ConcatProperties
  <2>4. forwarded \o (held \o frames) = forwarded \o held \o frames
    BY <2>1, ConcatAssociative
  <2> QED
    BY <2>3, <2>4, ConcatEmptySeq
<1> QED
  BY <1>1 DEF PassOn, Hold

LEMMA FramesStay ==
  ASSUME TypeOK, FramesInOrder, received' = received, PassOn(<< >>) \/ Hold(<< >>)
  PROVE  FramesInOrder'
<1>1. << >> \in Seq(1..MaxFrames) /\ forwarded \o held \in Seq(1..MaxFrames)
  BY ConcatProperties, EmptySeq DEF TypeOK
<1>2. forwarded \o held \o << >> = forwarded \o held
  BY <1>1, ConcatEmptySeq
<1> QED
  BY <1>1, <1>2, FramesMove DEF FramesInOrder

LEMMA FramesNext == IInv /\ FramesInOrder /\ [Next]_vars => FramesInOrder'
<1> SUFFICES ASSUME IInv, FramesInOrder, [Next]_vars
             PROVE  FramesInOrder'
  OBVIOUS
<1>1. CASE DecodeHeaders
  <2>1. received' = 1 /\ forwarded = << >> /\ held = << >>
    BY <1>1, PhaseByCall
       DEF DecodeHeaders, DecodeHeadersDisabled, DecodeHeadersLocally,
           DecodeHeadersRemotely, HeadersArrive, Fresh, Undecided
  <2>2. \/ forwarded' = <<1>> /\ held' = << >>
        \/ forwarded' = << >> /\ held' = <<1>>
    BY <1>1, <2>1
       DEF DecodeHeaders, DecodeHeadersDisabled, DecodeHeadersLocally,
           DecodeHeadersRemotely, ReturnFromDecode
  <2>3. forwarded' \o held' = <<1>>
    <3>1. <<1>> \in Seq(Nat)
      OBVIOUS
    <3> QED
      BY <2>2, <3>1, ConcatEmptySeq
  <2>4. [i \in 1..1 |-> i] = <<1>>
    OBVIOUS
  <2> QED
    BY <2>1, <2>3, <2>4 DEF FramesInOrder
<1>2. CASE SendReturnsRequest \/ SendReturnsNull
  <2>1. received' = received /\ (PassOn(<< >>) \/ Hold(<< >>))
    BY <1>2 DEF SendReturnsRequest, SendReturnsNull, FinishDecode
  <2> QED
    BY <2>1, FramesStay DEF IInv
<1>3. CASE DecodeData \/ DecodeTrailers
  <2>1. /\ received' = received + 1 /\ received' \in 1..MaxFrames /\ received \in Nat
        /\ PassOn(<<received'>>) \/ Hold(<<received'>>)
    BY <1>3, MaxFramesAssumption DEF DecodeData, DecodeTrailers, FrameArrives, IInv, TypeOK
  <2>2. forwarded' \o held' = forwarded \o held \o <<received'>>
    <3>1. <<received'>> \in Seq(1..MaxFrames)
      BY <2>1
    <3> QED
      BY <2>1, <3>1, FramesMove DEF IInv
  <2> QED
    BY <2>1, <2>2, FramesExtend DEF FramesInOrder
<1>4. CASE OnSuccess \/ OnFailure
  <2>1. PICK outcome : Answer(outcome)
    BY <1>4 DEF OnSuccess, OnFailure
  <2>2. \/ UNCHANGED <<received, held, forwarded>>
        \/ received' = received /\ PassOn(<< >>)
    BY <2>1 DEF Answer, Finish, ContinueDecoding, requestVars
  <2> QED
    BY <2>2, FramesStay DEF IInv, FramesInOrder
<1>5. CASE ReturnFromLocalReply \/ OnDestroy \/ UNCHANGED vars
  BY <1>5 DEF ReturnFromLocalReply, OnDestroy, vars, requestVars, FramesInOrder
<1> QED
  BY <1>1, <1>2, <1>3, <1>4, <1>5 DEF Next

LEMMA FramesInit == Init => FramesInOrder
<1> SUFFICES ASSUME Init PROVE FramesInOrder
  OBVIOUS
<1>1. << >> \o << >> = << >> /\ [i \in 1..0 |-> i] = << >>
  OBVIOUS
<1> QED
  BY <1>1 DEF Init, FramesInOrder

\* However many frames arrive while the filter waits, none is lost, doubled or
\* overtaken.
THEOREM FramesHold == Spec => []FramesInOrder
BY InvariantHolds, FramesInit, FramesNext, PTL DEF Spec

-----------------------------------------------------------------------------
(* Held frames are resolved *)

\* The two ways to hold frames back without having settled what becomes of them.
InSend == calling = "send"

InFlight == calling = "none" /\ asyncRequest = "inflight"

Resolved == held = << >> \/ reply # << >> \/ stream = "gone"

\* Envoy runs a timer for the policy request.
Timed == config.timeout # << >> => config.timeout[1] >= 1000

LEMMA WaitOrResolved == IInv => InSend \/ InFlight \/ Resolved
BY DEF IInv, Phases, Fresh, Sending, AnsweredInline, Waiting, Replying, Passed, Rejected,
       Abandoned, ToReject, InSend, InFlight, Resolved

\* The same of the state a step leads to.
LEMMA WaitOrResolvedNext == IInv' => InSend' \/ InFlight' \/ Resolved'
BY WaitOrResolved, PTL

LEMMA TimedHasTimer ==
  ASSUME TypeOK, Timed
  PROVE  PolicyServiceTimeout > 0
<1>1. config.timeout \in Duration
  BY ConfigsAssumption DEF TypeOK, FilterConfig
<1>2. CASE config.timeout = << >>
  BY <1>2 DEF PolicyServiceTimeout, DefaultPolicyServiceTimeout
<1>3. CASE config.timeout # << >>
  <2>1. config.timeout[1] \in Nat
    BY <1>1, <1>3, EmptySeq, ElementOfSeq, LenProperties DEF Duration
  <2>2. config.timeout[1] \div 1000 > 0
    BY <1>3, <2>1 DEF Timed
  <2> QED
    BY <1>3, <2>2 DEF PolicyServiceTimeout, DefaultPolicyServiceTimeout
<1> QED
  BY <1>2, <1>3

\* Once the answer is awaited the filter calls send no more.
LEMMA InFlightUntilResolved ==
  ASSUME IInv, InFlight, [Next]_vars
  PROVE  InFlight' \/ Resolved'
<1>1. calling' # "send"
  <2>1. stream # "fresh"
    BY PhaseByCall DEF InFlight, Waiting, Alive
  <2> QED
    BY <2>1 DEF InFlight, Next, DecodeHeaders, DecodeHeadersDisabled,
         DecodeHeadersLocally, DecodeHeadersRemotely, HeadersArrive, SendReturnsRequest,
         SendReturnsNull, DecodeData, DecodeTrailers, OnSuccess, OnFailure, Answer,
         Finish, ReturnFromLocalReply, OnDestroy, vars
<1>2. IInv'
  BY InvNext
<1>3. IInv' => InSend' \/ InFlight' \/ Resolved'
  BY WaitOrResolvedNext
<1> QED
  BY <1>1, <1>2, <1>3 DEF InSend

LEMMA AnswerResolves ==
  ASSUME IInv, InFlight, AnswerInTime
  PROVE  Resolved'
<1>1. PICK outcome : Answer(outcome)
  BY DEF AnswerInTime, OnSuccess, OnFailure
<1>2. asyncRequest' = "answered"
  BY <1>1 DEF Answer, Finish, ClearPendingPolicyRequestState
<1>3. [Next]_vars
  BY DEF AnswerInTime, Next
<1> QED
  BY <1>2, <1>3, InFlightUntilResolved DEF InFlight

\* Every frame the filter holds back is released, answered or abandoned, for every
\* configuration with a timer and however long the request: send returns
\* (InSend), an answer comes (InFlight), and nothing leads back.
THEOREM HeldFramesAreResolved == FairSpec /\ []WaitsCanEnd => HeldFramesResolve
<1>1. IInv => InSend \/ InFlight \/ Resolved
  BY WaitOrResolved
<1>2. IInv' /\ <<ReturnFromSend>>_vars => InFlight' \/ Resolved'
  <2>1. ReturnFromSend => ~InSend'
    BY DEF ReturnFromSend, SendReturnsRequest, SendReturnsNull, InSend
  <2> QED
    BY <2>1, WaitOrResolvedNext DEF InSend
<1>3. IInv /\ InFlight /\ [Next]_vars => InFlight' \/ Resolved'
  BY InFlightUntilResolved
<1>4. IInv /\ InFlight /\ <<AnswerInTime>>_vars => Resolved'
  BY AnswerResolves
<1>5. Timed /\ [Next]_vars => Timed'
  BY ConfigStays DEF Timed
<1>6. IInv /\ WaitsCanEnd /\ InSend /\ ~Resolved => ENABLED <<ReturnFromSend>>_vars
  <2>1. IInv /\ InSend => decoding_headers
    BY DEF InSend, IInv, Flags
  <2> QED
    BY <2>1 DEF WaitsCanEnd, Resolved
<1>7. IInv /\ WaitsCanEnd /\ InFlight /\ ~Resolved /\ Timed
        => ENABLED <<AnswerInTime>>_vars
  <2>1. IInv /\ InFlight => ~decoding_headers
    BY DEF InFlight, IInv, Flags
  <2> QED
    BY <2>1, TimedHasTimer DEF WaitsCanEnd, Resolved, IInv
<1>8. (held # << >> /\ (config.timeout # << >> => config.timeout[1] >= 1000)) => Timed
  BY DEF Timed
<1>9. Resolved <=> (held = << >> \/ reply # << >> \/ stream = "gone")
  BY DEF Resolved
<1> QED
  BY <1>1, <1>2, <1>3, <1>4, <1>5, <1>6, <1>7, <1>8, <1>9, InvariantHolds, PTL
     DEF FairSpec, Spec, Fairness, HeldFramesResolve

=============================================================================
