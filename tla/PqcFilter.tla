------------------------------ MODULE PqcFilter ------------------------------
(***************************************************************************)
(* PqcFilter (src/filters/pqc/pqc_filter.cc): one filter instance on one   *)
(* HTTP stream, from decodeHeaders to onDestroy.                           *)
(*                                                                         *)
(* Envoy calls the filter on one worker thread, so every callback is an    *)
(* action.  Two callbacks are not atomic, because the filter calls out and *)
(* may be called back before that call returns:                            *)
(*   - AsyncClient::send may deliver onSuccess or onFailure inline;        *)
(*   - sendLocalReply, outside decodeHeaders, may run onDestroy inline.    *)
(* `calling' says which of the two the filter is inside of.  Envoy's side  *)
(* (frame buffering, the async client, the filter chain) is modelled from  *)
(* how the filter uses it.                                                 *)
(***************************************************************************)
EXTENDS RequestContext

CONSTANTS Configs,      \* the filter configurations to consider
          Requests,     \* the requests a downstream may send
          Responses,    \* the responses the policy service may give
          MaxFrames     \* how many frames (headers, data, trailers) one request has

-----------------------------------------------------------------------------
(* Types *)

\* google.protobuf.Duration in microseconds; the empty tuple when unset.  Negative
\* ones, and those too long to count in milliseconds, are left out: on them
\* durationToMilliseconds throws, out of decodeHeaders.
Duration == {d \in Seq(Nat) : Len(d) <= 1}

FilterConfig == [enabled            : BoolValue,
                 mode               : Mode,
                 policy             : PolicyConfig,
                 has_policy_service : BOOLEAN,
                 path               : {"unset", "evaluate", "other"},
                 fail_open          : BoolValue,
                 timeout            : Duration]

\* The policy service speaks JSON; a field may be missing or of another type.
ServiceActionValue == {"allow", "prefer_hybrid", "fallback", "deny"}

Response == [status : Nat,   \* 0 when the response has no :status
             body   : {"empty", "not_an_object", "object"},
             action : ServiceActionValue
                        \cup {"absent", "not_a_string", "unsupported"},
             reason : {"absent", "not_a_string", "string"}]

ASSUME ConfigsAssumption   == Configs \subseteq FilterConfig
ASSUME RequestsAssumption  == Requests \subseteq Request
ASSUME ResponsesAssumption == Responses \subseteq Response
ASSUME MaxFramesAssumption == MaxFrames \in Nat \ {0}

\* A decision remembers who took it, which is what its reason text tells.
Source == {"service", "local", "local_after_failure"}

Decision == [action : PolicyAction, source : Source]

NoDecision == [action |-> "none", source |-> "none"]

\* What x-pqc-decision says.
HeaderValue == PolicyAction \ {"unknown"}

\* One pass of annotatePqcHeaders over the request headers.
Annotation == [capable     : BOOLEAN,
               cipher      : String,
               tls_version : String,
               service     : String,
               decision    : HeaderValue,
               fallback    : BOOLEAN,
               mode        : Mode]

FilterHeadersStatus == {"Continue", "StopIteration"}

Cluster == {"no_manager", "missing", "present"}

-----------------------------------------------------------------------------
VARIABLES
  config,                 \* config_
  context,                \* context_
  current_decision,       \* current_decision_
  active_policy_request,  \* active_policy_request_ # nullptr
  pending_headers,        \* pending_headers_ # nullptr
  waiting_for_policy,     \* waiting_for_policy_
  destroyed,              \* destroyed_
  decoding_headers,       \* decoding_headers_
  inline_headers_status   \* inline_headers_status_, or "none"

filterVars == <<context, current_decision, active_policy_request,
                pending_headers, waiting_for_policy, destroyed,
                decoding_headers, inline_headers_status>>

VARIABLES
  calling,            \* the call out that has not returned yet
  asyncRequest,       \* the policy service request, as the async client sees it
  stream,             \* "fresh", "open", "ended" (all frames seen) or "gone"
  received,           \* frames the downstream has sent; they are numbered
  held,               \* the frames Envoy keeps because the filter stopped them
  forwarded,          \* the frames the next filter has been given
  headers,            \* what was added to the request's header map, in order
  forwardedHeaders,   \* those additions, as the next filter saw them
  reply,              \* the local replies sent, by status code
  resumes             \* calls of continueDecoding

requestVars == <<received, held, forwarded, forwardedHeaders, resumes>>

vars == <<config, filterVars, calling, asyncRequest, stream, requestVars,
          headers, reply>>

-----------------------------------------------------------------------------
(* PqcFilterConfig *)

IsEnabled == config.enabled # "false"

\* Bug variant: an unset fail_open read as false.
PolicyServiceFailOpenUnsetIsFalse ==
  config.has_policy_service => config.fail_open = "true"

PolicyServiceFailOpen == ~config.has_policy_service \/ config.fail_open # "false"

DefaultPolicyServiceTimeout == 1000

\* Bug variant: no default for an unset timeout.
PolicyServiceTimeoutWithoutDefault ==
  IF config.timeout = << >> THEN 0 ELSE config.timeout[1] \div 1000

\* In milliseconds; rounded down, and 0 leaves the async client without a timer.
PolicyServiceTimeout ==
  IF ~config.has_policy_service \/ config.timeout = << >>
  THEN DefaultPolicyServiceTimeout
  ELSE config.timeout[1] \div 1000

\* The default is the path the policy service serves.
PolicyServicePath ==
  IF ~config.has_policy_service \/ config.path = "unset" THEN "evaluate" ELSE config.path

-----------------------------------------------------------------------------
(* From a policy answer to an outcome.  An outcome is the decision, if one *)
(* was taken, and the local reply it leads to, 0 for none.                 *)

LocalDecision(ctx, source) ==
  [action |-> LocalEvaluate(config.policy,
                            BuildAgentPolicyRequest(ctx, config.mode)),
   source |-> source]

\* applyPolicyDecision: only DENY stops the request.
Outcome(decision) ==
  [decision |-> decision, code |-> IF decision.action = "deny" THEN 403 ELSE 0]

Unavailable == [decision |-> NoDecision, code |-> 503]

\* Bug variant: failing open lets the request through without a decision.
FailureOutcomeUndecided(ctx) ==
  IF PolicyServiceFailOpen THEN [decision |-> NoDecision, code |-> 0] ELSE Unavailable

\* handlePolicyServiceFailure and fail_with_reason.
FailureOutcome(ctx) ==
  IF PolicyServiceFailOpen
  THEN Outcome(LocalDecision(ctx, "local_after_failure"))
  ELSE Unavailable

\* parsePolicyServiceResponse accepts nothing but this.
IsPolicyDecision(response) == /\ response.status = 200
                              /\ response.body = "object"
                              /\ response.action \in ServiceActionValue
                              /\ response.reason = "string"

ResponseOutcome(ctx, response) ==
  IF IsPolicyDecision(response)
  THEN Outcome([action |-> response.action, source |-> "service"])
  ELSE FailureOutcome(ctx)

\* Bug variant: applyPolicyDecision replies and carries on.
StatusOfIgnoringDeny(outcome) == "Continue"

StatusOf(outcome) == IF outcome.code = 0 THEN "Continue" ELSE "StopIteration"

\* An action that the enum does not name is not told from no action.
PolicyActionToHeaderValue(action) == IF action = "unknown" THEN "unspecified" ELSE action

\* annotatePqcHeaders.  x-pqc-mode is "unknown" for the unspecified mode.
AnnotationOf(ctx, decision) == [capable     |-> ctx.pqc_capable,
                                cipher      |-> ctx.negotiated_cipher,
                                tls_version |-> ctx.tls_version,
                                service     |-> ctx.service_name,
                                decision    |-> PolicyActionToHeaderValue(decision.action),
                                fallback    |-> ctx.fallback,
                                mode        |-> config.mode]

\* applyPolicyDecision on FALLBACK.
ContextAfter(ctx, outcome) ==
  [ctx EXCEPT !.fallback = @ \/ outcome.decision.action = "fallback"]

\* Headers are annotated only where the request goes on.
AnnotatePqcHeaders(ctx, outcome) ==
  headers' = IF StatusOf(outcome) = "Continue"
             THEN Append(headers, AnnotationOf(ctx, outcome.decision))
             ELSE headers

\* Record the outcome on the filter, the header map and the stream.
Settle(ctx, outcome) ==
  /\ current_decision' = outcome.decision
  /\ context' = ContextAfter(ctx, outcome)
  /\ AnnotatePqcHeaders(ContextAfter(ctx, outcome), outcome)
  /\ reply' = IF outcome.code = 0 THEN reply ELSE Append(reply, outcome.code)

-----------------------------------------------------------------------------
(* Envoy's side of a filter return value *)

\* The frames given to the next filter: what is held first, then `frames'.
PassOn(frames) ==
  /\ forwarded' = forwarded \o held \o frames
  /\ held' = << >>
  /\ forwardedHeaders' = IF forwarded = << >> THEN headers' ELSE forwardedHeaders

Hold(frames) ==
  /\ held' = held \o frames
  /\ UNCHANGED <<forwarded, forwardedHeaders>>

\* Bug variant: the status an inline answer left behind is not looked at.
FinishDecodeIgnoringInline(default_status) ==
  /\ decoding_headers' = FALSE
  /\ inline_headers_status' = "none"
  /\ IF default_status = "Continue" THEN PassOn(<< >>) ELSE Hold(<< >>)

\* finish_decode: an inline answer overrides the status decodeHeaders returns.
FinishDecode(default_status) ==
  /\ decoding_headers' = FALSE
  /\ inline_headers_status' = "none"
  /\ IF "Continue" = (IF inline_headers_status = "none" THEN default_status
                                                  ELSE inline_headers_status)
     THEN PassOn(<< >>)
     ELSE Hold(<< >>)

\* Bug variant: the handler forgets to resume the stream.
ContinueDecodingForgotten ==
  UNCHANGED <<forwarded, held, forwardedHeaders, resumes>>

\* decoder_callbacks_->continueDecoding().
ContinueDecoding == PassOn(<< >>) /\ resumes' = resumes + 1

\* Bug variants: the request is dropped but not cancelled; the pointer to the
\* headers is kept.
ClearWithoutCancel(active, async) ==
  /\ asyncRequest' = async
  /\ active_policy_request' = FALSE
  /\ pending_headers' = FALSE
  /\ waiting_for_policy' = FALSE

ClearKeepingHeaders(active, async) ==
  /\ asyncRequest' = IF active THEN "cancelled" ELSE async
  /\ active_policy_request' = FALSE
  /\ pending_headers' = pending_headers
  /\ waiting_for_policy' = FALSE

\* clearPendingPolicyRequestState, on an async request that is in state `async'
\* and that the filter still refers to iff `active'.
ClearPendingPolicyRequestState(active, async) ==
  /\ asyncRequest' = IF active THEN "cancelled" ELSE async
  /\ active_policy_request' = FALSE
  /\ pending_headers' = FALSE
  /\ waiting_for_policy' = FALSE

-----------------------------------------------------------------------------
Init ==
  /\ config \in Configs
  /\ context = EmptyContext
  /\ current_decision = NoDecision
  /\ active_policy_request = FALSE
  /\ pending_headers = FALSE
  /\ waiting_for_policy = FALSE
  /\ destroyed = FALSE
  /\ decoding_headers = FALSE
  /\ inline_headers_status = "none"
  /\ calling = "none"
  /\ asyncRequest = "none"
  /\ stream = "fresh"
  /\ received = 0
  /\ held = << >>
  /\ forwarded = << >>
  /\ headers = << >>
  /\ forwardedHeaders = << >>
  /\ reply = << >>
  /\ resumes = 0

-----------------------------------------------------------------------------
(* decodeHeaders *)

\* The request headers arrive; end_stream when nothing follows them.
HeadersArrive(end_stream) ==
  /\ calling = "none"
  /\ stream = "fresh"
  /\ received' = 1
  /\ stream' = IF end_stream THEN "ended" ELSE "open"
  /\ destroyed' = FALSE
  /\ UNCHANGED <<config, resumes>>

\* decodeHeaders returns without having started a policy service request.
ReturnFromDecode(status) ==
  /\ decoding_headers' = FALSE
  /\ inline_headers_status' = "none"
  /\ held' = IF status = "Continue" THEN << >> ELSE <<1>>
  /\ forwarded' = IF status = "Continue" THEN <<1>> ELSE << >>
  /\ forwardedHeaders' = IF status = "Continue" THEN headers' ELSE << >>
  /\ ClearPendingPolicyRequestState(active_policy_request, asyncRequest)
  /\ UNCHANGED calling

DecodeHeadersDisabled(end_stream) ==
  /\ ~IsEnabled
  /\ HeadersArrive(end_stream)
  /\ current_decision' = NoDecision
  /\ UNCHANGED <<context, headers, reply>>
  /\ ReturnFromDecode("Continue")

\* No policy service is configured, or its cluster is not there to be asked.
DecodeHeadersLocally(request, end_stream, cluster) ==
  LET ctx     == ExtractPqcContext(request)
      outcome == IF config.has_policy_service
                 THEN FailureOutcome(ctx)
                 ELSE Outcome(LocalDecision(ctx, "local"))
  IN /\ IsEnabled
     /\ config.has_policy_service => cluster # "present"
     /\ HeadersArrive(end_stream)
     /\ Settle(ctx, outcome)
     /\ ReturnFromDecode(StatusOf(outcome))

\* dispatchPolicyServiceRequest up to the call of AsyncClient::send.
DecodeHeadersRemotely(request, end_stream) ==
  /\ IsEnabled
  /\ config.has_policy_service
  /\ HeadersArrive(end_stream)
  /\ current_decision' = NoDecision
  /\ context' = ExtractPqcContext(request)
  /\ decoding_headers' = TRUE
  /\ inline_headers_status' = "none"
  /\ active_policy_request' = FALSE
  /\ pending_headers' = TRUE
  /\ waiting_for_policy' = TRUE
  /\ calling' = "send"
  /\ asyncRequest' = "starting"
  /\ held' = <<1>>
  /\ UNCHANGED <<forwarded, forwardedHeaders, headers, reply>>

DecodeHeaders ==
  \E end_stream \in BOOLEAN :
    \/ DecodeHeadersDisabled(end_stream)
    \/ \E request \in Requests, cluster \in Cluster :
         DecodeHeadersLocally(request, end_stream, cluster)
    \/ \E request \in Requests : DecodeHeadersRemotely(request, end_stream)

\* What dispatchPolicyServiceRequest returns once a request is under way or
\* has been answered.
DispatchStatus(waiting) == IF waiting THEN "StopIteration" ELSE "Continue"

\* send returns a request: the answer comes later.
SendReturnsRequest ==
  /\ calling = "send"
  /\ asyncRequest = "starting"
  /\ calling' = "none"
  /\ asyncRequest' = "inflight"
  /\ active_policy_request' = TRUE
  /\ UNCHANGED <<config, context, current_decision, pending_headers,
                 waiting_for_policy, destroyed, stream, received, headers,
                 reply, resumes>>
  /\ FinishDecode(DispatchStatus(waiting_for_policy))

\* Bug variant: every null return is taken for a request that was not sent.
SendReturnsNullUnchecked ==
  LET outcome == FailureOutcome(context)
  IN /\ calling = "send"
     /\ asyncRequest \in {"starting", "answered"}
     /\ calling' = "none"
     /\ ClearPendingPolicyRequestState(FALSE, "refused")
     /\ Settle(context, outcome)
     /\ FinishDecode(StatusOf(outcome))
     /\ UNCHANGED <<config, destroyed, stream, received, resumes>>

\* Bug variant: every null return is taken for a request that was answered inline.
SendReturnsNullForgotten ==
  /\ calling = "send"
  /\ asyncRequest \in {"starting", "answered"}
  /\ calling' = "none"
  /\ active_policy_request' = FALSE
  /\ UNCHANGED <<config, context, current_decision, pending_headers,
                 waiting_for_policy, destroyed, asyncRequest, stream, received,
                 headers, reply, resumes>>
  /\ FinishDecode(DispatchStatus(waiting_for_policy))

\* send returns nullptr: it was answered inline, or could not be dispatched.
SendReturnsNull ==
  /\ calling = "send"
  /\ asyncRequest \in {"starting", "answered"}
  /\ calling' = "none"
  /\ IF waiting_for_policy
     THEN LET outcome == FailureOutcome(context)
          IN /\ ClearPendingPolicyRequestState(FALSE, "refused")
             /\ Settle(context, outcome)
             /\ FinishDecode(StatusOf(outcome))
     ELSE /\ active_policy_request' = FALSE
          /\ UNCHANGED <<context, current_decision, pending_headers,
                         waiting_for_policy, asyncRequest, headers, reply>>
          /\ FinishDecode(DispatchStatus(waiting_for_policy))
  /\ UNCHANGED <<config, destroyed, stream, received, resumes>>

-----------------------------------------------------------------------------
(* decodeData and decodeTrailers *)

\* The next frame, on a chain that a local reply has not aborted.
FrameArrives(end_stream) ==
  /\ calling = "none"
  /\ stream = "open"
  /\ reply = << >>
  /\ received < MaxFrames
  /\ received' = received + 1
  /\ stream' = IF end_stream THEN "ended" ELSE "open"

\* Bug variant: data is stopped without being buffered.
DecodeDataUnbuffered ==
  /\ \E end_stream \in BOOLEAN : FrameArrives(end_stream)
  /\ UNCHANGED <<config, filterVars, calling, asyncRequest, headers, reply,
                 resumes>>
  /\ IF waiting_for_policy THEN Hold(<< >>) ELSE PassOn(<<received'>>)

DecodeData ==
  /\ \E end_stream \in BOOLEAN : FrameArrives(end_stream)
  /\ UNCHANGED <<config, filterVars, calling, asyncRequest, headers, reply,
                 resumes>>
  /\ IF waiting_for_policy THEN Hold(<<received'>>) ELSE PassOn(<<received'>>)

\* Bug variant: trailers do not look whether the filter is waiting.
DecodeTrailersUnchecked ==
  /\ FrameArrives(TRUE)
  /\ UNCHANGED <<config, filterVars, calling, asyncRequest, headers, reply,
                 resumes>>
  /\ PassOn(<<received'>>)

DecodeTrailers ==
  /\ FrameArrives(TRUE)
  /\ UNCHANGED <<config, filterVars, calling, asyncRequest, headers, reply,
                 resumes>>
  /\ IF waiting_for_policy THEN Hold(<<received'>>) ELSE PassOn(<<received'>>)

-----------------------------------------------------------------------------
(* The async client's callbacks *)

\* A request that has not been cancelled is answered once, inline or later.
AnswerPossible == \/ calling = "send" /\ asyncRequest = "starting"
                  \/ calling = "none" /\ asyncRequest = "inflight"

\* finalizeAsyncDecision and handlePolicyServiceFailure after the decision.
Finish(outcome) ==
  /\ Settle(context, outcome)
  /\ IF StatusOf(outcome) = "Continue" \/ decoding_headers
     THEN /\ ClearPendingPolicyRequestState(FALSE, "answered")
          /\ UNCHANGED calling
     ELSE /\ calling' = "sendLocalReply"
          /\ asyncRequest' = "answered"
          /\ active_policy_request' = FALSE
          /\ UNCHANGED <<pending_headers, waiting_for_policy>>
  /\ IF decoding_headers
     THEN /\ inline_headers_status' = StatusOf(outcome)
          /\ UNCHANGED requestVars
     ELSE /\ UNCHANGED <<inline_headers_status, received>>
          /\ IF StatusOf(outcome) = "Continue"
             THEN ContinueDecoding
             ELSE UNCHANGED <<held, forwarded, forwardedHeaders, resumes>>

\* The part onSuccess and onFailure share: late answers are dropped.
Answer(outcome) ==
  /\ AnswerPossible
  /\ IF destroyed \/ ~pending_headers
     THEN /\ ClearPendingPolicyRequestState(FALSE, "answered")
          /\ UNCHANGED <<context, current_decision, inline_headers_status,
                         calling, requestVars, headers, reply>>
     ELSE Finish(outcome)
  /\ UNCHANGED <<config, destroyed, decoding_headers, stream>>

\* A timeout is an answer too: the async client makes up a 504 response.
OnSuccess == \E response \in Responses : Answer(ResponseOutcome(context, response))

OnFailure == Answer(FailureOutcome(context))

\* Bug variant: the handler resumes the stream without asking what was decided.
ReturnFromLocalReplyResuming ==
  /\ calling = "sendLocalReply"
  /\ calling' = "none"
  /\ ClearPendingPolicyRequestState(active_policy_request, asyncRequest)
  /\ UNCHANGED <<config, context, current_decision, destroyed, decoding_headers,
                 inline_headers_status, stream, received, headers, reply>>
  /\ ContinueDecoding

\* The rest of the handler after sendLocalReply.
ReturnFromLocalReply ==
  /\ calling = "sendLocalReply"
  /\ calling' = "none"
  /\ ClearPendingPolicyRequestState(active_policy_request, asyncRequest)
  /\ UNCHANGED <<config, context, current_decision, destroyed, decoding_headers,
                 inline_headers_status, stream, requestVars, headers, reply>>

-----------------------------------------------------------------------------
(* onDestroy: at any time between callbacks, and inside a late local reply *)

\* Bug variant: onDestroy is not overridden.
OnDestroyDetached ==
  /\ calling \in {"none", "sendLocalReply"}
  /\ stream # "gone"
  /\ stream' = "gone"
  /\ UNCHANGED <<config, filterVars, calling, asyncRequest, requestVars,
                 headers, reply>>

OnDestroy ==
  /\ calling \in {"none", "sendLocalReply"}
  /\ stream # "gone"
  /\ stream' = "gone"
  /\ destroyed' = TRUE
  /\ ClearPendingPolicyRequestState(active_policy_request, asyncRequest)
  /\ UNCHANGED <<config, context, current_decision, decoding_headers,
                 inline_headers_status, calling, requestVars, headers, reply>>

-----------------------------------------------------------------------------
Next == \/ DecodeHeaders
        \/ SendReturnsRequest
        \/ SendReturnsNull
        \/ DecodeData
        \/ DecodeTrailers
        \/ OnSuccess
        \/ OnFailure
        \/ ReturnFromLocalReply
        \/ OnDestroy

Spec == Init /\ [][Next]_vars

\* What the filter may wait for: the return of a call out, and an answer, given by
\* the timer of a request that has one if by nothing else.
ReturnFromSend == SendReturnsRequest \/ SendReturnsNull

AnswerInTime == PolicyServiceTimeout > 0 /\ (OnSuccess \/ OnFailure)

Fairness == /\ WF_vars(ReturnFromSend)
            /\ WF_vars(ReturnFromLocalReply)
            /\ WF_vars(AnswerInTime)

FairSpec == Spec /\ Fairness

-----------------------------------------------------------------------------
(* Safety *)

\* Every variable holds a value the code or Envoy could give it.
TypeOK ==
  /\ config \in Configs
  /\ context \in Context
  /\ current_decision \in Decision \cup {NoDecision}
  /\ {active_policy_request, pending_headers, waiting_for_policy, destroyed,
      decoding_headers} \subseteq BOOLEAN
  /\ inline_headers_status \in FilterHeadersStatus \cup {"none"}
  /\ calling \in {"none", "send", "sendLocalReply"}
  /\ asyncRequest \in {"none", "starting", "inflight", "answered", "refused",
                       "cancelled"}
  /\ stream \in {"fresh", "open", "ended", "gone"}
  /\ received \in 0..MaxFrames
  /\ held \in Seq(1..MaxFrames)
  /\ forwarded \in Seq(1..MaxFrames)
  /\ headers \in Seq(Annotation)
  /\ forwardedHeaders \in Seq(Annotation)
  /\ reply \in Seq({403, 503})
  /\ resumes \in Nat

\* No frame is lost, doubled or overtaken while the filter stops the stream,
\* whatever decodeData and decodeTrailers answered in the meantime.
FramesInOrder == forwarded \o held = [i \in 1..received |-> i]

\* Frames are held back only while somebody will release them: a policy request
\* is in flight and its answer is still wanted, or a local reply has gone out.
NoStrandedFrames ==
  held # << >> /\ calling = "none" /\ reply = << >> /\ stream # "gone"
    => asyncRequest = "inflight" /\ waiting_for_policy

\* active_policy_request_ points to a request exactly while that request can
\* still call back, and such a request never outlives the stream: cancel() is
\* never called on a completed request and no callback reaches a freed filter.
PolicyRequestOwned ==
  /\ active_policy_request <=> asyncRequest = "inflight"
  /\ asyncRequest = "inflight" => stream # "gone" /\ pending_headers

\* pending_headers_ is a bare pointer into the stream's header map.  It is set
\* only while that map exists and has not been given to the next filter.
PendingHeadersAlive ==
  pending_headers => stream # "gone" /\ forwarded = << >>

\* A request goes upstream only after a decision that lets it, with the headers
\* annotated once, by that decision, before the next filter sees them.  With the
\* filter disabled it goes upstream unannotated.
ForwardedAsDecided ==
  forwarded # << >> =>
    IF IsEnabled
    THEN /\ current_decision.action \notin {"none", "deny", "unspecified"}
         /\ context.fallback = (current_decision.action = "fallback")
         /\ forwardedHeaders = <<AnnotationOf(context, current_decision)>>
         /\ headers = forwardedHeaders
    ELSE headers = << >> /\ current_decision = NoDecision

\* A rejected request gets one local reply and nothing of it goes upstream, also
\* when the rejection happens inside send() while headers are being decoded.
RejectedStaysOut ==
  reply # << >> => Len(reply) = 1 /\ forwarded = << >> /\ headers = << >>

\* fail_open: a failure of the policy service never turns a request away by
\* itself.  fail closed: nothing but an answer of the service lets one through.
FailureModeRespected ==
  config.has_policy_service /\ IsEnabled =>
    IF config.fail_open = "false"
    THEN forwarded # << >> \/ reply = <<403>>
           => current_decision.source = "service"
    ELSE reply # <<503>>

\* What the filter decides on its own, at once or after the service failed, keeps
\* to its mode: PQC_ONLY serves capable clients and never falls back, CLASSICAL
\* never prefers hybrid.
LocalDecisionsHonourMode ==
  forwarded # << >> /\ current_decision.source \in {"local", "local_after_failure"}
    => /\ config.mode = "pqc_only" => context.pqc_capable /\ ~context.fallback
       /\ config.mode = "classical" => current_decision.action # "prefer_hybrid"

\* The same promise for every decision, as the Mode enum words it.  It does not
\* hold: a decision of the policy service is applied without the guardrails.
PqcOnlyServesCapableClients ==
  IsEnabled /\ config.mode = "pqc_only" /\ forwarded # << >>
    => context.pqc_capable /\ ~context.fallback

-----------------------------------------------------------------------------
(* Action properties *)

\* continueDecoding is called only on a stream that is stopped, not from inside
\* decodeHeaders, and not after a local reply or onDestroy.
ResumeLegal ==
  [][resumes' # resumes => /\ held # << >>
                           /\ ~decoding_headers
                           /\ reply = << >>
                           /\ stream # "gone"]_vars

\* Once a request is decided or turned away, no later answer, failure or return
\* changes the decision, annotates again or replies again.
DecisionIsFinal ==
  [][current_decision # NoDecision \/ reply # << >>
       => UNCHANGED <<current_decision, context, headers, reply>>]_vars

\* After onDestroy the filter touches neither the stream nor its headers, even
\* from a handler that onDestroy interrupted.
NothingAfterDestroy ==
  [][stream = "gone" =>
       UNCHANGED <<stream, headers, reply, forwarded, held, resumes>>]_vars

-----------------------------------------------------------------------------
(* Liveness *)

\* Whenever frames are held back and the request is not settled, there is somebody to
\* settle it: while headers are being decoded, send, which returns; after that, if
\* Envoy runs a timer, the policy request, which the filter has neither cancelled nor
\* lost.  A handler that returns without resuming, answering or waiting breaks it.
WaitsCanEnd ==
  held # << >> /\ reply = << >> /\ stream # "gone"
    => IF decoding_headers
       THEN ENABLED <<ReturnFromSend>>_vars
       ELSE PolicyServiceTimeout > 0 => ENABLED <<AnswerInTime>>_vars

\* With a timeout of at least a millisecond, or none set, every frame that is
\* held is released, or the request is answered locally or abandoned.
HeldFramesResolve ==
  (held # << >> /\ (config.timeout # << >> => config.timeout[1] >= 1000))
    ~> (held = << >> \/ reply # << >> \/ stream = "gone")

-----------------------------------------------------------------------------
(* The filter is a gate *)

Verdict == IF reply # << >> THEN "reject"
           ELSE IF forwarded # << >> THEN "pass" ELSE "none"

Gate == INSTANCE RequestGate WITH verdict <- Verdict, closed <- stream = "gone"

\* Whatever it consults, the filter passes a request on whole and in order or
\* not at all, and settles once which of the two.
ImplementsGate == Gate!Spec

=============================================================================
