-------------------------- MODULE PolicyLoop_proofs --------------------------
(***************************************************************************)
(* The filter and the service together behave, each for itself, as their   *)
(* own specifications say, so that all that is proved of them holds of the *)
(* composition; and what both promise the client together follows from the *)
(* two inductive invariants and from what travels between them.            *)
(***************************************************************************)
EXTENDS PolicyLoop, RequestGate_proofs, VerdictService_proofs

-----------------------------------------------------------------------------
(* What travels *)

\* A call on its way is about a request the filter has read.
CallSent == /\ calling = "send" => AskedFor \in FilterRequests /\ delivery = "none"
            /\ delivery # "none" => AskedFor \in FilterRequests
            /\ stream = "fresh" => delivery = "none" /\ told.source = "none"

\* The stream's thread works on the filter's call and no other.
CallTaken ==
  delivery = "taken" =>
    /\ pc[StreamThread] # "idle"
    /\ call[StreamThread] = BuildPolicyServiceRequest(AskedFor, PolicyServicePath)

DecidedByFilter ==
  /\ current_decision.source \in {"local", "local_after_failure"}
  /\ current_decision.action = LocalEvaluate(config.policy, AskedFor)

DecidedByService ==
  /\ told \in Verdicts
  /\ current_decision = [action |-> told.action, source |-> "service"]
  /\ told.source \in {"mock", "mock_fallback"} => told.action = ModeDefault(AskedFor)
  /\ told.source = "mock" => settings.decision_mode = "mock"
  /\ told.source = "mock_fallback" => settings.fail_open

\* Whose decision it is.
DecisionOrigin ==
  IF told.source = "none"
  THEN current_decision = NoDecision \/ DecidedByFilter
  ELSE DecidedByService

LoopInv == /\ IInv
           /\ AnswerInv
           /\ CallSent
           /\ CallTaken
           /\ DecisionOrigin

-----------------------------------------------------------------------------
(* Each side keeps to its own specification *)

\* Any answer to the stream's call is one the filter is prepared for.
LEMMA AnswerIsResponse ==
  ASSUME AnswerInv, pc[StreamThread] = "done"
  PROVE  /\ answer[StreamThread] \in HttpAnswer
         /\ ResponseOf(answer[StreamThread]) \in Responses
<1>1. answer[StreamThread] \in HttpAnswer
  BY StreamThreadAssumption, ImmediateAnswerType, VerdictsType DEF AnswerInv, AnswerSound
<1> QED
  BY <1>1, ResponsesCovered

LEMMA DeliverIsOnSuccess ==
  AnswerInv /\ Deliver => OnSuccess
BY AnswerIsResponse DEF Deliver, OnSuccess

LEMMA GatewayIsOnSuccess ==
  (ConnectionFails => OnSuccess \/ OnFailure) /\ (TimerFires => OnSuccess)
BY ResponsesCovered DEF ConnectionFails, TimerFires, OnSuccess

LEMMA FilterSide == AnswerInv /\ [LoopNext]_loopVars => [Next]_vars
<1> SUFFICES ASSUME AnswerInv, LoopNext
             PROVE  [Next]_vars
  BY DEF loopVars
<1>1. CASE FilterStep \/ SendFails \/ SendCall
  BY <1>1 DEF FilterStep, SendFails, SendCall, Next
<1>2. CASE TakeCall \/ WorkOnCall \/ ServiceStep \/ RestartService
  BY <1>2 DEF TakeCall, WorkOnCall, ServiceStep, RestartService
<1>3. CASE Deliver \/ ConnectionFails \/ TimerFires
  BY <1>3, DeliverIsOnSuccess, GatewayIsOnSuccess DEF Next
<1> QED
  BY <1>1, <1>2, <1>3 DEF LoopNext

\* What the filter sends is one of the calls the service is checked against.
LEMMA CallCovered ==
  ASSUME config \in Configs, AskedFor \in FilterRequests
  PROVE  BuildPolicyServiceRequest(AskedFor, PolicyServicePath) \in Calls
<1>1. config.path \in {"unset", "evaluate", "other"}
  BY ConfigsAssumption DEF FilterConfig
<1>2. PolicyServicePath \in ServicePath
  BY <1>1 DEF PolicyServicePath, ServicePath
<1> QED
  BY <1>2 DEF Calls

LEMMA ServerSide ==
  config \in Configs /\ CallSent /\ [LoopNext]_loopVars => [ServerNext]_serverVars
<1> SUFFICES ASSUME config \in Configs, CallSent, LoopNext
             PROVE  [ServerNext]_serverVars
  BY DEF loopVars
<1>1. CASE FilterStep \/ SendFails \/ SendCall \/ Deliver \/ ConnectionFails \/ TimerFires
  BY <1>1 DEF FilterStep, SendFails, SendCall, Deliver, ConnectionFails, TimerFires
<1>2. CASE TakeCall
  <2>1. BuildPolicyServiceRequest(AskedFor, PolicyServicePath) \in Calls
    BY <1>2, CallCovered DEF TakeCall, CallSent
  <2> QED
    BY <1>2, <2>1, StreamThreadAssumption DEF TakeCall, Begin, ServerNext
<1>3. CASE WorkOnCall
  BY <1>3, StreamThreadAssumption DEF WorkOnCall, ServerNext
<1>4. CASE ServiceStep \/ RestartService
  BY <1>4 DEF ServiceStep, RestartService, ServerNext
<1> QED
  BY <1>1, <1>2, <1>3, <1>4 DEF LoopNext

-----------------------------------------------------------------------------
(* What a step of the service leaves alone *)

LEMMA StepSettings ==
  ASSUME NEW t \in Thread, Begin(t) \/ Proceed(t) \/ \E c : BeginCall(t, c)
  PROVE  settings' = settings
BY DEF Begin, BeginCall, AwaitBody, AnswerAtOnce, AnswerFromMock, AnswerUnready,
       AskWatsonx, Accept, Proceed, TestToken, TestExpiration, ReturnCachedToken,
       IamIssuesToken, IamFails, Raises, IamRequestRaises, IamAnswersNoObject, ChatRaises,
       StoreToken, StoreExpiration, WatsonxDecides, ChatFails

LEMMA BeginTakes ==
  ASSUME pc \in [Thread -> Step], call \in [Thread -> Calls \cup {NoCall}],
         NEW t \in Thread, NEW c, BeginCall(t, c)
  PROVE  pc'[t] # "idle" /\ call'[t] = c
BY DEF BeginCall, AwaitBody, AnswerAtOnce, AnswerFromMock, AnswerUnready, AskWatsonx,
       Accept, Reply, Goto

LEMMA ProceedKeeps ==
  ASSUME pc \in [Thread -> Step], NEW t \in Thread, Proceed(t)
  PROVE  pc'[t] # "idle" /\ call' = call
<1>1. CASE TestToken(t) \/ TestExpiration(t) \/ ReturnCachedToken(t) \/ IamIssuesToken(t)
           \/ StoreToken(t) \/ StoreExpiration(t)
  BY <1>1 DEF TestToken, TestExpiration, ReturnCachedToken, IamIssuesToken, StoreToken,
              StoreExpiration, Goto
<1>2. CASE IamFails(t) \/ Raises(t) \/ WatsonxDecides(t) \/ ChatFails(t)
  BY <1>2 DEF IamFails, Raises, IamRequestRaises, IamAnswersNoObject, ChatRaises,
              WatsonxDecides, ChatFails, Reply, Goto
<1> QED
  BY <1>1, <1>2 DEF Proceed

LEMMA StepOfOther ==
  ASSUME pc \in [Thread -> Step], call \in [Thread -> Calls \cup {NoCall}],
         NEW t \in Thread, NEW u \in Thread \ {t}, Begin(u) \/ Proceed(u)
  PROVE  pc'[t] = pc[t] /\ call'[t] = call[t]
<1>1. ASSUME NEW c, BeginCall(u, c)
      PROVE  pc'[t] = pc[t] /\ call'[t] = call[t]
  BY <1>1 DEF BeginCall, AwaitBody, AnswerAtOnce, AnswerFromMock, AnswerUnready, AskWatsonx,
              Accept, Reply, Goto
<1>2. CASE TestToken(u) \/ TestExpiration(u) \/ ReturnCachedToken(u) \/ IamIssuesToken(u)
           \/ StoreToken(u) \/ StoreExpiration(u)
  BY <1>2 DEF TestToken, TestExpiration, ReturnCachedToken, IamIssuesToken, StoreToken,
              StoreExpiration, Goto
<1>3. CASE IamFails(u) \/ Raises(u) \/ WatsonxDecides(u) \/ ChatFails(u)
  BY <1>3 DEF IamFails, Raises, IamRequestRaises, IamAnswersNoObject, ChatRaises,
              WatsonxDecides, ChatFails, Reply, Goto
<1> QED
  BY <1>1, <1>2, <1>3 DEF Begin, Proceed

-----------------------------------------------------------------------------
(* The stream's request does not change while the service works on it *)

\* The fallback mark is not part of what is asked.
LEMMA FallbackNotAsked ==
  ASSUME NEW ctx \in Context, NEW outcome, NEW mode
  PROVE  BuildAgentPolicyRequest(ContextAfter(ctx, outcome), mode)
           = BuildAgentPolicyRequest(ctx, mode)
BY DEF ContextAfter, Context, BuildAgentPolicyRequest

\* What the filter settles by itself it settles by the local policy.
LEMMA FailureDecision ==
  ASSUME NEW ctx
  PROVE  \/ FailureOutcome(ctx).decision = NoDecision
         \/ FailureOutcome(ctx).decision = LocalDecision(ctx, "local_after_failure")
BY DEF FailureOutcome, Outcome, Unavailable

\* Nothing has been told to a filter that has not decided.
LEMMA UndecidedUntold == Undecided /\ DecisionOrigin => told.source = "none"
<1>1. NoDecision.source = "none"
  BY DEF NoDecision
<1>2. DecidedByService => current_decision.source = "service"
  BY DEF DecidedByService
<1> QED
  BY <1>1, <1>2 DEF Undecided, DecisionOrigin

\* An answer that reaches the filter settles the request.
LEMMA AnswerSettles ==
  ASSUME IInv, NEW outcome, Answer(outcome)
  PROVE  /\ Undecided /\ stream # "fresh" /\ stream' = stream /\ config' = config
         /\ current_decision' = outcome.decision
         /\ AskedFor' = AskedFor
         /\ calling' = "send" => calling = "send"
<1>1. Sending \/ Waiting
  BY PhaseByCall DEF Answer, AnswerPossible
<1>2. /\ Undecided /\ pending_headers /\ ~destroyed /\ stream # "fresh"
      /\ context \in Context
  BY <1>1 DEF IInv, Flags, TypeOK, Sending, Waiting, Alive
<1>3. Finish(outcome) /\ config' = config /\ stream' = stream
  BY <1>2 DEF Answer
<1>4. context' = ContextAfter(context, outcome) /\ current_decision' = outcome.decision
  BY <1>3 DEF Finish, Settle
<1>5. calling' \in {calling, "sendLocalReply"}
  BY <1>3 DEF Finish
<1>6. AskedFor' = AskedFor
  BY <1>2, <1>3, <1>4, FallbackNotAsked DEF AskedFor
<1> QED
  BY <1>2, <1>3, <1>4, <1>5, <1>6

LEMMA FailureSettles ==
  ASSUME IInv, told.source = "none", told' = told,
         NEW outcome, Answer(outcome), outcome = FailureOutcome(context)
  PROVE  DecisionOrigin'
<1>1. current_decision' = outcome.decision /\ AskedFor' = AskedFor /\ config' = config
  BY AnswerSettles
<1>2. CASE outcome.decision = NoDecision
  BY <1>1, <1>2 DEF DecisionOrigin
<1>3. CASE outcome.decision = LocalDecision(context, "local_after_failure")
  BY <1>1, <1>3 DEF DecisionOrigin, DecidedByFilter, LocalDecision, AskedFor
<1> QED
  BY <1>2, <1>3, FailureDecision

\* A response that Envoy makes up is a failure.
LEMMA GatewayFails ==
  ASSUME NEW status \in {503, 504}, NEW ctx
  PROVE  ResponseOutcome(ctx, Gateway(status)) = FailureOutcome(ctx)
BY DEF ResponseOutcome, IsPolicyDecision, Gateway

\* So is an error of the service.
LEMMA ErrorFails ==
  ASSUME NEW said \in HttpAnswer, said.source = "none", NEW ctx
  PROVE  ResponseOutcome(ctx, ResponseOf(said)) = FailureOutcome(ctx)
BY DEF HttpAnswer, ErrorAnswer, OkAnswer, ResponseOutcome, IsPolicyDecision, ResponseOf,
       ServiceActionValue

\* A decision of the service is one the filter understands.
LEMMA VerdictUnderstood ==
  ASSUME NEW said \in HttpAnswer, said.source # "none", NEW ctx
  PROVE  ResponseOutcome(ctx, ResponseOf(said)).decision
           = [action |-> said.action, source |-> "service"]
<1>1. PICK action \in AllowedAction, source \in {"mock", "watsonx", "mock_fallback"} :
        said = OkAnswer(action, source)
  BY DEF HttpAnswer, ErrorAnswer
<1>2. IsPolicyDecision(ResponseOf(said)) /\ ResponseOf(said).action = said.action
  BY <1>1 DEF OkAnswer, ResponseOf, IsPolicyDecision, AllowedAction, ServiceActionValue
<1> QED
  BY <1>2 DEF ResponseOutcome, Outcome

-----------------------------------------------------------------------------
(* One lemma per kind of step *)

\* The parts of the invariant that are about both sides.
Travels == CallSent /\ CallTaken /\ DecisionOrigin

LEMMA LoopInvInit == LoopInit => LoopInv
<1> SUFFICES ASSUME LoopInit
             PROVE  LoopInv
  OBVIOUS
<1>1. IInv /\ AnswerInv
  BY InvInit, AnswerInit DEF LoopInit
<1>2. Travels
  BY DEF LoopInit, Init, NoAnswer, Travels, CallSent, CallTaken, DecisionOrigin
<1> QED
  BY <1>1, <1>2 DEF LoopInv, Travels

\* The call and the decision stay as long as nobody touches what they are about.
LEMMA TravelsStay ==
  ASSUME LoopInv, UNCHANGED <<config, context, current_decision, delivery, told>>,
         settings' = settings,
         pc'[StreamThread] = pc[StreamThread], call'[StreamThread] = call[StreamThread],
         calling' = "send" => calling = "send",
         stream' = "fresh" => stream = "fresh"
  PROVE  Travels'
<1>1. AskedFor' = AskedFor /\ PolicyServicePath' = PolicyServicePath
  BY DEF AskedFor, PolicyServicePath
<1>2. CallSent' /\ CallTaken'
  BY <1>1 DEF LoopInv, CallSent, CallTaken
<1>3. DecisionOrigin'
  BY <1>1 DEF LoopInv, DecisionOrigin, DecidedByFilter, DecidedByService
<1> QED
  BY <1>2, <1>3 DEF Travels

\* A request is read; it is the first step of its stream.
LEMMA TravelsDecodeHeaders ==
  ASSUME LoopInv, DecodeHeaders, UNCHANGED <<serverVars, delivery, told>>
  PROVE  Travels'
<1>1. stream = "fresh" /\ stream' # "fresh" /\ config' = config
  BY DEF DecodeHeaders, DecodeHeadersDisabled, DecodeHeadersLocally, DecodeHeadersRemotely,
         HeadersArrive
<1>2. delivery' = "none" /\ told'.source = "none" /\ Fresh /\ config \in Configs
  BY <1>1, PhaseByCall DEF LoopInv, CallSent, IInv, TypeOK
<1>3. CASE \E end_stream \in BOOLEAN : DecodeHeadersDisabled(end_stream)
  <2>1. current_decision' = NoDecision /\ calling' = "none"
    BY <1>2, <1>3 DEF DecodeHeadersDisabled, ReturnFromDecode, Fresh, Idle
  <2> QED
    BY <1>1, <1>2, <2>1 DEF Travels, CallSent, CallTaken, DecisionOrigin
<1>4. ASSUME NEW request \in Requests, NEW cluster \in Cluster, NEW end_stream \in BOOLEAN,
             DecodeHeadersLocally(request, end_stream, cluster)
      PROVE  Travels'
  <2> DEFINE ctx == ExtractPqcContext(request)
             outcome == IF config.has_policy_service
                        THEN FailureOutcome(ctx) ELSE Outcome(LocalDecision(ctx, "local"))
  <2>1. /\ Settle(ctx, outcome) /\ calling' = "none" /\ ctx \in Context
        /\ current_decision' = outcome.decision
    BY <1>2, <1>4, ExtractPqcContextType, RequestsAssumption
       DEF DecodeHeadersLocally, ReturnFromDecode, Fresh, Idle, Settle
  <2>2. AskedFor' = BuildAgentPolicyRequest(ctx, config.mode)
    <3> HIDE DEF ctx, outcome
    <3> QED
      BY <1>1, <2>1, FallbackNotAsked DEF Settle, AskedFor
  <2>3. \/ outcome.decision = NoDecision
        \/ \E source \in {"local", "local_after_failure"} :
             outcome.decision = LocalDecision(ctx, source)
    BY FailureDecision DEF Outcome
  <2>4. DecisionOrigin'
    <3> HIDE DEF ctx, outcome
    <3>1. CASE outcome.decision = NoDecision
      BY <1>2, <2>1, <3>1 DEF DecisionOrigin
    <3>2. CASE \E source \in {"local", "local_after_failure"} :
                 outcome.decision = LocalDecision(ctx, source)
      BY <1>1, <1>2, <2>1, <2>2, <3>2 DEF DecisionOrigin, DecidedByFilter, LocalDecision
    <3> QED
      BY <2>3, <3>1, <3>2
  <2> QED
    BY <1>1, <1>2, <2>1, <2>4 DEF Travels, CallSent, CallTaken
<1>5. ASSUME NEW request \in Requests, NEW end_stream \in BOOLEAN,
             DecodeHeadersRemotely(request, end_stream)
      PROVE  Travels'
  <2>1. current_decision' = NoDecision /\ context' = ExtractPqcContext(request)
    BY <1>5 DEF DecodeHeadersRemotely
  <2>2. AskedFor' \in FilterRequests
    BY <1>1, <1>2, <2>1, RequestsCovered DEF AskedFor
  <2> QED
    BY <1>1, <1>2, <2>1, <2>2 DEF Travels, CallSent, CallTaken, DecisionOrigin
<1> QED
  BY <1>3, <1>4, <1>5 DEF DecodeHeaders

\* Frames, the return of a local reply and the end of the stream leave it alone.
LEMMA TravelsFilterStep ==
  ASSUME LoopInv, FilterStep
  PROVE  Travels'
<1>1. CASE DecodeHeaders
  BY <1>1, TravelsDecodeHeaders DEF FilterStep
<1>2. CASE DecodeData \/ DecodeTrailers \/ ReturnFromLocalReply \/ OnDestroy
  <2>1. /\ UNCHANGED <<config, context, current_decision>>
        /\ calling' = "send" => calling = "send"
        /\ stream' = "fresh" => stream = "fresh"
    BY <1>2 DEF DecodeData, DecodeTrailers, FrameArrives, ReturnFromLocalReply, OnDestroy,
                filterVars
  <2> QED
    BY <2>1, TravelsStay DEF FilterStep, serverVars
<1> QED
  BY <1>1, <1>2 DEF FilterStep

\* The call is sent, or cannot be.
LEMMA TravelsSend ==
  ASSUME LoopInv, SendFails \/ SendCall
  PROVE  Travels'
<1>1. /\ calling = "send" /\ calling' = "none" /\ config' = config /\ stream' = stream
      /\ UNCHANGED <<serverVars, told>>
  BY DEF SendFails, SendCall, SendReturnsNull, SendReturnsRequest
<1>2. /\ delivery = "none" /\ AskedFor \in FilterRequests /\ stream # "fresh"
      /\ context \in Context
  BY <1>1, PhaseByCall
     DEF LoopInv, CallSent, Sending, AnsweredInline, Alive, IInv, TypeOK
<1>3. CASE SendCall
  <2>1. UNCHANGED <<context, current_decision>> /\ delivery' = "sent" /\ settings' = settings
    BY <1>3 DEF SendCall, SendReturnsRequest, serverVars
  <2>2. AskedFor' = AskedFor
    BY <1>1, <2>1 DEF AskedFor
  <2> QED
    BY <1>1, <1>2, <2>1, <2>2
       DEF LoopInv, Travels, CallSent, CallTaken, DecisionOrigin, DecidedByFilter,
           DecidedByService
<1>4. CASE SendFails /\ ~waiting_for_policy
  <2>1. UNCHANGED <<context, current_decision, delivery>>
    BY <1>4 DEF SendFails, SendReturnsNull
  <2> QED
    BY <1>1, <2>1, TravelsStay DEF serverVars
<1>5. CASE SendFails /\ waiting_for_policy
  <2>1. /\ Settle(context, FailureOutcome(context)) /\ delivery' = delivery
        /\ current_decision' = FailureOutcome(context).decision
    BY <1>5 DEF SendFails, SendReturnsNull, Settle
  <2>2. AskedFor' = AskedFor
    BY <1>1, <1>2, <2>1, FallbackNotAsked DEF Settle, AskedFor
  <2>3. told.source = "none"
    <3>1. Sending
      BY <1>1, <1>5, PhaseByCall DEF LoopInv, IInv, Flags, AnsweredInline
    <3> QED
      BY <3>1, UndecidedUntold DEF Sending, LoopInv
  <2>4. DecisionOrigin'
    <3>1. CASE FailureOutcome(context).decision = NoDecision
      BY <1>1, <2>1, <2>3, <3>1 DEF DecisionOrigin
    <3>2. CASE FailureOutcome(context).decision
                 = LocalDecision(context, "local_after_failure")
      BY <1>1, <2>1, <2>2, <2>3, <3>2
         DEF DecisionOrigin, DecidedByFilter, LocalDecision, AskedFor
    <3> QED
      BY <3>1, <3>2, FailureDecision
  <2> QED
    BY <1>1, <1>2, <2>1, <2>2, <2>4 DEF Travels, CallSent, CallTaken
<1> QED
  BY <1>3, <1>4, <1>5

\* No answer of the service comes in time.
LEMMA TravelsWithoutAnswer ==
  ASSUME LoopInv, ConnectionFails \/ TimerFires
  PROVE  Travels'
<1>1. PICK outcome :
        outcome = FailureOutcome(context) /\ Answer(outcome)
  BY GatewayFails DEF ConnectionFails, TimerFires, OnFailure
<1>2. UNCHANGED <<serverVars, delivery, told>>
  BY DEF ConnectionFails, TimerFires
<1>3. /\ Undecided /\ stream # "fresh" /\ stream' = stream /\ config' = config
      /\ AskedFor' = AskedFor
      /\ calling' = "send" => calling = "send"
  BY <1>1, AnswerSettles DEF LoopInv
<1>4. told.source = "none"
  BY <1>3, UndecidedUntold DEF LoopInv
<1>5. DecisionOrigin'
  BY <1>1, <1>2, <1>4, FailureSettles DEF LoopInv
<1>6. PolicyServicePath' = PolicyServicePath /\ pc' = pc /\ call' = call
  BY <1>2, <1>3 DEF PolicyServicePath, serverVars
<1> QED
  BY <1>2, <1>3, <1>5, <1>6 DEF LoopInv, Travels, CallSent, CallTaken

\* What the service told is what the client is told.
LEMMA TravelsDeliver ==
  ASSUME LoopInv, Deliver
  PROVE  Travels'
<1> DEFINE said == answer[StreamThread]
           outcome == ResponseOutcome(context, ResponseOf(said))
<1>1. /\ Answer(outcome) /\ told' = said /\ delivery' = "delivered" /\ delivery = "taken"
      /\ UNCHANGED serverVars
  BY DEF Deliver
<1>2. said \in HttpAnswer
  BY AnswerIsResponse DEF LoopInv, Deliver
<1>3. /\ Undecided /\ stream # "fresh" /\ stream' = stream /\ config' = config
      /\ current_decision' = outcome.decision
      /\ AskedFor' = AskedFor
      /\ calling' = "send" => calling = "send"
  <2> HIDE DEF outcome
  <2> QED
    BY <1>1, AnswerSettles DEF LoopInv
<1>4. calling' # "send" /\ AskedFor \in FilterRequests
  <2>1. calling # "send"
    BY <1>1 DEF LoopInv, CallSent
  <2> QED
    BY <1>1, <1>3, <2>1 DEF LoopInv, CallSent
<1>5. settings' = settings
  BY <1>1 DEF serverVars
<1>6. CASE said.source = "none"
  <2>1. outcome = FailureOutcome(context)
    BY <1>2, <1>6, ErrorFails
  <2>2. \/ outcome.decision = NoDecision
        \/ outcome.decision = LocalDecision(context, "local_after_failure")
    BY <2>1, FailureDecision
  <2>3. DecisionOrigin'
    <3> HIDE DEF outcome, said
    <3>1. CASE outcome.decision = NoDecision
      BY <1>1, <1>3, <1>6, <3>1 DEF DecisionOrigin
    <3>2. CASE outcome.decision = LocalDecision(context, "local_after_failure")
      BY <1>1, <1>3, <1>6, <3>2 DEF DecisionOrigin, DecidedByFilter, LocalDecision, AskedFor
    <3> QED
      BY <2>2, <3>1, <3>2
  <2> QED
    BY <1>1, <1>3, <1>4, <2>3 DEF Travels, CallSent, CallTaken
<1>7. CASE said.source # "none"
  <2>1. current_decision' = [action |-> said.action, source |-> "service"]
    BY <1>2, <1>3, <1>7, VerdictUnderstood
  <2>2. /\ AnswerSound(StreamThread) /\ pc[StreamThread] = "done"
        /\ call[StreamThread] = BuildPolicyServiceRequest(AskedFor, PolicyServicePath)
    BY <1>1, StreamThreadAssumption DEF LoopInv, AnswerInv, CallTaken, Deliver
  <2>3. said \in Verdicts
    BY <1>7, <2>2, ImmediateAnswerType DEF AnswerSound
  <2>4. said.source \in {"mock", "mock_fallback"}
          => MockMay(StreamThread) /\ said.action = ModeDefault(AskedFor)
    BY <1>4, <2>2, MockDefault DEF AnswerSound
  <2>5. ModeDefault(AskedFor)' = ModeDefault(AskedFor) /\ Verdicts' = Verdicts
    BY <1>3 DEF ModeDefault
  <2>6. DecisionOrigin'
    <3> HIDE DEF said
    <3>1. said.source = "mock" => settings.decision_mode = "mock"
      BY <2>4 DEF MockMay, said
    <3>2. said.source = "mock_fallback" => settings.fail_open
      BY <2>4 DEF MockMay, said
    <3> QED
      BY <1>1, <1>5, <1>7, <2>1, <2>3, <2>4, <2>5, <3>1, <3>2
         DEF DecisionOrigin, DecidedByService
  <2> QED
    BY <1>1, <1>3, <1>4, <2>6 DEF Travels, CallSent, CallTaken
<1> QED
  BY <1>6, <1>7

\* The service takes the call, works on it or on others, or is restarted.
LEMMA TravelsService ==
  ASSUME LoopInv, TakeCall \/ WorkOnCall \/ ServiceStep \/ RestartService
  PROVE  Travels'
<1>1. UNCHANGED <<vars, told>>
  BY DEF TakeCall, WorkOnCall, ServiceStep, RestartService
<1>2. /\ UNCHANGED <<config, context, current_decision, calling, stream, told>>
      /\ AskedFor' = AskedFor /\ PolicyServicePath' = PolicyServicePath
  BY <1>1 DEF vars, filterVars, AskedFor, PolicyServicePath
<1>3. settings' = settings
  <2>1. ASSUME NEW t \in Thread, Begin(t) \/ Proceed(t)
        PROVE  settings' = settings
    BY <2>1, StepSettings
  <2> QED
    BY <2>1, StreamThreadAssumption, StepSettings
       DEF TakeCall, WorkOnCall, ServiceStep, RestartService, Tick, ServiceRestarts
<1>4. DecisionOrigin'
  BY <1>2, <1>3 DEF LoopInv, DecisionOrigin, DecidedByFilter, DecidedByService
<1>5. delivery' # "none" => delivery # "none"
  BY DEF TakeCall, WorkOnCall, ServiceStep, RestartService
<1>6. CallSent'
  BY <1>2, <1>5 DEF LoopInv, CallSent
<1>7. CallTaken'
  <2> USE StreamThreadAssumption
  <2>1. CASE TakeCall
    BY <1>2, <2>1, BeginTakes DEF TakeCall, LoopInv, AnswerInv, CallTaken
  <2>2. CASE WorkOnCall
    BY <1>2, <2>2, ProceedKeeps DEF WorkOnCall, LoopInv, AnswerInv, CallTaken
  <2>3. CASE ServiceStep
    <3>1. /\ delivery' = delivery /\ pc'[StreamThread] = pc[StreamThread]
          /\ call'[StreamThread] = call[StreamThread]
      BY <2>3, StepOfOther DEF ServiceStep, Tick, LoopInv, AnswerInv
    <3> QED
      BY <1>2, <3>1 DEF LoopInv, CallTaken
  <2>4. CASE RestartService
    BY <2>4 DEF RestartService, CallTaken
  <2> QED
    BY <2>1, <2>2, <2>3, <2>4
<1> QED
  BY <1>4, <1>6, <1>7 DEF Travels

LEMMA LoopInvNext == LoopInv /\ [LoopNext]_loopVars => LoopInv'
<1> SUFFICES ASSUME LoopInv, [LoopNext]_loopVars
             PROVE  LoopInv'
  OBVIOUS
<1>1. IInv'
  BY FilterSide, InvNext DEF LoopInv
<1>2. AnswerInv'
  BY ServerSide, AnswerNext DEF LoopInv, IInv, TypeOK
<1>3. CASE UNCHANGED loopVars
  <2>1. /\ UNCHANGED <<config, context, current_decision, delivery, told, calling, stream>>
        /\ UNCHANGED <<settings, pc, call>>
    BY <1>3 DEF loopVars, vars, filterVars, serverVars
  <2> QED
    BY <1>1, <1>2, <2>1, TravelsStay DEF LoopInv, Travels
<1>4. CASE LoopNext
  <2>1. Travels'
    BY <1>4, TravelsFilterStep, TravelsSend, TravelsService, TravelsDeliver,
       TravelsWithoutAnswer DEF LoopNext
  <2> QED
    BY <1>1, <1>2, <2>1 DEF LoopInv, Travels
<1> QED
  BY <1>3, <1>4

\* The two sides and what travels between them, in all reachable states.
THEOREM LoopInvariant == LoopSpec => []LoopInv
BY LoopInvInit, LoopInvNext, PTL DEF LoopSpec

-----------------------------------------------------------------------------
(* What follows *)

\* With this service behind it the filter behaves as PqcFilter says, so that every
\* theorem about PqcFilter holds of the two together.
THEOREM LoopImplementsFilter == LoopSpec => Spec
<1>1. LoopInit => Init
  BY DEF LoopInit
<1>2. LoopInv /\ [LoopNext]_loopVars => [Next]_vars
  BY FilterSide DEF LoopInv
<1> QED
  BY <1>1, <1>2, LoopInvariant, PTL DEF LoopSpec, Spec

\* Asked by this filter the service behaves as PolicyServer says.
THEOREM LoopImplementsServer == LoopSpec => ServerSpec
<1>1. LoopInit => ServerInit
  BY DEF LoopInit
<1>2. LoopInv /\ [LoopNext]_loopVars => [ServerNext]_serverVars
  BY ServerSide DEF LoopInv, IInv, TypeOK
<1> QED
  BY <1>1, <1>2, LoopInvariant, PTL DEF LoopSpec, ServerSpec

\* The filter takes every decision of the service as it is, and none for one of the
\* service that is not.
THEOREM AnswersAreEnforced == LoopSpec => []AnswerEnforced
<1>1. LoopInv => AnswerEnforced
  <2>1. NoDecision.source = "none"
    BY DEF NoDecision
  <2> QED
    BY <2>1 DEF LoopInv, DecisionOrigin, DecidedByFilter, DecidedByService, AnswerEnforced
<1> QED
  BY <1>1, LoopInvariant, PTL

\* Where no policy speaks, mock, fallback and filter decide alike.
THEOREM DecidersAgree == LoopSpec => []WhoeverDecides
<1>1. LoopInv => WhoeverDecides
  <2> SUFFICES ASSUME LoopInv, current_decision # NoDecision, told.source # "watsonx",
                      Evaluate(config.policy, AskedFor.service_name, AskedFor.pqc_capable,
                               AskedFor.request_path) = "unspecified"
               PROVE  current_decision.action = ModeDefault(AskedFor)
    BY DEF WhoeverDecides
  <2>1. CASE told.source = "none"
    BY <2>1 DEF LoopInv, DecisionOrigin, DecidedByFilter, LocalEvaluate
  <2>2. CASE told.source # "none"
    BY <2>2 DEF LoopInv, DecisionOrigin, DecidedByService, Verdicts, OkAnswer, ErrorAnswer
  <2> QED
    BY <2>1, <2>2
<1> QED
  BY <1>1, LoopInvariant, PTL

\* What goes upstream keeps to the filter's mode, unless Watsonx has decided it.
THEOREM ModeIsKept == LoopSpec => []ModeKeptEndToEnd
<1>1. LoopInv => ModeKeptEndToEnd
  <2> SUFFICES ASSUME LoopInv, IsEnabled, forwarded # << >>, told.source # "watsonx"
               PROVE  /\ config.mode = "pqc_only"
                           => context.pqc_capable /\ ~context.fallback
                      /\ config.mode = "classical"
                           => current_decision.action # "prefer_hybrid"
    BY DEF ModeKeptEndToEnd
  <2>1. /\ current_decision.action \notin {"none", "deny"}
        /\ context.fallback = (current_decision.action = "fallback")
    BY InvImpliesForwarded DEF LoopInv, ForwardedAsDecided
  <2>2. CASE told.source = "none"
    <3>1. NoDecision.action = "none"
      BY DEF NoDecision
    <3> QED
      BY <2>1, <2>2, <3>1, InvImpliesMode
         DEF LoopInv, DecisionOrigin, DecidedByFilter, LocalDecisionsHonourMode
  <2>3. CASE told.source # "none"
    <3>1. current_decision.action = ModeDefault(AskedFor)
      BY <2>3 DEF LoopInv, DecisionOrigin, DecidedByService, Verdicts, OkAnswer,
                  ErrorAnswer
    <3>2. AskedFor.mode = config.mode /\ AskedFor.pqc_capable = context.pqc_capable
      BY DEF AskedFor, BuildAgentPolicyRequest
    <3>3. context.pqc_capable \in BOOLEAN
      BY DEF LoopInv, IInv, TypeOK, Context
    <3> QED
      BY <2>1, <3>1, <3>2, <3>3 DEF ModeDefault
  <2> QED
    BY <2>2, <2>3
<1> QED
  BY <1>1, LoopInvariant, PTL

\* Two sides that fail closed let through what Watsonx has decided.
THEOREM FailClosedIsKept == LoopSpec => []FailClosedEndToEnd
<1>1. LoopInv => FailClosedEndToEnd
  <2> SUFFICES ASSUME LoopInv, IsEnabled, config.has_policy_service,
                      config.fail_open = "false", settings.decision_mode = "live",
                      ~settings.fail_open, forwarded # << >>
               PROVE  told.source = "watsonx"
    BY DEF FailClosedEndToEnd
  <2>1. current_decision.source = "service"
    BY InvImpliesFailureMode DEF LoopInv, FailureModeRespected
  <2>2. DecidedByService
    <3>1. NoDecision.source = "none"
      BY DEF NoDecision
    <3> QED
      BY <2>1, <3>1 DEF LoopInv, DecisionOrigin, DecidedByFilter, DecidedByService, Verdicts,
                        ErrorAnswer, OkAnswer
  <2>3. told.source # "none"
    BY <2>1, <2>2 DEF LoopInv, DecisionOrigin, DecidedByFilter, NoDecision
  <2> QED
    BY <2>2, <2>3 DEF DecidedByService, Verdicts, OkAnswer, ErrorAnswer
<1> QED
  BY <1>1, LoopInvariant, PTL

\* The service answers the filter's calls, like any others, by themselves.
THEOREM LoopServesByItself == LoopSpec => ImplementsVerdictService
BY LoopImplementsServer, CallsAnsweredByThemselves, PTL

\* And the two together are to the request what the filter alone promises.
THEOREM LoopIsAGate == LoopSpec => ImplementsGate
BY LoopImplementsFilter, FilterIsAGate, PTL

-----------------------------------------------------------------------------
(* The answer is one to the question *)

\* What a request is asked about stays from its first frame on.
LEMMA AskedForStays ==
  ASSUME LoopInv, [LoopNext]_loopVars, stream # "fresh"
  PROVE  AskedFor' = AskedFor /\ PolicyServicePath' = PolicyServicePath /\ stream' # "fresh"
<1>1. CASE FilterStep
  <2>1. DecodeData \/ DecodeTrailers \/ ReturnFromLocalReply \/ OnDestroy
    BY <1>1 DEF FilterStep, DecodeHeaders, DecodeHeadersDisabled, DecodeHeadersLocally,
                DecodeHeadersRemotely, HeadersArrive
  <2>2. UNCHANGED <<config, context>> /\ stream' # "fresh"
    BY <2>1 DEF DecodeData, DecodeTrailers, FrameArrives, ReturnFromLocalReply, OnDestroy,
                filterVars
  <2> QED
    BY <2>2 DEF AskedFor, PolicyServicePath
<1>2. CASE SendFails \/ SendCall
  <2>1. /\ context \in Context /\ config' = config /\ stream' = stream
        /\ context' = context \/ \E outcome : context' = ContextAfter(context, outcome)
    BY <1>2 DEF SendFails, SendCall, SendReturnsNull, SendReturnsRequest, Settle, LoopInv,
                IInv, TypeOK
  <2> QED
    BY <2>1, FallbackNotAsked DEF AskedFor, PolicyServicePath
<1>3. CASE Deliver \/ ConnectionFails \/ TimerFires
  <2>1. PICK outcome : Answer(outcome)
    BY <1>3 DEF Deliver, ConnectionFails, TimerFires, OnFailure
  <2> QED
    BY <2>1, AnswerSettles DEF LoopInv, PolicyServicePath
<1>4. CASE TakeCall \/ WorkOnCall \/ ServiceStep \/ RestartService \/ UNCHANGED loopVars
  <2>1. UNCHANGED vars
    BY <1>4 DEF TakeCall, WorkOnCall, ServiceStep, RestartService, loopVars
  <2> QED
    BY <2>1 DEF vars, filterVars, AskedFor, PolicyServicePath
<1> QED
  BY <1>1, <1>2, <1>3, <1>4 DEF LoopNext

ToldInv == /\ ToldWhatWasAsked
           /\ stream = "fresh" => told = NoAnswer

LEMMA ToldNext == LoopInv /\ SaidPermitted /\ ToldInv /\ [LoopNext]_loopVars => ToldInv'
<1> SUFFICES ASSUME LoopInv, SaidPermitted, ToldInv, [LoopNext]_loopVars
             PROVE  ToldInv'
  OBVIOUS
<1>1. settings' = settings
  BY ServerSide, SettingsStay DEF LoopInv, IInv, TypeOK
<1>2. CASE Deliver
  <2>1. /\ told' = answer[StreamThread] /\ delivery = "taken"
        /\ pc[StreamThread] = "done" /\ stream # "fresh"
    BY <1>2 DEF Deliver, LoopInv, CallSent
  <2>2. /\ call[StreamThread] = BuildPolicyServiceRequest(AskedFor, PolicyServicePath)
        /\ AskedBy[StreamThread] = call[StreamThread]
        /\ SaidTo[StreamThread] = answer[StreamThread]
    BY <2>1, StreamThreadAssumption DEF LoopInv, CallTaken, AskedBy, SaidTo
  <2>3. told' # NoAnswer
          => told' \in MayAnswer(BuildPolicyServiceRequest(AskedFor, PolicyServicePath),
                                 settings)
    BY <2>1, <2>2, StreamThreadAssumption DEF SaidPermitted
  <2> QED
    BY <1>1, <2>1, <2>3, AskedForStays DEF ToldInv, ToldWhatWasAsked
<1>3. CASE ~Deliver
  <2>1. told' = told
    BY <1>3 DEF LoopNext, FilterStep, SendFails, SendCall, TakeCall, WorkOnCall,
       ConnectionFails, TimerFires, ServiceStep, RestartService, loopVars
  <2>2. CASE stream = "fresh"
    BY <2>1, <2>2 DEF ToldInv, ToldWhatWasAsked
  <2>3. CASE stream # "fresh"
    BY <1>1, <2>1, <2>3, AskedForStays DEF ToldInv, ToldWhatWasAsked
  <2> QED
    BY <2>2, <2>3
<1> QED
  BY <1>2, <1>3

\* Nothing the filter is told is an answer to anything but the request it holds.
THEOREM ToldAsAsked == LoopSpec => []ToldWhatWasAsked
<1>1. LoopInit => ToldInv
  BY DEF LoopInit, ToldInv, ToldWhatWasAsked
<1>2. ToldInv => ToldWhatWasAsked
  BY DEF ToldInv
<1> QED
  BY <1>1, <1>2, ToldNext, LoopInvariant, LoopImplementsServer, OnlyPermittedSaid, PTL
     DEF LoopSpec

\* Whose word it takes to break the promise of PQC_ONLY.
PqcOnlyBrokenByWatsonx ==
  /\ IsEnabled /\ config.mode = "pqc_only" /\ forwarded # << >>
  /\ ~(context.pqc_capable /\ ~context.fallback)
  => told.source = "watsonx" /\ settings.decision_mode = "live"

\* With the service behind the filter, only what Watsonx itself has said breaks the
\* promise of PQC_ONLY: never the mock, the fallback for Watsonx or a failure.  With
\* a service in mock mode the promise is kept.
THEOREM PqcOnlyKeptByMock == LoopSpec => []PqcOnlyBrokenByWatsonx
<1>1. AnswerInv /\ ToldWhatWasAsked /\ ModeKeptEndToEnd => PqcOnlyBrokenByWatsonx
  <2> SUFFICES ASSUME AnswerInv, ToldWhatWasAsked, ModeKeptEndToEnd, IsEnabled,
                      config.mode = "pqc_only", forwarded # << >>,
                      ~(context.pqc_capable /\ ~context.fallback)
               PROVE  told.source = "watsonx" /\ settings.decision_mode = "live"
    BY DEF PqcOnlyBrokenByWatsonx
  <2>1. told.source = "watsonx"
    BY DEF ModeKeptEndToEnd
  <2>2. told # NoAnswer
    BY <2>1 DEF NoAnswer
  <2>3. settings.decision_mode \in {"mock", "live"}
    BY LoadedModes DEF AnswerInv
  <2>4. settings.decision_mode # "mock"
    BY <2>1, <2>2, ImmediateAnswerType DEF ToldWhatWasAsked, MayAnswer, OkAnswer
  <2> QED
    BY <2>1, <2>3, <2>4
<1>2. LoopInv => AnswerInv
  BY DEF LoopInv
<1> QED
  BY <1>1, <1>2, LoopInvariant, ToldAsAsked, ModeIsKept, PTL

-----------------------------------------------------------------------------
(* The stream is not kept waiting *)

\* The filter waits only for a call that is on its way, and the service never for
\* the body of one.
UnderWay == /\ InFlight => delivery \in {"sent", "taken", "lost"}
            /\ delivery = "taken" => pc[StreamThread] \notin {"idle", "reading"}

LEMMA BeginUnderWay ==
  ASSUME pc \in [Thread -> Step], NEW t \in Thread, NEW c, ~Withheld(c), BeginCall(t, c)
  PROVE  pc'[t] \notin {"idle", "reading"}
BY DEF BeginCall, AwaitBody, AnswerAtOnce, AnswerFromMock, AnswerUnready, AskWatsonx,
       Accept, Reply, Goto

LEMMA ProceedUnderWay ==
  ASSUME pc \in [Thread -> Step], NEW t \in Thread, Proceed(t)
  PROVE  pc'[t] \notin {"idle", "reading"}
BY DEF Proceed, TestToken, TestExpiration, ReturnCachedToken, IamIssuesToken, StoreToken,
       StoreExpiration, IamFails, Raises, IamRequestRaises, IamAnswersNoObject,
       ChatRaises, WatsonxDecides, ChatFails, Reply, Goto

\* The filter sends a call with its body.
LEMMA FilterSendsBody ==
  ASSUME NEW request, NEW path
  PROVE  ~Withheld(BuildPolicyServiceRequest(request, path))
BY DEF Withheld, BuildPolicyServiceRequest

\* Nothing but send starts a wait for the service.
LEMMA WaitStarts ==
  ASSUME IInv, [Next]_vars, InFlight', calling # "send"
  PROVE  InFlight
<1>1. CASE DecodeHeaders
  BY <1>1, PhaseByCall DEF InFlight, IInv, DecodeHeaders, DecodeHeadersDisabled,
     DecodeHeadersLocally, DecodeHeadersRemotely, HeadersArrive, ReturnFromDecode,
     ClearPendingPolicyRequestState, Fresh, Idle
<1>2. CASE SendReturnsRequest \/ SendReturnsNull
  BY <1>2 DEF SendReturnsRequest, SendReturnsNull
<1>3. CASE OnSuccess \/ OnFailure
  BY <1>3 DEF OnSuccess, OnFailure, Answer, Finish, ClearPendingPolicyRequestState, InFlight
<1>4. CASE DecodeData \/ DecodeTrailers \/ UNCHANGED vars
  BY <1>4 DEF DecodeData, DecodeTrailers, FrameArrives, vars, InFlight
<1>5. CASE ReturnFromLocalReply
  <2>1. ~active_policy_request /\ asyncRequest = "answered"
    BY <1>5, PhaseByCall DEF ReturnFromLocalReply, Replying
  <2> QED
    BY <1>5, <2>1 DEF ReturnFromLocalReply, ClearPendingPolicyRequestState, InFlight
<1>6. CASE OnDestroy
  BY <1>6 DEF OnDestroy, ClearPendingPolicyRequestState, InFlight
<1> QED
  BY <1>1, <1>2, <1>3, <1>4, <1>5, <1>6 DEF Next

\* And send starts one by sending the call.
LEMMA SendStarts ==
  ASSUME LoopInv, [LoopNext]_loopVars, InFlight', calling = "send"
  PROVE  SendCall
<1>1. CASE FilterStep
  BY <1>1 DEF FilterStep, DecodeHeaders, DecodeHeadersDisabled, DecodeHeadersLocally,
     DecodeHeadersRemotely, HeadersArrive, DecodeData, DecodeTrailers, FrameArrives,
     ReturnFromLocalReply, OnDestroy
<1>2. CASE SendFails
  BY <1>2 DEF SendFails, SendReturnsNull, ClearPendingPolicyRequestState, InFlight
<1>3. CASE TakeCall \/ WorkOnCall \/ ServiceStep \/ RestartService \/ UNCHANGED loopVars
  BY <1>3 DEF TakeCall, WorkOnCall, ServiceStep, RestartService, loopVars, vars, InFlight
<1>4. CASE Deliver \/ ConnectionFails \/ TimerFires
  BY <1>4 DEF Deliver, ConnectionFails, TimerFires, OnFailure, Answer, Finish, InFlight
<1> QED
  BY <1>1, <1>2, <1>3, <1>4 DEF LoopNext

LEMMA UnderWayInit == LoopInit => UnderWay
BY DEF LoopInit, Init, UnderWay, InFlight

LEMMA UnderWayNext == LoopInv /\ UnderWay /\ [LoopNext]_loopVars => UnderWay'
<1> SUFFICES ASSUME LoopInv, UnderWay, [LoopNext]_loopVars
             PROVE  UnderWay'
  OBVIOUS
<1> USE StreamThreadAssumption
<1>1. pc \in [Thread -> Step] /\ call \in [Thread -> Calls \cup {NoCall}]
  BY DEF LoopInv, AnswerInv
<1>2. InFlight' => delivery' \in {"sent", "taken", "lost"}
  <2>1. CASE calling = "send"
    BY <2>1, SendStarts DEF SendCall
  <2>2. CASE calling # "send"
    <3>1. InFlight' => InFlight
      BY <2>2, FilterSide, WaitStarts DEF LoopInv
    <3>2. /\ delivery' # delivery => delivery' \in {"sent", "taken", "lost"} \/ Deliver
          /\ Deliver => ~InFlight'
      BY DEF LoopNext, FilterStep, SendFails, SendCall, TakeCall, WorkOnCall, Deliver,
             ConnectionFails, TimerFires, ServiceStep, RestartService, loopVars, Answer,
             Finish, ClearPendingPolicyRequestState, InFlight
    <3> QED
      BY <3>1, <3>2 DEF UnderWay
  <2> QED
    BY <2>1, <2>2
<1>3. delivery' = "taken" => pc'[StreamThread] \notin {"idle", "reading"}
  <2>1. CASE TakeCall
    BY <1>1, <2>1, BeginUnderWay, FilterSendsBody DEF TakeCall
  <2>2. CASE WorkOnCall
    BY <1>1, <2>2, ProceedUnderWay DEF WorkOnCall
  <2>3. CASE ServiceStep
    BY <1>1, <2>3, StepOfOther DEF ServiceStep, Tick, UnderWay
  <2>4. CASE RestartService \/ SendCall \/ Deliver
    BY <2>4 DEF RestartService, SendCall, Deliver
  <2>5. CASE FilterStep \/ SendFails \/ ConnectionFails \/ TimerFires \/ UNCHANGED loopVars
    BY <2>5 DEF FilterStep, SendFails, ConnectionFails, TimerFires, loopVars, serverVars,
                UnderWay
  <2> QED
    BY <2>1, <2>2, <2>3, <2>4, <2>5 DEF LoopNext
<1> QED
  BY <1>2, <1>3 DEF UnderWay

\* Where the stream's call is, while the filter waits for it.
OnTheWay == InFlight /\ delivery = "sent"

Worked == InFlight /\ delivery = "taken" /\ InCall(StreamThread)

Answered == InFlight /\ delivery = "taken" /\ pc[StreamThread] = "done"

Lost == InFlight /\ delivery = "lost"

LEMMA WaitIsSomewhere ==
  ASSUME LoopInv, UnderWay, InFlight
  PROVE  OnTheWay \/ Worked \/ Answered \/ Lost
BY DEF UnderWay, OnTheWay, Worked, Answered, Lost, InCall

THEOREM LoopUnderWay == LoopSpec => []UnderWay
BY UnderWayInit, UnderWayNext, LoopInvariant, PTL DEF LoopSpec

\* A call that is sent, taken, answered or lost does not go back on its way.
LEMMA CallMovesOn ==
  ASSUME LoopInv, UnderWay, [LoopNext]_loopVars, InFlight
  PROVE  /\ delivery # "sent" => delivery' # "sent"
         /\ delivery = "lost" => delivery' # "taken"
         /\ delivery = "taken" /\ delivery' = "taken" /\ pc[StreamThread] = "done"
              => pc'[StreamThread] = "done"
<1> USE StreamThreadAssumption
<1>1. calling = "none" /\ pc \in [Thread -> Step] /\ call \in [Thread -> Calls \cup {NoCall}]
  BY DEF InFlight, LoopInv, AnswerInv
<1>2. CASE FilterStep \/ SendFails \/ SendCall
  BY <1>1, <1>2 DEF FilterStep, SendFails, SendCall, SendReturnsRequest, serverVars
<1>3. CASE TakeCall
  BY <1>3 DEF TakeCall
<1>4. CASE WorkOnCall
  BY <1>4 DEF WorkOnCall, Proceed, TestToken, TestExpiration, ReturnCachedToken,
              IamIssuesToken, StoreToken, StoreExpiration, IamFails, Raises,
              IamRequestRaises, IamAnswersNoObject, ChatRaises, WatsonxDecides, ChatFails
<1>5. CASE Deliver \/ ConnectionFails \/ TimerFires \/ UNCHANGED loopVars
  BY <1>5 DEF Deliver, ConnectionFails, TimerFires, serverVars, loopVars
<1>6. CASE ServiceStep
  BY <1>1, <1>6, StepOfOther DEF ServiceStep, Tick
<1>7. CASE RestartService
  BY <1>7 DEF RestartService
<1> QED
  BY <1>2, <1>3, <1>4, <1>5, <1>6, <1>7 DEF LoopNext

\* An answer, whoever gives it, is the last the filter waits for.
LEMMA AnswerEndsWait ==
  ASSUME LoopInv, InFlight, [LoopNext]_loopVars, NEW outcome, Answer(outcome)
  PROVE  Resolved'
<1>1. ~InFlight'
  BY DEF Answer, Finish, ClearPendingPolicyRequestState, InFlight
<1> QED
  BY <1>1, FilterSide, InFlightUntilResolved DEF LoopInv

\* From wherever the call is, it moves on or the wait is over.
LEMMA WaitMovesOn ==
  ASSUME LoopInv, UnderWay, InFlight, [LoopNext]_loopVars
  PROVE  /\ OnTheWay => OnTheWay' \/ Worked' \/ Answered' \/ Lost' \/ Resolved'
         /\ Worked   => Worked' \/ Answered' \/ Lost' \/ Resolved'
         /\ Answered => Answered' \/ Lost' \/ Resolved'
         /\ Lost     => Lost' \/ Resolved'
<1>1. InFlight' \/ Resolved'
  BY FilterSide, InFlightUntilResolved DEF LoopInv
<1>2. UnderWay'
  BY UnderWayNext
<1>3. InFlight' /\ UnderWay' => OnTheWay' \/ Worked' \/ Answered' \/ Lost'
  BY DEF UnderWay, OnTheWay, Worked, Answered, Lost, InCall
<1>4. Worked \/ Answered \/ Lost => ~OnTheWay'
  BY CallMovesOn DEF Worked, Answered, Lost, OnTheWay
<1>5. Answered => ~Worked'
  BY CallMovesOn DEF Answered, Worked, InCall
<1>6. Lost => ~Worked' /\ ~Answered'
  BY CallMovesOn DEF Lost, Worked, Answered
<1> QED
  BY <1>1, <1>2, <1>3, <1>4, <1>5, <1>6

\* Every call is answered, also with the filter for one of the clients.
THEOREM LoopAnswersCalls == FairLoopSpec /\ []LoopCanProceed => CallsAnswered
<1>1. LoopCanProceed => CallsCanProceed
  BY DEF LoopCanProceed
<1> QED
  BY <1>1, LoopImplementsServer, EveryCallEnds, PTL DEF FairLoopSpec, LoopFairness

\* Frames that are held back are released, answered or abandoned without a timer,
\* however many other clients the service has and however often it is restarted.
THEOREM HeldFramesAreAnswered ==
  FairLoopSpec /\ []LoopCanProceed => HeldFramesAnswered
<1> DEFINE I == LoopInv /\ UnderWay
           N == [LoopNext]_loopVars
<1>1. I => InSend \/ OnTheWay \/ Worked \/ Answered \/ Lost \/ Resolved
  BY WaitOrResolved, WaitIsSomewhere DEF LoopInv
<1>2. I /\ N =>
        /\ OnTheWay => OnTheWay' \/ Worked' \/ Answered' \/ Lost' \/ Resolved'
        /\ Worked   => Worked' \/ Answered' \/ Lost' \/ Resolved'
        /\ Answered => Answered' \/ Lost' \/ Resolved'
        /\ Lost     => Lost' \/ Resolved'
  BY WaitMovesOn DEF OnTheWay, Worked, Answered, Lost
<1>3. <<FinishSend>>_loopVars => ~InSend'
  BY DEF FinishSend, SendFails, SendCall, SendReturnsNull, SendReturnsRequest, InSend
<1>4. <<TakeWantedCall>>_loopVars => ~OnTheWay'
  BY DEF TakeWantedCall, TakeCall, OnTheWay
<1>5. I /\ Answered /\ <<Deliver>>_loopVars => Resolved'
  <2>1. Deliver => \E outcome : Answer(outcome)
    BY DEF Deliver
  <2> QED
    BY <2>1, AnswerEndsWait DEF Answered, LoopNext
<1>6. I /\ Lost /\ <<BreakLostConnection>>_loopVars => Resolved'
  <2>1. BreakLostConnection => \E outcome : Answer(outcome)
    BY DEF BreakLostConnection, ConnectionFails, OnFailure
  <2> QED
    BY <2>1, AnswerEndsWait DEF Lost, LoopNext, BreakLostConnection
<1>7. LoopCanProceed =>
        /\ InSend   => ENABLED <<FinishSend>>_loopVars
        /\ OnTheWay => ENABLED <<TakeWantedCall>>_loopVars
        /\ Answered => ENABLED <<Deliver>>_loopVars
        /\ Lost     => ENABLED <<BreakLostConnection>>_loopVars
  BY DEF LoopCanProceed, InSend, InFlight, OnTheWay, Answered, Lost
<1>8. Worked => InCall(StreamThread)
  BY DEF Worked
<1>9. LoopSpec /\ ServerFairness /\ []LoopCanProceed => CallEnds(StreamThread)
  <2>1. LoopCanProceed => CallsCanProceed
    BY DEF LoopCanProceed
  <2>2. ServerSpec /\ ServerFairness /\ []CallsCanProceed => CallEnds(StreamThread)
    BY OneCallEnds, StreamThreadAssumption
  <2> QED
    BY <2>1, <2>2, LoopImplementsServer, PTL
<1>10. Resolved <=> (held = << >> \/ reply # << >> \/ stream = "gone")
  BY DEF Resolved
<1> QED
  BY <1>1, <1>2, <1>3, <1>4, <1>5, <1>6, <1>7, <1>8, <1>9, <1>10,
     LoopInvariant, LoopUnderWay, PTL
     DEF LoopSpec, FairLoopSpec, LoopFairness, HeldFramesAnswered, CallEnds

-----------------------------------------------------------------------------
(* The two promises, kept to the end *)

\* With the filter for one of its clients, the service still keeps its whole promise:
\* each call is answered by itself, and in the end.
THEOREM LoopServesToTheEnd == FairLoopSpec /\ []LoopCanProceed => Service!LiveSpec
<1>1. LoopCanProceed => CallsCanProceed
  BY DEF LoopCanProceed
<1> QED
  BY <1>1, LoopImplementsServer, CallsAnsweredInTheEnd, PTL
     DEF FairLoopSpec, LoopFairness

\* And with the service behind it the filter keeps the whole promise of the gate:
\* every request passes whole, is rejected or ends, and no timer is needed for that.
THEOREM LoopIsALiveGate == FairLoopSpec /\ []LoopCanProceed => Gate!LiveSpec
<1>1. FairLoopSpec /\ []LoopCanProceed => HeldEnds
  BY HeldFramesAreAnswered DEF HeldFramesAnswered, HeldEnds
<1> QED
  BY <1>1, HeldSettles, LoopImplementsFilter, FilterIsAGate, PTL
     DEF FairLoopSpec, ImplementsGate, Gate!LiveSpec

=============================================================================
