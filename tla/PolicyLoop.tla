----------------------------- MODULE PolicyLoop -----------------------------
(***************************************************************************)
(* The filter with the policy service behind it: one stream of PqcFilter,  *)
(* and PolicyServer, whose other threads serve other clients.  Nothing is  *)
(* assumed of a response any more: it is what the service answers to the   *)
(* call the filter built, or what Envoy makes up when there is no answer.  *)
(*                                                                         *)
(* The two share nothing but the connection.  Their clocks do not agree    *)
(* either: the filter's timer may fire before, while and after the service *)
(* works on the call, which is what a timeout of 1 s in the filter against *)
(* 10 s in the service comes to.                                           *)
(***************************************************************************)
EXTENDS PqcFilter, PolicyServer

CONSTANT StreamThread   \* the service's thread for the stream's call

VARIABLES
  delivery,   \* where the stream's call to the service is
  told        \* the service's answer that the filter has been given

loopVars == <<vars, serverVars, delivery, told>>

-----------------------------------------------------------------------------
(* The connection *)

\* to_dict, and the error texts, as JSON.
ResponseOf(said) ==
  [status |-> said.status,
   body   |-> "object",
   action |-> IF said.action = "none" THEN "absent" ELSE said.action,
   reason |-> IF said.source = "none" THEN "absent" ELSE "string"]

\* What Envoy answers in place of the service.
Gateway(status) == [status |-> status, body |-> "not_an_object",
                    action |-> "absent", reason |-> "absent"]

AskedFor == BuildAgentPolicyRequest(context, config.mode)

ASSUME StreamThreadAssumption == StreamThread \in Thread

ASSUME ResponsesCovered ==
  {ResponseOf(a) : a \in HttpAnswer} \cup {Gateway(503), Gateway(504)}
    \subseteq Responses

ASSUME RequestsCovered ==
  \A r \in Requests, c \in Configs :
    BuildAgentPolicyRequest(ExtractPqcContext(r), c.mode) \in FilterRequests

-----------------------------------------------------------------------------
LoopInit == Init /\ ServerInit /\ delivery = "none" /\ told = NoAnswer

\* The filter by itself.
FilterStep ==
  /\ \/ DecodeHeaders \/ DecodeData \/ DecodeTrailers
     \/ ReturnFromLocalReply \/ OnDestroy
  /\ UNCHANGED <<serverVars, delivery, told>>

SendFails == SendReturnsNull /\ UNCHANGED <<serverVars, delivery, told>>

SendCall == /\ SendReturnsRequest
            /\ delivery' = "sent"
            /\ UNCHANGED <<serverVars, told>>

\* The service takes the call, also one the filter has given up meanwhile.
TakeCall == /\ delivery = "sent"
            /\ BeginCall(StreamThread,
                         BuildPolicyServiceRequest(AskedFor, PolicyServicePath))
            /\ delivery' = "taken"
            /\ UNCHANGED <<vars, told>>

WorkOnCall == /\ delivery = "taken"
              /\ Proceed(StreamThread)
              /\ UNCHANGED <<vars, delivery, told>>

\* The answer arrives; one that nobody waits for any more does not.
Deliver == /\ delivery = "taken"
           /\ pc[StreamThread] = "done"
           /\ asyncRequest = "inflight"
           /\ Answer(ResponseOutcome(context, ResponseOf(answer[StreamThread])))
           /\ delivery' = "delivered"
           /\ told' = answer[StreamThread]
           /\ UNCHANGED serverVars

\* No connection, or one that breaks, at any time.
ConnectionFails == /\ OnFailure \/ Answer(ResponseOutcome(context, Gateway(503)))
                   /\ UNCHANGED <<serverVars, delivery, told>>

TimerFires == /\ PolicyServiceTimeout > 0
              /\ asyncRequest = "inflight"
              /\ Answer(ResponseOutcome(context, Gateway(504)))
              /\ UNCHANGED <<serverVars, delivery, told>>

\* The service by itself, for other clients.
ServiceStep == /\ \/ Tick
                  \/ \E t \in Thread \ {StreamThread} : Begin(t) \/ Proceed(t)
               /\ UNCHANGED <<vars, delivery, told>>

RestartService == /\ ServiceRestarts
                  /\ delivery' = IF delivery = "taken" THEN "lost" ELSE delivery
                  /\ UNCHANGED <<vars, told>>

LoopNext == \/ FilterStep \/ SendFails \/ SendCall
            \/ TakeCall \/ WorkOnCall \/ Deliver
            \/ ConnectionFails \/ TimerFires
            \/ ServiceStep \/ RestartService

LoopSpec == LoopInit /\ [][LoopNext]_loopVars

\* What the filter's caller, the service and the connection between them owe the
\* stream.
FinishSend == SendFails \/ SendCall

FinishLocalReply == ReturnFromLocalReply /\ FilterStep

TakeWantedCall == asyncRequest = "inflight" /\ TakeCall

BreakLostConnection == delivery = "lost" /\ ConnectionFails

\* As in PqcFilter, but without the timer: the service accepts connections, works
\* on what it has accepted, as in PolicyServer, and is connected to the filter; a
\* connection to a process that has ended breaks.
LoopFairness == /\ WF_loopVars(FinishSend)
                /\ WF_loopVars(FinishLocalReply)
                /\ WF_loopVars(TakeWantedCall)
                /\ ServerFairness
                /\ WF_loopVars(Deliver)
                /\ WF_loopVars(BreakLostConnection)

FairLoopSpec == LoopSpec /\ LoopFairness

-----------------------------------------------------------------------------
\* PQC_ONLY serves capable clients only and never falls back, CLASSICAL never
\* prefers hybrid: whoever decides, the local policy or the service's mock, before
\* or after a failure on either side.  Only a decision of Watsonx is exempt.
ModeKeptEndToEnd ==
  IsEnabled /\ forwarded # << >> /\ told.source # "watsonx"
    => /\ config.mode = "pqc_only" => context.pqc_capable /\ ~context.fallback
       /\ config.mode = "classical" => current_decision.action # "prefer_hybrid"

\* Where the filter's policy does not speak of a request, it makes no difference
\* whether the service's mock, its fallback for Watsonx, or the filter after a
\* timeout, a reset or a restart of the service comes first: the decision is the
\* same.
WhoeverDecides ==
  /\ current_decision # NoDecision
  /\ told.source # "watsonx"
  /\ Evaluate(config.policy, AskedFor.service_name, AskedFor.pqc_capable,
              AskedFor.request_path) = "unspecified"
  => current_decision.action = ModeDefault(AskedFor)

\* The filter and the service speak the same language: a decision the service
\* sends in time is one the filter understands and takes as it is, never one more
\* failure; and the filter takes for the service's only what the service said.
AnswerEnforced ==
  /\ told.source # "none"
       => current_decision = [action |-> told.action, source |-> "service"]
  /\ current_decision.source = "service" => told.source # "none"

\* What the filter has been told is an answer the service may give to this very
\* request under its settings, whatever other calls, answers and restarts there were
\* while it waited; and what it has been told about does not change afterwards.
ToldWhatWasAsked ==
  told # NoAnswer
    => told \in MayAnswer(BuildPolicyServiceRequest(AskedFor, PolicyServicePath), settings)

\* With fail_open off on both sides, nothing goes upstream but what Watsonx itself
\* has decided.
FailClosedEndToEnd ==
  /\ IsEnabled /\ config.has_policy_service /\ config.fail_open = "false"
  /\ settings.decision_mode = "live" /\ ~settings.fail_open
  /\ forwarded # << >>
  => told.source = "watsonx"

\* Nothing that is owed to the stream is ruled out by what either side has done, or
\* by what other clients do: a send can return, a call that is sent and wanted can
\* be taken whatever the service's other threads wait for, a thread that works on
\* a call can go on, its answer can reach the filter, and a connection that is lost
\* can break.
LoopCanProceed ==
  /\ calling = "send" => ENABLED <<FinishSend>>_loopVars
  /\ calling = "sendLocalReply" => ENABLED <<FinishLocalReply>>_loopVars
  /\ calling = "none" /\ asyncRequest = "inflight" =>
       /\ delivery = "sent" => ENABLED <<TakeWantedCall>>_loopVars
       /\ delivery = "taken" /\ pc[StreamThread] = "done"
            => ENABLED <<Deliver>>_loopVars
       /\ delivery = "lost" => ENABLED <<BreakLostConnection>>_loopVars
  /\ CallsCanProceed

\* Frames that are held back are released, or the request is answered or abandoned,
\* even without a timer: no other client, and no restart, keeps the service from
\* the stream's call for ever.
HeldFramesAnswered ==
  held # << >> ~> (held = << >> \/ reply # << >> \/ stream = "gone")

=============================================================================
