----------------------- MODULE VerdictService_proofs -----------------------
(***************************************************************************)
(* The threads of the policy service keep the promise of VerdictService:   *)
(* whatever they do to the token cache, each call is answered at most once *)
(* and as itself and the settings permit.                                  *)
(***************************************************************************)
EXTENDS PolicyServer_proofs

\* Only calls that Watsonx is to decide keep a thread busy.
ForWatsonx(t) ==
  InCall(t) => /\ settings.decision_mode = "live"
               /\ settings.watsonx_ready

\* While the key cannot be sent to IAM there is no token, and no call comes to need
\* one.
NoTokenUnasked ==
  ~settings.iam_request_built
    => /\ cached_token = NoToken
       /\ \A t \in Thread : InCall(t) => pc[t] \in {"test_token", "iam"}

AskedInv == AnswerInv /\ NoTokenUnasked /\ \A t \in Thread : ForWatsonx(t)

\* Thread t alone has moved: to p, with call c and answer a.
Moves(t, p, c, a) == /\ pc' = [pc EXCEPT ![t] = p]
                     /\ call' = [call EXCEPT ![t] = c]
                     /\ answer' = [answer EXCEPT ![t] = a]
                     /\ UNCHANGED settings

-----------------------------------------------------------------------------
(* What an answer may be *)

LEMMA NoCallIsNone ==
  /\ \A c \in Calls : c # NoCall
  /\ \A a \in HttpAnswer : a # NoAnswer
<1>1. ASSUME NEW c \in Calls PROVE c # NoCall
  <2>1. CASE c \in OtherCalls
    BY <2>1, OtherCallsAssumption DEF Call, NoCall
  <2>2. ASSUME NEW r, NEW path, c = BuildPolicyServiceRequest(r, path)
        PROVE  c.method = "POST"
    BY <2>2 DEF BuildPolicyServiceRequest
  <2> QED
    BY <2>1, <2>2 DEF Calls, NoCall
<1>2. ASSUME NEW a \in HttpAnswer PROVE a # NoAnswer
  BY DEF HttpAnswer, ErrorAnswer, OkAnswer, NoAnswer
<1> QED
  BY <1>1, <1>2

\* The mock, asked for its own decision or in place of an answer, gives the default.
LEMMA MockMayAnswer ==
  ASSUME NEW c, ImmediateAnswer(c) = {}
  PROVE  MockPolicy(PolicyRequestOf(c.body), settings)
           = ModeDefault(PolicyRequestOf(c.body))
<1>1. IsPolicyRequest(c.body)
  BY DEF ImmediateAnswer
<1>2. PolicyRequestOf(c.body).mode \in ServiceMode
  BY <1>1 DEF IsPolicyRequest, PolicyRequestOf, ModeOf
<1> QED
  BY <1>2, MockByMode

\* What a thread says is permitted: at once, without Watsonx, and after it.
LEMMA AnswersPermitted ==
  ASSUME NEW c
  PROVE  /\ ImmediateAnswer(c) # {} => ImmediateAnswer(c) \subseteq MayAnswer(c, settings)
         /\ ImmediateAnswer(c) = {} =>
              /\ settings.decision_mode = "mock"
                   => OkAnswer(MockPolicy(PolicyRequestOf(c.body), settings), "mock")
                        \in MayAnswer(c, settings)
              /\ settings.decision_mode = "live"
                   /\ (settings.watsonx_ready => settings.iam_request_built)
                   => WatsonxFails(c, settings) \in MayAnswer(c, settings)
              /\ settings.decision_mode = "live" /\ settings.watsonx_ready
                   => ErrorAnswer(500) \in MayAnswer(c, settings)
              /\ settings.decision_mode = "live" /\ settings.watsonx_ready
                   /\ settings.iam_request_built /\ settings.chat_request_built
                   => \A action \in AllowedAction :
                        OkAnswer(action, "watsonx") \in MayAnswer(c, settings)
<1>1. CASE ImmediateAnswer(c) # {}
  BY <1>1 DEF MayAnswer
<1>2. CASE ImmediateAnswer(c) = {}
  <2>1. MockPolicy(PolicyRequestOf(c.body), settings)
          = ModeDefault(PolicyRequestOf(c.body))
    BY <1>2, MockMayAnswer
  <2> QED
    BY <1>2, <2>1 DEF MayAnswer, WatsonxFails
<1> QED
  BY <1>1, <1>2

-----------------------------------------------------------------------------
(* A thread's step, as its client sees it *)

LEMMA MoveSeen ==
  ASSUME AnswerInv, NEW t \in Thread, NEW p \in Step, NEW c, NEW a, Moves(t, p, c, a)
  PROVE  /\ Service!OnlyFor(t)
         /\ AskedBy'[t] = IF p \in {"idle", "reading"} THEN NoCall ELSE c
         /\ SaidTo'[t] = IF p = "done" THEN a ELSE NoAnswer
<1>1. pc'[t] = p /\ call'[t] = c /\ answer'[t] = a
  BY DEF Moves, AnswerInv
<1>2. ASSUME NEW u \in Thread, u # t
      PROVE  AskedBy'[u] = AskedBy[u] /\ SaidTo'[u] = SaidTo[u]
  <2>1. pc'[u] = pc[u] /\ call'[u] = call[u] /\ answer'[u] = answer[u]
    BY <1>2 DEF Moves, AnswerInv
  <2> QED
    BY <2>1 DEF AskedBy, SaidTo, InCall
<1>3. /\ AskedBy' = [AskedBy EXCEPT ![t] = AskedBy'[t]]
      /\ SaidTo' = [SaidTo EXCEPT ![t] = SaidTo'[t]]
  BY <1>2 DEF AskedBy, SaidTo
<1>4. Service!OnlyFor(t)
  BY <1>3 DEF Service!OnlyFor, Moves
<1> QED
  BY <1>1, <1>4 DEF AskedBy, SaidTo, InCall

\* A client waits exactly while a thread has its call in hand.
LEMMA WaitingIsInCall ==
  ASSUME AnswerInv, NEW t \in Thread
  PROVE  Service!Waiting(t) <=> InCall(t)
<1>1. pc[t] # "idle" => call[t] # NoCall
  BY NoCallIsNone DEF AnswerInv, AnswerSound
<1>2. pc[t] = "done" => answer[t] # NoAnswer
  BY NoCallIsNone, ImmediateAnswerType, VerdictsType DEF AnswerInv, AnswerSound
<1> QED
  BY <1>1, <1>2 DEF Service!Waiting, AskedBy, SaidTo, InCall

LEMMA BeginSeen ==
  ASSUME AskedInv, NEW t \in Thread, NEW c \in Calls, BeginCall(t, c),
         ~InCall(t)
  PROVE  Service!Take(t) \/ Service!Leave(t)
<1>1. ~Service!Waiting(t)
  BY WaitingIsInCall DEF AskedInv
<1>2. {"done", "test_token", "reading"} \subseteq Step
  BY DEF Step
<1>3. CASE AwaitBody(t, c)
  <2>1. Moves(t, "reading", c, NoAnswer)
    BY <1>3 DEF AwaitBody, Goto, Moves
  <2> QED
    BY <1>1, <1>2, <2>1, MoveSeen DEF AskedInv, Service!Leave
<1>4. ASSUME NEW a \in MayAnswer(c, settings), Accept(t, c), Reply(t, a)
      PROVE  Service!Take(t)
  <2>1. Moves(t, "done", c, a)
    BY <1>4 DEF Accept, Reply, Goto, Moves
  <2>2. AskedBy'[t] = c /\ SaidTo'[t] = a /\ Service!OnlyFor(t)
    BY <1>2, <2>1, MoveSeen DEF AskedInv
  <2> QED
    BY <1>1, <1>4, <2>2 DEF Service!Take
<1>5. CASE AnswerAtOnce(t, c)
  <2>1. PICK a \in ImmediateAnswer(c) : Accept(t, c) /\ Reply(t, a)
    BY <1>5 DEF AnswerAtOnce
  <2>2. a \in MayAnswer(c, settings)
    BY AnswersPermitted
  <2> QED
    BY <1>4, <2>1, <2>2
<1>6. CASE AnswerFromMock(t, c)
  BY <1>4, <1>6, AnswersPermitted DEF AnswerFromMock
<1>7. CASE AnswerUnready(t, c)
  BY <1>4, <1>7, AnswersPermitted DEF AnswerUnready
<1>8. CASE AskWatsonx(t, c)
  <2>1. Moves(t, "test_token", c, NoAnswer)
    BY <1>8 DEF AskWatsonx, Accept, Goto, Moves
  <2>2. AskedBy'[t] = c /\ SaidTo'[t] = NoAnswer /\ Service!OnlyFor(t)
    BY <1>2, <2>1, MoveSeen DEF AskedInv
  <2> QED
    BY <1>1, <2>2 DEF Service!Take
<1> QED
  BY <1>3, <1>5, <1>6, <1>7, <1>8 DEF BeginCall

\* Only the last step of a call is seen, and it answers the call.
LEMMA ProceedSeen ==
  ASSUME AskedInv, NEW t \in Thread, Proceed(t)
  PROVE  Service!Answer(t) \/ UNCHANGED Service!vars
<1>1. /\ InCall(t) /\ call[t] \in Calls /\ ImmediateAnswer(call[t]) = {}
      /\ settings.decision_mode = "live" /\ settings.watsonx_ready
      /\ ~settings.iam_request_built => pc[t] \in {"test_token", "iam"}
  <2>1. InCall(t)
    BY DEF InCall, Proceed, TestToken, TestExpiration, ReturnCachedToken, IamIssuesToken,
           IamFails, Raises, IamRequestRaises, IamAnswersNoObject, ChatRaises, StoreToken,
           StoreExpiration, WatsonxDecides, ChatFails
  <2> QED
    BY <2>1 DEF AskedInv, ForWatsonx, NoTokenUnasked, AnswerInv, AnswerSound, InCall
<1>2. call = [call EXCEPT ![t] = call[t]] /\ answer = [answer EXCEPT ![t] = answer[t]]
  BY DEF AskedInv, AnswerInv
<1>3. CASE \/ TestToken(t) \/ TestExpiration(t) \/ ReturnCachedToken(t)
           \/ IamIssuesToken(t) \/ StoreToken(t) \/ StoreExpiration(t)
  <2>1. PICK p \in {"iam", "test_expiration", "return_cached", "chat", "store_token",
                    "store_expiration"} :
          /\ pc' = [pc EXCEPT ![t] = p]
          /\ call' = call /\ answer' = answer /\ settings' = settings
    BY <1>3 DEF TestToken, TestExpiration, ReturnCachedToken, IamIssuesToken, StoreToken,
                StoreExpiration, Goto
  <2>2. Moves(t, p, call[t], answer[t]) /\ p \in Step
    BY <1>2, <2>1 DEF Moves, Step
  <2>3. /\ AskedBy'[t] = call[t] /\ SaidTo'[t] = NoAnswer
        /\ AskedBy' = [AskedBy EXCEPT ![t] = AskedBy'[t]]
        /\ SaidTo' = [SaidTo EXCEPT ![t] = SaidTo'[t]]
    BY <2>1, <2>2, MoveSeen DEF AskedInv, Service!OnlyFor
  <2>4. AskedBy[t] = call[t] /\ SaidTo[t] = NoAnswer
    BY <1>1 DEF AskedBy, SaidTo, InCall
  <2>5. /\ AskedBy = [AskedBy EXCEPT ![t] = AskedBy[t]]
        /\ SaidTo = [SaidTo EXCEPT ![t] = SaidTo[t]]
    BY DEF AskedBy, SaidTo
  <2>6. AskedBy' = AskedBy /\ SaidTo' = SaidTo
    BY <2>3, <2>4, <2>5
  <2> QED
    BY <2>1, <2>6 DEF Service!vars
<1>4. ASSUME NEW a \in MayAnswer(call[t], settings), Reply(t, a),
             call' = call, settings' = settings
      PROVE  Service!Answer(t)
  <2>1. Moves(t, "done", call[t], a) /\ "done" \in Step
    BY <1>2, <1>4 DEF Reply, Goto, Moves, Step
  <2>2. AskedBy'[t] = call[t] /\ SaidTo'[t] = a /\ Service!OnlyFor(t)
    BY <2>1, MoveSeen DEF AskedInv
  <2>3. AskedBy[t] = call[t] /\ Service!Waiting(t)
    BY <1>1, WaitingIsInCall DEF AskedBy, AskedInv
  <2> QED
    BY <1>4, <2>2, <2>3 DEF Service!Answer
<1>5. CASE IamFails(t) \/ ChatFails(t)
  BY <1>1, <1>4, <1>5, AnswersPermitted DEF IamFails, ChatFails
<1>6. CASE Raises(t)
  BY <1>1, <1>4, <1>6, AnswersPermitted DEF Raises, IamRequestRaises, IamAnswersNoObject,
       ChatRaises
<1>7. CASE WatsonxDecides(t)
  <2>1. PICK action \in AllowedAction : Reply(t, OkAnswer(action, "watsonx"))
    BY <1>7 DEF WatsonxDecides, DecidedBy
  <2>2. OkAnswer(action, "watsonx") \in MayAnswer(call[t], settings)
    <3>1. settings.iam_request_built /\ settings.chat_request_built
      BY <1>1, <1>7 DEF WatsonxDecides
    <3> QED
      BY <1>1, <3>1, AnswersPermitted
  <2>3. call' = call /\ settings' = settings
    BY <1>7 DEF WatsonxDecides
  <2> QED
    BY <1>4, <2>1, <2>2, <2>3
<1> QED
  BY <1>3, <1>5, <1>6, <1>7 DEF Proceed

-----------------------------------------------------------------------------
(* The refinement *)

LEMMA AskedInit == ServerInit => AskedInv
BY AnswerInit DEF ServerInit, AskedInv, NoTokenUnasked, ForWatsonx, InCall

LEMMA SettingsStay == [ServerNext]_serverVars => settings' = settings
BY DEF ServerNext, Tick, ServiceRestarts, Begin, BeginCall, AwaitBody, AnswerAtOnce,
       AnswerFromMock, AnswerUnready, AskWatsonx, Accept, Proceed, TestToken,
       TestExpiration, ReturnCachedToken, IamIssuesToken, IamFails, Raises,
       IamRequestRaises, IamAnswersNoObject, ChatRaises, StoreToken, StoreExpiration,
       WatsonxDecides, ChatFails, serverVars

\* A thread whose step leads into a call is asked to by a live, ready service.
LEMMA ForWatsonxNext ==
  ASSUME AskedInv, [ServerNext]_serverVars, NEW t \in Thread, InCall(t)'
  PROVE  ForWatsonx(t)'
<1>1. settings' = settings
  BY SettingsStay
<1>2. CASE InCall(t)
  BY <1>1, <1>2 DEF AskedInv, ForWatsonx
<1>3. CASE ~InCall(t)
  <2>1. pc'[t] # pc[t] /\ pc'[t] \notin {"idle", "reading", "done"}
    BY <1>3 DEF InCall
  <2>2. \E u \in Thread : Begin(u) \/ Proceed(u)
    <3>1. ~Tick /\ ~UNCHANGED serverVars
      BY <2>1 DEF Tick, serverVars
    <3>2. ~ServiceRestarts
      BY <2>1 DEF ServiceRestarts
    <3> QED
      BY <3>1, <3>2 DEF ServerNext
  <2>3. ASSUME NEW u \in Thread, NEW p, pc' = [pc EXCEPT ![u] = p]
        PROVE  u = t
    BY <2>1, <2>3 DEF AskedInv, AnswerInv
  <2>4. ASSUME NEW u \in Thread, Begin(u)
        PROVE  settings.decision_mode = "live" /\ settings.watsonx_ready
    BY <2>1, <2>3, <2>4 DEF AskedInv, AnswerInv, Begin, BeginCall, AwaitBody, AnswerAtOnce,
       AnswerFromMock, AnswerUnready, AskWatsonx, Reply, Goto
  <2>5. ASSUME NEW u \in Thread, Proceed(u)
        PROVE  InCall(u) /\ \E p : pc' = [pc EXCEPT ![u] = p]
    BY <2>5 DEF InCall, Proceed, TestToken, TestExpiration, ReturnCachedToken,
                IamIssuesToken, IamFails, Raises, IamRequestRaises, IamAnswersNoObject,
                ChatRaises, StoreToken, StoreExpiration, WatsonxDecides, ChatFails, Reply,
                Goto
  <2> QED
    BY <1>1, <1>3, <2>2, <2>3, <2>4, <2>5 DEF ForWatsonx
<1> QED
  BY <1>2, <1>3

LEMMA NoTokenUnaskedNext ==
  AskedInv /\ [ServerNext]_serverVars => NoTokenUnasked'
<1> SUFFICES ASSUME AskedInv, [ServerNext]_serverVars, ~settings.iam_request_built
             PROVE  /\ cached_token' = NoToken
                    /\ \A t \in Thread : InCall(t)' => pc'[t] \in {"test_token", "iam"}
  BY SettingsStay DEF NoTokenUnasked, InCall
<1>1. /\ cached_token = NoToken
      /\ \A t \in Thread : InCall(t) => pc[t] \in {"test_token", "iam"}
      /\ \A t \in Thread : \A p :
           pc' = [pc EXCEPT ![t] = p]
             => \A u \in Thread : pc'[u] = IF u = t THEN p ELSE pc[u]
  BY DEF AskedInv, NoTokenUnasked, AnswerInv
<1>2. CASE Tick \/ UNCHANGED serverVars
  BY <1>1, <1>2 DEF Tick, serverVars, cache, InCall
<1>3. CASE ServiceRestarts
  BY <1>3 DEF ServiceRestarts, InCall
<1>4. ASSUME NEW t \in Thread, Begin(t) \/ Proceed(t)
      PROVE  /\ cached_token' = cached_token
             /\ \E p \in {"reading", "done", "test_token", "iam"} :
                  pc' = [pc EXCEPT ![t] = p]
  <2>1. CASE Begin(t)
    BY <2>1 DEF Begin, BeginCall, AwaitBody, AnswerAtOnce, AnswerFromMock, AnswerUnready,
                AskWatsonx, Accept, Reply, Goto, cache
  <2>2. CASE Proceed(t)
    <3>1. pc[t] \in {"test_token", "iam", "idle", "reading", "done"}
      BY <1>1 DEF InCall
    <3>2. TestToken(t) \/ IamRequestRaises(t)
      BY <2>2, <3>1 DEF Proceed, TestExpiration, ReturnCachedToken, IamIssuesToken,
         IamFails, Raises, IamAnswersNoObject, ChatRaises, StoreToken, StoreExpiration,
         WatsonxDecides, ChatFails
    <3> QED
      BY <1>1, <3>2 DEF TestToken, IamRequestRaises, Reply, Goto, cache
  <2> QED
    BY <1>4, <2>1, <2>2
<1>5. CASE \E t \in Thread : Begin(t) \/ Proceed(t)
  BY <1>1, <1>4, <1>5 DEF InCall
<1> QED
  BY <1>2, <1>3, <1>5 DEF ServerNext

LEMMA AskedNext == AskedInv /\ [ServerNext]_serverVars => AskedInv'
<1> SUFFICES ASSUME AskedInv, [ServerNext]_serverVars
             PROVE  AskedInv'
  OBVIOUS
<1>1. \A t \in Thread : ForWatsonx(t)'
  BY ForWatsonxNext DEF ForWatsonx
<1> QED
  BY <1>1, AnswerNext, NoTokenUnaskedNext DEF AskedInv

LEMMA AskedHolds == ServerSpec => []AskedInv
BY AskedInit, AskedNext, PTL DEF ServerSpec

\* Threads, token cache and all, the service answers each call by itself.
THEOREM CallsAnsweredByThemselves == ServerSpec => ImplementsVerdictService
<1>1. ServerInit => Service!Init
  <2> SUFFICES ASSUME ServerInit
               PROVE  Service!Init
    OBVIOUS
  <2>1. \A t \in Thread : pc[t] = "idle"
    BY DEF ServerInit
  <2> QED
    BY <2>1 DEF ServerInit, Service!Init, AskedBy, SaidTo, InCall
<1>2. AskedInv /\ [ServerNext]_serverVars => [Service!Next]_(Service!vars)
  <2> SUFFICES ASSUME AskedInv, [ServerNext]_serverVars
               PROVE  Service!Next \/ UNCHANGED Service!vars
    OBVIOUS
  <2>1. CASE Tick \/ UNCHANGED serverVars
    <3>1. UNCHANGED <<settings, pc, call, answer>>
      BY <2>1 DEF Tick, serverVars
    <3>2. AskedBy' = AskedBy /\ SaidTo' = SaidTo
      BY <3>1 DEF AskedBy, SaidTo, InCall
    <3> QED
      BY <3>1, <3>2 DEF Service!vars
  <2>2. CASE ServiceRestarts
    <3>1. settings' = settings /\ \A t \in Thread : pc'[t] = "idle"
      BY <2>2 DEF ServiceRestarts
    <3>2. Service!Restart
      BY <3>1 DEF Service!Restart, AskedBy, SaidTo, InCall
    <3> QED
      BY <3>2 DEF Service!Next
  <2>3. ASSUME NEW t \in Thread, Begin(t)
        PROVE  Service!Next
    <3>1. PICK c \in Calls : BeginCall(t, c)
      BY <2>3 DEF Begin
    <3>2. ~InCall(t)
      BY <3>1 DEF BeginCall, AwaitBody, AnswerAtOnce, AnswerFromMock, AnswerUnready,
         AskWatsonx, Accept, InCall
    <3> QED
      BY <3>1, <3>2, BeginSeen DEF Service!Next
  <2>4. ASSUME NEW t \in Thread, Proceed(t)
        PROVE  Service!Next \/ UNCHANGED Service!vars
    BY <2>4, ProceedSeen DEF Service!Next
  <2> QED
    BY <2>1, <2>2, <2>3, <2>4 DEF ServerNext
<1>3. ServerSpec => []AskedInv
  BY AskedHolds
<1> QED
  BY <1>1, <1>2, <1>3, PTL DEF ServerSpec, ImplementsVerdictService, Service!Spec

-----------------------------------------------------------------------------
(* What a client may count on, from the promise alone *)

\* Every answer is one that the call and the settings permit.
SaidPermitted ==
  \A t \in Thread : SaidTo[t] # NoAnswer => SaidTo[t] \in MayAnswer(AskedBy[t], settings)

LEMMA PermittedNext ==
  SaidPermitted /\ [Service!Next]_(Service!vars) => SaidPermitted'
<1> SUFFICES ASSUME SaidPermitted, [Service!Next]_(Service!vars),
                    NEW t \in Thread, SaidTo'[t] # NoAnswer
             PROVE  SaidTo'[t] \in MayAnswer(AskedBy'[t], settings')
  BY DEF SaidPermitted, MayAnswer
<1>1. CASE UNCHANGED Service!vars
  BY <1>1 DEF Service!vars, SaidPermitted
<1>2. CASE Service!Restart
  BY <1>2 DEF Service!Restart
<1>3. ASSUME NEW u \in Thread, Service!Take(u) \/ Service!Answer(u) \/ Service!Leave(u)
      PROVE  SaidTo'[t] \in MayAnswer(AskedBy'[t], settings')
  <2>1. Service!OnlyFor(u)
    BY <1>3 DEF Service!Take, Service!Answer, Service!Leave
  <2>2. CASE t = u
    BY <1>3, <2>1, <2>2 DEF Service!Take, Service!Answer, Service!Leave, Service!OnlyFor
  <2>3. CASE t # u
    <3>1. AskedBy'[t] = AskedBy[t] /\ SaidTo'[t] = SaidTo[t] /\ settings' = settings
      <4>1. \A f, g, v : f = [g EXCEPT ![u] = v] /\ t \in DOMAIN g => f[t] = g[t]
        BY <2>3
      <4>2. DOMAIN AskedBy = Thread /\ DOMAIN SaidTo = Thread
        BY DEF AskedBy, SaidTo
      <4> QED
        BY <2>1, <4>1, <4>2 DEF Service!OnlyFor
    <3> QED
      BY <3>1 DEF SaidPermitted
  <2> QED
    BY <2>2, <2>3
<1> QED
  BY <1>1, <1>2, <1>3 DEF Service!Next

\* A thread that has answered has said what its call permits.
THEOREM OnlyPermittedSaid == ServerSpec => []SaidPermitted
<1>1. Service!Init => SaidPermitted
  BY DEF Service!Init, SaidPermitted
<1> QED
  BY <1>1, PermittedNext, CallsAnsweredByThemselves, PTL
     DEF ImplementsVerdictService, Service!Spec

LEMMA LoadedModes == \A s \in LoadedSettings : s.decision_mode \in {"mock", "live"}
<1> SUFFICES ASSUME NEW e, DecisionModeOf(e) # {}
             PROVE  LoadSettings(e).decision_mode \in {"mock", "live"}
  BY DEF LoadedSettings, Starts
<1> QED
  BY DEF LoadSettings, DecisionModeOf, DecisionMode

\* What the mock decides, for any client and by itself or in place of Watsonx.
MockDecidesByModeAlone ==
  \A t \in Thread :
    pc[t] = "done" /\ answer[t].source \in {"mock", "mock_fallback"}
      => answer[t] = OkAnswer(ModeDefault(PolicyRequestOf(call[t].body)), answer[t].source)

\* The lists of sensitive services and paths, and of services that may fall back,
\* never decide: every answer of the mock, to whatever call, is the default of the
\* call's mode and capability, whatever the lists hold.
THEOREM MockListsNeverDecide == ServerSpec => []MockDecidesByModeAlone
<1>1. AnswerInv /\ SaidPermitted => MockDecidesByModeAlone
  <2> SUFFICES ASSUME AnswerInv, SaidPermitted, NEW t \in Thread, pc[t] = "done",
                      answer[t].source \in {"mock", "mock_fallback"}
               PROVE  answer[t] = OkAnswer(ModeDefault(PolicyRequestOf(call[t].body)),
                                           answer[t].source)
    BY DEF MockDecidesByModeAlone
  <2>1. answer[t] \in HttpAnswer /\ ImmediateAnswer(call[t]) = {}
    BY VerdictsType, ImmediateAnswerType DEF AnswerInv, AnswerSound
  <2>2. answer[t] \in MayAnswer(call[t], settings)
    BY <2>1, NoCallIsNone DEF SaidPermitted, SaidTo, AskedBy
  <2> QED
    BY <2>1, <2>2 DEF MayAnswer, OkAnswer, ErrorAnswer
<1> QED
  BY <1>1, AnswerInvariant, OnlyPermittedSaid, PTL

\* A step of a thread leaves a call undecided, though the service fails open, exactly
\* when it raises what is no WatsonxClientError.
UndecidedByRaising ==
  \A t \in Thread :
    /\ settings.fail_open /\ Raises(t) => LeftUndecided(t)'
    /\ LeftUndecided(t)' => Raises(t) \/ UNCHANGED <<pc[t], call[t], answer[t]>>

\* Failing open is kept up to these: the service leaves a well-formed call undecided
\* when the request to IAM cannot be built, when IAM answers what is no object, when
\* the request to Watsonx cannot be built or when what it says makes the JSON parser
\* give up, and never otherwise, whatever fails and whatever other threads do.
THEOREM OnlyRaisingLeavesUndecided == ServerSpec => [][UndecidedByRaising]_serverVars
<1>1. AskedInv /\ [ServerNext]_serverVars => [UndecidedByRaising]_serverVars
  <2> SUFFICES ASSUME AskedInv, ServerNext, NEW t \in Thread
               PROVE  /\ settings.fail_open /\ Raises(t) => LeftUndecided(t)'
                      /\ LeftUndecided(t)'
                           => Raises(t) \/ UNCHANGED <<pc[t], call[t], answer[t]>>
    BY DEF UndecidedByRaising
  <2>1. settings' = settings
    BY SettingsStay
  <2>2. \A u \in Thread : \A v :
          /\ pc' = [pc EXCEPT ![u] = v] => pc'[t] = IF t = u THEN v ELSE pc[t]
          /\ call' = [call EXCEPT ![u] = v] => call'[t] = IF t = u THEN v ELSE call[t]
          /\ answer' = [answer EXCEPT ![u] = v]
               => answer'[t] = IF t = u THEN v ELSE answer[t]
    BY DEF AskedInv, AnswerInv
  <2>3. ASSUME settings.fail_open, Raises(t)
        PROVE  LeftUndecided(t)'
    <3>1. /\ Reply(t, ErrorAnswer(500)) /\ call' = call
          /\ pc[t] \notin {"idle", "reading", "done"}
      BY <2>3 DEF Raises, IamRequestRaises, IamAnswersNoObject, ChatRaises
    <3>2. ImmediateAnswer(call[t]) = {}
      BY <3>1 DEF AskedInv, AnswerInv, AnswerSound, InCall
    <3>3. pc'[t] = "done" /\ answer'[t] = ErrorAnswer(500) /\ call'[t] = call[t]
      BY <2>2, <3>1 DEF Reply, Goto
    <3>4. answer'[t].status # 200
      BY <3>3 DEF ErrorAnswer
    <3>5. settings'.fail_open
      BY <2>1, <2>3
    <3> QED
      BY <3>2, <3>3, <3>4, <3>5 DEF LeftUndecided
  <2>4. ASSUME LeftUndecided(t)', ~Raises(t)
        PROVE  UNCHANGED <<pc[t], call[t], answer[t]>>
    <3>1. /\ pc'[t] = "done" /\ settings.fail_open
          /\ ImmediateAnswer(call'[t]) = {} /\ answer'[t].status # 200
      BY <2>1, <2>4 DEF LeftUndecided
    <3>2. CASE Tick
      BY <3>2 DEF Tick
    <3>3. ~ServiceRestarts
      BY <3>1 DEF ServiceRestarts
    <3>4. \A action, source : OkAnswer(action, source).status = 200
      BY DEF OkAnswer
    <3>5. \A c : WatsonxFails(c, settings).status = 200
      BY <3>1, <3>4 DEF WatsonxFails
    <3>6. ASSUME NEW u \in Thread, u # t, Begin(u) \/ Proceed(u)
          PROVE  UNCHANGED <<pc[t], call[t], answer[t]>>
      <4>1. CASE Begin(u)
        BY <2>2, <3>6, <4>1 DEF Begin, BeginCall, AwaitBody, AnswerAtOnce, AnswerFromMock,
           AnswerUnready, AskWatsonx, Accept, Reply, Goto
      <4>2. CASE Proceed(u)
        BY <2>2, <3>6, <4>2 DEF Proceed, TestToken, TestExpiration, ReturnCachedToken,
           IamIssuesToken, IamFails, Raises, IamRequestRaises, IamAnswersNoObject,
           ChatRaises, StoreToken, StoreExpiration, WatsonxDecides, ChatFails, Reply, Goto
      <4> QED
        BY <3>6, <4>1, <4>2
    <3>7. ~Begin(t)
      <4>1. ASSUME NEW c \in Calls, BeginCall(t, c)
            PROVE  FALSE
        <5>1. call'[t] = c
          BY <2>2, <4>1 DEF BeginCall, AwaitBody, AnswerAtOnce, AnswerFromMock,
             AnswerUnready, AskWatsonx, Accept
        <5>2. ~AwaitBody(t, c) /\ ~AskWatsonx(t, c)
          BY <2>2, <3>1 DEF AwaitBody, AskWatsonx, Goto
        <5>3. ~AnswerAtOnce(t, c)
          BY <3>1, <5>1 DEF AnswerAtOnce
        <5>4. ~AnswerFromMock(t, c)
          BY <2>2, <3>1, <3>4 DEF AnswerFromMock, Reply
        <5>5. ~AnswerUnready(t, c)
          BY <2>2, <3>1, <3>5 DEF AnswerUnready, Reply
        <5> QED
          BY <4>1, <5>2, <5>3, <5>4, <5>5 DEF BeginCall
      <4> QED
        BY <4>1 DEF Begin
    <3>8. ~Proceed(t)
      <4>1. ~(TestToken(t) \/ TestExpiration(t) \/ ReturnCachedToken(t)
                \/ IamIssuesToken(t) \/ StoreToken(t) \/ StoreExpiration(t))
        BY <2>2, <3>1 DEF TestToken, TestExpiration, ReturnCachedToken, IamIssuesToken,
           StoreToken, StoreExpiration, Goto
      <4>2. ~IamFails(t) /\ ~ChatFails(t)
        BY <2>2, <3>1, <3>5 DEF IamFails, ChatFails, Reply
      <4>3. ~WatsonxDecides(t)
        BY <2>2, <3>1, <3>4 DEF WatsonxDecides, Reply
      <4> QED
        BY <2>4, <4>1, <4>2, <4>3 DEF Proceed
    <3> QED
      BY <3>2, <3>3, <3>6, <3>7, <3>8 DEF ServerNext
  <2> QED
    BY <2>3, <2>4
<1> QED
  BY <1>1, AskedHolds, PTL DEF ServerSpec

-----------------------------------------------------------------------------
(* And in the end each call is answered *)

LEMMA OneWaitEnds ==
  ASSUME NEW t \in Thread
  PROVE  ServerSpec /\ ServerFairness /\ []CallsCanProceed => Service!Served(t)
<1>1. AskedInv => (Service!Waiting(t) <=> InCall(t))
  BY WaitingIsInCall DEF AskedInv
<1>2. ServerSpec /\ ServerFairness /\ []CallsCanProceed => CallEnds(t)
  BY OneCallEnds
<1> QED
  BY <1>1, <1>2, AskedHolds, PTL DEF CallEnds, Service!Served

\* The service keeps the whole promise: by itself, and in the end, each call whose
\* body has been read is answered, given that a thread in a call has a step to take
\* (the property CallsCanProceed).
THEOREM CallsAnsweredInTheEnd ==
  ServerSpec /\ ServerFairness /\ []CallsCanProceed => Service!LiveSpec
<1>1. ServerSpec /\ ServerFairness /\ []CallsCanProceed => Service!Answered
  BY OneWaitEnds DEF Service!Answered
<1> QED
  BY <1>1, CallsAnsweredByThemselves, PTL DEF ImplementsVerdictService, Service!LiveSpec

=============================================================================
