---------------------------- MODULE PolicyServer ----------------------------
(***************************************************************************)
(* The threads of the policy service (server.py, watsonx_client.py).  Each *)
(* call has a thread of its own; in live mode the threads share the IAM    *)
(* token of WatsonxPolicyClient, without a lock: _cached_token and         *)
(* _token_expiration_epoch are tested, read and written one at a time.     *)
(*                                                                         *)
(* A token is the second at which it expires; IAM issues it and names that *)
(* second in one answer, 0 stands for no token.  Margin is the 60 s by     *)
(* which the client refreshes early.  Latency bounds what no code bounds:  *)
(* the time from the clock reading of a call to its answer.  A token lives *)
(* for Lifetime to Lifetime + Jitter seconds.                              *)
(***************************************************************************)
EXTENDS PolicyService

CONSTANTS Thread,
          Environments,   \* what the process may have been started with
          FilterRequests, \* what the filter may ask about
          OtherCalls,     \* what other clients may send
          ChatReplies,    \* what Watsonx may say
          Margin,         \* 60 in the code
          Lifetime,       \* of an IAM token, at least
          Jitter,         \* by which some tokens live longer than others
          Latency,        \* of a call
          MaxTime         \* bounds the clock

ASSUME EnvironmentsAssumption == Environments \subseteq Environment
ASSUME FilterRequestsAssumption ==
  /\ FilterRequests \subseteq AgentPolicyRequest
  /\ \A r \in FilterRequests :       \* HTTP header values hold no blanks
       \A text \in {r.service_name, r.request_method, r.request_path} :
         \A i \in DOMAIN text : text[i] # Blank
ASSUME OtherCallsAssumption == OtherCalls \subseteq Call
ASSUME ChatRepliesAssumption == ChatReplies \subseteq ChatReply
ASSUME TimesAssumption ==
  /\ {Margin, Lifetime, Jitter, Latency, MaxTime} \subseteq Nat
  /\ Lifetime > 0

NoToken == 0

NoAnswer == [status |-> 0, action |-> "none", source |-> "none"]

\* The paths the filter may be configured with.
ServicePath == {"evaluate", "other"}

Calls == {BuildPolicyServiceRequest(r, path) :
            r \in FilterRequests, path \in ServicePath} \cup OtherCalls

NoCall == [method |-> "none"]

VARIABLES
  settings,
  now,                    \* the wall clock, in seconds
  cached_token,           \* _cached_token
  token_expiration_epoch, \* _token_expiration_epoch
  pc,                     \* where each thread is
  call,                   \* what it was asked
  started,                \* `now' of _get_iam_token
  token,                  \* the token it has in hand
  answer                  \* what it answered, if it has

cache == <<cached_token, token_expiration_epoch>>

serverVars == <<settings, now, cache, pc, call, started, token, answer>>

Step == {"idle", "reading", "test_token", "test_expiration", "return_cached", "iam",
         "store_token", "store_expiration", "chat", "done"}

\* What environments become; the program does not start with some.
LoadedSettings ==
  {LoadSettings(environment) : environment \in {e \in Environments : Starts(e)}}

ServerInit == /\ settings \in LoadedSettings
              /\ now = 0
              /\ cached_token = NoToken
              /\ token_expiration_epoch = 0
              /\ pc = [t \in Thread |-> "idle"]
              /\ call = [t \in Thread |-> NoCall]
              /\ started = [t \in Thread |-> 0]
              /\ token = [t \in Thread |-> NoToken]
              /\ answer = [t \in Thread |-> NoAnswer]

Goto(t, step) == pc' = [pc EXCEPT ![t] = step]

\* The handler returns; its locals are gone.
Reply(t, reply) == /\ Goto(t, "done")
                   /\ answer' = [answer EXCEPT ![t] = reply]
                   /\ started' = [started EXCEPT ![t] = 0]
                   /\ token' = [token EXCEPT ![t] = NoToken]

-----------------------------------------------------------------------------
(* A thread takes a call, which it answers at once unless Watsonx decides *)

\* Bug variant: HTTPServer instead of ThreadingHTTPServer takes one call at a time.
AcceptOneAtATime(t, c) ==
  /\ ~Withheld(c)
  /\ \A u \in Thread : pc[u] \in {"idle", "done"}
  /\ call' = [call EXCEPT ![t] = c]
  /\ UNCHANGED <<settings, now, cache>>

\* The body of a call has been read, by a new thread or by one that waited for it.
Accept(t, c) ==
  /\ ~Withheld(c)
  /\ \/ pc[t] \in {"idle", "done"}
     \/ pc[t] = "reading" /\ c.method = "POST" /\ c.path = "evaluate"
  /\ call' = [call EXCEPT ![t] = c]
  /\ UNCHANGED <<settings, now, cache>>

AwaitBody(t, c) ==
  /\ Withheld(c)
  /\ pc[t] \in {"idle", "done"}
  /\ Goto(t, "reading")
  /\ call' = [call EXCEPT ![t] = c]
  /\ answer' = [answer EXCEPT ![t] = NoAnswer]
  /\ UNCHANGED <<settings, now, cache, started, token>>

AnswerAtOnce(t, c) ==
  \E reply \in ImmediateAnswer(c) : Accept(t, c) /\ Reply(t, reply)

AnswerFromMock(t, c) ==
  /\ Accept(t, c)
  /\ ImmediateAnswer(c) = {}
  /\ settings.decision_mode = "mock"
  /\ Reply(t, OkAnswer(MockPolicy(PolicyRequestOf(c.body), settings), "mock"))

AnswerUnready(t, c) ==
  /\ Accept(t, c)
  /\ ImmediateAnswer(c) = {}
  /\ settings.decision_mode = "live"
  /\ ~settings.watsonx_ready
  /\ Reply(t, WatsonxFails(c, settings))

AskWatsonx(t, c) ==
  /\ Accept(t, c)
  /\ ImmediateAnswer(c) = {}
  /\ settings.decision_mode = "live"
  /\ settings.watsonx_ready
  /\ Goto(t, "test_token")
  /\ started' = [started EXCEPT ![t] = now]
  /\ answer' = [answer EXCEPT ![t] = NoAnswer]
  /\ UNCHANGED token

-----------------------------------------------------------------------------
(* _get_iam_token *)

\* Bug variant: threads share one request to IAM, and wait while it is under
\* way.
TestTokenQueued(t) ==
  /\ pc[t] = "test_token"
  /\ \A u \in Thread : pc[u] # "iam"
  /\ Goto(t, IF cached_token = NoToken THEN "iam" ELSE "test_expiration")
  /\ UNCHANGED <<settings, now, cache, call, started, token, answer>>

TestToken(t) ==
  /\ pc[t] = "test_token"
  /\ Goto(t, IF cached_token = NoToken THEN "iam" ELSE "test_expiration")
  /\ UNCHANGED <<settings, now, cache, call, started, token, answer>>

\* Bug variant: the token is used to its last second.
FreshTokenToTheEnd(t) == started[t] < token_expiration_epoch

\* Bug variant: off by one.
FreshTokenOffByOne(t) == started[t] <= token_expiration_epoch - Margin

FreshToken(t) == started[t] < token_expiration_epoch - Margin

\* Bug variant: a stale token is left for another thread to refresh.
TestExpirationAgain(t) ==
  /\ pc[t] = "test_expiration"
  /\ Goto(t, IF FreshToken(t) THEN "return_cached" ELSE "test_token")
  /\ UNCHANGED <<settings, now, cache, call, started, token, answer>>

TestExpiration(t) ==
  /\ pc[t] = "test_expiration"
  /\ Goto(t, IF FreshToken(t) THEN "return_cached" ELSE "iam")
  /\ UNCHANGED <<settings, now, cache, call, started, token, answer>>

ReturnCachedToken(t) ==
  /\ pc[t] = "return_cached"
  /\ token' = [token EXCEPT ![t] = cached_token]
  /\ Goto(t, "chat")
  /\ UNCHANGED <<settings, now, cache, call, started, answer>>

\* IAM issues a token.
IamIssuesToken(t) ==
  /\ pc[t] = "iam"
  /\ settings.iam_request_built
  /\ \E life \in Lifetime..(Lifetime + Jitter) :
       token' = [token EXCEPT ![t] = now + life]
  /\ Goto(t, "store_token")
  /\ UNCHANGED <<settings, now, cache, call, started, answer>>

\* A timeout, an error, or an answer without a token or an expiration.
IamFails(t) ==
  /\ pc[t] = "iam"
  /\ settings.iam_request_built
  /\ Reply(t, WatsonxFails(call[t], settings))
  /\ UNCHANGED <<settings, now, cache, call>>

\* A JSON answer that is no object has no get(): AttributeError.
IamAnswersNoObject(t) ==
  /\ pc[t] = "iam"
  /\ settings.iam_request_built
  /\ Reply(t, ErrorAnswer(500))
  /\ UNCHANGED <<settings, now, cache, call>>

\* parse.urlencode raises before IAM is asked.
IamRequestRaises(t) ==
  /\ pc[t] = "iam"
  /\ ~settings.iam_request_built
  /\ Reply(t, ErrorAnswer(500))
  /\ UNCHANGED <<settings, now, cache, call>>

\* Bug variant: a token that is already cached stays.
StoreTokenOnce(t) ==
  /\ pc[t] = "store_token"
  /\ cached_token' = IF cached_token = NoToken THEN token[t] ELSE cached_token
  /\ Goto(t, "store_expiration")
  /\ UNCHANGED <<settings, now, token_expiration_epoch, call, started, token,
                 answer>>

StoreToken(t) ==
  /\ pc[t] = "store_token"
  /\ cached_token' = token[t]
  /\ Goto(t, "store_expiration")
  /\ UNCHANGED <<settings, now, token_expiration_epoch, call, started, token,
                 answer>>

StoreExpiration(t) ==
  /\ pc[t] = "store_expiration"
  /\ token_expiration_epoch' = token[t]
  /\ Goto(t, "chat")
  /\ UNCHANGED <<settings, now, cached_token, call, started, token, answer>>

-----------------------------------------------------------------------------
(* The chat request *)

WatsonxDecides(t) ==
  /\ pc[t] = "chat"
  /\ settings.chat_request_built
  /\ \E said \in ChatReplies : \E action \in DecidedBy(said) :
       Reply(t, OkAnswer(action, "watsonx"))
  /\ UNCHANGED <<settings, now, cache, call>>

\* A timeout, an error, or an answer without a decision in it.
ChatFails(t) ==
  /\ pc[t] = "chat"
  /\ settings.chat_request_built
  /\ \E said \in ChatReplies : said.kind # "unparsable" /\ DecidedBy(said) = {}
  /\ Reply(t, WatsonxFails(call[t], settings))
  /\ UNCHANGED <<settings, now, cache, call>>

\* What is raised outside the two try blocks, or is no ValidationError inside the
\* last: parse.quote and request.Request, before Watsonx is asked, and json.loads
\* on what it says.
ChatRaises(t) ==
  /\ pc[t] = "chat"
  /\ \/ ~settings.chat_request_built
     \/ \E said \in ChatReplies : said.kind = "unparsable"
  /\ Reply(t, ErrorAnswer(500))
  /\ UNCHANGED <<settings, now, cache, call>>

\* The steps of a call that raise anything but a WatsonxClientError.
Raises(t) == IamRequestRaises(t) \/ IamAnswersNoObject(t) \/ ChatRaises(t)

-----------------------------------------------------------------------------
\* A thread that has a call in hand; one that still waits for its body has not.
InCall(t) == pc[t] \notin {"idle", "reading", "done"}

\* Time passes, but for no call longer than Latency.
Tick == /\ now < MaxTime
        /\ \A t \in Thread : InCall(t) => now < started[t] + Latency
        /\ now' = now + 1
        /\ UNCHANGED <<settings, cache, pc, call, started, token, answer>>

\* The process ends, with every call in it, and is started again; nothing is kept
\* on disk.
ServiceRestarts == /\ cached_token' = NoToken
                   /\ token_expiration_epoch' = 0
                   /\ pc' = [t \in Thread |-> "idle"]
                   /\ call' = [t \in Thread |-> NoCall]
                   /\ started' = [t \in Thread |-> 0]
                   /\ token' = [t \in Thread |-> NoToken]
                   /\ answer' = [t \in Thread |-> NoAnswer]
                   /\ UNCHANGED <<settings, now>>

\* A thread in the middle of a call.
Proceed(t) == \/ TestToken(t) \/ TestExpiration(t) \/ ReturnCachedToken(t)
              \/ IamIssuesToken(t) \/ IamFails(t)
              \/ StoreToken(t) \/ StoreExpiration(t)
              \/ WatsonxDecides(t) \/ ChatFails(t)
              \/ Raises(t)

BeginCall(t, c) == \/ AwaitBody(t, c) \/ AnswerAtOnce(t, c) \/ AnswerFromMock(t, c)
                   \/ AnswerUnready(t, c) \/ AskWatsonx(t, c)

Begin(t) == \E c \in Calls : BeginCall(t, c)

ServerNext == \/ Tick
              \/ ServiceRestarts
              \/ \E t \in Thread : Begin(t) \/ Proceed(t)

ServerSpec == ServerInit /\ [][ServerNext]_serverVars

\* Threads are scheduled, and what they wait for ends: every request to IAM or
\* Watsonx has a timeout.
ThreadFairness(t) == WF_serverVars(Proceed(t))

ServerFairness == \A t \in Thread : ThreadFairness(t)

-----------------------------------------------------------------------------
ServerTypeOK == /\ settings \in LoadedSettings
                /\ now \in 0..MaxTime
                /\ {cached_token, token_expiration_epoch} \subseteq Nat
                /\ pc \in [Thread -> Step]
                /\ call \in [Thread -> Calls \cup {NoCall}]
                /\ started \in [Thread -> 0..now]
                /\ token \in [Thread -> Nat]
                /\ answer \in [Thread -> HttpAnswer \cup {NoAnswer}]

\* The pair in the cache may be torn between two threads that refresh at once,
\* but never by more than a call lasts and lifetimes differ: the expiration that
\* is tested is not later than that of the token that is returned, plus these two.
CacheHardlyTorn ==
  cached_token # NoToken
    => token_expiration_epoch <= cached_token + Latency + Jitter

\* The margin covers two calls in a row and the difference of two lifetimes, and a
\* token lives longer than a call takes.
MarginSuffices == 2 * Latency + Jitter <= Margin /\ Latency < Lifetime

\* If the margin suffices, no request goes to Watsonx with a token that has expired,
\* or expires while the request is under way, whatever other threads did to the
\* cache meanwhile.
TokenValidWhenUsed == \A t \in Thread : pc[t] = "chat" => now < token[t]

\* Nothing clears the cache when Watsonx refuses a token, for instance a revoked
\* one.  Still no token, good or bad, outlasts its expiration: but for the call
\* that fetched it, a call that starts in the last Margin seconds of a token's
\* life does not get it, whatever other threads did to the cache.
TokenRetires ==
  \A t \in Thread :
    pc[t] = "chat" => \/ started[t] + Lifetime <= token[t]
                      \/ started[t] + Margin < token[t] + Latency + Jitter

\* Thread t has answered the filter about r.
AnsweredFilter(t, r) == /\ pc[t] = "done"
                        /\ r \in FilterRequests
                        /\ call[t] = BuildPolicyServiceRequest(r, "evaluate")

\* Whatever a downstream request leaves out, the filter's call about it is one
\* the service accepts: it is decided, or fails for want of Watsonx.
FilterCallsAccepted ==
  \A t \in Thread, r \in FilterRequests :
    AnsweredFilter(t, r) => answer[t].status \notin {400, 404}

\* A decision the service takes without Watsonx, by its mock or in place of an
\* answer, is the filter's own default for the request: consulting a service in
\* mock mode never changes what a filter without a policy would do.
MockAgreesWithFilter ==
  \A t \in Thread, r \in FilterRequests :
    AnsweredFilter(t, r) /\ answer[t].source \in {"mock", "mock_fallback"}
      => answer[t].action = ModeDefault(r)

\* With POLICY_FAIL_OPEN off, a live service answers with what Watsonx decided
\* or with an error, never with a decision of its own.
FailClosedNeverGuesses ==
  \A t \in Thread :
    pc[t] = "done" /\ settings.decision_mode = "live" /\ ~settings.fail_open
      => answer[t].source \in {"none", "watsonx"}

\* A well-formed call that a service which fails open has answered without a
\* decision.
LeftUndecided(t) == /\ pc[t] = "done"
                    /\ settings.fail_open
                    /\ ImmediateAnswer(call[t]) = {}
                    /\ answer[t].status # 200

\* "falls back to the mock policy when POLICY_FAIL_OPEN=true": a live service
\* that fails open decides every well-formed request.  It does not hold: only a
\* WatsonxClientError is taken for a failure of Watsonx, and Raises are others.
FailOpenAlwaysDecides == \A t \in Thread : ~LeftUndecided(t)

\* The mock decides on "service name" and "request path" too, and denies a
\* sensitive request for which "fallback is not allowed".  It does not hold: the
\* lists never change an action, for in hybrid mode fallback is always allowed.
SensitiveWithoutFallbackDenied ==
  \A t \in Thread, r \in FilterRequests :
    /\ AnsweredFilter(t, r)
    /\ answer[t].source = "mock"
    /\ r.mode = "hybrid" /\ ~r.pqc_capable
    /\ RequiresPqc(r, settings)
    /\ Lower(r.service_name) \notin settings.allow_fallback_services
    => answer[t].action = "deny"

\* No call waits for another: whatever the other threads are in the middle of, a
\* thread in a call has a step to take, if only that IAM or Watsonx fails.
CallsCanProceed ==
  \A t \in Thread : InCall(t) => ENABLED <<Proceed(t)>>_serverVars

\* Every call whose body has been read is answered, unless the process ends,
\* whatever other clients still owe the server.
CallsAnswered == \A t \in Thread : InCall(t) ~> ~InCall(t)

-----------------------------------------------------------------------------
(* Calls are answered by themselves *)

\* The answers a call may get: what HTTP says of it or, for a policy request, the
\* default of its mode where Watsonx is not asked or fails and the service fails
\* open, and any allowed action where Watsonx is asked.  500 is an error that is no
\* WatsonxClientError: the only answer where the key cannot be sent, and in place of
\* a decision where the request to Watsonx cannot be built.
MayAnswer(c, s) ==
  LET default == ModeDefault(PolicyRequestOf(c.body))
      failed  == IF s.fail_open THEN OkAnswer(default, "mock_fallback") ELSE ErrorAnswer(502)
      decided == {OkAnswer(action, "watsonx") : action \in AllowedAction}
  IN IF ImmediateAnswer(c) # {} THEN ImmediateAnswer(c)
     ELSE IF s.decision_mode = "mock" THEN {OkAnswer(default, "mock")}
     ELSE IF ~s.watsonx_ready THEN {failed}
     ELSE IF ~s.iam_request_built THEN {ErrorAnswer(500)}
     ELSE {failed, ErrorAnswer(500)} \cup (IF s.chat_request_built THEN decided ELSE {})

\* The call a thread has in hand or has answered, and its answer.
AskedBy == [t \in Thread |-> IF InCall(t) \/ pc[t] = "done" THEN call[t] ELSE NoCall]

SaidTo == [t \in Thread |-> IF pc[t] = "done" THEN answer[t] ELSE NoAnswer]

Service == INSTANCE VerdictService
             WITH Client <- Thread, Settings <- LoadedSettings,
                  asked <- AskedBy, said <- SaidTo

\* A call is answered at most once, by what the call and the settings permit, and
\* by nothing that another thread, the cache or an earlier call has left behind.
ImplementsVerdictService == Service!Spec

=============================================================================
