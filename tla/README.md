# TLA+ verification of the PQC Envoy filter

This directory specifies the PQC HTTP filter of this repository in TLA+, checks it with
TLC on small instances, and proves its properties with TLAPS for every instance,
liveness included, given the enabledness of some actions that TLC checks. `PROJECT.json`
holds the index: which definition models which source lines, what each run checks, the
hazards, and the theorems. Source paths below are relative to the repository root.

## The system

A downstream request reaches Envoy. The **PQC HTTP filter** stops or passes it after
a policy decision: from an external **policy service** over an asynchronous HTTP call
if one is configured, otherwise from a **local policy client** that wraps the **policy
engine**. The decision is `allow`, `prefer_hybrid`, `fallback` or `deny`; the request
goes upstream annotated with `x-pqc-*` headers, or is answered with 403 (denied) or
503 (no decision, failing closed).

```
 downstream --> PqcFilter ---- AsyncClient::send ----> policy service --> Watsonx
                |  ^   \___ onSuccess / onFailure ____/     (mock | live, IAM token)
                |  |
                |  +-- LocalAgentPolicyClient --> PolicyEngine (route, service, default)
                v
            next filter
```

| Component | Source | State it keeps | Operations | Modelled |
|---|---|---|---|---|
| PQC HTTP filter | `src/filters/pqc/pqc_filter.cc/.h` | decision, context, policy request, header pointer, four flags | `decodeHeaders`, `decodeData`, `decodeTrailers`, `onSuccess`, `onFailure`, `onDestroy` | `PqcFilter` |
| Request context | `pqc_filter.cc` (`extractPqcContext`), `context.h` | one context per request | extract, build the policy request | `RequestContext` |
| Policy engine | `policy_engine.cc`, `policy.proto` | none | `evaluate` | `PolicyEngine`, `PolicyScan` |
| Local policy client | `agent_policy_client.cc` | none | `evaluate`: mode default, engine, guardrails | `LocalPolicyClient`, `LocalDecision` |
| Policy service | `services/watsonx_policy_service/app/{server,service,mock_policy,models,settings}.py` | settings, one thread per connection | `POST /v1/policy/evaluate`, `/healthz`, start and restart | `PolicyService`, `PolicyServer` |
| Watsonx client | `.../watsonx_client.py` | IAM token and its expiration, shared by request threads | token refresh, chat call | `PolicyServer` |
| Filter and service together | the two above and the connection between them | the call on its way, the answer on its way | send, answer, timeout, reset, restart | `PolicyLoop` |
| Filter factory | `src/filters/pqc/config.cc` | shared configuration | one filter per stream | nothing to model beyond `Init` |
| Configuration validator | `src/config/validator.cc` | none | two checks | no: nothing calls it, so configurations reach the filter unvalidated |
| Feature flags, fallback manager, metrics, logger, network filter | `feature_flags.proto`, `fallback_manager.cc`, ... | none | none | no: unread messages and stubs |

### What is hard in it

* **Callbacks inside calls.** `AsyncClient::send` may deliver the answer before it
  returns (`pqc_filter.cc:427`): the handler then runs while `decodeHeaders` is on the
  stack. It must not resume the stream; it leaves its status in
  `inline_headers_status_` for `decodeHeaders` to return. A null return means either
  "already answered" or "not sent", told apart only by `waiting_for_policy_`.
* **The stream dying inside a handler.** A local reply sent from a late callback may
  destroy the stream, so `onDestroy` runs inside `sendLocalReply`.
* **Ownership.** `active_policy_request_` must be dropped at the first line of a
  callback and cancelled in `onDestroy`; `pending_headers_` is a bare pointer into a
  header map that others own.
* **Frames overtaking the decision.** Body and trailers arrive while the answer is
  outstanding.
* **Failure of the policy service.** A dozen ways to fail, two failure modes, one of
  which decides locally instead. A timeout is a successful 504 response.
* **Layers with a say.** Route requirement, route action, service lists, default,
  mode default, mode guardrails; and a remote decision that skips them all.
* **Threads of the policy service** sharing a token cache without a lock.
* **Two programs with two clocks, two failure modes and two vocabularies.** The filter
  waits 1 s for a service that waits 10 s for Watsonx (`settings.py:73`); either side
  may fail open or closed; modes and actions are words that both must spell alike.
* **Clients that owe a body.** `rfile.read` waits without a timeout (`server.py:37`).

### What makes each component correct

* Filter: a request goes upstream whole, in order, annotated once, and only after one
  decision that lets it; a rejected one gets one reply and nothing goes upstream;
  nothing is touched after `onDestroy`; held frames are released; `fail_open` is kept.
* Context: the port of the authority has no influence; the SNI names the service only
  where the authority does not.
* Engine: the loop finds the highest priority, the first among equals; a requirement
  without fallback is not undone by a later layer.
* Local client: the mode has the last word; denials are kept; presenting PQC does not
  cost access (except in two configurations that reserve a denial for capable clients).
* Policy service: it accepts every call the filter makes, its mock agrees with the
  filter's own defaults, a service that fails closed never decides by itself, and every
  call is answered. It should also decide every call when it fails open; it does not.
* Token cache: no expired token is used, whatever the threads interleave, and none
  outlasts its expiration, whether or not Watsonx still takes it.
* Together: what the service says in time is done, and nothing else is taken for its
  word; unless Watsonx decides, the mode is kept and all deciders agree; failing closed
  on both sides lets nothing through but a decision of Watsonx; no frame waits for ever.

## Modules

| Module | What it is |
|---|---|
| `PolicyEngine` | pure operators: `MatchesRoutePattern`, `BestMatch`, `RouteAction`, `ServiceAction`, `Evaluate` |
| `LocalPolicyClient` | EXTENDS it: `ModeDefault`, `EnforceModeGuardrails`, `LocalEvaluate` |
| `RequestContext` | EXTENDS that: `NormalizeHostLikeValue`, `ExtractPqcContext`, `BuildAgentPolicyRequest` |
| `PolicyScan` | the scan of `PolicyEngine::evaluate`, one loop iteration per step, against `BestMatch` |
| `LocalDecision` | one local evaluation from the wire to the action, over all policies, modes and requests |
| `PqcFilter` | one filter on one stream, composed with all of the above and with Envoy's side |
| `RequestGate` | the abstract specification: a gate that passes a request whole and in order, or not at all (`Spec`), and keeps none waiting for ever (`LiveSpec`) |
| `PolicyService` | EXTENDS `LocalPolicyClient`, pure operators: environment and settings, request validation, mock policy, replies of Watsonx, which results become which HTTP answer, and the filter's call |
| `PolicyServer` | the service's threads, the clock, the token cache they share, bodies that do not come, restarts |
| `VerdictService` | the abstract specification of the service: each call is answered at most once, by what the call and the settings permit (`Spec`), and in the end (`LiveSpec`) |
| `PolicyLoop` | `PqcFilter` and `PolicyServer` composed: the filter's call, the service's answer, and what can happen to either on the way |
| `MCPolicyScan`, `MCLocalDecision`, `MCPqcFilter`, `MCPolicyServer`, `MCPolicyLoop` | small instances for TLC |
| `RequestContext_proofs`, `PolicyScan_proofs`, `LocalDecision_proofs`, `PqcFilter_proofs`, `RequestGate_proofs`, `PolicyServer_proofs`, `VerdictService_proofs`, `PolicyLoop_proofs` | theorems and proofs |

### How the models read the code

**Strings** are sequences of tokens: words and separators. The code only compares
strings, takes a prefix up to the first `*`, cuts at the first `:` or `]` and searches
for three cipher words; none of that depends on the letters of a word. Optional
strings of `PqcContext` are set from non-empty values only, so absent and empty are
one value. Reasons and log lines are left out; what a reason tells about the origin of
a decision is kept as its `source`.

**Protobuf.** A wrapper field is `unset`, `true` or `false`; the code tests both parts.
A mode number outside the enum behaves as the unspecified mode (every `switch` on it ends
in a default) and is not a separate value. An action number outside the enum is one,
`"unknown"`: the code asks whether an action differs from `ACTION_UNSPECIFIED`, so it
counts as an explicit action, is taken before the lists, the default and the mode have
their say, passes the guardrails for a capable client, and goes upstream annotated
`unspecified`.

**The filter.** The variables in `filterVars` are the members of `PqcFilter` one for
one, pointers as "is it null". `calling` says which call out has not returned (`send`
or `sendLocalReply`), `asyncRequest` what the async client thinks of the policy
request, and `stream`, `received`, `held`, `forwarded`, `headers`, `forwardedHeaders`,
`reply`, `resumes` are Envoy's side. A callback is one action, except that a callback
that calls out is split where it may be called back:

| Code | Actions |
|---|---|
| `decodeHeaders` | `DecodeHeadersDisabled`, `DecodeHeadersLocally` (no service, or no cluster to ask), `DecodeHeadersRemotely` up to `send`, then `SendReturnsRequest` or `SendReturnsNull` |
| `decodeData`, `decodeTrailers` | `DecodeData`, `DecodeTrailers` |
| `onSuccess`, `onFailure` | `OnSuccess`, `OnFailure`, inline or later; `ReturnFromLocalReply` is the rest of a handler that rejected |
| `onDestroy` | `OnDestroy`, between callbacks or inside a late `sendLocalReply` |

`ResponseOutcome`, `FailureOutcome` and `Outcome` say what an answer leads to;
`Settle` records it (decision, context, annotation, reply).

**Envoy's side**, taken from how the filter uses it and marked external in the map:

* one worker thread per stream, so callbacks do not overlap except by nesting;
* `decodeHeaders` once per filter instance; the factory creates one per stream;
* `send` may answer inline, may return null without answering, or returns a request
  that is answered once unless cancelled; `cancel` ends all callbacks;
* a timeout makes the async client produce a 504 response through `onSuccess`; a
  timeout of zero means no timer;
* within `decodeHeaders` the destruction of the stream is deferred, so `onDestroy`
  can be nested only in a `sendLocalReply` of a late callback;
* after a local reply the chain is aborted: no further frame is delivered;
* frames that a filter stops are buffered and released in order; when the buffer
  overflows, Envoy ends the stream, which is one of the moments `OnDestroy` covers.

A missing cluster manager (`"no_manager"`) behaves as a missing cluster; the factory
never passes one, the unit tests do. Null decoder callbacks, which only unit tests
have, are not modelled. One branch is in the model although nothing reaches it: an answer
after the stream is gone is dropped (the phases below show that none comes). The branch
for a local evaluation that errs (`pqc_filter.cc:373-383`) is left out, since neither the
engine nor the client ever returns an error. The payload of
`buildPolicyServiceRequest` steers nothing in the filter; it is modelled in
`PolicyService`, where it is read.

**The policy service.** `ThreadingHTTPServer` answers each call on a thread of its own,
over HTTP/1.0, so a thread has one call at a time. The interpreter lock makes a single
read or write of an attribute atomic and nothing more, so `_get_iam_token` is cut at
every access to the shared pair:

| Code | Actions |
|---|---|
| `load_settings`, `create_server` | `LoadedSettings` in `ServerInit`; with an unknown decision mode there is no initial state |
| `rfile.read` of a body that is shorter than announced | `AwaitBody`; the thread goes on when the rest arrives, or what has arrived ends |
| `do_GET`, `do_POST` up to the decision service | `AnswerAtOnce` |
| mock mode | `AnswerFromMock` |
| live mode, credentials incomplete | `AnswerUnready` |
| live mode, `now = int(time.time())` | `AskWatsonx` (`started` is that `now`) |
| `if self._cached_token` / `and now < ... - 60` | `TestToken` / `TestExpiration` |
| `return self._cached_token` | `ReturnCachedToken` |
| the IAM request and its checks | `IamIssuesToken`, `IamFails`; raising past them: `IamRequestRaises`, `IamAnswersNoObject` |
| the two assignments | `StoreToken`, `StoreExpiration` |
| the chat request, `parse_policy_response_content`, `PolicyResponse.from_dict` | `WatsonxDecides`, `ChatFails`, by what `DecidedBy` makes of the reply; raising past `WatsonxClientError`: `ChatRaises` |
| the process ends and `main` runs again, in the same environment | `ServiceRestarts` |

* A token is the second at which it expires, so that the model can compare what is
  tested with what is returned; the code sees an opaque text. `IamIssuesToken` answers
  with the token and its expiration together. A token lives for `Lifetime` seconds and
  up to `Jitter` more: a pair torn between two tokens is wrong by the difference of
  their lifetimes too.
* `Latency` bounds the time from the clock reading of a call to its answer. The code
  has no such bound: its timeout of 10 s is per socket operation. Nothing is assumed of
  how `Latency`, `Lifetime` and `Jitter` compare with `Margin`, since nothing in the code
  relates them: tokens may live shorter than the margin or differ by more than it. Only
  `TokenValidWhenUsed` needs the condition `MarginSuffices` (`2 * Latency + Jitter <=
  Margin` and `Latency < Lifetime`), which holds with room for a `Margin` of 60 s, two
  requests of 10 s, and tokens that live for an hour; the property is lost with a margin
  one second shorter. The clock does not go backwards.
* `lower()` is the constant function `LowerCase` on tokens; the token `Blank` stands
  for white space. What the filter takes from HTTP header values holds no blanks.
* `extras` stands for the five optional texts of a request, which are validated alike
  and reach only the prompt. A body that is not UTF-8 or has an unreadable length falls
  through to the handler's last `except` and is answered 500, not 400.
* An environment variable is a sequence of at most one text. The three lists are sets of
  items; the host, the port and the timeouts steer nothing that is modelled. Of the URL,
  the key and the API version the model keeps what decides whether the requests to IAM and
  Watsonx can be built: the scheme of the URL (`HasScheme`), and whether the two others
  hold bytes that are not UTF-8 (the token `Undecodable`). `_env_int` on a text that is no
  number stops the program before it serves anything, like an unknown decision mode.
* The filter posts to `policyServicePath()`: the default, which the service serves, or
  one that it does not.

**The two together.** `PolicyLoop` EXTENDS both modules and adds the connection. The
filter's `SendReturnsRequest` sends the call that `buildPolicyServiceRequest` builds
from the context; `TakeCall` is a thread of the service taking it, also after the filter
has given up; `Deliver` is `onSuccess` with `ResponseOf` that thread's answer, if the
filter still waits. `TimerFires` (only with a timer) and `ConnectionFails` may come at
any time, `RestartService` too. There is no global clock: any order of timer and answer
is possible, which covers every pair of timeouts. Other threads of the service serve
other clients. Inside `send` only a failure can be reported here: a service in another
process cannot have answered yet.

**Bug variants.** Operators commented "Bug variant" are plausible mistakes in a
definition of the model. No specification uses them; substituted for the definition
they vary, each breaks the property `PROJECT.json` pairs it with, which shows that the
property depends on that piece of code.

## Runs

| Run | Question | Instance |
|---|---|---|
| `filter_stream` | Does the filter keep its promises under every interleaving, and is every held frame released, answered or abandoned? | 360 configurations, 5 requests, 15 responses, 3 frames; 180 288 states |
| `policy_scan` | Does the loop compute the best match? | all lists of up to 3 of 21 policies, 3 routes; about 115 000 states |
| `local_decision` | Does the local evaluation keep the policy and the mode? | all policies with at most one route policy and one named service, 4 modes, 30 requests; about 320 000 states |
| `service_cache` | Is a token valid when it is used, however three threads interleave, and does none wait for another? | 3 threads, one live environment, restarts, up to second 8; 412 170 states |
| `service_answers` | Is every call answered as it should be, and by itself? | 1 thread, every kind of environment, request of the filter, foreign call and reply of Watsonx; 25 834 states |
| `loop_safety` | Do filter and service keep mode, decision and failure modes between them? | 1 stream, 1 thread, 5 environments, 35 configurations, 4 requests; 309 724 states |
| `loop_liveness` | Is a held frame answered without a timer, and every call to the service, beside stalled clients and restarts? | 1 stream, 2 threads, filters without a timer; 42 273 states |
| `pqc_only_service_decision` | Do the mode's guardrails cover the policy service's decisions? (they do not) | `filter_stream` with fewer configurations and responses |
| `unspecified_mode` | Is the unspecified mode CLASSICAL? (it is not) | as `local_decision` |
| `route_deny` | Does DENY on a route deny? (not always) | as `local_decision` |
| `fail_open_error` | Does a service that fails open decide every well-formed call? (it does not) | as `service_answers` |
| `mock_lists` | Do the mock's lists of services have an effect? (they have none) | as `service_answers` |

What the properties of `filter_stream` say: `FramesInOrder` (none lost, doubled or
overtaken), `NoStrandedFrames` (frames wait only for somebody), `PolicyRequestOwned` and
`PendingHeadersAlive` (the two bare pointers), `ForwardedAsDecided` and
`RejectedStaysOut` (both ends of the decision), `FailureModeRespected`,
`LocalDecisionsHonourMode`, `ResumeLegal` (where `continueDecoding` may be called),
`DecisionIsFinal`, `NothingAfterDestroy`, `ImplementsGate` (refinement),
`HeldFramesResolve` (liveness) and `WaitsCanEnd` (while frames are held unsettled, there is
somebody left to settle them: `send`, or under a timer a policy request that the filter
has neither lost nor cancelled). Those of
`local_decision`: `ModeGuardrails`, `DenialIsKept`, `RouteRequirementHolds`,
`CapabilityNeverHurts`, `PortNeverChangesDecision`. `service_cache`: `CacheHardlyTorn`
(how far the tested expiration and the returned token can disagree),
`TokenValidWhenUsed`, `TokenRetires` and `CallsCanProceed` (a thread in a call is never
held up by another). `service_answers`: `FilterCallsAccepted`, `MockAgreesWithFilter`,
`FailClosedNeverGuesses`, `ImplementsVerdictService` (refinement). `loop_safety`:
`ModeKeptEndToEnd`, `WhoeverDecides`, `AnswerEnforced`, `ToldWhatWasAsked`,
`FailClosedEndToEnd`. `loop_liveness`: `HeldFramesAnswered`, `CallsAnswered`,
`LoopCanProceed`. Each is stated in words above its definition.

### Bounds, and why they are enough

* `MaxFrames = 3`: headers, one data frame, one more data frame or trailers. The
  filter treats all frames after the headers alike and looks at one flag; three frames
  give frames before, and after, an answer. `FramesHold` removes the bound.
* Configurations: every `enabled`, `mode` and `fail_open` value; a policy for each layer
  of the evaluation, one with an action outside the enum; timeouts unset, zero, below a
  millisecond, and long. Without a policy service its fields are unread. With one,
  `enabled` is only `unset`: a disabled filter returns before it looks at the service.
* Responses: each action, and each way for `parsePolicyServiceResponse` to refuse.
* Route lists of three: a comparison that is wrong for ties or for replacement shows
  with two matching policies and one that does not match. `ScanCorrect` removes it.
* `Margin 4`, `Lifetime 5`, `Jitter 1`, `Latency 1`, up to second 8: `MarginSuffices` with
  one second to spare, so that `TokenRetires` and `TokenValidWhenUsed` say different
  things: a test of the expiration that is off by one second breaks the first alone.
  `Margin 3` leaves nothing to spare (`2 * Latency + Jitter = Margin`) and passes too;
  `Margin 2` loses `TokenValidWhenUsed`. There is time for a token to be cached, found
  fresh, found stale and replaced while other threads are between test and return. Three
  threads: two that tear the pair and one that reads it. The answers of one thread depend
  on no other (`CallsAnsweredByThemselves` proves it), so `service_answers` has one thread
  and a clock of two seconds. `CacheInvariant` and `AnswerInvariant` remove these bounds.
* Calls: every combination of mode, capability, absent texts and capital letters that
  the filter can send, and calls of others that differ from one of the filter's in one
  place, by each way a field can be wrong or unusual.
* `loop_safety` has one thread of the service, the stream's. Other threads change the
  token cache only, of which the answer depends by nothing but its failures, which can
  happen to one thread alone; `LoopInvariant` is for any set of threads. Two frames: one
  held and one arriving meanwhile. The environments are the mock with a sensitive service,
  Watsonx failing open, failing closed, without credentials, and with a URL to which no
  request can be built; the replies the two extreme actions, a word that is an action only
  in capitals, and a failure; the policies one that is silent and one that is not.
* `loop_liveness` has a second thread for a client that never sends its body, the one
  thing other clients can do to the stream's call, and only filters without a timer:
  with one, the timer alone would end the wait. Its `Lifetime` of 3 makes a cached token
  fresh in the second it was issued and stale in the next.
* `CHECK_DEADLOCK FALSE` in all configurations: a stream ends, a loop ends, an
  evaluation is one step. That nothing stops too early is the liveness property's
  business.

### Fairness

`HeldFramesResolve` assumes weak fairness of three things: a call to `send` returns, a
call to `sendLocalReply` returns (both are ordinary C++ calls), and a policy request
*that has a timer* is answered, because Envoy answers it with a 504 when the timer
fires and the code sets the timer from `policyServiceTimeout()`. No fairness is assumed
of the policy service, the client or `OnDestroy`. The property's precondition is that
the timeout is unset or at least a millisecond: `durationToMilliseconds` truncates, and
a timeout of zero leaves the request without a timer, so a silent service then holds
the stream for as long as the client stays.

`CallsAnswered` assumes weak fairness of each thread of the policy service once it has
a call: the operating system runs it, and both requests it waits for have a timeout. As
that timeout is per socket operation, this leaves out a peer that keeps sending one
byte at a time. Nothing is assumed of a thread that waits for a body.

`HeldFramesAnswered` assumes nothing of the filter's timer. Weak fairness of `TakeCall`
(a listening socket is accepted from), of `WorkOnCall` (as above), of `Deliver` (an
answer that has been sent arrives, while the connection lasts), of the return of `send`
and `sendLocalReply`, and of the reset that TCP delivers for a connection whose process
has ended. A restart may come at any time, any number of times.

## Proofs

Every theorem holds for every value of the constants that satisfies the assumptions in
the modules (types of configurations, requests, responses, policies; `MaxFrames` a
positive natural, `Lifetime` too; the separators are tokens). Two theorems about the
token cache state a further condition on its times as a hypothesis, `TokenValid` and
`ShortTokensNeverReused`.

**Pure lemmas** (`RequestContext_proofs`). What the operators return: the context is
well formed, a local evaluation ends in an explicit action, within the guardrails, and
keeps the engine's denials.

**The scan** (`PolicyScan_proofs`). `WinsOver` is a strict order on positions;
`BestSoFar` with the type invariant is inductive; at the end "seen so far" is
"everything that matches", so `best_match` is `BestMatch` (`ScanCorrect`). Only a
winner replaces the best match (`ScanImproves`). In whatever order the list is written,
the policy that wins has the same priority (`WinnerOfReorderedList`), so the order decides
between ties and nothing else (`OrderDecidesTiesOnly`).

**The local decision** (`LocalDecision_proofs`). The invariant is that the decision,
once there, is the one that policy, mode and request determine. The guardrail and
denial theorems follow from the lemmas. For `CapabilityHelps` the engine's three layers
are compared for the same client with and without PQC. `PortIsIgnored` goes through the
positions of `]` and `:`: an appended port moves neither if they were there, and is cut
off again if they were not (`FoundBeforePort`, `PortAlone`, `PortDropped`).

**The filter** (`PqcFilter_proofs`). `TypeOK` is inductive alone (`TypeCorrect`). The
safety properties are not: for instance, that a late answer annotates exactly once
depends on nothing having been annotated while the filter waits. The strengthening
`IInv` says that a stream is always in one of eight phases:

```
 Fresh --> Sending --> AnsweredInline --> Passed
   |          |  \              \-------> Rejected
   |          |   \--> Waiting ---------> Passed
   |          |          |  \--> Replying --> Rejected
   |          \----------|--------------> Passed / Rejected  (send refused)
   \-------------------- | -------------> Passed / Rejected  (decided at once)
   onDestroy: Fresh, Waiting --> Abandoned; the others keep their phase
```

and fixes, in each, who is calling, what is pending, what is held and what has been
settled. `Legitimate` carries what must be known about an answer before it is acted
on: the kind of action, the mode, and who may decide under `fail_open`. There is one
lemma per action (`PhaseDecodeHeaders`, `PhaseAnswer`, ...). All state properties of
`filter_stream` follow from the phases; `FramesHold` adds an induction of its own over
the frames; the action properties follow from the phases in which an action is
enabled.

**The refinement** (`RequestGate_proofs`). With `verdict` read off the reply and the
forwarded frames, `DecodeHeaders`, `DecodeData` and `DecodeTrailers` are `Receive`,
the answers and the returns of `send` are `Decide` or a stutter, `OnDestroy` is
`Close`. What went upstream equals what the gate would have passed on, because of the
phases and `FramesInOrder` (`ForwardedByVerdict`). The gate's liveness follows below.

**The policy service** (`PolicyServer_proofs`). Two independent invariants.
`CacheInv` is about time: no call has lasted longer than `Latency` (`InTime`); a token
just fetched has nearly its whole life before it (`Fetched`); whoever is about to store
an expiration has already stored a token that is not much older (`StoresSuit`); a token
that was found fresh stays good enough, even if another thread replaces it before it is
returned (`TokenStays`, `CachedLasts`), and lasts for the rest of the call
(`TokenLasts`). The pair in the cache may then be torn by `Latency + Jitter` at most,
and the call spends what the margin has left. The same invariant, read the other way,
bounds how long a token is handed out (`TokensRetire`).

None of this needs the margin to be long enough. What does is that a token in use is
valid (`TokenValid`, under `MarginSuffices`). Without that condition `OverrunBounded`
says how long the token can have been expired: by what a call takes beyond a token's
life, or by less than what two calls and the difference of two lifetimes take beyond
the margin, whichever is more. With the configuration of `service_cache` changed to two
threads, `Margin 1`, `Lifetime 4`, `Jitter 1`, `Latency 2` and seconds up to 9, TLC confirms
the bound and refutes one that is a second shorter. And if tokens live no longer than
the margin, with a call to spare, none is ever reused (`ShortTokensNeverReused`): every
call goes to IAM. With `Lifetime 3`, `Jitter 1`, `Latency 1`, TLC finds no use of the cache
for a `Margin` of 5, and one for 4.

`AnswerInv` is about answers: each is one that settings and call allow (`AnswerSound`).
What makes the filter's calls acceptable is that stripping a text without blanks changes
nothing (`StripTrimmed`), so the service reads back what the filter wrote
(`FilterCallParses`); what makes the mock agree with the filter is that its answer
depends on mode and capability alone (`MockByMode`), which is also why its lists are
without effect.

**The composition** (`PolicyLoop_proofs`). Every step of `PolicyLoop` is a step of
`PqcFilter` or leaves the filter alone, and a step of `PolicyServer` or leaves the
service alone (`LoopImplementsFilter`, `LoopImplementsServer`; the assumption
`ResponsesCovered` says that the service's answers are among the responses the filter is
modelled with). So both invariants hold of the composition. `LoopInv` joins them:
`CallSent` (a call on its way is one about a request the filter has read, and a fresh
stream has sent none), `CallTaken` (the service's
thread works on that call, or has answered it) and `DecisionOrigin` (who took the
filter's decision, and that `told` is what the service said). `AnswerEnforced` and
`FailClosedEndToEnd` follow from the origin and from `AnswerSound`; `WhoeverDecides` and
`ModeKeptEndToEnd` from the origin and the lemmas on the mock and the local client,
which share `ModeDefault`. Without the theorem about the mock, the finding on service
decisions below would be all one can say of the mode.

`ToldWhatWasAsked` joins both halves once more: `told` was, when it was delivered, an
answer the service may give to `AskedFor`, and neither the request nor the settings
change afterwards (`ToldAsAsked`).

**The service as one that answers each call by itself** (`VerdictService_proofs`).
`VerdictService` knows no threads, no cache and no clock: a call is taken, answered at
most once with a member of `MayAnswer`, and left. `PolicyServer` refines it
(`CallsAnsweredByThemselves`): a thread's call is "asked" from the moment its body has
been read, so `AwaitBody` is `Leave` or a stutter, `AskWatsonx` is `Take`, an answer at
once is a `Take` that answers, the steps through the cache are stutters, and what ends a
call is `Answer`. No token is ever used where the request to IAM cannot be built
(`NoTokenUnasked`), so such a service permits no decision of Watsonx. That each answer
lies in `MayAnswer` is where the lemmas on the mock come in: its answer is the default of
the mode. The refinement carries over to the composition (`LoopServesByItself`), as does
the one of `RequestGate` (`LoopIsAGate`).

**Liveness.** The theorems on liveness have the form

```
 fair specification /\ []CanProceed => property
```

where `CanProceed` is an invariant that some fair action is enabled: `WaitsCanEnd`
for the filter (whose held frames, where there is a timer, always have somebody left to
settle them), `CallsCanProceed` for the service, `LoopCanProceed` for both together. The
prover cannot reason about `ENABLED`, so that these three are invariants is left to
TLC, on the runs `filter_stream`, `service_cache` and `loop_liveness`; all else is
proved, for every value of the constants:

* `HeldFramesAreResolved`: a stream with held frames is in `send`, in flight or
  resolved; the return of `send` leads to one of the other two, an answer to the last.
* `EveryCallEnds`: each step of a call takes its thread forward (`OneCallEnds`): test,
  fetch or return, store, chat, answer. No other thread's step takes it back.
* `HeldFramesAreAnswered`: a call the filter waits for is being sent, sent, taken,
  answered or lost (`UnderWay`), never goes back (the stages are ordered), and each stage
  has a fair action that ends it; the stage in between, work on the call, is
  `EveryCallEnds`.

From these follow the refinements of the abstract specifications with their liveness.
A client of `VerdictService` waits exactly while a thread has its call
(`WaitingIsInCall`), so the service refines `LiveSpec` of that module
(`CallsAnsweredInTheEnd`). A request of which something has been received, and nothing
passed on or answered, is held back (`UnsettledIsHeld`, from `FramesInOrder`), so the
filter refines `LiveSpec` of `RequestGate` where it has a timer (`FilterIsALiveGate`),
and, with the service behind it, where it has none (`LoopIsALiveGate`; the service's
side is `LoopServesToTheEnd`).

**How far the promises are broken.** Next to each finding stands a theorem that bounds it:
the promise is kept but for counterexamples of a stated kind. `RouteDenyHasOneException`:
DENY on a route is taken but for an incapable client where the route requires PQC and
allows fallback, and then only outside PQC_ONLY. `UnspecifiedDiffersInPreference`:
unspecified and CLASSICAL differ at most in that one answers `prefer_hybrid` where the
other answers `allow`. `OnlyRaisingLeavesUndecided`: when the service fails open, a step
of a thread leaves a well-formed call undecided exactly if it raises what is no
`WatsonxClientError`: the request to IAM cannot be built, IAM answers what is no object,
the request to Watsonx cannot be built, or what it says makes the JSON parser give up.
`PqcOnlyHasOneException`: the promise of PQC_ONLY is broken only by a decision of a policy
service that is configured; no failure, and no local decision, breaks it. With the
modelled service behind the filter, it takes a decision of Watsonx itself in live mode
(`PqcOnlyKeptByMock`). `MockListsNeverDecide`: every answer of the mock, to any client, is
the default of the call's mode and capability.

**Model-checked only**: `WaitsCanEnd`, `CallsCanProceed` and `LoopCanProceed`
(`ENABLED` is out of the prover's reach). Every other property of a passing run is
stated by a theorem, the three liveness properties under these as hypotheses.

## Findings

1. **A service decision skips the guardrails** (`pqc_only_service_decision`). In
   PQC_ONLY mode an `allow` or `fallback` from the policy service forwards a client
   without PQC; `pqc_filter.proto` words the mode as "Pure PQC mode: quantum-safe only,
   no fallback". The service document wants Envoy to enforce the returned action, so
   one of the two texts is too strong.
2. **Unspecified is not CLASSICAL** (`unspecified_mode`). `pqc_filter.proto` says it
   defaults to CLASSICAL; the downgrade of PREFER_HYBRID applies to CLASSICAL only.
3. **DENY on a route** (`route_deny`) is not reached for an incapable client when the
   route also has `require_pqc` and `allow_fallback`: it gets FALLBACK, while a capable
   client of the same route is denied.

4. **Failing open has holes** (`fail_open_error`). `service.py:21` falls back on
   `WatsonxClientError` only, and four steps of `watsonx_client.py` raise something else,
   on which the service answers 500 instead of falling back to the mock, as
   `services/watsonx_policy_service/README.md:8` says it does: `payload.get` (line 115) on
   an IAM answer that is JSON but no object; `parse.urlencode` (99-102) and `parse.quote`
   (54) on a key or an API version with bytes that are not UTF-8; `request.Request`
   (64-73) on a `WATSONX_URL` without a scheme, which `watsonx_ready` lets pass; and
   `json.loads` (33) on a text that is too deeply nested or has too long a number, whose
   errors are no `JSONDecodeError`. A service that fails closed answers 500 there too, not
   its 502, which the filter treats alike.
5. **The mock's lists are without effect** (`mock_lists`). In hybrid mode fallback is
   always allowed, and the other modes never look at the lists; the denial in
   `mock_policy.py:49-52` is unreachable, although `docs/WATSONX_POLICY_SERVICE.md`
   says that service name and path matter.

A neighbour of the third, excluded by the precondition `NoDenyForCapableOnly`: with
DENY as the default action, a service listed in `allow_fallback_services` only serves
incapable clients and denies capable ones.

## Not modelled

* **Configuration validator** (`src/config/validator.cc`). It would reject an unset mode
  and a policy service without a cluster, but nothing calls it; the filter therefore
  runs on both, and is modelled on both.
* **Filter factory** (`config.cc`). It creates the shared configuration and one filter
  per stream; that is `Init`.
* **Feature flags**, **fallback manager**, **metrics**, **logger**, **network filter**:
  a message no code reads, and stubs without behaviour.
* **Timeouts that are negative or out of range.** `durationToMilliseconds`
  (`pqc_filter.cc:171`) throws on them, out of `decodeHeaders` and on every request that
  reaches the policy service; `Duration` has only those it converts. Nothing validates the
  field.
* **Reasons, prompts and logs**, `client_ip`, the SNI once the service is named,
  handshake durations: no branch depends on them.
* **Watsonx and IAM** as services: they may say anything their replies can be read as,
  except that IAM's tokens live for between `Lifetime` and `Lifetime + Jitter`. What
  Watsonx decides is not constrained by the prompt's rules; that is why the guarantees on
  the mode exempt it.
* **Several streams of one filter configuration**: streams share only the configuration,
  which never changes, and the service, where the other threads stand for them.

## Plan

Done: the local decision, the filter and its refinement, the policy service with its
token cache and its refinement, the composition `PolicyLoop`, the refinements with
liveness, and the proofs about all of them. Left, and out of reach of the prover as it
is: that `WaitsCanEnd`, `CallsCanProceed` and `LoopCanProceed` are invariants for every
value of the constants. With rules for `ENABLED` the hypotheses they stand for in the
theorems on liveness could be discharged. A clock that is set back, under which a
cached token is taken for fresh too long, would need a different account of time.
