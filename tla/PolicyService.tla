--------------------------- MODULE PolicyService ---------------------------
(***************************************************************************)
(* The policy service (services/watsonx_policy_service/app) as far as it   *)
(* is a function: what it reads from its environment and from a call, the  *)
(* mock policy, and how the results of IAM and of Watsonx turn into an     *)
(* HTTP answer.  PolicyServer runs its threads.                            *)
(*                                                                         *)
(* lower() is a function on tokens, so that a name and its capitalised     *)
(* form are two tokens.                                                    *)
(***************************************************************************)
EXTENDS LocalPolicyClient

CONSTANT LowerCase   \* str.lower, token by token

\* The space character.
Blank == "blank"

\* Bytes of the environment that are not UTF-8: they become characters that cannot
\* be encoded.
Undecodable == "undecodable"

Encodable(value) == \A i \in DOMAIN value : value[i] # Undecodable

ServiceMode == {"classical", "hybrid", "pqc_only"}

DecisionMode == {"mock", "live"}

TrueWord == {"true", "1", "yes"}

FalseWord == {"false", "0", "no"}

AllowedAction == {"allow", "prefer_hybrid", "fallback", "deny"}

ASSUME WordsAssumption ==
  ServiceMode \cup DecisionMode \cup TrueWord \cup FalseWord \cup AllowedAction
    \cup {Blank, "on", "unknown-service", "GET"} \subseteq Token

ASSUME LowerCaseAssumption ==
  /\ LowerCase \in [Token -> Token]
  /\ \A word \in ServiceMode \cup TrueWord \cup FalseWord :
       LowerCase[word] = word

Lower(value) == [i \in DOMAIN value |-> LowerCase[value[i]]]

\* str.strip
Strip(value) ==
  LET kept == {i \in DOMAIN value : value[i] # Blank}
  IN IF kept = {} THEN EmptyString ELSE SubSeq(value, Min(kept), Max(kept))

-----------------------------------------------------------------------------
(* settings.py *)

\* An environment variable: the empty tuple when it is not set.
EnvVariable == {v \in Seq(String) : Len(v) <= 1}

\* os.getenv
GetEnv(variable, default) == IF variable = << >> THEN default ELSE variable[1]

\* _env_bool: what is set to anything else is false.
EnvBool(variable, default) ==
  IF variable = << >>
  THEN default
  ELSE \E w \in TrueWord \cup {"on"} : Lower(Strip(variable[1])) = <<w>>

\* What load_settings reads and some code uses; the lists by their items.
Environment == [decision_mode             : EnvVariable,
                fail_open                 : EnvVariable,
                watsonx_url               : EnvVariable,
                watsonx_project_id        : EnvVariable,
                watsonx_model_id          : EnvVariable,
                watsonx_api_version       : EnvVariable,
                ibm_cloud_apikey          : EnvVariable,
                require_pqc_services      : SUBSET String,
                allow_fallback_services   : SUBSET String,
                require_pqc_path_prefixes : SUBSET String]

\* The decision modes an environment selects, none or one.
DecisionModeOf(environment) ==
  {m \in DecisionMode :
     Lower(Strip(GetEnv(environment.decision_mode, <<"mock">>))) = <<m>>}

\* With another decision mode the program stops before it serves anything.
Starts(environment) == DecisionModeOf(environment) # {}

\* Settings.watsonx_ready: the URL without trailing slashes, the project, the
\* model and the key are texts that are not blank.  The model has a default.
WatsonxReady(environment) ==
  /\ Strip(GetEnv(environment.watsonx_url, << >>)) \notin Seq({"/"})
  /\ EmptyString \notin {Strip(GetEnv(environment.watsonx_project_id, << >>)),
                         Strip(GetEnv(environment.watsonx_model_id, <<"llama">>)),
                         Strip(GetEnv(environment.ibm_cloud_apikey, << >>))}

\* urllib's splittype: a colon with something before it, and no slash before it.
HasScheme(url) == \E i \in 2..Len(url) : /\ url[i] = ":"
                                        /\ \A j \in 1..(i - 1) : url[j] \notin {":", "/"}

\* Whether the form of the IAM request can be encoded, and the request to Watsonx
\* be built: parse.urlencode, parse.quote and request.Request raise where not.
IamRequestBuilt(environment) == Encodable(GetEnv(environment.ibm_cloud_apikey, << >>))

ChatRequestBuilt(environment) ==
  /\ Encodable(GetEnv(environment.watsonx_api_version, <<"2024-10-08">>))
  /\ HasScheme(Strip(GetEnv(environment.watsonx_url, << >>)))

\* _split_csv, on the items between the commas.
SplitCsv(items) == {Lower(Strip(item)) : item \in items} \ {EmptyString}

\* Settings, with what follows from them for the requests of WatsonxPolicyClient.
LoadSettings(environment) ==
  [decision_mode             |-> CHOOSE m \in DecisionModeOf(environment) : TRUE,
   fail_open                 |-> EnvBool(environment.fail_open, TRUE),
   watsonx_ready             |-> WatsonxReady(environment),
   iam_request_built         |-> IamRequestBuilt(environment),
   chat_request_built        |-> ChatRequestBuilt(environment),
   require_pqc_services      |-> SplitCsv(environment.require_pqc_services),
   allow_fallback_services   |-> SplitCsv(environment.allow_fallback_services),
   require_pqc_path_prefixes |-> SplitCsv(environment.require_pqc_path_prefixes)]

-----------------------------------------------------------------------------
(* models.py *)

\* A member of a JSON object: missing or null, a text, a Boolean, or anything
\* else.
Field == [kind : {"absent", "other"}]
           \cup [kind : {"text"}, text : String]
           \cup [kind : {"bool"}, value : BOOLEAN]

\* The body of a call.  "withheld": shorter than Content-Length says, on a
\* connection that stays open.  "unreadable": a Content-Length that is not a
\* number, bytes that are not UTF-8, or JSON that the parser gives up on (nested too
\* deep, a number too long).  An empty body reads as an object without members.
\* `extras' stands for the five texts that may be absent.
Body == [kind : {"withheld", "unreadable", "not_json", "not_object"}]
          \cup [kind           : {"object"},
                service_name   : Field,
                request_method : Field,
                request_path   : Field,
                mode           : Field,
                pqc_capable    : Field,
                extras         : Field]

PolicyRequest == [service_name : String,
                  request_path : String,
                  mode         : ServiceMode,
                  pqc_capable  : BOOLEAN]

\* _coerce_text followed by strip(); what is not a text cannot be required.
TextOf(field) == IF field.kind = "text" THEN Strip(field.text) ELSE EmptyString

\* _coerce_bool: the Boolean values a field stands for, none or one.
CoerceBool(field) ==
  CASE field.kind = "bool" -> {field.value}
    [] field.kind = "text" -> LET word == Lower(TextOf(field))
                              IN {b \in BOOLEAN :
                                    \E w \in IF b THEN TrueWord ELSE FalseWord :
                                      word = <<w>>}
    [] OTHER -> {}

ModeOf(field) == {m \in ServiceMode : Lower(TextOf(field)) = <<m>>}

\* PolicyRequest.from_dict raises nothing.
IsPolicyRequest(body) ==
  /\ body.kind = "object"
  /\ ModeOf(body.mode) # {}
  /\ \A text \in {body.service_name, body.request_method, body.request_path} :
       TextOf(text) # EmptyString
  /\ CoerceBool(body.pqc_capable) # {}
  /\ body.extras.kind \in {"absent", "text"}

\* PolicyRequest.from_dict
PolicyRequestOf(body) ==
  [service_name |-> TextOf(body.service_name),
   request_path |-> TextOf(body.request_path),
   mode         |-> CHOOSE m \in ModeOf(body.mode) : TRUE,
   pqc_capable  |-> CHOOSE b \in CoerceBool(body.pqc_capable) : TRUE]

-----------------------------------------------------------------------------
(* mock_policy.py *)

RequiresPqc(request, settings) ==
  \/ Lower(request.service_name) \in settings.require_pqc_services
  \/ \E prefix \in settings.require_pqc_path_prefixes :
       IsPrefix(prefix, request.request_path)

AllowsFallback(request, settings) ==
  \/ request.mode = "hybrid"
  \/ Lower(request.service_name) \in settings.allow_fallback_services

\* Bug variant: a sensitive service is looked at before the mode.
MockPolicyServiceFirst(request, settings) ==
  CASE RequiresPqc(request, settings) ->
         IF request.pqc_capable THEN "prefer_hybrid"
         ELSE IF AllowsFallback(request, settings) THEN "fallback" ELSE "deny"
    [] request.mode = "pqc_only" ->
         IF request.pqc_capable THEN "allow" ELSE "deny"
    [] request.mode = "hybrid" ->
         IF request.pqc_capable THEN "prefer_hybrid" ELSE "fallback"
    [] OTHER -> "allow"

\* Bug variant: an incapable client in hybrid mode matches nothing.
MockPolicyUnmatched(request, settings) ==
  CASE request.mode = "hybrid" /\ ~request.pqc_capable -> "unspecified"
    [] request.mode = "pqc_only" /\ ~request.pqc_capable -> "deny"
    [] request.mode = "hybrid" /\ request.pqc_capable -> "prefer_hybrid"
    [] OTHER -> "allow"

\* evaluate_mock_policy.  Validation leaves no fourth mode.
MockPolicy(request, settings) ==
  CASE request.mode = "classical" -> "allow"
    [] request.mode = "pqc_only" ->
         IF request.pqc_capable THEN "allow" ELSE "deny"
    [] request.mode = "hybrid" /\ RequiresPqc(request, settings) ->
         IF request.pqc_capable THEN "prefer_hybrid"
         ELSE IF AllowsFallback(request, settings) THEN "fallback" ELSE "deny"
    [] request.mode = "hybrid" /\ ~RequiresPqc(request, settings) ->
         IF request.pqc_capable THEN "prefer_hybrid" ELSE "fallback"

-----------------------------------------------------------------------------
(* What Watsonx says *)

\* A chat that fails, or has no message, a message that is not a text, a text
\* that is not JSON once a code fence is removed, JSON without members, or JSON that
\* the parser gives up on, which is no JSONDecodeError.
ChatReply == [kind : {"failed", "no_message", "not_text", "not_json", "not_object",
                      "unparsable"}]
               \cup [kind : {"object"}, action : Field, reason : Field]

\* Bug variant: the action is not compared with the allowed ones.
DecidedByAnyWord(reply) ==
  {a \in Token : /\ reply.kind = "object"
                 /\ reply.action = [kind |-> "text", text |-> <<a>>]
                 /\ TextOf(reply.reason) # EmptyString}

\* The actions a reply decides, none or one: an allowed action, spelled as it is
\* in the prompt, with a reason.
DecidedBy(reply) ==
  {a \in AllowedAction : /\ reply.kind = "object"
                         /\ reply.action = [kind |-> "text", text |-> <<a>>]
                         /\ TextOf(reply.reason) # EmptyString}

-----------------------------------------------------------------------------
(* service.py and server.py *)

\* A call of the HTTP server: GET or POST, to one of the paths it knows.
Call == [method : {"GET", "POST"}, path : {"evaluate", "healthz", "other"},
         body : Body]

\* do_POST waits for the rest of the body.
Withheld(call) ==
  call.method = "POST" /\ call.path = "evaluate" /\ call.body.kind = "withheld"

ErrorAnswer(status) == [status |-> status, action |-> "none", source |-> "none"]

\* The reason of an answer tells where its action comes from.
OkAnswer(action, source) == [status |-> 200, action |-> action, source |-> source]

HttpAnswer == {ErrorAnswer(status) : status \in {200, 400, 404, 500, 502}}
                \cup {OkAnswer(action, source) :
                         action \in AllowedAction,
                         source \in {"mock", "watsonx", "mock_fallback"}}

\* What do_GET and do_POST answer without asking the decision service, if so.
ImmediateAnswer(call) ==
  CASE call.method = "GET" ->
         {ErrorAnswer(IF call.path = "healthz" THEN 200 ELSE 404)}
    [] call.path # "evaluate" -> {ErrorAnswer(404)}
    [] call.body.kind = "unreadable" -> {ErrorAnswer(500)}
    [] ~IsPolicyRequest(call.body) -> {ErrorAnswer(400)}
    [] OTHER -> {}

\* Bug variant: the fallback is applied without asking whether it may be.
WatsonxFailsAlwaysOpen(call, settings) ==
  OkAnswer(MockPolicy(PolicyRequestOf(call.body), settings), "mock_fallback")

\* Bug variant: failing open is taken to mean that the request is allowed.
WatsonxFailsAllowing(call, settings) ==
  IF settings.fail_open THEN OkAnswer("allow", "mock_fallback") ELSE ErrorAnswer(502)

\* The answer after a WatsonxClientError.
WatsonxFails(call, settings) ==
  IF settings.fail_open
  THEN OkAnswer(MockPolicy(PolicyRequestOf(call.body), settings), "mock_fallback")
  ELSE ErrorAnswer(502)

-----------------------------------------------------------------------------
(* The filter's side of a call *)

\* Bug variant: only hybrid is handed on.
ModeToPolicyServiceValueForgotten(mode) ==
  IF mode = "hybrid" THEN mode ELSE "classical"

\* modeToPolicyServiceValue
ModeToPolicyServiceValue(mode) == IF mode = "unspecified" THEN "classical" ELSE mode

Text(value) == [kind |-> "text", text |-> value]

StringOrDefault(value, default) == IF value = EmptyString THEN default ELSE value

\* Bug variant: absent texts are sent as they are.
BuildPolicyServiceRequestWithoutDefaults(request, path) ==
  [method |-> "POST",
   path   |-> path,
   body   |-> [kind           |-> "object",
               service_name   |-> Text(request.service_name),
               request_method |-> Text(request.request_method),
               request_path   |-> Text(request.request_path),
               mode           |-> Text(<<ModeToPolicyServiceValue(request.mode)>>),
               pqc_capable    |-> [kind |-> "bool", value |-> request.pqc_capable],
               extras         |-> Text(request.cipher_suite)]]

\* buildPolicyServiceRequest
BuildPolicyServiceRequest(request, path) ==
  [method |-> "POST",
   path   |-> path,
   body   |->
     [kind           |-> "object",
      service_name   |-> Text(StringOrDefault(request.service_name,
                                              <<"unknown-service">>)),
      request_method |-> Text(StringOrDefault(request.request_method, <<"GET">>)),
      request_path   |-> Text(StringOrDefault(request.request_path, <<"/">>)),
      mode           |-> Text(<<ModeToPolicyServiceValue(request.mode)>>),
      pqc_capable    |-> [kind |-> "bool", value |-> request.pqc_capable],
      extras         |-> Text(request.cipher_suite)]]

=============================================================================
