--------------------------- MODULE MCPolicyServer ---------------------------
(***************************************************************************)
(* Two sets of values: one call and one environment for the token cache,   *)
(* and many calls and environments for what a thread answers.              *)
(***************************************************************************)
EXTENDS PolicyServer

CONSTANTS t1, t2, t3

ThreadSymmetry == Permutations(Thread)

MCToken == {"*", "/", Blank, "payments", "Payments", "catalog", "secure", "Hybrid",
            "unknown-service", "GET", "https", ":", "url", "key", "project", "llama",
            "2024-10-08", "Live", "ON", "on", "Deny", "other", Undecodable}
             \cup ServiceMode \cup DecisionMode \cup TrueWord \cup FalseWord
             \cup AllowedAction

MCLowerCase == [t \in MCToken |-> CASE t = "Payments" -> "payments"
                                    [] t = "Hybrid"   -> "hybrid"
                                    [] t = "Live"     -> "live"
                                    [] t = "ON"       -> "on"
                                    [] t = "Deny"     -> "deny"
                                    [] OTHER          -> t]

Live == [decision_mode             |-> << <<"live">> >>,
         fail_open                 |-> << >>,
         watsonx_url               |-> << <<"https", ":", "/", "/", "url", "/">> >>,
         watsonx_project_id        |-> << <<"project">> >>,
         watsonx_model_id          |-> << >>,
         watsonx_api_version       |-> << >>,
         ibm_cloud_apikey          |-> << <<"key">> >>,
         require_pqc_services      |-> {},
         allow_fallback_services   |-> {},
         require_pqc_path_prefixes |-> {}]

LiveOnly == {Live}

\* Decision modes unset, capitalised and unknown; fail_open unset, true and false;
\* credentials complete, with nothing but a slash for a URL, and with something from
\* which no request can be built: a URL without a scheme, a version or a key that
\* cannot be encoded.
AllEnvironments ==
  {[Live EXCEPT !.decision_mode = mode, !.fail_open = open, !.watsonx_url = url,
                !.require_pqc_services = services,
                !.allow_fallback_services = fallbacks,
                !.require_pqc_path_prefixes = {<<"/", "secure">>}] :
     mode \in {<< >>, << <<Blank, "Live">> >>, << <<"other">> >>},
     open \in {<< >>, << <<"ON", Blank>> >>, << <<"no">> >>},
     url \in {Live.watsonx_url, << <<Blank, "/">> >>},
     services \in {{}, {<<Blank, "Payments">>, << >>}}, fallbacks \in {{}, {<<"payments">>}}}
    \cup {[Live EXCEPT !.watsonx_url = << <<"url", "/">> >>],
          [Live EXCEPT !.watsonx_url = << <<"/", "https", ":">> >>, !.fail_open = << <<"no">> >>],
          [Live EXCEPT !.watsonx_api_version = << <<Undecodable>> >>],
          [Live EXCEPT !.ibm_cloud_apikey = << <<"key", Undecodable>> >>]}

AllFilterRequests == [service_name   : {<< >>, <<"payments">>, <<"Payments">>},
                      request_method : {<<"GET">>},
                      request_path   : {<< >>, <<"/", "secure">>},
                      mode           : Mode,
                      pqc_capable    : BOOLEAN,
                      tls_version    : {<< >>},
                      cipher_suite   : {<< >>}]

OneFilterRequest == {CHOOSE r \in AllFilterRequests : r.mode = "hybrid"}

Plain == BuildPolicyServiceRequest(CHOOSE r \in AllFilterRequests : r.mode = "hybrid",
                                   "evaluate")

Fields == {[kind |-> "absent"], [kind |-> "other"], Text(<<Blank>>), Text(<<Blank, "Hybrid">>),
           Text(<<"yes", Blank>>), [kind |-> "bool", value |-> FALSE]}

\* Calls that differ from the filter's in one place.
ForeignCalls ==
  {[Plain EXCEPT !.method = "GET", !.path = path] : path \in {"healthz", "other"}}
    \cup {[Plain EXCEPT !.path = "other"]}
    \cup {[Plain EXCEPT !.body = [kind |-> kind]] :
            kind \in {"withheld", "unreadable", "not_json", "not_object"}}
    \cup {[Plain EXCEPT !.body[name] = field] :
            name \in {"service_name", "mode", "pqc_capable", "extras"}, field \in Fields}

NoOtherCalls == {}

Saying(word) == [kind |-> "object", action |-> Text(<<word>>), reason |-> Text(<<"catalog">>)]

Failed == [kind |-> "failed"]

OneDecision == {Saying("allow"), Failed}

\* Each action; an action of another spelling, no text, and a blank reason; and JSON
\* that cannot be read.
AllChatReplies ==
  {Saying(word) : word \in AllowedAction \cup {"Deny"}}
    \cup {Failed, [kind |-> "not_object"], [kind |-> "unparsable"],
          [Saying("allow") EXCEPT !.action = [kind |-> "other"]],
          [Saying("allow") EXCEPT !.reason = Text(<<Blank>>)]}

=============================================================================
