---------------------------- MODULE MCPolicyLoop ----------------------------
(***************************************************************************)
(* Small values for the constants of PolicyLoop: what makes the filter and *)
(* the service disagree, if anything does.                                 *)
(***************************************************************************)
EXTENDS PolicyLoop

CONSTANTS t1, t2

MCToken == {"*", "/", "[", "]", ":", Blank, "payments", "unknown-service", "GET", "POST",
            "TLS", "ML_KEM", "ML_DSA", "SLH_DSA", "https", "url", "key", "project", "llama", "Deny", "on"}
             \cup ServiceMode \cup DecisionMode \cup TrueWord \cup FalseWord
             \cup AllowedAction

MCLowerCase == [t \in MCToken |-> IF t = "Deny" THEN "deny" ELSE t]

-----------------------------------------------------------------------------
(* The filter's side *)

NoPolicy == [default_action          |-> "unspecified",
             route_policies          |-> << >>,
             require_pqc_services    |-> {},
             allow_fallback_services |-> {}]

Policies == {NoPolicy, [NoPolicy EXCEPT !.default_action = "prefer_hybrid"]}

Asking == [enabled : {"unset"}, mode : Mode, policy : Policies, has_policy_service : {TRUE},
           path : {"unset"}, fail_open : {"unset", "false"}, timeout : {<< >>, <<0>>}]

\* One filter that asks at a path the service does not serve, one that does not ask
\* and one that is off.
Odd(mode) == [CHOOSE c \in Asking : c.mode = mode /\ c.policy = NoPolicy /\ c.fail_open = "unset"
                EXCEPT !.path = "other"]

MCConfigs == Asking \cup {Odd("hybrid"),
                          [Odd("pqc_only") EXCEPT !.has_policy_service = FALSE],
                          [Odd("hybrid") EXCEPT !.enabled = "false"]}

\* Filters without a timer, one failing open and one failing closed.
FewConfigs == {c \in Asking : c.mode = "hybrid" /\ c.policy = NoPolicy /\ c.timeout = <<0>>}

\* A request of which nothing but the client's cipher is known, or the service too.
Over(cipher, host) ==
  [headers    |-> [method |-> << >>, path |-> << >>, host |-> host],
   connection |-> [kind |-> "tls", cipher |-> cipher, tls_version |-> << >>, sni |-> << >>]]

MCRequests == {Over(cipher, host) : cipher \in {<<"TLS">>, <<"ML_KEM">>},
                                    host \in {<< >>, <<"payments">>}}

OneRequest == {Over(<<"TLS">>, <<"payments">>)}

-----------------------------------------------------------------------------
(* The service's side *)

Live == [decision_mode             |-> << <<"live">> >>,
         fail_open                 |-> << >>,
         watsonx_url               |-> << <<"https", ":", "url">> >>,
         watsonx_project_id        |-> << <<"project">> >>,
         watsonx_model_id          |-> << >>,
         watsonx_api_version       |-> << >>,
         ibm_cloud_apikey          |-> << <<"key">> >>,
         require_pqc_services      |-> {},
         allow_fallback_services   |-> {},
         require_pqc_path_prefixes |-> {}]

\* The mock with a sensitive service, and Watsonx failing open, failing closed,
\* without credentials and with a URL that has no scheme.
MCEnvironments == {[Live EXCEPT !.decision_mode = << >>, !.require_pqc_services = {<<"payments">>}],
                   Live,
                   [Live EXCEPT !.fail_open = << <<"false">> >>],
                   [Live EXCEPT !.ibm_cloud_apikey = << >>],
                   [Live EXCEPT !.watsonx_url = << <<"url">> >>]}

LiveOnly == {Live}

\* What the filter asks about the requests above.
FilterRequestsOf(requests, modes) ==
  {BuildAgentPolicyRequest(ExtractPqcContext(r), m) : r \in requests, m \in modes}

MCFilterRequests == FilterRequestsOf(MCRequests, Mode)

OneFilterRequest == FilterRequestsOf(OneRequest, {"hybrid"})

\* A client that never sends its body.
StalledCalls == {[method |-> "POST", path |-> "evaluate", body |-> [kind |-> "withheld"]]}

Saying(word) == [kind |-> "object", action |-> Text(<<word>>), reason |-> Text(<<"key">>)]

\* The two extreme actions, one spelled wrong, and none.
MCChatReplies == {Saying("allow"), Saying("deny"), Saying("Deny"), [kind |-> "failed"]}

AllowOrFail == {Saying("allow"), [kind |-> "failed"]}

MCResponses == {ResponseOf(a) : a \in HttpAnswer} \cup {Gateway(503), Gateway(504)}

=============================================================================
