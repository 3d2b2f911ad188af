----------------------------- MODULE MCPqcFilter -----------------------------
(***************************************************************************)
(* Small values for the constants of PqcFilter.                            *)
(***************************************************************************)
EXTENDS PqcFilter

MCToken == {"*", "/", "[", "]", ":", "443", "payments", "catalog", "cards",
            "GET", "TLS", "TLSv1.3", "AES", "ML_KEM", "ML_DSA", "SLH_DSA"}

\* Policies: none; a route that requires PQC and offers fallback; a service that
\* requires PQC; and defaults that prefer hybrid, fall back, or are no action the
\* enum names.
NoPolicy == [default_action          |-> "unspecified",
             route_policies          |-> << >>,
             require_pqc_services    |-> {},
             allow_fallback_services |-> {}]

CardsPolicy ==
  [NoPolicy EXCEPT
     !.route_policies = <<[route_pattern  |-> <<"/", "cards", "*">>,
                           action         |-> "unspecified",
                           require_pqc    |-> "true",
                           allow_fallback |-> "true",
                           priority       |-> 1]>>]

PaymentsPolicy == [NoPolicy EXCEPT !.require_pqc_services = {<<"payments">>}]

DefaultPolicy(action) == [NoPolicy EXCEPT !.default_action = action]

MCPolicies == {NoPolicy, CardsPolicy, PaymentsPolicy,
               DefaultPolicy("prefer_hybrid"), DefaultPolicy("fallback"),
               DefaultPolicy("unknown")}

MCTimeouts == {<< >>, <<0>>, <<999>>, <<2000000>>}

LocalConfigs == [enabled : BoolValue, mode : Mode, policy : MCPolicies,
                 has_policy_service : {FALSE}, path : {"unset"}, fail_open : {"unset"},
                 timeout : {<< >>}]

\* With a policy service, every mode and failure mode; the local policies that
\* fail-open falls back to; and a timer that is unset, off, rounded to off, or on.
ServiceConfigs == [enabled : {"unset"}, mode : Mode, policy : MCPolicies,
                   has_policy_service : {TRUE}, path : {"unset"}, fail_open : BoolValue,
                   timeout : MCTimeouts]

\* The configurations that tell apart how a wait can end.
WaitingConfigs == {c \in ServiceConfigs : /\ c.mode = "pqc_only"
                                          /\ c.policy = CardsPolicy}

MCConfigs == LocalConfigs \cup ServiceConfigs

Capable   == [kind |-> "tls", cipher |-> <<"TLS", "ML_KEM", "AES">>,
              tls_version |-> <<"TLSv1.3">>, sni |-> <<"payments">>]

Classical == [kind |-> "tls", cipher |-> <<"TLS", "AES">>,
              tls_version |-> <<"TLSv1.3">>, sni |-> <<"payments">>]

Plain     == [kind |-> "plain"]

Get(host, path) == [method |-> <<"GET">>, path |-> path, host |-> host]

MCRequests ==
  {[headers    |-> Get(<<"payments", ":", "443">>, <<"/", "cards">>),
    connection |-> c] : c \in {Capable, Classical}}
  \cup {[headers |-> Get(<< >>, <<"/">>), connection |-> Classical],
        [headers |-> Get(<<"catalog">>, <<"/">>), connection |-> Plain],
        [headers |-> Get(<<"catalog">>, <<"/">>), connection |-> Capable]}

\* Each action the service may name, and a response for each way it fails:
\* a timeout, a 200 with no body, a body that does not parse, a missing or
\* ill-typed or unknown action, a missing reason, and no status at all.
GoodResponse == [status |-> 200, body |-> "object", action |-> "allow",
                 reason |-> "string"]

FewResponses == {GoodResponse, [GoodResponse EXCEPT !.action = "deny"],
                 [GoodResponse EXCEPT !.status = 504]}

AllResponses ==
  FewResponses
  \cup {[GoodResponse EXCEPT !.action = a] :
           a \in ServiceActionValue \cup {"unsupported"}}
  \cup {[GoodResponse EXCEPT !.action = a] : a \in {"absent", "not_a_string"}}
  \cup {[GoodResponse EXCEPT !.reason = r] : r \in {"absent", "not_a_string"}}
  \cup {[GoodResponse EXCEPT !.body = b] : b \in {"empty", "not_an_object"}}
  \cup {[GoodResponse EXCEPT !.status = 0]}

=============================================================================
