--------------------------- MODULE MCLocalDecision ---------------------------
(***************************************************************************)
(* Every policy with at most one route policy and one named service, and a *)
(* request for each way its host, route and connection can relate to it.   *)
(***************************************************************************)
EXTENDS LocalDecision

MCToken == {"*", "/", "[", "]", ":", "::1", "443", "payments", "catalog",
            "cards", "GET", "TLS", "AES", "ML_KEM", "ML_DSA", "SLH_DSA"}

MCRoutePolicies == [route_pattern  : {<<"/", "cards", "*">>},
                    action         : PolicyAction,
                    require_pqc    : BoolValue,
                    allow_fallback : {"unset", "true"},
                    priority       : {0}]

Service == <<"payments">>

Address == <<"::1">>

MCPolicies ==
  [default_action          : PolicyAction,
   route_policies          : BoundedSeq(MCRoutePolicies, 1),
   require_pqc_services    : {{}, {Service}, {Service, Address}},
   allow_fallback_services : {{}, {Service}}]

Connections ==
  {[kind |-> "none"]}
  \cup [kind : {"tls"}, cipher : {<<"TLS", "AES">>, <<"TLS", "ML_KEM", "AES">>},
        tls_version : {<< >>}, sni : {<<"payments">>}]

Hosts == {<< >>, <<"payments">>, <<"payments", ":", "443">>,
          <<"[", "::1", "]">>, <<"catalog">>}

MCRequests ==
  [headers    : [method : {<<"GET">>}, host : Hosts,
                 path : {<<"/", "cards">>, <<"/">>}],
   connection : Connections]

=============================================================================
