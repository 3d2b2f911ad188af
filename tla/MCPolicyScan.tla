---------------------------- MODULE MCPolicyScan ----------------------------
(***************************************************************************)
(* Every list of up to MaxPolicies route policies over a few patterns and  *)
(* priorities.                                                             *)
(***************************************************************************)
EXTENDS PolicyScan

CONSTANT MaxPolicies

MCToken == {"*", "/", "a", "b"}

MCPatterns == {<< >>, <<"*">>, <<"/", "*">>, <<"/", "a">>, <<"/", "a", "*">>,
               <<"*", "b">>, <<"/", "b", "*", "a">>}

MCRoutePolicies == [route_pattern : MCPatterns, action : {"allow"},
                    require_pqc : {"unset"}, allow_fallback : {"unset"},
                    priority : {-1, 0, 1}]

MCPolicyLists == BoundedSeq(MCRoutePolicies, MaxPolicies)

MCRoutes == {<<"/", "a">>, <<"/", "a", "b">>, <<"/", "b", "b">>}

=============================================================================
