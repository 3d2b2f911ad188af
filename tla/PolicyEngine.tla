---------------------------- MODULE PolicyEngine ----------------------------
(***************************************************************************)
(* The local policy evaluator: src/filters/pqc/policy_engine.cc, as pure   *)
(* operators over the PolicyConfig message of src/config/policy.proto.     *)
(*                                                                         *)
(* A C++ string is a sequence of tokens: what the code does with a string  *)
(* (find one separator, compare, take a prefix) does not depend on how     *)
(* long the words between the separators are.  The human-readable reason   *)
(* and matched_route of a PolicyDecision are left out here: neither steers *)
(* anything, so a decision is its action.                                  *)
(***************************************************************************)
EXTENDS Integers, SequencesExt

CONSTANT Token      \* the words and separators strings are made of

ASSUME TokenAssumption == {"*", "/"} \subseteq Token

String == Seq(Token)

EmptyString == << >>

-----------------------------------------------------------------------------
(* policy.proto *)

\* enum PolicyAction, with ACTION_UNSPECIFIED as "unspecified".  proto3 keeps a
\* number that the enum does not name; "unknown" is any of these.  It is no
\* ACTION_UNSPECIFIED, so the code takes it for an explicit action.
PolicyAction ==
  {"unspecified", "allow", "deny", "fallback", "prefer_hybrid", "unknown"}

\* google.protobuf.BoolValue: a message field, which may be absent.
BoolValue == {"unset", "true", "false"}

\* "has_x() && x().value()".
IsTrue(field) == field = "true"

RoutePolicy == [route_pattern  : String,
                action         : PolicyAction,
                require_pqc    : BoolValue,
                allow_fallback : BoolValue,
                priority       : Int]

\* The two repeated service fields are only searched, so they are sets.
PolicyConfig == [default_action          : PolicyAction,
                 route_policies          : Seq(RoutePolicy),
                 require_pqc_services    : SUBSET String,
                 allow_fallback_services : SUBSET String]

-----------------------------------------------------------------------------
(* Route matching *)

\* The first position of a token, or 0: string_view::find.
FirstIndex(value, token) == SelectInSeq(value, LAMBDA t : t = token)

\* Only the first '*' of a pattern counts: what follows it is not compared.
MatchesRoutePattern(pattern, route) ==
  /\ pattern # EmptyString
  /\ LET wildcard == FirstIndex(pattern, "*")
     IN \/ pattern \in {<<"*">>, <<"/", "*">>}
        \/ wildcard = 0 /\ pattern = route
        \/ wildcard > 0 /\ IsPrefix(SubSeq(pattern, 1, wildcard - 1), route)

Matches(policies, i, route) ==
  MatchesRoutePattern(policies[i].route_pattern, route)

\* Every route policy that matches.
MatchingPolicies(policies, route) ==
  {i \in DOMAIN policies : Matches(policies, i, route)}

\* Policy i wins over policy j: a higher priority, or the same and listed first.
WinsOver(policies, i, j) ==
  \/ policies[i].priority > policies[j].priority
  \/ policies[i].priority = policies[j].priority /\ i < j

\* What the scan of PolicyEngine::evaluate leaves in best_match: the index of the
\* policy that wins over every other candidate, or 0, the null pointer, where
\* there is none.  PolicyScan models the loop that finds it.
BestMatch(policies, route) ==
  LET candidates == MatchingPolicies(policies, route)
      IsBest(i)  == \A j \in candidates \ {i} : WinsOver(policies, i, j)
  IN IF \E i \in candidates : IsBest(i)
     THEN CHOOSE i \in candidates : IsBest(i)
     ELSE 0

-----------------------------------------------------------------------------
(* PolicyEngine::evaluate: a matched route speaks first, then the service  *)
(* lists, then the default; "unspecified" passes the question on.          *)

\* Bug variant: the explicit action of a route is taken first.
RouteActionExplicitFirst(policy, pqc_capable) ==
  IF policy.action # "unspecified"
  THEN policy.action
  ELSE IF ~IsTrue(policy.require_pqc)
  THEN "unspecified"
  ELSE IF pqc_capable
  THEN "prefer_hybrid"
  ELSE IF IsTrue(policy.allow_fallback) THEN "fallback" ELSE "deny"

RouteAction(policy, pqc_capable) ==
  IF IsTrue(policy.require_pqc) /\ ~pqc_capable
  THEN IF IsTrue(policy.allow_fallback) THEN "fallback" ELSE "deny"
  ELSE IF policy.action # "unspecified"
  THEN policy.action
  ELSE IF IsTrue(policy.require_pqc) THEN "prefer_hybrid" ELSE "unspecified"

\* Bug variant: the capability test is inverted.
ServiceActionInverted(config, service_name, pqc_capable) ==
  IF service_name \notin config.require_pqc_services
  THEN "unspecified"
  ELSE IF ~pqc_capable THEN "prefer_hybrid" ELSE "deny"

\* An absent service name is the empty string (see RequestContext).
ServiceAction(config, service_name, pqc_capable) ==
  LET require_pqc    == service_name \in config.require_pqc_services
      allow_fallback == service_name \in config.allow_fallback_services
  IN IF service_name = EmptyString
     THEN "unspecified"
     ELSE IF require_pqc /\ pqc_capable
     THEN "prefer_hybrid"
     ELSE IF allow_fallback /\ ~pqc_capable
     THEN "fallback"
     ELSE IF require_pqc THEN "deny" ELSE "unspecified"

Evaluate(config, service_name, pqc_capable, route) ==
  LET best    == BestMatch(config.route_policies, route)
      byRoute == IF best = 0
                 THEN "unspecified"
                 ELSE RouteAction(config.route_policies[best], pqc_capable)
      byService == ServiceAction(config, service_name, pqc_capable)
  IN IF byRoute # "unspecified" THEN byRoute
     ELSE IF byService # "unspecified" THEN byService
     ELSE config.default_action

=============================================================================
