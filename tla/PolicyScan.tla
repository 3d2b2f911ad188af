----------------------------- MODULE PolicyScan -----------------------------
(***************************************************************************)
(* The loop of PolicyEngine::evaluate over route_policies, one iteration   *)
(* per step.  BestMatch of PolicyEngine says what it computes; this module *)
(* is how, and the invariant BestSoFar is why the two agree.               *)
(***************************************************************************)
EXTENDS PolicyEngine

CONSTANTS PolicyLists,  \* the values of PolicyConfig.route_policies to scan
          Routes        \* the request paths to match

ASSUME PolicyListsAssumption == PolicyLists \subseteq Seq(RoutePolicy)
ASSUME RoutesAssumption      == Routes \subseteq String

VARIABLES policies,    \* config_.route_policies()
          route,
          position,    \* the route policy the loop is at
          best_match   \* the index of *best_match, 0 for nullptr

vars == <<policies, route, position, best_match>>

Init == /\ policies \in PolicyLists
        /\ route \in Routes
        /\ position = 1
        /\ best_match = 0

Done == position > Len(policies)

\* The loop goes on to the next route policy.
Advance == /\ ~Done
           /\ position' = position + 1
           /\ UNCHANGED <<policies, route>>

\* Bug variants: the last match wins; a later policy of the same priority
\* displaces an earlier one.
LastMatchWins(i) == TRUE

BetterOrEqual(i) ==
  best_match # 0 => policies[i].priority >= policies[best_match].priority

\* A candidate replaces the best match only by a strictly higher priority.
Better(i) ==
  best_match # 0 => policies[i].priority > policies[best_match].priority

Skip == /\ Advance
        /\ ~Matches(policies, position, route)
        /\ UNCHANGED best_match

Keep == /\ Advance
        /\ Matches(policies, position, route)
        /\ ~Better(position)
        /\ UNCHANGED best_match

\* Bug variant: a policy displaces the best match whether or not it matches.
ReplaceUnmatched == /\ Advance
                    /\ Better(position)
                    /\ best_match' = position

Replace == /\ Advance
           /\ Matches(policies, position, route)
           /\ Better(position)
           /\ best_match' = position

Next == Skip \/ Keep \/ Replace

Spec == Init /\ [][Next]_vars

-----------------------------------------------------------------------------
TypeOK == /\ policies \in Seq(RoutePolicy)
          /\ route \in String
          /\ position \in 1..(Len(policies) + 1)
          /\ best_match \in 0..(position - 1)

\* The matching policies the loop has seen.
Seen == {i \in MatchingPolicies(policies, route) : i < position}

\* At every iteration best_match wins over every other matching policy seen so
\* far: highest priority, and the first listed among equals.
BestSoFar == /\ best_match = 0 <=> Seen = {}
             /\ best_match # 0 => /\ best_match \in Seen
                                  /\ \A j \in Seen \ {best_match} :
                                       WinsOver(policies, best_match, j)

\* When the loop ends, best_match is the winner among all matching policies.
ScanFindsBest == Done => best_match = BestMatch(policies, route)

\* The list in another order: position i holds what was at f[i].
Reordered(list, f) == [i \in DOMAIN list |-> list[f[i]]]

\* Listing the policies in any other order changes the winner only where two
\* matching policies have the same priority.
OrderMattersOnlyForTies ==
  Done /\ best_match # 0 =>
    \A f \in Bijection(DOMAIN policies, DOMAIN policies) :
      LET ties == {i \in Seen \ {best_match} :
                     policies[i].priority = policies[best_match].priority}
          reordered == Reordered(policies, f)
          winner == BestMatch(reordered, route)
      IN IF ties = {}
         THEN reordered[winner] = policies[best_match]
         ELSE reordered[winner].priority = policies[best_match].priority

=============================================================================
