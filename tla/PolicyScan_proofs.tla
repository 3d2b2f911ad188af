------------------------- MODULE PolicyScan_proofs -------------------------
(***************************************************************************)
(* The scan loop computes BestMatch, for every list of route policies.     *)
(***************************************************************************)
EXTENDS PolicyScan, RequestContext_proofs

\* Any two different positions are ordered by WinsOver, and by no more than one
\* direction of it.
LEMMA WinsOverIsStrictOrder ==
  ASSUME NEW ps \in Seq(RoutePolicy),
         NEW i \in DOMAIN ps, NEW j \in DOMAIN ps, NEW k \in DOMAIN ps
  PROVE  /\ i # j => WinsOver(ps, i, j) \/ WinsOver(ps, j, i)
         /\ ~ (WinsOver(ps, i, j) /\ WinsOver(ps, j, i))
         /\ WinsOver(ps, i, j) /\ WinsOver(ps, j, k) => WinsOver(ps, i, k)
<1>1. /\ DOMAIN ps = 1..Len(ps)
      /\ Len(ps) \in Nat
  BY LenProperties
<1>2. \A n \in DOMAIN ps : ps[n] \in RoutePolicy
  BY <1>1, ElementOfSeq
<1>3. \A n \in DOMAIN ps : ps[n].priority \in Int
  BY <1>2 DEF RoutePolicy
<1> QED
  BY <1>1, <1>3 DEF WinsOver

\* The type invariant, and what best_match means at every iteration.
Inv == TypeOK /\ BestSoFar

LEMMA InitInv == Init => Inv
<1> SUFFICES ASSUME Init
             PROVE  Inv
  OBVIOUS
<1>1. policies \in Seq(RoutePolicy) /\ route \in String
  BY PolicyListsAssumption, RoutesAssumption DEF Init
<1>2. Len(policies) \in Nat /\ DOMAIN policies = 1..Len(policies)
  BY <1>1, LenProperties
<1>3. Seen = {}
  BY <1>2 DEF Init, Seen, MatchingPolicies
<1> QED
  BY <1>1, <1>2, <1>3 DEF Init, Inv, TypeOK, BestSoFar

\* One iteration adds at most its own policy to those seen.
LEMMA SeenGrows ==
  ASSUME TypeOK, Advance
  PROVE  /\ TypeOK' <=> best_match' \in 0..position
         /\ position \in DOMAIN policies
         /\ Seen' = IF Matches(policies, position, route) THEN Seen \cup {position}
                                                        ELSE Seen
         /\ Seen \subseteq DOMAIN policies
         /\ position \notin Seen
<1>1. Len(policies) \in Nat /\ DOMAIN policies = 1..Len(policies)
  BY LenProperties DEF TypeOK
<1>2. /\ position \in Int
      /\ position <= Len(policies)
      /\ position' = position + 1
      /\ policies' = policies /\ route' = route
  BY <1>1 DEF TypeOK, Advance, Done
<1>3. position \in DOMAIN policies
  BY <1>1, <1>2 DEF TypeOK
<1>4. \A i \in DOMAIN policies : i < position + 1 <=> i < position \/ i = position
  BY <1>1, <1>2
<1>5. Seen' = {i \in MatchingPolicies(policies, route) : i < position + 1}
  BY <1>2 DEF Seen
<1>6. Seen' = IF Matches(policies, position, route) THEN Seen \cup {position} ELSE Seen
  BY <1>3, <1>4, <1>5 DEF Seen, MatchingPolicies
<1>7. Seen \subseteq DOMAIN policies /\ position \notin Seen
  BY <1>2 DEF Seen, MatchingPolicies
<1>8. TypeOK' <=> best_match' \in 0..position
  BY <1>1, <1>2 DEF TypeOK
<1> QED
  BY <1>3, <1>6, <1>7, <1>8

LEMMA NextInv == Inv /\ [Next]_vars => Inv'
<1> SUFFICES ASSUME Inv, [Next]_vars
             PROVE  Inv'
  OBVIOUS
<1> USE DEF Inv
<1>0. /\ policies \in Seq(RoutePolicy)
      /\ Len(policies) \in Nat /\ DOMAIN policies = 1..Len(policies)
      /\ position \in Nat \ {0}
      /\ best_match \in 0..(position - 1)
  BY LenProperties DEF TypeOK
<1>1. CASE Skip
  <2>1. Seen' = Seen /\ TypeOK'
    BY <1>0, <1>1, SeenGrows DEF Skip
  <2>2. best_match' = best_match /\ policies' = policies
    BY <1>1 DEF Skip, Advance
  <2> QED
    BY <2>1, <2>2 DEF BestSoFar, WinsOver
<1>2. CASE Keep
  <2>1. /\ Seen' = Seen \cup {position} /\ TypeOK'
        /\ position \in DOMAIN policies /\ Seen \subseteq DOMAIN policies
    BY <1>0, <1>2, SeenGrows DEF Keep
  <2>2. best_match' = best_match /\ policies' = policies
    BY <1>2 DEF Keep, Advance
  <2>3. /\ best_match # 0
        /\ ~ (policies[position].priority > policies[best_match].priority)
    BY <1>2 DEF Keep, Better
  <2>4. best_match \in Seen /\ \A j \in Seen \ {best_match} : WinsOver(policies, best_match, j)
    BY <2>3 DEF BestSoFar
  <2>5. best_match < position
    BY <2>4 DEF Seen
  <2>6. WinsOver(policies, best_match, position)
    BY <2>1, <2>3, <2>4, <2>5, <1>0, WinsOverIsStrictOrder DEF WinsOver
  <2>7. \A j \in Seen' \ {best_match} : WinsOver(policies, best_match, j)
    BY <2>1, <2>4, <2>6
  <2> QED
    BY <2>1, <2>2, <2>3, <2>4, <2>7 DEF BestSoFar, WinsOver
<1>3. CASE Replace
  <2>1. /\ Seen' = Seen \cup {position}
        /\ position \in DOMAIN policies /\ Seen \subseteq DOMAIN policies
        /\ TypeOK'
    BY <1>0, <1>3, SeenGrows DEF Replace
  <2>2. best_match' = position /\ policies' = policies /\ position # 0
    BY <1>0, <1>3 DEF Replace, Advance
  <2>3. best_match # 0 => WinsOver(policies, position, best_match)
    BY <1>3 DEF Replace, Better, WinsOver
  <2>4. \A j \in Seen : WinsOver(policies, position, j)
    <3>1. CASE best_match = 0
      BY <3>1 DEF BestSoFar
    <3>2. CASE best_match # 0
      <4>1. best_match \in Seen
        BY <3>2 DEF BestSoFar
      <4>2. \A j \in Seen \ {best_match} : WinsOver(policies, best_match, j)
        BY <3>2 DEF BestSoFar
      <4>3. WinsOver(policies, position, best_match)
        BY <2>3, <3>2
      <4>4. ASSUME NEW j \in Seen
            PROVE  WinsOver(policies, position, j)
        <5>1. j \in DOMAIN policies /\ best_match \in DOMAIN policies
          BY <2>1, <4>1
        <5> QED
          BY <4>2, <4>3, <5>1, <2>1, <1>0, WinsOverIsStrictOrder
      <4> QED
        BY <4>4
    <3> QED
      BY <3>1, <3>2
  <2>5. \A j \in Seen' \ {position} : WinsOver(policies, position, j)
    BY <2>1, <2>4
  <2>6. best_match' \in Seen' /\ best_match' # 0
    BY <2>1, <2>2
  <2> QED
    BY <2>1, <2>2, <2>5, <2>6 DEF BestSoFar, WinsOver
<1>4. CASE UNCHANGED vars
  BY <1>4 DEF vars, TypeOK, BestSoFar, Seen, MatchingPolicies, Matches, WinsOver
<1> QED
  BY <1>1, <1>2, <1>3, <1>4 DEF Next

\* At every iteration best_match wins over all matching policies seen so far.
THEOREM ScanInvariant == Spec => [](TypeOK /\ BestSoFar)
<1>1. Spec => []Inv
  BY InitInv, NextInv, PTL DEF Spec
<1> QED
  BY <1>1, PTL DEF Inv

\* A matching policy that wins over every other one is what BestMatch returns.
LEMMA BestIsUnique ==
  ASSUME NEW ps \in Seq(RoutePolicy), NEW r,
         NEW best \in MatchingPolicies(ps, r),
         \A j \in MatchingPolicies(ps, r) \ {best} : WinsOver(ps, best, j)
  PROVE  BestMatch(ps, r) = best
<1> DEFINE candidates == MatchingPolicies(ps, r)
           IsBest(i)  == \A j \in candidates \ {i} : WinsOver(ps, i, j)
<1>1. candidates \subseteq DOMAIN ps
  BY DEF MatchingPolicies
<1>2. BestMatch(ps, r) = IF \E i \in candidates : IsBest(i)
                         THEN CHOOSE i \in candidates : IsBest(i)
                         ELSE 0
  BY DEF BestMatch
<1>3. ASSUME NEW i \in candidates, IsBest(i)
      PROVE  i = best
  <2>1. i # best => WinsOver(ps, i, best) /\ WinsOver(ps, best, i)
    BY <1>3
  <2> QED
    BY <1>1, <2>1, WinsOverIsStrictOrder
<1> QED
  BY <1>2, <1>3

\* When the loop is done, best_match is the winner among all matching policies.
LEMMA InvImpliesBest == Inv => ScanFindsBest
<1> SUFFICES ASSUME Inv, Done
             PROVE  best_match = BestMatch(policies, route)
  BY DEF ScanFindsBest
<1> DEFINE candidates == MatchingPolicies(policies, route)
           IsBest(i)  == \A j \in candidates \ {i} : WinsOver(policies, i, j)
<1>1. /\ policies \in Seq(RoutePolicy)
      /\ Len(policies) \in Nat /\ DOMAIN policies = 1..Len(policies)
      /\ position \in Int /\ position > Len(policies)
  BY LenProperties DEF Inv, TypeOK, Done
<1>2. candidates \subseteq DOMAIN policies
  BY DEF MatchingPolicies
<1>3. Seen = candidates
  BY <1>1, <1>2 DEF Seen
<1>4. BestMatch(policies, route) = IF \E i \in candidates : IsBest(i)
                                   THEN CHOOSE i \in candidates : IsBest(i)
                                   ELSE 0
  BY DEF BestMatch
<1>5. CASE best_match = 0
  <2>1. candidates = {}
    BY <1>3, <1>5 DEF Inv, BestSoFar
  <2> QED
    BY <1>4, <1>5, <2>1
<1>6. CASE best_match # 0
  <2>1. best_match \in candidates /\ IsBest(best_match)
    BY <1>3, <1>6 DEF Inv, BestSoFar
  <2> QED
    BY <1>1, <2>1, BestIsUnique
<1> QED
  BY <1>5, <1>6

THEOREM ScanCorrect == Spec => []ScanFindsBest
<1>1. Spec => []Inv
  BY InitInv, NextInv, PTL DEF Spec
<1> QED
  BY <1>1, InvImpliesBest, PTL

\* A policy is displaced only by one of strictly higher priority, and the null
\* pointer only by a match.
BestOnlyImproves ==
  [][best_match' # best_match =>
       /\ Matches(policies, best_match', route)
       /\ best_match # 0 => WinsOver(policies, best_match', best_match)]_vars

\* A best match is displaced only by a matching policy that wins over it.
THEOREM ScanImproves == Spec => BestOnlyImproves
<1> DEFINE Improves == best_match' # best_match =>
                         /\ Matches(policies, best_match', route)
                         /\ best_match # 0 => WinsOver(policies, best_match', best_match)
<1>1. [Next]_vars => [Improves]_vars
  <2> SUFFICES ASSUME Next
               PROVE  Improves
    OBVIOUS
  <2> QED
    BY DEF Next, Skip, Keep, Replace, Better, WinsOver
<1> QED
  BY <1>1, PTL DEF Spec, BestOnlyImproves

-----------------------------------------------------------------------------
(* The order of the list *)

\* The same policies, each at a position of its own.
LEMMA ReorderedList ==
  ASSUME NEW ps \in Seq(RoutePolicy), NEW r,
         NEW f \in Bijection(DOMAIN ps, DOMAIN ps)
  PROVE  /\ Reordered(ps, f) \in Seq(RoutePolicy)
         /\ DOMAIN Reordered(ps, f) = 1..Len(ps)
         /\ \A i \in 1..Len(ps) : /\ f[i] \in 1..Len(ps)
                                  /\ Reordered(ps, f)[i] = ps[f[i]]
                                  /\ i \in MatchingPolicies(Reordered(ps, f), r)
                                       <=> f[i] \in MatchingPolicies(ps, r)
         /\ \A i \in 1..Len(ps) : \E k \in 1..Len(ps) : f[k] = i
<1>1. Len(ps) \in Nat /\ DOMAIN ps = 1..Len(ps)
  BY LenProperties
<1>2. /\ f \in [1..Len(ps) -> 1..Len(ps)]
      /\ \A i \in 1..Len(ps) : \E k \in 1..Len(ps) : f[k] = i
  BY <1>1 DEF Bijection, Injection, Surjection
<1>3. Reordered(ps, f) = [i \in 1..Len(ps) |-> ps[f[i]]]
  BY <1>1 DEF Reordered
<1>4. \A i \in 1..Len(ps) : f[i] \in 1..Len(ps) /\ ps[f[i]] \in RoutePolicy
  BY <1>1, <1>2, ElementOfSeq
<1>5. Reordered(ps, f) \in Seq(RoutePolicy)
  BY <1>1, <1>3, <1>4, IsASeq
<1>6. /\ DOMAIN Reordered(ps, f) = 1..Len(ps)
      /\ \A i \in 1..Len(ps) : Reordered(ps, f)[i] = ps[f[i]]
  BY <1>3, Zenon
<1>7. \A i \in 1..Len(ps) : i \in MatchingPolicies(Reordered(ps, f), r)
                             <=> f[i] \in MatchingPolicies(ps, r)
  BY <1>1, <1>4, <1>6 DEF MatchingPolicies, Matches
<1> QED
  BY <1>2, <1>4, <1>5, <1>6, <1>7

\* The winner of the reordered list is a matching policy of the highest priority: the
\* one that this list names first.
LEMMA WinnerOfReorderedList ==
  ASSUME NEW ps \in Seq(RoutePolicy), NEW r,
         NEW f \in Bijection(DOMAIN ps, DOMAIN ps),
         NEW best \in MatchingPolicies(ps, r),
         \A j \in MatchingPolicies(ps, r) \ {best} : WinsOver(ps, best, j)
  PROVE  \E i \in MatchingPolicies(ps, r) :
           /\ Reordered(ps, f)[BestMatch(Reordered(ps, f), r)] = ps[i]
           /\ ps[i].priority = ps[best].priority
<1> DEFINE n    == Len(ps)
           list == Reordered(ps, f)
           tops == {k \in 1..n : /\ f[k] \in MatchingPolicies(ps, r)
                                 /\ ps[f[k]].priority = ps[best].priority}
           w    == Min(tops)
<1>1. n \in Nat /\ DOMAIN ps = 1..n /\ MatchingPolicies(ps, r) \subseteq 1..n
  BY LenProperties DEF MatchingPolicies
<1>2. \A i \in 1..n : ps[i].priority \in Int
  <2>1. \A i \in 1..n : ps[i] \in RoutePolicy
    BY ElementOfSeq
  <2> QED
    BY <2>1 DEF RoutePolicy
<1>3. /\ list \in Seq(RoutePolicy) /\ DOMAIN list = 1..n
      /\ \A i \in 1..n : /\ f[i] \in 1..n /\ list[i] = ps[f[i]]
                         /\ i \in MatchingPolicies(list, r)
                              <=> f[i] \in MatchingPolicies(ps, r)
      /\ \E k \in 1..n : f[k] = best
  BY <1>1, ReorderedList
<1>4. MatchingPolicies(list, r) \subseteq 1..n
  BY <1>3 DEF MatchingPolicies
<1>5. tops \in SUBSET Nat /\ tops # {}
  BY <1>1, <1>3
<1>6. w \in tops /\ \A k \in tops : w <= k
  BY <1>5, MinOfNaturals
<1>7. /\ w \in 1..n /\ f[w] \in MatchingPolicies(ps, r)
      /\ ps[f[w]].priority = ps[best].priority
      /\ w \in MatchingPolicies(list, r)
      /\ list[w] = ps[f[w]]
  BY <1>3, <1>6
<1>8. \A k \in 1..n : k \in Int
  BY <1>1
<1>9. w \in Int
  BY <1>7, <1>8
<1> HIDE DEF n, list, tops, w
<1>10. ASSUME NEW j \in MatchingPolicies(list, r) \ {w}
      PROVE  WinsOver(list, w, j)
  <2>1. /\ j \in 1..n /\ f[j] \in MatchingPolicies(ps, r)
        /\ list[j] = ps[f[j]]
    BY <1>3, <1>4, <1>10
  <2>2. f[j] = best \/ WinsOver(ps, best, f[j])
    BY <2>1
  <2>3. CASE ps[f[j]].priority = ps[best].priority
    <3>1. j \in tops
      BY <2>1, <2>3 DEF tops
    <3>2. w <= j /\ w # j
      BY <1>6, <1>10, <3>1
    <3>3. w < j
      BY <1>8, <1>9, <2>1, <3>2
    <3> QED
      BY <1>7, <2>1, <2>3, <3>3 DEF WinsOver
  <2>4. CASE ps[f[j]].priority # ps[best].priority
    <3>1. ps[best].priority > ps[f[j]].priority
      BY <2>2, <2>4 DEF WinsOver
    <3> QED
      BY <1>7, <2>1, <3>1 DEF WinsOver
  <2> QED
    BY <2>3, <2>4
<1>11. BestMatch(list, r) = w
  BY <1>3, <1>7, <1>10, BestIsUnique
<1> QED
  BY <1>7, <1>11 DEF list

\* The order in which the policies are listed decides between equal priorities
\* only.
THEOREM OrderDecidesTiesOnly == Spec => []OrderMattersOnlyForTies
<1>1. Inv => OrderMattersOnlyForTies
  <2> SUFFICES ASSUME Inv, Done, best_match # 0,
                      NEW f \in Bijection(DOMAIN policies, DOMAIN policies)
               PROVE  LET ties == {i \in Seen \ {best_match} :
                                     policies[i].priority = policies[best_match].priority}
                          reordered == Reordered(policies, f)
                          winner == BestMatch(reordered, route)
                      IN IF ties = {}
                         THEN reordered[winner] = policies[best_match]
                         ELSE reordered[winner].priority = policies[best_match].priority
    BY DEF OrderMattersOnlyForTies
  <2>1. /\ policies \in Seq(RoutePolicy)
        /\ Len(policies) \in Nat /\ DOMAIN policies = 1..Len(policies)
        /\ position \in Int /\ position > Len(policies)
    BY LenProperties DEF Inv, TypeOK, Done
  <2>2. Seen = MatchingPolicies(policies, route)
    BY <2>1 DEF Seen, MatchingPolicies
  <2>3. /\ best_match \in Seen
        /\ \A j \in Seen \ {best_match} : WinsOver(policies, best_match, j)
    BY DEF Inv, BestSoFar
  <2>4. PICK i \in Seen :
          /\ Reordered(policies, f)[BestMatch(Reordered(policies, f), route)] = policies[i]
          /\ policies[i].priority = policies[best_match].priority
    BY <2>1, <2>2, <2>3, WinnerOfReorderedList
  <2> QED
    BY <2>4
<1>2. Spec => []Inv
  BY InitInv, NextInv, PTL DEF Spec
<1> QED
  BY <1>1, <1>2, PTL

=============================================================================
