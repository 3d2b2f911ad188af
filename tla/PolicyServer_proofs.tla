------------------------ MODULE PolicyServer_proofs ------------------------
(***************************************************************************)
(* Proofs about PolicyServer: the shared token cache, whatever the number  *)
(* of threads and the times involved, and the answers given without        *)
(* Watsonx, whatever the settings and the calls.                           *)
(***************************************************************************)
EXTENDS PolicyServer, TLAPS, SequenceTheorems

-----------------------------------------------------------------------------
(* The token cache *)

\* The latest expiration of a token that has been issued.
Horizon == now + Lifetime + Jitter

\* The types the argument needs.
Times == /\ now \in Nat
         /\ cached_token \in Nat
         /\ token_expiration_epoch \in Nat
         /\ pc \in [Thread -> Step]
         /\ started \in [Thread -> Nat]
         /\ token \in [Thread -> Nat]

\* A call in progress has begun no longer than Latency ago.
InTime(t) == /\ started[t] <= now
             /\ InCall(t) => now <= started[t] + Latency

\* A token not stored completely was issued during the call of its thread.
Fetched(t) == pc[t] \in {"store_token", "store_expiration"}
                => started[t] + Lifetime <= token[t] /\ token[t] <= Horizon

\* The expiration about to be written suits the token in the cache, although
\* another thread may have replaced the token.
StoresSuit(t) == pc[t] = "store_expiration"
                   => cached_token # NoToken
                      /\ token[t] <= cached_token + Latency + Jitter

\* A thread that was told of a token finds one.
TokenStays(t) ==
  pc[t] \in {"test_expiration", "return_cached"} => cached_token # NoToken

\* The token a thread is about to take from the cache lasts beyond its call.
CachedLasts(t) ==
  pc[t] = "return_cached" => /\ started[t] + Margin < cached_token + Latency + Jitter
                             /\ started[t] + Margin < Horizon

\* So does the token it uses, which is its own or was not yet about to expire.
TokenLasts(t) ==
  pc[t] = "chat" => \/ started[t] + Lifetime <= token[t]
                    \/ started[t] + Margin < token[t] + Latency + Jitter

ThreadInv(t) == /\ InTime(t)
                /\ Fetched(t)
                /\ StoresSuit(t)
                /\ TokenStays(t)
                /\ CachedLasts(t)
                /\ TokenLasts(t)

CacheInv == /\ Times
            /\ cached_token <= Horizon
            /\ token_expiration_epoch <= Horizon
            /\ CacheHardlyTorn
            /\ \A t \in Thread : ThreadInv(t)

LEMMA TimeConstants ==
  /\ {Margin, Lifetime, Jitter, Latency, MaxTime} \subseteq Nat
  /\ Lifetime > 0
BY TimesAssumption

LEMMA CacheInit == ServerInit => CacheInv
<1> SUFFICES ASSUME ServerInit
             PROVE  CacheInv
  OBVIOUS
<1>1. Times
  BY DEF ServerInit, Times, Step, NoToken
<1>2. ASSUME NEW t \in Thread
      PROVE  ThreadInv(t)
  <2>1. pc[t] = "idle" /\ started[t] <= now
    BY DEF ServerInit
  <2> QED
    BY <2>1 DEF ThreadInv, InTime, InCall, Fetched, StoresSuit, TokenStays,
                CachedLasts, TokenLasts
<1>3. CacheHardlyTorn
  BY DEF ServerInit, CacheHardlyTorn
<1> QED
  BY <1>1, <1>2, <1>3, TimeConstants DEF ServerInit, CacheInv, Horizon, NoToken

\* What one thread does to itself is nothing to the others.
LEMMA OthersKeep ==
  ASSUME NEW u \in Thread, ThreadInv(u),
         now' = now, cached_token' = cached_token,
         pc'[u] = pc[u], started'[u] = started[u], token'[u] = token[u]
  PROVE  ThreadInv(u)'
BY DEF ThreadInv, InTime, InCall, Fetched, StoresSuit, TokenStays, CachedLasts,
       TokenLasts, Horizon

\* A thread moves on without touching the cache.
LEMMA LocalStep ==
  ASSUME CacheInv, NEW t \in Thread, NEW p \in Step, NEW b \in Nat, NEW k \in Nat,
         now' = now, UNCHANGED cache,
         pc' = [pc EXCEPT ![t] = p],
         started' = [started EXCEPT ![t] = b],
         token' = [token EXCEPT ![t] = k],
         ThreadInv(t)'
  PROVE  CacheInv'
<1>1. Times'
  BY DEF CacheInv, Times, cache
<1>2. ASSUME NEW u \in Thread
      PROVE  ThreadInv(u)'
  <2>1. CASE u = t
    BY <2>1
  <2>2. CASE u # t
    BY <2>2, OthersKeep DEF CacheInv, Times, cache
  <2> QED
    BY <2>1, <2>2
<1>3. CacheHardlyTorn'
  BY DEF CacheInv, CacheHardlyTorn, cache
<1>4. cached_token' <= Horizon' /\ token_expiration_epoch' <= Horizon'
  BY DEF CacheInv, Horizon, cache
<1> QED
  BY <1>1, <1>2, <1>3, <1>4 DEF CacheInv

\* A thread that has answered is subject to nothing.
LEMMA ReplyStep ==
  ASSUME CacheInv, NEW t \in Thread, NEW reply, Reply(t, reply),
         now' = now, UNCHANGED cache
  PROVE  CacheInv'
<1>1. pc'[t] = "done" /\ started'[t] <= now'
  BY DEF Reply, Goto, CacheInv, Times
<1>2. ThreadInv(t)'
  BY <1>1 DEF ThreadInv, InTime, InCall, Fetched, StoresSuit, TokenStays,
              CachedLasts, TokenLasts
<1> QED
  BY <1>2, LocalStep DEF Reply, Goto, Step, NoToken

\* A thread that changes only where it is.
LEMMA GotoStep ==
  ASSUME CacheInv, NEW t \in Thread, NEW p \in Step, Goto(t, p),
         UNCHANGED <<now, cache, started, token>>,
         ThreadInv(t)'
  PROVE  CacheInv'
<1>1. /\ started' = [started EXCEPT ![t] = started[t]] /\ started[t] \in Nat
      /\ token' = [token EXCEPT ![t] = token[t]] /\ token[t] \in Nat
  BY DEF CacheInv, Times
<1> QED
  BY <1>1, LocalStep DEF Goto

\* A call starts: its body is waited for, it is answered at once, or its thread
\* turns to Watsonx.
LEMMA CacheBegin ==
  ASSUME CacheInv, NEW t \in Thread, NEW c, BeginCall(t, c)
  PROVE  CacheInv'
<1>0. token' = token => token' = [token EXCEPT ![t] = token[t]] /\ token[t] \in Nat
  BY DEF CacheInv, Times
<1>1. CASE AnswerAtOnce(t, c) \/ AnswerFromMock(t, c) \/ AnswerUnready(t, c)
  BY <1>1, ReplyStep
     DEF AnswerAtOnce, AnswerFromMock, AnswerUnready, Accept
<1>2. CASE AskWatsonx(t, c)
  <2>1. /\ now' = now /\ UNCHANGED cache /\ token' = token
        /\ pc' = [pc EXCEPT ![t] = "test_token"]
        /\ started' = [started EXCEPT ![t] = now]
    BY <1>2 DEF AskWatsonx, Accept, Goto
  <2>2. pc'[t] = "test_token" /\ started'[t] = now /\ now \in Nat
    BY <2>1 DEF CacheInv, Times
  <2>3. ThreadInv(t)'
    BY <2>1, <2>2, TimeConstants
       DEF ThreadInv, InTime, Fetched, StoresSuit, TokenStays, CachedLasts,
           TokenLasts
  <2> QED
    BY <1>0, <2>1, <2>2, <2>3, LocalStep DEF Step
<1>3. CASE AwaitBody(t, c)
  <2>1. UNCHANGED <<now, cache, started, token>> /\ Goto(t, "reading")
    BY <1>3 DEF AwaitBody
  <2>2. pc'[t] = "reading" /\ InTime(t)
    BY <2>1 DEF CacheInv, Times, Goto, ThreadInv
  <2>3. ThreadInv(t)'
    BY <2>1, <2>2
       DEF ThreadInv, InTime, InCall, Fetched, StoresSuit, TokenStays, CachedLasts,
           TokenLasts
  <2> QED
    BY <2>1, <2>3, GotoStep DEF Step
<1> QED
  BY <1>1, <1>2, <1>3 DEF BeginCall

\* A new process has no token and no call.
LEMMA CacheRestart ==
  ASSUME CacheInv, ServiceRestarts
  PROVE  CacheInv'
<1>1. /\ now' = now /\ cached_token' = 0 /\ token_expiration_epoch' = 0
      /\ now \in Nat
      /\ \A t \in Thread : pc'[t] = "idle" /\ started'[t] = 0
  BY DEF ServiceRestarts, NoToken, CacheInv, Times
<1>2. Times'
  BY <1>1 DEF ServiceRestarts, Times, Step, NoToken
<1>3. ASSUME NEW t \in Thread
      PROVE  ThreadInv(t)'
  BY <1>1 DEF ThreadInv, InTime, InCall, Fetched, StoresSuit, TokenStays,
              CachedLasts, TokenLasts
<1> QED
  BY <1>1, <1>2, <1>3, TimeConstants
     DEF CacheInv, CacheHardlyTorn, Horizon, NoToken

\* A token is looked for, and tested.
LEMMA CacheTest ==
  ASSUME CacheInv, NEW t \in Thread, TestToken(t) \/ TestExpiration(t)
  PROVE  CacheInv'
<1> USE DEF ThreadInv, InTime, InCall, Fetched, StoresSuit, TokenStays,
            CachedLasts, TokenLasts, cache
<1>1. ThreadInv(t) /\ Times
  BY DEF CacheInv
<1>2. CASE TestToken(t)
  <2> DEFINE p == IF cached_token = NoToken THEN "iam" ELSE "test_expiration"
  <2>1. Goto(t, p) /\ UNCHANGED <<now, cache, started, token>> /\ pc'[t] = p
    BY <1>1, <1>2 DEF TestToken, Goto, Times
  <2>2. ThreadInv(t)'
    BY <1>1, <1>2, <2>1 DEF TestToken
  <2> QED
    BY <2>1, <2>2, GotoStep DEF Step
<1>3. CASE TestExpiration(t)
  <2> DEFINE p == IF FreshToken(t) THEN "return_cached" ELSE "iam"
  <2>1. Goto(t, p) /\ UNCHANGED <<now, cache, started, token>> /\ pc'[t] = p
    BY <1>1, <1>3 DEF TestExpiration, Goto, Times
  <2>2. FreshToken(t) => /\ started[t] + Margin < cached_token + Latency + Jitter
                    /\ started[t] + Margin < Horizon
    <3>1. /\ token_expiration_epoch <= cached_token + Latency + Jitter
          /\ token_expiration_epoch <= Horizon
      BY <1>1, <1>3 DEF CacheInv, CacheHardlyTorn, TestExpiration
    <3> QED
      BY <1>1, <3>1, TimeConstants DEF FreshToken, Times, Horizon
  <2>3. ThreadInv(t)'
    BY <1>1, <1>3, <2>1, <2>2 DEF TestExpiration, Horizon
  <2> QED
    BY <2>1, <2>3, GotoStep DEF Step
<1> QED
  BY <1>2, <1>3

\* A token is taken from the cache, or issued.
LEMMA CacheTake ==
  ASSUME CacheInv, NEW t \in Thread, ReturnCachedToken(t) \/ IamIssuesToken(t)
  PROVE  CacheInv'
<1> USE DEF ThreadInv, InTime, InCall, Fetched, StoresSuit, TokenStays,
            CachedLasts, TokenLasts, cache, Horizon
<1>1. ThreadInv(t) /\ Times
  BY DEF CacheInv
<1>2. started' = started => /\ started' = [started EXCEPT ![t] = started[t]]
                            /\ started[t] \in Nat
  BY <1>1 DEF Times
<1>3. CASE ReturnCachedToken(t)
  <2>1. /\ now' = now /\ UNCHANGED cache /\ started' = started
        /\ pc' = [pc EXCEPT ![t] = "chat"]
        /\ token' = [token EXCEPT ![t] = cached_token]
    BY <1>3 DEF ReturnCachedToken, Goto
  <2>2. pc'[t] = "chat" /\ token'[t] = cached_token /\ cached_token \in Nat
    BY <1>1, <2>1 DEF Times
  <2>3. started[t] + Margin < cached_token + Latency + Jitter
    BY <1>1, <1>3 DEF ReturnCachedToken
  <2>4. ThreadInv(t)'
    BY <1>1, <1>3, <2>1, <2>2, <2>3 DEF ReturnCachedToken
  <2> QED
    BY <1>2, <2>1, <2>2, <2>4, LocalStep DEF Step
<1>4. CASE IamIssuesToken(t)
  <2>1. /\ now' = now /\ UNCHANGED cache /\ started' = started
        /\ pc' = [pc EXCEPT ![t] = "store_token"]
    BY <1>4 DEF IamIssuesToken, Goto
  <2>2. PICK life \in Lifetime..(Lifetime + Jitter) :
          token' = [token EXCEPT ![t] = now + life]
    BY <1>4 DEF IamIssuesToken
  <2>3. /\ pc'[t] = "store_token" /\ token'[t] = now + life
        /\ now + life \in Nat
        /\ now + Lifetime <= now + life /\ now + life <= Horizon
    BY <1>1, <2>1, <2>2, TimeConstants DEF Times
  <2>4. ThreadInv(t)'
    BY <1>1, <1>4, <2>1, <2>3, TimeConstants DEF IamIssuesToken, Times
  <2> QED
    BY <1>2, <2>1, <2>2, <2>3, <2>4, LocalStep DEF Step
<1> QED
  BY <1>3, <1>4

\* A token that is stored is recent, so it suits every thread that waits for one.
LEMMA CacheStoreToken ==
  ASSUME CacheInv, NEW t \in Thread, StoreToken(t)
  PROVE  CacheInv'
<1> USE DEF ThreadInv, InTime, InCall, Fetched, StoresSuit, TokenStays,
            CachedLasts, TokenLasts, Horizon, NoToken
<1>1. /\ now' = now /\ token_expiration_epoch' = token_expiration_epoch
      /\ started' = started /\ token' = token
      /\ pc' = [pc EXCEPT ![t] = "store_expiration"]
      /\ cached_token' = token[t]
      /\ pc[t] = "store_token"
  BY DEF StoreToken, Goto
<1>2. Times /\ token_expiration_epoch <= Horizon
  BY DEF CacheInv
<1>3. Times'
  BY <1>1, <1>2 DEF Times, Step
<1>4. /\ Horizon <= token[t] + Latency + Jitter /\ token[t] <= Horizon
      /\ token[t] \in Nat \ {0}
  <2>1. ThreadInv(t)
    BY DEF CacheInv
  <2> QED
    BY <1>1, <1>2, <2>1, TimeConstants DEF Times
<1>5. CacheHardlyTorn'
  BY <1>1, <1>2, <1>4, TimeConstants DEF CacheHardlyTorn, Times
<1>6. ASSUME NEW u \in Thread
      PROVE  ThreadInv(u)'
  <2>1. ThreadInv(u)
    BY DEF CacheInv
  <2>2. pc'[u] = IF u = t THEN "store_expiration" ELSE pc[u]
    BY <1>1, <1>2 DEF Times
  <2>3. InTime(u)' /\ Fetched(u)' /\ TokenStays(u)' /\ TokenLasts(u)'
    BY <1>1, <1>4, <2>1, <2>2
  <2>4. StoresSuit(u)'
    BY <1>1, <1>2, <1>4, <2>1, <2>2, TimeConstants DEF Times
  <2>5. CachedLasts(u)'
    BY <1>1, <1>2, <1>4, <2>1, <2>2, TimeConstants DEF Times
  <2> QED
    BY <2>3, <2>4, <2>5
<1> QED
  BY <1>1, <1>2, <1>3, <1>4, <1>5, <1>6 DEF CacheInv

LEMMA CacheStoreExpiration ==
  ASSUME CacheInv, NEW t \in Thread, StoreExpiration(t)
  PROVE  CacheInv'
<1>1. /\ now' = now /\ cached_token' = cached_token
      /\ started' = started /\ token' = token
      /\ pc' = [pc EXCEPT ![t] = "chat"]
      /\ token_expiration_epoch' = token[t]
      /\ pc[t] = "store_expiration"
  BY DEF StoreExpiration, Goto
<1>2. Times /\ ThreadInv(t) /\ cached_token <= Horizon
  BY DEF CacheInv
<1>3. Times'
  BY <1>1, <1>2 DEF Times, Step
<1>4. CacheHardlyTorn' /\ token[t] <= Horizon
  BY <1>1, <1>2
     DEF CacheHardlyTorn, ThreadInv, StoresSuit, Fetched
<1>5. ASSUME NEW u \in Thread
      PROVE  ThreadInv(u)'
  <2>1. CASE u = t
    <3>1. pc'[t] = "chat"
      BY <1>1, <1>2 DEF Times
    <3> QED
      BY <1>1, <1>2, <2>1, <3>1, TimeConstants
         DEF ThreadInv, InTime, InCall, Fetched, StoresSuit, TokenStays,
             CachedLasts, TokenLasts, Times
  <2>2. CASE u # t
    BY <1>1, <1>2, <2>2, OthersKeep DEF CacheInv, Times
  <2> QED
    BY <2>1, <2>2
<1> QED
  BY <1>1, <1>2, <1>3, <1>4, <1>5 DEF CacheInv, Horizon

LEMMA CacheTick == CacheInv /\ Tick => CacheInv'
<1> SUFFICES ASSUME CacheInv, Tick
             PROVE  CacheInv'
  OBVIOUS
<1>1. /\ now' = now + 1 /\ UNCHANGED <<cached_token, token_expiration_epoch>>
      /\ pc' = pc /\ started' = started /\ token' = token
      /\ \A t \in Thread : InCall(t) => now < started[t] + Latency
  BY DEF Tick, cache
<1>2. Times
  BY DEF CacheInv
<1>3. Times'
  BY <1>1, <1>2 DEF Times
<1>4. ASSUME NEW t \in Thread
      PROVE  ThreadInv(t)'
  <2>1. ThreadInv(t) /\ (InCall(t) => now < started[t] + Latency)
    BY <1>1 DEF CacheInv
  <2> QED
    BY <1>1, <1>2, <2>1, TimeConstants
       DEF ThreadInv, InTime, InCall, Fetched, StoresSuit, TokenStays,
           CachedLasts, TokenLasts, Times, Horizon
<1>5. CacheHardlyTorn'
  BY <1>1 DEF CacheInv, CacheHardlyTorn
<1>6. cached_token' <= Horizon' /\ token_expiration_epoch' <= Horizon'
  BY <1>1, <1>2, TimeConstants DEF CacheInv, Horizon, Times
<1> QED
  BY <1>3, <1>4, <1>5, <1>6 DEF CacheInv

LEMMA CacheNext == CacheInv /\ [ServerNext]_serverVars => CacheInv'
<1> SUFFICES ASSUME CacheInv, [ServerNext]_serverVars
             PROVE  CacheInv'
  OBVIOUS
<1>1. CASE Tick
  BY <1>1, CacheTick
<1>2. ASSUME NEW t \in Thread, Begin(t)
      PROVE  CacheInv'
  BY <1>2, CacheBegin DEF Begin
<1>3. ASSUME NEW t \in Thread, Proceed(t)
      PROVE  CacheInv'
  <2>1. CASE IamFails(t) \/ Raises(t) \/ WatsonxDecides(t) \/ ChatFails(t)
    BY <2>1, ReplyStep
       DEF IamFails, Raises, IamRequestRaises, IamAnswersNoObject, ChatRaises,
           WatsonxDecides, ChatFails
  <2> QED
    BY <1>3, <2>1, CacheTest, CacheTake, CacheStoreToken, CacheStoreExpiration
       DEF Proceed
<1>4. CASE UNCHANGED serverVars
  BY <1>4 DEF serverVars, cache, CacheInv, Times, CacheHardlyTorn, ThreadInv,
              InTime, InCall, Fetched, StoresSuit, TokenStays, CachedLasts,
              TokenLasts, Horizon
<1> QED
  BY <1>1, <1>2, <1>3, <1>4, CacheRestart DEF ServerNext

\* The cache and every thread's view of it, in all reachable states.
THEOREM CacheInvariant == ServerSpec => []CacheInv
BY CacheInit, CacheNext, PTL DEF ServerSpec

\* Two threads that refresh at once tear the cached pair apart by no more than
\* the time a call lasts and two lifetimes differ.
THEOREM TearBounded == ServerSpec => []CacheHardlyTorn
<1>1. CacheInv => CacheHardlyTorn
  BY DEF CacheInv
<1> QED
  BY <1>1, CacheInvariant, PTL

\* However long calls take and however short tokens live: a thread's token has
\* expired, if at all, by no more than a call takes beyond what a token lives, or two
\* calls and the difference of two lifetimes take beyond the margin.
TokenHardlyExpired ==
  \A t \in Thread :
    pc[t] = "chat" => \/ now + Lifetime <= token[t] + Latency
                      \/ now + Margin < token[t] + 2 * Latency + Jitter

THEOREM OverrunBounded == ServerSpec => []TokenHardlyExpired
<1>1. CacheInv => TokenHardlyExpired
  BY TimeConstants
     DEF CacheInv, TokenHardlyExpired, ThreadInv, InTime, InCall, TokenLasts, Times
<1> QED
  BY <1>1, CacheInvariant, PTL

\* No thread asks Watsonx with a token that has expired or expires before the
\* answer, provided the margin covers two calls in a row and the difference of two
\* lifetimes, and a token lives longer than a call takes.
THEOREM TokenValid ==
  ASSUME MarginSuffices
  PROVE  ServerSpec => []TokenValidWhenUsed
<1>1. CacheInv => TokenValidWhenUsed
  BY TimeConstants
     DEF CacheInv, TokenValidWhenUsed, ThreadInv, InTime, InCall, TokenLasts, Times,
         MarginSuffices
<1> QED
  BY <1>1, CacheInvariant, PTL

\* Where a token lives too short for the margin, no thread ever takes one from the
\* cache: every call fetches its own, and the cache is never of use.
THEOREM ShortTokensNeverReused ==
  ASSUME Latency + Lifetime + Jitter <= Margin
  PROVE  ServerSpec => [](\A t \in Thread : pc[t] # "return_cached")
<1>1. CacheInv => \A t \in Thread : pc[t] # "return_cached"
  BY TimeConstants
     DEF CacheInv, ThreadInv, InTime, InCall, CachedLasts, Times, Horizon
<1> QED
  BY <1>1, CacheInvariant, PTL

\* A token is used by no call that starts after all but the last Margin seconds of
\* its life, apart from the call that fetched it.
THEOREM TokensRetire == ServerSpec => []TokenRetires
<1>1. CacheInv => TokenRetires
  BY DEF CacheInv, TokenRetires, ThreadInv, TokenLasts
<1> QED
  BY <1>1, CacheInvariant, PTL

-----------------------------------------------------------------------------
(* Answers *)

LEMMA IntervalBounds ==
  ASSUME NEW n \in Nat \ {0}
  PROVE  Min(1..n) = 1 /\ Max(1..n) = n
<1>1. 1 \in 1..n /\ \A y \in 1..n : 1 <= y
  OBVIOUS
<1>2. n \in 1..n /\ \A y \in 1..n : n >= y
  OBVIOUS
<1>3. \A x \in 1..n : (\A y \in 1..n : x <= y) => x = 1
  BY <1>1
<1>4. \A x \in 1..n : (\A y \in 1..n : x >= y) => x = n
  BY <1>2
<1>5. Min(1..n) = 1
  BY <1>1, <1>3, Zenon DEF Min
<1>6. Max(1..n) = n
  BY <1>2, <1>4, Zenon DEF Max
<1> QED
  BY <1>5, <1>6

\* strip() leaves a text without blanks alone.
LEMMA StripTrimmed ==
  ASSUME NEW value \in String, \A i \in DOMAIN value : value[i] # Blank
  PROVE  Strip(value) = value
<1> DEFINE kept == {i \in DOMAIN value : value[i] # Blank}
           n    == Len(value)
<1>1. DOMAIN value = 1..n /\ n \in Nat
  BY LenProperties DEF String
<1>2. kept = 1..n
  BY <1>1
<1>3. Strip(value) = IF 1..n = {} THEN << >> ELSE SubSeq(value, Min(1..n), Max(1..n))
  BY <1>2, Zenon DEF Strip, EmptyString
<1>4. CASE n = 0
  <2>1. value = << >>
    BY <1>4, EmptySeq DEF String
  <2> QED
    BY <1>3, <1>4, <2>1
<1>5. CASE n > 0
  <2> HIDE DEF n, kept
  <2>1. n \in Nat \ {0}
    BY <1>1, <1>5
  <2>2. 1..n # {}
    BY <2>1
  <2>3. Strip(value) = SubSeq(value, 1, n)
    BY <1>3, <2>1, <2>2, IntervalBounds
  <2>4. \A i \in 1..n : value[i] \in Token
    BY ElementOfSeq DEF n, String
  <2>5. /\ SubSeq(value, 1, n) \in Seq(Token)
        /\ Len(SubSeq(value, 1, n)) = n
        /\ \A i \in 1..n : SubSeq(value, 1, n)[i] = value[i]
    BY <2>1, <2>4, SubSeqProperties
  <2>6. SubSeq(value, 1, n) = value
    BY <2>5, SeqEqual DEF n, String
  <2> QED
    BY <2>3, <2>6
<1>6. n = 0 \/ n > 0
  <2> HIDE DEF n
  <2> QED
    BY <1>1
<1> QED
  BY <1>4, <1>5, <1>6

LEMMA Singleton ==
  ASSUME NEW t
  PROVE  DOMAIN <<t>> = {1} /\ <<t>>[1] = t /\ <<t>> # << >>
OBVIOUS

LEMMA LowerWord ==
  ASSUME NEW w \in ServiceMode \cup TrueWord \cup FalseWord
  PROVE  Lower(<<w>>) = <<w>>
BY LowerCaseAssumption DEF Lower

\* The service reads a call of the filter as the filter meant it.
LEMMA FilterCallParses ==
  ASSUME NEW r \in FilterRequests, NEW path
  PROVE  LET body == BuildPolicyServiceRequest(r, path).body
         IN /\ IsPolicyRequest(body)
            /\ PolicyRequestOf(body).mode = ModeToPolicyServiceValue(r.mode)
            /\ PolicyRequestOf(body).pqc_capable = r.pqc_capable
<1> DEFINE body == BuildPolicyServiceRequest(r, path).body
           mode == ModeToPolicyServiceValue(r.mode)
<1>1. /\ r.service_name \in String /\ r.request_method \in String
      /\ r.request_path \in String /\ r.mode \in Mode /\ r.pqc_capable \in BOOLEAN
  BY FilterRequestsAssumption DEF AgentPolicyRequest
<1>2. {<<"unknown-service">>, <<"GET">>, <<"/">>} \subseteq String
  <2>1. {"unknown-service", "GET", "/"} \subseteq Token
    BY WordsAssumption, TokenAssumption
  <2> QED
    BY <2>1 DEF String
<1>3. mode \in ServiceMode
  BY <1>1 DEF ModeToPolicyServiceValue, Mode, ServiceMode
<1>4. ModeOf(body.mode) = {mode}
  <2>1. mode \in Token /\ mode # Blank
    BY <1>3, WordsAssumption DEF ServiceMode, Blank
  <2>2. <<mode>> \in String /\ \A i \in DOMAIN <<mode>> : <<mode>>[i] # Blank
    <3> HIDE DEF mode
    <3>1. <<mode>> \in String
      BY <2>1 DEF String
    <3> QED
      BY <2>1, <3>1, Singleton
  <2>3. TextOf(body.mode) = Strip(<<mode>>)
    BY DEF BuildPolicyServiceRequest, Text, TextOf
  <2>4. Strip(<<mode>>) = <<mode>>
    BY <2>2, StripTrimmed
  <2>5. Lower(<<mode>>) = <<mode>>
    BY <1>3, LowerWord
  <2> QED
    BY <1>3, <2>3, <2>4, <2>5 DEF ModeOf
<1>5. CoerceBool(body.pqc_capable) = {r.pqc_capable}
  BY DEF BuildPolicyServiceRequest, CoerceBool
<1>6. ASSUME NEW text \in {body.service_name, body.request_method, body.request_path}
      PROVE  TextOf(text) # EmptyString
  <2>1. PICK value \in {r.service_name, r.request_method, r.request_path},
             default \in {<<"unknown-service">>, <<"GET">>, <<"/">>} :
               text = Text(StringOrDefault(value, default))
    BY <1>6 DEF BuildPolicyServiceRequest
  <2> DEFINE sent == StringOrDefault(value, default)
  <2>2. default # EmptyString /\ \A i \in DOMAIN default : default[i] # Blank
    BY Singleton DEF EmptyString, Blank
  <2>3. \A i \in DOMAIN value : value[i] # Blank
    BY FilterRequestsAssumption
  <2>4. sent \in String /\ sent # EmptyString /\ \A i \in DOMAIN sent : sent[i] # Blank
    BY <1>1, <1>2, <2>2, <2>3 DEF StringOrDefault
  <2>5. TextOf(text) = Strip(sent)
    BY <2>1 DEF TextOf, Text
  <2> QED
    BY <2>4, <2>5, StripTrimmed
<1>7. body.kind = "object" /\ body.extras.kind = "text"
  BY DEF BuildPolicyServiceRequest, Text
<1> QED
  BY <1>4, <1>5, <1>6, <1>7 DEF IsPolicyRequest, PolicyRequestOf

LEMMA FilterCallNotRefused ==
  ASSUME NEW r \in FilterRequests
  PROVE  ImmediateAnswer(BuildPolicyServiceRequest(r, "evaluate")) = {}
BY FilterCallParses DEF BuildPolicyServiceRequest, ImmediateAnswer, IsPolicyRequest

\* The service's lists do not matter to the mock.
LEMMA MockByMode ==
  ASSUME NEW request, request.mode \in ServiceMode, NEW lists
  PROVE  MockPolicy(request, lists) = ModeDefault(request)
BY DEF MockPolicy, ModeDefault, AllowsFallback, ServiceMode

\* What the mock makes of a call of the filter is the filter's own default.
LEMMA MockDefault ==
  ASSUME NEW r \in FilterRequests, NEW path, NEW lists
  PROVE  MockPolicy(PolicyRequestOf(BuildPolicyServiceRequest(r, path).body), lists)
           = ModeDefault(r)
<1> DEFINE asked == PolicyRequestOf(BuildPolicyServiceRequest(r, path).body)
<1>1. /\ asked.mode = ModeToPolicyServiceValue(r.mode)
      /\ asked.pqc_capable = r.pqc_capable
  BY FilterCallParses
<1>2. r.mode \in Mode
  BY FilterRequestsAssumption DEF AgentPolicyRequest
<1> HIDE DEF asked
<1>3. MockPolicy(asked, lists) = ModeDefault(asked)
  BY <1>1, <1>2, MockByMode DEF ModeToPolicyServiceValue, Mode, ServiceMode
<1>4. ModeDefault(asked) = ModeDefault(r)
  BY <1>1, <1>2 DEF ModeDefault, ModeToPolicyServiceValue, Mode
<1> QED
  BY <1>3, <1>4 DEF asked

\* The action of a valid request is one a decision can have.
LEMMA MockType ==
  ASSUME NEW body, IsPolicyRequest(body), NEW lists
  PROVE  MockPolicy(PolicyRequestOf(body), lists) \in AllowedAction
<1>1. PolicyRequestOf(body).mode \in ServiceMode
  BY DEF IsPolicyRequest, PolicyRequestOf, ModeOf
<1> QED
  BY <1>1, MockByMode DEF ModeDefault, AllowedAction, ServiceMode

LEMMA ImmediateAnswerType ==
  ASSUME NEW c
  PROVE  \A a \in ImmediateAnswer(c) : a \in HttpAnswer /\ a.source = "none"
BY DEF ImmediateAnswer, ErrorAnswer, HttpAnswer

\* What the decision service may make of a call.
Verdicts ==
  {OkAnswer(action, source) :
     action \in AllowedAction, source \in {"mock", "watsonx", "mock_fallback"}}
    \cup {ErrorAnswer(500), ErrorAnswer(502)}

\* Well-formed calls are for the decision service to answer.
LEMMA DecidedType ==
  ASSUME NEW c, ImmediateAnswer(c) = {}
  PROVE  /\ OkAnswer(MockPolicy(PolicyRequestOf(c.body), settings), "mock") \in Verdicts
         /\ WatsonxFails(c, settings) \in Verdicts
<1>1. IsPolicyRequest(c.body)
  BY DEF ImmediateAnswer
<1>2. MockPolicy(PolicyRequestOf(c.body), settings) \in AllowedAction
  BY <1>1, MockType
<1> QED
  BY <1>2 DEF Verdicts, WatsonxFails

LEMMA VerdictsType == Verdicts \subseteq HttpAnswer
BY DEF Verdicts, OkAnswer, ErrorAnswer, HttpAnswer, AllowedAction

\* An answer comes from the mock only where it may, and then it is the mock's.
MockMay(t) == \/ answer[t].source = "mock" /\ settings.decision_mode = "mock"
              \/ answer[t].source = "mock_fallback" /\ settings.fail_open

AnswerSound(t) ==
  /\ pc[t] # "idle" => call[t] \in Calls
  /\ InCall(t) => ImmediateAnswer(call[t]) = {}
  /\ pc[t] = "done" => IF ImmediateAnswer(call[t]) = {}
                       THEN answer[t] \in Verdicts
                       ELSE answer[t] \in ImmediateAnswer(call[t])
  /\ pc[t] = "done" /\ answer[t].source \in {"mock", "mock_fallback"}
       => /\ MockMay(t)
          /\ answer[t].action = MockPolicy(PolicyRequestOf(call[t].body), settings)

AnswerInv == /\ pc \in [Thread -> Step]
             /\ call \in [Thread -> Calls \cup {NoCall}]
             /\ answer \in [Thread -> HttpAnswer \cup {NoAnswer}]
             /\ settings \in LoadedSettings
             /\ \A t \in Thread : AnswerSound(t)

LEMMA AnswerInit == ServerInit => AnswerInv
BY DEF ServerInit, AnswerInv, AnswerSound, InCall, Step, NoAnswer

\* A step of one thread leaves the answers of the others as they are.
LEMMA AnswerStep ==
  ASSUME AnswerInv, NEW t \in Thread, NEW p \in Step,
         NEW c \in Calls, NEW a \in HttpAnswer \cup {NoAnswer},
         settings' = settings,
         pc' = [pc EXCEPT ![t] = p],
         call' = [call EXCEPT ![t] = c],
         answer' = [answer EXCEPT ![t] = a],
         AnswerSound(t)'
  PROVE  AnswerInv'
<1>1. ASSUME NEW u \in Thread
      PROVE  AnswerSound(u)'
  <2>1. CASE u = t
    BY <2>1
  <2>2. CASE u # t
    <3>1. pc'[u] = pc[u] /\ call'[u] = call[u] /\ answer'[u] = answer[u]
      BY <2>2 DEF AnswerInv
    <3> QED
      BY <3>1 DEF AnswerInv, AnswerSound, InCall, MockMay
  <2> QED
    BY <2>1, <2>2
<1> QED
  BY <1>1 DEF AnswerInv

LEMMA AnswerBegin ==
  ASSUME AnswerInv, NEW t \in Thread, NEW c \in Calls, BeginCall(t, c)
  PROVE  AnswerInv'
<1>1. PICK p \in Step, a \in HttpAnswer \cup {NoAnswer} :
        /\ settings' = settings
        /\ pc' = [pc EXCEPT ![t] = p]
        /\ call' = [call EXCEPT ![t] = c]
        /\ answer' = [answer EXCEPT ![t] = a]
        /\ \/ p = "done" /\ a \in ImmediateAnswer(c)
           \/ /\ p = "done" /\ ImmediateAnswer(c) = {}
              /\ settings.decision_mode = "mock"
              /\ a = OkAnswer(MockPolicy(PolicyRequestOf(c.body), settings), "mock")
           \/ p = "done" /\ ImmediateAnswer(c) = {} /\ a = WatsonxFails(c, settings)
           \/ p = "test_token" /\ ImmediateAnswer(c) = {}
           \/ p = "reading"
  <2>1. {"done", "test_token", "reading"} \subseteq Step
    BY DEF Step
  <2>2. CASE AnswerAtOnce(t, c)
    BY <2>1, <2>2, ImmediateAnswerType DEF AnswerAtOnce, Accept, Reply, Goto
  <2>3. CASE AnswerFromMock(t, c)
    BY <2>1, <2>3, DecidedType, VerdictsType DEF AnswerFromMock, Accept, Reply, Goto
  <2>4. CASE AnswerUnready(t, c)
    BY <2>1, <2>4, DecidedType, VerdictsType DEF AnswerUnready, Accept, Reply, Goto
  <2>5. CASE AskWatsonx(t, c)
    BY <2>1, <2>5 DEF AskWatsonx, Accept, Goto
  <2>6. CASE AwaitBody(t, c)
    BY <2>1, <2>6 DEF AwaitBody, Goto
  <2> QED
    BY <2>2, <2>3, <2>4, <2>5, <2>6 DEF BeginCall
<1>2. pc'[t] = p /\ call'[t] = c /\ answer'[t] = a
  BY <1>1 DEF AnswerInv
<1>3. a \in ImmediateAnswer(c) => a.source = "none" /\ ImmediateAnswer(c) # {}
  BY ImmediateAnswerType
<1>4. ImmediateAnswer(c) = {} /\ p = "done" => a \in Verdicts
  BY <1>1, DecidedType
<1>5. AnswerSound(t)'
  BY <1>1, <1>2, <1>3, <1>4
     DEF AnswerSound, MockMay, InCall, OkAnswer, WatsonxFails, ErrorAnswer
<1> QED
  BY <1>1, <1>5, AnswerStep

\* The answers end with the process.
LEMMA AnswerRestart ==
  ASSUME AnswerInv, ServiceRestarts
  PROVE  AnswerInv'
BY DEF ServiceRestarts, AnswerInv, AnswerSound, InCall, Step, NoAnswer

LEMMA AnswerProceed ==
  ASSUME AnswerInv, NEW t \in Thread, Proceed(t)
  PROVE  AnswerInv'
<1>0. call[t] \in Calls /\ ImmediateAnswer(call[t]) = {}
  BY DEF AnswerInv, AnswerSound, InCall, Proceed, TestToken, TestExpiration,
         ReturnCachedToken, IamIssuesToken, IamFails, Raises, IamRequestRaises,
         IamAnswersNoObject, ChatRaises, StoreToken, StoreExpiration, WatsonxDecides,
         ChatFails
<1>1. PICK p \in Step, a \in HttpAnswer \cup {NoAnswer} :
        /\ settings' = settings
        /\ pc' = [pc EXCEPT ![t] = p]
        /\ call' = call
        /\ answer' = [answer EXCEPT ![t] = a]
        /\ \/ p \notin {"idle", "reading", "done"}
           \/ p = "done" /\ a \in {ErrorAnswer(500), WatsonxFails(call[t], settings)}
           \/ p = "done" /\ \E action \in AllowedAction : a = OkAnswer(action, "watsonx")
  <2>1. Step = {"idle", "reading", "test_token", "test_expiration", "return_cached", "iam",
                "store_token", "store_expiration", "chat", "done"}
    BY DEF Step
  <2>2. /\ answer = [answer EXCEPT ![t] = answer[t]]
        /\ answer[t] \in HttpAnswer \cup {NoAnswer}
    BY DEF AnswerInv
  <2>3. CASE TestToken(t) \/ TestExpiration(t)
    BY <2>1, <2>2, <2>3 DEF TestToken, TestExpiration, Goto
  <2>4. CASE \/ ReturnCachedToken(t) \/ IamIssuesToken(t)
             \/ StoreToken(t) \/ StoreExpiration(t)
    <3>1. PICK q \in {"store_token", "store_expiration", "chat"} :
            /\ pc' = [pc EXCEPT ![t] = q]
            /\ call' = call /\ answer' = answer /\ settings' = settings
      BY <2>4 DEF ReturnCachedToken, IamIssuesToken, StoreToken, StoreExpiration, Goto
    <3>2. q \in Step /\ q \notin {"idle", "reading", "done"}
      BY <2>1
    <3> QED
      BY <2>2, <3>1, <3>2
  <2>5. CASE IamFails(t) \/ Raises(t) \/ ChatFails(t)
    <3>1. {WatsonxFails(call[t], settings), ErrorAnswer(500)} \subseteq HttpAnswer
      BY <1>0, DecidedType, VerdictsType DEF Verdicts
    <3> QED
      BY <2>1, <2>5, <3>1 DEF IamFails, Raises, IamRequestRaises, IamAnswersNoObject,
           ChatRaises, ChatFails, Reply, Goto
  <2>6. CASE WatsonxDecides(t)
    <3>1. PICK action \in AllowedAction : Reply(t, OkAnswer(action, "watsonx"))
      BY <2>6 DEF WatsonxDecides, DecidedBy
    <3> DEFINE decided == OkAnswer(action, "watsonx")
    <3>2. decided \in HttpAnswer /\ \E b \in AllowedAction : decided = OkAnswer(b, "watsonx")
      BY DEF OkAnswer, HttpAnswer
    <3>3. /\ settings' = settings /\ call' = call
          /\ pc' = [pc EXCEPT ![t] = "done"]
          /\ answer' = [answer EXCEPT ![t] = decided]
      BY <2>6, <3>1 DEF WatsonxDecides, Reply, Goto
    <3> "done" \in Step /\ decided \in HttpAnswer \cup {NoAnswer}
      BY <2>1, <3>2
    <3> HIDE DEF decided
    <3> WITNESS "done" \in Step, decided \in HttpAnswer \cup {NoAnswer}
    <3> QED
      BY <3>2, <3>3
  <2> QED
    BY <2>3, <2>4, <2>5, <2>6 DEF Proceed
<1>2. call' = [call EXCEPT ![t] = call[t]]
  BY <1>1 DEF AnswerInv
<1>3. pc'[t] = p /\ call'[t] = call[t] /\ answer'[t] = a
  BY <1>1 DEF AnswerInv
<1>4. p = "done" => a \in Verdicts
  BY <1>0, <1>1, DecidedType DEF Verdicts
<1>5. AnswerSound(t)'
  BY <1>0, <1>1, <1>3, <1>4
     DEF AnswerSound, MockMay, InCall, OkAnswer, WatsonxFails, ErrorAnswer
<1> QED
  BY <1>0, <1>1, <1>2, <1>5, AnswerStep

LEMMA AnswerNext == AnswerInv /\ [ServerNext]_serverVars => AnswerInv'
<1> SUFFICES ASSUME AnswerInv, [ServerNext]_serverVars
             PROVE  AnswerInv'
  OBVIOUS
<1>1. CASE Tick \/ UNCHANGED serverVars
  BY <1>1 DEF Tick, serverVars, AnswerInv, AnswerSound, MockMay, InCall
<1> QED
  BY <1>1, AnswerBegin, AnswerRestart, AnswerProceed DEF ServerNext, Begin

\* Where every answer comes from.
THEOREM AnswerInvariant == ServerSpec => []AnswerInv
BY AnswerInit, AnswerNext, PTL DEF ServerSpec

\* A call of the filter is never turned away as malformed or unknown.
THEOREM FilterIsUnderstood == ServerSpec => []FilterCallsAccepted
<1>1. AnswerInv => FilterCallsAccepted
  BY FilterCallNotRefused
     DEF AnswerInv, AnswerSound, FilterCallsAccepted, AnsweredFilter, Verdicts,
         OkAnswer, ErrorAnswer
<1> QED
  BY <1>1, AnswerInvariant, PTL

\* Whatever its lists say, a service that decides without Watsonx decides as the
\* filter's own defaults would.
THEOREM MockIsFilterDefault == ServerSpec => []MockAgreesWithFilter
<1>1. AnswerInv => MockAgreesWithFilter
  BY MockDefault
     DEF AnswerInv, AnswerSound, AnsweredFilter, MockAgreesWithFilter
<1> QED
  BY <1>1, AnswerInvariant, PTL

\* A live service that fails closed never answers with a decision of its own.
THEOREM FailClosedHolds == ServerSpec => []FailClosedNeverGuesses
<1>1. \A a \in HttpAnswer \cup {NoAnswer} :
        a.source \in {"none", "mock", "watsonx", "mock_fallback"}
  BY DEF HttpAnswer, ErrorAnswer, OkAnswer, NoAnswer
<1>2. AnswerInv => FailClosedNeverGuesses
  BY <1>1 DEF AnswerInv, AnswerSound, MockMay, FailClosedNeverGuesses
<1> QED
  BY <1>2, AnswerInvariant, PTL

\* Every variable keeps to its type.
THEOREM ServerTypeCorrect == ServerSpec => []ServerTypeOK
<1> DEFINE ClockInv == now \in 0..MaxTime
<1>1. ServerInit => ClockInv
  BY TimeConstants DEF ServerInit
<1>2. CacheInv /\ ClockInv /\ [ServerNext]_serverVars => ClockInv'
  <2> SUFFICES ASSUME CacheInv, ClockInv, [ServerNext]_serverVars
               PROVE  ClockInv'
    OBVIOUS
  <2>1. CASE Tick
    BY <2>1, TimeConstants DEF Tick
  <2>2. CASE now' = now
    BY <2>2
  <2>3. now' = now \/ Tick
    BY DEF ServerNext, serverVars, ServiceRestarts, Begin, BeginCall, Proceed, AwaitBody,
           AnswerAtOnce, AnswerFromMock, AnswerUnready, AskWatsonx, Accept, TestToken,
           TestExpiration, ReturnCachedToken, IamIssuesToken, IamFails, Raises,
           IamRequestRaises, IamAnswersNoObject, ChatRaises, StoreToken, StoreExpiration,
           WatsonxDecides, ChatFails
  <2> QED
    BY <2>1, <2>2, <2>3
<1>3. CacheInv /\ ClockInv /\ AnswerInv => ServerTypeOK
  BY DEF CacheInv, Times, ThreadInv, InTime, AnswerInv, ServerTypeOK
<1> QED
  BY <1>1, <1>2, <1>3, CacheInvariant, AnswerInvariant, PTL DEF ServerSpec

-----------------------------------------------------------------------------
(* Calls end *)

\* How many steps of its own a thread may still have before it.
StepsFrom == [p \in Step |-> CASE p = "test_token"       -> 6
                               [] p = "test_expiration"  -> 5
                               [] p = "iam"              -> 4
                               [] p = "store_token"      -> 3
                               [] p = "store_expiration" -> 2
                               [] p = "return_cached"    -> 2
                               [] p = "chat"             -> 1
                               [] OTHER                  -> 0]

StepsLeft(t) == StepsFrom[pc[t]]

LEMMA StepsFromIs ==
  /\ \A p \in Step : StepsFrom[p] \in 0..6
  /\ StepsFrom["test_token"] = 6 /\ StepsFrom["test_expiration"] = 5
  /\ StepsFrom["iam"] = 4 /\ StepsFrom["store_token"] = 3
  /\ StepsFrom["store_expiration"] = 2 /\ StepsFrom["return_cached"] = 2
  /\ StepsFrom["chat"] = 1
  /\ StepsFrom["idle"] = 0 /\ StepsFrom["reading"] = 0 /\ StepsFrom["done"] = 0
BY DEF StepsFrom, Step

LEMMA StepsLeftType ==
  ASSUME AnswerInv, NEW t \in Thread
  PROVE  StepsLeft(t) \in 0..6 /\ (InCall(t) <=> StepsLeft(t) > 0)
BY StepsFromIs DEF AnswerInv, StepsLeft, InCall, Step

\* A step of a thread brings it nearer to its answer; it repeats nothing.
LEMMA ProceedDescends ==
  ASSUME AnswerInv, NEW t \in Thread, Proceed(t)
  PROVE  StepsLeft(t)' < StepsLeft(t)
<1>1. PICK p \in Step : /\ pc' = [pc EXCEPT ![t] = p]
                        /\ StepsFrom[p] < StepsFrom[pc[t]]
  <2>1. {"iam", "test_expiration", "return_cached", "store_token",
         "store_expiration", "chat", "done"} \subseteq Step
    BY DEF Step
  <2>2. CASE TestToken(t)
    <3>1. PICK q \in {"iam", "test_expiration"} : pc' = [pc EXCEPT ![t] = q]
      BY <2>2 DEF TestToken, Goto
    <3>2. pc[t] = "test_token"
      BY <2>2 DEF TestToken
    <3>3. q \in Step /\ StepsFrom[q] < StepsFrom[pc[t]]
      BY <2>1, <3>2, StepsFromIs
    <3> QED
      BY <3>1, <3>3
  <2>3. CASE TestExpiration(t)
    <3>1. PICK q \in {"iam", "return_cached"} : pc' = [pc EXCEPT ![t] = q]
      BY <2>3 DEF TestExpiration, Goto
    <3>2. pc[t] = "test_expiration"
      BY <2>3 DEF TestExpiration
    <3>3. q \in Step /\ StepsFrom[q] < StepsFrom[pc[t]]
      BY <2>1, <3>2, StepsFromIs
    <3> QED
      BY <3>1, <3>3
  <2>4. CASE ReturnCachedToken(t) \/ IamIssuesToken(t)
    BY <2>1, <2>4, StepsFromIs DEF ReturnCachedToken, IamIssuesToken, Goto
  <2>5. CASE StoreToken(t) \/ StoreExpiration(t)
    BY <2>1, <2>5, StepsFromIs DEF StoreToken, StoreExpiration, Goto
  <2>6. CASE IamFails(t) \/ Raises(t)
    BY <2>1, <2>6, StepsFromIs DEF IamFails, Raises, IamRequestRaises, IamAnswersNoObject,
         ChatRaises, Reply, Goto
  <2>7. CASE WatsonxDecides(t) \/ ChatFails(t)
    BY <2>1, <2>7, StepsFromIs DEF WatsonxDecides, ChatFails, Reply, Goto
  <2> QED
    BY <2>2, <2>3, <2>4, <2>5, <2>6, <2>7 DEF Proceed
<1>2. pc'[t] = p
  BY <1>1 DEF AnswerInv
<1> QED
  BY <1>1, <1>2 DEF StepsLeft

\* Nobody else moves a thread that is in a call, unless the process ends.
LEMMA NobodySetsBack ==
  ASSUME AnswerInv, NEW t \in Thread, InCall(t), [ServerNext]_serverVars
  PROVE  StepsLeft(t)' <= StepsLeft(t)
<1>1. CASE pc'[t] = pc[t]
  <2>1. StepsLeft(t)' = StepsLeft(t)
    BY <1>1 DEF StepsLeft
  <2> QED
    BY <2>1, StepsLeftType
<1>2. CASE ServiceRestarts
  <2>1. StepsLeft(t)' = 0
    BY <1>2, StepsFromIs DEF ServiceRestarts, StepsLeft
  <2> QED
    BY <2>1, StepsLeftType
<1>3. CASE Proceed(t)
  <2>1. StepsLeft(t)' \in 0..6
    BY <1>3, AnswerProceed, StepsFromIs DEF AnswerInv, StepsLeft
  <2> QED
    BY <1>3, <2>1, ProceedDescends, StepsLeftType
<1>4. ASSUME NEW u \in Thread, NEW p, pc' = [pc EXCEPT ![u] = p], u # t
      PROVE  pc'[t] = pc[t]
  BY <1>4 DEF AnswerInv
<1>5. ASSUME NEW u \in Thread, Begin(u)
      PROVE  pc'[t] = pc[t]
  <2>1. pc[u] \in {"idle", "done", "reading"} /\ \E p : pc' = [pc EXCEPT ![u] = p]
    BY <1>5 DEF Begin, BeginCall, AwaitBody, AnswerAtOnce, AnswerFromMock,
                AnswerUnready, AskWatsonx, Accept, Reply, Goto
  <2> QED
    BY <1>4, <2>1 DEF InCall
<1>6. ASSUME NEW u \in Thread, Proceed(u), u # t
      PROVE  pc'[t] = pc[t]
  <2>1. \E p : pc' = [pc EXCEPT ![u] = p]
    BY <1>6 DEF Proceed, TestToken, TestExpiration, ReturnCachedToken, IamIssuesToken,
                IamFails, Raises, IamRequestRaises, IamAnswersNoObject, ChatRaises,
                StoreToken, StoreExpiration, WatsonxDecides, ChatFails, Reply, Goto
  <2> QED
    BY <1>4, <1>6, <2>1
<1>7. CASE Tick \/ UNCHANGED serverVars
  BY <1>1, <1>7 DEF Tick, serverVars
<1> QED
  BY <1>1, <1>2, <1>3, <1>5, <1>6, <1>7 DEF ServerNext

Descends(t, n) == StepsLeft(t) = n ~> StepsLeft(t) < n

LEMMA CallDescends ==
  ASSUME NEW t \in Thread, NEW n \in 1..6
  PROVE  ServerSpec /\ ThreadFairness(t) /\ []CallsCanProceed => Descends(t, n)
<1>1. AnswerInv /\ [ServerNext]_serverVars /\ StepsLeft(t) = n
        => (StepsLeft(t) = n)' \/ (StepsLeft(t) < n)'
  <2> SUFFICES ASSUME AnswerInv, [ServerNext]_serverVars, StepsLeft(t) = n
               PROVE  StepsLeft(t)' = n \/ StepsLeft(t)' < n
    OBVIOUS
  <2>1. StepsLeft(t)' <= n
    BY NobodySetsBack, StepsLeftType
  <2>2. StepsLeft(t)' \in 0..6
    BY AnswerNext, StepsFromIs DEF AnswerInv, StepsLeft
  <2> QED
    BY <2>1, <2>2
<1>2. AnswerInv /\ <<Proceed(t)>>_serverVars /\ StepsLeft(t) = n => (StepsLeft(t) < n)'
  BY ProceedDescends
<1>3. AnswerInv /\ CallsCanProceed /\ StepsLeft(t) = n
        => ENABLED <<Proceed(t)>>_serverVars
  BY StepsLeftType DEF CallsCanProceed
<1> QED
  BY <1>1, <1>2, <1>3, AnswerInvariant, PTL
     DEF ServerSpec, ThreadFairness, Descends

CallEnds(t) == InCall(t) ~> ~InCall(t)

LEMMA OneCallEnds ==
  ASSUME NEW t \in Thread
  PROVE  ServerSpec /\ ServerFairness /\ []CallsCanProceed => CallEnds(t)
<1>1. ServerFairness => ThreadFairness(t)
  BY DEF ServerFairness
<1> DEFINE Left(n) == StepsLeft(t) = n
           Under(n) == StepsLeft(t) < n
<1>2. ServerSpec /\ ThreadFairness(t) /\ []CallsCanProceed
        => /\ Descends(t, 1) /\ Descends(t, 2) /\ Descends(t, 3)
           /\ Descends(t, 4) /\ Descends(t, 5) /\ Descends(t, 6)
  BY CallDescends
<1>3. AnswerInv /\ InCall(t) => Left(1) \/ Left(2) \/ Left(3) \/ Left(4) \/ Left(5) \/ Left(6)
  BY StepsLeftType
<1>4. AnswerInv =>
        /\ Under(1) => ~InCall(t)
        /\ Under(2) => ~InCall(t) \/ Left(1)
        /\ Under(3) => ~InCall(t) \/ Left(1) \/ Left(2)
        /\ Under(4) => ~InCall(t) \/ Left(1) \/ Left(2) \/ Left(3)
        /\ Under(5) => ~InCall(t) \/ Left(1) \/ Left(2) \/ Left(3) \/ Left(4)
        /\ Under(6) => ~InCall(t) \/ Left(1) \/ Left(2) \/ Left(3) \/ Left(4) \/ Left(5)
  BY StepsLeftType
<1> QED
  BY <1>1, <1>2, <1>3, <1>4, AnswerInvariant, PTL DEF Descends, CallEnds

\* Every call ends, for any number of threads and whatever the settings: each
\* takes at most six steps of its own, no other thread sets it back, and none is
\* waited for (CallsCanProceed).
THEOREM EveryCallEnds ==
  ServerSpec /\ ServerFairness /\ []CallsCanProceed => CallsAnswered
<1> SUFFICES ASSUME NEW t \in Thread
             PROVE  ServerSpec /\ ServerFairness /\ []CallsCanProceed
                      => (InCall(t) ~> ~InCall(t))
  BY DEF CallsAnswered
<1>1. ServerSpec /\ ServerFairness /\ []CallsCanProceed => CallEnds(t)
  BY OneCallEnds
<1> QED
  BY <1>1, PTL DEF CallEnds

=============================================================================
