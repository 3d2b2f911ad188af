----------------------------- MODULE RequestGate -----------------------------
(***************************************************************************)
(* What the PQC filter promises to the request that passes through it,     *)
(* whatever it consults and however that fails: frames of the request      *)
(* (headers, data, trailers, numbered as they arrive) go upstream all or   *)
(* not at all, in order, and whether they do is decided once.              *)
(***************************************************************************)
EXTENDS Naturals

VARIABLES received,   \* how many frames the downstream has sent
          verdict,    \* "none" until decided, then "pass" or "reject"
          forwarded,  \* the frames given to the next filter, in order
          closed      \* the stream is gone

vars == <<received, verdict, forwarded, closed>>

Verdict == {"none", "pass", "reject"}

Frames(n) == [i \in 1..n |-> i]

\* What has gone upstream follows from the verdict.
ForwardedUnder(v, n) == IF v = "pass" THEN Frames(n) ELSE << >>

Init == /\ received = 0
        /\ verdict = "none"
        /\ forwarded = << >>
        /\ closed = FALSE

\* Another frame arrives.  Only the first one can settle the verdict on arrival.
Receive == /\ ~closed
           /\ verdict # "reject"
           /\ received' = received + 1
           /\ verdict' \in IF received = 0 THEN Verdict ELSE {verdict}
           /\ forwarded' = ForwardedUnder(verdict', received')
           /\ UNCHANGED closed

\* The verdict is reached while frames wait.
Decide == /\ ~closed
          /\ received > 0
          /\ verdict = "none"
          /\ verdict' \in {"pass", "reject"}
          /\ forwarded' = ForwardedUnder(verdict', received)
          /\ UNCHANGED <<received, closed>>

\* The stream ends; nothing moves afterwards.
Close == /\ ~closed
         /\ closed' = TRUE
         /\ UNCHANGED <<received, verdict, forwarded>>

Next == Receive \/ Decide \/ Close

Spec == Init /\ [][Next]_vars

\* No request hangs: once its headers are there, it passes, is rejected or ends.
Settled == received > 0 ~> verdict # "none" \/ closed

LiveSpec == Spec /\ Settled

=============================================================================
