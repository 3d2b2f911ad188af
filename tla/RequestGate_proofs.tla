-------------------------- MODULE RequestGate_proofs --------------------------
(***************************************************************************)
(* The filter implements the gate: every step of PqcFilter is a step of    *)
(* RequestGate or changes nothing that the gate speaks of.                 *)
(***************************************************************************)
EXTENDS PqcFilter_proofs

\* The state relation the steps rely on.
GateInv == IInv /\ FramesInOrder

Closed == stream = "gone"

LEMMA VerdictType == Verdict \in {"none", "pass", "reject"}
BY DEF Verdict

\* What has gone upstream is what the gate would have passed on.
LEMMA ForwardedByVerdict ==
  GateInv => forwarded = Gate!ForwardedUnder(Verdict, received)
<1> SUFFICES ASSUME GateInv
             PROVE  forwarded = Gate!ForwardedUnder(Verdict, received)
  OBVIOUS
<1>1. CASE reply # << >>
  BY <1>1, InvImplies DEF GateInv, RejectedStaysOut, Verdict, Gate!ForwardedUnder
<1>2. CASE reply = << >> /\ forwarded # << >>
  <2>1. held = << >>
    BY <1>2, ForwardedIsPassed DEF GateInv, Passed
  <2>2. forwarded \o << >> = forwarded
    BY ConcatEmptySeq DEF GateInv, IInv, TypeOK
  <2> QED
    BY <1>2, <2>1, <2>2
       DEF GateInv, FramesInOrder, Verdict, Gate!ForwardedUnder, Gate!Frames
<1>3. CASE reply = << >> /\ forwarded = << >>
  BY <1>3 DEF Verdict, Gate!ForwardedUnder
<1> QED
  BY <1>1, <1>2, <1>3

\* A request that is held back has at least its headers.
LEMMA SomethingHeld ==
  GateInv /\ forwarded = << >> /\ held # << >> => received > 0
<1> SUFFICES ASSUME GateInv, forwarded = << >>, held # << >>, received = 0
             PROVE  FALSE
  BY DEF GateInv, IInv, TypeOK
<1>1. forwarded \o held = held
  BY ConcatEmptySeq DEF GateInv, IInv, TypeOK
<1>2. [i \in 1..0 |-> i] = << >>
  OBVIOUS
<1> QED
  BY <1>1, <1>2 DEF GateInv, FramesInOrder

-----------------------------------------------------------------------------
(* Steps *)

\* A step that receives nothing and closes nothing decides, or is a stutter.
LEMMA DecideOrStutter ==
  ASSUME GateInv, GateInv', received' = received, ~Closed, ~Closed',
         \/ Verdict' = Verdict
         \/ Verdict = "none" /\ received > 0
  PROVE  [Gate!Next]_(Gate!vars)
<1>1. /\ forwarded = Gate!ForwardedUnder(Verdict, received)
      /\ forwarded' = Gate!ForwardedUnder(Verdict', received')
  <2>1. (forwarded = Gate!ForwardedUnder(Verdict, received))'
    BY ForwardedByVerdict, PTL
  <2> QED
    BY <2>1, ForwardedByVerdict DEF Gate!ForwardedUnder, Gate!Frames
<1>2. CASE Verdict' = Verdict
  BY <1>1, <1>2 DEF Gate!vars, Closed
<1>3. CASE Verdict = "none" /\ received > 0 /\ Verdict' # Verdict
  <2>1. Verdict' \in {"pass", "reject"}
    BY <1>3 DEF Verdict
  <2>2. Gate!Decide
    BY <1>1, <1>3, <2>1 DEF Gate!Decide, Closed
  <2> QED
    BY <2>2 DEF Gate!Next
<1> QED
  BY <1>2, <1>3

\* A step that takes a frame in, on an open stream that is not rejected.
LEMMA FrameIsReceived ==
  ASSUME GateInv, GateInv', ~Closed, ~Closed', received' = received + 1,
         Verdict # "reject",
         received = 0 \/ Verdict' = Verdict
  PROVE  Gate!Receive
<1>1. forwarded' = Gate!ForwardedUnder(Verdict', received')
  <2>1. (forwarded = Gate!ForwardedUnder(Verdict, received))'
    BY ForwardedByVerdict, PTL
  <2> QED
    BY <2>1 DEF Gate!ForwardedUnder, Gate!Frames
<1>2. Verdict' \in {"none", "pass", "reject"}
  BY DEF Verdict
<1> QED
  BY <1>1, <1>2 DEF Gate!Receive, Gate!Verdict, Closed

LEMMA RefineDecodeHeaders ==
  ASSUME GateInv, GateInv', DecodeHeaders
  PROVE  Gate!Receive
<1>1. Fresh /\ received' = 1 /\ Alive'
  BY PhaseByCall
     DEF GateInv, DecodeHeaders, DecodeHeadersDisabled, DecodeHeadersLocally,
         DecodeHeadersRemotely, HeadersArrive, Alive
<1>2. received = 0
  <2>1. forwarded \o held = << >>
    BY <1>1, ConcatEmptySeq, EmptySeq DEF Fresh, Undecided, GateInv, IInv, TypeOK
  <2>2. received \in Nat
    BY DEF GateInv, IInv, TypeOK
  <2>3. Len(forwarded \o held) = received
    BY <2>2 DEF GateInv, FramesInOrder
  <2> QED
    BY <2>1, <2>3
<1>3. Verdict # "reject" /\ ~Closed /\ ~Closed'
  BY <1>1 DEF Fresh, Undecided, Verdict, Closed, Alive
<1> QED
  BY <1>1, <1>2, <1>3, FrameIsReceived

LEMMA RefineDecodeFrame ==
  ASSUME GateInv, GateInv', DecodeData \/ DecodeTrailers
  PROVE  Gate!Receive
<1>1. /\ calling = "none" /\ stream = "open" /\ reply = << >> /\ reply' = reply
      /\ stream' \in {"open", "ended"} /\ received' = received + 1
      /\ waiting_for_policy' = waiting_for_policy
  BY DEF DecodeData, DecodeTrailers, FrameArrives, filterVars
<1>2. CASE Waiting
  <2>1. Hold(<<received'>>)
    BY <1>2 DEF DecodeData, DecodeTrailers, GateInv, IInv, Flags, Waiting
  <2>2. forwarded' = forwarded
    BY <2>1 DEF Hold
  <2> QED
    BY <1>1, <2>2, FrameIsReceived DEF Verdict, Closed
<1>3. CASE Passed
  <2>1. Phases' /\ Flags' /\ TypeOK'
    BY DEF GateInv, IInv
  <2>2. PassOn(<<received'>>) /\ held = << >> /\ forwarded # << >>
    BY <1>3 DEF DecodeData, DecodeTrailers, GateInv, IInv, Flags, Passed, Idle
  <2>3. forwarded' # << >>
    <3>1. <<received'>> \in Seq(1..MaxFrames) /\ forwarded \in Seq(1..MaxFrames)
      BY <1>1, MaxFramesAssumption
         DEF DecodeData, DecodeTrailers, FrameArrives, GateInv, IInv, TypeOK
    <3>2. forwarded' = forwarded \o <<received'>>
      BY <2>2, <3>1, ConcatEmptySeq DEF PassOn
    <3>3. Len(forwarded') = Len(forwarded) + 1
      BY <3>1, <3>2, ConcatProperties
    <3> QED
      BY <3>1, <3>3, EmptySeq
  <2> QED
    BY <1>1, <2>2, <2>3, FrameIsReceived DEF Verdict, Closed
<1> QED
  BY <1>1, <1>2, <1>3, PhaseByCall DEF GateInv

LEMMA RefineSendReturns ==
  ASSUME GateInv, GateInv', SendReturnsRequest \/ SendReturnsNull
  PROVE  [Gate!Next]_(Gate!vars)
<1>1. /\ Alive /\ stream' = stream /\ received' = received
      /\ forwarded = << >> /\ held # << >>
      /\ Sending \/ AnsweredInline
  BY PhaseByCall
     DEF SendReturnsRequest, SendReturnsNull, Sending, AnsweredInline, Undecided, GateInv
<1>2. received > 0 /\ ~Closed /\ ~Closed'
  BY <1>1, SomethingHeld DEF Closed, Alive
<1>3. CASE reply = << >>
  BY <1>1, <1>2, <1>3, DecideOrStutter DEF Verdict
<1>4. CASE reply # << >>
  <2>1. reply' = reply
    BY <1>4, StepsThatSettle DEF GateInv, Undecided, Next
  <2> QED
    BY <1>1, <1>2, <1>4, <2>1, DecideOrStutter DEF Verdict
<1> QED
  BY <1>3, <1>4

LEMMA RefineAnswer ==
  ASSUME GateInv, GateInv', OnSuccess \/ OnFailure
  PROVE  [Gate!Next]_(Gate!vars)
<1>1. PICK outcome : Answer(outcome)
  BY DEF OnSuccess, OnFailure
<1>2. Sending \/ Waiting
  BY <1>1, PhaseByCall DEF Answer, AnswerPossible, GateInv
<1>3. /\ Alive /\ forwarded = << >> /\ held # << >> /\ reply = << >>
      /\ stream' = stream
  BY <1>1, <1>2 DEF Answer, Sending, Waiting, Undecided
<1>4. received' = received
  BY <1>1 DEF Answer, Finish, requestVars
<1> QED
  BY <1>3, <1>4, SomethingHeld, DecideOrStutter DEF Verdict, Closed, Alive

LEMMA RefineReturnFromLocalReply ==
  ASSUME ReturnFromLocalReply
  PROVE  UNCHANGED Gate!vars
BY DEF ReturnFromLocalReply, requestVars, Gate!vars, Verdict

LEMMA RefineOnDestroy ==
  ASSUME OnDestroy
  PROVE  Gate!Close
BY DEF OnDestroy, requestVars, Gate!Close, Verdict

LEMMA RefineInit == Init => Gate!Init
BY DEF Init, Gate!Init, Verdict

LEMMA RefineNext ==
  GateInv /\ GateInv' /\ [Next]_vars => [Gate!Next]_(Gate!vars)
<1>1. vars' = vars => UNCHANGED Gate!vars
  BY DEF vars, requestVars, Gate!vars, Verdict
<1> QED
  BY <1>1, RefineDecodeHeaders, RefineDecodeFrame, RefineSendReturns, RefineAnswer,
     RefineReturnFromLocalReply, RefineOnDestroy DEF Next, Gate!Next

\* For every configuration and whatever the policy service does, the filter lets
\* a request through whole and in order or not at all, and settles once which.
THEOREM FilterIsAGate == Spec => ImplementsGate
<1>1. Spec => []GateInv
  BY InvariantHolds, FramesHold, PTL DEF GateInv
<1> QED
  BY <1>1, RefineInit, RefineNext, PTL DEF Spec, ImplementsGate, Gate!Spec

-----------------------------------------------------------------------------
(* And in the end each request is through, rejected or gone *)

LEMMA GateHolds == Spec => []GateInv
BY InvariantHolds, FramesHold, PTL DEF GateInv

\* Some of the request is there.
Begun == received > 0

\* Nothing is settled yet.
Unsettled == Begun /\ Verdict = "none" /\ ~Closed

\* What is neither through nor rejected is held back.
LEMMA UnsettledIsHeld == GateInv /\ Unsettled => held # << >>
<1> SUFFICES ASSUME GateInv, Unsettled, held = << >>
             PROVE  FALSE
  OBVIOUS
<1>1. forwarded = << >>
  BY DEF Unsettled, Verdict
<1>2. forwarded \o held = << >>
  BY <1>1, ConcatEmptySeq DEF GateInv, IInv, TypeOK
<1>3. received \in Nat /\ received > 0
  BY DEF GateInv, IInv, TypeOK, Unsettled, Begun
<1>4. [i \in 1..received |-> i] = << >>
  BY <1>2 DEF GateInv, FramesInOrder
<1>5. DOMAIN [i \in 1..received |-> i] = 1..received /\ 1 \in 1..received
  BY <1>3
<1>6. DOMAIN << >> = {}
  OBVIOUS
<1> QED
  BY <1>4, <1>5, <1>6

\* Frames once received stay received.
LEMMA BegunStays == GateInv /\ Begun /\ [Next]_vars => Begun'
<1> SUFFICES ASSUME GateInv, received > 0, [Next]_vars
             PROVE  received' > 0
  BY DEF Begun
<1>1. received \in Nat
  BY DEF GateInv, IInv, TypeOK
<1>2. CASE DecodeHeaders
  BY <1>2 DEF DecodeHeaders, DecodeHeadersDisabled, DecodeHeadersLocally,
              DecodeHeadersRemotely, HeadersArrive
<1>3. CASE DecodeData \/ DecodeTrailers
  BY <1>1, <1>3 DEF DecodeData, DecodeTrailers, FrameArrives
<1>4. CASE SendReturnsRequest \/ SendReturnsNull
  BY <1>4 DEF SendReturnsRequest, SendReturnsNull, requestVars
<1>5. CASE OnSuccess \/ OnFailure
  <2>1. \A outcome : Answer(outcome) => received' = received
    BY DEF Answer, Finish, requestVars
  <2> QED
    BY <1>5, <2>1 DEF OnSuccess, OnFailure
<1>6. CASE ReturnFromLocalReply \/ OnDestroy \/ UNCHANGED vars
  BY <1>6 DEF ReturnFromLocalReply, OnDestroy, vars, requestVars
<1> QED
  BY <1>2, <1>3, <1>4, <1>5, <1>6 DEF Next

\* No frame stays held back for ever.
HeldEnds == held # << >> ~> held = << >> \/ reply # << >> \/ stream = "gone"

LEMMA HeldSettles == Spec /\ HeldEnds => Gate!Settled
<1>1. GateInv /\ Begun => Verdict # "none" \/ stream = "gone" \/ held # << >>
  BY UnsettledIsHeld DEF Unsettled, Closed
<1>2. GateInv /\ Begun /\ [Next]_vars => Begun'
  BY BegunStays
<1>3. reply # << >> => Verdict # "none"
  BY DEF Verdict
<1>4. held # << >> <=> ~(held = << >>)
  OBVIOUS
<1>5. received > 0 => Begun
  BY DEF Begun
<1> QED
  BY <1>1, <1>2, <1>3, <1>4, <1>5, GateHolds, PTL DEF Spec, HeldEnds, Gate!Settled

\* The filter keeps the whole promise of the gate where Envoy runs a timer for the
\* policy request: no request hangs, whatever the policy service does or fails to
\* do, given that nothing the filter waits for is ruled out (the property
\* WaitsCanEnd).
THEOREM FilterIsALiveGate ==
  FairSpec /\ []WaitsCanEnd /\ []Timed => Gate!LiveSpec
<1>1. Timed <=> (config.timeout # << >> => config.timeout[1] >= 1000)
  BY DEF Timed
<1>2. FairSpec /\ []WaitsCanEnd /\ []Timed => HeldEnds
  BY <1>1, HeldFramesAreResolved, PTL DEF HeldFramesResolve, HeldEnds
<1> QED
  BY <1>2, HeldSettles, FilterIsAGate, PTL DEF FairSpec, ImplementsGate, Gate!LiveSpec

=============================================================================
