--------------------------- MODULE VerdictService ---------------------------
(***************************************************************************)
(* What the policy service promises its clients, whatever goes on inside:  *)
(* a call that is taken is answered at most once, by an answer that the    *)
(* call and the settings permit.  Nothing else counts: not what others     *)
(* ask, not what was answered before, not how old a token is.              *)
(***************************************************************************)
CONSTANTS Client,
          Calls,            \* what a client may ask
          Settings,         \* what the service may be started with
          MayAnswer(_, _),  \* the answers permitted to a call under settings
          NoCall,
          NoAnswer

VARIABLES settings,   \* of the process, and of every later one
          asked,      \* the call each client has made, if any
          said        \* what it was answered, if it was

vars == <<settings, asked, said>>

Waiting(c) == asked[c] # NoCall /\ said[c] = NoAnswer

\* Nobody but client c is concerned.
OnlyFor(c) == /\ asked' = [asked EXCEPT ![c] = asked'[c]]
              /\ said' = [said EXCEPT ![c] = said'[c]]
              /\ UNCHANGED settings

Init == /\ settings \in Settings
        /\ asked = [c \in Client |-> NoCall]
        /\ said = [c \in Client |-> NoAnswer]

\* A call is taken, and may be answered at once.
Take(c) == /\ ~Waiting(c)
           /\ asked'[c] \in Calls
           /\ said'[c] \in {NoAnswer} \cup MayAnswer(asked'[c], settings)
           /\ OnlyFor(c)

Answer(c) == /\ Waiting(c)
             /\ asked'[c] = asked[c]
             /\ said'[c] \in MayAnswer(asked[c], settings)
             /\ OnlyFor(c)

\* A client that has its answer goes.
Leave(c) == /\ ~Waiting(c)
            /\ asked'[c] = NoCall
            /\ said'[c] = NoAnswer
            /\ OnlyFor(c)

\* The calls end with the process.
Restart == /\ asked' = [c \in Client |-> NoCall]
           /\ said' = [c \in Client |-> NoAnswer]
           /\ UNCHANGED settings

Next == \/ \E c \in Client : Take(c) \/ Answer(c) \/ Leave(c)
        \/ Restart

Spec == Init /\ [][Next]_vars

\* No call is forgotten: it is answered in the end, or ends with the process.
Served(c) == Waiting(c) ~> ~Waiting(c)

Answered == \A c \in Client : Served(c)

LiveSpec == Spec /\ Answered

=============================================================================
