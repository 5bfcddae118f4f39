-------------------------- MODULE RequestLifecycle --------------------------
(***************************************************************************)
(* What the network layer promises for a request, whichever engine runs    *)
(* it: it is on the wire at most once at a time and MaxTries times in all, *)
(* no more than Concurrent requests are on the wire together, its caller   *)
(* is answered once, with a response only if the request was sent, and     *)
(* every submitted request is answered in the end.  QueueState (the async  *)
(* queue) and RequestExecutor (the synchronous loop) each implement it.    *)
(***************************************************************************)
EXTENDS Naturals, FiniteSets

CONSTANTS
    Requests,
    Concurrent,   \* requests on the wire at once
    MaxTries      \* sends of one request

VARIABLES
    answer,     \* [Requests -> what the caller has: "none" before submit, "waiting", or final]
    onWire,     \* requests being sent now
    tries       \* [Requests -> sends begun]

vars == <<answer, onWire, tries>>

Final == {"response", "error", "cancelled"}

Init ==
    /\ answer = [r \in Requests |-> "none"]
    /\ onWire = {}
    /\ tries = [r \in Requests |-> 0]

\* Accepted, or refused on the spot.
Submit(r) ==
    /\ answer[r] = "none"
    /\ answer' = [answer EXCEPT ![r] = "waiting"] \/ answer' = [answer EXCEPT ![r] = "error"]
    /\ UNCHANGED <<onWire, tries>>

Send(r) ==
    /\ answer[r] # "none"
    /\ r \notin onWire
    /\ Cardinality(onWire) < Concurrent
    /\ tries[r] < MaxTries
    /\ onWire' = onWire \cup {r}
    /\ tries' = [tries EXCEPT ![r] = @ + 1]
    /\ UNCHANGED answer

\* Callers are answered, each once; with a response only if the request was sent.
Answers ==
    /\ answer' \in [Requests -> {"none", "waiting"} \cup Final]
    /\ \A r \in Requests : answer'[r] # answer[r] =>
          /\ answer[r] = "waiting" /\ answer'[r] \in Final
          /\ answer'[r] = "response" => tries[r] > 0

Return(r) ==
    /\ r \in onWire
    /\ onWire' = onWire \ {r}
    /\ Answers
    /\ UNCHANGED tries

Answer == Answers /\ UNCHANGED <<onWire, tries>>

Next ==
    \/ \E r \in Requests : Submit(r) \/ Send(r) \/ Return(r)
    \/ Answer

Spec == Init /\ [][Next]_vars

-----------------------------------------------------------------------------
TypeOK ==
    /\ answer \in [Requests -> {"none", "waiting"} \cup Final]
    /\ onWire \subseteq Requests
    /\ tries \in [Requests -> 0 .. MaxTries]

\* A caller that waits is answered in the end.
Answered == \A r \in Requests : answer[r] = "waiting" ~> answer[r] # "waiting"
=============================================================================
