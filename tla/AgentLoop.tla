---------------------------- MODULE AgentLoop ----------------------------
(* One AgentLoop: its run (complete or stream), the tool calls of a round   *)
(* on their worker threads, the approval gate, staged input, the repair     *)
(* that every run passes through, and checkpoints across a crash.           *)
(* A model's turn is the number of calls it asks for; a call is the turn    *)
(* and its index in it, and its id is what the provider makes of the two.   *)
EXTENDS Integers, Sequences, SequencesExt, FiniteSets

CONSTANTS
  Width,       \* calls a model may ask for in one turn
  MaxSteps,    \* max_steps
  Attempts,    \* reflect_and_retry.max_attempts
  Parallel,    \* the values parallel_tool_calls takes
  FreshIds,    \* whether call ids differ between turns
  Fragile,     \* the callbacks that may raise: "thunk", "warning", "start", "call"
  MaxRuns, MaxTurns,   \* bounds on the callers and on the models
  MaxStaged,           \* bound on the staged messages of a conversation
  MaxIncidents         \* bound on stops, malfunctions and crashes together

ASSUME LoopAssumption ==
  /\ Width \in Nat \ {0} /\ MaxSteps \in Nat \ {0} /\ Attempts \in Nat
  /\ Parallel \subseteq BOOLEAN /\ Parallel # {} /\ FreshIds \in BOOLEAN
  /\ Fragile \subseteq {"thunk", "warning", "start", "call"}
  /\ MaxRuns \in Nat /\ MaxTurns \in Nat /\ MaxStaged \in Nat /\ MaxIncidents \in Nat

VARIABLES
  pc,          \* where the run is; "idle" when none is
  running, stopping, streaming, parallel,
  step, failures,
  history,     \* the transcript
  staged,      \* _pending_input
  pending,     \* _pending_tool_calls
  call,        \* of each call of the round: where its thread is, what it holds
  saved,       \* what the checkpoint store holds
  \* history variables
  turn, runs, incidents,
  asks,        \* requests sent in this run
  unheard      \* calls whose body ran and whose result the last run did not keep

control == <<pc, running, stopping, streaming, parallel, step, failures>>
ghosts == <<turn, runs, incidents>>
vars == <<pc, running, stopping, streaming, parallel, step, failures, history, staged,
          pending, call, saved, turn, runs, incidents, asks, unheard>>

Calls(t, n) == {[turn |-> t, index |-> i] : i \in 1..n}
Id(c) == IF FreshIds THEN <<c.turn, c.index>> ELSE <<c.index>>

Said(kind, n) == [role |-> "user", kind |-> kind, mark |-> n, calls |-> {}]
Reply(cs) == [role |-> "assistant", kind |-> "reply", mark |-> 0, calls |-> cs]
Results(kind, cs) == [role |-> "tool", kind |-> kind, mark |-> 0, calls |-> cs]

NoCall == [at |-> "none", said |-> "nothing", draft |-> {}, copy |-> {}]
Queued == [NoCall EXCEPT !.at = "queued"]
NoRound == [i \in 1..Width |-> NoCall]
Nothing == [history |-> <<>>, pending |-> {}, staged |-> <<>>]

Init ==
  /\ pc = "idle" /\ running = FALSE /\ stopping = FALSE /\ streaming = FALSE
  /\ parallel \in Parallel /\ step = 0 /\ failures = 0
  /\ history = <<>> /\ staged = <<>> /\ pending = {} /\ call = NoRound /\ saved = Nothing
  /\ turn = 0 /\ runs = 0 /\ incidents = 0
  /\ asks = 0 /\ unheard = {}

-----------------------------------------------------------------------------
(* Beginning a run *)

Spoken(h, role) == UNION {h[k].calls : k \in {j \in DOMAIN h : h[j].role = role}}

\* Calls no result answers, one for each id: both sides are compared by id.
Orphans(h) ==
  LET answered == {Id(c) : c \in Spoken(h, "tool")}
      open == {c \in Spoken(h, "assistant") : Id(c) \notin answered}
  IN {c \in open : \A d \in open : Id(d) = Id(c) => d.turn >= c.turn}

\* Fault: only one of the open calls is answered.
RepairsOne(h) ==
  IF Orphans(h) = {} THEN h ELSE Append(h, Results("repair", {CHOOSE c \in Orphans(h) : TRUE}))

Repaired(h) ==
  IF Orphans(h) = {} THEN h ELSE Append(h, Results("repair", Orphans(h)))

\* Fault: admitted messages stay staged.
StillStaged == staged

\* What admission leaves staged.
Unadmitted == <<>>

Admitted(h, waiting) ==
  Append(h, Said("input", 0)) \o [k \in DOMAIN waiting |-> Said("staged", waiting[k])]

Incident == incidents < MaxIncidents /\ incidents' = incidents + 1

Occupy(asStream) ==
  /\ ~running /\ pc = "idle" /\ runs < MaxRuns
  /\ running' = TRUE /\ stopping' = FALSE /\ failures' = 0
  /\ streaming' = asStream /\ runs' = runs + 1
  /\ unheard' = {}
  /\ UNCHANGED <<parallel, pending, call, saved, turn, incidents>>

BeginRun(asStream) ==
  /\ Occupy(asStream)
  /\ pc' = "top" /\ step' = 0 /\ asks' = 0
  /\ history' = Admitted(Repaired(history), staged)
  /\ staged' = Unadmitted

\* A callback raises before the try that gives `running` back.
BeginRaises(asStream, at) ==
  /\ at \in Fragile \cap {"thunk", "warning", "start"}
  /\ at = "warning" => Orphans(history) # {}
  /\ Occupy(asStream)
  /\ history' = CASE at = "thunk" -> history
                  [] at = "warning" -> Repaired(history)
                  [] at = "start" -> Admitted(Repaired(history), staged)
  /\ staged' = IF at = "start" THEN Unadmitted ELSE staged
  /\ UNCHANGED <<pc, step, asks>>

Marks == {staged[k] : k \in DOMAIN staged} \union ({history[k].mark : k \in DOMAIN history} \ {0})

AddInput ==
  /\ ~running /\ Cardinality(Marks) < MaxStaged
  /\ staged' = Append(staged, Cardinality(Marks) + 1)
  /\ UNCHANGED <<control, history, pending, call, saved, ghosts, asks, unheard>>

ClearPendingInput ==
  /\ staged # <<>> /\ staged' = <<>>
  /\ UNCHANGED <<control, history, pending, call, saved, ghosts, asks, unheard>>

Stop ==
  /\ running /\ ~stopping /\ Incident /\ stopping' = TRUE
  /\ UNCHANGED <<pc, running, streaming, parallel, step, failures, history, staged, pending,
                 call, saved, turn, runs, asks, unheard>>

-----------------------------------------------------------------------------
(* A step of the run *)

Goto(place) ==
  /\ pc' = place
  /\ UNCHANGED <<running, stopping, streaming, parallel>>

\* The finally of complete() and stream(): every way out gives `running` back.
Over ==
  /\ pc' = "idle" /\ running' = FALSE /\ call' = NoRound
  /\ streaming' = FALSE /\ step' = 0 /\ asks' = 0
  /\ UNCHANGED <<stopping, parallel, failures, history, staged, pending, saved,
                 ghosts, unheard>>

StepTop ==
  /\ pc = "top"
  /\ \/ stopping /\ Over
     \/ ~stopping /\ Goto("step")
        /\ UNCHANGED <<step, failures, history, staged, pending, call, saved, ghosts, asks,
                       unheard>>

\* onStepStart and the input guardrails, either of which may end the run.
AskModel ==
  /\ pc = "step"
  /\ \/ Over
     \/ Goto("model") /\ asks' = asks + 1
        /\ UNCHANGED <<step, failures, history, staged, pending, call, saved, ghosts, unheard>>

ModelFails == pc = "model" /\ Over

\* A finish reason the reflection policy handles: only complete() looks for one.
MayReflect == failures + 1 <= Attempts
ModelMalfunctions ==
  /\ pc = "model" /\ ~streaming /\ Attempts > 0 /\ MayReflect /\ Incident
  /\ failures' = failures + 1 /\ history' = Append(history, Said("guidance", 0))
  /\ Goto("top")
  /\ UNCHANGED <<step, staged, pending, call, saved, turn, runs, asks, unheard>>

\* A failure beyond the budget either raises or is taken as the reply it is.
ModelReplies ==
  /\ pc = "model" /\ turn < MaxTurns
  /\ \E n \in 0..Width, usable \in BOOLEAN :
       /\ usable \/ (~streaming /\ Attempts > 0 /\ ~MayReflect)
       /\ failures' = IF usable /\ ~streaming THEN 0 ELSE failures + (IF usable THEN 0 ELSE 1)
       /\ turn' = turn + 1
       /\ history' = Append(history, Reply(Calls(turn + 1, n)))
       /\ call' = [i \in 1..Width |-> IF i <= n THEN Queued ELSE NoCall]
  /\ Goto("reply")
  /\ UNCHANGED <<step, staged, pending, saved, runs, incidents, asks, unheard>>

\* onStepComplete and the output guardrails: ending here leaves the calls open.
ReplyChecked ==
  /\ pc = "reply"
  /\ \/ Over
     \/ Goto("tools")
        /\ UNCHANGED <<step, failures, history, staged, pending, call, saved, ghosts, asks,
                       unheard>>

-----------------------------------------------------------------------------
(* The calls of a round *)

Asked == {i \in 1..Width : call[i].at # "none"}
Current(i) == [turn |-> turn, index |-> i]
\* Fault: a failed call keeps the pool waiting.
SettledIfDone(i) == call[i].at = "done"

Settled(i) == call[i].at \in {"done", "failed"}
Ended(i) == call[i].at = "done"

\* In turn, or each on a worker of its own.
MayStart(i) ==
  /\ pc = "tools" /\ call[i].at = "queued"
  /\ parallel \/ \A j \in Asked : j < i => Ended(j)

CallGoes(i, place) ==
  /\ call' = [call EXCEPT ![i] = [at |-> place, said |-> IF place \in {"done", "failed"} THEN "nothing" ELSE @.said,
                                  draft |-> {}, copy |-> {}]]
  /\ UNCHANGED <<control, history, staged, ghosts, asks>>

\* The policy lets the call run.
RunTool(i) ==
  /\ MayStart(i) /\ CallGoes(i, "running")
  /\ unheard' = unheard \union {Current(i)}
  /\ UNCHANGED <<pending, saved>>

\* Malformed, unknown, invalid or denied: answered without running.
Refuse(i) ==
  /\ MayStart(i) /\ CallGoes(i, "done")
  /\ UNCHANGED <<pending, saved, unheard>>

\* The policy asks: the call is listed, and the snapshot is made of what is listed now.
Listed(i) == pending \union {Current(i)}
\* Fault: the snapshot is made before the call is listed.
SnapshotBefore(i) == pending

Snapshot(i) == Listed(i)

AwaitApproval(i) ==
  /\ MayStart(i)
  /\ pending' = Listed(i)
  /\ call' = [call EXCEPT ![i].at = "saving", ![i].said = "asked", ![i].draft = Snapshot(i)]
  /\ UNCHANGED <<control, history, staged, saved, ghosts, asks, unheard>>

\* checkpoint.set
SaveCheckpoint(i) ==
  /\ call[i].at = "saving"
  /\ saved' = [history |-> history, pending |-> call[i].draft, staged |-> staged]
  /\ CallGoes(i, "waiting")
  /\ UNCHANGED <<pending, unheard>>

Without(i, list) == {c \in list : Id(c) # Id(Current(i))}

\* A plain yes runs the tool; an override answers in its place; a refusal, an exception and
\* no decision at all are a no.
Verdicts == {"yes", "override", "no"}

\* The approver answers, and the list without the call is put together ...
Decide(i, verdict) ==
  /\ call[i].at = "waiting"
  /\ call' = [call EXCEPT ![i].at = "decided", ![i].said = verdict, ![i].copy = Without(i, pending)]
  /\ UNCHANGED <<control, history, staged, pending, saved, ghosts, asks, unheard>>

\* Fault: an approval with an override runs the tool as well.
ApprovedWithAnswer(i) == call[i].said \in {"yes", "override"}

\* ... and only then put in place of the old one.
Approved(i) == call[i].said = "yes"

Resolve(i) ==
  /\ call[i].at = "decided"
  /\ pending' = call[i].copy
  /\ CallGoes(i, IF Approved(i) THEN "running" ELSE "done")
  /\ unheard' = IF Approved(i) THEN unheard \union {Current(i)} ELSE unheard
  /\ UNCHANGED saved

\* The approver raises past the gate (KeyboardInterrupt, SystemExit): the run suspends.
Suspend(i) ==
  /\ call[i].at = "waiting" /\ CallGoes(i, "failed")
  /\ UNCHANGED <<pending, saved, unheard>>

ToolReturns(i) ==
  /\ call[i].at = "running" /\ CallGoes(i, "done")
  /\ UNCHANGED <<pending, saved, unheard>>

\* A hook raises, before the tool or after it.
CallRaises(i) ==
  /\ "call" \in Fragile
  /\ MayStart(i) \/ call[i].at = "running"
  /\ CallGoes(i, "failed")
  /\ UNCHANGED <<pending, saved, unheard>>

\* The pool is left only when every call has ended; in turn, a failure ends the round.
RoundFails ==
  /\ pc = "tools" /\ \E i \in Asked : call[i].at = "failed"
  /\ parallel => \A i \in Asked : Settled(i)
  /\ Over

RoundDone ==
  /\ pc = "tools" /\ Asked # {} /\ \A i \in Asked : Ended(i)
  /\ Goto("told")
  /\ UNCHANGED <<step, failures, history, staged, pending, call, saved, ghosts, asks, unheard>>

\* Fault: one step past max_steps.
OneStepMore == step >= MaxSteps

\* The results join the transcript, and the step is counted.
OutOfSteps == step + 1 >= MaxSteps

\* Fault: the step is not counted.
Uncounted == step

Counted == step + 1

NextStep ==
  /\ pc = "told" \/ (pc = "tools" /\ Asked = {})
  /\ history' = IF Asked = {} THEN history
                ELSE Append(history, Results("results", {Current(i) : i \in Asked}))
  /\ call' = NoRound /\ unheard' = unheard \ {Current(i) : i \in Asked}
  /\ IF Asked = {} \/ OutOfSteps
       THEN pc' = "idle" /\ running' = FALSE /\ streaming' = FALSE /\ step' = 0 /\ asks' = 0
       ELSE pc' = "top" /\ step' = Counted /\ UNCHANGED <<running, streaming, asks>>
  /\ UNCHANGED <<stopping, parallel, failures, staged, pending, saved, ghosts>>

\* The consumer of a stream leaves at one of its yields: a step's start or end, a delta,
\* before the calls start, or after they ended and before their results are kept.
Abandon ==
  /\ streaming /\ pc \in {"step", "model", "tools", "told"}
  /\ pc = "tools" => \A i \in Asked : call[i] = Queued
  /\ Over

-----------------------------------------------------------------------------
(* Snapshots and restarts *)

\* dump() by the caller, between runs, and only where a crash may make use of it.
Dump ==
  /\ ~running /\ incidents < MaxIncidents
  /\ saved' = [history |-> history, pending |-> pending, staged |-> staged]
  /\ UNCHANGED <<control, history, staged, pending, call, ghosts, asks, unheard>>

\* The process ends anywhere; AgentLoop.restore makes a new loop of what was saved.
Restart ==
  /\ Incident
  /\ history' = saved.history /\ pending' = saved.pending /\ staged' = saved.staged
  /\ pc' = "idle" /\ running' = FALSE /\ stopping' = FALSE /\ step' = 0 /\ failures' = 0
  /\ call' = NoRound /\ streaming' = FALSE /\ asks' = 0
  /\ UNCHANGED <<parallel, saved, turn, runs, unheard>>

Caller ==
  \/ \E asStream \in BOOLEAN :
       \/ BeginRun(asStream)
       \/ \E at \in Fragile : BeginRaises(asStream, at)
  \/ AddInput \/ ClearPendingInput \/ Stop \/ Abandon \/ Dump \/ Restart

Run ==
  \/ StepTop \/ AskModel \/ ModelFails \/ ModelMalfunctions \/ ModelReplies \/ ReplyChecked
  \/ RoundFails \/ RoundDone \/ NextStep

Worker(i) ==
  \/ RunTool(i) \/ Refuse(i) \/ AwaitApproval(i) \/ SaveCheckpoint(i) \/ Resolve(i)
  \/ (\E verdict \in Verdicts : Decide(i, verdict)) \/ Suspend(i) \/ ToolReturns(i) \/ CallRaises(i)

Progress == Run \/ \E i \in 1..Width : Worker(i)
Next == Caller \/ Progress

\* Some thread of the run goes on: models, approvers and tools come back in the end.
Spec == Init /\ [][Next]_vars /\ WF_vars(Progress)
-----------------------------------------------------------------------------
(* Properties *)

Call == [turn : Nat, index : 1..Width]
Entry == [role : {"user", "assistant", "tool"}, mark : Nat, calls : SUBSET Call,
          kind : {"input", "staged", "guidance", "reply", "results", "repair"}]

\* The shape of the state: a run stays within max_steps, a failure streak within its
\* budget and what a run may add to it, and the two threads' views are of known calls.
TypeOK ==
  /\ pc \in {"idle", "top", "step", "model", "reply", "tools", "told"}
  /\ running \in BOOLEAN /\ stopping \in BOOLEAN /\ streaming \in BOOLEAN /\ parallel \in Parallel
  /\ step \in 0..(MaxSteps - 1) /\ failures \in 0..(Attempts + MaxSteps)
  /\ \A k \in DOMAIN history : history[k] \in Entry
  /\ \A k \in DOMAIN staged : staged[k] \in 1..MaxStaged
  /\ \A i \in 1..Width :
       /\ call[i].at \in {"none", "queued", "saving", "waiting", "decided", "running", "done", "failed"}
       /\ call[i].said \in Verdicts \union {"nothing", "asked"}
       /\ \A c \in call[i].draft \union call[i].copy : c \in Call
  /\ \A c \in pending \union saved.pending \union unheard : c \in Call /\ c.turn <= turn

\* A request sent to a model shows every tool call with its result right after it and no
\* result without its call, after whatever ended the earlier runs: a guardrail, a hook, an
\* abandoned stream, a suspended approval, a crash (_repair_unanswered_tool_calls).
Paired ==
  pc = "model" =>
    \A k \in DOMAIN history : history[k].calls # {} =>
      LET other == IF history[k].role = "assistant" THEN k + 1 ELSE k - 1
      IN /\ other \in DOMAIN history
         /\ {history[k].role, history[other].role} = {"assistant", "tool"}
         /\ history[other].calls = history[k].calls

\* A tool that a policy asked about runs only after a plain yes to that very call: not on an
\* approval that brings an answer of its own, nor on a failed or silent approver (result_for).
GatedByYes == \A i \in 1..Width : call[i].at = "running" => call[i].said \in {"nothing", "yes"}

\* Staged input is admitted once, after the run's own input and before anything else, and a
\* snapshot holds it either as staged or as said (add_input, _begin_run, dump).
StagedOnce ==
  /\ \A k \in DOMAIN history : history[k].kind = "staged" =>
       /\ k > 1 /\ history[k - 1].kind \in {"input", "staged"}
       /\ \A j \in DOMAIN history :
            history[j].kind = "staged" /\ history[j].mark = history[k].mark => j = k
       /\ \A j \in DOMAIN staged : staged[j] # history[k].mark
  /\ IsInjective(staged)

\* Each step of a run asks a model once, and max_attempts more where the model malfunctions.
AsksBounded == asks <= (step + 1) * (Attempts + 1)

\* What a model is shown is whole, said once and asked for no oftener than the run may:
\* calls beside their results, staged input in its place, model calls within the steps.
TranscriptTrue == Paired /\ StagedOnce /\ AsksBounded

\* A call whose approver has been asked is among pending_approvals, here and in the
\* checkpoint; checked where calls are made in turn, for it fails where they are not.
WaitingIsSaved ==
  \A i \in 1..Width : call[i].at = "waiting" => Current(i) \in pending \cap saved.pending
PendingKept == ~parallel => WaitingIsSaved

\* The gate holds in both directions: nothing asked about runs without its yes, and nothing
\* asked about is forgotten, by this process or by the one that restores its checkpoint.
GateTrue == GatedByYes /\ PendingKept

\* A run that has begun comes to an end, whatever its models, tools and approvers answer.
RunEnds == (pc # "idle") ~> (pc = "idle")

\* A call repaired with "was never run" was not.
RepairTruthful == [][running' /\ ~running => Orphans(history) \cap unheard = {}]_vars

\* "this agent is already running" is said only when it is.
BusyMeansRunning == running => pc # "idle"

\* pending_approvals lists calls the transcript has not answered yet.
PendingIsOpen == pc = "model" => pending \cap Spoken(history, "tool") = {}
=============================================================================
