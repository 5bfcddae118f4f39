-------------------------- MODULE RequestExecutor --------------------------
(***************************************************************************)
(* RequestExecutor.execute of src/combycode_llm_sdk/network/executor.py:   *)
(* one synchronous request, sent until it works or the policy says stop.   *)
(* The policy is the merge of the layers retry_for reads.  Time is only    *)
(* what the transport and the sleeps take: `elapsed` counts from `started`.*)
(***************************************************************************)
EXTENDS Pacing

CONSTANTS
    Default,                                  \* DEFAULT_RETRY
    EngineLayers, QueueLayers, RequestLayers, \* overrides each layer may hold
    Bodies,       \* [replayable, stateful, override, approved]: see Init
    Errors,       \* what a transport or a status >= 400 may turn into
    TimeoutError, \* the error of an attempt that took too long
    Durations,    \* ticks an attempt may take
    HooksRaise,   \* whether a hook handler may raise
    MostTries     \* sends no policy of these layers goes beyond

\* override is the form of req["retry"]: "none", "mapping" or "dataclass".
Body == [replayable : BOOLEAN, stateful : BOOLEAN,
         override : {"none", "mapping", "dataclass"}, approved : BOOLEAN]
AnyError == [kind : DOMAIN Default.perKind, retryable : BOOLEAN, vetoed : BOOLEAN, retryAfter : Int]

ASSUME ExecutorAssumption ==
    /\ IsPolicy(Default, Nat)
    /\ \A l \in EngineLayers \cup QueueLayers \cup RequestLayers : IsPolicy(l, Nat \cup {Unset})
    /\ Errors \subseteq AnyError /\ TimeoutError \in AnyError
    /\ Bodies \subseteq Body /\ Durations \subseteq Nat \ {0}
    /\ MostTries \in Nat \ {0}
    /\ \A engine \in EngineLayers, queue \in QueueLayers, request \in RequestLayers, e \in Errors \cup {TimeoutError} :
          MaxRetries(e.kind, RequestPolicy(Default, engine, queue, request), request.maxRetries) < MostTries
    /\ HooksRaise \in BOOLEAN

VARIABLES
    layers,     \* [engine, queue, request] overrides
    body,
    pc,         \* "new", "starting", "sending", "sleeping", "done"
    attempt,
    elapsed,    \* ticks since `started`
    took,       \* ticks the current attempt takes, 0 until it is sent
    delay,      \* the sleep before the next attempt
    error,      \* the last attempt's error, NoError before one
    outcome     \* "none", "response", "error", "hook" (a handler raised), "crash"

vars == <<layers, body, pc, attempt, elapsed, took, delay, error, outcome>>
config == <<layers, body>>

NoError == [kind |-> "none", retryable |-> FALSE, vetoed |-> FALSE, retryAfter |-> Unset]

policy == RequestPolicy(Default, layers.engine, layers.queue, layers.request)

Init ==
    /\ layers \in [engine : EngineLayers, queue : QueueLayers, request : RequestLayers]
    /\ body \in Bodies
    /\ pc = "new"
    /\ attempt = 0 /\ elapsed = 0 /\ took = 0 /\ delay = 0
    /\ error = NoError
    /\ outcome = "none"

-----------------------------------------------------------------------------
\* Fault: reports what went wrong instead of how it ended.
FinishWithKind(result) == pc' = "done" /\ outcome' = error.kind

Finish(result) ==
    /\ pc' = "done"
    /\ outcome' = result

\* The caller enters execute.
Call ==
    /\ pc = "new"
    /\ pc' = "starting"
    /\ UNCHANGED <<config, attempt, elapsed, took, delay, error, outcome>>

\* _emit_start, then the transport is called; it will take d ticks.
Send ==
    /\ pc = "starting"
    /\ \E d \in Durations : took' = d
    /\ pc' = "sending"
    /\ UNCHANGED <<config, attempt, elapsed, delay, error, outcome>>

\* Which replay is safe.  An approval is read with `.get`, which a mapping has
\* and a RetryOverride has not.
Approved == body.override = "mapping" /\ body.approved
ReadsApproval == body.stateful
Crashes == ReadsApproval /\ body.override = "dataclass"
\* Fault: every body is taken to be safe to replay.
ReplayAnyway == TRUE

ReplaySafe == ~body.stateful \/ Approved

\* Fault: the clock of the current attempt, as the queue has it.
WillingPerAttempt(e, spentTime) ==
    ShouldRetry(e, attempt, policy, took, layers.request.maxRetries, body.replayable, ReplaySafe)

\* should_retry, with the time since `started`.
Willing(e, spentTime) ==
    ShouldRetry(e, attempt, policy, spentTime, layers.request.maxRetries,
                body.replayable, ReplaySafe)

\* _attempt raised e: _decide, and execute sleeps or raises.
Decide(e, spentTime) ==
    /\ error' = e
    /\ elapsed' = spentTime
    /\ IF Crashes
       THEN Finish("crash") /\ UNCHANGED delay
       ELSE IF Willing(e, spentTime)
       THEN /\ delay' \in Backoffs(attempt, e, policy)
            /\ pc' = "sleeping"
            /\ UNCHANGED outcome
       ELSE Finish("error") /\ UNCHANGED delay
    /\ UNCHANGED <<config, attempt, took>>

TookTooLong == took > policy.attemptTimeout

\* The transport returned in time with a status below 400.
Succeed ==
    /\ pc = "sending"
    /\ ~TookTooLong
    /\ elapsed' = elapsed + took
    /\ Finish("response")
    /\ UNCHANGED <<config, attempt, took, delay, error>>

\* The transport raised, or returned in time with a status of 400 or more.
Fail ==
    /\ pc = "sending"
    /\ \E e \in Errors : Decide(e, elapsed + took)

\* The transport returned, whatever it returned, after the attempt's timeout.
TimeOut ==
    /\ pc = "sending"
    /\ TookTooLong
    /\ Decide(TimeoutError, elapsed + took)

\* Fault: a sleep of no length never ends.
RestedLong == pc = "sleeping" /\ delay > 0

Rested == pc = "sleeping"     \* time.sleep returned

Wake ==
    /\ Rested
    /\ elapsed' = elapsed + delay
    /\ attempt' = attempt + 1
    /\ took' = 0
    /\ pc' = "starting"
    /\ UNCHANGED <<config, delay, error, outcome>>

\* A handler of onRequestStart, or of the hooks after an attempt, raises: the
\* exception leaves execute in place of whatever the attempt returned.
HookRaises ==
    /\ HooksRaise
    /\ pc \in {"starting", "sending"}
    /\ Finish("hook")
    /\ UNCHANGED <<config, attempt, elapsed, took, delay, error>>

Next == Call \/ Send \/ Succeed \/ Fail \/ TimeOut \/ Wake \/ HookRaises

\* The thread runs: the transport returns and time.sleep ends.
Spec == Init /\ [][Next]_vars /\ WF_vars(Next)

-----------------------------------------------------------------------------
TypeOK ==
    /\ body \in Body
    /\ pc \in {"new", "starting", "sending", "sleeping", "done"}
    /\ attempt \in Nat /\ elapsed \in Nat /\ took \in Durations \cup {0} /\ delay \in Nat
    /\ error \in Errors \cup {NoError, TimeoutError}
    /\ outcome \in {"none", "response", "error", "hook", "crash"}

\* The total budget bounds the whole sequence: however the attempts and sleeps
\* fall, the last attempt began within the budget and one sleep, so the call
\* returns within the budget, that sleep and that attempt (should_retry's
\* elapsed_ms, measured from execute's `started`).
WithinBudget ==
    attempt > 0 => elapsed < policy.totalTimeout + delay + took

\* A server's Retry-After is never cut short: either the request waits all of
\* it or it does not wait at all.  honored_retry_after_ms clamps, should_retry
\* refuses what would be clamped.
ServerWaitRespected ==
    pc = "sleeping" /\ error.retryAfter > 0 => delay = error.retryAfter

\* A body consumed by the first attempt, and a turn the provider may already
\* hold, are never sent twice without the caller's approval.
NeverReplaysUnsafe ==
    attempt > 0 => body.replayable /\ (body.stateful => body.approved)

\* Four layers are folded pairwise into one policy, at two moments (when the
\* queue is made, when the request is); however they overlap, each knob has the
\* value of the narrowest layer that sets it (merge_retry, retry_for).
FirstSet(request, queue, engine, default) ==
    LET values == <<request, queue, engine, default>>
        set == {i \in 1 .. 4 : values[i] # Unset}
    IN  values[CHOOSE i \in set : \A j \in set : i <= j]
NarrowestWins ==
    /\ \A f \in {"maxRetries", "totalTimeout", "attemptTimeout", "maxRetryAfter"} :
          policy[f] = FirstSet(layers.request[f], layers.queue[f], layers.engine[f], Default[f])
    /\ \A f \in DOMAIN Default.backoff :
          policy.backoff[f] = FirstSet(layers.request.backoff[f], layers.queue.backoff[f],
                                       layers.engine.backoff[f], Default.backoff[f])

\* A retry is made only where it may be, when it may be, by the rules meant for it and while
\* the budget of the whole sequence lasts: Retry-After is waited out, nothing unsafe is sent
\* again, and the layers of policy fold to the narrowest (_decide, should_retry, merge_retry).
RetriesRightly == WithinBudget /\ ServerWaitRespected /\ NeverReplaysUnsafe /\ NarrowestWins

\* execute returns or raises in the end, under every mix of errors.
Terminates == pc # "new" ~> pc = "done"

\* The synchronous engine keeps the promise of RequestLifecycle: one caller,
\* one request, at most MostTries sends.
Lifecycle == INSTANCE RequestLifecycle WITH
    Requests <- {"call"},
    Concurrent <- 1,
    MaxTries <- MostTries,
    answer <- [r \in {"call"} |->
                 CASE pc = "new" -> "none"
                   [] pc = "done" -> IF outcome = "response" THEN "response" ELSE "error"
                   [] OTHER -> "waiting"],
    onWire <- IF pc = "sending" THEN {"call"} ELSE {},
    tries <- [r \in {"call"} |-> IF took > 0 THEN attempt + 1 ELSE attempt]
Implements == Lifecycle!Spec

-----------------------------------------------------------------------------
(* What comments and docstrings say and the code does not do.                *)

\* "so the two paths cannot disagree about what is worth another attempt"
\* (QueueState._on_error): the queue asks should_retry with the policy of the
\* engine and queue layers, the request's max_retries, and the time since the
\* current attempt began.
PathsAgree ==
    pc = "sending" => \A e \in Errors :
        Willing(e, elapsed + took)
        <=> ShouldRetry(e, attempt, QueuePolicy(Default, layers.engine, layers.queue), took,
                        layers.request.maxRetries, body.replayable, ReplaySafe)

\* "Every field is optional: an unset one defers outward" (ErrorRetryConfig): a
\* kind's unset field takes the value of the next layer that sets it.
Rule(layer, kind) == IF kind \in DOMAIN layer.perKind THEN layer.perKind[kind] ELSE NoRule
KindFieldsDefer ==
    \A k \in DOMAIN Default.perKind :
        policy.perKind[k].maxRetries =
            FirstSet(Rule(layers.request, k).maxRetries, Rule(layers.queue, k).maxRetries,
                     Rule(layers.engine, k).maxRetries, Default.perKind[k].maxRetries)

\* Stated and refuted by TLC: "Set this when the call is safe to repeat" (RetryOverride.approve_unsafe_replay), and
\* an approved request that fails is tried again if the policy would have. The approval ends in an AttributeError.
ApprovalIsHeard ==
    pc = "done" /\ error # NoError /\ body.stateful /\ body.approved =>
        ~ShouldRetry(error, attempt, policy, elapsed, layers.request.maxRetries,
                     body.replayable, TRUE)
=============================================================================
