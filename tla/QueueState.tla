----------------------------- MODULE QueueState -----------------------------
(***************************************************************************)
(* One queue of the async network engine: QueueState of                    *)
(* src/combycode_llm_sdk/network/queue_state.py with its RequestQueue and  *)
(* Semaphore (request_queue.py), its rpm bucket and its retry decision     *)
(* (Pacing).                                                               *)
(*                                                                         *)
(* asyncio runs one coroutine at a time, from one await that suspends to   *)
(* the next.  The worker's loop may pass several entries in one such run,  *)
(* so it is broken into LoopTop and LoopAdmit, and every other action is   *)
(* kept out, by Yielded, until the worker suspends or returns.             *)
(*                                                                         *)
(* There is no clock: a deadline is an age, a timer a countdown, and the   *)
(* bucket's `last` is relative to now.  Tick moves them all.               *)
(***************************************************************************)
EXTENDS Pacing, Sequences, FiniteSets, SequencesExt

CONSTANTS
    Requests,      \* the calls of submit
    Streams,       \* the calls of submit_stream
    Profile,       \* [Requests -> [prio, override, replayable, safe, own]]
    Concurrent,    \* RateLimiterConfig.concurrent
    Capacity, Minute,   \* rpm, and the ticks over which it is granted
    MaxSize, Timeout,   \* QueueConfig.max_size and timeout_ms
    Policy,        \* the queue's RetryConfig
    Failures,      \* what an attempt may raise
    Remainings,    \* x-ratelimit-remaining-requests of a response; Unset is possible
    Patience,      \* the largest number of retries Policy and the overrides allow
    HooksRaise,    \* whether a hook handler may raise
    Cancels        \* where a caller may be cancelled: awaiting submit's "future",
                   \* a stream's "turn", or a permit already "granted" to a stream

Loop == "loop"     \* the worker, among the semaphore's waiters

ASSUME QueueAssumption ==
    /\ IsFiniteSet(Requests) /\ IsFiniteSet(Streams)
    /\ Loop \notin Requests /\ Loop \notin Streams
    /\ Profile \in [Requests -> [prio : 1 .. 3, override : Nat \cup {Unset},
                                 replayable : BOOLEAN, safe : BOOLEAN, own : BOOLEAN]]
    /\ Concurrent \in Nat \ {0} /\ Capacity \in Nat \ {0} /\ Minute \in Nat \ {0}
    /\ MaxSize \in Nat \ {0} /\ Timeout \in Nat /\ Patience \in Nat
    /\ Remainings \subseteq Nat
    /\ IsPolicy(Policy, Nat)
    /\ Failures \subseteq [kind : DOMAIN Policy.perKind, retryable : BOOLEAN,
                            vetoed : BOOLEAN, retryAfter : Int]
    /\ \A r \in Requests, e \in Failures : MaxRetries(e.kind, Policy, Profile[r].override) <= Patience
    /\ HooksRaise \in BOOLEAN
    /\ Cancels \subseteq {"future", "turn", "granted"}

VARIABLES
    heap,      \* the entries of RequestQueue, [req, attempt, prio, age]
    future,    \* [Requests -> [attempt -> status of the future enqueue made for it]]
    worker,    \* [pc, entry, wait] of _process_loop; "off" when not _running
    tasks,     \* the _run tasks, [req, attempt, age, pc, ran, via]
    backoff,   \* the _requeue_after tasks, [req, attempt, wait]
    current,   \* Semaphore._current
    waiters,   \* Semaphore._waiters, the cancelled ones left out
    stream,    \* [Streams -> [pc, wait]]
    bucket,    \* the rpm bucket, `last` relative to now
    since,     \* history: ticks since a request was first sent, capped
    sent       \* history: [Requests -> attempts sent]

history == <<since, sent>>
vars == <<heap, future, worker, tasks, backoff, current, waiters, stream, bucket, history>>

PRIORITY_RETRY == 0
Attempts == 0 .. Patience
NoEntry == [req |-> Loop, attempt |-> 0, prio |-> 0, age |-> 0]
Idle == [pc |-> "off", entry |-> NoEntry, wait |-> 0]

Init ==
    /\ heap = {}
    /\ future = [r \in Requests |-> [k \in Attempts |-> "none"]]
    /\ worker = Idle
    /\ tasks = {} /\ backoff = {}
    /\ current = 0 /\ waiters = <<>>
    /\ stream = [s \in Streams |-> [pc |-> "new", wait |-> 0]]
    /\ bucket = NewBucket(Capacity, Minute, 0)
    /\ since = [r \in Requests |-> 0]
    /\ sent = [r \in Requests |-> 0]

-----------------------------------------------------------------------------
\* The worker is suspended or gone: another coroutine may run.
Yielded == worker.pc \notin {"top", "admit"}

\* Faults: the future is not asked whether it is done; a refused retry is dropped.
SettledAgain(f, r, k, status) == [f EXCEPT ![r][k] = status]
SettledUnlessRefused(f, r, k, status) ==
    IF f[r][k] = "pending" /\ status # "refused" THEN [f EXCEPT ![r][k] = status] ELSE f

\* set_result and set_exception, under `if not future.done()`.
Settled(f, r, k, status) == IF f[r][k] = "pending" THEN [f EXCEPT ![r][k] = status] ELSE f

\* enqueue, where the heap has room.
Enqueued(r, k, prio) == heap \cup {[req |-> r, attempt |-> k, prio |-> prio, age |-> 0]}

\* Fault: one more than max_size.
HasRoomAtLimit == Cardinality(heap) <= MaxSize
HasRoom == Cardinality(heap) < MaxSize

\* Fault: a queue that stopped is not started again.
EnsuredNever(w) == w

\* _ensure_processing: a new _process_loop task, unless one is running.
Ensured(w) == IF w.pc = "off" THEN [w EXCEPT !.pc = "scheduled"] ELSE w

\* Semaphore.release: the permit passes to the first waiter, whose coroutine
\* resumes later, or is freed.
NextInLine == IF waiters = <<>> THEN {} ELSE {Head(waiters)}

\* Faults: the permit handed over is also freed; it is freed and not handed over.
ReleaseTwice ==
    current' = current - 1 /\ waiters' = IF waiters = <<>> THEN <<>> ELSE Tail(waiters)
ReleaseUnseen == current' = current - 1 /\ UNCHANGED waiters

Release ==
    IF waiters = <<>> THEN current' = current - 1 /\ UNCHANGED waiters
                      ELSE waiters' = Tail(waiters) /\ UNCHANGED current
WorkerAfterRelease == IF Loop \in NextInLine THEN [worker EXCEPT !.pc = "granted"] ELSE worker

\* Fault: the stream whose waiter was popped is not woken.
StreamNotWoken(st) == st
StreamAfterRelease(st) ==
    [s \in Streams |-> IF s \in NextInLine THEN [st[s] EXCEPT !.pc = "granted"] ELSE st[s]]

\* The rate limiter: try_consume, then wait_time_ms of at least a tick.
CanProceed == Enough(bucket, 1, 0)
NextLook == Greater(WaitTime(bucket, 1, 0), 1)

-----------------------------------------------------------------------------
(* submit                                                                    *)

\* onEnqueue, enqueue, _ensure_processing; the caller then awaits the future.
\* A full heap, or a handler of onEnqueue that raises, fails the call at once.
Submit(r) ==
    /\ Yielded
    /\ future[r][0] = "none"
    /\ IF HasRoom
       THEN \/ /\ future' = [future EXCEPT ![r][0] = "pending"]
               /\ heap' = Enqueued(r, 0, Profile[r].prio)
               /\ worker' = Ensured(worker)
            \/ /\ HooksRaise
               /\ future' = [future EXCEPT ![r][0] = "raised"]
               /\ UNCHANGED <<heap, worker>>
       ELSE /\ future' = [future EXCEPT ![r][0] = "refused"]
            /\ UNCHANGED <<heap, worker>>
    /\ UNCHANGED <<tasks, backoff, current, waiters, stream, bucket, history>>

\* The caller's task is cancelled: its future is, and the entry stays.
CancelCaller(r) ==
    /\ Yielded /\ "future" \in Cancels
    /\ future[r][0] = "pending"
    /\ future' = [future EXCEPT ![r][0] = "cancelled"]
    /\ UNCHANGED <<heap, worker, tasks, backoff, current, waiters, stream, bucket, history>>

-----------------------------------------------------------------------------
(* _process_loop                                                             *)

Expired(e) == e.age > Timeout
Fresh == {e \in heap : ~Expired(e)}

\* Popped first: the smallest priority, and the earliest arrival of those.  Of
\* two that arrived in one tick the code's counter tells the earlier, and here
\* either may be.
MostUrgent(e) ==
    \A other \in Fresh : e.prio < other.prio \/ (e.prio = other.prio /\ e.age >= other.age)

\* dequeue: expired entries are rejected, the most urgent of the rest is taken;
\* with none left the loop returns and _running is cleared.
LoopTop ==
    /\ worker.pc \in {"scheduled", "top"}
    /\ future' = [r \in Requests |-> [k \in Attempts |->
                    IF /\ future[r][k] = "pending"
                       /\ \E e \in heap : e.req = r /\ e.attempt = k /\ Expired(e)
                    THEN "expired" ELSE future[r][k]]]
    /\ \/ /\ Fresh = {}
          /\ heap' = {} /\ worker' = Idle
       \/ \E e \in Fresh :
             /\ MostUrgent(e)
             /\ heap' = Fresh \ {e}
             /\ worker' = [worker EXCEPT !.pc = "admit", !.entry = e]
    /\ UNCHANGED <<tasks, backoff, current, waiters, stream, bucket, history>>

\* The _run task of the worker's entry, ready to start; age is what the entry
\* waited before it was let through.
Spawned == [req |-> worker.entry.req, attempt |-> worker.entry.attempt,
            age |-> worker.entry.age, pc |-> "spawned", ran |-> 0, via |-> "none"]

\* _wait_for_capacity, then acquire.  A handler of onRateLimitUpdate that
\* raises ends the loop with the entry in hand: `finally` clears _running.
LoopAdmit ==
    /\ worker.pc = "admit"
    /\ IF CanProceed
       THEN /\ bucket' = Consume(bucket, 1, 0)
            /\ IF current < Concurrent
               THEN /\ current' = current + 1
                    /\ tasks' = tasks \cup {Spawned}
                    /\ worker' = [worker EXCEPT !.pc = "top", !.entry = NoEntry]
                    /\ UNCHANGED waiters
               ELSE /\ waiters' = Append(waiters, Loop)
                    /\ worker' = [worker EXCEPT !.pc = "permit"]
                    /\ UNCHANGED <<current, tasks>>
       ELSE /\ \/ worker' = [worker EXCEPT !.pc = "sleep", !.wait = NextLook]
               \/ HooksRaise /\ worker' = Idle
            /\ UNCHANGED <<bucket, current, tasks, waiters>>
    /\ UNCHANGED <<heap, future, backoff, stream, history>>

\* The sleep in _wait_for_capacity ends; the bucket is asked again.
LoopWake ==
    /\ worker.pc = "sleep" /\ worker.wait = 0
    /\ worker' = [worker EXCEPT !.pc = "admit"]
    /\ UNCHANGED <<heap, future, tasks, backoff, current, waiters, stream, bucket, history>>

\* acquire returns, the permit having been passed on by a release.
LoopGranted ==
    /\ worker.pc = "granted"
    /\ tasks' = tasks \cup {Spawned}
    /\ worker' = [worker EXCEPT !.pc = "top", !.entry = NoEntry]
    /\ UNCHANGED <<heap, future, backoff, current, waiters, stream, bucket, history>>

-----------------------------------------------------------------------------
(* _run, _execute, _attempt, _on_error                                       *)

\* A _run task ends: release, _ensure_processing.
EndTask(t) ==
    /\ tasks' = tasks \ {t}
    /\ Release
    /\ worker' = Ensured(WorkerAfterRelease)
    /\ stream' = StreamAfterRelease(stream)

\* onRequestStart, then the request goes out through the transport it brought,
\* popped by the first attempt, or else the engine's.  A handler that raises
\* lands in _run's net.
TaskStart(t) ==
    /\ Yielded
    /\ t.pc = "spawned"
    /\ \/ /\ tasks' = (tasks \ {t}) \cup
                {[t EXCEPT !.pc = "sending", !.age = 0,
                           !.via = IF Profile[t.req].own /\ t.attempt = 0 THEN "own" ELSE "shared"]}
          /\ sent' = [sent EXCEPT ![t.req] = @ + 1]
          /\ UNCHANGED <<future, worker, current, waiters, stream>>
       \/ /\ HooksRaise
          /\ future' = Settled(future, t.req, t.attempt, "raised")
          /\ EndTask(t)
          /\ UNCHANGED sent
    /\ UNCHANGED <<heap, backoff, bucket, since>>

\* A response below 400: the headers correct the bucket, the future gets the
\* response, or what a handler of onRequestComplete raised.
TaskOk(t) ==
    /\ Yielded
    /\ t.pc = "sending"
    /\ \E rem \in Remainings \cup {Unset} :
          bucket' = IF rem = Unset THEN bucket ELSE SetRemaining(bucket, rem, 0)
    /\ \/ future' = Settled(future, t.req, t.attempt, "response")
       \/ HooksRaise /\ future' = Settled(future, t.req, t.attempt, "raised")
    /\ EndTask(t)
    /\ UNCHANGED <<heap, backoff, history>>

\* elapsed_ms is the time since this attempt began.
Willing(t, e) ==
    ShouldRetry(e, t.attempt, Policy, t.ran, Profile[t.req].override,
                Profile[t.req].replayable, Profile[t.req].safe)

\* A 429 that names a wait drains the bucket for all.
Paused(e) ==
    IF e.kind = "rate_limit" /\ Honored(e, Policy) # Unset
    THEN DrainUntil(bucket, Honored(e, Policy), 0) ELSE bucket

\* _on_error: pause, then fail or start a _requeue_after.  A handler that
\* raises, before the pause or after, lands in _run's net: no retry.
TaskError(t, e) ==
    /\ Yielded
    /\ t.pc = "sending"
    /\ \/ /\ bucket' = Paused(e)
          /\ IF Willing(t, e)
             THEN /\ \E d \in Backoffs(t.attempt, e, Policy) :
                        backoff' = backoff \cup {[req |-> t.req, attempt |-> t.attempt, wait |-> d]}
                  /\ UNCHANGED future
             ELSE /\ future' = Settled(future, t.req, t.attempt, "error")
                  /\ UNCHANGED backoff
       \/ /\ HooksRaise
          /\ bucket' \in {bucket, Paused(e)}
          /\ future' = Settled(future, t.req, t.attempt, "raised")
          /\ UNCHANGED backoff
    /\ EndTask(t)
    /\ UNCHANGED <<heap, history>>

\* _requeue_after, past its sleep: back on the heap, ahead of new work, with a
\* future of its own whose result _forward passes on; or failed when it is full.
Requeue(b) ==
    /\ Yielded
    /\ b.wait = 0
    /\ backoff' = backoff \ {b}
    /\ IF HasRoom
       THEN /\ heap' = Enqueued(b.req, b.attempt + 1, PRIORITY_RETRY)
            /\ future' = [future EXCEPT ![b.req][b.attempt + 1] = "pending"]
            /\ worker' = Ensured(worker)
       ELSE /\ future' = Settled(future, b.req, b.attempt, "refused")
            /\ UNCHANGED <<heap, worker>>
    /\ UNCHANGED <<tasks, current, waiters, stream, bucket, history>>

\* Fault: only responses are passed on.
Succeeded(r, k) == future[r][k] = "response"
Done(r, k) == future[r][k] \notin {"none", "pending"}

\* The done callback _requeue_after left on a retry's future.
Forward(r, k) ==
    /\ Yielded
    /\ k > 0 /\ Done(r, k)
    /\ future[r][k - 1] = "pending"
    /\ future' = Settled(future, r, k - 1, future[r][k])
    /\ UNCHANGED <<heap, worker, tasks, backoff, current, waiters, stream, bucket, history>>

-----------------------------------------------------------------------------
(* submit_stream                                                             *)

SetStream(s, pc, wait) == [stream EXCEPT ![s] = [pc |-> pc, wait |-> wait]]

\* onRequestStart comes before the `try`: a handler that raises there ends the
\* stream with the permit still taken.
Opens(s) ==
    \/ stream' = SetStream(s, "open", 0)
    \/ HooksRaise /\ stream' = SetStream(s, "closed", 0)

\* _wait_for_capacity and acquire, first or after a sleep.
StreamAsk(s) ==
    /\ Yielded
    /\ stream[s].pc = "new" \/ (stream[s].pc = "sleep" /\ stream[s].wait = 0)
    /\ IF CanProceed
       THEN /\ bucket' = Consume(bucket, 1, 0)
            /\ IF current < Concurrent
               THEN current' = current + 1 /\ Opens(s) /\ UNCHANGED waiters
               ELSE /\ waiters' = Append(waiters, s)
                    /\ stream' = SetStream(s, "permit", 0)
                    /\ UNCHANGED current
       ELSE /\ \/ stream' = SetStream(s, "sleep", NextLook)
               \/ HooksRaise /\ stream' = SetStream(s, "closed", 0)
            /\ UNCHANGED <<bucket, current, waiters>>
    /\ UNCHANGED <<heap, future, worker, tasks, backoff, history>>

StreamGranted(s) ==
    /\ Yielded
    /\ stream[s].pc = "granted"
    /\ Opens(s)
    /\ UNCHANGED <<heap, future, worker, tasks, backoff, current, waiters, bucket, history>>

\* The stream ends, fails, or its consumer leaves: `finally` releases.
StreamEnd(s) ==
    /\ Yielded
    /\ stream[s].pc = "open"
    /\ Release
    /\ worker' = WorkerAfterRelease
    /\ stream' = StreamAfterRelease(SetStream(s, "closed", 0))
    /\ UNCHANGED <<heap, future, tasks, backoff, bucket, history>>

\* The consumer's task is cancelled before the `try`: waiting for capacity, for
\* a permit (its waiter is then done, and release skips it), or with the permit
\* handed over and the coroutine not yet resumed (nothing gives it back).
CancelStream(s) ==
    /\ Yielded
    /\ \/ "turn" \in Cancels /\ stream[s].pc \in {"sleep", "permit"}
       \/ "granted" \in Cancels /\ stream[s].pc = "granted"
    /\ IF stream[s].pc = "permit"
       THEN \E i \in DOMAIN waiters : waiters[i] = s /\ waiters' = RemoveAt(waiters, i)
       ELSE UNCHANGED waiters
    /\ stream' = SetStream(s, "closed", 0)
    /\ UNCHANGED <<heap, future, worker, tasks, backoff, current, bucket, history>>

-----------------------------------------------------------------------------
Down(n) == IF n > 0 THEN n - 1 ELSE 0
Older(age) == Lesser(age + 1, Timeout + 1)

\* A request whose first attempt has been sent.
Begun(r) == \/ \E t \in tasks : t.req = r /\ (t.attempt > 0 \/ t.pc = "sending")
            \/ \E b \in backoff : b.req = r
            \/ \E k \in Attempts \ {0} : future[r][k] = "pending"

\* A bucket one tick later, with now back at 0.
Aged(b) == [Refill(b, 1) EXCEPT !.last = @ - 1]

Tick ==
    /\ Yielded
    /\ heap' = {[e EXCEPT !.age = Older(@)] : e \in heap}
    /\ worker' = IF worker.entry = NoEntry THEN worker
                 ELSE [worker EXCEPT !.entry.age = Older(@), !.wait = Down(@)]
    /\ tasks' = {[t EXCEPT !.ran = IF t.pc = "sending" THEN Lesser(@ + 1, Policy.totalTimeout)
                                   ELSE 0] : t \in tasks}
    /\ backoff' = {[b EXCEPT !.wait = Down(@)] : b \in backoff}
    /\ stream' = [s \in Streams |-> [stream[s] EXCEPT !.wait = Down(@)]]
    /\ bucket' = Aged(bucket)
    /\ since' = [r \in Requests |-> IF Begun(r) THEN Lesser(since[r] + 1, Policy.totalTimeout)
                                    ELSE 0]
    /\ UNCHANGED <<future, current, waiters, sent>>

Next ==
    \/ \E r \in Requests : Submit(r) \/ CancelCaller(r)
    \/ LoopTop \/ LoopAdmit \/ LoopWake \/ LoopGranted
    \/ \E t \in tasks : TaskStart(t) \/ TaskOk(t) \/ \E e \in Failures : TaskError(t, e)
    \/ \E b \in backoff : Requeue(b)
    \/ \E r \in Requests, k \in Attempts : Forward(r, k)
    \/ \E s \in Streams : StreamAsk(s) \/ StreamGranted(s) \/ StreamEnd(s) \/ CancelStream(s)
    \/ Tick

Spec == Init /\ [][Next]_vars

\* The event loop runs what is ready, its clock advances, the transport answers
\* (it has timeouts of its own), and consumers let go of their streams.  New
\* calls, cancellations and the choice between success and failure are free.
Fairness ==
    /\ WF_vars(LoopTop) /\ WF_vars(LoopAdmit) /\ WF_vars(LoopWake) /\ WF_vars(LoopGranted)
    /\ WF_vars(Tick)
    /\ \A r \in Requests :
          /\ WF_vars(\E t \in tasks : t.req = r /\ TaskStart(t))
          /\ WF_vars(\E t \in tasks : t.req = r /\ (TaskOk(t) \/ \E e \in Failures : TaskError(t, e)))
          /\ WF_vars(\E b \in backoff : b.req = r /\ Requeue(b))
          /\ WF_vars(\E k \in Attempts : Forward(r, k))
    /\ \A s \in Streams :
          WF_vars(StreamAsk(s)) /\ WF_vars(StreamGranted(s)) /\ WF_vars(StreamEnd(s))

FairSpec == Spec /\ Fairness

-----------------------------------------------------------------------------
Statuses == {"none", "pending", "response", "error", "raised", "expired", "refused", "cancelled"}
Entry == [req : Requests, attempt : Attempts, prio : 0 .. 3, age : 0 .. Timeout + 1]

TypeOK ==
    /\ heap \subseteq Entry /\ IsFiniteSet(heap) /\ Cardinality(heap) <= MaxSize
    /\ future \in [Requests -> [Attempts -> Statuses]]
    /\ worker.pc \in {"off", "scheduled", "top", "admit", "sleep", "permit", "granted"}
    /\ worker.entry \in Entry \cup {NoEntry} /\ worker.wait \in Nat
    /\ worker.entry # NoEntry <=> worker.pc \in {"admit", "sleep", "permit", "granted"}
    /\ \A t \in tasks : /\ t.req \in Requests /\ t.attempt \in Attempts
                         /\ t.pc \in {"spawned", "sending"}
    /\ \A b \in backoff : b.req \in Requests /\ b.attempt \in Attempts /\ b.wait \in Nat
    /\ current \in 0 .. Concurrent
    /\ waiters \in Seq(Streams \cup {Loop})
    /\ \A s \in Streams : stream[s].pc \in {"new", "sleep", "permit", "granted", "open", "closed"}
    /\ bucket.level \in 0 .. Full(bucket) /\ bucket.last \in Nat

\* Every permit is held by a running task, an open stream or a waiter it was
\* just handed to, and by nothing else: none is leaked or handed out twice.
Held == Cardinality(tasks)
        + Cardinality({s \in Streams : stream[s].pc \in {"open", "granted"}})
        + Cardinality({l \in {Loop} : worker.pc = "granted"})
PermitsAccounted == current = Held

\* Whatever handlers raise and whoever is cancelled, the provider never sees
\* more calls at once than `concurrent`: permits may be lost, never invented.
NeverOversubscribed == Held <= current /\ current <= Concurrent

\* Nobody waits for a permit while one is free, and the waiters are exactly the
\* coroutines that wait, each once.
Waiting == {s \in Streams : stream[s].pc = "permit"} \cup {l \in {Loop} : worker.pc = "permit"}
NoIdlePermit ==
    /\ ToSet(waiters) = Waiting /\ Len(waiters) = Cardinality(Waiting)
    /\ waiters # <<>> => current = Concurrent

\* A queued entry always has a worker that will look at it: the loop that stops
\* when the heap is empty is started again by whatever fills it.
WorkerAwake == heap # {} => worker.pc # "off"

\* A caller that waits has somebody working for it, and only one: the attempt
\* its future belongs to is in the heap, in the worker's hands, running or
\* backing off, or a later attempt's future will be forwarded to it.
OwnersOf(r, k) ==
    Cardinality({e \in heap : e.req = r /\ e.attempt = k})
    + Cardinality({l \in {Loop} : worker.entry.req = r /\ worker.entry.attempt = k})
    + Cardinality({t \in tasks : t.req = r /\ t.attempt = k})
    + Cardinality({b \in backoff : b.req = r /\ b.attempt = k})
Owned ==
    \A r \in Requests, k \in Attempts :
        /\ OwnersOf(r, k) <= 1
        /\ future[r][k] = "pending" =>
              (OwnersOf(r, k) = 1) # (k < Patience /\ future[r][k + 1] # "none")

\* Permits, waiters, the worker and the callers are all accounted for, at every await of
\* submit, submit_stream, _process_loop and _run: none is lost, idle or doubled.
Accounted == PermitsAccounted /\ NoIdlePermit /\ WorkerAwake /\ Owned

\* The queue keeps the promise of RequestLifecycle.
Lifecycle == INSTANCE RequestLifecycle WITH
    MaxTries <- Patience + 1,
    answer <- [r \in Requests |->
                 CASE future[r][0] = "none" -> "none"
                   [] future[r][0] = "pending" -> "waiting"
                   [] future[r][0] \in {"response", "cancelled"} -> future[r][0]
                   [] OTHER -> "error"],
    onWire <- {t.req : t \in {u \in tasks : u.pc = "sending"}},
    tries <- sent
Implements == Lifecycle!Spec
Answered == Lifecycle!Answered

\* A stream that asked to be served is, or was cancelled: neither the queued
\* requests nor the retries keep it from its turn for ever.
StreamsServed == \A s \in Streams : stream[s].pc \in {"sleep", "permit", "granted"}
                                      ~> stream[s].pc \in {"open", "closed"}

\* Both at once, over one pool of permits and one bucket (submit, submit_stream).
AllServed == Answered /\ StreamsServed

-----------------------------------------------------------------------------
(* What comments and docstrings say and the code does not do.                *)

\* "an entry past its deadline rejected rather than run late" (request_queue.py):
\* the worker lets no entry through that waited longer than timeout_ms.
ExpiredNotRun == \A t \in tasks : t.pc = "spawned" => t.age <= Timeout

\* "Pause the whole queue, not just this request" (_on_error): nothing is sent
\* while a 429's wait holds the bucket.
PauseHoldsQueue ==
    [][\A r \in Requests : sent'[r] # sent[r] => bucket.last = 0]_vars

\* "A client may bring its own transport while still sharing this queue ... who
\* puts the bytes on the wire is not [shared]" (_attempt).
OwnTransport == \A t \in tasks : t.pc = "sending" /\ Profile[t.req].own => t.via = "own"

\* "the total budget is spent -- a per-attempt cap alone lets a sequence run for
\* minutes" (should_retry): no retry is granted once the sequence used it up.
BudgetSpent ==
    [][\A t \in tasks : t \notin tasks' /\ (\E b \in backoff' \ backoff : b.req = t.req)
          => since[t.req] < Policy.totalTimeout]_vars
-----------------------------------------------------------------------------
(* Small instances, for TLC: requests that differ in priority, in what they  *)
(* allow to be retried and in who brings the transport; a policy with one    *)
(* retry and a budget of two ticks; a 429 that names a wait, and an error    *)
(* nobody retries.                                                           *)

Plain == [prio |-> 1, override |-> Unset, replayable |-> TRUE, safe |-> TRUE, own |-> FALSE]
MCProfile ==
    [r \in Requests |->
        CASE r = "r1" -> [Plain EXCEPT !.own = TRUE]
          [] r = "r2" -> [Plain EXCEPT !.prio = 2]
          [] r = "r3" -> [Plain EXCEPT !.override = 0]]

NoRetry == [retryable |-> "no", maxRetries |-> Unset, fixed |-> Unset]
MCPolicy ==
    [maxRetries |-> 1, totalTimeout |-> 2, attemptTimeout |-> 9, maxRetryAfter |-> 2,
     backoff |-> [initial |-> 1, ceiling |-> 1, multiplier |-> 2, jitter |-> 0],
     perKind |-> [rate_limit |-> NoRule, network |-> NoRule, auth |-> NoRetry]]

MCPatientPolicy == [MCPolicy EXCEPT !.maxRetries = 2]

AnError(kind, retryable, after) ==
    [kind |-> kind, retryable |-> retryable, vetoed |-> FALSE, retryAfter |-> after]
MCFailures == {AnError("rate_limit", TRUE, 2), AnError("auth", FALSE, Unset)}
=============================================================================
