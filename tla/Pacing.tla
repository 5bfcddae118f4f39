------------------------------- MODULE Pacing -------------------------------
(***************************************************************************)
(* When a request may go out, as pure operators: the bucket of             *)
(* src/combycode_llm_sdk/network/rate_limiter.py, and the retry policy of  *)
(* src/combycode_llm_sdk/network/retry.py.  Durations are in clock ticks.  *)
(***************************************************************************)
EXTENDS Integers

-----------------------------------------------------------------------------
(* The bucket.  The code keeps a float level and a rate in tokens per        *)
(* millisecond, capacity / interval.  Here the level is counted in           *)
(* 1/window-ths of a token, where window is the interval in clock ticks, so  *)
(* that one tick refills exactly cap units and no rounding is modelled away: *)
(* a token is window units.                                                  *)

Lesser(x, y) == IF x <= y THEN x ELSE y
Greater(x, y) == IF x >= y THEN x ELSE y

\* TokenBucket.__init__: a new bucket is full.
NewBucket(capacity, window, now) ==
    [cap |-> capacity, window |-> window, level |-> capacity * window, last |-> now]

Full(b) == b.cap * b.window
Units(b, n) == n * b.window

\* Fault: the time credited is not remembered.
RefillForgets(b, now) ==
    IF now <= b.last THEN b ELSE [b EXCEPT !.level = Lesser(Full(b), @ + (now - b.last) * b.cap)]

\* _refill: nothing happens while last lies in the future (drain_until).
Refill(b, now) ==
    IF now <= b.last
    THEN b
    ELSE [b EXCEPT !.level = Lesser(Full(b), b.level + (now - b.last) * b.cap),
                   !.last = now]

\* try_consume, split into its answer and its effect on the bucket.
Enough(b, n, now) == Refill(b, now).level >= Units(b, n)
Consume(b, n, now) ==
    LET r == Refill(b, now)
    IN  IF Enough(b, n, now) THEN [r EXCEPT !.level = @ - Units(b, n)] ELSE r

\* Fault: rounded down.
WaitTimeFloor(b, n, now) == (Units(b, n) - Lesser(Refill(b, now).level, Units(b, n))) \div b.cap

\* wait_time_ms: ceil((n - tokens) / rate), 0 when the tokens are there.  The
\* code divides by the rate: a capacity of 0 has no answer, so cap > 0 here.
WaitTime(b, n, now) ==
    IF Enough(b, n, now)
    THEN 0
    ELSE (Units(b, n) - Refill(b, now).level + b.cap - 1) \div b.cap

\* Faults: the report is not clipped; the pause is not lifted with the new level.
SetRemainingUnclipped(b, remaining, now) ==
    [b EXCEPT !.level = Units(b, remaining), !.last = now]
SetRemainingHeld(b, remaining, now) ==
    [b EXCEPT !.level = Lesser(Units(b, remaining), Full(b))]

\* set_remaining: the level a provider's header reports, from this moment on.
SetRemaining(b, remaining, now) ==
    [b EXCEPT !.level = Lesser(Units(b, remaining), Full(b)), !.last = now]

\* set_capacity: a new limit; the tokens are clipped and last is not touched,
\* so time since the last refill is later credited at the new rate.
SetCapacity(b, capacity) ==
    [b EXCEPT !.cap = capacity, !.level = Lesser(@, capacity * b.window)]

\* drain_until: empty, and held empty until resetAt; a moment that is not in
\* the future changes nothing.
DrainUntil(b, resetAt, now) ==
    IF resetAt > now THEN [b EXCEPT !.level = 0, !.last = resetAt] ELSE b

-----------------------------------------------------------------------------
(* The policy: whether to make another attempt, how long to wait first, and  *)
(* how layers of overrides merge into the one both engines read.  An error   *)
(* is a record [kind, retryable, vetoed, retryAfter]; a policy is            *)
(* [maxRetries, totalTimeout, attemptTimeout, maxRetryAfter, backoff,        *)
(* perKind], where backoff is [initial, ceiling, multiplier, jitter] (jitter *)
(* in percent) and perKind gives each kind a rule [retryable, maxRetries,    *)
(* fixed].  A kind missing from per_kind is one whose rule sets nothing.     *)

Unset == 0 - 1      \* None, for a field that is a number

\* Fault: the outer layer wins.
OuterOr(value, default) == IF default = Unset THEN value ELSE default

Or(value, default) == IF value = Unset THEN default ELSE value

NoRule == [retryable |-> "unset", maxRetries |-> Unset, fixed |-> Unset]

\* A policy, or an override, whose numbers are of a set.
IsPolicy(p, numbers) ==
    /\ \A f \in {"maxRetries", "totalTimeout", "attemptTimeout", "maxRetryAfter"} : p[f] \in numbers
    /\ DOMAIN p.backoff = {"initial", "ceiling", "multiplier", "jitter"}
    /\ \A f \in DOMAIN p.backoff : p.backoff[f] \in numbers
    /\ \A k \in DOMAIN p.perKind :
          p.perKind[k] \in [retryable : {"yes", "no", "unset"}, maxRetries : Nat \cup {Unset}, fixed : Nat \cup {Unset}]

-----------------------------------------------------------------------------
\* The two bounds should_retry takes from the most specific source that has one.
Retryable(error, policy) ==
    LET rule == policy.perKind[error.kind].retryable
    IN  ~error.vetoed /\ (rule = "yes" \/ (rule = "unset" /\ error.retryable))

MaxRetries(kind, policy, requestMax) ==
    Or(requestMax, Or(policy.perKind[kind].maxRetries, policy.maxRetries))

\* Fault: a wait beyond the cap is clamped instead of refused.
NeverTooLong(error, policy) == FALSE

TooLong(error, policy) ==
    error.retryAfter # Unset /\ error.retryAfter > policy.maxRetryAfter

\* Fault: one retry more than allowed.
RetryOnceMore(error, attempt, policy, elapsed, requestMax, replayable, replaySafe) ==
    /\ Retryable(error, policy)
    /\ attempt <= MaxRetries(error.kind, policy, requestMax)
    /\ elapsed < policy.totalTimeout
    /\ replayable /\ replaySafe /\ ~TooLong(error, policy)

\* should_retry.  requestMax is the per-request max_retries or Unset.
ShouldRetry(error, attempt, policy, elapsed, requestMax, replayable, replaySafe) ==
    /\ Retryable(error, policy)
    /\ attempt < MaxRetries(error.kind, policy, requestMax)
    /\ elapsed < policy.totalTimeout
    /\ replayable
    /\ replaySafe
    /\ ~TooLong(error, policy)

\* honored_retry_after_ms: the server's wait, clamped; Unset when it named none.
Honored(error, policy) ==
    IF error.retryAfter <= 0
    THEN Unset
    ELSE IF error.retryAfter < policy.maxRetryAfter
         THEN error.retryAfter ELSE policy.maxRetryAfter

\* calculate_backoff: the delays it may return.  The jitter is drawn from
\* [0, 1), so an exponential delay is anywhere within jitter percent of base.
Backoffs(attempt, error, policy) ==
    LET honored == Honored(error, policy)
        fixed == policy.perKind[error.kind].fixed
        b == policy.backoff
        grown == b.initial * b.multiplier ^ attempt
        base == IF grown < b.ceiling THEN grown ELSE b.ceiling
    IN  IF honored # Unset THEN {honored}
        ELSE IF fixed > 0 THEN {fixed}
        ELSE {d \in 0 .. 2 * base : /\ 100 * d + 50 >= base * (100 - b.jitter)
                                    /\ 100 * d - 50 <= base * (100 + b.jitter)}

-----------------------------------------------------------------------------
(* Layers.  An override is a policy with any field Unset, and with a perKind *)
(* defined on the kinds it names only.                                       *)

\* One iteration of merge_retry: single fields and backoff fields are replaced
\* when set; a kind's rule is replaced whole, its unset fields included.
Merge(override, base) ==
    [maxRetries    |-> Or(override.maxRetries, base.maxRetries),
     totalTimeout  |-> Or(override.totalTimeout, base.totalTimeout),
     attemptTimeout |-> Or(override.attemptTimeout, base.attemptTimeout),
     maxRetryAfter |-> Or(override.maxRetryAfter, base.maxRetryAfter),
     backoff       |-> [f \in DOMAIN base.backoff |-> Or(override.backoff[f], base.backoff[f])],
     perKind       |-> [k \in DOMAIN base.perKind |->
                           IF k \in DOMAIN override.perKind THEN override.perKind[k]
                           ELSE base.perKind[k]]]

\* NetworkEngine._get_or_create: the policy an async queue lives with.
QueuePolicy(default, engine, queue) == Merge(queue, Merge(engine, default))

\* Engine.retry_for: the policy of one synchronous request.
RequestPolicy(default, engine, queue, request) ==
    Merge(request, QueuePolicy(default, engine, queue))
=============================================================================
