---------------------------- MODULE RateLimiter ----------------------------
(***************************************************************************)
(* RateLimiter of src/combycode_llm_sdk/network/rate_limiter.py: the rpm,  *)
(* rpd and tpm buckets asked as one, corrected by provider headers and     *)
(* drained by a 429's pause.                                               *)
(***************************************************************************)
EXTENDS Pacing

CONSTANTS
    Rpm, Rpd, Tpm,  \* RateLimiterConfig; 0 is no limit
    Minute, Day,  \* ticks over which rpm and tpm, and rpd, are granted
    Estimates,    \* token estimates callers ask with (0 skips the tpm axis)
    Limits,       \* values of the x-ratelimit-limit-* headers
    Remainings,   \* values of the x-ratelimit-remaining-* headers
    Pauses,       \* durations, in ticks, of a 429's wait
    MaxTime       \* bound on the clock

ASSUME LimiterAssumption ==
    /\ Rpm \in Nat /\ Rpd \in Nat /\ Tpm \in Nat
    /\ Minute \in Nat \ {0} /\ Day \in Nat \ {0}
    /\ Estimates \subseteq Nat
    /\ Limits \subseteq Nat \ {0}
    /\ Remainings \subseteq Nat
    /\ Pauses \subseteq Nat
    /\ MaxTime \in Nat

VARIABLES
    now,      \* the millisecond clock, perf_counter() in the code
    bucket,   \* [Axes -> bucket record]
    base,     \* history: each bucket's level and last when it was last set from outside
    spent     \* history: units taken from each bucket since then

vars == <<now, bucket, base, spent>>

Absent == 0 - 1        \* parse_int_header found no number
Limit == [a \in {"rpm", "rpd", "tpm"} |->
             CASE a = "rpm" -> Rpm [] a = "rpd" -> Rpd [] a = "tpm" -> Tpm]

\* The axes that have a bucket.
Axes == {a \in DOMAIN Limit : Limit[a] > 0}
Window(a) == IF a = "rpd" THEN Day ELSE Minute

Init ==
    /\ now = 0
    /\ bucket = [a \in Axes |-> NewBucket(Limit[a], Window(a), 0)]
    /\ base = [a \in Axes |-> [level |-> Limit[a] * Window(a), at |-> 0]]
    /\ spent = [a \in Axes |-> 0]

-----------------------------------------------------------------------------
\* The order in which can_proceed asks the axes.
Rank(a) == CASE a = "rpm" -> 1 [] a = "rpd" -> 2 [] a = "tpm" -> 3

Asked(a, est) == a # "tpm" \/ est > 0
Need(a, est) == IF a = "tpm" THEN est ELSE 1
Has(a, est) == Enough(bucket[a], Need(a, est), now)

\* An axis is reached when every axis asked before it had its tokens.
Reached(a, est) ==
    /\ Asked(a, est)
    /\ \A p \in Axes : Rank(p) < Rank(a) /\ Asked(p, est) => Has(p, est)

Proceeds(est) == \A a \in Axes : Asked(a, est) => Has(a, est)

\* can_proceed: each reached axis spends on the spot, a later refusal does not
\* give the earlier spend back.
CanProceed(est) ==
    /\ bucket' = [a \in Axes |-> IF Reached(a, est)
                                 THEN Consume(bucket[a], Need(a, est), now)
                                 ELSE bucket[a]]
    /\ spent' = [a \in Axes |-> IF Reached(a, est) /\ Has(a, est)
                                THEN spent[a] + Units(bucket[a], Need(a, est))
                                ELSE spent[a]]
    /\ UNCHANGED <<now, base>>

\* wait_time_ms, rpm_available, tpm_available: reading refills every axis asked.
\* The largest of the axes' WaitTime is the answer.
AskWait(est) ==
    /\ bucket' = [a \in Axes |-> IF Asked(a, est) THEN Refill(bucket[a], now)
                                 ELSE bucket[a]]
    /\ UNCHANGED <<now, base, spent>>

\* What update_from_headers does to one bucket: the limit first, then the level.
Adopt(b, limit, remaining) ==
    LET sized == IF limit = Absent THEN b ELSE SetCapacity(b, limit)
    IN  IF remaining = Absent THEN sized ELSE SetRemaining(sized, remaining, now)

Rebase(newBucket) ==
    /\ bucket' = newBucket
    /\ base' = [a \in Axes |-> IF newBucket[a] = bucket[a] THEN base[a]
                               ELSE [level |-> newBucket[a].level, at |-> newBucket[a].last]]
    /\ spent' = [a \in Axes |-> IF newBucket[a] = bucket[a] THEN spent[a] ELSE 0]

\* update_from_headers: the rpm and tpm buckets adopt what a response reports;
\* there is no header for rpd.  lim and rem give the value read on each axis.
UpdateFromHeaders(lim, rem) ==
    /\ Rebase([a \in Axes |-> IF a = "rpd" THEN bucket[a]
                              ELSE Adopt(bucket[a], lim[a], rem[a])])
    /\ UNCHANGED now

\* pause: only the rpm bucket is drained; without one a pause does nothing.
Pause(d) ==
    /\ Rebase([a \in Axes |-> IF a = "rpm" THEN DrainUntil(bucket[a], now + d, now)
                              ELSE bucket[a]])
    /\ UNCHANGED now

Tick ==
    /\ now < MaxTime
    /\ now' = now + 1
    /\ UNCHANGED <<bucket, base, spent>>

HeaderAxes == Axes \ {"rpd"}
LimitValues == [HeaderAxes -> Limits \cup {Absent}]
RemainingValues == [HeaderAxes -> Remainings \cup {Absent}]

Next ==
    \/ \E est \in Estimates : CanProceed(est) \/ AskWait(est)
    \/ \E lim \in LimitValues, rem \in RemainingValues : UpdateFromHeaders(lim, rem)
    \/ \E d \in Pauses : Pause(d)
    \/ Tick

Spec == Init /\ [][Next]_vars

-----------------------------------------------------------------------------
Bucket == [cap : Nat \ {0}, window : Nat \ {0}, level : Nat, last : Nat]

\* The state has its type; a level never exceeds the bucket's capacity.
TypeOK ==
    /\ now \in Nat
    /\ bucket \in [Axes -> Bucket]
    /\ \A a \in Axes : bucket[a].level <= Full(bucket[a])
    /\ base \in [Axes -> [level : Nat, at : Nat]]
    /\ spent \in [Axes -> Nat]

\* What each axis promises a provider: since the level was last known from
\* outside (creation, a header, a pause), no more is spent than that level and
\* the refill of the time since, whatever the order of asks, refusals and ticks.
RateBound ==
    \A a \in Axes :
        spent[a] <= base[a].level + Greater(0, now - base[a].at) * bucket[a].cap

\* A drained bucket stays empty while its pause lasts, so no ask gets through:
\* neither a refill nor a refusal on another axis can leave tokens in it.
HeldIsEmpty ==
    \A a \in Axes : bucket[a].last > now => bucket[a].level = 0

\* The answer of wait_time_ms is exact for a request the bucket can ever hold
\* and a bucket that is not held: that many ticks later the tokens are there,
\* and one tick earlier they are not.
WaitIsExact ==
    \A a \in Axes : \A n \in 1..bucket[a].cap :
        bucket[a].last <= now =>
            LET wait == WaitTime(bucket[a], n, now)
            IN  /\ Enough(bucket[a], n, now + wait)
                /\ wait > 0 => ~Enough(bucket[a], n, now + wait - 1)

-----------------------------------------------------------------------------
(* What comments in rate_limiter.py say and the code does not do.            *)

\* "Consume from every applicable bucket, or from none" (can_proceed).
AllOrNone ==
    [][\A est \in Estimates : CanProceed(est) /\ ~Proceeds(est) =>
          \A a \in Axes : bucket'[a].level >= Refill(bucket[a], now).level]_vars

\* "Empty the bucket and hold it empty until a moment in the future"
\* (drain_until): once held, held at least until that moment.
HoldIsKept ==
    [][\A a \in Axes : bucket[a].last > now =>
          bucket'[a].last >= bucket[a].last]_vars

\* "How long until n tokens exist" (wait_time_ms), for every n a caller may
\* ask for and for a held bucket too.
WaitSuffices ==
    \A a \in Axes : \A est \in Estimates : Asked(a, est) =>
        Enough(bucket[a], Need(a, est), now + WaitTime(bucket[a], Need(a, est), now))
=============================================================================
