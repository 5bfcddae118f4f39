-------------------------- MODULE QueueStateProofs --------------------------
(***************************************************************************)
(* Theorems about the async queue, for any requests, streams, limits,      *)
(* policy and failures: TypeOK and NeverOversubscribed always, Accounted   *)
(* where no handler raises and no permit is cancelled in flight, and that  *)
(* the queue implements RequestLifecycle.                                  *)
(*                                                                         *)
(* None of them is inductive.  IInv adds the line of waiters (Lines), the  *)
(* tokens a request travels as (an entry, the worker's entry, a task or a  *)
(* _requeue_after: one at a time, at the request's last attempt), and the  *)
(* permits nobody holds (Slack), which no step makes fewer of.             *)
(***************************************************************************)
EXTENDS QueueState, FiniteSetTheorems, SequenceTheorems, TLAPS

\* Where the worker has an entry in hand, and the records of the state.
InHand == {"admit", "sleep", "permit", "granted"}
Worker == [pc : {"off", "scheduled", "top"} \cup InHand, entry : Entry \cup {NoEntry}, wait : Nat]
Task == [req : Requests, attempt : Attempts, age : Nat, pc : {"spawned", "sending"},
         ran : Nat, via : {"none", "own", "shared"}]
Backing == [req : Requests, attempt : 0 .. Patience - 1, wait : Nat]
Stream == [pc : {"new", "sleep", "permit", "granted", "open", "closed"}, wait : Nat]

\* The rpm bucket: its limit and window are the queue's.
SoundBucket(b) ==
    /\ b \in [cap : {Capacity}, window : {Minute}, level : Nat, last : Nat]
    /\ b.level <= Capacity * Minute

\* TypeOK, record by record.
Typed ==
    /\ heap \subseteq Entry /\ IsFiniteSet(heap) /\ Cardinality(heap) <= MaxSize
    /\ future \in [Requests -> [Attempts -> Statuses]]
    /\ worker \in Worker /\ (worker.entry # NoEntry <=> worker.pc \in InHand)
    /\ tasks \subseteq Task /\ IsFiniteSet(tasks)
    /\ backoff \subseteq Backing
    /\ current \in Int
    /\ waiters \in Seq(Streams \cup {Loop})
    /\ stream \in [Streams -> Stream]
    /\ SoundBucket(bucket)
    /\ sent \in [Requests -> Nat]

\* The waiters are the coroutines that wait, each once, and only while no
\* permit is free.
Lines ==
    /\ \A i, j \in 1 .. Len(waiters) : waiters[i] = waiters[j] => i = j
    /\ \A i \in 1 .. Len(waiters) :
          /\ waiters[i] = Loop => worker.pc = "permit"
          /\ waiters[i] \in Streams => stream[waiters[i]].pc = "permit"
    /\ worker.pc = "permit" => \E i \in 1 .. Len(waiters) : waiters[i] = Loop
    /\ \A s \in Streams :
          stream[s].pc = "permit" => \E i \in 1 .. Len(waiters) : waiters[i] = s
    /\ Len(waiters) > 0 => current = Concurrent
    /\ current <= Concurrent

-----------------------------------------------------------------------------
(* The operators the queue is built from.                                    *)

\* A set's image under a function is no larger than the set.
LEMMA ImageBound ==
    ASSUME NEW S, IsFiniteSet(S), NEW R, NEW f \in [S -> R]
    PROVE  /\ IsFiniteSet({f[x] : x \in S})
           /\ Cardinality({f[x] : x \in S}) <= Cardinality(S)
<1> DEFINE T == {f[x] : x \in S}
<1>1. f \in Surjection(S, T)
    <2>1. f \in [S -> T]
        OBVIOUS
    <2>2. \A y \in T : \E x \in S : f[x] = y
        OBVIOUS
    <2> QED
        BY <2>1, <2>2 DEF Surjection
<1> QED
    BY <1>1, FS_Surjection

\* RemoveAt, element by element.
LEMMA RemoveAtElements ==
    ASSUME NEW S, NEW q \in Seq(S), NEW n \in 1 .. Len(q)
    PROVE  /\ RemoveAt(q, n) \in Seq(S) /\ Len(RemoveAt(q, n)) = Len(q) - 1
           /\ \A i \in 1 .. Len(q) - 1 : RemoveAt(q, n)[i] = IF i < n THEN q[i] ELSE q[i + 1]
<1> DEFINE before == SubSeq(q, 1, n - 1)
           after == SubSeq(q, n + 1, Len(q))
<1>1. Len(q) \in Nat /\ \A i \in 1 .. Len(q) : q[i] \in S
    BY ElementOfSeq, LenProperties
<1>2. /\ before \in Seq(S) /\ Len(before) = n - 1
      /\ \A i \in 1 .. n - 1 : before[i] = q[i]
    BY <1>1
<1>3. /\ after \in Seq(S) /\ Len(after) = Len(q) - n
      /\ \A i \in 1 .. Len(q) - n : after[i] = q[i + n]
    BY <1>1
<1>4. RemoveAt(q, n) = before \o after
    BY DEF RemoveAt
<1> HIDE DEF before, after
<1>5. /\ before \o after \in Seq(S) /\ Len(before \o after) = Len(before) + Len(after)
      /\ \A i \in 1 .. Len(before) + Len(after) :
            (before \o after)[i] = IF i <= Len(before) THEN before[i] ELSE after[i - Len(before)]
    BY <1>2, <1>3, ConcatProperties
<1> QED
    <2>1. ASSUME NEW i \in 1 .. Len(q) - 1 PROVE (before \o after)[i] = IF i < n THEN q[i] ELSE q[i + 1]
        <3>1. CASE i < n
            BY <1>1, <1>2, <1>3, <1>5, <3>1
        <3>2. CASE ~(i < n)
            <4>1. (before \o after)[i] = after[i - (n - 1)]
                BY <1>1, <1>2, <1>3, <1>5, <3>2
            <4>2. after[i - (n - 1)] = q[i - (n - 1) + n]
                BY <1>1, <1>3, <3>2
            <4>3. i - (n - 1) + n = i + 1
                BY <1>1
            <4> QED
                BY <3>2, <4>1, <4>2, <4>3
        <3> QED
            BY <3>1, <3>2
    <2> QED
        BY <1>1, <1>2, <1>3, <1>4, <1>5, <2>1

\* calculate_backoff never returns a negative delay.
LEMMA DelayIsNat ==
    ASSUME NEW e \in Failures, NEW k \in Attempts, NEW d \in Backoffs(k, e, Policy)
    PROVE  d \in Nat
<1>1. /\ e.kind \in DOMAIN Policy.perKind /\ e.retryAfter \in Int
      /\ Policy.maxRetryAfter \in Nat /\ Policy.perKind[e.kind].fixed \in Nat \cup {Unset}
    BY QueueAssumption DEF IsPolicy
<1>2. Honored(e, Policy) \in Nat \cup {Unset}
    BY <1>1 DEF Honored, Unset
<1>3. CASE Honored(e, Policy) # Unset
    BY <1>2, <1>3 DEF Backoffs
<1>4. CASE Honored(e, Policy) = Unset /\ Policy.perKind[e.kind].fixed > 0
    BY <1>1, <1>4 DEF Backoffs, Unset
<1>5. CASE Honored(e, Policy) = Unset /\ ~(Policy.perKind[e.kind].fixed > 0)
    BY <1>5 DEF Backoffs
<1> QED
    BY <1>3, <1>4, <1>5

\* The bucket keeps its limit, its window and its bounds, whatever is done to it
\* at this moment or by a tick; and the next look at it is a tick away or more.
LEMMA BucketSteps ==
    ASSUME SoundBucket(bucket)
    PROVE  /\ SoundBucket(Consume(bucket, 1, 0))
           /\ \A n \in Nat : SoundBucket(SetRemaining(bucket, n, 0))
           /\ \A n \in Nat : SoundBucket(DrainUntil(bucket, n, 0))
           /\ SoundBucket(Aged(bucket))
           /\ NextLook \in Nat
<1>1. /\ Capacity \in Nat \ {0} /\ Minute \in Nat \ {0}
      /\ bucket \in [cap : {Capacity}, window : {Minute}, level : Nat, last : Nat]
      /\ bucket.level <= Capacity * Minute /\ bucket.cap = Capacity /\ bucket.window = Minute
      /\ bucket.level \in Nat /\ bucket.last \in Nat
    BY QueueAssumption DEF SoundBucket
<1>2. Refill(bucket, 0) = bucket /\ Full(bucket) = Capacity * Minute /\ Capacity * Minute \in Nat
    BY <1>1 DEF Refill, Full
<1>3. Units(bucket, 1) = Minute
    BY <1>1 DEF Units
<1>4. SoundBucket(Consume(bucket, 1, 0))
    <2>1. CASE Enough(bucket, 1, 0)
        <3>1. Consume(bucket, 1, 0) = [bucket EXCEPT !.level = @ - Minute]
            BY <1>2, <1>3, <2>1 DEF Consume
        <3>2. bucket.level >= Minute
            BY <1>2, <1>3, <2>1 DEF Enough
        <3> QED
            BY <1>1, <1>2, <3>1, <3>2 DEF SoundBucket
    <2>2. CASE ~Enough(bucket, 1, 0)
        BY <1>2, <2>2 DEF Consume
    <2> QED
        BY <2>1, <2>2
<1>5. ASSUME NEW n \in Nat PROVE SoundBucket(SetRemaining(bucket, n, 0))
    <2>1. Units(bucket, n) \in Nat
        BY <1>1 DEF Units
    <2>2. Lesser(Units(bucket, n), Full(bucket)) \in Nat
          /\ Lesser(Units(bucket, n), Full(bucket)) <= Capacity * Minute
        BY <1>2, <2>1 DEF Lesser
    <2> QED
        BY <1>1, <2>2 DEF SetRemaining, SoundBucket
<1>6. ASSUME NEW n \in Nat PROVE SoundBucket(DrainUntil(bucket, n, 0))
    <2>1. CASE n > 0
        <3>1. DrainUntil(bucket, n, 0) = [bucket EXCEPT !.level = 0, !.last = n]
            BY <2>1 DEF DrainUntil
        <3>2. [bucket EXCEPT !.level = 0, !.last = n]
                 \in [cap : {Capacity}, window : {Minute}, level : Nat, last : Nat]
            BY <1>1
        <3>3. [bucket EXCEPT !.level = 0, !.last = n].level <= Capacity * Minute
            <4>1. [bucket EXCEPT !.level = 0, !.last = n].level = 0
                BY <1>1
            <4>2. 0 <= Capacity * Minute
                BY <1>2
            <4> QED
                BY <4>1, <4>2, Zenon
        <3> QED
            BY <3>1, <3>2, <3>3, Zenon DEF SoundBucket
    <2>2. CASE ~(n > 0)
        BY <2>2 DEF DrainUntil
    <2> QED
        BY <2>1, <2>2
<1>7. SoundBucket(Aged(bucket))
    <2>1. CASE 1 <= bucket.last
        BY <1>1, <2>1 DEF Aged, Refill, SoundBucket
    <2>2. CASE ~(1 <= bucket.last)
        <3>1. bucket.last = 0
            BY <1>1, <2>2
        <3>2. Lesser(Full(bucket), bucket.level + (1 - bucket.last) * bucket.cap) \in Nat
              /\ Lesser(Full(bucket), bucket.level + (1 - bucket.last) * bucket.cap) <= Capacity * Minute
            BY <1>1, <1>2, <3>1 DEF Lesser
        <3> QED
            <4> DEFINE level == Lesser(Full(bucket), bucket.level + (1 - bucket.last) * bucket.cap)
                       b == [bucket EXCEPT !.level = level, !.last = 1]
            <4>1. Refill(bucket, 1) = b
                BY <2>2 DEF Refill
            <4>2. Aged(bucket) = [b EXCEPT !.last = 1 - 1]
                BY <1>1, <4>1 DEF Aged
            <4>3. level \in Nat /\ level <= Capacity * Minute
                BY <3>2
            <4> HIDE DEF level
            <4>5. b \in [cap : {Capacity}, window : {Minute}, level : Nat, last : Nat] /\ b.level = level
                BY <1>1, <4>3
            <4> HIDE DEF b
            <4>4. Aged(bucket) \in [cap : {Capacity}, window : {Minute}, level : Nat, last : Nat]
                  /\ Aged(bucket).level = level
                BY <4>2, <4>5
            <4> QED
                BY <4>3, <4>4, Zenon DEF SoundBucket
    <2> QED
        BY <2>1, <2>2
<1>8. NextLook \in Nat
    <2>1. CASE Enough(bucket, 1, 0)
        BY <2>1 DEF NextLook, WaitTime, Greater
    <2>2. CASE ~Enough(bucket, 1, 0)
        <3>1. Minute - bucket.level + Capacity - 1 \in Nat
            BY <1>1, <1>2, <1>3, <2>2 DEF Enough
        <3>2. WaitTime(bucket, 1, 0) = (Minute - bucket.level + Capacity - 1) \div Capacity
            BY <1>1, <1>2, <1>3, <2>2 DEF WaitTime
        <3>3. WaitTime(bucket, 1, 0) \in Int
            BY <1>1, <3>1, <3>2
        <3> QED
            BY <3>3 DEF NextLook, Greater
    <2> QED
        BY <2>1, <2>2
<1> QED
    BY <1>4, <1>5, <1>6, <1>7, <1>8

\* Lines are kept where nobody joins, leaves or is handed a permit.
LEMMA LinesKept ==
    ASSUME Lines, waiters' = waiters, worker'.pc = "permit" <=> worker.pc = "permit",
           \A s \in Streams : stream'[s].pc = "permit" <=> stream[s].pc = "permit",
           Len(waiters) > 0 => current' = current, current' <= Concurrent
    PROVE  Lines'
<1>1. \A i \in 1 .. Len(waiters) :
         /\ waiters[i] = Loop => worker'.pc = "permit"
         /\ waiters[i] \in Streams => stream'[waiters[i]].pc = "permit"
    BY DEF Lines
<1>2. \A s \in Streams :
         stream'[s].pc = "permit" => \E i \in 1 .. Len(waiters) : waiters[i] = s
    BY DEF Lines
<1> QED
    BY <1>1, <1>2 DEF Lines

\* _ensure_processing keeps the worker's type and what it has in hand.
LEMMA EnsuredKeeps ==
    ASSUME NEW w \in Worker, w.entry # NoEntry <=> w.pc \in InHand
    PROVE  /\ Ensured(w) \in Worker /\ Ensured(w).entry = w.entry
           /\ Ensured(w).entry # NoEntry <=> Ensured(w).pc \in InHand
           /\ Ensured(w).pc # "off"
           /\ \A p \in InHand : Ensured(w).pc = p <=> w.pc = p
    BY DEF Ensured, Worker, InHand

\* Whom a release wakes, and what it leaves of the line.
LEMMA ReleaseCases ==
    ASSUME Typed, Release
    PROVE  \/ /\ Len(waiters) = 0 /\ NextInLine = {}
              /\ waiters' = waiters /\ current' = current - 1
           \/ /\ Len(waiters) > 0 /\ NextInLine = {waiters[1]}
              /\ waiters' \in Seq(Streams \cup {Loop}) /\ Len(waiters') = Len(waiters) - 1
              /\ \A i \in 1 .. Len(waiters') : waiters'[i] = waiters[i + 1]
              /\ current' = current
<1>1. waiters \in Seq(Streams \cup {Loop})
    BY DEF Typed
<1>2. CASE waiters = <<>>
    BY <1>1, <1>2 DEF Release, NextInLine
<1>3. CASE waiters # <<>>
    BY <1>1, <1>3 DEF Release, NextInLine
<1> QED
    BY <1>2, <1>3

\* A release hands the permit to the first in the line or frees it, and the
\* line stays one.
LEMMA Released ==
    ASSUME Typed, Lines, Release,
           NEW st \in [Streams -> Stream],
           \A s \in Streams : st[s].pc = "permit" <=> stream[s].pc = "permit",
           worker' \in {WorkerAfterRelease, Ensured(WorkerAfterRelease)},
           stream' = StreamAfterRelease(st)
    PROVE  /\ waiters' \in Seq(Streams \cup {Loop}) /\ current' \in Int
           /\ worker' \in Worker /\ worker'.entry = worker.entry
           /\ worker'.entry # NoEntry <=> worker'.pc \in InHand
           /\ stream' \in [Streams -> Stream]
           /\ Lines'
<1> DEFINE w == WorkerAfterRelease
<1>1. /\ worker \in Worker /\ (worker.entry # NoEntry <=> worker.pc \in InHand)
      /\ waiters \in Seq(Streams \cup {Loop}) /\ current \in Int /\ Len(waiters) \in Nat
      /\ stream \in [Streams -> Stream] /\ Loop \notin Streams
    BY QueueAssumption DEF Typed
<1>2. CASE Len(waiters) = 0
    <2>1. NextInLine = {} /\ waiters' = waiters /\ current' = current - 1
        BY <1>2, ReleaseCases
    <2>2. w = worker
        BY <2>1 DEF WorkerAfterRelease
    <2>3. stream' = st
        BY <2>1 DEF StreamAfterRelease
    <2>4. /\ worker' \in Worker /\ worker'.entry = worker.entry
          /\ worker'.entry # NoEntry <=> worker'.pc \in InHand
          /\ worker'.pc = "permit" <=> worker.pc = "permit"
        BY <1>1, <2>2, EnsuredKeeps DEF InHand
    <2>5. Lines'
        <3>1. current' <= Concurrent
            BY <1>1, <2>1, QueueAssumption DEF Lines
        <3> QED
            BY <1>2, <2>1, <2>3, <2>4, <3>1, LinesKept
    <2> QED
        BY <1>1, <2>1, <2>3, <2>4, <2>5
<1>3. CASE Len(waiters) > 0
    <2>1. /\ NextInLine = {waiters[1]} /\ waiters' \in Seq(Streams \cup {Loop})
          /\ Len(waiters') = Len(waiters) - 1 /\ current' = current
          /\ \A i \in 1 .. Len(waiters') : waiters'[i] = waiters[i + 1]
        BY <1>3, ReleaseCases
    <2>2. waiters[1] \in Streams \cup {Loop} /\ current = Concurrent
        BY <1>1, <1>3 DEF Lines
    <2>3. waiters[1] = Loop => worker.pc = "permit"
        BY <1>1, <1>3 DEF Lines
    <2>4. /\ w \in Worker /\ w.entry = worker.entry
          /\ w.entry # NoEntry <=> w.pc \in InHand
          /\ w.pc = "permit" <=> worker.pc = "permit" /\ waiters[1] # Loop
        BY <1>1, <2>1, <2>3 DEF WorkerAfterRelease, Worker, InHand
    <2>5. /\ worker' \in Worker /\ worker'.entry = worker.entry
          /\ worker'.entry # NoEntry <=> worker'.pc \in InHand
          /\ worker'.pc = "permit" <=> worker.pc = "permit" /\ waiters[1] # Loop
        <3> HIDE DEF w
        <3> QED
            BY <2>4, EnsuredKeeps DEF InHand, w
    <2>6. stream' \in [Streams -> Stream]
        BY <2>1 DEF StreamAfterRelease, Stream
    <2>7. \A s \in Streams :
             stream'[s].pc = "permit" <=> stream[s].pc = "permit" /\ waiters[1] # s
        BY <2>1 DEF StreamAfterRelease, Stream
    <2>8. Lines'
        <3>1. \A i, j \in 1 .. Len(waiters') : waiters'[i] = waiters'[j] => i = j
            BY <1>1, <2>1 DEF Lines
        <3>2. \A i \in 1 .. Len(waiters') :
                 /\ waiters'[i] = waiters[i + 1] /\ i + 1 \in 1 .. Len(waiters)
                 /\ waiters'[i] # waiters[1]
            BY <1>1, <1>3, <2>1 DEF Lines
        <3>3. \A i \in 1 .. Len(waiters') :
                 /\ waiters'[i] = Loop => worker'.pc = "permit"
                 /\ waiters'[i] \in Streams => stream'[waiters'[i]].pc = "permit"
            <4> TAKE i \in 1 .. Len(waiters')
            <4>1. waiters[i + 1] = Loop => worker.pc = "permit"
                BY <3>2 DEF Lines
            <4>2. waiters[i + 1] \in Streams => stream[waiters[i + 1]].pc = "permit"
                BY <3>2 DEF Lines
            <4>3. waiters'[i] = waiters[i + 1] /\ waiters'[i] # waiters[1]
                BY <3>2
            <4> QED
                BY <2>5, <2>7, <4>1, <4>2, <4>3
        <3>4. \A i \in 1 .. Len(waiters) : i # 1 =>
                 i - 1 \in 1 .. Len(waiters') /\ waiters'[i - 1] = waiters[i]
            BY <1>1, <2>1
        <3>5. worker'.pc = "permit" => \E i \in 1 .. Len(waiters') : waiters'[i] = Loop
            BY <2>5, <3>4 DEF Lines
        <3>6. \A s \in Streams :
                 stream'[s].pc = "permit" => \E i \in 1 .. Len(waiters') : waiters'[i] = s
            <4> SUFFICES ASSUME NEW s \in Streams, stream'[s].pc = "permit"
                         PROVE  \E i \in 1 .. Len(waiters') : waiters'[i] = s
                OBVIOUS
            <4>1. PICK i \in 1 .. Len(waiters) : waiters[i] = s
                BY <2>7 DEF Lines
            <4>2. i # 1
                BY <2>7, <4>1
            <4> QED
                BY <3>4, <4>1, <4>2
        <3> QED
            BY <2>1, <2>2, <3>1, <3>3, <3>5, <3>6 DEF Lines
    <2> QED
        BY <1>1, <2>1, <2>5, <2>6, <2>8
<1> QED
    BY <1>1, <1>2, <1>3

\* A heap with room takes one entry more.
LEMMA EnqueuedTyped ==
    ASSUME Typed, HasRoom, NEW r \in Requests, NEW k \in Attempts, NEW p \in 0 .. 3
    PROVE  /\ Enqueued(r, k, p) \subseteq Entry /\ IsFiniteSet(Enqueued(r, k, p))
           /\ Cardinality(Enqueued(r, k, p)) <= MaxSize
<1> DEFINE e == [req |-> r, attempt |-> k, prio |-> p, age |-> 0]
<1>1. e \in Entry
    BY QueueAssumption DEF Entry
<1>2. heap \subseteq Entry /\ IsFiniteSet(heap) /\ Cardinality(heap) \in Nat /\ MaxSize \in Nat
    BY FS_CardinalityType, QueueAssumption DEF Typed
<1> HIDE DEF e
<1>3. /\ IsFiniteSet(heap \cup {e})
      /\ Cardinality(heap \cup {e}) = IF e \in heap THEN Cardinality(heap) ELSE Cardinality(heap) + 1
    BY <1>2, FS_AddElement
<1> QED
    BY <1>1, <1>2, <1>3 DEF HasRoom, Enqueued, e

\* set_result and set_exception keep the futures' type.
LEMMA SettledTyped ==
    ASSUME Typed, NEW r \in Requests, NEW k \in Attempts, NEW status \in Statuses
    PROVE  Settled(future, r, k, status) \in [Requests -> [Attempts -> Statuses]]
    BY DEF Typed, Settled

\* The end of a _run task, whatever else changes.
LEMMA EndTaskKeeps ==
    ASSUME Typed, Lines, NEW t, EndTask(t)
    PROVE  /\ waiters' \in Seq(Streams \cup {Loop}) /\ current' \in Int
           /\ worker' \in Worker /\ worker'.entry = worker.entry
           /\ worker'.entry # NoEntry <=> worker'.pc \in InHand
           /\ stream' \in [Streams -> Stream]
           /\ tasks' \subseteq Task /\ IsFiniteSet(tasks')
           /\ Lines'
<1>1. stream \in [Streams -> Stream] /\ tasks \subseteq Task /\ IsFiniteSet(tasks)
    BY DEF Typed
<1>2. Release /\ worker' = Ensured(WorkerAfterRelease) /\ stream' = StreamAfterRelease(stream)
      /\ tasks' = tasks \ {t}
    BY DEF EndTask
<1>3. tasks' \subseteq Task /\ IsFiniteSet(tasks')
    BY <1>1, <1>2, FS_RemoveElement
<1> QED
    BY <1>1, <1>2, <1>3, Released

-----------------------------------------------------------------------------
(* Types and lines.                                                          *)

\* Every step keeps the types and the line of waiters.
LEMMA TypedNext ==
    ASSUME Typed, Lines, [Next]_vars
    PROVE  Typed' /\ Lines'
<1>0. /\ worker \in Worker /\ (worker.entry # NoEntry <=> worker.pc \in InHand)
      /\ stream \in [Streams -> Stream] /\ waiters \in Seq(Streams \cup {Loop})
      /\ heap \subseteq Entry /\ IsFiniteSet(heap) /\ Cardinality(heap) <= MaxSize
      /\ tasks \subseteq Task /\ IsFiniteSet(tasks) /\ backoff \subseteq Backing
      /\ current \in Int /\ SoundBucket(bucket) /\ sent \in [Requests -> Nat]
      /\ future \in [Requests -> [Attempts -> Statuses]]
    BY DEF Typed
<1>1. ASSUME NEW r \in Requests, Submit(r) PROVE Typed' /\ Lines'
    <2>1. UNCHANGED <<tasks, backoff, current, waiters, stream, bucket, sent>>
        BY <1>1 DEF Submit, history
    <2>2. 0 \in Attempts /\ Profile[r].prio \in 0 .. 3
        BY QueueAssumption DEF Attempts
    <2>3. future' \in [Requests -> [Attempts -> Statuses]]
        <3>1. PICK status \in {"pending", "raised", "refused"} : future' = [future EXCEPT ![r][0] = status]
            BY <1>1 DEF Submit
        <3>2. status \in Statuses
            BY DEF Statuses
        <3> QED
            BY <1>0, <2>2, <3>1, <3>2
    <2>4. CASE HasRoom /\ heap' = Enqueued(r, 0, Profile[r].prio) /\ worker' = Ensured(worker)
        <3>1. heap' \subseteq Entry /\ IsFiniteSet(heap') /\ Cardinality(heap') <= MaxSize
            BY <2>2, <2>4, EnqueuedTyped
        <3>2. worker' \in Worker /\ (worker'.entry # NoEntry <=> worker'.pc \in InHand)
              /\ (worker'.pc = "permit" <=> worker.pc = "permit")
            BY <1>0, <2>4, EnsuredKeeps DEF InHand
        <3>3. Lines'
            BY <2>1, <3>2 DEF Lines
        <3> QED
            BY <1>0, <2>1, <2>3, <3>1, <3>2, <3>3 DEF Typed
    <2>5. CASE UNCHANGED <<heap, worker>>
        <3>1. Lines'
            BY <2>1, <2>5 DEF Lines
        <3> QED
            BY <1>0, <2>1, <2>3, <2>5, <3>1 DEF Typed
    <2> QED
        BY <1>1, <2>4, <2>5 DEF Submit
<1>2. ASSUME NEW r \in Requests, CancelCaller(r) PROVE Typed' /\ Lines'
    BY <1>2 DEF CancelCaller, Typed, Lines, Statuses, history
<1>3. CASE LoopTop
    <2>1. UNCHANGED <<tasks, backoff, current, waiters, stream, bucket, sent>>
        BY <1>3 DEF LoopTop, history
    <2>2. future' \in [Requests -> [Attempts -> Statuses]]
        BY <1>0, <1>3 DEF LoopTop, Statuses
    <2>3. IsFiniteSet(Fresh) /\ Cardinality(Fresh) <= Cardinality(heap) /\ Fresh \subseteq heap
        BY <1>0, FS_Subset DEF Fresh
    <2>4. MaxSize \in Nat /\ Cardinality(heap) \in Nat /\ Cardinality(Fresh) \in Nat
        BY <1>0, <2>3, FS_CardinalityType, QueueAssumption
    <2>7. worker.pc # "permit"
        BY <1>3 DEF LoopTop
    <2>5. CASE heap' = {} /\ worker' = Idle
        <3>1. worker' \in Worker /\ worker'.entry = NoEntry /\ worker'.pc = "off"
            BY <2>5 DEF Idle, Worker
        <3>2. Lines'
            BY <2>1, <2>7, <3>1 DEF Lines
        <3>3. IsFiniteSet(heap') /\ Cardinality(heap') <= MaxSize
            BY <2>4, <2>5, FS_EmptySet
        <3> QED
            BY <1>0, <2>1, <2>2, <2>5, <3>1, <3>2, <3>3 DEF Typed, InHand
    <2>6. ASSUME NEW e \in Fresh, heap' = Fresh \ {e},
                 worker' = [worker EXCEPT !.pc = "admit", !.entry = e]
          PROVE  Typed' /\ Lines'
        <3>1. IsFiniteSet(heap') /\ Cardinality(heap') <= Cardinality(Fresh)
            BY <2>3, <2>6, FS_Subset
        <3>2. Cardinality(heap') \in Nat
            BY <3>1, FS_CardinalityType
        <3>3. e \in Entry /\ e # NoEntry
            BY <1>0, <2>3, QueueAssumption DEF Entry, NoEntry
        <3>4. worker' \in Worker /\ worker'.entry = e /\ worker'.pc = "admit"
            BY <1>0, <2>6, <3>3 DEF Worker, InHand
        <3>5. Lines'
            BY <2>1, <2>7, <3>4 DEF Lines
        <3> QED
            BY <1>0, <2>1, <2>2, <2>3, <2>4, <2>6, <3>1, <3>2, <3>3, <3>4, <3>5 DEF Typed, InHand
    <2> QED
        BY <1>3, <2>5, <2>6 DEF LoopTop
<1>4. CASE LoopAdmit
    <2>1. UNCHANGED <<heap, future, backoff, stream, sent>> /\ worker.pc = "admit"
        BY <1>4 DEF LoopAdmit, history
    <2>2. Spawned \in Task
        <3>1. worker.entry \in Entry
            BY <1>0, <2>1 DEF Worker, InHand
        <3> QED
            BY <3>1, QueueAssumption DEF Spawned, Task, Entry
    <2>3. SoundBucket(bucket') 
        BY <1>0, <1>4, BucketSteps DEF LoopAdmit
    <2>4. CASE current < Concurrent /\ current' = current + 1 /\ tasks' = tasks \cup {Spawned}
               /\ worker' = [worker EXCEPT !.pc = "top", !.entry = NoEntry] /\ waiters' = waiters
        <3>1. tasks' \subseteq Task /\ IsFiniteSet(tasks')
            BY <1>0, <2>2, <2>4, FS_AddElement
        <3>2. worker' \in Worker /\ worker'.entry = NoEntry /\ worker'.pc = "top"
            BY <1>0, <2>4 DEF Worker
        <3>3. Lines'
            <4>1. Len(waiters) = 0
                BY <1>0, <2>4, QueueAssumption DEF Lines
            <4> QED
                BY <1>0, <2>1, <2>4, <3>2, <4>1, LinesKept, QueueAssumption
        <3> QED
            BY <1>0, <2>1, <2>3, <2>4, <3>1, <3>2, <3>3 DEF Typed, InHand
    <2>5. CASE ~(current < Concurrent) /\ waiters' = Append(waiters, Loop)
               /\ worker' = [worker EXCEPT !.pc = "permit"] /\ UNCHANGED <<current, tasks>>
        <3>1. waiters' \in Seq(Streams \cup {Loop}) /\ Len(waiters') = Len(waiters) + 1
              /\ waiters'[Len(waiters) + 1] = Loop
              /\ \A i \in 1 .. Len(waiters) : waiters'[i] = waiters[i]
            BY <1>0, <2>5
        <3>2. worker' \in Worker /\ worker'.entry = worker.entry /\ worker'.pc = "permit"
            BY <1>0, <2>5 DEF Worker, InHand
        <3>3. \A i \in 1 .. Len(waiters) : waiters[i] # Loop
            BY <2>1 DEF Lines
        <3>4. Lines'
            <4>1. \A i, j \in 1 .. Len(waiters') : waiters'[i] = waiters'[j] => i = j
                BY <1>0, <3>1, <3>3 DEF Lines
            <4>2. \A i \in 1 .. Len(waiters') :
                     waiters'[i] \in Streams => stream[waiters'[i]].pc = "permit"
                <5> TAKE i \in 1 .. Len(waiters')
                <5>1. CASE i \in 1 .. Len(waiters)
                    BY <3>1, <5>1 DEF Lines
                <5>2. CASE i = Len(waiters) + 1
                    BY <3>1, <5>2, QueueAssumption
                <5> QED
                    BY <1>0, <3>1, <5>1, <5>2
            <4>3. \A n \in Streams : stream[n].pc = "permit" =>
                     \E i \in 1 .. Len(waiters') : waiters'[i] = n
                BY <1>0, <3>1 DEF Lines
            <4>4. \E i \in 1 .. Len(waiters') : waiters'[i] = Loop
                BY <1>0, <3>1
            <4>5. current' = Concurrent /\ Concurrent <= Concurrent
                BY <1>0, <2>5, QueueAssumption DEF Lines
            <4> QED
                BY <2>1, <3>2, <4>1, <4>2, <4>3, <4>4, <4>5 DEF Lines
        <3> QED
            BY <1>0, <2>1, <2>3, <2>5, <3>1, <3>2, <3>4 DEF Typed, InHand
    <2>6. CASE worker' = [worker EXCEPT !.pc = "sleep", !.wait = NextLook]
               /\ UNCHANGED <<current, tasks, waiters>>
        <3>1. worker' \in Worker /\ worker'.entry = worker.entry /\ worker'.pc = "sleep"
            BY <1>0, <2>6, BucketSteps DEF Worker, InHand
        <3>2. Lines'
            BY <2>1, <2>6, <3>1 DEF Lines
        <3> QED
            BY <1>0, <2>1, <2>3, <2>6, <3>1, <3>2 DEF Typed, InHand
    <2>7. CASE worker' = Idle /\ UNCHANGED <<current, tasks, waiters>>
        <3>1. worker' \in Worker /\ worker'.entry = NoEntry /\ worker'.pc = "off"
            BY <2>7 DEF Idle, Worker
        <3>2. Lines'
            BY <2>1, <2>7, <3>1 DEF Lines
        <3> QED
            BY <1>0, <2>1, <2>3, <2>7, <3>1, <3>2 DEF Typed, InHand
    <2> QED
        BY <1>4, <2>4, <2>5, <2>6, <2>7 DEF LoopAdmit
<1>5. CASE LoopWake
    <2>1. worker' \in Worker /\ worker'.entry = worker.entry /\ worker'.pc = "admit"
        BY <1>0, <1>5 DEF LoopWake, Worker, InHand
    <2>2. UNCHANGED <<heap, future, tasks, backoff, current, waiters, stream, bucket, sent>>
          /\ worker.pc = "sleep"
        BY <1>5 DEF LoopWake, history
    <2>3. Lines'
        BY <2>1, <2>2 DEF Lines
    <2> QED
        BY <1>0, <2>1, <2>2, <2>3 DEF Typed, InHand
<1>6. CASE LoopGranted
    <2>1. UNCHANGED <<heap, future, backoff, current, waiters, stream, bucket, sent>>
          /\ worker.pc = "granted"
        BY <1>6 DEF LoopGranted, history
    <2>2. Spawned \in Task
        <3>1. worker.entry \in Entry
            BY <1>0, <2>1 DEF Worker, InHand
        <3> QED
            BY <3>1, QueueAssumption DEF Spawned, Task, Entry
    <2>3. tasks' \subseteq Task /\ IsFiniteSet(tasks')
        BY <1>0, <1>6, <2>2, FS_AddElement DEF LoopGranted
    <2>4. worker' \in Worker /\ worker'.entry = NoEntry /\ worker'.pc = "top"
        BY <1>0, <1>6 DEF LoopGranted, Worker
    <2>5. Lines'
        BY <2>1, <2>4 DEF Lines
    <2> QED
        BY <1>0, <2>1, <2>3, <2>4, <2>5 DEF Typed, InHand
<1>7. ASSUME NEW t \in tasks, TaskStart(t) PROVE Typed' /\ Lines'
    <2>1. UNCHANGED <<heap, backoff, bucket>> /\ t \in Task
        BY <1>0, <1>7 DEF TaskStart
    <2>2. CASE /\ tasks' = (tasks \ {t}) \cup
                     {[t EXCEPT !.pc = "sending", !.age = 0,
                         !.via = IF Profile[t.req].own /\ t.attempt = 0 THEN "own" ELSE "shared"]}
               /\ sent' = [sent EXCEPT ![t.req] = @ + 1]
               /\ UNCHANGED <<future, worker, current, waiters, stream>>
        <3> DEFINE u == [t EXCEPT !.pc = "sending", !.age = 0,
                           !.via = IF Profile[t.req].own /\ t.attempt = 0 THEN "own" ELSE "shared"]
        <3>1. u \in Task
            BY <2>1 DEF Task
        <3> HIDE DEF u
        <3>2. tasks' = (tasks \ {t}) \cup {u}
            BY <2>2 DEF u
        <3>3. tasks' \subseteq Task /\ IsFiniteSet(tasks')
            BY <1>0, <3>1, <3>2, FS_AddElement, FS_RemoveElement
        <3>4. sent' \in [Requests -> Nat]
            BY <1>0, <2>1, <2>2 DEF Task
        <3>5. Lines'
            BY <2>2 DEF Lines
        <3> QED
            BY <1>0, <2>1, <2>2, <3>3, <3>4, <3>5 DEF Typed
    <2>3. CASE EndTask(t) /\ future' = Settled(future, t.req, t.attempt, "raised") /\ sent' = sent
        <3>1. future' \in [Requests -> [Attempts -> Statuses]]
            BY <2>1, <2>3, SettledTyped DEF Task, Statuses
        <3> QED
            BY <1>0, <2>1, <2>3, <3>1, EndTaskKeeps DEF Typed
    <2> QED
        BY <1>7, <2>2, <2>3 DEF TaskStart
<1>8. ASSUME NEW t \in tasks, TaskOk(t) PROVE Typed' /\ Lines'
    <2>1. UNCHANGED <<heap, backoff, sent>> /\ t \in Task /\ EndTask(t)
        BY <1>0, <1>8 DEF TaskOk, history
    <2>2. SoundBucket(bucket')
        BY <1>0, <1>8, BucketSteps, QueueAssumption DEF TaskOk
    <2>3. future' \in [Requests -> [Attempts -> Statuses]]
        BY <1>8, <2>1, SettledTyped DEF Task, Statuses, TaskOk
    <2> QED
        BY <1>0, <2>1, <2>2, <2>3, EndTaskKeeps DEF Typed
<1>9. ASSUME NEW t \in tasks, NEW e \in Failures, TaskError(t, e) PROVE Typed' /\ Lines'
    <2>1. UNCHANGED <<heap, sent>> /\ t \in Task /\ EndTask(t) /\ t.attempt \in Attempts
        BY <1>0, <1>9 DEF TaskError, history, Task
    <2>2. Honored(e, Policy) \in Nat \cup {Unset}
        BY QueueAssumption DEF Honored, Unset, IsPolicy
    <2>3. SoundBucket(bucket')
        BY <1>0, <1>9, <2>2, BucketSteps DEF TaskError, Paused
    <2>4. future' \in [Requests -> [Attempts -> Statuses]]
        <3>1. /\ Settled(future, t.req, t.attempt, "error") \in [Requests -> [Attempts -> Statuses]]
              /\ Settled(future, t.req, t.attempt, "raised") \in [Requests -> [Attempts -> Statuses]]
            BY <2>1, SettledTyped DEF Task, Statuses
        <3>2. future' \in {future, Settled(future, t.req, t.attempt, "error"),
                                   Settled(future, t.req, t.attempt, "raised")}
            BY <1>9 DEF TaskError
        <3> QED
            BY <1>0, <3>1, <3>2
    <2>5. backoff' \subseteq Backing
        <3>1. ASSUME NEW d \in Backoffs(t.attempt, e, Policy), Willing(t, e)
              PROVE  [req |-> t.req, attempt |-> t.attempt, wait |-> d] \in Backing
            <4>1. t.attempt < MaxRetries(e.kind, Policy, Profile[t.req].override)
                BY <3>1 DEF Willing, ShouldRetry
            <4>2. MaxRetries(e.kind, Policy, Profile[t.req].override) <= Patience
                BY <2>1, QueueAssumption DEF Task
            <4>3. MaxRetries(e.kind, Policy, Profile[t.req].override) \in Int
                <5>1. /\ Profile[t.req].override \in Int /\ Policy.maxRetries \in Int
                      /\ Policy.perKind[e.kind].maxRetries \in Int
                    BY <2>1, QueueAssumption DEF Task, IsPolicy, Unset
                <5> QED
                    BY <5>1 DEF MaxRetries, Or
            <4>4. t.attempt \in 0 .. Patience - 1
                BY <2>1, <4>1, <4>2, <4>3, QueueAssumption DEF Attempts
            <4> QED
                BY <2>1, <3>1, <4>4, DelayIsNat DEF Backing, Task
        <3> QED
            BY <1>0, <1>9, <3>1 DEF TaskError
    <2> QED
        BY <1>0, <2>1, <2>3, <2>4, <2>5, EndTaskKeeps DEF Typed
<1>10. ASSUME NEW b \in backoff, Requeue(b) PROVE Typed' /\ Lines'
    <2>1. UNCHANGED <<tasks, current, waiters, stream, bucket, sent>> /\ b \in Backing
        BY <1>0, <1>10 DEF Requeue, history
    <2>2. backoff' \subseteq Backing
        BY <1>0, <1>10 DEF Requeue
    <2>3. CASE /\ HasRoom /\ heap' = Enqueued(b.req, b.attempt + 1, PRIORITY_RETRY)
               /\ future' = [future EXCEPT ![b.req][b.attempt + 1] = "pending"]
               /\ worker' = Ensured(worker)
        <3>1. b.req \in Requests /\ b.attempt + 1 \in Attempts /\ PRIORITY_RETRY \in 0 .. 3
            BY <2>1, QueueAssumption DEF Backing, Attempts, PRIORITY_RETRY
        <3>2. heap' \subseteq Entry /\ IsFiniteSet(heap') /\ Cardinality(heap') <= MaxSize
            BY <2>3, <3>1, EnqueuedTyped
        <3>3. future' \in [Requests -> [Attempts -> Statuses]]
            BY <1>0, <2>3, <3>1 DEF Statuses
        <3>4. worker' \in Worker /\ (worker'.entry # NoEntry <=> worker'.pc \in InHand)
              /\ (worker'.pc = "permit" <=> worker.pc = "permit")
            BY <1>0, <2>3, EnsuredKeeps DEF InHand
        <3>5. Lines'
            BY <2>1, <3>4 DEF Lines
        <3> QED
            BY <1>0, <2>1, <2>2, <3>2, <3>3, <3>4, <3>5 DEF Typed
    <2>4. CASE future' = Settled(future, b.req, b.attempt, "refused") /\ UNCHANGED <<heap, worker>>
        <3>1. future' \in [Requests -> [Attempts -> Statuses]]
            <4>1. b.req \in Requests /\ b.attempt \in Attempts /\ "refused" \in Statuses
                BY <2>1, QueueAssumption DEF Backing, Attempts, Statuses
            <4> QED
                BY <2>4, <4>1, SettledTyped
        <3>2. Lines'
            BY <2>1, <2>4 DEF Lines
        <3> QED
            BY <1>0, <2>1, <2>2, <2>4, <3>1, <3>2 DEF Typed
    <2> QED
        BY <1>10, <2>3, <2>4 DEF Requeue
<1>11. ASSUME NEW r \in Requests, NEW k \in Attempts, Forward(r, k) PROVE Typed' /\ Lines'
    <2>1. k - 1 \in Attempts /\ future[r][k] \in Statuses
        BY <1>0, <1>11, QueueAssumption DEF Forward, Attempts
    <2>2. future' \in [Requests -> [Attempts -> Statuses]]
        BY <1>11, <2>1, SettledTyped DEF Forward
    <2> QED
        BY <1>11, <2>2 DEF Forward, history, Typed, Lines
<1>12. ASSUME NEW s \in Streams, StreamAsk(s) PROVE Typed' /\ Lines'
    <2>1. UNCHANGED <<heap, future, worker, tasks, backoff, sent>> /\ stream[s].pc \in {"new", "sleep"}
        BY <1>12 DEF StreamAsk, history
    <2>2. SoundBucket(bucket')
        BY <1>0, <1>12, BucketSteps DEF StreamAsk
    <2>3. PICK p \in {"open", "closed", "permit", "sleep"}, n \in Nat : stream' = SetStream(s, p, n)
        BY <1>0, <1>12, BucketSteps DEF StreamAsk, Opens
    <2>4. /\ stream' \in [Streams -> Stream] /\ stream'[s].pc = p
          /\ \A x \in Streams \ {s} : stream'[x] = stream[x]
        BY <1>0, <2>3 DEF SetStream, Stream
    <2>5. CASE p # "permit" /\ waiters' = waiters /\ current' \in Int
               /\ (current' = current \/ (current < Concurrent /\ current' = current + 1))
        <3>1. Lines'
            <4>1. Len(waiters) > 0 => current' = current
                BY <2>5, QueueAssumption DEF Lines
            <4>2. current' <= Concurrent
                BY <1>0, <2>5, QueueAssumption DEF Lines
            <4>3. \A x \in Streams : stream'[x].pc = "permit" <=> stream[x].pc = "permit"
                BY <2>1, <2>4, <2>5
            <4> QED
                BY <2>1, <2>5, <4>1, <4>2, <4>3, LinesKept
        <3> QED
            BY <1>0, <2>1, <2>2, <2>4, <2>5, <3>1 DEF Typed
    <2>6. CASE p = "permit" /\ waiters' = Append(waiters, s) /\ current' = current
               /\ ~(current < Concurrent)
        <3>1. waiters' \in Seq(Streams \cup {Loop}) /\ Len(waiters') = Len(waiters) + 1
              /\ waiters'[Len(waiters) + 1] = s
              /\ \A i \in 1 .. Len(waiters) : waiters'[i] = waiters[i]
            BY <1>0, <2>6
        <3>2. \A i \in 1 .. Len(waiters) : waiters[i] # s
            BY <2>1 DEF Lines
        <3>3. \A i, j \in 1 .. Len(waiters') : waiters'[i] = waiters'[j] => i = j
            <4> SUFFICES ASSUME NEW i \in 1 .. Len(waiters'), NEW j \in 1 .. Len(waiters'),
                                waiters'[i] = waiters'[j]
                         PROVE  i = j
                OBVIOUS
            <4>1. Len(waiters) \in Nat /\ \A x, y \in 1 .. Len(waiters) : waiters[x] = waiters[y] => x = y
                BY <1>0 DEF Lines
            <4> QED
                BY <3>1, <3>2, <4>1
        <3>4. \A i \in 1 .. Len(waiters') :
                 /\ waiters'[i] = Loop => worker.pc = "permit"
                 /\ waiters'[i] \in Streams => stream'[waiters'[i]].pc = "permit"
            <4> TAKE i \in 1 .. Len(waiters')
            <4>1. CASE i \in 1 .. Len(waiters)
                <5>1. waiters'[i] = waiters[i] /\ waiters[i] # s
                    BY <3>1, <3>2, <4>1
                <5>2. /\ waiters[i] = Loop => worker.pc = "permit"
                      /\ waiters[i] \in Streams => stream[waiters[i]].pc = "permit"
                    BY <4>1 DEF Lines
                <5> QED
                    BY <2>4, <5>1, <5>2
            <4>2. CASE i = Len(waiters) + 1
                BY <2>4, <2>6, <3>1, <4>2, QueueAssumption
            <4> QED
                BY <1>0, <3>1, <4>1, <4>2
        <3>5. /\ worker.pc = "permit" => \E i \in 1 .. Len(waiters') : waiters'[i] = Loop
              /\ \A w \in Streams : stream[w].pc = "permit" =>
                    \E i \in 1 .. Len(waiters') : waiters'[i] = w
              /\ \E i \in 1 .. Len(waiters') : waiters'[i] = s
            <4>1. Len(waiters) \in Nat
                BY <1>0
            <4>2. \A x : (\E i \in 1 .. Len(waiters) : waiters[i] = x)
                          => \E i \in 1 .. Len(waiters') : waiters'[i] = x
                BY <3>1, <4>1
            <4> QED
                BY <3>1, <4>1, <4>2 DEF Lines
        <3>6. \A w \in Streams : stream'[w].pc = "permit" =>
                 \E i \in 1 .. Len(waiters') : waiters'[i] = w
            BY <2>4, <3>5
        <3>7. current' = Concurrent
            BY <1>0, <2>6, QueueAssumption DEF Lines
        <3>8. Lines'
            BY <2>1, <3>3, <3>4, <3>5, <3>6, <3>7, QueueAssumption DEF Lines
        <3> QED
            BY <1>0, <2>1, <2>2, <2>4, <2>6, <3>1, <3>8 DEF Typed
    <2>7. \/ /\ p # "permit" /\ waiters' = waiters
             /\ current' = current \/ (current < Concurrent /\ current' = current + 1)
          \/ /\ p = "permit" /\ waiters' = Append(waiters, s) /\ current' = current
             /\ ~(current < Concurrent)
        <3>1. stream'[s].pc = p
            BY <2>4
        <3>2. /\ \A x \in {"open", "closed", "permit"} : stream' = SetStream(s, x, 0) => p = x
              /\ stream' = SetStream(s, "sleep", NextLook) => p = "sleep"
            BY <1>0, <3>1 DEF SetStream
        <3> QED
            BY <1>12, <3>2 DEF StreamAsk, Opens
    <2> QED
        BY <1>0, <2>5, <2>6, <2>7
<1>13. ASSUME NEW s \in Streams, StreamGranted(s) PROVE Typed' /\ Lines'
    <2>1. UNCHANGED <<heap, future, worker, tasks, backoff, current, waiters, bucket, sent>>
          /\ stream[s].pc = "granted"
        BY <1>13 DEF StreamGranted, history
    <2>2. /\ stream' \in [Streams -> Stream] /\ stream'[s].pc \in {"open", "closed"}
          /\ \A x \in Streams \ {s} : stream'[x] = stream[x]
        <3>1. PICK p \in {"open", "closed"} : stream' = SetStream(s, p, 0)
            BY <1>13 DEF StreamGranted, Opens
        <3> QED
            BY <1>0, <3>1 DEF SetStream, Stream
    <2>3. Lines'
        BY <2>1, <2>2 DEF Lines
    <2> QED
        BY <1>0, <2>1, <2>2, <2>3 DEF Typed
<1>14. ASSUME NEW s \in Streams, StreamEnd(s) PROVE Typed' /\ Lines'
    <2> DEFINE st == SetStream(s, "closed", 0)
    <2>1. UNCHANGED <<heap, future, tasks, backoff, bucket, sent>> /\ stream[s].pc = "open"
        BY <1>14 DEF StreamEnd, history
    <2>2. st \in [Streams -> Stream] /\ \A x \in Streams : st[x].pc = "permit" <=> stream[x].pc = "permit"
        BY <1>0, <2>1 DEF SetStream, Stream
    <2>3. Release /\ worker' = WorkerAfterRelease /\ stream' = StreamAfterRelease(st)
        BY <1>14 DEF StreamEnd
    <2> HIDE DEF st
    <2> QED
        BY <1>0, <2>1, <2>2, <2>3, Released DEF Typed
<1>15. ASSUME NEW s \in Streams, CancelStream(s) PROVE Typed' /\ Lines'
    <2>1. UNCHANGED <<heap, future, worker, tasks, backoff, current, bucket, sent>>
        BY <1>15 DEF CancelStream, history
    <2>2. /\ stream' \in [Streams -> Stream] /\ stream'[s].pc = "closed"
          /\ \A x \in Streams \ {s} : stream'[x] = stream[x]
        BY <1>0, <1>15 DEF CancelStream, SetStream, Stream
    <2>3. CASE stream[s].pc # "permit" /\ waiters' = waiters
        <3>1. Lines'
            BY <2>1, <2>2, <2>3 DEF Lines
        <3> QED
            BY <1>0, <2>1, <2>2, <2>3, <3>1 DEF Typed
    <2>4. ASSUME NEW n \in DOMAIN waiters, waiters[n] = s, waiters' = RemoveAt(waiters, n),
                 stream[s].pc = "permit"
          PROVE  Typed' /\ Lines'
        <3>1. n \in 1 .. Len(waiters) /\ Len(waiters) \in Nat
            BY <1>0, <2>4
        <3>3. /\ waiters' \in Seq(Streams \cup {Loop}) /\ Len(waiters') = Len(waiters) - 1
              /\ \A i \in 1 .. Len(waiters') :
                    waiters'[i] = IF i < n THEN waiters[i] ELSE waiters[i + 1]
            BY <1>0, <2>4, <3>1, RemoveAtElements
        <3>4. \A i \in 1 .. Len(waiters') :
                 \E j \in 1 .. Len(waiters) : j # n /\ waiters'[i] = waiters[j] /\ waiters[j] # s
            <4> TAKE i \in 1 .. Len(waiters')
            <4> DEFINE j == IF i < n THEN i ELSE i + 1
            <4>1. j \in 1 .. Len(waiters) /\ j # n /\ waiters'[i] = waiters[j]
                BY <3>1, <3>3
            <4> HIDE DEF j
            <4>2. waiters[j] # s
                BY <2>4, <3>1, <4>1 DEF Lines
            <4> QED
                BY <4>1, <4>2
        <3>5. \A i, j \in 1 .. Len(waiters') : waiters'[i] = waiters'[j] => i = j
            BY <3>1, <3>3 DEF Lines
        <3>6. \A i \in 1 .. Len(waiters') :
                 /\ waiters'[i] = Loop => worker.pc = "permit"
                 /\ waiters'[i] \in Streams => stream'[waiters'[i]].pc = "permit"
            <4> TAKE i \in 1 .. Len(waiters')
            <4>1. PICK j \in 1 .. Len(waiters) : waiters'[i] = waiters[j] /\ waiters[j] # s
                BY <3>4
            <4>2. /\ waiters[j] = Loop => worker.pc = "permit"
                  /\ waiters[j] \in Streams => stream[waiters[j]].pc = "permit"
                BY DEF Lines
            <4> QED
                BY <2>2, <4>1, <4>2
        <3>7. \A j \in 1 .. Len(waiters) : waiters[j] # s =>
                 \E i \in 1 .. Len(waiters') : waiters'[i] = waiters[j]
            <4> TAKE j \in 1 .. Len(waiters)
            <4>1. CASE j < n
                BY <3>1, <3>3, <4>1
            <4>2. CASE j > n
                <5>1. j - 1 \in 1 .. Len(waiters') /\ waiters'[j - 1] = waiters[j]
                    BY <3>1, <3>3, <4>2
                <5> QED
                    BY <5>1
            <4> QED
                BY <2>4, <3>1, <4>1, <4>2
        <3>8. worker.pc = "permit" => \E i \in 1 .. Len(waiters') : waiters'[i] = Loop
            BY <3>7, QueueAssumption DEF Lines
        <3>9. \A x \in Streams : stream'[x].pc = "permit" =>
                 \E i \in 1 .. Len(waiters') : waiters'[i] = x
            BY <2>2, <3>7 DEF Lines
        <3>10. (Len(waiters') > 0 => current' = Concurrent) /\ current' <= Concurrent
            BY <2>1, <3>1, <3>3 DEF Lines
        <3>11. Lines'
            BY <2>1, <3>5, <3>6, <3>8, <3>9, <3>10 DEF Lines
        <3> QED
            BY <1>0, <2>1, <2>2, <3>3, <3>11 DEF Typed
    <2> QED
        BY <1>15, <2>3, <2>4 DEF CancelStream
<1>16. CASE Tick
    <2>1. UNCHANGED <<future, current, waiters, sent>> /\ SoundBucket(bucket')
        BY <1>0, <1>16, BucketSteps DEF Tick
    <2>2. \A n \in 0 .. Timeout + 1 : Older(n) \in 0 .. Timeout + 1
        BY QueueAssumption DEF Older, Lesser
    <2>3. \A n \in Nat : Down(n) \in Nat
        BY DEF Down
    <2>4. heap' \subseteq Entry /\ IsFiniteSet(heap') /\ Cardinality(heap') <= MaxSize
        <3> DEFINE f == [e \in heap |-> [e EXCEPT !.age = Older(@)]]
        <3>1. \A e \in heap : f[e] \in Entry
            BY <1>0, <2>2 DEF Entry
        <3>2. heap' = {f[e] : e \in heap}
            BY <1>16 DEF Tick
        <3>3. f \in [heap -> Entry]
            BY <3>1
        <3> HIDE DEF f
        <3>4. IsFiniteSet(heap') /\ Cardinality(heap') <= Cardinality(heap)
            <4>1. IsFiniteSet({f[e] : e \in heap}) /\ Cardinality({f[e] : e \in heap}) <= Cardinality(heap)
                BY <1>0, <3>3, ImageBound, Zenon
            <4> QED
                BY <3>2, <4>1, Zenon
        <3>5. Cardinality(heap') \in Nat /\ Cardinality(heap) \in Nat /\ MaxSize \in Nat
            BY <1>0, <3>4, FS_CardinalityType, QueueAssumption
        <3> QED
            BY <1>0, <3>1, <3>2, <3>4, <3>5
    <2>5. worker' \in Worker /\ (worker'.entry # NoEntry <=> worker'.pc \in InHand)
          /\ worker'.pc = worker.pc
        <3>1. CASE worker.entry = NoEntry
            BY <1>0, <1>16, <3>1 DEF Tick
        <3>2. CASE worker.entry # NoEntry
            <4> DEFINE e == [worker.entry EXCEPT !.age = Older(@)]
            <4>1. worker.entry \in Entry
                BY <1>0, <3>2 DEF Worker
            <4>2. e \in Entry /\ e # NoEntry
                BY <2>2, <4>1, QueueAssumption DEF Entry, NoEntry
            <4>3. worker' = [worker EXCEPT !.entry = e, !.wait = Down(@)]
                BY <1>0, <1>16, <3>2 DEF Tick, Worker
            <4> HIDE DEF e
            <4> QED
                BY <1>0, <2>3, <3>2, <4>2, <4>3 DEF Worker
        <3> QED
            BY <3>1, <3>2
    <2>6. tasks' \subseteq Task /\ IsFiniteSet(tasks')
        <3> DEFINE f == [t \in tasks |-> [t EXCEPT !.ran = IF t.pc = "sending"
                                            THEN Lesser(@ + 1, Policy.totalTimeout) ELSE 0]]
        <3>1. \A t \in tasks : f[t] \in Task
            <4>1. Policy.totalTimeout \in Nat
                BY QueueAssumption DEF IsPolicy
            <4>2. \A n \in Nat : Lesser(n + 1, Policy.totalTimeout) \in Nat
                BY <4>1 DEF Lesser
            <4> QED
                BY <1>0, <4>2 DEF Task
        <3>2. tasks' = {f[t] : t \in tasks}
            BY <1>16 DEF Tick
        <3>3. f \in [tasks -> Task]
            BY <3>1
        <3> HIDE DEF f
        <3>4. IsFiniteSet({f[t] : t \in tasks}) /\ Cardinality({f[t] : t \in tasks}) <= Cardinality(tasks)
            BY <1>0, <3>3, ImageBound, Zenon
        <3> QED
            BY <3>1, <3>2, <3>4
    <2>7. backoff' \subseteq Backing
        <3>1. \A b \in backoff : [b EXCEPT !.wait = Down(@)] \in Backing
            BY <1>0, <2>3 DEF Backing
        <3> QED
            BY <1>16, <3>1 DEF Tick
    <2>8. stream' \in [Streams -> Stream] /\ \A s \in Streams : stream'[s].pc = stream[s].pc
        BY <1>0, <1>16, <2>3 DEF Tick, Stream
    <2>9. Lines'
        BY <1>0, <2>1, <2>5, <2>8 DEF Lines
    <2> QED
        BY <1>0, <2>1, <2>4, <2>5, <2>6, <2>7, <2>8, <2>9 DEF Typed
<1>17. CASE UNCHANGED vars
    BY <1>17 DEF vars, history, Typed, Lines
<1> QED
    BY <1>1, <1>2, <1>3, <1>4, <1>5, <1>6, <1>7, <1>8, <1>9, <1>10, <1>11, <1>12, <1>13, <1>14,
       <1>15, <1>16, <1>17 DEF Next

-----------------------------------------------------------------------------
(* Tokens.                                                                   *)

\* A request is in one place at most: the heap, the worker's hands, a task or
\* a retry's sleep.
Apart ==
    /\ \A x, y \in heap : x.req = y.req => x = y
    /\ \A x, y \in tasks : x.req = y.req => x = y
    /\ \A x, y \in backoff : x.req = y.req => x = y
    /\ \A x \in heap : /\ x.req # worker.entry.req
                       /\ \A t \in tasks : x.req # t.req
                       /\ \A b \in backoff : x.req # b.req
    /\ \A t \in tasks : t.req # worker.entry.req /\ \A b \in backoff : t.req # b.req
    /\ \A b \in backoff : b.req # worker.entry.req

\* Its attempt is the last for which a future was made.
Latest(x) == \A j \in Attempts : j <= x.attempt <=> future[x.req][j] # "none"
Frontier ==
    /\ \A x \in heap \cup tasks \cup backoff : Latest(x)
    /\ worker.entry # NoEntry => Latest(worker.entry)

\* What was sent: an attempt's number bounds it, and only what was sent is
\* answered with a response.
Counted ==
    /\ \A e \in heap : sent[e.req] <= e.attempt
    /\ worker.entry # NoEntry => sent[worker.entry.req] <= worker.entry.attempt
    /\ \A t \in tasks : IF t.pc = "spawned" THEN sent[t.req] <= t.attempt
                         ELSE sent[t.req] \in 1 .. t.attempt + 1
    /\ \A b \in backoff : sent[b.req] \in 1 .. b.attempt + 1
    /\ \A r \in Requests : future[r][0] = "none" =>
          sent[r] = 0 /\ \A k \in Attempts : future[r][k] = "none"
    /\ \A r \in Requests, k \in Attempts : future[r][k] = "response" => sent[r] > 0

Tokens == Apart /\ Frontier /\ Counted

\* A step that at most drops tokens keeps them apart.
LEMMA TokensDropped ==
    ASSUME Typed, Tokens, sent' = sent,
           heap' \subseteq heap, tasks' \subseteq tasks, backoff' \subseteq backoff,
           worker'.entry \in {worker.entry, NoEntry},
           \A r \in Requests, k \in Attempts :
              /\ future'[r][k] = "none" <=> future[r][k] = "none"
              /\ future'[r][k] = "response" => future[r][k] = "response" \/ sent[r] > 0
    PROVE  Tokens'
<1>1. /\ heap \subseteq Entry /\ tasks \subseteq Task /\ backoff \subseteq Backing
      /\ Loop \notin Requests /\ 0 \in Attempts
      /\ worker \in Worker
    BY QueueAssumption DEF Typed, Attempts
<1>2. \A x \in heap \cup tasks \cup backoff : x.req \in Requests
    BY <1>1 DEF Entry, Task, Backing
<1>3. Apart'
    <2>1. CASE worker'.entry = worker.entry
        BY <2>1 DEF Tokens, Apart
    <2>2. CASE worker'.entry = NoEntry
        BY <1>1, <1>2, <2>2 DEF Tokens, Apart, NoEntry
    <2> QED
        BY <2>1, <2>2
<1>4. Frontier'
    <2>1. ASSUME NEW x \in heap' \cup tasks' \cup backoff' PROVE Latest(x)'
        BY <1>2 DEF Tokens, Frontier, Latest
    <2>2. ASSUME worker'.entry # NoEntry PROVE Latest(worker.entry)'
        <3>1. worker.entry.req \in Requests
            BY <1>1, <2>2 DEF Worker, Entry
        <3> QED
            BY <2>2, <3>1 DEF Tokens, Frontier, Latest
    <2> QED
        BY <2>1, <2>2 DEF Frontier
<1>5. Counted'
    BY <1>1 DEF Tokens, Counted
<1> QED
    BY <1>3, <1>4, <1>5 DEF Tokens

\* Settling touches no future that is not there.
LEMMA SettledNones ==
    ASSUME Typed, NEW r \in Requests, NEW k \in Attempts, NEW status \in Statuses \ {"none"},
           future' = Settled(future, r, k, status)
    PROVE  \A q \in Requests, j \in Attempts :
              /\ future'[q][j] = "none" <=> future[q][j] = "none"
              /\ future'[q][j] = "response" =>
                    future[q][j] = "response" \/ (q = r /\ status = "response")
    BY DEF Typed, Settled

\* The worker's entry becomes a task.
LEMMA TokenSpawned ==
    ASSUME Typed, Tokens, worker.pc \in InHand, UNCHANGED <<heap, future, backoff, sent>>,
           tasks' = tasks \cup {Spawned}, worker'.entry = NoEntry
    PROVE  Tokens'
<1>1. /\ heap \subseteq Entry /\ tasks \subseteq Task /\ backoff \subseteq Backing
      /\ Loop \notin Requests /\ worker.entry \in Entry /\ worker.entry # NoEntry
    BY QueueAssumption DEF Typed, Worker
<1>0. PICK u : u = Spawned
    OBVIOUS
<1>2. u.req = worker.entry.req /\ u.attempt = worker.entry.attempt /\ u.pc = "spawned"
    BY <1>0 DEF Spawned
<1>a. tasks' = tasks \cup {u}
    BY <1>0
<1>3. \A x \in heap \cup tasks \cup backoff : x.req # NoEntry.req
    BY <1>1 DEF Entry, Task, Backing, NoEntry
<1>4. u.req # NoEntry.req
    BY <1>1, <1>2 DEF Entry, NoEntry
<1>5. Apart'
    BY <1>a, <1>2, <1>3, <1>4 DEF Tokens, Apart
<1>6. Latest(u)'
    BY <1>1, <1>2 DEF Tokens, Frontier, Latest
<1>7. Frontier'
    BY <1>a, <1>6 DEF Tokens, Frontier, Latest
<1>8. Counted'
    BY <1>a, <1>1, <1>2 DEF Tokens, Counted
<1> QED
    BY <1>5, <1>7, <1>8 DEF Tokens

\* A tick ages the worker's entry and changes nothing else of it.
LEMMA TickAges ==
    ASSUME Typed, Tick
    PROVE  /\ worker'.entry.req = worker.entry.req /\ worker'.entry.attempt = worker.entry.attempt
           /\ worker'.entry # NoEntry <=> worker.entry # NoEntry
           /\ worker'.pc = worker.pc
<1>0. worker \in Worker /\ Loop \notin Requests
    BY QueueAssumption DEF Typed
<1>1. CASE worker.entry = NoEntry
    BY <1>1 DEF Tick
<1>2. CASE worker.entry # NoEntry
    <2>1. worker.entry \in Entry
        BY <1>0, <1>2 DEF Worker
    <2>2. worker' = [worker EXCEPT !.entry.age = Older(@), !.wait = Down(@)]
        BY <1>2 DEF Tick
    <2>3. worker'.entry = [worker.entry EXCEPT !.age = Older(@)] /\ worker'.pc = worker.pc
        BY <1>0, <2>2 DEF Worker
    <2>4. worker'.entry.req = worker.entry.req /\ worker'.entry.attempt = worker.entry.attempt
        BY <2>1, <2>3 DEF Entry
    <2> QED
        BY <1>0, <1>2, <2>1, <2>3, <2>4 DEF Entry, NoEntry
<1> QED
    BY <1>1, <1>2

\* Every step moves a token, drops it or makes one for a call that had none.
LEMMA TokensNext ==
    ASSUME Typed, Tokens, [Next]_vars
    PROVE  Tokens'
<1>0. /\ worker \in Worker /\ (worker.entry # NoEntry <=> worker.pc \in InHand)
      /\ heap \subseteq Entry /\ tasks \subseteq Task /\ backoff \subseteq Backing
      /\ sent \in [Requests -> Nat]
      /\ future \in [Requests -> [Attempts -> Statuses]]
      /\ Loop \notin Requests /\ 0 \in Attempts /\ Patience \in Nat
      /\ Attempts \subseteq Nat
    BY QueueAssumption DEF Typed, Attempts
<1>a. \A x \in heap \cup tasks \cup backoff :
         x.req \in Requests /\ x.attempt \in Attempts /\ x.attempt \in Nat /\ 0 <= x.attempt
    BY <1>0 DEF Entry, Task, Backing, Attempts
<1>b. worker.pc \in InHand => worker.entry \in Entry
    BY <1>0 DEF Worker
<1>1. ASSUME NEW r \in Requests, Submit(r) PROVE Tokens'
    <2>1. UNCHANGED <<tasks, backoff, sent>> /\ future[r][0] = "none"
        BY <1>1 DEF Submit, history
    <2>2. ASSUME NEW x \in heap \cup tasks \cup backoff PROVE x.req # r
        <3>1. Latest(x) /\ 0 <= x.attempt
            BY <1>a DEF Tokens, Frontier
        <3> QED
            BY <1>0, <1>a, <2>1, <3>1 DEF Latest
    <2>3. worker.entry.req # r
        <3>1. CASE worker.entry = NoEntry
            BY <1>0, <3>1 DEF NoEntry
        <3>2. CASE worker.entry # NoEntry
            <4>1. Latest(worker.entry) /\ worker.entry.attempt \in Nat
                BY <1>0, <1>b, <3>2 DEF Tokens, Frontier, Entry
            <4> QED
                BY <1>0, <2>1, <4>1 DEF Latest
        <3> QED
            BY <3>1, <3>2
    <2>4. PICK status \in {"pending", "raised", "refused"} : future' = [future EXCEPT ![r][0] = status]
        BY <1>1 DEF Submit
    <2>5. /\ \A q \in Requests \ {r}, k \in Attempts : future'[q][k] = future[q][k]
          /\ \A k \in Attempts : future'[r][k] # "none" <=> k = 0
          /\ \A k \in Attempts : future'[r][k] # "response"
        BY <1>0, <2>1, <2>4 DEF Tokens, Counted
    <2>6. worker'.entry = worker.entry
        BY <1>0, <1>1, EnsuredKeeps DEF Submit
    <2>7. \A x \in heap \cup tasks \cup backoff : Latest(x)'
        BY <1>a, <2>2, <2>5 DEF Tokens, Frontier, Latest
    <2>8. worker'.entry # NoEntry => Latest(worker.entry)'
        BY <1>0, <1>b, <2>3, <2>5, <2>6 DEF Tokens, Frontier, Latest, Entry
    <2>9. \A q \in Requests : future'[q][0] = "none" =>
             sent'[q] = 0 /\ \A k \in Attempts : future'[q][k] = "none"
        BY <1>0, <2>1, <2>5 DEF Tokens, Counted
    <2>10. \A q \in Requests, k \in Attempts : future'[q][k] = "response" => sent'[q] > 0
        BY <2>1, <2>5 DEF Tokens, Counted
    <2>11. CASE heap' = heap
        <3>1. Apart'
            BY <2>1, <2>6, <2>11 DEF Tokens, Apart
        <3>2. Frontier'
            BY <2>1, <2>7, <2>8, <2>11 DEF Frontier
        <3>3. Counted'
            BY <2>1, <2>6, <2>9, <2>10, <2>11 DEF Tokens, Counted
        <3> QED
            BY <3>1, <3>2, <3>3 DEF Tokens
    <2>12. CASE heap' = Enqueued(r, 0, Profile[r].prio)
        <3>0. PICK e : e = [req |-> r, attempt |-> 0, prio |-> Profile[r].prio, age |-> 0]
            OBVIOUS
        <3>1. heap' = heap \cup {e} /\ e.req = r /\ e.attempt = 0
            BY <2>12, <3>0 DEF Enqueued
        <3>2. Apart'
            BY <2>1, <2>2, <2>3, <2>6, <3>1 DEF Tokens, Apart
        <3>3. Latest(e)'
            <4>1. ASSUME NEW j \in Attempts PROVE j <= 0 <=> j = 0
                BY <1>0, <4>1
            <4> QED
                BY <2>5, <3>1, <4>1 DEF Latest
        <3>4. Frontier'
            BY <2>1, <2>7, <2>8, <3>1, <3>3 DEF Frontier
        <3>5. sent'[r] = 0
            BY <2>1 DEF Tokens, Counted
        <3>6. Counted'
            BY <2>1, <2>6, <2>9, <2>10, <3>1, <3>5 DEF Tokens, Counted
        <3> QED
            BY <3>2, <3>4, <3>6 DEF Tokens
    <2> QED
        BY <1>1, <2>11, <2>12 DEF Submit
<1>2. ASSUME NEW r \in Requests, CancelCaller(r) PROVE Tokens'
    <2>1. \A q \in Requests, k \in Attempts :
             /\ future'[q][k] = "none" <=> future[q][k] = "none"
             /\ future'[q][k] = "response" => future[q][k] = "response"
        BY <1>0, <1>2 DEF CancelCaller
    <2>2. UNCHANGED <<heap, worker, tasks, backoff, sent>>
        BY <1>2 DEF CancelCaller, history
    <2> QED
        BY <2>1, <2>2, TokensDropped
<1>3. CASE LoopTop
    <2>1. UNCHANGED <<tasks, backoff, sent>>
        BY <1>3 DEF LoopTop, history
    <2>2. \A q \in Requests, k \in Attempts :
             /\ future'[q][k] = "none" <=> future[q][k] = "none"
             /\ future'[q][k] = "response" => future[q][k] = "response"
        BY <1>0, <1>3 DEF LoopTop
    <2>3. CASE heap' = {} /\ worker' = Idle
        BY <2>1, <2>2, <2>3, TokensDropped DEF Idle
    <2>4. ASSUME NEW e \in Fresh, heap' = Fresh \ {e}, worker'.entry = e
          PROVE  Tokens'
        <3>1. e \in heap /\ heap' \subseteq heap \ {e} /\ e \in Entry
            BY <1>0, <2>4 DEF Fresh
        <3>2. Apart'
            BY <2>1, <2>4, <3>1 DEF Tokens, Apart
        <3>3. \A x \in heap \cup tasks \cup backoff : Latest(x)'
            BY <1>a, <2>2 DEF Tokens, Frontier, Latest
        <3>4. Frontier'
            BY <2>1, <2>4, <3>1, <3>3 DEF Frontier
        <3>5. Counted'
            BY <1>0, <2>1, <2>2, <2>4, <3>1 DEF Tokens, Counted
        <3> QED
            BY <3>2, <3>4, <3>5 DEF Tokens
    <2> QED
        BY <1>0, <1>3, <2>3, <2>4 DEF LoopTop, Worker
<1>4. CASE LoopAdmit
    <2>1. UNCHANGED <<heap, future, backoff, sent>> /\ worker.pc = "admit"
        BY <1>4 DEF LoopAdmit, history
    <2>2. CASE tasks' = tasks /\ worker'.entry \in {worker.entry, NoEntry}
        BY <2>1, <2>2, TokensDropped
    <2>3. CASE tasks' = tasks \cup {Spawned} /\ worker'.entry = NoEntry
        BY <2>1, <2>3, TokenSpawned DEF InHand
    <2>4. /\ [worker EXCEPT !.pc = "top", !.entry = NoEntry].entry = NoEntry
          /\ [worker EXCEPT !.pc = "permit"].entry = worker.entry
          /\ [worker EXCEPT !.pc = "sleep", !.wait = NextLook].entry = worker.entry
          /\ Idle.entry = NoEntry
        BY <1>0 DEF Worker, Idle
    <2> QED
        BY <1>4, <2>2, <2>3, <2>4 DEF LoopAdmit
<1>5. CASE LoopWake
    BY <1>0, <1>5, TokensDropped DEF LoopWake, history, Worker
<1>6. CASE LoopGranted
    BY <1>0, <1>6, TokenSpawned DEF LoopGranted, Worker, InHand, history
<1>c. ASSUME NEW t \in tasks, EndTask(t)
      PROVE  /\ tasks' = tasks \ {t} /\ worker'.entry = worker.entry
             /\ t.req \in Requests /\ t.attempt \in Attempts
    <2>1. WorkerAfterRelease \in Worker /\ WorkerAfterRelease.entry = worker.entry
        BY <1>0 DEF WorkerAfterRelease, Worker, InHand
    <2>2. Ensured(WorkerAfterRelease).entry = WorkerAfterRelease.entry
        BY <2>1 DEF Ensured, Worker
    <2> QED
        BY <1>a, <1>c, <2>1, <2>2 DEF EndTask
<1>7. ASSUME NEW t \in tasks, TaskStart(t) PROVE Tokens'
    <2>1. CASE /\ tasks' = (tasks \ {t}) \cup
                     {[t EXCEPT !.pc = "sending", !.age = 0,
                         !.via = IF Profile[t.req].own /\ t.attempt = 0 THEN "own" ELSE "shared"]}
               /\ sent' = [sent EXCEPT ![t.req] = @ + 1]
               /\ UNCHANGED <<future, worker, heap, backoff>>
        <3> DEFINE u == [t EXCEPT !.pc = "sending", !.age = 0,
                           !.via = IF Profile[t.req].own /\ t.attempt = 0 THEN "own" ELSE "shared"]
        <3>1. t \in Task /\ t.pc = "spawned" /\ t.req \in Requests /\ t.attempt \in Nat
            BY <1>0, <1>7, <1>a DEF TaskStart
        <3>2. u.req = t.req /\ u.attempt = t.attempt /\ u.pc = "sending"
            BY <3>1 DEF Task
        <3>3. tasks' = (tasks \ {t}) \cup {u}
            BY <2>1
        <3> HIDE DEF u
        <3>4. Apart'
            BY <2>1, <3>2, <3>3 DEF Tokens, Apart
        <3>5. Latest(u)'
            BY <2>1, <3>2 DEF Tokens, Frontier, Latest
        <3>6. Frontier'
            BY <2>1, <3>3, <3>5 DEF Tokens, Frontier, Latest
        <3>7. sent'[t.req] = sent[t.req] + 1 /\ \A q \in Requests \ {t.req} : sent'[q] = sent[q]
            BY <1>0, <2>1, <3>1
        <3>8. sent[t.req] \in 0 .. t.attempt
            BY <1>0, <3>1 DEF Tokens, Counted
        <3>9. \A x \in heap \cup backoff \cup (tasks \ {t}) : sent'[x.req] = sent[x.req]
            BY <1>a, <3>7 DEF Tokens, Apart
        <3>10. worker.entry # NoEntry => sent'[worker.entry.req] = sent[worker.entry.req]
            BY <1>0, <1>b, <3>7 DEF Tokens, Apart, Entry
        <3>11. future[t.req][0] # "none"
            <4>1. 0 <= t.attempt /\ Latest(t)
                BY <3>1 DEF Tokens, Frontier
            <4> QED
                BY <1>0, <4>1 DEF Latest
        <3>12. sent'[u.req] \in 1 .. u.attempt + 1
            BY <3>1, <3>2, <3>7, <3>8
        <3>13. Counted'
            BY <2>1, <3>2, <3>3, <3>7, <3>9, <3>10, <3>11, <3>12, <1>0 DEF Tokens, Counted
        <3> QED
            BY <3>4, <3>6, <3>13 DEF Tokens
    <2>2. CASE EndTask(t) /\ future' = Settled(future, t.req, t.attempt, "raised")
               /\ UNCHANGED <<sent, heap, backoff>>
        <3>1. "raised" \in Statuses \ {"none"}
            BY DEF Statuses
        <3> QED
            BY <1>c, <2>2, <3>1, SettledNones, TokensDropped
    <2> QED
        BY <1>7, <2>1, <2>2 DEF TaskStart
<1>8. ASSUME NEW t \in tasks, TaskOk(t) PROVE Tokens'
    <2>1. UNCHANGED <<heap, backoff, sent>> /\ t.pc = "sending"
        BY <1>8 DEF TaskOk, history
    <2>2. /\ tasks' = tasks \ {t} /\ worker'.entry = worker.entry
          /\ t.req \in Requests /\ t.attempt \in Attempts
        BY <1>8, <1>c DEF TaskOk
    <2>3. PICK status \in {"response", "raised"} : future' = Settled(future, t.req, t.attempt, status)
        BY <1>8 DEF TaskOk
    <2>4. status \in Statuses \ {"none"}
        BY DEF Statuses
    <2>5. sent[t.req] > 0
        BY <1>0, <2>1, <2>2 DEF Tokens, Counted
    <2> QED
        BY <2>1, <2>2, <2>3, <2>4, <2>5, SettledNones, TokensDropped
<1>9. ASSUME NEW t \in tasks, NEW e \in Failures, TaskError(t, e) PROVE Tokens'
    <2>1. UNCHANGED <<heap, sent>> /\ t.pc = "sending"
        BY <1>9 DEF TaskError, history
    <2>2. /\ tasks' = tasks \ {t} /\ worker'.entry = worker.entry
          /\ t.req \in Requests /\ t.attempt \in Attempts
        BY <1>9, <1>c DEF TaskError
    <2>3. ASSUME backoff' = backoff, NEW status \in {"error", "raised"},
                 future' = Settled(future, t.req, t.attempt, status)
          PROVE  Tokens'
        <3>1. status \in Statuses \ {"none", "response"}
            BY DEF Statuses
        <3> QED
            BY <2>1, <2>2, <2>3, <3>1, SettledNones, TokensDropped
    <2>4. ASSUME NEW d, backoff' = backoff \cup {[req |-> t.req, attempt |-> t.attempt, wait |-> d]},
                 future' = future
          PROVE  Tokens'
        <3> DEFINE b == [req |-> t.req, attempt |-> t.attempt, wait |-> d]
        <3>1. b.req = t.req /\ b.attempt = t.attempt /\ backoff' = backoff \cup {b}
            BY <2>4
        <3> HIDE DEF b
        <3>2. Apart'
            BY <2>1, <2>2, <3>1 DEF Tokens, Apart
        <3>3. Latest(b)'
            BY <2>4, <3>1 DEF Tokens, Frontier, Latest
        <3>4. Frontier'
            BY <2>1, <2>2, <2>4, <3>1, <3>3 DEF Tokens, Frontier, Latest
        <3>5. sent[b.req] \in 1 .. b.attempt + 1
            BY <2>1, <3>1 DEF Tokens, Counted
        <3>6. Counted'
            BY <2>1, <2>2, <2>4, <3>1, <3>5 DEF Tokens, Counted
        <3> QED
            BY <3>2, <3>4, <3>6 DEF Tokens
    <2> QED
        BY <1>9, <2>3, <2>4 DEF TaskError
<1>10. ASSUME NEW b \in backoff, Requeue(b) PROVE Tokens'
    <2>1. UNCHANGED <<tasks, sent>> /\ backoff' = backoff \ {b}
        BY <1>10 DEF Requeue, history
    <2>2. b.req \in Requests /\ b.attempt \in Attempts /\ b.attempt + 1 \in Attempts
        BY <1>0 DEF Backing, Attempts
    <2>3. CASE future' = Settled(future, b.req, b.attempt, "refused") /\ UNCHANGED <<heap, worker>>
        <3>1. "refused" \in Statuses \ {"none"}
            BY DEF Statuses
        <3> QED
            BY <2>1, <2>2, <2>3, <3>1, SettledNones, TokensDropped
    <2>4. CASE /\ heap' = Enqueued(b.req, b.attempt + 1, PRIORITY_RETRY)
               /\ future' = [future EXCEPT ![b.req][b.attempt + 1] = "pending"]
               /\ worker' = Ensured(worker)
        <3>0. PICK e : e = [req |-> b.req, attempt |-> b.attempt + 1, prio |-> PRIORITY_RETRY, age |-> 0]
            OBVIOUS
        <3>1. heap' = heap \cup {e} /\ e.req = b.req /\ e.attempt = b.attempt + 1
            BY <2>4, <3>0 DEF Enqueued
        <3>2. worker'.entry = worker.entry
            BY <1>0, <2>4, EnsuredKeeps
        <3>3. Apart'
            BY <2>1, <3>1, <3>2 DEF Tokens, Apart
        <3>4. /\ \A q \in Requests \ {b.req}, k \in Attempts : future'[q][k] = future[q][k]
              /\ \A k \in Attempts :
                    future'[b.req][k] = IF k = b.attempt + 1 THEN "pending" ELSE future[b.req][k]
            BY <1>0, <2>2, <2>4
        <3>5. Latest(e)'
            <4>1. ASSUME NEW j \in Attempts
                  PROVE  j <= b.attempt + 1 <=> j <= b.attempt \/ j = b.attempt + 1
                BY <1>0, <1>a, <4>1
            <4>2. \A j \in Attempts : j <= b.attempt <=> future[b.req][j] # "none"
                BY DEF Tokens, Frontier, Latest
            <4> QED
                BY <3>1, <3>4, <4>1, <4>2 DEF Latest
        <3>6. \A x \in heap \cup tasks \cup backoff' : x.req # b.req
            BY <2>1 DEF Tokens, Apart
        <3>7. \A x \in heap \cup tasks \cup backoff' : Latest(x)'
            <4>1. ASSUME NEW x \in heap \cup tasks \cup backoff' PROVE Latest(x)'
                <5>1. x \in heap \cup tasks \cup backoff /\ x.req \in Requests \ {b.req}
                    BY <1>a, <2>1, <3>6
                <5>2. Latest(x)
                    BY <5>1 DEF Tokens, Frontier
                <5> QED
                    BY <3>4, <5>1, <5>2 DEF Latest
            <4> QED
                BY <4>1
        <3>8. worker'.entry # NoEntry => Latest(worker.entry)'
            <4>1. CASE worker.entry = NoEntry
                BY <3>2, <4>1
            <4>2. CASE worker.entry # NoEntry
                <5>1. worker.entry.req \in Requests \ {b.req}
                    BY <1>0, <1>b, <4>2 DEF Tokens, Apart, Entry
                <5>2. Latest(worker.entry)
                    BY <4>2 DEF Tokens, Frontier
                <5> QED
                    BY <3>2, <3>4, <5>1, <5>2 DEF Latest
            <4> QED
                BY <4>1, <4>2
        <3>9. Frontier'
            BY <2>1, <3>1, <3>5, <3>7, <3>8 DEF Frontier
        <3>10. sent[b.req] <= b.attempt + 1
            BY <1>0, <2>2 DEF Tokens, Counted
        <3>11. future[b.req][0] # "none"
            <4>1. 0 <= b.attempt /\ Latest(b)
                BY <1>a DEF Tokens, Frontier
            <4> QED
                BY <1>0, <4>1 DEF Latest
        <3>12. \A q \in Requests : future'[q][0] = "none" =>
                  sent'[q] = 0 /\ \A k \in Attempts : future'[q][k] = "none"
            BY <1>0, <2>1, <2>2, <3>4, <3>11 DEF Tokens, Counted
        <3>13. \A q \in Requests, k \in Attempts : future'[q][k] = "response" => sent'[q] > 0
            BY <2>1, <3>4 DEF Tokens, Counted
        <3>14. Counted'
            BY <2>1, <3>1, <3>2, <3>10, <3>12, <3>13 DEF Tokens, Counted
        <3> QED
            BY <3>3, <3>9, <3>14 DEF Tokens
    <2> QED
        BY <1>10, <2>3, <2>4 DEF Requeue
<1>11. ASSUME NEW r \in Requests, NEW k \in Attempts, Forward(r, k) PROVE Tokens'
    <2>1. k - 1 \in Attempts /\ future[r][k] \in Statuses \ {"none"}
        BY <1>0, <1>11 DEF Forward, Attempts, Done
    <2>2. future' = Settled(future, r, k - 1, future[r][k])
          /\ UNCHANGED <<heap, worker, tasks, backoff, sent>>
        BY <1>11 DEF Forward, history
    <2>3. future[r][k] = "response" => sent[r] > 0
        BY DEF Tokens, Counted
    <2> QED
        BY <2>1, <2>2, <2>3, SettledNones, TokensDropped
<1>12. ASSUME NEW s \in Streams, StreamAsk(s) \/ StreamGranted(s) \/ CancelStream(s) PROVE Tokens'
    BY <1>12, TokensDropped DEF StreamAsk, StreamGranted, CancelStream, history
<1>14. ASSUME NEW s \in Streams, StreamEnd(s) PROVE Tokens'
    <2>1. UNCHANGED <<heap, future, tasks, backoff, sent>> /\ worker' = WorkerAfterRelease
        BY <1>14 DEF StreamEnd, history
    <2>2. worker'.entry = worker.entry
        BY <1>0, <2>1 DEF WorkerAfterRelease, Worker
    <2> QED
        BY <2>1, <2>2, TokensDropped
<1>16. CASE Tick
    <2>1. UNCHANGED <<future, sent>>
        BY <1>16 DEF Tick
    <2>2. \A x \in heap' : \E y \in heap : x = [y EXCEPT !.age = Older(@)]
        BY <1>16 DEF Tick
    <2>3. \A x \in tasks' : \E y \in tasks : x = [y EXCEPT !.ran = IF y.pc = "sending"
                 THEN Lesser(@ + 1, Policy.totalTimeout) ELSE 0]
        BY <1>16 DEF Tick
    <2>4. \A x \in backoff' : \E y \in backoff : x = [y EXCEPT !.wait = Down(@)]
        BY <1>16 DEF Tick
    <2>5. /\ worker'.entry.req = worker.entry.req /\ worker'.entry.attempt = worker.entry.attempt
          /\ worker'.entry # NoEntry <=> worker.entry # NoEntry
        BY <1>16, TickAges
    <2>a. \A x \in heap' : \E y \in heap : x = [y EXCEPT !.age = Older(@)] /\ x.req = y.req /\ x.attempt = y.attempt
        BY <1>0, <2>2 DEF Entry
    <2>b. \A x \in tasks' : \E y \in tasks : /\ x = [y EXCEPT !.ran = IF y.pc = "sending"
                                                     THEN Lesser(@ + 1, Policy.totalTimeout) ELSE 0]
                                            /\ x.req = y.req /\ x.attempt = y.attempt /\ x.pc = y.pc
        BY <1>0, <2>3 DEF Task
    <2>c. \A x \in backoff' : \E y \in backoff : x = [y EXCEPT !.wait = Down(@)] /\ x.req = y.req /\ x.attempt = y.attempt
        BY <1>0, <2>4 DEF Backing
    <2>6. Apart'
        <3>1. /\ \A x, y \in heap' : x.req = y.req => x = y
              /\ \A x, y \in tasks' : x.req = y.req => x = y
              /\ \A x, y \in backoff' : x.req = y.req => x = y
            BY <2>a, <2>b, <2>c DEF Tokens, Apart
        <3>2. /\ \A x \in heap' : /\ x.req # worker'.entry.req
                                  /\ \A t \in tasks' : x.req # t.req
                                  /\ \A b \in backoff' : x.req # b.req
              /\ \A t \in tasks' : t.req # worker'.entry.req /\ \A b \in backoff' : t.req # b.req
              /\ \A b \in backoff' : b.req # worker'.entry.req
            BY <2>a, <2>b, <2>c, <2>5 DEF Tokens, Apart
        <3> QED
            BY <3>1, <3>2 DEF Apart
    <2>7. Frontier'
        BY <2>1, <2>a, <2>b, <2>c, <2>5 DEF Tokens, Frontier, Latest
    <2>8. Counted'
        BY <2>1, <2>a, <2>b, <2>c, <2>5 DEF Tokens, Counted
    <2> QED
        BY <2>6, <2>7, <2>8 DEF Tokens
<1>17. CASE UNCHANGED vars
    BY <1>17, TokensDropped DEF vars, history
<1> QED
    BY <1>1, <1>2, <1>3, <1>4, <1>5, <1>6, <1>7, <1>8, <1>9, <1>10, <1>11, <1>12, <1>14,
       <1>16, <1>17 DEF Next

-----------------------------------------------------------------------------
(* Permits.                                                                  *)

\* The streams and the worker that hold a permit, and the permits nobody holds.
StreamingOf(st) == {s \in Streams : st[s].pc \in {"open", "granted"}}
WorkerHolds == IF worker.pc = "granted" THEN 1 ELSE 0
Slack == current - (Cardinality(tasks) + Cardinality(StreamingOf(stream)) + WorkerHolds)

\* No handler raises and no stream is cancelled with the permit in hand.
Gentle == ~HooksRaise /\ "granted" \notin Cancels

\* Slack is the permits that nobody holds.
LEMMA SlackIs ==
    ASSUME Typed
    PROVE  Slack = current - Held /\ Held \in Nat
<1>1. IsFiniteSet(tasks) /\ Cardinality(tasks) \in Nat
    BY FS_CardinalityType DEF Typed
<1>2. IsFiniteSet(StreamingOf(stream)) /\ Cardinality(StreamingOf(stream)) \in Nat
    BY FS_CardinalityType, FS_Subset, QueueAssumption DEF StreamingOf
<1>3. Cardinality({l \in {Loop} : worker.pc = "granted"}) = WorkerHolds
    <2>1. CASE worker.pc = "granted"
        <3>1. {l \in {Loop} : worker.pc = "granted"} = {Loop}
            BY <2>1
        <3> QED
            BY <2>1, <3>1, FS_Singleton DEF WorkerHolds
    <2>2. CASE worker.pc # "granted"
        <3>1. {l \in {Loop} : worker.pc = "granted"} = {}
            BY <2>2
        <3> QED
            BY <2>2, <3>1, FS_EmptySet DEF WorkerHolds
    <2> QED
        BY <2>1, <2>2
<1> QED
    BY <1>1, <1>2, <1>3 DEF Slack, Held, StreamingOf, Typed, WorkerHolds

\* One stream moves: it comes to hold a permit, or no longer does.
LEMMA OneStream ==
    ASSUME NEW f, NEW g, NEW s \in Streams, \A x \in Streams \ {s} : g[x].pc = f[x].pc
    PROVE  /\ Cardinality(StreamingOf(f)) \in Nat /\ Cardinality(StreamingOf(g)) \in Nat
           /\ s \in StreamingOf(f) /\ s \notin StreamingOf(g) =>
                 Cardinality(StreamingOf(g)) = Cardinality(StreamingOf(f)) - 1
           /\ s \notin StreamingOf(f) /\ s \in StreamingOf(g) =>
                 Cardinality(StreamingOf(g)) = Cardinality(StreamingOf(f)) + 1
           /\ (s \in StreamingOf(f) <=> s \in StreamingOf(g)) => StreamingOf(g) = StreamingOf(f)
<1>1. IsFiniteSet(StreamingOf(f)) /\ IsFiniteSet(StreamingOf(g))
    BY FS_Subset, QueueAssumption DEF StreamingOf
<1>2. Cardinality(StreamingOf(f)) \in Nat /\ Cardinality(StreamingOf(g)) \in Nat
    BY <1>1, FS_CardinalityType
<1>3. CASE s \in StreamingOf(f) /\ s \notin StreamingOf(g)
    <2>1. StreamingOf(g) = StreamingOf(f) \ {s}
        BY <1>3 DEF StreamingOf
    <2> QED
        BY <1>1, <1>2, <1>3, <2>1, FS_RemoveElement
<1>4. CASE s \notin StreamingOf(f) /\ s \in StreamingOf(g)
    <2>1. StreamingOf(g) = StreamingOf(f) \cup {s}
        BY <1>4 DEF StreamingOf
    <2> QED
        BY <1>1, <1>2, <1>4, <2>1, FS_AddElement
<1>5. CASE s \in StreamingOf(f) <=> s \in StreamingOf(g)
    BY <1>2, <1>5 DEF StreamingOf
<1> QED
    BY <1>2, <1>3, <1>4, <1>5

\* A release takes a permit back or hands it on.
LEMMA HandedOn ==
    ASSUME Typed, Lines, Release,
           NEW st \in [Streams -> Stream],
           \A s \in Streams : st[s].pc = "permit" <=> stream[s].pc = "permit",
           worker' \in {WorkerAfterRelease, Ensured(WorkerAfterRelease)},
           stream' = StreamAfterRelease(st)
    PROVE  current' - (Cardinality(StreamingOf(stream')) + WorkerHolds')
             = current - (Cardinality(StreamingOf(st)) + WorkerHolds) - 1
<1>1. /\ worker \in Worker /\ current \in Int /\ Loop \notin Streams
      /\ worker.entry # NoEntry <=> worker.pc \in InHand
      /\ waiters \in Seq(Streams \cup {Loop}) /\ Len(waiters) \in Nat
      /\ IsFiniteSet(StreamingOf(st)) /\ Cardinality(StreamingOf(st)) \in Nat
    BY FS_CardinalityType, FS_Subset, QueueAssumption DEF Typed, StreamingOf
<1>2. CASE Len(waiters) = 0
    <2>1. NextInLine = {} /\ current' = current - 1
        BY <1>2, ReleaseCases
    <2>2. stream' = st
        BY <2>1 DEF StreamAfterRelease
    <2>3. WorkerHolds' = WorkerHolds
        BY <1>1, <2>1, EnsuredKeeps DEF WorkerAfterRelease, InHand, WorkerHolds
    <2> QED
        BY <1>1, <2>1, <2>2, <2>3 DEF WorkerHolds
<1>3. CASE Len(waiters) > 0 /\ waiters[1] = Loop
    <2>1. NextInLine = {Loop} /\ current' = current
        BY <1>3, ReleaseCases
    <2>2. StreamAfterRelease(st) = st
        BY <1>1, <2>1 DEF StreamAfterRelease
    <2>3. worker.pc = "permit"
        BY <1>1, <1>3 DEF Lines
    <2>4. WorkerAfterRelease.pc = "granted"
        BY <1>1, <2>1 DEF WorkerAfterRelease, Worker
    <2>5. worker'.pc = "granted"
        BY <2>4 DEF Ensured
    <2> QED
        BY <1>1, <2>1, <2>2, <2>3, <2>5 DEF WorkerHolds
<1>4. CASE Len(waiters) > 0 /\ waiters[1] \in Streams
    <2> DEFINE s == waiters[1]
    <2>1. NextInLine = {s} /\ current' = current /\ s # Loop
        BY <1>1, <1>4, ReleaseCases
    <2>2. WorkerHolds' = WorkerHolds
        BY <1>1, <2>1, EnsuredKeeps DEF WorkerAfterRelease, InHand, WorkerHolds
    <2>3. st[s].pc = "permit"
        BY <1>1, <1>4 DEF Lines
    <2>4. /\ stream'[s].pc = "granted"
          /\ \A x \in Streams \ {s} : stream'[x] = st[x]
        BY <1>4, <2>1 DEF StreamAfterRelease, Stream
    <2>5. Cardinality(StreamingOf(stream')) = Cardinality(StreamingOf(st)) + 1
        <3>1. s \notin StreamingOf(st) /\ s \in StreamingOf(stream')
            BY <1>4, <2>3, <2>4 DEF StreamingOf
        <3> HIDE DEF s
        <3> QED
            BY <1>4, <2>4, <3>1, OneStream DEF s
    <2> QED
        BY <1>1, <2>1, <2>2, <2>5 DEF WorkerHolds
<1> QED
    BY <1>1, <1>2, <1>3, <1>4

\* A step may lose a permit, and invents none; and where no handler raises and
\* no stream is cancelled with the permit in hand, it loses none.
LEMMA SlackNext ==
    ASSUME Typed, Lines, Tokens, [Next]_vars
    PROVE  Slack' >= Slack /\ (Gentle => Slack' = Slack)
<1>0. /\ worker \in Worker /\ (worker.entry # NoEntry <=> worker.pc \in InHand)
      /\ tasks \subseteq Task /\ IsFiniteSet(tasks) /\ Cardinality(tasks) \in Nat
      /\ Cardinality(StreamingOf(stream)) \in Nat /\ WorkerHolds \in Nat
      /\ current \in Int /\ stream \in [Streams -> Stream]
    BY FS_CardinalityType, FS_Subset, QueueAssumption DEF Typed, StreamingOf, WorkerHolds
<1>b. /\ Cardinality(StreamingOf(stream')) \in Int /\ WorkerHolds' \in Int /\ current' \in Int
    BY TypedNext, FS_CardinalityType, FS_Subset, QueueAssumption DEF Typed, StreamingOf, WorkerHolds
<1>a. ASSUME NEW t \in tasks, EndTask(t) PROVE Slack' = Slack
    <2>1. /\ Release /\ worker' = Ensured(WorkerAfterRelease) /\ tasks' = tasks \ {t}
          /\ stream' = StreamAfterRelease(stream)
        BY <1>a DEF EndTask
    <2>2. Cardinality(tasks') = Cardinality(tasks) - 1
        BY <1>0, <2>1, FS_RemoveElement
    <2>3. current' - (Cardinality(StreamingOf(stream')) + WorkerHolds')
             = current - (Cardinality(StreamingOf(stream)) + WorkerHolds) - 1
        BY <1>0, <2>1, HandedOn
    <2> QED
        BY <1>0, <1>b, <2>2, <2>3 DEF Slack
<1>c. ASSUME UNCHANGED <<tasks, current>>, WorkerHolds' = WorkerHolds,
             StreamingOf(stream') = StreamingOf(stream)
      PROVE  Slack' = Slack
    BY <1>c DEF Slack
<1>d. ASSUME worker.pc \in InHand, tasks' = tasks \cup {Spawned}
      PROVE  Cardinality(tasks') = Cardinality(tasks) + 1
    <2>1. Spawned \notin tasks
        BY <1>0, <1>d DEF Tokens, Apart, Spawned
    <2> QED
        BY <1>0, <1>d, <2>1, FS_AddElement
<1>e. Slack \in Int
    BY <1>0 DEF Slack
<1>1. ASSUME NEW r \in Requests, Submit(r) PROVE Slack' = Slack
    <2>1. worker' \in {worker, Ensured(worker)} /\ UNCHANGED <<tasks, current, stream>>
        BY <1>1 DEF Submit
    <2>2. WorkerHolds' = WorkerHolds
        BY <1>0, <2>1, EnsuredKeeps DEF WorkerHolds, InHand
    <2> QED
        BY <1>c, <2>1, <2>2
<1>2. ASSUME NEW r \in Requests, CancelCaller(r) PROVE Slack' = Slack
    BY <1>2, <1>c DEF CancelCaller, WorkerHolds
<1>3. CASE LoopTop
    <2>1. worker.pc # "granted" /\ UNCHANGED <<tasks, current, stream>>
        BY <1>3 DEF LoopTop
    <2>2. Idle.pc # "granted" /\ \A e \in Fresh : [worker EXCEPT !.pc = "admit", !.entry = e].pc # "granted"
        BY <1>0 DEF Idle, Worker
    <2>3. worker'.pc # "granted"
        BY <1>3, <2>2 DEF LoopTop
    <2>4. WorkerHolds' = WorkerHolds
        BY <2>1, <2>3 DEF WorkerHolds
    <2> QED
        BY <1>c, <1>e, <2>1, <2>4
<1>4. CASE LoopAdmit
    <2>1. worker.pc = "admit" /\ UNCHANGED stream
        BY <1>4 DEF LoopAdmit
    <2>2. CASE /\ tasks' = tasks \cup {Spawned} /\ current' = current + 1
               /\ worker' = [worker EXCEPT !.pc = "top", !.entry = NoEntry]
        <3>1. WorkerHolds = 0 /\ WorkerHolds' = 0
            BY <1>0, <2>1, <2>2 DEF WorkerHolds, Worker
        <3>2. Cardinality(tasks') = Cardinality(tasks) + 1
            BY <1>d, <2>1, <2>2 DEF InHand
        <3> QED
            BY <1>0, <2>1, <2>2, <3>1, <3>2 DEF Slack
    <2>3. CASE UNCHANGED <<tasks, current>> /\ worker'.pc # "granted"
        <3>1. WorkerHolds' = WorkerHolds
            BY <2>1, <2>3 DEF WorkerHolds
        <3> QED
            BY <1>c, <1>e, <2>1, <2>3, <3>1
    <2>4. /\ [worker EXCEPT !.pc = "permit"].pc # "granted"
          /\ [worker EXCEPT !.pc = "sleep", !.wait = NextLook].pc # "granted"
          /\ Idle.pc # "granted"
        BY <1>0 DEF Worker, Idle
    <2> QED
        BY <1>4, <2>2, <2>3, <2>4 DEF LoopAdmit
<1>5. CASE LoopWake
    <2>1. worker.pc # "granted" /\ worker'.pc # "granted" /\ UNCHANGED <<tasks, current, stream>>
        BY <1>0, <1>5 DEF LoopWake, Worker
    <2>2. WorkerHolds' = WorkerHolds
        BY <2>1 DEF WorkerHolds
    <2> QED
        BY <1>c, <1>e, <2>1, <2>2
<1>6. CASE LoopGranted
    <2>1. /\ worker.pc = "granted" /\ UNCHANGED <<stream, current>> /\ tasks' = tasks \cup {Spawned}
          /\ worker'.pc = "top"
        BY <1>0, <1>6 DEF LoopGranted, Worker
    <2>2. Cardinality(tasks') = Cardinality(tasks) + 1
        BY <1>d, <2>1 DEF InHand
    <2> QED
        BY <1>0, <2>1, <2>2 DEF Slack, WorkerHolds
<1>7. ASSUME NEW t \in tasks, TaskStart(t) PROVE Slack' = Slack
    <2>1. CASE /\ tasks' = (tasks \ {t}) \cup
                     {[t EXCEPT !.pc = "sending", !.age = 0,
                         !.via = IF Profile[t.req].own /\ t.attempt = 0 THEN "own" ELSE "shared"]}
               /\ UNCHANGED <<worker, current, stream>>
        <3> DEFINE u == [t EXCEPT !.pc = "sending", !.age = 0,
                           !.via = IF Profile[t.req].own /\ t.attempt = 0 THEN "own" ELSE "shared"]
        <3>1. u.req = t.req
            BY <1>0 DEF Task
        <3>2. tasks' = (tasks \ {t}) \cup {u}
            BY <2>1
        <3> HIDE DEF u
        <3>3. u \notin tasks \ {t}
            BY <3>1 DEF Tokens, Apart
        <3>4. IsFiniteSet(tasks \ {t}) /\ Cardinality(tasks \ {t}) = Cardinality(tasks) - 1
            BY <1>0, FS_RemoveElement
        <3>5. Cardinality(tasks') = Cardinality(tasks)
            <4>1. Cardinality(tasks') = Cardinality(tasks \ {t}) + 1
                BY <3>2, <3>3, <3>4, FS_AddElement
            <4> QED
                BY <1>0, <3>4, <4>1
        <3> QED
            BY <2>1, <3>5 DEF Slack, WorkerHolds
    <2> QED
        BY <1>7, <1>a, <2>1 DEF TaskStart
<1>8. ASSUME NEW t \in tasks, TaskOk(t) PROVE Slack' = Slack
    BY <1>8, <1>a DEF TaskOk
<1>9. ASSUME NEW t \in tasks, NEW e \in Failures, TaskError(t, e) PROVE Slack' = Slack
    BY <1>9, <1>a DEF TaskError
<1>10. ASSUME NEW b \in backoff, Requeue(b) PROVE Slack' = Slack
    <2>1. worker' \in {worker, Ensured(worker)} /\ UNCHANGED <<tasks, current, stream>>
        BY <1>10 DEF Requeue
    <2>2. WorkerHolds' = WorkerHolds
        BY <1>0, <2>1, EnsuredKeeps DEF WorkerHolds, InHand
    <2> QED
        BY <1>c, <2>1, <2>2
<1>11. ASSUME NEW r \in Requests, NEW k \in Attempts, Forward(r, k) PROVE Slack' = Slack
    BY <1>11, <1>c DEF Forward, WorkerHolds
<1>12. ASSUME NEW s \in Streams, StreamAsk(s) PROVE Slack' >= Slack /\ (Gentle => Slack' = Slack)
    <2>1. UNCHANGED <<worker, tasks>> /\ s \notin StreamingOf(stream)
        BY <1>12 DEF StreamAsk, StreamingOf
    <2>2. WorkerHolds' = WorkerHolds
        BY <2>1 DEF WorkerHolds
    <2>3. CASE current' = current + 1 /\ Opens(s)
        <3>1. CASE stream' = SetStream(s, "open", 0)
            <4>1. Cardinality(StreamingOf(stream')) = Cardinality(StreamingOf(stream)) + 1
                <5>1. \A x \in Streams \ {s} : stream'[x].pc = stream[x].pc
                    BY <1>0, <3>1 DEF SetStream
                <5>2. s \in StreamingOf(stream')
                    BY <1>0, <3>1 DEF SetStream, StreamingOf
                <5> QED
                    BY <2>1, <5>1, <5>2, OneStream
            <4> QED
                BY <1>0, <2>1, <2>2, <2>3, <4>1 DEF Slack
        <3>2. CASE HooksRaise /\ stream' = SetStream(s, "closed", 0)
            <4>1. StreamingOf(stream') = StreamingOf(stream)
                BY <1>0, <2>1, <3>2 DEF SetStream, StreamingOf
            <4> QED
                BY <1>0, <2>1, <2>2, <2>3, <3>2, <4>1 DEF Slack, Gentle
        <3> QED
            BY <2>3, <3>1, <3>2 DEF Opens
    <2>4. CASE current' = current /\ \E p \in {"permit", "sleep", "closed"}, n \in Nat : stream' = SetStream(s, p, n)
        <3>1. StreamingOf(stream') = StreamingOf(stream)
            BY <1>0, <2>1, <2>4 DEF SetStream, StreamingOf
        <3> QED
            BY <1>c, <1>e, <2>1, <2>2, <2>4, <3>1
    <2> QED
        BY <1>12, <2>3, <2>4, BucketSteps DEF StreamAsk, Typed
<1>13. ASSUME NEW s \in Streams, StreamGranted(s) PROVE Slack' >= Slack /\ (Gentle => Slack' = Slack)
    <2>1. UNCHANGED <<worker, tasks, current>> /\ s \in StreamingOf(stream)
        BY <1>13 DEF StreamGranted, StreamingOf
    <2>2. WorkerHolds' = WorkerHolds
        BY <2>1 DEF WorkerHolds
    <2>3. CASE stream' = SetStream(s, "open", 0)
        <3>1. StreamingOf(stream') = StreamingOf(stream)
            BY <1>0, <2>1, <2>3 DEF SetStream, StreamingOf
        <3> QED
            BY <1>c, <1>e, <2>1, <2>2, <3>1
    <2>4. CASE HooksRaise /\ stream' = SetStream(s, "closed", 0)
        <3>1. \A x \in Streams \ {s} : stream'[x].pc = stream[x].pc
            BY <1>0, <2>4 DEF SetStream
        <3>2. s \notin StreamingOf(stream')
            BY <1>0, <2>4 DEF SetStream, StreamingOf
        <3>3. Cardinality(StreamingOf(stream')) = Cardinality(StreamingOf(stream)) - 1
            BY <2>1, <3>1, <3>2, OneStream
        <3> QED
            BY <1>0, <2>1, <2>2, <2>4, <3>3 DEF Slack, Gentle
    <2> QED
        BY <1>13, <2>3, <2>4 DEF StreamGranted, Opens
<1>14. ASSUME NEW s \in Streams, StreamEnd(s) PROVE Slack' = Slack
    <2> DEFINE st == SetStream(s, "closed", 0)
    <2>1. /\ Release /\ worker' = WorkerAfterRelease /\ stream' = StreamAfterRelease(st)
          /\ UNCHANGED tasks /\ stream[s].pc = "open"
        BY <1>14 DEF StreamEnd
    <2>2. /\ st \in [Streams -> Stream]
          /\ \A x \in Streams : st[x].pc = "permit" <=> stream[x].pc = "permit"
          /\ \A x \in Streams \ {s} : st[x].pc = stream[x].pc
          /\ s \in StreamingOf(stream) /\ s \notin StreamingOf(st)
        BY <1>0, <2>1 DEF SetStream, Stream, StreamingOf
    <2> HIDE DEF st
    <2>3. Cardinality(StreamingOf(st)) = Cardinality(StreamingOf(stream)) - 1
        BY <2>2, OneStream
    <2>4. current' - (Cardinality(StreamingOf(stream')) + WorkerHolds')
             = current - (Cardinality(StreamingOf(st)) + WorkerHolds) - 1
        BY <2>1, <2>2, HandedOn
    <2> QED
        BY <1>0, <1>b, <2>1, <2>3, <2>4 DEF Slack
<1>15. ASSUME NEW s \in Streams, CancelStream(s) PROVE Slack' >= Slack /\ (Gentle => Slack' = Slack)
    <2>1. UNCHANGED <<worker, tasks, current>> /\ stream' = SetStream(s, "closed", 0)
        BY <1>15 DEF CancelStream
    <2>2. WorkerHolds' = WorkerHolds
        BY <2>1 DEF WorkerHolds
    <2>3. /\ \A x \in Streams \ {s} : stream'[x].pc = stream[x].pc
          /\ s \notin StreamingOf(stream')
        BY <1>0, <2>1 DEF SetStream, StreamingOf
    <2>4. CASE stream[s].pc \in {"sleep", "permit"}
        <3>1. StreamingOf(stream') = StreamingOf(stream)
            BY <2>3, <2>4 DEF StreamingOf
        <3> QED
            BY <1>c, <1>e, <2>1, <2>2, <3>1
    <2>5. CASE "granted" \in Cancels /\ stream[s].pc = "granted"
        <3>1. s \in StreamingOf(stream)
            BY <2>5 DEF StreamingOf
        <3>2. Cardinality(StreamingOf(stream')) = Cardinality(StreamingOf(stream)) - 1
            BY <2>3, <3>1, OneStream
        <3> QED
            BY <1>0, <2>1, <2>2, <2>5, <3>2 DEF Slack, Gentle
    <2> QED
        BY <1>15, <2>4, <2>5 DEF CancelStream
<1>16. CASE Tick
    <2>1. UNCHANGED current
        BY <1>16 DEF Tick
    <2>2. WorkerHolds' = WorkerHolds
        BY <1>0, <1>16 DEF Tick, WorkerHolds, Worker
    <2>3. StreamingOf(stream') = StreamingOf(stream)
        BY <1>0, <1>16 DEF Tick, StreamingOf, Stream
    <2>4. Cardinality(tasks') = Cardinality(tasks)
        <3> DEFINE f == [t \in tasks |-> [t EXCEPT !.ran = IF t.pc = "sending"
                                            THEN Lesser(@ + 1, Policy.totalTimeout) ELSE 0]]
        <3>1. tasks' = {f[t] : t \in tasks}
            BY <1>16 DEF Tick
        <3>2. \A t \in tasks : f[t].req = t.req
            BY <1>0 DEF Task
        <3>3. f \in [tasks -> tasks']
            BY <3>1
        <3> HIDE DEF f
        <3>4. f \in Surjection(tasks, tasks')
            BY <3>1, <3>3 DEF Surjection
        <3>5. f \in Injection(tasks, tasks')
            <4>1. ASSUME NEW x \in tasks, NEW y \in tasks, f[x] = f[y] PROVE x = y
                BY <3>2, <4>1 DEF Tokens, Apart
            <4> QED
                BY <3>3, <4>1 DEF Injection, IsInjective
        <3> QED
            BY <1>0, <3>4, <3>5, FS_Surjection
    <2>5. Slack' = current' - (Cardinality(tasks') + Cardinality(StreamingOf(stream')) + WorkerHolds')
        BY DEF Slack
    <2> QED
        BY <1>e, <2>1, <2>2, <2>3, <2>4, <2>5 DEF Slack
<1>17. CASE UNCHANGED vars
    <2>1. WorkerHolds' = WorkerHolds /\ UNCHANGED <<tasks, current, stream>>
        BY <1>17 DEF vars, WorkerHolds
    <2> QED
        BY <1>c, <1>e, <2>1
<1> QED
    BY <1>e, <1>1, <1>2, <1>3, <1>4, <1>5, <1>6, <1>7, <1>8, <1>9, <1>10, <1>11, <1>12, <1>13,
       <1>14, <1>15, <1>16, <1>17 DEF Next

-----------------------------------------------------------------------------
(* The invariant and what follows from it.                                   *)

\* Every part together; no permit is held twice, so the slack is not negative.
IInv == Typed /\ Lines /\ Tokens /\ Slack >= 0

\* Initially nothing is queued and no permit is out.
LEMMA InitIInv ==
    ASSUME Init
    PROVE  IInv /\ Slack = 0
<1>1. Typed
    <2>1. heap = {} /\ IsFiniteSet(heap) /\ Cardinality(heap) = 0
          /\ tasks = {} /\ IsFiniteSet(tasks) /\ backoff = {}
        BY FS_EmptySet DEF Init
    <2>2. future \in [Requests -> [Attempts -> Statuses]] /\ sent \in [Requests -> Nat]
        BY DEF Init, Statuses
    <2>3. worker \in Worker /\ (worker.entry # NoEntry <=> worker.pc \in InHand)
        BY DEF Init, Idle, Worker, InHand
    <2>4. stream \in [Streams -> Stream] /\ waiters \in Seq(Streams \cup {Loop}) /\ current \in Int
        BY DEF Init, Stream
    <2>5. SoundBucket(bucket)
        <3>1. Capacity \in Nat /\ Minute \in Nat
            BY QueueAssumption
        <3>2. Capacity * Minute \in Nat
            BY <3>1
        <3>3. bucket = [cap |-> Capacity, window |-> Minute, level |-> Capacity * Minute, last |-> 0]
            BY DEF Init, NewBucket
        <3> QED
            BY <3>1, <3>2, <3>3 DEF SoundBucket
    <2> QED
        BY <2>1, <2>2, <2>3, <2>4, <2>5, QueueAssumption DEF Typed
<1>2. Lines
    BY QueueAssumption DEF Init, Lines, Idle
<1>3. Tokens
    BY QueueAssumption DEF Init, Tokens, Apart, Frontier, Counted, Idle, Attempts
<1>4. Slack = 0
    <2>1. Cardinality(tasks) = 0 /\ WorkerHolds = 0 /\ current = 0
        BY FS_EmptySet DEF Init, Idle, WorkerHolds
    <2>2. StreamingOf(stream) = {}
        BY DEF Init, StreamingOf
    <2>3. Cardinality(StreamingOf(stream)) = 0
        BY <2>2, FS_EmptySet
    <2> QED
        BY <2>1, <2>3 DEF Slack
<1> QED
    BY <1>1, <1>2, <1>3, <1>4 DEF IInv

\* The slack is a number.
LEMMA SlackIsInt ==
    ASSUME Typed
    PROVE  Slack \in Int
BY SlackIs DEF Typed

\* Every step keeps the invariant.
LEMMA NextIInv ==
    ASSUME IInv, [Next]_vars
    PROVE  IInv'
<1>1. Typed' /\ Lines'
    BY TypedNext DEF IInv
<1>2. Tokens'
    BY TokensNext DEF IInv
<1>3. Slack' >= Slack /\ Slack \in Int /\ Slack >= 0
    BY SlackNext, SlackIsInt DEF IInv
<1>4. Slack' \in Int
    BY <1>1, FS_CardinalityType, FS_Subset, QueueAssumption DEF Slack, Typed, StreamingOf, WorkerHolds
<1> QED
    BY <1>1, <1>2, <1>3, <1>4 DEF IInv

\* The invariant holds in every reachable state.
LEMMA Invariant == Spec => []IInv
<1>1. Init => IInv
    BY InitIInv
<1>2. IInv /\ [Next]_vars => IInv'
    BY NextIInv
<1> QED
    BY <1>1, <1>2, PTL DEF Spec

\* Every variable keeps its type; the permit count stays between zero and
\* `concurrent` and the heap within max_size, whatever handlers raise.
THEOREM TypeCorrect == Spec => []TypeOK
<1>1. ASSUME IInv PROVE TypeOK
    <2>1. /\ heap \subseteq Entry /\ IsFiniteSet(heap) /\ Cardinality(heap) <= MaxSize
          /\ future \in [Requests -> [Attempts -> Statuses]]
          /\ waiters \in Seq(Streams \cup {Loop})
        BY <1>1 DEF IInv, Typed
    <2>2. /\ worker.pc \in {"off", "scheduled", "top", "admit", "sleep", "permit", "granted"}
          /\ worker.entry \in Entry \cup {NoEntry} /\ worker.wait \in Nat
          /\ worker.entry # NoEntry <=> worker.pc \in {"admit", "sleep", "permit", "granted"}
        BY <1>1 DEF IInv, Typed, Worker, InHand
    <2>3. \A t \in tasks : /\ t.req \in Requests /\ t.attempt \in Attempts
                           /\ t.pc \in {"spawned", "sending"}
        BY <1>1 DEF IInv, Typed, Task
    <2>4. \A b \in backoff : b.req \in Requests /\ b.attempt \in Attempts /\ b.wait \in Nat
        BY <1>1, QueueAssumption DEF IInv, Typed, Backing, Attempts
    <2>5. current \in 0 .. Concurrent
        BY <1>1, SlackIs, QueueAssumption DEF IInv, Typed, Lines
    <2>6. \A s \in Streams : stream[s].pc \in {"new", "sleep", "permit", "granted", "open", "closed"}
        BY <1>1 DEF IInv, Typed, Stream
    <2>7. bucket.level \in 0 .. Full(bucket) /\ bucket.last \in Nat
        BY <1>1 DEF IInv, Typed, SoundBucket, Full
    <2> QED
        BY <2>1, <2>2, <2>3, <2>4, <2>5, <2>6, <2>7 DEF TypeOK
<1> QED
    BY <1>1, Invariant, PTL

\* No more calls are with the provider at once than `concurrent`: Semaphore
\* hands out no permit twice, through every raise and every cancellation.
THEOREM NeverTooMany == Spec => []NeverOversubscribed
<1>1. ASSUME IInv PROVE NeverOversubscribed
    BY <1>1, SlackIs DEF IInv, Lines, Typed, NeverOversubscribed
<1> QED
    BY <1>1, Invariant, PTL

-----------------------------------------------------------------------------
(* Nobody's work is lost, where no handler raises and no permit is cancelled. *)

\* Somebody works on attempt k of r.
Carried(r, k) ==
    \/ \E e \in heap : e.req = r /\ e.attempt = k
    \/ worker.entry.req = r /\ worker.entry.attempt = k
    \/ \E t \in tasks : t.req = r /\ t.attempt = k
    \/ \E b \in backoff : b.req = r /\ b.attempt = k

\* The last future made for a request is worked on until it is done.
Led == \A r \in Requests, k \in Attempts :
          future[r][k] = "pending" /\ (k < Patience => future[r][k + 1] = "none") => Carried(r, k)

\* Nothing is dropped but the tokens of futures that are done.
LEMMA LedKept ==
    ASSUME Led, \A r \in Requests, k \in Attempts :
                   /\ future'[r][k] = "pending" => future[r][k] = "pending" /\ (Carried(r, k) => Carried(r, k)')
                   /\ future'[r][k] = "none" => future[r][k] = "none"
    PROVE  Led'
<1>1. ASSUME NEW r \in Requests, NEW k \in Attempts, future'[r][k] = "pending",
             k < Patience => future'[r][k + 1] = "none"
      PROVE  Carried(r, k)'
    <2>1. k < Patience => k + 1 \in Attempts
        BY QueueAssumption DEF Attempts
    <2> QED
        BY <1>1, <2>1 DEF Led
<1> QED
    BY <1>1 DEF Led

\* Every step keeps the last future of each request in somebody's hands.
LEMMA LedNext ==
    ASSUME Typed, Led, Gentle, [Next]_vars
    PROVE  Led'
<1>0. /\ worker \in Worker /\ (worker.entry # NoEntry <=> worker.pc \in InHand)
      /\ heap \subseteq Entry /\ tasks \subseteq Task /\ backoff \subseteq Backing
      /\ future \in [Requests -> [Attempts -> Statuses]]
      /\ Loop \notin Requests /\ 0 \in Attempts /\ Patience \in Nat
      /\ Attempts \subseteq Nat /\ ~HooksRaise
    BY QueueAssumption DEF Typed, Attempts, Gentle
<1>a. ASSUME UNCHANGED <<heap, tasks, backoff>>, worker'.entry = worker.entry,
             \A r \in Requests, k \in Attempts :
                /\ future'[r][k] = "pending" => future[r][k] = "pending"
                /\ future'[r][k] = "none" => future[r][k] = "none"
      PROVE  Led'
    BY <1>a, LedKept DEF Carried
<1>b. ASSUME NEW r \in Requests, NEW k \in Attempts, NEW status \in Statuses \ {"none", "pending"},
             future' = Settled(future, r, k, status)
      PROVE  /\ future'[r][k] # "pending"
             /\ \A q \in Requests, j \in Attempts :
                   /\ future'[q][j] = "pending" => future[q][j] = "pending"
                   /\ future'[q][j] = "none" => future[q][j] = "none"
    BY <1>0, <1>b DEF Settled
<1>c. ASSUME NEW t \in tasks, EndTask(t)
      PROVE  tasks' = tasks \ {t} /\ worker'.entry = worker.entry
    <2>1. WorkerAfterRelease \in Worker /\ WorkerAfterRelease.entry = worker.entry
        BY <1>0 DEF WorkerAfterRelease, Worker, InHand
    <2>2. Ensured(WorkerAfterRelease).entry = WorkerAfterRelease.entry
        BY <2>1 DEF Ensured, Worker
    <2> QED
        BY <1>c, <2>1, <2>2 DEF EndTask
<1>d. ASSUME NEW t \in tasks, EndTask(t), UNCHANGED <<heap, backoff>>,
             NEW status \in Statuses \ {"none", "pending"},
             future' = Settled(future, t.req, t.attempt, status)
      PROVE  Led'
    <2>1. t.req \in Requests /\ t.attempt \in Attempts
        BY <1>0 DEF Task
    <2>2. tasks' = tasks \ {t} /\ worker'.entry = worker.entry
        BY <1>c, <1>d
    <2>3. ASSUME NEW r \in Requests, NEW k \in Attempts, future'[r][k] = "pending"
          PROVE  Carried(r, k) => Carried(r, k)'
        BY <1>b, <1>d, <2>1, <2>2, <2>3 DEF Carried
    <2> QED
        BY <1>b, <1>d, <2>1, <2>3, LedKept
<1>e. ASSUME worker.pc \in InHand, UNCHANGED <<heap, future, backoff>>, tasks' = tasks \cup {Spawned}
      PROVE  Led'
    <2>1. PICK u : u = Spawned
        OBVIOUS
    <2>2. u.req = worker.entry.req /\ u.attempt = worker.entry.attempt /\ tasks' = tasks \cup {u}
        BY <1>e, <2>1 DEF Spawned
    <2>3. ASSUME NEW r \in Requests, NEW k \in Attempts
          PROVE  Carried(r, k) => Carried(r, k)'
        BY <1>e, <2>2 DEF Carried
    <2> QED
        BY <1>e, <2>3, LedKept
<1>1. ASSUME NEW r \in Requests, Submit(r) PROVE Led'
    <2>1. UNCHANGED <<tasks, backoff>> /\ worker'.entry = worker.entry /\ future[r][0] = "none"
        BY <1>0, <1>1, EnsuredKeeps DEF Submit
    <2>2. CASE future' = [future EXCEPT ![r][0] = "refused"] /\ UNCHANGED heap
        BY <1>0, <1>a, <2>1, <2>2
    <2>3. CASE future' = [future EXCEPT ![r][0] = "pending"] /\ heap' = Enqueued(r, 0, Profile[r].prio)
        <3>1. PICK e : e = [req |-> r, attempt |-> 0, prio |-> Profile[r].prio, age |-> 0]
            OBVIOUS
        <3>2. heap' = heap \cup {e} /\ e.req = r /\ e.attempt = 0
            BY <2>3, <3>1 DEF Enqueued
        <3>3. ASSUME NEW q \in Requests, NEW k \in Attempts, future'[q][k] = "pending",
                     k < Patience => future'[q][k + 1] = "none"
              PROVE  Carried(q, k)'
            <4>1. CASE q = r /\ k = 0
                BY <3>2, <4>1 DEF Carried
            <4>2. CASE ~(q = r /\ k = 0)
                <5>1. future[q][k] = "pending"
                    BY <1>0, <2>3, <3>3, <4>2
                <5>2. k < Patience => k + 1 \in Attempts /\ k + 1 # 0
                    BY <1>0 DEF Attempts
                <5>3. k < Patience => future[q][k + 1] = "none"
                    BY <1>0, <2>3, <3>3, <5>2
                <5>4. Carried(q, k)
                    BY <5>1, <5>3 DEF Led
                <5> QED
                    BY <2>1, <3>2, <5>4 DEF Carried
            <4> QED
                BY <4>1, <4>2
        <3> QED
            BY <3>3 DEF Led
    <2> QED
        BY <1>0, <1>1, <2>2, <2>3 DEF Submit
<1>2. ASSUME NEW r \in Requests, CancelCaller(r) PROVE Led'
    <2>1. UNCHANGED <<heap, tasks, backoff, worker>> /\ future' = [future EXCEPT ![r][0] = "cancelled"]
        BY <1>2 DEF CancelCaller
    <2> QED
        BY <1>0, <1>a, <2>1
<1>3. CASE LoopTop
    <2>1. \A r \in Requests, k \in Attempts :
             /\ future'[r][k] = "pending" =>
                   /\ future[r][k] = "pending"
                   /\ ~\E e \in heap : e.req = r /\ e.attempt = k /\ Expired(e)
             /\ future'[r][k] = "none" => future[r][k] = "none"
        BY <1>3 DEF LoopTop
    <2>2. UNCHANGED <<tasks, backoff>> /\ worker.entry = NoEntry
        BY <1>0, <1>3 DEF LoopTop, InHand
    <2>3. ASSUME NEW r \in Requests, NEW k \in Attempts, future'[r][k] = "pending", Carried(r, k)
          PROVE  Carried(r, k)'
        <3>1. CASE \E e \in heap : e.req = r /\ e.attempt = k
            <4>1. PICK e \in Fresh : e.req = r /\ e.attempt = k
                BY <2>1, <2>3, <3>1 DEF Fresh
            <4>2. PICK f \in Fresh : heap' = Fresh \ {f} /\ worker' = [worker EXCEPT !.pc = "admit", !.entry = f]
                BY <1>3, <4>1 DEF LoopTop
            <4>3. worker'.entry = f
                BY <1>0, <4>2 DEF Worker
            <4> QED
                BY <4>1, <4>2, <4>3 DEF Carried
        <3>2. CASE ~\E e \in heap : e.req = r /\ e.attempt = k
            BY <1>0, <2>2, <2>3, <3>2 DEF Carried, NoEntry
        <3> QED
            BY <3>1, <3>2
    <2> QED
        BY <2>1, <2>3, LedKept
<1>4. CASE LoopAdmit
    <2>1. UNCHANGED <<heap, future, backoff>> /\ worker.pc = "admit"
        BY <1>4 DEF LoopAdmit
    <2>2. CASE tasks' = tasks /\ worker'.entry = worker.entry
        BY <1>a, <2>1, <2>2
    <2>3. CASE tasks' = tasks \cup {Spawned}
        BY <1>e, <2>1, <2>3 DEF InHand
    <2>4. /\ [worker EXCEPT !.pc = "permit"].entry = worker.entry
          /\ [worker EXCEPT !.pc = "sleep", !.wait = NextLook].entry = worker.entry
        BY <1>0 DEF Worker
    <2> QED
        BY <1>0, <1>4, <2>2, <2>3, <2>4 DEF LoopAdmit
<1>5. CASE LoopWake
    BY <1>0, <1>5, <1>a DEF LoopWake, Worker
<1>6. CASE LoopGranted
    BY <1>6, <1>e DEF LoopGranted, InHand
<1>7. ASSUME NEW t \in tasks, TaskStart(t) PROVE Led'
    <2> DEFINE u == [t EXCEPT !.pc = "sending", !.age = 0,
                       !.via = IF Profile[t.req].own /\ t.attempt = 0 THEN "own" ELSE "shared"]
    <2>1. tasks' = (tasks \ {t}) \cup {u} /\ UNCHANGED <<heap, future, worker, backoff>>
        BY <1>0, <1>7 DEF TaskStart
    <2>2. u.req = t.req /\ u.attempt = t.attempt
        BY <1>0 DEF Task
    <2> HIDE DEF u
    <2>3. ASSUME NEW r \in Requests, NEW k \in Attempts
          PROVE  Carried(r, k) => Carried(r, k)'
        BY <2>1, <2>2 DEF Carried
    <2> QED
        BY <2>1, <2>3, LedKept
<1>8. ASSUME NEW t \in tasks, TaskOk(t) PROVE Led'
    BY <1>0, <1>8, <1>d DEF TaskOk, Statuses
<1>9. ASSUME NEW t \in tasks, NEW e \in Failures, TaskError(t, e) PROVE Led'
    <2>1. CASE /\ \E d \in Backoffs(t.attempt, e, Policy) :
                     backoff' = backoff \cup {[req |-> t.req, attempt |-> t.attempt, wait |-> d]}
               /\ UNCHANGED <<future, heap>>
        <3>1. PICK d : backoff' = backoff \cup {[req |-> t.req, attempt |-> t.attempt, wait |-> d]}
            BY <2>1
        <3>2. PICK b : b = [req |-> t.req, attempt |-> t.attempt, wait |-> d]
            OBVIOUS
        <3>3. backoff' = backoff \cup {b} /\ b.req = t.req /\ b.attempt = t.attempt
            BY <3>1, <3>2
        <3>4. tasks' = tasks \ {t} /\ worker'.entry = worker.entry
            BY <1>9, <1>c DEF TaskError
        <3>5. ASSUME NEW r \in Requests, NEW k \in Attempts
              PROVE  Carried(r, k) => Carried(r, k)'
            BY <2>1, <3>3, <3>4 DEF Carried
        <3> QED
            BY <2>1, <3>5, LedKept
    <2> QED
        BY <1>0, <1>9, <1>d, <2>1 DEF TaskError, Statuses
<1>10. ASSUME NEW b \in backoff, Requeue(b) PROVE Led'
    <2>1. /\ b.req \in Requests /\ b.attempt \in Attempts /\ b.attempt + 1 \in Attempts
          /\ b.attempt < Patience /\ b.attempt \in Nat
        BY <1>0 DEF Backing, Attempts
    <2>2. UNCHANGED tasks /\ worker'.entry = worker.entry /\ backoff' = backoff \ {b}
        BY <1>0, <1>10, EnsuredKeeps DEF Requeue
    <2>3. CASE future' = Settled(future, b.req, b.attempt, "refused") /\ UNCHANGED heap
        <3>1. ASSUME NEW r \in Requests, NEW k \in Attempts, future'[r][k] = "pending"
              PROVE  Carried(r, k) => Carried(r, k)'
            BY <1>b, <2>1, <2>2, <2>3, <3>1 DEF Carried, Statuses
        <3> QED
            BY <1>b, <2>1, <2>3, <3>1, LedKept DEF Statuses
    <2>4. CASE /\ heap' = Enqueued(b.req, b.attempt + 1, PRIORITY_RETRY)
               /\ future' = [future EXCEPT ![b.req][b.attempt + 1] = "pending"]
        <3>1. PICK e : e = [req |-> b.req, attempt |-> b.attempt + 1, prio |-> PRIORITY_RETRY, age |-> 0]
            OBVIOUS
        <3>2. heap' = heap \cup {e} /\ e.req = b.req /\ e.attempt = b.attempt + 1
            BY <2>4, <3>1 DEF Enqueued
        <3>3. ASSUME NEW q \in Requests, NEW k \in Attempts, future'[q][k] = "pending",
                     k < Patience => future'[q][k + 1] = "none"
              PROVE  Carried(q, k)'
            <4>0. k < Patience => k + 1 \in Attempts
                BY <1>0 DEF Attempts
            <4>1. CASE q = b.req /\ k = b.attempt + 1
                BY <3>2, <4>1 DEF Carried
            <4>2. CASE q = b.req /\ k = b.attempt
                BY <1>0, <2>1, <2>4, <3>3, <4>2
            <4>3. CASE ~(q = b.req /\ k \in {b.attempt, b.attempt + 1})
                <5>1. future[q][k] = "pending"
                    BY <1>0, <2>1, <2>4, <3>3, <4>3
                <5>2. k < Patience => future[q][k + 1] = "none"
                    BY <1>0, <2>1, <2>4, <3>3, <4>0, <4>3
                <5>3. Carried(q, k)
                    BY <5>1, <5>2 DEF Led
                <5> QED
                    BY <2>2, <3>2, <4>3, <5>3 DEF Carried
            <4> QED
                BY <4>1, <4>2, <4>3
        <3> QED
            BY <3>3 DEF Led
    <2> QED
        BY <1>10, <2>3, <2>4 DEF Requeue
<1>11. ASSUME NEW r \in Requests, NEW k \in Attempts, Forward(r, k) PROVE Led'
    <2>1. UNCHANGED <<heap, tasks, backoff, worker>> /\ future' = Settled(future, r, k - 1, future[r][k])
        BY <1>11 DEF Forward
    <2>2. future[r][k] \in Statuses \ {"none", "pending"} /\ k - 1 \in Attempts
        BY <1>0, <1>11 DEF Forward, Done, Attempts
    <2> QED
        BY <1>a, <1>b, <2>1, <2>2
<1>12. ASSUME NEW s \in Streams, StreamAsk(s) \/ StreamGranted(s) \/ CancelStream(s) PROVE Led'
    BY <1>12, <1>a DEF StreamAsk, StreamGranted, CancelStream
<1>13. ASSUME NEW s \in Streams, StreamEnd(s) PROVE Led'
    <2>1. worker'.entry = worker.entry
        BY <1>0, <1>13 DEF StreamEnd, WorkerAfterRelease, Worker
    <2> QED
        BY <1>13, <1>a, <2>1 DEF StreamEnd
<1>14. CASE Tick
    <2>1. \A y \in heap : \E x \in heap' : x.req = y.req /\ x.attempt = y.attempt
        <3>1. \A y \in heap : [y EXCEPT !.age = Older(@)] \in heap'
            BY <1>14 DEF Tick
        <3> QED
            BY <1>0, <3>1 DEF Entry
    <2>2. \A y \in tasks : \E x \in tasks' : x.req = y.req /\ x.attempt = y.attempt
        <3>1. \A y \in tasks : [y EXCEPT !.ran = IF y.pc = "sending" THEN Lesser(@ + 1, Policy.totalTimeout)
                                                  ELSE 0] \in tasks'
            BY <1>14 DEF Tick
        <3> QED
            BY <1>0, <3>1 DEF Task
    <2>3. \A y \in backoff : \E x \in backoff' : x.req = y.req /\ x.attempt = y.attempt
        <3>1. \A y \in backoff : [y EXCEPT !.wait = Down(@)] \in backoff'
            BY <1>14 DEF Tick
        <3> QED
            BY <1>0, <3>1 DEF Backing
    <2>4. worker'.entry.req = worker.entry.req /\ worker'.entry.attempt = worker.entry.attempt
        BY <1>14, TickAges
    <2>5. ASSUME NEW r \in Requests, NEW k \in Attempts PROVE Carried(r, k) => Carried(r, k)'
        BY <2>1, <2>2, <2>3, <2>4 DEF Carried
    <2>6. UNCHANGED future
        BY <1>14 DEF Tick
    <2> QED
        BY <2>5, <2>6, LedKept
<1>15. CASE UNCHANGED vars
    BY <1>15, <1>a DEF vars
<1> QED
    BY <1>1, <1>2, <1>3, <1>4, <1>5, <1>6, <1>7, <1>8, <1>9, <1>10, <1>11, <1>12, <1>13, <1>14, <1>15
       DEF Next

\* A heap that is not empty has a worker: every enqueue wakes one, and without
\* a handler that raises the loop leaves only when it emptied the heap.
LEMMA AwakeNext ==
    ASSUME Typed, WorkerAwake, Gentle, [Next]_vars
    PROVE  WorkerAwake'
<1>0. /\ worker \in Worker /\ (worker.entry # NoEntry <=> worker.pc \in InHand) /\ ~HooksRaise
    BY DEF Typed, Gentle
<1>a. /\ WorkerAfterRelease \in Worker
      /\ WorkerAfterRelease.pc = "off" => worker.pc = "off"
    BY <1>0 DEF WorkerAfterRelease, Worker, InHand
<1>b. ASSUME NEW w \in Worker PROVE Ensured(w).pc # "off"
    BY DEF Ensured, Worker
<1>1. ASSUME NEW r \in Requests, Submit(r) PROVE WorkerAwake'
    BY <1>0, <1>1, <1>b DEF Submit, WorkerAwake
<1>2. CASE LoopTop
    <2>1. CASE heap' = {}
        BY <2>1 DEF WorkerAwake
    <2>2. CASE \E e \in Fresh : worker' = [worker EXCEPT !.pc = "admit", !.entry = e]
        BY <1>0, <2>2 DEF WorkerAwake, Worker
    <2> QED
        BY <1>2, <2>1, <2>2 DEF LoopTop
<1>3. CASE LoopAdmit
    BY <1>0, <1>3 DEF LoopAdmit, WorkerAwake, Worker
<1>4. CASE LoopWake \/ LoopGranted
    BY <1>0, <1>4 DEF LoopWake, LoopGranted, WorkerAwake, Worker
<1>5. ASSUME NEW t \in tasks, TaskStart(t) PROVE WorkerAwake'
    BY <1>0, <1>5 DEF TaskStart, WorkerAwake
<1>6. ASSUME NEW t \in tasks, EndTask(t) PROVE WorkerAwake'
    BY <1>6, <1>a, <1>b DEF EndTask, WorkerAwake
<1>7. ASSUME NEW b \in backoff, Requeue(b) PROVE WorkerAwake'
    BY <1>0, <1>7, <1>b DEF Requeue, WorkerAwake
<1>8. ASSUME NEW s \in Streams, StreamEnd(s) PROVE WorkerAwake'
    BY <1>8, <1>a DEF StreamEnd, WorkerAwake
<1>9. CASE UNCHANGED <<heap, worker>>
    BY <1>9 DEF WorkerAwake
<1>10. CASE Tick
    <2>1. heap = {} => heap' = {}
        BY <1>10 DEF Tick
    <2> QED
        BY <1>10, <2>1, TickAges DEF WorkerAwake
<1>11. CASE \E r \in Requests : CancelCaller(r) \/ \E k \in Attempts : Forward(r, k)
    BY <1>9, <1>11 DEF CancelCaller, Forward
<1>12. CASE \E s \in Streams : StreamAsk(s) \/ StreamGranted(s) \/ CancelStream(s)
    BY <1>9, <1>12 DEF StreamAsk, StreamGranted, CancelStream
<1>13. ASSUME NEW t \in tasks, TaskOk(t) \/ \E e \in Failures : TaskError(t, e) PROVE WorkerAwake'
    BY <1>6, <1>13 DEF TaskOk, TaskError
<1>14. CASE UNCHANGED vars
    BY <1>9, <1>14 DEF vars
<1> QED
    BY <1>1, <1>2, <1>3, <1>4, <1>5, <1>7, <1>8, <1>10, <1>11, <1>12, <1>13, <1>14 DEF Next

\* The line of waiters, as TLC checks it: a bijection onto those who wait.
LEMMA LinesCounted ==
    ASSUME Typed, Lines
    PROVE  NoIdlePermit
<1>1. /\ waiters \in Seq(Streams \cup {Loop}) /\ Len(waiters) \in Nat /\ Loop \notin Streams
      /\ DOMAIN waiters = 1 .. Len(waiters)
      /\ \A i \in 1 .. Len(waiters) : waiters[i] \in Streams \cup {Loop}
    BY QueueAssumption, ElementOfSeq, LenProperties DEF Typed
<1>2. ToSet(waiters) = {waiters[i] : i \in 1 .. Len(waiters)}
    BY <1>1 DEF ToSet
<1>3. ToSet(waiters) = Waiting
    <2>1. ASSUME NEW i \in 1 .. Len(waiters) PROVE waiters[i] \in Waiting
        BY <1>1 DEF Waiting, Lines
    <2>2. ASSUME NEW w \in Waiting PROVE \E i \in 1 .. Len(waiters) : waiters[i] = w
        BY DEF Waiting, Lines
    <2> QED
        BY <1>2, <2>1, <2>2
<1>4. Len(waiters) = Cardinality(Waiting)
    <2>1. waiters \in Surjection(1 .. Len(waiters), Waiting)
        <3>1. waiters \in [1 .. Len(waiters) -> Waiting]
            BY <1>1, <1>2, <1>3
        <3> QED
            BY <1>2, <1>3, <3>1 DEF Surjection
    <2>2. waiters \in Injection(1 .. Len(waiters), Waiting)
        BY <1>1, <2>1 DEF Lines, Surjection, Injection, IsInjective
    <2>3. IsFiniteSet(1 .. Len(waiters)) /\ Cardinality(1 .. Len(waiters)) = Len(waiters)
        BY <1>1, FS_Interval
    <2> QED
        BY <2>1, <2>2, <2>3, FS_Surjection
<1>5. waiters # <<>> => current = Concurrent
    BY <1>1, EmptySeq DEF Lines
<1> QED
    BY <1>3, <1>4, <1>5 DEF NoIdlePermit

\* A set of which no two members differ.
LEMMA AtMostOne ==
    ASSUME NEW S, \A x, y \in S : x = y
    PROVE  Cardinality(S) = IF S = {} THEN 0 ELSE 1
<1>1. CASE S = {}
    BY <1>1, FS_EmptySet
<1>2. CASE S # {}
    <2>1. PICK x : S = {x}
        BY <1>2
    <2> QED
        BY <2>1, FS_Singleton
<1> QED
    BY <1>1, <1>2

\* One owner, where somebody works on the attempt, and none where nobody does.
LEMMA OwnersCounted ==
    ASSUME Typed, Tokens, NEW r \in Requests, NEW k \in Attempts
    PROVE  OwnersOf(r, k) = IF Carried(r, k) THEN 1 ELSE 0
<1> DEFINE H == {e \in heap : e.req = r /\ e.attempt = k}
           W == {l \in {Loop} : worker.entry.req = r /\ worker.entry.attempt = k}
           T == {t \in tasks : t.req = r /\ t.attempt = k}
           B == {b \in backoff : b.req = r /\ b.attempt = k}
<1>1. /\ \A x, y \in H : x = y
      /\ \A x, y \in W : x = y
      /\ \A x, y \in T : x = y
      /\ \A x, y \in B : x = y
    BY DEF Tokens, Apart
<1>2. /\ H # {} => W = {} /\ T = {} /\ B = {}
      /\ W # {} => H = {} /\ T = {} /\ B = {}
      /\ T # {} => H = {} /\ W = {} /\ B = {}
    BY DEF Tokens, Apart
<1>3. Carried(r, k) <=> H # {} \/ W # {} \/ T # {} \/ B # {}
    BY DEF Carried
<1>4. OwnersOf(r, k) = Cardinality(H) + Cardinality(W) + Cardinality(T) + Cardinality(B)
    BY DEF OwnersOf
<1> HIDE DEF H, W, T, B
<1>5. /\ Cardinality(H) = IF H = {} THEN 0 ELSE 1
      /\ Cardinality(W) = IF W = {} THEN 0 ELSE 1
      /\ Cardinality(T) = IF T = {} THEN 0 ELSE 1
      /\ Cardinality(B) = IF B = {} THEN 0 ELSE 1
    BY <1>1, AtMostOne
<1> QED
    BY <1>2, <1>3, <1>4, <1>5

\* A pending attempt is worked on, or a later one was made and answers for it.
LEMMA OwnedBy ==
    ASSUME Typed, Tokens, Led
    PROVE  Owned
<1>1. ASSUME NEW r \in Requests, NEW k \in Attempts PROVE OwnersOf(r, k) <= 1
    BY OwnersCounted
<1>2. ASSUME NEW r \in Requests, NEW k \in Attempts, future[r][k] = "pending",
             k < Patience, future[r][k + 1] # "none"
      PROVE  ~Carried(r, k)
    <2>1. k + 1 \in Attempts /\ k \in Nat /\ ~(k + 1 <= k) /\ Loop \notin Requests
        BY <1>2, QueueAssumption DEF Attempts
    <2>2. \A x \in heap \cup tasks \cup backoff : ~(x.req = r /\ x.attempt = k)
        BY <1>2, <2>1 DEF Tokens, Frontier, Latest
    <2>3. ~(worker.entry.req = r /\ worker.entry.attempt = k)
        <3>1. CASE worker.entry = NoEntry
            BY <2>1, <3>1 DEF NoEntry
        <3>2. CASE worker.entry # NoEntry
            BY <1>2, <2>1, <3>2 DEF Tokens, Frontier, Latest
        <3> QED
            BY <3>1, <3>2
    <2> QED
        BY <2>2, <2>3 DEF Carried
<1>3. ASSUME NEW r \in Requests, NEW k \in Attempts, future[r][k] = "pending"
      PROVE  (OwnersOf(r, k) = 1) # (k < Patience /\ future[r][k + 1] # "none")
    <2>1. CASE k < Patience /\ future[r][k + 1] # "none"
        <3>1. OwnersOf(r, k) = 0
            BY <1>2, <1>3, <2>1, OwnersCounted
        <3> QED
            BY <2>1, <3>1
    <2>2. CASE ~(k < Patience /\ future[r][k + 1] # "none")
        <3>1. Carried(r, k)
            BY <1>3, <2>2 DEF Led
        <3>2. OwnersOf(r, k) = 1
            BY <3>1, OwnersCounted
        <3> QED
            BY <2>2, <3>2
    <2> QED
        BY <2>1, <2>2
<1> QED
    BY <1>1, <1>3 DEF Owned

\* Where no handler raises and no stream is cancelled with the permit in hand,
\* every permit is held by somebody who runs, nobody waits while one is free,
\* a filled heap has a worker, and a caller that waits has one owner:
\* _process_loop, _run and _requeue_after lose and double nothing.
THEOREM NothingLost ==
    ASSUME Gentle
    PROVE  Spec => []Accounted
<1> DEFINE Kept == IInv /\ Slack = 0 /\ Led /\ WorkerAwake
<1>1. Init => Kept
    <2>1. Init => Led
        BY DEF Init, Led
    <2>2. Init => WorkerAwake
        BY DEF Init, WorkerAwake
    <2> QED
        BY <2>1, <2>2, InitIInv
<1>2. Kept /\ [Next]_vars => Kept'
    <2> SUFFICES ASSUME Kept, [Next]_vars PROVE Kept'
        OBVIOUS
    <2>1. IInv' /\ Led' /\ WorkerAwake'
        BY NextIInv, LedNext, AwakeNext DEF IInv
    <2>2. Slack' = 0
        BY SlackNext DEF IInv
    <2> QED
        BY <2>1, <2>2
<1>3. Kept => Accounted
    <2> SUFFICES ASSUME Kept PROVE Accounted
        OBVIOUS
    <2>1. PermitsAccounted
        BY SlackIs DEF IInv, Typed, PermitsAccounted
    <2>2. NoIdlePermit /\ Owned
        BY LinesCounted, OwnedBy DEF IInv
    <2> QED
        BY <2>1, <2>2 DEF Accounted
<1> QED
    BY <1>1, <1>2, <1>3, PTL DEF Spec

-----------------------------------------------------------------------------
(* The queue implements RequestLifecycle.                                    *)

\* What the caller has, and who is on the wire, as Lifecycle is given them.
Told(status) ==
    CASE status = "none" -> "none"
      [] status = "pending" -> "waiting"
      [] status \in {"response", "cancelled"} -> status
      [] OTHER -> "error"
\* The callers' answers, and the requests on the wire.
Told0 == [r \in Requests |-> Told(future[r][0])]
OnWire == {t.req : t \in {u \in tasks : u.pc = "sending"}}

\* RequestLifecycle counts as FiniteSets does.
LEMMA SameCardinality ==
    ASSUME NEW S
    PROVE  Lifecycle!Cardinality(S) = Cardinality(S)
BY DEF Lifecycle!Cardinality, Cardinality

\* A future is settled once, with a response only if the request was sent.
LEMMA AnswersOnce ==
    ASSUME Typed, Typed', Tokens', sent' = sent,
           \A r \in Requests : future'[r][0] # future[r][0] =>
              future[r][0] = "pending" /\ future'[r][0] # "none"
    PROVE  Lifecycle!Answers
<1>1. /\ \A r \in Requests : future[r][0] \in Statuses /\ future'[r][0] \in Statuses
      /\ 0 \in Attempts /\ sent \in [Requests -> Nat]
    BY QueueAssumption DEF Typed, Attempts
<1>2. \A r \in Requests : future'[r][0] = "response" => sent[r] > 0
    BY <1>1 DEF Tokens, Counted
<1>3. Told0' \in [Requests -> {"none", "waiting"} \cup Lifecycle!Final]
    BY <1>1 DEF Told0, Told, Statuses, Lifecycle!Final
<1>4. ASSUME NEW r \in Requests, Told0'[r] # Told0[r]
      PROVE  /\ Told0[r] = "waiting" /\ Told0'[r] \in Lifecycle!Final
             /\ Told0'[r] = "response" => sent[r] > 0
    BY <1>1, <1>2, <1>4 DEF Told0, Told, Statuses, Lifecycle!Final
<1> QED
    BY <1>3, <1>4, Zenon DEF Lifecycle!Answers, Told0, Told

\* What is on the wire when a task moves.
LEMMA WireMoves ==
    ASSUME Typed, Tokens, NEW t \in tasks
    PROVE  /\ tasks' = tasks \ {t} /\ t.pc = "spawned" => OnWire' = OnWire
           /\ tasks' = tasks \ {t} /\ t.pc = "sending" => t.req \in OnWire /\ OnWire' = OnWire \ {t.req}
           /\ t.pc = "spawned" => t.req \notin OnWire
BY DEF OnWire, Tokens, Apart

\* While a task waits to start, one permit at least is not on the wire.
LEMMA RoomOnWire ==
    ASSUME IInv, NEW t \in tasks, t.pc = "spawned"
    PROVE  Cardinality(OnWire) < Concurrent
<1> DEFINE S == {u \in tasks : u.pc = "sending"}
           R == {u.req : u \in tasks}
           f == [u \in S |-> u.req]
<1>1. IsFiniteSet(tasks) /\ Cardinality(tasks) \in Nat /\ Concurrent \in Nat /\ current \in Int
    BY FS_CardinalityType, QueueAssumption DEF IInv, Typed
<1>2. IsFiniteSet(tasks \ {t}) /\ Cardinality(tasks \ {t}) = Cardinality(tasks) - 1
    BY <1>1, FS_RemoveElement
<1>3. IsFiniteSet(S) /\ Cardinality(S) <= Cardinality(tasks \ {t}) /\ Cardinality(S) \in Nat
    <2>1. S \subseteq tasks \ {t}
        OBVIOUS
    <2> QED
        BY <1>2, <2>1, FS_Subset, FS_CardinalityType
<1>4. f \in [S -> R] /\ OnWire = {f[u] : u \in S}
    BY DEF OnWire
<1> HIDE DEF S, R, f
<1>5. IsFiniteSet(OnWire) /\ Cardinality(OnWire) <= Cardinality(S)
    BY <1>3, <1>4, ImageBound
<1>6. Cardinality(OnWire) \in Nat
    BY <1>5, FS_CardinalityType
<1>7. Cardinality(tasks) <= current /\ current <= Concurrent
    <2>1. Cardinality(StreamingOf(stream)) \in Nat /\ WorkerHolds \in Nat
        BY FS_CardinalityType, FS_Subset, QueueAssumption DEF StreamingOf, WorkerHolds
    <2> QED
        BY <1>1, <2>1 DEF IInv, Slack, Lines
<1> QED
    BY <1>1, <1>2, <1>3, <1>5, <1>6, <1>7

\* Every step of the queue is one of RequestLifecycle's: a submit, a send, a
\* return from the wire, or callers answered, perhaps none.
LEMMA LifecycleNext ==
    ASSUME IInv, [Next]_vars
    PROVE  [Lifecycle!Next]_(Lifecycle!vars)
<1>0. /\ Typed /\ Lines /\ Tokens /\ Typed' /\ Tokens'
      /\ tasks \subseteq Task /\ future \in [Requests -> [Attempts -> Statuses]]
      /\ 0 \in Attempts /\ Attempts \subseteq Nat /\ Patience \in Nat
      /\ worker \in Worker /\ (worker.entry # NoEntry <=> worker.pc \in InHand)
    BY TypedNext, TokensNext, QueueAssumption DEF IInv, Typed, Attempts
<1>a. ASSUME sent' = sent, OnWire' = OnWire,
             \A r \in Requests : future'[r][0] # future[r][0] =>
                future[r][0] = "pending" /\ future'[r][0] # "none"
      PROVE  Lifecycle!Next
    <2>1. Lifecycle!Answers
        BY <1>0, <1>a, AnswersOnce
    <2>2. Lifecycle!Answer
        BY <1>a, <2>1 DEF Lifecycle!Answer, OnWire
    <2> QED
        BY <2>2 DEF Lifecycle!Next
<1>b. ASSUME NEW t \in tasks, EndTask(t), sent' = sent,
             \A r \in Requests : future'[r][0] # future[r][0] =>
                future[r][0] = "pending" /\ future'[r][0] # "none"
      PROVE  Lifecycle!Next
    <2>1. tasks' = tasks \ {t} /\ t \in Task
        BY <1>0, <1>b DEF EndTask
    <2>2. CASE t.pc = "spawned"
        <3>1. OnWire' = OnWire
            BY <1>0, <2>1, <2>2, WireMoves
        <3> QED
            BY <1>a, <1>b, <3>1
    <2>3. CASE t.pc = "sending"
        <3>1. t.req \in Requests /\ t.req \in OnWire /\ OnWire' = OnWire \ {t.req}
            BY <1>0, <2>1, <2>3, WireMoves DEF Task
        <3>2. Lifecycle!Answers
            BY <1>0, <1>b, AnswersOnce
        <3>3. Lifecycle!Return(t.req)
            BY <1>b, <3>1, <3>2 DEF Lifecycle!Return, OnWire
        <3> QED
            BY <3>1, <3>3 DEF Lifecycle!Next
    <2> QED
        BY <2>1, <2>2, <2>3 DEF Task
<1>c. ASSUME NEW r \in Requests, NEW k \in Attempts, NEW status \in Statuses \ {"none"},
             future' = Settled(future, r, k, status)
      PROVE  \A q \in Requests : future'[q][0] # future[q][0] =>
                future[q][0] = "pending" /\ future'[q][0] # "none"
    BY <1>0, <1>c DEF Settled
<1>d. \A t \in tasks : t.req \in Requests /\ t.attempt \in Attempts
    BY <1>0 DEF Task
<1>1. ASSUME NEW r \in Requests, Submit(r) PROVE Lifecycle!Next
    <2>1. /\ future[r][0] = "none" /\ UNCHANGED <<tasks, sent>>
          /\ \E status \in {"pending", "raised", "refused"} : future' = [future EXCEPT ![r][0] = status]
        BY <1>1 DEF Submit, history
    <2>2. PICK status \in {"pending", "raised", "refused"} : future' = [future EXCEPT ![r][0] = status]
        BY <2>1
    <2>3. Told0[r] = "none" /\ Told0' = [Told0 EXCEPT ![r] = Told(status)]
        BY <1>0, <2>1, <2>2 DEF Told0, Told
    <2>4. Told(status) \in {"waiting", "error"}
        BY DEF Told
    <2>5. Lifecycle!Submit(r)
        BY <2>1, <2>3, <2>4, Zenon DEF Lifecycle!Submit, Told0, Told
    <2> QED
        BY <2>5 DEF Lifecycle!Next
<1>2. ASSUME NEW r \in Requests, CancelCaller(r) PROVE Lifecycle!Next
    <2>1. /\ UNCHANGED <<tasks, sent>> /\ future[r][0] = "pending"
          /\ future' = [future EXCEPT ![r][0] = "cancelled"]
        BY <1>2 DEF CancelCaller, history
    <2>2. \A q \in Requests : future'[q][0] # future[q][0] =>
             future[q][0] = "pending" /\ future'[q][0] # "none"
        BY <1>0, <2>1
    <2>3. OnWire' = OnWire
        BY <2>1 DEF OnWire
    <2> QED
        BY <1>a, <2>1, <2>2, <2>3
<1>3. CASE LoopTop
    <2>1. UNCHANGED <<tasks, sent>>
        BY <1>3 DEF LoopTop, history
    <2>2. \A q \in Requests : future'[q][0] # future[q][0] =>
             future[q][0] = "pending" /\ future'[q][0] # "none"
        BY <1>0, <1>3 DEF LoopTop
    <2>3. OnWire' = OnWire
        BY <2>1 DEF OnWire
    <2> QED
        BY <1>a, <2>1, <2>2, <2>3
<1>4. CASE LoopAdmit \/ LoopGranted
    <2>1. UNCHANGED <<future, sent>> /\ tasks' \in {tasks, tasks \cup {Spawned}}
        BY <1>4 DEF LoopAdmit, LoopGranted, history
    <2>2. Spawned.pc = "spawned"
        BY DEF Spawned
    <2>3. OnWire' = OnWire
        BY <2>1, <2>2 DEF OnWire
    <2> QED
        BY <1>a, <2>1, <2>3
<1>5. CASE LoopWake \/ \E s \in Streams : StreamAsk(s) \/ StreamGranted(s) \/ StreamEnd(s) \/ CancelStream(s)
    <2>1. UNCHANGED <<future, tasks, sent>>
        BY <1>5 DEF LoopWake, StreamAsk, StreamGranted, StreamEnd, CancelStream, history
    <2>2. OnWire' = OnWire
        BY <2>1 DEF OnWire
    <2> QED
        BY <1>a, <2>1, <2>2
<1>6. ASSUME NEW t \in tasks, TaskStart(t) PROVE Lifecycle!Next
    <2>0. t.pc = "spawned" /\ t \in Task /\ t.req \in Requests /\ t.attempt \in 0 .. Patience
        BY <1>0, <1>6 DEF TaskStart, Task, Attempts
    <2>1. CASE /\ tasks' = (tasks \ {t}) \cup
                     {[t EXCEPT !.pc = "sending", !.age = 0,
                         !.via = IF Profile[t.req].own /\ t.attempt = 0 THEN "own" ELSE "shared"]}
               /\ sent' = [sent EXCEPT ![t.req] = @ + 1]
               /\ UNCHANGED future
        <3> DEFINE u == [t EXCEPT !.pc = "sending", !.age = 0,
                           !.via = IF Profile[t.req].own /\ t.attempt = 0 THEN "own" ELSE "shared"]
        <3>1. tasks' = (tasks \ {t}) \cup {u}
            BY <2>1
        <3>2. u.req = t.req /\ u.pc = "sending"
            BY <2>0 DEF Task
        <3> HIDE DEF u
        <3>3. OnWire' = OnWire \cup {t.req}
            BY <2>0, <3>1, <3>2 DEF OnWire
        <3>4. t.req \notin OnWire
            BY <1>0, <2>0, WireMoves
        <3>5. Lifecycle!Cardinality(OnWire) < Concurrent
            BY <2>0, RoomOnWire, SameCardinality
        <3>6. Told0[t.req] # "none"
            <4>1. Latest(t) /\ 0 <= t.attempt
                BY <2>0 DEF IInv, Tokens, Frontier
            <4>2. future[t.req][0] # "none" /\ future[t.req][0] \in Statuses
                BY <1>0, <2>0, <4>1 DEF Latest
            <4> QED
                BY <2>0, <4>2 DEF Told0, Told
        <3>7. sent[t.req] < Patience + 1
            BY <1>0, <2>0 DEF Tokens, Counted, Typed
        <3>8. Lifecycle!Send(t.req)
            BY <2>1, <3>3, <3>4, <3>5, <3>6, <3>7, Zenon DEF Lifecycle!Send, OnWire, Told0, Told
        <3> QED
            BY <2>0, <3>8 DEF Lifecycle!Next
    <2>2. CASE future' = Settled(future, t.req, t.attempt, "raised") /\ EndTask(t) /\ UNCHANGED sent
        BY <1>b, <1>c, <1>d, <2>2 DEF Statuses
    <2> QED
        BY <1>6, <2>1, <2>2 DEF TaskStart
<1>7. ASSUME NEW t \in tasks, TaskOk(t) PROVE Lifecycle!Next
    <2>1. UNCHANGED sent /\ EndTask(t)
        BY <1>7 DEF TaskOk, history
    <2>2. PICK status \in {"response", "raised"} : future' = Settled(future, t.req, t.attempt, status)
        BY <1>7 DEF TaskOk
    <2> QED
        BY <1>b, <1>c, <1>d, <2>1, <2>2 DEF Statuses
<1>8. ASSUME NEW t \in tasks, NEW e \in Failures, TaskError(t, e) PROVE Lifecycle!Next
    <2>1. UNCHANGED sent /\ EndTask(t)
        BY <1>8 DEF TaskError, history
    <2>2. CASE UNCHANGED future
        BY <1>b, <2>1, <2>2
    <2>3. CASE \E status \in {"error", "raised"} : future' = Settled(future, t.req, t.attempt, status)
        BY <1>b, <1>c, <1>d, <2>1, <2>3 DEF Statuses
    <2> QED
        BY <1>8, <2>2, <2>3 DEF TaskError
<1>9. ASSUME NEW b \in backoff, Requeue(b) PROVE Lifecycle!Next
    <2>1. /\ b.req \in Requests /\ b.attempt \in Attempts /\ b.attempt + 1 \in Attempts
          /\ b.attempt + 1 # 0
        BY <1>0 DEF Typed, Backing, Attempts
    <2>2. UNCHANGED <<tasks, sent>>
        BY <1>9 DEF Requeue, history
    <2>3. OnWire' = OnWire
        BY <2>2 DEF OnWire
    <2>4. CASE future' = [future EXCEPT ![b.req][b.attempt + 1] = "pending"]
        <3>1. \A q \in Requests : future'[q][0] = future[q][0]
            BY <1>0, <2>1, <2>4
        <3> QED
            BY <1>a, <2>2, <2>3, <3>1
    <2>5. CASE future' = Settled(future, b.req, b.attempt, "refused")
        BY <1>a, <1>c, <2>1, <2>2, <2>3, <2>5 DEF Statuses
    <2> QED
        BY <1>9, <2>4, <2>5 DEF Requeue
<1>10. ASSUME NEW r \in Requests, NEW k \in Attempts, Forward(r, k) PROVE Lifecycle!Next
    <2>1. UNCHANGED <<tasks, sent>> /\ future' = Settled(future, r, k - 1, future[r][k])
        BY <1>10 DEF Forward, history
    <2>2. future[r][k] \in Statuses \ {"none"} /\ k - 1 \in Attempts
        BY <1>0, <1>10 DEF Forward, Done, Attempts
    <2>3. OnWire' = OnWire
        BY <2>1 DEF OnWire
    <2> QED
        BY <1>a, <1>c, <2>1, <2>2, <2>3
<1>11. CASE Tick
    <2>1. UNCHANGED <<future, sent>>
        BY <1>11 DEF Tick
    <2>2. PICK f : f = [t \in tasks |-> [t EXCEPT !.ran = IF t.pc = "sending"
                                         THEN Lesser(@ + 1, Policy.totalTimeout) ELSE 0]]
        OBVIOUS
    <2>3. tasks' = {f[t] : t \in tasks}
        BY <1>11, <2>2 DEF Tick
    <2>4. \A t \in tasks : f[t].req = t.req /\ f[t].pc = t.pc
        BY <1>0, <2>2 DEF Task
    <2>5. OnWire' = OnWire
        BY <2>3, <2>4 DEF OnWire
    <2> QED
        BY <1>a, <2>1, <2>5
<1>12. CASE UNCHANGED vars
    <2>1. UNCHANGED <<future, tasks, sent>>
        BY <1>12 DEF vars, history
    <2> QED
        BY <2>1 DEF Lifecycle!vars
<1> QED
    BY <1>1, <1>2, <1>3, <1>4, <1>5, <1>6, <1>7, <1>8, <1>9, <1>10, <1>11, <1>12 DEF Next

\* QueueState implements RequestLifecycle: a call is on the wire once at a time
\* and at most Patience + 1 times, no more than `concurrent` are, and its caller
\* is answered once, with a response only if the call was sent, whatever
\* handlers raise and whoever is cancelled.
THEOREM KeepsLifecycle == Spec => Implements
<1>1. Init => Lifecycle!Init
    <2> SUFFICES ASSUME Init PROVE Lifecycle!Init
        OBVIOUS
    <2>1. OnWire = {} /\ Told0 = [r \in Requests |-> "none"] /\ sent = [r \in Requests |-> 0]
        BY QueueAssumption DEF Init, OnWire, Told0, Told, Attempts
    <2> QED
        BY <2>1 DEF Lifecycle!Init, OnWire, Told0, Told
<1> QED
    BY <1>1, LifecycleNext, Invariant, PTL DEF Spec, Implements, Lifecycle!Spec
=============================================================================
