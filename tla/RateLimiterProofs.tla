------------------------- MODULE RateLimiterProofs -------------------------
(***************************************************************************)
(* What RateLimiter guarantees for all limits, unlimited axes included,    *)
(* and all windows: its types, that a held bucket is empty, the bound on   *)
(* what each axis hands out, and that the wait it names is exact.  The     *)
(* bound is not inductive: IInv adds what is still in the bucket to what   *)
(* was spent, and measures the refill by the bucket's own `last` instead   *)
(* of the clock.                                                           *)
(***************************************************************************)
EXTENDS RateLimiter, TLAPS

\* A bucket that kept its type: the record type and the level's bound.
Sound(b) == b \in Bucket /\ b.level <= Full(b)

\* Spent and remaining tokens together never outgrow the base and the refill
\* credited so far; the bucket's clock never precedes the base, and runs ahead
\* of now only for a pause, which emptied the bucket.
Credited(a) ==
    /\ base[a].at <= bucket[a].last
    /\ spent[a] + bucket[a].level
         <= base[a].level + (bucket[a].last - base[a].at) * bucket[a].cap
    /\ bucket[a].last > now => bucket[a].level = 0 /\ bucket[a].last = base[a].at

IInv == TypeOK /\ \A a \in Axes : Credited(a)

-----------------------------------------------------------------------------
\* Multiplication by a natural keeps the order of naturals.
LEMMA TimesMonotone ==
    ASSUME NEW x \in Nat, NEW y \in Nat, NEW c \in Nat, x <= y
    PROVE  x * c <= y * c
<1>1. y * c = x * c + (y - x) * c
    OBVIOUS
<1>2. (y - x) \in Nat
    OBVIOUS
<1>3. (y - x) * c \in Nat
    BY <1>2
<1>4. x * c \in Nat
    OBVIOUS
<1> QED
    BY <1>1, <1>3, <1>4

\* Capacity times window is a natural.
LEMMA FullIsNat ==
    ASSUME NEW b \in Bucket
    PROVE  Full(b) \in Nat
    BY DEF Bucket, Full

\* _refill keeps the bucket's type, capacity and window, adds at most the
\* capacity per tick it credits, and moves `last` to now unless it is ahead.
LEMMA RefillSound ==
    ASSUME NEW b, Sound(b), NEW t \in Nat
    PROVE  LET r == Refill(b, t)
           IN  /\ Sound(r)
               /\ r.cap = b.cap /\ r.window = b.window
               /\ r.last >= b.last
               /\ r.level <= b.level + (r.last - b.last) * b.cap
               /\ r.last > t => r = b
<1> DEFINE r == Refill(b, t)
           gain == (t - b.last) * b.cap
<1>1. b \in Bucket /\ b.level <= Full(b) /\ Full(b) \in Nat
    BY FullIsNat DEF Sound
<1>2. CASE t <= b.last
    <2>1. r = b
        BY <1>2 DEF Refill
    <2>2. (b.last - b.last) * b.cap = 0
        BY <1>1 DEF Bucket
    <2>3. b.level <= b.level + (b.last - b.last) * b.cap
        BY <1>1, <2>2 DEF Bucket
    <2> QED
        BY <1>1, <2>1, <2>3 DEF Bucket, Sound
<1>3. CASE ~(t <= b.last)
    <2>1. r = [b EXCEPT !.level = Lesser(Full(b), b.level + gain), !.last = t]
        BY <1>3 DEF Refill
    <2>2. gain \in Nat
        <3>1. t - b.last \in Nat
            BY <1>1, <1>3 DEF Bucket
        <3> QED
            BY <1>1, <3>1 DEF Bucket
    <2>3. /\ Lesser(Full(b), b.level + gain) \in Nat
          /\ Lesser(Full(b), b.level + gain) <= Full(b)
          /\ Lesser(Full(b), b.level + gain) <= b.level + gain
        BY <1>1, <2>2 DEF Bucket, Lesser
    <2>4. r.cap = b.cap /\ r.window = b.window /\ r.last = t
          /\ r.level = Lesser(Full(b), b.level + gain)
        BY <1>1, <2>1 DEF Bucket
    <2>5. r \in Bucket
        BY <1>1, <2>1, <2>3 DEF Bucket
    <2>6. Full(r) = Full(b)
        BY <2>4 DEF Full
    <2> QED
        BY <1>1, <1>3, <2>3, <2>4, <2>5, <2>6 DEF Bucket, Sound
<1> QED
    BY <1>2, <1>3

\* try_consume: a refill, then the units asked for when they are there.
LEMMA ConsumeSound ==
    ASSUME NEW b, Sound(b), NEW t \in Nat, NEW n \in Nat
    PROVE  LET r == Refill(b, t)
               c == Consume(b, n, t)
               taken == IF Enough(b, n, t) THEN Units(b, n) ELSE 0
           IN  /\ Sound(c)
               /\ c.cap = b.cap /\ c.window = b.window /\ c.last = r.last
               /\ taken \in Nat
               /\ c.level = r.level - taken
<1> DEFINE r == Refill(b, t)
<1>1. Sound(r) /\ r.cap = b.cap /\ r.window = b.window
    BY RefillSound
<1>2. Units(b, n) \in Nat
    BY DEF Sound, Bucket, Units
<1>3. CASE Enough(b, n, t)
    <2>1. Consume(b, n, t) = [r EXCEPT !.level = r.level - Units(b, n)]
        BY <1>3 DEF Consume
    <2>2. r.level - Units(b, n) \in Nat
        BY <1>1, <1>2, <1>3 DEF Enough, Sound, Bucket
    <2>3. Consume(b, n, t) \in Bucket /\ Full(Consume(b, n, t)) = Full(r)
        BY <1>1, <2>1, <2>2 DEF Sound, Bucket, Full
    <2>4. Full(r) \in Nat
        BY <1>1, FullIsNat DEF Sound
    <2> QED
        BY <1>1, <1>2, <1>3, <2>1, <2>2, <2>3, <2>4 DEF Sound, Bucket
<1>4. CASE ~Enough(b, n, t)
    BY <1>1, <1>4 DEF Consume, Sound, Bucket
<1> QED
    BY <1>3, <1>4

\* Adopting what a header reports, or a pause's drain, keeps a bucket sound and
\* leaves either the bucket as it was or one that is empty if it is ahead of now.
LEMMA AdoptSound ==
    ASSUME NEW b, Sound(b), NEW t \in Nat, now = t, b.last > t => b.level = 0,
           NEW limit \in Limits \cup {Absent}, NEW remaining \in Remainings \cup {Absent}
    PROVE  LET c == Adopt(b, limit, remaining)
           IN  Sound(c) /\ (c.last > t => c.level = 0)
<1> DEFINE sized == IF limit = Absent THEN b ELSE SetCapacity(b, limit)
<1>1. Sound(sized) /\ (sized.last > t => sized.level = 0)
    <2>1. CASE limit = Absent
        BY <2>1
    <2>2. CASE limit # Absent
        <3>1. limit \in Nat \ {0}
            BY <2>2, LimiterAssumption
        <3>2. limit * b.window \in Nat
            BY <3>1 DEF Sound, Bucket
        <3>3. /\ Lesser(b.level, limit * b.window) \in Nat
              /\ Lesser(b.level, limit * b.window) <= limit * b.window
              /\ b.level = 0 => Lesser(b.level, limit * b.window) = 0
            BY <3>2 DEF Lesser, Sound, Bucket
        <3> QED
            BY <2>2, <3>1, <3>3 DEF SetCapacity, Sound, Bucket, Full
    <2> QED
        BY <2>1, <2>2
<1>2. CASE remaining = Absent
    BY <1>1, <1>2 DEF Adopt
<1>3. CASE remaining # Absent
    <2>1. remaining \in Nat
        BY <1>3, LimiterAssumption
    <2>2. Units(sized, remaining) \in Nat /\ Full(sized) \in Nat
        BY <1>1, <2>1, FullIsNat DEF Units, Sound, Bucket
    <2> DEFINE level == Lesser(Units(sized, remaining), Full(sized))
    <2>3. level \in Nat /\ level <= Full(sized)
        BY <2>2 DEF Lesser
    <2>4. Adopt(b, limit, remaining) = [sized EXCEPT !.level = level, !.last = t]
        BY <1>3 DEF Adopt, SetRemaining
    <2>5. sized \in Bucket
        BY <1>1 DEF Sound
    <2> HIDE DEF sized, level
    <2>6. /\ Adopt(b, limit, remaining) \in Bucket
          /\ Adopt(b, limit, remaining).level = level
          /\ Adopt(b, limit, remaining).last = t
          /\ Full(Adopt(b, limit, remaining)) = Full(sized)
        BY <2>3, <2>4, <2>5 DEF Bucket, Full
    <2> QED
        BY <2>3, <2>6 DEF Sound
<1> QED
    BY <1>2, <1>3

\* A bucket drained until a moment is sound, and empty where that moment is ahead of the clock.
LEMMA DrainSound ==
    ASSUME NEW b, Sound(b), NEW t \in Nat, NEW d \in Nat, b.last > t => b.level = 0
    PROVE  LET c == DrainUntil(b, t + d, t)
           IN  Sound(c) /\ (c.last > t => c.level = 0)
<1>1. Full(b) \in Nat
    BY FullIsNat DEF Sound
<1>2. CASE t + d > t
    <2>1. DrainUntil(b, t + d, t) = [b EXCEPT !.level = 0, !.last = t + d]
        BY <1>2 DEF DrainUntil
    <2>2. t + d \in Nat
        OBVIOUS
    <2>3. b \in Bucket
        BY DEF Sound
    <2> DEFINE reset == t + d
    <2> HIDE DEF reset
    <2>4. [b EXCEPT !.level = 0, !.last = reset] \in Bucket
        BY <2>2, <2>3 DEF Bucket, reset
    <2>5. Full(DrainUntil(b, t + d, t)) = Full(b) /\ DrainUntil(b, t + d, t).level = 0
        BY <2>1, <2>3 DEF Full, Bucket
    <2> QED
        BY <1>1, <2>1, <2>4, <2>5 DEF Sound, reset
<1>3. CASE ~(t + d > t)
    BY <1>3 DEF DrainUntil
<1> QED
    BY <1>2, <1>3

-----------------------------------------------------------------------------
\* An axis whose bucket only refilled and gave out `taken` units keeps Credited.
LEMMA CreditedAfterUse ==
    ASSUME NEW b, Sound(b), NEW c, Sound(c), NEW r, Sound(r),
           NEW at \in Nat, NEW level \in Nat, NEW paid \in Nat, NEW taken \in Nat,
           r.cap = b.cap, c.cap = b.cap, r.last >= b.last, c.last = r.last,
           r.level <= b.level + (r.last - b.last) * b.cap,
           c.level = r.level - taken,
           at <= b.last,
           paid + b.level <= level + (b.last - at) * b.cap
    PROVE  /\ at <= c.last
           /\ (paid + taken) + c.level <= level + (c.last - at) * c.cap
<1>1. (b.last - at) * b.cap + (r.last - b.last) * b.cap = (r.last - at) * b.cap
    BY DEF Sound, Bucket
<1>2. /\ (b.last - at) * b.cap \in Int
      /\ (r.last - b.last) * b.cap \in Int
    BY DEF Sound, Bucket
<1> QED
    BY <1>1, <1>2 DEF Sound, Bucket

\* IInv is inductive.
LEMMA Inductive ==
    IInv /\ [Next]_vars => IInv'
<1> SUFFICES ASSUME IInv, [Next]_vars
             PROVE  IInv'
    OBVIOUS
<1> USE LimiterAssumption
<1>0. /\ now \in Nat
      /\ bucket \in [Axes -> Bucket]
      /\ base \in [Axes -> [level : Nat, at : Nat]]
      /\ spent \in [Axes -> Nat]
      /\ \A a \in Axes : Sound(bucket[a]) /\ Credited(a)
    BY DEF IInv, TypeOK, Sound
\* It suffices to show each axis' bucket sound, its history typed and Credited.
<1>a. ASSUME now' \in Nat,
             \A a \in Axes : Sound(bucket'[a]) /\ Credited(a)',
             bucket' = [a \in Axes |-> bucket'[a]],
             base' \in [Axes -> [level : Nat, at : Nat]],
             spent' \in [Axes -> Nat]
      PROVE  IInv'
    <2>1. bucket' \in [Axes -> Bucket]
        BY <1>a DEF Sound
    <2> QED
        BY <1>a, <2>1 DEF IInv, TypeOK, Sound
<1>1. ASSUME NEW est \in Estimates, CanProceed(est)
      PROVE  IInv'
    <2> DEFINE taken(a) == IF Reached(a, est) /\ Has(a, est)
                           THEN Units(bucket[a], Need(a, est)) ELSE 0
    <2>1. now' = now /\ base' = base
        BY <1>1 DEF CanProceed
    <2>2. ASSUME NEW a \in Axes
          PROVE  /\ Sound(bucket'[a]) /\ Credited(a)'
                 /\ spent'[a] \in Nat
        <3>1. est \in Nat /\ Need(a, est) \in Nat
            BY DEF Need
        <3>2. /\ bucket'[a] = IF Reached(a, est)
                              THEN Consume(bucket[a], Need(a, est), now) ELSE bucket[a]
              /\ spent'[a] = IF Reached(a, est) /\ Has(a, est)
                             THEN spent[a] + Units(bucket[a], Need(a, est)) ELSE spent[a]
            BY <1>1 DEF CanProceed
        <3>3. CASE ~Reached(a, est)
            BY <1>0, <2>1, <3>2, <3>3 DEF Credited
        <3>4. CASE Reached(a, est)
            <4> DEFINE r == Refill(bucket[a], now)
            <4>0. /\ bucket'[a] = Consume(bucket[a], Need(a, est), now)
                  /\ taken(a) = IF Enough(bucket[a], Need(a, est), now)
                               THEN Units(bucket[a], Need(a, est)) ELSE 0
                  /\ Sound(bucket[a])
                BY <1>0, <3>2, <3>4 DEF Has
            <4> HIDE DEF taken
            <4>1. /\ Sound(bucket'[a]) /\ bucket'[a].cap = bucket[a].cap
                  /\ bucket'[a].last = r.last
                  /\ taken(a) \in Nat /\ bucket'[a].level = r.level - taken(a)
                <5> DEFINE b == bucket[a]
                           n == Need(a, est)
                <5>1. Sound(b) /\ now \in Nat /\ n \in Nat
                    BY <1>0, <3>1
                <5> HIDE DEF b, n
                <5>2. LET c == Consume(b, n, now)
                          paid == IF Enough(b, n, now) THEN Units(b, n) ELSE 0
                      IN  /\ Sound(c) /\ c.cap = b.cap /\ c.last = Refill(b, now).last
                          /\ paid \in Nat /\ c.level = Refill(b, now).level - paid
                    BY <5>1, ConsumeSound
                <5> QED
                    BY <4>0, <5>2 DEF b, n
            <4>2. /\ Sound(r) /\ r.cap = bucket[a].cap /\ r.last >= bucket[a].last
                  /\ r.level <= bucket[a].level + (r.last - bucket[a].last) * bucket[a].cap
                  /\ r.last > now => r = bucket[a]
                BY <1>0, RefillSound
            <4>3. spent'[a] = spent[a] + taken(a)
                BY <1>0, <3>2, <3>4 DEF Sound, Bucket, taken
            <4> HIDE DEF r
            <4>b. /\ base[a].at \in Nat /\ base[a].level \in Nat /\ spent[a] \in Nat
                  /\ base[a].at <= bucket[a].last
                  /\ spent[a] + bucket[a].level
                       <= base[a].level + (bucket[a].last - base[a].at) * bucket[a].cap
                BY <1>0 DEF Credited
            <4>4. /\ base[a].at <= bucket'[a].last
                  /\ (spent[a] + taken(a)) + bucket'[a].level
                       <= base[a].level + (bucket'[a].last - base[a].at) * bucket'[a].cap
                <5> DEFINE b == bucket[a]
                           c == bucket'[a]
                           at == base[a].at
                           level == base[a].level
                           paid == spent[a]
                           out == taken(a)
                <5>1. /\ Sound(b) /\ Sound(c) /\ Sound(r)
                      /\ at \in Nat /\ level \in Nat /\ paid \in Nat /\ out \in Nat
                      /\ r.cap = b.cap /\ c.cap = b.cap /\ r.last >= b.last /\ c.last = r.last
                      /\ r.level <= b.level + (r.last - b.last) * b.cap
                      /\ c.level = r.level - out
                      /\ at <= b.last
                      /\ paid + b.level <= level + (b.last - at) * b.cap
                    BY <4>0, <4>1, <4>2, <4>b
                <5> HIDE DEF b, c, at, level, paid, out
                <5>2. /\ at <= c.last
                      /\ (paid + out) + c.level <= level + (c.last - at) * c.cap
                    BY <5>1, CreditedAfterUse
                <5> QED
                    BY <5>2 DEF b, c, at, level, paid, out
            <4>5. bucket'[a].last > now => bucket'[a].level = 0 /\ bucket'[a].last = base[a].at
                BY <1>0, <4>1, <4>2 DEF Credited, Sound, Bucket
            <4> QED
                BY <1>0, <2>1, <4>1, <4>3, <4>4, <4>5 DEF Credited
        <3> QED
            BY <3>3, <3>4
    <2>3. bucket' = [a \in Axes |-> bucket'[a]] /\ spent' = [a \in Axes |-> spent'[a]]
        BY <1>1 DEF CanProceed
    <2> QED
        BY <1>a, <1>0, <2>1, <2>2, <2>3
<1>2. ASSUME NEW est \in Estimates, AskWait(est)
      PROVE  IInv'
    <2>1. now' = now /\ base' = base /\ spent' = spent
        BY <1>2 DEF AskWait
    <2>2. ASSUME NEW a \in Axes
          PROVE  Sound(bucket'[a]) /\ Credited(a)'
        <3> DEFINE r == Refill(bucket[a], now)
        <3>1. bucket'[a] = IF Asked(a, est) THEN r ELSE bucket[a]
            BY <1>2 DEF AskWait
        <3>2. CASE ~Asked(a, est)
            BY <1>0, <2>1, <3>1, <3>2 DEF Credited
        <3>3. CASE Asked(a, est)
            <4>1. /\ Sound(r) /\ r.cap = bucket[a].cap /\ r.last >= bucket[a].last
                  /\ r.level <= bucket[a].level + (r.last - bucket[a].last) * bucket[a].cap
                  /\ r.last > now => r = bucket[a]
                BY <1>0, RefillSound
            <4> HIDE DEF r
            <4>2. r.level = r.level - 0
                BY <4>1 DEF Sound, Bucket
            <4>3. /\ base[a].at <= r.last
                  /\ (spent[a] + 0) + r.level
                       <= base[a].level + (r.last - base[a].at) * r.cap
                BY <1>0, <4>1, <4>2, CreditedAfterUse DEF Credited
            <4>4. spent[a] + 0 = spent[a]
                BY <1>0
            <4> QED
                BY <1>0, <2>1, <3>1, <3>3, <4>1, <4>3, <4>4 DEF Credited
        <3> QED
            BY <3>2, <3>3
    <2>3. bucket' = [a \in Axes |-> bucket'[a]]
        BY <1>2 DEF AskWait
    <2> QED
        BY <1>a, <1>0, <2>1, <2>2, <2>3
\* Rebase to sound buckets that are empty when held keeps IInv.
<1>b. ASSUME NEW newBucket, newBucket = [a \in Axes |-> newBucket[a]],
             Rebase(newBucket), now' = now,
             \A a \in Axes : Sound(newBucket[a])
                              /\ (newBucket[a].last > now => newBucket[a].level = 0)
      PROVE  IInv'
    <2>1. ASSUME NEW a \in Axes
          PROVE  /\ Sound(bucket'[a]) /\ Credited(a)'
                 /\ base'[a] \in [level : Nat, at : Nat] /\ spent'[a] \in Nat
        <3>1. /\ bucket'[a] = newBucket[a]
              /\ base'[a] = IF newBucket[a] = bucket[a] THEN base[a]
                            ELSE [level |-> newBucket[a].level, at |-> newBucket[a].last]
              /\ spent'[a] = IF newBucket[a] = bucket[a] THEN spent[a] ELSE 0
            BY <1>b DEF Rebase
        <3>2. CASE newBucket[a] = bucket[a]
            BY <1>b, <1>0, <3>1, <3>2 DEF Credited
        <3>3. CASE newBucket[a] # bucket[a]
            <4>1. /\ base'[a].level = newBucket[a].level /\ base'[a].at = newBucket[a].last
                  /\ spent'[a] = 0
                BY <3>1, <3>3
            <4>2. newBucket[a].level \in Nat /\ newBucket[a].last \in Nat
                  /\ newBucket[a].cap \in Nat
                BY <1>b DEF Sound, Bucket
            <4>3. (newBucket[a].last - newBucket[a].last) * newBucket[a].cap = 0
                BY <4>2
            <4>4. Credited(a)'
                BY <1>b, <3>1, <4>1, <4>2, <4>3 DEF Credited
            <4> QED
                BY <1>b, <3>1, <3>3, <4>2, <4>4
        <3> QED
            BY <3>2, <3>3
    <2>2. /\ bucket' = [a \in Axes |-> bucket'[a]]
          /\ base' = [a \in Axes |-> base'[a]]
          /\ spent' = [a \in Axes |-> spent'[a]]
        BY <1>b DEF Rebase
    <2> QED
        BY <1>a, <1>b, <1>0, <2>1, <2>2
<1>3. ASSUME NEW lim \in LimitValues, NEW rem \in RemainingValues, UpdateFromHeaders(lim, rem)
      PROVE  IInv'
    <2> DEFINE new == [a \in Axes |-> IF a = "rpd" THEN bucket[a]
                                      ELSE Adopt(bucket[a], lim[a], rem[a])]
    <2>1. ASSUME NEW a \in Axes
          PROVE  Sound(new[a]) /\ (new[a].last > now => new[a].level = 0)
        <3>1. CASE a = "rpd"
            BY <1>0, <3>1 DEF Credited
        <3>2. CASE a # "rpd"
            <4>1. lim[a] \in Limits \cup {Absent} /\ rem[a] \in Remainings \cup {Absent}
                BY <3>2 DEF LimitValues, RemainingValues, HeaderAxes
            <4>2. bucket[a].last > now => bucket[a].level = 0
                BY <1>0 DEF Credited
            <4>3. new[a] = Adopt(bucket[a], lim[a], rem[a]) /\ Sound(bucket[a])
                BY <1>0, <3>2
            <4> DEFINE b == bucket[a]
                       limit == lim[a]
                       remaining == rem[a]
            <4>4. now \in Nat
                BY <1>0
            <4> HIDE DEF new, b, limit, remaining
            <4>5. LET c == Adopt(b, limit, remaining)
                  IN  Sound(c) /\ (c.last > now => c.level = 0)
                <5>1. limit \in Limits \cup {Absent} /\ remaining \in Remainings \cup {Absent} /\ Sound(b)
                    BY <4>1, <4>3 DEF b, limit, remaining
                <5>2. b.last > now => b.level = 0
                    BY <4>2 DEF b
                <5> QED
                    BY <4>4, <5>1, <5>2, AdoptSound
            <4> QED
                BY <4>3, <4>5 DEF b, limit, remaining
        <3> QED
            BY <3>1, <3>2
    <2>2. Rebase(new) /\ now' = now
        BY <1>3 DEF UpdateFromHeaders
    <2>3. new = [a \in Axes |-> new[a]]
        OBVIOUS
    <2> HIDE DEF new
    <2> QED
        BY <1>b, <2>1, <2>2, <2>3
<1>4. ASSUME NEW d \in Pauses, Pause(d)
      PROVE  IInv'
    <2> DEFINE new == [a \in Axes |-> IF a = "rpm" THEN DrainUntil(bucket[a], now + d, now)
                                      ELSE bucket[a]]
    <2>1. ASSUME NEW a \in Axes
          PROVE  Sound(new[a]) /\ (new[a].last > now => new[a].level = 0)
        <3>1. bucket[a].last > now => bucket[a].level = 0
            BY <1>0 DEF Credited
        <3>2. d \in Nat
            OBVIOUS
        <3> QED
            BY <1>0, <3>1, <3>2, DrainSound
    <2>2. Rebase(new) /\ now' = now
        BY <1>4 DEF Pause
    <2>3. new = [a \in Axes |-> new[a]]
        OBVIOUS
    <2> HIDE DEF new
    <2> QED
        BY <1>b, <2>1, <2>2, <2>3
<1>5. CASE Tick
    <2>1. now' = now + 1 /\ bucket' = bucket /\ base' = base /\ spent' = spent
        BY <1>5 DEF Tick
    <2>2. ASSUME NEW a \in Axes
          PROVE  Sound(bucket'[a]) /\ Credited(a)'
        BY <1>0, <2>1 DEF Credited, Sound, Bucket
    <2> QED
        BY <1>a, <1>0, <2>1, <2>2
<1>6. CASE UNCHANGED vars
    BY <1>6, <1>0 DEF vars, IInv, TypeOK, Credited
<1> QED
    BY <1>1, <1>2, <1>3, <1>4, <1>5, <1>6 DEF Next

\* Only an axis with a limit has a bucket.
LEMMA AxesHaveLimits ==
    ASSUME NEW a \in Axes
    PROVE  a \in {"rpm", "rpd", "tpm"} /\ Limit[a] \in Nat \ {0}
BY LimiterAssumption DEF Axes, Limit

\* Full buckets keep the invariant.
LEMMA Initial == Init => IInv
<1> SUFFICES ASSUME Init PROVE IInv
    OBVIOUS
<1> USE LimiterAssumption
<1>1. ASSUME NEW a \in Axes
      PROVE  /\ bucket[a] \in Bucket /\ bucket[a].level <= Full(bucket[a])
             /\ base[a] \in [level : Nat, at : Nat]
             /\ Credited(a)
    <2>1. Limit[a] \in Nat \ {0} /\ Window(a) \in Nat \ {0}
        BY AxesHaveLimits DEF Window
    <2>2. Limit[a] * Window(a) \in Nat
        BY <2>1
    <2>3. /\ bucket[a] = [cap |-> Limit[a], window |-> Window(a),
                          level |-> Limit[a] * Window(a), last |-> 0]
          /\ base[a] = [level |-> Limit[a] * Window(a), at |-> 0]
          /\ spent[a] = 0 /\ now = 0
        BY DEF Init, NewBucket
    <2>4. (0 - 0) * Limit[a] = 0
        BY <2>1
    <2> QED
        BY <2>1, <2>2, <2>3, <2>4 DEF Bucket, Full, Credited
<1>2. /\ bucket = [a \in Axes |-> bucket[a]] /\ base = [a \in Axes |-> base[a]]
      /\ spent \in [Axes -> Nat] /\ now \in Nat
    BY DEF Init
<1> QED
    BY <1>1, <1>2 DEF IInv, TypeOK

\* The invariant holds in every reachable state of the limiter.
THEOREM Invariant == Spec => []IInv
<1> QED
    BY Initial, Inductive, PTL DEF Spec

-----------------------------------------------------------------------------
\* Every reachable state has its type, and no level exceeds its capacity.
THEOREM TypeCorrect == Spec => []TypeOK
<1>1. IInv => TypeOK
    BY DEF IInv
<1> QED
    BY <1>1, Invariant, PTL

\* While a pause lasts its bucket is empty: no header, refill or refused ask
\* leaves a token in it.
THEOREM PauseEmpties == Spec => []HeldIsEmpty
<1>1. IInv => HeldIsEmpty
    BY DEF IInv, Credited, HeldIsEmpty
<1> QED
    BY <1>1, Invariant, PTL

\* On every axis, what was spent since the level was last set from outside is
\* at most that level and the refill of the time since.
THEOREM RateBounded == Spec => []RateBound
<1>1. ASSUME IInv PROVE RateBound
    <2> SUFFICES ASSUME NEW a \in Axes
                 PROVE  spent[a] <= base[a].level
                                     + Greater(0, now - base[a].at) * bucket[a].cap
        BY DEF RateBound
    <2>1. /\ now \in Nat /\ spent[a] \in Nat
          /\ base[a].level \in Nat /\ base[a].at \in Nat
          /\ bucket[a].level \in Nat /\ bucket[a].last \in Nat /\ bucket[a].cap \in Nat
          /\ Credited(a)
        BY <1>1 DEF IInv, TypeOK, Bucket
    <2> DEFINE credited == bucket[a].last - base[a].at
               allowed == Greater(0, now - base[a].at)
    <2>2. credited \in Nat /\ allowed \in Nat /\ credited <= allowed
        BY <2>1 DEF Credited, Greater
    <2>3. credited * bucket[a].cap <= allowed * bucket[a].cap
        BY <2>1, <2>2, TimesMonotone
    <2>4. credited * bucket[a].cap \in Nat /\ allowed * bucket[a].cap \in Nat
        BY <2>1, <2>2
    <2>5. spent[a] + bucket[a].level <= base[a].level + credited * bucket[a].cap
        BY <2>1 DEF Credited
    <2> HIDE DEF credited, allowed
    <2>6. spent[a] <= base[a].level + allowed * bucket[a].cap
        BY <2>1, <2>3, <2>4, <2>5
    <2> QED
        BY <2>6 DEF allowed
<1> QED
    BY <1>1, Invariant, PTL

-----------------------------------------------------------------------------
\* A quotient rounded up is the first multiple that is no less.
LEMMA RoundedUp ==
    ASSUME NEW short \in Nat \ {0}, NEW c \in Nat \ {0}
    PROVE  LET q == (short + c - 1) \div c
           IN  q \in Nat \ {0} /\ q * c >= short /\ (q - 1) * c < short
<1> DEFINE a == short + c - 1
           q == a \div c
<1>1. a \in Nat /\ a >= c
    OBVIOUS
<1>2. q \in Int /\ c * q <= a /\ a < c * (q + 1)
    BY <1>1, Z3
<1>3. c * (q + 1) = q * c + c /\ c * q = q * c /\ (q - 1) * c = q * c - c
    BY <1>2
<1>4. q * c >= short /\ (q - 1) * c < short
    BY <1>2, <1>3
<1>5. q > 0
    <2> SUFFICES ASSUME q <= 0 PROVE FALSE
        BY <1>2
    <2>1. q * c <= 0
        BY <1>2
    <2> QED
        BY <1>4, <2>1
<1> QED
    BY <1>2, <1>4, <1>5

\* The level that a bucket has some ticks after its last refill.
LEMMA LevelAfter ==
    ASSUME NEW b, Sound(b), NEW t \in Nat, b.last <= t
    PROVE  Refill(b, t).level = Lesser(Full(b), b.level + (t - b.last) * b.cap)
<1>1. b \in Bucket /\ b.level <= Full(b) /\ Full(b) \in Nat
    BY FullIsNat DEF Sound
<1>2. CASE t = b.last
    <2>1. (t - b.last) * b.cap = 0
        BY <1>1, <1>2 DEF Bucket
    <2> QED
        BY <1>1, <1>2, <2>1 DEF Refill, Lesser, Bucket
<1>3. CASE t > b.last
    BY <1>1, <1>3 DEF Refill, Bucket
<1>4. b.last \in Nat
    BY <1>1 DEF Bucket
<1>5. t = b.last \/ t > b.last
    BY <1>4
<1> QED
    BY <1>2, <1>3, <1>5

\* wait_time_ms is the first moment at which the tokens are there, when no pause holds the bucket.
LEMMA WaitExact ==
    ASSUME NEW b, Sound(b), NEW t \in Nat, b.last <= t, NEW n \in 1 .. b.cap
    PROVE  LET wait == WaitTime(b, n, t)
           IN  /\ Enough(b, n, t + wait)
               /\ wait > 0 => ~Enough(b, n, t + wait - 1)
<1> DEFINE wait == WaitTime(b, n, t)
           units == Units(b, n)
           level == Refill(b, t).level
<1>1. b \in Bucket /\ b.level <= Full(b) /\ Full(b) \in Nat /\ n \in Nat
    BY FullIsNat DEF Sound, Bucket
<1>2. units \in Nat /\ units <= Full(b)
    BY <1>1, TimesMonotone DEF Units, Full, Bucket
<1>3. CASE Enough(b, n, t)
    BY <1>1, <1>3 DEF WaitTime
<1>4. CASE ~Enough(b, n, t)
    <2> DEFINE gained == (t - b.last) * b.cap
    <2>1. gained \in Nat
        <3>1. t - b.last \in Nat
            BY <1>1 DEF Bucket
        <3> QED
            BY <1>1, <3>1 DEF Bucket
    <2>2. level = Lesser(Full(b), b.level + gained) /\ level \in Nat
        BY <1>1, <2>1, LevelAfter DEF Lesser, Bucket
    <2>3. level < units /\ level = b.level + gained
        BY <1>1, <1>2, <1>4, <2>1, <2>2 DEF Enough, Lesser, Bucket
    <2>4. wait = (units - level + b.cap - 1) \div b.cap
        BY <1>4 DEF WaitTime
    <2>5. wait \in Nat \ {0} /\ wait * b.cap >= units - level /\ (wait - 1) * b.cap < units - level
        <3>1. units - level \in Nat \ {0} /\ b.cap \in Nat \ {0}
            BY <1>1, <1>2, <2>2, <2>3 DEF Bucket
        <3> HIDE DEF units, level, wait
        <3> QED
            BY <2>4, <3>1, RoundedUp
    <2>6. ASSUME NEW d \in Nat
          PROVE  /\ d * b.cap \in Nat
                 /\ Refill(b, t + d).level = Lesser(Full(b), level + d * b.cap)
        <3>1. (t + d - b.last) * b.cap = gained + d * b.cap
            BY <1>1 DEF Bucket
        <3>2. d * b.cap \in Nat
            BY <1>1 DEF Bucket
        <3> QED
            BY <1>1, <2>1, <2>3, <3>1, <3>2, LevelAfter DEF Bucket
    <2>7. Enough(b, n, t + wait)
        BY <1>1, <1>2, <2>2, <2>5, <2>6 DEF Enough, Lesser
    <2>8. ~Enough(b, n, t + wait - 1)
        <3>1. wait - 1 \in Nat /\ t + (wait - 1) = t + wait - 1
            BY <2>5
        <3>2. Refill(b, t + (wait - 1)).level = Lesser(Full(b), level + (wait - 1) * b.cap)
            BY <2>6, <3>1
        <3>3. (wait - 1) * b.cap \in Nat
            BY <2>6, <3>1
        <3> QED
            BY <1>1, <1>2, <2>2, <2>3, <2>5, <3>1, <3>2, <3>3 DEF Enough, Lesser
    <2> QED
        BY <2>7, <2>8
<1> QED
    BY <1>3, <1>4

\* The answer of wait_time_ms is exact on every axis, for every number of tokens the bucket can hold.
THEOREM WaitAlwaysExact == Spec => []WaitIsExact
<1>1. ASSUME IInv PROVE WaitIsExact
    <2>1. now \in Nat /\ \A a \in Axes : Sound(bucket[a])
        BY <1>1 DEF IInv, TypeOK, Sound
    <2> QED
        BY <2>1, WaitExact DEF WaitIsExact
<1> QED
    BY <1>1, Invariant, PTL
=============================================================================
