----------------------------- MODULE CallProofs -----------------------------
(***************************************************************************)
(* What RequestExecutor guarantees for all policies, layers, errors and    *)
(* durations: that a retry is made only where it may be and within the     *)
(* budget, and that the executor implements RequestLifecycle.  Neither     *)
(* WithinBudget nor NeverReplaysUnsafe is inductive: they are true of the  *)
(* next attempt because of what was decided before the sleep, which IInv   *)
(* says of each place the executor may be in.                              *)
(* Then what MCCall composes with it: the ledger for any threads, prices   *)
(* and calls (LedgerIInv), the cache for any readers, names and keys       *)
(* (CacheIInv).                                                            *)
(***************************************************************************)
EXTENDS MCCall, FiniteSetsExt, Folds, FiniteSetTheorems, WellFoundedInduction, SequenceTheorems, TLAPS

\* The clock and the attempt, by where the executor is.
Budgeted ==
    /\ pc \in {"new", "starting"} => took = 0
    /\ pc = "new" => attempt = 0
    /\ pc \in {"sending", "sleeping"} => took > 0
    /\ pc \in {"starting", "sending"} /\ attempt > 0 => elapsed < policy.totalTimeout + delay
    /\ pc = "sleeping" => elapsed < policy.totalTimeout

\* Another attempt, made or about to be, is one that the policy allows.
Allowed ==
    /\ pc \in {"new", "starting", "sending"} => attempt < MostTries
    /\ pc = "sleeping" => attempt + 1 < MostTries
    /\ pc = "sleeping" => body.replayable /\ ReplaySafe

Layered == layers \in [engine : EngineLayers, queue : QueueLayers, request : RequestLayers]

IInv ==
    /\ TypeOK /\ Layered /\ Budgeted /\ Allowed
    /\ WithinBudget /\ ServerWaitRespected /\ NeverReplaysUnsafe

-----------------------------------------------------------------------------
\* An override's number, or the base's where it sets none.
LEMMA OrIsNumber ==
    ASSUME NEW x \in Nat \cup {Unset}, NEW y \in Nat
    PROVE  Or(x, y) \in Nat
BY DEF Or

\* merge_retry of an override and a whole policy is a whole policy, of the same kinds of errors.
LEMMA MergeIsPolicy ==
    ASSUME NEW override, IsPolicy(override, Nat \cup {Unset}), NEW base, IsPolicy(base, Nat)
    PROVE  /\ IsPolicy(Merge(override, base), Nat)
           /\ DOMAIN Merge(override, base).perKind = DOMAIN base.perKind
<1> DEFINE m == Merge(override, base)
<1>1. \A f \in {"maxRetries", "totalTimeout", "attemptTimeout", "maxRetryAfter"} : m[f] = Or(override[f], base[f])
    BY DEF Merge
<1>2. \A f \in {"maxRetries", "totalTimeout", "attemptTimeout", "maxRetryAfter"} : m[f] \in Nat
    <2> TAKE f \in {"maxRetries", "totalTimeout", "attemptTimeout", "maxRetryAfter"}
    <2>1. override[f] \in Nat \cup {Unset} /\ base[f] \in Nat
        BY Zenon DEF IsPolicy
    <2> QED
        BY <1>1, <2>1, OrIsNumber, Zenon
<1>3. m.backoff = [f \in {"initial", "ceiling", "multiplier", "jitter"} |-> Or(override.backoff[f], base.backoff[f])]
    BY DEF Merge, IsPolicy
<1>4. \A f \in DOMAIN m.backoff : m.backoff[f] \in Nat
    <2> SUFFICES ASSUME NEW f \in {"initial", "ceiling", "multiplier", "jitter"}
                 PROVE  m.backoff[f] \in Nat
        BY <1>3
    <2>1. override.backoff[f] \in Nat \cup {Unset} /\ base.backoff[f] \in Nat
        BY Zenon DEF IsPolicy
    <2>2. m.backoff[f] = Or(override.backoff[f], base.backoff[f])
        BY <1>3
    <2> QED
        BY <2>1, <2>2, OrIsNumber, Zenon
<1>5. m.perKind = [k \in DOMAIN base.perKind |->
                      IF k \in DOMAIN override.perKind THEN override.perKind[k] ELSE base.perKind[k]]
    BY DEF Merge
<1>6. \A k \in DOMAIN m.perKind :
         m.perKind[k] \in [retryable : {"yes", "no", "unset"}, maxRetries : Nat \cup {Unset}, fixed : Nat \cup {Unset}]
    BY <1>5 DEF IsPolicy
<1> QED
    BY <1>2, <1>3, <1>4, <1>5, <1>6 DEF IsPolicy

\* The policy of a request is whole: nothing in it is left open.
LEMMA PolicyWhole ==
    ASSUME Layered
    PROVE  IsPolicy(policy, Nat) /\ DOMAIN policy.perKind = DOMAIN Default.perKind
<1>1. /\ IsPolicy(Default, Nat) /\ IsPolicy(layers.engine, Nat \cup {Unset})
      /\ IsPolicy(layers.queue, Nat \cup {Unset}) /\ IsPolicy(layers.request, Nat \cup {Unset})
    BY ExecutorAssumption DEF Layered
<1> DEFINE withEngine == Merge(layers.engine, Default)
           withQueue == Merge(layers.queue, withEngine)
<1>2. IsPolicy(withEngine, Nat) /\ DOMAIN withEngine.perKind = DOMAIN Default.perKind
    BY <1>1, MergeIsPolicy
<1>3. IsPolicy(withQueue, Nat) /\ DOMAIN withQueue.perKind = DOMAIN Default.perKind
    <2> HIDE DEF withEngine
    <2> QED
        BY <1>1, <1>2, MergeIsPolicy
<1>4. policy = Merge(layers.request, withQueue)
    BY DEF policy, RequestPolicy, QueuePolicy
<1> HIDE DEF withQueue
<1> QED
    BY <1>1, <1>3, <1>4, MergeIsPolicy

\* honored_retry_after_ms is a wait, or none.
LEMMA HonoredWait ==
    ASSUME Layered, NEW e \in AnyError
    PROVE  /\ Honored(e, policy) \in Nat \cup {Unset}
           /\ e.retryAfter > 0 /\ ~TooLong(e, policy) => Honored(e, policy) = e.retryAfter
<1>1. policy.maxRetryAfter \in Nat /\ e.retryAfter \in Int
    BY PolicyWhole DEF IsPolicy, AnyError
<1> QED
    BY <1>1 DEF Honored, TooLong, Unset

\* A delay is a number of ticks, and the one the server named if it named one that is not too long.
LEMMA DelayRight ==
    ASSUME Layered, NEW e \in AnyError, NEW n \in Nat, NEW d \in Backoffs(n, e, policy)
    PROVE  d \in Nat /\ (e.retryAfter > 0 /\ ~TooLong(e, policy) => d = e.retryAfter)
<1> DEFINE honored == Honored(e, policy)
           fixed == policy.perKind[e.kind].fixed
<1>1. honored \in Nat \cup {Unset} /\ (e.retryAfter > 0 /\ ~TooLong(e, policy) => honored = e.retryAfter)
    BY HonoredWait
<1>2. fixed \in Nat \cup {Unset}
    BY PolicyWhole DEF IsPolicy, AnyError
<1>3. e.retryAfter \in Int
    BY DEF AnyError
<1>4. CASE honored # Unset
    BY <1>1, <1>4 DEF Backoffs, Unset
<1>5. CASE honored = Unset
    <2>1. ~(e.retryAfter > 0 /\ ~TooLong(e, policy))
        BY <1>1, <1>3, <1>5 DEF Unset
    <2>2. CASE fixed > 0
        BY <1>2, <1>5, <2>1, <2>2 DEF Backoffs, Unset
    <2>3. CASE ~(fixed > 0)
        <3>1. \E bound : d \in 0 .. bound
            BY <1>5, <2>3 DEF Backoffs
        <3> QED
            BY <2>1, <3>1
    <2> QED
        BY <2>2, <2>3
<1> QED
    BY <1>4, <1>5

\* What should_retry has found when it says yes.
LEMMA WillingMeans ==
    ASSUME Layered, NEW e \in Errors \cup {TimeoutError}, NEW spent \in Nat, attempt \in Nat, Willing(e, spent)
    PROVE  /\ attempt + 1 < MostTries
           /\ spent < policy.totalTimeout
           /\ body.replayable /\ ReplaySafe
           /\ ~TooLong(e, policy)
<1>1. attempt < MaxRetries(e.kind, policy, layers.request.maxRetries)
    BY DEF Willing, ShouldRetry
<1>2. MaxRetries(e.kind, policy, layers.request.maxRetries) < MostTries
    BY ExecutorAssumption DEF Layered, policy
<1>3. MaxRetries(e.kind, policy, layers.request.maxRetries) \in Nat
    <2>1. policy.maxRetries \in Nat /\ layers.request.maxRetries \in Nat \cup {Unset}
        BY PolicyWhole, ExecutorAssumption DEF IsPolicy, Layered
    <2>2. policy.perKind[e.kind].maxRetries \in Nat \cup {Unset}
        BY PolicyWhole, ExecutorAssumption DEF IsPolicy, AnyError
    <2> QED
        BY <2>1, <2>2 DEF MaxRetries, Or
<1>4. attempt + 1 < MostTries
    BY <1>1, <1>2, <1>3, ExecutorAssumption
<1> QED
    BY <1>4 DEF Willing, ShouldRetry

-----------------------------------------------------------------------------
\* A call that has not begun satisfies the invariant.
LEMMA Initial == Init => IInv
<1> SUFFICES ASSUME Init PROVE IInv
    OBVIOUS
<1>1. TypeOK
    <2>1. body \in Body
        BY ExecutorAssumption DEF Init
    <2> QED
        BY <2>1 DEF Init, TypeOK
<1>2. attempt < MostTries
    BY ExecutorAssumption DEF Init
<1> QED
    BY <1>1, <1>2 DEF Init, IInv, Layered, Budgeted, Allowed, WithinBudget, ServerWaitRespected, NeverReplaysUnsafe

\* An attempt that failed: the executor crashes, sleeps or gives up.
LEMMA DecideKeeps ==
    ASSUME IInv, pc = "sending", NEW e \in Errors \cup {TimeoutError}, Decide(e, elapsed + took)
    PROVE  IInv'
<1>1. /\ body' = body /\ layers' = layers /\ attempt' = attempt /\ took' = took
      /\ error' = e /\ elapsed' = elapsed + took
      /\ policy' = policy /\ (ReplaySafe <=> ReplaySafe')
    BY DEF Decide, config, policy, ReplaySafe, Approved
<1>2. /\ body \in Body /\ attempt \in Nat /\ elapsed \in Nat /\ took \in Nat \ {0} /\ delay \in Nat
      /\ elapsed + took \in Nat /\ attempt < MostTries /\ Layered
      /\ attempt > 0 => elapsed < policy.totalTimeout + delay
    BY ExecutorAssumption DEF IInv, TypeOK, Budgeted, Allowed
<1>3. policy.totalTimeout \in Nat
    BY <1>2, PolicyWhole DEF IsPolicy
<1>4. CASE pc' = "sleeping"
    <2>1. Willing(e, elapsed + took) /\ delay' \in Backoffs(attempt, e, policy) /\ outcome' = outcome
        BY <1>4 DEF Decide, Finish
    <2>2. /\ attempt + 1 < MostTries /\ elapsed' < policy.totalTimeout
          /\ body.replayable /\ ReplaySafe /\ ~TooLong(e, policy)
        BY <1>1, <1>2, <2>1, WillingMeans
    <2>3. delay' \in Nat /\ (e.retryAfter > 0 => delay' = e.retryAfter)
        BY <1>2, <2>1, <2>2, DelayRight, ExecutorAssumption
    <2>4. TypeOK'
        BY <1>1, <1>2, <1>4, <2>1, <2>3 DEF IInv, TypeOK
    <2>5. Budgeted' /\ WithinBudget'
        BY <1>1, <1>2, <1>3, <1>4, <2>2, <2>3 DEF Budgeted, WithinBudget
    <2>6. Allowed' /\ NeverReplaysUnsafe' /\ ServerWaitRespected' /\ Layered'
        BY <1>1, <1>2, <1>4, <2>2, <2>3 DEF IInv, Allowed, NeverReplaysUnsafe, ServerWaitRespected, Layered
    <2> QED
        BY <2>4, <2>5, <2>6 DEF IInv
<1>5. CASE pc' # "sleeping"
    <2>1. pc' = "done" /\ outcome' \in {"crash", "error"} /\ delay' = delay
        BY <1>5 DEF Decide, Finish
    <2>2. TypeOK'
        BY <1>1, <1>2, <2>1 DEF IInv, TypeOK
    <2>3. Budgeted' /\ WithinBudget'
        BY <1>1, <1>2, <1>3, <2>1 DEF Budgeted, WithinBudget
    <2>4. Allowed' /\ NeverReplaysUnsafe' /\ ServerWaitRespected' /\ Layered'
        BY <1>1, <1>2, <2>1 DEF IInv, Allowed, NeverReplaysUnsafe, ServerWaitRespected, Layered
    <2> QED
        BY <2>2, <2>3, <2>4 DEF IInv
<1> QED
    BY <1>4, <1>5

\* Every step of execute keeps it.
LEMMA Inductive == IInv /\ [Next]_vars => IInv'
<1> SUFFICES ASSUME IInv, [Next]_vars PROVE IInv'
    OBVIOUS
<1> USE ExecutorAssumption DEF IInv, TypeOK, Layered
<1>0. policy.totalTimeout \in Nat
    BY PolicyWhole DEF IsPolicy
<1>a. config' = config => /\ layers' = layers /\ body' = body /\ policy' = policy
                          /\ (ReplaySafe <=> ReplaySafe')
    BY DEF config, policy, ReplaySafe, Approved
<1>1. CASE Call
    BY <1>1, <1>a DEF Call, Budgeted, Allowed, WithinBudget, ServerWaitRespected, NeverReplaysUnsafe
<1>2. CASE Send
    <2>1. PICK d \in Durations : took' = d
        BY <1>2 DEF Send
    <2>2. /\ pc = "starting" /\ pc' = "sending" /\ config' = config /\ attempt' = attempt /\ elapsed' = elapsed
          /\ delay' = delay /\ error' = error /\ outcome' = outcome /\ took' \in Nat \ {0}
        BY <1>2, <2>1 DEF Send
    <2>3. Budgeted' /\ WithinBudget'
        BY <1>0, <1>a, <2>2 DEF Budgeted, WithinBudget
    <2> QED
        BY <1>a, <2>1, <2>2, <2>3 DEF Allowed, ServerWaitRespected, NeverReplaysUnsafe
<1>3. CASE Succeed
    <2>1. /\ pc = "sending" /\ pc' = "done" /\ outcome' = "response" /\ config' = config /\ attempt' = attempt
          /\ elapsed' = elapsed + took /\ took' = took /\ delay' = delay /\ error' = error
        BY <1>3 DEF Succeed, Finish
    <2>2. Budgeted' /\ WithinBudget'
        BY <1>0, <1>a, <2>1 DEF Budgeted, WithinBudget
    <2> QED
        BY <1>a, <2>1, <2>2 DEF Allowed, ServerWaitRespected, NeverReplaysUnsafe
<1>4. CASE Fail
    BY <1>4, DecideKeeps DEF Fail
<1>5. CASE TimeOut
    BY <1>5, DecideKeeps DEF TimeOut
<1>6. CASE Wake
    <2>1. /\ pc = "sleeping" /\ pc' = "starting" /\ config' = config /\ attempt' = attempt + 1
          /\ elapsed' = elapsed + delay /\ took' = 0 /\ delay' = delay /\ error' = error /\ outcome' = outcome
        BY <1>6 DEF Wake, Rested
    <2>2. Budgeted' /\ WithinBudget'
        BY <1>0, <1>a, <2>1 DEF Budgeted, WithinBudget
    <2>3. NeverReplaysUnsafe'
        BY <1>a, <2>1 DEF NeverReplaysUnsafe, Allowed, ReplaySafe, Approved
    <2> QED
        BY <1>a, <2>1, <2>2, <2>3 DEF Allowed, ServerWaitRespected
<1>7. CASE HookRaises
    <2>1. /\ pc \in {"starting", "sending"} /\ pc' = "done" /\ outcome' = "hook" /\ config' = config
          /\ attempt' = attempt /\ elapsed' = elapsed /\ took' = took /\ delay' = delay /\ error' = error
        BY <1>7 DEF HookRaises, Finish
    <2>2. Budgeted' /\ WithinBudget'
        BY <1>0, <1>a, <2>1 DEF Budgeted, WithinBudget
    <2> QED
        BY <1>a, <2>1, <2>2 DEF Allowed, ServerWaitRespected, NeverReplaysUnsafe
<1>8. CASE UNCHANGED vars
    <2>1. config' = config
        BY <1>8 DEF vars, config
    <2> QED
        BY <1>8, <1>a, <2>1 DEF vars, Budgeted, Allowed, WithinBudget, ServerWaitRespected, NeverReplaysUnsafe
<1> QED
    BY <1>1, <1>2, <1>3, <1>4, <1>5, <1>6, <1>7, <1>8 DEF Next

\* The invariant holds in every reachable state of a call.
THEOREM Invariant == Spec => []IInv
<1> QED
    BY Initial, Inductive, PTL DEF Spec

\* Every reachable state of a call has its type, for all policies and errors.
THEOREM TypeCorrect == Spec => []TypeOK
<1>1. IInv => TypeOK
    BY DEF IInv
<1> QED
    BY <1>1, Invariant, PTL

-----------------------------------------------------------------------------
\* The first of four values that is set is found by its place.
LEMMA FirstSetIs ==
    ASSUME NEW request, NEW queue, NEW engine, NEW default, default # Unset
    PROVE  FirstSet(request, queue, engine, default) = Or(request, Or(queue, Or(engine, default)))
<1> DEFINE values == <<request, queue, engine, default>>
           set == {i \in 1 .. 4 : values[i] # Unset}
           first == CHOOSE i \in set : \A j \in set : i <= j
<1>1. ASSUME NEW m \in set, \A j \in set : m <= j
      PROVE  first = m
    <2>1. first \in set /\ \A j \in set : first <= j
        BY <1>1, Zenon
    <2> HIDE DEF first
    <2>2. first <= m /\ m <= first
        BY <1>1, <2>1, Zenon
    <2> QED
        BY <1>1, <2>1, <2>2
<1>2. FirstSet(request, queue, engine, default) = values[first]
    BY Zenon DEF FirstSet
<1> HIDE DEF first
<1>3. CASE request # Unset
    BY <1>1, <1>2, <1>3 DEF Or
<1>4. CASE request = Unset /\ queue # Unset
    BY <1>1, <1>2, <1>4 DEF Or
<1>5. CASE request = Unset /\ queue = Unset /\ engine # Unset
    BY <1>1, <1>2, <1>5 DEF Or
<1>6. CASE request = Unset /\ queue = Unset /\ engine = Unset
    BY <1>1, <1>2, <1>6 DEF Or
<1> QED
    BY <1>3, <1>4, <1>5, <1>6

\* However the layers overlap, each knob has the value of the narrowest layer that sets it.
LEMMA Narrowest == Layered => NarrowestWins
<1> SUFFICES ASSUME Layered PROVE NarrowestWins
    OBVIOUS
<1> DEFINE names == {"maxRetries", "totalTimeout", "attemptTimeout", "maxRetryAfter"}
           withEngine == Merge(layers.engine, Default)
           withQueue == Merge(layers.queue, withEngine)
<1>1. policy = Merge(layers.request, withQueue) /\ IsPolicy(Default, Nat)
    BY ExecutorAssumption DEF policy, RequestPolicy, QueuePolicy
<1>2. ASSUME NEW f \in names
      PROVE  policy[f] = FirstSet(layers.request[f], layers.queue[f], layers.engine[f], Default[f])
    <2>1. ASSUME NEW o, NEW b
          PROVE  Merge(o, b)[f] = Or(o[f], b[f])
        BY DEF Merge
    <2>2. /\ withEngine[f] = Or(layers.engine[f], Default[f])
          /\ withQueue[f] = Or(layers.queue[f], withEngine[f])
          /\ policy[f] = Or(layers.request[f], withQueue[f])
        BY <1>1, <2>1, Zenon
    <2>3. Default[f] \in Nat
        BY <1>1, Zenon DEF IsPolicy
    <2>4. Default[f] # Unset
        BY <2>3 DEF Unset
    <2> HIDE DEF withEngine, withQueue
    <2> QED
        BY <2>2, <2>4, FirstSetIs
<1>3. ASSUME NEW f \in DOMAIN Default.backoff
      PROVE  policy.backoff[f] = FirstSet(layers.request.backoff[f], layers.queue.backoff[f],
                                          layers.engine.backoff[f], Default.backoff[f])
    <2>1. ASSUME NEW o, NEW b, f \in DOMAIN b.backoff
          PROVE  f \in DOMAIN Merge(o, b).backoff /\ Merge(o, b).backoff[f] = Or(o.backoff[f], b.backoff[f])
        BY <2>1 DEF Merge
    <2>2. /\ f \in DOMAIN withEngine.backoff /\ f \in DOMAIN withQueue.backoff
          /\ withEngine.backoff[f] = Or(layers.engine.backoff[f], Default.backoff[f])
          /\ withQueue.backoff[f] = Or(layers.queue.backoff[f], withEngine.backoff[f])
          /\ policy.backoff[f] = Or(layers.request.backoff[f], withQueue.backoff[f])
        BY <1>1, <1>3, <2>1, Zenon
    <2>3. Default.backoff[f] \in Nat
        BY <1>1, <1>3, Zenon DEF IsPolicy
    <2>4. Default.backoff[f] # Unset
        BY <2>3 DEF Unset
    <2> HIDE DEF withEngine, withQueue
    <2> QED
        BY <2>2, <2>4, FirstSetIs
<1> QED
    BY <1>2, <1>3, Zenon DEF NarrowestWins

\* For all policies, layers, errors and durations a retry is made only where it may be, after what the
\* server asked to wait, within the budget of the sequence and by the narrowest rules.
THEOREM RetriesAlwaysRight == Spec => []RetriesRightly
<1>1. IInv => RetriesRightly
    BY Narrowest DEF IInv, RetriesRightly
<1> QED
    BY <1>1, Invariant, PTL

-----------------------------------------------------------------------------
\* The cardinality that RequestLifecycle counts with is the one the library knows.
LEMMA SameCardinality ==
    ASSUME NEW S
    PROVE  Lifecycle!Cardinality(S) = Cardinality(S)
BY DEF Lifecycle!Cardinality, Cardinality

\* The executor keeps the promise of RequestLifecycle, step by step, whatever the policies.
THEOREM KeepsLifecycle == Spec => Implements
<1> DEFINE answer == [r \in {"call"} |->
                        CASE pc = "new" -> "none"
                          [] pc = "done" -> IF outcome = "response" THEN "response" ELSE "error"
                          [] OTHER -> "waiting"]
           onWire == IF pc = "sending" THEN {"call"} ELSE {}
           tries == [r \in {"call"} |-> IF took > 0 THEN attempt + 1 ELSE attempt]
<1>1. Init => Lifecycle!Init
    BY DEF Init, Lifecycle!Init
<1>2. IInv /\ [Next]_vars => [Lifecycle!Next]_(Lifecycle!vars)
    <2> SUFFICES ASSUME IInv, [Next]_vars PROVE [Lifecycle!Next]_(Lifecycle!vars)
        OBVIOUS
    <2> USE ExecutorAssumption DEF IInv, TypeOK
    <2>0. /\ answer["call"] = CASE pc = "new" -> "none"
                                [] pc = "done" -> IF outcome = "response" THEN "response" ELSE "error"
                                [] OTHER -> "waiting"
          /\ tries["call"] = IF took > 0 THEN attempt + 1 ELSE attempt
        OBVIOUS
    <2>1. CASE Call
        <3>1. Lifecycle!Submit("call")
            BY <2>1 DEF Call, Lifecycle!Submit
        <3> QED
            BY <3>1 DEF Lifecycle!Next
    <2>2. CASE Send
        <3>1. onWire = {} /\ onWire' = {"call"} /\ answer["call"] = "waiting" /\ answer' = answer
            BY <2>2 DEF Send
        <3>2. tries["call"] = attempt /\ attempt < MostTries /\ tries' = [tries EXCEPT !["call"] = @ + 1]
            BY <2>2 DEF Send, Budgeted, Allowed
        <3>3. Lifecycle!Cardinality(onWire) < 1
            BY <3>1, FS_EmptySet, SameCardinality
        <3>4. /\ answer["call"] # "none" /\ "call" \notin onWire /\ onWire' = onWire \cup {"call"}
              /\ tries["call"] < MostTries /\ UNCHANGED answer
            BY <3>1, <3>2
        <3>5. Lifecycle!Send("call")
            BY <3>2, <3>3, <3>4, Zenon DEF Lifecycle!Send
        <3> QED
            BY <3>5 DEF Lifecycle!Next
    <2>3. ASSUME pc = "sending", pc' \in {"done", "sleeping"}, took' = took, attempt' = attempt,
                 pc' = "sleeping" => outcome' = outcome
          PROVE  Lifecycle!Return("call")
        <3>1. onWire = {"call"} /\ onWire' = {} /\ answer["call"] = "waiting"
            BY <2>3
        <3>2. tries' = tries /\ tries["call"] > 0
            BY <2>3 DEF Budgeted
        <3>3. answer' \in [{"call"} -> {"none", "waiting"} \cup Lifecycle!Final] /\ answer'["call"] \in {"waiting"} \cup Lifecycle!Final
            BY <2>3 DEF Lifecycle!Final
        <3>4. Lifecycle!Answers
            BY <3>1, <3>2, <3>3 DEF Lifecycle!Answers
        <3> QED
            BY <3>1, <3>2, <3>4 DEF Lifecycle!Return
    <2>4. CASE Succeed
        <3>1. Lifecycle!Return("call")
            BY <2>3, <2>4 DEF Succeed, Finish
        <3> QED
            BY <3>1 DEF Lifecycle!Next
    <2>5. CASE Fail \/ TimeOut
        <3>1. PICK e : pc = "sending" /\ Decide(e, elapsed + took)
            BY <2>5 DEF Fail, TimeOut
        <3>2. pc' \in {"done", "sleeping"} /\ took' = took /\ attempt' = attempt /\ (pc' = "sleeping" => outcome' = outcome)
            BY <3>1 DEF Decide, Finish
        <3>3. Lifecycle!Return("call")
            BY <2>3, <3>1, <3>2
        <3> QED
            BY <3>3 DEF Lifecycle!Next
    <2>6. CASE Wake
        <3>1. answer' = answer /\ onWire' = onWire /\ tries' = tries
            BY <2>6 DEF Wake, Rested, Budgeted
        <3> QED
            BY <3>1 DEF Lifecycle!vars
    <2>7. CASE HookRaises /\ pc = "sending"
        <3>1. Lifecycle!Return("call")
            BY <2>3, <2>7 DEF HookRaises, Finish
        <3> QED
            BY <3>1 DEF Lifecycle!Next
    <2>8. CASE HookRaises /\ pc # "sending"
        <3>1. /\ pc = "starting" /\ pc' = "done" /\ outcome' = "hook" /\ onWire = {} /\ onWire' = {} /\ tries' = tries
              /\ answer["call"] = "waiting" /\ answer' = [r \in {"call"} |-> "error"]
            BY <2>8 DEF HookRaises, Finish
        <3>2. Lifecycle!Answer
            BY <3>1 DEF Lifecycle!Answer, Lifecycle!Answers, Lifecycle!Final
        <3> QED
            BY <3>2 DEF Lifecycle!Next
    <2>9. CASE UNCHANGED vars
        BY <2>9 DEF vars, Lifecycle!vars
    <2> QED
        BY <2>1, <2>2, <2>4, <2>5, <2>6, <2>7, <2>8, <2>9 DEF Next
<1> QED
    BY <1>1, <1>2, Invariant, PTL DEF Spec, Implements, Lifecycle!Spec

-----------------------------------------------------------------------------
(* Sums over a finite set, which MapThenSumSet takes one element at a time,  *)
(* whichever CHOOSE gives.  What is said of them is shown for a set of the   *)
(* least size at which it would fail.                                        *)

\* A set of natural numbers that has a member has a least one.
LEMMA LeastOf ==
    ASSUME NEW S \in SUBSET Nat, S # {}
    PROVE  \E i \in S : \A j \in S : i <= j
<1>1. PICK i \in S : \A j \in S : ~ (<<j, i>> \in OpToRel(<, Nat))
  BY WFMin, NatLessThanWellFounded
<1>2. \A j \in S : ~ (j < i)
  BY <1>1 DEF OpToRel
<1> QED  BY <1>2

First(s) == CHOOSE x \in s : TRUE
\* f has the sum of F over each subset of S.
AddsUp(f, F, S) == f = [s \in SUBSET S |-> IF s = {} THEN 0 ELSE F[First(s)] + f[s \ {First(s)}]]
SumOver(F, S) == (CHOOSE f : AddsUp(f, F, S))[S]

\* Without one of its elements a set is smaller.
LEMMA Smaller ==
    ASSUME NEW s, IsFiniteSet(s), s # {}
    PROVE  /\ First(s) \in s /\ IsFiniteSet(s \ {First(s)})
           /\ Cardinality(s) \in Nat /\ Cardinality(s) # 0
           /\ Cardinality(s \ {First(s)}) = Cardinality(s) - 1
BY FS_RemoveElement, FS_EmptySet, FS_CardinalityType DEF First

\* A set can be summed in one way at most.
LEMMA SumsAgree ==
    ASSUME NEW S, IsFiniteSet(S), NEW T, S \subseteq T, NEW F, NEW G, \A x \in S : F[x] = G[x],
           NEW f, NEW g, AddsUp(f, F, S), AddsUp(g, G, T)
    PROVE  \A s \in SUBSET S : f[s] = g[s]
<1> DEFINE Apart == {n \in Nat : \E s \in SUBSET S : Cardinality(s) = n /\ f[s] # g[s]}
<1>1. SUFFICES ASSUME NEW r \in SUBSET S, f[r] # g[r] PROVE FALSE
  OBVIOUS
<1>2. \A s \in SUBSET S : IsFiniteSet(s) /\ Cardinality(s) \in Nat
  BY FS_Subset, FS_CardinalityType
<1>3. Apart # {} /\ Apart \in SUBSET Nat
  BY <1>1, <1>2
<1>4. PICK n \in Apart : \A m \in Apart : n <= m
  <2> HIDE DEF Apart
  <2> QED  BY <1>3, LeastOf
<1>5. PICK s \in SUBSET S : Cardinality(s) = n /\ f[s] # g[s]
  BY <1>4
<1>6. /\ f[s] = IF s = {} THEN 0 ELSE F[First(s)] + f[s \ {First(s)}]
      /\ g[s] = IF s = {} THEN 0 ELSE G[First(s)] + g[s \ {First(s)}]
  <2>1. s \in SUBSET T
    BY <1>5
  <2> QED  BY <1>5, <2>1 DEF AddsUp
<1>7. s # {}
  BY <1>5, <1>6
<1>8. /\ First(s) \in s /\ Cardinality(s \ {First(s)}) = n - 1 /\ n \in Nat
  BY <1>2, <1>5, <1>7, Smaller
<1>9. s \ {First(s)} \in SUBSET S /\ n - 1 \in Nat
  BY <1>2, <1>8
<1>10. n - 1 \notin Apart
  <2>1. ~ (n <= n - 1)
    BY <1>8
  <2> HIDE DEF Apart
  <2> QED  BY <1>4, <2>1
<1>11. f[s \ {First(s)}] = g[s \ {First(s)}]
  BY <1>8, <1>9, <1>10
<1>12. F[First(s)] = G[First(s)]
  BY <1>8
<1> QED  BY <1>5, <1>6, <1>11, <1>12

\* A finite set can be summed.
LEMMA SumsExist ==
    ASSUME NEW S, IsFiniteSet(S), NEW F
    PROVE  \E f : AddsUp(f, F, S)
<1> DEFINE Up(n) == {s \in SUBSET S : Cardinality(s) <= n}
           Sums(f, n) == f = [s \in Up(n) |-> IF s = {} THEN 0 ELSE F[First(s)] + f[s \ {First(s)}]]
           Unsummed == {n \in 0 .. Cardinality(S) : ~ \E f : Sums(f, n)}
<1>1. \A s \in SUBSET S : IsFiniteSet(s) /\ Cardinality(s) \in Nat /\ Cardinality(s) <= Cardinality(S)
  BY FS_Subset, FS_CardinalityType
<1>2. Cardinality(S) \in Nat
  BY <1>1
<1>3. ASSUME Unsummed # {} PROVE FALSE
  <2>1. Unsummed \in SUBSET Nat
    BY <1>2
  <2>2. PICK n \in Unsummed : \A m \in Unsummed : n <= m
    <3> HIDE DEF Unsummed
    <3> QED  BY <1>3, <2>1, LeastOf
  <2>3. n \in 0 .. Cardinality(S) /\ ~ \E f : Sums(f, n)
    BY <2>2
  <2>4. CASE n = 0
    <3> DEFINE f == [s \in Up(0) |-> 0]
    <3>1. \A s \in Up(0) : s = {}
      BY <1>1, FS_EmptySet
    <3>2. f = [s \in Up(0) |-> IF s = {} THEN 0 ELSE F[First(s)] + f[s \ {First(s)}]]
      BY <3>1
    <3>3. Sums(f, 0)
      BY <3>2
    <3> QED  BY <2>3, <2>4, <3>3
  <2>5. CASE n # 0
    <3>1. n - 1 \in 0 .. Cardinality(S) /\ n \in Nat
      BY <1>2, <2>3, <2>5
    <3>2. n - 1 \notin Unsummed
      <4>1. ~ (n <= n - 1)
        BY <3>1
      <4> HIDE DEF Unsummed
      <4> QED  BY <2>2, <4>1
    <3>3. PICK g : Sums(g, n - 1)
      BY <3>1, <3>2
    <3> DEFINE f == [s \in Up(n) |-> IF s = {} THEN 0 ELSE F[First(s)] + g[s \ {First(s)}]]
    <3>4. \A s \in Up(n) : s # {} => s \ {First(s)} \in Up(n - 1) /\ s \ {First(s)} \in Up(n)
      <4> SUFFICES ASSUME NEW s \in Up(n), s # {}
                   PROVE  s \ {First(s)} \in Up(n - 1) /\ s \ {First(s)} \in Up(n)
        OBVIOUS
      <4>1. Cardinality(s) <= n /\ Cardinality(s) \in Nat /\ Cardinality(s \ {First(s)}) = Cardinality(s) - 1
        BY <1>1, Smaller
      <4> QED  BY <3>1, <4>1
    <3>5. \A s \in Up(n - 1) : f[s] = g[s]
      <4> SUFFICES ASSUME NEW s \in Up(n - 1) PROVE f[s] = g[s]
        OBVIOUS
      <4>1. s \in Up(n)
        BY <1>1, <3>1
      <4>2. g[s] = IF s = {} THEN 0 ELSE F[First(s)] + g[s \ {First(s)}]
        BY <3>3
      <4> QED  BY <4>1, <4>2
    <3>6. \A s \in Up(n) : (IF s = {} THEN 0 ELSE F[First(s)] + g[s \ {First(s)}])
                             = (IF s = {} THEN 0 ELSE F[First(s)] + f[s \ {First(s)}])
      <4> HIDE DEF f, Up, Sums
      <4> QED  BY <3>4, <3>5
    <3>7. f = [s \in Up(n) |-> IF s = {} THEN 0 ELSE F[First(s)] + f[s \ {First(s)}]]
      <4> HIDE DEF Up, Sums
      <4> QED  BY <3>6
    <3>8. Sums(f, n)
      BY <3>7
    <3> QED  BY <2>3, <3>8
  <2> QED  BY <2>4, <2>5
<1>4. PICK f : Sums(f, Cardinality(S))
  <2>1. Cardinality(S) \in 0 .. Cardinality(S) /\ Cardinality(S) \notin Unsummed
    <3>1. Unsummed = {}
      BY <1>3
    <3> HIDE DEF Unsummed
    <3> QED  BY <1>2, <3>1
  <2> HIDE DEF Sums
  <2> QED  BY <2>1
<1>5. Up(Cardinality(S)) = SUBSET S
  BY <1>1
<1>6. f = [s \in SUBSET S |-> IF s = {} THEN 0 ELSE F[First(s)] + f[s \ {First(s)}]]
  <2>1. f = [s \in Up(Cardinality(S)) |-> IF s = {} THEN 0 ELSE F[First(s)] + f[s \ {First(s)}]]
    BY <1>4
  <2> HIDE DEF Up, Sums
  <2> QED  BY <1>5, <2>1
<1> QED  BY <1>6 DEF AddsUp

\* What AddsUp says of the whole set.
LEMMA SumIs ==
    ASSUME NEW S, IsFiniteSet(S), NEW F
    PROVE  SumOver(F, S) = IF S = {} THEN 0 ELSE F[First(S)] + SumOver(F, S \ {First(S)})
<1>1. PICK f : f = CHOOSE g : AddsUp(g, F, S)
  OBVIOUS
<1>2. AddsUp(f, F, S)
  BY <1>1, SumsExist
<1>3. f[S] = IF S = {} THEN 0 ELSE F[First(S)] + f[S \ {First(S)}]
  <2>1. S \in SUBSET S
    OBVIOUS
  <2> QED  BY <1>2, <2>1 DEF AddsUp
<1>4. ASSUME S # {} PROVE f[S \ {First(S)}] = SumOver(F, S \ {First(S)})
  <2>1. PICK R : R = S \ {First(S)}
    OBVIOUS
  <2>2. IsFiniteSet(R) /\ R \subseteq S
    BY <1>4, <2>1, Smaller
  <2>3. PICK g : g = CHOOSE h : AddsUp(h, F, R)
    OBVIOUS
  <2>4. AddsUp(g, F, R)
    BY <2>2, <2>3, SumsExist
  <2>5. \A s \in SUBSET R : g[s] = f[s]
    BY <1>2, <2>2, <2>4, SumsAgree
  <2>6. g[R] = f[R]
    BY <2>5
  <2> QED  BY <2>1, <2>3, <2>6 DEF SumOver
<1> QED  BY <1>1, <1>3, <1>4 DEF SumOver

\* The sum takes any of the elements, and is of what is summed only.
LEMMA SumTakes ==
    ASSUME NEW S, IsFiniteSet(S), NEW F, \A x \in S : F[x] \in Nat, NEW x \in S
    PROVE  SumOver(F, S) = F[x] + SumOver(F, S \ {x}) /\ SumOver(F, S) \in Nat
<1> DEFINE Holds(s) == SumOver(F, s) \in Nat /\ \A y \in s : SumOver(F, s) = F[y] + SumOver(F, s \ {y})
           Wrong == {n \in Nat : \E s \in SUBSET S : Cardinality(s) = n /\ ~ Holds(s)}
<1>1. \A s \in SUBSET S : IsFiniteSet(s) /\ Cardinality(s) \in Nat
  BY FS_Subset, FS_CardinalityType
<1>2. ASSUME Wrong # {} PROVE FALSE
  <2>1. Wrong \in SUBSET Nat
    OBVIOUS
  <2>2. PICK n \in Wrong : \A m \in Wrong : n <= m
    <3> HIDE DEF Wrong
    <3> QED  BY <1>2, <2>1, LeastOf
  <2>3. PICK s \in SUBSET S : Cardinality(s) = n /\ ~ Holds(s)
    BY <2>2
  <2>4. IsFiniteSet(s) /\ n \in Nat
    BY <1>1, <2>2
  <2>5. ASSUME NEW r \in SUBSET S, Cardinality(r) = n - 1 PROVE Holds(r)
    <3>1. n - 1 \in Nat
      BY <1>1, <2>5
    <3>2. n - 1 \notin Wrong
      <4>1. ~ (n <= n - 1)
        BY <2>4
      <4> HIDE DEF Wrong
      <4> QED  BY <2>2, <4>1
    <3> HIDE DEF Holds
    <3> QED  BY <2>5, <3>1, <3>2
  <2>6. \A y \in s : Cardinality(s \ {y}) = n - 1 /\ s \ {y} \in SUBSET S /\ IsFiniteSet(s \ {y})
    BY <2>3, <2>4, FS_RemoveElement
  <2>7. SumOver(F, {}) = 0
    BY SumIs, FS_EmptySet
  <2>8. CASE s = {}
    BY <2>3, <2>7, <2>8
  <2>9. CASE s # {}
    <3>1. PICK c : c = First(s)
      OBVIOUS
    <3>2. c \in s /\ SumOver(F, s) = F[c] + SumOver(F, s \ {c})
      BY <2>4, <2>9, <3>1, Smaller, SumIs
    <3>3. Holds(s \ {c})
      <4> HIDE DEF Holds
      <4> QED  BY <2>5, <2>6, <3>2
    <3>4. SumOver(F, s) \in Nat /\ F[c] \in Nat
      BY <3>2, <3>3
    <3>5. ASSUME NEW y \in s, y # c PROVE SumOver(F, s) = F[y] + SumOver(F, s \ {y})
      <4>1. Holds(s \ {y})
        <5> HIDE DEF Holds
        <5> QED  BY <2>5, <2>6
      <4>2. SumOver(F, s \ {c}) = F[y] + SumOver(F, (s \ {c}) \ {y})
        BY <3>3, <3>5
      <4>3. SumOver(F, s \ {y}) = F[c] + SumOver(F, (s \ {y}) \ {c})
        BY <3>2, <4>1, <3>5
      <4>4. (s \ {c}) \ {y} = (s \ {y}) \ {c} /\ (s \ {c}) \ {y} \in SUBSET S
        OBVIOUS
      <4>5. F[y] \in Nat
        OBVIOUS
      <4>6. PICK t : t = SumOver(F, (s \ {c}) \ {y})
        OBVIOUS
      <4>7. t \in Int
        <5>1. SumOver(F, s \ {c}) = F[y] + t /\ SumOver(F, s \ {y}) = F[c] + t
          BY <4>2, <4>3, <4>4, <4>6
        <5>2. Cardinality(s \ {c}) = n - 1 /\ y \in s \ {c} /\ s \ {c} \in SUBSET S /\ IsFiniteSet(s \ {c})
          BY <2>6, <3>2, <3>5
        <5>3. Holds((s \ {c}) \ {y})
          <6>1. PICK r \in SUBSET S : r = (s \ {c}) \ {y}
            BY <4>4
          <6>2. Cardinality(r) = n - 2 /\ IsFiniteSet(r)
            <7>1. Cardinality((s \ {c}) \ {y}) = Cardinality(s \ {c}) - 1 /\ IsFiniteSet((s \ {c}) \ {y})
              BY <5>2, FS_RemoveElement
            <7> QED  BY <5>2, <6>1, <7>1, <2>4
          <6>3. n - 2 \in Nat
            BY <1>1, <6>2
          <6>4. n - 2 \notin Wrong
            <7>1. ~ (n <= n - 2)
              BY <2>4
            <7> HIDE DEF Wrong
            <7> QED  BY <2>2, <7>1
          <6> HIDE DEF Holds
          <6> QED  BY <6>1, <6>2, <6>3, <6>4
        <5> QED  BY <4>6, <5>3
      <4>8. SumOver(F, s) = F[c] + (F[y] + t) /\ SumOver(F, s \ {y}) = F[c] + t
        BY <3>2, <4>2, <4>3, <4>4, <4>6
      <4> QED  BY <3>4, <4>5, <4>7, <4>8
    <3>6. Holds(s)
      BY <3>2, <3>4, <3>5
    <3> QED  BY <2>3, <3>6
  <2> QED  BY <2>8, <2>9
<1>3. Holds(S)
  <2>1. S \in SUBSET S /\ Cardinality(S) \in Nat
    BY <1>1
  <2> HIDE DEF Holds
  <2> QED  BY <1>2, <2>1
<1> QED  BY <1>3

\* What is summed decides the sum.
LEMMA SumsSame ==
    ASSUME NEW S, IsFiniteSet(S), NEW F, NEW G, \A x \in S : F[x] = G[x]
    PROVE  SumOver(F, S) = SumOver(G, S)
<1>1. PICK f : f = CHOOSE g : AddsUp(g, F, S)
  OBVIOUS
<1>2. PICK g : g = CHOOSE h : AddsUp(h, G, S)
  OBVIOUS
<1>3. AddsUp(f, F, S) /\ AddsUp(g, G, S)
  BY <1>1, <1>2, SumsExist
<1>4. \A s \in SUBSET S : f[s] = g[s]
  BY <1>3, SumsAgree
<1> QED  BY <1>1, <1>2, <1>4 DEF SumOver

-----------------------------------------------------------------------------
(* The ledger: what is entered, what of it is in the total, what was warned  *)
(* of, and where an answer that was paid for may be.                         *)

CallRows ==
    [stage : Billed!Stages, kind : {"complete", "structured", "stream"}, asked : AskedFor \cup {<<>>},
     keyless : BOOLEAN, attempt : Nat, answer : Nat, read : Nat]
Entered == [answer : Nat, asked : AskedFor]
Told == {<<m>> : m \in STRING} \cup AskedFor

\* A call may be anywhere, and an answer goes by a number that was given.
LedgerTyped ==
    /\ call \in [Threads -> CallRows] /\ ledger \in Seq(Entered) /\ answers \in Nat /\ sum \in Nat
    /\ notes \in [Threads -> [lost : SUBSET {0}, turns : Nat]]
    /\ \A c \in Threads : call[c].stage # "idle" => call[c].asked \in AskedFor

CallCosts == [c \in Threads |-> Billed!CostOf(call[c].asked)]
EntryCosts == [n \in DOMAIN ledger |-> Billed!CostOf(ledger[n].asked)]

\* What is entered is in the total, or about to be.
Summed == sum + SumOver(CallCosts, Billed!Recording({"adding"})) = SumOver(EntryCosts, DOMAIN ledger)

\* Warnings are of what is in the ledger, once each; who is being recorded is in it.
Warned ==
    /\ warnings \in Seq(Told) /\ warned = {warnings[i] : i \in 1 .. Len(warnings)}
    /\ \A i, j \in 1 .. Len(warnings) : warnings[i] = warnings[j] => i = j
    /\ \A n \in 1 .. Len(ledger) :
          \/ Billed!Unsaid(ledger[n].asked) \in warned \cup {<<>>}
          \/ \E c \in Threads : call[c].stage \in {"adding", "noting"} /\ call[c].asked = ledger[n].asked
    /\ warned \subseteq {Billed!Unsaid(ledger[n].asked) : n \in 1 .. Len(ledger)}
    /\ \A c \in Threads : call[c].stage \in {"adding", "noting"} =>
          \E n \in 1 .. Len(ledger) : ledger[n].asked = call[c].asked

\* A call has no answer before it is fetched, and none at all where it has no key; one that is
\* in a call's hands is in no other's and not in the ledger.
InHand(row) == row.stage \in {"stream", "finish", "record"} /\ row.answer # 0
Numbered ==
    /\ \A c \in Threads :
          /\ call[c].answer <= answers
          /\ call[c].stage \in {"idle", "resolve", "submit", "fetch"} \/ call[c].keyless => call[c].answer = 0
    /\ \A n \in 1 .. Len(ledger) : ledger[n].answer <= answers
Apart ==
    /\ \A c, d \in Threads : InHand(call[c]) /\ InHand(call[d]) /\ call[c].answer = call[d].answer => c = d
    /\ \A c \in Threads, n \in 1 .. Len(ledger) : InHand(call[c]) => ledger[n].answer # call[c].answer
    /\ \A m, n \in 1 .. Len(ledger) : ledger[m].answer = ledger[n].answer => m = n \/ ledger[m].answer = 0

LedgerIInv == LedgerTyped /\ Summed /\ Warned /\ Numbered /\ Apart

\* What a call costs is a number.
LEMMA CostIsNumber == ASSUME NEW asked PROVE Billed!CostOf(asked) \in Nat
<1>1. /\ \A m \in DOMAIN Rates : Rates[m] \in Nat
      /\ \A m \in DOMAIN TierRates : \A t \in DOMAIN TierRates[m] : TierRates[m][t] \in Nat
  BY CallAssumption
<1>2. CASE ~ Billed!Priced(asked)
  BY <1>2 DEF Billed!CostOf
<1>3. CASE Billed!Priced(asked) /\ Billed!TierPriced(asked)
  <2>1. Billed!CostOf(asked) = TierRates[asked[1]][asked[2]]
    BY <1>3 DEF Billed!CostOf
  <2> QED  BY <1>1, <1>3, <2>1 DEF Billed!TierPriced
<1>4. CASE Billed!Priced(asked) /\ ~ Billed!TierPriced(asked)
  <2>1. Billed!CostOf(asked) = Rates[asked[1]]
    BY <1>4 DEF Billed!CostOf
  <2> QED  BY <1>1, <1>4, <2>1 DEF Billed!Priced
<1> QED  BY <1>2, <1>3, <1>4

\* The calls that are at some stages are finitely many.
LEMMA RecordingFinite ==
    ASSUME NEW stages PROVE IsFiniteSet(Billed!Recording(stages)) /\ Billed!Recording(stages) \subseteq Threads
<1>1. IsFiniteSet(Threads)
  BY CallAssumption
<1>2. Billed!Recording(stages) \subseteq Threads
  BY DEF Billed!Recording
<1> QED  BY <1>1, <1>2, FS_Subset

\* The ledger's entries are finitely many.
LEMMA EntriesFinite ==
    ASSUME LedgerTyped
    PROVE  /\ Len(ledger) \in Nat /\ DOMAIN ledger = 1 .. Len(ledger) /\ IsFiniteSet(DOMAIN ledger)
           /\ \A n \in 1 .. Len(ledger) : ledger[n] \in Entered
<1>1. Len(ledger) \in Nat /\ DOMAIN ledger = 1 .. Len(ledger) /\ \A n \in 1 .. Len(ledger) : ledger[n] \in Entered
  BY LenProperties, ElementOfSeq DEF LedgerTyped
<1> QED  BY <1>1, FS_Interval

\* Sums over nothing, and sums of numbers.
LEMMA SumIsNumber ==
    ASSUME NEW S, IsFiniteSet(S), NEW F, \A x \in S : F[x] \in Nat
    PROVE  SumOver(F, S) \in Nat /\ SumOver(F, {}) = 0
<1>1. SumOver(F, {}) = 0
  BY SumIs, FS_EmptySet
<1>2. CASE S = {}
  BY <1>1, <1>2
<1>3. ASSUME NEW x \in S PROVE SumOver(F, S) \in Nat
  BY SumTakes
<1> QED  BY <1>1, <1>2, <1>3

\* At first nothing is entered.
LEMMA LedgerStarts == Billed!Init => LedgerIInv
<1> SUFFICES ASSUME Billed!Init PROVE LedgerIInv
  OBVIOUS
<1>1. /\ call = [c \in Threads |-> Billed!Idle] /\ ledger = <<>> /\ answers = 0 /\ sum = 0 /\ warned = {} /\ warnings = <<>>
      /\ notes = [c \in Threads |-> [lost |-> {}, turns |-> 0]]
  BY DEF Billed!Init
<1>2. Billed!Idle \in CallRows /\ Billed!Idle.stage = "idle" /\ Billed!Idle.answer = 0
  BY DEF Billed!Idle, CallRows, Billed!Stages
<1>3. Len(ledger) = 0 /\ 1 .. 0 = {} /\ DOMAIN ledger = {} /\ Len(warnings) = 0
  BY <1>1
<1>4. LedgerTyped
  BY <1>1, <1>2 DEF LedgerTyped
<1>5. Summed
  <2>1. Billed!Recording({"adding"}) = {}
    BY <1>1, <1>2 DEF Billed!Recording
  <2>2. \A F : SumOver(F, {}) = 0
    BY SumIsNumber, FS_EmptySet
  <2>3. SumOver(CallCosts, Billed!Recording({"adding"})) = 0 /\ SumOver(EntryCosts, DOMAIN ledger) = 0
    BY <1>3, <2>1, <2>2
  <2> QED  BY <1>1, <2>3 DEF Summed
<1>6. Warned
  BY <1>1, <1>2, <1>3 DEF Warned
<1>7. Numbered /\ Apart
  BY <1>1, <1>2, <1>3 DEF Numbered, Apart, InHand
<1> QED  BY <1>4, <1>5, <1>6, <1>7 DEF LedgerIInv

\* A step of a call that does not enter anything.
Quiet(c, o) ==
    /\ o \in CallRows /\ call' = [call EXCEPT ![c] = o]
    /\ call[c].stage # "adding" /\ o.stage \notin {"adding", "noting"}
    /\ call[c].stage = "noting" => o.stage \in {"parse", "idle"}
    /\ o.stage # "idle" => o.asked \in AskedFor
    /\ o.answer <= answers'
    /\ o.stage \in {"idle", "resolve", "submit", "fetch"} \/ o.keyless => o.answer = 0
    /\ InHand(o) => o.answer > answers \/ (InHand(call[c]) /\ o.answer = call[c].answer)
    /\ answers' \in {answers, answers + 1} /\ ledger' = ledger
    /\ notes' \in [Threads -> [lost : SUBSET {0}, turns : Nat]]

\* It keeps the types, the numbers and the answers apart.
LEMMA QuietKeeps ==
    ASSUME LedgerIInv, NEW c \in Threads, NEW o, Quiet(c, o), sum' = sum
    PROVE  LedgerTyped' /\ Summed' /\ Numbered' /\ Apart'
<1>1. /\ call \in [Threads -> CallRows] /\ call' = [call EXCEPT ![c] = o] /\ o \in CallRows /\ answers \in Nat
      /\ ledger' = ledger /\ answers' \in {answers, answers + 1}
  BY DEF LedgerIInv, LedgerTyped, Quiet
<1>2. call'[c] = o /\ \A d \in Threads : d # c => call'[d] = call[d]
  BY <1>1
<1>3. LedgerTyped'
  <2>1. call' \in [Threads -> CallRows]
    BY <1>1
  <2>2. \A d \in Threads : call'[d].stage # "idle" => call'[d].asked \in AskedFor
    BY <1>2 DEF LedgerIInv, LedgerTyped, Quiet
  <2>3. notes' \in [Threads -> [lost : SUBSET {0}, turns : Nat]]
    BY DEF Quiet
  <2>4. ledger' \in Seq(Entered) /\ answers' \in Nat /\ sum' \in Nat
    BY <1>1 DEF LedgerIInv, LedgerTyped
  <2> QED  BY <2>1, <2>2, <2>3, <2>4 DEF LedgerTyped
<1>4. Summed'
  <2>1. Billed!Recording({"adding"})' = Billed!Recording({"adding"}) /\ c \notin Billed!Recording({"adding"})
    <3>1. call[c].stage # "adding" /\ o.stage # "adding"
      BY DEF Quiet
    <3> QED  BY <1>2, <3>1 DEF Billed!Recording
  <2>2. \A d \in Billed!Recording({"adding"}) : CallCosts'[d] = CallCosts[d]
    <3> SUFFICES ASSUME NEW d \in Billed!Recording({"adding"}) PROVE CallCosts'[d] = CallCosts[d]
      OBVIOUS
    <3>1. d \in Threads /\ call'[d] = call[d]
      BY <1>2, <2>1, RecordingFinite
    <3> QED  BY <3>1 DEF CallCosts, Billed!CostOf, Billed!Priced, Billed!TierPriced
  <2>3. SumOver(CallCosts', Billed!Recording({"adding"})) = SumOver(CallCosts, Billed!Recording({"adding"}))
    BY <2>2, RecordingFinite, SumsSame
  <2>4. EntryCosts' = EntryCosts /\ (DOMAIN ledger)' = DOMAIN ledger
    BY <1>1 DEF EntryCosts, Billed!CostOf, Billed!Priced, Billed!TierPriced
  <2>5. SumOver(CallCosts, Billed!Recording({"adding"}))' = SumOver(CallCosts, Billed!Recording({"adding"}))
    BY <2>1, <2>3 DEF SumOver, AddsUp, First
  <2>6. SumOver(EntryCosts, DOMAIN ledger)' = SumOver(EntryCosts, DOMAIN ledger)
    BY <2>4 DEF SumOver, AddsUp, First
  <2> QED  BY <2>5, <2>6 DEF LedgerIInv, Summed
<1>5. Numbered'
  <2>1. \A d \in Threads :
           /\ call'[d].answer <= answers'
           /\ call'[d].stage \in {"idle", "resolve", "submit", "fetch"} \/ call'[d].keyless => call'[d].answer = 0
    <3> SUFFICES ASSUME NEW d \in Threads
                 PROVE  /\ call'[d].answer <= answers'
                        /\ call'[d].stage \in {"idle", "resolve", "submit", "fetch"} \/ call'[d].keyless => call'[d].answer = 0
      OBVIOUS
    <3>1. CASE d = c
      BY <1>2, <3>1 DEF Quiet
    <3>2. CASE d # c
      <4>1. call[d].answer \in Nat /\ call[d].answer <= answers
        BY <1>1 DEF LedgerIInv, Numbered, CallRows
      <4> QED  BY <1>1, <1>2, <3>2, <4>1 DEF LedgerIInv, Numbered
    <3> QED  BY <3>1, <3>2
  <2>2. \A n \in 1 .. Len(ledger) : ledger[n].answer <= answers'
    <3>1. \A n \in 1 .. Len(ledger) : ledger[n].answer \in Nat /\ ledger[n].answer <= answers
      BY EntriesFinite DEF LedgerIInv, Numbered, Entered
    <3> QED  BY <1>1, <3>1
  <2> QED  BY <1>1, <2>1, <2>2 DEF Numbered
<1>6. Apart'
  <2>1. \A d \in Threads : call[d].answer \in Nat /\ call[d].answer <= answers
    BY <1>1 DEF LedgerIInv, Numbered, CallRows
  <2>2. \A n \in 1 .. Len(ledger) : ledger[n].answer \in Nat /\ ledger[n].answer <= answers
    BY EntriesFinite DEF LedgerIInv, Numbered, Entered
  <2>3. InHand(o) => o.answer > answers \/ (InHand(call[c]) /\ o.answer = call[c].answer)
    BY DEF Quiet
  <2>4. o.answer \in Nat
    BY <1>1 DEF CallRows
  <2>5. ASSUME NEW d \in Threads, d # c, InHand(o), InHand(call[d]) PROVE o.answer # call[d].answer
    BY <1>1, <2>1, <2>3, <2>4, <2>5 DEF LedgerIInv, Apart
  <2>6. ASSUME NEW n \in 1 .. Len(ledger), InHand(o) PROVE ledger[n].answer # o.answer
    BY <1>1, <2>2, <2>3, <2>4, <2>6 DEF LedgerIInv, Apart
  <2>7. \A d, e \in Threads : InHand(call'[d]) /\ InHand(call'[e]) /\ call'[d].answer = call'[e].answer => d = e
    <3> SUFFICES ASSUME NEW d \in Threads, NEW e \in Threads, InHand(call'[d]), InHand(call'[e]),
                        call'[d].answer = call'[e].answer, d # e
                 PROVE  FALSE
      OBVIOUS
    <3>1. CASE d = c
      BY <1>2, <2>5, <3>1
    <3>2. CASE e = c
      BY <1>2, <2>5, <3>2
    <3>3. CASE d # c /\ e # c
      BY <1>2, <3>3 DEF LedgerIInv, Apart
    <3> QED  BY <3>1, <3>2, <3>3
  <2>8. \A d \in Threads, n \in 1 .. Len(ledger) : InHand(call'[d]) => ledger[n].answer # call'[d].answer
    BY <1>2, <2>6 DEF LedgerIInv, Apart
  <2>9. /\ \A d, e \in Threads : InHand(call[d])' /\ InHand(call[e])' /\ call'[d].answer = call'[e].answer => d = e
        /\ \A d \in Threads, n \in 1 .. Len(ledger) : InHand(call[d])' => ledger[n].answer # call'[d].answer
    BY <2>7, <2>8 DEF InHand
  <2> QED  BY <1>1, <2>9 DEF LedgerIInv, Apart
<1> QED  BY <1>3, <1>4, <1>5, <1>6

\* What is warned of stays so, where nobody's entry is made or noted.
LEMMA QuietWarned ==
    ASSUME LedgerIInv, NEW c \in Threads, NEW o, Quiet(c, o), call[c].stage # "noting",
           UNCHANGED <<warned, warnings>>
    PROVE  Warned'
<1>1. call \in [Threads -> CallRows] /\ call' = [call EXCEPT ![c] = o] /\ ledger' = ledger
  BY DEF LedgerIInv, LedgerTyped, Quiet
<1>2. call'[c] = o /\ \A d \in Threads : d # c => call'[d] = call[d]
  BY <1>1
<1>3. call[c].stage \notin {"adding", "noting"} /\ o.stage \notin {"adding", "noting"}
  BY DEF Quiet
<1>4. \A d \in Threads : call[d].stage \in {"adding", "noting"} <=> call'[d].stage \in {"adding", "noting"}
  BY <1>2, <1>3
<1>5. \A d \in Threads : call[d].stage \in {"adding", "noting"} => call'[d].asked = call[d].asked
  BY <1>2, <1>3
<1>6. Warned
  BY DEF LedgerIInv
<1>7. \A n \in 1 .. Len(ledger) :
         \/ Billed!Unsaid(ledger[n].asked) \in warned \cup {<<>>}
         \/ \E d \in Threads : call'[d].stage \in {"adding", "noting"} /\ call'[d].asked = ledger[n].asked
  BY <1>4, <1>5, <1>6 DEF Warned
<1>8. \A d \in Threads : call'[d].stage \in {"adding", "noting"} =>
          \E n \in 1 .. Len(ledger) : ledger[n].asked = call'[d].asked
  BY <1>4, <1>5, <1>6 DEF Warned
<1>9. /\ warnings' \in Seq(Told) /\ warned' = {warnings'[i] : i \in 1 .. Len(warnings')}
       /\ \A i, j \in 1 .. Len(warnings') : warnings'[i] = warnings'[j] => i = j
  BY <1>6 DEF Warned
<1>10. warned' \subseteq {Billed!Unsaid(ledger'[n].asked) : n \in 1 .. Len(ledger')}
  BY <1>1, <1>6 DEF Warned
<1>11. \A n \in 1 .. Len(ledger') :
          \/ Billed!Unsaid(ledger'[n].asked) \in warned' \cup {<<>>}
          \/ \E d \in Threads : call'[d].stage \in {"adding", "noting"} /\ call'[d].asked = ledger'[n].asked
  BY <1>1, <1>7
<1>12. \A d \in Threads : call'[d].stage \in {"adding", "noting"} =>
          \E n \in 1 .. Len(ledger') : ledger'[n].asked = call'[d].asked
  BY <1>1, <1>8
<1> QED  BY <1>9, <1>10, <1>11, <1>12 DEF Warned

Moved(r, s, m, a) == [r EXCEPT !.stage = s, !.attempt = m, !.answer = a]
\* A row that moves to another stage, with another answer, keeps the rest.
LEMMA RowMoves ==
    ASSUME NEW r \in CallRows, NEW s \in Billed!Stages, NEW m \in Nat, NEW a \in Nat
    PROVE  /\ Moved(r, s, m, a) \in CallRows /\ Moved(r, s, m, a).stage = s /\ Moved(r, s, m, a).answer = a
           /\ Moved(r, s, m, a).asked = r.asked /\ Moved(r, s, m, a).keyless = r.keyless
<1>1. PICK p \in CallRows : p = [r EXCEPT !.stage = s]
  BY DEF CallRows
<1>2. p.stage = s /\ p.asked = r.asked /\ p.keyless = r.keyless
  BY <1>1 DEF CallRows
<1>3. PICK q \in CallRows : q = [p EXCEPT !.attempt = m]
  BY DEF CallRows
<1>4. q.stage = s /\ q.asked = r.asked /\ q.keyless = r.keyless
  BY <1>2, <1>3 DEF CallRows
<1>5. PICK o \in CallRows : o = [q EXCEPT !.answer = a]
  BY DEF CallRows
<1>6. o.stage = s /\ o.asked = r.asked /\ o.keyless = r.keyless /\ o.answer = a
  BY <1>4, <1>5 DEF CallRows
<1>7. Moved(r, s, m, a) = o
  BY <1>1, <1>3, <1>5 DEF Moved
<1> QED  BY <1>6, <1>7

\* Before an entry is made a call's steps are quiet, and after it is warned of.
LEMMA CallsAreQuiet ==
    ASSUME LedgerIInv, NEW c \in Threads,
           \/ \E form \in {"complete", "structured", "stream"}, asked \in AskedFor, keyless \in BOOLEAN :
                 Billed!Begin(c, form, asked, keyless)
           \/ Billed!Resolve(c) \/ Billed!Submit(c) \/ Billed!Fetch(c) \/ Billed!Refused(c) \/ Billed!Stream(c)
           \/ Billed!Finish(c) \/ Billed!Parse(c)
    PROVE  (\E o : Quiet(c, o)) /\ call[c].stage # "noting" /\ UNCHANGED <<sum, warned, warnings>>
<1>1. /\ call \in [Threads -> CallRows] /\ answers \in Nat /\ notes \in [Threads -> [lost : SUBSET {0}, turns : Nat]]
      /\ call[c].stage # "idle" => call[c].asked \in AskedFor
  BY DEF LedgerIInv, LedgerTyped
<1>2. call[c] \in CallRows /\ call[c].answer \in Nat /\ call[c].answer <= answers
  BY <1>1 DEF CallRows, LedgerIInv, Numbered
<1>3. call[c].stage \in {"idle", "resolve", "submit", "fetch"} \/ call[c].keyless => call[c].answer = 0
  BY DEF LedgerIInv, Numbered
<1>4. Billed!Idle \in CallRows /\ Billed!Idle.stage = "idle" /\ Billed!Idle.answer = 0
  BY DEF Billed!Idle, CallRows, Billed!Stages
<1>5. ASSUME call' = [call EXCEPT ![c] = Billed!Idle], answers' = answers, ledger' = ledger,
             notes' \in [Threads -> [lost : SUBSET {0}, turns : Nat]], call[c].stage # "adding"
      PROVE  Quiet(c, Billed!Idle)
  BY <1>1, <1>2, <1>4, <1>5 DEF Quiet, InHand
<1>6. ASSUME NEW to \in Billed!Stages \ {"idle", "adding", "noting", "resolve"}, Billed!Go(c, to),
             answers' = answers, ledger' = ledger, notes' = notes,
             call[c].stage \notin {"idle", "adding", "noting"},
             call[c].answer = 0 \/ (InHand(call[c]) /\ to \notin {"submit", "fetch"})
      PROVE  \E o : Quiet(c, o)
  <2>1. PICK o : o = [call[c] EXCEPT !.stage = to]
    OBVIOUS
  <2>2. /\ o \in CallRows /\ o.stage = to /\ o.asked = call[c].asked /\ o.answer = call[c].answer
        /\ o.keyless = call[c].keyless
    BY <1>2, <1>6, <2>1 DEF CallRows
  <2>3. call' = [call EXCEPT ![c] = o]
    BY <1>1, <1>6, <2>1 DEF Billed!Go
  <2>4. Quiet(c, o)
    BY <1>1, <1>2, <1>3, <1>6, <2>2, <2>3 DEF Quiet, InHand
  <2> QED  BY <2>4
<1>7. CASE \E form \in {"complete", "structured", "stream"}, asked \in AskedFor, keyless \in BOOLEAN :
              Billed!Begin(c, form, asked, keyless)
  <2>1. PICK form \in {"complete", "structured", "stream"}, asked \in AskedFor, keyless \in BOOLEAN :
           Billed!Begin(c, form, asked, keyless)
    BY <1>7
  <2>2. PICK o : o = [Billed!Idle EXCEPT !.stage = "resolve", !.kind = form, !.asked = asked, !.keyless = keyless]
    OBVIOUS
  <2>3. o \in CallRows /\ o.stage = "resolve" /\ o.asked = asked /\ o.answer = 0
    BY <2>2 DEF Billed!Idle, CallRows, Billed!Stages
  <2>4. notes' \in [Threads -> [lost : SUBSET {0}, turns : Nat]]
    BY <1>1, <2>1 DEF Billed!Begin
  <2>5. /\ call[c].stage = "idle" /\ call' = [call EXCEPT ![c] = o] /\ answers' = answers
        /\ UNCHANGED <<ledger, sum, warned, warnings>>
    BY <2>1, <2>2 DEF Billed!Begin, Billed!LedgerUnchanged
  <2>6. Quiet(c, o)
    BY <1>1, <2>3, <2>4, <2>5 DEF Quiet, InHand
  <2> QED  BY <2>5, <2>6
<1>8. CASE Billed!Resolve(c)
  <2>1. /\ call[c].stage = "resolve" /\ answers' = answers /\ notes' = notes /\ UNCHANGED <<ledger, sum, warned, warnings>>
        /\ Billed!End(c) \/ Billed!Go(c, "fetch") \/ Billed!Go(c, "submit")
    BY <1>8 DEF Billed!Resolve, Billed!LedgerUnchanged
  <2> QED  BY <1>1, <1>3, <1>5, <1>6, <2>1 DEF Billed!End, Billed!Stages
<1>9. CASE Billed!Submit(c)
  <2>1. /\ call[c].stage = "submit" /\ answers' = answers /\ notes' = notes /\ UNCHANGED <<ledger, sum, warned, warnings>>
        /\ Billed!End(c) \/ Billed!Go(c, "fetch") \/ Billed!Go(c, "finish")
    BY <1>9 DEF Billed!Submit, Billed!LedgerUnchanged
  <2> QED  BY <1>1, <1>3, <1>5, <1>6, <2>1 DEF Billed!End, Billed!Stages
<1>10. CASE Billed!Fetch(c)
  <2>1. /\ call[c].stage = "fetch" /\ ~ call[c].keyless /\ answers' = answers + 1 /\ notes' = notes
        /\ UNCHANGED <<ledger, sum, warned, warnings>>
    BY <1>10 DEF Billed!Fetch, Billed!LedgerUnchanged, Billed!Refuses
  <2>2. PICK to \in {"stream", "finish"} : call' = [call EXCEPT ![c].stage = to, ![c].answer = answers + 1]
    BY <1>10 DEF Billed!Fetch
  <2>3. PICK o : o = [call[c] EXCEPT !.stage = to, !.answer = answers + 1]
    OBVIOUS
  <2>4. o \in CallRows /\ o.stage = to /\ o.asked = call[c].asked /\ o.answer = answers + 1 /\ ~ o.keyless
    <3>1. to \in Billed!Stages /\ call[c].attempt \in Nat /\ answers + 1 \in Nat
      BY <1>1, <1>2 DEF CallRows, Billed!Stages
    <3>2. o = Moved(call[c], to, call[c].attempt, answers + 1)
      BY <1>2, <2>3 DEF CallRows, Moved
    <3>3. PICK s \in Billed!Stages, m \in Nat, a \in Nat :
             s = to /\ m = call[c].attempt /\ a = answers + 1
      BY <3>1
    <3>4. PICK r \in CallRows : r = call[c]
      BY <1>2
    <3>5. o = Moved(r, s, m, a)
      BY <3>2, <3>3, <3>4
    <3>6. /\ Moved(r, s, m, a) \in CallRows /\ Moved(r, s, m, a).stage = s
          /\ Moved(r, s, m, a).answer = a /\ Moved(r, s, m, a).asked = r.asked
          /\ Moved(r, s, m, a).keyless = r.keyless
      BY RowMoves
    <3> QED  BY <2>1, <3>3, <3>4, <3>5, <3>6
  <2>5. call' = [call EXCEPT ![c] = o]
    BY <1>1, <2>2, <2>3
  <2>6. Quiet(c, o)
    BY <1>1, <1>2, <2>1, <2>4, <2>5 DEF Quiet, InHand
  <2> QED  BY <2>1, <2>6
<1>11. CASE Billed!Refused(c)
  <2>1. /\ call[c].stage = "fetch" /\ answers' = answers /\ notes' = notes /\ UNCHANGED <<ledger, sum, warned, warnings>>
        /\ Billed!End(c)
    BY <1>11 DEF Billed!Refused, Billed!LedgerUnchanged
  <2> QED  BY <1>1, <1>5, <2>1 DEF Billed!End
<1>12. CASE Billed!Stream(c)
  <2>1. /\ call[c].stage = "stream" /\ answers' = answers /\ notes' = notes /\ UNCHANGED <<ledger, sum, warned, warnings>>
        /\ Billed!End(c) \/ Billed!Go(c, "record")
    BY <1>12 DEF Billed!Stream, Billed!LedgerUnchanged
  <2>2. call[c].answer = 0 \/ InHand(call[c])
    BY <2>1 DEF InHand
  <2> QED  BY <1>1, <1>5, <1>6, <2>1, <2>2 DEF Billed!End, Billed!Stages
<1>13. CASE Billed!Finish(c)
  <2>1. /\ call[c].stage = "finish" /\ answers' = answers /\ UNCHANGED <<ledger, sum, warned, warnings>>
        /\ \/ Billed!Go(c, "record") /\ notes' = notes
           \/ Billed!End(c) /\ notes' = notes
           \/ Billed!End(c) /\ call[c].keyless /\ Billed!Lose(c)
    BY <1>13 DEF Billed!Finish, Billed!LedgerUnchanged
  <2>2. call[c].answer = 0 \/ InHand(call[c])
    BY <2>1 DEF InHand
  <2>3. ASSUME call[c].keyless, Billed!Lose(c) PROVE notes' \in [Threads -> [lost : SUBSET {0}, turns : Nat]]
    <3>1. notes' = [notes EXCEPT ![c].lost = @ \cup {0}]
      BY <1>3, <2>3 DEF Billed!Lose
    <3>2. notes[c] \in [lost : SUBSET {0}, turns : Nat] /\ notes[c].lost \cup {0} \in SUBSET {0}
      BY <1>1
    <3>3. notes' = [notes EXCEPT ![c] = [@ EXCEPT !.lost = notes[c].lost \cup {0}]]
      BY <1>1, <3>1
    <3> QED  BY <1>1, <3>2, <3>3
  <2> QED  BY <1>1, <1>5, <1>6, <2>1, <2>2, <2>3 DEF Billed!End, Billed!Stages
<1>14. CASE Billed!Parse(c)
  <2>1. call[c].stage = "parse" /\ answers' = answers /\ UNCHANGED <<ledger, sum, warned, warnings>>
    BY <1>14 DEF Billed!Parse, Billed!LedgerUnchanged
  <2>2. CASE Billed!End(c) /\ notes' = notes
    BY <1>1, <1>5, <2>1, <2>2 DEF Billed!End
  <2>3. CASE /\ call' = [call EXCEPT ![c].stage = "resolve", ![c].attempt = @ + 1, ![c].answer = 0]
             /\ notes' = [notes EXCEPT ![c].turns = @ + (IF Listed THEN 2 ELSE 0)]
    <3>1. PICK o : o = [call[c] EXCEPT !.stage = "resolve", !.attempt = @ + 1, !.answer = 0]
      OBVIOUS
    <3>2. o \in CallRows /\ o.stage = "resolve" /\ o.asked = call[c].asked /\ o.answer = 0
      <4>1. "resolve" \in Billed!Stages /\ call[c].attempt + 1 \in Nat /\ 0 \in Nat
        BY <1>2 DEF CallRows, Billed!Stages
      <4>2. o = Moved(call[c], "resolve", call[c].attempt + 1, 0)
        BY <1>2, <3>1 DEF CallRows, Moved
      <4>3. PICK s \in Billed!Stages, m \in Nat, a \in Nat :
               s = "resolve" /\ m = call[c].attempt + 1 /\ a = 0
        BY <4>1
      <4>4. PICK r \in CallRows : r = call[c]
        BY <1>2
      <4>5. o = Moved(r, s, m, a)
        BY <4>2, <4>3, <4>4
      <4>6. /\ Moved(r, s, m, a) \in CallRows /\ Moved(r, s, m, a).stage = s
            /\ Moved(r, s, m, a).answer = a /\ Moved(r, s, m, a).asked = r.asked
        BY RowMoves
      <4> QED  BY <4>3, <4>4, <4>5, <4>6
    <3>3. call' = [call EXCEPT ![c] = o]
      BY <1>1, <2>3, <3>1
    <3>4. notes' \in [Threads -> [lost : SUBSET {0}, turns : Nat]]
      <4>1. notes[c] \in [lost : SUBSET {0}, turns : Nat] /\ notes[c].turns + (IF Listed THEN 2 ELSE 0) \in Nat
        BY <1>1
      <4>2. notes' = [notes EXCEPT ![c] = [@ EXCEPT !.turns = notes[c].turns + (IF Listed THEN 2 ELSE 0)]]
        BY <1>1, <2>3
      <4> QED  BY <1>1, <4>1, <4>2
    <3>5. Quiet(c, o)
      <4>1. /\ call[c].stage = "parse" /\ call[c].asked \in AskedFor /\ o.asked \in AskedFor /\ ~ InHand(o)
            /\ ledger' = ledger /\ answers' = answers
        BY <1>1, <2>1, <3>2 DEF InHand
      <4>2. 0 <= answers
        BY <1>1
      <4> QED  BY <2>1, <3>2, <3>3, <3>4, <4>1, <4>2 DEF Quiet
    <3> QED  BY <2>1, <3>5
  <2> QED  BY <1>14, <2>2, <2>3 DEF Billed!Parse
<1> QED  BY <1>7, <1>8, <1>9, <1>10, <1>11, <1>12, <1>13, <1>14

\* A warning that is added is of what was entered and has not been warned of.
LEMMA NoteKeeps == ASSUME LedgerIInv, NEW c \in Threads, Billed!Note(c) PROVE LedgerIInv'
<1>1. /\ call \in [Threads -> CallRows] /\ answers \in Nat /\ notes \in [Threads -> [lost : SUBSET {0}, turns : Nat]]
      /\ call[c].stage = "noting" /\ call[c].asked \in AskedFor
      /\ UNCHANGED <<answers, ledger, sum, notes>>
  BY DEF LedgerIInv, LedgerTyped, Billed!Note
<1>2. call[c] \in CallRows
  BY <1>1
<1>3. PICK o \in {Billed!Idle, [call[c] EXCEPT !.stage = "parse"]} : call' = [call EXCEPT ![c] = o]
  BY <1>1 DEF Billed!Note, Billed!Go, Billed!End
<1>4. /\ o \in CallRows /\ o.stage \in {"parse", "idle"} /\ (o.stage = "parse" => o.asked = call[c].asked)
      /\ o.answer = (IF o.stage = "idle" THEN 0 ELSE call[c].answer)
      /\ o.keyless = (IF o.stage = "idle" THEN FALSE ELSE call[c].keyless)
  <2>1. CASE o = Billed!Idle
    BY <2>1 DEF Billed!Idle, CallRows, Billed!Stages
  <2>2. CASE o = [call[c] EXCEPT !.stage = "parse"]
    <3>1. "parse" \in Billed!Stages /\ call[c].attempt \in Nat /\ call[c].answer \in Nat
      BY <1>2 DEF CallRows, Billed!Stages
    <3>2. o = Moved(call[c], "parse", call[c].attempt, call[c].answer)
      BY <1>2, <2>2 DEF CallRows, Moved
    <3> QED  BY <1>2, <2>2, <3>1, <3>2, RowMoves
  <2> QED  BY <1>3, <2>1, <2>2
<1>5. Quiet(c, o)
  <2>1. call[c].answer \in Nat /\ call[c].answer <= answers /\ (call[c].keyless => call[c].answer = 0)
    BY <1>2 DEF CallRows, LedgerIInv, Numbered
  <2> QED  BY <1>1, <1>3, <1>4, <2>1 DEF Quiet, InHand
<1>6. Warned'
  <2> DEFINE key == Billed!Unsaid(call[c].asked)
             Names(q) == {q[i] : i \in 1 .. Len(q)}
  <2>1. call'[c] = o /\ \A d \in Threads : d # c => call'[d] = call[d]
    BY <1>1, <1>3
  <2>2. Warned /\ Len(warnings) \in Nat
    BY LenProperties DEF LedgerIInv, Warned
  <2>3. key \in Told \cup {<<>>}
    <3>1. call[c].asked[1] \in STRING
      BY <1>1, CallAssumption
    <3> QED  BY <1>1, <3>1 DEF Billed!Unsaid, Told
  <2>4. PICK n \in 1 .. Len(ledger) : ledger[n].asked = call[c].asked
    BY <1>1, <2>2 DEF Warned
  <2>5. \/ (key = <<>> \/ key \in warned) /\ UNCHANGED <<warned, warnings>>
        \/ key # <<>> /\ key \notin warned /\ warned' = warned \cup {key} /\ warnings' = Append(warnings, key)
    BY DEF Billed!Note
  <2>6. /\ warnings' \in Seq(Told) /\ warned' = {warnings'[i] : i \in 1 .. Len(warnings')}
        /\ \A i, j \in 1 .. Len(warnings') : warnings'[i] = warnings'[j] => i = j
        /\ warned \subseteq warned' /\ warned' \subseteq warned \cup {key} /\ key \in warned' \cup {<<>>}
    <3>1. CASE UNCHANGED <<warned, warnings>>
      BY <2>2, <2>5, <3>1 DEF Warned
    <3>2. CASE key # <<>> /\ key \notin warned /\ warned' = warned \cup {key} /\ warnings' = Append(warnings, key)
      <4> HIDE DEF key
      <4>1. PICK q, l : q = warnings' /\ l = Len(warnings)
        OBVIOUS
      <4>2. /\ q \in Seq(Told) /\ Len(q) = l + 1 /\ q[l + 1] = key /\ \A i \in 1 .. l : q[i] = warnings[i]
        BY <2>2, <2>3, <3>2, <4>1, AppendProperties DEF Warned
      <4>3. \A i \in 1 .. l + 1 : i \in 1 .. l \/ i = l + 1
        BY <2>2, <4>1
      <4>4. \A i, j \in 1 .. l + 1 : q[i] = q[j] => i = j
        BY <2>2, <3>2, <4>1, <4>2, <4>3 DEF Warned
      <4>5. warned' = {q[i] : i \in 1 .. l + 1}
        <5>1. \A w : w \in warned' <=> \E i \in 1 .. l + 1 : q[i] = w
          BY <2>2, <3>2, <4>1, <4>2, <4>3 DEF Warned
        <5> QED  BY <5>1
      <4> QED  BY <3>2, <4>1, <4>2, <4>4, <4>5
    <3> QED  BY <2>5, <3>1, <3>2
  <2>7. \A m \in 1 .. Len(ledger) :
           \/ Billed!Unsaid(ledger[m].asked) \in warned' \cup {<<>>}
           \/ \E d \in Threads : call'[d].stage \in {"adding", "noting"} /\ call'[d].asked = ledger[m].asked
    <3> SUFFICES ASSUME NEW m \in 1 .. Len(ledger), Billed!Unsaid(ledger[m].asked) \notin warned' \cup {<<>>}
                 PROVE  \E d \in Threads : call'[d].stage \in {"adding", "noting"} /\ call'[d].asked = ledger[m].asked
      OBVIOUS
    <3>1. Billed!Unsaid(ledger[m].asked) \notin warned \cup {<<>>}
      BY <2>6
    <3>2. PICK d \in Threads : call[d].stage \in {"adding", "noting"} /\ call[d].asked = ledger[m].asked
      BY <2>2, <3>1 DEF Warned
    <3>3. d # c
      BY <2>6, <3>2
    <3> QED  BY <2>1, <3>2, <3>3
  <2>8. \A d \in Threads : call'[d].stage \in {"adding", "noting"} =>
           \E m \in 1 .. Len(ledger) : ledger[m].asked = call'[d].asked
    BY <1>4, <2>1, <2>2 DEF Warned
  <2>9. warned' \subseteq {Billed!Unsaid(ledger[m].asked) : m \in 1 .. Len(ledger)}
    <3>1. key = Billed!Unsaid(ledger[n].asked)
      BY <2>4
    <3>2. warned \subseteq {Billed!Unsaid(ledger[m].asked) : m \in 1 .. Len(ledger)}
      BY <2>2 DEF Warned
    <3> HIDE DEF key
    <3> QED  BY <2>4, <2>6, <3>1, <3>2
  <2>10. \A asked : Billed!Unsaid(asked)' = Billed!Unsaid(asked)
    BY DEF Billed!Unsaid, Billed!Priced, Billed!TierPriced
  <2> HIDE DEF key
  <2>11. ledger' = ledger
    BY <1>1
  <2>12. (\A m \in 1 .. Len(ledger) :
             \/ Billed!Unsaid(ledger[m].asked) \in warned \cup {<<>>}
             \/ \E d \in Threads : call[d].stage \in {"adding", "noting"} /\ call[d].asked = ledger[m].asked)'
    BY <2>7, <2>10, <2>11
  <2>13. (warned \subseteq {Billed!Unsaid(ledger[m].asked) : m \in 1 .. Len(ledger)})'
    BY <2>9, <2>10, <2>11
  <2>14. (\A d \in Threads : call[d].stage \in {"adding", "noting"} =>
             \E m \in 1 .. Len(ledger) : ledger[m].asked = call[d].asked)'
    BY <2>8, <2>11
  <2>15. (/\ warnings \in Seq(Told) /\ warned = {warnings[i] : i \in 1 .. Len(warnings)}
          /\ \A i, j \in 1 .. Len(warnings) : warnings[i] = warnings[j] => i = j)'
    BY <2>6
  <2> QED  BY <2>12, <2>13, <2>14, <2>15 DEF Warned
<1> QED  BY <1>1, <1>5, <1>6, QuietKeeps DEF LedgerIInv

\* The sum of one more.
LEMMA SumGrows ==
    ASSUME NEW S, IsFiniteSet(S), NEW x, x \notin S, NEW F, NEW G, \A y \in S : F[y] = G[y],
           \A y \in S \cup {x} : G[y] \in Nat
    PROVE  SumOver(G, S \cup {x}) = G[x] + SumOver(F, S)
<1>1. PICK T : T = S \cup {x}
  OBVIOUS
<1>2. IsFiniteSet(T) /\ x \in T /\ T \ {x} = S /\ \A y \in T : G[y] \in Nat
  BY <1>1, FS_AddElement
<1>3. SumOver(G, T) = G[x] + SumOver(G, T \ {x})
  BY <1>2, SumTakes
<1>4. SumOver(F, S) = SumOver(G, S)
  BY SumsSame
<1> QED  BY <1>1, <1>2, <1>3, <1>4

\* What the sums are of, in the next state.
LEMMA SumsThen ==
    /\ SumOver(CallCosts, Billed!Recording({"adding"}))' = SumOver(CallCosts', Billed!Recording({"adding"})')
    /\ SumOver(EntryCosts, DOMAIN ledger)' = SumOver(EntryCosts', (DOMAIN ledger)')
    /\ \A asked : Billed!CostOf(asked)' = Billed!CostOf(asked)
    /\ \A asked : Billed!Unsaid(asked)' = Billed!Unsaid(asked)
<1>1. /\ SumOver(CallCosts, Billed!Recording({"adding"}))' = SumOver(CallCosts', Billed!Recording({"adding"})')
      /\ SumOver(EntryCosts, DOMAIN ledger)' = SumOver(EntryCosts', (DOMAIN ledger)')
  BY DEF SumOver, AddsUp, First
<1>2. \A asked : Billed!CostOf(asked)' = Billed!CostOf(asked)
  BY DEF Billed!CostOf, Billed!Priced, Billed!TierPriced
<1>3. \A asked : Billed!Unsaid(asked)' = Billed!Unsaid(asked)
  BY DEF Billed!Unsaid, Billed!Priced, Billed!TierPriced
<1> QED  BY <1>1, <1>2, <1>3

\* What is entered is about to be added, and its answer is in nobody's hands any more.
LEMMA RecordKeeps == ASSUME LedgerIInv, NEW c \in Threads, Billed!Record(c) PROVE LedgerIInv'
<1> DEFINE e == [answer |-> call[c].answer, asked |-> call[c].asked]
<1>1. /\ call \in [Threads -> CallRows] /\ answers \in Nat /\ call[c].stage = "record" /\ call[c].asked \in AskedFor
      /\ call' = [call EXCEPT ![c].stage = "adding", ![c].read = 0] /\ ledger' = Append(ledger, e)
      /\ UNCHANGED <<answers, sum, warned, warnings, notes>>
  BY DEF LedgerIInv, LedgerTyped, Billed!Record
<1>2. call[c] \in CallRows
  BY <1>1
<1>3. PICK o \in CallRows : o = [[call[c] EXCEPT !.stage = "adding"] EXCEPT !.read = 0]
  <2>1. PICK p \in CallRows : p = [call[c] EXCEPT !.stage = "adding"]
    BY <1>2 DEF CallRows, Billed!Stages
  <2>2. PICK o \in CallRows : o = [p EXCEPT !.read = 0]
    BY DEF CallRows
  <2> QED  BY <2>1, <2>2
<1>4. o.stage = "adding" /\ o.asked = call[c].asked /\ o.answer = call[c].answer /\ o.keyless = call[c].keyless
  BY <1>2, <1>3 DEF CallRows
<1>5. call' = [call EXCEPT ![c] = o]
  BY <1>1, <1>3
<1>6. call'[c] = o /\ \A d \in Threads : d # c => call'[d] = call[d]
  BY <1>1, <1>5
<1>7. /\ Len(ledger) \in Nat /\ DOMAIN ledger = 1 .. Len(ledger) /\ IsFiniteSet(DOMAIN ledger)
      /\ \A n \in 1 .. Len(ledger) : ledger[n] \in Entered
  BY EntriesFinite DEF LedgerIInv
<1>8. call[c].answer \in Nat /\ call[c].answer <= answers /\ e \in Entered
  BY <1>1, <1>2 DEF CallRows, Entered, LedgerIInv, Numbered
<1> HIDE DEF e
<1>9. PICK q, l : q = ledger' /\ l = Len(ledger)
  OBVIOUS
<1>10. /\ q \in Seq(Entered) /\ Len(q) = l + 1 /\ q[l + 1] = e /\ l \in Nat
       /\ \A n \in 1 .. l : q[n] = ledger[n] /\ DOMAIN q = 1 .. l + 1
  BY <1>1, <1>7, <1>8, <1>9, AppendProperties, LenProperties DEF LedgerIInv, LedgerTyped
<1>11. \A n \in 1 .. l + 1 : n \in 1 .. l \/ n = l + 1
  BY <1>10
<1>12. e.asked = call[c].asked /\ e.answer = call[c].answer
  BY DEF e
<1>13. LedgerTyped'
  <2>1. call' \in [Threads -> CallRows]
    BY <1>1, <1>5
  <2>2. \A d \in Threads : call'[d].stage # "idle" => call'[d].asked \in AskedFor
    BY <1>1, <1>4, <1>6 DEF LedgerIInv, LedgerTyped
  <2>3. notes' \in [Threads -> [lost : SUBSET {0}, turns : Nat]] /\ ledger' \in Seq(Entered) /\ answers' \in Nat /\ sum' \in Nat
    BY <1>1, <1>9, <1>10 DEF LedgerIInv, LedgerTyped
  <2> QED  BY <2>1, <2>2, <2>3 DEF LedgerTyped
<1>14. Summed'
  <2>1. PICK A : A = Billed!Recording({"adding"})
    OBVIOUS
  <2>2. IsFiniteSet(A) /\ A \subseteq Threads /\ c \notin A /\ Billed!Recording({"adding"})' = A \cup {c}
    <3>1. IsFiniteSet(A) /\ A \subseteq Threads
      BY <2>1, RecordingFinite
    <3>2. \A d \in Threads : call'[d].stage = "adding" <=> d = c \/ call[d].stage = "adding"
      BY <1>4, <1>6
    <3> QED  BY <1>1, <2>1, <3>1, <3>2 DEF Billed!Recording
  <2>3. /\ \A d \in A : CallCosts[d] = CallCosts'[d]
        /\ \A d \in A \cup {c} : CallCosts'[d] \in Nat
        /\ CallCosts'[c] = Billed!CostOf(call[c].asked)
    <3>1. \A d \in Threads : CallCosts'[d] = Billed!CostOf(call'[d].asked) /\ CallCosts[d] = Billed!CostOf(call[d].asked)
      BY SumsThen DEF CallCosts
    <3> QED  BY <1>4, <1>6, <2>2, <3>1, CostIsNumber
  <2>4. SumOver(CallCosts', A \cup {c}) = Billed!CostOf(call[c].asked) + SumOver(CallCosts, A) /\ SumOver(CallCosts, A) \in Nat
    <3>1. PICK F, G : F = CallCosts /\ G = CallCosts'
      OBVIOUS
    <3>2. /\ \A d \in A : F[d] = G[d]
          /\ \A d \in A \cup {c} : G[d] \in Nat
      BY <2>3, <3>1
    <3>3. SumOver(G, A \cup {c}) = G[c] + SumOver(F, A)
      BY <2>2, <3>2, SumGrows
    <3>4. SumOver(F, A) \in Nat
      BY <2>2, <3>2, SumIsNumber
    <3> QED  BY <2>3, <3>1, <3>3, <3>4
  <2>5. /\ \A n \in 1 .. l : EntryCosts[n] = EntryCosts'[n]
        /\ \A n \in (1 .. l) \cup {l + 1} : EntryCosts'[n] \in Nat
        /\ EntryCosts'[l + 1] = Billed!CostOf(call[c].asked)
        /\ (DOMAIN ledger)' = (1 .. l) \cup {l + 1} /\ l + 1 \notin 1 .. l /\ IsFiniteSet(1 .. l)
    <3>1. /\ \A n \in 1 .. l : EntryCosts[n] = Billed!CostOf(ledger[n].asked)
          /\ \A n \in 1 .. l + 1 : EntryCosts'[n] = Billed!CostOf(q[n].asked)
      BY <1>7, <1>9, <1>10, SumsThen DEF EntryCosts
    <3>2. (1 .. l) \cup {l + 1} = 1 .. l + 1 /\ l + 1 \notin 1 .. l
      BY <1>10
    <3>3. DOMAIN q = 1 .. l + 1
      BY <1>10, LenProperties
    <3>4. IsFiniteSet(1 .. l)
      BY <1>7, <1>9
    <3>5. \A n \in 1 .. l : EntryCosts[n] = EntryCosts'[n]
      BY <1>10, <3>1, <3>2
    <3>6. \A n \in 1 .. l + 1 : EntryCosts'[n] \in Nat
      BY <3>1, CostIsNumber
    <3>7. EntryCosts'[l + 1] = Billed!CostOf(call[c].asked)
      BY <1>10, <1>12, <3>1
    <3> QED  BY <1>9, <3>2, <3>3, <3>4, <3>5, <3>6, <3>7
  <2>6. SumOver(EntryCosts', (1 .. l) \cup {l + 1}) = Billed!CostOf(call[c].asked) + SumOver(EntryCosts, 1 .. l)
        /\ SumOver(EntryCosts, 1 .. l) \in Nat
    <3>1. PICK F, G : F = EntryCosts /\ G = EntryCosts'
      OBVIOUS
    <3>2. PICK B, m : B = 1 .. l /\ m = l + 1
      OBVIOUS
    <3>3. IsFiniteSet(B) /\ m \notin B
      BY <2>5, <3>2
    <3>4. /\ \A n \in B : F[n] = G[n]
          /\ \A n \in B \cup {m} : G[n] \in Nat
      BY <2>5, <3>1, <3>2
    <3>5. SumOver(G, B \cup {m}) = G[m] + SumOver(F, B)
      BY <3>3, <3>4, SumGrows
    <3>6. SumOver(F, B) \in Nat
      BY <3>3, <3>4, SumIsNumber
    <3> QED  BY <2>5, <3>1, <3>2, <3>5, <3>6
  <2>7. sum + SumOver(CallCosts, A) = SumOver(EntryCosts, 1 .. l) /\ sum \in Nat
    BY <1>7, <1>9, <2>1 DEF LedgerIInv, Summed, LedgerTyped
  <2>8. sum + (Billed!CostOf(call[c].asked) + SumOver(CallCosts, A)) = Billed!CostOf(call[c].asked) + SumOver(EntryCosts, 1 .. l)
    BY <2>4, <2>6, <2>7, CostIsNumber
  <2> QED  BY <1>1, <2>2, <2>4, <2>5, <2>6, <2>8, SumsThen DEF Summed
<1>15. Warned'
  <2>1. Warned
    BY DEF LedgerIInv
  <2>2. /\ \A n \in 1 .. l + 1 :
              \/ Billed!Unsaid(q[n].asked) \in warned \cup {<<>>}
              \/ \E d \in Threads : call'[d].stage \in {"adding", "noting"} /\ call'[d].asked = q[n].asked
    <3> SUFFICES ASSUME NEW n \in 1 .. l + 1, Billed!Unsaid(q[n].asked) \notin warned \cup {<<>>}
                 PROVE  \E d \in Threads : call'[d].stage \in {"adding", "noting"} /\ call'[d].asked = q[n].asked
      OBVIOUS
    <3>1. CASE n = l + 1
      BY <1>4, <1>6, <1>10, <1>12, <3>1
    <3>2. CASE n \in 1 .. l
      <4>1. PICK d \in Threads : call[d].stage \in {"adding", "noting"} /\ call[d].asked = ledger[n].asked
        BY <1>9, <1>10, <2>1, <3>2 DEF Warned
      <4> QED  BY <1>1, <1>6, <1>10, <3>2, <4>1
    <3> QED  BY <1>11, <3>1, <3>2
  <2>3. warned \subseteq {Billed!Unsaid(q[n].asked) : n \in 1 .. l + 1}
    <3> SUFFICES ASSUME NEW w \in warned PROVE \E n \in 1 .. l + 1 : w = Billed!Unsaid(q[n].asked)
      OBVIOUS
    <3>1. PICK n \in 1 .. l : w = Billed!Unsaid(ledger[n].asked)
      BY <1>9, <2>1 DEF Warned
    <3> QED  BY <1>10, <3>1
  <2>4. \A d \in Threads : call'[d].stage \in {"adding", "noting"} => \E n \in 1 .. l + 1 : q[n].asked = call'[d].asked
    <3> SUFFICES ASSUME NEW d \in Threads, call'[d].stage \in {"adding", "noting"}
                 PROVE  \E n \in 1 .. l + 1 : q[n].asked = call'[d].asked
      OBVIOUS
    <3>1. CASE d = c
      BY <1>4, <1>6, <1>10, <1>12, <3>1
    <3>2. CASE d # c
      <4>1. PICK n \in 1 .. l : ledger[n].asked = call[d].asked
        BY <1>6, <1>9, <2>1, <3>2 DEF Warned
      <4> QED  BY <1>6, <1>10, <3>2, <4>1
    <3> QED  BY <3>1, <3>2
  <2>5. (\A n \in 1 .. Len(ledger) :
             \/ Billed!Unsaid(ledger[n].asked) \in warned \cup {<<>>}
             \/ \E d \in Threads : call[d].stage \in {"adding", "noting"} /\ call[d].asked = ledger[n].asked)'
    <3>1. \A n \in 1 .. Len(ledger') :
             \/ Billed!Unsaid(ledger'[n].asked) \in warned' \cup {<<>>}
             \/ \E d \in Threads : call'[d].stage \in {"adding", "noting"} /\ call'[d].asked = ledger'[n].asked
      <4>1. warned' = warned /\ ledger' = q /\ Len(q) = l + 1
        BY <1>1, <1>9, <1>10
      <4> QED  BY <2>2, <4>1
    <3> QED  BY <3>1, SumsThen
  <2>6. (warned \subseteq {Billed!Unsaid(ledger[n].asked) : n \in 1 .. Len(ledger)})'
    BY <1>1, <1>9, <1>10, <2>3, SumsThen
  <2>7. (\A d \in Threads : call[d].stage \in {"adding", "noting"} =>
             \E n \in 1 .. Len(ledger) : ledger[n].asked = call[d].asked)'
    BY <1>9, <1>10, <2>4
  <2>8. (/\ warnings \in Seq(Told) /\ warned = {warnings[i] : i \in 1 .. Len(warnings)}
         /\ \A i, j \in 1 .. Len(warnings) : warnings[i] = warnings[j] => i = j)'
    BY <1>1, <2>1 DEF Warned
  <2> QED  BY <2>5, <2>6, <2>7, <2>8 DEF Warned
<1>16. Numbered'
  <2>1. \A d \in Threads :
           /\ call'[d].answer <= answers
           /\ call'[d].stage \in {"idle", "resolve", "submit", "fetch"} \/ call'[d].keyless => call'[d].answer = 0
    BY <1>4, <1>6, <1>8 DEF LedgerIInv, Numbered
  <2>2. \A n \in 1 .. l + 1 : q[n].answer <= answers
    BY <1>8, <1>9, <1>10, <1>11, <1>12 DEF LedgerIInv, Numbered
  <2> QED  BY <1>1, <1>9, <1>10, <2>1, <2>2 DEF Numbered
<1>17. Apart'
  <2>1. ~ InHand(o) /\ (call[c].answer # 0 => InHand(call[c]))
    BY <1>1, <1>4 DEF InHand
  <2>2. Apart
    BY DEF LedgerIInv
  <2>3. \A d \in Threads : InHand(call'[d]) => d # c /\ InHand(call[d]) /\ call'[d] = call[d]
    BY <1>6, <2>1
  <2>4. \A d, f \in Threads : InHand(call'[d]) /\ InHand(call'[f]) /\ call'[d].answer = call'[f].answer => d = f
    BY <2>2, <2>3 DEF Apart
  <2>5. ASSUME NEW d \in Threads, NEW n \in 1 .. l + 1, InHand(call'[d]) PROVE q[n].answer # call'[d].answer
    <3>1. d # c /\ InHand(call[d]) /\ call'[d] = call[d] /\ call[d].answer # 0
      BY <2>3, <2>5 DEF InHand
    <3>2. CASE n \in 1 .. l
      BY <1>9, <1>10, <2>2, <3>1, <3>2 DEF Apart
    <3>3. CASE n = l + 1
      BY <1>10, <1>12, <2>1, <2>2, <3>1, <3>3 DEF Apart
    <3> QED  BY <1>11, <3>2, <3>3
  <2>6. ASSUME NEW n \in 1 .. l, q[n].answer = e.answer PROVE e.answer = 0
    BY <1>9, <1>10, <1>12, <2>1, <2>2, <2>6 DEF Apart
  <2>7. ASSUME NEW m \in 1 .. l + 1, NEW n \in 1 .. l + 1, q[m].answer = q[n].answer
        PROVE  m = n \/ q[m].answer = 0
    <3>1. CASE m \in 1 .. l /\ n \in 1 .. l
      BY <1>9, <1>10, <2>2, <2>7, <3>1 DEF Apart
    <3>2. CASE m = l + 1 /\ n \in 1 .. l
      BY <1>10, <2>6, <2>7, <3>2
    <3>3. CASE m \in 1 .. l /\ n = l + 1
      BY <1>10, <2>6, <2>7, <3>3
    <3> QED  BY <1>11, <3>1, <3>2, <3>3
  <2>8. (/\ \A d, f \in Threads : InHand(call[d]) /\ InHand(call[f]) /\ call[d].answer = call[f].answer => d = f
         /\ \A d \in Threads, n \in 1 .. Len(ledger) : InHand(call[d]) => ledger[n].answer # call[d].answer
         /\ \A m, n \in 1 .. Len(ledger) : ledger[m].answer = ledger[n].answer => m = n \/ ledger[m].answer = 0)'
    <3>1. /\ \A d, f \in Threads : InHand(call'[d]) /\ InHand(call'[f]) /\ call'[d].answer = call'[f].answer => d = f
          /\ \A d \in Threads, n \in 1 .. l + 1 : InHand(call'[d]) => q[n].answer # call'[d].answer
          /\ \A m, n \in 1 .. l + 1 : q[m].answer = q[n].answer => m = n \/ q[m].answer = 0
      BY <2>4, <2>5, <2>7
    <3> QED  BY <1>9, <1>10, <3>1 DEF InHand
  <2> QED  BY <2>8 DEF Apart
<1> QED  BY <1>13, <1>14, <1>15, <1>16, <1>17 DEF LedgerIInv

\* What is added is what the entry cost.
LEMMA AddKeeps == ASSUME LedgerIInv, NEW c \in Threads, Billed!Add(c) PROVE LedgerIInv'
<1>1. /\ call \in [Threads -> CallRows] /\ answers \in Nat /\ call[c].stage = "adding" /\ call[c].asked \in AskedFor
      /\ call' = [call EXCEPT ![c].stage = "noting"] /\ sum' = sum + Billed!CostOf(call[c].asked)
      /\ UNCHANGED <<answers, ledger, warned, warnings, notes>>
  BY DEF LedgerIInv, LedgerTyped, Billed!Add, Billed!AddCost, Billed!Go
<1>2. call[c] \in CallRows
  BY <1>1
<1>3. PICK o \in CallRows : o = [call[c] EXCEPT !.stage = "noting"]
  BY <1>2 DEF CallRows, Billed!Stages
<1>4. o.stage = "noting" /\ o.asked = call[c].asked /\ o.answer = call[c].answer /\ o.keyless = call[c].keyless
  BY <1>2, <1>3 DEF CallRows
<1>5. call' = [call EXCEPT ![c] = o]
  BY <1>1, <1>3
<1>6. call'[c] = o /\ \A d \in Threads : d # c => call'[d] = call[d]
  BY <1>1, <1>5
<1>7. LedgerTyped'
  <2>1. call' \in [Threads -> CallRows]
    BY <1>1, <1>5
  <2>2. \A d \in Threads : call'[d].stage # "idle" => call'[d].asked \in AskedFor
    BY <1>1, <1>4, <1>6 DEF LedgerIInv, LedgerTyped
  <2>3. sum' \in Nat
    BY <1>1, CostIsNumber DEF LedgerIInv, LedgerTyped
  <2>4. notes' \in [Threads -> [lost : SUBSET {0}, turns : Nat]] /\ ledger' \in Seq(Entered) /\ answers' \in Nat
    BY <1>1 DEF LedgerIInv, LedgerTyped
  <2> QED  BY <2>1, <2>2, <2>3, <2>4 DEF LedgerTyped
<1>8. Summed'
  <2>1. PICK A : A = Billed!Recording({"adding"})'
    OBVIOUS
  <2>2. IsFiniteSet(A) /\ A \subseteq Threads /\ c \notin A /\ Billed!Recording({"adding"}) = A \cup {c}
    <3>1. IsFiniteSet(Billed!Recording({"adding"})) /\ Billed!Recording({"adding"}) \subseteq Threads
      BY RecordingFinite
    <3>2. \A d \in Threads : call[d].stage = "adding" <=> d = c \/ call'[d].stage = "adding"
      BY <1>1, <1>6
    <3>3. c \notin A /\ A \subseteq Threads /\ Billed!Recording({"adding"}) = A \cup {c}
      BY <1>4, <1>6, <2>1, <3>2 DEF Billed!Recording
    <3> QED  BY <3>1, <3>3, FS_Subset
  <2>3. PICK F, G : F = CallCosts' /\ G = CallCosts
    OBVIOUS
  <2>4. /\ \A d \in A : F[d] = G[d]
        /\ \A d \in A \cup {c} : G[d] \in Nat
        /\ G[c] = Billed!CostOf(call[c].asked)
    <3>1. \A d \in Threads : CallCosts'[d] = Billed!CostOf(call'[d].asked) /\ CallCosts[d] = Billed!CostOf(call[d].asked)
      BY SumsThen DEF CallCosts
    <3> QED  BY <1>4, <1>6, <2>2, <2>3, <3>1, CostIsNumber
  <2>5. SumOver(G, A \cup {c}) = G[c] + SumOver(F, A)
    BY <2>2, <2>4, SumGrows
  <2>6. SumOver(F, A) \in Nat
    <3>1. \A d \in A : F[d] \in Nat
      BY <2>4
    <3> QED  BY <2>2, <3>1, SumIsNumber
  <2>7. sum + SumOver(G, A \cup {c}) = SumOver(EntryCosts, DOMAIN ledger) /\ sum \in Nat
    BY <2>2, <2>3 DEF LedgerIInv, Summed, LedgerTyped
  <2>8. sum' + SumOver(F, A) = SumOver(EntryCosts, DOMAIN ledger)
    BY <1>1, <2>4, <2>5, <2>6, <2>7
  <2>9. EntryCosts' = EntryCosts /\ (DOMAIN ledger)' = DOMAIN ledger
    BY <1>1, SumsThen DEF EntryCosts
  <2> QED  BY <2>1, <2>3, <2>8, <2>9, SumsThen DEF Summed
<1>9. Warned'
  <2>1. \A d \in Threads : call'[d].asked = call[d].asked /\ (call'[d].stage \in {"adding", "noting"} <=> call[d].stage \in {"adding", "noting"})
    BY <1>1, <1>4, <1>6
  <2>2. Warned
    BY DEF LedgerIInv
  <2>3. \A n \in 1 .. Len(ledger) :
           \/ Billed!Unsaid(ledger[n].asked) \in warned \cup {<<>>}
           \/ \E d \in Threads : call'[d].stage \in {"adding", "noting"} /\ call'[d].asked = ledger[n].asked
    BY <2>1, <2>2 DEF Warned
  <2>4. \A d \in Threads : call'[d].stage \in {"adding", "noting"} =>
           \E n \in 1 .. Len(ledger) : ledger[n].asked = call'[d].asked
    BY <2>1, <2>2 DEF Warned
  <2>5. warned' = warned /\ warnings' = warnings /\ ledger' = ledger
    BY <1>1
  <2>6. (\A n \in 1 .. Len(ledger) :
             \/ Billed!Unsaid(ledger[n].asked) \in warned \cup {<<>>}
             \/ \E d \in Threads : call[d].stage \in {"adding", "noting"} /\ call[d].asked = ledger[n].asked)'
    BY <2>3, <2>5, SumsThen
  <2>7. (/\ warned \subseteq {Billed!Unsaid(ledger[n].asked) : n \in 1 .. Len(ledger)}
         /\ warnings \in Seq(Told) /\ warned = {warnings[i] : i \in 1 .. Len(warnings)}
         /\ \A i, j \in 1 .. Len(warnings) : warnings[i] = warnings[j] => i = j)'
    BY <2>2, <2>5, SumsThen DEF Warned
  <2>8. (\A d \in Threads : call[d].stage \in {"adding", "noting"} =>
             \E n \in 1 .. Len(ledger) : ledger[n].asked = call[d].asked)'
    BY <2>4, <2>5
  <2> QED  BY <2>6, <2>7, <2>8 DEF Warned
<1>10. Numbered'
  <2>1. \A d \in Threads :
           /\ call'[d].answer <= answers
           /\ call'[d].stage \in {"idle", "resolve", "submit", "fetch"} \/ call'[d].keyless => call'[d].answer = 0
    BY <1>1, <1>4, <1>6 DEF LedgerIInv, Numbered
  <2> QED  BY <1>1, <2>1 DEF LedgerIInv, Numbered
<1>11. Apart'
  <2>1. \A d \in Threads : InHand(call'[d]) <=> InHand(call[d])
    BY <1>1, <1>4, <1>6 DEF InHand
  <2>2. \A d \in Threads : call'[d].answer = call[d].answer
    BY <1>4, <1>6
  <2>3. (\A d \in Threads : InHand(call[d]))' <=> \A d \in Threads : InHand(call'[d])
    BY DEF InHand
  <2>4. Apart
    BY DEF LedgerIInv
  <2>5. (/\ \A d, f \in Threads : InHand(call[d]) /\ InHand(call[f]) /\ call[d].answer = call[f].answer => d = f
         /\ \A d \in Threads, n \in 1 .. Len(ledger) : InHand(call[d]) => ledger[n].answer # call[d].answer
         /\ \A m, n \in 1 .. Len(ledger) : ledger[m].answer = ledger[n].answer => m = n \/ ledger[m].answer = 0)'
    <3>1. /\ \A d, f \in Threads : InHand(call'[d]) /\ InHand(call'[f]) /\ call'[d].answer = call'[f].answer => d = f
          /\ \A d \in Threads, n \in 1 .. Len(ledger) : InHand(call'[d]) => ledger[n].answer # call'[d].answer
          /\ \A m, n \in 1 .. Len(ledger) : ledger[m].answer = ledger[n].answer => m = n \/ ledger[m].answer = 0
      BY <2>1, <2>2, <2>4 DEF Apart
    <3> QED  BY <1>1, <3>1 DEF InHand
  <2> QED  BY <2>5 DEF Apart
<1> QED  BY <1>7, <1>8, <1>9, <1>10, <1>11 DEF LedgerIInv

\* A ledger that is cleared when nobody is being entered in it has nothing, and nothing is warned of.
LEMMA ClearKeeps == ASSUME LedgerIInv, Billed!Clear PROVE LedgerIInv'
<1>1. /\ ledger' = <<>> /\ sum' = 0 /\ warnings' = <<>> /\ warned' = {} /\ UNCHANGED <<call, answers, notes>>
      /\ \A c \in Threads : call[c].stage \notin {"adding", "noting"}
  BY DEF Billed!Clear, Billed!Forget
<1>2. Len(ledger') = 0 /\ 1 .. 0 = {} /\ (DOMAIN ledger)' = {} /\ Len(warnings') = 0
  BY <1>1
<1>3. LedgerTyped'
  BY <1>1 DEF LedgerIInv, LedgerTyped
<1>4. Summed'
  <2>1. Billed!Recording({"adding"})' = {}
    BY <1>1 DEF Billed!Recording
  <2>2. \A F : SumOver(F, {}) = 0
    BY SumIsNumber, FS_EmptySet
  <2>3. SumOver(CallCosts', Billed!Recording({"adding"})') = 0 /\ SumOver(EntryCosts', (DOMAIN ledger)') = 0
    BY <1>2, <2>1, <2>2
  <2> QED  BY <1>1, <2>3, SumsThen DEF Summed
<1>5. Warned'
  <2>1. (\A d \in Threads : call[d].stage \notin {"adding", "noting"})'
    BY <1>1
  <2> QED  BY <1>1, <1>2, <2>1 DEF Warned
<1>6. Numbered'
  BY <1>1, <1>2 DEF LedgerIInv, Numbered
<1>7. Apart'
  BY <1>1, <1>2 DEF LedgerIInv, Apart, InHand
<1> QED  BY <1>3, <1>4, <1>5, <1>6, <1>7 DEF LedgerIInv

\* Every step keeps the ledger's invariant.
LEMMA LedgerKeeps == LedgerIInv /\ [Billed!Next]_(Billed!callsVars) => LedgerIInv'
<1> SUFFICES ASSUME LedgerIInv, [Billed!Next]_(Billed!callsVars) PROVE LedgerIInv'
  OBVIOUS
<1>1. CASE UNCHANGED Billed!callsVars
  <2>1. UNCHANGED <<call, answers, ledger, sum, warned, warnings, notes>>
    BY <1>1 DEF Billed!callsVars
  <2>2. LedgerTyped' /\ Numbered'
    BY <2>1 DEF LedgerIInv, LedgerTyped, Numbered
  <2>3. Apart'
    BY <2>1 DEF LedgerIInv, Apart, InHand
  <2>4. Summed'
    <3>1. /\ CallCosts' = CallCosts /\ EntryCosts' = EntryCosts /\ (DOMAIN ledger)' = DOMAIN ledger
          /\ Billed!Recording({"adding"})' = Billed!Recording({"adding"})
      BY <2>1, SumsThen DEF CallCosts, EntryCosts, Billed!Recording
    <3> QED  BY <2>1, <3>1, SumsThen DEF LedgerIInv, Summed
  <2>5. Warned'
    BY <2>1, SumsThen DEF LedgerIInv, Warned
  <2> QED  BY <2>2, <2>3, <2>4, <2>5 DEF LedgerIInv
<1>2. CASE Billed!Next
  <2>1. CASE Billed!Clear
    BY <2>1, ClearKeeps
  <2>2. ASSUME NEW c \in Threads,
               \/ \E form \in {"complete", "structured", "stream"}, asked \in AskedFor, keyless \in BOOLEAN :
                     Billed!Begin(c, form, asked, keyless)
               \/ Billed!Resolve(c) \/ Billed!Submit(c) \/ Billed!Fetch(c) \/ Billed!Refused(c) \/ Billed!Stream(c)
               \/ Billed!Finish(c) \/ Billed!Record(c) \/ Billed!Add(c) \/ Billed!Note(c) \/ Billed!Parse(c)
        PROVE  LedgerIInv'
    <3>1. CASE Billed!Record(c)
      BY <3>1, RecordKeeps
    <3>2. CASE Billed!Add(c)
      BY <3>2, AddKeeps
    <3>3. CASE Billed!Note(c)
      BY <3>3, NoteKeeps
    <3>4. CASE ~ (Billed!Record(c) \/ Billed!Add(c) \/ Billed!Note(c))
      <4>1. (\E o : Quiet(c, o)) /\ call[c].stage # "noting" /\ UNCHANGED <<sum, warned, warnings>>
        BY <2>2, <3>4, CallsAreQuiet
      <4>2. PICK o : Quiet(c, o)
        BY <4>1
      <4> QED  BY <4>1, <4>2, QuietKeeps, QuietWarned DEF LedgerIInv
    <3> QED  BY <3>1, <3>2, <3>3, <3>4
  <2> QED  BY <1>2, <2>1, <2>2 DEF Billed!Next
<1> QED  BY <1>1, <1>2

\* What the calls that are being added cost, as a sum above.
LEMMA CallsAddUp ==
    ASSUME LedgerTyped
    PROVE  Billed!MapThenSumSet(LAMBDA c : Billed!CostOf(call[c].asked), Billed!Recording({"adding"}))
             = SumOver(CallCosts, Billed!Recording({"adding"}))
<1>1. PICK A : A = Billed!Recording({"adding"})
  OBVIOUS
<1>2. IsFiniteSet(A) /\ A \subseteq Threads
  BY <1>1, RecordingFinite
<1> DEFINE Sums(f) == f = [s \in SUBSET A |->
               IF s = {} THEN 0 ELSE Billed!CostOf(call[CHOOSE x \in s : TRUE].asked) + f[s \ {CHOOSE x \in s : TRUE}]]
<1>3. ASSUME NEW f PROVE Sums(f) <=> AddsUp(f, CallCosts, A)
  <2>1. \A s \in SUBSET A : s # {} => CallCosts[First(s)] = Billed!CostOf(call[First(s)].asked)
    <3>1. \A s \in SUBSET A : s # {} => First(s) \in Threads
      BY <1>2 DEF First
    <3> QED  BY <3>1 DEF CallCosts
  <2>2. \A s \in SUBSET A :
           (IF s = {} THEN 0 ELSE Billed!CostOf(call[First(s)].asked) + f[s \ {First(s)}])
             = (IF s = {} THEN 0 ELSE CallCosts[First(s)] + f[s \ {First(s)}])
    BY <2>1
  <2>3. [s \in SUBSET A |-> IF s = {} THEN 0 ELSE Billed!CostOf(call[First(s)].asked) + f[s \ {First(s)}]]
          = [s \in SUBSET A |-> IF s = {} THEN 0 ELSE CallCosts[First(s)] + f[s \ {First(s)}]]
    BY <2>2
  <2> QED  BY <2>3 DEF AddsUp, First
<1>4. PICK g : g = CHOOSE f : Sums(f)
  OBVIOUS
<1>5. AddsUp(g, CallCosts, A)
  <2>1. \E f : Sums(f)
    <3> HIDE DEF Sums
    <3> QED  BY <1>2, <1>3, SumsExist
  <2>2. Sums(g)
    <3> HIDE DEF Sums
    <3> QED  BY <1>4, <2>1
  <2> HIDE DEF Sums
  <2> QED  BY <1>3, <2>2
<1>6. PICK h : h = CHOOSE f : AddsUp(f, CallCosts, A)
  OBVIOUS
<1>7. AddsUp(h, CallCosts, A)
  BY <1>2, <1>6, SumsExist
<1>8. g[A] = h[A]
  <2>1. \A s \in SUBSET A : g[s] = h[s]
    BY <1>2, <1>5, <1>7, SumsAgree
  <2> QED  BY <2>1
<1>9. Billed!MapThenSumSet(LAMBDA c : Billed!CostOf(call[c].asked), A) = g[A]
  BY <1>4 DEF Billed!MapThenSumSet, Billed!MapThenFoldSet
<1> QED  BY <1>1, <1>6, <1>8, <1>9 DEF SumOver

\* What the ledger's entries cost, as a sum above.
LEMMA EntriesAddUp ==
    ASSUME LedgerTyped
    PROVE  Billed!MapThenSumSet(LAMBDA n : Billed!CostOf(ledger[n].asked), DOMAIN ledger) = SumOver(EntryCosts, DOMAIN ledger)
<1>1. PICK A : A = DOMAIN ledger
  OBVIOUS
<1>2. IsFiniteSet(A)
  BY <1>1, EntriesFinite
<1> DEFINE Sums(f) == f = [s \in SUBSET A |->
               IF s = {} THEN 0 ELSE Billed!CostOf(ledger[CHOOSE x \in s : TRUE].asked) + f[s \ {CHOOSE x \in s : TRUE}]]
<1>3. ASSUME NEW f PROVE Sums(f) <=> AddsUp(f, EntryCosts, A)
  <2>1. \A s \in SUBSET A : s # {} => EntryCosts[First(s)] = Billed!CostOf(ledger[First(s)].asked)
    <3>1. \A s \in SUBSET A : s # {} => First(s) \in DOMAIN ledger
      BY <1>1 DEF First
    <3> QED  BY <3>1 DEF EntryCosts
  <2>2. \A s \in SUBSET A :
           (IF s = {} THEN 0 ELSE Billed!CostOf(ledger[First(s)].asked) + f[s \ {First(s)}])
             = (IF s = {} THEN 0 ELSE EntryCosts[First(s)] + f[s \ {First(s)}])
    BY <2>1
  <2>3. [s \in SUBSET A |-> IF s = {} THEN 0 ELSE Billed!CostOf(ledger[First(s)].asked) + f[s \ {First(s)}]]
          = [s \in SUBSET A |-> IF s = {} THEN 0 ELSE EntryCosts[First(s)] + f[s \ {First(s)}]]
    BY <2>2
  <2> QED  BY <2>3 DEF AddsUp, First
<1>4. PICK g : g = CHOOSE f : Sums(f)
  OBVIOUS
<1>5. AddsUp(g, EntryCosts, A)
  <2>1. \E f : Sums(f)
    <3> HIDE DEF Sums
    <3> QED  BY <1>2, <1>3, SumsExist
  <2>2. Sums(g)
    <3> HIDE DEF Sums
    <3> QED  BY <1>4, <2>1
  <2> HIDE DEF Sums
  <2> QED  BY <1>3, <2>2
<1>6. PICK h : h = CHOOSE f : AddsUp(f, EntryCosts, A)
  OBVIOUS
<1>7. AddsUp(h, EntryCosts, A)
  BY <1>2, <1>6, SumsExist
<1>8. g[A] = h[A]
  <2>1. \A s \in SUBSET A : g[s] = h[s]
    BY <1>2, <1>5, <1>7, SumsAgree
  <2> QED  BY <2>1
<1>9. Billed!MapThenSumSet(LAMBDA n : Billed!CostOf(ledger[n].asked), A) = g[A]
  BY <1>4 DEF Billed!MapThenSumSet, Billed!MapThenFoldSet
<1> QED  BY <1>1, <1>6, <1>8, <1>9 DEF SumOver

\* What has no repeats has as many members as places.
LEMMA NoRepeats ==
    ASSUME NEW T, NEW s \in Seq(T), \A i, j \in 1 .. Len(s) : s[i] = s[j] => i = j
    PROVE  Cardinality({s[i] : i \in 1 .. Len(s)}) = Len(s)
<1> DEFINE R == {s[i] : i \in 1 .. Len(s)}
<1>1. Len(s) \in Nat
  BY LenProperties
<1>2. PICK f : f = [i \in 1 .. Len(s) |-> s[i]]
  OBVIOUS
<1>3. f \in Bijection(1 .. Len(s), R)
  <2>1. f \in [1 .. Len(s) -> R] /\ \A r \in R : \E i \in 1 .. Len(s) : f[i] = r
    BY <1>2
  <2>2. \A i, j \in 1 .. Len(s) : f[i] = f[j] => i = j
    BY <1>2
  <2> HIDE DEF R
  <2> QED  BY <2>1, <2>2 DEF Bijection, Injection, Surjection, IsInjective
<1> HIDE DEF R
<1>4. ExistsBijection(1 .. Len(s), R)
  BY <1>3 DEF ExistsBijection
<1>5. Cardinality(R) = Len(s)
  BY <1>1, <1>4, FS_CountingElements
<1> QED  BY <1>5 DEF R

\* What the ledger's invariant says of the calls.
LEMMA LedgerSays == LedgerIInv => Billed!CallsTrue
<1> SUFFICES ASSUME LedgerIInv PROVE Billed!CallsTrue
  OBVIOUS
<1>1. DOMAIN ledger = 1 .. Len(ledger)
  BY EntriesFinite DEF LedgerIInv
<1>2. Billed!TotalIsSum
  BY CallsAddUp, EntriesAddUp DEF Billed!TotalIsSum, LedgerIInv, Summed
<1>3. Billed!WarnedOnce
  <2>1. Warned
    BY DEF LedgerIInv
  <2>2. Billed!ToSet(warnings) = warned
    <3>1. DOMAIN warnings = 1 .. Len(warnings)
      BY <2>1, LenProperties DEF Warned
    <3> QED  BY <2>1, <3>1 DEF Billed!ToSet, Warned
  <2>3. Billed!Cardinality(Billed!ToSet(warnings)) = Len(warnings)
    <3>1. Cardinality({warnings[i] : i \in 1 .. Len(warnings)}) = Len(warnings)
      BY <2>1, NoRepeats DEF Warned
    <3>2. PICK R : R = {warnings[i] : i \in 1 .. Len(warnings)}
      OBVIOUS
    <3>3. Billed!Cardinality(R) = Cardinality(R)
      BY DEF Billed!Cardinality, Cardinality
    <3>4. Billed!ToSet(warnings) = R
      BY <2>1, <2>2, <3>2 DEF Warned
    <3> QED  BY <3>1, <3>2, <3>3, <3>4
  <2>4. ASSUME NEW n \in DOMAIN ledger, Billed!Unsaid(ledger[n].asked) \notin warned \cup {<<>>}
        PROVE  \E c \in Billed!Recording({"adding", "noting"}) : Billed!Unsaid(ledger[n].asked) = Billed!Unsaid(call[c].asked)
    <3>1. PICK c \in Threads : call[c].stage \in {"adding", "noting"} /\ call[c].asked = ledger[n].asked
      BY <1>1, <2>1, <2>4 DEF Warned
    <3>2. c \in Billed!Recording({"adding", "noting"})
      BY <3>1 DEF Billed!Recording
    <3> QED  BY <3>1, <3>2
  <2>5. {Billed!Unsaid(ledger[n].asked) : n \in DOMAIN ledger} \ {<<>>}
          \subseteq warned \cup {Billed!Unsaid(call[c].asked) : c \in Billed!Recording({"adding", "noting"})}
    BY <2>4
  <2>6. warned \subseteq {Billed!Unsaid(ledger[n].asked) : n \in DOMAIN ledger}
    BY <1>1, <2>1 DEF Warned
  <2> QED  BY <2>2, <2>3, <2>5, <2>6 DEF Billed!WarnedOnce
<1>4. Billed!BilledOnce
  <2>1. \A c \in Threads : notes[c].lost \subseteq {0}
    BY DEF LedgerIInv, LedgerTyped
  <2>2. \A m, n \in DOMAIN ledger : m # n /\ ledger[m].answer = ledger[n].answer => ledger[m].answer = 0
    BY <1>1 DEF LedgerIInv, Apart
  <2> QED  BY <2>1, <2>2 DEF Billed!BilledOnce
<1> QED  BY <1>2, <1>3, <1>4 DEF Billed!CallsTrue

-----------------------------------------------------------------------------
(* The cache: a row is what was last set under its name and key, and what has *)
(* no row is old.                                                            *)

PlainNames == \A name \in CacheNames : \A i \in DOMAIN name : name[i] # ":"

\* What a string is made of here.
Pieces == STRING \cup {"cache", ":"}

\* Sequences that are given by their pieces.
LEMMA Written ==
    /\ \A p, q \in Pieces : <<p, q>> \in Seq(Pieces) /\ Len(<<p, q>>) = 2
    /\ \A p \in Pieces : <<p>> \in Seq(Pieces) /\ Len(<<p>>) = 1 /\ <<p>>[1] = p
    /\ "cache" \in Pieces /\ ":" \in Pieces
    /\ \A s \in Seq(STRING) : s \in Seq(Pieces) /\ Len(s) \in Nat /\ DOMAIN s = 1 .. Len(s)
<1>1. "cache" \in Pieces /\ ":" \in Pieces /\ STRING \subseteq Pieces
  BY DEF Pieces
<1>2. \A s \in Seq(STRING) : s \in Seq(Pieces) /\ Len(s) \in Nat /\ DOMAIN s = 1 .. Len(s)
  BY <1>1, SeqMonotonic, LenProperties
<1> QED  BY <1>1, <1>2

IsKeyOf(k, name, key) ==
    /\ k \in Seq(Pieces) /\ Len(k) = Len(name) + 3 + Len(key)
    /\ \A i \in 1 .. Len(name) : k[i + 2] = name[i]
    /\ k[Len(name) + 3] = ":"
    /\ \A i \in 1 .. Len(key) : k[Len(name) + 3 + i] = key[i]

\* The pieces of a storage key.
LEMMA KeyPieces ==
    ASSUME NEW name \in Seq(Pieces), NEW key \in Seq(Pieces)
    PROVE  IsKeyOf(Cached!StorageKey(name, key), name, key)
<1>1. PICK a : a = <<"cache", ":">>
  OBVIOUS
<1>2. a \in Seq(Pieces) /\ Len(a) = 2
  BY <1>1, Written
<1>3. PICK b : b = a \o name
  OBVIOUS
<1>4. /\ b \in Seq(Pieces) /\ Len(b) = 2 + Len(name) /\ Len(name) \in Nat
      /\ \A i \in 1 .. Len(name) : b[i + 2] = name[i]
  <2>1. /\ b \in Seq(Pieces) /\ Len(b) = 2 + Len(name) /\ Len(name) \in Nat
        /\ \A i \in 1 .. 2 + Len(name) : b[i] = IF i <= 2 THEN a[i] ELSE name[i - 2]
    <3>1. Len(name) \in Nat
      BY LenProperties
    <3>2. /\ b \in Seq(Pieces) /\ Len(b) = Len(a) + Len(name)
          /\ \A i \in 1 .. Len(a) + Len(name) : b[i] = IF i <= Len(a) THEN a[i] ELSE name[i - Len(a)]
      BY <1>2, <1>3, ConcatProperties
    <3> QED  BY <1>2, <3>1, <3>2
  <2>2. \A i \in 1 .. Len(name) : i + 2 \in 1 .. 2 + Len(name) /\ ~ (i + 2 <= 2) /\ (i + 2) - 2 = i
    BY <2>1
  <2> QED  BY <2>1, <2>2
<1>5. PICK d : d = b \o <<":">>
  OBVIOUS
<1>6. /\ d \in Seq(Pieces) /\ Len(d) = Len(name) + 3 /\ d[Len(name) + 3] = ":"
      /\ \A i \in 1 .. Len(name) : d[i + 2] = name[i]
  <2>1. <<":">> \in Seq(Pieces) /\ Len(<<":">>) = 1 /\ <<":">>[1] = ":"
    BY Written
  <2>2. /\ d \in Seq(Pieces) /\ Len(d) = Len(b) + 1
        /\ \A i \in 1 .. Len(d) : d[i] = IF i <= Len(b) THEN b[i] ELSE <<":">>[i - Len(b)]
    BY <1>4, <1>5, <2>1, ConcatProperties
  <2>3. Len(d) = Len(name) + 3 /\ Len(name) + 3 \in 1 .. Len(d) /\ ~ (Len(name) + 3 <= Len(b)) /\ (Len(name) + 3) - Len(b) = 1
    BY <1>4, <2>2
  <2>4. \A i \in 1 .. Len(name) : i + 2 \in 1 .. Len(d) /\ i + 2 <= Len(b)
    BY <1>4, <2>2
  <2> QED  BY <1>4, <2>1, <2>2, <2>3, <2>4
<1>7. PICK k : k = d \o key
  OBVIOUS
<1>8. /\ k \in Seq(Pieces) /\ Len(k) = Len(d) + Len(key) /\ Len(key) \in Nat
      /\ \A i \in 1 .. Len(k) : k[i] = IF i <= Len(d) THEN d[i] ELSE key[i - Len(d)]
  <2>1. Len(key) \in Nat /\ Len(k) = Len(d) + Len(key)
    BY <1>6, <1>7, ConcatProperties, LenProperties
  <2>2. k \in Seq(Pieces) /\ \A i \in 1 .. Len(d) + Len(key) : k[i] = IF i <= Len(d) THEN d[i] ELSE key[i - Len(d)]
    BY <1>6, <1>7, ConcatProperties
  <2> QED  BY <2>1, <2>2
<1>9. \A i \in 1 .. Len(name) + 3 : k[i] = d[i]
  <2>1. \A i \in 1 .. Len(name) + 3 : i \in 1 .. Len(k) /\ i <= Len(d)
    BY <1>4, <1>6, <1>8
  <2> QED  BY <1>8, <2>1
<1>10. \A i \in 1 .. Len(key) : k[Len(name) + 3 + i] = key[i]
  <2>1. \A i \in 1 .. Len(key) : Len(name) + 3 + i \in 1 .. Len(k) /\ ~ (Len(name) + 3 + i <= Len(d)) /\ (Len(name) + 3 + i) - Len(d) = i
    BY <1>4, <1>6, <1>8
  <2> QED  BY <1>8, <2>1
<1>11. k = Cached!StorageKey(name, key)
  BY <1>1, <1>3, <1>5, <1>7 DEF Cached!StorageKey
<1>12. \A i \in 1 .. Len(name) : k[i + 2] = name[i]
  <2>1. \A i \in 1 .. Len(name) : i + 2 \in 1 .. Len(name) + 3
    BY <1>4
  <2> QED  BY <1>6, <1>9, <2>1
<1>13. k[Len(name) + 3] = ":" /\ Len(k) = Len(name) + 3 + Len(key)
  <2>1. Len(name) + 3 \in 1 .. Len(name) + 3
    BY <1>4
  <2> QED  BY <1>6, <1>8, <1>9, <2>1
<1> QED  BY <1>8, <1>10, <1>11, <1>12, <1>13 DEF IsKeyOf

\* A key is within a name only.
LEMMA KeyTells ==
    ASSUME PlainNames, NEW n \in CacheNames, NEW m \in CacheNames, NEW key \in CacheKeys
    PROVE  Cached!IsPrefix(Cached!StorageKey(n, <<>>), Cached!StorageKey(m, key)) <=> n = m
<1>1. n \in Seq(Pieces) /\ m \in Seq(Pieces) /\ key \in Seq(Pieces) /\ <<>> \in Seq(Pieces) /\ Len(<<>>) = 0
  BY CallAssumption, Written, EmptySeq
<1>2. PICK a, b : a = Cached!StorageKey(n, <<>>) /\ b = Cached!StorageKey(m, key)
  OBVIOUS
<1>3. /\ a \in Seq(Pieces) /\ Len(a) = Len(n) + 3 /\ (\A i \in 1 .. Len(n) : a[i + 2] = n[i]) /\ a[Len(n) + 3] = ":"
      /\ Len(n) \in Nat /\ DOMAIN n = 1 .. Len(n)
  <2>1. /\ a \in Seq(Pieces) /\ Len(a) = Len(n) + 3 + Len(<<>>) /\ (\A i \in 1 .. Len(n) : a[i + 2] = n[i]) /\ a[Len(n) + 3] = ":"
    <3>1. PICK e \in Seq(Pieces) : e = <<>> /\ Len(e) = 0
      BY <1>1
    <3>2. a = Cached!StorageKey(n, e)
      BY <1>2, <3>1
    <3>3. /\ a \in Seq(Pieces) /\ Len(a) = Len(n) + 3 + Len(e) /\ a[Len(n) + 3] = ":"
          /\ \A i \in 1 .. Len(n) : a[i + 2] = n[i]
      <4>1. IsKeyOf(a, n, e)
        BY <1>1, <3>1, <3>2, KeyPieces
      <4> QED  BY <4>1 DEF IsKeyOf
    <3> QED  BY <3>1, <3>3
  <2> QED  BY <1>1, <2>1, LenProperties
<1>4. /\ b \in Seq(Pieces) /\ Len(b) = Len(m) + 3 + Len(key) /\ (\A i \in 1 .. Len(m) : b[i + 2] = m[i]) /\ b[Len(m) + 3] = ":"
      /\ Len(m) \in Nat /\ DOMAIN m = 1 .. Len(m) /\ Len(key) \in Nat
  <2>1. IsKeyOf(b, m, key)
    BY <1>1, <1>2, KeyPieces
  <2>2. /\ b \in Seq(Pieces) /\ Len(b) = Len(m) + 3 + Len(key) /\ b[Len(m) + 3] = ":"
        /\ \A i \in 1 .. Len(m) : b[i + 2] = m[i]
    BY <2>1 DEF IsKeyOf
  <2>3. Len(m) \in Nat /\ DOMAIN m = 1 .. Len(m) /\ Len(key) \in Nat
    BY <1>1, LenProperties
  <2> QED  BY <2>2, <2>3
<1>5. Cached!IsPrefix(a, b) <=> Len(a) <= Len(b) /\ SubSeq(a, 1, Len(a)) = SubSeq(b, 1, Len(a))
  BY DEF Cached!IsPrefix
<1>6. ASSUME Len(a) <= Len(b)
      PROVE  SubSeq(a, 1, Len(a)) = SubSeq(b, 1, Len(a)) <=> \A i \in 1 .. Len(a) : a[i] = b[i]
  <2>1. /\ SubSeq(a, 1, Len(a)) = [i \in 1 .. Len(a) |-> a[i]]
        /\ SubSeq(b, 1, Len(a)) = [i \in 1 .. Len(a) |-> b[i]]
    BY <1>3, <1>4, <1>6
  <2>2. \A i \in 1 .. Len(a) : [j \in 1 .. Len(a) |-> a[j]][i] = a[i] /\ [j \in 1 .. Len(a) |-> b[j]][i] = b[i]
    OBVIOUS
  <2> QED  BY <2>1, <2>2
<1>7. ASSUME Len(a) <= Len(b), \A i \in 1 .. Len(a) : a[i] = b[i] PROVE n = m
  <2>1. CASE Len(n) < Len(m)
    <3>1. Len(n) + 3 \in 1 .. Len(a) /\ Len(n) + 1 \in 1 .. Len(m) /\ (Len(n) + 1) + 2 = Len(n) + 3
      BY <1>3, <1>4, <2>1
    <3>2. b[Len(n) + 3] = m[Len(n) + 1]
      BY <1>4, <3>1
    <3>3. a[Len(n) + 3] = b[Len(n) + 3]
      BY <1>7, <3>1
    <3> QED  BY <1>3, <1>4, <3>1, <3>2, <3>3 DEF PlainNames
  <2>2. CASE Len(m) < Len(n)
    <3>1. Len(m) + 3 \in 1 .. Len(a) /\ Len(m) + 1 \in 1 .. Len(n) /\ (Len(m) + 1) + 2 = Len(m) + 3
      BY <1>3, <1>4, <2>2
    <3>2. a[Len(m) + 3] = n[Len(m) + 1]
      BY <1>3, <3>1
    <3>3. a[Len(m) + 3] = b[Len(m) + 3]
      BY <1>7, <3>1
    <3> QED  BY <1>3, <1>4, <3>1, <3>2, <3>3 DEF PlainNames
  <2>3. CASE Len(n) = Len(m)
    <3>1. \A i \in 1 .. Len(n) : i + 2 \in 1 .. Len(a)
      BY <1>3
    <3>2. \A i \in 1 .. Len(n) : n[i] = m[i]
      BY <1>3, <1>4, <1>7, <2>3, <3>1
    <3> QED  BY <1>1, <2>3, <3>2, SeqEqual
  <2>4. Len(n) \in Nat /\ Len(m) \in Nat
    BY <1>3, <1>4
  <2> QED  BY <2>1, <2>2, <2>3, <2>4
<1>8. ASSUME n = m PROVE Len(a) <= Len(b) /\ \A i \in 1 .. Len(a) : a[i] = b[i]
  <2>1. a = (<<"cache", ":">> \o n \o <<":">>) \o <<>> /\ b = (<<"cache", ":">> \o n \o <<":">>) \o key
    BY <1>2, <1>8 DEF Cached!StorageKey
  <2>2. PICK d : d = <<"cache", ":">> \o n \o <<":">>
    OBVIOUS
  <2>3. d \in Seq(Pieces)
    <3>1. PICK c : c = <<"cache", ":">>
      OBVIOUS
    <3>2. PICK e : e = <<":">>
      OBVIOUS
    <3>3. c \in Seq(Pieces) /\ e \in Seq(Pieces)
      BY <3>1, <3>2, Written
    <3>4. (c \o n) \o e \in Seq(Pieces)
      BY <1>1, <3>3, ConcatProperties
    <3> QED  BY <2>2, <3>1, <3>2, <3>4
  <2>4. Len(a) = Len(d) /\ \A i \in 1 .. Len(a) : a[i] = d[i]
    BY <1>1, <2>1, <2>2, <2>3
  <2>5. Len(b) = Len(d) + Len(key) /\ \A i \in 1 .. Len(d) : b[i] = d[i]
    <3>1. b = d \o key
      BY <2>1, <2>2
    <3>2. Len(b) = Len(d) + Len(key) /\ \A i \in 1 .. Len(b) : b[i] = IF i <= Len(d) THEN d[i] ELSE key[i - Len(d)]
      BY <1>1, <2>3, <3>1, ConcatProperties
    <3>3. Len(d) \in Nat /\ \A i \in 1 .. Len(d) : i \in 1 .. Len(b) /\ i <= Len(d)
      BY <1>4, <2>3, <3>2, LenProperties
    <3> QED  BY <3>2, <3>3
  <2> QED  BY <1>3, <1>4, <2>4, <2>5
<1> QED  BY <1>2, <1>5, <1>6, <1>7, <1>8

\* Two names, or two keys, have two storage keys.
LEMMA KeyOwn ==
    ASSUME PlainNames, NEW n \in CacheNames, NEW m \in CacheNames, NEW k \in CacheKeys, NEW l \in CacheKeys,
           Cached!StorageKey(n, k) = Cached!StorageKey(m, l)
    PROVE  n = m /\ k = l
<1>1. Cached!IsPrefix(Cached!StorageKey(n, <<>>), Cached!StorageKey(n, k))
  BY KeyTells
<1>2. n = m
  BY <1>1, KeyTells
<1>3. n \in Seq(Pieces) /\ k \in Seq(Pieces) /\ l \in Seq(Pieces) /\ Len(n) \in Nat /\ Len(k) \in Nat /\ Len(l) \in Nat
  BY CallAssumption, Written, LenProperties
<1>4. PICK a : a = Cached!StorageKey(n, k)
  OBVIOUS
<1>5. Len(a) = Len(n) + 3 + Len(k) /\ \A i \in 1 .. Len(k) : a[Len(n) + 3 + i] = k[i]
  BY <1>3, <1>4, KeyPieces DEF IsKeyOf
<1>6. Len(a) = Len(n) + 3 + Len(l) /\ \A i \in 1 .. Len(l) : a[Len(n) + 3 + i] = l[i]
  <2>1. a = Cached!StorageKey(n, l)
    BY <1>2, <1>4
  <2> QED  BY <1>3, <2>1, KeyPieces DEF IsKeyOf
<1>7. Len(k) = Len(l)
  BY <1>3, <1>5, <1>6
<1>8. \A i \in 1 .. Len(k) : k[i] = l[i]
  BY <1>5, <1>6, <1>7
<1> QED  BY <1>2, <1>3, <1>7, <1>8, SeqEqual

Kept == [body : Nat \ {0}, at : Nat, ttl : Nat \ {0}]
Gets == [stage : {"idle", "dropping", "given"}, of : (CacheNames \X CacheKeys) \cup {<<>>}, body : Nat, right : SUBSET Nat]

CacheTyped ==
    /\ sets \in Nat /\ time \in Nat /\ get \in [Readers -> Gets]
    /\ DOMAIN truth \subseteq CacheNames \X CacheKeys /\ \A w \in DOMAIN truth : truth[w] \in Kept

\* A row is what was last set there, and what was set and has no row is old.
RowsTrue == \A n \in CacheNames, k \in CacheKeys :
    /\ Cached!StorageKey(n, k) \in DOMAIN rows =>
          <<n, k>> \in DOMAIN truth /\ rows[Cached!StorageKey(n, k)] = truth[<<n, k>>]
    /\ <<n, k>> \in DOMAIN truth /\ Cached!StorageKey(n, k) \notin DOMAIN rows =>
          time - truth[<<n, k>>].at > truth[<<n, k>>].ttl

\* A reader that is to drop a row drops an old one, or none.
Stale(n, k) == Cached!StorageKey(n, k) \in DOMAIN rows => time - truth[<<n, k>>].at > truth[<<n, k>>].ttl
GetsTrue == \A r \in Readers :
    /\ get[r].stage = "given" => get[r].body \in get[r].right
    /\ get[r].stage = "dropping" =>
          /\ get[r].body = 0 /\ 0 \in get[r].right
          /\ \E n \in CacheNames, k \in CacheKeys : get[r].of = <<n, k>> /\ Stale(n, k)

CacheIInv == CacheTyped /\ RowsTrue /\ GetsTrue

\* At first nothing is kept.
LEMMA CacheStarts == Cached!Init => CacheIInv
<1> SUFFICES ASSUME Cached!Init PROVE CacheIInv
  OBVIOUS
<1>1. /\ rows = <<>> /\ truth = <<>> /\ sets = 0 /\ time = 0 /\ get = [r \in Readers |-> Cached!NoGet]
      /\ DOMAIN <<>> = {}
  BY DEF Cached!Init
<1>2. Cached!NoGet \in Gets /\ Cached!NoGet.stage = "idle"
  BY DEF Cached!NoGet, Gets
<1> QED  BY <1>1, <1>2 DEF CacheIInv, CacheTyped, RowsTrue, GetsTrue

Hearing(g, h) == /\ h \in Gets /\ h.stage = g.stage /\ h.of = g.of /\ h.body = g.body /\ g.right \subseteq h.right

\* A reader that hears of one more body, or of none.
LEMMA HearsMore ==
    ASSUME NEW g \in Gets, NEW b \in Nat
    PROVE  Hearing(g, g) /\ Hearing(g, [g EXCEPT !.right = @ \cup {b}])
<1>1. Hearing(g, g)
  BY DEF Hearing
<1>2. PICK h \in Gets : h = [g EXCEPT !.right = @ \cup {b}]
  <2>1. g.right \cup {b} \in SUBSET Nat
    BY DEF Gets
  <2> QED  BY <2>1 DEF Gets
<1>3. h.stage = g.stage /\ h.of = g.of /\ h.body = g.body /\ g.right \subseteq h.right
  BY <1>2 DEF Gets
<1> QED  BY <1>1, <1>2, <1>3 DEF Hearing

\* Every reader of a name and key hears of what is set there.
LEMMA HearsAll ==
    ASSUME CacheTyped, NEW name, NEW key, NEW b \in Nat, get' = Cached!Hears(name, key, b)
    PROVE  get' \in [Readers -> Gets] /\ \A r \in Readers : Hearing(get[r], get'[r])
<1>1. \A r \in Readers : Hearing(get[r], get'[r])
  <2> TAKE r \in Readers
  <2>1. get[r] \in Gets
    BY DEF CacheTyped
  <2>2. get'[r] = get[r] \/ get'[r] = [get[r] EXCEPT !.right = @ \cup {b}]
    BY DEF Cached!Hears
  <2> QED  BY <2>1, <2>2, HearsMore
<1>2. \A r \in Readers : get'[r] \in Gets
  BY <1>1 DEF Hearing
<1> QED  BY <1>1, <1>2 DEF Cached!Hears

\* Who hears of more is given what it was, and drops what it was to, if that is old.
LEMMA HearingKeeps ==
    ASSUME CacheIInv, \A r \in Readers : Hearing(get[r], get'[r]),
           \A r \in Readers, n \in CacheNames, k \in CacheKeys :
              get[r].stage = "dropping" /\ get[r].of = <<n, k>> /\ Stale(n, k) => Stale(n, k)'
    PROVE  GetsTrue'
<1> SUFFICES ASSUME NEW r \in Readers
             PROVE  /\ get'[r].stage = "given" => get'[r].body \in get'[r].right
                    /\ get'[r].stage = "dropping" =>
                          /\ get'[r].body = 0 /\ 0 \in get'[r].right
                          /\ \E n \in CacheNames, k \in CacheKeys : get'[r].of = <<n, k>> /\ Stale(n, k)'
  BY DEF GetsTrue
<1>1. get'[r].stage = get[r].stage /\ get'[r].of = get[r].of /\ get'[r].body = get[r].body /\ get[r].right \subseteq get'[r].right
  BY DEF Hearing
<1> QED  BY <1>1 DEF CacheIInv, GetsTrue

\* What is set is there, and nobody is to drop it.
LEMMA SetKeeps ==
    ASSUME PlainNames, 0 \notin Lifetimes, CacheIInv, NEW name \in CacheNames, NEW key \in CacheKeys, NEW ttl \in Lifetimes,
           Cached!Set(name, key, ttl)
    PROVE  CacheIInv'
<1>1. PICK v : v = [body |-> sets + 1, at |-> time, ttl |-> ttl]
  OBVIOUS
<1>2. PICK s : s = Cached!StorageKey(name, key)
  OBVIOUS
<1>3. /\ sets' = sets + 1 /\ time' = time /\ get' = Cached!Hears(name, key, sets + 1)
      /\ rows' = Cached!With(rows, s, v) /\ truth' = Cached!With(truth, <<name, key>>, v)
      /\ \A r \in Readers : get[r].stage # "dropping"
  <2>1. ttl # 0
    OBVIOUS
  <2> QED  BY <1>1, <1>2, <2>1 DEF Cached!Set, Cached!ReadBack
<1>4. v \in Kept /\ sets + 1 \in Nat /\ time \in Nat
  <2>1. ttl \in Nat \ {0} /\ sets \in Nat /\ time \in Nat
    BY CallAssumption DEF CacheIInv, CacheTyped
  <2> QED  BY <1>1, <2>1 DEF Kept
<1>5. get' \in [Readers -> Gets] /\ \A r \in Readers : Hearing(get[r], get'[r])
  BY <1>3, <1>4, HearsAll DEF CacheIInv
<1>6. /\ DOMAIN rows' = DOMAIN rows \cup {s} /\ rows'[s] = v /\ \A j \in DOMAIN rows : j # s => rows'[j] = rows[j]
      /\ DOMAIN truth' = DOMAIN truth \cup {<<name, key>>} /\ truth'[<<name, key>>] = v
      /\ \A w \in DOMAIN truth : w # <<name, key>> => truth'[w] = truth[w]
  BY <1>3 DEF Cached!With
<1>7. CacheTyped'
  <2>1. \A w \in DOMAIN truth' : truth'[w] \in Kept
    BY <1>4, <1>6 DEF CacheIInv, CacheTyped
  <2> QED  BY <1>3, <1>4, <1>5, <1>6, <2>1 DEF CacheIInv, CacheTyped
<1>8. RowsTrue'
  <2> SUFFICES ASSUME NEW n \in CacheNames, NEW k \in CacheKeys
               PROVE  /\ Cached!StorageKey(n, k) \in DOMAIN rows' =>
                            <<n, k>> \in DOMAIN truth' /\ rows'[Cached!StorageKey(n, k)] = truth'[<<n, k>>]
                      /\ <<n, k>> \in DOMAIN truth' /\ Cached!StorageKey(n, k) \notin DOMAIN rows' =>
                            time' - truth'[<<n, k>>].at > truth'[<<n, k>>].ttl
    BY DEF RowsTrue, Cached!StorageKey
  <2>1. CASE n = name /\ k = key
    BY <1>2, <1>6, <2>1
  <2>2. CASE ~ (n = name /\ k = key)
    <3>1. Cached!StorageKey(n, k) # s /\ <<n, k>> # <<name, key>>
      BY <1>2, <2>2, KeyOwn
    <3> QED  BY <1>3, <1>6, <3>1 DEF CacheIInv, RowsTrue
  <2> QED  BY <2>1, <2>2
<1>9. GetsTrue'
  BY <1>3, <1>5, HearingKeeps
<1> QED  BY <1>7, <1>8, <1>9 DEF CacheIInv

\* What a reader finds is what was last set, or is old.
LEMMA LookKeeps ==
    ASSUME CacheIInv, NEW r \in Readers, NEW name \in CacheNames, NEW key \in CacheKeys, Cached!Look(r, name, key)
    PROVE  CacheIInv'
<1>1. UNCHANGED <<rows, truth, sets, time>> /\ get[r].stage = "idle" /\ CacheTyped
  BY DEF Cached!Look, CacheIInv
<1>2. PICK s : s = Cached!StorageKey(name, key)
  OBVIOUS
<1>3. PICK e : e = Cached!Row(s)
  OBVIOUS
<1>4. PICK t : t = IF <<name, key>> \in DOMAIN truth THEN truth[<<name, key>>] ELSE Cached!None
  OBVIOUS
<1>5. PICK g : g = [stage |-> IF e.body # 0 /\ Cached!Expired(e) THEN "dropping" ELSE "given", of |-> <<name, key>>,
                    body |-> IF e.body # 0 /\ Cached!Expired(e) THEN 0 ELSE e.body,
                    right |-> {IF t.body # 0 /\ time - t.at > t.ttl THEN 0 ELSE t.body}]
  OBVIOUS
<1>6. get' = [get EXCEPT ![r] = g]
  BY <1>2, <1>3, <1>4, <1>5 DEF Cached!Look
<1>7. t.body \in Nat /\ e.body \in Nat
  <2>1. t \in Kept \cup {Cached!None}
    BY <1>1, <1>4 DEF CacheTyped
  <2>2. e \in Kept \cup {Cached!None}
    BY <1>1, <1>2, <1>3 DEF CacheTyped, Cached!Row, CacheIInv, RowsTrue
  <2> QED  BY <2>1, <2>2 DEF Kept, Cached!None
<1>8. g \in Gets /\ g.of = <<name, key>>
  BY <1>5, <1>7 DEF Gets
<1>9. g.stage = "given" => g.body \in g.right
  <2>1. CASE s \in DOMAIN rows
    <3>1. e = t /\ e.body # 0
      BY <1>1, <1>2, <1>3, <1>4, <2>1 DEF CacheTyped, CacheIInv, RowsTrue, Cached!Row, Kept
    <3> QED  BY <1>5, <3>1 DEF Cached!Expired
  <2>2. CASE s \notin DOMAIN rows
    <3>1. e.body = 0
      BY <1>3, <2>2 DEF Cached!Row, Cached!None
    <3>2. t.body = 0 \/ (t.body # 0 /\ time - t.at > t.ttl)
      BY <1>2, <1>4, <1>7, <2>2 DEF CacheIInv, RowsTrue, Cached!None
    <3> QED  BY <1>5, <3>1, <3>2
  <2> QED  BY <2>1, <2>2
<1>10. g.stage = "dropping" => g.body = 0 /\ 0 \in g.right /\ Stale(name, key)
  <2> SUFFICES ASSUME g.stage = "dropping" PROVE g.body = 0 /\ 0 \in g.right /\ Stale(name, key)
    OBVIOUS
  <2>1. e.body # 0 /\ Cached!Expired(e)
    BY <1>5
  <2>2. s \in DOMAIN rows
    BY <1>3, <2>1 DEF Cached!Row, Cached!None
  <2>3. e = t /\ t = truth[<<name, key>>]
    BY <1>1, <1>2, <1>3, <1>4, <2>2 DEF CacheIInv, RowsTrue, Cached!Row
  <2> QED  BY <1>5, <2>1, <2>3 DEF Stale, Cached!Expired
<1>11. CacheTyped' /\ get'[r] = g /\ \A q \in Readers : q # r => get'[q] = get[q]
  BY <1>1, <1>6, <1>8 DEF CacheTyped
<1>12. RowsTrue'
  BY <1>1 DEF CacheIInv, RowsTrue, Cached!StorageKey
<1>13. GetsTrue'
  <2>1. \A n, k : Stale(n, k)' <=> Stale(n, k)
    BY <1>1 DEF Stale, Cached!StorageKey
  <2>2. ASSUME NEW q \in Readers
        PROVE  /\ get'[q].stage = "given" => get'[q].body \in get'[q].right
               /\ get'[q].stage = "dropping" =>
                     /\ get'[q].body = 0 /\ 0 \in get'[q].right
                     /\ \E n \in CacheNames, k \in CacheKeys : get'[q].of = <<n, k>> /\ Stale(n, k)
    <3>1. CASE q = r
      BY <1>8, <1>9, <1>10, <1>11, <3>1
    <3>2. CASE q # r
      BY <1>11, <3>2 DEF CacheIInv, GetsTrue
    <3> QED  BY <3>1, <3>2
  <2> QED  BY <2>1, <2>2 DEF GetsTrue
<1> QED  BY <1>11, <1>12, <1>13 DEF CacheIInv

\* What is dropped is old.
LEMMA DropKeeps == ASSUME PlainNames, CacheIInv, NEW r \in Readers, Cached!Drop(r) PROVE CacheIInv'
<1>1. PICK n \in CacheNames, k \in CacheKeys : get[r].of = <<n, k>> /\ Stale(n, k)
  BY DEF CacheIInv, GetsTrue, Cached!Drop
<1>2. PICK s : s = Cached!StorageKey(n, k)
  OBVIOUS
<1>3. /\ rows' = Cached!Keeping(rows, {s}) /\ get' = [get EXCEPT ![r].stage = "given"] /\ UNCHANGED <<truth, sets, time>>
      /\ get[r].stage = "dropping" /\ get \in [Readers -> Gets]
  BY <1>1, <1>2 DEF Cached!Drop, CacheIInv, CacheTyped
<1>4. DOMAIN rows' = DOMAIN rows \ {s} /\ \A j \in DOMAIN rows : j # s => rows'[j] = rows[j]
  BY <1>3 DEF Cached!Keeping
<1>5. PICK g \in Gets : g = [get[r] EXCEPT !.stage = "given"]
  BY <1>3 DEF Gets
<1>6. g.stage = "given" /\ g.body = get[r].body /\ g.right = get[r].right
  BY <1>3, <1>5 DEF Gets
<1>7. get' = [get EXCEPT ![r] = g]
  BY <1>3, <1>5
<1>8. CacheTyped' /\ get'[r] = g /\ \A q \in Readers : q # r => get'[q] = get[q]
  BY <1>3, <1>7 DEF CacheIInv, CacheTyped
<1>9. RowsTrue'
  <2> SUFFICES ASSUME NEW m \in CacheNames, NEW l \in CacheKeys
               PROVE  /\ Cached!StorageKey(m, l) \in DOMAIN rows' =>
                            <<m, l>> \in DOMAIN truth /\ rows'[Cached!StorageKey(m, l)] = truth[<<m, l>>]
                      /\ <<m, l>> \in DOMAIN truth /\ Cached!StorageKey(m, l) \notin DOMAIN rows' =>
                            time - truth[<<m, l>>].at > truth[<<m, l>>].ttl
    BY <1>3 DEF RowsTrue, Cached!StorageKey
  <2>1. CASE m = n /\ l = k
    BY <1>1, <1>2, <1>4, <2>1 DEF CacheIInv, RowsTrue, Stale
  <2>2. CASE ~ (m = n /\ l = k)
    <3>1. Cached!StorageKey(m, l) # s
      BY <1>2, <2>2, KeyOwn
    <3> QED  BY <1>4, <3>1 DEF CacheIInv, RowsTrue
  <2> QED  BY <2>1, <2>2
<1>10. GetsTrue'
  <2>1. \A m \in CacheNames, l \in CacheKeys : Stale(m, l) => Stale(m, l)'
    BY <1>3, <1>4 DEF Stale, Cached!StorageKey
  <2>2. ASSUME NEW q \in Readers
        PROVE  /\ get'[q].stage = "given" => get'[q].body \in get'[q].right
               /\ get'[q].stage = "dropping" =>
                     /\ get'[q].body = 0 /\ 0 \in get'[q].right
                     /\ \E m \in CacheNames, l \in CacheKeys : get'[q].of = <<m, l>> /\ Stale(m, l)
    <3>1. CASE q = r
      BY <1>3, <1>6, <1>8, <3>1 DEF CacheIInv, GetsTrue
    <3>2. CASE q # r
      BY <1>8, <3>2 DEF CacheIInv, GetsTrue
    <3> QED  BY <3>1, <3>2
  <2> QED  BY <2>1, <2>2 DEF GetsTrue
<1> QED  BY <1>8, <1>9, <1>10 DEF CacheIInv

\* A reader that has been answered may ask again.
LEMMA TakeKeeps == ASSUME CacheIInv, NEW r \in Readers, Cached!Take(r) PROVE CacheIInv'
<1>1. get' = [get EXCEPT ![r] = Cached!NoGet] /\ UNCHANGED <<rows, truth, sets, time>> /\ get \in [Readers -> Gets]
  BY DEF Cached!Take, CacheIInv, CacheTyped
<1>2. Cached!NoGet \in Gets /\ Cached!NoGet.stage = "idle"
  BY DEF Cached!NoGet, Gets
<1>3. CacheTyped' /\ get'[r] = Cached!NoGet /\ \A q \in Readers : q # r => get'[q] = get[q]
  BY <1>1, <1>2 DEF CacheIInv, CacheTyped
<1>4. RowsTrue' /\ \A n, k : Stale(n, k)' <=> Stale(n, k)
  BY <1>1 DEF CacheIInv, RowsTrue, Stale, Cached!StorageKey
<1>5. GetsTrue'
  BY <1>2, <1>3, <1>4 DEF CacheIInv, GetsTrue
<1> QED  BY <1>3, <1>4, <1>5 DEF CacheIInv

\* What is taken out of the rows, of what was set alike, is of nobody else.
LEMMA RemovalKeeps ==
    ASSUME CacheIInv, NEW R, NEW T, rows' = Cached!Keeping(rows, R), truth' = Cached!Keeping(truth, T),
           \A n \in CacheNames, k \in CacheKeys :
              Cached!StorageKey(n, k) \in DOMAIN rows => (Cached!StorageKey(n, k) \in R <=> <<n, k>> \in T),
           get' \in [Readers -> Gets], \A r \in Readers : Hearing(get[r], get'[r]), UNCHANGED <<sets, time>>
    PROVE  CacheIInv'
<1>1. /\ DOMAIN rows' = DOMAIN rows \ R /\ \A j \in DOMAIN rows \ R : rows'[j] = rows[j]
      /\ DOMAIN truth' = DOMAIN truth \ T /\ \A w \in DOMAIN truth \ T : truth'[w] = truth[w]
  BY DEF Cached!Keeping
<1>2. CacheTyped'
  BY <1>1 DEF CacheIInv, CacheTyped
<1>3. RowsTrue'
  <2> SUFFICES ASSUME NEW n \in CacheNames, NEW k \in CacheKeys
               PROVE  /\ Cached!StorageKey(n, k) \in DOMAIN rows' =>
                            <<n, k>> \in DOMAIN truth' /\ rows'[Cached!StorageKey(n, k)] = truth'[<<n, k>>]
                      /\ <<n, k>> \in DOMAIN truth' /\ Cached!StorageKey(n, k) \notin DOMAIN rows' =>
                            time - truth'[<<n, k>>].at > truth'[<<n, k>>].ttl
    BY DEF RowsTrue, Cached!StorageKey
  <2> QED  BY <1>1 DEF CacheIInv, RowsTrue
<1>4. ASSUME NEW n \in CacheNames, NEW k \in CacheKeys, Stale(n, k) PROVE Stale(n, k)'
  <2>1. CASE Cached!StorageKey(n, k) \notin DOMAIN rows'
    BY <2>1 DEF Stale, Cached!StorageKey
  <2>2. CASE Cached!StorageKey(n, k) \in DOMAIN rows'
    <3>1. Cached!StorageKey(n, k) \in DOMAIN rows /\ <<n, k>> \in DOMAIN truth \ T
      BY <1>1, <2>2 DEF CacheIInv, RowsTrue
    <3>2. truth'[<<n, k>>] = truth[<<n, k>>] /\ time - truth[<<n, k>>].at > truth[<<n, k>>].ttl
      BY <1>1, <1>4, <3>1 DEF Stale
    <3> QED  BY <3>2 DEF Stale, Cached!StorageKey
  <2> QED  BY <2>1, <2>2
<1>5. GetsTrue'
  BY <1>4, HearingKeeps
<1> QED  BY <1>2, <1>3, <1>5 DEF CacheIInv

\* What is deleted is not kept, nor taken as set.
LEMMA DeleteKeeps ==
    ASSUME PlainNames, CacheIInv, NEW name \in CacheNames, NEW key \in CacheKeys, Cached!Delete(name, key)
    PROVE  CacheIInv'
<1>1. /\ rows' = Cached!Keeping(rows, {Cached!StorageKey(name, key)}) /\ truth' = Cached!Keeping(truth, {<<name, key>>})
      /\ get' = Cached!Hears(name, key, 0) /\ UNCHANGED <<sets, time>>
  BY DEF Cached!Delete
<1>2. get' \in [Readers -> Gets] /\ \A r \in Readers : Hearing(get[r], get'[r])
  <2>1. 0 \in Nat
    OBVIOUS
  <2> QED  BY <1>1, <2>1, HearsAll DEF CacheIInv
<1>3. \A n \in CacheNames, k \in CacheKeys :
         Cached!StorageKey(n, k) \in {Cached!StorageKey(name, key)} <=> <<n, k>> \in {<<name, key>>}
  BY KeyOwn
<1> QED  BY <1>1, <1>2, <1>3, RemovalKeeps

\* Who may be answered nothing, as what it asks for is gone.
LEMMA AllHear ==
    ASSUME CacheTyped, NEW Q, get' = [r \in Readers |-> IF r \in Q THEN [get[r] EXCEPT !.right = @ \cup {0}] ELSE get[r]]
    PROVE  get' \in [Readers -> Gets] /\ \A r \in Readers : Hearing(get[r], get'[r])
<1>1. \A r \in Readers : Hearing(get[r], get'[r])
  <2> TAKE r \in Readers
  <2>1. get[r] \in Gets /\ 0 \in Nat
    BY DEF CacheTyped
  <2>2. get'[r] = get[r] \/ get'[r] = [get[r] EXCEPT !.right = @ \cup {0}]
    OBVIOUS
  <2> QED  BY <2>1, <2>2, HearsMore
<1>2. \A r \in Readers : get'[r] \in Gets
  BY <1>1 DEF Hearing
<1> QED  BY <1>1, <1>2

\* A name's rows are its own.
LEMMA InvalidateKeeps == ASSUME PlainNames, CacheIInv, NEW name \in CacheNames, Cached!Invalidate(name) PROVE CacheIInv'
<1>1. /\ rows' = Cached!Keeping(rows, Cached!Within(name)) /\ truth' = Cached!Keeping(truth, {name} \X CacheKeys)
      /\ UNCHANGED <<sets, time>>
      /\ get' = [r \in Readers |-> IF get[r].of # <<>> /\ get[r].of[1] = name THEN [get[r] EXCEPT !.right = @ \cup {0}] ELSE get[r]]
  BY DEF Cached!Invalidate
<1>2. get' \in [Readers -> Gets] /\ \A r \in Readers : Hearing(get[r], get'[r])
  <2>1. PICK Q : Q = {r \in Readers : get[r].of # <<>> /\ get[r].of[1] = name}
    OBVIOUS
  <2>2. get' = [r \in Readers |-> IF r \in Q THEN [get[r] EXCEPT !.right = @ \cup {0}] ELSE get[r]]
    BY <1>1, <2>1
  <2> QED  BY <2>2, AllHear DEF CacheIInv
<1>3. \A n \in CacheNames, k \in CacheKeys :
         Cached!StorageKey(n, k) \in DOMAIN rows =>
            (Cached!StorageKey(n, k) \in Cached!Within(name) <=> <<n, k>> \in {name} \X CacheKeys)
  BY KeyTells DEF Cached!Within
<1> QED  BY <1>1, <1>2, <1>3, RemovalKeeps

\* Where nothing is kept, nothing is taken as set.
LEMMA EmptiedKeeps == ASSUME CacheIInv, Cached!Clear PROVE CacheIInv'
<1>1. /\ rows' = <<>> /\ truth' = <<>> /\ UNCHANGED <<sets, time>> /\ DOMAIN <<>> = {}
      /\ get' = [r \in Readers |-> IF get[r].of # <<>> THEN [get[r] EXCEPT !.right = @ \cup {0}] ELSE get[r]]
  BY DEF Cached!Clear
<1>2. get' \in [Readers -> Gets] /\ \A r \in Readers : Hearing(get[r], get'[r])
  <2>1. PICK Q : Q = {r \in Readers : get[r].of # <<>>}
    OBVIOUS
  <2>2. get' = [r \in Readers |-> IF r \in Q THEN [get[r] EXCEPT !.right = @ \cup {0}] ELSE get[r]]
    BY <1>1, <2>1
  <2> QED  BY <2>2, AllHear DEF CacheIInv
<1>3. CacheTyped'
  BY <1>1, <1>2 DEF CacheIInv, CacheTyped
<1>4. RowsTrue'
  BY <1>1 DEF RowsTrue
<1>5. \A n, k : Stale(n, k)'
  BY <1>1 DEF Stale
<1>6. GetsTrue'
  BY <1>2, <1>5, HearingKeeps
<1> QED  BY <1>3, <1>4, <1>6 DEF CacheIInv

\* What is old stays old.
LEMMA TickKeeps == ASSUME CacheIInv, Cached!Tick PROVE CacheIInv'
<1>1. time' = time + 1 /\ UNCHANGED <<rows, truth, sets, get>> /\ CacheTyped
  BY DEF Cached!Tick, CacheIInv
<1>2. CacheTyped'
  BY <1>1 DEF CacheTyped
<1>3. \A w \in DOMAIN truth : time - truth[w].at > truth[w].ttl => time' - truth[w].at > truth[w].ttl
  <2> SUFFICES ASSUME NEW w \in DOMAIN truth, time - truth[w].at > truth[w].ttl PROVE time' - truth[w].at > truth[w].ttl
    OBVIOUS
  <2>1. truth[w].at \in Nat /\ truth[w].ttl \in Nat /\ time \in Nat
    BY <1>1 DEF CacheTyped, Kept
  <2> QED  BY <1>1, <2>1
<1>4. RowsTrue'
  BY <1>1, <1>3 DEF CacheIInv, RowsTrue, Cached!StorageKey
<1>5. \A n \in CacheNames, k \in CacheKeys : Stale(n, k) => Stale(n, k)'
  <2> SUFFICES ASSUME NEW n \in CacheNames, NEW k \in CacheKeys, Stale(n, k),
                      Cached!StorageKey(n, k) \in DOMAIN rows
               PROVE  time' - truth[<<n, k>>].at > truth[<<n, k>>].ttl
    BY <1>1 DEF Stale, Cached!StorageKey
  <2> QED  BY <1>3 DEF Stale, CacheIInv, RowsTrue
<1>6. GetsTrue'
  BY <1>1, <1>5 DEF CacheIInv, GetsTrue
<1> QED  BY <1>2, <1>4, <1>6 DEF CacheIInv

\* Every step keeps the cache's invariant.
LEMMA CacheKeeps ==
    ASSUME PlainNames, 0 \notin Lifetimes, CacheIInv, [Cached!Next]_(Cached!cacheVars)
    PROVE  CacheIInv'
<1>1. CASE UNCHANGED Cached!cacheVars
  <2>1. UNCHANGED <<rows, truth, sets, time, get>>
    BY <1>1 DEF Cached!cacheVars
  <2>2. CacheTyped' /\ RowsTrue' /\ \A n, k : Stale(n, k)' <=> Stale(n, k)
    BY <2>1 DEF CacheIInv, CacheTyped, RowsTrue, Stale, Cached!StorageKey
  <2>3. GetsTrue'
    BY <2>1, <2>2 DEF CacheIInv, GetsTrue
  <2> QED  BY <2>2, <2>3 DEF CacheIInv
<1>2. ASSUME NEW name \in CacheNames, NEW key \in CacheKeys, NEW ttl \in Lifetimes, Cached!Set(name, key, ttl) PROVE CacheIInv'
  BY <1>2, SetKeeps
<1>3. ASSUME NEW name \in CacheNames, NEW key \in CacheKeys, Cached!Delete(name, key) PROVE CacheIInv'
  BY <1>3, DeleteKeeps
<1>4. ASSUME NEW name \in CacheNames, NEW key \in CacheKeys, NEW r \in Readers, Cached!Look(r, name, key) PROVE CacheIInv'
  BY <1>4, LookKeeps
<1>5. ASSUME NEW r \in Readers, Cached!Drop(r) \/ Cached!Take(r) PROVE CacheIInv'
  BY <1>5, DropKeeps, TakeKeeps
<1>6. ASSUME NEW name \in CacheNames, Cached!Invalidate(name) PROVE CacheIInv'
  BY <1>6, InvalidateKeeps
<1>7. CASE Cached!Clear \/ Cached!Tick
  BY <1>7, EmptiedKeeps, TickKeeps
<1> QED  BY <1>1, <1>2, <1>3, <1>4, <1>5, <1>6, <1>7 DEF Cached!Next

\* What the invariant says of what is given.
LEMMA CacheSays == CacheIInv => Cached!CacheTrue
BY DEF CacheIInv, GetsTrue, Cached!CacheTrue

-----------------------------------------------------------------------------
(* The whole: each behaviour is one of the parts'.                           *)

LedgersIInv == (what = "billed" => LedgerIInv) /\ (what = "cached" => CacheIInv)

\* The parts' invariants hold at first.
LEMMA LedgersStart == CallInit => LedgersIInv
<1>1. CallInit => Billed!Init /\ Cached!Init
  BY DEF CallInit
<1> QED  BY <1>1, LedgerStarts, CacheStarts DEF LedgersIInv

\* Every step is a part's own, or leaves it alone.
LEMMA LedgersKeep ==
    ASSUME PlainNames, 0 \notin Lifetimes, LedgersIInv, [CallNext]_allVars
    PROVE  LedgersIInv'
<1>1. what' = what
  BY DEF CallNext, allVars
<1>2. what = "billed" => [Billed!Next]_(Billed!callsVars)
  BY DEF CallNext, allVars, billedVars, Billed!callsVars
<1>3. what = "cached" => [Cached!Next]_(Cached!cacheVars)
  BY DEF CallNext, allVars, cachedVars, Cached!cacheVars
<1>4. CASE what = "billed"
  BY <1>1, <1>2, <1>4, LedgerKeeps DEF LedgersIInv
<1>5. CASE what = "cached"
  BY <1>1, <1>3, <1>5, CacheKeeps DEF LedgersIInv
<1>6. CASE what \notin {"billed", "cached"}
  BY <1>1, <1>6 DEF LedgersIInv
<1> QED  BY <1>4, <1>5, <1>6

\* The total is the ledger's, warnings are given once, what is paid for is entered once, and an
\* answer kept is given under its own name and while it is new, for any number of calls and threads,
\* any prices and any names and keys, where no name has a colon in it and no lifetime is 0.
THEOREM LedgerHolds ==
    ASSUME PlainNames, 0 \notin Lifetimes
    PROVE  CallSpec => []LedgerTrue
<1>1. CallInit => LedgersIInv
  BY LedgersStart
<1>2. LedgersIInv /\ [CallNext]_allVars => LedgersIInv'
  BY LedgersKeep
<1>3. LedgersIInv => LedgerTrue
  BY LedgerSays, CacheSays DEF LedgersIInv, LedgerTrue
<1> QED  BY <1>1, <1>2, <1>3, PTL DEF CallSpec
=============================================================================
