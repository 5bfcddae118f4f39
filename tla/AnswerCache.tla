---------------------------- MODULE AnswerCache ----------------------------
(***************************************************************************)
(* Answers kept under a name and a key until they are old (cache.py), in   *)
(* memory or in a store that others write to as well. A string is a        *)
(* sequence of the pieces that matter: what stands between two colons, and *)
(* the colons.                                                             *)
(***************************************************************************)
EXTENDS Integers, Sequences, SequencesExt

CONSTANTS
    Names, Keys,        \* strings
    Lifetimes,          \* the ttl an entry is given
    DefaultLifetime, Readers, MaxSets, MaxTime,
    Clears,             \* whether clear() is called
    Torn                \* an entry may be set between a reader's look at it and its drop

VARIABLES
    durable,        \* whether the store is a PersistentCacheStore
    rows,           \* the store's rows that are the cache's, by storage key
    others,         \* whether the rows that are not are still there
    truth,          \* what was last set under a name and a key, and not deleted
    sets, time,
    get             \* what each reader is doing, and what it was given

cacheVars == <<durable, rows, others, truth, sets, time, get>>

None == [body |-> 0, at |-> 0, ttl |-> 0]
NoGet == [stage |-> "idle", of |-> <<>>, body |-> 0, right |-> {}]
\* Fault: the key alone names the row.
KeyOnly(name, key) == <<"cache", ":">> \o key
StorageKey(name, key) == <<"cache", ":">> \o name \o <<":">> \o key
Row(k) == IF k \in DOMAIN rows THEN rows[k] ELSE None
Keeping(f, D) == [k \in DOMAIN f \ D |-> f[k]]
With(f, k, v) == [j \in DOMAIN f \cup {k} |-> IF j = k THEN v ELSE f[j]]
\* Fault: an entry is as old as it may be one tick longer.
ExpiredLate(e) == time - e.at > e.ttl + 1
Expired(e) == time - e.at > e.ttl

Init ==
    /\ durable \in BOOLEAN /\ rows = <<>> /\ others = TRUE /\ truth = <<>>
    /\ sets = 0 /\ time = 0 /\ get = [r \in Readers |-> NoGet]

\* A ttl of 0 that is read back from a store is no ttl, and the default is taken.
ReadBack(ttl) == IF durable /\ ttl = 0 THEN DefaultLifetime ELSE ttl

\* What a reader may rightly be given: what was there at some time while it read.
Hears(name, key, body) ==
    [r \in Readers |-> IF get[r].of = <<name, key>> /\ get[r].stage # "idle" THEN [get[r] EXCEPT !.right = @ \cup {body}] ELSE get[r]]

Set(name, key, ttl) ==
    /\ sets < MaxSets /\ sets' = sets + 1
    /\ Torn \/ \A r \in Readers : get[r].stage # "dropping"
    /\ rows' = With(rows, StorageKey(name, key), [body |-> sets + 1, at |-> time, ttl |-> ReadBack(ttl)])
    /\ truth' = With(truth, <<name, key>>, [body |-> sets + 1, at |-> time, ttl |-> ttl])
    /\ get' = Hears(name, key, sets + 1)
    /\ UNCHANGED <<durable, others, time>>

\* get() looks, and drops what it found to be old, if it is still there or not.
Look(r, name, key) ==
    /\ get[r].stage = "idle"
    /\ LET e == Row(StorageKey(name, key))
           t == IF <<name, key>> \in DOMAIN truth THEN truth[<<name, key>>] ELSE None IN
       get' = [get EXCEPT ![r] =
           [stage |-> IF e.body # 0 /\ Expired(e) THEN "dropping" ELSE "given", of |-> <<name, key>>,
            body |-> IF e.body # 0 /\ Expired(e) THEN 0 ELSE e.body,
            right |-> {IF t.body # 0 /\ time - t.at > t.ttl THEN 0 ELSE t.body}]]
    /\ UNCHANGED <<durable, rows, others, truth, sets, time>>
Drop(r) ==
    /\ get[r].stage = "dropping"
    /\ rows' = Keeping(rows, {StorageKey(get[r].of[1], get[r].of[2])})
    /\ get' = [get EXCEPT ![r].stage = "given"]
    /\ UNCHANGED <<durable, others, truth, sets, time>>
Take(r) ==
    /\ get[r].stage = "given" /\ get' = [get EXCEPT ![r] = NoGet]
    /\ UNCHANGED <<durable, rows, others, truth, sets, time>>

Delete(name, key) ==
    /\ StorageKey(name, key) \in DOMAIN rows
    /\ rows' = Keeping(rows, {StorageKey(name, key)}) /\ truth' = Keeping(truth, {<<name, key>>})
    /\ get' = Hears(name, key, 0)
    /\ UNCHANGED <<durable, others, sets, time>>

\* Fault: every row of the cache is dropped, whatever its name.
WithinCache(name) == {k \in DOMAIN rows : IsPrefix(<<"cache", ":">>, k)}
Within(name) == {k \in DOMAIN rows : IsPrefix(StorageKey(name, <<>>), k)}
Invalidate(name) ==
    /\ Within(name) # {}
    /\ rows' = Keeping(rows, Within(name)) /\ truth' = Keeping(truth, {name} \X Keys)
    /\ get' = [r \in Readers |-> IF get[r].of # <<>> /\ get[r].of[1] = name THEN [get[r] EXCEPT !.right = @ \cup {0}] ELSE get[r]]
    /\ UNCHANGED <<durable, others, sets, time>>

\* clear() empties the store.
Clear ==
    /\ Clears /\ rows' = <<>> /\ truth' = <<>> /\ others' = (others /\ ~durable)
    /\ get' = [r \in Readers |-> IF get[r].of # <<>> THEN [get[r] EXCEPT !.right = @ \cup {0}] ELSE get[r]]
    /\ UNCHANGED <<durable, sets, time>>

Tick ==
    /\ time < MaxTime /\ time' = time + 1
    /\ UNCHANGED <<durable, rows, others, truth, sets, get>>

Next ==
    \/ \E name \in Names, key \in Keys :
          \/ \E ttl \in Lifetimes : Set(name, key, ttl)
          \/ Delete(name, key)
          \/ \E r \in Readers : Look(r, name, key)
    \/ \E r \in Readers : Drop(r) \/ Take(r)
    \/ \E name \in Names : Invalidate(name)
    \/ Clear \/ Tick

Spec == Init /\ [][Next]_cacheVars

TypeOK ==
    /\ sets \in 0 .. MaxSets /\ time \in 0 .. MaxTime
    /\ \A r \in Readers : get[r].stage \in {"idle", "dropping", "given"} /\ get[r].body \in 0 .. MaxSets

-----------------------------------------------------------------------------
\* A reader is given what was last set under its name and key and is not old, or nothing if
\* nothing is, whatever is kept under other names (Cache.get, invalidate: "one tenant
\* clearing its cache must not empty another's").
CacheTrue == \A r \in Readers : get[r].stage = "given" => get[r].body \in get[r].right

\* The cache leaves the rows of others in its store alone (STORAGE_PREFIX, clear).
OthersKept == others
=============================================================================
