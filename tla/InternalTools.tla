---------------------------- MODULE InternalTools ----------------------------
(***************************************************************************)
(* Tools the library runs for itself: the registry that finds one among    *)
(* its backends (internal_tools/registry.py) and the runner that tries its *)
(* chain of models, on the clients that it pools (runner.py). Callers are  *)
(* threads that share one runner. A model is a provider and a name; a      *)
(* tool is known by the edition of it that a backend holds.                *)
(***************************************************************************)
EXTENDS Naturals, Sequences, SequencesExt, FiniteSets

CONSTANTS
    Callers,
    Backends,
    Editions,       \* bound: the editions of the tool
    MaxClients,     \* bound: the clients built
    Chains,         \* what a tool may recommend, prefer and fall back on
    KeySets,        \* the providers the runner may have keys for
    Invalidates     \* whether a backend whose contents changed invalidates the registry

VARIABLES
    backends, has,  \* the backends in the order added, and the tool each holds, 0 for none
    merged,         \* _cache: the tool of the merged view
    keys,
    pool, clients,  \* the pooled clients, and every client built, by the model it is pinned to
    call            \* each caller: where its run is, on which tool and models, what was told

toolVars == <<backends, has, merged, keys, pool, clients, call>>

NoView == Editions + 1
Idle == [at |-> "idle", tool |-> 0, meant |-> 0, chain |-> <<>>, failures |-> <<>>, client |-> 0, told |-> <<>>]

Init ==
    /\ backends = <<>> /\ has = [b \in Backends |-> 0] /\ merged = NoView
    /\ keys \in KeySets /\ pool = <<>> /\ clients = <<>>
    /\ call = [c \in Callers |-> Idle]

\* First-added wins.
Merge ==
    LET holding == SelectSeq(backends, LAMBDA b : has[b] # 0)
    IN  IF holding = <<>> THEN 0 ELSE has[Head(holding)]

View == IF merged = NoView THEN Merge ELSE merged

\* Fault: the merged view outlives a change of the backends.
Unchanged(changed) == merged
Viewed(changed) == IF changed THEN NoView ELSE merged

AddBackend(b) ==
    /\ b \notin ToSet(backends)
    /\ backends' = Append(backends, b) /\ merged' = Viewed(TRUE)
    /\ UNCHANGED <<has, keys, pool, clients, call>>

RemoveBackend(b) ==
    /\ b \in ToSet(backends)
    /\ backends' = SelectSeq(backends, LAMBDA other : other # b) /\ merged' = Viewed(TRUE)
    /\ UNCHANGED <<has, keys, pool, clients, call>>

\* LocalBackend.register, replace and unregister tell no registry.
Hold(b, edition) ==
    /\ edition # has[b]
    /\ has' = [has EXCEPT ![b] = edition] /\ merged' = Viewed(Invalidates)
    /\ UNCHANGED <<backends, keys, pool, clients, call>>

-----------------------------------------------------------------------------
Told(type, c, model) == [type |-> type, model |-> model, attempt |-> Len(call[c].failures) + 1]
Tell(c, r, events) == call' = [call EXCEPT ![c] = [r EXCEPT !.told = @ \o events]]

\* _resolve_models: each model once, at its best place.
Resolved(tool, default) ==
    LET chain == tool.recommended \o tool.preferred
        Kept(seen, model) == IF model \in ToSet(seen) THEN seen ELSE Append(seen, model)
    IN  FoldLeft(Kept, <<>>, IF chain = <<>> THEN default ELSE chain)

\* run: the tool is looked up, its input checked, its models resolved and their keys asked for.
Run(c, tool, default, fits) ==
    /\ call[c].at = "idle"
    /\ merged' = View
    /\ LET chain == Resolved(tool, default)
           r == [Idle EXCEPT !.tool = View, !.meant = Merge, !.chain = chain]
           Reachable == \E k \in DOMAIN chain : chain[k][1] \in keys
       IN  IF View = 0 \/ ~fits \/ (chain # <<>> /\ ~Reachable) THEN Tell(c, [r EXCEPT !.at = "refused", !.chain = <<>>], <<>>)
           ELSE IF chain = <<>> THEN Tell(c, [r EXCEPT !.at = "code"], <<Told("start", c, "none")>>)
           ELSE Tell(c, [r EXCEPT !.at = "next"], <<>>)
    /\ UNCHANGED <<backends, has, keys, pool, clients>>

Model(c) == call[c].chain[Len(call[c].failures) + 1]
LastModel(c) == Len(call[c].failures) + 1 = Len(call[c].chain)
Skip(r, model) == [r EXCEPT !.failures = Append(@, model), !.at = "next"]

\* Fault: a client serves every model of its provider.
PoolKeyOfProvider(model) == model[1]
\* "Pooled by provider/model, NOT by provider": a client is pinned to its model.
PoolKey(model) == model

Exhaust(c) ==
    /\ call[c].at = "next" /\ Len(call[c].failures) = Len(call[c].chain)
    /\ call' = [call EXCEPT ![c].at = "failed"]
    /\ UNCHANGED <<backends, has, merged, keys, pool, clients>>

\* The next model: passed over without a key, run on its pooled client, or in want of one.
Attempt(c) ==
    /\ call[c].at = "next" /\ Len(call[c].failures) < Len(call[c].chain)
    /\ LET r == call[c]
           key == PoolKey(Model(c))
       IN  IF Model(c)[1] \notin keys THEN Tell(c, Skip(r, Model(c)), <<>>)
           ELSE IF key \in DOMAIN pool
           THEN Tell(c, [r EXCEPT !.at = "body", !.client = pool[key]], <<Told("start", c, Model(c))>>)
           ELSE Tell(c, [r EXCEPT !.at = "build"], <<>>)
    /\ UNCHANGED <<backends, has, merged, keys, pool, clients>>

\* _client_for builds one and pools it, whoever pooled one meanwhile; or the construction raises.
Build(c) ==
    /\ call[c].at = "build"
    /\ \/ /\ Len(clients) < MaxClients
          /\ clients' = Append(clients, [model |-> Model(c), open |-> TRUE])
          /\ pool' = [key \in DOMAIN pool \cup {PoolKey(Model(c))} |->
                         IF key = PoolKey(Model(c)) THEN Len(clients) + 1 ELSE pool[key]]
          /\ Tell(c, [call[c] EXCEPT !.at = "body", !.client = Len(clients) + 1], <<Told("start", c, Model(c))>>)
       \/ Tell(c, Skip(call[c], Model(c)), <<>>) /\ UNCHANGED <<pool, clients>>
    /\ UNCHANGED <<backends, has, merged, keys>>

\* The body answers, with a shape that is warned of if it was not promised, or raises.
Body(c) ==
    /\ call[c].at = "body"
    /\ \/ Tell(c, [call[c] EXCEPT !.at = "answered"], <<Told("complete", c, Model(c))>>)
       \/ Tell(c, Skip(call[c], Model(c)), <<Told(IF LastModel(c) THEN "error" ELSE "retrying", c, Model(c))>>)
    /\ UNCHANGED <<backends, has, merged, keys, pool, clients>>

\* A tool whose body is code is run once.
Code(c) ==
    /\ call[c].at = "code"
    /\ \E end \in {"complete", "error"} :
          Tell(c, [call[c] EXCEPT !.at = IF end = "error" THEN "failed" ELSE "answered"], <<Told(end, c, "none")>>)
    /\ UNCHANGED <<backends, has, merged, keys, pool, clients>>

\* The pooled clients are closed.
Destroy ==
    /\ pool # <<>>
    /\ clients' = [k \in DOMAIN clients |-> IF k \in {pool[key] : key \in DOMAIN pool}
                                            THEN [clients[k] EXCEPT !.open = FALSE] ELSE clients[k]]
    /\ pool' = <<>>
    /\ UNCHANGED <<backends, has, merged, keys, call>>

Next ==
    \/ \E b \in Backends : AddBackend(b) \/ RemoveBackend(b) \/ \E n \in 0 .. Editions : Hold(b, n)
    \/ \E c \in Callers : \/ \E tool \in Chains, default \in {<<>>, <<<<"p", "d">>>>}, fits \in BOOLEAN : Run(c, tool, default, fits)
                          \/ Exhaust(c) \/ Attempt(c) \/ Build(c) \/ Body(c) \/ Code(c)
    \/ Destroy

Spec == Init /\ [][Next]_toolVars

TypeOK ==
    /\ ToSet(backends) \subseteq Backends /\ has \in [Backends -> 0 .. Editions] /\ merged \in 0 .. NoView
    /\ \A key \in DOMAIN pool : pool[key] \in DOMAIN clients
    /\ \A c \in Callers : /\ call[c].at \in {"idle", "refused", "code", "next", "build", "body", "answered", "failed"}
                          /\ call[c].client \in 0 .. Len(clients)

-----------------------------------------------------------------------------
\* Each start is followed by its own end before another.
Paired(told) ==
    \A k \in DOMAIN told :
        IF k % 2 = 1 THEN told[k].type = "start"
        ELSE told[k].type # "start" /\ told[k].model = told[k - 1].model /\ told[k].attempt = told[k - 1].attempt

\* A caller's tool is the one the backends hold when it asks, each model of its chain is tried
\* or passed over once, in order and on a client of its own, until one answers, and each start
\* that the hooks hear of has its end (ToolRegistry._ensure, _client_for, _run_with_model).
ToolsTrue ==
    \A c \in Callers :
        LET r == call[c]
        IN  /\ r.tool = r.meant
            /\ r.failures = SubSeq(r.chain, 1, Len(r.failures))
            /\ Cardinality(ToSet(r.chain)) = Len(r.chain)
            /\ Paired(r.told) /\ (Len(r.told) % 2 = 1 <=> r.at \in {"body", "code"})
            /\ r.at = "body" => clients[r.client].model = Model(c)
            /\ r.at = "answered" => (r.chain # <<>> => r.told[Len(r.told)].model = Model(c))
            /\ (r.at = "failed" /\ r.chain # <<>>) => r.failures = r.chain

\* Whoever closes the runner closes every client it built (InternalToolRunner.destroy).
PoolWhole ==
    \A k \in DOMAIN clients : clients[k].open => \E key \in DOMAIN pool : pool[key] = k

\* "trying the next model": a run that said so tries one (_run_with_model).
RetrySaid ==
    \A c \in Callers : call[c].at = "failed" /\ call[c].told # <<>> => call[c].told[Len(call[c].told)].type # "retrying"
=============================================================================
