------------------------------ MODULE MCAround ------------------------------
(***************************************************************************)
(* What stands around a request, for TLC: the batch it may wait in         *)
(* (AutoBatcher), the history it is made from and the guard of its size    *)
(* (ContextGuard), the part of it that its provider already has            *)
(* (ServerState), the files it carries (FilesRegistry), the documents that *)
(* are searched for it, cut up here (Chunker) or indexed at a provider     *)
(* (Retrieval), the live session it may be a turn of (RealtimeSession),    *)
(* the conversation a server keeps of it (ResponseStore), the hooks that   *)
(* hear of it (HookBus) and the spans that tell of it (Telemetry), on      *)
(* small instances. They share no state, and each behaviour is one of      *)
(* them.                                                                   *)
(***************************************************************************)
EXTENDS Chunker, TLC

CONSTANTS
    Items, Providers, MinBatch, MaxBatch, Window, Raises, Lists, MaxJobs,
    Callers, MaxTurns, MaxMessages, Raising,
    Threads, Keys, MaxWrites, Capacity, Shared,
    Convs, FileHosts, FileSizes, Takes, UrlCapable, Lifetime, MaxUploads, MaxTime,
    Docs, Patience, MaxEntries, MaxHooks, Fails,
    Functions_, Emitters, MaxSubs, MaxEmits,
    Strategies, Triggers, Ceiling, Floor, Recent, Jump, MaxCompactRetries, Weights,
    Hosts, Names, Models, Supports, BoundTo, Retention, MaxAsks, MaxAge

\* A custom id is no word for a ticket's state and no stranger's, a list has ids, and "none" is no caller's name; a
\* strategy is one of three, its ladder is sorted (_sorted_triggers), and a model is one of a provider's.
ASSUME AroundAssumption ==
    /\ Items \cap {"free", "waiting", "failed", "stray"} = {} /\ Lists \subseteq Seq(Items)
    /\ MaxBatch \in Nat \ {0} /\ Window \in Nat
    /\ "none" \notin Callers
    /\ {MaxTurns, MaxMessages, MaxWrites, Capacity, Lifetime, MaxUploads, MaxTime, Patience,
        MaxHooks, MaxSubs, MaxEmits, MaxEntries, Recent, MaxCompactRetries, MaxAsks, MaxAge} \subseteq Nat
    /\ Strategies \subseteq {"truncate", "layered", "anchored"}
    /\ Triggers \in [Strategies -> Seq(Nat)] /\ Weights \subseteq Nat /\ {Ceiling, Floor, Jump} \subseteq Int
    /\ \A s \in Strategies : \A i, j \in DOMAIN Triggers[s] : i <= j => Triggers[s][i] <= Triggers[s][j]
    /\ Models \subseteq Hosts \X Names /\ Retention \in [Hosts -> Nat \cup {-1}]

VARIABLES
    what,
    provider, collecting, waited, tickets, job, rows, jobs, order, known, read, missing,
    vendor, owns, store, docs, state, step, asked, told, failedDelete,
    strategy, history, guard, turn, reading, seen, last, refused,
    uploads, remote, part, req, deleting, refs, now, bad,
    host, opener, reader, sock, isClosed, ready, outbox, flushing, cut, lock, caller, held, events, said, wire, iterator,
    file, tmp, cache, op, writes, acked,
    open, spans, lineage, usage, inFlight, call, spent, ended, lost, hooks,
    handlers, subs, emit, emits, kept, fired,
    messages, answer, contexts, turns, clock, dropped, reads, denied

Batch == INSTANCE AutoBatcher

\* What submit_batch is called with: more than a batch holds, and less.
MCLists == {<<"b", "a", "c">>, <<"a">>}

Context == INSTANCE ContextGuard WITH Keep <- Recent, said <- seen

\* Three ladders' worth of growth, in tokens of 1 and 3.
MCTriggers == [s \in {"truncate", "layered", "anchored"} |-> IF s = "layered" THEN <<4, 6, 8, 10>> ELSE <<6>>]

Files == INSTANCE FilesRegistry WITH Providers <- FileHosts, Files <- FileSizes

\* A file to upload wherever it goes, and a URL that one provider fetches and the other does not take.
MCFileSizes == ("pdf" :> "big") @@ ("page" :> "url")
MCTakes == {<<"pdf", "openai">>, <<"pdf", "google">>, <<"page", "openai">>}

Realtime == INSTANCE RealtimeSession WITH provider <- host

Store == INSTANCE ResponseStore

\* The adapter holds one open span of a kind: the spans of one thread are what it can get right.
Spans == INSTANCE Telemetry WITH Threads <- {"s"}

Bus == INSTANCE HookBus

\* A document at each provider that is polled till it is ready.
Indexed == INSTANCE Retrieval WITH
    Providers <- {"openai", "google", "xai"}, Lags <- FALSE,
    provider <- vendor, files <- docs

\* An answer is kept before anything else is said.
State == INSTANCE ServerState WITH
    Forever <- -1, Interjects <- FALSE, MaxTurns <- MaxAsks, MaxTime <- MaxAge,
    now <- clock, cut <- dropped, read <- reads, refused <- denied

\* One provider binds its state to the model and forgets it, another does neither.
MCModels == Hosts \X Names
MCRetention == ("openai" :> 0) @@ ("google" :> -1)

retrievalVars == <<vendor, owns, store, docs, state, step, asked, told, failedDelete>>
batchVars == <<provider, collecting, waited, tickets, job, rows, jobs, order, known, read, missing>>
contextVars == <<strategy, history, guard, turn, reading, seen, last, refused>>
filesVars == <<uploads, remote, part, req, deleting, refs, now, bad>>
realtimeVars == <<host, opener, reader, sock, isClosed, ready, outbox, flushing, cut, lock, caller, held, events, said,
                  wire, iterator>>
storeVars == <<file, tmp, cache, op, writes, acked>>
telemetryVars == <<open, spans, lineage, usage, inFlight, call, spent, ended, lost, hooks>>
busVars == <<handlers, subs, emit, emits, kept, fired>>
stateVars == <<messages, answer, contexts, turns, clock, dropped, reads, denied>>
aroundVars == <<what, chunkVars, batchVars, contextVars, filesVars, retrievalVars, realtimeVars,
                storeVars, telemetryVars, busVars, stateVars>>

AroundInit ==
    /\ what \in {"chunks", "batch", "context", "files", "indexed", "realtime",
                "store", "spans", "bus", "state"}
    /\ what = "chunks" \/ (length = 0 /\ text = <<>>)
    /\ what = "batch" \/ provider = "openai"
    /\ what = "context" \/ strategy = "truncate"
    /\ what = "indexed" \/ (vendor = "openai" /\ owns = TRUE)
    /\ what = "realtime" \/ host = "openai"
    /\ Init /\ Batch!Init /\ Context!Init /\ Files!Init /\ Indexed!Init /\ Realtime!Init /\ Store!Init /\ Spans!Init
    /\ Bus!Init /\ State!Init

AroundNext ==
    \/ what = "chunks" /\ Next
       /\ UNCHANGED <<what, batchVars, contextVars, filesVars, retrievalVars, realtimeVars, storeVars,
                      telemetryVars, busVars, stateVars>>
    \/ what = "batch" /\ Batch!Next
       /\ UNCHANGED <<what, chunkVars, contextVars, filesVars, retrievalVars, realtimeVars, storeVars,
                      telemetryVars, busVars, stateVars>>
    \/ what = "context" /\ Context!Next
       /\ UNCHANGED <<what, chunkVars, batchVars, filesVars, retrievalVars, realtimeVars, storeVars,
                      telemetryVars, busVars, stateVars>>
    \/ what = "files" /\ Files!Next
       /\ UNCHANGED <<what, chunkVars, batchVars, contextVars, retrievalVars, realtimeVars, storeVars,
                      telemetryVars, busVars, stateVars>>
    \/ what = "indexed" /\ Indexed!Next
       /\ UNCHANGED <<what, chunkVars, batchVars, contextVars, filesVars, realtimeVars, storeVars,
                      telemetryVars, busVars, stateVars>>
    \/ what = "realtime" /\ Realtime!Next
       /\ UNCHANGED <<what, chunkVars, batchVars, contextVars, filesVars, retrievalVars, storeVars,
                      telemetryVars, busVars, stateVars>>
    \/ what = "store" /\ Store!Next
       /\ UNCHANGED <<what, chunkVars, batchVars, contextVars, filesVars, retrievalVars, realtimeVars,
                      telemetryVars, busVars, stateVars>>
    \/ what = "spans" /\ Spans!Next
       /\ UNCHANGED <<what, chunkVars, batchVars, contextVars, filesVars, retrievalVars, realtimeVars,
                      storeVars, busVars, stateVars>>
    \/ what = "bus" /\ Bus!Next
       /\ UNCHANGED <<what, chunkVars, batchVars, contextVars, filesVars, retrievalVars, realtimeVars,
                      storeVars, telemetryVars, stateVars>>
    \/ what = "state" /\ State!Next
       /\ UNCHANGED <<what, chunkVars, batchVars, contextVars, filesVars, retrievalVars, realtimeVars,
                      storeVars, telemetryVars, busVars>>

\* Only a session is fair; where none was opened, none of its fair actions is enabled.
AroundSpec == AroundInit /\ [][AroundNext]_aroundVars /\ Realtime!Scheduled

\* The state of the one that the behaviour is keeps its type.
AroundTypeOK ==
    /\ what = "chunks" => TypeOK
    /\ what = "batch" => Batch!TypeOK
    /\ what = "context" => Context!TypeOK
    /\ what = "files" => Files!TypeOK
    /\ what = "indexed" => Indexed!TypeOK
    /\ what = "realtime" => Realtime!TypeOK
    /\ what = "store" => Store!TypeOK
    /\ what = "spans" => Spans!TypeOK
    /\ what = "bus" => Bus!TypeOK
    /\ what = "state" => State!TypeOK

\* A ticket holds the answer to its own request, no item is dropped between add() and its
\* job's results, and one is said to be missing only if it is (AutoBatcher._settle).
BatchTrue == what = "batch" => Batch!OwnAnswer /\ Batch!NothingDropped /\ Batch!MissingIsTrue

\* Calls keep their results and a count the messages it covers, through every cut, splice
\* and copy, and a request is refused only for what is left (ConversationHistory.truncate,
\* splice_range, ContextGuard._handle_measure); and a provider that is sent an id and the
\* new turns reads the whole transcript, and knows the id unless it was stamped late
\* (resolve_server_state).
HistoryTrue ==
    /\ what = "context" => Context!HistoryTrue /\ Context!RefusedForCause
    /\ what = "state" => State!StateTrue

\* A conversation measured twice with nothing said in between is compacted once
\* (ContextGuard._handle_measure, highest_crossed_level).
Calm == Context!Calm

\* "and is what stops a stale id being sent" (FileAttachment.is_available): no request
\* carries an id that had lapsed when it began.
NoStaleRef == Files!NoStaleRef

\* A turn sent before the session is ready waits for the handshake and is not left behind
\* by it, no frame goes out twice, and END is the last event (RealtimeSession.send,
\* _when_ready, mark_ready, _on_close).
TurnsKept == what = "realtime" => Realtime!TurnsKept /\ Realtime!EndLast

\* A consumer of a session that was closed, broken or refused gets to its end
\* (RealtimeSession.__iter__, RealtimeConnection._run).
IteratorEnds == Realtime!IteratorEnds

\* A file of the store is what the last put or delete carried out left, through writes that
\* raise and crashes at any step, where one thread writes a key (FilePersistence.set), and a
\* file the registry takes for uploaded is held by the provider it names, whatever uploads,
\* failures, expiries and deletions came before (FilesRegistry, FileAttachment). Who is told that
\* an index is ready can search what was to be indexed, a corpus made for a block is deleted with
\* it (wait_indexed, Corpus.__exit__), and no window of a document is too long (_snap_to_word).
KeptTrue ==
    /\ what = "store" => Store!Durable
    /\ what = "files" => Files!RefsTrue
    /\ what = "indexed" => Indexed!RetrievalTrue
    /\ what = "chunks" => Sized

\* An emit reaches every handler that was there all along, once and in order, whoever comes
\* and goes meanwhile (HookBus.emit); and no two spans share an id, each is closed by the
\* call that opened it, and its parent is the agent's that encloses it, in one thread
\* (Telemetry._span_for, _current_parent).
HooksTrue ==
    /\ what = "bus" => Bus!Delivered
    /\ what = "spans" => Spans!SpansTrue
=============================================================================
