----------------------------- MODULE McpStreams -----------------------------
(***************************************************************************)
(* How a client hears of changes over Streamable HTTP: one                 *)
(* subscriptions/listen stream and the standing GET stream of mcp/http.py, *)
(* the McpSubscription (mcp/subscriptions.py) its frames are for, and the  *)
(* result cache (mcp/result_cache.py) that McpClient._paginate fills while *)
(* they come.  An event is known by its id; a list that was read when n    *)
(* events had happened has value n.                                        *)
(***************************************************************************)
EXTENDS Integers, Sequences, FiniteSetsExt

CONSTANTS
    MaxEvents,          \* bound
    MaxResumeAttempts,  \* MAX_RESUME_ATTEMPTS
    MaxDrops,           \* bound: how often the GET stream drops
    MaxLists            \* bound: lists that are asked for

VARIABLES
    log,       \* the server's events so far: which stream each is for
    closed,    \* transport._closed
    entry,     \* the stream has an entry in _long_lived
    stream,    \* its thread; see Quiet
    last,      \* _last_event_id
    get,       \* the GET stream: [pos, drops]
    sub,       \* the subscription: "none", "live", "ended", "closed"
    cache,     \* the cached list, or Nothing
    lister,    \* a thread in _paginate: [at, value], and how often it was
    \* history
    routed,    \* events that reached a handler
    ended,     \* calls of on_end
    told,      \* the newest event on_event was called with
    cleared, raced   \* the newest event to clear the cache; a list read before it is cached

streamVars == <<log, closed, entry, stream, last, get, sub, cache, lister, routed, ended, told, cleared, raced>>

Nothing == 0 - 1

\* `from` is where the first connection began, `pos` the last event this one is past, `reached` the last one read
\* off it, `cursor` what a resume will start from, `tries` the attempt (Nothing before the
\* first connection ended).
Quiet == [at |-> "none", from |-> 0, pos |-> 0, reached |-> 0, cursor |-> 0, tries |-> Nothing, delivered |-> FALSE]

Init ==
    /\ log = <<>> /\ closed = FALSE /\ entry = FALSE /\ stream = Quiet
    /\ last = 0 /\ get = [pos |-> 0, drops |-> 0] /\ sub = "none"
    /\ cache = Nothing /\ lister = [at |-> "idle", value |-> 0, n |-> 0]
    /\ routed = {} /\ ended = 0 /\ told = 0 /\ cleared = 0 /\ raced = FALSE

Of(channel) == {i \in DOMAIN log : log[i] = channel}
After(channel, pos) == {i \in Of(channel) : i > pos}

\* on_end: the subscription is told, if there is one yet.
OnEnd ==
    /\ ended' = ended + 1
    /\ sub' = IF sub = "live" THEN "ended" ELSE sub

\* _resolve_long_lived.
Resolve == IF entry THEN entry' = FALSE /\ OnEnd ELSE UNCHANGED <<entry, ended, sub>>

-----------------------------------------------------------------------------
(* The caller.                                                               *)

\* send_long_lived_request: the entry is made ...
Listen ==
    /\ stream.at = "none" /\ ~closed /\ entry' = TRUE
    /\ stream' = [stream EXCEPT !.at = "entered"]
    /\ UNCHANGED <<log, closed, last, get, sub, cache, lister, routed, ended, told, cleared, raced>>

\* ... on_open registers the subscription, and the thread starts.
Open ==
    /\ stream.at = "entered" /\ sub' = "live" /\ stream' = [stream EXCEPT !.at = "start"]
    /\ UNCHANGED <<log, closed, entry, last, get, cache, lister, routed, ended, told, cleared, raced>>

\* McpSubscription.close: the stream is not told.
CloseSubscription ==
    /\ sub = "live" /\ sub' = "closed"
    /\ UNCHANGED <<log, closed, entry, stream, last, get, cache, lister, routed, ended, told, cleared, raced>>

\* transport.close: the flags are set, and _fail_all settles every stream.
Close ==
    /\ ~closed /\ closed' = TRUE /\ Resolve
    /\ UNCHANGED <<log, stream, last, get, cache, lister, routed, told, cleared, raced>>

-----------------------------------------------------------------------------
(* The stream's thread.                                                      *)

Goes(r) ==
    /\ stream' = r
    /\ UNCHANGED <<log, closed, entry, last, get, sub, cache, lister, routed, ended, told, cleared, raced>>

\* Fault: a reconnection is never counted.
TriedForever(r) == r

Tried(r) == [r EXCEPT !.tries = @ + 1]

\* Fault: a resume is a request like the first, without Last-Event-ID.
ResumeFromNow(r) == Len(log)

ResumeFrom(r) == r.cursor

\* The loop of _long_lived_loop, between two connections.
Again(r) ==
    IF r.cursor # 0 /\ ~closed /\ entry /\ r.tries < MaxResumeAttempts
    THEN [r EXCEPT !.at = "pause"] ELSE [r EXCEPT !.at = "settle"]

\* The first connection starts from now; a failed one ends the subscription.
Connect ==
    /\ stream.at = "start"
    /\ \/ Goes([stream EXCEPT !.at = "drain", !.from = Len(log), !.pos = Len(log)])
       \/ Goes([stream EXCEPT !.at = "settle"])

Reconnect ==
    /\ stream.at = "pause"
    /\ \/ ~closed /\ Goes([stream EXCEPT !.at = "drain", !.pos = ResumeFrom(stream),
                                         !.reached = stream.cursor, !.delivered = FALSE])
       \/ ~closed /\ Goes(Again(Tried(stream)))
       \/ closed /\ Goes([stream EXCEPT !.at = "settle"])

\* The connection ends, which happens at the latest when a flag is seen.  One that
\* delivered earns a fresh budget.
Eof ==
    /\ stream.at = "drain"
    /\ LET r == [stream EXCEPT !.cursor = stream.reached]
       IN  Goes(Again(IF r.tries = Nothing \/ r.delivered THEN [r EXCEPT !.tries = 0] ELSE Tried(r)))

\* It breaks: the first one ends the subscription, a later one is one more attempt, from
\* where the one before started.
Break ==
    /\ stream.at = "drain"
    /\ Goes(IF stream.tries = Nothing THEN [stream EXCEPT !.at = "settle"] ELSE Again(Tried(stream)))

\* _drain reads one event; a flag that is set ends it instead (Eof).
Read ==
    /\ stream.at = "drain" /\ ~closed /\ After("listen", stream.pos) # {}
    /\ LET e == Min(After("listen", stream.pos)) IN
       /\ stream' = [stream EXCEPT !.at = "route", !.pos = e, !.reached = e, !.delivered = TRUE]
       /\ last' = e /\ routed' = routed \cup {e}
    /\ UNCHANGED <<log, closed, entry, get, sub, cache, lister, ended, told, cleared, raced>>

\* Fault: what is cached is left for its TTL.
EvictedNot == UNCHANGED cache

Evicted == cache' = Nothing

\* handle_frame: deliver drops what the event makes wrong, and only then calls on_event.
Invalidate ==
    /\ stream.at = "route" /\ stream' = [stream EXCEPT !.at = "tell"] /\ Evicted
    /\ cleared' = Max({cleared, stream.pos}) /\ raced' = FALSE
    /\ UNCHANGED <<log, closed, entry, last, get, sub, lister, routed, ended, told>>

Tell ==
    /\ stream.at = "tell" /\ stream' = [stream EXCEPT !.at = "again"]
    /\ told' = IF sub = "live" THEN Max({told, stream.pos}) ELSE told
    /\ UNCHANGED <<log, closed, entry, last, get, sub, cache, lister, routed, ended, cleared, raced>>

\* _handle_notification drops it once more.
InvalidateAgain ==
    /\ stream.at = "again" /\ stream' = [stream EXCEPT !.at = "drain"] /\ Evicted /\ raced' = FALSE
    /\ UNCHANGED <<log, closed, entry, last, get, sub, lister, routed, ended, told, cleared>>

\* The server's response to the request itself: the subscription is over.
Over ==
    /\ stream.at = "drain" /\ entry /\ ~closed /\ Resolve
    /\ UNCHANGED <<log, closed, stream, last, get, cache, lister, routed, told, cleared, raced>>

\* Fault: a stream that gave up says nothing.
SettledSilently == UNCHANGED <<entry, ended, sub>>

Settled == Resolve

Settle ==
    /\ stream.at = "settle" /\ stream' = [stream EXCEPT !.at = "done"] /\ Settled
    /\ UNCHANGED <<log, closed, last, get, cache, lister, routed, told, cleared, raced>>

-----------------------------------------------------------------------------
(* The server, the GET stream, and a thread that lists.                      *)

Happens ==
    /\ Len(log) < MaxEvents /\ \E channel \in {"listen", "get"} : log' = Append(log, channel)
    /\ UNCHANGED <<closed, entry, stream, last, get, sub, cache, lister, routed, ended, told, cleared, raced>>

\* _run_event_stream keeps the same cursor as _drain.
GetReads ==
    /\ ~closed /\ After("get", get.pos) # {}
    /\ LET e == Min(After("get", get.pos)) IN
       /\ get' = [get EXCEPT !.pos = e] /\ last' = e /\ routed' = routed \cup {e}
    /\ UNCHANGED <<log, closed, entry, stream, sub, cache, lister, ended, told, cleared, raced>>

GetDrops ==
    /\ ~closed /\ get.drops < MaxDrops /\ get' = [pos |-> last, drops |-> get.drops + 1]
    /\ UNCHANGED <<log, closed, entry, stream, last, sub, cache, lister, routed, ended, told, cleared, raced>>

\* _paginate misses the cache, asks the server, and stores what it said; the entry
\* expires at its TTL.
Ask ==
    /\ lister.at = "idle" /\ cache = Nothing /\ lister.n < MaxLists
    /\ lister' = [at |-> "asked", value |-> Len(log), n |-> lister.n + 1]
    /\ UNCHANGED <<log, closed, entry, stream, last, get, sub, cache, routed, ended, told, cleared, raced>>

Store ==
    /\ lister.at = "asked" /\ lister' = [lister EXCEPT !.at = "idle"]
    /\ cache' = lister.value /\ raced' = (lister.value < cleared)
    /\ UNCHANGED <<log, closed, entry, stream, last, get, sub, routed, ended, told, cleared>>

Lapse ==
    /\ cache # Nothing /\ cache' = Nothing /\ raced' = FALSE
    /\ UNCHANGED <<log, closed, entry, stream, last, get, sub, lister, routed, ended, told, cleared>>

Thread == Connect \/ Reconnect \/ Invalidate \/ Tell \/ InvalidateAgain \/ Settle
Drop == Eof \/ Break

Next ==
    \/ Listen \/ Open \/ CloseSubscription \/ Close
    \/ Connect \/ Reconnect \/ Eof \/ Break \/ Read \/ Invalidate \/ Tell \/ InvalidateAgain
    \/ Over \/ Settle \/ Happens \/ GetReads \/ GetDrops \/ Ask \/ Store \/ Lapse

\* The threads run; a blocked read returns only if the server lets it.
Running == WF_streamVars(Thread) /\ WF_streamVars(Open) /\ WF_streamVars(closed /\ stream.at = "drain" /\ After("listen", stream.pos) # {} /\ Eof)
\* A server whose connections do not last.
Flapping == WF_streamVars(Drop)

Spec == Init /\ [][Next]_streamVars /\ Running
SpecFlapping == Spec /\ Flapping

-----------------------------------------------------------------------------
TypeOK ==
    /\ log \in Seq({"listen", "get"}) /\ closed \in BOOLEAN /\ entry \in BOOLEAN
    /\ stream.tries \in Nothing .. MaxResumeAttempts /\ ended \in 0 .. 1
    /\ sub \in {"none", "live", "ended", "closed"} /\ cache \in Nothing .. MaxEvents
    /\ routed \subseteq DOMAIN log


\* The listen stream resumes from its own cursor and skips nothing it could have been
\* sent, through drops, broken resumes and the GET stream's events in between
\* (_long_lived_loop).
NoGap == \A e \in Of("listen") : stream.from < e /\ e <= stream.pos => e \in routed

\* "Always settles, whether we resumed and later gave up or never could ... so `on_end`
\* fires exactly once" (_long_lived_loop), with close(), the server's own response and
\* the thread's end racing for it.
EndOnce == ended = (IF entry \/ stream.at = "none" THEN 0 ELSE 1)
           /\ (stream.at = "done" => ended = 1)

\* "A handler that immediately re-lists sees fresh data" (listen): once on_event was
\* called nothing older is cached, unless a list that was already being read is stored.
Fresh == cache # Nothing /\ ~raced => cache >= told

\* "A flapping server still terminates" (_long_lived_loop): the budget of resumes runs
\* out, as the events do.
FlappingEnds == stream.at = "start" ~> stream.at = "done"

\* Without the exception: a handler that re-lists synchronously "must not be answered out
\* of the entry the server has just said is stale" (_handle_notification).  Refuted by
\* a list that is read before the change and stored after it.
FreshAlways == cache # Nothing => cache >= told

\* "Sharing one would make each stream resume from the other's position"
\* (_long_lived_loop).  Refuted: the GET stream's cursor is written by the other.
NoGapInGet == \A e \in Of("get") : e <= get.pos => e \in routed

\* "Without this a single blip kills a subscription permanently" (_long_lived_loop): one
\* that can be resumed ends when the budget does.  Refuted by a first connection that
\* breaks rather than ends.
Persistent ==
    [][stream.at = "drain" /\ stream'.at = "settle" /\ entry /\ ~closed /\ stream.reached # 0
          => stream'.tries >= MaxResumeAttempts]_streamVars

\* Subscriptions die with the connection and are told (_fail_all).  Refuted by a close
\* between the entry and on_open.
ToldOfEnd == stream.at = "done" => sub # "live"

\* "A closing transport has to reach INTO those threads: they are blocked reading a
\* socket the server is deliberately holding open" (HttpTransport).  Refuted: the flag
\* is read only between two events.
CloseReaches == closed /\ stream.at = "drain" ~> stream.at = "done"
=============================================================================
