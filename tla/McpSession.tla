----------------------------- MODULE McpSession -----------------------------
(***************************************************************************)
(* The session of an McpClient (src/combycode_llm_sdk/mcp/client.py) over  *)
(* Streamable HTTP (mcp/http.py): negotiating a revision, then calls from  *)
(* several threads against a server that restarts and a token that         *)
(* expires.  Sending a request, the server's handling of it and the        *)
(* reading of its answer are steps of their own.                           *)
(***************************************************************************)
EXTENDS Integers, FiniteSets

CONSTANTS
    Threads,
    Servers,       \* kinds of server; see Speaks
    MaxCalls,      \* bound: calls of a thread
    MaxTroubles    \* bound: restarts, expiries and failures together

VARIABLES
    kind, live, made,   \* the server: what it is, the sessions it holds, how many it made
    token,              \* the bearer token: "good" or "stale"
    client,             \* [phase, version]: the client and its _negotiated_version
    wire,               \* the transport: [version, era, session, recovering]
    thread,             \* what each thread is in; see Idle
    ran,                \* history: [thread, call] -> how often the server ran it
    outcome,            \* history: [thread, call] -> "none", "ok", "refused" or "failed"
    probe,              \* history: how the last server/discover was answered
    troubles

sessionVars == <<kind, live, made, token, client, wire, thread, ran, outcome, probe, troubles>>

None == 0

\* Revisions: "new" is per-request, "now" and "old" are reached by the handshake.
Era(version) == IF version = "new" THEN "modern" ELSE "handshake"
Speaks ==
    CASE kind = "stateful" -> {"now"}   [] kind = "older"  -> {"old"}
      [] kind = "plain"    -> {"now"}   [] kind = "modern" -> {"new"}
      [] kind = "dual"     -> {"now", "new"} [] kind = "future" -> {"later"}
Stateful == kind \in {"stateful", "older", "dual"}

Calls == Threads \X (1 .. MaxCalls)

\* `msg` is being asked for, `at` says how far it is, `try` which of the posts of
\* request() it is, `call` the number of the thread's call (0: connect), and `inner`
\* that a handshake of _recover_session is under way for it.
Idle == [at |-> "idle", msg |-> "none", try |-> 1, call |-> 0, inner |-> FALSE,
         sent |-> [session |-> None, era |-> "none", token |-> "none"], status |-> "none"]

Init ==
    /\ kind \in Servers /\ live = {} /\ made = 0 /\ token = "good"
    /\ client = [phase |-> "new", version |-> "now"]
    /\ wire = [version |-> "none", era |-> "handshake", session |-> None, recovering |-> FALSE]
    /\ thread = [t \in Threads |-> Idle]
    /\ ran = [c \in Calls |-> 0] /\ outcome = [c \in Calls |-> "none"]
    /\ probe = "none" /\ troubles = 0

Me(t) == <<t, thread[t].call>>
Set(t, r) == thread' = [thread EXCEPT ![t] = r]

-----------------------------------------------------------------------------
(* The server.                                                               *)

\* A record [status, live, made, ran]; a 401 is answered before anything else.
Refuses(status) == [status |-> status, live |-> live, made |-> made, runs |-> 0]
Opens == [status |-> "ok", live |-> live \cup {made + 1}, made |-> made + 1, runs |-> 0]

Discovered ==
    IF "new" \in Speaks THEN {Refuses("ok"), Opens, Refuses("names_new")}
    ELSE IF kind = "future" THEN {Refuses("names_later")}
    ELSE {Refuses("error"), Refuses("names_now")}

Initialized ==
    IF Speaks \cap {"now", "old"} = {} THEN {Refuses("error")}
    ELSE IF Stateful THEN {Opens} ELSE {Refuses("ok")}

\* A modern request names no session, and may still meet a 404, from a gateway; the other
\* kind is refused without one (400) and with one that is forgotten (404).
Called(r) ==
    LET run == {[status |-> s, live |-> live, made |-> made, runs |-> 1] :
                   s \in IF troubles < MaxTroubles THEN {"ok", "500", "dead"} ELSE {"ok"}}
    IN  IF r.sent.era = "modern" THEN run \cup {Refuses("404")}
        ELSE IF ~Stateful \/ r.sent.session \in live THEN run
        ELSE {Refuses(IF r.sent.session = None THEN "400" ELSE "404")}

Answers(r) ==
    IF r.sent.token = "stale" THEN {Refuses("401")}
    ELSE (IF troubles < MaxTroubles THEN {Refuses("dead"), Refuses("500")} ELSE {})
         \cup (CASE r.msg = "discover" -> Discovered
                 [] r.msg = "initialize" -> Initialized
                 [] r.msg = "initialized" -> {Refuses("ok")}
                 [] r.msg = "call" -> Called(r))

\* What the server does with a request; a session id it issues is in the answer's headers
\* and is kept when the answer is read.
Serve(t) ==
    /\ thread[t].at = "wire"
    /\ \E a \in Answers(thread[t]) :
          /\ live' = a.live /\ made' = a.made
          /\ Set(t, [thread[t] EXCEPT !.at = "answer", !.status = a.status,
                                      !.sent.session = IF a.made > made THEN a.made ELSE @])
          /\ ran' = IF thread[t].msg = "call" THEN [ran EXCEPT ![Me(t)] = @ + a.runs] ELSE ran
          /\ troubles' = troubles + (IF a.status \in {"dead", "500"} THEN 1 ELSE 0)
    /\ UNCHANGED <<kind, token, client, wire, outcome, probe>>

Restart ==
    /\ troubles < MaxTroubles /\ troubles' = troubles + 1 /\ live # {} /\ live' = {}
    /\ UNCHANGED <<kind, made, token, client, wire, thread, ran, outcome, probe>>

Expire ==
    /\ troubles < MaxTroubles /\ troubles' = troubles + 1 /\ token = "good" /\ token' = "stale"
    /\ UNCHANGED <<kind, live, made, client, wire, thread, ran, outcome, probe>>

-----------------------------------------------------------------------------
(* Posting.                                                                  *)

\* The request is built from what the transport holds now; no session on the modern wire.
Posting(r, msg, try, w, tok) ==
    [r EXCEPT !.at = "wire", !.msg = msg, !.try = try, !.status = "none",
              !.sent = [session |-> IF w.era = "modern" THEN None ELSE w.session,
                        era |-> w.era, token |-> tok]]

\* connect, in protocol_mode "auto": the transport is told the revision first.
Connect(t) ==
    /\ client.phase = "new" /\ client' = [client EXCEPT !.phase = "probing"]
    /\ wire' = [wire EXCEPT !.version = "new"]
    /\ Set(t, Posting(thread[t], "discover", 1, wire', token))
    /\ UNCHANGED <<kind, live, made, token, ran, outcome, probe, troubles>>

Call(t) ==
    /\ client.phase = "connected" /\ thread[t].at = "idle" /\ thread[t].call < MaxCalls
    /\ Set(t, Posting([thread[t] EXCEPT !.call = @ + 1], "call", 1, wire, token))
    /\ UNCHANGED <<kind, live, made, token, client, wire, ran, outcome, probe, troubles>>

\* _handshake up to its first request.
Handshake(t, w) ==
    /\ wire' = [w EXCEPT !.version = "now"]
    /\ Set(t, Posting(thread[t], "initialize", 1, wire', token))

-----------------------------------------------------------------------------
(* Reading the answer.                                                       *)

\* _post keeps the session id of an answer it can read.
Kept(t) ==
    IF thread[t].status = "ok" /\ thread[t].sent.session # None
    THEN [wire EXCEPT !.session = thread[t].sent.session] ELSE wire

\* A 401 is answered once after re-authorizing; a replay after a recovery is not.
Reauthorize(t) ==
    /\ thread[t].at = "answer" /\ thread[t].status = "401" /\ thread[t].try = 1
    /\ thread[t].msg # "initialized"
    /\ \/ token' = "good" /\ Set(t, Posting(thread[t], thread[t].msg, 2, wire, "good"))
       \/ UNCHANGED token /\ Set(t, [thread[t] EXCEPT !.try = 2])
    /\ UNCHANGED <<kind, live, made, client, wire, ran, outcome, probe, troubles>>

\* Fault: whatever failed is worth a new session and a replay.
ForgottenAny(r) == r.status \in {"404", "500"} /\ wire.session # None /\ ~wire.recovering

\* A 404 while a session id is held, and nobody is recovering.
Forgotten(r) == r.status = "404" /\ wire.session # None /\ ~wire.recovering

Notice(t) ==
    /\ thread[t].at = "answer" /\ thread[t].msg = "call" /\ thread[t].try < 3
    /\ Forgotten(thread[t])
    /\ Set(t, [thread[t] EXCEPT !.at = "noticed"])
    /\ UNCHANGED <<kind, live, made, token, client, wire, ran, outcome, probe, troubles>>

\* Fault: the era is negotiated anew.
RecoverableAny == TRUE

\* _recover_session: there is a session to rebuild on the handshake's wire only.
Recoverable == Era(client.version) = "handshake"

Recover(t) ==
    /\ thread[t].at = "noticed"
    /\ LET w == [wire EXCEPT !.session = None] IN
       IF Recoverable
          THEN /\ wire' = [w EXCEPT !.version = "now", !.recovering = TRUE]
               /\ Set(t, [Posting(thread[t], "initialize", 1, wire', token) EXCEPT !.inner = TRUE])
          ELSE wire' = w /\ Set(t, [thread[t] EXCEPT !.at = "answer", !.try = 3])
    /\ UNCHANGED <<kind, live, made, token, client, ran, outcome, probe, troubles>>

\* An answer that neither of them takes up.
Read(t, msg) ==
    /\ thread[t].at = "answer" /\ thread[t].msg = msg
    /\ ~(thread[t].status = "401" /\ thread[t].try = 1 /\ msg # "initialized")

Ends(t, how) ==
    /\ outcome' = [outcome EXCEPT ![Me(t)] = how]
    /\ Set(t, [Idle EXCEPT !.call = thread[t].call])

\* The handshake failed: connect() gives up, a recovery gives the 404 back.
HandshakeFails(t) ==
    IF thread[t].inner
    THEN /\ wire' = [wire EXCEPT !.recovering = FALSE] /\ Ends(t, "refused") /\ UNCHANGED client
    ELSE /\ client' = [client EXCEPT !.phase = "refused"] /\ Set(t, Idle) /\ UNCHANGED <<wire, outcome>>

\* Fault: an outage is taken for an answer.
FallsBackAlways(status) == TRUE

\* Every JSON-RPC error falls back, but not one that names modern revisions only, nor an
\* outage.
FallsBack(status) == status \in {"error", "names_now"}

Adopt(t, version, w) ==
    /\ client' = [client EXCEPT !.phase = "connected", !.version = version]
    /\ wire' = [w EXCEPT !.version = version, !.era = Era(version)]
    /\ Set(t, Idle)

\* _negotiate_auto; a refusal that names our own revision is asked once more.
Discovery(t) ==
    /\ Read(t, "discover") /\ probe' = thread[t].status
    /\ CASE thread[t].status = "ok" -> Adopt(t, "new", Kept(t))
         [] thread[t].status = "names_new" /\ probe # "names_new" ->
               /\ Set(t, Posting(thread[t], "discover", 1, wire, token)) /\ UNCHANGED <<client, wire>>
         [] FallsBack(thread[t].status) /\ probe # "names_new" ->
               Handshake(t, wire) /\ UNCHANGED client
         [] OTHER ->
               /\ client' = [client EXCEPT !.phase = "refused"] /\ Set(t, Idle) /\ UNCHANGED wire
    /\ UNCHANGED <<kind, live, made, token, ran, outcome, troubles>>

\* The server's answer to initialize settles the revision, which the transport is told.
Initialize(t) ==
    /\ Read(t, "initialize")
    /\ IF thread[t].status = "ok"
       THEN \E v \in Speaks \cap {"now", "old"} :
               /\ client' = [client EXCEPT !.version = v]
               /\ wire' = [Kept(t) EXCEPT !.version = v, !.era = Era(v)]
               /\ Set(t, Posting(thread[t], "initialized", 1, wire', token))
               /\ UNCHANGED outcome
       ELSE HandshakeFails(t)
    /\ UNCHANGED <<kind, live, made, token, ran, probe, troubles>>

\* notify: only a post that does not get through at all fails it.  The call that found
\* the session gone is replayed.
Initialized_(t) ==
    /\ Read(t, "initialized")
    /\ IF thread[t].status = "dead" THEN HandshakeFails(t)
       ELSE IF thread[t].inner
       THEN /\ wire' = [wire EXCEPT !.recovering = FALSE]
            /\ Set(t, [Posting(thread[t], "call", 3, wire', token) EXCEPT !.inner = FALSE])
            /\ UNCHANGED <<client, outcome>>
       ELSE /\ client' = [client EXCEPT !.phase = "connected"] /\ Set(t, Idle)
            /\ UNCHANGED <<wire, outcome>>
    /\ UNCHANGED <<kind, live, made, token, ran, probe, troubles>>

Answer(t) ==
    /\ Read(t, "call") /\ ~(thread[t].try < 3 /\ Forgotten(thread[t]))
    /\ Ends(t, CASE thread[t].status = "ok" -> "ok"
                 [] thread[t].status \in {"400", "401", "404"} -> "refused"
                 [] OTHER -> "failed")
    /\ wire' = Kept(t)
    /\ UNCHANGED <<kind, live, made, token, client, ran, probe, troubles>>

Next ==
    \/ Restart \/ Expire
    \/ \E t \in Threads :
          \/ Connect(t) \/ Call(t) \/ Serve(t) \/ Reauthorize(t) \/ Notice(t) \/ Recover(t)
          \/ Discovery(t) \/ Initialize(t) \/ Initialized_(t) \/ Answer(t)

Spec == Init /\ [][Next]_sessionVars

-----------------------------------------------------------------------------
TypeOK ==
    /\ kind \in Servers /\ live \subseteq 1 .. made /\ token \in {"good", "stale"}
    /\ client.phase \in {"new", "probing", "connected", "refused"}
    /\ client.version \in {"new", "now", "old"} /\ wire.version \in {"none", "new", "now", "old"}
    /\ wire.session \in {None} \cup 1 .. made /\ wire.recovering \in BOOLEAN
    /\ \A t \in Threads : thread[t].call \in 0 .. MaxCalls /\ thread[t].try \in 1 .. 3

\* A call runs at most once on the server, through re-authorization, recovery and replay:
\* what is reported as done ran once, what is reported as refused never did, so the
\* caller may ask again.
Honest ==
    \A c \in Calls : /\ ran[c] <= 1
                     /\ outcome[c] = "ok" => ran[c] = 1
                     /\ outcome[c] = "refused" => ran[c] = 0

\* The revision that is settled on is one the server speaks, and "an outage must not
\* silently downgrade the wire" (_negotiate_auto): the handshake follows an answer.
SharedWire ==
    client.phase = "connected" =>
        /\ client.version \in Speaks
        /\ Era(client.version) = "handshake" => probe \notin {"none", "500", "dead"}

\* "Re-establish a session the server no longer holds, keeping the era"
\* (_recover_session): no recovery moves a connected client, or a modern transport, to
\* another wire.
EraKept ==
    [][client.phase = "connected" =>
          /\ Era(client'.version) = Era(client.version)
          /\ client.version = "new" => wire'.version = "new" /\ wire'.era = "modern"]_sessionVars

\* "A 404 while we HOLD a session id means the server no longer has that session"
\* (request): an id that is dropped is one the server has forgotten.  Refuted: the 404
\* was for the id another thread has replaced since.
DropsOnlyDead ==
    [][wire.session # None /\ wire'.session = None => wire.session \notin live]_sessionVars

\* A connected client holds a session or is about to.  Refuted: after one recovery that
\* failed there is no id to be forgotten, so no later 404 starts another.
StillRecoverable ==
    client.phase = "connected" /\ Stateful /\ Era(client.version) = "handshake"
        /\ (\A t \in Threads : thread[t].at = "idle")
            => wire.session # None

\* The revision in the headers is the negotiated one.  Refuted by the same failure,
\* with a server that speaks an older one.
HeaderAgrees ==
    client.phase = "connected" /\ (\A t \in Threads : thread[t].at = "idle")
        => wire.version = client.version
=============================================================================
