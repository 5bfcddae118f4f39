------------------------------ MODULE Telemetry ------------------------------
(***************************************************************************)
(* TelemetryAdapter: spans made of the hooks a process emits. Each thread  *)
(* runs agents, tools, requests and completions inside one another or      *)
(* alone; the adapter holds one open span of each kind, the tokens of "the *)
(* run" and a gauge of requests. A span's id is the number of the event    *)
(* that made it, and a call is known by the number of its first event.     *)
(***************************************************************************)
EXTENDS Integers, FiniteSets

CONSTANTS
    Threads,
    MaxHooks,       \* hooks emitted in a behaviour
    Fails           \* kinds of calls that may fail: of "agent", "tool" and "http"

Kinds == {"agent", "tool", "http"}

VARIABLES
    open,           \* TelemetryAdapter._open: kind -> span
    spans,          \* TelemetryAdapter.spans, with the filtered parent each was dispatched with
    lineage,        \* _lineage: span ids known, with their kind and parent
    usage,          \* _run_usage, one number
    inFlight,       \* TelemetryMetrics.in_flight
    call,           \* what each thread is in: kind -> the number of the call's first hook, 0 when in none
    spent,          \* history: the tokens of each thread's run
    ended,          \* history: calls that ended: <<kind, call>>
    lost,           \* history: the kinds of calls that failed
    hooks           \* hooks emitted so far

telemetryVars == <<open, spans, lineage, usage, inFlight, call, spent, ended, lost, hooks>>

NoSpan == [id |-> 0, kind |-> "none", began |-> 0, parent |-> 0]
Nothing == [k \in Kinds |-> 0]

Init ==
    /\ open = [k \in Kinds |-> NoSpan] /\ spans = {} /\ lineage = {} /\ usage = 0 /\ inFlight = 0
    /\ call = [t \in Threads |-> Nothing] /\ spent = [t \in Threads |-> 0]
    /\ ended = {} /\ lost = {} /\ hooks = 0

\* _current_parent: the open agent's span.
CurrentParent(k) == IF k = "agent" THEN 0 ELSE open["agent"].id

\* _surviving_parent, for a subscriber to agents' and completions' spans only; lineage has closed spans alone.
Surviving[id \in 0 .. MaxHooks] ==
    IF \E row \in lineage : row[1] = id
    THEN LET row == CHOOSE r \in lineage : r[1] = id IN
         IF row[2] \in {"agent", "llm"} THEN id ELSE Surviving[row[3]]
    ELSE 0

Emit == hooks < MaxHooks /\ hooks' = hooks + 1
\* A span closes: the lineage learns of it and subscribers are told.
Close(span, c, reported) ==
    /\ lineage' = lineage \cup {<<span.id, span.kind, span.parent>>}
    /\ spans' = spans \cup {[id |-> span.id, kind |-> span.kind, began |-> span.began, ended |-> c,
                             parent |-> span.parent, filtered |-> Surviving[span.parent], tokens |-> reported]}
-----------------------------------------------------------------------------
\* Fault: an open span is not replaced.
OpenedOnce(k, span) == IF open[k] = NoSpan THEN [open EXCEPT ![k] = span] ELSE open
\* _span_for with a Start: whatever was open of the kind is forgotten.
Opened(k, span) == [open EXCEPT ![k] = span]
Start(t, k) ==
    /\ Emit
    /\ call[t][k] = 0 /\ (k = "agent" => \A j \in Kinds : call[t][j] = 0)
    /\ k # "agent" => \A j \in Kinds \ {"agent"} : call[t][j] = 0
    /\ k = "tool" => call[t]["agent"] # 0
    /\ call' = [call EXCEPT ![t][k] = hooks'] /\ spent' = IF k = "agent" THEN [spent EXCEPT ![t] = 0] ELSE spent
    /\ open' = Opened(k, [id |-> hooks', kind |-> k, began |-> hooks', parent |-> CurrentParent(k)])
    /\ inFlight' = IF k = "http" THEN inFlight + 1 ELSE inFlight
    /\ UNCHANGED <<spans, lineage, usage, ended, lost>>

\* The Complete hook: the open span of the kind is taken, or one made of the moment.
Innermost(t, k) == call[t][k] # 0 /\ (k = "agent" => \A j \in Kinds \ {"agent"} : call[t][j] = 0)
Complete(t, k) ==
    /\ Emit /\ Innermost(t, k)
    /\ LET span == IF open[k] # NoSpan THEN open[k]
                   ELSE [id |-> hooks', kind |-> k, began |-> hooks', parent |-> CurrentParent(k)]
       IN Close(span, call[t][k], IF k = "agent" THEN usage ELSE 0)
    /\ open' = [open EXCEPT ![k] = NoSpan]
    /\ usage' = IF k = "agent" THEN 0 ELSE usage
    /\ inFlight' = IF k = "http" /\ inFlight > 0 THEN inFlight - 1 ELSE inFlight
    /\ ended' = ended \cup {<<k, call[t][k]>>} /\ call' = [call EXCEPT ![t][k] = 0]
    /\ UNCHANGED <<spent, lost>>

\* onRunError, onToolCallError, or an attempt that raised: hooks that close no span, or none.
Fail(t, k) ==
    /\ Emit /\ Innermost(t, k) /\ k \in Fails
    /\ ended' = ended \cup {<<k, call[t][k]>>} /\ lost' = lost \cup {k}
    /\ call' = [call EXCEPT ![t][k] = 0]
    /\ UNCHANGED <<open, spans, lineage, usage, inFlight, spent>>

\* onCompletion: a span of one moment, and its tokens to the run.
Completion(t) ==
    /\ Emit /\ \A k \in {"tool", "http"} : call[t][k] = 0
    /\ Close([id |-> hooks', kind |-> "llm", began |-> hooks', parent |-> CurrentParent("llm")], hooks', 0)
    /\ usage' = usage + 1 /\ spent' = [spent EXCEPT ![t] = @ + 1]
    /\ UNCHANGED <<open, inFlight, call, ended, lost>>

\* clear(): the tokens of the run and the metrics stay.
Clear ==
    /\ Emit
    /\ open' = [k \in Kinds |-> NoSpan] /\ spans' = {} /\ lineage' = {}
    /\ ended' = {} /\ lost' = lost \cup {"cleared"}
    /\ UNCHANGED <<usage, inFlight, call, spent>>

Next == Clear \/ \E t \in Threads : Completion(t) \/ \E k \in Kinds : Start(t, k) \/ Complete(t, k) \/ Fail(t, k)
Spec == Init /\ [][Next]_telemetryVars
-----------------------------------------------------------------------------
\* The state keeps its type.
TypeOK ==
    /\ \A k \in Kinds : open[k] = NoSpan \/ open[k].kind = k
    /\ \A s \in spans : s.id \in 1 .. hooks /\ s.parent \in 0 .. hooks /\ s.filtered \in 0 .. hooks
    /\ inFlight \in 0 .. MaxHooks /\ usage \in 0 .. MaxHooks /\ call \in [Threads -> [Kinds -> 0 .. MaxHooks]]

\* With one thread, no two spans share an id; a span is closed by the call that opened it, or has only the
\* moment of its closing; and while no run failed and nothing was cleared, its parent is an agent's span that
\* was begun before it and ended after it, if at all (_span_for, _current_parent).
SpansTrue ==
    /\ \A r, s \in spans : r.id = s.id => r = s
    /\ \A s \in spans : s.kind # "llm" => s.began = s.ended \/ "cleared" \in lost
    /\ lost \cap {"agent", "cleared"} = {} => \A s \in spans : s.parent # 0 =>
          /\ s.parent < s.id
          /\ \/ open["agent"].id = s.parent
             \/ \E a \in spans : a.kind = "agent" /\ a.id = s.parent

\* Stated and refuted by TLC: a call that ended has its span; onRunError and onToolCallError close none.
EndedIsRecorded == \A c \in ended : \E s \in spans : s.kind = c[1] /\ s.ended = c[2]
\* Stated and refuted by TLC: a run's span carries what that run spent; telemetry.py:511 asks
\* "what did THIS run spend", and a completion outside of every run is added to the next.
OwnUsage == \A t \in Threads : Cardinality(Threads) = 1 /\ call[t]["agent"] # 0 => usage <= spent[t]
\* Stated and refuted by TLC: a subscriber to agents and completions gets the tree; telemetry.py:720 promises
\* a parent "REPARENTED to the nearest ancestor it also receives", and an agent that is still open is not known.
FilteredTree == \A s \in spans : s.kind = "llm" /\ s.parent # 0 => s.filtered = s.parent
\* Stated and refuted by TLC: the gauge is the number of requests in the air; an attempt that fails stays in it.
InFlightTrue == inFlight = Cardinality({t \in Threads : call[t]["http"] # 0})
=============================================================================
