----------------------------- MODULE ToolAccess -----------------------------
(***************************************************************************)
(* What a call of a tool passes before the tool runs: the loop's table of  *)
(* tools (AgentLoop, agent/loop.py) with those that are found by search    *)
(* and called through a router (lazy_tools.py), the guardrails of a call,  *)
(* the rules (permissions.py), the approval gate across a restart          *)
(* (approval.py), and the catalog with its scopes (tool_catalog.py).       *)
(* The table, the gate and the catalog share no state: `via` says which is *)
(* being used.                                                             *)
(***************************************************************************)
EXTENDS Naturals, Sequences, SequencesExt, FiniteSets, FiniteSetsExt, Functions

CONSTANTS
    Objects,        \* Tool objects: [key, lazy, id]
    Policies,       \* the rules that a loop or a catalog may have; <<>> where it has none
    Words,          \* Words[query][key]: how well a tool's words answer a query
    Limit,          \* how many tools one query declares
    MaxSearches,    \* searches of a run
    Collisions,     \* of "warn", "error": tool_name_collision
    Validates,      \* the values of validate_tool_arguments
    Agents,         \* the callers of the catalog
    MaxChanges, MaxCalls, MaxDeaths     \* bounds

VARIABLES
    via, rules, collision, approver, validate,  \* the handle
    tools,          \* _tools, in the order of registration
    installed,      \* _lazy_installed
    searches,       \* of this run
    op,             \* the call under way, or the last
    scopes,         \* the catalog's: agent -> its scope
    events,         \* of the catalog's last call
    gate,           \* ApprovalGate: what awaits an answer, answers fed in, what was saved
    yeses, ran,     \* of each call: the times a human said yes to it, and that it ran on one
    changes, calls, deaths

tableVars == <<tools, installed, searches>>
gateVars == <<gate, yeses, ran>>
handle == <<via, rules, collision, approver, validate>>
accessVars == <<handle, tableVars, op, scopes, events, gateVars, changes, calls, deaths>>

SEARCH == "tool_search"
CALL == "call_tool"
Routers == {[key |-> SEARCH, lazy |-> FALSE, id |-> 0], [key |-> CALL, lazy |-> FALSE, id |-> 0]}
None == [key |-> "none", lazy |-> FALSE, id |-> 0]
Keys == {o.key : o \in Objects}

\* The arguments of a call: the amount that a tool takes, or a router's, where the amount is inside.
Amounts == {"small", "large", "none"}
NoCall == [name |-> "none", inner |-> "none", amount |-> "none"]
NoOp == [at |-> "idle", call |-> NoCall, id |-> 0, held |-> None, body |-> None, judged |-> "none",
         asked |-> None, said |-> "none", end |-> "none"]
NoGate == [pending |-> <<>>, answers |-> <<>>, saved |-> <<>>, asking |-> NoCall]

Unscoped == [names |-> {}, external |-> FALSE]

Init ==
    /\ via \in {"loop", "catalog", "gate"}
    /\ rules \in IF via = "gate" THEN {<<>>} ELSE Policies
    /\ approver \in IF via = "catalog" THEN {FALSE} ELSE BOOLEAN
    /\ collision \in IF via = "loop" THEN Collisions ELSE {"error"}
    /\ validate \in IF via = "loop" THEN Validates ELSE {FALSE}
    /\ tools = <<>> /\ installed = FALSE /\ searches = 0
    /\ op = NoOp /\ scopes = [a \in {} |-> Unscoped] /\ events = <<>>
    /\ gate = NoGate /\ yeses = [c \in {} |-> 0] /\ ran = [c \in {} |-> 0]
    /\ changes = 0 /\ calls = 0 /\ deaths = 0

-----------------------------------------------------------------------------
\* The rules: the first that matches decides, and where none does the answer is no.

\* What a rule is about: sources, actions and names, a set without which anything matches, and an
\* amount, which matches nothing that has none (with_args).
Applies(rule, source, target, action) ==
    /\ rule.sources # {} => {source, "*"} \cap rule.sources # {}
    /\ rule.actions # {} => {action, "*"} \cap rule.actions # {}
    /\ rule.names # {} => target.name \in rule.names
    /\ rule.amounts # {} => target.amount \in rule.amounts

\* Fault: the last that matches.
CheckLast(policy, source, target, action) ==
    LET hits == {k \in DOMAIN policy : Applies(policy[k], source, target, action)}
    IN  IF hits = {} THEN [effect |-> "deny", rule |-> 0] ELSE [effect |-> policy[Max(hits)].effect, rule |-> Max(hits)]

Check(policy, source, target, action) ==
    LET hits == {k \in DOMAIN policy : Applies(policy[k], source, target, action)}
    IN  IF hits = {} THEN [effect |-> "deny", rule |-> 0] ELSE [effect |-> policy[Min(hits)].effect, rule |-> Min(hits)]

WithAdditional(policy, extra) == policy \o extra

-----------------------------------------------------------------------------
\* The patterns of the matchers, of the characters that matter: two letters, a slash, a line's end.

\* glob_to_regex: `**` takes a slash after it along, and `*` crosses one only where it is loose.
RECURSIVE Atoms(_, _)
Atoms(pattern, loose) ==
    LET From(k) == Atoms(SubSeq(pattern, k, Len(pattern)), loose)
        Is(k, c) == k <= Len(pattern) /\ pattern[k] = c
    IN  IF pattern = <<>> THEN <<>>
        ELSE IF Is(1, "*") /\ Is(2, "*") THEN <<"anything">> \o From(IF Is(3, "/") THEN 4 ELSE 3)
        ELSE IF Is(1, "*") THEN <<IF loose THEN "anything" ELSE "segment">> \o From(2)
        ELSE IF Is(1, "?") THEN <<IF loose THEN "any" ELSE "other">> \o From(2)
        ELSE <<pattern[1]>> \o From(2)

\* What Python's re takes for an atom, and that `$` comes before a last line's end too.
Takes(atom, c) ==
    CASE atom \in {"anything", "any"} -> c # "newline"
      [] atom \in {"segment", "other"} -> c # "/"
      [] OTHER -> c = atom

RECURSIVE Matched(_, _)
Matched(atoms, text) ==
    LET Rest(k) == Matched(Tail(atoms), SubSeq(text, k, Len(text)))
    IN  IF atoms = <<>> THEN text \in {<<>>, <<"newline">>}
        ELSE IF Head(atoms) \in {"anything", "segment"}
        THEN \E k \in 0 .. Len(text) : (\A i \in 1 .. k : Takes(Head(atoms), text[i])) /\ Rest(k + 1)
        ELSE text # <<>> /\ Takes(Head(atoms), text[1]) /\ Rest(2)

GlobMatches(pattern, text, loose) == Matched(Atoms(pattern, loose), text)

-----------------------------------------------------------------------------
\* The table of tools.

IndexOf(key) == {k \in DOMAIN tools : tools[k].key = key}
Registered(key) == IndexOf(key) # {}
Find(key) == IF Registered(key) THEN tools[CHOOSE k \in IndexOf(key) : TRUE] ELSE None

\* A dict: a name that is there keeps its place.
With(table, o) ==
    IF \E k \in DOMAIN table : table[k].key = o.key
    THEN [k \in DOMAIN table |-> IF table[k].key = o.key THEN o ELSE table[k]]
    ELSE Append(table, o)
\* setdefault: what the caller has registered under the name stays.
WithDefault(table, o) == IF \E k \in DOMAIN table : table[k].key = o.key THEN table ELSE Append(table, o)

\* Fault: what was declared for the first tool goes with it.
InstallAgain(table) ==
    IF installed THEN table ELSE WithDefault(table, CHOOSE r \in Routers : r.key = SEARCH)

\* The first lazy tool brings the search and the router, once and for all.
Installing(table) ==
    IF installed THEN table
    ELSE WithDefault(WithDefault(table, CHOOSE r \in Routers : r.key = SEARCH), CHOOSE r \in Routers : r.key = CALL)

Shadows(o) == Registered(o.key) /\ Find(o.key) # o

Change ==
    /\ changes < MaxChanges /\ changes' = changes + 1
    /\ UNCHANGED <<handle, searches, op, events, gateVars, calls, deaths>>

RegisterTool(o) ==
    /\ via \in {"loop", "catalog"} /\ Change
    /\ IF via = "loop" THEN ~(Shadows(o) /\ collision = "error") ELSE ~Registered(o.key)
    /\ LET table == With(tools, o)
       IN  IF via = "loop" /\ o.lazy THEN tools' = Installing(table) /\ installed' = TRUE
           ELSE tools' = table /\ UNCHANGED installed
    /\ UNCHANGED scopes

\* remove_tool, of a router too, and unregister.
RemoveTool(key) ==
    /\ Registered(key) /\ Change
    /\ tools' = SelectSeq(tools, LAMBDA o : o.key # key)
    /\ UNCHANGED <<installed, scopes>>

Declared == {o \in ToSet(tools) : ~o.lazy}
LazyTools == SelectSeq(tools, LAMBDA o : o.lazy)

\* A run begins with searches of its own.
BeginRun ==
    /\ via = "loop" /\ op.at = "idle" /\ searches > 0 /\ searches' = 0
    /\ UNCHANGED <<handle, tools, installed, op, scopes, events, gateVars, changes, calls, deaths>>

-----------------------------------------------------------------------------
\* Search.

\* The best first, and of those that answer as well the one registered before.
Rank(query, pool, limit) ==
    LET Better(i, j) ==
            \/ Words[query][pool[i].key] > Words[query][pool[j].key]
            \/ Words[query][pool[i].key] = Words[query][pool[j].key] /\ i < j
        Hits == {i \in DOMAIN pool : Words[query][pool[i].key] > 0}
        Place(i) == Cardinality({j \in Hits : Better(j, i)})
    IN  {pool[i] : i \in {j \in Hits : Place(j) < limit}}

\* A search beyond those of the run is told so, and is a result like another.
Searched == searches' = searches + 1
SearchResult == IF searches + 1 > MaxSearches THEN "exhausted" ELSE "output"

-----------------------------------------------------------------------------
\* A call in the loop.

\* The name under which a call is reported, checked and approved: that of the tool behind the router.
Reported(c) == IF c.name = CALL /\ c.inner # "none" THEN c.inner ELSE c.name
\* The arguments under which it is: the router's own.
TargetOf(c) == [name |-> Reported(c), amount |-> IF c.name = CALL THEN "none" ELSE c.amount]

\* Fault: the rules are asked about the router.
RouterTarget(c) == [name |-> c.name, amount |-> c.amount]

Target(c) == TargetOf(c)

NamesAsked == Keys \cup {SEARCH, CALL}
CallsMade == {c \in [name : NamesAsked, inner : Keys \cup {CALL, "none"}, amount : Amounts] :
                    /\ c.inner = "none" \/ c.name = CALL
                    /\ c.amount = "none" \/ c.name # SEARCH}

\* Arguments that are not JSON are answered before anything is told of the call.
ModelCalls(c, malformed) ==
    /\ via = "loop" /\ op.at = "idle" /\ calls < MaxCalls /\ calls' = calls + 1
    /\ malformed => c.inner = "none" /\ c.amount = "none"
    /\ op' = IF malformed THEN [NoOp EXCEPT !.call = c, !.end = "malformed"] ELSE [NoOp EXCEPT !.call = c, !.at = "started"]
    /\ UNCHANGED <<handle, tableVars, scopes, events, gateVars, changes, deaths>>

\* What runs: the tool that was found, or, behind the router, the one that is lazy now.
Behind(c) ==
    LET lazy == {k \in DOMAIN tools : tools[k].lazy /\ tools[k].key = c.inner}
    IN  IF lazy = {} THEN None ELSE tools[Min(lazy)]

Entered(o) ==
    IF o.held.key = CALL /\ o.held.id = 0
    THEN IF Behind(o.call) = None THEN [o EXCEPT !.at = "idle", !.end = "advice"]
         ELSE [o EXCEPT !.at = "running", !.body = Behind(o.call)]
    ELSE [o EXCEPT !.at = "running", !.body = o.held]

Refused(o, why) == [o EXCEPT !.at = "idle", !.end = why]

\* A guardrail on the input that trips, or that fails, refuses this one call.
Tripped(o) == Refused(o, "guardrail")

\* One on the output withholds what it does not pass.
Inspected(result) == {result, "withheld"}

\* The arguments against the schema of the tool that is reported: a router's are its own.
Fits(c) == Find(Reported(c)) \in Objects => c.name # CALL /\ c.amount # "none"

\* _execute_one from the table to the body: the guardrails on the input, then the schema, the rules, and a human.
Admitted ==
    /\ op.at = "started"
    /\ LET held == Find(op.call.name)
           o == [op EXCEPT !.held = held]
           effect == IF rules = <<>> THEN "allow" ELSE Check(rules, "agent", Target(op.call), "execute").effect
           judged == [o EXCEPT !.judged = effect, !.asked = Find(Reported(op.call))]
       IN  IF held = None THEN op' = Refused(o, "unknown")
           ELSE \/ op' = Tripped(o)
                \/ op' = IF validate /\ ~Fits(op.call) THEN Refused(o, "schema")
                         ELSE IF effect = "allow" THEN Entered(judged)
                         ELSE IF effect = "ask" /\ approver THEN [judged EXCEPT !.at = "waiting"]
                         ELSE Refused(judged, "denied")
    /\ UNCHANGED <<handle, tableVars, scopes, events, gateVars, changes, calls, deaths>>

\* A plain yes runs the tool; anything else is its result (result_for).
Answered(said) ==
    /\ op.at = "waiting"
    /\ op' = IF said = "approve" THEN Entered([op EXCEPT !.said = said]) ELSE Refused([op EXCEPT !.said = said], "answered")
    /\ UNCHANGED <<handle, tableVars, scopes, events, gateVars, changes, calls, deaths>>

\* The body ends; an error is not looked at.
Searching == op.body.key = SEARCH /\ op.body.id = 0
Returned ==
    /\ via = "loop" /\ op.at = "running"
    /\ \E end \in {"error"} \cup Inspected(IF Searching THEN SearchResult ELSE "output") : op' = Refused(op, end)
    /\ IF Searching THEN Searched ELSE UNCHANGED searches
    /\ UNCHANGED <<handle, tools, installed, scopes, events, gateVars, changes, calls, deaths>>

-----------------------------------------------------------------------------
\* The catalog. A tool whose id is even is external, and each declares itself as what it touches.

External(o) == o.id % 2 = 0
InScope(scope, o) == o.key \in scope.names /\ ~(External(o) /\ ~scope.external)
VisibleTo(agent) == IF agent \in DOMAIN scopes THEN {o \in ToSet(tools) : InScope(scopes[agent], o)} ELSE {}

\* search(agent_id=...)
SearchFinds(agent, query) ==
    Rank(query, SelectSeq(tools, LAMBDA o : o \in VisibleTo(agent)), Limit)

ScopeChanges(agent) ==
    /\ via = "catalog" /\ Change
    /\ scopes' \in {[a \in DOMAIN scopes \cup {agent} |-> IF a = agent THEN s ELSE scopes[a]] :
                       s \in [names : {Keys} \cup {{k} : k \in Keys}, external : BOOLEAN]}
                   \cup {[a \in DOMAIN scopes \ {agent} |-> scopes[a]]}
    /\ UNCHANGED <<tools, installed>>

\* Every target with every action; no rules are no opinion.
Permits(agent, o) == rules = <<>> \/ Check(rules, agent, [name |-> o.key, amount |-> "none"], "write").effect = "allow"

\* Fault: the scope is left to the search.
AllowsAnyone(agent, o) == IF o = None THEN "unknown" ELSE IF ~Permits(agent, o) THEN "denied" ELSE "none"

\* What call() refuses, in its order.
Refusal(agent, o) ==
    IF o = None THEN "unknown"
    ELSE IF agent \notin DOMAIN scopes THEN "scope"
    ELSE IF o.key \notin scopes[agent].names THEN "scope"
    ELSE IF External(o) /\ ~scopes[agent].external THEN "scope"
    ELSE IF ~Permits(agent, o) THEN "denied" ELSE "none"

\* The start is told of first, and the call is judged then.
CatalogCall(agent, key) ==
    /\ via = "catalog" /\ op.at = "idle" /\ calls < MaxCalls /\ calls' = calls + 1
    /\ op' = [NoOp EXCEPT !.call = [NoCall EXCEPT !.name = key, !.inner = agent], !.at = "asked"]
    /\ events' = <<"start">>
    /\ UNCHANGED <<handle, tableVars, scopes, gateVars, changes, deaths>>

CatalogJudges ==
    /\ op.at = "asked"
    /\ LET o == Find(op.call.name)
           why == Refusal(op.call.inner, o)
           \* What a search by the agent would have been shown.
           seen == [op EXCEPT !.asked = IF o \in VisibleTo(op.call.inner) THEN o ELSE None]
       IN  IF why = "none"
           THEN op' = [seen EXCEPT !.at = "running", !.body = o] /\ UNCHANGED events
           ELSE op' = Refused(seen, why) /\ events' = Append(events, "error")
    /\ UNCHANGED <<handle, tableVars, scopes, gateVars, changes, calls, deaths>>

\* A handler that raises on completion is taken for the tool.
CatalogReturns ==
    /\ via = "catalog" /\ op.at = "running"
    /\ \/ op' = Refused(op, "output") /\ events' = Append(events, "complete")
       \/ op' = Refused(op, "error") /\ events' = Append(events, "error")
       \/ op' = Refused(op, "handler") /\ events' = events \o <<"complete", "error">>
    /\ UNCHANGED <<handle, tableVars, scopes, gateVars, changes, calls, deaths>>

-----------------------------------------------------------------------------
\* The approval gate, and a process that ends while a human is asked. A call is its id, which
\* providers use again, its name and its arguments.

GateCalls == [name : Keys, inner : {"call_0"}, amount : {"small", "large"}]
Record(c) == [id |-> c.inner, call |-> c]
Bump(count, c) == [d \in DOMAIN count \cup {c} |-> (IF d \in DOMAIN count THEN count[d] ELSE 0) + (IF d = c THEN 1 ELSE 0)]
Dropped(list, id) == SelectSeq(list, LAMBDA r : r.id # id)

\* Fault: an answer is known by the id alone.
FedById(c) == {k \in DOMAIN gate.answers : gate.answers[k].id = c.inner}

\* A fed-in answer to this very call, once.
Fed(c) == {k \in DOMAIN gate.answers : gate.answers[k].call = c}

Spend(k) == [gate EXCEPT !.answers = RemoveAt(@, k)]

GateChecks(c) ==
    /\ via = "gate" /\ gate.asking = NoCall /\ calls < MaxCalls /\ calls' = calls + 1
    /\ IF Fed(c) # {}
       THEN LET k == Min(Fed(c))
            IN  gate' = Spend(k) /\ ran' = IF gate.answers[k].yes THEN Bump(ran, c) ELSE ran
       ELSE IF approver
       THEN gate' = [gate EXCEPT !.asking = c, !.pending = Append(Dropped(@, c.inner), Record(c))] /\ UNCHANGED ran
       ELSE UNCHANGED <<gate, ran>>
    /\ UNCHANGED <<handle, tableVars, op, scopes, events, yeses, changes, deaths>>

\* The approver answers, or fails, which is a no.
GateAnswers(yes) ==
    /\ gate.asking # NoCall
    /\ gate' = [gate EXCEPT !.asking = NoCall, !.pending = Dropped(@, gate.asking.inner)]
    /\ yeses' = IF yes THEN Bump(yeses, gate.asking) ELSE yeses
    /\ ran' = IF yes THEN Bump(ran, gate.asking) ELSE ran
    /\ UNCHANGED <<handle, tableVars, op, scopes, events, changes, calls, deaths>>

\* The approver saves what is pending before it waits.
GateSaves ==
    /\ gate.asking # NoCall /\ gate' = [gate EXCEPT !.saved = gate.pending]
    /\ UNCHANGED <<handle, tableVars, op, scopes, events, yeses, ran, changes, calls, deaths>>

\* The process ends, and another restores what was saved.
GateRestored ==
    /\ via = "gate" /\ deaths < MaxDeaths /\ deaths' = deaths + 1
    /\ gate' = [NoGate EXCEPT !.pending = gate.saved, !.saved = gate.saved]
    /\ UNCHANGED <<handle, tableVars, op, scopes, events, yeses, ran, changes, calls>>

\* The answer that a human gave meanwhile, to the record and not to the id.
ResumeWith(id, yes) ==
    /\ via = "gate" /\ gate.asking = NoCall
    /\ \E k \in DOMAIN gate.pending :
          /\ gate.pending[k].id = id
          /\ gate' = [gate EXCEPT !.pending = Dropped(@, id),
                                  !.answers = Append(@, [id |-> id, call |-> gate.pending[k].call, yes |-> yes])]
          /\ yeses' = IF yes THEN Bump(yeses, gate.pending[k].call) ELSE yeses
    /\ UNCHANGED <<handle, tableVars, op, scopes, events, ran, changes, calls, deaths>>

Next ==
    \/ \E o \in Objects : RegisterTool(o)
    \/ \E key \in Keys \cup {SEARCH, CALL} : RemoveTool(key)
    \/ BeginRun \/ \E c \in CallsMade, malformed \in BOOLEAN : ModelCalls(c, malformed)
    \/ Admitted \/ \E said \in {"approve", "override", "deny", "skip"} : Answered(said)
    \/ Returned
    \/ \E a \in Agents : ScopeChanges(a) \/ \E k \in Keys : CatalogCall(a, k)
    \/ CatalogJudges \/ CatalogReturns
    \/ \E c \in GateCalls : GateChecks(c)
    \/ \E yes \in BOOLEAN : GateAnswers(yes) \/ ResumeWith("call_0", yes)
    \/ GateSaves \/ GateRestored

Spec == Init /\ [][Next]_accessVars

-----------------------------------------------------------------------------
Effects == {"allow", "deny", "ask"}
TypeOK ==
    /\ via \in {"loop", "catalog", "gate"} /\ rules \in Policies
    /\ ToSet(tools) \subseteq Objects \cup Routers /\ IsInjective([k \in DOMAIN tools |-> tools[k].key])
    /\ installed \in BOOLEAN /\ searches \in 0 .. MaxCalls
    /\ op.at \in {"idle", "started", "asked", "waiting", "running"} /\ op.judged \in Effects \cup {"none"}
    /\ {op.held, op.body, op.asked} \subseteq Objects \cup Routers \cup {None}
    /\ DOMAIN scopes \subseteq Agents /\ Len(events) <= 3
    /\ \A c \in DOMAIN ran \cup DOMAIN yeses : c \in GateCalls

\* A tool's body runs in the loop only as what the rules were asked about: the tool that runs bears
\* the name that was judged, and the first rule about it allows it or had a human asked who
\* said yes, whichever way the tool was reached (_execute_one, _gate_call, call_tool).
RunsAsJudged ==
    via = "loop" /\ op.at = "running" =>
        /\ op.body \in Objects => op.body.key \in {op.call.name, op.call.inner}
        /\ op.body \in Objects /\ rules # <<>> =>
              LET about == [name |-> op.body.key, amount |-> IF op.call.name = CALL THEN "none" ELSE op.call.amount]
                  effect == Check(rules, "agent", about, "execute").effect
              IN  effect = "allow" \/ (effect = "ask" /\ op.said = "approve")

\* The scope that a search goes by and the scope that a call is held to are one (ToolCatalog._in_scope,
\* call): what an agent is shown it is not refused for its scope, and what it calls by a name that
\* it was never shown, or may not be, does not run.
ScopedTwice ==
    via = "catalog" =>
        /\ \A agent \in Agents, query \in DOMAIN Words : \A o \in SearchFinds(agent, query) :
              Refusal(agent, o) # "scope"
        /\ op.body # None => op.asked = op.body
        /\ op.end = "scope" => op.asked = None

\* A human's yes lets one call run, that very call, and at most once, across turns that use its id again and
\* restarts that ask again (ApprovalGate.check, resume_with, PendingToolCall.matches).
OneYes == \A c \in DOMAIN ran : c \in DOMAIN yeses /\ ran[c] <= yeses[c]

\* A path is matched level by level, "`*` stopping at `/`", and a text without levels as a whole.
Texts(alphabet, n) == UNION {[1 .. k -> alphabet] : k \in 0 .. n}
Levels(text) ==
    LET Ends == {0, Len(text) + 1} \cup {k \in DOMAIN text : text[k] = "/"}
        Next_(k) == Min({j \in Ends : j > k})
    IN  [i \in 1 .. Cardinality(Ends) - 1 |->
            LET k == CHOOSE e \in Ends : Cardinality({j \in Ends : j < e}) = i - 1
            IN  SubSeq(text, k + 1, Next_(k) - 1)]
Starry(pattern) == \E k \in 2 .. Len(pattern) : pattern[k - 1] = "*" /\ pattern[k] = "*"
GlobsByLevel ==
    \A pattern \in Texts({"a", "*", "?", "/"}, 3), text \in Texts({"a", "b", "/"}, 3) : ~Starry(pattern) =>
        LET ps == Levels(pattern)
            ts == Levels(text)
        IN  GlobMatches(pattern, text, FALSE) =
                (Len(ps) = Len(ts) /\ \A i \in DOMAIN ps : GlobMatches(ps[i], ts[i], TRUE))

AtFirst == changes + calls + deaths = 0 /\ via = "gate" /\ approver

\* Rules that are added rule only on what no earlier rule ruled on (with_additional).
NeverWidens ==
    AtFirst =>
        \A policy, extra \in Policies, agent \in Agents, name \in Keys, amount \in Amounts, action \in {"execute", "write"} :
            LET target == [name |-> name, amount |-> amount]
                before == Check(policy, agent, target, action)
            IN  before.rule # 0 => Check(WithAdditional(policy, extra), agent, target, action) = before

AccessTrue == RunsAsJudged /\ ScopedTwice /\ OneYes /\ NeverWidens /\ (AtFirst => GlobsByLevel)

-----------------------------------------------------------------------------
\* Stated and refuted by TLC: what a human approved is what runs. Behind the router the tool is looked up
\* once more after the answer, and another may bear the name by then.
ApprovedIsRun == op.at = "running" /\ op.said = "approve" => op.body = op.asked

\* Stated and refuted by TLC: a rule about an argument ("a transfer over 1000 needs a human",
\* _gate_call) is asked about the argument. Behind the router it is shown the router's.
ArgumentsAreJudged ==
    via = "loop" /\ op.at = "running" /\ op.body \in Objects /\ rules # <<>> /\ op.said = "none" =>
        Check(rules, "agent", [name |-> op.body.key, amount |-> op.call.amount], "execute").effect = "allow"

\* Stated and refuted by TLC: a call with the arguments that its tool takes is not refused for them. Behind the
\* router the tool's schema is held against the router's arguments (_argument_schema).
ValidIsRun == op.end = "schema" => op.call.amount = "none"

\* Stated and refuted by TLC: a lazy tool can be found ("a lazy tool with no way to find it is
\* just a missing one", declared_tools). A router that was removed is not declared again.
Findable == LazyTools # <<>> => {SEARCH, CALL} \subseteq {o.key : o \in Declared}

\* Stated and refuted by TLC: a call of the catalog is told of as complete or as failed. It is both where
\* a handler of its completion raises, and then its output is lost.
CompletedOnce == Len(events) <= 2

\* Stated and refuted by TLC: `**/` means "any number of segments, including none" (glob_to_regex). It takes
\* the beginning of a segment too: "**/a" matches "ba".
StarsAreSegments == AtFirst => ~GlobMatches(<<"*", "*", "/", "a">>, <<"b", "a">>, FALSE)

\* Stated and refuted by TLC: what matches a pattern without wildcards is the pattern. A line's end may follow.
PlainIsExact == AtFirst => ~GlobMatches(<<"a">>, <<"a", "newline">>, FALSE)

\* Stated and refuted by TLC: an answer that a human gave is not asked for again. A process that ends between
\* the answer and the call has it no more, and what was saved still awaits it.
AnswersKept == \A k \in DOMAIN gate.pending : gate.pending[k].call \notin DOMAIN yeses
=============================================================================
