------------------------------ MODULE MCHelpers ------------------------------
(***************************************************************************)
(* What an application builds its work from, for TLC: the schedule         *)
(* (Scheduler), the tools that the library runs for itself (InternalTools),*)
(* a debate of agents (Debate), what is made of pictures and speech        *)
(* (Media), what a call of a tool passes first (ToolAccess) and what is    *)
(* said of a shape (Schemas); and what it is told of a stream: the calls   *)
(* (StreamedCalls) and the events (StreamedTurn), on small instances. They *)
(* share no state, and each behaviour is one of them.                      *)
(* Process 1 of the schedule serves one name, the other the rest.          *)
(***************************************************************************)
EXTENDS Scheduler, TLC

CONSTANTS Runners, Backends, Debaters, MaxDebate, MaxEvents

VARIABLES
    what,
    backends, has, merged, keys, pool, clients, call,
    mode, stage, prompt, asking, texts, order, transcript, unreadable, agreedAt, report,
    vendor, onDisk, reachable, closed, clock, produced, op, job, media, receipts, deleting, torn,
    via, rules, collision, approver, validate, tools, installed, searches, passing, scopes, events,
    gate, yeses, ran, changes, calls, deaths,
    ask, wired, turns, rounds, answer, outcome,
    provider, kind, total, at, sent, parser, accum, spelled, hosted, ending,
    strategy, judgesInput, client, turn, said, text, checked, hold, out, pending, given, summary, completions, failed

MCServes == [p \in Processes |-> IF p = 1 THEN {"report"} ELSE {"sweep"}]
MCDelays == {0}

\* Two models of one provider and one of another; the runner has a key for one provider.
PM == <<"p", "m">>
PN == <<"p", "n">>
QM == <<"q", "m">>
Inner == INSTANCE InternalTools WITH
    Callers <- Runners, Editions <- 1, MaxClients <- 2, KeySets <- {{"p"}}, Invalidates <- TRUE,
    Chains <- {[recommended |-> <<>>, preferred |-> <<>>],
               [recommended |-> <<PM>>, preferred |-> <<PN, PM, QM>>]}

Argued == INSTANCE Debate WITH Agents <- Debaters, Rounds <- MaxDebate

Produced == INSTANCE Media WITH
    Vendors <- {"openai", "google", "imagen", "xai", "openrouter"}, Raises <- TRUE, Gaps <- FALSE,
    Interval <- 2, MaxWait <- 3, Slow <- 1, MaxRows <- 2, MaxMade <- 2, made <- produced

\* Two tools of one name, one of them lazy, and a third; a rule about an argument, one that asks about
\* one tool and allows the rest, and one for a single caller.
ToolOf(key, lazy, id) == [key |-> key, lazy |-> lazy, id |-> id]
RuleOf(sources, names, amounts, effect) ==
    [sources |-> sources, actions |-> {}, names |-> names, amounts |-> amounts, effect |-> effect]
MCPolicies == {
    <<>>,
    <<RuleOf({}, {"pay"}, {"large"}, "ask"),
      RuleOf({}, {"look", "tool_search", "call_tool"}, {}, "allow"), RuleOf({}, {"pay"}, {}, "allow")>>,
    <<RuleOf({}, {"pay"}, {}, "ask"), RuleOf({}, {}, {}, "allow")>>,
    <<RuleOf({"a"}, {"pay"}, {}, "allow"), RuleOf({}, {"look"}, {}, "deny"), RuleOf({}, {"call_tool"}, {}, "allow")>>}
Admits == INSTANCE ToolAccess WITH
    Objects <- {ToolOf("pay", TRUE, 1), ToolOf("pay", FALSE, 2), ToolOf("look", TRUE, 3)},
    Policies <- MCPolicies, Agents <- Runners, Limit <- 1, MaxSearches <- 1,
    Words <- "money" :> ("pay" :> 2 @@ "look" :> 1) @@ "see" :> ("pay" :> 0 @@ "look" :> 1),
    Collisions <- {"warn", "error"}, Validates <- BOOLEAN,
    MaxChanges <- 2, MaxCalls <- 2, MaxDeaths <- 2, op <- passing

\* Shapes: annotations, JSON and parameters, made small enough to enumerate.
V(t, s) == [t |-> t, s |-> s, keys |-> <<>>, items |-> <<>>]
ListOf(vs) == [V("array", "") EXCEPT !.items = vs]
MapOf(pairs) == [V("object", "") EXCEPT !.keys = [i \in DOMAIN pairs |-> pairs[i][1]], !.items = [i \in DOMAIN pairs |-> pairs[i][2]]]
One == V("integer", "1")
A == V("string", "a")
OfX(v) == MapOf(<<<<"x", v>>>>)
OfType(t) == MapOf(<<<<"type", V("string", t)>>>>)

Ann(k) == [k |-> k, name |-> "", args |-> <<>>, values |-> <<>>, fields |-> <<>>]
Of(k, args) == [Ann(k) EXCEPT !.args = args]
Lit(vs) == [Ann("literal") EXCEPT !.values = vs]
Field(n, of, default) == [name |-> n, of |-> of, default |-> default, init |-> TRUE]
Class(n, fields) == [Ann("class") EXCEPT !.name = n, !.fields = fields]
Opt(of) == Of("union", <<of, Ann("none")>>)
Point == Class("Point", <<Field("x", Ann("int"), FALSE)>>)
MCClasses ==
    {Class("C", <<Field("x", of, FALSE)>>) : of \in {
        Ann("float"), Lit(<<A, V("string", "b")>>), Opt(Lit(<<A>>)), Of("list", <<Point>>), Of("set", <<Point>>),
        Of("tuple", <<Ann("int"), Ann("str")>>), Of("union", <<Point, Ann("str")>>), Ann("dict"), Ann("bytes"),
        [Ann("enum") EXCEPT !.values = <<A>>], Lit(<<A, One>>)}}
    \cup {Class("C", <<Field("x", of, TRUE)>>) : of \in {Ann("int"), Of("list", <<Ann("float")>>), Opt(Point), Point, Ann("any")}}
    \cup {Class("C", <<[Field("x", Ann("bytes"), FALSE) EXCEPT !.init = FALSE]>>),
          Class("D", <<Field("x", Ann("str"), FALSE), Field("y", Ann("bool"), TRUE)>>)}

Small == {V("null", ""), V("boolean", "true"), One, V("number", "1"), V("number", "1.5"), A, V("string", "z")}
MCAnswers ==
    Small \cup {OfX(v) : v \in Small} \cup {OfX(OfX(v)) : v \in {One, A, OfX(One)}}
    \cup {OfX(ListOf(<<v>>)) : v \in {OfX(One), One, A}}
    \cup {ListOf(<<>>), MapOf(<<>>), ListOf(<<One>>), OfX(ListOf(<<One, A>>)),
          MapOf(<<<<"x", A>>, <<"y", V("null", "")>>>>), MapOf(<<<<"y", V("null", "")>>, <<"x", A>>>>)}

ObjectOf(x, more) == MapOf(<<<<"type", V("string", "object")>>, <<"properties", OfX(x)>>>> \o more)
Needs == <<<<"required", ListOf(<<V("string", "x")>>)>>>>
Shut == <<<<"additionalProperties", V("boolean", "false")>>>>
Either(a, b) == <<"type", ListOf(<<V("string", a), V("string", b)>>)>>
ToNode == <<"$ref", [V("string", "#") EXCEPT !.keys = <<"$defs", "node">>]>>
MCRaw == {
    ObjectOf(OfType("integer"), Needs \o Shut), ObjectOf(OfType("integer"), <<>>), ObjectOf(OfType("string"), Needs),
    ObjectOf(OfType("integer"), <<<<"additionalProperties", V("boolean", "true")>>>>),
    MapOf(Needs \o Shut), ObjectOf(V("boolean", "false"), <<>>), ObjectOf(OfType("object"), Needs),
    MapOf(<<<<"type", V("string", "array")>>, <<"items", V("boolean", "false")>>>>),
    MapOf(<<<<"type", V("string", "array")>>, <<"items", OfType("number")>>>>),
    MapOf(<<<<"enum", ListOf(<<One, A>>)>>>>), MapOf(<<<<"const", V("number", "1")>>>>),
    MapOf(<<<<"const", MapOf(<<<<"x", A>>, <<"y", V("null", "")>>>>)>>>>),
    MapOf(<<<<"$defs", MapOf(<<<<"node", ObjectOf(MapOf(<<ToNode, Either("object", "integer")>>), Shut)>>>>)>>, ToNode>>),
    ObjectOf(MapOf(<<<<"anyOf", ListOf(<<ObjectOf(OfType("integer"), Needs), OfType("null")>>)>>>>), Needs),
    ObjectOf(MapOf(<<Either("object", "null"), <<"properties", OfX(OfType("integer"))>>>> \o Needs), Needs),
    ObjectOf(MapOf(<<<<"type", V("string", "number")>>, <<"maximum", One>>>>), Needs)}

Param(n, of, default, k) == [name |-> n, of |-> of, default |-> default, kind |-> k]
X(of, k) == Param("x", of, FALSE, k)
MCSignatures == {
    <<>>, <<X(Ann("int"), "plain")>>, <<X(Ann("int"), "positional")>>, <<X(Point, "plain")>>, <<X(Ann("missing"), "plain")>>,
    <<Param("x", Ann("str"), TRUE, "plain"), Param("y", Opt(Ann("str")), TRUE, "plain")>>,
    <<X(Ann("float"), "plain"), Param("k", Ann("any"), TRUE, "starstar")>>, <<Param("a", Ann("any"), TRUE, "star")>>}
Shaped == INSTANCE Schemas WITH
    Classes <- MCClasses, Raw <- MCRaw, Signatures <- MCSignatures, Answers <- MCAnswers, Repairs <- {0, 1},
    sent <- wired, prompt <- turns

\* Each provider does what its documents say: only Chat Completions sends two calls at once, and only
\* Anthropic goes on while a tool it hosts has not answered.
Spelled == INSTANCE StreamedCalls WITH
    Items <- {"a", "b"}, Hosting <- {"anthropic", "responses", "google"}, Interleaving <- {"completions"},
    Overlapping <- {"anthropic"}, WithoutIds <- {}, MaxFragments <- 2, calls <- spelled

Streamed == INSTANCE StreamedTurn WITH
    Backups <- 1, Strategies <- {"none", "post", "buffer", "parallel"}, Interval <- 2, seen <- given, report <- summary

scheduledVars == <<now, store, handlers, todo, busy, made, starts, ended, lost, cancelled>>
innerVars == <<backends, has, merged, keys, pool, clients, call>>
arguedVars == <<mode, stage, prompt, asking, texts, order, transcript, unreadable, agreedAt, report>>
producedVars == <<vendor, onDisk, reachable, closed, clock, produced, op, job, media, receipts, deleting, torn>>
admittedVars == <<via, rules, collision, approver, validate, tools, installed, searches, passing, scopes, events,
                  gate, yeses, ran, changes, calls, deaths>>
shapedVars == <<ask, wired, turns, rounds, answer, outcome>>
spelledVars == <<provider, kind, total, at, sent, parser, accum, spelled, hosted, ending>>
streamedVars == <<strategy, judgesInput, client, turn, said, text, checked, hold, out, pending, given, summary,
                  completions, failed>>
heardVars == <<spelledVars, streamedVars>>
helpingVars == <<scheduledVars, innerVars, arguedVars, producedVars, admittedVars, shapedVars>>
allVars == <<what, helpingVars, heardVars>>

HelpersInit ==
    /\ what \in {"scheduled", "inner", "argued", "produced", "admitted", "shaped", "spelled", "streamed"}
    /\ what = "argued" \/ mode = "threads"
    /\ what = "produced" \/ (vendor = "openai" /\ onDisk = FALSE /\ reachable = TRUE)
    /\ what = "admitted" \/ (via = "catalog" /\ rules = <<>>)
    /\ what = "shaped" \/ ask = [use |-> "tool", of |-> <<>>, api |-> "responses", own |-> "unset", validate |-> FALSE,
                                 repairs |-> 0, list |-> FALSE]
    /\ what = "spelled" \/ (provider = "google" /\ kind = [i \in {"a", "b"} |-> "tool"] /\ total = [i \in {"a", "b"} |-> 0])
    /\ what = "streamed" \/ (strategy = "none" /\ judgesInput = FALSE)
    /\ Init /\ Inner!Init /\ Argued!Init /\ Produced!Init /\ Admits!Init /\ Shaped!Init
    /\ Spelled!Init /\ Streamed!Init

HelpingNext ==
    \/ what = "scheduled" /\ Next /\ UNCHANGED <<innerVars, arguedVars, producedVars, admittedVars, shapedVars>>
    \/ what = "inner" /\ Inner!Next /\ UNCHANGED <<scheduledVars, arguedVars, producedVars, admittedVars, shapedVars>>
    \/ what = "argued" /\ Argued!Next /\ UNCHANGED <<scheduledVars, innerVars, producedVars, admittedVars, shapedVars>>
    \/ what = "produced" /\ Produced!Next /\ UNCHANGED <<scheduledVars, innerVars, arguedVars, admittedVars, shapedVars>>
    \/ what = "admitted" /\ Admits!Next /\ UNCHANGED <<scheduledVars, innerVars, arguedVars, producedVars, shapedVars>>
    \/ what = "shaped" /\ Shaped!Next /\ UNCHANGED <<scheduledVars, innerVars, arguedVars, producedVars, admittedVars>>

HeardNext ==
    \/ what = "spelled" /\ Spelled!Next /\ UNCHANGED streamedVars
    \/ what = "streamed" /\ Streamed!Next /\ UNCHANGED spelledVars

HelpersNext ==
    \/ HelpingNext /\ UNCHANGED <<what, heardVars>>
    \/ HeardNext /\ UNCHANGED <<what, helpingVars>>

\* Only the processes of the schedule are fair, which go on asking for what is due.
HelpersSpec ==
    HelpersInit /\ [][HelpersNext]_allVars /\ \A p \in Processes : WF_vars(what = "scheduled" /\ Loop(p))

\* The state of the one that the behaviour is keeps its type.
HelpersTypeOK ==
    /\ what = "scheduled" => TypeOK
    /\ what = "inner" => Inner!TypeOK
    /\ what = "argued" => Argued!TypeOK
    /\ what = "produced" => Produced!TypeOK
    /\ what = "admitted" => Admits!TypeOK
    /\ what = "shaped" => Shaped!TypeOK
    /\ what = "spelled" => Spelled!TypeOK
    /\ what = "streamed" => Streamed!TypeOK

\* A tool is run by the models of its chain in order, each on a client of its own, until one answers
\* (InternalToolRunner.run), in a debate every agent answers the whole of the round before, until
\* the judge agrees (consolidate), what was made is kept before it is told of, once
\* (MediaOutput._save), what runs is what was judged, within its caller's scope and no oftener
\* than a human said yes to it (_execute_one, ToolCatalog.call, ApprovalGate.check), and what comes back
\* in a shape is built, judged and asked for again by what the shape says (instantiate,
\* validate_json_schema, structured_complete); of a stream, a consumer is given each call once and with
\* its own arguments (accumulate_stream_event), and one model's answer, whole, in order, and no text
\* before the verdict on it where text is held for one (LLMClient.stream, _wrap_buffer, _wrap_parallel,
\* stream_with_fallback).
HelpersTrue ==
    /\ what = "inner" => Inner!ToolsTrue
    /\ what = "argued" => Argued!DebateTrue
    /\ what = "produced" => Produced!MediaTrue
    /\ what = "admitted" => Admits!AccessTrue
    /\ what = "shaped" => Shaped!SchemasTrue
    /\ what = "spelled" => Spelled!CallsTrue
    /\ what = "streamed" => Streamed!StreamedTrue
=============================================================================
