---------------------------- MODULE StreamedCalls ----------------------------
(***************************************************************************)
(* The calls a streamed answer spells out, from the provider's events to   *)
(* the step the agent acts on. Each provider has its parser, which carries *)
(* what one event needs of an earlier one (the stream registries under     *)
(* llm/providers); what they emit is folded into a step by agent/          *)
(* loop_stream.py. An item is a function call of the model's or a tool the *)
(* provider hosts, and its arguments come in fragments. The stream may     *)
(* break off anywhere, as one that simply ends.                            *)
(***************************************************************************)
EXTENDS Naturals, Sequences, FiniteSets, SequencesExt

CONSTANTS
    Items,          \* what the answer may hold
    Hosting,        \* the providers that host tools
    Interleaving,   \* the providers that may start an item before the last has ended
    Overlapping,    \* the providers that may go on while a hosted tool has not answered
    WithoutIds,     \* the providers whose function calls carry no id
    MaxFragments    \* bound: fragments of one item's arguments

VARIABLES
    provider,       \* whose stream it is
    kind, total,    \* each item: "tool" or "hosted", and the fragments of its arguments
    at, sent,       \* each item: how far the provider has got, and the fragments sent
    parser,         \* what the parser carries from one event to the next (out)
    accum, calls,   \* StepState.accum, in the order of the dict, and .tool_calls
    hosted,         \* the pairs told of hosted tools: whose output, with which input
    ending          \* "none", "whole" or "cut"

callVars == <<provider, kind, total, at, sent, parser, accum, calls, hosted, ending>>

Providers == {"anthropic", "completions", "responses", "google", "interactions"}
Streams(i) == provider \in {"anthropic", "completions", "responses", "interactions"} /\ kind[i] = "tool"
Whole(i) == [n \in 1 .. total[i] |-> <<i, n>>]
NoId == "none"
WireId(i) == IF provider \in WithoutIds THEN NoId ELSE i

Init ==
    /\ provider \in Providers
    /\ kind \in [Items -> {"tool", "hosted"}] /\ (provider \notin Hosting => kind = [i \in Items |-> "tool"])
    /\ total \in [Items -> 0 .. MaxFragments]
    /\ at = [i \in Items |-> "no"] /\ sent = [i \in Items |-> 0]
    /\ parser = [open |-> NoId, json |-> <<>>, pending |-> {}, ids |-> {}]
    /\ accum = <<>> /\ calls = <<>> /\ hosted = <<>> /\ ending = "none"

\* Unparseable arguments mark the call; blank ones are a call without arguments.
Malformed(args) == args # <<>> /\ \A i \in Items : args # Whole(i)
ParseAccum(entry) == [id |-> entry.id, args |-> entry.args, malformed |-> Malformed(entry.args)]

\* Fault: what carries no id belongs to the first call.
AccumForFirst(entries, id) ==
    LET own == {k \in DOMAIN entries : entries[k].id = id /\ id # NoId}
    IN  IF own # {} THEN CHOOSE k \in own : TRUE ELSE IF entries = <<>> THEN 0 ELSE 1

\* The entry with this id, and the most recently started one where there is none; 0 if none started.
AccumFor(entries, id) ==
    LET own == {k \in DOMAIN entries : entries[k].id = id /\ id # NoId}
    IN  IF own # {} THEN CHOOSE k \in own : TRUE ELSE Len(entries)

\* A start, a delta and an end, as accumulate_stream_event folds each into the step.
Started(step, e) ==
    LET old == {k \in DOMAIN step.accum : step.accum[k].id = e.id}
        entry == [id |-> e.id, args |-> <<>>]
    IN  IF old = {} THEN [step EXCEPT !.accum = Append(@, entry)]
        ELSE [step EXCEPT !.accum[CHOOSE k \in old : TRUE] = entry]

Extended(step, e) ==
    LET k == AccumFor(step.accum, e.id)
    IN  IF k = 0 THEN step ELSE [step EXCEPT !.accum[k].args = @ \o e.args]

\* An end that finds its call already handed over is not a second call.
Ended(step, e) ==
    LET k == AccumFor(step.accum, e.id)
    IN  IF k = 0 \/ \E c \in ToSet(step.calls) : c.id = step.accum[k].id THEN step
        ELSE [step EXCEPT !.calls = Append(@, ParseAccum(step.accum[k]))]

Accumulated(step, e) ==
    CASE e.type = "start" -> Started(step, e)
      [] e.type = "delta" -> Extended(step, e)
      [] e.type = "end" -> Ended(step, e)

Emit(events) ==
    LET step == FoldLeft(Accumulated, [accum |-> accum, calls |-> calls], events)
    IN  accum' = step.accum /\ calls' = step.calls

StartEvent(id) == <<[type |-> "start", id |-> id, args |-> <<>>]>>
DeltaEvent(id, args) == IF args = <<>> THEN <<>> ELSE <<[type |-> "delta", id |-> id, args |-> args]>>
EndEvent(id) == <<[type |-> "end", id |-> id, args |-> <<>>]>>

\* Fault: only what was ended is handed over.
FinalizedEnded(step) == step.calls

\* The calls that never got their end are handed over when the answer is.
Finalized(step) ==
    LET open == SelectSeq(step.accum, LAMBDA entry : \A c \in ToSet(step.calls) : c.id # entry.id)
    IN  step.calls \o [k \in DOMAIN open |-> ParseAccum(open[k])]

-----------------------------------------------------------------------------
\* The provider's side: what it may send next.
Begins(i) ==
    /\ ending = "none" /\ at[i] = "no"
    /\ provider \in Interleaving \/ \A j \in Items : at[j] # "open"
    /\ provider \in Overlapping \/ \A j \in Items : at[j] # "held"
    /\ UNCHANGED <<provider, kind, total, ending>>

Goes(i, from) ==
    /\ ending = "none" /\ at[i] = from
    /\ UNCHANGED <<provider, kind, total, ending>>

Fragment(i) == <<<<i, sent[i] + 1>>>>

\* The id that is forwarded for an index: the first one seen, made up if there was none.
IdOf(i) == (CHOOSE pair \in parser.ids : pair[1] = i)[2]

\* A function call is announced: a block starts (_block_start),
AnthropicStarts(i) ==
    /\ parser' = [parser EXCEPT !.open = NoId]
    /\ Emit(StartEvent(WireId(i)))
    /\ at' = [at EXCEPT ![i] = "open"] /\ UNCHANGED sent
\* a call of Chat Completions is one more index, whose id is kept or made up (_tool_calls),
CompletionsStarts(i) ==
    /\ parser' = [parser EXCEPT !.ids = @ \cup {<<i, i>>}]
    /\ \E n \in {0, 1} : /\ n <= total[i]
                         /\ Emit(StartEvent(i) \o DeltaEvent(i, SubSeq(Whole(i), 1, n)))
                         /\ sent' = [sent EXCEPT ![i] = n]
    /\ at' = [at EXCEPT ![i] = "open"]
\* an item is added (_item_added),
ResponsesAdded(i) ==
    /\ Emit(StartEvent(WireId(i)))
    /\ at' = [at EXCEPT ![i] = "open"] /\ UNCHANGED <<parser, sent>>
\* the whole call comes at once (_tool_call),
GoogleCalls(i) ==
    /\ Emit(StartEvent(WireId(i)) \o DeltaEvent(WireId(i), Whole(i)) \o EndEvent(WireId(i)))
    /\ at' = [at EXCEPT ![i] = "done"] /\ UNCHANGED <<parser, sent>>
\* or a step starts, with its arguments in it or to come (_step_start).
InteractionsStarts(i) ==
    /\ parser' = [parser EXCEPT !.open = WireId(i)]
    /\ \E inline \in BOOLEAN :
          /\ Emit(StartEvent(WireId(i)) \o IF inline THEN DeltaEvent(WireId(i), Whole(i)) ELSE <<>>)
          /\ sent' = [sent EXCEPT ![i] = IF inline THEN total[i] ELSE 0]
    /\ at' = [at EXCEPT ![i] = "open"]

Announce(i) ==
    /\ Begins(i) /\ kind[i] = "tool"
    /\ \/ provider = "anthropic" /\ AnthropicStarts(i)
       \/ provider = "completions" /\ CompletionsStarts(i)
       \/ provider = "responses" /\ ResponsesAdded(i)
       \/ provider = "google" /\ GoogleCalls(i)
       \/ provider = "interactions" /\ InteractionsStarts(i)
    /\ UNCHANGED hosted

\* Fault: the parser does not look whether a hosted tool is open.
ForToolAlways == TRUE

\* A fragment feeds the open hosted tool or is a function call's (_json_delta).
ForTool == parser.open = NoId

\* A fragment of a function call's arguments. Only Chat Completions and Interactions know whose it is.
SendFragment(i) ==
    /\ Goes(i, "open") /\ sent[i] < total[i] /\ Streams(i)
    /\ sent' = [sent EXCEPT ![i] = @ + 1]
    /\ \/ provider = "anthropic" /\ ForTool /\ Emit(DeltaEvent(NoId, Fragment(i))) /\ UNCHANGED parser
       \/ provider = "completions" /\ Emit(DeltaEvent(IdOf(i), Fragment(i))) /\ UNCHANGED parser
       \/ provider = "responses" /\ Emit(DeltaEvent(NoId, Fragment(i))) /\ UNCHANGED parser
       \/ provider = "interactions" /\ Emit(DeltaEvent(parser.open, Fragment(i))) /\ UNCHANGED parser
    /\ UNCHANGED <<at, hosted>>

\* The call ends. Chat Completions and Anthropic say nothing of it, Responses does (_item_done), and
\* Interactions may.
CloseOpenCall(i) ==
    /\ Emit(IF parser.open = NoId THEN <<>> ELSE EndEvent(parser.open))
    /\ parser' = [parser EXCEPT !.open = NoId]
ItemDone(i) == Emit(EndEvent(WireId(i))) /\ UNCHANGED parser
Close(i) ==
    /\ Goes(i, "open") /\ sent[i] = total[i] /\ Streams(i)
    /\ at' = [at EXCEPT ![i] = "done"]
    /\ \/ provider \in {"anthropic", "completions", "interactions"} /\ UNCHANGED <<parser, accum, calls>>
       \/ provider = "responses" /\ ItemDone(i)
       \/ provider = "interactions" /\ CloseOpenCall(i)
    /\ UNCHANGED <<sent, hosted>>

\* A hosted tool starts: Anthropic's input is still to come, the others' code is here or comes with the item.
BeginHosted(i) ==
    /\ Begins(i) /\ kind[i] = "hosted"
    /\ at' = [at EXCEPT ![i] = "open"]
    /\ parser' = CASE provider = "anthropic" -> [parser EXCEPT !.open = i, !.json = <<>>]
                   [] provider = "google" -> [parser EXCEPT !.open = i]
                   [] OTHER -> parser
    /\ UNCHANGED <<sent, accum, calls, hosted>>

FeedHosted(i) ==
    /\ Goes(i, "open") /\ kind[i] = "hosted" /\ provider = "anthropic" /\ sent[i] < total[i]
    /\ sent' = [sent EXCEPT ![i] = @ + 1]
    /\ IF ForTool THEN Emit(DeltaEvent(NoId, Fragment(i))) /\ UNCHANGED parser
       ELSE parser' = [parser EXCEPT !.json = @ \o Fragment(i)] /\ UNCHANGED <<accum, calls>>
    /\ UNCHANGED <<at, hosted>>

\* The block closes and its input is filed by id (_block_stop), or the shell call is held for its output
\* (_item_done).
BlockStop(i) ==
    /\ sent[i] = total[i]
    /\ parser' = IF ForTool THEN parser
                 ELSE [parser EXCEPT !.open = NoId, !.pending = @ \cup {<<parser.open, parser.json>>}]
StopHosted(i) ==
    /\ Goes(i, "open") /\ kind[i] = "hosted"
    /\ at' = [at EXCEPT ![i] = "held"]
    /\ \/ provider = "anthropic" /\ BlockStop(i)
       \/ provider = "responses" /\ parser' = [parser EXCEPT !.open = i]
       \/ provider = "google" /\ UNCHANGED parser
    /\ UNCHANGED <<sent, accum, calls, hosted>>

\* Anthropic's result names its call; a shell's output and Google's result are the held call's.
Filed(i) == {pair \in parser.pending : pair[1] = i}
InputFiled(i) == IF Filed(i) = {} THEN <<>> ELSE (CHOOSE pair \in Filed(i) : TRUE)[2]
InputHeld(i) == IF parser.open = NoId THEN <<>> ELSE Whole(parser.open)
Result(i) ==
    /\ Goes(i, "held")
    /\ at' = [at EXCEPT ![i] = "done"]
    /\ hosted' = Append(hosted, [of |-> i, input |-> IF provider = "anthropic" THEN InputFiled(i) ELSE InputHeld(i)])
    /\ parser' = IF provider = "anthropic" THEN [parser EXCEPT !.pending = @ \ Filed(i)]
                 ELSE [parser EXCEPT !.open = NoId]
    /\ UNCHANGED <<sent, accum, calls>>

\* The step is built from what was folded, after the end of the call that Interactions left open (_completed).
Finish(how) ==
    /\ ending = "none" /\ ending' = how
    /\ LET left == IF provider = "interactions" /\ parser.open # NoId THEN EndEvent(parser.open) ELSE <<>>
       IN  calls' = Finalized(FoldLeft(Accumulated, [accum |-> accum, calls |-> calls], left))
    /\ UNCHANGED <<provider, kind, total, at, sent, parser, accum, hosted>>

Complete == (\A i \in Items : at[i] \in {"no", "done"}) /\ Finish("whole")

\* The answer stops anywhere: its tokens have run out, or the connection has ended between two events.
Cut == Finish("cut")

Next ==
    \/ \E i \in Items : \/ Announce(i) \/ SendFragment(i) \/ Close(i)
                        \/ BeginHosted(i) \/ FeedHosted(i) \/ StopHosted(i) \/ Result(i)
    \/ Complete \/ Cut

Spec == Init /\ [][Next]_callVars

Fragments == Items \X (1 .. MaxFragments)
Ids == Items \cup {NoId}

TypeOK ==
    /\ provider \in Providers /\ ending \in {"none", "whole", "cut"}
    /\ at \in [Items -> {"no", "open", "held", "done"}] /\ \A i \in Items : sent[i] <= total[i]
    /\ parser.open \in Ids /\ parser.json \in Seq(Fragments)
    /\ \A e \in ToSet(accum) \cup ToSet(calls) : e.id \in Ids /\ e.args \in Seq(Fragments)

-----------------------------------------------------------------------------
Calls == ToSet(calls)
Tools == {i \in Items : kind[i] = "tool" /\ at[i] = "done"}

\* The step holds each call the model made, once, with the arguments of that call and no
\* other, and a call that was cut is marked unless nothing of its arguments had come
\* (accumulate_stream_event, finalize_unended_tool_calls); and what a hosted tool is said
\* to have run is what it ran (_block_stop, _item_done, _code_exec).
CallsTrue ==
    /\ Cardinality({c.id : c \in Calls}) = Len(calls)
    /\ \A c \in Calls : c.malformed \/ c.args = <<>> \/ c.args = Whole(c.id)
    /\ ending = "whole" => Calls = {[id |-> i, args |-> Whole(i), malformed |-> FALSE] : i \in Tools}
    /\ \A h \in ToSet(hosted) : h.input = Whole(h.of)
=============================================================================
