------------------------------ MODULE Messages ------------------------------
(***************************************************************************)
(* A conversation with tools, and what each of five surfaces is sent of    *)
(* it.  The transcript is kept in one neutral shape, by the loop that      *)
(* complete(tools=...) owns (helpers/agent_loop.py, and AgentLoop alike)   *)
(* or by the caller (Completion.assistant_message), may be carried from    *)
(* one client to another, and is spelled anew for each request             *)
(* (llm/wire_transforms.py, the five adapters).  Parts are known by their  *)
(* place in the transcript, a result by its call.                          *)
(***************************************************************************)
EXTENDS Naturals, Sequences, SequencesExt, FiniteSets

CONSTANTS
    Surfaces,   \* apis that clients are for
    Openings,   \* what users say: sequences of parts
    Shapes,     \* what models answer: sequences of kinds
    Yields,     \* what tools return: sequences of parts
    MaxTurns, MaxSteps  \* bounds: messages of a transcript that a request is made of, and the loop's max_steps

VARIABLES
    keeper,     \* who keeps the transcript: "loop" or "caller"
    surface,    \* the client's api
    transcript, \* of [role, parts, by, signed, state]
    names,      \* the adapter's tool_call_names, as pairs
    heard,      \* history: the calls that this adapter has sent or been answered
    request,    \* the one that is out
    stage, steps,
    yielded     \* the round's results so far

messageVars == <<keeper, surface, transcript, names, heard, request, stage, steps, yielded>>

-----------------------------------------------------------------------------
Part(kind, form) == [kind |-> kind, form |-> form, id |-> <<>>, name |-> "", of |-> <<>>]
Media == {"image", "document", "audio", "video"}
Sources == {"base64", "url", "provider_ref", "file"}
AllSurfaces == {"messages", "completions", "responses", "generate", "interactions"}
Provider(s) == CASE s = "messages" -> "anthropic" [] s \in {"completions", "responses"} -> "openai" [] OTHER -> "google"
Stateful(s) == s \in {"responses", "interactions"}

OfKind(parts, kinds) == SelectSeq(parts, LAMBDA p : p.kind \in kinds)
Calls(parts) == OfKind(parts, {"tool_call"})
Spoken(role, parts) == [role |-> role, parts |-> parts, by |-> "", signed |-> FALSE, state |-> FALSE]
\* Parts get their place in the transcript; a result keeps its call's id and what it holds gets places.
Placed(parts, m) == [i \in DOMAIN parts |-> [parts[i] EXCEPT !.id = <<m, i>>]]

-----------------------------------------------------------------------------
\* A request is the sequence of what the provider reads: whose turn it is in, what it is, which part.

Token(turn, as, p) == [turn |-> turn, as |-> as, id |-> p.id, name |-> p.name]
Hollow(turn) == <<[turn |-> turn, as |-> "empty", id |-> <<>>, name |-> ""]>>
Each(parts, Spell(_)) == FlattenSeq([i \in DOMAIN parts |-> Spell(parts[i])])

\* Forms that a surface has, of each kind and source.
Forms ==
    [messages |-> {"image", "document"} \X Sources,
     completions |-> {<<"image", "base64">>, <<"image", "url">>, <<"audio", "base64">>,
                      <<"document", "base64">>, <<"document", "provider_ref">>},
     responses |-> {"image", "document"} \X {"base64", "url", "provider_ref"},
     generate |-> Media \X Sources,
     interactions |-> {<<"image", "base64">>, <<"image", "url">>, <<"audio", "base64">>, <<"video", "url">>}]
Carries(s, p) == <<p.kind, p.form>> \in Forms[s]
\* An image without a form is sent with an empty url, or not at all.
Unnoticed(s, p) == p.kind = "image" /\ s \in {"completions", "interactions"}

\* One part of a turn: as what it is, as a placeholder, or not at all.
Content(s, turn, p) ==
    CASE p.kind = "text" -> <<Token(turn, "text", p)>>
      [] Carries(s, p) -> <<Token(turn, p.kind, p)>>
      [] ~Carries(s, p) /\ s \in {"messages", "completions"} ->
            <<Token(turn, IF Unnoticed(s, p) THEN "hollow" ELSE "placeholder", p)>>
      [] OTHER -> <<>>
\* A mapping without a type is replaced, or left out, and not told of.
Noted(s, parts) ==
    {p.kind : p \in {q \in ToSet(parts) : q.kind \notin {"text", "row"} /\ ~Carries(s, q) /\ ~Unnoticed(s, q)
                                          /\ ~(s = "responses" /\ q.kind = "configuration_update")}}

\* split_tool_result
TextHalf(p) == OfKind(p.of, {"text", "row", "bare"})
MediaHalf(p) == OfKind(p.of, Media)

CallName(called, id) == IF \E n \in called : n[1] = id THEN (CHOOSE n \in called : n[1] = id)[2] ELSE ""
Result(p, name, held) == <<[turn |-> "tool", as |-> "result", id |-> p.id, name |-> name]>> \o held
Texts(turn, parts) == Each(parts, LAMBDA p : <<Token(turn, p.kind, p)>>)

\* AnthropicAdapter.build_message
MessagesTurn(m) ==
    LET turn == IF m.role = "assistant" THEN "model" ELSE "user"
        Spell(p) ==
            CASE p.kind = "tool_call" -> <<Token(turn, "call", p)>>
              [] p.kind = "tool_result" -> Result(p, "", Each(p.of, LAMBDA q : Content("messages", "tool", q)))
              [] OTHER -> Content("messages", turn, p)
    IN  IF m.parts = <<>> THEN Hollow(turn) ELSE Each(m.parts, Spell)

\* What is heard comes last.
HeardLast(turn, parts) ==
    LET built == Each(parts, LAMBDA p : Content("completions", turn, p))
    IN  SelectSeq(built, LAMBDA t : t.as # "audio") \o SelectSeq(built, LAMBDA t : t.as = "audio")

\* Fault: what a tool shows follows its own result.
ShownAtOnce(m) ==
    Each(m.parts, LAMBDA p : Result(p, "", Texts("tool", TextHalf(p))) \o HeardLast("user", MediaHalf(p)))

\* A tool's message has text and nothing else: the rest follows, after every result.
ToolMessages(m) ==
    Each(m.parts, LAMBDA p : Result(p, "", Texts("tool", TextHalf(p))))
    \o HeardLast("user", FlattenSeq([i \in DOMAIN m.parts |-> MediaHalf(m.parts[i])]))

\* OpenAIAdapter.build_messages
CompletionsTurn(m) ==
    LET turn == IF m.role = "assistant" THEN "model" ELSE "user"
    IN  CASE m.role = "tool" -> ToolMessages(m)
          [] m.role = "assistant" /\ Calls(m.parts) # <<>> ->
                Texts(turn, OfKind(m.parts, {"text"})) \o Each(Calls(m.parts), LAMBDA p : <<Token(turn, "call", p)>>)
          [] OTHER -> IF m.parts = <<>> THEN Hollow(turn) ELSE HeardLast(turn, m.parts)

\* OpenAIResponsesAdapter.build_input_items: each kind in a pass of its own, a program with the items it is bound to.
ResponsesTurn(m, called) ==
    Each(OfKind(m.parts, {"configuration_update"}), LAMBDA p : <<Token("user", "configuration", p)>>)
    \o CASE m.role = "assistant" ->
               Texts("model", OfKind(m.parts, {"text"}))
               \o Each(OfKind(m.parts, {"program_call"}), LAMBDA p : <<Token("model", "bound", p), Token("model", "program", p)>>)
               \o Each(Calls(m.parts), LAMBDA p : <<Token("model", "call", p)>>)
               \o Each(OfKind(m.parts, {"program_result"}), LAMBDA p : <<Token("model", "program_output", p)>>)
         [] m.role = "tool" ->
               Each(m.parts, LAMBDA p : Result(p, CallName(called, p.id), Each(p.of, LAMBDA q : Content("responses", "tool", q))))
         [] OTHER -> Each(m.parts, LAMBDA p : Content("responses", "user", p))

\* GoogleAdapter.build_content; a function's response takes bytes and nothing else.
Inline(p) == p.form = "base64"
GenerateTurn(m, called) ==
    LET turn == IF m.role = "assistant" THEN "model" ELSE "user"
        Shown(q) == <<Token("tool", IF Inline(q) THEN q.kind ELSE "mention", q)>>
        Spell(p) ==
            CASE p.kind = "tool_call" -> <<Token(turn, "call", p)>> \o IF p.form = "signed" THEN <<Token(turn, "signature", p)>> ELSE <<>>
              [] p.kind = "tool_result" ->
                    Result(p, CallName(called, p.id), Texts("tool", TextHalf(p)) \o Each(MediaHalf(p), Shown))
              [] OTHER -> Content("generate", turn, p)
        all == Each(m.parts, Spell)
    IN  IF all = <<>> THEN Hollow(turn) ELSE all

\* GoogleInteractionsAdapter.build_input_items
InteractionsTurn(m, called) ==
    CASE m.role = "assistant" ->
            (IF m.signed /\ m.by = "google" THEN <<[turn |-> "model", as |-> "signature", id |-> <<>>, name |-> m.by]>> ELSE <<>>)
            \o Each(OfKind(m.parts, {"text", "tool_call"}),
                    LAMBDA p : <<Token("model", IF p.kind = "text" THEN "text" ELSE "call", p)>>)
      [] m.role = "tool" ->
            Each(m.parts, LAMBDA p : Result(p, CallName(called, p.id), Texts("tool", TextHalf(p))))
            \o Each(m.parts, LAMBDA p : Each(MediaHalf(p), LAMBDA q : Content("interactions", "user", q)))
      [] OTHER -> Each(m.parts, LAMBDA p : Content("interactions", "user", p))

CallsOf(ms) == UNION {{<<p.id, p.name>> : p \in ToSet(Calls(m.parts))} : m \in ToSet(ms)}
\* Names of calls are remembered across the messages of a request, by Google's adapters across requests.
Known(s, ms) == CallsOf(ms) \cup (IF Provider(s) = "google" THEN names ELSE {})
\* Fault: every message has a map of its own.
KnownAt(s, ms, i) == CallsOf(<<ms[i]>>)
KnownFor(s, ms, i) == Known(s, ms)

Spelt(s, ms) ==
    FlattenSeq([i \in DOMAIN ms |->
        CASE s = "messages" -> MessagesTurn(ms[i])
          [] s = "completions" -> CompletionsTurn(ms[i])
          [] s = "responses" -> ResponsesTurn(ms[i], KnownFor(s, ms, i))
          [] s = "generate" -> GenerateTurn(ms[i], KnownFor(s, ms, i))
          [] s = "interactions" -> InteractionsTurn(ms[i], KnownFor(s, ms, i))])

\* What is told of: parts of users' turns, of what tools show where it is looked at, and of an answer where parts
\* are taken one by one.
Lost(s, m) ==
    CASE m.role = "tool" ->
            UNION {IF s = "responses" THEN {}
                   ELSE IF s = "messages" THEN Noted(s, p.of)
                   ELSE IF s = "generate" THEN {q.kind : q \in {r \in ToSet(MediaHalf(p)) : ~Inline(r)}}
                   ELSE Noted(s, MediaHalf(p)) : p \in ToSet(m.parts)}
      [] m.role = "assistant" ->
            IF s \in {"responses", "interactions"} \/ (s = "completions" /\ Calls(m.parts) # <<>>) THEN {}
            ELSE Noted(s, SelectSeq(m.parts, LAMBDA p : p.kind # "tool_call"))
      [] OTHER -> Noted(s, m.parts)

-----------------------------------------------------------------------------
Unsent == [tokens |-> <<>>, notes |-> {}, sent |-> <<>>, onId |-> FALSE]

Init ==
    /\ keeper \in {"loop", "caller"} /\ surface \in Surfaces
    /\ transcript = <<>> /\ names = {} /\ heard = {} /\ request = Unsent
    /\ stage = "ready" /\ steps = 0 /\ yielded = <<>>

Says(parts) ==
    /\ stage = "ready" /\ Len(transcript) < MaxTurns
    /\ IF transcript = <<>> THEN TRUE ELSE keeper = "caller" /\ Last(transcript).role = "assistant"
    /\ transcript' = Append(transcript, Spoken("user", Placed(parts, Len(transcript) + 1)))
    /\ UNCHANGED <<keeper, surface, names, heard, request, stage, steps, yielded>>

\* The next request is another client's: one of a fallback chain, or one that complete() made.
NewClient(s) ==
    /\ stage = "ready" /\ transcript # <<>>
    /\ surface' = s /\ names' = {} /\ heard' = {}
    /\ UNCHANGED <<keeper, transcript, request, stage, steps, yielded>>

\* resolve_server_state, of ids that have not expired: the turns after the last one that has an id.
Stated == {i \in DOMAIN transcript : transcript[i].role = "assistant" /\ transcript[i].state}
LastStated == CHOOSE i \in Stated : \A j \in Stated : j <= i
Continues ==
    /\ Stated # {} /\ transcript[LastStated].by = Provider(surface) /\ LastStated < Len(transcript)

ToSend == IF Continues THEN SubSeq(transcript, LastStated + 1, Len(transcript)) ELSE transcript

\* A list of strings for a result raises where its items are taken for parts.
Unbuildable(ms) ==
    surface \in {"messages", "responses"}
    /\ \E m \in ToSet(ms) : m.role = "tool" /\ \E p \in ToSet(m.parts) : OfKind(p.of, {"bare"}) # <<>>
Raises ==
    /\ stage = "ready" /\ transcript # <<>> /\ Unbuildable(ToSend) /\ stage' = "failed"
    /\ UNCHANGED <<keeper, surface, transcript, names, heard, request, steps, yielded>>

\* Only two surfaces have a field for the id.
Sends ==
    /\ stage = "ready" /\ transcript # <<>> /\ Last(transcript).role # "assistant" /\ Len(transcript) <= MaxTurns
    /\ ~Unbuildable(ToSend)
    /\ LET sent == ToSend
       IN  /\ request' = [tokens |-> Spelt(surface, sent), notes |-> UNION {Lost(surface, m) : m \in ToSet(sent)},
                          sent |-> sent, onId |-> Continues /\ Stateful(surface)]
           /\ names' = IF Provider(surface) = "google" THEN Known(surface, sent) ELSE names
           /\ heard' = heard \cup CallsOf(sent)
    /\ stage' = "asked" /\ steps' = steps + 1
    /\ UNCHANGED <<keeper, surface, transcript, yielded>>

Answered(shape, signed) ==
    LET m == Len(transcript) + 1
    IN  [i \in DOMAIN shape |->
            [Part(shape[i], IF shape[i] = "image" THEN "base64" ELSE IF signed /\ shape[i] = "tool_call" THEN "signed" ELSE "")
                EXCEPT !.id = <<m, i>>, !.name = CASE shape[i] # "tool_call" -> "" [] i % 2 = 1 -> "f" [] OTHER -> "g"]]

\* What the loop keeps of an answer: its words and its calls (_assistant_turn).
LoopsTurn(parts) == Spoken("assistant", OfKind(parts, {"text"}) \o Calls(parts))
\* And the caller: all of it, who made it, and where it can be continued (build_assistant_message).
CallersTurn(parts, signed) ==
    [role |-> "assistant", parts |-> parts, by |-> Provider(surface),
     signed |-> signed /\ surface = "interactions", state |-> Stateful(surface)]

\* An answer, whole. Interactions' parser remembers what it calls; an answer without calls ends the loop.
Answers(shape, signed) ==
    LET parts == Answered(shape, signed /\ surface = "generate")
        calls == CallsOf(<<Spoken("assistant", parts)>>)
    IN  /\ stage = "asked" /\ (signed => Provider(surface) = "google")
        /\ "program_call" \in ToSet(shape) => surface = "responses"
        /\ names' = IF surface = "interactions" THEN names \cup calls ELSE names
        /\ heard' = heard \cup calls /\ yielded' = <<>>
        /\ transcript' = IF keeper = "caller" THEN Append(transcript, CallersTurn(parts, signed))
                         ELSE IF calls # {} THEN Append(transcript, LoopsTurn(parts)) ELSE transcript
        /\ stage' = IF calls # {} THEN "running" ELSE IF keeper = "loop" THEN "done" ELSE "ready"
        /\ steps' = IF calls # {} THEN steps ELSE 0
        /\ request' = Unsent
        /\ UNCHANGED <<keeper, surface>>

\* The calls of a round run on threads, and end in any order.
Open == {p.id : p \in ToSet(Calls(Last(transcript).parts))} \ {yielded[i].id : i \in DOMAIN yielded}
Ends(id, parts) ==
    /\ stage = "running" /\ id \in Open
    /\ yielded' = Append(yielded, [Part("tool_result", "") EXCEPT
                     !.id = id, !.of = [i \in DOMAIN parts |-> [parts[i] EXCEPT !.id = id \o <<i>>]]])
    /\ UNCHANGED <<keeper, surface, transcript, names, heard, request, stage, steps>>

\* Fault: as they came in.
AsTheyCame(calls) == yielded
\* The results in the order of their calls (pool.map).
InOrder(calls) == [i \in DOMAIN calls |-> CHOOSE r \in ToSet(yielded) : r.id = calls[i].id]

\* One message for the round. The loop's ceiling is on the model's turns.
Returns ==
    /\ stage = "running" /\ Open = {}
    /\ transcript' = Append(transcript, Spoken("tool", InOrder(Calls(Last(transcript).parts))))
    /\ stage' = IF keeper = "loop" /\ steps = MaxSteps THEN "limit" ELSE "ready"
    /\ yielded' = <<>>
    /\ UNCHANGED <<keeper, surface, names, heard, request, steps>>

Next ==
    \/ \E parts \in Openings : Says(parts)
    \/ \E s \in Surfaces : NewClient(s)
    \/ Sends \/ Raises
    \/ \E shape \in Shapes, signed \in BOOLEAN : Answers(shape, signed)
    \/ \E parts \in Yields, id \in (1 .. MaxTurns + 1) \X (1 .. 4) : Ends(id, parts)
    \/ Returns

Spec == Init /\ [][Next]_messageVars

-----------------------------------------------------------------------------
\* Properties. Of the request that is out; its tokens are at their places.

Kinds == Media \cup {"text", "row", "bare", "tool_call", "tool_result", "program_call", "program_result", "configuration_update"}
TypeOK ==
    /\ keeper \in {"loop", "caller"} /\ surface \in Surfaces /\ Surfaces \subseteq AllSurfaces
    /\ \A m \in ToSet(transcript) :
          m.role \in {"user", "assistant", "tool"} /\ {p.kind : p \in ToSet(m.parts)} \subseteq Kinds
    /\ {t.turn : t \in ToSet(request.tokens)} \subseteq {"user", "model", "tool"}
    /\ request.notes \subseteq Kinds /\ names \subseteq heard
    /\ stage \in {"ready", "asked", "running", "done", "limit", "failed"} /\ steps \in 0 .. MaxTurns

Out == stage = "asked"
Tokens == request.tokens
Ids(tokens) == [i \in DOMAIN tokens |-> tokens[i].id]
TextsOf(m) ==
    IF m.role = "tool" THEN FlattenSeq([i \in DOMAIN m.parts |-> OfKind(m.parts[i].of, {"text"})])
    ELSE OfKind(m.parts, {"text"})

\* The words of the turns that are sent, the tools' among them, are all in the request, once and in their
\* order, whatever else a turn is taken apart into (build_message, build_messages, build_input_items,
\* build_content).
WordsKept ==
    Out => Ids(SelectSeq(Tokens, LAMBDA t : t.as = "text"))
           = Ids(FlattenSeq([i \in DOMAIN request.sent |-> TextsOf(request.sent[i])]))

\* Each call that is in a request has one result there, of its id, after it and before anything that a
\* user says, though what the tools show follows as a user's; the results are in the order of the
\* calls, however the tools ended (_dispatch_sync, OpenAIAdapter.build_messages).
CallsAnswered ==
    Out =>
        LET calls == SelectSeq(Tokens, LAMBDA t : t.as = "call")
            results == SelectSeq(Tokens, LAMBDA t : t.as = "result")
            called == ToSet(Ids(calls))
        IN  /\ Ids(calls) = SelectSeq(Ids(results), LAMBDA id : id \in called)
            /\ \A i, j, k \in DOMAIN Tokens :
                  Tokens[i].as = "call" /\ Tokens[k].as = "result" /\ Tokens[i].id = Tokens[k].id /\ i < j /\ j < k =>
                      Tokens[j].turn # "user"

Shown(m) ==
    IF m.role = "tool" THEN UNION {ToSet(MediaHalf(p)) : p \in ToSet(m.parts)}
    ELSE {p \in ToSet(m.parts) : p.kind \in Media}

\* What a user or a tool shows is in the request as what it is, or the caller is told that it is not
\* (note_dropped, note_replaced).
ToldOfLoss ==
    Out => \A m \in ToSet(request.sent) : \A p \in Shown(m) :
        \/ m.role = "assistant" \/ (m.role = "tool" /\ surface = "responses") \/ Unnoticed(surface, p)
        \/ p.kind \in request.notes
        \/ \E t \in ToSet(Tokens) : t.as = p.kind /\ t.id = p.id

\* A result goes back under the name of its call and no other, wherever this request or this adapter has had
\* the call (tool_call_names, openai_responses_input).
NamedRight ==
    Out => \A t \in ToSet(Tokens) :
        t.as = "result" /\ surface \in {"responses", "generate", "interactions"} =>
            LET had == CallsOf(request.sent) \cup IF surface = "interactions" THEN heard ELSE {}
            IN  (\E n \in had : n[1] = t.id) => <<t.id, t.name>> \in had

\* What Google signed goes back beside what it signed: a call's token after the call, and a turn's steps
\* before its words (build_content, build_input_items).
SignedBack ==
    Out /\ Provider(surface) = "google" =>
        /\ surface = "interactions" =>
              Len(SelectSeq(Tokens, LAMBDA t : t.as = "signature")) = Cardinality({i \in DOMAIN request.sent : request.sent[i].signed})
        /\ surface = "generate" => \A m \in ToSet(request.sent) : \A p \in ToSet(Calls(m.parts)) : p.form = "signed" =>
              \E i \in DOMAIN Tokens : i > 1 /\ Tokens[i].as = "signature" /\ Tokens[i].id = p.id /\ Tokens[i - 1].as = "call"

MessagesTrue == WordsKept /\ CallsAnswered /\ ToldOfLoss /\ NamedRight /\ SignedBack

-----------------------------------------------------------------------------
\* Checked by a run, and refuted: when the history is not continued on the server it is sent whole, which is
\* "always correct" (resolve_server_state). It is cut wherever the provider and the model can continue,
\* though the client's api has no field for the id.
WholeOrContinued == Out => request.onId \/ request.sent = transcript

\* Stated and refuted by TLC: what a tool returned reaches the model "looking odd" rather than vanish
\* (split_tool_result). Where results are not split, mappings that are not parts are left out or replaced
\* without a word, and strings raise.
ResultsReach ==
    Out => \A m \in ToSet(request.sent) : \A p \in ToSet(m.parts) : \A q \in ToSet(OfKind(p.of, {"row"})) :
        \E t \in ToSet(Tokens) : t.id = q.id /\ t.as # "placeholder"
AlwaysBuilt == stage # "failed"

\* Stated and refuted by TLC: every part that is dropped is told of. An image by reference is sent to
\* Completions as an empty url and to Interactions not at all, and what a tool shows is dropped for Responses
\* without a note.
ImagesTold ==
    Out => \A m \in ToSet(request.sent) : \A p \in Shown(m) : m.role = "user" =>
        p.kind \in request.notes \/ \E t \in ToSet(Tokens) : t.as = p.kind /\ t.id = p.id
ResultMediaTold ==
    Out /\ surface = "responses" => \A m \in ToSet(request.sent) : \A p \in Shown(m) : m.role = "tool" =>
        p.kind \in request.notes \/ \E t \in ToSet(Tokens) : t.as = p.kind /\ t.id = p.id

\* Stated and refuted by TLC: a function's result is always named. A new client that continues on the server
\* has not had the call.
AlwaysNamed ==
    Out /\ Provider(surface) = "google" => \A t \in ToSet(Tokens) : t.as = "result" => t.name # ""

\* Stated and refuted by TLC: tool turns of the loop are those of build_assistant_message, which is "shared by ...
\* the agent loop". The loop keeps words and calls, and drops programs, signed steps and who answered.
WhoseIsKept == \A m \in ToSet(transcript) : m.role = "assistant" => m.by # ""

\* Stated and refuted by TLC: no empty turn is sent. Messages, Completions and generateContent send them.
NothingEmpty == \A t \in ToSet(Tokens) : t.as # "empty"

\* Stated and refuted by TLC: what tools did is seen by the model. The last round before the ceiling is run, and
\* its results are thrown away with the transcript.
RoundsAreSeen == stage = "limit" => Last(transcript).role # "tool"
=============================================================================
