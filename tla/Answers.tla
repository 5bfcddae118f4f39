------------------------------- MODULE Answers -------------------------------
(***************************************************************************)
(* What a provider answers, read in two ways. A body that comes whole is   *)
(* made a response by build_response, with a response spec of wire/specs   *)
(* and the registry beside its adapter; a stream is parsed a frame at a    *)
(* time (create_stream_builder, a stream spec and its registry), and what  *)
(* it adds up to is made a response by StreamAccumulator. The provider     *)
(* says its items in any order that makes sense; item i's content is i,    *)
(* and its text comes as the fragments <<i, 1>> and <<i, 2>>.              *)
(***************************************************************************)
EXTENDS Naturals, Sequences, FiniteSets, FiniteSetsExt, SequencesExt, TLC

CONSTANTS
    Apis,       \* the wire formats spoken
    MaxItems    \* bound: the items of one answer

VARIABLES
    api,        \* the format of this answer
    items,      \* what the provider has said: kinds, and which item each is about
    wire,       \* the frames of it that have not been read
    out,        \* what the parser carries from frame to frame, and what this frame emitted
    acc,        \* what the stream adds up to
    told,       \* what else its consumer was handed: calls, their ends, media, narration
    ending      \* the provider's reason to stop, "none" before

answerVars == <<api, items, wire, out, acc, told, ending>>

Like(a) == CASE a = "openrouter" -> "completions" [] a = "xai" -> "responses" [] OTHER -> a

-----------------------------------------------------------------------------
(* The provider.                                                             *)

\* The frames of an item of each kind.
Spelled ==
    [messages |->
        [text |-> <<"content_block_start", "text_delta", "text_delta", "content_block_stop">>,
         cited |-> <<"content_block_start", "text_delta", "citations_delta", "text_delta", "content_block_stop">>,
         thinking |-> <<"content_block_start", "thinking_delta", "thinking_delta", "content_block_stop">>,
         call |-> <<"content_block_start", "input_json_delta", "input_json_delta", "content_block_stop">>,
         code |-> <<"content_block_start", "input_json_delta", "input_json_delta", "content_block_stop">>,
         search |-> <<"content_block_start", "input_json_delta", "input_json_delta", "content_block_stop">>,
         result |-> <<"content_block_start", "content_block_stop">>],
     completions |->
        [text |-> <<"content", "content">>, cited |-> <<"annotations", "content", "content">>,
         thinking |-> <<"reasoning_content", "reasoning_content">>,
         call |-> <<"tool_calls", "tool_calls">>, screened |-> <<"moderation">>,
         audio |-> <<"audio.transcript", "audio.data", "audio.data", "audio.expires_at">>],
     responses |->
        [text |-> <<"added", "text.delta", "text.delta", "done">>,
         narration |-> <<"added", "text.delta", "text.delta", "done">>,
         cited |-> <<"added", "text.delta", "annotation", "text.delta", "done">>,
         thinking |-> <<"added", "done">>, call |-> <<"added", "arguments.delta", "arguments.delta", "done">>,
         code |-> <<"added", "done">>, search |-> <<"added", "done">>, image |-> <<"added", "done">>,
         sketched |-> <<"added", "partial_image", "done">>,
         shell |-> <<"added", "command.delta", "done">>, local |-> <<"added", "command.delta", "done">>,
         result |-> <<"added", "output.delta", "done">>, screened |-> <<>>],
     generate |->
        [text |-> <<"parts", "parts">>, thinking |-> <<"parts", "parts">>, call |-> <<"parts">>, blob |-> <<"parts">>,
         code |-> <<"parts">>, result |-> <<"parts">>, plot |-> <<"parts">>, search |-> <<"parts">>, fetch |-> <<>>],
     interactions |->
        [text |-> <<"step.start", "text", "text", "step.stop">>,
         thinking |-> <<"step.start", "thought_summary", "thought_summary", "thought_signature", "step.stop">>,
         call |-> <<"step.start", "arguments_delta", "arguments_delta", "step.stop">>,
         image |-> <<"step.start", "image", "step.stop">>]]

\* The last frames, and the reasons there may be.
Closing ==
    [messages |-> <<"message_delta">>, completions |-> <<"finish_reason", "usage">>, responses |-> <<"completed">>,
     generate |-> <<"last">>, interactions |-> <<"completed">>]
Reasons ==
    [messages |-> {"end_turn", "tool_use", "max_tokens", "refusal", "model_context_window_exceeded"},
     completions |-> {"stop", "tool_calls", "length", "content_filter"},
     responses |-> {"completed", "max_output_tokens", "content_filter", "failed"},
     generate |-> {"STOP", "MAX_TOKENS", "SAFETY", "MALFORMED_FUNCTION_CALL", "TOO_MANY_TOOL_CALLS"},
     interactions |-> {"completed", "failed"}]

Frag(i) == <<<<i, 1>>, <<i, 2>>>>
All(kinds) == {i \in DOMAIN items : items[i].kind \in kinds}
InOrder(kinds) == SelectSeq([i \in DOMAIN items |-> i], LAMBDA i : items[i].kind \in kinds)

\* What a hosted tool found is said once, of the code that Google ran before it runs more, of any that
\* Anthropic has open, and of the one shell that OpenAI has. Answers that are spoken have no other words,
\* what was made by code comes after it, and a step that is never stopped comes after every call.
Unanswered(kinds) == {i \in All(kinds) : ~\E j \in All({"result", "plot"}) : items[j].of = i}
MaySay(kind, of) ==
    CASE kind \in {"result", "plot"} ->
            /\ of \in All({"code", "search", "shell"}) /\ \A i \in All({"result", "plot"}) : items[i].of # of
            /\ api = "generate" => of = Len(items) /\ items[of].kind = "code"
            /\ Like(api) = "responses" => items[of].kind = "shell"
      [] kind = "shell" -> of = 0 /\ All({"shell"}) = {}
      [] kind \in {"screened", "fetch"} -> of = 0 /\ All({kind}) = {}
      [] kind = "audio" -> of = 0 /\ All({"audio", "text", "cited"}) = {}
      [] kind \in {"text", "cited"} -> of = 0 /\ All({"audio"}) = {}
      [] kind = "code" -> of = 0 /\ All({"blob"}) = {} /\ (api = "generate" => Unanswered({"code"}) = {})
      [] kind = "call" -> of = 0 /\ (api = "interactions" => out.current = <<>>)
      [] OTHER -> of = 0

Frame(type, kind, of, i, part) == [type |-> type, kind |-> kind, of |-> of, at |-> i, part |-> part]
Frames(kind, of) ==
    LET types == Spelled[Like(api)][kind]
        Part(n) == Cardinality({m \in 1 .. n : types[m] = types[n]})
    IN  [n \in DOMAIN types |-> Frame(types[n], kind, of, Len(items) + 1, Part(n))]

Say(kind, of) ==
    /\ wire = <<>> /\ ending = "none" /\ Len(items) < MaxItems /\ MaySay(kind, of)
    /\ items' = Append(items, [kind |-> kind, of |-> of])
    /\ LET frames == Frames(kind, of)
       IN  wire' \in {frames} \cup (IF api = "interactions" THEN {Front(frames)} ELSE {})
    /\ UNCHANGED <<api, out, acc, told, ending>>

\* A spoken answer's frames carry no reason.
End(reason) ==
    /\ wire = <<>> /\ ending = "none"
    /\ reason \in {"tool_use", "tool_calls"} => All({"call"}) # {}
    /\ reason \in {"end_turn", "stop"} /\ api # "completions" => All({"call"}) = {}
    /\ All({"audio"}) # {} => reason = "stop" /\ All({"call"}) = {}
    /\ ending' = reason
    /\ LET frames == SelectSeq(Closing[Like(api)], LAMBDA t : t # "finish_reason" \/ All({"audio"}) = {})
       IN  wire' = [n \in DOMAIN frames |-> Frame(frames[n], reason, 0, 0, 0)]
    /\ UNCHANGED <<api, items, out, acc, told>>

-----------------------------------------------------------------------------
(* The body, read whole.                                                     *)

\* Fault: a table of the stream's own, with one entry.
FinishOnlyLength ==
    [messages |-> "max_tokens" :> "length", completions |-> "length" :> "length",
     responses |-> "max_output_tokens" :> "length", generate |-> "MAX_TOKENS" :> "length", interactions |-> "failed" :> "error"]

\* What each provider's reasons mean; a reason that is not here is "stop".
Finish ==
    [messages |-> ("max_tokens" :> "length") @@ ("model_context_window_exceeded" :> "length") @@ ("refusal" :> "content_filter"),
     completions |-> ("tool_calls" :> "tool_use") @@ ("length" :> "length") @@ ("content_filter" :> "content_filter"),
     responses |-> ("max_output_tokens" :> "length") @@ ("content_filter" :> "content_filter") @@ ("failed" :> "error"),
     generate |-> ("MAX_TOKENS" :> "length") @@ ("SAFETY" :> "content_filter")
        @@ ("MALFORMED_FUNCTION_CALL" :> "malformed_tool_call") @@ ("TOO_MANY_TOOL_CALLS" :> "too_many_tool_calls"),
     interactions |-> "failed" :> "error"]

ExtractFinishReason(called, reason, table) ==
    IF called THEN "tool_use" ELSE IF reason \in DOMAIN table THEN table[reason] ELSE "stop"

UnifiedTool(kind) ==
    CASE kind = "code" -> "code_interpreter" [] kind = "search" -> "web_search" [] kind = "fetch" -> "web_fetch"
      [] kind \in {"shell", "local"} -> "shell"

\* A call of a hosted tool: its id, where it has one, what it was given and what it found.
Builtin(kind, id, input, output) == [tool |-> UnifiedTool(kind), id |-> id, input |-> input, output |-> output]

Empty ==
    [text |-> <<>>, thinking |-> <<>>, toolCalls |-> <<>>, media |-> <<>>, files |-> <<>>, builtin |-> <<>>,
     citations |-> {}, moderation |-> {}, signatures |-> <<>>, narration |-> <<>>, container |-> FALSE,
     finish |-> "stop", usage |-> "none", tier |-> FALSE]

EmitInto(o, name, value) == [o EXCEPT ![name] = @ \o value]

\* Only what code printed is put to its call, and only code leaves files.
FilesFromCodeExecBlock(of) == IF items[of].kind = "code" THEN <<of>> ELSE <<>>
AttachToolOutput(calls, id) == [n \in DOMAIN calls |-> IF calls[n].id = id THEN [calls[n] EXCEPT !.output = <<id>>] ELSE calls[n]]

AnthropicBlock(o, i) ==
    LET kind == items[i].kind
        of == items[i].of
    IN  CASE kind \in {"text", "cited"} -> EmitInto(o, "text", Frag(i))
          [] kind = "thinking" -> [o EXCEPT !.thinking = Frag(i)]
          [] kind = "call" -> EmitInto(o, "toolCalls", <<i>>)
          [] kind \in {"code", "search"} -> EmitInto(o, "builtin", <<Builtin(kind, i, Frag(i), <<>>)>>)
          [] kind = "result" ->
                EmitInto(IF items[of].kind = "code" THEN [o EXCEPT !.builtin = AttachToolOutput(@, of)] ELSE o,
                         "files", FilesFromCodeExecBlock(of))
          [] OTHER -> o

\* Words, then sounds, then calls: they stand in three places. OpenRouter's search is known by what it cites.
OpenaiMessage(o, i) ==
    LET kind == items[i].kind
    IN  CASE kind \in {"text", "cited"} -> EmitInto(o, "text", Frag(i))
          [] kind = "thinking" -> EmitInto(o, "thinking", Frag(i))
          [] kind = "call" -> EmitInto(o, "toolCalls", <<i>>)
          [] kind = "audio" -> EmitInto(EmitInto(o, "text", Frag(i)), "media", <<i>>)
          [] OTHER -> o
OpenrouterSearch(o) ==
    IF api = "openrouter" /\ All({"cited"}) # {}
    THEN EmitInto(o, "builtin", <<Builtin("search", 0, <<>>, <<>>)>>) ELSE o

\* Fault: xAI's files are looked for where OpenAI's are.
FilesOfOpenAI(kind, i) == IF kind = "code" /\ api = "responses" THEN <<i>> ELSE <<>>

\* OpenAI names the files that code left; xAI sends them in what the code printed.
FilesOf(kind, i) == IF kind = "code" THEN <<i>> ELSE <<>>

BuiltinCallFromItem(kind, of, i) ==
    CASE kind = "code" -> <<Builtin(kind, i, Frag(i), <<i>>)>>
      [] kind \in {"search", "shell", "local"} -> <<Builtin(kind, i, Frag(i), <<>>)>>
      [] kind = "result" -> <<[Builtin("shell", i, <<>>, <<of>>) EXCEPT !.id = of]>>
      [] OTHER -> <<>>

\* The half that found is put to the half that asked.
MergeShellCalls(calls) ==
    LET Shell(n) == calls[n].tool = "shell"
        Found(n) == {m \in DOMAIN calls : m > n /\ Shell(m) /\ calls[m].id = calls[n].id}
        Half(m) == Shell(m) /\ \E n \in 1 .. (m - 1) : m \in Found(n) /\ Shell(n)
        Whole(n) == IF Shell(n) /\ Found(n) # {} THEN [calls[n] EXCEPT !.output = calls[Max(Found(n))].output] ELSE calls[n]
        kept == SelectSeq([n \in DOMAIN calls |-> n], LAMBDA n : ~Half(n))
    IN  [k \in DOMAIN kept |-> Whole(kept[k])]

OpenaiItem(o, i) ==
    LET kind == items[i].kind
        every == EmitInto(EmitInto(o, "files", FilesOf(kind, i)), "builtin", BuiltinCallFromItem(kind, items[i].of, i))
    IN  CASE kind \in {"text", "cited"} -> EmitInto(every, "text", Frag(i))
          [] kind = "narration" -> EmitInto(EmitInto(every, "text", Frag(i)), "narration", <<i>>)
          [] kind = "thinking" -> [every EXCEPT !.thinking = Frag(i)]
          [] kind = "call" -> EmitInto(every, "toolCalls", <<i>>)
          [] kind \in {"image", "sketched"} -> EmitInto(every, "media", <<i>>)
          [] OTHER -> every

\* A part is what it has: an item whose chart and output share a chunk is two. A blob is a file where code was run.
HasCodeExec == All({"code", "result", "plot"}) # {}
GooglePart(o, i) ==
    LET kind == items[i].kind
    IN  CASE kind = "text" -> EmitInto(o, "text", Frag(i))
          [] kind = "thinking" -> [o EXCEPT !.thinking = Frag(i)]
          [] kind \in {"blob", "plot"} -> EmitInto(o, IF HasCodeExec THEN "files" ELSE "media", <<i>>)
          [] kind = "call" -> EmitInto(o, "toolCalls", <<i>>)
          [] OTHER -> o

\* Google issues no ids: the n-th code is paired with the n-th result. It searched once, however often.
GoogleBuiltinCalls(o) ==
    LET codes == InOrder({"code"})
        results == InOrder({"result", "plot"})
        Ran(n) == Builtin("code", 0, Frag(codes[n]), IF n \in DOMAIN results THEN <<items[results[n]].of>> ELSE <<>>)
        searched == IF All({"search"}) = {} THEN <<>> ELSE <<Builtin("search", 0, Frag(InOrder({"search"})[1]), <<>>)>>
        fetched == [n \in DOMAIN InOrder({"fetch"}) |-> Builtin("fetch", 0, Frag(InOrder({"fetch"})[n]), <<>>)]
    IN  EmitInto(o, "builtin", [n \in DOMAIN codes |-> Ran(n)] \o searched \o fetched)

\* Of the steps, what is said and drawn is an item of its own; a signature is kept with its step.
InteractionStep(o, i) ==
    LET kind == items[i].kind
    IN  CASE kind = "text" -> EmitInto(o, "text", Frag(i))
          [] kind = "call" -> EmitInto(o, "toolCalls", <<i>>)
          [] kind = "image" -> EmitInto(o, "media", <<i>>)
          [] kind = "thinking" -> EmitInto(o, "signatures", <<i>>)

\* The sources, read from wherever the format has them.
ExtractCitations == IF api = "generate" THEN All({"search"}) ELSE All({"cited"})

BuildResponse ==
    LET Collect(o, i) ==
            CASE api = "messages" -> AnthropicBlock(o, i) [] Like(api) = "completions" -> OpenaiMessage(o, i)
              [] Like(api) = "responses" -> OpenaiItem(o, i) [] api = "generate" -> GooglePart(o, i)
              [] api = "interactions" -> InteractionStep(o, i)
        walked == FoldLeft(Collect, Empty, [i \in DOMAIN items |-> i])
        finalized == IF api = "generate" THEN GoogleBuiltinCalls(walked) ELSE OpenrouterSearch(walked)
        \* A sub-reason of OpenAI's decides, whatever was called.
        called == walked.toolCalls # <<>> /\ ~(Like(api) = "responses" /\ ending \in {"max_output_tokens", "content_filter"})
    IN  [finalized EXCEPT !.builtin = MergeShellCalls(@), !.citations = ExtractCitations,
                          !.finish = ExtractFinishReason(called, ending, Finish[Like(api)]),
                          !.moderation = IF All({"screened"}) = {} THEN {} ELSE {"input", "output"},
                          !.container = api = "messages" /\ All({"code"}) # {}, !.usage = "all", !.tier = api # "interactions"]

-----------------------------------------------------------------------------
(* The stream, read a frame at a time.                                       *)

Emit(o, events) == [o EXCEPT !.events = @ \o events]
Event(type, what) == [type |-> type, what |-> what]
Words(e) == <<Event("text", <<<<e.at, e.part>>>>)>>
Thought(e) == <<Event("thinking", <<<<e.at, e.part>>>>)>>
Usage(what, tier) == <<Event("usage", [usage |-> what, tier |-> tier])>>
Done(reason, more) == <<Event("done", more @@ [finish |-> reason])>>

\* A tool's end carries what it was given, which came three frames earlier.
BlockStart(o, e) ==
    LET ran == items[e.of].kind = "code"
        given == {p \in o.pending : p[1] = e.of}
        input == IF given = {} THEN <<>> ELSE (CHOOSE p \in given : TRUE)[2]
    IN  CASE e.kind = "call" -> Emit([o EXCEPT !.current = <<>>], <<Event("tool_call_start", e.at)>>)
          [] e.kind \in {"code", "search"} ->
                Emit([o EXCEPT !.current = <<[id |-> e.at, json |-> <<>>]>>], <<Event("builtin_tool_start", e.at)>>)
          [] e.kind = "result" ->
                Emit([o EXCEPT !.pending = @ \ given],
                     <<Event("builtin_tool_end", Builtin(items[e.of].kind, e.of, input, IF ran THEN <<e.of>> ELSE <<>>))>>
                     \o [n \in DOMAIN FilesFromCodeExecBlock(e.of) |-> Event("file", FilesFromCodeExecBlock(e.of)[n])])
          [] OTHER -> o

\* A fragment is the open block's, and where none is open a function call's.
JsonDelta(o, e) ==
    IF o.current # <<>> THEN [o EXCEPT !.current[1].json = Append(@, <<e.at, e.part>>)]
    ELSE Emit(o, <<Event("tool_call_delta", e.at)>>)

\* Fault: what has been given to a tool is forgotten when its block ends.
BlockStopForgets(o) == [o EXCEPT !.current = <<>>]

BlockStop(o) ==
    IF o.current = <<>> THEN o
    ELSE [o EXCEPT !.pending = @ \cup {<<o.current[1].id, o.current[1].json>>}, !.current = <<>>]

MessageDelta(o, e) ==
    Emit(o, Usage("all", FALSE)
            \o Done(ExtractFinishReason(e.kind = "tool_use", e.kind, Finish["messages"]), [container |-> All({"code"}) # {}]))

AnthropicFrame(o, e) ==
    CASE e.type = "message_start" -> Emit(o, Usage("prompt", FALSE))
      [] e.type = "text_delta" -> Emit(o, Words(e))
      [] e.type = "thinking_delta" -> Emit(o, Thought(e))
      [] e.type = "citations_delta" -> Emit(o, <<Event("citation", e.at)>>)
      [] e.type = "input_json_delta" -> JsonDelta(o, e)
      [] e.type = "content_block_start" -> BlockStart(o, e)
      [] e.type = "content_block_stop" -> BlockStop(o)
      [] e.type = "message_delta" -> MessageDelta(o, e)

\* Only the first fragment of a call has an id, and a search is told of once.
ToolCallChunk(o, e) ==
    LET index == Cardinality({i \in All({"call"}) : i < e.at})
        known == {p \in o.ids : p[1] = index}
        id == IF known = {} THEN e.at ELSE (CHOOSE p \in known : TRUE)[2]
    IN  Emit([o EXCEPT !.ids = @ \cup {<<index, id>>}],
             <<Event(IF e.part = 1 THEN "tool_call_start" ELSE "tool_call_delta", id)>>)

WebSearchOnce(o) ==
    IF api # "openrouter" \/ o.searched THEN o
    ELSE Emit([o EXCEPT !.searched = TRUE],
              <<Event("builtin_tool_start", 0), Event("builtin_tool_end", Builtin("search", 0, <<>>, <<>>))>>)
AnnotatedChunk(o, e) == WebSearchOnce(Emit(o, <<Event("citation", e.at)>>))

\* The last chunk of a sound is the only end that there is.
AudioChunk(o, e) ==
    CASE e.type = "audio.transcript" -> Emit(o, <<Event("text", Frag(e.at))>>)
      [] e.type = "audio.data" ->
            Emit([o EXCEPT !.audio = TRUE],
                 (IF o.audio THEN <<>> ELSE <<Event("media_start", e.at)>>) \o <<Event("media_chunk", e.at)>>)
      [] e.type = "audio.expires_at" -> Emit([o EXCEPT !.audio = FALSE], <<Event("media_end", e.at)>> \o Done("stop", <<>>))

OpenaiChunk(o, e) ==
    CASE e.type = "moderation" -> Emit(o, <<Event("moderation", "input"), Event("moderation", "output")>>)
      [] e.type = "usage" -> Emit(o, Usage("all", FALSE))
      [] e.type = "reasoning_content" -> Emit(o, Thought(e))
      [] e.type = "content" -> Emit(o, Words(e))
      [] e.type = "annotations" -> AnnotatedChunk(o, e)
      [] e.type = "tool_calls" -> ToolCallChunk(o, e)
      [] e.type = "finish_reason" -> Emit(o, Done(ExtractFinishReason(FALSE, e.kind, Finish["completions"]), <<>>))
      [] OTHER -> AudioChunk(o, e)

\* What the deltas of an item need is said when it is added.
ItemAdded(o, e) ==
    LET phased == IF e.kind = "narration" THEN [o EXCEPT !.phases = @ \cup {e.at}] ELSE o
    IN  CASE e.kind = "call" -> Emit(phased, <<Event("tool_call_start", e.at)>>)
          [] e.kind \in {"image", "sketched"} -> Emit(phased, <<Event("media_start", e.at)>>)
          [] e.kind \in {"code", "search", "shell", "local"} -> Emit(phased, <<Event("builtin_tool_start", e.at)>>)
          [] OTHER -> phased

\* A shell in a container ends with the item that says what it printed, and any other where it is done.
ItemDone(o, e) ==
    CASE e.kind = "shell" -> [o EXCEPT !.current = <<Builtin("shell", e.at, Frag(e.at), <<>>)>>]
      [] e.kind = "result" ->
            LET waiting == IF o.current = <<>> THEN Builtin("shell", 0, <<>>, <<>>) ELSE o.current[1]
            IN  Emit([o EXCEPT !.current = <<>>], <<Event("builtin_tool_end", [waiting EXCEPT !.output = <<e.of>>])>>)
      [] e.kind = "call" -> Emit(o, <<Event("tool_call_end", e.at)>>)
      [] e.kind \in {"image", "sketched"} -> Emit(o, <<Event("media_end", e.at)>>)
      [] e.kind = "thinking" -> Emit(o, <<Event("thinking", Frag(e.at))>>)
      [] e.kind \in {"code", "search", "local"} ->
            Emit(o, <<Event("builtin_tool_end", BuiltinCallFromItem(e.kind, e.of, e.at)[1])>>)
      [] OTHER -> o

Completed(o, e) ==
    LET status == IF e.kind \in {"max_output_tokens", "content_filter"} THEN "incomplete" ELSE e.kind
        screened == IF All({"screened"}) = {} THEN <<>> ELSE <<Event("moderation", "input"), Event("moderation", "output")>>
    IN  Emit(o, screened \o Usage("all", FALSE) \o Done(ExtractFinishReason(FALSE, status, "incomplete" :> "length"), <<>>))

OpenaiEvent(o, e) ==
    CASE e.type = "added" -> ItemAdded(o, e)
      [] e.type = "text.delta" ->
            Emit(o, <<Event("text", <<<<e.at, e.part>>>>)>> \o IF e.at \in o.phases THEN <<Event("phase", e.at)>> ELSE <<>>)
      [] e.type = "annotation" -> Emit(o, <<Event("citation", e.at)>>)
      [] e.type = "arguments.delta" -> Emit(o, <<Event("tool_call_delta", 0)>>)
      [] e.type = "partial_image" -> Emit(o, <<Event("media_chunk", e.at)>>)
      [] e.type \in {"command.delta", "output.delta"} -> Emit(o, <<Event("builtin_tool_delta", e.at)>>)
      [] e.type = "done" ->
            ItemDone(Emit(o, [n \in DOMAIN FilesOf(e.kind, e.at) |-> Event("file", FilesOf(e.kind, e.at)[n])]), e)
      [] e.type = "completed" -> Completed(o, e)

\* Code waits for its result, and what is drawn is a file from where code was first seen.
GooglePartOf(o, e, part) ==
    CASE part = "text" -> Emit(o, Words(e))
      [] part = "thinking" -> Emit(o, Thought(e))
      [] part = "code" -> Emit([o EXCEPT !.current = <<Frag(e.at)>>], <<Event("builtin_tool_start", 0)>>)
      [] part = "result" ->
            Emit([o EXCEPT !.current = <<>>],
                 <<Event("builtin_tool_end", Builtin("code", 0, IF o.current = <<>> THEN <<>> ELSE o.current[1], <<e.of>>))>>)
      [] part = "blob" ->
            Emit(o, IF o.codeExec THEN <<Event("file", e.at)>>
                    ELSE <<Event("media_start", e.at), Event("media_chunk", e.at), Event("media_end", e.at)>>)
      [] part = "call" ->
            Emit(o, <<Event("tool_call_start", e.at), Event("tool_call_delta", e.at), Event("tool_call_end", e.at)>>)

\* A chunk's parts: a chart may come in one chunk with, and before, what the code printed.
Parts(e) == IF e.kind = "plot" THEN <<"blob", "result">> ELSE IF e.kind = "search" THEN <<>> ELSE <<e.kind>>

LatchCodeExec(o, e) == [o EXCEPT !.codeExec = @ \/ \E n \in DOMAIN Parts(e) : Parts(e)[n] \in {"code", "result"}]

\* The last chunk says what was searched and fetched, and why it ends.
GoogleLast(o, e) ==
    LET searches == InOrder({"search"})
        fetches == InOrder({"fetch"})
        Pair(kind, given) == <<Event("builtin_tool_start", 0), Event("builtin_tool_end", Builtin(kind, 0, given, <<>>))>>
        searched == IF searches = <<>> \/ o.searched THEN <<>> ELSE Pair("search", Frag(searches[1]))
        fetched == FlattenSeq([n \in DOMAIN fetches |-> Pair("fetch", Frag(fetches[n]))])
    IN  Emit([o EXCEPT !.searched = @ \/ searches # <<>>],
             [n \in DOMAIN searches |-> Event("citation", searches[n])] \o searched \o fetched
             \o Done(ExtractFinishReason(FALSE, e.kind, Finish["generate"]), <<>>) \o Usage("all", TRUE))

GoogleChunk(o, e) ==
    IF e.type = "last" THEN GoogleLast(o, e)
    ELSE FoldLeft(LAMBDA p, part : GooglePartOf(p, e, part), LatchCodeExec(o, e), Parts(e))

\* Fault: only a stop closes a call.
CloseNothing(o) == o

\* A step that was not stopped is closed by the terminal frame.
CloseOpenCall(o) == IF o.current = <<>> THEN o ELSE Emit([o EXCEPT !.current = <<>>], <<Event("tool_call_end", o.current[1])>>)

InteractionEvent(o, e) ==
    CASE e.type = "step.start" ->
            IF e.kind # "call" THEN o
            ELSE Emit([o EXCEPT !.current = <<e.at>>, !.called = TRUE], <<Event("tool_call_start", e.at)>>)
      [] e.type = "text" -> Emit(o, Words(e))
      [] e.type = "thought_summary" -> Emit(o, Thought(e))
      [] e.type = "thought_signature" -> [o EXCEPT !.signatures = Append(@, e.at)]
      [] e.type = "arguments_delta" -> Emit(o, <<Event("tool_call_delta", IF o.current = <<>> THEN 0 ELSE o.current[1])>>)
      [] e.type = "image" -> o
      [] e.type = "step.stop" -> CloseOpenCall(o)
      [] e.type = "completed" ->
            Emit(CloseOpenCall(o),
                 Usage("all", FALSE)
                 \o Done(ExtractFinishReason(o.called, e.kind, "failed" :> "error"), [signatures |-> o.signatures]))

Parse(o, e) ==
    LET fresh == [o EXCEPT !.events = <<>>]
    IN  CASE api = "messages" -> AnthropicFrame(fresh, e) [] Like(api) = "completions" -> OpenaiChunk(fresh, e)
          [] Like(api) = "responses" -> OpenaiEvent(fresh, e) [] api = "generate" -> GoogleChunk(fresh, e)
          [] api = "interactions" -> InteractionEvent(fresh, e)

Absorb(a, ev) ==
    CASE ev.type = "text" -> [a EXCEPT !.text = @ \o ev.what]
      [] ev.type = "thinking" -> [a EXCEPT !.thinking = @ \o ev.what]
      [] ev.type = "usage" -> [a EXCEPT !.usage = ev.what.usage, !.tier = ev.what.tier]
      [] ev.type = "done" ->
            ev.what @@ a
      [] ev.type = "file" -> [a EXCEPT !.files = Append(@, ev.what)]
      [] ev.type = "citation" -> [a EXCEPT !.citations = @ \cup {ev.what}]
      [] ev.type = "builtin_tool_end" -> [a EXCEPT !.builtin = Append(@, ev.what)]
      [] ev.type = "moderation" -> [a EXCEPT !.moderation = @ \cup {ev.what}]
      [] OTHER -> a

\* What else its consumer is handed.
Hand(t, ev) ==
    CASE ev.type = "tool_call_start" -> [t EXCEPT !.calls = Append(@, ev.what)]
      [] ev.type = "tool_call_end" -> [t EXCEPT !.ends = Append(@, ev.what)]
      [] ev.type = "media_chunk" -> [t EXCEPT !.media = IF ev.what \in ToSet(@) THEN @ ELSE Append(@, ev.what)]
      [] ev.type = "phase" -> [t EXCEPT !.narration = IF ev.what \in ToSet(@) THEN @ ELSE Append(@, ev.what)]
      [] OTHER -> t

Read ==
    /\ wire # <<>>
    /\ out' = Parse(out, Head(wire))
    /\ acc' = FoldLeft(Absorb, acc, out'.events)
    /\ told' = FoldLeft(Hand, told, out'.events)
    /\ wire' = Tail(wire)
    /\ UNCHANGED <<api, items, ending>>

Init ==
    /\ api \in Apis
    /\ items = <<>> /\ ending = "none"
    /\ wire = IF api = "messages" THEN <<Frame("message_start", "text", 0, 0, 0)>> ELSE <<>>
    /\ out = [events |-> <<>>, current |-> <<>>, pending |-> {}, ids |-> {}, phases |-> {}, signatures |-> <<>>,
              searched |-> FALSE, audio |-> FALSE, codeExec |-> FALSE, called |-> FALSE]
    /\ acc = Empty
    /\ told = [calls |-> <<>>, ends |-> <<>>, media |-> <<>>, narration |-> <<>>]

Next ==
    \/ \E kind \in DOMAIN Spelled[Like(api)], of \in 0 .. Len(items) : Say(kind, of)
    \/ \E reason \in Reasons[Like(api)] : End(reason)
    \/ Read

Spec == Init /\ [][Next]_answerVars

TypeOK ==
    /\ api \in Apis /\ Len(items) <= MaxItems /\ ending \in {"none"} \cup Reasons[Like(api)]
    /\ DOMAIN acc = DOMAIN Empty /\ acc.finish \in {"stop"} \cup UNION {{t[r] : r \in DOMAIN t} : t \in {Finish[Like(api)], "call" :> "tool_use"}}

-----------------------------------------------------------------------------
Over == ending # "none" /\ wire = <<>>

\* Calls, sounds and phases are the consumer's to put together.
Streamed == [acc EXCEPT !.toolCalls = told.calls, !.media = told.media, !.narration = told.narration]

Alike(whole, field) ==
    IF field = "builtin" THEN ToSet(whole.builtin) = ToSet(Streamed.builtin) /\ Len(whole.builtin) = Len(Streamed.builtin) ELSE whole[field] = Streamed[field]

\* Where the two are known to differ: a body's later thought replaces its first, and interactions' thoughts are
\* streamed only; a call is the reason to stop only of a body, and of a stream where it is said to be; of
\* OpenAI's reasons only a body has those beside the length; a stream has the billed tier of generate alone;
\* what was asked of a hosted tool has no end until it answers; and of an image only sketches are streamed.
Differs(field) ==
    LET called == All({"call"}) # {}
    IN  CASE field = "thinking" ->
                \/ Cardinality(All({"thinking"})) > 1 /\ Like(api) # "completions"
                \/ All({"thinking"}) # {} /\ api = "interactions"
          [] field = "finish" ->
                \/ called /\ api # "interactions" /\ ending \notin {"tool_use", "tool_calls", "max_output_tokens"}
                \/ Like(api) = "responses" /\ ending \in {"content_filter", "failed"}
          [] field = "tier" -> api \notin {"generate", "interactions"}
          [] field = "builtin" ->
                \E i \in Unanswered({"code", "search", "shell"}) : items[i].kind = "shell" \/ api = "messages" \/ (api = "generate" /\ items[i].kind = "code")
          [] field = "media" -> All({"image"}) # {}
          [] OTHER -> FALSE

\* What was said is all there, in its order, and what a hosted tool was asked and found is put to it.
Faithful(o) ==
    /\ o.text = FlattenSeq([n \in DOMAIN InOrder({"text", "cited", "narration", "audio"}) |->
                              Frag(InOrder({"text", "cited", "narration", "audio"})[n])])
    /\ o.toolCalls = InOrder({"call"})
    /\ Like(api) = "responses" => o.files = InOrder({"code"})
    /\ \A n \in DOMAIN o.builtin :
          LET ran == o.builtin[n]
          IN  \/ ran.input = <<>> /\ api = "openrouter"
              \/ \E i \in All({"code", "search", "shell", "local", "fetch"}) :
                    /\ ran.input = Frag(i) /\ ran.tool = UnifiedTool(items[i].kind) /\ ran.id \in {0, i}
                    /\ ran.output \in {<<>>, <<i>>}
                    /\ (\E j \in All({"result", "plot"}) : items[j].of = i /\ items[i].kind # "search") => ran.output = <<i>>

\* An answer is the same whether it came whole or streamed, but where it is known to differ: all
\* that was said, each call once and ended where its provider says an end, each hosted tool with what
\* it was given and found (build_response, create_stream_builder, StreamAccumulator.to_response).
AnswerTrue ==
    Over => /\ Faithful(BuildResponse) /\ Faithful(Streamed)
            /\ \A field \in DOMAIN Empty : Alike(BuildResponse, field) \/ Differs(field)
            /\ api \in {"responses", "xai", "generate", "interactions"} => told.ends = told.calls

\* "The same response either way": nothing differs (StreamAccumulator.to_response).
SameAnswer == Over => \A field \in DOMAIN Empty : Alike(BuildResponse, field)
=============================================================================
