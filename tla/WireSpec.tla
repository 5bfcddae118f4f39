------------------------------ MODULE WireSpec ------------------------------
(***************************************************************************)
(* Requests built from specs that are data: a spec is resolved along what  *)
(* it extends (wire/inherit.py) and executed, rule by rule, on a request   *)
(* (wire/interpreter.py build_from_spec). A body is a function from paths  *)
(* to values. The specs are the shipped ones, with what their builders     *)
(* make (messages, schemas, voices) as one value each; what a request says *)
(* is truthy. Calls are made one after another with one providerOptions,   *)
(* whose objects a body may share.                                         *)
(***************************************************************************)
EXTENDS Naturals, Sequences, SequencesExt, FiniteSetsExt, TLC

CONSTANTS
    Others,         \* further families of specs, by id, for what composition does to them
    Asked,          \* the requests: functions from what is said to its value
    Given,          \* what providerOptions.openrouter may hold, path by path
    MaxCalls

VARIABLES
    family,         \* the specs as they are written, by id
    resolved,       \* those that were asked for, composed
    options,        \* the caller's providerOptions.openrouter
    given,          \* as the caller made it
    built,          \* the last body, with what it was built from
    calls

wireVars == <<family, resolved, options, given, built, calls>>

-----------------------------------------------------------------------------
(* What specs are made of.                                                   *)

F(from, to) == [from |-> from, to |-> to, default |-> {}, when |-> {}, table |-> <<>>]
Or(field, v) == [field EXCEPT !.default = {<<v>>}]
Block(name, to, when, template) ==
    [name |-> name, to |-> to, merge |-> FALSE, when |-> when, template |-> template, effects |-> <<>>]
Merged(block) == [block EXCEPT !.merge = TRUE]
Lit(v) == <<"lit", v>>
Get(key) == <<"get", key, {}>>
GetOr(key, v) == <<"get", key, {<<v>>}>>
Look(table, key, v) == <<"look", table, key, v>>
OnlyIf(cond, expr) == <<"if", cond, expr>>
ToolsOf(kinds) == <<"tools", kinds>>
One(expr) == <<>> :> expr

Root ==
    [extends |-> "", tables |-> <<>>, fields |-> <<>>, blocks |-> <<>>, removeFields |-> {}, removeBlocks |-> {},
     place |-> <<>>, overlays |-> <<>>, constraints |-> {}, broken |-> FALSE]
Move(name, side, anchor) == [name |-> name, side |-> side, anchor |-> anchor]
Op(kind, from, to) == [kind |-> kind, from |-> from, to |-> to, when |-> {}]
Thinks == {<<"has", "thinking">>, <<"ne", "thinking.mode", "off">>}
Hidden == {<<"eq", "thinking.visibility", "hidden">>}
Keyword == {<<"has", "toolChoice">>, <<"no", "toolChoice.name">>}
Named == {<<"has", "toolChoice">>, <<"has", "toolChoice.name">>}

\* Tools that a family of models hosts are called by their own names, a caller's are functions.
HostedAtAnthropic == {"web_search", "web_fetch", "code_interpreter"}
HostedAtGemini == {"web_search", "code_interpreter", "web_fetch", "file_search"}
Hosted == {"web_search", "code_interpreter", "web_fetch", "file_search"}
Tier(table, otherwise) == [F("serviceTier", <<"service_tier">>) EXCEPT !.table = <<table, otherwise>>]

Messages40Tables ==
    ("requestTier" :> (("auto" :> "auto") @@ ("priority" :> "auto") @@ ("scale" :> "auto")
                       @@ ("standard" :> "standard_only") @@ ("flex" :> "standard_only")))
    @@ ("toolChoiceType" :> (("auto" :> "auto") @@ ("none" :> "none") @@ ("required" :> "any")))
    @@ ("thinkingBudgets" :> (("low" :> 1024) @@ ("medium" :> 4096) @@ ("high" :> 8192) @@ ("max" :> 16384)))

Messages40Fields ==
    <<F("model", <<"model">>), Or(F("maxTokens", <<"max_tokens">>), 4096), F("temperature", <<"temperature">>),
      F("topP", <<"top_p">>), F("stop", <<"stop_sequences">>), Tier("requestTier", {<<"auto">>})>>

Messages40Content ==
    <<Block("cacheDiagnostics", <<"diagnostics">>, {<<"has", "cacheDiagnostics">>},
            <<"previous_message_id">> :> GetOr("cacheDiagnostics.compareWith", "null")),
      Block("messages", <<"messages">>, {}, One(Lit("messages"))),
      Block("system.cached", <<"system">>, {<<"has", "system">>, <<"has", "cacheSystem">>}, One(Lit("parts"))),
      Block("system.plain", <<"system">>, {<<"has", "system">>, <<"no", "cacheSystem">>}, One(Get("system")))>>

Messages40Tools ==
    <<Block("tools", <<"tools">>, {<<"has", "tools">>}, One(ToolsOf({"function"} \cup HostedAtAnthropic))),
      Block("container", <<"container">>, {<<"has", "container">>}, One(Lit("container"))),
      Block("toolChoice.keyword", <<"tool_choice">>, Keyword, <<"type">> :> Look("toolChoiceType", "toolChoice", {})),
      Block("toolChoice.named", <<"tool_choice">>, Named,
            (<<"type">> :> Lit("tool")) @@ (<<"name">> :> Get("toolChoice.name")))>>

Messages40Thinking ==
    <<[Block("thinking.budgeted", <<"thinking">>, Thinks,
             (<<"type">> :> Lit("enabled"))
             @@ (<<"budget_tokens">> :> Look("thinkingBudgets", "thinking.effort", {<<2048>>}))
             @@ (<<"display">> :> OnlyIf(Hidden, Lit("omitted"))))
       EXCEPT !.effects = <<"liftMaxTokensAboveBudget">>],
      Merged(Block("structured", <<"output_config">>, {<<"has", "structured">>}, <<"format">> :> Lit("schema")))>>

Messages40 ==
    [Root EXCEPT !.tables = Messages40Tables, !.fields = Messages40Fields,
                 !.blocks = Messages40Content \o Messages40Tools \o Messages40Thinking]

Messages41 == [Root EXCEPT !.extends = "messages@4.0", !.fields = <<F("topK", <<"top_k">>)>>]

Messages46 ==
    [Root EXCEPT
        !.extends = "messages@4.1",
        !.removeBlocks = {"thinking.budgeted"},
        !.blocks =
            <<Block("thinking.adaptive", <<"thinking">>, Thinks \cup {<<"ne", "thinking.mode", "between_tools">>},
                    (<<"type">> :> Lit("adaptive")) @@ (<<"display">> :> OnlyIf(Hidden, Lit("omitted")))),
              Merged(Block("thinking.adaptive.effort", <<"output_config">>, Thinks \cup {<<"has", "thinking.effort">>},
                           <<"effort">> :> Get("thinking.effort"))),
              Block("thinking.betweenTools", <<"thinking">>, {<<"eq", "thinking.mode", "between_tools">>},
                    <<"type">> :> Lit("between_tools"))>>,
        !.place = <<Move("thinking.adaptive", "before", "structured"), Move("thinking.adaptive.effort", "before", "structured")>>]

Messages47 == [Root EXCEPT !.extends = "messages@4.6", !.removeFields = {<<"temperature">>, <<"top_p">>, <<"top_k">>}]

Anthropic ==
    ("messages@4.0" :> Messages40) @@ ("messages@4.1" :> Messages41)
    @@ ("messages@4.6" :> Messages46) @@ ("messages@4.7" :> Messages47)

\* What a surface calls the tiers it takes; any other becomes auto.
Tiers(further) ==
    "tier" :> (("auto" :> "auto") @@ ("standard" :> "default") @@ [t \in {"priority", "flex", "scale", "fast"} \cup further |-> t])
Efforts ==
    "reasoningEffort" :> (("low" :> "low") @@ ("medium" :> "medium") @@ ("high" :> "high") @@ ("max" :> "xhigh")
                          @@ ("xhigh" :> "xhigh"))

CompletionsFields ==
    <<F("model", <<"model">>), Or(F("maxTokens", <<"max_completion_tokens">>), 4096), F("temperature", <<"temperature">>),
      F("topP", <<"top_p">>), F("seed", <<"seed">>), [F("topK", <<"top_k">>) EXCEPT !.when = {<<"notFlavor", "openai">>}],
      F("presencePenalty", <<"presence_penalty">>), F("frequencyPenalty", <<"frequency_penalty">>), F("stop", <<"stop">>),
      Tier("tier", {<<"auto">>})>>

CompletionsContent ==
    <<Block("messages", <<"messages">>, {}, One(Lit("messages"))),
      Block("moderation", <<"moderation">>, {<<"has", "nativeModeration">>}, One(Lit("moderation"))),
      Block("promptCacheOptions", <<"prompt_cache_options">>, {<<"flavor", "openai">>, <<"has", "promptCacheOptions">>},
            One(Get("promptCacheOptions"))),
      Block("audio", <<>>, {<<"any", {<<"has", "audioInput">>, <<"has", "audioOutput">>}>>},
            (<<"modalities">> :> Lit("text and audio")) @@ (<<"audio", "voice">> :> Lit("voice"))
            @@ (<<"audio", "format">> :> Lit("format")))>>

CompletionsTools ==
    <<Block("tools", <<"tools">>, {<<"has", "tools">>}, One(ToolsOf({"function"}))),
      Block("toolChoice.keyword", <<"tool_choice">>, Keyword, One(Get("toolChoice"))),
      Block("toolChoice.named", <<"tool_choice">>, Named,
            (<<"type">> :> Lit("function")) @@ (<<"function", "name">> :> Get("toolChoice.name"))),
      Block("reasoning", <<"reasoning_effort">>, Thinks, One(Look("reasoningEffort", "thinking.effort", {<<"medium">>}))),
      Block("structured", <<"response_format">>, {<<"has", "structured">>},
            (<<"type">> :> Lit("json_schema")) @@ (<<"json_schema">> :> Lit("schema")))>>

\* reasoning_effort is a string, but at OpenRouter it is kept in the object that is routing's too.
RefusesEffort == {<<"eq", "model", "grok-4.20">>}
CompletionsOverlays ==
    ("xai" :> <<Op("rename", <<"max_completion_tokens">>, <<"max_tokens">>),
                [Op("delete", <<"reasoning_effort">>, <<>>) EXCEPT !.when = RefusesEffort]>>)
    @@ ("openrouter" :> <<Op("rename", <<"max_completion_tokens">>, <<"max_tokens">>),
                          Op("openrouterOnline", <<>>, <<>>), Op("mergeFrom", <<>>, <<>>),
                          Op("rename", <<"reasoning_effort">>, <<"reasoning", "effort">>)>>)

Completions ==
    [Root EXCEPT !.tables = Tiers({}) @@ Efforts, !.fields = CompletionsFields,
                 !.blocks = CompletionsContent \o CompletionsTools, !.overlays = CompletionsOverlays]

ResponsesFields ==
    <<F("model", <<"model">>), F("system", <<"instructions">>), F("previousResponseId", <<"previous_response_id">>),
      F("maxTokens", <<"max_output_tokens">>), F("temperature", <<"temperature">>), F("topP", <<"top_p">>),
      [F("seed", <<"seed">>) EXCEPT !.when = {<<"flavor", "xai">>}], Tier("tier", {<<"auto">>})>>

\* The raw options are merged into what the comparison asks for.
ResponsesContent ==
    <<Block("input", <<"input">>, {}, One(Lit(<<"messages">>))),
      Block("moderation", <<"moderation">>, {<<"has", "nativeModeration">>}, One(Lit("moderation"))),
      Block("promptCacheOptions", <<"prompt_cache_options">>,
            {<<"flavor", "openai">>, <<"any", {<<"has", "promptCacheOptions">>, <<"has", "cacheDiagnostics">>}>>},
            (<<"comparison_response_id">> :> OnlyIf({<<"has", "cacheDiagnostics">>}, GetOr("cacheDiagnostics.compareWith", "null")))
            @@ (<<"mode">> :> Get("promptCacheOptions")))>>

ResponsesTools ==
    <<Block("tools", <<"tools">>, {<<"has", "tools">>}, One(ToolsOf({"function"} \cup Hosted))),
      Block("toolChoice.keyword", <<"tool_choice">>, Keyword, One(Get("toolChoice"))),
      Block("toolChoice.named", <<"tool_choice">>, Named,
            (<<"type">> :> Lit("function")) @@ (<<"name">> :> Get("toolChoice.name")))>>

\* What a hosted tool found is not in the answer unless it is asked for.
ResponsesReasoning ==
    <<Block("structured", <<"text">>, {<<"has", "structured">>}, <<"format">> :> Lit("schema")),
      Block("reasoning", <<"reasoning">>, Thinks,
            (<<"effort">> :> Look("reasoningEffort", "thinking.effort", {<<"medium">>}))
            @@ (<<"summary">> :> OnlyIf({<<"ne", "thinking.visibility", "hidden">>},
                                        Look("summaryByVisibility", "thinking.visibility", {<<"auto">>})))
            @@ (<<"mode">> :> Get("reasoningMode")) @@ (<<"context">> :> Get("thinking.context"))),
      Block("include", <<"include">>, {}, One(OnlyIf({<<"tool", "web_search">>, <<"has", "images">>}, Lit({"results"}))))>>

ResponsesOverlays ==
    ("xai" :> <<Op("xaiSystemIntoInput", <<>>, <<>>), [Op("delete", <<"reasoning">>, <<>>) EXCEPT !.when = RefusesEffort],
                Op("xaiServiceTier", <<>>, <<>>), Op("xaiCodeExecInclude", <<>>, <<>>)>>)
    @@ ("openrouter" :> <<Op("mergeFrom", <<>>, <<>>)>>)

Responses ==
    [Root EXCEPT !.tables = Tiers({"ultrafast"}) @@ Efforts
                            @@ ("summaryByVisibility" :> (("full" :> "auto") @@ ("summary" :> "concise"))),
                 !.fields = ResponsesFields, !.blocks = ResponsesContent \o ResponsesTools \o ResponsesReasoning,
                 !.overlays = ResponsesOverlays]

Config(name) == <<"generationConfig", name>>
Thoughts == Look("includeThoughts", "thinking.visibility", {<<TRUE>>})

Generate25Tables ==
    ("toolMode" :> (("auto" :> "AUTO") @@ ("none" :> "NONE") @@ ("required" :> "ANY")))
    @@ ("thinkingBudgets" :> (("low" :> 2048) @@ ("medium" :> 8192) @@ ("high" :> 16384) @@ ("max" :> 24576)))
    @@ ("thinkingLevels" :> (("low" :> "LOW") @@ ("medium" :> "MEDIUM") @@ ("high" :> "HIGH") @@ ("max" :> "HIGH")))
    @@ ("includeThoughts" :> (("full" :> TRUE) @@ ("summary" :> TRUE) @@ ("hidden" :> FALSE)))
    @@ ("requestTier" :> [t \in {"standard", "flex", "priority"} |-> t])

Generate25Fields ==
    <<F("maxTokens", Config("maxOutputTokens")), F("temperature", Config("temperature")), F("topP", Config("topP")),
      F("topK", Config("topK")), F("seed", Config("seed")), F("presencePenalty", Config("presencePenalty")),
      F("frequencyPenalty", Config("frequencyPenalty")), F("stop", Config("stopSequences")),
      [F("serviceTier", <<"serviceTier">>) EXCEPT !.table = <<"requestTier", {}>>],
      [F("toolChoice", <<"toolConfig", "functionCallingConfig", "mode">>) EXCEPT !.table = <<"toolMode", {<<"AUTO">>}>>]>>

Generate25Content ==
    <<Block("contents", <<"contents">>, {}, One(Lit("contents"))),
      Merged(Block("audio.output", <<"generationConfig">>, {<<"has", "audioOutput">>},
                   (<<"responseModalities">> :> Lit("AUDIO")) @@ (<<"speechConfig">> :> OnlyIf({<<"has", "voice">>}, Lit("voice"))))),
      Block("system", <<"systemInstruction">>, {<<"has", "system">>}, <<"parts">> :> Get("system"))>>

Generate25Tools ==
    <<Block("tools", <<"tools">>, {<<"any", {<<"tool", t>> : t \in {"function"} \cup HostedAtGemini}>>},
            One(ToolsOf({"function"} \cup HostedAtGemini)))>>

Generate25Thinking ==
    <<Block("thinking.budget", Config("thinkingConfig"), Thinks,
            (<<"includeThoughts">> :> Thoughts)
            @@ (<<"thinkingBudget">> :> Look("thinkingBudgets", "thinking.effort", {<<16384>>}))),
      Block("thinking.off.budget", Config("thinkingConfig"), {<<"eq", "thinking.mode", "off">>},
            <<"thinkingBudget">> :> Lit(0)),
      Merged(Block("structured", <<"generationConfig">>, {<<"has", "structured">>},
                   (<<"responseMimeType">> :> Lit("json")) @@ (<<"responseJsonSchema">> :> Lit("schema")))),
      Merged(Block("passthrough.generationConfig", <<"generationConfig">>, {<<"has", "modalities">>},
                   <<"responseModalities">> :> Get("modalities"))),
      Block("passthrough.cachedContent", <<"cachedContent">>, {<<"has", "cachedContent">>}, One(Get("cachedContent")))>>

Generate25 ==
    [Root EXCEPT !.constraints = {[tool |-> "code_interpreter", parts |-> {"document", "video"}]},
                 !.tables = Generate25Tables, !.fields = Generate25Fields,
                 !.blocks = Generate25Content \o Generate25Tools \o Generate25Thinking]

Generate3 ==
    [Root EXCEPT
        !.extends = "generate@2.5",
        !.removeBlocks = {"thinking.budget", "thinking.off.budget"},
        !.blocks =
            <<Block("thinking.level", Config("thinkingConfig"), Thinks,
                    (<<"includeThoughts">> :> Thoughts)
                    @@ (<<"thinkingLevel">> :> Look("thinkingLevels", "thinking.effort", {<<"HIGH">>}))),
              Block("thinking.off.level", Config("thinkingConfig"), {<<"eq", "thinking.mode", "off">>},
                    <<"thinkingLevel">> :> Lit("MINIMAL"))>>,
        !.place = <<Move("thinking.level", "before", "structured"), Move("thinking.off.level", "before", "structured")>>]

\* The Interactions API of the same models has names of its own, and the caller's tools only.
Of(name) == <<"generation_config", name>>
Interactions ==
    [Root EXCEPT
        !.tables = "thinkingLevel" :> (("low" :> "low") @@ ("medium" :> "medium") @@ ("high" :> "high") @@ ("max" :> "high")),
        !.fields =
            <<F("previousResponseId", <<"previous_interaction_id">>), F("system", <<"system_instruction">>),
              F("maxTokens", Of("max_output_tokens")), F("temperature", Of("temperature")), F("topP", Of("top_p")),
              F("topK", Of("top_k")), F("seed", Of("seed")), F("stop", Of("stop_sequences"))>>,
        !.blocks =
            <<Block("model", <<"model">>, {}, One(Lit("models"))), Block("input", <<"input">>, {}, One(Lit("messages"))),
              Block("tools", <<"tools">>, {<<"has", "tools">>}, One(ToolsOf({"function"}))),
              Block("thinking", Of("thinking_level"), Thinks, One(Look("thinkingLevel", "thinking.effort", {<<"high">>}))),
              Block("structured", <<"response_format">>, {<<"has", "structured">>},
                    (<<"mime_type">> :> Lit("json")) @@ (<<"schema">> :> Lit("schema")))>>]

Gemini == ("generate@2.5" :> Generate25) @@ ("generate@3" :> Generate3) @@ ("interactions" :> Interactions)
OpenAI == ("chat-completions" :> Completions) @@ ("responses" :> Responses)

-----------------------------------------------------------------------------
(* Composition.                                                              *)

\* The child replaces what has its key where it stands, and appends the rest.
MergeKeyed(base, child, key) ==
    LET Put(out, c) ==
            IF \E i \in DOMAIN out : out[i][key] = c[key]
            THEN [i \in DOMAIN out |-> IF out[i][key] = c[key] THEN c ELSE out[i]]
            ELSE Append(out, c)
    IN  FoldLeft(Put, base, child)

Names(blocks) == {blocks[i].name : i \in DOMAIN blocks}
IndexOf(blocks, name) == CHOOSE i \in DOMAIN blocks : blocks[i].name = name

\* Fault: a block is put after its anchor, wherever it was to go.
PlacedAfter(blocks, where) ==
    LET rest == SelectSeq(blocks, LAMBDA b : b.name # where.name)
    IN  InsertAt(rest, IndexOf(rest, where.anchor) + 1, blocks[IndexOf(blocks, where.name)])

Placed(blocks, where) ==
    LET moved == blocks[IndexOf(blocks, where.name)]
        rest == SelectSeq(blocks, LAMBDA b : b.name # where.name)
        j == IndexOf(rest, where.anchor)
    IN  InsertAt(rest, IF where.side = "before" THEN j ELSE j + 1, moved)

\* Fault: a removal that matches nothing is let through.
PresentOrNot(names, present) == TRUE
RequirePresent(names, present) == names \subseteq present

\* A removal or a placement that names nothing is refused.
ApplyDelta(base, delta) ==
    LET fields == MergeKeyed(base.fields, delta.fields, "to")
        blocks == MergeKeyed(base.blocks, delta.blocks, "name")
        left == SelectSeq(blocks, LAMBDA b : b.name \notin delta.removeBlocks)
        broken == \/ base.broken
                  \/ ~RequirePresent(delta.removeFields, {fields[i].to : i \in DOMAIN fields})
                  \/ ~RequirePresent(delta.removeBlocks, Names(blocks))
                  \/ \E k \in DOMAIN delta.place :
                        \/ {delta.place[k].name, delta.place[k].anchor} \cap Names(left) # {delta.place[k].name, delta.place[k].anchor}
                        \/ delta.place[k].name = delta.place[k].anchor
    IN  [delta EXCEPT !.tables = [t \in DOMAIN base.tables \cup DOMAIN delta.tables |->
                                     IF t \notin DOMAIN delta.tables THEN base.tables[t]
                                     ELSE IF t \notin DOMAIN base.tables THEN delta.tables[t]
                                     ELSE delta.tables[t] @@ base.tables[t]],
                      !.constraints = IF delta.constraints = {} THEN base.constraints ELSE delta.constraints,
                      !.fields = SelectSeq(fields, LAMBDA f : f.to \notin delta.removeFields),
                      !.blocks = IF broken THEN left ELSE FoldLeft(Placed, left, delta.place),
                      !.overlays = delta.overlays @@ base.overlays,
                      !.broken = broken]

\* The specs that id is made of, base first; <<>> if one is unknown or comes round again.
Chain(id) ==
    LET up[at \in DOMAIN family, seen \in SUBSET DOMAIN family] ==
            LET base == family[at].extends
            IN  IF base = "" THEN <<at>>
                ELSE IF base \in seen \cup {at} \/ base \notin DOMAIN family THEN <<>>
                ELSE LET above == up[base, seen \cup {at}]
                     IN  IF above = <<>> THEN <<>> ELSE Append(above, at)
    IN  IF id \in DOMAIN family THEN up[id, {}] ELSE <<>>

ResolveSpec(id) ==
    LET chain == Chain(id)
    IN  IF chain = <<>> THEN [Root EXCEPT !.broken = TRUE]
        ELSE FoldLeft(LAMBDA spec, next : ApplyDelta(spec, family[next]), family[Head(chain)], Tail(chain))

-----------------------------------------------------------------------------
(* Execution.                                                                *)

Truthy(req, key) == key \in DOMAIN req
Is(ask, key, v) == key \in DOMAIN ask.req /\ ask.req[key] = <<v>>
Tools(ask) == IF Truthy(ask.req, "tools") THEN ask.req["tools"][1] ELSE {}
Refused(ask, spec) == {c.tool : c \in {c \in spec.constraints : Truthy(ask.req, "part") /\ ask.req["part"][1] \in c.parts}}

\* Fault: a hosted tool goes with whatever else the request holds.
HasToolAnyway(t, ask, spec) == t \in Tools(ask)
HasTool(t, ask, spec) == t \in Tools(ask) \ Refused(ask, spec)

Holds(literal, ask, spec) ==
    CASE literal[1] = "has" -> Truthy(ask.req, literal[2])
      [] literal[1] = "no" -> ~Truthy(ask.req, literal[2])
      [] literal[1] = "eq" -> Is(ask, literal[2], literal[3])
      [] literal[1] = "ne" -> ~Is(ask, literal[2], literal[3])
      [] literal[1] = "flavor" -> ask.flavor = literal[2]
      [] literal[1] = "notFlavor" -> ask.flavor # literal[2]
      [] literal[1] = "tool" -> HasTool(literal[2], ask, spec)
Some(literal, ask, spec) ==
    IF literal[1] = "any" THEN \E l \in literal[2] : Holds(l, ask, spec) ELSE Holds(literal, ask, spec)
EvalCond(when, ask, spec) == \A literal \in when : Some(literal, ask, spec)

LookUp(table, ask, key, default) ==
    IF key \in DOMAIN ask.req /\ ask.req[key][1] \in DOMAIN table THEN {<<table[ask.req[key][1]]>>} ELSE default

\* What a template's leaf comes to: a value, or nothing.
EvalLeaf(expr, ask, spec) ==
    LET plain == IF expr[1] = "if" THEN expr[3] ELSE expr
    IN  CASE expr[1] = "if" /\ ~EvalCond(expr[2], ask, spec) -> {}
          [] plain[1] = "lit" -> {<<plain[2]>>}
          [] plain[1] = "get" -> IF plain[2] \in DOMAIN ask.req THEN {ask.req[plain[2]]} ELSE plain[3]
          [] plain[1] = "look" -> LookUp(spec.tables[plain[2]], ask, plain[3], plain[4])
          [] plain[1] = "tools" -> {<<{t \in plain[2] : HasTool(t, ask, spec)}>>}
Only(S) == CHOOSE v \in S : TRUE
EvalTemplate(template, ask, spec) ==
    [p \in {q \in DOMAIN template : EvalLeaf(template[q], ask, spec) # {}} |-> Only(EvalLeaf(template[p], ask, spec))]

\* set_path and delete_path: what stood at a path, or in its way, is gone.
Without(f, p) == Restrict(f, {q \in DOMAIN f : ~IsPrefix(p, q) /\ ~IsStrictPrefix(q, p)})
At(f, p) == [s \in {SubSeq(q, Len(p) + 1, Len(q)) : q \in {q \in DOMAIN f : IsPrefix(p, q)}} |-> f[p \o s]]
Under(p, leaves) == [q \in {p \o s : s \in DOMAIN leaves} |-> leaves[SubSeq(q, Len(p) + 1, Len(q))]]
SetPath(f, p, leaves) == Under(p, leaves) @@ Without(f, p)
DeepMerge(f, p, leaves) ==
    FoldSet(LAMBDA s, g : SetPath(g, p \o s, <<>> :> leaves[s]), f, DOMAIN leaves)

Change(f, how, p, leaves) ==
    CASE how = "set" -> SetPath(f, p, leaves) [] how = "merge" -> DeepMerge(f, p, leaves) [] how = "delete" -> Without(f, p)

\* Where the body holds an object of the caller's, both are written to.
Written(st, how, p, leaves) ==
    LET shared == Len(p) > 1 /\ p[1] \in st.shared
    IN  [st EXCEPT !.body = Change(@, how, p, leaves), !.options = IF shared THEN Change(@, how, p, leaves) ELSE @]

ApplyField(st, f, ask, spec) ==
    LET said == IF f.from \in DOMAIN ask.req THEN {ask.req[f.from]} ELSE f.default
        value == IF f.table = <<>> \/ said = {} THEN said ELSE LookUp(spec.tables[f.table[1]], ask, f.from, f.table[2])
    IN  IF value = {} \/ ~EvalCond(f.when, ask, spec) THEN st
        ELSE Written(st, "set", f.to, <<>> :> Only(value))

\* Fault: a block that is to be merged replaces what is there.
ReplacesAlways(b) == FALSE
Merges(b) == b.merge

\* Fault: the limit is raised to the budget.
LiftToBudget(body) ==
    LET budget == <<"thinking", "budget_tokens">>
    IN  IF budget \in DOMAIN body /\ body[<<"max_tokens">>][1] < body[budget][1]
        THEN [body EXCEPT ![<<"max_tokens">>] = body[budget]] ELSE body

\* Anthropic wants more tokens than there are to think with.
LiftMaxTokens(body) ==
    LET budget == <<"thinking", "budget_tokens">>
    IN  IF budget \notin DOMAIN body \/ body[<<"max_tokens">>][1] > body[budget][1] THEN body
        ELSE [body EXCEPT ![<<"max_tokens">>] = <<body[budget][1] + 1024>>]

\* Without a path, the template's keys are the body's.
ApplyBlock(st, b, ask, spec) ==
    LET leaves == EvalTemplate(b.template, ask, spec)
        set == Written(st, IF Merges(b) \/ b.to = <<>> THEN "merge" ELSE "set", b.to, leaves)
    IN  IF ~EvalCond(b.when, ask, spec) \/ leaves = <<>> THEN st
        ELSE IF b.effects = <<>> THEN set ELSE [set EXCEPT !.body = LiftMaxTokens(@)]

\* OpenRouter searches the web by another model's name, and takes no empty list of tools.
Online(body, ask) ==
    LET model == IF "web_search" \in Tools(ask) THEN (<<"model">> :> <<"online">>) @@ body ELSE body
    IN  IF <<"tools">> \in DOMAIN body /\ body[<<"tools">>] = <<{}>> THEN Without(model, <<"tools">>) ELSE model

\* xAI takes what the system says as the first item of the input.
SystemIntoInput(body) ==
    IF <<"instructions">> \notin DOMAIN body THEN body
    ELSE Without([body EXCEPT ![<<"input">>] = <<<<"system">> \o @[1]>>], <<"instructions">>)

\* It has two tiers, and 400s on the others.
XaiTier(body, ask) ==
    LET tier == LookUp(("priority" :> "priority") @@ ("standard" :> "default") @@ ("default" :> "default"), ask, "serviceTier", {})
        rest == Without(body, <<"service_tier">>)
    IN  IF tier = {} THEN rest ELSE (<<"service_tier">> :> Only(tier)) @@ rest

\* Fault: what was to be included is replaced.
IncludeInstead(body, ask) == IF "code_interpreter" \in Tools(ask) THEN SetPath(body, <<"include">>, <<>> :> <<{"outputs"}>>) ELSE body
CodeExecInclude(body, ask) ==
    LET base == IF <<"include">> \in DOMAIN body THEN body[<<"include">>][1] ELSE {}
    IN  IF "code_interpreter" \notin Tools(ask) THEN body ELSE SetPath(body, <<"include">>, <<>> :> <<base \cup {"outputs"}>>)

\* Options are merged at the top, an object as it is.
MergeFrom(st) ==
    LET tops == {q[1] : q \in DOMAIN st.options}
        own == Restrict(st.body, {q \in DOMAIN st.body : q[1] \notin tops})
    IN  [st EXCEPT !.body = st.options @@ own, !.shared = {q[1] : q \in {q \in DOMAIN st.options : Len(q) > 1}}]

ApplyOp(st, op, ask, spec) ==
    IF ~EvalCond(op.when, ask, spec) THEN st
    ELSE CASE op.kind = "rename" ->
                IF At(st.body, op.from) = <<>> THEN st
                ELSE LET value == At(st.body, op.from)
                         set == Written(st, "set", op.to, value)
                     IN  Written(set, "delete", op.from, <<>>)
           [] op.kind = "delete" -> Written(st, "delete", op.from, <<>>)
           [] op.kind = "mergeFrom" -> MergeFrom(st)
           [] op.kind = "openrouterOnline" -> [st EXCEPT !.body = Online(@, ask)]
           [] op.kind = "xaiSystemIntoInput" -> [st EXCEPT !.body = SystemIntoInput(@)]
           [] op.kind = "xaiServiceTier" -> [st EXCEPT !.body = XaiTier(@, ask)]
           [] op.kind = "xaiCodeExecInclude" -> [st EXCEPT !.body = CodeExecInclude(@, ask)]

\* build_from_spec: the fields, the blocks in their order, and the flavor's overlay.
BuildFromSpec(spec, ask, from) ==
    LET ops == IF ask.flavor \in DOMAIN spec.overlays THEN spec.overlays[ask.flavor] ELSE <<>>
        start == [body |-> <<>>, options |-> from, shared |-> {}]
        fields == FoldLeft(LAMBDA st, f : ApplyField(st, f, ask, spec), start, spec.fields)
        blocks == FoldLeft(LAMBDA st, b : ApplyBlock(st, b, ask, spec), fields, spec.blocks)
    IN  FoldLeft(LAMBDA st, op : ApplyOp(st, op, ask, spec), blocks, ops)

NoBody == [ask |-> [spec |-> "", flavor |-> "", req |-> <<>>], body |-> <<>>, own |-> <<>>, notes |-> {}]

Init ==
    /\ family \in {Anthropic, OpenAI, Gemini} \cup Others /\ resolved = <<>>
    /\ given \in Given /\ options = given /\ built = NoBody /\ calls = 0

\* chat_spec: a spec is composed once, and what cannot be composed is not kept.
ChatSpec(id) ==
    /\ calls = 0 /\ id \notin DOMAIN resolved /\ ~ResolveSpec(id).broken
    /\ resolved' = (id :> ResolveSpec(id)) @@ resolved
    /\ UNCHANGED <<family, options, given, built, calls>>

\* A call with the options that the last one used; when that left them as they were, it is a first one
\* again. What else is composed has no part in it, and Next builds where nothing else is.
Build(ask) ==
    /\ calls < MaxCalls /\ (calls = 0 \/ options # given)
    /\ calls' = calls + 1
    /\ LET st == BuildFromSpec(resolved[ask.spec], ask, options)
       IN  /\ options' = st.options
           /\ built' = [ask |-> ask, body |-> st.body, own |-> BuildFromSpec(resolved[ask.spec], ask, given).body,
                       notes |-> Tools(ask) \cap Refused(ask, resolved[ask.spec])]
    /\ UNCHANGED <<family, resolved, given>>

Next ==
    \/ \E id \in DOMAIN family : ChatSpec(id)
    \/ \E ask \in {ask \in Asked : DOMAIN resolved = {ask.spec}} : Build(ask)

Spec == Init /\ [][Next]_wireVars

TypeOK ==
    /\ calls \in 0 .. MaxCalls
    /\ \A p \in DOMAIN built.body : Len(p) \in 1 .. 3 /\ Len(built.body[p]) = 1

-----------------------------------------------------------------------------
\* Whether a resolved spec has the blocks that its chain says, in the order it says: by when
\* each was last brought in, and beside its anchor where the last delta puts it.
Born(chain, name) ==
    LET gone == {k \in DOMAIN chain : name \in family[chain[k]].removeBlocks}
        came == {k \in DOMAIN chain : name \in Names(family[chain[k]].blocks) /\ \A j \in gone : j < k}
    IN  IF came = {} THEN 0 ELSE Min(came)
Moved(chain) == UNION {{family[id].place[k].name : k \in DOMAIN family[id].place} : id \in ToSet(chain)}
StandsWhere(blocks, where) ==
    IF where.side = "before" THEN IndexOf(blocks, where.name) < IndexOf(blocks, where.anchor)
    ELSE IndexOf(blocks, where.name) > IndexOf(blocks, where.anchor)

\* A spec that extends others removes only what they define, has each block that one of them brings in and no later one
\* removes, once, as the last of them wrote it, in the order they came but for those that
\* were placed, and each placement of its own holds whose anchor it does not place
\* ("Block ORDER is load-bearing", apply_delta).
InheritTrue ==
    \A id \in DOMAIN resolved :
        LET chain == Chain(id)
            blocks == resolved[id].blocks
            all == UNION {Names(family[c].blocks) : c \in ToSet(chain)}
            Writes(k, name) == name \in Names(family[chain[k]].blocks)
            Before(k) == UNION {Names(family[chain[j]].blocks) : j \in 1 .. k}
        IN  /\ \A k \in DOMAIN chain : family[chain[k]].removeBlocks \subseteq Before(k)
            /\ Names(blocks) = {name \in all : Born(chain, name) > 0} /\ Len(blocks) = Cardinality(Names(blocks))
            /\ \A i \in DOMAIN blocks :
                  LET by == family[chain[Max({k \in DOMAIN chain : Writes(k, blocks[i].name)})]].blocks
                  IN  blocks[i] = by[IndexOf(by, blocks[i].name)]
            /\ \A i, j \in DOMAIN blocks :
                  (i < j /\ {blocks[i].name, blocks[j].name} \cap Moved(chain) = {})
                      => Born(chain, blocks[i].name) <= Born(chain, blocks[j].name)
            /\ \A k \in DOMAIN family[id].place :
                  family[id].place[k].anchor \in Moved(<<id>>) \/ StandsWhere(blocks, family[id].place[k])

Has(path) == path \in DOMAIN built.body
Era(ids) == built.ask.spec \in ids

\* Whatever is asked for, the body is one that its provider takes, as it was measured: no field
\* the model's era refuses, more tokens than there are to think with, one name for the limit,
\* structure and effort both where both were asked for, and no tool beside a part it is refused
\* with, which the caller is told of, nor an empty list of tools where that is refused; what
\* the answer is to hold is asked for, all of it, the system's words are said once, and a tier is
\* one that the surface takes, but for chat completions at xAI (messages@4.7,
\* liftMaxTokensAboveBudget, toolConstraints, openrouterOnline, generate@3, xaiCodeExecInclude,
\* xaiSystemIntoInput, openai_tier_decision, xai_request_tier).
BodyTaken ==
    LET req == built.ask.req
        thinking == <<"generationConfig", "thinkingConfig">>
        Empty == Has(<<"tools">>) /\ built.body[<<"tools">>] = <<{}>>
    IN  /\ Has(<<"thinking", "budget_tokens">>) =>
              /\ Era({"messages@4.0", "messages@4.1"})
              /\ built.body[<<"max_tokens">>][1] > built.body[<<"thinking", "budget_tokens">>][1]
        /\ Era({"messages@4.0"}) => ~Has(<<"top_k">>)
        /\ Era({"messages@4.7"}) => (~Has(<<"top_k">>) /\ ~Has(<<"temperature">>))
        /\ Era({"messages@4.6", "messages@4.7"}) =>
              /\ Truthy(req, "structured") => Has(<<"output_config", "format">>)
              /\ (Truthy(req, "thinking.effort") /\ ~Is(built.ask, "thinking.mode", "off")) => Has(<<"output_config", "effort">>)
        /\ Era({"chat-completions"}) => (Has(<<"max_tokens">>) <=> ~Has(<<"max_completion_tokens">>))
        /\ Era({"chat-completions"}) /\ built.ask.flavor = "openrouter" => (Has(<<"max_tokens">>) /\ ~Has(<<"reasoning_effort">>))
        /\ Era({"generate@3"}) => ~Has(Append(thinking, "thinkingBudget"))
        /\ Era({"chat-completions"}) /\ built.ask.flavor = "openrouter" => ~Empty
        /\ Era({"generate@2.5", "generate@3"}) => ~Empty
        /\ Era({"responses"}) =>
              LET included == IF Has(<<"include">>) THEN built.body[<<"include">>][1] ELSE {}
                  words == SelectSeq(built.body[<<"input">>][1], LAMBDA item : item = "system")
              IN  /\ "results" \in included <=> (Truthy(req, "images") /\ "web_search" \in Tools(built.ask))
                  /\ built.ask.flavor = "xai" => ("outputs" \in included <=> "code_interpreter" \in Tools(built.ask))
                  /\ (IF Truthy(req, "system") THEN 1 ELSE 0) = Len(words) + (IF Has(<<"instructions">>) THEN 1 ELSE 0)
                  /\ Has(<<"seed">>) => built.ask.flavor = "xai"
                  /\ Is(built.ask, "model", "grok-4.20") /\ built.ask.flavor = "xai" => ~Has(<<"reasoning", "effort">>)
        /\ Era({"responses", "chat-completions"}) /\ Has(<<"service_tier">>) =>
              LET tier == built.body[<<"service_tier">>][1]
              IN  CASE Era({"responses"}) /\ built.ask.flavor = "xai" -> tier \in {"default", "priority"}
                    [] Era({"chat-completions"}) -> tier # "ultrafast"
                    [] OTHER -> tier # "standard"
        /\ Era({"generate@2.5", "generate@3"}) =>
              LET asked == Tools(built.ask)
                  sent == IF Has(<<"tools">>) THEN built.body[<<"tools">>][1] ELSE {}
              IN  /\ asked = sent \cup built.notes /\ sent \cap built.notes = {}
                  /\ "code_interpreter" \in sent => ~Is(built.ask, "part", "document")

\* A body is made of its own request, whatever was built before with the same options, but where
\* OpenRouter's effort goes into an object of the caller's.
BuiltAlone ==
    built.body = built.own \/ (built.ask.flavor = "openrouter" /\ \E p \in DOMAIN given : p[1] = "reasoning")

WireTrue == InheritTrue /\ BodyTaken /\ BuiltAlone

\* What the caller passes stays as the caller made it (build_from_spec).
OptionsKept == options = given
=============================================================================
