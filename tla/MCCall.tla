------------------------------- MODULE MCCall -------------------------------
(***************************************************************************)
(* One call, for TLC: the synchronous executor that carries it             *)
(* (RequestExecutor, with the policies given first), the ledger it is      *)
(* entered in (ClientCalls), the cache it may be answered from             *)
(* (AnswerCache), the body it is sent with (WireSpec), the turns in that   *)
(* (Messages), the frames that its answer streams in (SseFramer) and the   *)
(* answer as it is read from them or whole (Answers), on small instances.  *)
(* They share no state, and each behaviour is one of them; the executor is *)
(* idle in the others'.                                                    *)
(***************************************************************************)
EXTENDS RequestExecutor, Sequences, FiniteSets, TLC

CONSTANTS
    Apis, MaxItems, MaxBytes, MaxChunk,
    Threads, Rates, TierRates, AskedFor, Listed, MaxCalls, MaxRepairs, MaxClears,
    Readers, CacheNames, CacheKeys, Lifetimes, DefaultLifetime, MaxSets, MaxAge

ASSUME CallAssumption ==
    /\ IsFiniteSet(Threads) /\ AskedFor \subseteq STRING \X STRING
    /\ \A m \in DOMAIN Rates : Rates[m] \in Nat
    /\ \A m \in DOMAIN TierRates : \A t \in DOMAIN TierRates[m] : TierRates[m][t] \in Nat
    /\ CacheNames \subseteq Seq(STRING) /\ CacheKeys \subseteq Seq(STRING)
    /\ Lifetimes \subseteq Nat /\ DefaultLifetime \in Nat
    /\ {MaxCalls, MaxRepairs, MaxClears, MaxSets, MaxAge} \subseteq Nat

\* The default policy is DEFAULT_RETRY scaled down: two kinds worth retrying (one more patiently than
\* the queue's default) and one that is not, a budget of a few ticks, and a backoff that grows into
\* its ceiling.
MCDefault ==
    [maxRetries |-> 1, totalTimeout |-> 5, attemptTimeout |-> 2, maxRetryAfter |-> 2,
     backoff |-> [initial |-> 1, ceiling |-> 2, multiplier |-> 2, jitter |-> 50],
     perKind |-> [rate_limit |-> [retryable |-> "yes", maxRetries |-> 3, fixed |-> Unset],
                  timeout    |-> [retryable |-> "yes", maxRetries |-> Unset, fixed |-> Unset],
                  auth       |-> [retryable |-> "no", maxRetries |-> Unset, fixed |-> Unset]]]

Nothing ==
    [maxRetries |-> Unset, totalTimeout |-> Unset, attemptTimeout |-> Unset,
     maxRetryAfter |-> Unset,
     backoff |-> [initial |-> Unset, ceiling |-> Unset, multiplier |-> Unset, jitter |-> Unset],
     perKind |-> <<>>]

\* A layer that sets one knob, one backoff knob, or one kind's rule.
Patient == [Nothing EXCEPT !.totalTimeout = 7, !.maxRetries = 2]
Steady == [Nothing EXCEPT !.backoff.multiplier = 1, !.backoff.jitter = 0]
Fixed == [Nothing EXCEPT !.perKind =
             [k \in {"rate_limit"} |-> [retryable |-> "unset", maxRetries |-> Unset, fixed |-> 1]]]

MCEngineLayers == {Nothing, Patient}
MCQueueLayers == {Nothing, Steady, Fixed}
MCRequestLayers ==
    {Nothing, [Nothing EXCEPT !.maxRetries = 0], [Nothing EXCEPT !.totalTimeout = 3]}

MCBodies ==
    {[replayable |-> TRUE, stateful |-> FALSE, override |-> "none", approved |-> FALSE],
     [replayable |-> FALSE, stateful |-> FALSE, override |-> "none", approved |-> FALSE],
     [replayable |-> TRUE, stateful |-> TRUE, override |-> "mapping", approved |-> FALSE],
     [replayable |-> TRUE, stateful |-> TRUE, override |-> "mapping", approved |-> TRUE],
     [replayable |-> TRUE, stateful |-> TRUE, override |-> "dataclass", approved |-> TRUE]}

AnError(kind, retryable, after) ==
    [kind |-> kind, retryable |-> retryable, vetoed |-> FALSE, retryAfter |-> after]
MCTimeoutError == AnError("timeout", TRUE, Unset)
MCErrors ==
    {AnError("rate_limit", TRUE, 1), AnError("rate_limit", TRUE, 3),
     AnError("rate_limit", TRUE, Unset), AnError("auth", FALSE, Unset),
     [MCTimeoutError EXCEPT !.vetoed = TRUE]}

VARIABLES
    what,
    call, calls, answers, ledger, sum, warned, warnings, clears, notes,
    durable, rows, others, truth, sets, time, get,
    bytes, framer, events, over,
    api, items, wire, reading, acc, told, reason,
    family, resolved, options, passed, built, bodies,
    keeper, surface, transcript, named, heard, sending, stage, steps, yielded

Framed == INSTANCE SseFramer WITH EmptyChunks <- FALSE, body <- bytes

Answered == INSTANCE Answers WITH out <- reading, ending <- reason

\* A model that has a price and one tier's, one that is free, and one that has no price.
MCRates == ("gpt" :> 2) @@ ("free" :> 0)
MCTierRates == "gpt" :> ("flex" :> 1)
MCAskedFor == {<<"gpt", "flex">>, <<"gpt", "ultra">>, <<"new", "flex">>}
Billed == INSTANCE ClientCalls WITH
    Callers <- Threads, Asked <- AskedFor, Torn <- FALSE, ClearsAnytime <- FALSE, total <- sum

MCNames == {<<"t">>, <<"u">>}
MCKeys == {<<"k">>}
Cached == INSTANCE AnswerCache WITH
    Names <- CacheNames, Keys <- CacheKeys, MaxTime <- MaxAge, Clears <- TRUE, Torn <- FALSE

\* Three specs, the second and third with every kind of delta.
W == INSTANCE WireSpec WITH Others <- {}, Asked <- {}, Given <- {}, MaxCalls <- 0, given <- passed, calls <- bodies
Says(names, v) == [i \in DOMAIN names |-> W!Block(names[i], <<names[i]>>, {}, <<>> :> W!Lit(v))]
Deltas(on, v, defines, removes) ==
    {[W!Root EXCEPT !.extends = on, !.blocks = Says(d, v), !.removeBlocks = r, !.place = p] :
        d \in defines, r \in removes,
        p \in {<<>>, <<W!Move("c", "before", "a")>>, <<W!Move("a", "after", "b")>>, <<W!Move("d", "before", "b")>>}}
MCOthers ==
    {("one" :> [W!Root EXCEPT !.blocks = Says(<<"a", "b", "c">>, 1)]) @@ ("two" :> d) @@ ("three" :> e) :
        d \in Deltas("one", 2, {<<>>, <<"a">>, <<"d">>}, {{}, {"a"}, {"c"}}),
        e \in Deltas("two", 3, {<<"b">>, <<"a", "d">>}, {{}, {"a"}, {"d"}})}

\* Every mix of a limit, a way to think, sampling and structure, every mix of tools, an attached
\* document, a choice of tools and the rest, and every mix of a model, a tier and the system's words, of each
\* of the shipped specs.
Unsaid(key, values) == {<<>>} \cup {key :> <<v>> : v \in values}
Thinking ==
    {<<>>, "thinking" :> <<"t">>, ("thinking" :> <<"t">>) @@ ("thinking.mode" :> <<"on">>) @@ ("thinking.visibility" :> <<"hidden">>)}
    \cup {("thinking" :> <<"t">>) @@ ("thinking.mode" :> <<m>>) @@ ("thinking.effort" :> <<"high">>) : m \in {"on", "off", "between_tools"}}
MCReqs ==
    {l @@ t @@ s @@ f :
        l \in Unsaid("maxTokens", {100, 9000}), t \in Thinking, f \in Unsaid("structured", {"s"}),
        s \in {<<>>, ("temperature" :> <<"t">>) @@ ("topK" :> <<"k">>) @@ ("seed" :> <<"s">>)}}
    \cup
    {t @@ p @@ c @@ s @@ ("model" :> <<"m">>) :
        t \in Unsaid("tools", {{"function"}, {"web_search"}, {"code_interpreter"}, {"function", "code_interpreter", "web_search", "file_search"}}),
        p \in Unsaid("part", {"document", "image"}),
        c \in Unsaid("toolChoice", {"required"}) \cup {("toolChoice" :> <<"named">>) @@ ("toolChoice.name" :> <<"f">>)},
        s \in {<<>>, ("system" :> <<"s">>) @@ ("serviceTier" :> <<"flex">>) @@ ("images" :> <<"i">>) @@ ("audioOutput" :> <<"y">>) @@ ("modalities" :> <<"m">>)}}
    \cup
    {m @@ t @@ c @@ s : m \in {"model" :> <<n>> : n \in {"m", "grok-4.20"}}, t \in {<<>>, "thinking" :> <<"t">>},
        c \in Unsaid("serviceTier", {"standard", "priority", "ultrafast"}), s \in Unsaid("system", {"s"})}
MCAsked ==
    {[spec |-> s[1], flavor |-> s[2], req |-> r] : r \in MCReqs,
        s \in ({"messages@4.0", "messages@4.1", "messages@4.6", "messages@4.7"} \X {"anthropic"})
              \cup ({"chat-completions", "responses"} \X {"openai", "xai", "openrouter"})
              \cup ({"generate@2.5", "generate@3", "interactions"} \X {"google"})}

\* What the caller may have set for OpenRouter, which only OpenAI's formats read.
MCGiven == {<<>>, <<"provider">> :> <<"p">>, <<"reasoning", "max_tokens">> :> <<100>>}

Wired == INSTANCE WireSpec WITH
    Others <- MCOthers, Asked <- MCAsked, MaxCalls <- 2, given <- passed, calls <- bodies,
    Given <- MCGiven

\* A user who is heard, one who shows by reference, by address and sets an effort; answers without a part,
\* with two calls, and with a program; tools that show, that are heard and return rows, and that list strings.
P(part, form) == [kind |-> part, form |-> form, id |-> <<>>, name |-> "", of |-> <<>>]
MCOpenings == {
    <<P("audio", "base64"), P("text", "")>>,
    <<P("image", "provider_ref"), P("document", "url"), P("configuration_update", ""), P("text", "")>>}
MCYields == {<<P("image", "base64"), P("text", "")>>, <<P("audio", "url"), P("row", "")>>, <<P("bare", "")>>}
Turned == INSTANCE Messages WITH
    Surfaces <- {"messages", "completions", "responses", "generate", "interactions"},
    Openings <- MCOpenings, Yields <- MCYields, MaxTurns <- 3, MaxSteps <- 2, names <- named, request <- sending,
    Shapes <- {<<>>, <<"tool_call", "tool_call">>, <<"text", "program_call", "tool_call">>}

callVars == <<layers, body, pc, attempt, elapsed, took, delay, error, outcome>>
billedVars == <<call, calls, answers, ledger, sum, warned, warnings, clears, notes>>
cachedVars == <<durable, rows, others, truth, sets, time, get>>
framedVars == <<bytes, framer, events, over>>
answeredVars == <<api, items, wire, reading, acc, told, reason>>
wiredVars == <<family, resolved, options, passed, built, bodies>>
turnedVars == <<keeper, surface, transcript, named, heard, sending, stage, steps, yielded>>
answerVars == <<framedVars, answeredVars>>
allVars == <<what, callVars, billedVars, cachedVars, wiredVars, turnedVars, answerVars>>

CallInit ==
    /\ what \in {"call", "billed", "cached", "wired", "turned", "framed", "answered"}
    /\ what = "call" \/ /\ layers = [engine |-> Nothing, queue |-> Nothing, request |-> Nothing]
                         /\ body \in {b \in MCBodies : b.replayable /\ ~b.stateful}
    /\ what = "cached" \/ durable = TRUE
    /\ what = "wired" \/ (family = Wired!Gemini /\ passed = <<>>)
    /\ what = "answered" \/ api = "messages"
    /\ what = "turned" \/ (keeper = "loop" /\ surface = "messages")
    /\ passed = <<>> \/ (family = Wired!OpenAI /\ passed \in MCGiven \ {<<>>})
    /\ Init /\ Billed!Init /\ Cached!Init /\ Wired!Init /\ Turned!Init
    /\ Framed!Init /\ Answered!Init

CallNext ==
    \/ what = "call" /\ Next /\ UNCHANGED <<what, billedVars, cachedVars, wiredVars, turnedVars, answerVars>>
    \/ what = "billed" /\ Billed!Next /\ UNCHANGED <<what, callVars, cachedVars, wiredVars, turnedVars, answerVars>>
    \/ what = "cached" /\ Cached!Next /\ UNCHANGED <<what, callVars, billedVars, wiredVars, turnedVars, answerVars>>
    \/ what = "wired" /\ Wired!Next /\ UNCHANGED <<what, callVars, billedVars, cachedVars, turnedVars, answerVars>>
    \/ what = "turned" /\ Turned!Next /\ UNCHANGED <<what, callVars, billedVars, cachedVars, wiredVars, answerVars>>
    \/ /\ \/ what = "framed" /\ Framed!Next /\ UNCHANGED answeredVars
          \/ what = "answered" /\ Answered!Next /\ UNCHANGED framedVars
       /\ UNCHANGED <<what, callVars, billedVars, cachedVars, wiredVars, turnedVars>>

\* Only the executor's thread is fair, once it has been called.
CallSpec == CallInit /\ [][CallNext]_allVars /\ WF_vars(pc # "new" /\ Next)

\* The state of the one that the behaviour is keeps its type.
CallTypeOK ==
    /\ what = "call" => TypeOK
    /\ what = "billed" => Billed!TypeOK
    /\ what = "cached" => Cached!TypeOK
    /\ what = "wired" => Wired!TypeOK
    /\ what = "turned" => Turned!TypeOK
    /\ what = "framed" => Framed!TypeOK
    /\ what = "answered" => Answered!TypeOK

\* The body sent is the one its spec, with all that it extends, makes of the request, and one the
\* provider takes (apply_delta, build_from_spec), with every turn of the conversation in the form of the
\* provider, its calls answered and what is lost told of (build_message, build_input_items);
\* of the answer, the events are read however it was cut into chunks (_Framer.feed), and are the answer
\* it would have been whole (build_response, StreamAccumulator.to_response).
SpokenTrue ==
    /\ what = "wired" => Wired!WireTrue
    /\ what = "turned" => Turned!MessagesTrue
    /\ what = "framed" => Framed!FramedTrue
    /\ what = "answered" => Answered!AnswerTrue

\* What is paid for is in the ledger once, the total is the ledger's, what has no price is warned of
\* once (CostCollector), and an answer kept is given under its own name and key, and not when it
\* is old (Cache.get).
LedgerTrue ==
    /\ what = "billed" => Billed!CallsTrue
    /\ what = "cached" => Cached!CacheTrue

\* A history that is not continued on the server is sent whole (resolve_server_state).
WholeOrContinued == what = "turned" => Turned!WholeOrContinued
=============================================================================
