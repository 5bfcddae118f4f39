# A TLA+ verification of combycode_llm_sdk

The modules in this directory model the stateful and concurrent parts of the SDK under
`src/src/combycode_llm_sdk/`, and of its conversions those that a state or an order
matters to. TLC checks them on small instances and TLAPS proves the main properties of
twenty-one of them for every value of the constants. Paths below are relative to
`src/src/combycode_llm_sdk/`.

To check everything by hand, in this directory:

    tlc -workers 2 -config QueueState.cfg QueueState.tla     # and the other cfgs
    tlapm QueueStateProofs.tla     # and the other *Proofs modules

`PROJECT.json` lists every run, which definition models which lines, a mutant of the
code for every property, and the hazards the properties are for.

## 1. The system

An application calls an LLM client or an `AgentLoop`. The client builds a wire request
from a spec (`wire/`) and hands it to an engine: `NetworkEngine` (asyncio, one
`QueueState` for each named queue) or `helpers.engine.Engine` over
`network/executor.py` (synchronous). Both share the retry policy and the rate limiter,
and both report through hook handlers that run in the middle of what they do. The
answer comes as a body or as a stream of events, is made one response either way, and
is entered in the ledger. The agent loop alternates model calls and rounds of tool
calls, on worker threads if asked; tools may come from MCP servers, over stdio, HTTP or
a websocket, each with a reader thread of its own. Around these stand stores (cache,
persistence, response store), jobs (batches, schedules, media), guards (context, cost,
permissions), and helpers that make several calls one.

What interacts: the queue's worker with the limiter, the retry policy, callers that
leave and hooks that raise; the stdio reader with callers, handlers and `close()`; the
HTTP transport's threads with each other over one session, one token and one cursor;
the agent loop with its worker threads, approvers and the checkpoint; the context guard
with the history it rewrites inside the emit that measured it; the cache, the response
store and the schedule with other threads and processes over files.

### Components

| component | module | state and operations | what is hard |
|---|---|---|---|
| Rate limiter (`network/rate_limiter.py`) | Pacing, RateLimiter | three buckets; ask, wait, correct from headers, pause | a refill that looks into the future, an ask charged on one axis and refused on another |
| Retry policy (`network/retry.py`) | Pacing | none; five functions | which layer wins, waits the server named |
| Async queue (`network/queue_state.py`, `request_queue.py`) | QueueState | heap, worker, semaphore, attempts, chains of futures | every await is a place where a caller leaves, a hook raises or the heap fills |
| Sync executor (`network/executor.py`) | RequestExecutor | attempt, deadline, layers | the budget, what may be repeated |
| SSE (`network/sse.py`) | SseFramer | bytes kept between chunks | a chunk that ends inside a character or a line end |
| Wire interpreter and request specs (`wire/`) | WireSpec | none; inheritance and execution of specs as data | overlays that move what the caller still holds |
| Stream parsers (`llm/providers`, `agent/loop_stream.py`) | StreamedCalls, Answers | what one event needs of an earlier one | interleaved and cut streams |
| Transcripts (`helpers/agent_loop.py`, `llm/wire_transforms.py`, the adapters) | Messages | a transcript, the names of its calls | one shape spelled for five surfaces |
| Client (`llm/client*.py`, `cost_collector.py`) | ClientCalls, StreamedTurn, ServerState | usage, ledger, moderation, server state | two threads, hooks that answer or abort, a stream that is left |
| Answer cache (`cache.py`) | AnswerCache | rows with an age, namespaces | lookups that delete, names with colons |
| Agent loop (`agent/`) | AgentLoop | transcript, staged input, approvals, worker threads | a run that ends anywhere |
| History, context guard (`agent/history.py`, `context/`) | ContextGuard | entries, the provider's count, a level | cuts inside a round of tools |
| Fallback, moderation (`agent/fallback.py`, `llm/moderation/`) | StreamedTurn | position in a chain, text held | handing over in mid stream |
| MCP stdio (`mcp/stdio.py`, `transport.py`) | StdioTransport | pending tables, reader, child | timeouts, `close()`, registration against `_fail_all` |
| MCP client, HTTP, OAuth, subscriptions (`mcp/`) | McpSession, McpOAuth, McpStreams | era, session, tokens, cursor, result cache | one loss met by two threads |
| Batches (`batch/`, `helpers/batch.py`) | AutoBatcher | tickets, a window, one job | a second submit, a submit that fails |
| Files (`files/`) | FilesRegistry | attachments and references | references that expire inside a history |
| Retrieval (`retrieval/`) | Retrieval, Chunker | a hosted corpus; windows | an index that lags, a cursor that stands still |
| Realtime (`realtime/`) | RealtimeSession | outbox, ready, a queue of events | sends against the handshake |
| Server's responses, persistence (`server/`, `persistence.py`) | ResponseStore | a cache before files | crashes inside a write |
| Hook bus, telemetry (`bus/`, `telemetry.py`) | HookBus, Telemetry | handlers; open spans | emits that overlap |
| Scheduler (`scheduler.py`) | Scheduler | rows in a shared store | a crash between a call and its retire |
| Internal tools (`internal_tools/`) | InternalTools | merged view, pool of clients | two runs that build one client |
| Consolidation (`helpers/consolidate.py`) | Debate | rounds of agents | one of several failing |

| Media (`media/`) | Media | one call: a job at a provider's, assets and their sidecars | polling against a deadline, a save cut off, one asset of several failing |
| Tool access (`agent/loop.py`, `agent/lazy_tools.py`, `permissions.py`, `tool_catalog.py`, `approval.py`) | ToolAccess | the table of tools, scopes, what awaits a human | two names for one call, answers that outlive a process, globs |
| Shapes (`helpers/structured.py`, `helpers/json_schema.py`, `helpers/tool.py`, `llm/types/schema_utils.py`, `util/json_schema.py`) | Schemas | none but a call's own rounds | one meaning told three times: to the model, to the validator, to Python |

Each is right when: no axis hands out more than it was given (limiter); permits are
neither lost nor invented, every caller is answered once and the worker never sleeps on
work (queue); a call ends within its budget and repeats nothing unsafe (executor); each
answer reaches its own caller and an end wakes everybody (transports); every request
pairs each call with its result and nothing runs that a human did not allow (agent);
cuts keep pairs and the count belongs to what it covers (history); a ticket holds its
own answer (batches); what is kept is what was last acknowledged (stores); what is due
is called, once, and an interval apart (scheduler); one model speaks, whole, in order,
unread text held back, and the body and the stream tell the same (client).

### Without a model

HTTP itself (`network/transport.py`, `http_*.py`) is I/O without state between calls:
its outcomes are inputs of the engines. The MCP websocket shares
`BaseJsonRpcTransport` with stdio, and spawning is I/O. Facades under `helpers/` build
the parts above. Data types, formatting and the catalog's price lists are data.
PROJECT.json says of every component what is left out of it.

## 2. The modules

    rate_limiter.py                Pacing, RateLimiter          RateLimiterProofs
    retry.py                       Pacing
    queue_state.py, request_queue  QueueState                   QueueStateProofs
    executor.py                    RequestExecutor              CallProofs
    cost_collector.py, cache.py    ClientCalls, AnswerCache     CallProofs
    mcp/                           (MCMcp)                      McpProofs
    agent/loop.py, approval.py     AgentLoop                    AgentLoopProofs
    scheduler.py                   Scheduler                    SchedulerProofs
    context_guard.py, history.py   ContextGuard                 ConversationProofs
    llm/server_state.py            ServerState                  ConversationProofs
    retrieval/chunker.py           Chunker                      AroundProofs
    what stands around a request   (MCAround)                   AroundProofs

QueueState and RequestExecutor both implement RequestLifecycle.

QueueState and RequestExecutor are composed of Pacing, which has both the bucket of the
rpm axis and the retry policy. A small instance's values are in its cfg or at the end of
the module it is of. Four `MC*` modules take several components that share no state: a
variable `what`, chosen at the start, says which of them a behaviour is of, so that one
run asks them all.

    MCCall      RequestExecutor, WireSpec, Messages, SseFramer, Answers, ClientCalls,
                AnswerCache                                              (one call)
    MCAround    AutoBatcher, ContextGuard, ServerState, FilesRegistry, Chunker,
                Retrieval, RealtimeSession, ResponseStore, HookBus, Telemetry
    MCMcp       StdioTransport, McpSession, McpOAuth, McpStreams
    MCHelpers   Scheduler, InternalTools, Debate, Media, ToolAccess, Schemas,
                StreamedCalls, StreamedTurn

**Pacing (the bucket) / RateLimiter.** The code keeps a float level. The model counts it in
1/interval-ths of a token, so that a tick refills a whole number of units and nothing
is rounded away. `now` is `_now_ms`; `base` and `spent` are history: the level an axis
was last known to have, and what it handed out since. Each public method is an action;
`UpdateFromHeaders` sets the limit before the level as the code does.

**Pacing (the retry policy).** The functions as operators on records; durations are ticks, and the
jitter is the set of delays it can draw.

**RequestLifecycle.** What an engine owes its caller: a request is on the wire once at
a time and a bounded number of times, concurrency is bounded, the caller has one
answer, and a response only if something was sent.

**QueueState.** An action is what a coroutine does between two awaits that really
suspend. `worker`, `tasks`, `backoff` and `stream` hold where each coroutine is,
`future[r][k]` is the future of attempt k, passed back along the chain by `Forward`.
The worker's loop may pass several entries without suspending; `Yielded` keeps the
others out meanwhile. Hooks may raise at every emit (`HooksRaise`), and `Cancels` says
where a caller may be cancelled. Time is relative: ages, countdowns, and a bucket whose
`last` is measured from now.

**RequestExecutor.** `execute` from its first attempt to its answer: `Send`, `Succeed`,
`TookTooLong` (an answer past `attempt_timeout_ms` is thrown away), `Fail`, `Decide`,
the sleep and the budget.

**SseFramer.** `_Framer.feed` and `flush` on bytes named for what matters of them;
chunks are cut anywhere, and what was yielded is compared at every moment with what the
bytes so far say.

**WireSpec.** Inheritance (`inherit.py`) and execution (`build_from_spec`) of the
shipped request specs, a body being a function from paths to values, compared with what
each provider takes and with the same request built alone.

**StreamedCalls, Answers.** StreamedCalls takes the tool calls of a stream from the
provider's events through each parser's registry to the agent's step. Answers has a
provider say the items of an answer in any order it may, makes a response of it as a
body (`build_response`) and as a stream (`StreamAccumulator`), and compares the two and
what was said.

**StreamedTurn.** `LLMClient.stream` with the four moderation strategies, in a chain of
clients (`FallbackClient`). **ClientCalls**: `complete`, `structured_complete` and
`stream` of one client on several threads, down to `CostCollector.add` and its pricing
and warning, with hooks that abort, answer or raise. **AnswerCache**: `get`, `set`,
`invalidate`, `clear` over rows that others write too. **ServerState**: what a call
sends, an id and the new turns or all, against what the provider reads.

**StdioTransport.** Each access to the tables under `_lock` is one step; `Register` and
`Send` of a call are two, `CloseBegin` and `CloseEnd` of `close()` too. The reader
routes one line at a time and runs the handlers itself. The child answers, sends
messages of its own, floods or dies at any moment. **McpSession**: negotiation in
"auto", then sending, handling and reading of calls as separate steps against servers
that restart; **McpOAuth**: tokens of two servers behind one provider, refresh, step-up
and redirect by several threads; **McpStreams**: the listen and the GET streams, their
cursor, the subscription and the result cache.

**AgentLoop.** `pc` is where the run's own thread is, `call[i]` where the worker of the
i-th call is. A call is its turn and its index; `Id` is the id the provider gives it,
the same in every turn where `FreshIds` is false. `Listed`, `Snapshot`,
`SaveCheckpoint`, `Decide` and `Resolve` are the places where two workers can
interleave in `_await_approval`. `unheard` is history: calls whose body ran and whose
result no transcript holds.

**ContextGuard.** The history and its guard: entries with a kind, an id and a weight; the
provider's count and what it covers; `truncate`, `splice_range`, dump and restore; the
guard's ladder and the three strategies, inside the emit that measured.

**AutoBatcher** (tickets, windows, jobs that end in every way the four adapters know),
**FilesRegistry** (resolution of a request's file parts, in place),
**RealtimeSession** (reader, callers, consumer, closer), **ResponseStore** (cache,
temporary file and move as steps of their own), **HookBus** (emits that await),
**Telemetry** (spans out of hooks of several threads), **Chunker** (windows over the
places of spaces), **Retrieval** (upload, attach, index, wait, tear down at three
providers).

**Scheduler.** `store` is the shared store, by id; `handlers`, `todo` and `busy` are
what a process loses when it dies. `RunDue` reads what is due, `Skip`, `Start` and
`HandlerEnds` are the loop's turns, the last with `_retire` in it whatever way the
handler ends. Anything may happen while a handler runs. `made`, `starts`, `ended`,
`lost` and `cancelled` are history. Processes serve disjoint names
(`SchedulerAssumption`): run_due leaves a row for "one that does", and nothing in the
code would keep two that do from both calling it. **InternalTools**: the registry's
merged view over backends that change, the runner's chain and its pool. **Debate**: the
rounds of `consolidate` on threads and of `aconsolidate` gathered.

**Media.** One call of `MediaOutput` at a time (`op`), at one of the four adapters
(`vendor`; "imagen" is Google's other endpoint), into a `FileMediaStore` (`onDisk`) or a
`MemoryMediaStore`. `job` is a video's progress at the provider; `Again`, `NextPoll` and
`Woken` are the loop of `_await_video`. `Save` writes the bytes and then the sidecar,
either of which fails or is cut off; `Tell` is the one event of a batch. `Die` ends the
process anywhere and another takes up the directory.

**ToolAccess.** What a call of a tool passes before its body runs. `via` says whether the
loop, the catalog or the approval gate is used; they share no state. In the loop, `Admitted`
is `_execute_one` up to the body: the table, the guardrails, the schema, the rules of
`_gate_call` and the human of `_await_approval`, for a tool that is called by its name and
for one behind `call_tool`, whose rules are asked under the name behind it and with the
router's arguments. `Atoms` and `Matched` are `glob_to_regex` over an alphabet of two
letters, a slash and a line's end. `CatalogJudges` is `ToolCatalog.call`, after its start
was told of. `GateChecks` to `ResumeWith` are `ApprovalGate` with a process that ends while
a human is asked and another that restores what was saved.

**Messages.** A transcript of a user, a model and tools, kept by the loop behind
`complete(tools=...)` or by the caller, and what each of five surfaces is sent of it:
Anthropic's messages, OpenAI's completions and responses, Google's generateContent and
interactions. A request is the sequence of what its provider reads, each item with its
turn and the part it came from. `Sends` is the request with what `resolve_server_state`
leaves of the transcript; `Spelt` is the converter of the surface; `Lost` is what it tells
of; `Answers`, `Ends` and `Returns` are the loop's round, the calls of it on threads.
`NewClient` takes the transcript to another client, as a fallback chain or an application
does. `names` is what an adapter remembers of its calls, `heard` is history.

**Schemas.** A dataclass, a decorated function, or a schema that a caller or an MCP server
wrote (`ask`), the schema that goes out and its strict flag (`sent`), and what is made of an
answer: parsed into the class, checked and asked for again, passed to the function, or
given on as the server's result. `SchemaFor`, `Closed`, `Strict`, `Valid` and `Build` are
`schema_for`, `ensure_additional_properties`, `strict_support`, `validate_json_schema` and
`_build` over JSON as trees. `Meant` is the reference the validator is compared with, and
`Means` the one for what is built.

### Order of the work

The limiter, the engines, the stdio transport, the agent loop and the scheduler came
first, with the first proofs; then what rewrites a conversation (history, guard, server
state, files), what MCP adds over HTTP, the stores and jobs, and last the conversions
in which a state or an order matters (framing, tool calls, answers, request specs, transcripts, schemas).
What would come next: ToolAccess and Schemas with recursive functions in place of RECURSIVE
operators, so that `HelpersTrue` can be proved about; and the assembly of a request (parameters,
files, cost limits).

## 3. The runs

| run | question | result |
|---|---|---|
| `rate_limiter` | do asks, header corrections, pauses and time, in every order, keep the bounds? | holds |
| `call` | is one call and its transcript sent as its provider takes it, retried in budget and never unsafely, read whole, entered once, cached under its own name? | holds |
| `queue` | one permit, a heap of one, two requests, one stream, callers that leave: permits, worker, owners; is every request answered and every stream served? | holds |
| `queue_hostile` | two permits, handlers that raise anywhere, cancellation anywhere: concurrency | holds |
| `agent` | two runs, rounds of two, approvals, stops, crashes | holds |
| `helpers` | what is due is called, once, an interval apart; are internal tools and debates made of calls in order, is made media kept before it is told of, does a tool run only as it was judged, and does what was asked for in a shape come back in it? is a stream told of whole and once? | holds |
| `mcp` | a child that dies, sessions forgotten, tokens that expire, streams that drop | holds |
| `around` | batches, cut histories, chained state, files, chunks, a hosted index, live sessions, stores, spans and hooks | holds |
| `whole_or_continued` | is the whole history sent wherever the server does not have it? | refuted |
| `queue_leak` | does a stream that leaves early give its permit back? | refuted |
| `repair_truthful` | was a call repaired with "was never run" never run? | refuted |
| `stale_ref` | is a file's reference that expired never sent? | refuted |

### Properties worth a word

`RateBound` is what a provider sees: since the level of an axis was last known, no more
is spent than that level and the refill since. `Accounted` says that the semaphore's
count is exactly the parties that hold a permit, that none is idle beside a waiter and
that a pending future has exactly one party that will settle it; under hostile hooks
only `NeverOversubscribed` is left of it: permits may be lost, not invented.
`StdioTrue` has `Tracked`, which says that the table has an entry exactly while its
caller may still be woken. `TranscriptTrue` judges pairing where it matters, when a
request is sent, and follows a message from staging to transcript through crashes.
`SpokenTrue` and `HelpersTrue` are about one answer at four levels: its bytes and what it
adds up to, its calls and its events. `LedgerTrue` says that what was paid is entered once although
hooks, repairs and abandoned streams end a call at any place. `HistoryTrue` says that
what a provider reads, an id's context included, is the transcript. `Fresh` in
`StreamTrue` allows a list that was read before a change and stored after it, which the
code's order cannot prevent; `FreshAlways` is the version without.

### Bounds, and why they are enough

- Rate limiter: a minute of two ticks, a day of three, a clock that stops at four: two
  windows and a pause across the boundary of one. The proofs remove the bound.
- Call: `MostTries` 4 covers the most patient layer; durations of 1 and 3 lie on both
  sides of the attempt timeout of 2. Bodies of seven bytes in chunks of up to three cut
  every character and line end; two calls of a stream interleave; answers of three
  items have every kind before and after every other; two threads and two calls share
  a ledger; two requests share one `providerOptions`.
- Queue: a heap of one makes "full" the normal case; one permit makes every party
  compete; one retry is enough for a chain of futures, since each link is alike.
- MCP: one call and one stream of each kind, one message of the child's own; two
  threads, two troubles, two events: a trouble during the recovery from another. Ids
  are never reused.
- Agent: two runs, so that one starts from what the other left; two model turns, rounds
  of two calls, one staged message, and one incident (a stop, a malfunction or a
  crash), after which the rest of the behaviour runs undisturbed.
- Around: three items in batches of two make a list longer than a job; seven entries
  hold two rounds of tools and a summary; two threads, three writes and a capacity of
  one evict; seven hooks nest an agent in an agent; three subscriptions and two emits
  overlap. Windows of four characters over texts of up to nine reach every case of the
  snap; the proof has any length.
- Helpers: one process with a handler for one of two names, two tasks, three ticks, one
  crash during the calls of each task. Rows do not depend on each other, and the proof
  has any number of processes and tasks. Two runners, two backends and a pool of two
  clients; three debaters and three rounds.
- Media: two calls of up to two assets, so that the second fails after the first is saved;
  an interval of two ticks against a wait of three, so that the deadline falls inside a
  wait; a request of up to one tick, so that an answer comes after it.
- ToolAccess: three tools, two of one name, so that a name changes its tool; two changes
  and two calls, so that one falls between a call and its answer; patterns and texts of up
  to three characters; two restarts, so that an answer can be lost after it was fed in.
- Messages: transcripts of up to three messages under a ceiling of two steps, so that a
  round is followed by another and the last one meets the ceiling; a module's run of
  five messages agrees. Parts of every kind and source, rounds of two calls whose tools
  return words, media, both, or lists that are not parts.
- Schemas: a dozen annotations, with each kind inside another; as many written schemas,
  one for each keyword and for a reference; two repairs.

Runs without a deadlock check (`CHECK_DEADLOCK FALSE`) are those whose system really
stops: the call has its answer, the transport is closed, the callers have made their
runs, or the schedule is empty and its clock at the bound.

### Fairness

- Executor: the one thread runs on, once it has a call.
- Queue (`FairSpec`): the event loop runs what is ready, its clock advances, transports
  answer (they have timeouts of their own) and consumers let go of their streams. New
  calls and cancellations are free.
- Stdio: threads run and a handler's own request times out. No caller's timeout is
  assumed and the child owes nothing, so `HearsOfExit` rests on `_fail_all` alone.
- Event streams: the stream's thread runs on, and for `FlappingEnds` the server, as the
  property says, only ever hangs up.
- Realtime (`Scheduled`): the reader's and the consumer's threads run.
- Agent: some thread of the run, its own or a worker's, goes on: models, tools and
  approvers come back. Without that a run may wait for ever, as the code does.
- Scheduler: every process goes on asking `run_due` and handlers come back. Asking is
  the program's own loop ("whoever owns the program's loop decides when to ask").

## 4. Where the code and its words part

Each of these is a run that TLC refutes.

1. `whole_or_continued`: `resolve_server_state` (`llm/server_state.py:68`) asks for the
   provider and the model and not for the api. A client of the same provider over an api
   without a field for the id cuts the history, and the id is never sent.
2. `queue_leak`: a stream cancelled after its permit was handed over and before its
   coroutine resumes has not entered the `try` whose `finally` releases
   (`network/queue_state.py:152`).
3. `repair_truthful`: a tool ran, its result was lost with its run, and the next run
   tells the model that it "was never run" (`agent/loop.py:896`).
4. `stale_ref`: a reference that `FilesRegistry` wrote into the caller's messages is
   sent again after it expired (`files/registry.py:213`).

The following are stated in the modules, mostly with the words they contradict, and
have no run of their own. Adding the name to a cfg that instantiates the module shows
each, with the change of a constant where one is given.

Limiter and engines. `AllOrNone`: an ask refused on one axis stays charged on another.
`HoldIsKept`, `WaitSuffices`: a header lifts a pause, and the wait is not enough for
more than the bucket holds, nor for two axes of which one is held. `Owned` with
`HooksRaise`: an `onRateLimitUpdate` handler that raises ends the worker with an entry
in hand (`queue_state.py:413`). `PauseHoldsQueue` (a PROPERTY): requests already past
the limiter go out during a pause. `ExpiredNotRun`: an entry expires between its dequeue
and its start. `OwnTransport`: a retry goes through the queue's transport and not its
own. `BudgetSpent` (a PROPERTY; with `Policy <- MCPatientPolicy`, `Patience = 2`): the
queue measures the budget for each attempt. `ApprovalIsHeard`
(RequestExecutor): `_decide` (`network/executor.py:175`) reads the approval with `.get`,
which a `RetryOverride` does not have, and the caller gets an `AttributeError`.
`PathsAgree`, `KindFieldsDefer` (likewise): the two engines disagree on elapsed time, and overriding one field
of a kind's rule resets the others. The queue's are refuted in QueueState.cfg with
`SPECIFICATION Spec`, `Streams = {}` and `Cancels = {}`. Besides: `drop_queue` leaves the
old queue's requests in flight, so that for a while a name has twice its concurrency.

A call. `FramedTrue` with `EmptyChunks`. StreamedCalls' `CallsTrue` with "responses" in
`Interleaving` or `Overlapping` (the argument deltas of Responses carry an item's id and
not the call's; one slot holds the open shell call, though `shell_calls.py` pairs by
call), or with Google's in `WithoutIds` (calls without an id collapse into one); a call
cut off before its first fragment is executed with `{}`. `SameAnswer` (Answers): what a
stream adds up to and the body differ in many small ways; buffered thinking keeps its
last block only, a streamed "stop" hides tool calls at `generate` and `responses`, a
failed response reads "stop" streamed, hosted calls without a result, citations and
images of some formats are not streamed, the tier billed is lost for all but `generate`,
Google pairs the n-th code with the n-th result, and a cut stream reads "stop".
`OptionsKept` (WireSpec): OpenRouter's overlay writes the effort into the caller's
`providerOptions`, and the next call still sends it. StreamedTurn: `ReportsWhole` (in
parallel a verdict on less may come last), `BackupIsTried` (a verdict on the input
counts as part of the model's turn). ClientCalls: `AnsweredIsFree` (a hook's answer is
billed), `OwnList` (a structured call's repairs grow the caller's list), and its main
property with `Torn` or `ClearsAnytime`. AnswerCache: `OthersKept`, and `CacheTrue` with
`Torn`, a lifetime of 0, or names with a colon in them. ServerState: `CutIsCut` (what a
cut took away is still in the id's context), `NeverRefused` (the stamp is the time of
`assistant_message()`, not the answer's), and messages interjected before an answer is
kept.

MCP. `HandlerHears`: a handler that calls the server blocks the thread that would hear
the answer; likewise the reader blocks writing a reply into a full stdin pipe while the
child blocks writing its stdout. `DeathWakesAll`: a request registered between
`close()`'s `_fail_all` and the closing of stdin is not woken by the child's exit
(`mcp/stdio.py:265`). `DropsOnlyDead`, `StillRecoverable`, `HeaderAgrees` (McpSession):
a 404 drops the session another thread just made; after a failed recovery no other
starts. `StepUpKeeps`, `CanFinish` (McpOAuth): scopes a server does not repeat are
forgotten, and of two authorizations sent at once one cannot be finished. `FreshAlways`,
`NoGapInGet`, `Persistent`, `ToldOfEnd`, `CloseReaches` (McpStreams): a list read before
a change is stored after it; two streams share one cursor; a first connection that
breaks ends the subscription; a close between the entry and `on_open` tells nobody, and
the flag is read only between events.

Agent and history. `BusyMeansRunning`: a callback that raises in `_begin_run` leaves
the loop "already running" for ever. `PendingIsOpen`: a call stays listed as pending
after the repair has answered it. `WaitingIsSaved`: two parallel approvals overwrite
each other's checkpoint. `TranscriptTrue` with `FreshIds = FALSE`: where ids repeat, an
old answer is taken for a new one. A tool's timeout does not end the round before the
tool's body does. `PairsKeptByAll`: the layered strategy cuts a call from its result.
`CrossingHeard`, `Exact` (ContextGuard): a crossing right after a compaction is not
heard, and the count survives splices that change what it covers.

Jobs, files, stores. `EveryAnswer` (AutoBatcher): a list longer than a job loses the
first job's answers. `RefAtHome`, `NoOrphans` (FilesRegistry): a reference goes to
another provider, and uploads are forgotten. `ReadyMeansAll`, `NoFileLeft` (Retrieval):
a missing state at Google reads as active and its import operation is never polled,
OpenAI's "completed" has failed files in it, xAI's listing may lag, and uploads of a
failed attach stay. `WholeFile` with `Shared = TRUE`, `CacheTrue`, `NobodyRaises`
(ResponseStore): two threads that save one key write one temporary file; a get that
missed remembers what it read over a put. `CancelHolds` (Scheduler, a PROPERTY): a task
cancelled after `run_due` read it is still called, and `_retire` brings back the row of
a periodic task that was cancelled while its handler ran. `InOrder`, `InOnePiece`
(RealtimeSession): turns sent while the outbox is flushed overtake it.

Bus and helpers. `OnceIsOnce` (HookBus). `EndedIsRecorded`, `OwnUsage`, `FilteredTree`,
`InFlightTrue` (Telemetry): failed runs and tools close no span, usage outside runs is
added to the next, and a failed attempt stays in the gauge. InternalTools: `ToolsTrue`
with `Invalidates = FALSE`, `PoolWhole` (two callers build one client, and one is never
closed), `RetrySaid` (the last model's failure says "trying the next model"). Debate:
`NoneOutlives` when gathered; `rounds=0` is an `IndexError`.
- **Media.** Stated in Media and refuted without a run of its own: `ListedLoads` (a
  deletion cut short by a crash leaves a sidecar whose bytes are gone, and `has()` and
  `list()` still name the asset), `NothingLost` (a save that fails on the second asset
  leaves the first, which no receipt names), `UsageKept` (usage rides on the first asset,
  and an answer without one reports none), `SavedWhole` (with a `fetch` of the caller's
  own, the body of an HTTP error is saved as audio), `ReadyIsFetched` (Google's adapter
  declares video and has no `download_video`, so a video that is ready ends in
  AttributeError), `GoneIsNamed` (the typed error for a removed endpoint is never reached
  behind an engine, whose fetch has raised before), `LossIsTold` (a poll that raises, a
  download that fails and a timeout emit no error event). After `close()` a video is
  still submitted, and then times out at once. `onMediaGenerated` carries what the cost
  collector would need, and the collector listens to completions only.
- **ToolAccess.** Refuted without a run of its own: `ApprovedIsRun` (behind the router the
  tool is looked up once more after the answer, and another may bear the name by then),
  `ArgumentsAreJudged` (a rule about an argument is shown the router's arguments, so "a
  transfer over 1000 needs a human" is not asked of a lazy tool), `ValidIsRun` (with
  `validate_tool_arguments` the lazy tool's schema is held against the router's arguments,
  which it refuses), `Findable` (the routers that an application removed are not declared
  again for the next lazy tool), `CompletedOnce` (a handler of onToolCallComplete that
  raises in `ToolCatalog.call` makes the call a failure that is told of too),
  `StarsAreSegments` ("**/a" matches "ba"), `PlainIsExact` (a pattern takes a line's end
  after what it matches), `AnswersKept` (an answer fed in is not part of a snapshot).
- **Messages.** Refuted without a run of its own: `ResultsReach` and `AlwaysBuilt`
  (`split_tool_result` says a result "should reach the model looking odd, not vanish on the
  way"; where results are not split, at `messages` and `responses`, a tool's list of
  mappings becomes "[unsupported: None]" or nothing, and its list of strings raises
  AttributeError), `ImagesTold` (an image by reference is sent to `completions` as an empty
  url and to `interactions` not at all, without a note), `ResultMediaTold` (no notes are
  taken of tools' results at `responses`), `AlwaysNamed` (a client that continues where
  another stopped does not know the calls' names, and Google's results go out with an
  empty one), `WhoseIsKept` (the loops' turns have no origin and no signed steps, though
  `build_assistant_message` is "shared by" them), `NothingEmpty` (an empty turn is sent as
  one), `RoundsAreSeen` (the last round before `max_steps` is run, and what its tools did
  is thrown away with the exception).
- **Schemas.** Refuted without a run of its own: `NullAdmitted` (an optional enum or
  literal has "null" in its type and not among its values), `AlwaysAsDeclared` (members of
  an enum stay strings, a dataclass in a union of two stays a mapping, a tuple is
  described by its first item, an int may be a float), `ParsedOrNone` (a set of dataclasses
  raises TypeError), `StrictIsTaken` (objects below `anyOf`, or that may be null, are
  neither closed nor found open, and go out strict), `NeverEmpty` (a field of `Any`),
  `AlwaysByMeaning` and `NeverMisjudged` (`required` and `additionalProperties` are not
  looked at without `properties`, a reference is followed once on the way down, and
  objects are compared in the order of their members), `ValidIsBound` (a schema of `@tool`
  is open, and names parameters that take no name), `GetsDeclared` (a tool with a
  dataclass for a parameter is given a mapping), `FailureIsMarked` (a failed MCP result
  with a picture is not marked as failed), `CallersListKept` (the repairs of a structured
  call are appended to the caller's list).

Seen on the way and not stated: `Corpus.local(...).wait_indexed` passes three arguments
to a method of two; a document deleted while it is being embedded leaves its chunks;
`max_tokens=0` drops a chunker's text; a Gemini tool choice by name becomes AUTO; xAI's
chat-completions overlay sends the flex tier that `xai/tiers.py` says is refused;
`Realtime.open` after an open that failed returns the dead session; Google's and xAI's
batch status reads FAILED on any HTTP error; `_assistant_message` of the agent loop
drops the answer's origin, so that agent turns never chain on the provider's side.

## 5. The proofs

A theorem holds for every value of the constants that satisfies the module's ASSUME;
a hypothesis beyond it is named. Where a property of a run is stated by a theorem, the
run shows the property on an instance and the theorem shows it for all.

`RateLimiterProofs` proves, for every set of axes, limits, windows, header values,
axes without a limit included, and for an unbounded clock:

- `TypeCorrect`: `Spec => []TypeOK`; levels stay within capacity.
- `RateBounded`: `Spec => []RateBound`.
- `PauseEmpties`: `Spec => []HeldIsEmpty`.
- `WaitAlwaysExact`: `Spec => []WaitIsExact`: the wait that is named is long enough and
  one tick less is not, for every number of tokens a bucket can hold.

`RateBound` is not inductive: it says nothing of the tokens that are still in the
bucket, and it measures the refill by the clock, which runs on while the bucket is not
looked at. `IInv` adds `Credited`: what is spent *and what is left* is at most the base
and the refill up to the bucket's own `last`; and a `last` ahead of the clock means an
empty bucket whose base is that moment. Lemmas say of each bucket operation what it
keeps and what it may add (`RefillSound`, ...); the step lemma has one case for each
action. The assumption used is `LimiterAssumption`: limits, windows and capacities
reported by headers are positive.

`QueueStateProofs` proves, for any requests, streams, limits, retry policy and rate:

- `TypeCorrect`: `Spec => []TypeOK`.
- `NeverTooMany`: `Spec => []NeverOversubscribed`, whatever handlers raise and whoever
  is cancelled.
- `NothingLost`: `Spec => []Accounted` under `Gentle`: no handler raises, and no stream is
  cancelled with a permit in hand.
- `KeepsLifecycle`: `Spec => Implements`, the refinement of RequestLifecycle.

None is inductive. `IInv` is `Typed`; `Lines` (who waits in the semaphore's line, once
each, and the worker in it only while it asks); `Tokens` (a request travels as an entry
of the heap, the worker's entry, a task or a `_requeue_after`, one at a time and at the
request's last attempt); and `Slack >= 0`, the permits that nobody holds: a release
hands the permit on or counts it, so no step can make `Slack` negative. That no permit
is lost is `Slack = 0`, and with it `Led` says that a filled heap has a worker and a free
permit nobody who waits. It needs `Gentle`: a handler that raises ends the worker with
its entry in hand, and a stream cancelled between the handing over of its permit and
its own next step never gives it back (`queue_leak`); both make `Slack` positive.

`CallProofs` proves, of the executor, for every policy of each layer, error and duration:

- `TypeCorrect`: `Spec => []TypeOK`.
- `RetriesAlwaysRight`: `Spec => []RetriesRightly`: within the budget, after what the
  server asked to wait, nothing unsafe again, and by the narrowest layer's rules.
- `KeepsLifecycle`: `Spec => Implements`.

What a retry may be is decided before the sleep and is true after it, so `IInv` says of
each place what has been decided: `Budgeted` (the clock and the attempt by the place),
`Allowed` (who sleeps was let by `ShouldRetry`, and the sleep fits in the budget) and
`Layered` (the rules in force are those the layers merge to).

`McpProofs` proves, of the composition MCMcp, for any callers, streams, threads, servers,
scopes, calls, events, drops and troubles:

- `PartsImplemented`: `McpSpec` implies the specification of each of the four parts, so
  that what is proved of a part holds of the composition.
- `McpTypeCorrect`: `McpSpec => []McpTypeOK`.
- `AnswersReachTheirCalls`: `Correlated`, `Tracked`, `ToldOnce` and `ServerAnswered` of
  StdioTransport, whatever handlers do: a call hears the answer to its own request, has an
  entry exactly while it may be woken, a stream hears its end once, and a request of the
  child has one answer.
- `NobodyIsLeft`: `McpSpec => []StdioTrue` where no handler raises, which adds that nobody
  waits for a child whose exit the reader has seen. A handler that raises ends the
  reader's thread before it has failed what is pending.
- `SessionHolds`: `McpSpec => []SessionTrue`. `EraStays`: `McpSpec => EraKept`.
- `OAuthHolds`: `McpSpec => []OAuthTrue`. `StreamHolds`: `McpSpec => []StreamTrue`.

*Stdio.* An id is given to one call only (`Identified`), and entries, requests on their way
and answers on theirs carry the id of the call they are about (`Addressed`, `Unheard`,
`Asked`); `Reachable` and `EndIsExit` say who will still be told when the child ends.

*Session.* `Honest` speaks of calls that are over. What makes it inductive is `Counted`: of
a call that is under way, the server has run nothing while its request is on the wire or
its 404 noticed, nothing when the answer is a 400, 401 or 404 or belongs to a handshake,
and otherwise at most once; a call that has not begun was not run. `Phased` says
who may be asking for what: while the client is probing one thread is, and with a
connected client a handshake is always one that a call's recovery began. So nobody answers
a discovery, or fails a first handshake, behind a connected client. `Negotiated` carries
the reason for the revision: a thread in a handshake has the probe's answer behind it,
a recovery is never one of a modern client, and a revision that was told to the transport
is among those the server speaks.

*Authorization.* `Held`: a token that is stored, or that a thread is about to refresh or to
save, was minted by the server it is stamped with. `Voided`: only a server that rotates
voids a refresh token, and a thread that is about to save one of such a server is alone in
having it. `Replaced`: a stored refresh token that is void was lost, or a thread is about to
save its successor. `AsksForAll`: who is sent for more scope asks for all it had.

*Streams.* `Behind`: what lies between a stream's start and its position was routed, and the
cursor is not past the position. `ToldAtEnd`: the end is told by whoever takes the entry
away. `ClearedFirst`: the cache is cleared before the listener is told, and a list
in the cache that was not raced is from after the last clearing.

`AgentLoopProofs` proves, for any number of steps, retries, calls to a round, staged
messages, runs and crashes:

- `TypeCorrect`: `Spec => []TypeOK`: steps and failures stay in their bounds.
- `GateHolds`: `Spec => []GateTrue`.
- `StagedAdmittedOnce`, `AsksStayBounded`: two parts of TranscriptTrue, always.
- `CallsArePaired`, `TranscriptHolds`: `Paired`, and `Spec => []TranscriptTrue`, under
  `FreshIds`: where the ids of calls recur, the repair takes an old result for the
  answer to a new call, and the property does not hold.

`IInv` has four parts. `Spent`: a run at each place of it has spent of its failures and
requests what the steps done allow, which bounds `asks` by a product only at the end of
a step. `Rounds`: where calls are made in turn, all calls before one that is under way
are done, so that no second approver's snapshot can drop the first one. `Staged`: the
staged messages are numbered on from those the transcript holds, here and, with a number
of its own, in the checkpoint, so that neither admission nor a restart says one twice.
`Typed` has calls of past turns only, so that a reply asks for new ones. `Told` is beside
it: results stand after the reply that asked for them and only the last reply may lack
them; what `Orphans` finds is exactly that reply's calls (`OpenAreLast`), and one entry
closes them (`RepairCloses`).

`SchedulerProofs` proves, for every set of processes, names, delays and intervals and
any number of tasks and crashes:

- `TypeCorrect`: `Spec => []TypeOK`.
- `OnceRunsAlways`: `Spec => []OnceRuns`.
- `PeriodicSpacedAlways`: `Spec => PeriodicSpaced`.

`OnceRuns` counts calls, and nothing in it keeps a process that read a row before from
calling the task again. `IInv` adds `Single`: a one-time task with a call that was not
lost is in nobody's list under a name they serve, and its row is gone or its handler is
still running. It needs `Lists` (a list has each task once), `Rows` (a row keeps its
name, type and interval, so that only the process that serves the name can call it),
`Counted` (only a call that was counted can be lost, and a new id has none) and
`Present` (a task ahead or running has its row, unless cancelled, so a crash leaves a
row to be found). `SchedulerAssumption` is used for the disjoint names. TLC has checked
`IInv` with two processes. `PeriodicSpaced` is a property of steps and follows from
`IInv` and `Timely`: a row that repeats is due an interval after its last call came
back, and so is each copy of it that its process has ahead.

`AroundProofs` begins with `Chunker`, for every length, every placement of spaces, every window and
every overlap, one that is longer than the window included:

- `CursorInText`: `Spec => []TypeOK`.
- `NothingIsDropped`: `Spec => []NothingDropped`: every character before the cursor is
  in a window, and when the loop is done, all of them are.
- `WindowsSized`: `Spec => []Sized`: no window is empty, too long or past the text.
- `AlwaysOnward`: `Spec => Onward`: each cut moves the cursor on or is the last.

The invariant is the conjunction of the three; what carries it is a lemma on a single
cut, `CutKeeps`, whose steps are the cases of `_snap_to_word` and of an overlap that
reaches behind the start. `WindowAssumption` is a window of at least one character.

`AroundProofs` proves, of the composition MCAround, for any number of items, jobs, threads,
keys, conversations, files, documents, callers, turns, handlers and emits:

- `PartsImplemented`: `AroundSpec` implies the specification of each part that is proved
  about, the fairness of the session included.
- `KeptHolds`: `AroundSpec => []KeptTrue` where no key of the store has two writers at a
  time (`~Shared`); `StoreDurable`, `FilesHeld` and `IndexHeld` are its parts alone, and
  only the first of them needs the hypothesis: two writers share a temporary file.
- `WholeTextIndexed`: `AroundSpec => []NothingDropped` of the chunker.
- `BatchHolds`: `AroundSpec => []BatchTrue` where `fetch` raises on an HTTP error
  (`Raises`), as an engine's does. Over a bare transport a page of errors is read as the
  results of a job, and items are said to be missing that come later.
- `TurnsHold`: `AroundSpec => []TurnsKept`.
- `HooksHold`: `AroundSpec => []HooksTrue`.
- `HistoryHolds`: `AroundSpec => []HistoryTrue` where no strategy declines below its ladder's
  first rung (`Reachable`): a guard told to start sooner than that refuses a request that is
  lighter than its first rung.
- `CalmHolds`: `AroundSpec => Calm` where every message weighs something. An empty message
  lengthens a history whose weight it leaves, and "nothing was said since" is asked by length.
- `TypesHold`: `AroundSpec => []AroundTypeOK` under `~Shared` and `Raises`.

*Store.* `OneWriter`: a key has one thread between its call and its move, so that what
`Written` says of the temporary file still holds when it is moved. *Files.* `InPlace`: what is
taken for uploaded is among the provider's files under a reference that no other attachment
has, so that a deletion takes nothing away from another. *Retrieval.* `Told`: a document that
is being attached is new, and who was told "ready" was told so of all that is attached.
`Owned`: a corpus that was made is there until it is deleted or the deletion failed.

*Batches.* `Own`: a ticket has its own id's answer, and a job gave it. `Kept`: an item that
waits is in the collection, in the list that is being submitted, or in a job that is known,
and a known job is still to be read or was read. `MissingRight`: what is said to be missing is
of a job that has ended, and such a job takes no answers any more.

*Realtime.* That no frame is on the wire twice does not by itself keep a flush from sending
what a caller is about to send. `Apart`: a frame is in one place of the wire, the flush, the outbox and its caller's
hands, once. `Shaken` has the order of the handshake: nothing is flushed before the session is
ready, and nobody sends before. `HeldOn`: a turn that was held is in one of the places, all
its frames, unless a write failed; and when the reader has swapped the outbox nobody adds to
it. `Ending`: END comes last and the reader is done.

*Hooks.* `ListedAs`: the lists are in the order of subscription, and no handler is in two.
`Emitting`: what an emit is to keep it has called or has ahead of it in its copy, and nothing
both; while it is at the hook's own handlers nothing of the catch-all has been called, so that
the two halves do not repeat each other. *Spans.* `OwnCall`: what is open of a kind is of the
call the thread is in, unless a failed run cleared it; `Closed`, `OneSpan` and `Parented` are
about what is closed, and hold with it.

`HistoryHolds` and `CalmHolds` rest on `ConversationProofs`, which AroundProofs has by INSTANCE;
`GuardIs` and `TranscriptIs` say that its Init and Next are those of the composition, and
`SizesHere` that its hypotheses follow from `AroundAssumption`. Types need three invariants of
their own. *Cache.* `CacheTyped`: no key twice and no more than the capacity, for which a lookup
takes out the one entry a key has (`Forgotten`) and eviction the first. *Spans.* `SpansRanged`:
a row of the lineage has a parent with a smaller number, so that the walk to a parent that
survived a filter ends at one that was opened (`SurvivingIs`). *Places.* `BusPlaced`,
`EmitsBounded` and `SessionPlaces`: a position is in its copy, and a session's threads are where
they can be.

`ConversationProofs` proves, for any ladders, ceilings, weights and lengths, any providers,
models and retentions:

- `GuardTypeCorrect`: `Spec => []TypeOK` of ContextGuard.
- `HistoryKept`: `Spec => []HistoryTrue`: a result stands right behind its call and a count is of
  the messages it covers, however a history is truncated, spliced, restored and copied; but for
  results where the layered strategy folds halves, and the count where the other truncates.
- `RefusalsHaveCause`: `Spec => []RefusedForCause` under `Reachable`.
- `GuardIsCalm`: `Spec => Calm` where no message weighs nothing.
- `TranscriptRead`: `Spec => [](TypeOK /\ StateTrue)` of ServerState, where an answer is kept
  before anything else is said (`~Interjects`; with it TLC refutes the property).

`Sizes` are the hypotheses about the guard: a strategy is one of the three, a ladder is sorted
(`_sorted_triggers` sorts it) and the rest are numbers.

*Guard.* What a history weighs is a recursive function, and an induction is done with a least
number at which it would fail (`LeastOf`, from WellFoundedInduction): `SumsExist`, `SumsAgree`
and `HeuristicIs` say that the heuristic is the last of the sums, and `HeuristicConcat` and
`HeuristicSolid` what the cuts need of it. `ContextIInv` is `GuardTyped`, with what is `Sound`
about a history (no more messages than were said, no call twice); `Rounds`, that each result is
right behind its call where the strategy does not fold halves of a history (layered), and that a
call that is being run is the last message; and `Counted`. Each way to cut has its lemma: a cut
that is moved on past the results at its head leaves no orphan (`TruncateKeeps`), and a splice
that does not end between a call and its result leaves none (`SplicePaired`). `Weighed` adds
that what is being reacted to weighs as much as the first rung, which a strategy that made
something of the history is measured for once more. `CalmIInv` has what makes `Calm` inductive:
`Onwards`, by how far a history has grown at each place of a turn, and `Settled`, that what was
sent is no more than the guard noted, so that a second measurement crosses nothing.

*Transcript.* `BehindIds` speaks of every message that has an id and of every answer on its way:
the context the provider keeps behind the id ends with the transcript up to there, in order, and
has only what was cut out besides. It is needed of all of them and not of the last one, since a
cut may make any of them the last. `InOrder` gives that an id is of a turn that was made before,
and `Heard` is what the property says of what was read.

`CallProofs` also proves, of the composition MCCall, for any threads, prices, tiers, calls and
repairs, and any readers, names, keys and lifetimes:

- `LedgerHolds`: `CallSpec => []LedgerTrue` where no name has a colon in it (`PlainNames`) and no
  lifetime is 0. The code enforces neither: names with colons make keys that are each other's
  prefixes, and a lifetime of 0 is never over for an entry that was read back from a store, so
  that TLC refutes the property there (section 4).

*Ledger.* `Summed`: the total is behind the ledger by what threads have entered and not yet
added. Both sums are over sets, taken one element at a time by a CHOOSE, so that what one entry
more does to them needs a proof: `AddsUp` says of a function that it has the sum of every subset,
`SumsExist` and `SumsAgree` that there is exactly one (by a set of the least size at which it
would fail), `SumTakes` that any element may be taken first. `Numbered` and `Apart`: an answer has
a number of its own, is in one call's hands or in the ledger, and not in both. `Warned`: a warning
is of something entered and is given once, and what was entered without a price was warned of,
unless a thread with such an entry is about to. Most steps of a call are `Quiet`: none of this
changes.

*Cache.* `KeyTells` is what the storage key is for: the key of a name with nothing behind it begins
an entry's key exactly if the entry is that name's, since the first colon behind the name ends it
(`KeyPieces`). `RowsTrue`: a row is what was last set under its name and key, and what was set and
has no row is old; `GetsTrue`: a reader is given what was right at some time since it asked, and
is about to drop an old row or none.

Only model-checked: liveness (`AllServed`, `EndsHeard`, `Terminates`, `RunEnds`,
`IteratorEnds`, `DueRuns`), which TLAPS cannot do, as ENABLED is out of its reach; what
most recursive definitions compute for every input, as no induction over data can be cited
here (the sums in ConversationProofs are the exception, by a least counterexample); and
of what the compositions state, `CallTypeOK` and `SpokenTrue` of MCCall and `HelpersTypeOK` and
`HelpersTrue` of MCHelpers: the conversions in WireSpec, Messages and Answers compute over
data, which would need that induction, and Schemas and ToolAccess declare RECURSIVE
operators, so that nothing is proved in a module that composes them.

## 6. What the models leave out

The text of messages, token counts and formatting; the names of hooks and their payloads;
the size of a pipe; the tokens-a-minute and requests-a-day axes inside the queue (they
are in RateLimiter); tool timeouts, which in the code end with the tool's body anyway;
registration of tools in AgentLoop (ToolAccess has it). A limit of 0 from a header is outside the model:
the code divides by it. The MCP keep-alive, tasks and input-required rounds; discovery
of OAuth metadata and registration of clients; the export of spans; the wording of
requests to and answers from single-request endpoints. Answers assumes of the providers
what the parsers assume: the status of a response comes in its last frame, one container
shell at a time, usage of message deltas is cumulative, a code is run after the one
before it gave its result.

