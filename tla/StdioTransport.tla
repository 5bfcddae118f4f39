--------------------------- MODULE StdioTransport ---------------------------
(***************************************************************************)
(* The stdio transport of the MCP client: StdioTransport of                *)
(* src/combycode_llm_sdk/mcp/stdio.py over BaseJsonRpcTransport            *)
(* (mcp/transport.py), after start().                                      *)
(*                                                                         *)
(* Threads: callers in request() or send_long_lived_request(), one thread  *)
(* in close(), and the reader, which also runs every handler.  The lock is *)
(* held around one access to the tables, so each access is one step.  The  *)
(* child process and its two pipes are the environment; a pipe holds any   *)
(* number of messages, and `stdin` is whether `_proc` and its stdin are    *)
(* still there to write to.                                                *)
(***************************************************************************)
EXTENDS Integers, Sequences, FiniteSets

CONSTANTS
    Callers,      \* threads, each with one call of request()
    Streams,      \* threads, each with one call of send_long_lived_request()
    Chatter,      \* how many messages the child sends of its own
    Kinds,        \* ... of which kinds: a "notice", an "ask" (a request), or a
                  \* "blob" (a line beyond max_buffer_bytes)
    HandlerDoes   \* what handlers do: "return", "raise" an McpError, raise a
                  \* "value" error, or make a "request" of their own

Nested == "nested"            \* the request a handler makes on the reader's thread
Calls == Callers \cup {Nested}
Bodies == Calls \cup Streams  \* what a message is about
Empty == "empty"              \* a _Pending whose event is not set
Lost == "lost"                \* ... or set by _fail_all

ASSUME TransportAssumption ==
    /\ Callers \cap Streams = {} /\ {Nested, Empty, Lost} \cap (Callers \cup Streams) = {}
    /\ Chatter \in Nat /\ Kinds \subseteq {"notice", "ask", "blob"}
    /\ "return" \in HandlerDoes
    /\ HandlerDoes \subseteq {"return", "raise", "value", "request"}

VARIABLES
    nextId,      \* _next_id
    id,          \* the request id of each call
    pc,          \* where each call is
    pending,     \* _pending: [id, call]
    longLived,   \* _long_lived: [id, call]
    cell,        \* the _Pending of each call: Empty, Lost or the answer
    told,        \* per stream, the ends on_end was told
    reader,      \* [at, ask] of _read_loop; ask is the server request in hand
    closed,      \* _closed
    closing,     \* close(), for the closing thread and for the reader
    stdin, child, toChild, toUs,   \* the write end, the process, the pipes
    own,         \* the kinds of the messages the child sent of its own, in order
    replies      \* history: replies written to the n-th of them

table == <<nextId, id, pending, longLived>>
env == <<child, toChild, own>>
vars == <<table, env, pc, cell, told, reader, closed, closing, stdin, toUs, replies>>

Done == {"answered", "lost", "failed", "timedout"}
Reading == [at |-> "reading", ask |-> 0]
Gone(how) == [at |-> how, ask |-> 0]   \* "ended": the loop returned; "died": it raised

Init ==
    /\ nextId = 0 /\ id = [b \in Bodies |-> 0]
    /\ pc = [b \in Bodies |-> "new"]
    /\ pending = {} /\ longLived = {}
    /\ cell = [c \in Calls |-> Empty] /\ told = [s \in Streams |-> <<>>]
    /\ reader = Reading
    /\ closed = FALSE /\ closing = [t \in {"closer", "reader"} |-> "no"]
    /\ stdin = TRUE /\ child = TRUE /\ toChild = {} /\ toUs = <<>>
    /\ own = <<>> /\ replies = [n \in 1 .. Chatter |-> 0]

-----------------------------------------------------------------------------
(* The tables.                                                             *)

\* Fault: the counter is read and not advanced.
AllocateStale(b) == nextId' = 1 /\ id' = [id EXCEPT ![b] = 1]

AllocateId(b) == nextId' = nextId + 1 /\ id' = [id EXCEPT ![b] = nextId + 1]

Entry(b) == [id |-> id[b], call |-> b]
Keyed(entries, i) == {e \in entries : e.id = i}

\* Assignment to a dict: an entry with the same id is replaced.
Entered(entries, b) == (entries \ Keyed(entries, id'[b])) \cup {[id |-> id'[b], call |-> b]}

\* on_end of every stream in S is called; a handler that raises keeps the
\* streams after its own from being told.
Tell(S, why) ==
    told' = [s \in Streams |-> IF \E e \in S : e.call = s THEN Append(told[s], why) ELSE told[s]]
Tellable == {S \in SUBSET longLived :
               S = longLived \/ HandlerDoes \cap {"raise", "value"} # {}}

Woken(c, why) == IF \E e \in pending : e.call = c THEN why ELSE cell[c]

\* Faults: the events are not set; they are set without a reason; the streams
\* are dropped untold; they are told and kept.
FailQuietly(S) ==
    /\ pending' = {} /\ longLived' = {} /\ Tell(S, Lost) /\ UNCHANGED <<nextId, id, cell>>
FailUnreasoned(S) ==
    /\ pending' = {} /\ longLived' = {} /\ Tell(S, Lost) /\ UNCHANGED <<nextId, id>>
    /\ cell' = [c \in Calls |-> Woken(c, "null")]
FailCallsOnly(S) ==
    /\ pending' = {} /\ longLived' = {} /\ UNCHANGED <<nextId, id, told>>
    /\ cell' = [c \in Calls |-> Woken(c, Lost)]
FailKeepingStreams(S) ==
    /\ pending' = {} /\ Tell(S, Lost) /\ UNCHANGED <<nextId, id, longLived>>
    /\ cell' = [c \in Calls |-> Woken(c, Lost)]

\* _fail_all, where the streams in S are told before a handler raises.
FailAll(S) ==
    /\ pending' = {} /\ longLived' = {} /\ Tell(S, Lost) /\ UNCHANGED <<nextId, id>>
    /\ cell' = [c \in Calls |-> Woken(c, Lost)]

\* A write that reaches the child: _proc is there, its stdin open, and the child alive.
WriteWorks == stdin /\ child

-----------------------------------------------------------------------------
(* request() and send_long_lived_request().                                *)

\* _allocate_id and _register: a handler calls from the reader's thread.
Register(c) ==
    /\ pc[c] = "new"
    /\ c = Nested => reader.at = "handling" /\ "request" \in HandlerDoes
    /\ AllocateId(c)
    /\ pending' = Entered(pending, c)
    /\ pc' = [pc EXCEPT ![c] = "registered"]
    /\ UNCHANGED <<longLived, env, cell, told, reader, closed, closing, stdin, toUs, replies>>

\* Fault: a failed write leaves its entry behind.
UnregisterNever(b) == UNCHANGED <<pending, longLived>>

Unregister(b) ==
    /\ pending' = pending \ Keyed(pending, id[b])
    /\ longLived' = longLived \ Keyed(longLived, id[b])

\* on_open ran, and the message is written, or the entry taken back.
Send(b) ==
    /\ pc[b] = "registered"
    /\ IF WriteWorks
          THEN /\ toChild' = toChild \cup {Entry(b)}
               /\ pc' = [pc EXCEPT ![b] = IF b \in Streams THEN "open" ELSE "waiting"]
               /\ UNCHANGED <<pending, longLived>>
          ELSE /\ pc' = [pc EXCEPT ![b] = "failed"]
               /\ Unregister(b)
               /\ UNCHANGED toChild
    /\ UNCHANGED <<nextId, id, child, own, cell, told, reader, closed, closing, stdin,
                   toUs, replies>>

\* _await_response: the event was set ...
Wake(c) ==
    /\ pc[c] = "waiting" /\ cell[c] # Empty
    /\ pc' = [pc EXCEPT ![c] = IF cell[c] = Lost THEN "lost" ELSE "answered"]
    /\ UNCHANGED <<table, env, cell, told, reader, closed, closing, stdin, toUs, replies>>

\* ... or the timeout passed.
TimeOut(c) ==
    /\ pc[c] = "waiting" /\ cell[c] = Empty
    /\ pc' = [pc EXCEPT ![c] = "timedout"]
    /\ Unregister(c)
    /\ UNCHANGED <<nextId, id, env, cell, told, reader, closed, closing, stdin, toUs, replies>>

\* send_long_lived_request, up to the write.
Open(s) ==
    /\ pc[s] = "new"
    /\ AllocateId(s)
    /\ longLived' = Entered(longLived, s)
    /\ pc' = [pc EXCEPT ![s] = "registered"]
    /\ UNCHANGED <<pending, env, cell, told, reader, closed, closing, stdin, toUs, replies>>

-----------------------------------------------------------------------------
(* The reader's thread.                                                    *)

\* The next complete line.
Line(kind) == reader.at = "reading" /\ toUs # <<>> /\ Head(toUs).kind = kind

\* What is left of the reader when the code it called raised: OSError and
\* ValueError are taken for a closed pipe, anything else ends the thread.
PipeClosed == reader' = Gone("ended") /\ IF closed THEN UNCHANGED <<table, cell, told>>
                                                   ELSE \E S \in Tellable : FailAll(S)

\* A response: to a pending request, to a stream, which ends it, or to nobody.
RouteResponse ==
    LET i == Head(toUs).id
        waiting == Keyed(pending, i)
    IN /\ Line("response")
       /\ toUs' = Tail(toUs)
       /\ pending' = pending \ waiting
       /\ cell' = [c \in Calls |-> IF Entry(c) \in waiting THEN Head(toUs).body ELSE cell[c]]
       /\ IF waiting # {}
             THEN UNCHANGED <<longLived, told>>
             ELSE /\ longLived' = longLived \ Keyed(longLived, i)
                  /\ Tell(Keyed(longLived, i), Head(toUs).body)
       /\ UNCHANGED <<nextId, id, env, pc, reader, closed, closing, stdin, replies>>

\* A notification or a request: its handler is called.
RouteToHandler ==
    /\ Line("notice") \/ Line("ask")
    /\ toUs' = Tail(toUs)
    /\ reader' = [at |-> "handling", ask |-> Head(toUs).id]
    /\ UNCHANGED <<table, env, pc, cell, told, closed, closing, stdin, replies>>

\* A handler is out of its own request, if it made one.
HandlerFree == reader.at = "handling" /\ pc[Nested] \in {"new"} \cup Done

\* A notification's handler returns or raises.
NoticeHandled(how) ==
    /\ HandlerFree /\ reader.ask = 0
    /\ CASE how = "return" -> reader' = Reading /\ UNCHANGED <<table, cell, told>>
         [] how = "raise" -> reader' = Gone("died") /\ UNCHANGED <<table, cell, told>>
         [] how = "value" -> PipeClosed
    /\ UNCHANGED <<env, pc, closed, closing, stdin, toUs, replies>>

\* Fault: a handler whose own request failed is not answered for.
AnswersHappily(how) == pc[Nested] \in {"new", "answered"}

\* _handle_request writes a reply on every path: no handler, a result, an error.
Answers(how) == TRUE

\* The reply to a server's request; a write that fails raises an McpError.
Reply(how) ==
    /\ HandlerFree /\ reader.ask # 0
    /\ IF ~Answers(how)
          THEN reader' = Reading /\ UNCHANGED replies
          ELSE IF WriteWorks
                  THEN reader' = Reading /\ replies' = [replies EXCEPT ![reader.ask] = @ + 1]
                  ELSE reader' = Gone("died") /\ UNCHANGED replies
    /\ UNCHANGED <<table, env, pc, cell, told, closed, closing, stdin, toUs>>

\* _overflow: the streams and calls fail, and the reader closes the transport.
Overflow ==
    /\ Line("blob")
    /\ toUs' = Tail(toUs)
    /\ reader' = [at |-> "overflow", ask |-> 0]
    /\ FailAll(longLived)
    /\ UNCHANGED <<env, pc, closed, closing, stdin, replies>>

\* End of file.
ReadEof ==
    /\ reader.at = "reading" /\ toUs = <<>> /\ ~child
    /\ PipeClosed
    /\ UNCHANGED <<env, pc, closed, closing, stdin, toUs, replies>>

-----------------------------------------------------------------------------
(* close().                                                                *)

\* _closed and _fail_all; if an on_end raises, that is all close does.
CloseBegin(t) ==
    /\ closing[t] = "no" /\ t = "reader" => reader.at = "overflow"
    /\ closed' = TRUE
    /\ \E S \in Tellable :
          /\ FailAll(S)
          /\ closing' = [closing EXCEPT ![t] = IF S = longLived THEN "begun" ELSE "done"]
    /\ UNCHANGED <<env, pc, reader, stdin, toUs, replies>>

\* _proc is dropped and stdin closed; the wait for the child changes nothing here.
CloseEnd(t) ==
    /\ closing[t] = "begun"
    /\ closing' = [closing EXCEPT ![t] = "done"]
    /\ stdin' = FALSE
    /\ reader' = IF t = "reader" THEN Gone("ended") ELSE reader
    /\ UNCHANGED <<table, env, pc, cell, told, closed, toUs, replies>>

-----------------------------------------------------------------------------
(* The child.                                                              *)

Emitted(kind, i, b) == toUs' = Append(toUs, [kind |-> kind, id |-> i, body |-> b])

\* It answers a request it received, or ends a stream.
ChildAnswers(m) ==
    /\ child /\ m \in toChild
    /\ toChild' = toChild \ {m}
    /\ Emitted("response", m.id, m.call)
    /\ UNCHANGED <<table, child, own, pc, cell, told, reader, closed, closing, stdin, replies>>

ChildSends(kind) ==
    /\ child /\ Len(own) < Chatter
    /\ own' = Append(own, kind)
    /\ Emitted(kind, IF kind = "ask" THEN Len(own) + 1 ELSE 0, Nested)
    /\ UNCHANGED <<table, child, toChild, pc, cell, told, reader, closed, closing, stdin, replies>>

\* It exits, crashes, or is killed; what it wrote can still be read.
ChildExits ==
    /\ child /\ child' = FALSE
    /\ UNCHANGED <<table, toChild, own, pc, cell, told, reader, closed, closing, stdin, toUs,
                   replies>>

CallNext(c) == Register(c) \/ Wake(c) \/ TimeOut(c)
ReaderNext ==
    \/ RouteResponse \/ RouteToHandler \/ Overflow \/ ReadEof
    \/ \E how \in HandlerDoes \ {"request"} : NoticeHandled(how) \/ Reply(how)
CloseNext(t) == CloseBegin(t) \/ CloseEnd(t)
ChildNext ==
    \/ \E m \in toChild : ChildAnswers(m)
    \/ \E kind \in Kinds : ChildSends(kind)
    \/ ChildExits

Next ==
    \/ \E c \in Calls : CallNext(c)
    \/ \E s \in Streams : Open(s)
    \/ \E b \in Bodies : Send(b)
    \/ ReaderNext
    \/ \E t \in DOMAIN closing : CloseNext(t)
    \/ ChildNext

Spec == Init /\ [][Next]_vars

\* Threads run; a handler's own request times out.  No caller's timeout is
\* assumed, and the child owes nothing: not an answer, not its exit.
Fairness ==
    /\ WF_vars(ReaderNext) /\ WF_vars(CloseNext("reader")) /\ WF_vars(TimeOut(Nested))
    /\ \A c \in Calls : WF_vars(Wake(c))
    /\ \A b \in Bodies : WF_vars(Send(b))
FairSpec == Spec /\ Fairness

-----------------------------------------------------------------------------
TypeOK ==
    /\ nextId \in Nat /\ id \in [Bodies -> Nat]
    /\ pc \in [Bodies -> {"new", "registered", "waiting", "open"} \cup Done]
    /\ pending \subseteq [id : Nat, call : Calls]
    /\ longLived \subseteq [id : Nat, call : Streams]
    /\ cell \in [Calls -> {Empty, Lost} \cup Bodies]
    /\ told \in [Streams -> Seq({Lost} \cup Bodies)]
    /\ reader \in [at : {"reading", "handling", "overflow", "ended", "died"}, ask : 0 .. Chatter]
    /\ closed \in BOOLEAN /\ stdin \in BOOLEAN /\ child \in BOOLEAN
    /\ closing \in [{"closer", "reader"} -> {"no", "begun", "done"}]
    /\ toChild \subseteq [id : Nat, call : Bodies]
    /\ toUs \in Seq([kind : {"response", "notice", "ask", "blob"}, id : Nat, body : Bodies])
    /\ own \in Seq(Kinds) /\ replies \in [1 .. Chatter -> Nat]

\* What a call or a stream hears is the answer to its own request, whichever
\* other requests, late answers and streams share the pipe (_resolve_response).
Correlated ==
    /\ \A c \in Calls : cell[c] \in Bodies => cell[c] = c
    /\ \A s \in Streams : \A n \in 1 .. Len(told[s]) : told[s][n] \in {s, Lost}

\* A call has an entry exactly while its caller may still be woken: an entry
\* missing is a caller nobody can wake, one left behind a leak (_register,
\* request, _await_response, _resolve_response, _fail_all).
Awaits(c) == pc[c] \in {"registered", "waiting"} /\ cell[c] = Empty
Tracked ==
    /\ \A c \in Calls : Awaits(c) <=> (Entry(c) \in pending)
    /\ \A s \in Streams : Entry(s) \in longLived =>
                             pc[s] \in {"registered", "open"} /\ told[s] = <<>>

\* When the child is gone and the reader left its loop because of it, no call
\* waits and no stream is open unaware, though calls start at any time (_fail_all).
NobodyWaits ==
    /\ \A c \in Calls : pc[c] = "waiting" => cell[c] # Empty
    /\ \A s \in Streams : pc[s] = "open" => told[s] # <<>>
ExitWakesAll == reader.at = "ended" /\ ~closed => NobodyWaits

\* A stream's end is told at most once, though its response, the child's exit
\* and close() all tell it (_resolve_long_lived, _fail_all).
ToldOnce == \A s \in Streams : Len(told[s]) <= 1

\* A request of the server is on its way, in the reader's hand or answered,
\* and answered once, until the connection is lost (_handle_request).
ServerAnswered ==
    \A n \in {k \in 1 .. Len(own) : own[k] = "ask"} :
        \/ replies[n] = 1
        \/ replies[n] = 0
           /\ \/ reader.at \notin {"reading", "handling"}
              \/ reader.ask = n
              \/ \E k \in 1 .. Len(toUs) : toUs[k].kind = "ask" /\ toUs[k].id = n

\* Over stdio (BaseJsonRpcTransport) every answer reaches the call it is for, a call
\* has an entry while it may be woken and no longer, the child's exit wakes all of
\* them, a stream hears of its end once, and the server's requests are answered once.
StdioTrue == Correlated /\ Tracked /\ ExitWakesAll /\ ToldOnce /\ ServerAnswered

\* A caller whose server died returns without its timeout, unless the transport
\* was closed or the reader died before it (_read_loop, _fail_all).
HearsOfExit ==
    \A c \in Callers : (pc[c] = "waiting" /\ ~child)
                          ~> (pc[c] \in Done \/ closed \/ reader.at = "died")

-----------------------------------------------------------------------------
(* What comments say and the code does not do.                             *)

\* "Without this a caller blocked in request() waits out its full timeout after
\* the child has already died" (_fail_all): when child and reader are gone,
\* nobody waits.
DeathWakesAll == ~child /\ reader.at \in {"ended", "died"} => NobodyWaits

\* "so a handler that immediately re-lists sees fresh data" (McpClient.listen):
\* an answer on the way to a handler's request has a reader to deliver it.
HandlerHears ==
    ~(pc[Nested] = "waiting" /\ cell[Nested] = Empty /\ reader.at = "handling"
        /\ \E n \in 1 .. Len(toUs) : toUs[n].kind = "response" /\ toUs[n].id = id[Nested])
=============================================================================
