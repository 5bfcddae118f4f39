--------------------------- MODULE RealtimeSession ---------------------------
(***************************************************************************)
(* A realtime session over one websocket: RealtimeConnection's reader      *)
(* thread opens the socket, shakes hands, pumps frames and ends with the   *)
(* END sentinel; callers' threads send turns, held in the outbox until the *)
(* handshake is over; a consumer iterates over the events; anyone closes.  *)
(* A turn is <<caller, number>>, a frame of it <<caller, number, frame>>.  *)
(***************************************************************************)
EXTENDS Integers, Sequences, Functions, FiniteSets

CONSTANTS
    Callers,        \* threads that send turns
    MaxTurns,       \* turns each of them sends
    MaxMessages,    \* events the model sends
    Raising         \* hooks that may raise: of "open", "frame", "close"

VARIABLES
    provider,       \* "openai" is ready with its socket, "google" when told setupComplete
    opener,         \* the call of open(): "none", "waiting", "open" or "failed"
    reader,         \* where the reader thread stands
    sock,           \* the socket: "none", "up" or "broken"
    isClosed,       \* RealtimeConnection._closed
    ready,          \* BaseSession._ready
    outbox,         \* BaseSession._outbox: the frames of the turns held
    flushing,       \* the frames of the turns mark_ready took and has still to send
    cut,            \* history: a send of the flush raised and the rest of it is dropped
    lock,           \* who holds the outbox lock: "none" or a caller
    caller,         \* each caller: where it stands, its turn and the frames of it still to send
    held,           \* turns whose send returned and put them in the outbox
    events,         \* BaseSession._events
    said,           \* events the model has sent
    wire,           \* frames sent on the socket; <<>> is the handshake
    iterator        \* the consumer: "reading" or "ended"

realtimeVars == <<provider, opener, reader, sock, isClosed, ready, outbox, flushing, cut, lock, caller,
                  held, events, said, wire, iterator>>

\* build_turn_frames: the item and the request for an answer, or one frame with both.
FramesOf(turn) == [i \in 1 .. (IF provider = "openai" THEN 2 ELSE 1) |-> turn \o <<i>>]

Resting == [pc |-> "idle", turn |-> 0, left |-> <<>>]
Live == sock # "none" /\ reader # "ending" /\ ~isClosed
Put(event) == events' = Append(events, event)

Init ==
    /\ provider \in {"openai", "google"}
    /\ opener = "none" /\ reader = "none" /\ sock = "none" /\ isClosed = FALSE
    /\ ready = FALSE /\ outbox = <<>> /\ flushing = <<>> /\ cut = FALSE /\ lock = "none"
    /\ caller = [c \in Callers |-> Resting] /\ held = {}
    /\ events = <<>> /\ said = 0 /\ wire = <<>> /\ iterator = "reading"
-----------------------------------------------------------------------------
\* open() starts the reader, waits for its word and raises when there is none in time.
OpenBegins ==
    /\ opener = "none" /\ opener' = "waiting" /\ reader' = "connecting"
    /\ UNCHANGED <<provider, sock, isClosed, ready, outbox, flushing, cut, lock, caller, held, events, said, wire, iterator>>

OpenReturns ==
    /\ opener = "waiting" /\ reader # "connecting"
    /\ opener' = IF sock = "up" /\ reader # "ending" THEN "open" ELSE "failed"
    /\ UNCHANGED <<provider, reader, sock, isClosed, ready, outbox, flushing, cut, lock, caller, held, events, said, wire, iterator>>

OpenTimesOut ==
    /\ opener = "waiting" /\ reader = "connecting"
    /\ opener' = "failed" /\ isClosed' = TRUE
    /\ UNCHANGED <<provider, reader, sock, ready, outbox, flushing, cut, lock, caller, held, events, said, wire, iterator>>

Close ==
    /\ opener \in {"open", "failed"} /\ ~isClosed
    /\ isClosed' = TRUE
    /\ UNCHANGED <<provider, opener, reader, sock, ready, outbox, flushing, cut, lock, caller, held, events, said, wire, iterator>>

\* The network ends the socket: the next send or receive raises.
Break ==
    /\ sock = "up" /\ sock' = "broken"
    /\ UNCHANGED <<provider, opener, reader, isClosed, ready, outbox, flushing, cut, lock, caller, held, events, said, wire, iterator>>
-----------------------------------------------------------------------------
\* The reader enters the socket, or fails to: a failure before the socket is up is open()'s to tell.
Connect ==
    /\ reader = "connecting"
    /\ \/ reader' = "opening" /\ sock' = "up"
       \/ reader' = "ending" /\ UNCHANGED sock
    /\ UNCHANGED <<provider, opener, isClosed, ready, outbox, flushing, cut, lock, caller, held, events, said, wire, iterator>>

\* onRealtimeOpen, then the session's on_open: the handshake, which may not go out.
Handshake ==
    /\ reader = "opening"
    /\ \/ /\ "open" \in Raising
          /\ reader' = "ending" /\ Put("error") /\ UNCHANGED wire
       \/ /\ Live /\ sock = "up" /\ wire' = Append(wire, <<>>)
          /\ \/ reader' = (IF provider = "openai" THEN "marking" ELSE "pumping") /\ UNCHANGED events
             \/ "frame" \in Raising /\ reader' = "pumping" /\ Put("error")
       \/ ~(Live /\ sock = "up") /\ reader' = "pumping" /\ Put("error") /\ UNCHANGED wire
    /\ UNCHANGED <<provider, opener, sock, isClosed, ready, outbox, flushing, cut, lock, caller, held, said, iterator>>

\* mark_ready: lets sends through, takes the outbox under its lock, sends what it held and says "open".
MarkReady ==
    /\ reader = "marking"
    /\ ready' = TRUE
    /\ IF ready THEN reader' = "pumping" ELSE reader' = "swapping"
    /\ UNCHANGED <<provider, opener, sock, isClosed, outbox, flushing, cut, lock, caller, held, events, said, wire, iterator>>

TakeOutbox ==
    /\ reader = "swapping" /\ lock = "none"
    /\ flushing' = outbox /\ outbox' = <<>> /\ reader' = "flushing"
    /\ UNCHANGED <<provider, opener, sock, isClosed, ready, cut, lock, caller, held, events, said, wire, iterator>>

\* A send that raises here ends the flush: what is left of it is not sent any more.
Flush ==
    /\ reader = "flushing"
    /\ \/ /\ flushing # <<>> /\ Live /\ sock = "up"
          /\ wire' = Append(wire, Head(flushing)) /\ flushing' = Tail(flushing)
          /\ \/ UNCHANGED <<reader, events, cut>>
             \/ "frame" \in Raising /\ cut' = TRUE /\ reader' = "pumping" /\ Put("error")
       \/ /\ flushing # <<>> /\ ~(Live /\ sock = "up")
          /\ cut' = TRUE /\ flushing' = <<>> /\ reader' = "pumping" /\ Put("error") /\ UNCHANGED wire
       \/ flushing = <<>> /\ reader' = "pumping" /\ Put("open") /\ UNCHANGED <<flushing, wire, cut>>
    /\ UNCHANGED <<provider, opener, sock, isClosed, ready, outbox, lock, caller, held, said, iterator>>

\* One turn of the pump: the flag, a socket that fails, or a frame, whose hook may raise.
Pump ==
    /\ reader = "pumping"
    /\ \/ isClosed /\ reader' = "ending" /\ UNCHANGED <<events, said>>
       \/ ~isClosed /\ sock = "broken" /\ reader' = "ending" /\ Put("error") /\ UNCHANGED said
       \/ /\ ~isClosed /\ sock = "up"
          /\ \/ /\ provider = "google" /\ <<>> \in Range(wire)      \* setupComplete
                /\ reader' = "marking" /\ UNCHANGED <<events, said>>
             \/ /\ said < MaxMessages /\ said' = said + 1
                /\ \/ Put("message") /\ UNCHANGED reader
                   \/ "frame" \in Raising /\ Put("error") /\ reader' = "ending"
    /\ UNCHANGED <<provider, opener, sock, isClosed, ready, outbox, flushing, cut, lock, caller, held, wire, iterator>>

\* Fault: END pushed as soon as the failure is seen, before its report.
EndedEarly == reader' = "done" /\ sock' = "none" /\ events' = events \o <<"end", "error">>
\* Fault: the close callbacks are run only when the socket had opened.
EndedIfOpened == /\ reader' = "done" /\ sock' = "none"
                 /\ IF sock = "none" THEN UNCHANGED events ELSE Put("end")
\* The finally of _run: onRealtimeClose, then the callbacks, which push END.
Ended == /\ reader' = "done" /\ sock' = "none"
         /\ Put("end") \/ ("close" \in Raising /\ UNCHANGED events)
End ==
    /\ reader = "ending" /\ Ended
    /\ UNCHANGED <<provider, opener, isClosed, ready, outbox, flushing, cut, lock, caller, held, said, wire, iterator>>
-----------------------------------------------------------------------------
\* _when_ready: look without the lock, and again with it.
Send(c) ==
    /\ opener # "none" /\ caller[c].pc = "idle" /\ caller[c].turn < MaxTurns
    /\ LET turn == caller[c].turn + 1 IN
       caller' = IF ready THEN [caller EXCEPT ![c] = [pc |-> "sending", turn |-> turn, left |-> FramesOf(<<c, turn>>)]]
                 ELSE [caller EXCEPT ![c].pc = "looked", ![c].turn = turn]
    /\ UNCHANGED <<provider, opener, reader, sock, isClosed, ready, outbox, flushing, cut, lock, held, events, said, wire, iterator>>

\* Fault: no second look under the lock.
NeverMaySend == FALSE
MaySend == ready
LookAgain(c) ==
    /\ caller[c].pc = "looked" /\ lock = "none"
    /\ LET turn == <<c, caller[c].turn>> IN
       IF MaySend
       THEN /\ lock' = c
            /\ caller' = [caller EXCEPT ![c].pc = "sending", ![c].left = FramesOf(turn)]
            /\ UNCHANGED <<outbox, held>>
       ELSE /\ outbox' = outbox \o FramesOf(turn) /\ held' = held \cup {turn}
            /\ caller' = [caller EXCEPT ![c].pc = "idle"]
            /\ UNCHANGED lock
    /\ UNCHANGED <<provider, opener, reader, sock, isClosed, ready, flushing, cut, events, said, wire, iterator>>

\* A frame goes out or raises in the caller, who is then done with its turn.
SendFrame(c) ==
    /\ caller[c].pc = "sending"
    /\ \/ /\ Live /\ sock = "up"
          /\ wire' = Append(wire, Head(caller[c].left))
          /\ \E stop \in {Len(caller[c].left) = 1, TRUE} :
                /\ stop => Len(caller[c].left) = 1 \/ "frame" \in Raising
                /\ caller' = [caller EXCEPT ![c].left = IF stop THEN <<>> ELSE Tail(@),
                                            ![c].pc = IF stop THEN "idle" ELSE @]
       \/ ~(Live /\ sock = "up") /\ caller' = [caller EXCEPT ![c].left = <<>>, ![c].pc = "idle"] /\ UNCHANGED wire
    /\ lock' = IF lock = c /\ caller'[c].pc = "idle" THEN "none" ELSE lock
    /\ UNCHANGED <<provider, opener, reader, sock, isClosed, ready, outbox, flushing, cut, held, events, said, iterator>>

\* The iterator takes one event, and stops at END.
Read ==
    /\ iterator = "reading" /\ events # <<>>
    /\ iterator' = IF Head(events) = "end" THEN "ended" ELSE "reading"
    /\ events' = Tail(events)
    /\ UNCHANGED <<provider, opener, reader, sock, isClosed, ready, outbox, flushing, cut, lock, caller, held, said, wire>>

Reads == Connect \/ Handshake \/ MarkReady \/ TakeOutbox \/ Flush \/ Pump \/ End
Next ==
    \/ OpenBegins \/ OpenReturns \/ OpenTimesOut \/ Close \/ Break
    \/ Reads
    \/ \E c \in Callers : Send(c) \/ LookAgain(c) \/ SendFrame(c)
    \/ Read

\* The reader, the consumer and a caller inside a send are threads that are scheduled again.
Scheduled == WF_realtimeVars(Reads) /\ WF_realtimeVars(Read) /\ \A c \in Callers : WF_realtimeVars(SendFrame(c))
Spec == Init /\ [][Next]_realtimeVars /\ Scheduled
-----------------------------------------------------------------------------
Turns == {<<c, n>> : c \in Callers, n \in 1 .. MaxTurns}

\* The state keeps its type.
TypeOK ==
    /\ opener \in {"none", "waiting", "open", "failed"} /\ lock \in Callers \cup {"none"}
    /\ reader \in {"none", "connecting", "opening", "marking", "swapping", "flushing", "pumping", "ending", "done"}
    /\ sock \in {"none", "up", "broken"} /\ held \subseteq Turns
    /\ Range(events) \subseteq {"open", "message", "error", "end"}

\* The handshake is the first frame of the socket and the session is never ready without it; no frame
\* goes out twice; a turn that was held is never left behind: while the session is not ready it waits in the
\* outbox, afterwards it is on the wire, unless a send of the flush raised (_when_ready and mark_ready).
TurnsKept ==
    /\ wire # <<>> => Head(wire) = <<>>
    /\ IsInjective(wire)
    /\ ready /\ reader \notin {"marking", "swapping"} => outbox = <<>>
    /\ ready /\ reader = "pumping" /\ ~cut
       => \A turn \in held : Range(FramesOf(turn)) \subseteq Range(wire)

\* END is the last event of a session, so that an iterator that stops has missed nothing.
EndLast == \A i \in DOMAIN events : events[i] = "end" => i = Len(events) /\ reader = "done"

\* Once the socket is closed, broken or refused, a consumer blocked on the queue gets to END.
IteratorEnds == (isClosed \/ sock = "broken" \/ reader = "ending") ~> (iterator = "ended")

\* Stated and refuted by TLC: a caller's turns go out in the order it sent them, each in one piece.
InOrder ==
    \A i, j \in DOMAIN wire : i < j /\ wire[i] # <<>> /\ wire[i][1] = wire[j][1] =>
        wire[i][2] < wire[j][2] \/ (wire[i][2] = wire[j][2] /\ wire[i][3] < wire[j][3])
InOnePiece ==
    \A i \in 1 .. Len(wire) - 1 : wire[i] # <<>> /\ Len(FramesOf(<<>>)) = 2 /\ wire[i][3] = 1 =>
        SubSeq(wire[i + 1], 1, 2) = SubSeq(wire[i], 1, 2)
=============================================================================
