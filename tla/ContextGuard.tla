---------------------------- MODULE ContextGuard ----------------------------
(***************************************************************************)
(* A conversation that outgrows its window: ContextGuard                   *)
(* (src/combycode_llm_sdk/context/context_guard.py), which a measurer calls *)
(* before every request (context/guard.py), the three strategies it may be *)
(* given (context/strategies.py, over context/tools.py) and the history    *)
(* they rewrite.  Shares of the window are counted in tokens.              *)
(***************************************************************************)
EXTENDS Integers, Sequences, FiniteSetsExt

CONSTANTS
    Strategies,       \* of "truncate", "layered", "anchored"
    Triggers,         \* strategy -> its ladder: tokens, lowest first
    Ceiling,          \* decline_ceiling
    Floor,            \* critical_floor
    Keep,             \* keep_recent, recent_count
    Jump,             \* jump_escalate_delta
    MaxCompactRetries,
    Weights,          \* of messages
    MaxEntries        \* bound: how many messages are ever said

-----------------------------------------------------------------------------
(* The history: what the operations of ConversationHistory                   *)
(* (src/combycode_llm_sdk/agent/history.py) do to one.  An entry has a kind, *)
(* the id that pairs a call with its result, and a weight, which is what the *)
(* heuristic says; the provider counts one token more for each.              *)

Entry(kind, id, w) == [kind |-> kind, id |-> id, w |-> w]

\* Indices are the source's, from 0; `index` and `total` are the provider's last count.
None == 0 - 1
Fresh == [entries |-> <<>>, index |-> None, total |-> 0]

At(h, i) == h.entries[i + 1]
Size(h) == Len(h.entries)
Heuristic(entries) ==
    LET sum[i \in 0 .. Len(entries)] == IF i = 0 THEN 0 ELSE sum[i - 1] + entries[i].w
    IN  sum[Len(entries)]
Provider(entries) == Heuristic(entries) + Len(entries)

\* An assistant's message anchors the estimate if it came with usage.
Append_(h, e, counted) ==
    [entries |-> Append(h.entries, e),
     index   |-> IF counted THEN Size(h) - 1 ELSE h.index,
     total   |-> IF counted THEN Provider(h.entries) ELSE h.total]

EstimatedTokens(h) ==
    IF h.index \in 0 .. Size(h) - 1
    THEN h.total + Heuristic(SubSeq(h.entries, h.index + 2, Size(h)))
    ELSE Heuristic(h.entries)

\* Would the first entry kept, at i, answer a call that was cut?
Orphaned(h, i) ==
    /\ At(h, i).kind = "result"
    /\ \A j \in i .. Size(h) - 1 : ~(At(h, j).kind = "call" /\ At(h, j).id = At(h, i).id)

\* Fault: the cut is where the count says.
CutByCount(h, keep) == Size(h) - keep

Cut(h, keep) == Min({i \in Size(h) - keep .. Size(h) : i = Size(h) \/ ~Orphaned(h, i)})

\* truncate: the provider's count is left as it was.
Truncate(h, keep) ==
    IF keep >= Size(h) THEN h
    ELSE [h EXCEPT !.entries = SubSeq(@, Cut(h, keep) + 1, Size(h))]

\* Fault: the count is kept, against different messages.
ForgotKeeping(h, start) == h

Forgot(h, start) == IF h.index >= start THEN [h EXCEPT !.index = None, !.total = 0] ELSE h

\* splice_range: [start, stop) becomes one message.
Splice(h, start, stop, e) ==
    IF start < 0 \/ stop > Size(h) \/ start >= stop THEN h
    ELSE Forgot([h EXCEPT !.entries =
                    SubSeq(@, 1, start) \o <<e>> \o SubSeq(@, stop + 1, Size(h))], start)

\* fork, and restore of a dump: the entries without the count.
Copy(h) == [h EXCEPT !.index = None, !.total = 0]

-----------------------------------------------------------------------------
(* The conversation's state.                                                 *)

VARIABLES
    strategy,
    history,
    guard,        \* [level, current]: last_level_idx (0: none, a rung from 1) and last_current
    turn,         \* "idle", "ask", "reacting", "sent", "tool"
    reading,      \* of the reaction: [level, current, delta, attempt]
    said,         \* how many messages there were
    \* history
    last,         \* the entries of the last request, as it was sent or refused
    refused       \* the last request was aborted

vars == <<strategy, history, guard, turn, reading, said, last, refused>>

NoReading == [level |-> 0, current |-> 0, delta |-> 0, attempt |-> 0]
Weight == Heuristic(history.entries)
Ladder == Triggers[strategy]

Init ==
    /\ strategy \in Strategies
    /\ history = Fresh /\ guard = [level |-> 0, current |-> 0]
    /\ turn = "idle" /\ reading = NoReading /\ said = 0
    /\ last = <<>> /\ refused = FALSE

-----------------------------------------------------------------------------
(* The conversation.                                                         *)

Speak(kind, id, counted, next) ==
    /\ said < MaxEntries /\ said' = said + 1
    /\ \E w \in Weights : history' = Append_(history, Entry(kind, id, w), counted)
    /\ turn' = next
    /\ UNCHANGED <<strategy, guard, reading, last, refused>>

User == turn = "idle" /\ Speak("user", said, FALSE, "ask")

\* The model answers, with or without a count of its input, or asks for tools.
Reply == turn = "sent" /\ \E counted \in BOOLEAN : Speak("reply", said, counted, "idle")
Call == turn = "sent" /\ \E counted \in BOOLEAN : Speak("call", said, counted, "tool")

\* All results of a round are one message, which follows the one with the calls.
Result == turn = "tool" /\ Speak("result", history.entries[Len(history.entries)].id, FALSE, "ask")

\* The same request again, or the conversation exported and restored elsewhere: the
\* guard's state travels in the metadata.
Repeat ==
    /\ turn = "sent" /\ turn' = "ask"
    /\ UNCHANGED <<strategy, history, guard, reading, said, last, refused>>
Restore ==
    /\ turn = "idle" /\ history' = Copy(history) /\ history' # history
    /\ UNCHANGED <<strategy, guard, turn, reading, said, last, refused>>

-----------------------------------------------------------------------------
(* Measuring.                                                                *)

\* highest_crossed_level of a sorted ladder.
Crossed(w) == Cardinality({k \in DOMAIN Ladder : w >= Ladder[k]})

\* Fault: pressure that stays is taken for growth.
ClimbingOrStill(level, delta) == level > 0 /\ level = guard.level /\ delta >= 0

Climbing(level, delta) == level > 0 /\ level = guard.level /\ delta > 0

Ended(aborted) ==
    /\ turn' = (IF aborted THEN "idle" ELSE "sent")
    /\ last' = history'.entries /\ refused' = aborted /\ reading' = NoReading

\* _handle_measure up to its loop.
Measure ==
    /\ turn = "ask"
    /\ LET level == Crossed(Weight)
           delta == Weight - guard.current
       IN  IF level > guard.level \/ Climbing(level, delta)
           THEN /\ guard' = [level |-> level, current |-> Weight]
                /\ reading' = [level |-> level, current |-> Weight, delta |-> delta, attempt |-> 0]
                /\ turn' = "reacting" /\ UNCHANGED <<history, last, refused>>
           ELSE /\ guard' = [level |-> Max({guard.level, level}), current |-> Weight]
                /\ UNCHANGED history /\ Ended(FALSE)
    /\ UNCHANGED <<strategy, said>>

-----------------------------------------------------------------------------
(* The strategies: each is a set of [action, history].                       *)

Decision(action, h) == [action |-> action, history |-> h]

\* Fault: the strategy judges by the count that made it act.
Left_Before(h) == reading.current

\* measure_current: what the request weighs now.
ShareLeft(h) == Heuristic(h.entries)

Judged(h) == {Decision(IF ShareLeft(h) >= Ceiling THEN "decline" ELSE "compacted", h)}

ReactTruncate ==
    IF Size(history) <= Keep THEN {Decision("none", history)}
    ELSE Judged(IF Keep = 0 THEN Fresh ELSE Truncate(history, Keep))

\* segment: old is [0, Mid), middle [Mid, Start), recent the rest.
Start(h, recent) == Max({0, Size(h) - recent})
Mid(h, recent) == Start(h, recent) \div 2
Summary == Entry("summary", None, 1)

CompactOld ==
    IF Mid(history, Keep) = 0 THEN {Decision("none", history)}
    ELSE {Decision("compacted", Splice(history, 0, Mid(history, Keep), Summary))}

OldAndMiddle ==
    LET mid == Mid(history, Keep)
        moved == IF mid > 0 THEN 1 ELSE 0   \* the old ones are one entry now
    IN  Splice(Splice(history, 0, mid, Summary),
               moved, moved + Start(history, Keep) - mid, Summary)

CompactAll ==
    LET h == OldAndMiddle IN Splice(h, 0, Size(h) - Max({2, Keep \div 2}), Summary)

CompactAggressively ==
    IF Size(history) <= 2 THEN {Decision("decline", history)}
    ELSE {Decision("compacted", Splice(history, 0, Size(history) - 2, Summary))}

\* _escalate_on_a_jump.
Escalated ==
    IF reading.delta >= Jump /\ reading.level < Len(Ladder) THEN reading.level + 1 ELSE reading.level

ReactLayered ==
    IF reading.current >= Ceiling /\ reading.attempt >= 1 THEN {Decision("decline", history)}
    ELSE CASE Escalated = 1 -> CompactOld
           [] Escalated = 2 -> {Decision("compacted", OldAndMiddle)}
           [] Escalated = 3 -> {Decision("compacted", CompactAll)}
           [] OTHER -> CompactAggressively

\* Fault: the tail starts where the count says.
RetainByCount == Start(history, Keep)

\* calculate_retain_start_index: a result takes its call along.
RetainStart ==
    LET s == Start(history, Keep) IN
    IF s > 0 /\ At(history, s).kind = "result" /\ At(history, s - 1).kind = "call" THEN s - 1 ELSE s

\* A summariser that says nothing must not erase history.
ReactAnchored ==
    IF \/ Size(history) <= Keep + 1
       \/ RetainStart <= (IF At(history, 0).kind = "anchor" THEN 1 ELSE 0)
    THEN {Decision("none", history)}
    ELSE {Decision("decline", history)}
            \cup Judged(Splice(history, 0, RetainStart, Entry("anchor", None, 1)))

Decisions ==
    CASE strategy = "truncate" -> ReactTruncate
      [] strategy = "layered" -> ReactLayered
      [] strategy = "anchored" -> ReactAnchored

-----------------------------------------------------------------------------
\* One turn of the guard's loop: what is left after compacting decides whether to go on.
React ==
    /\ turn = "reacting"
    /\ \E d \in Decisions :
          /\ history' = d.history
          /\ LET left == Heuristic(d.history.entries) IN
             IF d.action # "compacted" \/ (left < Floor /\ left < Ladder[reading.level])
                THEN Ended(d.action = "decline")
             ELSE IF reading.attempt = MaxCompactRetries THEN Ended(TRUE)
             ELSE /\ reading' = [reading EXCEPT !.current = left, !.attempt = @ + 1]
                  /\ UNCHANGED <<turn, last, refused>>
    /\ UNCHANGED <<strategy, guard, said>>

Next == User \/ Reply \/ Call \/ Result \/ Repeat \/ Restore \/ Measure \/ React

Spec == Init /\ [][Next]_vars

-----------------------------------------------------------------------------
TypeOK ==
    /\ strategy \in Strategies /\ turn \in {"idle", "ask", "reacting", "sent", "tool"}
    /\ history.index \in None .. MaxEntries /\ history.total \in Nat
    /\ guard.level \in 0 .. Len(Ladder) /\ guard.current \in Nat
    /\ reading.attempt \in 0 .. MaxCompactRetries /\ said \in 0 .. MaxEntries

Pairs(entries) ==
    \A k \in DOMAIN entries : entries[k].kind = "result" =>
        \E j \in 1 .. k - 1 : entries[j].kind = "call" /\ entries[j].id = entries[k].id

\* Compaction never leaves a result whose call is gone, wherever in a round of tools
\* it happens: "a provider rejects a result that answers nothing" (truncate), "some
\* providers reject outright" (calculate_retain_start_index).
PairsKept == strategy # "layered" => Pairs(history.entries)

\* ... which the layered strategy's halves do not see to.
PairsKeptByAll == Pairs(history.entries)

\* "Exact for everything the provider has already counted" (estimated_tokens): the
\* count belongs to the messages it is said to cover, through every splice and copy.
Exact ==
    history.index \in 0 .. Size(history) - 1
        => history.total = Provider(SubSeq(history.entries, 1, history.index + 1))
CountBelongs == strategy # "truncate" => Exact

\* What the guard and its strategies do to a history keeps it sendable and its count true.
HistoryTrue == PairsKept /\ CountBelongs

\* The guard "judges a strategy on what compaction LEFT": a request is refused only if
\* what is left of it still weighs at least the first rung.
RefusedForCause == refused /\ turn = "idle" /\ last = history.entries => Weight >= Ladder[1]

\* "Reacting to every measurement would summarise the same range repeatedly": a
\* conversation measured twice with nothing said in between is not compacted again.
Calm == [][turn = "ask" /\ history.entries = last /\ ~refused => turn' = "sent"]_vars

\* "It reacts to a NEW crossing" (context_guard.py): a conversation that was below
\* every rung when last sent and is above one now gets a reaction.
CrossingHeard ==
    [][turn = "ask" /\ turn' = "sent" /\ Heuristic(last) < Ladder[1] => Weight < Ladder[1]]_vars
=============================================================================
