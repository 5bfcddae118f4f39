---------------------------- MODULE StreamedTurn ----------------------------
(***************************************************************************)
(* One streamed turn: LLMClient.stream over the adapter's events, with the *)
(* moderation wrappers of llm/moderation/runner.py around them, inside the *)
(* chain of clients that agent/fallback.py tries in turn.  An event is a   *)
(* piece of text, one that ends a line, or another; text is counted in     *)
(* pieces, so a verdict is known by how many of them it was given.         *)
(***************************************************************************)
EXTENDS Integers, Sequences, SequencesExt, FiniteSets

CONSTANTS
    Backups,        \* clients after the first
    Strategies,     \* of "none", "post", "buffer" and "parallel"
    Interval,       \* pieces of text between two moderations
    MaxEvents

VARIABLES
    strategy, judgesInput,
    client,         \* the client in the chain, from 0
    turn,           \* "begin", "pull", "drain", "done", "failed", "left"
    said,           \* the client's events so far
    text, checked,  \* pieces accumulated, and when last moderated
    hold,           \* events held back
    out,            \* events about to be yielded, in order
    pending,        \* moderations under way, by the text they were given
    seen,           \* what the consumer was given
    report,         \* the verdict in the accumulator
    completions,    \* onCompletion emitted
    failed          \* whether a backup may be tried after the error that ended the last client's stream

turnVars == <<strategy, judgesInput, client, turn, said, text, checked, hold, out, pending, seen, report,
              completions, failed>>

Kinds == {"text", "line", "other"}
Event(kind, n) == [kind |-> kind, by |-> client, n |-> n]
Verdict(n) == Event("verdict", n)
IsText(e) == e.kind \in {"text", "line"}

Init ==
    /\ strategy \in Strategies /\ judgesInput \in BOOLEAN
    /\ client = 0 /\ turn = "begin" /\ said = <<>> /\ text = 0 /\ checked = 0
    /\ hold = <<>> /\ out = <<>> /\ pending = {} /\ seen = <<>> /\ report = 0 /\ completions = 0
    /\ failed = FALSE
-----------------------------------------------------------------------------
\* stream(): the input is judged, and its verdict yielded, before the first event is asked for.
Begin ==
    /\ turn = "begin" /\ turn' = "pull"
    /\ out' = IF judgesInput THEN <<Event("input", 0)>> ELSE <<>>
    /\ UNCHANGED <<strategy, judgesInput, client, said, text, checked, hold, pending, seen, report, completions, failed>>

\* The next event of the provider, and what its wrapper makes of it.
Yields(held, events, judging, at) == hold' = held /\ out' = events /\ pending' = judging /\ checked' = at
Boundary(n) == n - checked >= Interval

\* Fault: what is held is let go first and judged then.
ReleasedFirst(held, n) == Append(held, Verdict(n))
\* _wrap_buffer: the verdict comes before the events it is about.
Released(held, n) == <<Verdict(n)>> \o held

Pull(kind) ==
    LET e == Event(kind, Len(said) + 1)
        n == IF IsText(e) THEN text + 1 ELSE text
    IN  /\ turn = "pull" /\ out = <<>> /\ Len(said) < MaxEvents
        /\ said' = Append(said, e) /\ text' = n
        /\ CASE strategy = "buffer" ->
                  IF IsText(e) /\ (Boundary(n) \/ kind = "line")
                  THEN Yields(<<>>, Released(Append(hold, e), n), {}, n)
                  ELSE Yields(Append(hold, e), <<>>, {}, checked)
             [] strategy = "parallel" ->
                  IF IsText(e) /\ Boundary(n) THEN Yields(<<>>, <<e>>, pending \cup {n}, n)
                  ELSE Yields(<<>>, <<e>>, pending, checked)
             [] OTHER -> Yields(<<>>, <<e>>, {}, checked)
        /\ UNCHANGED <<strategy, judgesInput, client, turn, seen, report, completions, failed>>

\* Fault: what is held when the stream ends is not let go.
TailJudgedOnly == IF text > checked THEN <<Verdict(text)>> ELSE <<>>
\* The tail: what came since the last check is judged, then what is still held is let go.
Tail_ == (IF text > checked THEN <<Verdict(text)>> ELSE <<>>) \o hold

SourceEnds ==
    /\ turn = "pull" /\ out = <<>> /\ turn' = "drain"
    /\ CASE strategy = "buffer" -> Yields(<<>>, Tail_, {}, text)
         [] strategy = "parallel" -> Yields(<<>>, <<>>, IF text > checked THEN pending \cup {text} ELSE pending, text)
         [] strategy = "post" -> Yields(<<>>, IF text > 0 THEN <<Verdict(text)>> ELSE <<>>, {}, checked)
         [] OTHER -> Yields(<<>>, <<>>, {}, checked)
    /\ UNCHANGED <<strategy, judgesInput, client, said, text, seen, report, completions, failed>>

\* A moderation that was running beside the stream comes back.
Judged(n) ==
    /\ n \in pending /\ out = <<>> /\ turn \in {"pull", "drain"}
    /\ pending' = pending \ {n} /\ out' = <<Verdict(n)>>
    /\ UNCHANGED <<strategy, judgesInput, client, turn, said, text, checked, hold, seen, report, completions, failed>>

\* The consumer takes the next event; the accumulator has absorbed it.
Yield ==
    /\ out # <<>> /\ turn \in {"pull", "drain"}
    /\ seen' = Append(seen, Head(out)) /\ out' = Tail(out)
    /\ report' = IF Head(out).kind = "verdict" THEN Head(out).n ELSE report
    /\ UNCHANGED <<strategy, judgesInput, client, turn, said, text, checked, hold, pending, completions, failed>>

\* The stream is exhausted: onCompletion, and the chain returns.
Complete ==
    /\ turn = "drain" /\ out = <<>> /\ pending = {}
    /\ turn' = "done" /\ completions' = completions + 1
    /\ UNCHANGED <<strategy, judgesInput, client, said, text, checked, hold, out, pending, seen, report, failed>>

\* Fault: a backup goes on where the client before it stopped.
MayHandOffAlways(retryable) == retryable /\ client < Backups /\ strategy # "parallel"
\* stream_with_fallback: a backup is tried until the consumer was given anything. "parallel" is the async client's,
\* which is in no chain.
MayHandOff(retryable) == seen = <<>> /\ retryable /\ client < Backups /\ strategy # "parallel"

\* The provider's stream raises, or a hook's handler does, before it or in a moderation. A moderation itself never
\* raises (run_moderation). What a wrapper holds is dropped.
Raise(retryable) ==
    /\ out = <<>>
    /\ turn = "pull" \/ (~retryable /\ (turn = "begin" \/ (turn = "drain" /\ pending # {})))
    /\ failed' = retryable
    /\ hold' = <<>> /\ pending' = {} /\ said' = <<>> /\ text' = 0 /\ checked' = 0 /\ report' = 0
    /\ IF MayHandOff(retryable) THEN client' = client + 1 /\ turn' = "begin"
       ELSE turn' = "failed" /\ UNCHANGED client
    /\ UNCHANGED <<strategy, judgesInput, out, seen, completions>>

\* The consumer breaks off; in _wrap_parallel what is under way is cancelled.
Leave ==
    /\ turn \in {"pull", "drain"} /\ seen # <<>>
    /\ turn' = "left" /\ pending' = {}
    /\ UNCHANGED <<strategy, judgesInput, client, said, text, checked, hold, out, seen, report, completions, failed>>

Next ==
    \/ Begin \/ SourceEnds \/ Yield \/ Complete \/ Leave
    \/ \E kind \in Kinds : Pull(kind)
    \/ \E n \in pending : Judged(n)
    \/ \E retryable \in BOOLEAN : Raise(retryable)

Spec == Init /\ [][Next]_turnVars
-----------------------------------------------------------------------------
\* The state keeps its type.
TypeOK ==
    /\ strategy \in {"none", "post", "buffer", "parallel"} /\ client \in 0 .. Backups
    /\ turn \in {"begin", "pull", "drain", "done", "failed", "left"}
    /\ checked <= text /\ text <= Len(said) /\ pending \subseteq 1 .. text

OfModel(events) == SelectSeq(events, LAMBDA e : e.kind \in Kinds)
TextsIn(events) == SelectSeq(events, IsText)

\* The consumer is given one model's answer, from its beginning, in order and with nothing left out but what is
\* held; all of it once the turn is complete, and then onCompletion was emitted, once (stream_with_fallback,
\* _wrap_buffer, _wrap_parallel, LLMClient.stream).
OneAnswer ==
    /\ \A i, j \in DOMAIN seen : seen[i].by = seen[j].by
    /\ turn \in {"pull", "drain", "done"} =>
          OfModel(seen) \o OfModel(out) \o hold = said
    /\ completions = (IF turn = "done" THEN 1 ELSE 0)

\* "So the flag never trails the text it refers to" (_wrap_buffer): no piece of text is seen before a verdict on it.
FlagFirst ==
    strategy = "buffer" => \A i \in DOMAIN seen : IsText(seen[i]) =>
        \E j \in 1 .. i - 1 : seen[j].kind = "verdict" /\ seen[j].n >= Len(TextsIn(SubSeq(seen, 1, i)))

\* A complete turn whose output is judged was judged as a whole.
JudgedWhole ==
    turn = "done" /\ strategy # "none" /\ text > 0 =>
        \E i \in DOMAIN seen : seen[i].kind = "verdict" /\ seen[i].n = text

StreamedTrue == OneAnswer /\ FlagFirst /\ JudgedWhole

\* Stated and refuted by TLC: the report of a complete turn is of all its text. In parallel a verdict on less of it may
\* come last, and the accumulator keeps the last.
ReportsWhole == turn = "done" /\ strategy # "none" => report = text

\* Stated and refuted by TLC: while nothing of the model's turn was seen, a backup is tried. fallback.py says "Once part
\* of this model's turn has reached the consumer, a backup cannot continue it"; the verdict on the input is none.
BackupIsTried ==
    turn = "failed" /\ strategy # "parallel" /\ OfModel(seen) = <<>> /\ client < Backups => ~failed
=============================================================================
