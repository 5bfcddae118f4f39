------------------------------ MODULE SseFramer ------------------------------
(***************************************************************************)
(* The framing of a streamed body into server-sent events (network/sse.py  *)
(* _Framer): the bytes come in chunks cut anywhere, inside a character and *)
(* between the two halves of a line end included, and CR, LF and CRLF end  *)
(* a line whatever the others are. Bytes: "r" is CR, "n" LF, "d" starts a  *)
(* data line or goes on in any, and "u", "v" are the halves of a character *)
(* that starts neither. The payload that says [DONE] is written <<"d","d">>.*)
(***************************************************************************)
EXTENDS Naturals, Sequences, FiniteSetsExt, SequencesExt

CONSTANTS
    MaxBytes,       \* bound: bytes of a body
    MaxChunk,       \* bound: bytes of a chunk
    EmptyChunks     \* whether a chunk may hold no byte at all

VARIABLES
    body,           \* the bytes that have come, in order
    framer,         \* _pending_lf, _buffer, _lines
    events,         \* what has been yielded: the data lines of each event
    over            \* the body has ended and the framer is flushed

frameVars == <<body, framer, events, over>>

Bytes == {"r", "n", "d", "u", "v"}
Done == <<"d", "d">>
IsData(line) == line[1] = "d"

\* A byte sequence may be cut after a "u", but only a "v" follows one.
Utf8(s) == \A i \in DOMAIN s : s[i] = "v" <=> (i > 1 /\ s[i - 1] = "u")

\* The incremental decoder gives a character when its last byte has come.
Decoded(s) == SelectSeq(s, LAMBDA b : b # "u")

\* A block with no data line yields nothing, nor does the sentinel.
Parsed(lines) ==
    LET data == SelectSeq(lines, IsData)
    IN  IF data = <<>> \/ data = <<Done>> THEN <<>> ELSE <<data>>

Init ==
    /\ body = <<>> /\ events = <<>> /\ over = FALSE
    /\ framer = [pendingLf |-> FALSE, buffer |-> <<>>, lines |-> <<>>, out |-> <<>>]

\* A blank line ends the message.
Line(f) ==
    IF f.buffer = <<>> THEN [f EXCEPT !.lines = <<>>, !.out = @ \o Parsed(f.lines)]
    ELSE [f EXCEPT !.buffer = <<>>, !.lines = Append(@, f.buffer)]

\* Fault: every chunk is taken for a body of its own.
PartneredNever(f, text) == text

\* A chunk that ended on a CR leaves a leading LF of the next as its partner.
Partnered(f, text) == IF f.pendingLf /\ text # <<>> /\ Head(text) = "n" THEN Tail(text) ELSE text

\* Fault: a leading LF of the next chunk is dropped whatever this one ended on.
EndsAnyhow(text) == TRUE

EndsOnCr(text) == text # <<>> /\ Last(text) = "r"

Fed(f, decoded) ==
    LET text == Partnered(f, decoded)
        Take(g, i) ==
            IF text[i] = "n" /\ i > 1 /\ text[i - 1] = "r" THEN g
            ELSE IF text[i] \in {"r", "n"} THEN Line(g)
            ELSE [g EXCEPT !.buffer = Append(@, text[i])]
    IN  [FoldLeftDomain(LAMBDA g, i : Take(g, i), f, text) EXCEPT !.pendingLf = EndsOnCr(text)]

Feed(chunk) ==
    /\ ~over /\ Len(body) + Len(chunk) <= MaxBytes /\ Utf8(body \o chunk)
    /\ body' = body \o chunk
    /\ LET f == Fed(framer, Decoded(chunk))
       IN  framer' = [f EXCEPT !.out = <<>>] /\ events' = events \o f.out
    /\ UNCHANGED over

\* A final message needs no blank line.
Flush ==
    /\ ~over
    /\ LET last == IF framer.buffer = <<>> THEN <<>> ELSE <<framer.buffer>>
       IN  events' = events \o Parsed(framer.lines \o last)
    /\ framer' = [framer EXCEPT !.buffer = <<>>, !.lines = <<>>]
    /\ over' = TRUE
    /\ UNCHANGED body

Next ==
    \/ \E chunk \in SeqOf(Bytes, MaxChunk) : (EmptyChunks \/ chunk # <<>>) /\ Feed(chunk)
    \/ Flush

Spec == Init /\ [][Next]_frameVars

TypeOK ==
    /\ body \in Seq(Bytes) /\ Len(body) <= MaxBytes /\ over \in BOOLEAN
    /\ framer.pendingLf \in BOOLEAN /\ framer.out = <<>>
    /\ framer.buffer \in Seq(Bytes \ {"r", "n", "u"}) /\ framer.lines \in Seq(Seq(Bytes \ {"r", "n", "u"}))

-----------------------------------------------------------------------------
\* What a body says, read at once: its line ends, its lines and its blank lines.
LineEnds(s) == {i \in DOMAIN s : s[i] = "r" \/ (s[i] = "n" /\ (i = 1 \/ s[i - 1] # "r"))}
Between(s, i, j) == SelectSeq(SubSeq(s, i + 1, j - 1), LAMBDA c : c \notin {"r", "n"})
Before(ends, i) == Max({0} \cup {j \in ends : j < i})
Blanks(s) == {i \in LineEnds(s) : Between(s, Before(LineEnds(s), i), i) = <<>>}

LinesIn(s, from, to) ==
    LET ends == SetToSortSeq({i \in LineEnds(s) : from < i /\ i <= to}, <)
    IN  [k \in DOMAIN ends |-> Between(s, Before(LineEnds(s), ends[k]), ends[k])]

Messages(s) ==
    LET blanks == SetToSortSeq(Blanks(s), <)
        Message(i) == SelectSeq(LinesIn(s, Before(Blanks(s), i), i), LAMBDA line : line # <<>>)
    IN  FlattenSeq([k \in DOMAIN blanks |-> Parsed(Message(blanks[k]))])

\* The last message, whose last line may lack its end.
Rest(s) ==
    LET n == Len(s) + 1
        last == Between(s, Before(LineEnds(s), n), n)
    IN  Parsed(LinesIn(s, Before(Blanks(s), n), n) \o (IF last = <<>> THEN <<>> ELSE <<last>>))

\* The events yielded are those of the bytes that have come, however the body was cut into
\* chunks: none is split, joined to another, lost or late (_Framer.feed, flush).
FramedTrue ==
    LET text == Decoded(body)
    IN  events = Messages(text) \o (IF over THEN Rest(text) ELSE <<>>)

=============================================================================
