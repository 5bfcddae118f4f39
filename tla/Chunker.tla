------------------------------ MODULE Chunker ------------------------------
(***************************************************************************)
(* A document cut into overlapping windows (retrieval/chunker.py). What    *)
(* matters of a text is where its spaces are.                              *)
(***************************************************************************)
EXTENDS Integers, Sequences, FiniteSets

CONSTANTS
    Lengths,    \* of the texts
    MaxChars,   \* a window's longest
    Overlap     \* what a window should have of the one before it

ASSUME LengthsAssumption == Lengths \subseteq Nat
ASSUME WindowAssumption == MaxChars \in Nat \ {0} /\ Overlap \in Nat

VARIABLES
    text, length,   \* whether there is a space, at each place
    offset,     \* where the next window begins
    chunks,     \* the <<offset, length>> of those that were cut
    done

chunkVars == <<text, length, offset, chunks, done>>

Shorter(a, b) == IF a < b THEN a ELSE b
Spaces(t, from, to) == {i \in from .. to : t[i]}
\* str.rfind(" ") and str.find(" "), in a window that has one.
LastSpace(t, from, to) == CHOOSE i \in Spaces(t, from, to) : \A j \in Spaces(t, from, to) : j <= i
FirstSpace(t, from, to) == CHOOSE i \in Spaces(t, from, to) : \A j \in Spaces(t, from, to) : i <= j

Init ==
    /\ length \in Lengths /\ text \in [0 .. length - 1 -> BOOLEAN]
    /\ offset = 0 /\ chunks = {} /\ done = (length = 0)

\* Back to the last space, if that leaves half of the window.
SnapToWord(t, from, size) ==
    IF Spaces(t, from + 1, from + size - 1) = {} THEN size
    ELSE LET kept == LastSpace(t, from + 1, from + size - 1) - from IN
         IF 2 * kept >= size THEN kept ELSE size

\* Fault: the next space, however far.
StepToSpace(t, n, from, step, limit) ==
    IF Spaces(t, from + step, n - 1) # {} THEN FirstSpace(t, from + step, n - 1) - from + 1 ELSE step
\* To the word after the next space, where the window reaches that far.
StepFrom(t, n, from, step, limit) ==
    IF from + step >= n THEN n - from
    ELSE IF /\ Spaces(t, from + step, n - 1) # {}
            /\ FirstSpace(t, from + step, n - 1) - from + 1 <= limit
         THEN FirstSpace(t, from + step, n - 1) - from + 1
         ELSE step

Progress(size) == IF size - Overlap > 1 THEN size - Overlap ELSE 1

\* The last window, or all of a text that fits, is taken as it is.
CutLast ==
    /\ ~done /\ offset + MaxChars >= length
    /\ chunks' = chunks \cup {<<offset, length - offset>>}
    /\ done' = TRUE
    /\ UNCHANGED <<text, length, offset>>

Cut ==
    /\ ~done /\ offset + MaxChars < length
    /\ LET size == SnapToWord(text, offset, MaxChars) IN
       /\ chunks' = chunks \cup {<<offset, size>>}
       /\ offset' = offset + StepFrom(text, length, offset, Progress(size), size + 1)
       /\ done' = (offset' >= length)
    /\ UNCHANGED <<text, length>>

Next == CutLast \/ Cut
Spec == Init /\ [][Next]_chunkVars /\ WF_chunkVars(Next)

TypeOK ==
    /\ length \in Nat /\ text \in [0 .. length - 1 -> BOOLEAN]
    /\ offset \in Nat /\ offset <= length /\ (~done => offset < length)
    /\ chunks \subseteq Nat \X Nat /\ done \in BOOLEAN

-----------------------------------------------------------------------------
Covers(c, i) == c[1] <= i /\ i < c[1] + c[2]

\* No character before the cursor but a space is in no window, and at the end none at all is:
\* "they land in no chunk and are retrievable by no query" (_step_from).
NothingDropped ==
    \A i \in 0 .. length - 1 :
       (i < offset \/ done) => text[i] \/ \E c \in chunks : Covers(c, i)

\* A window is never longer than was asked for, nor empty, nor reaches past the text
\* (_snap_to_word).
Sized == \A c \in chunks : c[2] > 0 /\ c[2] <= MaxChars /\ c[1] + c[2] <= length

\* Windows are cut further and further on, and then no more (chunk_text, "at least one
\* character of progress, always").
Onward == [][done' \/ offset' > offset]_chunkVars
Ends == <>done
=============================================================================
