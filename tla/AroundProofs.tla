---------------------------- MODULE AroundProofs ----------------------------
(***************************************************************************)
(* Theorems about what stands around a request (MCAround), for any number  *)
(* of items, jobs, threads, keys, files, documents, callers, turns,        *)
(* handlers and emits:                                                     *)
(*   - a store's file, a provider's file and an index are as they are      *)
(*     told (KeptTrue), and no word of a document is left out;             *)
(*   - a history keeps its pairs and its counts, is not compacted twice,   *)
(*     and a transcript is read whole (HistoryTrue, Calm);                 *)
(*   - a ticket gets its own answer (BatchTrue);                           *)
(*   - a turn waits for the handshake, and goes out once (TurnsKept);      *)
(*   - an emit reaches who was there, and spans nest (HooksTrue).          *)
(* Each part has an inductive invariant, made of named parts, and lemmas   *)
(* for what its steps do to it; those of the guard and of the transcript   *)
(* are in ConversationProofs.  What each part's TypeOK says besides comes  *)
(* last in its section.                                                    *)
(***************************************************************************)
EXTENDS MCAround, TLAPS, WellFoundedInduction, FiniteSetTheorems, SequenceTheorems

\* The bounds of the instances are numbers.
LEMMA BoundsAreNumbers ==
    /\ MaxTurns \in Nat /\ MaxWrites \in Nat /\ Capacity \in Nat /\ Lifetime \in Nat /\ MaxUploads \in Nat
    /\ MaxTime \in Nat /\ Patience \in Nat /\ MaxHooks \in Nat /\ MaxSubs \in Nat /\ MaxEmits \in Nat
BY AroundAssumption

-----------------------------------------------------------------------------
(* Chunker, for texts of any length, windows of any size and any overlap:    *)
(* that the next cut drops nothing rests on the walk's landing within one    *)
(* place of the window just cut, and there only on the far side of a space.  *)

\* A set of natural numbers that has a member has a least one.
LEMMA Least ==
    ASSUME NEW S \in SUBSET Nat, S # {}
    PROVE  \E i \in S : \A j \in S : i <= j
<1>1. PICK i \in S : \A j \in S : ~ (<<j, i>> \in OpToRel(<, Nat))
  BY WFMin, NatLessThanWellFounded
<1>2. \A j \in S : ~ (j < i)
  BY <1>1 DEF OpToRel
<1> QED  BY <1>2

\* str.find(" ") in a window that has a space is one of its spaces.
LEMMA FirstIsSpace ==
    ASSUME NEW t, NEW from \in Nat, NEW to \in Int, Spaces(t, from, to) # {}
    PROVE  FirstSpace(t, from, to) \in Spaces(t, from, to)
<1>1. Spaces(t, from, to) \in SUBSET Nat  BY DEF Spaces
<1>2. \E i \in Spaces(t, from, to) : \A j \in Spaces(t, from, to) : i <= j  BY <1>1, Least
<1> QED  BY <1>2 DEF FirstSpace

\* str.rfind(" ") in a window that has a space is one of its spaces.
LEMMA LastIsSpace ==
    ASSUME NEW t, NEW from \in Nat, NEW to \in Int, Spaces(t, from, to) # {}
    PROVE  LastSpace(t, from, to) \in Spaces(t, from, to)
<1> DEFINE S == Spaces(t, from, to)
           Mirror == {to - i : i \in S}
<1>1. S \in SUBSET (from .. to)  BY DEF Spaces
<1>2. Mirror \in SUBSET Nat /\ Mirror # {}  BY <1>1
<1>3. PICK m \in Mirror : \A k \in Mirror : m <= k
  <2> HIDE DEF Mirror
  <2> QED  BY <1>2, Least
<1>4. PICK i \in S : m = to - i  BY <1>3
<1>5. \A j \in S : j <= i
  <2> TAKE j \in S
  <2>1. to - j \in Mirror  OBVIOUS
  <2>2. to - i <= to - j  BY <1>3, <1>4, <2>1
  <2> QED  BY <2>2, <1>1, from \in Int, to \in Int, i \in Int, j \in Int
<1> QED  BY <1>4, <1>5 DEF LastSpace

\* A window that is snapped keeps some of itself (_snap_to_word).
LEMMA Snapped ==
    ASSUME NEW t, NEW from \in Nat, NEW size \in Nat \ {0}
    PROVE  SnapToWord(t, from, size) \in 1 .. size
<1>1. CASE Spaces(t, from + 1, from + size - 1) = {}
  BY <1>1 DEF SnapToWord
<1>2. CASE Spaces(t, from + 1, from + size - 1) # {}
  <2>1. LastSpace(t, from + 1, from + size - 1) \in Spaces(t, from + 1, from + size - 1)
    BY <1>2, LastIsSpace
  <2>2. LastSpace(t, from + 1, from + size - 1) \in from + 1 .. from + size - 1
    BY <2>1 DEF Spaces
  <2> QED  BY <1>2, <2>2 DEF SnapToWord
<1> QED  BY <1>1, <1>2

\* The walk goes on by at least one place, stays in the text, and lands in the window just
\* cut, at its end, or behind the space that ends it (_step_from).
LEMMA Stepped ==
    ASSUME NEW t, NEW n \in Nat, NEW from \in Nat, NEW size \in Nat \ {0}, from + size < n,
           NEW go, go = StepFrom(t, n, from, Progress(size), size + 1)
    PROVE  /\ go \in 1 .. size + 1
           /\ from + go <= n
           /\ go = size + 1 => t[from + size]
<1> DEFINE stride == Progress(size)
           next == FirstSpace(t, from + stride, n - 1)
<1>1. stride \in 1 .. size  BY WindowAssumption DEF Progress
<1>2. ~(from + stride >= n)  BY <1>1
<1>3. CASE Spaces(t, from + stride, n - 1) # {} /\ next - from + 1 <= size + 1
  <2>1. next \in Spaces(t, from + stride, n - 1)
    <3> HIDE DEF stride
    <3> QED  BY <1>1, <1>3, FirstIsSpace
  <2>2. next \in from + stride .. n - 1 /\ t[next]  BY <2>1 DEF Spaces
  <2>3. go = next - from + 1  BY <1>2, <1>3 DEF StepFrom
  <2>4. next - from + 1 = size + 1 => next = from + size  BY <2>2, <1>1
  <2> HIDE DEF stride, next
  <2> QED  BY <1>1, <1>3, <2>2, <2>3, <2>4
<1>4. CASE ~(Spaces(t, from + stride, n - 1) # {} /\ next - from + 1 <= size + 1)
  <2>1. go = stride  BY <1>2, <1>4 DEF StepFrom
  <2> HIDE DEF stride
  <2> QED  BY <1>1, <2>1
<1> QED  BY <1>3, <1>4

-----------------------------------------------------------------------------
ChunksIInv == TypeOK /\ Sized /\ NothingDropped

\* The invariant holds at first.
LEMMA ChunksStart == Init => ChunksIInv
<1> SUFFICES ASSUME Init PROVE ChunksIInv  OBVIOUS
<1>1. length \in Nat /\ offset = 0 /\ chunks = {} /\ done = (length = 0)
  BY LengthsAssumption DEF Init
<1>2. text \in [0 .. length - 1 -> BOOLEAN]  BY DEF Init
<1>3. chunks \subseteq Nat \X Nat /\ done \in BOOLEAN  BY <1>1
<1>4. offset \in Nat /\ offset <= length  BY <1>1
<1>5. ~done => offset < length
  <2>1. CASE length = 0  BY <2>1, <1>1
  <2>2. CASE length # 0  BY <2>2, <1>1
  <2> QED  BY <2>1, <2>2
<1>6. TypeOK  BY <1>1, <1>2, <1>3, <1>4, <1>5 DEF TypeOK
<1>7. Sized  BY <1>1 DEF Sized
<1>8. NothingDropped
  <2>1. length # 0 => ~done  BY <1>1
  <2> QED  BY <1>1, <2>1 DEF NothingDropped
<1> QED  BY <1>6, <1>7, <1>8 DEF ChunksIInv

\* The last window holds all that is left.
LEMMA CutLastKeeps == ChunksIInv /\ CutLast => ChunksIInv'
<1> SUFFICES ASSUME ChunksIInv, CutLast PROVE ChunksIInv'  OBVIOUS
<1> USE WindowAssumption
<1>1. length - offset \in 1 .. MaxChars  BY DEF ChunksIInv, TypeOK, CutLast
<1>2. TypeOK'  BY <1>1 DEF ChunksIInv, TypeOK, CutLast
<1>3. Sized'  BY <1>1 DEF ChunksIInv, TypeOK, Sized, CutLast
<1>4. NothingDropped'
  <2> SUFFICES ASSUME NEW i \in 0 .. length - 1
               PROVE  text[i] \/ \E c \in chunks' : Covers(c, i)
    BY DEF NothingDropped, CutLast
  <2>1. CASE i < offset
    <3>1. text[i] \/ \E c \in chunks : Covers(c, i)  BY <2>1 DEF ChunksIInv, NothingDropped
    <3> QED  BY <3>1 DEF CutLast
  <2>2. CASE ~(i < offset)
    <3>1. <<offset, length - offset>> \in chunks'  BY DEF CutLast
    <3>2. Covers(<<offset, length - offset>>, i)  BY <2>2 DEF Covers, ChunksIInv, TypeOK
    <3> QED  BY <3>1, <3>2
  <2> QED  BY <2>1, <2>2
<1> QED  BY <1>2, <1>3, <1>4 DEF ChunksIInv

\* What lies between two cursors is in the window, or is the space that ends it.
LEMMA CutKeeps == ChunksIInv /\ Cut => ChunksIInv' /\ offset' > offset
<1> SUFFICES ASSUME ChunksIInv, Cut PROVE ChunksIInv' /\ offset' > offset  OBVIOUS
<1> DEFINE size == SnapToWord(text, offset, MaxChars)
           stride == StepFrom(text, length, offset, Progress(size), size + 1)
<1>1. size \in 1 .. MaxChars  BY Snapped, WindowAssumption DEF ChunksIInv, TypeOK
<1>2. offset \in Nat /\ length \in Nat /\ offset + size < length
  <2> HIDE DEF size
  <2> QED  BY <1>1, WindowAssumption DEF ChunksIInv, TypeOK, Cut
<1>3. stride \in 1 .. size + 1 /\ offset + stride <= length /\ (stride = size + 1 => text[offset + size])
  <2>1. stride = StepFrom(text, length, offset, Progress(size), size + 1)  OBVIOUS
  <2>2. size \in Nat \ {0}  BY <1>1, WindowAssumption
  <2> HIDE DEF size, stride
  <2> QED  BY <1>2, <2>1, <2>2, Stepped
<1>4. /\ chunks' = chunks \cup {<<offset, size>>} /\ offset' = offset + stride
      /\ done' = (offset' >= length) /\ text' = text /\ length' = length
  BY DEF Cut
<1> HIDE DEF size, stride
<1>5. offset' > offset  BY <1>1, <1>2, <1>3, <1>4
<1>6. TypeOK'  BY <1>1, <1>2, <1>3, <1>4, WindowAssumption DEF ChunksIInv, TypeOK
<1>7. Sized'  BY <1>1, <1>2, <1>4, WindowAssumption DEF ChunksIInv, Sized
<1>8. NothingDropped'
  <2> SUFFICES ASSUME NEW i \in 0 .. length - 1, i < offset' \/ done'
               PROVE  text[i] \/ \E c \in chunks' : Covers(c, i)
    BY <1>4 DEF NothingDropped
  <2>1. i < offset + stride
    <3>1. CASE i < offset'  BY <3>1, <1>4
    <3>2. CASE done'
      <4>1. offset' >= length  BY <3>2, <1>4
      <4> QED  BY <4>1, <1>2, <1>3, <1>4
    <3> QED  BY <3>1, <3>2
  <2>2. CASE i < offset
    <3>1. text[i] \/ \E c \in chunks : Covers(c, i)  BY <2>2 DEF ChunksIInv, NothingDropped
    <3> QED  BY <3>1, <1>4
  <2>3. CASE ~(i < offset) /\ i < offset + size
    <3>1. Covers(<<offset, size>>, i)  BY <2>3, <1>1, <1>2 DEF Covers
    <3> QED  BY <3>1, <1>4
  <2>4. CASE ~(i < offset + size)
    <3>1. i = offset + size /\ stride = size + 1  BY <2>1, <2>4, <1>1, <1>2, <1>3
    <3> QED  BY <3>1, <1>3
  <2> QED  BY <2>2, <2>3, <2>4
<1> QED  BY <1>5, <1>6, <1>7, <1>8 DEF ChunksIInv

\* Where nothing changes it is kept.
LEMMA ChunksRest == ChunksIInv /\ UNCHANGED chunkVars => ChunksIInv'
BY DEF ChunksIInv, TypeOK, Sized, NothingDropped, chunkVars

\* Every cut keeps it (chunk_text).
LEMMA ChunksKeep == ChunksIInv /\ [Next]_chunkVars => ChunksIInv'
BY CutLastKeeps, CutKeeps, ChunksRest DEF Next

\* So it holds in every reachable state.
THEOREM ChunksHold == Spec => []ChunksIInv
<1>1. Init => ChunksIInv  BY ChunksStart
<1>2. ChunksIInv /\ [Next]_chunkVars => ChunksIInv'  BY ChunksKeep
<1> QED  BY <1>1, <1>2, PTL DEF Spec

-----------------------------------------------------------------------------
\* The cursor and the windows stay in the text (chunk_text).
THEOREM CursorInText == Spec => []TypeOK
<1>1. ChunksIInv => TypeOK  BY DEF ChunksIInv
<1> QED  BY <1>1, ChunksHold, PTL

\* However a text is cut, every character of it that is not a space is in a window that is
\* indexed (chunk_text, _step_from, _snap_to_word).
THEOREM NothingIsDropped == Spec => []NothingDropped
<1>1. ChunksIInv => NothingDropped  BY DEF ChunksIInv
<1> QED  BY <1>1, ChunksHold, PTL

\* No window is empty, longer than was asked for, or reaches past the text (_snap_to_word).
THEOREM WindowsSized == Spec => []Sized
<1>1. ChunksIInv => Sized  BY DEF ChunksIInv
<1> QED  BY <1>1, ChunksHold, PTL

\* Each cut moves the cursor on or is the last (chunk_text, "at least one character of
\* progress, always").
THEOREM AlwaysOnward == Spec => Onward
<1>1. ChunksIInv /\ [Next]_chunkVars => [done' \/ offset' > offset]_chunkVars
  BY CutKeeps DEF Next, CutLast
<1> QED  BY <1>1, ChunksHold, PTL DEF Spec, Onward

-----------------------------------------------------------------------------
(* ResponseStore: where no two threads write one key at a time, a key has    *)
(* one writer from its call to the move, what it wrote is what it moves, and *)
(* so each step that changes a file changes what was carried out with it.    *)

StoreOps ==
    [pc : Store!Writing \cup {"idle", "hit", "missed", "read", "raised"},
     key : Keys \cup {Store!None}, value : Store!Values \cup {Store!None},
     handle : {"none", "tmp", "file"}, saw : Store!Values \cup {Store!None}]
\* A thread has in hand what its step needs.
InHand(o) ==
    /\ o.pc \in Store!Writing \cup {"hit", "missed", "read"} => o.key \in Keys
    /\ o.pc \in {"put", "opened", "written"} => o.value \in Store!Values
    /\ o.pc = "read" => o.saw \in Store!Values
StoreTyped ==
    /\ writes \in 0 .. MaxWrites
    /\ file \in [Keys -> Store!Values \cup {Store!None, Store!Half}]
    /\ tmp \in [Keys -> Store!Values \cup {Store!None, Store!Half}]
    /\ op \in [Threads -> StoreOps]
    /\ acked \in [Keys -> Store!Values \cup {Store!None}]
    /\ \A t \in Threads : InHand(op[t])

OneWriter ==
    \A t, u \in Threads :
        /\ op[t].pc \in Store!Writing /\ op[u].pc \in Store!Writing
        /\ op[t].key = op[u].key
        => t = u

Written ==
    \A t \in Threads :
        /\ op[t].pc \in {"opened", "written"} => op[t].handle = "tmp"
        /\ op[t].pc = "written" => tmp[op[t].key] = op[t].value

StoreIInv == StoreTyped /\ OneWriter /\ Written /\ Store!Durable

\* What a thread at rest, or one that was refused, has in hand.
LEMMA RestingTyped ==
    ASSUME NEW pc \in {"idle", "raised"}
    PROVE  /\ [Store!Resting EXCEPT !.pc = pc] \in StoreOps /\ InHand([Store!Resting EXCEPT !.pc = pc])
           /\ [Store!Resting EXCEPT !.pc = pc].pc = pc /\ pc \notin Store!Writing
           /\ Store!Resting \in StoreOps /\ InHand(Store!Resting) /\ Store!Resting.pc = "idle"
BY DEF Store!Resting, Store!None, Store!Writing, StoreOps, InHand

\* What becomes of a thread's state when one thing about it changes.
LEMMA PcChanged ==
    ASSUME NEW o \in StoreOps, NEW v \in Store!Writing \cup {"idle", "hit", "missed", "read", "raised"}
    PROVE  /\ [o EXCEPT !.pc = v] \in StoreOps /\ [o EXCEPT !.pc = v].pc = v
           /\ [o EXCEPT !.pc = v].key = o.key /\ [o EXCEPT !.pc = v].value = o.value
           /\ [o EXCEPT !.pc = v].handle = o.handle /\ [o EXCEPT !.pc = v].saw = o.saw
BY DEF StoreOps

\* The same of its key.
LEMMA KeyChanged ==
    ASSUME NEW o \in StoreOps, NEW v \in Keys
    PROVE  /\ [o EXCEPT !.key = v] \in StoreOps /\ [o EXCEPT !.key = v].key = v
           /\ [o EXCEPT !.key = v].pc = o.pc /\ [o EXCEPT !.key = v].value = o.value
           /\ [o EXCEPT !.key = v].handle = o.handle /\ [o EXCEPT !.key = v].saw = o.saw
BY DEF StoreOps

\* The same of its value.
LEMMA ValueChanged ==
    ASSUME NEW o \in StoreOps, NEW v \in Store!Values \cup {Store!None}
    PROVE  /\ [o EXCEPT !.value = v] \in StoreOps /\ [o EXCEPT !.value = v].value = v
           /\ [o EXCEPT !.value = v].pc = o.pc /\ [o EXCEPT !.value = v].key = o.key
           /\ [o EXCEPT !.value = v].handle = o.handle /\ [o EXCEPT !.value = v].saw = o.saw
BY DEF StoreOps

\* The same of its handle.
LEMMA HandleChanged ==
    ASSUME NEW o \in StoreOps, NEW v \in {"none", "tmp", "file"}
    PROVE  /\ [o EXCEPT !.handle = v] \in StoreOps /\ [o EXCEPT !.handle = v].handle = v
           /\ [o EXCEPT !.handle = v].pc = o.pc /\ [o EXCEPT !.handle = v].key = o.key
           /\ [o EXCEPT !.handle = v].value = o.value /\ [o EXCEPT !.handle = v].saw = o.saw
BY DEF StoreOps

\* The same of what it saw.
LEMMA SawChanged ==
    ASSUME NEW o \in StoreOps, NEW v \in Store!Values
    PROVE  /\ [o EXCEPT !.saw = v] \in StoreOps /\ [o EXCEPT !.saw = v].saw = v
           /\ [o EXCEPT !.saw = v].pc = o.pc /\ [o EXCEPT !.saw = v].key = o.key
           /\ [o EXCEPT !.saw = v].value = o.value /\ [o EXCEPT !.saw = v].handle = o.handle
BY DEF StoreOps

\* The store begins with nothing, and with nobody at it.
LEMMA StoreStarts == Store!Init => StoreIInv
<1> SUFFICES ASSUME Store!Init PROVE StoreIInv
  OBVIOUS
<1>1. op = [t \in Threads |-> Store!Resting] /\ \A t \in Threads : op[t].pc = "idle"
  BY RestingTyped DEF Store!Init
<1>2. op \in [Threads -> StoreOps] /\ \A t \in Threads : InHand(op[t])
  BY <1>1, RestingTyped
<1>3. StoreTyped
  BY <1>2, BoundsAreNumbers DEF StoreTyped, Store!Init, Store!None
<1> QED
  BY <1>1, <1>3 DEF StoreIInv, OneWriter, Written, Store!Durable, Store!Init, Store!Writing

\* A thread that is not about to write leaves the rest as it was.
LEMMA StepsAside ==
    ASSUME StoreIInv, NEW t \in Threads, NEW o \in StoreOps, InHand(o), o.pc \notin Store!Writing,
           op' = [op EXCEPT ![t] = o], UNCHANGED <<file, tmp, writes, acked>>
    PROVE  StoreIInv'
<1>1. op' \in [Threads -> StoreOps] /\ \A u \in Threads : InHand(op'[u])
  BY DEF StoreIInv, StoreTyped
<1>2. StoreTyped'
  BY <1>1 DEF StoreIInv, StoreTyped
<1>3. \A u \in Threads : op'[u].pc \in Store!Writing => u # t /\ op'[u] = op[u]
  BY DEF StoreIInv, StoreTyped
<1>4. OneWriter'
  BY <1>3 DEF StoreIInv, OneWriter
<1>5. Written'
  BY <1>3 DEF StoreIInv, Written, Store!Writing
<1> QED
  BY <1>2, <1>4, <1>5 DEF StoreIInv, Store!Durable

\* A write that begins has its key to itself.
LEMMA BeginsAlone ==
    ASSUME StoreIInv, ~Shared, NEW t \in Threads, NEW k \in Keys, NEW pc \in {"put", "delete"},
           Store!BeginWrite(t, k, pc), UNCHANGED <<file, tmp, acked>>
    PROVE  StoreIInv'
<1> DEFINE o == [Store!Resting EXCEPT !.pc = pc, !.key = k, !.value = IF pc = "put" THEN writes + 1 ELSE Store!None]
<1>1. /\ writes \in Nat /\ writes + 1 \in Store!Values /\ writes' = writes + 1 /\ writes' \in 0 .. MaxWrites
      /\ op' = [op EXCEPT ![t] = o]
      /\ \A u \in Threads : ~ Store!Doing(u, k, Store!Writing)
  BY BoundsAreNumbers DEF StoreIInv, StoreTyped, Store!BeginWrite, Store!Values
<1>2. o = [[[Store!Resting EXCEPT !.pc = pc] EXCEPT !.key = k] EXCEPT !.value = IF pc = "put" THEN writes + 1 ELSE Store!None]
  OBVIOUS
<1> HIDE DEF o
<1>3. o \in StoreOps /\ InHand(o) /\ o.pc = pc /\ o.key = k
  <2> DEFINE p == [Store!Resting EXCEPT !.pc = pc]
             q == [p EXCEPT !.key = k]
             v == IF pc = "put" THEN writes + 1 ELSE Store!None
  <2>0. pc \in Store!Writing /\ v \in Store!Values \cup {Store!None}
    BY <1>1 DEF Store!Writing
  <2>1. p \in StoreOps /\ p.pc = pc
    BY <2>0, RestingTyped, PcChanged
  <2>2. o = [q EXCEPT !.value = v]
    BY <1>2
  <2> HIDE DEF p
  <2>3. q \in StoreOps /\ q.pc = pc /\ q.key = k
    BY <2>1, KeyChanged
  <2> HIDE DEF q, v
  <2>4. o \in StoreOps /\ o.pc = pc /\ o.key = k /\ o.value = v
    BY <2>0, <2>2, <2>3, ValueChanged
  <2> QED
    BY <1>1, <2>4 DEF InHand, Store!Writing, v
<1>4. op' \in [Threads -> StoreOps] /\ \A u \in Threads : InHand(op'[u])
  BY <1>1, <1>3 DEF StoreIInv, StoreTyped
<1>5. StoreTyped'
  BY <1>1, <1>4 DEF StoreIInv, StoreTyped
<1>6. \A u \in Threads : u # t => op'[u] = op[u]
  BY <1>1 DEF StoreIInv, StoreTyped
<1>7. op'[t] = o
  BY <1>1 DEF StoreIInv, StoreTyped
<1>8. \A u \in Threads : u # t /\ op'[u].pc \in Store!Writing => op'[u].key # k
  BY <1>1, <1>6 DEF Store!Doing
<1>9. OneWriter'
  BY <1>3, <1>6, <1>7, <1>8 DEF StoreIInv, OneWriter
<1>10. Written'
  BY <1>3, <1>6, <1>7 DEF StoreIInv, Written
<1> QED
  BY <1>5, <1>9, <1>10 DEF StoreIInv, Store!Durable

\* The file is opened by the key's one writer.
LEMMA OpenKeeps ==
    ASSUME StoreIInv, NEW t \in Threads, Store!Open(t)
    PROVE  StoreIInv'
<1> DEFINE o == [op[t] EXCEPT !.pc = "opened", !.handle = "tmp"]
<1>1. /\ op[t] \in StoreOps /\ InHand(op[t]) /\ op[t].pc = "put"
      /\ op' = [op EXCEPT ![t] = o] /\ tmp' = [tmp EXCEPT ![op[t].key] = Store!Half] /\ UNCHANGED <<file, writes, acked>>
  BY DEF StoreIInv, StoreTyped, Store!Open, Store!OpenTemporary
<1>2. op[t].key \in Keys /\ op[t].value \in Store!Values
  BY <1>1 DEF InHand, Store!Writing
<1>3. o = [[op[t] EXCEPT !.pc = "opened"] EXCEPT !.handle = "tmp"]
  OBVIOUS
<1> HIDE DEF o
<1>4. /\ o \in StoreOps /\ InHand(o) /\ o.pc = "opened" /\ o.key = op[t].key /\ o.handle = "tmp"
  <2> DEFINE p == [op[t] EXCEPT !.pc = "opened"]
  <2>1. "opened" \in Store!Writing
    BY DEF Store!Writing
  <2>2. p \in StoreOps /\ p.pc = "opened" /\ p.key = op[t].key /\ p.value = op[t].value
    BY <1>1, <2>1, PcChanged
  <2>3. o = [p EXCEPT !.handle = "tmp"]
    BY <1>3
  <2> HIDE DEF p
  <2>4. o \in StoreOps /\ o.pc = p.pc /\ o.key = p.key /\ o.value = p.value /\ o.handle = "tmp"
    BY <2>2, <2>3, HandleChanged
  <2> QED
    BY <1>2, <2>2, <2>4 DEF InHand, Store!Writing
<1> HIDE DEF o
<1>5. op'[t] = o /\ \A u \in Threads : u # t => op'[u] = op[u]
  BY <1>1 DEF StoreIInv, StoreTyped
<1>6. op' \in [Threads -> StoreOps] /\ \A u \in Threads : InHand(op'[u])
  BY <1>1, <1>4, <1>5 DEF StoreIInv, StoreTyped
<1>7. StoreTyped'
  BY <1>1, <1>6 DEF StoreIInv, StoreTyped
<1>8. OneWriter'
  BY <1>1, <1>4, <1>5 DEF StoreIInv, OneWriter, Store!Writing
<1>9. \A u \in Threads : u # t /\ op[u].pc = "written" => tmp'[op[u].key] = op[u].value
  <2>1. ASSUME NEW u \in Threads, u # t, op[u].pc = "written" PROVE tmp'[op[u].key] = op[u].value
    <3>1. op[u].key # op[t].key
      BY <1>1, <2>1 DEF StoreIInv, OneWriter, Store!Writing
    <3>2. op[u].key \in Keys
      BY <2>1 DEF StoreIInv, StoreTyped, InHand, Store!Writing
    <3> QED  BY <1>1, <2>1, <3>1, <3>2 DEF StoreIInv, StoreTyped, Written
  <2> QED  BY <2>1
<1>10. Written'
  BY <1>4, <1>5, <1>9 DEF StoreIInv, Written
<1> QED
  BY <1>1, <1>7, <1>8, <1>10 DEF StoreIInv, Store!Durable

\* It holds, written, what the put was of.
LEMMA WriteKeeps ==
    ASSUME StoreIInv, NEW t \in Threads, Store!Write(t)
    PROVE  StoreIInv'
<1> DEFINE o == [op[t] EXCEPT !.pc = "written"]
<1>1. /\ op[t] \in StoreOps /\ InHand(op[t]) /\ op[t].pc = "opened" /\ op[t].handle = "tmp"
      /\ op' = [op EXCEPT ![t] = o] /\ UNCHANGED <<writes, acked>>
  BY DEF StoreIInv, StoreTyped, Store!Write, Written
<1>2. op[t].key \in Keys /\ op[t].value \in Store!Values
  BY <1>1 DEF InHand, Store!Writing
<1>3. ~ \E u \in Threads \ {t} : Store!Doing(u, op[t].key, {"opened", "written"}) /\ op[u].handle = op[t].handle
  BY <1>1 DEF StoreIInv, OneWriter, Store!Doing, Store!Writing
<1>4. tmp' = [tmp EXCEPT ![op[t].key] = op[t].value] /\ file' = file
  BY <1>1, <1>3 DEF Store!Write
<1>5. o = [pc |-> "written", key |-> op[t].key, value |-> op[t].value, handle |-> "tmp", saw |-> op[t].saw]
  BY <1>1 DEF StoreOps
<1>6. /\ o \in StoreOps /\ InHand(o) /\ o.pc = "written" /\ o.key = op[t].key /\ o.value = op[t].value
      /\ o.handle = "tmp"
  BY <1>1, <1>2, <1>5 DEF StoreOps, InHand, Store!Writing
<1> HIDE DEF o
<1>7. op'[t] = o /\ \A u \in Threads : u # t => op'[u] = op[u]
  BY <1>1 DEF StoreIInv, StoreTyped
<1>8. op' \in [Threads -> StoreOps] /\ \A u \in Threads : InHand(op'[u])
  BY <1>1, <1>6, <1>7 DEF StoreIInv, StoreTyped
<1>9. StoreTyped'
  BY <1>1, <1>2, <1>4, <1>8 DEF StoreIInv, StoreTyped
<1>10. OneWriter'
  BY <1>1, <1>6, <1>7 DEF StoreIInv, OneWriter, Store!Writing
<1>11. \A u \in Threads : u # t /\ op[u].pc = "written" => tmp'[op[u].key] = op[u].value
  <2>1. ASSUME NEW u \in Threads, u # t, op[u].pc = "written" PROVE tmp'[op[u].key] = op[u].value
    <3>1. op[u].key # op[t].key
      BY <1>1, <2>1 DEF StoreIInv, OneWriter, Store!Writing
    <3>2. op[u].key \in Keys
      BY <2>1 DEF StoreIInv, StoreTyped, InHand, Store!Writing
    <3> QED  BY <1>4, <2>1, <3>1, <3>2 DEF StoreIInv, StoreTyped, Written
  <2> QED  BY <2>1
<1>12. tmp'[op[t].key] = op[t].value
  BY <1>2, <1>4 DEF StoreIInv, StoreTyped
<1>13. Written'
  BY <1>6, <1>7, <1>11, <1>12 DEF StoreIInv, Written
<1> QED
  BY <1>1, <1>4, <1>9, <1>10, <1>13 DEF StoreIInv, Store!Durable

\* What is moved into place is what the put was of.
LEMMA ReplaceKeeps ==
    ASSUME StoreIInv, NEW t \in Threads, Store!Replace(t)
    PROVE  StoreIInv'
<1> DEFINE k == op[t].key
<1>1. op[t].pc = "written" /\ k \in Keys /\ op[t].value \in Store!Values /\ tmp[k] = op[t].value /\ tmp[k] # Store!None
  BY DEF StoreIInv, StoreTyped, InHand, Written, Store!Replace, Store!Writing, Store!Values, Store!None
<1>2. /\ file' = [file EXCEPT ![k] = tmp[k]] /\ tmp' = [tmp EXCEPT ![k] = Store!None]
      /\ acked' = [acked EXCEPT ![k] = op[t].value] /\ UNCHANGED writes
      /\ op' = [u \in Threads |->
                   IF u = t THEN Store!Resting
                   ELSE IF Store!Doing(u, k, {"opened", "written"}) THEN [op[u] EXCEPT !.handle = "file"] ELSE op[u]]
  BY <1>1 DEF Store!Replace
<1>3. \A u \in Threads : u # t => ~ Store!Doing(u, k, {"opened", "written"})
  BY <1>1 DEF StoreIInv, OneWriter, Store!Doing, Store!Writing
<1>4. op'[t] = Store!Resting /\ \A u \in Threads : u # t => op'[u] = op[u]
  BY <1>2, <1>3
<1>5. op' \in [Threads -> StoreOps] /\ \A u \in Threads : InHand(op'[u])
  BY <1>2, <1>4, RestingTyped DEF StoreIInv, StoreTyped
<1>6. StoreTyped'
  BY <1>1, <1>2, <1>5 DEF StoreIInv, StoreTyped
<1>7. OneWriter'
  BY <1>4, RestingTyped DEF StoreIInv, OneWriter, Store!Writing
<1>8. \A u \in Threads : u # t /\ op[u].pc = "written" => op[u].key # k /\ op[u].key \in Keys
  BY <1>3 DEF StoreIInv, StoreTyped, InHand, Store!Doing, Store!Writing
<1>9. \A u \in Threads : u # t /\ op[u].pc = "written" => tmp'[op[u].key] = op[u].value
  BY <1>2, <1>8 DEF StoreIInv, StoreTyped, Written
<1>10. Written'
  BY <1>4, <1>9, RestingTyped DEF StoreIInv, Written
<1>11. Store!Durable'
  BY <1>1, <1>2 DEF StoreIInv, Store!Durable
<1> QED
  BY <1>6, <1>7, <1>10, <1>11 DEF StoreIInv

\* A deletion takes the file away in one step.
LEMMA UnlinkKeeps ==
    ASSUME StoreIInv, NEW t \in Threads, Store!Unlink(t)
    PROVE  StoreIInv'
<1>1. op' = [op EXCEPT ![t] = Store!Resting] /\ op[t].key \in Keys
  BY DEF StoreIInv, StoreTyped, InHand, Store!Unlink, Store!Writing
<1>2. op'[t] = Store!Resting /\ \A u \in Threads : u # t => op'[u] = op[u]
  BY <1>1 DEF StoreIInv, StoreTyped
<1>3. op' \in [Threads -> StoreOps] /\ \A u \in Threads : InHand(op'[u])
  BY <1>1, <1>2, RestingTyped DEF StoreIInv, StoreTyped
<1>4. StoreTyped'
  BY <1>1, <1>3 DEF StoreIInv, StoreTyped, Store!Unlink
<1>5. OneWriter'
  BY <1>2, RestingTyped DEF StoreIInv, OneWriter, Store!Writing
<1>6. Written'
  BY <1>2, RestingTyped DEF StoreIInv, Written, Store!Unlink
<1>7. Store!Durable'
  BY <1>1 DEF StoreIInv, Store!Durable, Store!Unlink
<1> QED
  BY <1>4, <1>5, <1>6, <1>7 DEF StoreIInv

\* Every step keeps the invariant, a crash too: it leaves the files.
LEMMA StoreKeeps == ~Shared /\ StoreIInv /\ [Store!Next]_Store!storeVars => StoreIInv'
<1> SUFFICES ASSUME ~Shared, StoreIInv, [Store!Next]_Store!storeVars PROVE StoreIInv'
  OBVIOUS
<1>0. [Store!Resting EXCEPT !.pc = "idle"] = Store!Resting
  BY DEF Store!Resting
<1>1. CASE Store!Crash
  <2>1. op' \in [Threads -> StoreOps] /\ \A u \in Threads : InHand(op'[u]) /\ op'[u].pc = "idle"
    BY <1>1, RestingTyped DEF Store!Crash
  <2> QED
    BY <1>1, <2>1 DEF StoreIInv, StoreTyped, OneWriter, Written, Store!Durable, Store!Crash, Store!Writing
<1>2. CASE UNCHANGED Store!storeVars
  BY <1>2 DEF StoreIInv, StoreTyped, OneWriter, Written, Store!Durable, Store!storeVars
<1>3. ASSUME NEW t \in Threads, Store!Put(t) PROVE StoreIInv'
  BY <1>3, BeginsAlone DEF Store!Put
<1>4. ASSUME NEW t \in Threads, Store!Delete(t) PROVE StoreIInv'
  BY <1>4, BeginsAlone DEF Store!Delete
<1>5. ASSUME NEW t \in Threads, Store!Fail(t) PROVE StoreIInv'
  BY <1>0, <1>5, StepsAside, RestingTyped DEF Store!Fail
<1>6. ASSUME NEW t \in Threads, Store!Get(t) PROVE StoreIInv'
  <2>1. PICK k \in Keys, pc \in {"hit", "missed"} : op' = [op EXCEPT ![t] = [Store!Resting EXCEPT !.key = k, !.pc = pc]]
    BY <1>6 DEF Store!Get
  <2> DEFINE o == [Store!Resting EXCEPT !.key = k, !.pc = pc]
  <2> DEFINE p == [Store!Resting EXCEPT !.key = k]
  <2>a. o = [p EXCEPT !.pc = pc]
    OBVIOUS
  <2> HIDE DEF o
  <2>2. p \in StoreOps /\ p.key = k
    BY RestingTyped, KeyChanged
  <2> HIDE DEF p
  <2>b. o \in StoreOps /\ o.pc = pc /\ o.key = k
    BY <2>2, <2>a, PcChanged
  <2>3. InHand(o) /\ o.pc \notin Store!Writing
    BY <2>b DEF InHand, Store!Writing
  <2> QED
    BY <1>6, <2>1, <2>3, <2>b, StepsAside DEF o, Store!Get
<1>7. ASSUME NEW t \in Threads, Store!Touch(t) PROVE StoreIInv'
  <2>1. \E pc \in {"idle", "raised"} : op' = [op EXCEPT ![t] = [Store!Resting EXCEPT !.pc = pc]]
    BY <1>0, <1>7 DEF Store!Touch
  <2> QED
    BY <1>7, <2>1, StepsAside, RestingTyped DEF Store!Touch
<1>8. ASSUME NEW t \in Threads, Store!ReadFile(t) PROVE StoreIInv'
  <2>1. CASE file[op[t].key] \in {Store!None, Store!Half}
    <3>1. op' = [op EXCEPT ![t] = Store!Resting]
      BY <1>8, <2>1 DEF Store!ReadFile
    <3> QED  BY <1>0, <1>8, <3>1, StepsAside, RestingTyped DEF Store!ReadFile
  <2>2. CASE file[op[t].key] \notin {Store!None, Store!Half}
    <3> DEFINE o == [op[t] EXCEPT !.pc = "read", !.saw = file[op[t].key]]
    <3>1. op[t] \in StoreOps /\ op[t].key \in Keys /\ file[op[t].key] \in Store!Values /\ op' = [op EXCEPT ![t] = o]
      BY <1>8, <2>2 DEF StoreIInv, StoreTyped, InHand, Store!ReadFile, Store!Writing
    <3> DEFINE p == [op[t] EXCEPT !.pc = "read"]
    <3>a. o = [p EXCEPT !.saw = file[op[t].key]]
      OBVIOUS
    <3> HIDE DEF o
    <3>2. p \in StoreOps /\ p.pc = "read" /\ p.key = op[t].key
      BY <3>1, PcChanged
    <3> HIDE DEF p
    <3>b. o \in StoreOps /\ o.pc = "read" /\ o.key = op[t].key /\ o.saw = file[op[t].key]
      BY <3>1, <3>2, <3>a, SawChanged
    <3>3. o \in StoreOps /\ InHand(o) /\ o.pc \notin Store!Writing
      BY <3>1, <3>b DEF InHand, Store!Writing
    <3> QED  BY <1>8, <3>1, <3>3, StepsAside DEF o, Store!ReadFile
  <2> QED  BY <2>1, <2>2
<1>9. ASSUME NEW t \in Threads, Store!Restored(t) PROVE StoreIInv'
  BY <1>0, <1>9, StepsAside, RestingTyped DEF Store!Restored
<1> QED
  BY <1>1, <1>2, <1>3, <1>4, <1>5, <1>6, <1>7, <1>8, <1>9, OpenKeeps, WriteKeeps, ReplaceKeeps, UnlinkKeeps
  DEF Store!Next

\* A sequence that has one of its places taken out.
Lacking(list, i) == SubSeq(list, 1, i - 1) \o SubSeq(list, i + 1, Len(list))

\* What stood behind the place moves up.
LEMMA OneOut ==
    ASSUME NEW S, NEW list \in Seq(S), NEW i \in 1 .. Len(list), NEW q \in {Lacking(list, i)}
    PROVE  /\ q \in Seq(S) /\ Len(q) = Len(list) - 1 /\ Len(list) \in Nat
           /\ \A k \in 1 .. Len(q) : q[k] = list[IF k < i THEN k ELSE k + 1]
<1> DEFINE n == Len(list)
           a == SubSeq(list, 1, i - 1)
           b == SubSeq(list, i + 1, n)
<1>1. n \in Nat /\ i \in 1 .. n /\ \A k \in 1 .. n : list[k] \in S
  BY LenProperties, ElementOfSeq
<1>0. q = a \o b
  BY DEF Lacking
<1> HIDE DEF n
<1>2. a \in Seq(S) /\ Len(a) = i - 1 /\ \A k \in 1 .. i - 1 : a[k] = list[k]
  <2>1. i - 1 \in Int /\ \A k \in 1 .. i - 1 : list[k] \in S
    BY <1>1
  <2>2. Len(a) = IF 1 <= i - 1 THEN (i - 1) - 1 + 1 ELSE 0
    BY <2>1, SubSeqProperties
  <2>3. a \in Seq(S) /\ \A k \in 1 .. (i - 1) - 1 + 1 : a[k] = list[1 + k - 1]
    BY <2>1, SubSeqProperties
  <2> HIDE DEF a
  <2> QED  BY <1>1, <2>2, <2>3
<1>3. b \in Seq(S) /\ Len(b) = n - i /\ \A k \in 1 .. n - i : b[k] = list[k + i]
  <2>1. i + 1 \in Int /\ n \in Int /\ \A k \in i + 1 .. n : list[k] \in S
    BY <1>1
  <2>2. Len(b) = IF i + 1 <= n THEN n - (i + 1) + 1 ELSE 0
    BY <2>1, SubSeqProperties
  <2>3. b \in Seq(S) /\ \A k \in 1 .. n - (i + 1) + 1 : b[k] = list[i + 1 + k - 1]
    BY <2>1, SubSeqProperties
  <2> HIDE DEF b
  <2> QED  BY <1>1, <2>2, <2>3
<1> HIDE DEF a, b
<1>4. /\ a \o b \in Seq(S) /\ Len(a \o b) = Len(a) + Len(b)
      /\ \A k \in 1 .. Len(a) + Len(b) : (a \o b)[k] = IF k <= Len(a) THEN a[k] ELSE b[k - Len(a)]
  BY <1>2, <1>3, ConcatProperties
<1>a. Len(a) + Len(b) = n - 1 /\ Len(a) = i - 1
  BY <1>1, <1>2, <1>3
<1>b. q \in Seq(S) /\ Len(q) = n - 1 /\ \A k \in 1 .. n - 1 : q[k] = IF k <= Len(a) THEN a[k] ELSE b[k - Len(a)]
  BY <1>0, <1>4, <1>a
<1>5. q \in Seq(S) /\ Len(q) = n - 1 /\ \A k \in 1 .. n - 1 : q[k] = IF k <= i - 1 THEN a[k] ELSE b[k - (i - 1)]
  BY <1>b, <1>a
<1>6. ASSUME NEW k \in 1 .. n - 1 PROVE q[k] = list[IF k < i THEN k ELSE k + 1]
  <2>1. CASE k < i
    <3>1. k \in 1 .. i - 1 /\ k <= i - 1
      BY <1>1, <2>1
    <3>2. q[k] = a[k]
      BY <1>5, <3>1
    <3>3. a[k] = list[k]
      BY <1>2, <3>1
    <3> QED  BY <2>1, <3>2, <3>3
  <2>2. CASE ~ (k < i)
    <3>1. k - (i - 1) \in 1 .. n - i /\ (k - (i - 1)) + i = k + 1 /\ ~ (k <= i - 1)
      BY <1>1, <2>2
    <3>2. q[k] = b[k - (i - 1)]
      BY <1>5, <3>1
    <3> QED  BY <1>3, <2>2, <3>1, <3>2
  <2> QED  BY <2>1, <2>2
<1> QED  BY <1>1, <1>5, <1>6 DEF n

\* What the cache holds, no key of it twice.
Rows == Keys \X Store!Values
OfKeys(q) == q \in Seq(Rows) /\ \A i, j \in 1 .. Len(q) : q[i][1] = q[j][1] => i = j
CacheTyped == OfKeys(cache) /\ Len(cache) <= Capacity

\* pop takes its one entry out, if there is one.
LEMMA Forgotten ==
    ASSUME OfKeys(cache), NEW k \in Keys
    PROVE  /\ OfKeys(Store!Forget(k)) /\ \A i \in 1 .. Len(Store!Forget(k)) : Store!Forget(k)[i][1] # k
           /\ Len(Store!Forget(k)) \in Nat /\ Len(cache) \in Nat
           /\ IF Store!Cached(k) = {} THEN Store!Forget(k) = cache ELSE Len(Store!Forget(k)) = Len(cache) - 1
<1> DEFINE at == {i \in DOMAIN cache : cache[i][1] = k}
           i == CHOOSE i \in at : TRUE
<1>1. Len(cache) \in Nat /\ DOMAIN cache = 1 .. Len(cache) /\ cache \in Seq(Rows)
  BY LenProperties DEF OfKeys
<1>2. Store!Cached(k) = {} <=> at = {}
  BY DEF Store!Cached
<1>3. Store!Forget(k) = IF at = {} THEN cache ELSE Lacking(cache, i)
  BY DEF Store!Forget, Lacking
<1>4. CASE at = {}
  <2>1. \A j \in 1 .. Len(cache) : cache[j][1] # k
    BY <1>1, <1>4
  <2> QED  BY <1>1, <1>2, <1>3, <1>4, <2>1
<1>5. CASE at # {}
  <2> DEFINE q == Lacking(cache, i)
  <2>1. i \in 1 .. Len(cache) /\ cache[i][1] = k
    BY <1>1, <1>5
  <2>0. q \in {Lacking(cache, i)}
    OBVIOUS
  <2> HIDE DEF i, q, at
  <2>2. /\ q \in Seq(Rows) /\ Len(q) = Len(cache) - 1
        /\ \A j \in 1 .. Len(q) : q[j] = cache[IF j < i THEN j ELSE j + 1]
    BY <1>1, <2>1, <2>0, OneOut
  <2>3. \A j \in 1 .. Len(q) : (IF j < i THEN j ELSE j + 1) \in 1 .. Len(cache) /\ (IF j < i THEN j ELSE j + 1) # i
    BY <1>1, <2>1, <2>2
  <2>4. \A j \in 1 .. Len(q) : q[j][1] # k
    <3> TAKE j \in 1 .. Len(q)
    <3> DEFINE place == IF j < i THEN j ELSE j + 1
    <3>1. q[j] = cache[place] /\ place \in 1 .. Len(cache) /\ place # i
      BY <2>2, <2>3
    <3> HIDE DEF place
    <3> QED  BY <2>1, <3>1 DEF OfKeys
  <2>5. OfKeys(q)
    <3> SUFFICES ASSUME NEW j \in 1 .. Len(q), NEW h \in 1 .. Len(q), q[j][1] = q[h][1] PROVE j = h
      BY <2>2 DEF OfKeys
    <3>1. (IF j < i THEN j ELSE j + 1) = (IF h < i THEN h ELSE h + 1)
      BY <2>2, <2>3 DEF OfKeys
    <3> QED  BY <1>1, <2>1, <2>2, <3>1
  <2>6. Len(q) \in Nat
    BY <2>2, LenProperties
  <2>7. Store!Forget(k) = q /\ Store!Cached(k) # {}
    BY <1>2, <1>3, <1>5 DEF q
  <2> QED  BY <1>1, <2>2, <2>4, <2>5, <2>6, <2>7
<1> QED  BY <1>4, <1>5

\* What a key that is not there is put behind.
LEMMA PutBehind ==
    ASSUME NEW q, OfKeys(q), NEW k \in Keys, NEW v \in Store!Values, \A i \in 1 .. Len(q) : q[i][1] # k
    PROVE  OfKeys(Append(q, <<k, v>>)) /\ Len(Append(q, <<k, v>>)) = Len(q) + 1 /\ Len(q) \in Nat
<1> DEFINE r == Append(q, <<k, v>>)
           e == <<k, v>>
<1>1. e \in Rows /\ e[1] = k /\ q \in Seq(Rows)
  BY DEF Rows, OfKeys
<1> HIDE DEF e
<1>2. /\ Append(q, e) \in Seq(Rows) /\ Len(Append(q, e)) = Len(q) + 1 /\ Append(q, e)[Len(q) + 1] = e
      /\ \A i \in 1 .. Len(q) : Append(q, e)[i] = q[i]
  BY <1>1, AppendProperties
<1>3. r = Append(q, e)
  BY DEF e
<1>4. Len(q) \in Nat
  BY <1>1, LenProperties
<1> HIDE DEF r
<1>5. \A i, j \in 1 .. Len(r) : r[i][1] = r[j][1] => i = j
  BY <1>1, <1>2, <1>3, <1>4 DEF OfKeys
<1>6. OfKeys(r) /\ Len(r) = Len(q) + 1
  BY <1>2, <1>3, <1>5 DEF OfKeys
<1> QED  BY <1>4, <1>6 DEF r

\* The key that is remembered goes last, and the oldest out while there are too many.
LEMMA Remembered ==
    ASSUME CacheTyped, NEW k \in Keys, NEW v \in Store!Values
    PROVE  OfKeys(Store!Remember(k, v)) /\ Len(Store!Remember(k, v)) <= Capacity
<1> DEFINE q == Append(Store!Forget(k), <<k, v>>)
           first == 1 + (IF Len(q) > Capacity THEN Len(q) - Capacity ELSE 0)
           r == SubSeq(q, first, Len(q))
<1>1. OfKeys(cache) /\ Capacity \in Nat
  BY AroundAssumption DEF CacheTyped
<1>2. OfKeys(Store!Forget(k)) /\ \A i \in 1 .. Len(Store!Forget(k)) : Store!Forget(k)[i][1] # k
  BY <1>1, Forgotten
<1>3. OfKeys(q) /\ Len(q) \in Nat
  <2>1. OfKeys(q)
    BY <1>2, PutBehind
  <2>2. q \in Seq(Rows)
    BY <2>1 DEF OfKeys
  <2> HIDE DEF q
  <2> QED  BY <2>1, <2>2, LenProperties
<1>4. Store!Remember(k, v) = r
  BY DEF Store!Remember
<1> HIDE DEF q
<1>5. first \in Nat \ {0} /\ Len(q) - first + 1 <= Capacity
  BY <1>1, <1>3
<1> HIDE DEF first
<1>6. \A i \in first .. Len(q) : q[i] \in Rows
  <2>1. \A i \in 1 .. Len(q) : q[i] \in Rows
    BY <1>3, ElementOfSeq DEF OfKeys
  <2> QED  BY <1>3, <1>5, <2>1
<1>7. Len(r) = IF first <= Len(q) THEN Len(q) - first + 1 ELSE 0
  BY <1>3, <1>5, <1>6, SubSeqProperties
<1>8. r \in Seq(Rows) /\ \A i \in 1 .. Len(q) - first + 1 : r[i] = q[first + i - 1]
  BY <1>3, <1>5, <1>6, SubSeqProperties
<1> HIDE DEF r
<1>9. \A i \in 1 .. Len(r) : r[i] = q[first + i - 1] /\ first + i - 1 \in 1 .. Len(q)
  BY <1>3, <1>5, <1>7, <1>8
<1>10. \A i, j \in 1 .. Len(r) : r[i][1] = r[j][1] => i = j
  <2> SUFFICES ASSUME NEW i \in 1 .. Len(r), NEW j \in 1 .. Len(r), r[i][1] = r[j][1] PROVE i = j
    OBVIOUS
  <2> DEFINE a == first + i - 1
             b == first + j - 1
  <2>1. a \in 1 .. Len(q) /\ b \in 1 .. Len(q) /\ r[i] = q[a] /\ r[j] = q[b]
    BY <1>9
  <2>2. q[a][1] = q[b][1]
    BY <2>1
  <2>3. a = b
    <3> HIDE DEF a, b
    <3> QED  BY <1>3, <2>1, <2>2 DEF OfKeys
  <2> QED  BY <1>3, <1>5, <2>3
<1>11. Len(r) <= Capacity
  BY <1>1, <1>3, <1>5, <1>7
<1> QED  BY <1>4, <1>8, <1>10, <1>11 DEF OfKeys

\* It begins empty.
LEMMA CacheStarts == Store!Init => CacheTyped
<1> SUFFICES ASSUME Store!Init PROVE CacheTyped
  OBVIOUS
<1>1. cache = <<>> /\ <<>> \in Seq(Rows) /\ Len(<<>>) = 0 /\ 1 .. Len(cache) = {}
  BY DEF Store!Init
<1> QED  BY <1>1, BoundsAreNumbers DEF CacheTyped, OfKeys

\* Every step of a thread keeps the cache what it is.
LEMMA CacheKeeps == StoreIInv /\ CacheTyped /\ [Store!Next]_Store!storeVars => CacheTyped'
<1> SUFFICES ASSUME StoreIInv, CacheTyped, [Store!Next]_Store!storeVars PROVE CacheTyped'
  OBVIOUS
<1>0. ASSUME cache' = cache PROVE CacheTyped'
  BY <1>0 DEF CacheTyped, OfKeys
<1>1. CASE Store!Crash \/ UNCHANGED Store!storeVars
  <2>1. cache' = <<>> \/ cache' = cache
    BY <1>1 DEF Store!Crash, Store!storeVars
  <2>2. <<>> \in Seq(Rows) /\ Len(<<>>) = 0 /\ Capacity \in Nat
    BY AroundAssumption
  <2>3. ASSUME cache' = <<>> PROVE CacheTyped'
    <3>1. cache' \in Seq(Rows) /\ Len(cache') <= Capacity
      BY <2>2, <2>3
    <3>2. 1 .. Len(cache') = {}
      BY <2>2, <2>3
    <3> QED  BY <3>1, <3>2 DEF CacheTyped, OfKeys
  <2> QED  BY <1>0, <2>1, <2>3
<1>2. ASSUME NEW t \in Threads, Store!Put(t) PROVE CacheTyped'
  <2>1. PICK k \in Keys : writes < MaxWrites /\ cache' = Store!Remember(k, writes + 1)
    BY <1>2 DEF Store!Put, Store!BeginWrite
  <2>2. writes + 1 \in Store!Values
    <3>1. MaxWrites \in Nat
      BY AroundAssumption
    <3>2. writes \in 0 .. MaxWrites
      BY DEF StoreIInv, StoreTyped
    <3> QED  BY <2>1, <3>1, <3>2 DEF Store!Values
  <2> QED  BY <2>1, <2>2, Remembered DEF CacheTyped, OfKeys
<1>3. ASSUME NEW t \in Threads, Store!Delete(t) PROVE CacheTyped'
  <2>1. PICK k \in Keys : cache' = Store!Forget(k)
    BY <1>3 DEF Store!Delete
  <2>2. /\ OfKeys(Store!Forget(k)) /\ Len(Store!Forget(k)) \in Nat /\ Len(cache) \in Nat
        /\ IF Store!Cached(k) = {} THEN Store!Forget(k) = cache ELSE Len(Store!Forget(k)) = Len(cache) - 1
    BY Forgotten DEF CacheTyped
  <2>3. Len(Store!Forget(k)) <= Capacity
    <3>1. Len(cache) <= Capacity /\ Capacity \in Nat
      BY BoundsAreNumbers DEF CacheTyped
    <3>2. Len(Store!Forget(k)) = Len(cache) \/ Len(Store!Forget(k)) = Len(cache) - 1
      BY <2>2
    <3> QED  BY <2>2, <3>1, <3>2
  <2> QED  BY <2>1, <2>2, <2>3 DEF CacheTyped, OfKeys
<1>4. ASSUME NEW t \in Threads, Store!Touch(t) PROVE CacheTyped'
  <2> DEFINE k == op[t].key
             v == CHOOSE v \in Store!Cached(k) : TRUE
  <2>1. CASE Store!Cached(k) = {}
    BY <1>0, <1>4, <2>1 DEF Store!Touch
  <2>2. CASE Store!Cached(k) # {}
    <3>1. k \in Keys
      BY <1>4 DEF Store!Touch, StoreIInv, StoreTyped, InHand
    <3>2. cache' = Append(Store!Forget(k), <<k, v>>)
      BY <1>4, <2>2 DEF Store!Touch
    <3>3. v \in Store!Values
      <4>1. v \in Store!Cached(k)
        BY <2>2
      <4>2. PICK i \in DOMAIN cache : v = cache[i][2]
        BY <4>1 DEF Store!Cached
      <4>3. DOMAIN cache = 1 .. Len(cache) /\ cache[i] \in Rows
        BY LenProperties, ElementOfSeq DEF CacheTyped, OfKeys
      <4> HIDE DEF v
      <4> QED  BY <4>2, <4>3 DEF Rows
    <3> HIDE DEF v, k
    <3>4. /\ OfKeys(Store!Forget(k)) /\ \A i \in 1 .. Len(Store!Forget(k)) : Store!Forget(k)[i][1] # k
          /\ Len(cache) \in Nat /\ Len(Store!Forget(k)) = Len(cache) - 1
      BY <2>2, <3>1, Forgotten DEF CacheTyped
    <3>5. OfKeys(cache') /\ Len(cache') = Len(Store!Forget(k)) + 1
      BY <3>1, <3>2, <3>3, <3>4, PutBehind
    <3>6. Len(cache') <= Capacity
      BY <3>4, <3>5, AroundAssumption DEF CacheTyped
    <3> QED  BY <3>5, <3>6 DEF CacheTyped, OfKeys
  <2> QED  BY <2>1, <2>2
<1>5. ASSUME NEW t \in Threads, Store!Restored(t) PROVE CacheTyped'
  <2>1. op[t].key \in Keys /\ op[t].saw \in Store!Values /\ cache' = Store!Remember(op[t].key, op[t].saw)
    BY <1>5 DEF Store!Restored, StoreIInv, StoreTyped, InHand
  <2> QED  BY <2>1, Remembered DEF CacheTyped, OfKeys
<1>6. ASSUME NEW t \in Threads,
             \/ Store!Open(t) \/ Store!Write(t) \/ Store!Fail(t) \/ Store!Replace(t) \/ Store!Unlink(t)
             \/ Store!Get(t) \/ Store!ReadFile(t)
      PROVE  CacheTyped'
  <2>1. cache' = cache
    BY <1>6 DEF Store!Open, Store!Write, Store!Fail, Store!Replace, Store!Unlink, Store!Get, Store!ReadFile
  <2> QED  BY <1>0, <2>1
<1> QED
  BY <1>1, <1>2, <1>3, <1>4, <1>5, <1>6 DEF Store!Next

\* What both say of a store's state.
LEMMA StoreTypes == StoreIInv /\ CacheTyped => Store!TypeOK
<1> SUFFICES ASSUME StoreIInv, CacheTyped PROVE Store!TypeOK
  OBVIOUS
<1>1. DOMAIN cache = 1 .. Len(cache) /\ \A i \in 1 .. Len(cache) : cache[i] \in Keys \X Store!Values
  BY LenProperties, ElementOfSeq DEF CacheTyped, OfKeys, Rows
<1>2. Store!IsInjective([i \in DOMAIN cache |-> cache[i][1]])
  BY <1>1 DEF CacheTyped, OfKeys, Store!IsInjective
<1>3. \A t \in Threads : op[t].pc \in Store!Writing \cup {"idle", "hit", "missed", "read", "raised"}
  BY DEF StoreIInv, StoreTyped, StoreOps
<1> QED  BY <1>1, <1>2, <1>3 DEF StoreIInv, StoreTyped, CacheTyped, Store!TypeOK

-----------------------------------------------------------------------------
(* FilesRegistry: what is taken for uploaded is among the provider's files,  *)
(* and no other file is known there by its reference, so that a deletion     *)
(* takes nothing away from another attachment.                               *)

UploadStates ==
    [status : {"none", "uploaded", "expired", "deleted", "error"}, ref : 0 .. MaxUploads,
     expires : -1 .. MaxTime + Lifetime]
Requests_ ==
    [pc : {"idle", "part", "uploading"}, by : FileHosts \cup {"none"}, began : Nat,
     file : Files!FileNames \cup {"none"}, todo : SUBSET Files!FileNames]
PartKinds == {"source", "ref", "inline", "url", "skip"}

FilesTyped ==
    /\ uploads \in [Files!FileNames -> [FileHosts -> UploadStates]]
    /\ part \in [Convs -> [Files!FileNames -> [kind : PartKinds, ref : Nat, by : FileHosts \cup {"none"}]]]
    /\ req \in [Convs -> Requests_]
    /\ refs \in 0 .. MaxUploads /\ now \in 0 .. MaxTime
    /\ remote \subseteq FileHosts \X (1 .. refs) \X Int

AtWork ==
    \A c \in Convs : /\ req[c].pc # "idle" => req[c].by \in FileHosts
                     /\ req[c].pc = "uploading" => req[c].file \in Files!FileNames

InPlace ==
    \A f \in Files!FileNames, p \in FileHosts : uploads[f][p].status = "uploaded" =>
        /\ uploads[f][p].ref \in 1 .. refs
        /\ <<f, p>> \notin deleting => <<p, uploads[f][p].ref, uploads[f][p].expires>> \in remote
        /\ \A g \in Files!FileNames : uploads[g][p].status = "uploaded" /\ uploads[g][p].ref = uploads[f][p].ref => g = f

FilesIInv == FilesTyped /\ AtWork /\ InPlace

\* The registry begins with nothing uploaded and nobody at work.
LEMMA FilesStarts == Files!Init => FilesIInv
<1> SUFFICES ASSUME Files!Init PROVE FilesIInv
  OBVIOUS
<1>1. Files!NoUpload \in UploadStates /\ Files!NoUpload.status = "none"
  BY BoundsAreNumbers DEF Files!NoUpload, UploadStates
<1>2. Files!Source \in [kind : PartKinds, ref : Nat, by : FileHosts \cup {"none"}]
  BY DEF Files!Source, PartKinds
<1>3. Files!Resting \in Requests_ /\ Files!Resting.pc = "idle"
  BY DEF Files!Resting, Requests_
<1>4. uploads \in [Files!FileNames -> [FileHosts -> UploadStates]] /\ part \in [Convs -> [Files!FileNames -> [kind : PartKinds, ref : Nat, by : FileHosts \cup {"none"}]]]
  BY <1>1, <1>2 DEF Files!Init
<1>5. req \in [Convs -> Requests_] /\ \A c \in Convs : req[c].pc = "idle"
  BY <1>3 DEF Files!Init
<1>6. FilesTyped
  BY <1>4, <1>5, BoundsAreNumbers DEF FilesTyped, Files!Init
<1>7. \A f \in Files!FileNames, p \in FileHosts : uploads[f][p].status = "none"
  BY <1>1 DEF Files!Init
<1> QED
  BY <1>5, <1>6, <1>7 DEF FilesIInv, AtWork, InPlace

\* Where the states of uploads only cease to be "uploaded", what is uploaded is where it was.
LEMMA OnlyLess ==
    ASSUME FilesIInv, uploads' \in [Files!FileNames -> [FileHosts -> UploadStates]],
           \A f \in Files!FileNames, p \in FileHosts : uploads'[f][p].status = "uploaded" => uploads'[f][p] = uploads[f][p],
           \A f \in Files!FileNames, p \in FileHosts :
               uploads'[f][p].status = "uploaded" /\ <<f, p>> \notin deleting' => <<f, p>> \notin deleting,
           UNCHANGED <<remote, refs>>
    PROVE  InPlace'
BY DEF FilesIInv, InPlace

\* is_available marks one state and no other.
LEMMA LookedOnly ==
    ASSUME FilesTyped, NEW f \in Files!FileNames, NEW p \in FileHosts
    PROVE  /\ Files!Looked(f, p) \in [Files!FileNames -> [FileHosts -> UploadStates]]
           /\ \A g \in Files!FileNames, q \in FileHosts :
                 Files!Looked(f, p)[g][q].status = "uploaded" => Files!Looked(f, p)[g][q] = uploads[g][q]
           /\ Files!Available(f, p) => Files!Looked(f, p) = uploads
           /\ Files!Looked(f, p)[f][p].status = "uploaded" => Files!Available(f, p)
<1> DEFINE u == [uploads[f][p] EXCEPT !.status = "expired"]
           L == [uploads EXCEPT ![f] = [uploads[f] EXCEPT ![p] = u]]
<1>1. uploads[f][p] \in UploadStates /\ uploads[f] \in [FileHosts -> UploadStates]
      /\ uploads \in [Files!FileNames -> [FileHosts -> UploadStates]]
  BY DEF FilesTyped
<1>2. u \in UploadStates /\ u.status = "expired"
  BY <1>1 DEF UploadStates
<1>3. [uploads EXCEPT ![f][p].status = "expired"] = L
  BY <1>1
<1> HIDE DEF u
<1>4. L \in [Files!FileNames -> [FileHosts -> UploadStates]] /\ L[f][p] = u
      /\ \A g \in Files!FileNames, q \in FileHosts : g # f \/ q # p => L[g][q] = uploads[g][q]
  BY <1>1, <1>2
<1> HIDE DEF L
<1>5. Files!Looked(f, p) = L \/ Files!Looked(f, p) = uploads
  BY <1>3 DEF Files!Looked
<1> QED
  BY <1>1, <1>2, <1>3, <1>4, <1>5 DEF Files!Looked, Files!Available

\* A part of a request that is taken up, and the request it is of.
LEMMA MovedTyped ==
    ASSUME FilesTyped, NEW c \in Convs, NEW f \in Files!FileNames
    PROVE  /\ Files!Moved(c, f) \in [Convs -> Requests_]
           /\ Files!Moved(c, f)[c].pc = "part" /\ Files!Moved(c, f)[c].by = req[c].by
           /\ \A d \in Convs \ {c} : Files!Moved(c, f)[d] = req[d]
<1> DEFINE o == [req[c] EXCEPT !.todo = @ \ {f}]
           p == [o EXCEPT !.pc = "part"]
<1>1. req[c] \in Requests_
  BY DEF FilesTyped
<1>2. o \in Requests_ /\ o.by = req[c].by
  BY <1>1 DEF Requests_
<1>3. Files!Moved(c, f) = [req EXCEPT ![c] = p]
  BY <1>1 DEF FilesTyped, Files!Moved
<1> HIDE DEF o
<1>4. p \in Requests_ /\ p.by = req[c].by /\ p.pc = "part"
  BY <1>2 DEF Requests_
<1> HIDE DEF p
<1> QED
  BY <1>3, <1>4 DEF FilesTyped

\* The part is rewritten where it stands.
LEMMA RewrittenTyped ==
    ASSUME FilesTyped, NEW c \in Convs, NEW f \in Files!FileNames, NEW kind \in PartKinds, NEW ref \in Nat,
           req[c].by \in FileHosts, Files!Rewritten(c, f, kind, ref)
    PROVE  part' \in [Convs -> [Files!FileNames -> [kind : PartKinds, ref : Nat, by : FileHosts \cup {"none"}]]]
BY DEF FilesTyped, Files!Rewritten

\* A part becomes a reference only where its upload still holds.
LEMMA ResolveKeeps ==
    ASSUME FilesIInv, NEW c \in Convs, Files!ResolvePart(c)
    PROVE  FilesIInv'
<1>1. PICK f \in req[c].todo :
        /\ req[c].pc = "part" /\ uploads' = Files!Looked(f, req[c].by)
        /\ CASE Files!Decision(f, req[c].by) = "upload" /\ ~Files!Available(f, req[c].by) ->
                  /\ refs < MaxUploads
                  /\ req' = [req EXCEPT ![c].pc = "uploading", ![c].file = f] /\ UNCHANGED part
             [] Files!Decision(f, req[c].by) = "upload" /\ Files!Available(f, req[c].by) ->
                  Files!Rewritten(c, f, "ref", uploads[f][req[c].by].ref) /\ req' = Files!Moved(c, f)
             [] OTHER -> Files!Rewritten(c, f, Files!Decision(f, req[c].by), 0) /\ req' = Files!Moved(c, f)
  BY DEF Files!ResolvePart
<1>2. UNCHANGED <<remote, deleting, refs, now>>
  BY DEF Files!ResolvePart
<1>3. /\ req[c] \in Requests_ /\ req[c].by \in FileHosts /\ f \in Files!FileNames
      /\ uploads[f][req[c].by].ref \in Nat
  BY <1>1 DEF FilesIInv, FilesTyped, AtWork, Requests_, UploadStates
<1>4. Files!Decision(f, req[c].by) \in {"upload", "url", "inline", "skip"}
  BY DEF Files!Decision
<1>5. /\ uploads' \in [Files!FileNames -> [FileHosts -> UploadStates]]
      /\ \A g \in Files!FileNames, q \in FileHosts : uploads'[g][q].status = "uploaded" => uploads'[g][q] = uploads[g][q]
  BY <1>1, <1>3, LookedOnly DEF FilesIInv
<1>6. InPlace'
  BY <1>2, <1>5, OnlyLess
<1>7. /\ req' \in [Convs -> Requests_]
      /\ req'[c].by = req[c].by /\ (req'[c].pc = "uploading" => req'[c].file \in Files!FileNames)
      /\ \A d \in Convs \ {c} : req'[d] = req[d]
      /\ part' \in [Convs -> [Files!FileNames -> [kind : PartKinds, ref : Nat, by : FileHosts \cup {"none"}]]]
  <2>1. CASE Files!Decision(f, req[c].by) = "upload" /\ ~Files!Available(f, req[c].by)
    <3> DEFINE o == [req[c] EXCEPT !.pc = "uploading"]
               p == [o EXCEPT !.file = f]
    <3>1. req' = [req EXCEPT ![c].pc = "uploading", ![c].file = f] /\ part' = part
      BY <1>1, <2>1
    <3>2. req' = [req EXCEPT ![c] = p]
      BY <3>1 DEF FilesIInv, FilesTyped
    <3>3. o \in Requests_ /\ o.by = req[c].by
      BY <1>3 DEF Requests_
    <3> HIDE DEF o
    <3>4. p \in Requests_ /\ p.by = req[c].by /\ p.file = f
      BY <1>3, <3>3 DEF Requests_
    <3> HIDE DEF p
    <3> QED
      BY <1>3, <3>1, <3>2, <3>4 DEF FilesIInv, FilesTyped
  <2>2. CASE Files!Decision(f, req[c].by) = "upload" /\ Files!Available(f, req[c].by)
    <3>1. Files!Rewritten(c, f, "ref", uploads[f][req[c].by].ref) /\ req' = Files!Moved(c, f)
      BY <1>1, <2>2
    <3>2. part' \in [Convs -> [Files!FileNames -> [kind : PartKinds, ref : Nat, by : FileHosts \cup {"none"}]]]
      BY <1>3, <3>1, RewrittenTyped DEF FilesIInv, PartKinds
    <3> QED
      BY <1>3, <3>1, <3>2, MovedTyped DEF FilesIInv
  <2>3. CASE Files!Decision(f, req[c].by) # "upload"
    <3>1. Files!Rewritten(c, f, Files!Decision(f, req[c].by), 0) /\ req' = Files!Moved(c, f)
      BY <1>1, <2>3
    <3>2. Files!Decision(f, req[c].by) \in PartKinds
      BY <1>4, <2>3 DEF PartKinds
    <3>3. part' \in [Convs -> [Files!FileNames -> [kind : PartKinds, ref : Nat, by : FileHosts \cup {"none"}]]]
      BY <1>3, <3>1, <3>2, RewrittenTyped DEF FilesIInv
    <3> QED
      BY <1>3, <3>1, <3>3, MovedTyped DEF FilesIInv
  <2> QED
    BY <2>1, <2>2, <2>3
<1>8. FilesTyped'
  BY <1>2, <1>5, <1>7 DEF FilesIInv, FilesTyped
<1>9. AtWork'
  BY <1>3, <1>7 DEF FilesIInv, AtWork
<1> QED
  BY <1>6, <1>8, <1>9 DEF FilesIInv

\* What was just uploaded is at the provider, under a reference of its own.
LEMMA UploadedKeeps ==
    ASSUME FilesIInv, NEW c \in Convs, Files!Uploaded(c)
    PROVE  FilesIInv'
<1> DEFINE p == req[c].by
           f == req[c].file
<1>1. PICK lived \in {Lifetime, -1} :
        /\ uploads' = [uploads EXCEPT ![f][p] =
                 [status |-> IF lived < 0 THEN "expired" ELSE "uploaded", ref |-> refs + 1, expires |-> now + lived]]
        /\ remote' = remote \cup {<<p, refs + 1, now + lived>>}
        /\ IF lived < 0 THEN Files!Rewritten(c, f, "inline", 0) ELSE Files!Rewritten(c, f, "ref", refs + 1)
  BY DEF Files!Uploaded
<1>2. /\ req[c].pc = "uploading" /\ refs < MaxUploads /\ refs' = refs + 1 /\ req' = Files!Moved(c, f)
      /\ UNCHANGED <<deleting, now>>
  BY DEF Files!Uploaded
<1>x. MaxUploads \in Nat /\ MaxTime \in Nat /\ Lifetime \in Nat
  BY AroundAssumption
<1>y. p \in FileHosts /\ f \in Files!FileNames /\ refs \in 0 .. MaxUploads /\ now \in 0 .. MaxTime
  BY <1>2 DEF FilesIInv, FilesTyped, AtWork
<1>3. /\ p \in FileHosts /\ f \in Files!FileNames /\ refs \in 0 .. MaxUploads /\ now \in 0 .. MaxTime
      /\ refs + 1 \in 1 .. MaxUploads /\ lived \in Int /\ now + lived \in -1 .. MaxTime + Lifetime
  BY <1>2, <1>x, <1>y
<1> DEFINE u == [status |-> IF lived < 0 THEN "expired" ELSE "uploaded", ref |-> refs + 1, expires |-> now + lived]
<1>4. u \in UploadStates /\ u.ref = refs + 1 /\ u.expires = now + lived
  BY <1>3 DEF UploadStates
<1>5. uploads' = [uploads EXCEPT ![f][p] = u]
  BY <1>1
<1> HIDE DEF u
<1>a. req' = Files!Moved(c, f) /\ (Files!Rewritten(c, f, "inline", 0) \/ Files!Rewritten(c, f, "ref", refs + 1))
  BY <1>1, <1>2
<1>b. remote' = remote \cup {<<p, refs + 1, now + lived>>}
  BY <1>1
<1>e. req[c].by \in FileHosts
  BY <1>3
<1> HIDE DEF p, f
<1>6. uploads' \in [Files!FileNames -> [FileHosts -> UploadStates]] /\ uploads'[f][p] = u
      /\ \A g \in Files!FileNames, q \in FileHosts : g # f \/ q # p => uploads'[g][q] = uploads[g][q]
  BY <1>3, <1>4, <1>5 DEF FilesIInv, FilesTyped
<1>7. part' \in [Convs -> [Files!FileNames -> [kind : PartKinds, ref : Nat, by : FileHosts \cup {"none"}]]]
  <2>1. "inline" \in PartKinds /\ "ref" \in PartKinds /\ 0 \in Nat /\ refs + 1 \in Nat /\ f \in Files!FileNames
    BY <1>3 DEF PartKinds
  <2> QED  BY <1>a, <1>e, <2>1, RewrittenTyped DEF FilesIInv
<1>8. req' \in [Convs -> Requests_] /\ req'[c].pc = "part" /\ req'[c].by = req[c].by
      /\ \A d \in Convs \ {c} : req'[d] = req[d]
  BY <1>3, <1>a, MovedTyped DEF FilesIInv
<1>9. remote' \subseteq FileHosts \X (1 .. refs') \X Int
  <2>1. refs' \in 1 .. MaxUploads /\ 1 .. refs \subseteq 1 .. refs' /\ refs' = refs + 1 /\ refs' \in 1 .. refs'
    BY <1>2, <1>3
  <2>2. <<p, refs + 1, now + lived>> \in FileHosts \X (1 .. refs') \X Int
    BY <1>3, <2>1
  <2>3. remote \subseteq FileHosts \X (1 .. refs') \X Int
    BY <2>1 DEF FilesIInv, FilesTyped
  <2> QED  BY <1>b, <2>2, <2>3
<1>10. FilesTyped'
  BY <1>2, <1>3, <1>6, <1>7, <1>8, <1>9 DEF FilesIInv, FilesTyped
<1>11. AtWork'
  BY <1>3, <1>8, <1>e DEF FilesIInv, AtWork
<1>12. InPlace'
  <2> SUFFICES ASSUME NEW g \in Files!FileNames, NEW q \in FileHosts, uploads'[g][q].status = "uploaded"
               PROVE  /\ uploads'[g][q].ref \in 1 .. refs'
                      /\ <<g, q>> \notin deleting => <<q, uploads'[g][q].ref, uploads'[g][q].expires>> \in remote'
                      /\ \A h \in Files!FileNames :
                            uploads'[h][q].status = "uploaded" /\ uploads'[h][q].ref = uploads'[g][q].ref => h = g
    BY <1>2 DEF InPlace
  <2>1. \A h \in Files!FileNames : uploads[h][q].status = "uploaded" => uploads[h][q].ref \in 1 .. refs /\ uploads[h][q].ref # refs + 1
    <3>1. \A i \in 1 .. refs : i # refs + 1
      BY <1>3
    <3> QED  BY <3>1 DEF FilesIInv, InPlace
  <2>2. CASE g = f /\ q = p
    BY <1>2, <1>3, <1>4, <1>6, <1>b, <2>1, <2>2
  <2>3. CASE g # f \/ q # p
    <3>1. uploads'[g][q] = uploads[g][q] /\ uploads[g][q].ref \in 1 .. refs /\ uploads[g][q].ref \in 1 .. refs'
      BY <1>2, <1>3, <1>6, <2>1, <2>3
    <3>2. <<g, q>> \notin deleting => <<q, uploads[g][q].ref, uploads[g][q].expires>> \in remote'
      BY <1>b, <3>1 DEF FilesIInv, InPlace
    <3>3. \A h \in Files!FileNames : uploads'[h][q].status = "uploaded" /\ uploads'[h][q].ref = uploads[g][q].ref => h = g
      <4> SUFFICES ASSUME NEW h \in Files!FileNames, uploads'[h][q].status = "uploaded", uploads'[h][q].ref = uploads[g][q].ref
                   PROVE  h = g
        OBVIOUS
      <4>1. ~ (h = f /\ q = p)
        BY <1>3, <1>4, <1>6, <3>1
      <4>2. uploads'[h][q] = uploads[h][q]
        BY <1>6, <4>1
      <4> QED  BY <3>1, <4>2 DEF FilesIInv, InPlace
    <3> QED  BY <3>1, <3>2, <3>3
  <2> QED  BY <2>2, <2>3
<1> QED
  BY <1>10, <1>11, <1>12 DEF FilesIInv

\* A deletion takes the one row whose reference the state has.
LEMMA DeleteKeeps ==
    ASSUME FilesIInv, NEW f \in Files!FileNames, NEW p \in FileHosts, Files!DeleteRemote(f, p)
    PROVE  FilesIInv'
<1>1. /\ uploads' = Files!Looked(f, p) /\ UNCHANGED <<part, req, refs, now>>
      /\ IF Files!Available(f, p)
         THEN /\ remote' = {row \in remote : ~(row[1] = p /\ row[2] = uploads[f][p].ref)}
              /\ deleting' = deleting \cup {<<f, p>>}
         ELSE UNCHANGED <<remote, deleting>>
  BY DEF Files!DeleteRemote
<1>2. /\ uploads' \in [Files!FileNames -> [FileHosts -> UploadStates]]
      /\ \A g \in Files!FileNames, q \in FileHosts : uploads'[g][q].status = "uploaded" => uploads'[g][q] = uploads[g][q]
  BY <1>1, LookedOnly DEF FilesIInv
<1>3. remote' \subseteq remote
  BY <1>1
<1>4. FilesTyped' /\ AtWork'
  BY <1>1, <1>2, <1>3 DEF FilesIInv, FilesTyped, AtWork
<1>5. CASE ~ Files!Available(f, p)
  <2>1. UNCHANGED <<remote, deleting, refs>>
    BY <1>1, <1>5
  <2>2. InPlace'
    BY <1>2, <2>1, OnlyLess
  <2> QED  BY <1>4, <2>2 DEF FilesIInv
<1>6. CASE Files!Available(f, p)
  <2>1. uploads' = uploads /\ refs' = refs /\ deleting' = deleting \cup {<<f, p>>}
        /\ remote' = {row \in remote : ~(row[1] = p /\ row[2] = uploads[f][p].ref)}
    BY <1>1, <1>6, LookedOnly DEF FilesIInv
  <2>2. ASSUME NEW g \in Files!FileNames, NEW q \in FileHosts, uploads[g][q].status = "uploaded", <<g, q>> \notin deleting'
        PROVE  <<q, uploads[g][q].ref, uploads[g][q].expires>> \in remote'
    <3>1. <<g, q>> \notin deleting /\ (g # f \/ q # p)
      BY <2>1, <2>2
    <3>2. <<q, uploads[g][q].ref, uploads[g][q].expires>> \in remote
      BY <2>2, <3>1 DEF FilesIInv, InPlace
    <3>3. ~ (q = p /\ uploads[g][q].ref = uploads[f][p].ref)
      BY <1>6, <2>2, <3>1 DEF FilesIInv, InPlace, Files!Available
    <3> QED  BY <2>1, <3>2, <3>3
  <2>3. InPlace'
    BY <2>1, <2>2 DEF FilesIInv, InPlace
  <2> QED  BY <1>4, <2>3 DEF FilesIInv
<1> QED  BY <1>5, <1>6

\* A state that has ceased to be "uploaded", or never was.
LEMMA MarkKeeps ==
    ASSUME FilesIInv, NEW f \in Files!FileNames, NEW p \in FileHosts, NEW u \in UploadStates, u.status # "uploaded",
           uploads' = [uploads EXCEPT ![f][p] = u]
    PROVE  /\ uploads' \in [Files!FileNames -> [FileHosts -> UploadStates]]
           /\ uploads'[f][p].status # "uploaded"
           /\ \A g \in Files!FileNames, q \in FileHosts : uploads'[g][q].status = "uploaded" => uploads'[g][q] = uploads[g][q]
BY DEF FilesIInv, FilesTyped

\* Every step of a request, of a deletion and of the clock keeps the invariant.
LEMMA FilesKeeps == FilesIInv /\ [Files!Next]_Files!filesVars => FilesIInv'
<1> SUFFICES ASSUME FilesIInv, [Files!Next]_Files!filesVars PROVE FilesIInv'
  OBVIOUS
<1>0. Files!Resting \in Requests_ /\ Files!Resting.pc = "idle"
  BY DEF Files!Resting, Requests_
<1>1. ASSUME NEW c \in Convs, Files!Begin(c) PROVE FilesIInv'
  <2>1. PICK p \in FileHosts :
          req' = [req EXCEPT ![c] = [pc |-> "part", by |-> p, began |-> now, file |-> "none",
                                     todo |-> {f \in Files!FileNames : part[c][f].kind = "source"}]]
    BY <1>1 DEF Files!Begin
  <2>2. [pc |-> "part", by |-> p, began |-> now, file |-> "none",
         todo |-> {f \in Files!FileNames : part[c][f].kind = "source"}] \in Requests_
    BY DEF Requests_, FilesIInv, FilesTyped
  <2>3. req' \in [Convs -> Requests_] /\ req'[c].pc = "part" /\ req'[c].by = p /\ \A d \in Convs \ {c} : req'[d] = req[d]
    BY <2>1, <2>2 DEF FilesIInv, FilesTyped
  <2> QED
    BY <1>1, <2>3 DEF FilesIInv, FilesTyped, AtWork, InPlace, Files!Begin
<1>2. ASSUME NEW c \in Convs, Files!UploadFails(c) PROVE FilesIInv'
  <2> DEFINE u == [Files!NoUpload EXCEPT !.status = "error"]
  <2>1. /\ req[c].by \in FileHosts /\ req[c].file \in Files!FileNames /\ u \in UploadStates /\ u.status # "uploaded"
        /\ uploads' = [uploads EXCEPT ![req[c].file][req[c].by] = u] /\ req' = [req EXCEPT ![c] = Files!Resting]
        /\ UNCHANGED <<remote, part, deleting, refs, now>>
    BY <1>2, BoundsAreNumbers DEF FilesIInv, AtWork, UploadStates, Files!NoUpload, Files!UploadFails
  <2> HIDE DEF u
  <2>2. /\ uploads' \in [Files!FileNames -> [FileHosts -> UploadStates]]
        /\ \A g \in Files!FileNames, q \in FileHosts : uploads'[g][q].status = "uploaded" => uploads'[g][q] = uploads[g][q]
    BY <2>1, MarkKeeps
  <2>3. InPlace'
    BY <2>1, <2>2, OnlyLess
  <2>4. FilesTyped' /\ AtWork'
    BY <1>0, <2>1, <2>2 DEF FilesIInv, FilesTyped, AtWork
  <2> QED  BY <2>3, <2>4 DEF FilesIInv
<1>3. ASSUME NEW c \in Convs, Files!Send(c) PROVE FilesIInv'
  <2>1. req' = [req EXCEPT ![c] = Files!Resting] /\ UNCHANGED <<uploads, remote, part, deleting, refs, now>>
    BY <1>3 DEF Files!Send
  <2> QED
    BY <1>0, <2>1 DEF FilesIInv, FilesTyped, AtWork, InPlace
<1>4. ASSUME NEW f \in Files!FileNames, NEW p \in FileHosts, Files!Deleted(f, p) PROVE FilesIInv'
  <2> DEFINE u == [uploads[f][p] EXCEPT !.status = IF @ = "none" THEN @ ELSE "deleted"]
  <2>1. /\ deleting' = deleting \ {<<f, p>>} /\ UNCHANGED <<remote, part, req, refs, now>>
        /\ uploads[f][p] \in UploadStates
    BY <1>4 DEF FilesIInv, FilesTyped, Files!Deleted
  <2>2. uploads' = [uploads EXCEPT ![f][p] = u]
    BY <1>4 DEF FilesIInv, FilesTyped, Files!Deleted, Files!Marked
  <2>3. u \in UploadStates /\ u.status # "uploaded"
    BY <2>1 DEF UploadStates
  <2> HIDE DEF u
  <2>4. /\ uploads' \in [Files!FileNames -> [FileHosts -> UploadStates]] /\ uploads'[f][p].status # "uploaded"
        /\ \A g \in Files!FileNames, q \in FileHosts : uploads'[g][q].status = "uploaded" => uploads'[g][q] = uploads[g][q]
    BY <2>2, <2>3, MarkKeeps
  <2>5. InPlace'
    BY <2>1, <2>4, OnlyLess
  <2>6. FilesTyped' /\ AtWork'
    BY <2>1, <2>4 DEF FilesIInv, FilesTyped, AtWork
  <2> QED  BY <2>5, <2>6 DEF FilesIInv
<1>5. CASE Files!Tick
  BY <1>5, BoundsAreNumbers DEF FilesIInv, FilesTyped, AtWork, InPlace, Files!Tick
<1>6. CASE UNCHANGED Files!filesVars
  BY <1>6 DEF FilesIInv, FilesTyped, AtWork, InPlace, Files!filesVars
<1> QED
  BY <1>1, <1>2, <1>3, <1>4, <1>5, <1>6, ResolveKeeps, UploadedKeeps, DeleteKeeps DEF Files!Next

\* What is in place is held, while it has not expired.
LEMMA FilesSays == FilesIInv => Files!RefsTrue /\ Files!TypeOK
<1> SUFFICES ASSUME FilesIInv PROVE Files!RefsTrue /\ Files!TypeOK
  OBVIOUS
<1>1. ASSUME NEW f \in Files!FileNames, NEW p \in FileHosts, Files!Available(f, p), <<f, p>> \notin deleting
      PROVE  Files!Holds(p, uploads[f][p].ref)
  <2>1. <<p, uploads[f][p].ref, uploads[f][p].expires>> \in remote
    BY <1>1 DEF FilesIInv, InPlace, Files!Available
  <2>2. now <= uploads[f][p].expires
    BY <1>1 DEF FilesIInv, FilesTyped, UploadStates, Files!Available, Files!Expired
  <2> QED  BY <2>1, <2>2 DEF Files!Holds
<1>2. Files!TypeOK
  <2>1. \A row \in remote : row[1] \in FileHosts /\ row[2] \in 1 .. refs
    BY DEF FilesIInv, FilesTyped
  <2>2. \A c \in Convs : req[c].todo \subseteq Files!FileNames /\ req[c].pc \in {"idle", "part", "uploading"}
    BY DEF FilesIInv, FilesTyped, Requests_
  <2>3. \A c \in Convs, f \in Files!FileNames : part[c][f].kind \in PartKinds
    BY DEF FilesIInv, FilesTyped
  <2> QED
    BY <2>1, <2>2, <2>3 DEF FilesIInv, FilesTyped, Files!TypeOK, UploadStates, PartKinds
<1> QED
  BY <1>1, <1>2 DEF Files!RefsTrue

-----------------------------------------------------------------------------
(* Retrieval: a document is attached only once, and after what a wait was    *)
(* told of; the corpus is the handle's to delete from its making to the end. *)

IndexTyped ==
    /\ owns \in BOOLEAN /\ store \in {"none", "there", "deleted"} /\ docs \subseteq Docs /\ DOMAIN state \subseteq docs
    /\ step.at \in {"outside", "inside", "attach", "waiting", "gone"} /\ step.doc \subseteq docs
    /\ asked \in 0 .. Patience + 1 /\ told.unready \subseteq docs

Told ==
    /\ step.at = "attach" => step.doc \cap (DOMAIN state \cup told.unready) = {}
    /\ told.state = "ready" =>
          /\ vendor = "xai" => told.unready = {}
          /\ vendor = "openai" => \A d \in told.unready \cap DOMAIN state : state[d] # "queued"

Owned ==
    /\ step.at = "outside" => owns /\ store = "none"
    /\ owns => store \in {"none", "there", "deleted"}
    /\ ~owns => store = "there"
    /\ step.at = "gone" /\ owns => store \in {"none", "deleted"} \/ failedDelete

IndexIInv == IndexTyped /\ Told /\ Owned

\* The handle begins outside its block, or with a corpus that it adopted.
LEMMA IndexStarts == Indexed!Init => IndexIInv
<1> SUFFICES ASSUME Indexed!Init PROVE IndexIInv
  OBVIOUS
<1>1. told.state = "none" /\ told.unready = {}
  BY DEF Indexed!Init, Indexed!Nothing
<1>2. step.at = (IF owns THEN "outside" ELSE "inside") /\ step.doc = {}
  BY DEF Indexed!Init
<1>3. DOMAIN state = {}
  BY DEF Indexed!Init
<1>4. asked \in 0 .. Patience + 1
  BY BoundsAreNumbers DEF Indexed!Init
<1> QED
  BY <1>1, <1>2, <1>3, <1>4 DEF IndexIInv, IndexTyped, Told, Owned, Indexed!Init

\* Every step of the caller and of the provider keeps the invariant.
LEMMA IndexKeeps == IndexIInv /\ [Indexed!Next]_Indexed!retrievalVars => IndexIInv'
<1> SUFFICES ASSUME IndexIInv, [Indexed!Next]_Indexed!retrievalVars PROVE IndexIInv'
  OBVIOUS
<1>0. Patience \in Nat
  BY AroundAssumption
<1> USE DEF Indexed!At, Indexed!Goto
<1>1. CASE Indexed!Create
  BY <1>1 DEF IndexIInv, IndexTyped, Told, Owned, Indexed!Create
<1>2. CASE Indexed!Attach
  <2>1. /\ step.at = "attach" /\ step' = [at |-> "inside", doc |-> {}]
        /\ UNCHANGED <<vendor, owns, store, docs, asked, told, failedDelete>>
    BY <1>2 DEF Indexed!Attach
  <2>2. \/ state' = [d \in DOMAIN state \cup step.doc |-> IF d \in step.doc THEN "queued" ELSE state[d]]
        \/ state' = state
    BY <1>2 DEF Indexed!Attach, Indexed!Attached
  <2>3. DOMAIN state' \subseteq docs
    BY <2>2 DEF IndexIInv, IndexTyped
  <2>4. \A d \in told.unready \cap DOMAIN state' : d \in DOMAIN state /\ state'[d] = state[d]
    BY <2>1, <2>2 DEF IndexIInv, Told
  <2> QED
    BY <2>1, <2>3, <2>4 DEF IndexIInv, IndexTyped, Told, Owned
<1>3. CASE Indexed!Wait
  <2>1. told'.state = "none" /\ told'.unready = {} /\ step'.at = "waiting" /\ step'.doc = {} /\ asked' = 0
    BY <1>3 DEF Indexed!Wait, Indexed!Nothing
  <2> QED
    BY <1>0, <1>3, <2>1 DEF IndexIInv, IndexTyped, Told, Owned, Indexed!Wait
<1>4. CASE Indexed!Ask
  <2>1. step.at = "waiting" /\ asked <= Patience /\ UNCHANGED <<vendor, owns, store, docs, state, failedDelete>>
    BY <1>4 DEF Indexed!Ask
  <2>2. PICK status \in Indexed!Statuses(DOMAIN state) :
          IF status \in {"pending", "indexing"}
          THEN asked' = asked + 1 /\ UNCHANGED <<step, told>>
          ELSE /\ told' = [state |-> status, unready |-> DOMAIN state \ Indexed!In("indexed")]
               /\ step' = [at |-> "inside", doc |-> {}] /\ UNCHANGED asked
    BY <1>4 DEF Indexed!Ask, Indexed!Attached
  <2>3. CASE status \in {"pending", "indexing"}
    <3>1. asked' = asked + 1 /\ step' = step /\ told' = told
      BY <2>2, <2>3
    <3>2. asked' \in 0 .. Patience + 1
      BY <1>0, <2>1, <3>1 DEF IndexIInv, IndexTyped
    <3> QED
      BY <2>1, <3>1, <3>2 DEF IndexIInv, IndexTyped, Told, Owned
  <2>4. CASE status \notin {"pending", "indexing"}
    <3>1. /\ told'.state = status /\ told'.unready = DOMAIN state \ Indexed!In("indexed")
          /\ step'.at = "inside" /\ step'.doc = {} /\ asked' = asked
      BY <2>2, <2>4
    <3>2. status = "ready" /\ vendor = "xai" => DOMAIN state \subseteq Indexed!In("indexed")
      BY <2>2 DEF Indexed!Statuses, Indexed!AllIndexed
    <3>3. status = "ready" /\ vendor = "openai" => Indexed!In("queued") = {}
      BY <2>2 DEF Indexed!Statuses
    <3>4. Told'
      BY <2>1, <3>1, <3>2, <3>3 DEF Told, Indexed!In, Indexed!Attached
    <3> QED
      BY <2>1, <3>1, <3>4 DEF IndexIInv, IndexTyped, Owned
  <2> QED  BY <2>3, <2>4
<1>5. CASE Indexed!GiveUp
  <2>1. told'.unready = told.unready \/ told'.unready = {}
    BY <1>5 DEF Indexed!GiveUp
  <2> QED
    BY <1>5, <2>1 DEF IndexIInv, IndexTyped, Told, Owned, Indexed!GiveUp
<1>6. CASE Indexed!Leave
  <2>1. DOMAIN state' = {} \/ state' = state
    BY <1>6 DEF Indexed!Leave
  <2>2. step.at = "inside" /\ step'.at = "gone" /\ step'.doc = {} /\ UNCHANGED <<vendor, owns, docs, asked, told>>
    BY <1>6 DEF Indexed!Leave
  <2>3. IndexTyped' /\ Told'
    BY <1>6, <2>1, <2>2 DEF IndexIInv, IndexTyped, Told, Indexed!Leave
  <2>4. Owned'
    BY <1>6, <2>2 DEF IndexIInv, Owned, Indexed!Leave, Indexed!Deletes
  <2> QED  BY <2>3, <2>4 DEF IndexIInv
<1>7. ASSUME NEW d \in Docs, Indexed!Upload(d) PROVE IndexIInv'
  BY <1>7 DEF IndexIInv, IndexTyped, Told, Owned, Indexed!Upload
<1>8. ASSUME NEW d \in Docs, Indexed!Remove(d) PROVE IndexIInv'
  <2>1. DOMAIN state' \subseteq DOMAIN state /\ \A e \in DOMAIN state' : state'[e] = state[e]
    BY <1>8 DEF Indexed!Remove, Indexed!Attached
  <2> QED
    BY <1>8, <2>1 DEF IndexIInv, IndexTyped, Told, Owned, Indexed!Remove
<1>9. ASSUME NEW d \in Docs, Indexed!Index(d) PROVE IndexIInv'
  <2>1. PICK to \in {"indexed", "failed"} : state' = [state EXCEPT ![d] = to]
    BY <1>9 DEF Indexed!Index
  <2>2. DOMAIN state' = DOMAIN state /\ \A e \in DOMAIN state' : state'[e] = "queued" => state[e] = "queued"
    BY <2>1
  <2> QED
    BY <1>9, <2>2 DEF IndexIInv, IndexTyped, Told, Owned, Indexed!Index
<1>10. CASE UNCHANGED Indexed!retrievalVars
  BY <1>10 DEF IndexIInv, IndexTyped, Told, Owned, Indexed!retrievalVars
<1> QED
  BY <1>1, <1>2, <1>3, <1>4, <1>5, <1>6, <1>7, <1>8, <1>9, <1>10 DEF Indexed!Next

\* What the invariant says of an index and of a corpus.
LEMMA IndexSays == IndexIInv => Indexed!RetrievalTrue /\ Indexed!TypeOK
BY DEF IndexIInv, IndexTyped, Told, Owned, Indexed!RetrievalTrue, Indexed!ReadyTrue, Indexed!NoCharge, Indexed!TypeOK,
       Indexed!At, Indexed!In, Indexed!Attached

-----------------------------------------------------------------------------
(* Telemetry: in one thread, what is open of a kind is of the call the       *)
(* thread is in, unless that was cleared; an agent's span is open for as     *)
(* long as its call is, unless a run failed; ids are never given twice.      *)

OpenSpans == [id : Nat, kind : Spans!Kinds \cup {"none"}, began : Nat, parent : Nat]

SpansTyped ==
    /\ hooks \in 0 .. MaxHooks
    /\ open \in [Spans!Kinds -> OpenSpans] /\ call \in [{"s"} -> [Spans!Kinds -> 0 .. hooks]]
    /\ \A k \in Spans!Kinds :
          open[k] = Spans!NoSpan \/ (open[k].id \in 1 .. hooks /\ open[k].kind = k /\ open[k].parent < open[k].id)
    /\ \A s \in spans : s.id \in 1 .. hooks /\ s.parent \in Nat /\ s.parent < s.id

OneSpan ==
    /\ \A r, s \in spans : r.id = s.id => r = s
    /\ \A k \in Spans!Kinds : open[k] # Spans!NoSpan =>
          /\ \A s \in spans : s.id # open[k].id
          /\ \A j \in Spans!Kinds : open[j] # Spans!NoSpan /\ open[j].id = open[k].id => j = k

OwnCall ==
    \A k \in Spans!Kinds : call["s"][k] # 0 =>
        \/ open[k] # Spans!NoSpan /\ open[k].began = call["s"][k]
        \/ "cleared" \in lost

Closed ==
    \A s \in spans : s.kind # "llm" => s.began = s.ended \/ "cleared" \in lost

HasAgent(parent, agent, closed) ==
    parent # 0 => agent = parent \/ \E a \in closed : a.kind = "agent" /\ a.id = parent
Parented ==
    lost \cap {"agent", "cleared"} = {} =>
        /\ open["agent"] # Spans!NoSpan => call["s"]["agent"] # 0
        /\ \A s \in spans : HasAgent(s.parent, open["agent"].id, spans)
        /\ \A k \in Spans!Kinds : HasAgent(open[k].parent, open["agent"].id, spans)

SpansIInv == SpansTyped /\ OneSpan /\ OwnCall /\ Closed /\ Parented

\* Nothing is no span.
LEMMA NoSpanIs ==
    /\ Spans!NoSpan \in OpenSpans /\ Spans!NoSpan.id = 0 /\ Spans!NoSpan.parent = 0
    /\ Spans!Kinds = {"agent", "tool", "http"}
BY DEF Spans!NoSpan, OpenSpans, Spans!Kinds

\* The adapter begins with no span.
LEMMA SpansStart == Spans!Init => SpansIInv
<1> SUFFICES ASSUME Spans!Init PROVE SpansIInv
  OBVIOUS
<1>0. MaxHooks \in Nat
  BY AroundAssumption
<1>1. call \in [{"s"} -> [Spans!Kinds -> 0 .. 0]] /\ open \in [Spans!Kinds -> {Spans!NoSpan}]
  BY DEF Spans!Init, Spans!Nothing
<1>2. \A k \in Spans!Kinds : open[k] = Spans!NoSpan /\ call["s"][k] = 0
  BY <1>1
<1>3. SpansTyped
  BY <1>0, <1>1, <1>2, NoSpanIs DEF SpansTyped, Spans!Init
<1>4. OneSpan /\ OwnCall /\ Closed
  BY <1>2 DEF OneSpan, OwnCall, Closed, Spans!Init
<1>5. Parented
  BY <1>2, NoSpanIs DEF Parented, HasAgent, Spans!Init
<1> QED
  BY <1>3, <1>4, <1>5 DEF SpansIInv

\* A hook has a number of its own.
LEMMA HookCounts ==
    ASSUME SpansTyped, Spans!Emit
    PROVE  /\ hooks \in Nat /\ hooks' = hooks + 1 /\ hooks' \in 1 .. MaxHooks /\ hooks' \in 1 .. hooks'
           /\ 0 .. hooks \subseteq 0 .. hooks' /\ 1 .. hooks \subseteq 1 .. hooks' /\ hooks' \notin 0 .. hooks
<1>0. MaxHooks \in Nat
  BY AroundAssumption
<1> QED
  BY <1>0 DEF SpansTyped, Spans!Emit

\* _span_for with a Start.
LEMMA StartKeeps ==
    ASSUME SpansIInv, NEW k \in Spans!Kinds, Spans!Start("s", k)
    PROVE  SpansIInv'
<1> DEFINE o == [id |-> hooks', kind |-> k, began |-> hooks', parent |-> Spans!CurrentParent(k)]
<1>1. /\ Spans!Emit /\ call["s"][k] = 0
      /\ open' = [open EXCEPT ![k] = o] /\ UNCHANGED <<spans, lost>>
      /\ call' = [call EXCEPT !["s"][k] = hooks']
  BY DEF Spans!Start, Spans!Opened
<1>2. /\ hooks \in Nat /\ hooks' = hooks + 1 /\ hooks' \in 1 .. MaxHooks /\ hooks' \in 1 .. hooks'
      /\ 0 .. hooks \subseteq 0 .. hooks' /\ 1 .. hooks \subseteq 1 .. hooks' /\ hooks' \notin 0 .. hooks
  BY <1>1, HookCounts DEF SpansIInv
<1>3. Spans!CurrentParent(k) \in 0 .. hooks /\ Spans!CurrentParent(k) \in {0, open["agent"].id}
      /\ (k = "agent" => Spans!CurrentParent(k) = 0)
  BY <1>2, NoSpanIs DEF SpansIInv, SpansTyped, Spans!CurrentParent
<1>4. o \in OpenSpans /\ o.id = hooks' /\ o.kind = k /\ o.began = hooks' /\ o.parent = Spans!CurrentParent(k)
      /\ o # Spans!NoSpan
  BY <1>2, <1>3, NoSpanIs DEF OpenSpans
<1> HIDE DEF o
<1>5. open' \in [Spans!Kinds -> OpenSpans] /\ open'[k] = o /\ \A j \in Spans!Kinds \ {k} : open'[j] = open[j]
  BY <1>1, <1>4 DEF SpansIInv, SpansTyped
<1>6. /\ call' \in [{"s"} -> [Spans!Kinds -> 0 .. hooks']] /\ call'["s"][k] = hooks'
      /\ \A j \in Spans!Kinds \ {k} : call'["s"][j] = call["s"][j]
  BY <1>1, <1>2 DEF SpansIInv, SpansTyped
<1>7. SpansTyped'
  <2>1. \A j \in Spans!Kinds :
          open'[j] = Spans!NoSpan \/ (open'[j].id \in 1 .. hooks' /\ open'[j].kind = j /\ open'[j].parent < open'[j].id)
    <3>1. o.id \in 1 .. hooks' /\ o.kind = k /\ o.parent < o.id
      BY <1>2, <1>3, <1>4
    <3> QED  BY <1>2, <1>5, <3>1 DEF SpansIInv, SpansTyped
  <2>2. \A s \in spans' : s.id \in 1 .. hooks' /\ s.parent \in Nat /\ s.parent < s.id
    BY <1>1, <1>2 DEF SpansIInv, SpansTyped
  <2>3. hooks' \in 0 .. MaxHooks
    BY <1>2
  <2> QED  BY <1>5, <1>6, <2>1, <2>2, <2>3 DEF SpansTyped
<1>8. OneSpan'
  <2>1. \A s \in spans : s.id # hooks'
    BY <1>2 DEF SpansIInv, SpansTyped
  <2>2. \A j \in Spans!Kinds : open[j] # Spans!NoSpan => open[j].id # hooks'
    BY <1>2 DEF SpansIInv, SpansTyped
  <2> QED
    BY <1>1, <1>4, <1>5, <2>1, <2>2 DEF SpansIInv, OneSpan
<1>9. OwnCall' /\ Closed'
  BY <1>1, <1>4, <1>5, <1>6 DEF SpansIInv, OwnCall, Closed
<1>10. Parented'
  <2> SUFFICES ASSUME lost \cap {"agent", "cleared"} = {}
               PROVE  /\ open'["agent"] # Spans!NoSpan => call'["s"]["agent"] # 0
                      /\ \A s \in spans : HasAgent(s.parent, open'["agent"].id, spans')
                      /\ \A j \in Spans!Kinds : HasAgent(open'[j].parent, open'["agent"].id, spans')
    BY <1>1 DEF Parented
  <2>1. /\ open["agent"] # Spans!NoSpan => call["s"]["agent"] # 0
        /\ \A s \in spans : HasAgent(s.parent, open["agent"].id, spans) /\ \A j \in Spans!Kinds : HasAgent(open[j].parent, open["agent"].id, spans)
        /\ \A j \in Spans!Kinds : HasAgent(open[j].parent, open["agent"].id, spans)
    BY DEF SpansIInv, Parented
  <2>2. CASE k = "agent"
    <3>1. open["agent"] = Spans!NoSpan
      BY <1>1, <2>1, <2>2
    <3>2. \A p : HasAgent(p, open["agent"].id, spans) => HasAgent(p, open'["agent"].id, spans')
      BY <1>1, <3>1, NoSpanIs DEF HasAgent
    <3>3. HasAgent(0, open'["agent"].id, spans')
      BY DEF HasAgent
    <3>4. call'["s"]["agent"] # 0
      BY <1>2, <1>6, <2>2
    <3>5. open'["agent"].parent = 0
      BY <1>3, <1>4, <1>5, <2>2
    <3> QED
      BY <1>5, <2>1, <2>2, <3>2, <3>3, <3>4, <3>5
  <2>3. CASE k # "agent"
    <3>1. open'["agent"] = open["agent"] /\ call'["s"]["agent"] = call["s"]["agent"]
      BY <1>5, <1>6, <2>3, NoSpanIs
    <3>2. \A p : HasAgent(p, open["agent"].id, spans) => HasAgent(p, open'["agent"].id, spans')
      BY <1>1, <3>1 DEF HasAgent
    <3>3. HasAgent(o.parent, open'["agent"].id, spans')
      BY <1>3, <1>4, <3>1 DEF HasAgent
    <3> QED
      BY <1>5, <2>1, <3>1, <3>2, <3>3
  <2> QED  BY <2>2, <2>3
<1> QED
  BY <1>7, <1>8, <1>9, <1>10 DEF SpansIInv

\* The Complete hook: what was open of the call becomes its span.
LEMMA CompleteKeeps ==
    ASSUME SpansIInv, NEW k \in Spans!Kinds, Spans!Complete("s", k)
    PROVE  SpansIInv'
<1>1. /\ Spans!Emit /\ call["s"][k] # 0
      /\ open' = [open EXCEPT ![k] = Spans!NoSpan] /\ UNCHANGED lost
      /\ call' = [call EXCEPT !["s"][k] = 0]
  BY DEF Spans!Complete, Spans!Innermost
<1> DEFINE o == IF open[k] # Spans!NoSpan THEN open[k]
                ELSE [id |-> hooks', kind |-> k, began |-> hooks', parent |-> Spans!CurrentParent(k)]
<1>2. /\ hooks \in Nat /\ hooks' = hooks + 1 /\ hooks' \in 1 .. MaxHooks /\ hooks' \in 1 .. hooks'
      /\ 0 .. hooks \subseteq 0 .. hooks' /\ 1 .. hooks \subseteq 1 .. hooks' /\ hooks' \notin 0 .. hooks
  BY <1>1, HookCounts DEF SpansIInv
<1> DEFINE z == [id |-> o.id, kind |-> o.kind, began |-> o.began, ended |-> call["s"][k],
                 parent |-> o.parent, filtered |-> Spans!Surviving[o.parent], tokens |-> IF k = "agent" THEN usage ELSE 0]
<1>3. spans' = spans \cup {z}
  BY DEF Spans!Complete, Spans!Close
<1>4. /\ spans' = spans \cup {z}
      /\ z.id = o.id /\ z.kind = o.kind /\ z.began = o.began /\ z.ended = call["s"][k] /\ z.parent = o.parent
  BY <1>3
<1> HIDE DEF z
<1>5. Spans!CurrentParent(k) \in 0 .. hooks /\ Spans!CurrentParent(k) \in {0, open["agent"].id}
  BY <1>2, NoSpanIs DEF SpansIInv, SpansTyped, Spans!CurrentParent
<1>6. o.id \in 1 .. hooks' /\ o.kind = k /\ o.parent \in Nat /\ o.parent < o.id /\ o.parent \in 0 .. hooks'
  <2>1. CASE open[k] # Spans!NoSpan
    BY <1>2, <2>1 DEF SpansIInv, SpansTyped, OpenSpans
  <2>2. CASE open[k] = Spans!NoSpan
    BY <1>2, <1>5, <2>2
  <2> QED  BY <2>1, <2>2
<1>7. /\ \A s \in spans : s.id # o.id
      /\ \A j \in Spans!Kinds \ {k} : open[j] # Spans!NoSpan => open[j].id # o.id
  <2>1. CASE open[k] # Spans!NoSpan
    BY <2>1 DEF SpansIInv, OneSpan
  <2>2. CASE open[k] = Spans!NoSpan
    BY <1>2, <2>2 DEF SpansIInv, SpansTyped
  <2> QED  BY <2>1, <2>2
<1>8. o.began = call["s"][k] \/ "cleared" \in lost
  BY <1>1 DEF SpansIInv, OwnCall
<1>9. "cleared" \notin lost => o = open[k] /\ open[k] # Spans!NoSpan
  BY <1>1 DEF SpansIInv, OwnCall
<1> HIDE DEF o
<1>10. open' \in [Spans!Kinds -> OpenSpans] /\ open'[k] = Spans!NoSpan /\ \A j \in Spans!Kinds \ {k} : open'[j] = open[j]
  BY <1>1, NoSpanIs DEF SpansIInv, SpansTyped
<1>11. /\ call' \in [{"s"} -> [Spans!Kinds -> 0 .. hooks']] /\ call'["s"][k] = 0
       /\ \A j \in Spans!Kinds \ {k} : call'["s"][j] = call["s"][j]
  BY <1>1, <1>2 DEF SpansIInv, SpansTyped
<1>12. SpansTyped'
  <2>1. \A j \in Spans!Kinds :
          open'[j] = Spans!NoSpan \/ (open'[j].id \in 1 .. hooks' /\ open'[j].kind = j /\ open'[j].parent < open'[j].id)
    BY <1>2, <1>10 DEF SpansIInv, SpansTyped
  <2>2. \A s \in spans' : s.id \in 1 .. hooks' /\ s.parent \in Nat /\ s.parent < s.id
    BY <1>2, <1>4, <1>6 DEF SpansIInv, SpansTyped
  <2>3. hooks' \in 0 .. MaxHooks
    BY <1>2
  <2> QED  BY <1>10, <1>11, <2>1, <2>2, <2>3 DEF SpansTyped
<1>13. OneSpan'
  BY <1>4, <1>7, <1>10 DEF SpansIInv, OneSpan
<1>14. OwnCall' /\ Closed'
  BY <1>1, <1>4, <1>8, <1>10, <1>11 DEF SpansIInv, OwnCall, Closed
<1>15. Parented'
  <2> SUFFICES ASSUME lost \cap {"agent", "cleared"} = {}
               PROVE  /\ open'["agent"] # Spans!NoSpan => call'["s"]["agent"] # 0
                      /\ \A s \in spans' : HasAgent(s.parent, open'["agent"].id, spans')
                      /\ \A j \in Spans!Kinds : HasAgent(open'[j].parent, open'["agent"].id, spans')
    BY <1>1 DEF Parented
  <2>1. /\ open["agent"] # Spans!NoSpan => call["s"]["agent"] # 0
        /\ \A s \in spans : HasAgent(s.parent, open["agent"].id, spans)
        /\ \A j \in Spans!Kinds : HasAgent(open[j].parent, open["agent"].id, spans)
    BY DEF SpansIInv, Parented
  <2>2. o = open[k] /\ open[k] # Spans!NoSpan /\ "agent" \in Spans!Kinds
    BY <1>9, NoSpanIs
  <2>3. \A p : HasAgent(p, open["agent"].id, spans) => HasAgent(p, open'["agent"].id, spans')
    <3>1. CASE k = "agent"
      BY <1>4, <1>6, <2>2, <3>1 DEF HasAgent
    <3>2. CASE k # "agent"
      BY <1>4, <1>10, <2>2, <3>2 DEF HasAgent
    <3> QED  BY <3>1, <3>2
  <2>4. HasAgent(0, open'["agent"].id, spans')
    BY DEF HasAgent
  <2>5. \A s \in spans' : HasAgent(s.parent, open'["agent"].id, spans')
    BY <1>4, <2>1, <2>2, <2>3
  <2>6. \A j \in Spans!Kinds : HasAgent(open'[j].parent, open'["agent"].id, spans')
    BY <1>10, <2>1, <2>3, <2>4, NoSpanIs
  <2>7. open'["agent"] # Spans!NoSpan => call'["s"]["agent"] # 0
    BY <1>10, <1>11, <2>1, <2>2
  <2> QED  BY <2>5, <2>6, <2>7
<1> QED
  BY <1>12, <1>13, <1>14, <1>15 DEF SpansIInv

\* onCompletion: a span of one moment.
LEMMA CompletionKeeps ==
    ASSUME SpansIInv, Spans!Completion("s")
    PROVE  SpansIInv'
<1> DEFINE o == [id |-> hooks', kind |-> "llm", began |-> hooks', parent |-> Spans!CurrentParent("llm")]
<1> DEFINE z == [id |-> o.id, kind |-> o.kind, began |-> o.began, ended |-> hooks',
                 parent |-> o.parent, filtered |-> Spans!Surviving[o.parent], tokens |-> 0]
<1>1. Spans!Emit /\ spans' = spans \cup {z} /\ UNCHANGED <<open, call, lost>>
  BY DEF Spans!Completion, Spans!Close
<1>2. /\ hooks \in Nat /\ hooks' = hooks + 1 /\ hooks' \in 1 .. MaxHooks /\ hooks' \in 1 .. hooks'
      /\ 0 .. hooks \subseteq 0 .. hooks' /\ 1 .. hooks \subseteq 1 .. hooks' /\ hooks' \notin 0 .. hooks
  BY <1>1, HookCounts DEF SpansIInv
<1>3. spans' = spans \cup {z} /\ z.id = hooks' /\ z.kind = "llm" /\ z.parent = open["agent"].id
  BY <1>1 DEF Spans!CurrentParent
<1> HIDE DEF z
<1>4. open["agent"].id \in 0 .. hooks
  BY <1>2, NoSpanIs DEF SpansIInv, SpansTyped
<1>5. SpansTyped'
  <2>1. call' \in [{"s"} -> [Spans!Kinds -> 0 .. hooks']]
    BY <1>1, <1>2 DEF SpansIInv, SpansTyped
  <2>2. z.id \in 1 .. hooks' /\ z.parent \in Nat /\ z.parent < z.id /\ hooks' \in 0 .. MaxHooks
    BY <1>2, <1>3, <1>4
  <2> QED  BY <1>1, <1>2, <1>3, <2>1, <2>2 DEF SpansIInv, SpansTyped
<1>6. OneSpan'
  <2>1. \A s \in spans : s.id # hooks'
    BY <1>2 DEF SpansIInv, SpansTyped
  <2>2. \A j \in Spans!Kinds : open[j] # Spans!NoSpan => open[j].id # hooks'
    BY <1>2 DEF SpansIInv, SpansTyped
  <2> QED
    BY <1>1, <1>3, <2>1, <2>2 DEF SpansIInv, OneSpan
<1>7. OwnCall' /\ Closed'
  BY <1>1, <1>3 DEF SpansIInv, OwnCall, Closed
<1>8. Parented'
  BY <1>1, <1>3 DEF SpansIInv, Parented, HasAgent
<1> QED
  BY <1>5, <1>6, <1>7, <1>8 DEF SpansIInv

\* Every hook keeps the invariant.
LEMMA SpansKeep == SpansIInv /\ [Spans!Next]_Spans!telemetryVars => SpansIInv'
<1> SUFFICES ASSUME SpansIInv, [Spans!Next]_Spans!telemetryVars PROVE SpansIInv'
  OBVIOUS
<1>1. CASE Spans!Clear
  <2>1. Spans!Emit /\ open' = [k \in Spans!Kinds |-> Spans!NoSpan] /\ spans' = {} /\ lost' = lost \cup {"cleared"} /\ call' = call
    BY <1>1 DEF Spans!Clear
  <2>2. \A k \in Spans!Kinds : open'[k] = Spans!NoSpan
    BY <2>1
  <2>3. call' \in [{"s"} -> [Spans!Kinds -> 0 .. hooks']] /\ hooks' \in 0 .. MaxHooks
    BY <2>1, HookCounts DEF SpansIInv, SpansTyped
  <2>4. SpansTyped'
    BY <2>1, <2>2, <2>3, NoSpanIs DEF SpansTyped
  <2> QED
    BY <2>1, <2>2, <2>4 DEF SpansIInv, OneSpan, OwnCall, Closed, Parented
<1>2. ASSUME NEW k \in Spans!Kinds, Spans!Fail("s", k) PROVE SpansIInv'
  <2>1. Spans!Emit /\ lost' = lost \cup {k} /\ call' = [call EXCEPT !["s"][k] = 0] /\ UNCHANGED <<open, spans>>
    BY <1>2 DEF Spans!Fail
  <2>2. /\ call' \in [{"s"} -> [Spans!Kinds -> 0 .. hooks']] /\ call'["s"][k] = 0
        /\ \A j \in Spans!Kinds \ {k} : call'["s"][j] = call["s"][j]
    BY <2>1, HookCounts DEF SpansIInv, SpansTyped
  <2>3. SpansTyped'
    BY <2>1, <2>2, HookCounts DEF SpansIInv, SpansTyped
  <2>4. OneSpan' /\ OwnCall' /\ Closed'
    BY <2>1, <2>2 DEF SpansIInv, OneSpan, OwnCall, Closed
  <2>5. Parented'
    BY <2>1, <2>2 DEF SpansIInv, Parented, HasAgent, Spans!Kinds
  <2> QED  BY <2>3, <2>4, <2>5 DEF SpansIInv
<1>3. CASE UNCHANGED Spans!telemetryVars
  BY <1>3 DEF SpansIInv, SpansTyped, OneSpan, OwnCall, Closed, Parented, HasAgent, Spans!telemetryVars
<1> QED
  BY <1>1, <1>2, <1>3, StartKeeps, CompleteKeeps, CompletionKeeps DEF Spans!Next

\* What the invariant says of spans.
LEMMA SpansSay == SpansIInv => Spans!SpansTrue
BY DEF SpansIInv, SpansTyped, OneSpan, Closed, Parented, HasAgent, Spans!SpansTrue

\* The row of a span, and what survives of it: itself, or what survives of its parent.
RowOf(id) == CHOOSE r \in lineage : r[1] = id
Survivor(f, id) ==
    IF \E row \in lineage : row[1] = id
    THEN IF RowOf(id)[2] \in {"agent", "llm"} THEN id ELSE f[RowOf(id)[3]]
    ELSE 0
\* A span was opened after its parent.
LineageTyped == \A row \in lineage : row[1] \in Nat \ {0} /\ row[3] \in Nat /\ row[3] < row[1]

\* What a row of a span says.
LEMMA RowIs ==
    ASSUME LineageTyped, NEW id, \E row \in lineage : row[1] = id
    PROVE  id \in Nat \ {0} /\ RowOf(id)[3] \in 0 .. id - 1
<1>1. RowOf(id) \in lineage /\ RowOf(id)[1] = id
  BY DEF RowOf
<1> HIDE DEF RowOf
<1>2. id \in Nat \ {0} /\ RowOf(id)[3] \in Nat /\ RowOf(id)[3] < id
  BY <1>1 DEF LineageTyped
<1> QED  BY <1>2

\* What survives of a span is told by those before it.
LEMMA SurvivorOfEarlier ==
    ASSUME LineageTyped, NEW n \in Nat, NEW f, NEW g, \A i \in 0 .. n - 1 : f[i] = g[i]
    PROVE  Survivor(f, n) = Survivor(g, n)
<1>1. CASE \E row \in lineage : row[1] = n
  <2>1. RowOf(n)[3] \in 0 .. n - 1
    BY <1>1, RowIs
  <2>2. f[RowOf(n)[3]] = g[RowOf(n)[3]]
    BY <2>1
  <2> QED  BY <2>2 DEF Survivor
<1>2. CASE ~ \E row \in lineage : row[1] = n
  BY <1>2 DEF Survivor
<1> QED  BY <1>1, <1>2

Survivors(f, n) == \A i \in 0 .. n : f[i] = Survivor(f, i)

\* There is such a function, as far as one likes.
LEMMA SurvivorsExist ==
    ASSUME LineageTyped, NEW n \in Nat
    PROVE  \E f : Survivors(f, n)
<1> DEFINE Without_ == {m \in Nat : ~ \E f : Survivors(f, m)}
<1>1. SUFFICES ASSUME Without_ # {} PROVE FALSE
  OBVIOUS
<1>2. PICK m \in Without_ : \A k \in Without_ : m <= k
  <2> HIDE DEF Without_
  <2>1. Without_ \in SUBSET Nat
    BY DEF Without_
  <2> QED  BY <1>1, <2>1, Least
<1>3. m \in Nat /\ ~ \E f : Survivors(f, m)
  OBVIOUS
<1>4. \E g : Survivors(g, m - 1)
  <2>1. CASE m = 0
    <3>1. 0 .. m - 1 = {}
      BY <2>1
    <3> QED  BY <3>1 DEF Survivors
  <2>2. CASE m # 0
    <3>1. m - 1 \in Nat /\ ~ (m <= m - 1)
      BY <1>3, <2>2
    <3>2. m - 1 \notin Without_
      BY <1>2, <3>1
    <3> QED  BY <3>1, <3>2
  <2> QED  BY <2>1, <2>2
<1> HIDE DEF Without_
<1>5. PICK g : Survivors(g, m - 1)
  BY <1>4
<1> DEFINE f == [i \in 0 .. m |-> IF i = m THEN Survivor(g, m) ELSE g[i]]
<1>6. \A i \in 0 .. m - 1 : f[i] = g[i]
  BY <1>3
<1>7. f[m] = Survivor(g, m)
  BY <1>3
<1> HIDE DEF f
<1>8. ASSUME NEW i \in 0 .. m PROVE f[i] = Survivor(f, i)
  <2>1. i \in Nat /\ \A k \in 0 .. i - 1 : f[k] = g[k]
    BY <1>3, <1>6
  <2>2. Survivor(f, i) = Survivor(g, i)
    BY <2>1, SurvivorOfEarlier
  <2>3. CASE i = m
    BY <1>7, <2>2, <2>3
  <2>4. CASE i # m
    <3>1. i \in 0 .. m - 1
      BY <1>3, <2>4
    <3> QED  BY <1>5, <1>6, <2>2, <3>1 DEF Survivors
  <2> QED  BY <2>3, <2>4
<1> QED  BY <1>3, <1>8 DEF Survivors

\* _surviving_parent ends, at the span itself or at an earlier one (_surviving_parent).
LEMMA SurvivingIs ==
    ASSUME LineageTyped, NEW id \in 0 .. MaxHooks
    PROVE  Spans!Surviving[id] \in 0 .. id
<1> DEFINE h == Spans!Surviving
           Made(f) == [i \in 0 .. MaxHooks |-> Survivor(f, i)]
<1>0. MaxHooks \in Nat
  BY AroundAssumption
<1>1. \E f : f = Made(f)
  <2>1. PICK g : Survivors(g, MaxHooks)
    BY <1>0, SurvivorsExist
  <2> DEFINE f == [i \in 0 .. MaxHooks |-> g[i]]
  <2>2. \A i \in 0 .. MaxHooks : Survivor(f, i) = Survivor(g, i)
    <3> TAKE i \in 0 .. MaxHooks
    <3>1. i \in Nat /\ \A k \in 0 .. i - 1 : f[k] = g[k]
      BY <1>0
    <3> HIDE DEF f
    <3> QED  BY <3>1, SurvivorOfEarlier
  <2>3. f = Made(f)
    BY <2>1, <2>2 DEF Survivors
  <2> QED  BY <2>3
<1>2. h = CHOOSE f : f = Made(f)
  BY DEF Spans!Surviving, Survivor, RowOf
<1>3. h = Made(h)
  <2> HIDE DEF Made
  <2> QED  BY <1>1, <1>2
<1>4. \A i \in 0 .. MaxHooks : h[i] = Survivor(h, i)
  <2> HIDE DEF h
  <2> QED  BY <1>3
<1> HIDE DEF h, Made
<1> DEFINE Bad == {i \in 0 .. MaxHooks : h[i] \notin 0 .. i}
<1>5. SUFFICES ASSUME Bad # {} PROVE FALSE
  BY <1>0 DEF h
<1>6. PICK m \in Bad : \A k \in Bad : m <= k
  <2>1. Bad \in SUBSET Nat
    BY <1>0
  <2> HIDE DEF Bad
  <2> QED  BY <1>5, <2>1, Least
<1>7. m \in 0 .. MaxHooks /\ h[m] \notin 0 .. m /\ m \in Nat
  BY <1>0
<1>8. \A k \in 0 .. m - 1 : h[k] \in 0 .. k
  BY <1>0, <1>6, <1>7
<1> HIDE DEF Bad
<1>9. CASE \E row \in lineage : row[1] = m
  <2>1. RowOf(m)[3] \in 0 .. m - 1
    BY <1>9, RowIs
  <2>2. h[RowOf(m)[3]] \in 0 .. m
    BY <1>7, <1>8, <2>1
  <2>3. h[m] = m \/ h[m] = h[RowOf(m)[3]]
    BY <1>4, <1>7, <1>9 DEF Survivor
  <2> QED  BY <1>7, <2>2, <2>3
<1>10. CASE ~ \E row \in lineage : row[1] = m
  BY <1>4, <1>7, <1>10 DEF Survivor
<1> QED  BY <1>9, <1>10

\* What is counted is counted at most once for a hook, and a filtered parent is of a span that was.
SpansRanged ==
    /\ usage \in 0 .. hooks /\ inFlight \in 0 .. hooks
    /\ LineageTyped
    /\ \A s \in spans : s.filtered \in 0 .. hooks

\* A span that closes.
LEMMA CloseRanged ==
    ASSUME SpansIInv, SpansRanged, Spans!Emit,
           NEW span, span.id \in Nat, span.parent \in Nat, span.parent < span.id, span.id <= hooks',
           NEW c, NEW reported, Spans!Close(span, c, reported)
    PROVE  LineageTyped' /\ \A s \in spans' : s.filtered \in 0 .. hooks'
<1>1. hooks \in Nat /\ hooks' = hooks + 1 /\ hooks' <= MaxHooks /\ MaxHooks \in Nat
  <2>1. MaxHooks \in Nat
    BY AroundAssumption
  <2>2. hooks \in 0 .. MaxHooks /\ hooks < MaxHooks /\ hooks' = hooks + 1
    BY DEF SpansIInv, SpansTyped, Spans!Emit
  <2> QED  BY <2>1, <2>2
<1>2. span.parent \in 0 .. MaxHooks
  BY <1>1
<1>3. Spans!Surviving[span.parent] \in 0 .. span.parent
  BY <1>2, SurvivingIs DEF SpansRanged
<1>4. Spans!Surviving[span.parent] \in 0 .. hooks'
  BY <1>1, <1>3
<1>5. \A s \in spans : s.filtered \in 0 .. hooks'
  BY <1>1 DEF SpansRanged
<1>6. \A s \in spans' : s \in spans \/ s.filtered = Spans!Surviving[span.parent]
  BY DEF Spans!Close
<1>7. \A row \in lineage' : row \in lineage \/ row = <<span.id, span.kind, span.parent>>
  BY DEF Spans!Close
<1>8. LineageTyped'
  <2> SUFFICES ASSUME NEW row \in lineage' PROVE row[1] \in Nat \ {0} /\ row[3] \in Nat /\ row[3] < row[1]
    BY DEF LineageTyped
  <2>1. CASE row \in lineage
    BY <2>1 DEF SpansRanged, LineageTyped
  <2>2. CASE row = <<span.id, span.kind, span.parent>>
    <3>1. row[1] = span.id /\ row[3] = span.parent
      BY <2>2
    <3> QED  BY <3>1
  <2> QED  BY <1>7, <2>1, <2>2
<1> QED  BY <1>4, <1>5, <1>6, <1>8

\* Every hook keeps the ranges.
LEMMA SpansRangedKeeps == SpansIInv /\ SpansRanged /\ [Spans!Next]_Spans!telemetryVars => SpansRanged'
<1> SUFFICES ASSUME SpansIInv, SpansRanged, [Spans!Next]_Spans!telemetryVars PROVE SpansRanged'
  OBVIOUS
<1>0. /\ hooks \in Nat /\ usage \in 0 .. hooks /\ inFlight \in 0 .. hooks
      /\ \A k \in Spans!Kinds : open[k] = Spans!NoSpan
                             \/ (open[k] \in OpenSpans /\ open[k].id \in 1 .. hooks /\ open[k].parent < open[k].id)
      /\ open["agent"].id \in 0 .. hooks
  <2>1. \A k \in Spans!Kinds : open[k] \in OpenSpans /\ (open[k] = Spans!NoSpan \/ open[k].id \in 1 .. hooks)
    BY DEF SpansIInv, SpansTyped
  <2>2. open["agent"].id \in 0 .. hooks
    <3>1. "agent" \in Spans!Kinds /\ Spans!NoSpan.id = 0 /\ hooks \in Nat
      BY NoSpanIs DEF SpansIInv, SpansTyped
    <3>2. open["agent"] = Spans!NoSpan \/ open["agent"].id \in 1 .. hooks
      BY <2>1, <3>1
    <3> QED  BY <3>1, <3>2
  <2> QED  BY <2>1, <2>2 DEF SpansIInv, SpansTyped, SpansRanged
<1>1. ASSUME Spans!Emit PROVE hooks' = hooks + 1 /\ \A s \in spans : s.filtered \in 0 .. hooks'
  BY <1>0, <1>1 DEF Spans!Emit, SpansRanged
<1>2. CASE UNCHANGED Spans!telemetryVars
  BY <1>2 DEF Spans!telemetryVars, SpansRanged, LineageTyped
<1>3. CASE Spans!Clear
  <2>1. hooks' = hooks + 1 /\ spans' = {} /\ lineage' = {} /\ usage' = usage /\ inFlight' = inFlight
    BY <1>1, <1>3 DEF Spans!Clear
  <2> QED  BY <1>0, <2>1 DEF SpansRanged, LineageTyped
<1>4. ASSUME NEW t \in {"s"}, NEW k \in Spans!Kinds, Spans!Start(t, k) PROVE SpansRanged'
  <2>1. /\ hooks' = hooks + 1 /\ UNCHANGED <<spans, lineage, usage>>
        /\ inFlight' = inFlight + 1 \/ inFlight' = inFlight
        /\ \A s \in spans : s.filtered \in 0 .. hooks'
    BY <1>1, <1>4 DEF Spans!Start
  <2>2. usage' \in 0 .. hooks' /\ inFlight' \in 0 .. hooks'
    BY <1>0, <2>1
  <2> QED  BY <2>1, <2>2 DEF SpansRanged, LineageTyped
<1>5. ASSUME NEW t \in {"s"}, NEW k \in Spans!Kinds, Spans!Fail(t, k) PROVE SpansRanged'
  <2>1. /\ hooks' = hooks + 1 /\ UNCHANGED <<spans, lineage, usage, inFlight>>
        /\ \A s \in spans : s.filtered \in 0 .. hooks'
    BY <1>1, <1>5 DEF Spans!Fail
  <2>2. usage' \in 0 .. hooks' /\ inFlight' \in 0 .. hooks'
    BY <1>0, <2>1
  <2> QED  BY <2>1, <2>2 DEF SpansRanged, LineageTyped
<1>6. ASSUME NEW t \in {"s"}, Spans!Completion(t) PROVE SpansRanged'
  <2> DEFINE span == [id |-> hooks', kind |-> "llm", began |-> hooks', parent |-> Spans!CurrentParent("llm")]
  <2>1. Spans!Emit /\ Spans!Close(span, hooks', 0) /\ usage' = usage + 1 /\ inFlight' = inFlight
    BY <1>6 DEF Spans!Completion
  <2>2. span.id = hooks + 1 /\ span.parent = open["agent"].id /\ hooks' = hooks + 1
    BY <1>1, <2>1 DEF Spans!CurrentParent
  <2>3. span.id \in Nat /\ span.parent \in Nat /\ span.parent < span.id /\ span.id <= hooks'
    BY <1>0, <2>2
  <2> HIDE DEF span
  <2>4. LineageTyped' /\ \A s \in spans' : s.filtered \in 0 .. hooks'
    BY <2>1, <2>3, CloseRanged
  <2>5. usage' \in 0 .. hooks' /\ inFlight' \in 0 .. hooks'
    BY <1>0, <2>1, <2>2
  <2> QED  BY <2>4, <2>5 DEF SpansRanged
<1>7. ASSUME NEW t \in {"s"}, NEW k \in Spans!Kinds, Spans!Complete(t, k) PROVE SpansRanged'
  <2> DEFINE span == IF open[k] # Spans!NoSpan THEN open[k]
                     ELSE [id |-> hooks', kind |-> k, began |-> hooks', parent |-> Spans!CurrentParent(k)]
             tokens == IF k = "agent" THEN usage ELSE 0
  <2>1. Spans!Emit /\ Spans!Close(span, call[t][k], tokens)
    BY <1>7 DEF Spans!Complete
  <2>2. /\ usage' = 0 \/ usage' = usage
        /\ inFlight' = inFlight \/ (inFlight > 0 /\ inFlight' = inFlight - 1)
    BY <1>7 DEF Spans!Complete
  <2>3. hooks' = hooks + 1
    BY <1>1, <2>1
  <2>4. span.id \in Nat /\ span.parent \in Nat /\ span.parent < span.id /\ span.id <= hooks'
    <3>1. CASE open[k] # Spans!NoSpan
      <4>1. span = open[k] /\ open[k] \in OpenSpans /\ open[k].id \in 1 .. hooks /\ open[k].parent < open[k].id
        BY <1>0, <3>1
      <4>2. open[k].parent \in Nat
        BY <4>1 DEF OpenSpans
      <4> HIDE DEF span
      <4> QED  BY <1>0, <2>3, <4>1, <4>2
    <3>2. CASE open[k] = Spans!NoSpan
      <4>1. Spans!CurrentParent(k) \in 0 .. hooks
        BY <1>0 DEF Spans!CurrentParent
      <4>2. span.id = hooks' /\ span.parent = Spans!CurrentParent(k)
        BY <3>2
      <4> HIDE DEF span
      <4> QED  BY <1>0, <2>3, <4>1, <4>2
    <3> QED  BY <3>1, <3>2
  <2> HIDE DEF span, tokens
  <2>5. LineageTyped' /\ \A s \in spans' : s.filtered \in 0 .. hooks'
    BY <2>1, <2>4, CloseRanged
  <2>6. usage' \in 0 .. hooks' /\ inFlight' \in 0 .. hooks'
    BY <1>0, <2>2, <2>3
  <2> QED  BY <2>5, <2>6 DEF SpansRanged
<1> QED
  BY <1>2, <1>3, <1>4, <1>5, <1>6, <1>7 DEF Spans!Next

\* At first there is nothing to count.
LEMMA SpansRangedStart == Spans!Init => SpansRanged
BY DEF Spans!Init, SpansRanged, LineageTyped

\* What both say of the spans' state.
LEMMA SpansTypes == SpansIInv /\ SpansRanged => Spans!TypeOK
<1> SUFFICES ASSUME SpansIInv, SpansRanged PROVE Spans!TypeOK
  OBVIOUS
<1>1. hooks \in 0 .. MaxHooks /\ MaxHooks \in Nat
  BY BoundsAreNumbers DEF SpansIInv, SpansTyped
<1>2. \A s \in spans : s.id \in 1 .. hooks /\ s.parent \in 0 .. hooks /\ s.filtered \in 0 .. hooks
  BY <1>1 DEF SpansIInv, SpansTyped, SpansRanged
<1>3. 0 .. hooks \subseteq 0 .. MaxHooks
  BY <1>1
<1>4. usage \in 0 .. MaxHooks /\ inFlight \in 0 .. MaxHooks
  BY <1>3 DEF SpansRanged
<1>5. call \in [{"s"} -> [Spans!Kinds -> 0 .. MaxHooks]]
  <2>1. [Spans!Kinds -> 0 .. hooks] \subseteq [Spans!Kinds -> 0 .. MaxHooks]
    BY <1>3
  <2> QED  BY <2>1 DEF SpansIInv, SpansTyped
<1>6. \A k \in Spans!Kinds : open[k] = Spans!NoSpan \/ open[k].kind = k
  BY DEF SpansIInv, SpansTyped
<1> QED  BY <1>2, <1>4, <1>5, <1>6 DEF Spans!TypeOK

-----------------------------------------------------------------------------
(* AutoBatcher: results settle tickets by their ids alone, the collection is *)
(* given up only for a job that is known, and a job that is read where fetch *)
(* raises is one that has ended, whose results are all that it ever has.     *)

Outs == {"none", "ok", "error"}
JobRecords ==
    [ids : Seq(Items), out : UNION {[D -> Outs] : D \in SUBSET Items}, state : {"running", "ended"}]

BatchTyped ==
    /\ provider \in Providers /\ collecting \in Seq(Items) /\ waited \in {-1} \cup 0 .. Window
    /\ tickets \in [Items -> Items \cup {"free", "waiting", "failed"}]
    /\ jobs \in Seq(JobRecords) /\ job \in 0 .. Len(jobs) /\ order \in Seq(Items)
    /\ rows \cup known \cup read \subseteq 1 .. Len(jobs)
    /\ \A j \in 1 .. Len(jobs) : DOMAIN jobs[j].out = Batch!ToSet(jobs[j].ids)

Answered(i) == \E j \in 1 .. Len(jobs) : i \in DOMAIN jobs[j].out /\ jobs[j].out[i] = "ok"
Own == \A i \in Items : tickets[i] \in Items => tickets[i] = i /\ Answered(i)

BatchIInv == BatchTyped /\ Own

\* Where an item that waits may be.
OnItsWay(i) ==
    i \in Batch!ToSet(collecting) \/ \E j \in known : i \in Batch!ToSet(jobs[j].ids)
Kept ==
    /\ collecting = <<>> <=> waited = -1
    /\ \A i \in Items : tickets[i] = "waiting" /\ order = <<>> => OnItsWay(i)
    /\ order # <<>> \/ known \subseteq rows \cup read

Without(i, j) == i \in DOMAIN jobs[j].out => jobs[j].state = "ended" /\ jobs[j].out[i] = "none"
MissingRight == \A m \in missing : m.job \in 1 .. Len(jobs) /\ Without(m.id, m.job)

BatchWhole == Kept /\ MissingRight

\* A word for a ticket's state is no custom id.
LEMMA WordsAreNoIds ==
    /\ \A i \in Items : i # "free" /\ i # "waiting" /\ i # "failed" /\ i # "stray"
    /\ Batch!Shut = -1 /\ Window \in Nat
BY AroundAssumption DEF Batch!Shut

\* A sequence with one more has one more in it.
LEMMA ToSetAppend ==
    ASSUME NEW S, NEW q \in Seq(S), NEW x \in S
    PROVE  Batch!ToSet(Append(q, x)) = Batch!ToSet(q) \cup {x}
<1>1. /\ Append(q, x) \in Seq(S) /\ Len(Append(q, x)) = Len(q) + 1 /\ Append(q, x)[Len(q) + 1] = x
      /\ \A i \in 1 .. Len(q) : Append(q, x)[i] = q[i]
  BY AppendProperties
<1>2. Len(q) \in Nat /\ DOMAIN q = 1 .. Len(q) /\ DOMAIN Append(q, x) = 1 .. Len(q) + 1
  BY <1>1, LenProperties
<1>3. 1 .. Len(q) + 1 = (1 .. Len(q)) \cup {Len(q) + 1}
  BY <1>2
<1> QED
  BY <1>1, <1>2, <1>3 DEF Batch!ToSet

\* What is in a sequence is of its set.
LEMMA ToSetTyped ==
    ASSUME NEW S, NEW q \in Seq(S)
    PROVE  Batch!ToSet(q) \subseteq S /\ (q # <<>> => Batch!ToSet(q) # {})
<1>1. Len(q) \in Nat /\ q \in [1 .. Len(q) -> S] /\ DOMAIN q = 1 .. Len(q) /\ (q # <<>> => Len(q) # 0)
  BY LenProperties, EmptySeq
<1>2. \A i \in DOMAIN q : q[i] \in S
  BY <1>1
<1>3. q # <<>> => 1 \in DOMAIN q
  BY <1>1
<1> QED
  BY <1>2, <1>3 DEF Batch!ToSet

\* A new job works on the items it was sent with.
LEMMA NewJobTyped ==
    ASSUME NEW q \in Seq(Items)
    PROVE  /\ Batch!NewJob(q) \in JobRecords /\ Batch!NewJob(q).ids = q
           /\ DOMAIN Batch!NewJob(q).out = Batch!ToSet(q)
<1>1. Batch!ToSet(q) \in SUBSET Items
  BY ToSetTyped
<1>2. [i \in Batch!ToSet(q) |-> "none"] \in [Batch!ToSet(q) -> Outs]
  BY DEF Outs
<1>3. [i \in Batch!ToSet(q) |-> "none"] \in UNION {[D -> Outs] : D \in SUBSET Items}
  BY <1>1, <1>2
<1> QED
  BY <1>3 DEF Batch!NewJob, JobRecords

\* Jobs that are added leave those there were.
LEMMA JobsGrow ==
    ASSUME BatchTyped, NEW x \in JobRecords, DOMAIN x.out = Batch!ToSet(x.ids), jobs' = Append(jobs, x)
    PROVE  /\ jobs' \in Seq(JobRecords) /\ Len(jobs) \in Nat /\ Len(jobs') = Len(jobs) + 1 /\ jobs'[Len(jobs')] = x
           /\ Len(jobs') \in 1 .. Len(jobs') /\ 1 .. Len(jobs) \subseteq 1 .. Len(jobs')
           /\ \A j \in 1 .. Len(jobs) : jobs'[j] = jobs[j]
           /\ \A j \in 1 .. Len(jobs') : DOMAIN jobs'[j].out = Batch!ToSet(jobs'[j].ids)
<1>1. /\ jobs' \in Seq(JobRecords) /\ Len(jobs') = Len(jobs) + 1 /\ jobs'[Len(jobs) + 1] = x
      /\ \A j \in 1 .. Len(jobs) : jobs'[j] = jobs[j]
  BY AppendProperties DEF BatchTyped
<1>2. Len(jobs) \in Nat
  BY LenProperties DEF BatchTyped
<1>3. 1 .. Len(jobs') = (1 .. Len(jobs)) \cup {Len(jobs')}
  BY <1>1, <1>2
<1> QED
  BY <1>1, <1>2, <1>3 DEF BatchTyped

\* The batcher begins with nothing.
LEMMA BatchStarts == Batch!Init => BatchIInv /\ BatchWhole
<1> SUFFICES ASSUME Batch!Init PROVE BatchIInv /\ BatchWhole
  OBVIOUS
<1>1. \A i \in Items : tickets[i] = "free" /\ tickets[i] \notin Items
  BY WordsAreNoIds DEF Batch!Init
<1>2. <<>> \in Seq(Items) /\ <<>> \in Seq(JobRecords) /\ Len(<<>>) = 0
  BY EmptySeq
<1>3. BatchTyped
  BY <1>2, WordsAreNoIds DEF BatchTyped, Batch!Init
<1>4. Own
  BY <1>1 DEF Own
<1>5. BatchWhole
  BY <1>1, WordsAreNoIds DEF BatchWhole, Kept, MissingRight, Batch!Init
<1> QED
  BY <1>3, <1>4, <1>5 DEF BatchIInv

-----------------------------------------------------------------------------
\* What the end of a submit leaves, whatever became of it.
LEMMA SubmittedTyped ==
    ASSUME BatchTyped, NEW batch \in Seq(Items), NEW how \in Batch!Endings, Batch!Submitted(batch, how)
    PROVE  /\ collecting' \in Seq(Items) /\ waited' \in {-1} \cup 0 .. Window
           /\ jobs' \in Seq(JobRecords) /\ job' \in 0 .. Len(jobs')
           /\ 1 .. Len(jobs) \subseteq 1 .. Len(jobs') /\ \A j \in 1 .. Len(jobs) : jobs'[j] = jobs[j]
           /\ rows' \subseteq 1 .. Len(jobs') /\ known' \subseteq 1 .. Len(jobs')
           /\ \A j \in 1 .. Len(jobs') : DOMAIN jobs'[j].out = Batch!ToSet(jobs'[j].ids)
           /\ how = "told" => /\ collecting' = <<>> /\ waited' = -1 /\ Len(jobs') \in 1 .. Len(jobs')
                              /\ jobs'[Len(jobs')].ids = batch
                              /\ known' = known \cup {Len(jobs')} /\ rows' = rows \cup {Len(jobs')}
           /\ how # "told" => /\ collecting' = batch /\ waited' # -1 /\ known' = known /\ rows' = rows
<1> DEFINE sent == IF how = "unfilled" THEN <<>> ELSE batch
<1>1. sent \in Seq(Items)
  BY EmptySeq
<1>2. /\ Batch!NewJob(sent) \in JobRecords /\ Batch!NewJob(sent).ids = sent
      /\ DOMAIN Batch!NewJob(sent).out = Batch!ToSet(Batch!NewJob(sent).ids)
  BY <1>1, NewJobTyped
<1>3. Len(jobs) \in Nat /\ job \in 0 .. Len(jobs) /\ rows \subseteq 1 .. Len(jobs) /\ known \subseteq 1 .. Len(jobs)
  BY LenProperties DEF BatchTyped
<1>4. CASE how = "refused"
  BY <1>3, <1>4, EmptySeq, WordsAreNoIds DEF BatchTyped, Batch!Submitted
<1>5. CASE how # "refused"
  <2>1. jobs' = Append(jobs, Batch!NewJob(sent))
    BY <1>5 DEF Batch!Submitted
  <2> HIDE DEF sent
  <2>2. /\ jobs' \in Seq(JobRecords) /\ Len(jobs') = Len(jobs) + 1 /\ jobs'[Len(jobs')].ids = sent
        /\ Len(jobs') \in 1 .. Len(jobs') /\ 1 .. Len(jobs) \subseteq 1 .. Len(jobs')
        /\ \A j \in 1 .. Len(jobs) : jobs'[j] = jobs[j]
        /\ \A j \in 1 .. Len(jobs') : DOMAIN jobs'[j].out = Batch!ToSet(jobs'[j].ids)
    BY <1>2, <2>1, JobsGrow
  <2>3. CASE how = "told"
    <3>1. /\ collecting' = <<>> /\ waited' = -1 /\ job' = Len(jobs') /\ rows' = rows \cup {Len(jobs')}
          /\ known' = known \cup {Len(jobs')}
      BY <2>3, WordsAreNoIds DEF Batch!Submitted
    <3>2. sent = batch
      BY <2>3 DEF sent
    <3>3. rows' \subseteq 1 .. Len(jobs') /\ known' \subseteq 1 .. Len(jobs')
      BY <1>3, <2>2, <3>1
    <3>4. job' \in 0 .. Len(jobs') /\ <<>> \in Seq(Items)
      BY <2>2, <3>1, EmptySeq
    <3>5. jobs'[Len(jobs')].ids = batch
      BY <2>2, <3>2
    <3> QED
      BY <2>2, <2>3, <3>1, <3>3, <3>4, <3>5
  <2>4. CASE how # "told"
    <3>1. /\ collecting' = batch /\ waited' = (IF waited = -1 THEN 0 ELSE waited) /\ UNCHANGED <<job, rows, known>>
      BY <2>4, WordsAreNoIds DEF Batch!Submitted
    <3> QED
      BY <1>3, <2>2, <2>4, <3>1, WordsAreNoIds DEF BatchTyped
  <2> QED  BY <2>3, <2>4
<1> QED  BY <1>4, <1>5

\* Where jobs only grow and the tickets settled are those there were, each answer is still its own.
LEMMA OwnGrows ==
    ASSUME BatchIInv, \A i \in Items : tickets'[i] \in Items => tickets'[i] = tickets[i],
           1 .. Len(jobs) \subseteq 1 .. Len(jobs'), \A j \in 1 .. Len(jobs) : jobs'[j] = jobs[j]
    PROVE  Own'
<1> SUFFICES ASSUME NEW i \in Items, tickets'[i] \in Items
             PROVE  tickets'[i] = i /\ \E j \in 1 .. Len(jobs') : i \in DOMAIN jobs'[j].out /\ jobs'[j].out[i] = "ok"
  BY DEF Own, Answered
<1>1. tickets[i] = i /\ tickets'[i] = i
  BY DEF BatchIInv, Own
<1>2. PICK j \in 1 .. Len(jobs) : i \in DOMAIN jobs[j].out /\ jobs[j].out[i] = "ok"
  BY <1>1 DEF BatchIInv, Own, Answered
<1> QED  BY <1>1, <1>2

\* Where jobs only grow, what was said to be missing is.
LEMMA MissingGrows ==
    ASSUME MissingRight, missing' = missing,
           1 .. Len(jobs) \subseteq 1 .. Len(jobs'), \A j \in 1 .. Len(jobs) : jobs'[j] = jobs[j]
    PROVE  MissingRight'
BY DEF MissingRight, Without

\* A batch that is submitted has everything that was collected, and maybe one more.
LEMMA SubmittedKeeps ==
    ASSUME BatchIInv, BatchWhole, NEW batch \in Seq(Items), NEW how \in Batch!Endings,
           Batch!Submitted(batch, how), Batch!ToSet(collecting) \subseteq Batch!ToSet(batch), batch # <<>>,
           order = <<>>, UNCHANGED <<provider, order, read, missing>>,
           tickets' \in [Items -> Items \cup {"free", "waiting", "failed"}],
           \A i \in Items : tickets'[i] # tickets[i] => tickets'[i] = "waiting" /\ i \in Batch!ToSet(batch)
    PROVE  BatchIInv' /\ BatchWhole'
<1>1. /\ collecting' \in Seq(Items) /\ waited' \in {-1} \cup 0 .. Window
      /\ jobs' \in Seq(JobRecords) /\ job' \in 0 .. Len(jobs')
      /\ 1 .. Len(jobs) \subseteq 1 .. Len(jobs') /\ \A j \in 1 .. Len(jobs) : jobs'[j] = jobs[j]
      /\ rows' \subseteq 1 .. Len(jobs') /\ known' \subseteq 1 .. Len(jobs')
      /\ \A j \in 1 .. Len(jobs') : DOMAIN jobs'[j].out = Batch!ToSet(jobs'[j].ids)
      /\ how = "told" => /\ collecting' = <<>> /\ waited' = -1 /\ Len(jobs') \in 1 .. Len(jobs')
                         /\ jobs'[Len(jobs')].ids = batch
                         /\ known' = known \cup {Len(jobs')} /\ rows' = rows \cup {Len(jobs')}
      /\ how # "told" => /\ collecting' = batch /\ waited' # -1 /\ known' = known /\ rows' = rows
  BY SubmittedTyped DEF BatchIInv
<1>2. BatchTyped'
  BY <1>1 DEF BatchIInv, BatchTyped
<1>3. Own'
  BY <1>1, OwnGrows, WordsAreNoIds
<1>4. MissingRight'
  BY <1>1, MissingGrows DEF BatchWhole
<1>5. ASSUME NEW i \in Items, tickets'[i] = "waiting" PROVE OnItsWay(i)'
  <2>1. i \in Batch!ToSet(batch) \/ \E j \in known : i \in Batch!ToSet(jobs[j].ids)
    BY <1>5 DEF BatchWhole, Kept, OnItsWay
  <2>2. known \subseteq 1 .. Len(jobs)
    BY DEF BatchIInv, BatchTyped
  <2>3. \A j \in known : jobs'[j] = jobs[j] /\ j \in known'
    BY <1>1, <2>2
  <2> QED  BY <1>1, <2>1, <2>3 DEF OnItsWay
<1>6. Kept'
  <2>1. collecting' = <<>> <=> waited' = -1
    BY <1>1
  <2>2. known' \subseteq rows' \cup read'
    BY <1>1 DEF BatchWhole, Kept
  <2> QED  BY <1>5, <2>1, <2>2 DEF Kept
<1> QED
  BY <1>2, <1>3, <1>4, <1>6 DEF BatchIInv, BatchWhole

\* An item that is added waits.
LEMMA AddKeeps ==
    ASSUME BatchIInv, BatchWhole, NEW i \in Items, Batch!Add(i)
    PROVE  BatchIInv' /\ BatchWhole'
<1> DEFINE batch == Append(collecting, i)
<1>1. /\ order = <<>> /\ tickets[i] = "free" /\ tickets' = [tickets EXCEPT ![i] = "waiting"]
      /\ UNCHANGED <<provider, order, read, missing>>
  BY DEF Batch!Add, Batch!Free
<1>2. collecting \in Seq(Items) /\ waited \in {-1} \cup 0 .. Window /\ known \subseteq 1 .. Len(jobs)
  BY DEF BatchIInv, BatchTyped
<1>3. batch \in Seq(Items) /\ batch # <<>> /\ Batch!ToSet(batch) = Batch!ToSet(collecting) \cup {i}
  BY <1>2, AppendProperties, ToSetAppend
<1>4. /\ tickets' \in [Items -> Items \cup {"free", "waiting", "failed"}]
      /\ \A k \in Items : tickets'[k] # tickets[k] => tickets'[k] = "waiting" /\ k = i
  BY <1>1 DEF BatchIInv, BatchTyped
<1>5. CASE Len(batch) >= MaxBatch
  <2>1. PICK how \in Batch!Endings : Batch!Submitted(batch, how)
    BY <1>5 DEF Batch!Add
  <2> HIDE DEF batch
  <2> QED
    BY <1>1, <1>3, <1>4, <2>1, SubmittedKeeps
<1>6. CASE ~ (Len(batch) >= MaxBatch)
  <2>1. collecting' = batch /\ waited' = (IF waited = -1 THEN 0 ELSE waited) /\ UNCHANGED <<job, rows, jobs, known>>
    BY <1>6, WordsAreNoIds DEF Batch!Add
  <2> HIDE DEF batch
  <2>2. waited' # -1 /\ waited' \in {-1} \cup 0 .. Window
    BY <1>2, <2>1, WordsAreNoIds
  <2>3. BatchTyped'
    BY <1>1, <1>3, <1>4, <2>1, <2>2 DEF BatchIInv, BatchTyped
  <2>4. Own'
    BY <1>4, <2>1, OwnGrows, WordsAreNoIds
  <2>5. MissingRight'
    BY <1>1, <2>1, MissingGrows DEF BatchWhole
  <2>6. ASSUME NEW k \in Items, tickets'[k] = "waiting" PROVE OnItsWay(k)'
    <3>1. k \in Batch!ToSet(batch) \/ \E j \in known : k \in Batch!ToSet(jobs[j].ids)
      BY <1>1, <1>3, <1>4, <2>6 DEF BatchWhole, Kept, OnItsWay
    <3> QED  BY <2>1, <3>1 DEF OnItsWay
  <2>7. Kept'
    BY <1>1, <1>3, <2>1, <2>2, <2>6 DEF BatchWhole, Kept
  <2> QED  BY <2>3, <2>4, <2>5, <2>7 DEF BatchIInv, BatchWhole
<1> QED  BY <1>5, <1>6

\* tick and submit send what was collected.
LEMMA SubmitKeeps ==
    ASSUME BatchIInv, BatchWhole, Batch!Tick \/ Batch!Submit
    PROVE  BatchIInv' /\ BatchWhole'
<1>1. PICK how \in Batch!Endings : Batch!Submitted(collecting, how)
  BY DEF Batch!Tick, Batch!Submit
<1>2. order = <<>> /\ UNCHANGED <<provider, tickets, order, read, missing>>
  BY DEF Batch!Tick, Batch!Submit
<1>3. collecting # <<>>
  BY WordsAreNoIds DEF Batch!Tick, Batch!Submit, BatchWhole, Kept
<1>4. collecting \in Seq(Items) /\ tickets' \in [Items -> Items \cup {"free", "waiting", "failed"}]
  BY <1>2 DEF BatchIInv, BatchTyped
<1> QED
  BY <1>1, <1>2, <1>3, <1>4, SubmittedKeeps

\* submit_batch on a batcher that was not used.
LEMMA SubmitBatchKeeps ==
    ASSUME BatchIInv, BatchWhole, NEW list \in Lists, Batch!SubmitBatch(list)
    PROVE  BatchIInv' /\ BatchWhole'
<1> DEFINE full == Len(list) \div MaxBatch
           chunk(k) == SubSeq(list, (k - 1) * MaxBatch + 1, k * MaxBatch)
           rest == SubSeq(list, full * MaxBatch + 1, Len(list))
           sent == [k \in 1 .. full |-> Batch!NewJob(chunk(k))]
<1>0. list \in Seq(Items) /\ MaxBatch \in Nat /\ MaxBatch > 0
  BY AroundAssumption
<1>1. /\ ~ Batch!Used /\ list # <<>>
      /\ jobs' = sent \o <<Batch!NewJob(rest)>>
      /\ job' = Len(jobs') /\ known' = {job'} /\ order' = list
      /\ tickets' = [i \in Items |-> IF i \in Batch!ToSet(list) THEN "waiting" ELSE "free"]
      /\ UNCHANGED <<provider, collecting, waited, rows, read, missing>>
  BY DEF Batch!SubmitBatch
<1>2. jobs = <<>> /\ Len(jobs) = 0
  BY <1>1 DEF Batch!Used
<1>3. Len(list) \in Nat /\ full \in Nat /\ full * MaxBatch <= Len(list) /\ full * MaxBatch \in Nat
  <2>1. Len(list) \in Nat
    BY <1>0, LenProperties
  <2> QED  BY <1>0, <2>1
<1> HIDE DEF full
<1>4. \A k \in 1 .. full : k * MaxBatch \in Nat /\ (k - 1) * MaxBatch + 1 \in Nat \ {0} /\ k * MaxBatch <= Len(list)
  <2> SUFFICES ASSUME NEW k \in 1 .. full
               PROVE  k * MaxBatch \in Nat /\ (k - 1) * MaxBatch + 1 \in Nat \ {0} /\ k * MaxBatch <= Len(list)
    OBVIOUS
  <2>1. full - k \in Nat /\ k \in Nat /\ k - 1 \in Nat
    BY <1>3
  <2>2. full * MaxBatch = k * MaxBatch + (full - k) * MaxBatch
    BY <1>0, <1>3, <2>1
  <2>3. (full - k) * MaxBatch \in Nat /\ (k - 1) * MaxBatch \in Nat /\ k * MaxBatch \in Nat
    BY <1>0, <2>1
  <2> QED  BY <1>3, <2>2, <2>3
<1>5. \A k \in 1 .. full : chunk(k) \in Seq(Items)
  <2> SUFFICES ASSUME NEW k \in 1 .. full PROVE chunk(k) \in Seq(Items)
    OBVIOUS
  <2> DEFINE a == (k - 1) * MaxBatch + 1
             b == k * MaxBatch
  <2>1. a \in Nat \ {0} /\ b \in Nat /\ b <= Len(list)
    BY <1>4
  <2> HIDE DEF a, b
  <2>2. \A i \in a .. b : list[i] \in Items
    BY <1>0, <1>3, <2>1, ElementOfSeq
  <2>3. SubSeq(list, a, b) \in Seq(Items)
    BY <2>1, <2>2, SubSeqProperties
  <2> QED  BY <2>3 DEF a, b
<1>6. rest \in Seq(Items)
  <2> DEFINE a == full * MaxBatch + 1
  <2>1. a \in Nat \ {0}
    BY <1>3
  <2> HIDE DEF a
  <2>2. \A i \in a .. Len(list) : list[i] \in Items
    BY <1>0, <1>3, <2>1, ElementOfSeq
  <2>3. SubSeq(list, a, Len(list)) \in Seq(Items)
    BY <1>3, <2>1, <2>2, SubSeqProperties
  <2> QED  BY <2>3 DEF a
<1> DEFINE Good == {x \in JobRecords : DOMAIN x.out = Batch!ToSet(x.ids)}
<1> HIDE DEF chunk, rest
<1>7. /\ \A k \in 1 .. full : Batch!NewJob(chunk(k)) \in Good
      /\ Batch!NewJob(rest) \in Good
  BY <1>5, <1>6, NewJobTyped
<1>8. sent \in Seq(Good) /\ <<Batch!NewJob(rest)>> \in Seq(Good)
  BY <1>3, <1>7
<1> HIDE DEF sent
<1>9. jobs' \in Seq(Good) /\ Len(jobs') \in Nat
  BY <1>1, <1>8, ConcatProperties, LenProperties
<1>a. Len(jobs') # 0
  <2>1. Len(sent \o <<Batch!NewJob(rest)>>) = Len(sent) + Len(<<Batch!NewJob(rest)>>) /\ Len(sent) \in Nat
    BY <1>8, ConcatProperties, LenProperties
  <2>2. Len(<<Batch!NewJob(rest)>>) = 1
    OBVIOUS
  <2> QED  BY <1>1, <2>1, <2>2
<1>10. jobs' \in Seq(JobRecords) /\ \A j \in 1 .. Len(jobs') : DOMAIN jobs'[j].out = Batch!ToSet(jobs'[j].ids)
  <2>1. Good \subseteq JobRecords
    OBVIOUS
  <2>2. \A j \in 1 .. Len(jobs') : jobs'[j] \in Good
    BY <1>9, ElementOfSeq
  <2> QED  BY <1>9, <2>1, <2>2, SeqMonotonic
<1>11. /\ tickets' \in [Items -> Items \cup {"free", "waiting", "failed"}]
       /\ \A i \in Items : tickets'[i] \notin Items
  BY <1>1, WordsAreNoIds
<1>12. rows = {} /\ known = {} /\ read = {} /\ missing = {}
  BY <1>2 DEF BatchIInv, BatchTyped, BatchWhole, MissingRight
<1>b. job' \in 0 .. Len(jobs') /\ rows' \cup known' \cup read' \subseteq 1 .. Len(jobs')
  <2>1. \A n \in Nat : n # 0 => n \in 0 .. n /\ n \in 1 .. n
    OBVIOUS
  <2>2. Len(jobs') \in 0 .. Len(jobs') /\ Len(jobs') \in 1 .. Len(jobs')
    BY <1>9, <1>a, <2>1
  <2>3. rows' = {} /\ read' = {} /\ known' = {Len(jobs')} /\ job' = Len(jobs')
    BY <1>1, <1>12
  <2> QED  BY <2>2, <2>3
<1>c. provider' \in Providers /\ collecting' \in Seq(Items) /\ waited' \in {-1} \cup 0 .. Window /\ order' \in Seq(Items)
  BY <1>0, <1>1 DEF BatchIInv, BatchTyped
<1>13. BatchTyped'
  BY <1>10, <1>11, <1>b, <1>c DEF BatchTyped
<1>14. Own'
  BY <1>11 DEF Own
<1>15. BatchWhole'
  BY <1>1, <1>12 DEF BatchWhole, Kept, MissingRight
<1> QED
  BY <1>13, <1>14, <1>15 DEF BatchIInv

-----------------------------------------------------------------------------
\* The results that a job has are those of its items that are done, each once.
LEMMA ResultsAre ==
    ASSUME BatchTyped, job # 0, NEW rs \in Batch!Results(job, "ok")
    PROVE  /\ \A r \in Batch!ToSet(rs) : r = Batch!Stray \/ \E i \in DOMAIN jobs[job].out : r = Batch!Result(job, i)
           /\ \A i \in DOMAIN jobs[job].out : jobs[job].out[i] # "none" => Batch!Result(job, i) \in Batch!ToSet(rs)
<1> DEFINE D == DOMAIN jobs[job].out
           R == {Batch!Result(job, i) : i \in D \ Batch!Undone(job)}
<1>1. job \in 1 .. Len(jobs) /\ jobs[job] \in JobRecords /\ jobs[job].ids \in Seq(Items) /\ D = Batch!ToSet(jobs[job].ids)
  <2>1. Len(jobs) \in Nat /\ job \in 0 .. Len(jobs) /\ jobs \in Seq(JobRecords)
    BY LenProperties DEF BatchTyped
  <2>2. job \in 1 .. Len(jobs)
    BY <2>1
  <2>3. jobs[job] \in JobRecords
    BY <2>1, <2>2, ElementOfSeq
  <2>4. jobs[job].ids \in Seq(Items)
    BY <2>3 DEF JobRecords
  <2>5. D = Batch!ToSet(jobs[job].ids)
    BY <2>2 DEF BatchTyped
  <2> QED  BY <2>2, <2>3, <2>4, <2>5
<1>2. PICK T : (T = R \/ T = R \cup {Batch!Stray}) /\ rs \in Batch!SetToSeqs(T)
  BY DEF Batch!Results
<1>3. IsFiniteSet(T)
  <2> DEFINE q == jobs[job].ids
             n == Len(q)
  <2>1. n \in Nat /\ DOMAIN q = 1 .. n /\ D = {q[k] : k \in 1 .. n}
    BY <1>1, LenProperties DEF Batch!ToSet
  <2>2. IsFiniteSet(1 .. n)
    BY <2>1, FS_Interval
  <2> DEFINE f == [k \in 1 .. n |-> Batch!Result(job, q[k])]
             F == {Batch!Result(job, i) : i \in D}
  <2>3. f \in Surjection(1 .. n, F)
    <3>1. f \in [1 .. n -> F]
      BY <2>1
    <3>2. \A r \in F : \E k \in 1 .. n : f[k] = r
      BY <2>1
    <3> QED  BY <3>1, <3>2 DEF Surjection
  <2>4. IsFiniteSet(F)
    BY <2>2, <2>3, FS_Surjection
  <2>5. IsFiniteSet(R)
    <3>1. R \in SUBSET F
      OBVIOUS
    <3> HIDE DEF R, F
    <3> QED  BY <2>4, <3>1, FS_Subset
  <2>6. IsFiniteSet(R \cup {Batch!Stray})
    BY <2>5, FS_AddElement
  <2> QED  BY <1>2, <2>5, <2>6
<1> DEFINE c == Cardinality(T)
<1>4. c \in Nat /\ IsFiniteSet(1 .. c) /\ Cardinality(1 .. c) = c
  <2>1. c \in Nat
    BY <1>3, FS_CardinalityType
  <2> HIDE DEF c
  <2> QED  BY <2>1, FS_Interval
<1>5. rs \in [1 .. c -> T] /\ \A i, j \in 1 .. c : i # j => rs[i] # rs[j]
  <2>1. Batch!Cardinality(T) = c
    BY DEF Batch!Cardinality, Cardinality
  <2> HIDE DEF c
  <2> QED  BY <1>2, <2>1 DEF Batch!SetToSeqs
<1>6. rs \in Injection(1 .. c, T)
  BY <1>5 DEF Injection, IsInjective
<1>7. rs \in Surjection(1 .. c, T)
  <2>1. Cardinality(1 .. c) = Cardinality(T)
    BY <1>4
  <2> HIDE DEF c
  <2> QED  BY <1>3, <1>6, <2>1, FS_Injection
<1>8. Batch!ToSet(rs) = T
  <2>1. DOMAIN rs = 1 .. c /\ \A x \in T : \E k \in 1 .. c : rs[k] = x
    BY <1>5, <1>7 DEF Surjection
  <2> QED  BY <1>5, <2>1 DEF Batch!ToSet
<1>9. \A i \in D : jobs[job].out[i] # "none" => i \in D \ Batch!Undone(job)
  BY DEF Batch!Undone
<1> QED
  BY <1>2, <1>8, <1>9

\* What a look at the job settles.
LEMMA LookKeeps ==
    ASSUME Raises, BatchIInv, BatchWhole, Batch!Look
    PROVE  BatchIInv' /\ BatchWhole'
<1>1. /\ job # 0 /\ UNCHANGED <<provider, collecting, waited, job, jobs, order, known>>
      /\ Batch!Replies = {"ok"}
  BY DEF Batch!Look, Batch!Replies
<1>2. PICK rs \in Batch!Results(job, "ok") : Batch!Terminal(job, "ok") /\ Batch!Collect(rs)
  BY <1>1 DEF Batch!Look
<1>3. jobs[job].state = "ended"
  BY <1>2 DEF Batch!Terminal
<1>4. /\ tickets' = Batch!Settled(rs) /\ rows' = rows \ {job} /\ read' = read \cup {job}
      /\ missing' = missing \cup {[id |-> i, job |-> job] : i \in {k \in Batch!ToSet(order) : tickets'[k] = "waiting"}}
  BY <1>2, <1>3 DEF Batch!Collect
<1>5. job \in 1 .. Len(jobs) /\ tickets \in [Items -> Items \cup {"free", "waiting", "failed"}]
  <2>1. Len(jobs) \in Nat /\ job \in 0 .. Len(jobs)
    BY LenProperties DEF BatchIInv, BatchTyped
  <2> QED  BY <1>1, <2>1 DEF BatchIInv, BatchTyped
<1>6. /\ \A r \in Batch!ToSet(rs) : r = Batch!Stray \/ \E i \in DOMAIN jobs[job].out : r = Batch!Result(job, i)
      /\ \A i \in DOMAIN jobs[job].out : jobs[job].out[i] # "none" => Batch!Result(job, i) \in Batch!ToSet(rs)
  BY <1>1, <1>2, ResultsAre DEF BatchIInv
<1>7. \A i \in Items, r \in Batch!ToSet(rs) :
         r.id = i => i \in DOMAIN jobs[job].out /\ r.of = i /\ r.ok = (jobs[job].out[i] = "ok")
  BY <1>6, WordsAreNoIds DEF Batch!Stray, Batch!Result
<1>8. ASSUME NEW i \in Items
      PROVE  \/ /\ tickets[i] # "free" /\ i \in DOMAIN jobs[job].out
                /\ tickets'[i] = (IF jobs[job].out[i] = "ok" THEN i ELSE "failed")
             \/ /\ tickets'[i] = tickets[i]
                /\ tickets[i] = "free" \/ i \notin DOMAIN jobs[job].out \/ jobs[job].out[i] = "none"
  <2> DEFINE hit == \E r \in Batch!ToSet(rs) : r.id = i
             x == CHOOSE r \in Batch!ToSet(rs) : r.id = i
  <2>1. tickets'[i] = IF tickets[i] # "free" /\ hit THEN IF x.ok THEN x.of ELSE "failed" ELSE tickets[i]
    BY <1>4 DEF Batch!Settled
  <2>2. hit => x \in Batch!ToSet(rs) /\ x.id = i
    OBVIOUS
  <2>3. ~ hit => i \notin DOMAIN jobs[job].out \/ jobs[job].out[i] = "none"
    BY <1>6 DEF Batch!Result
  <2> HIDE DEF x, hit
  <2>4. hit => i \in DOMAIN jobs[job].out /\ x.of = i /\ x.ok = (jobs[job].out[i] = "ok")
    BY <1>7, <2>2
  <2> QED  BY <2>1, <2>3, <2>4
<1>9. tickets' \in [Items -> Items \cup {"free", "waiting", "failed"}]
  <2>1. \A i \in Items : tickets'[i] \in Items \cup {"free", "waiting", "failed"}
    BY <1>5, <1>8
  <2>2. tickets' = [i \in Items |-> tickets'[i]]
    BY <1>4 DEF Batch!Settled
  <2> QED  BY <2>1, <2>2
<1>10. BatchTyped'
  BY <1>1, <1>4, <1>5, <1>9 DEF BatchIInv, BatchTyped
<1>11. Own'
  BY <1>1, <1>5, <1>8, WordsAreNoIds DEF BatchIInv, Own, Answered
<1>12. Kept'
  <2>1. \A i \in Items : tickets'[i] = "waiting" => tickets[i] = "waiting"
    BY <1>8, WordsAreNoIds
  <2>2. known' \subseteq rows' \cup read' \/ order' # <<>>
    BY <1>1, <1>4 DEF BatchWhole, Kept
  <2> QED  BY <1>1, <2>1, <2>2 DEF BatchWhole, Kept, OnItsWay
<1>13. MissingRight'
  <2> SUFFICES ASSUME NEW m \in missing' PROVE m.job \in 1 .. Len(jobs) /\ Without(m.id, m.job)
    BY <1>1 DEF MissingRight, Without
  <2>1. CASE m \in missing
    BY <2>1 DEF BatchWhole, MissingRight
  <2>2. CASE m \notin missing
    <3>1. PICK i \in Batch!ToSet(order) : tickets'[i] = "waiting" /\ m = [id |-> i, job |-> job]
      BY <1>4, <2>2
    <3>2. i \in Items
      BY ToSetTyped DEF BatchIInv, BatchTyped
    <3>3. i \in DOMAIN jobs[job].out => jobs[job].out[i] = "none"
      BY <1>8, <3>1, <3>2, WordsAreNoIds
    <3> QED  BY <1>3, <1>5, <3>1, <3>3 DEF Without
  <2> QED  BY <2>1, <2>2
<1> QED
  BY <1>10, <1>11, <1>12, <1>13 DEF BatchIInv, BatchWhole

-----------------------------------------------------------------------------
\* The provider works on a job that runs, and takes no answer back.
LEMMA WorkKeeps ==
    ASSUME BatchIInv, BatchWhole, UNCHANGED <<provider, collecting, waited, tickets, job, rows, order, known, read, missing>>,
           NEW j \in 1 .. Len(jobs), NEW x \in JobRecords, jobs' = [jobs EXCEPT ![j] = x],
           jobs[j].state = "running", x.ids = jobs[j].ids, DOMAIN x.out = DOMAIN jobs[j].out,
           \A i \in DOMAIN x.out : jobs[j].out[i] = "ok" => x.out[i] = "ok"
    PROVE  BatchIInv' /\ BatchWhole'
<1>1. jobs' \in Seq(JobRecords) /\ Len(jobs') = Len(jobs)
  <2>1. jobs \in Seq(JobRecords)
    BY DEF BatchIInv, BatchTyped
  <2> QED  BY <2>1, ExceptSeq
<1>2. /\ \A k \in 1 .. Len(jobs) : jobs'[k] = IF k = j THEN x ELSE jobs[k]
      /\ \A k \in 1 .. Len(jobs) : jobs'[k].ids = jobs[k].ids /\ DOMAIN jobs'[k].out = DOMAIN jobs[k].out
  <2>1. DOMAIN jobs = 1 .. Len(jobs)
    BY LenProperties DEF BatchIInv, BatchTyped
  <2> QED  BY <2>1
<1>3. BatchTyped'
  BY <1>1, <1>2 DEF BatchIInv, BatchTyped
<1>4. Own'
  <2>1. \A i : Answered(i) => Answered(i)'
    BY <1>1, <1>2 DEF Answered
  <2> QED  BY <2>1 DEF BatchIInv, Own
<1>5. Kept'
  <2>1. known \subseteq 1 .. Len(jobs)
    BY DEF BatchIInv, BatchTyped
  <2>2. \A i : OnItsWay(i) => OnItsWay(i)'
    BY <1>2, <2>1 DEF OnItsWay
  <2> QED  BY <2>2 DEF BatchWhole, Kept
<1>6. MissingRight'
  BY <1>1, <1>2 DEF BatchWhole, MissingRight, Without
<1> QED
  BY <1>3, <1>4, <1>5, <1>6 DEF BatchIInv, BatchWhole

\* An item that was undone is answered.
LEMMA ProduceKeeps ==
    ASSUME BatchIInv, BatchWhole, NEW j \in 1 .. Len(jobs), NEW i \in DOMAIN jobs[j].out,
           NEW out \in {"ok", "error"}, Batch!Produce(j, i, out)
    PROVE  BatchIInv' /\ BatchWhole'
<1> DEFINE x == [jobs[j] EXCEPT !.out[i] = out]
<1>1. /\ jobs[j].state = "running" /\ jobs[j].out[i] = "none" /\ jobs' = [jobs EXCEPT ![j] = x]
      /\ UNCHANGED <<provider, collecting, waited, tickets, job, rows, order, known, read, missing>>
  BY DEF Batch!Produce, Batch!Undone, Batch!memory
<1>2. jobs[j] \in JobRecords
  BY ElementOfSeq DEF BatchIInv, BatchTyped
<1>3. PICK D \in SUBSET Items : jobs[j].out \in [D -> Outs]
  BY <1>2 DEF JobRecords
<1>4. [jobs[j].out EXCEPT ![i] = out] \in [D -> Outs]
  BY <1>3 DEF Outs
<1>5. x.ids = jobs[j].ids /\ x.out = [jobs[j].out EXCEPT ![i] = out] /\ x \in JobRecords
  BY <1>2, <1>4 DEF JobRecords
<1> HIDE DEF x
<1>6. DOMAIN x.out = DOMAIN jobs[j].out /\ \A k \in DOMAIN x.out : jobs[j].out[k] = "ok" => x.out[k] = "ok"
  BY <1>1, <1>5
<1> QED
  BY <1>1, <1>5, <1>6, WorkKeeps

\* A job that ends keeps what was done.
LEMMA EndJobKeeps ==
    ASSUME BatchIInv, BatchWhole, NEW j \in 1 .. Len(jobs), Batch!EndJob(j)
    PROVE  BatchIInv' /\ BatchWhole'
<1> DEFINE x == [jobs[j] EXCEPT !.state = "ended"]
<1>1. /\ jobs[j].state = "running" /\ jobs' = [jobs EXCEPT ![j] = x]
      /\ UNCHANGED <<provider, collecting, waited, tickets, job, rows, order, known, read, missing>>
  BY DEF Batch!EndJob, Batch!memory
<1>2. jobs[j] \in JobRecords
  BY ElementOfSeq DEF BatchIInv, BatchTyped
<1>3. x \in JobRecords /\ x.ids = jobs[j].ids /\ x.out = jobs[j].out
  BY <1>2 DEF JobRecords
<1> HIDE DEF x
<1> QED
  BY <1>1, <1>3, WorkKeeps

\* Every step of the batcher and its provider keeps both.
LEMMA BatchKeeps ==
    Raises /\ BatchIInv /\ BatchWhole /\ [Batch!Next]_Batch!vars => BatchIInv' /\ BatchWhole'
<1> SUFFICES ASSUME Raises, BatchIInv, BatchWhole, [Batch!Next]_Batch!vars
             PROVE  BatchIInv' /\ BatchWhole'
  OBVIOUS
<1>1. ASSUME NEW i \in Items, Batch!Add(i) PROVE BatchIInv' /\ BatchWhole'
  BY <1>1, AddKeeps
<1>2. CASE Batch!Tick \/ Batch!Submit
  BY <1>2, SubmitKeeps
<1>3. CASE Batch!Look
  BY <1>3, LookKeeps
<1>4. CASE Batch!Pass
  <2>1. /\ waited \in 0 .. Window - 1 /\ waited' = waited + 1
        /\ UNCHANGED <<provider, collecting, tickets, job, rows, jobs, order, known, read, missing>>
    BY <1>4 DEF Batch!Pass
  <2>2. waited' \in {-1} \cup 0 .. Window /\ waited # -1 /\ waited' # -1
    BY <2>1, WordsAreNoIds
  <2>3. BatchTyped' /\ Own' /\ MissingRight'
    BY <2>1, <2>2 DEF BatchIInv, BatchWhole, BatchTyped, Own, Answered, MissingRight, Without
  <2>4. Kept'
    BY <2>1, <2>2 DEF BatchWhole, Kept, OnItsWay
  <2> QED  BY <2>3, <2>4 DEF BatchIInv, BatchWhole
<1>5. ASSUME NEW list \in Lists, Batch!SubmitBatch(list) PROVE BatchIInv' /\ BatchWhole'
  BY <1>5, SubmitBatchKeeps
<1>6. ASSUME NEW j \in DOMAIN jobs, (\E i \in DOMAIN jobs[j].out, out \in {"ok", "error"} : Batch!Produce(j, i, out))
                                    \/ Batch!EndJob(j)
      PROVE  BatchIInv' /\ BatchWhole'
  <2>1. j \in 1 .. Len(jobs)
    BY LenProperties DEF BatchIInv, BatchTyped
  <2> QED  BY <1>6, <2>1, ProduceKeeps, EndJobKeeps
<1>7. CASE UNCHANGED Batch!vars
  BY <1>7 DEF Batch!vars, BatchIInv, BatchWhole, BatchTyped, Own, Answered, Kept, OnItsWay, MissingRight, Without
<1> QED
  BY <1>1, <1>2, <1>3, <1>4, <1>5, <1>6, <1>7 DEF Batch!Next

\* Which is what is asked of it.
LEMMA BatchSays ==
    BatchIInv /\ BatchWhole =>
        Batch!TypeOK /\ Batch!OwnAnswer /\ Batch!NothingDropped /\ Batch!MissingIsTrue
<1> SUFFICES ASSUME BatchIInv, BatchWhole
             PROVE  Batch!TypeOK /\ Batch!OwnAnswer /\ Batch!NothingDropped /\ Batch!MissingIsTrue
  OBVIOUS
<1>1. DOMAIN jobs = 1 .. Len(jobs) /\ \A j \in 1 .. Len(jobs) : jobs[j] \in JobRecords
  BY LenProperties, ElementOfSeq DEF BatchIInv, BatchTyped
<1>2. Batch!TypeOK
  BY <1>1, WordsAreNoIds DEF BatchIInv, BatchTyped, Batch!TypeOK, JobRecords
<1>3. Batch!OwnAnswer
  BY <1>1 DEF BatchIInv, Own, Answered, Batch!OwnAnswer
<1>4. Batch!NothingDropped
  BY WordsAreNoIds DEF BatchWhole, Kept, OnItsWay, Batch!NothingDropped
<1>5. Batch!MissingIsTrue
  BY DEF BatchWhole, MissingRight, Without, Batch!MissingIsTrue
<1> QED
  BY <1>2, <1>3, <1>4, <1>5

-----------------------------------------------------------------------------
(* HookBus: the lists are in the order of subscription, a copy of one is too *)
(* whatever becomes of the list, and what an emit has still to keep it has   *)
(* called or has ahead of it.                                                *)

Subscriptions == [sub : 1 .. MaxSubs, f : Functions_, once : BOOLEAN]
Emits == [at : {"hook", "any", "idle"}, copy : Seq(Subscriptions), pos : Nat, called : Seq(1 .. MaxSubs)]
BusTyped ==
    /\ subs \in 0 .. MaxSubs
    /\ handlers \in [{"hook", "any"} -> Seq(Subscriptions)]
    /\ emit \in [Emitters -> Emits] /\ kept \in [Emitters -> SUBSET (1 .. MaxSubs)]

Rising(list) == \A i, j \in 1 .. Len(list) : i < j => list[i].sub < list[j].sub
ListedAs(lists, n) ==
    /\ \A l \in {"hook", "any"} : Rising(lists[l]) /\ Bus!SubsIn(lists[l]) \subseteq 1 .. n
    /\ Bus!SubsIn(lists["hook"]) \cap Bus!SubsIn(lists["any"]) = {}

\* What an emit has called, and what it is still to call of its copy.
Heard(o) == Bus!Range(o.called)
Ahead(o) == {o.copy[k].sub : k \in o.pos + 1 .. Len(o.copy)}
Ordered(o) ==
    /\ \A i, j \in 1 .. Len(o.called) : i < j => o.called[i] < o.called[j]
    /\ \A s \in Heard(o), k \in Ahead(o) : s < k
InOrderBut(o, late) == \A i, j \in 1 .. Len(o.called) : i < j /\ o.called[j] < o.called[i] => o.called[j] \in late

\* An emit under way that is to keep these, of so many subscriptions, with these of the catch-all.
Emitting(o, keeps, n, any) ==
    /\ Rising(o.copy) /\ Bus!SubsIn(o.copy) \subseteq 1 .. n /\ Heard(o) \subseteq 1 .. n
    /\ o.pos <= Len(o.copy)
    /\ \A i, j \in 1 .. Len(o.called) : o.called[i] = o.called[j] => i = j
    /\ Heard(o) \cap Ahead(o) = {}
    /\ keeps \subseteq Heard(o) \cup Ahead(o)
    /\ o.at = "hook" => Ordered(o) /\ (Heard(o) \cup Ahead(o)) \cap any = {}
    /\ o.at = "any" => InOrderBut(o, Bus!SubsIn(o.copy))

BusIInv ==
    /\ BusTyped /\ ListedAs(handlers, subs)
    /\ \A e \in Emitters : emit[e].at # "idle" => Emitting(emit[e], kept[e], subs, Bus!SubsIn(handlers["any"]))

\* What is in a list is what its places have.
LEMMA SubsInSeq ==
    ASSUME NEW list \in Seq(Subscriptions)
    PROVE  /\ Len(list) \in Nat /\ DOMAIN list = 1 .. Len(list)
           /\ \A i \in 1 .. Len(list) : list[i] \in Subscriptions /\ list[i].sub \in 1 .. MaxSubs
           /\ Bus!SubsIn(list) = {list[i].sub : i \in 1 .. Len(list)}
<1>1. Len(list) \in Nat /\ DOMAIN list = 1 .. Len(list)
  BY LenProperties
<1>2. \A i \in 1 .. Len(list) : list[i] \in Subscriptions
  BY ElementOfSeq
<1> QED  BY <1>1, <1>2 DEF Subscriptions, Bus!SubsIn

\* A list with one handler less is in order still, and has none that it had not.
LEMMA RemoveRises ==
    ASSUME NEW list \in Seq(Subscriptions), Rising(list), NEW i \in 1 .. Len(list)
    PROVE  /\ Lacking(list, i) \in Seq(Subscriptions) /\ Rising(Lacking(list, i))
           /\ Bus!SubsIn(Lacking(list, i)) \subseteq Bus!SubsIn(list)
<1> DEFINE n == Len(list)
           q == Lacking(list, i)
           place(k) == IF k < i THEN k ELSE k + 1
<1>1. n \in Nat /\ i \in 1 .. n /\ \A k \in 1 .. n : list[k] \in Subscriptions /\ list[k].sub \in 1 .. MaxSubs
  BY SubsInSeq
<1>3. q \in Seq(Subscriptions) /\ Len(q) = n - 1 /\ \A k \in 1 .. Len(q) : q[k] = list[place(k)]
  BY OneOut
<1> HIDE DEF n, q
<1>4. /\ q \in Seq(Subscriptions) /\ Len(q) = n - 1
      /\ \A k \in 1 .. n - 1 : q[k] = list[place(k)] /\ place(k) \in 1 .. n
  BY <1>1, <1>3
<1>5. Rising(q)
  <2> SUFFICES ASSUME NEW j \in 1 .. n - 1, NEW k \in 1 .. n - 1, j < k PROVE q[j].sub < q[k].sub
    BY <1>4 DEF Rising
  <2>1. place(j) < place(k) /\ place(j) \in 1 .. n /\ place(k) \in 1 .. n
    BY <1>1, <1>4
  <2> HIDE DEF place
  <2> QED  BY <1>4, <2>1 DEF Rising, n
<1>6. Bus!SubsIn(q) \subseteq Bus!SubsIn(list)
  <2> HIDE DEF place
  <2>1. Bus!SubsIn(q) = {q[k].sub : k \in 1 .. n - 1}
    BY <1>4, SubsInSeq
  <2>2. Bus!SubsIn(list) = {list[k].sub : k \in 1 .. n}
    BY SubsInSeq DEF n
  <2> QED  BY <1>4, <2>1, <2>2
<1> QED  BY <1>4, <1>5, <1>6 DEF q

\* Which is what list.remove leaves.
LEMMA WithoutRises ==
    ASSUME NEW list \in Seq(Subscriptions), Rising(list), NEW h
    PROVE  /\ Bus!WithoutFirst(list, h) \in Seq(Subscriptions) /\ Rising(Bus!WithoutFirst(list, h))
           /\ Bus!SubsIn(Bus!WithoutFirst(list, h)) \subseteq Bus!SubsIn(list)
<1> DEFINE same == {i \in DOMAIN list : list[i].f = h.f /\ list[i].once = h.once /\ (h.once => list[i].sub = h.sub)}
           i == CHOOSE i \in same : \A j \in same : i <= j
<1>1. Bus!WithoutFirst(list, h) = IF same = {} THEN list ELSE Lacking(list, i)
  BY DEF Bus!WithoutFirst, Lacking
<1>2. same \subseteq 1 .. Len(list) /\ same \in SUBSET Nat
  <2>1. DOMAIN list = 1 .. Len(list) /\ Len(list) \in Nat
    BY SubsInSeq
  <2> QED  BY <2>1
<1>3. ASSUME same # {} PROVE i \in 1 .. Len(list)
  <2>1. \E k \in same : \A j \in same : k <= j
    <3> HIDE DEF same
    <3> QED  BY <1>2, <1>3, Least
  <2>2. i \in same
    BY <2>1
  <2> HIDE DEF i, same
  <2> QED  BY <1>2, <2>2
<1> HIDE DEF same, i
<1> QED
  BY <1>1, <1>3, RemoveRises

\* And what a subscription, the latest of all, makes of it.
LEMMA AppendRises ==
    ASSUME NEW list \in Seq(Subscriptions), Rising(list), NEW n \in Nat, NEW h \in Subscriptions,
           Bus!SubsIn(list) \subseteq 1 .. n, h.sub = n + 1
    PROVE  /\ Append(list, h) \in Seq(Subscriptions) /\ Rising(Append(list, h))
           /\ Bus!SubsIn(Append(list, h)) = Bus!SubsIn(list) \cup {n + 1}
<1> DEFINE q == Append(list, h)
           m == Len(list)
<1>1. q \in Seq(Subscriptions) /\ Len(q) = m + 1 /\ \A k \in 1 .. m : q[k] = list[k]
  BY AppendProperties
<1>2. q[m + 1] = h
  BY AppendProperties
<1>3. m \in Nat /\ Bus!SubsIn(list) = {list[k].sub : k \in 1 .. m}
  BY SubsInSeq
<1>4. Bus!SubsIn(q) = {q[k].sub : k \in 1 .. m + 1}
  BY <1>1, SubsInSeq
<1>5. \A k \in 1 .. m : list[k].sub \in 1 .. n
  BY <1>3
<1>6. \A j, k \in 1 .. m : j < k => list[j].sub < list[k].sub
  BY DEF Rising
<1> HIDE DEF q, m
<1>7. 1 .. m + 1 = (1 .. m) \cup {m + 1}
  BY <1>3
<1>8. Rising(q)
  <2> SUFFICES ASSUME NEW j \in 1 .. m + 1, NEW k \in 1 .. m + 1, j < k PROVE q[j].sub < q[k].sub
    BY <1>1 DEF Rising
  <2>1. j \in 1 .. m
    BY <1>3
  <2>2. CASE k \in 1 .. m
    BY <1>1, <1>6, <2>1, <2>2
  <2>3. CASE k = m + 1
    <3>1. q[j].sub \in 1 .. n /\ q[k].sub = n + 1
      BY <1>1, <1>2, <1>5, <2>1, <2>3
    <3> QED  BY <3>1
  <2> QED  BY <1>7, <2>2, <2>3
<1>9. Bus!SubsIn(q) = Bus!SubsIn(list) \cup {n + 1}
  BY <1>1, <1>2, <1>3, <1>4, <1>7
<1> QED  BY <1>1, <1>8, <1>9 DEF q

\* An emit under way does not mind who comes after it, and is to keep no more than it was.
LEMMA EmittingStays ==
    ASSUME NEW o \in Emits, NEW keeps, NEW n \in Nat, NEW any, Emitting(o, keeps, n, any),
           NEW keeps2, keeps2 \subseteq keeps, NEW m \in Nat, n <= m,
           NEW any2, \A s \in any2 : s \in any \/ s \notin 1 .. n
    PROVE  Emitting(o, keeps2, m, any2)
<1>1. 1 .. n \subseteq 1 .. m
  OBVIOUS
<1>2. Ahead(o) \subseteq Bus!SubsIn(o.copy)
  <2>1. o.copy \in Seq(Subscriptions) /\ o.pos \in Nat
    BY DEF Emits
  <2>2. Len(o.copy) \in Nat /\ Bus!SubsIn(o.copy) = {o.copy[k].sub : k \in 1 .. Len(o.copy)}
    BY <2>1, SubsInSeq
  <2>3. o.pos + 1 .. Len(o.copy) \subseteq 1 .. Len(o.copy)
    BY <2>1, <2>2
  <2> QED  BY <2>2, <2>3 DEF Ahead
<1>3. Bus!SubsIn(o.copy) \subseteq 1 .. m /\ Heard(o) \subseteq 1 .. m
  BY <1>1 DEF Emitting
<1>4. o.at = "hook" => Ordered(o) /\ (Heard(o) \cup Ahead(o)) \cap any2 = {}
  BY <1>2 DEF Emitting
<1> QED
  BY <1>3, <1>4 DEF Emitting

\* A list that is empty is in order.
LEMMA EmptyRises ==
    <<>> \in Seq(Subscriptions) /\ Len(<<>>) = 0 /\ Rising(<<>>) /\ Bus!SubsIn(<<>>) = {}
<1>1. <<>> \in Seq(Subscriptions) /\ Len(<<>>) = 0
  BY EmptySeq
<1>2. \A i \in 1 .. 0 : FALSE
  OBVIOUS
<1>3. DOMAIN <<>> = {}
  OBVIOUS
<1>4. Bus!SubsIn(<<>>) = {}
  BY <1>3 DEF Bus!SubsIn
<1>5. Rising(<<>>)
  BY <1>1, <1>2 DEF Rising
<1> QED  BY <1>1, <1>4, <1>5

-----------------------------------------------------------------------------
\* The bus begins with no handler and no emit.
LEMMA BusStarts == Bus!Init => BusIInv
<1> SUFFICES ASSUME Bus!Init PROVE BusIInv
  OBVIOUS
<1>1. /\ handlers = [l \in {"hook", "any"} |-> <<>>] /\ subs = 0
      /\ emit = [e \in Emitters |-> [at |-> "idle", copy |-> <<>>, pos |-> 0, called |-> <<>>]]
      /\ kept = [e \in Emitters |-> {}]
  BY DEF Bus!Init, Bus!Hooks, Bus!NotEmitting
<1>2. <<>> \in Seq(Subscriptions) /\ <<>> \in Seq(1 .. MaxSubs) /\ Len(<<>>) = 0 /\ 0 \in 0 .. MaxSubs
  BY EmptySeq, AroundAssumption
<1>3. Bus!SubsIn(<<>>) = {} /\ Rising(<<>>)
  BY EmptyRises
<1>4. BusTyped
  <2>1. [at |-> "idle", copy |-> <<>>, pos |-> 0, called |-> <<>>] \in Emits
    BY <1>2 DEF Emits
  <2> QED  BY <1>1, <1>2, <2>1 DEF BusTyped
<1>5. ListedAs(handlers, subs)
  BY <1>1, <1>3 DEF ListedAs
<1>6. \A e \in Emitters : emit[e].at = "idle"
  BY <1>1
<1> QED
  BY <1>4, <1>5, <1>6 DEF BusIInv

\* What a change of the lists asks of them: nothing but a new subscription may enter one.
LEMMA BecomesKeeps ==
    ASSUME BusIInv, NEW lists \in [{"hook", "any"} -> Seq(Subscriptions)], Bus!Becomes(lists), emit' = emit,
           subs' \in 0 .. MaxSubs, subs <= subs', ListedAs(lists, subs'),
           \A s \in Bus!SubsIn(lists["any"]) : s \in Bus!SubsIn(handlers["any"]) \/ s \notin 1 .. subs
    PROVE  BusIInv'
<1>1. /\ handlers' = lists
      /\ kept' = [e \in Emitters |-> kept[e] \cap UNION {Bus!SubsIn(lists[l]) : l \in Bus!Hooks}]
  BY DEF Bus!Becomes
<1>2. \A e \in Emitters : kept'[e] \subseteq kept[e] /\ kept'[e] \in SUBSET (1 .. MaxSubs)
  BY <1>1 DEF BusIInv, BusTyped
<1>3. kept' \in [Emitters -> SUBSET (1 .. MaxSubs)]
  <2>1. kept' = [e \in Emitters |-> kept'[e]]
    BY <1>1
  <2> QED  BY <1>2, <2>1
<1>4. BusTyped'
  BY <1>1, <1>3 DEF BusIInv, BusTyped
<1>5. ListedAs(handlers', subs')
  BY <1>1
<1>6. ASSUME NEW e \in Emitters, emit[e].at # "idle"
      PROVE  Emitting(emit[e], kept'[e], subs', Bus!SubsIn(lists["any"]))
  <2>1. Emitting(emit[e], kept[e], subs, Bus!SubsIn(handlers["any"]))
    BY <1>6 DEF BusIInv
  <2>2. emit[e] \in Emits /\ subs \in Nat /\ subs' \in Nat
    BY DEF BusIInv, BusTyped
  <2> QED
    BY <1>2, <2>1, <2>2, EmittingStays
<1> QED
  BY <1>1, <1>4, <1>5, <1>6 DEF BusIInv

\* A subscription enters a list at its end.
LEMMA SubscribeKeeps ==
    ASSUME BusIInv, NEW l \in {"hook", "any"}, NEW f \in Functions_, NEW once \in BOOLEAN, Bus!Subscribe(l, f, once)
    PROVE  BusIInv'
<1> DEFINE h == [sub |-> subs + 1, f |-> f, once |-> once]
           list == Append(handlers[l], h)
           lists == [handlers EXCEPT ![l] = list]
<1>1. subs < MaxSubs /\ subs' = subs + 1 /\ Bus!Becomes(lists) /\ emit' = emit
  BY DEF Bus!Subscribe
<1>2. subs \in Nat /\ MaxSubs \in Nat /\ subs' \in 0 .. MaxSubs /\ subs <= subs' /\ subs + 1 \in 1 .. MaxSubs
  <2>1. MaxSubs \in Nat
    BY AroundAssumption
  <2>2. subs \in 0 .. MaxSubs
    BY DEF BusIInv, BusTyped
  <2> QED  BY <1>1, <2>1, <2>2
<1>3. h \in Subscriptions
  BY <1>2 DEF Subscriptions
<1>4. /\ handlers \in [{"hook", "any"} -> Seq(Subscriptions)]
      /\ \A k \in {"hook", "any"} : Rising(handlers[k]) /\ Bus!SubsIn(handlers[k]) \subseteq 1 .. subs
      /\ Bus!SubsIn(handlers["hook"]) \cap Bus!SubsIn(handlers["any"]) = {}
  BY DEF BusIInv, BusTyped, ListedAs
<1>5. list \in Seq(Subscriptions) /\ Rising(list) /\ Bus!SubsIn(list) = Bus!SubsIn(handlers[l]) \cup {subs + 1}
  <2>1. handlers[l] \in Seq(Subscriptions) /\ h.sub = subs + 1
    BY <1>4
  <2> HIDE DEF h
  <2> QED  BY <1>2, <1>3, <1>4, <2>1, AppendRises
<1> HIDE DEF list
<1>6. lists \in [{"hook", "any"} -> Seq(Subscriptions)] /\ lists[l] = list /\ \A k \in {"hook", "any"} : k # l => lists[k] = handlers[k]
  BY <1>4, <1>5
<1> HIDE DEF lists
<1>7. 1 .. subs \subseteq 1 .. subs' /\ subs + 1 \in 1 .. subs' /\ subs + 1 \notin 1 .. subs
  BY <1>1, <1>2
<1>8. ListedAs(lists, subs')
  BY <1>4, <1>5, <1>6, <1>7 DEF ListedAs
<1>9. \A s \in Bus!SubsIn(lists["any"]) : s \in Bus!SubsIn(handlers["any"]) \/ s \notin 1 .. subs
  BY <1>5, <1>6, <1>7
<1> QED
  BY <1>1, <1>2, <1>6, <1>8, <1>9, BecomesKeeps

\* Lists that only lose handlers.
LEMMA LossKeeps ==
    ASSUME BusIInv, NEW lists \in [{"hook", "any"} -> Seq(Subscriptions)], Bus!Becomes(lists), emit' = emit, subs' = subs,
           \A l \in {"hook", "any"} : Rising(lists[l]) /\ Bus!SubsIn(lists[l]) \subseteq Bus!SubsIn(handlers[l])
    PROVE  BusIInv'
<1>1. subs' \in 0 .. MaxSubs /\ subs <= subs'
  <2>1. MaxSubs \in Nat
    BY AroundAssumption
  <2> QED  BY <2>1 DEF BusIInv, BusTyped
<1>2. ListedAs(lists, subs')
  BY DEF BusIInv, ListedAs
<1> QED
  BY <1>1, <1>2, BecomesKeeps

\* A handler that leaves, and all that leave.
LEMMA LeavingKeeps ==
    ASSUME BusIInv, (\E l \in {"hook", "any"} : \E i \in DOMAIN handlers[l] : Bus!Unsubscribe(l, i))
                    \/ \E all \in BOOLEAN : Bus!Off(all)
    PROVE  BusIInv'
<1>1. /\ handlers \in [{"hook", "any"} -> Seq(Subscriptions)]
      /\ \A k \in {"hook", "any"} : Rising(handlers[k])
  BY DEF BusIInv, BusTyped, ListedAs
<1>2. ASSUME NEW l \in {"hook", "any"}, NEW i, Bus!Unsubscribe(l, i) PROVE BusIInv'
  <2> DEFINE list == Bus!WithoutFirst(handlers[l], handlers[l][i])
             lists == [handlers EXCEPT ![l] = list]
  <2>1. Bus!Becomes(lists) /\ emit' = emit /\ subs' = subs
    BY <1>2 DEF Bus!Unsubscribe
  <2>2. list \in Seq(Subscriptions) /\ Rising(list) /\ Bus!SubsIn(list) \subseteq Bus!SubsIn(handlers[l])
    BY <1>1, WithoutRises
  <2> HIDE DEF list
  <2>3. /\ lists \in [{"hook", "any"} -> Seq(Subscriptions)] /\ lists[l] = list
        /\ \A k \in {"hook", "any"} : k # l => lists[k] = handlers[k]
    BY <1>1, <2>2
  <2> HIDE DEF lists
  <2> QED  BY <1>1, <2>1, <2>2, <2>3, LossKeeps
<1>3. ASSUME NEW all \in BOOLEAN, Bus!Off(all) PROVE BusIInv'
  <2> DEFINE lists == [l \in Bus!Hooks |-> IF all \/ l = "hook" THEN <<>> ELSE handlers[l]]
  <2>1. Bus!Becomes(lists) /\ emit' = emit /\ subs' = subs
    BY <1>3 DEF Bus!Off
  <2>2. <<>> \in Seq(Subscriptions) /\ Rising(<<>>) /\ Bus!SubsIn(<<>>) = {}
    BY EmptyRises
  <2>3. /\ lists \in [{"hook", "any"} -> Seq(Subscriptions)]
        /\ \A k \in {"hook", "any"} : lists[k] = <<>> \/ lists[k] = handlers[k]
    BY <1>1, <2>2 DEF Bus!Hooks
  <2> HIDE DEF lists
  <2>4. \A k \in {"hook", "any"} : Rising(lists[k]) /\ Bus!SubsIn(lists[k]) \subseteq Bus!SubsIn(handlers[k])
    BY <1>1, <2>2, <2>3
  <2> QED  BY <2>1, <2>3, <2>4, LossKeeps
<1> QED
  BY <1>2, <1>3

-----------------------------------------------------------------------------
\* What a step of one emit that leaves the lists alone asks of it.
LEMMA EmitKeeps ==
    ASSUME BusIInv, NEW e \in Emitters, NEW o \in Emits, emit' = [emit EXCEPT ![e] = o],
           NEW keeps \in SUBSET (1 .. MaxSubs), kept' = [kept EXCEPT ![e] = keeps],
           UNCHANGED <<handlers, subs>>,
           o.at # "idle" => Emitting(o, keeps, subs, Bus!SubsIn(handlers["any"]))
    PROVE  BusIInv'
<1>1. BusTyped'
  BY DEF BusIInv, BusTyped
<1>2. ListedAs(handlers', subs')
  BY DEF BusIInv
<1>3. \A d \in Emitters : /\ emit'[d] = (IF d = e THEN o ELSE emit[d])
                          /\ kept'[d] = (IF d = e THEN keeps ELSE kept[d])
  BY DEF BusIInv, BusTyped
<1> QED
  BY <1>1, <1>2, <1>3 DEF BusIInv

\* What setting some of its fields makes of an emit.
LEMMA EmitSet ==
    \A o \in Emits : \A at2, copy2 :
        [o EXCEPT !.at = at2, !.copy = copy2] = [at |-> at2, copy |-> copy2, pos |-> o.pos, called |-> o.called]
<1> SUFFICES ASSUME NEW o \in Emits, NEW at2, NEW copy2
             PROVE  [o EXCEPT !.at = at2, !.copy = copy2]
                        = [at |-> at2, copy |-> copy2, pos |-> o.pos, called |-> o.called]
  OBVIOUS
<1> DEFINE a == [o EXCEPT !.at = at2]
<1>1. [o EXCEPT !.at = at2, !.copy = copy2] = [a EXCEPT !.copy = copy2]
  OBVIOUS
<1>2. a = [at |-> at2, copy |-> o.copy, pos |-> o.pos, called |-> o.called]
  BY DEF Emits
<1> HIDE DEF a
<1> QED  BY <1>1, <1>2

\* And setting one more.
LEMMA EmitReset ==
    \A o \in Emits : \A at2, copy2, pos2 :
        [o EXCEPT !.at = at2, !.copy = copy2, !.pos = pos2]
            = [at |-> at2, copy |-> copy2, pos |-> pos2, called |-> o.called]
<1> SUFFICES ASSUME NEW o \in Emits, NEW at2, NEW copy2, NEW pos2
             PROVE  [o EXCEPT !.at = at2, !.copy = copy2, !.pos = pos2]
                        = [at |-> at2, copy |-> copy2, pos |-> pos2, called |-> o.called]
  OBVIOUS
<1> DEFINE b == [o EXCEPT !.at = at2, !.copy = copy2]
<1>1. [o EXCEPT !.at = at2, !.copy = copy2, !.pos = pos2] = [b EXCEPT !.pos = pos2]
  OBVIOUS
<1>2. b = [at |-> at2, copy |-> copy2, pos |-> o.pos, called |-> o.called]
  BY EmitSet, Zenon
<1> HIDE DEF b
<1> QED  BY <1>1, <1>2

\* And going on by one call.
LEMMA EmitStepped ==
    \A o \in Emits : \A x :
        [o EXCEPT !.pos = @ + 1, !.called = Append(@, x)]
            = [at |-> o.at, copy |-> o.copy, pos |-> o.pos + 1, called |-> Append(o.called, x)]
<1> SUFFICES ASSUME NEW o \in Emits, NEW x
             PROVE  [o EXCEPT !.pos = @ + 1, !.called = Append(@, x)]
                        = [at |-> o.at, copy |-> o.copy, pos |-> o.pos + 1, called |-> Append(o.called, x)]
  OBVIOUS
<1> DEFINE p == o.pos + 1
           c == Append(o.called, x)
           a == [o EXCEPT !.pos = p]
<1>1. [o EXCEPT !.pos = @ + 1, !.called = Append(@, x)] = [a EXCEPT !.called = c]
  OBVIOUS
<1> HIDE DEF p, c
<1>2. a = [at |-> o.at, copy |-> o.copy, pos |-> p, called |-> o.called]
  BY DEF Emits
<1> HIDE DEF a
<1>3. [a EXCEPT !.called = c] = [at |-> o.at, copy |-> o.copy, pos |-> p, called |-> c]
  BY <1>2
<1> QED  BY <1>1, <1>3 DEF p, c

\* An emit takes its copy and is to keep what is in it.
LEMMA BeginEmitKeeps ==
    ASSUME BusIInv, NEW e \in Emitters, Bus!BeginEmit(e)
    PROVE  BusIInv'
<1> DEFINE list == handlers["hook"]
           o == [at |-> "hook", copy |-> list, pos |-> 0, called |-> <<>>]
<1>2. /\ list \in Seq(Subscriptions) /\ Rising(list) /\ Bus!SubsIn(list) \subseteq 1 .. subs
      /\ Bus!SubsIn(list) \cap Bus!SubsIn(handlers["any"]) = {}
  BY DEF BusIInv, BusTyped, ListedAs
<1>3. Len(list) \in Nat /\ Bus!SubsIn(list) = {list[k].sub : k \in 1 .. Len(list)} /\ Bus!SubsIn(list) \in SUBSET (1 .. MaxSubs)
  BY <1>2, SubsInSeq
<1>4. <<>> \in Seq(1 .. MaxSubs) /\ Len(<<>>) = 0 /\ DOMAIN <<>> = {}
  BY EmptySeq
<1>1. /\ emit' = [emit EXCEPT ![e] = o] /\ kept' = [kept EXCEPT ![e] = Bus!SubsIn(list)]
      /\ UNCHANGED <<handlers, subs>>
  <2>1. /\ emit' = [emit EXCEPT ![e] = [Bus!NotEmitting EXCEPT !.at = "hook", !.copy = list]]
        /\ kept' = [kept EXCEPT ![e] = Bus!SubsIn(list)] /\ UNCHANGED <<handlers, subs>>
    BY DEF Bus!BeginEmit
  <2> HIDE DEF list
  <2>2. [Bus!NotEmitting EXCEPT !.at = "hook", !.copy = list] = o
    <3>1. Bus!NotEmitting = [at |-> "idle", copy |-> <<>>, pos |-> 0, called |-> <<>>]
      BY DEF Bus!NotEmitting
    <3>2. Bus!NotEmitting \in Emits /\ Bus!NotEmitting.pos = 0 /\ Bus!NotEmitting.called = <<>>
      BY <1>2, <1>4, <3>1, EmptySeq DEF Emits
    <3>3. [Bus!NotEmitting EXCEPT !.at = "hook", !.copy = list]
              = [at |-> "hook", copy |-> list, pos |-> Bus!NotEmitting.pos, called |-> Bus!NotEmitting.called]
      BY <3>2, EmitSet, Zenon
    <3> QED  BY <3>2, <3>3
  <2> HIDE DEF o
  <2> QED  BY <2>1, <2>2
<1> HIDE DEF list
<1>5. o \in Emits
  BY <1>2, <1>4 DEF Emits
<1>6. o.at = "hook" /\ o.copy = list /\ o.pos = 0 /\ o.called = <<>>
  OBVIOUS
<1> HIDE DEF o
<1>7. Heard(o) = {} /\ Ahead(o) = Bus!SubsIn(list)
  <2>1. 0 + 1 .. Len(list) = 1 .. Len(list)
    OBVIOUS
  <2>2. Heard(o) = {}
    BY <1>4, <1>6 DEF Heard, Bus!Range
  <2> QED  BY <1>3, <1>6, <2>1, <2>2 DEF Ahead
<1>8. Emitting(o, Bus!SubsIn(list), subs, Bus!SubsIn(handlers["any"]))
  <2>1. Ordered(o)
    BY <1>4, <1>6, <1>7 DEF Ordered
  <2> QED  BY <1>2, <1>3, <1>4, <1>6, <1>7, <2>1 DEF Emitting
<1> QED
  BY <1>1, <1>3, <1>5, <1>8, EmitKeeps

\* The catch-all's copy is of subscriptions that the hook's list never had.
LEMMA TellAnyKeeps ==
    ASSUME BusIInv, NEW e \in Emitters, Bus!TellAny(e)
    PROVE  BusIInv'
<1> DEFINE was == emit[e]
           list == handlers["any"]
           o == [at |-> "any", copy |-> list, pos |-> 0, called |-> was.called]
           keeps == kept[e] \cup Bus!SubsIn(list)
<1>1. was.at = "hook" /\ Bus!Left(e) = <<>> /\ kept' = [kept EXCEPT ![e] = keeps] /\ UNCHANGED <<handlers, subs>>
  BY DEF Bus!TellAny
<1>2. was \in Emits /\ was.copy \in Seq(Subscriptions) /\ was.pos \in Nat /\ was.called \in Seq(1 .. MaxSubs)
  BY DEF BusIInv, BusTyped, Emits
<1>3. emit' = [emit EXCEPT ![e] = o]
  <2>1. emit' = [emit EXCEPT ![e] = [was EXCEPT !.at = "any", !.copy = list, !.pos = 0]]
    BY DEF Bus!TellAny, BusIInv, BusTyped
  <2>2. [was EXCEPT !.at = "any", !.copy = list, !.pos = 0] = o
    <3>1. was \in Emits
      BY <1>2
    <3> HIDE DEF was, list
    <3>2. [was EXCEPT !.at = "any", !.copy = list, !.pos = 0]
              = [at |-> "any", copy |-> list, pos |-> 0, called |-> was.called]
      BY <3>1, EmitReset, Zenon
    <3> QED  BY <3>2
  <2> QED  BY <2>1, <2>2
<1>4. Emitting(was, kept[e], subs, Bus!SubsIn(list)) /\ kept[e] \in SUBSET (1 .. MaxSubs)
  BY <1>1 DEF BusIInv, BusTyped
<1>5. /\ list \in Seq(Subscriptions) /\ Rising(list) /\ Bus!SubsIn(list) \subseteq 1 .. subs
  BY DEF BusIInv, BusTyped, ListedAs
<1>6. Len(list) \in Nat /\ Bus!SubsIn(list) = {list[k].sub : k \in 1 .. Len(list)} /\ Bus!SubsIn(list) \in SUBSET (1 .. MaxSubs)
  BY <1>5, SubsInSeq
<1>7. Len(was.called) \in Nat /\ \A k \in 1 .. Len(was.called) : was.called[k] \in 1 .. MaxSubs
  BY <1>2, LenProperties, ElementOfSeq
<1>8. Ahead(was) = {}
  <2>1. Len(was.copy) \in Nat /\ \A k \in 1 .. Len(was.copy) : was.copy[k] \in Subscriptions
    BY <1>2, SubsInSeq
  <2>2. Len(Bus!Left(e)) = IF was.pos + 1 <= Len(was.copy) THEN Len(was.copy) - (was.pos + 1) + 1 ELSE 0
    <3> DEFINE m == was.pos + 1
               n == Len(was.copy)
    <3>1. m \in Int /\ n \in Int /\ \A k \in m .. n : was.copy[k] \in Subscriptions
      BY <1>2, <2>1
    <3>2. Bus!Left(e) = SubSeq(was.copy, m, n)
      BY DEF Bus!Left
    <3> HIDE DEF m, n
    <3>3. Len(SubSeq(was.copy, m, n)) = IF m <= n THEN n - m + 1 ELSE 0
      BY <3>1, SubSeqProperties
    <3> QED  BY <3>2, <3>3 DEF m, n
  <2>3. Len(Bus!Left(e)) = 0
    BY <1>1, EmptySeq
  <2>4. was.pos + 1 .. Len(was.copy) = {}
    <3>1. \A p, n \in Nat : (IF p + 1 <= n THEN n - (p + 1) + 1 ELSE 0) = 0 => p + 1 .. n = {}
      OBVIOUS
    <3>2. (IF was.pos + 1 <= Len(was.copy) THEN Len(was.copy) - (was.pos + 1) + 1 ELSE 0) = 0
      BY <2>2, <2>3
    <3>3. was.pos \in Nat /\ Len(was.copy) \in Nat
      BY <1>2, <2>1
    <3> HIDE DEF was
    <3> QED  BY <3>1, <3>2, <3>3
  <2> QED  BY <2>4 DEF Ahead
<1> HIDE DEF list, was
<1>9. o \in Emits
  BY <1>2, <1>5 DEF Emits
<1>10. o.at = "any" /\ o.copy = list /\ o.pos = 0 /\ o.called = was.called
  OBVIOUS
<1> HIDE DEF o
<1>11. Heard(o) = Heard(was) /\ Ahead(o) = Bus!SubsIn(list)
  <2>1. 0 + 1 .. Len(list) = 1 .. Len(list)
    OBVIOUS
  <2> QED  BY <1>6, <1>10, <2>1 DEF Ahead, Heard
<1>12. Emitting(o, keeps, subs, Bus!SubsIn(list))
  <2>1. InOrderBut(o, Bus!SubsIn(list))
    <3> SUFFICES ASSUME NEW i \in 1 .. Len(o.called), NEW j \in 1 .. Len(o.called), i < j, o.called[j] < o.called[i]
                 PROVE  FALSE
      BY DEF InOrderBut
    <3>1. was.called[i] < was.called[j]
      BY <1>1, <1>4, <1>10 DEF Emitting, Ordered
    <3> QED  BY <1>7, <1>10, <3>1
  <2>2. o.pos <= Len(o.copy)
    BY <1>6, <1>10
  <2>3. Heard(was) \subseteq 1 .. subs /\ kept[e] \subseteq Heard(was) /\ Heard(was) \cap Bus!SubsIn(list) = {}
    BY <1>1, <1>4, <1>8 DEF Emitting
  <2>4. \A i, j \in 1 .. Len(o.called) : o.called[i] = o.called[j] => i = j
    BY <1>4, <1>10 DEF Emitting
  <2>5. o.at # "hook"
    BY <1>10
  <2> QED  BY <1>5, <1>10, <1>11, <2>1, <2>2, <2>3, <2>4, <2>5 DEF Emitting
<1>13. keeps \in SUBSET (1 .. MaxSubs)
  BY <1>4, <1>6
<1> HIDE DEF keeps
<1> QED
  BY <1>1, <1>3, <1>9, <1>12, <1>13, EmitKeeps DEF list

\* The call of the next handler of the copy.
LEMMA NextCalled ==
    ASSUME NEW o \in Emits, NEW keeps, NEW n \in Nat, NEW any, Emitting(o, keeps, n, any), o.pos < Len(o.copy),
           NEW o2, o2 = [at |-> o.at, copy |-> o.copy, pos |-> o.pos + 1,
                         called |-> Append(o.called, o.copy[o.pos + 1].sub)]
    PROVE  o2 \in Emits /\ Emitting(o2, keeps, n, any)
<1> DEFINE q == o.copy
           s == q[o.pos + 1].sub
           m == Len(q)
           c == o.called
           l == Len(c)
           c2 == Append(c, s)
<1>1. o.pos \in Nat /\ q \in Seq(Subscriptions) /\ c \in Seq(1 .. MaxSubs) /\ o.at \in {"hook", "any", "idle"}
  BY DEF Emits
<1>2. /\ m \in Nat /\ \A k \in 1 .. m : q[k].sub \in 1 .. MaxSubs
      /\ Bus!SubsIn(q) = {q[k].sub : k \in 1 .. m}
  BY <1>1, SubsInSeq
<1>3. o.pos + 1 \in 1 .. m /\ o.pos + 1 <= m
  BY <1>1, <1>2
<1>4. s \in 1 .. MaxSubs /\ s \in Bus!SubsIn(q)
  BY <1>2, <1>3
<1>5. l \in Nat /\ Heard(o) = {c[k] : k \in 1 .. l} /\ \A k \in 1 .. l : c[k] \in 1 .. MaxSubs
  BY <1>1, LenProperties, ElementOfSeq DEF Heard, Bus!Range
<1>6. c2 \in Seq(1 .. MaxSubs) /\ Len(c2) = l + 1 /\ c2[l + 1] = s /\ \A k \in 1 .. l : c2[k] = c[k]
  <2>1. s \in 1 .. MaxSubs /\ c \in Seq(1 .. MaxSubs)
    BY <1>1, <1>4
  <2> HIDE DEF s, c
  <2> QED  BY <2>1, AppendProperties
<1>7. DOMAIN c2 = 1 .. l + 1 /\ 1 .. l + 1 = (1 .. l) \cup {l + 1}
  BY <1>5, <1>6, LenProperties
<1>8. o2.at = o.at /\ o2.copy = q /\ o2.pos = o.pos + 1 /\ o2.called = c2 /\ o2 \in Emits
  BY <1>1, <1>6 DEF Emits
<1>9. Heard(o2) = Heard(o) \cup {s}
  <2>1. Heard(o2) = {c2[k] : k \in 1 .. l + 1}
    BY <1>7, <1>8 DEF Heard, Bus!Range
  <2> HIDE DEF c2, s
  <2> QED  BY <1>5, <1>6, <1>7, <2>1
<1>10. Ahead(o) = Ahead(o2) \cup {s} /\ \A x \in Ahead(o2) : s < x
  <2>1. Ahead(o2) = {q[k].sub : k \in (o.pos + 1) + 1 .. m}
    BY <1>8 DEF Ahead
  <2>2. o.pos + 1 .. m = {o.pos + 1} \cup ((o.pos + 1) + 1 .. m)
    BY <1>1, <1>2, <1>3
  <2>3. Ahead(o) = {q[k].sub : k \in o.pos + 1 .. m}
    BY DEF Ahead
  <2>4. \A k \in (o.pos + 1) + 1 .. m : k \in 1 .. m /\ o.pos + 1 < k
    BY <1>1, <1>2
  <2>5. \A k \in (o.pos + 1) + 1 .. m : s < q[k].sub
    BY <1>3, <2>4 DEF Emitting, Rising
  <2> HIDE DEF s
  <2>6. Ahead(o) = Ahead(o2) \cup {s}
    BY <2>1, <2>2, <2>3 DEF s
  <2> QED  BY <2>1, <2>5, <2>6
<1> HIDE DEF q, s, m, c, l, c2
<1>11. s \notin Heard(o) /\ Heard(o) \cap Ahead(o2) = {} /\ s \notin Ahead(o2)
  <2>1. Heard(o) \cap Ahead(o) = {}
    BY DEF Emitting
  <2>2. s \notin Ahead(o2)
    <3>1. ~ (s < s)
      BY <1>4
    <3> QED  BY <1>10, <3>1
  <2> QED  BY <1>10, <2>1, <2>2
<1>12. \A i, j \in 1 .. l + 1 : c2[i] = c2[j] => i = j
  <2>1. \A i, j \in 1 .. l : c[i] = c[j] => i = j
    BY DEF Emitting, c, l
  <2>2. \A i \in 1 .. l : c2[i] = c[i] /\ c[i] # s
    BY <1>5, <1>6, <1>11
  <2> QED  BY <1>6, <1>7, <2>1, <2>2
<1>13. ASSUME o.at = "hook" PROVE Ordered(o2) /\ (Heard(o2) \cup Ahead(o2)) \cap any = {}
  <2>1. Ordered(o) /\ (Heard(o) \cup Ahead(o)) \cap any = {}
    BY <1>13 DEF Emitting
  <2>2. \A x \in Heard(o), k \in Ahead(o) : x < k
    BY <2>1 DEF Ordered
  <2>3. \A x \in Heard(o2), k \in Ahead(o2) : x < k
    BY <1>9, <1>10, <2>2
  <2>4. ASSUME NEW i \in 1 .. l + 1, NEW j \in 1 .. l + 1, i < j PROVE c2[i] < c2[j]
    <3>1. i \in 1 .. l
      BY <1>5, <2>4
    <3>2. CASE j \in 1 .. l
      BY <1>6, <2>1, <2>4, <3>1, <3>2 DEF Ordered, c, l
    <3>3. CASE j = l + 1
      <4>1. c[i] \in Heard(o) /\ s \in Ahead(o)
        BY <1>5, <1>10, <3>1
      <4>2. c[i] < s
        BY <2>2, <4>1
      <4> QED  BY <1>6, <3>1, <3>3, <4>2
    <3> QED  BY <1>7, <3>2, <3>3
  <2>5. Ordered(o2)
    BY <1>6, <1>8, <2>3, <2>4 DEF Ordered
  <2> QED  BY <1>9, <1>10, <2>1, <2>5
<1>14. ASSUME o.at = "any" PROVE InOrderBut(o2, Bus!SubsIn(q))
  <2>1. InOrderBut(o, Bus!SubsIn(q))
    BY <1>14 DEF Emitting, q
  <2> SUFFICES ASSUME NEW i \in 1 .. l + 1, NEW j \in 1 .. l + 1, i < j, c2[j] < c2[i] PROVE c2[j] \in Bus!SubsIn(q)
    BY <1>6, <1>8 DEF InOrderBut
  <2>2. i \in 1 .. l
    BY <1>5
  <2>3. CASE j \in 1 .. l
    <3>1. c2[i] = c[i] /\ c2[j] = c[j]
      BY <1>6, <2>2, <2>3
    <3> QED  BY <2>1, <2>2, <2>3, <3>1 DEF InOrderBut, c, l
  <2>4. CASE j = l + 1
    BY <1>4, <1>6, <2>4
  <2> QED  BY <1>7, <2>3, <2>4
<1>15. Rising(q) /\ Bus!SubsIn(q) \subseteq 1 .. n /\ Heard(o) \subseteq 1 .. n /\ keeps \subseteq Heard(o) \cup Ahead(o)
  BY DEF Emitting, q
<1>16. o2.pos <= Len(o2.copy) /\ Len(o2.called) = l + 1
  BY <1>3, <1>6, <1>8 DEF m
<1>17. Heard(o2) \subseteq 1 .. n /\ keeps \subseteq Heard(o2) \cup Ahead(o2) /\ Heard(o2) \cap Ahead(o2) = {}
  BY <1>4, <1>9, <1>10, <1>11, <1>15
<1>18. Emitting(o2, keeps, n, any)
  BY <1>8, <1>12, <1>13, <1>14, <1>15, <1>16, <1>17 DEF Emitting
<1> QED
  BY <1>8, <1>18

\* What is left of a copy begins with the place the emit is at.
LEMMA LeftIs ==
    ASSUME BusIInv, NEW e \in Emitters
    PROVE  /\ emit[e].pos \in Nat /\ Len(emit[e].copy) \in Nat
           /\ Bus!Left(e) = <<>> <=> Len(emit[e].copy) <= emit[e].pos
           /\ Bus!Left(e) # <<>> => Head(Bus!Left(e)) = emit[e].copy[emit[e].pos + 1]
<1> DEFINE q == emit[e].copy
           m == emit[e].pos + 1
           n == Len(q)
           left == SubSeq(q, m, n)
<1>1. emit[e] \in Emits
  BY DEF BusIInv, BusTyped
<1>2. q \in Seq(Subscriptions) /\ emit[e].pos \in Nat
  BY <1>1 DEF Emits
<1>3. n \in Nat /\ \A k \in 1 .. n : q[k] \in Subscriptions
  BY <1>2, SubsInSeq
<1>4. Bus!Left(e) = left
  BY DEF Bus!Left
<1>5. m \in 1 .. m /\ \A k \in m .. n : q[k] \in Subscriptions
  BY <1>2, <1>3
<1>6. emit[e].pos \in Nat /\ (n <= emit[e].pos <=> ~ (m <= n)) /\ (m <= n => m \in 1 .. n /\ n \in m .. n) /\ m \in Int
  BY <1>2, <1>3
<1> HIDE DEF m, n
<1>7. /\ left \in Seq(Subscriptions)
      /\ Len(left) = IF m <= n THEN n - m + 1 ELSE 0
  BY <1>3, <1>5, <1>6, SubSeqProperties
<1>8. m <= n => n - m + 1 # 0
  BY <1>3, <1>6
<1>9. left = <<>> <=> ~ (m <= n)
  <2>1. left # <<>> => Len(left) # 0
    BY <1>7, EmptySeq
  <2>2. left = <<>> => Len(left) = 0
    BY EmptySeq
  <2> HIDE DEF left
  <2> QED  BY <1>7, <1>8, <2>1, <2>2
<1>10. m <= n => Head(left) = q[m]
  BY <1>2, <1>6, HeadTailOfSubSeq DEF n
<1> QED
  BY <1>3, <1>4, <1>6, <1>9, <1>10 DEF m, n

\* A call, of a handler that may leave the list first and may raise.
LEMMA CallNextKeeps ==
    ASSUME BusIInv, NEW e \in Emitters, NEW raises \in BOOLEAN, Bus!CallNext(e, raises)
    PROVE  BusIInv'
<1> DEFINE was == emit[e]
           h == was.copy[was.pos + 1]
           o == [at |-> was.at, copy |-> was.copy, pos |-> was.pos + 1, called |-> Append(was.called, h.sub)]
           rest == [at |-> "idle", copy |-> <<>>, pos |-> 0, called |-> <<>>]
           list == Bus!WithoutFirst(handlers["hook"], h)
           lists == [handlers EXCEPT !["hook"] = list]
<1>1. was.at \in {"hook", "any"} /\ Bus!Left(e) # <<>> /\ subs' = subs
  BY DEF Bus!CallNext, Bus!Hooks
<1>2. Head(Bus!Left(e)) = h /\ was.pos \in Nat /\ Len(was.copy) \in Nat /\ was.pos < Len(was.copy)
  BY <1>1, LeftIs
<1>3. was \in Emits /\ kept \in [Emitters -> SUBSET (1 .. MaxSubs)] /\ emit \in [Emitters -> Emits] /\ subs \in Nat
  BY DEF BusIInv, BusTyped
<1>4. IF h.once THEN Bus!Becomes(lists) ELSE UNCHANGED <<handlers, kept>>
  <2>1. LET g == Head(Bus!Left(e)) IN
            IF g.once THEN Bus!Becomes([handlers EXCEPT !["hook"] = Bus!WithoutFirst(@, g)]) ELSE UNCHANGED <<handlers, kept>>
    BY DEF Bus!CallNext
  <2> HIDE DEF h
  <2> QED  BY <1>2, <2>1
<1>5. emit' = [emit EXCEPT ![e] = IF raises THEN rest ELSE o]
  <2>1. emit' = IF raises THEN [emit EXCEPT ![e] = Bus!NotEmitting]
                ELSE [emit EXCEPT ![e] = [emit[e] EXCEPT !.pos = @ + 1, !.called = Append(@, Head(Bus!Left(e)).sub)]]
    <3> HIDE DEF was, h, o, rest, list, lists
    <3>1. LET g == Head(Bus!Left(e)) IN
              emit' = IF raises THEN [emit EXCEPT ![e] = Bus!NotEmitting]
                      ELSE [emit EXCEPT ![e].pos = @ + 1, ![e].called = Append(@, g.sub)]
      BY DEF Bus!CallNext
    <3> QED  BY <1>3, <3>1
  <2>2. Bus!NotEmitting = rest
    BY DEF Bus!NotEmitting
  <2>3. [was EXCEPT !.pos = @ + 1, !.called = Append(@, h.sub)] = o
    <3> HIDE DEF was, h
    <3>1. [was EXCEPT !.pos = @ + 1, !.called = Append(@, h.sub)]
              = [at |-> was.at, copy |-> was.copy, pos |-> was.pos + 1, called |-> Append(was.called, h.sub)]
      BY <1>3, EmitStepped, Zenon
    <3> QED  BY <3>1
  <2> HIDE DEF o, rest, h
  <2> QED  BY <1>2, <2>1, <2>2, <2>3
<1>6. Emitting(was, kept[e], subs, Bus!SubsIn(handlers["any"]))
  BY <1>1 DEF BusIInv
<1>7. o \in Emits /\ Emitting(o, kept[e], subs, Bus!SubsIn(handlers["any"]))
  <2> HIDE DEF was
  <2> QED  BY <1>2, <1>3, <1>6, NextCalled
<1>8. rest \in Emits
  BY EmptySeq DEF Emits
<1>9. /\ handlers \in [{"hook", "any"} -> Seq(Subscriptions)]
      /\ \A k \in {"hook", "any"} : Rising(handlers[k])
  BY DEF BusIInv, BusTyped, ListedAs
<1>10. list \in Seq(Subscriptions) /\ Rising(list) /\ Bus!SubsIn(list) \subseteq Bus!SubsIn(handlers["hook"])
  BY <1>9, WithoutRises
<1> HIDE DEF list, h
<1>11. /\ lists \in [{"hook", "any"} -> Seq(Subscriptions)] /\ lists["hook"] = list /\ lists["any"] = handlers["any"]
  BY <1>9, <1>10
<1> HIDE DEF lists
<1>12. \/ UNCHANGED <<handlers, kept>>
       \/ handlers' = lists /\ kept' = [d \in Emitters |-> kept[d] \cap UNION {Bus!SubsIn(lists[l]) : l \in Bus!Hooks}]
  BY <1>4 DEF Bus!Becomes
<1>13. \A d \in Emitters : kept'[d] \subseteq kept[d]
  BY <1>12
<1>14. kept' \in [Emitters -> SUBSET (1 .. MaxSubs)]
  <2>1. \A d \in Emitters : kept'[d] \in SUBSET (1 .. MaxSubs)
    BY <1>3, <1>13
  <2> QED  BY <1>3, <1>12, <2>1
<1>15. /\ handlers' \in [{"hook", "any"} -> Seq(Subscriptions)] /\ handlers'["any"] = handlers["any"]
       /\ Rising(handlers'["hook"]) /\ Bus!SubsIn(handlers'["hook"]) \subseteq Bus!SubsIn(handlers["hook"])
  BY <1>9, <1>10, <1>11, <1>12
<1>16. ListedAs(handlers', subs')
  BY <1>1, <1>15 DEF BusIInv, ListedAs
<1>17. \A d \in Emitters : emit'[d] = IF d = e THEN IF raises THEN rest ELSE o ELSE emit[d]
  BY <1>3, <1>5
<1>18. emit' \in [Emitters -> Emits]
  <2> HIDE DEF o, rest
  <2> QED  BY <1>3, <1>5, <1>7, <1>8
<1>19. BusTyped'
  BY <1>1, <1>14, <1>15, <1>18 DEF BusIInv, BusTyped
<1>20. ASSUME NEW d \in Emitters, emit'[d].at # "idle"
       PROVE  Emitting(emit'[d], kept'[d], subs', Bus!SubsIn(handlers'["any"]))
  <2>1. emit'[d] \in Emits /\ Emitting(emit'[d], kept[d], subs, Bus!SubsIn(handlers["any"]))
    <3>1. CASE d = e
      <4>1. ~ raises
        BY <1>17, <1>20, <3>1
      <4> HIDE DEF o, rest
      <4> QED  BY <1>7, <1>17, <3>1, <4>1
    <3>2. CASE d # e
      <4>1. emit'[d] = emit[d]
        BY <1>17, <3>2
      <4> QED  BY <1>3, <1>20, <4>1 DEF BusIInv
    <3> QED  BY <3>1, <3>2
  <2>2. kept'[d] \subseteq kept[d] /\ subs' = subs /\ handlers'["any"] = handlers["any"] /\ subs <= subs
    BY <1>1, <1>3, <1>13, <1>15
  <2> QED
    BY <1>3, <2>1, <2>2, EmittingStays
<1> QED
  BY <1>16, <1>19, <1>20 DEF BusIInv

\* Every step of the bus keeps it.
LEMMA BusKeeps == BusIInv /\ [Bus!Next]_Bus!busVars => BusIInv'
<1> SUFFICES ASSUME BusIInv, [Bus!Next]_Bus!busVars PROVE BusIInv'
  OBVIOUS
<1>1. ASSUME NEW l \in Bus!Hooks, NEW f \in Functions_, NEW once \in BOOLEAN, Bus!Subscribe(l, f, once) PROVE BusIInv'
  BY <1>1, SubscribeKeeps DEF Bus!Hooks
<1>2. CASE (\E l \in Bus!Hooks : \E i \in DOMAIN handlers[l] : Bus!Unsubscribe(l, i)) \/ \E all \in BOOLEAN : Bus!Off(all)
  BY <1>2, LeavingKeeps DEF Bus!Hooks
<1>3. ASSUME NEW e \in Emitters, Bus!BeginEmit(e) \/ Bus!TellAny(e) PROVE BusIInv'
  BY <1>3, BeginEmitKeeps, TellAnyKeeps
<1>4. ASSUME NEW e \in Emitters, Bus!EndEmit(e) PROVE BusIInv'
  <2> DEFINE rest == [at |-> "idle", copy |-> <<>>, pos |-> 0, called |-> <<>>]
  <2>1. emit' = [emit EXCEPT ![e] = rest] /\ UNCHANGED <<handlers, subs, kept>>
    BY <1>4 DEF Bus!EndEmit, Bus!NotEmitting
  <2>2. rest \in Emits /\ rest.at = "idle"
    BY EmptySeq DEF Emits
  <2>3. kept' = [kept EXCEPT ![e] = kept[e]] /\ kept[e] \in SUBSET (1 .. MaxSubs)
    BY <2>1 DEF BusIInv, BusTyped
  <2> HIDE DEF rest
  <2> QED  BY <2>1, <2>2, <2>3, EmitKeeps
<1>5. ASSUME NEW e \in Emitters, NEW raises \in BOOLEAN, Bus!CallNext(e, raises) PROVE BusIInv'
  BY <1>5, CallNextKeeps
<1>6. CASE UNCHANGED Bus!busVars
  BY <1>6 DEF Bus!busVars, BusIInv, BusTyped
<1> QED
  BY <1>1, <1>2, <1>3, <1>4, <1>5, <1>6 DEF Bus!Next

\* Which is what is asked of it.
LEMMA BusSays == BusIInv => Bus!Delivered
<1> SUFFICES ASSUME BusIInv, NEW e \in Emitters, emit[e].at = "any"
             PROVE  /\ Bus!Left(e) = <<>> => kept[e] \subseteq Bus!Range(emit[e].called)
                    /\ Bus!IsInjective(emit[e].called)
                    /\ \A i, j \in DOMAIN emit[e].called :
                          i < j /\ emit[e].called[j] < emit[e].called[i] => emit[e].called[j] \in Bus!SubsIn(emit[e].copy)
  BY DEF Bus!Delivered
<1> DEFINE o == emit[e]
<1>1. Emitting(o, kept[e], subs, Bus!SubsIn(handlers["any"]))
  BY DEF BusIInv
<1>2. DOMAIN o.called = 1 .. Len(o.called)
  <2>1. o.called \in Seq(1 .. MaxSubs)
    BY DEF BusIInv, BusTyped, Emits
  <2> QED  BY <2>1, LenProperties
<1>3. Bus!Left(e) = <<>> => Ahead(o) = {}
  <2>1. \A p, n \in Nat : n <= p => p + 1 .. n = {}
    OBVIOUS
  <2>2. Bus!Left(e) = <<>> => o.pos + 1 .. Len(o.copy) = {}
    BY <2>1, LeftIs
  <2> QED  BY <2>2 DEF Ahead
<1> QED
  BY <1>1, <1>2, <1>3 DEF Emitting, Heard, InOrderBut, Bus!IsInjective

\* A list that is in the order of subscription has as many subscriptions as places.
LEMMA RisingCounts ==
    ASSUME NEW list \in Seq(Subscriptions), Rising(list)
    PROVE  Len(list) = Bus!Cardinality(Bus!SubsIn(list))
<1> DEFINE n == Len(list)
           S == Bus!SubsIn(list)
           f == [i \in 1 .. n |-> list[i].sub]
<1>1. n \in Nat /\ S = {list[i].sub : i \in 1 .. n} /\ \A i \in 1 .. n : list[i].sub \in 1 .. MaxSubs
  BY SubsInSeq
<1> HIDE DEF n, S
<1>2. f \in [1 .. n -> S] /\ \A s \in S : \E i \in 1 .. n : f[i] = s
  BY <1>1
<1>3. \A i, j \in 1 .. n : i < j => list[i].sub # list[j].sub
  <2> TAKE i, j \in 1 .. n
  <2> HAVE i < j
  <2>1. list[i].sub < list[j].sub
    BY DEF Rising, n
  <2>2. list[i].sub \in Int /\ list[j].sub \in Int
    BY <1>1
  <2> QED  BY <2>1, <2>2
<1>4. \A i, j \in 1 .. n : f[i] = f[j] => i = j
  <2> SUFFICES ASSUME NEW i \in 1 .. n, NEW j \in 1 .. n, f[i] = f[j] PROVE i = j
    OBVIOUS
  <2>1. list[i].sub = list[j].sub
    OBVIOUS
  <2>2. ~ (i < j) /\ ~ (j < i)
    BY <1>3, <2>1
  <2> QED  BY <1>1, <2>2
<1>5. f \in Bijection(1 .. n, S)
  <2> HIDE DEF f
  <2> QED  BY <1>2, <1>4 DEF Bijection, Injection, Surjection, IsInjective
<1>6. ExistsBijection(1 .. n, S)
  BY <1>5 DEF ExistsBijection
<1>7. Cardinality(S) = n
  BY <1>1, <1>6, FS_CountingElements
<1>8. Bus!Cardinality(S) = Cardinality(S)
  BY DEF Bus!Cardinality, Cardinality
<1> QED  BY <1>7, <1>8 DEF n, S

\* An emit stands in its copy, and one that is over has none.
BusPlaced == \A e \in Emitters :
    /\ emit[e].pos <= Len(emit[e].copy)
    /\ emit[e].at = "idle" => emit[e] = Bus!NotEmitting

\* Every step of the bus keeps the places.
LEMMA PlacesKeep == BusIInv /\ BusPlaced /\ [Bus!Next]_Bus!busVars => BusPlaced'
<1> SUFFICES ASSUME BusIInv, BusPlaced, [Bus!Next]_Bus!busVars PROVE BusPlaced'
  OBVIOUS
<1>0. emit \in [Emitters -> Emits]
  BY DEF BusIInv, BusTyped
<1>1. ASSUME emit' = emit PROVE BusPlaced'
  BY <1>1 DEF BusPlaced
<1>2. ASSUME NEW e \in Emitters, NEW o, emit' = [emit EXCEPT ![e] = o],
             o.pos <= Len(o.copy), o.at = "idle" => o = Bus!NotEmitting
      PROVE  BusPlaced'
  <2>1. emit'[e] = o /\ \A d \in Emitters : d # e => emit'[d] = emit[d]
    BY <1>0, <1>2
  <2> QED  BY <1>2, <2>1 DEF BusPlaced
<1>3. Bus!NotEmitting.pos <= Len(Bus!NotEmitting.copy)
  BY DEF Bus!NotEmitting
<1>4. ASSUME NEW e \in Emitters, Bus!BeginEmit(e) PROVE BusPlaced'
  <2> DEFINE o == [Bus!NotEmitting EXCEPT !.at = "hook", !.copy = handlers["hook"]]
  <2>1. emit' = [emit EXCEPT ![e] = o]
    BY <1>4 DEF Bus!BeginEmit
  <2>2. o.pos = 0 /\ o.at = "hook" /\ o.copy = handlers["hook"]
    BY DEF Bus!NotEmitting
  <2>3. Len(handlers["hook"]) \in Nat
    BY LenProperties DEF BusIInv, BusTyped
  <2> HIDE DEF o
  <2>4. o.pos <= Len(o.copy) /\ o.at # "idle"
    BY <2>2, <2>3
  <2> QED  BY <1>2, <2>1, <2>4
<1>5. ASSUME NEW e \in Emitters, Bus!TellAny(e) PROVE BusPlaced'
  <2> DEFINE o == [emit[e] EXCEPT !.at = "any", !.copy = handlers["any"], !.pos = 0]
  <2>1. emit' = [emit EXCEPT ![e] = o]
    BY <1>0, <1>5 DEF Bus!TellAny
  <2>2. o.pos = 0 /\ o.at = "any" /\ o.copy = handlers["any"]
    BY <1>0 DEF Emits
  <2>3. Len(handlers["any"]) \in Nat
    BY LenProperties DEF BusIInv, BusTyped
  <2> HIDE DEF o
  <2>4. o.pos <= Len(o.copy) /\ o.at # "idle"
    BY <2>2, <2>3
  <2> QED  BY <1>2, <2>1, <2>4
<1>6. ASSUME NEW e \in Emitters, Bus!EndEmit(e) PROVE BusPlaced'
  BY <1>2, <1>3, <1>6 DEF Bus!EndEmit
<1>7. ASSUME NEW e \in Emitters, NEW raises \in BOOLEAN, Bus!CallNext(e, raises) PROVE BusPlaced'
  <2>1. CASE raises
    <3>1. emit' = [emit EXCEPT ![e] = Bus!NotEmitting]
      BY <1>7, <2>1 DEF Bus!CallNext
    <3> QED  BY <1>2, <1>3, <3>1
  <2>2. CASE ~ raises
    <3> DEFINE h == Head(Bus!Left(e))
               o == [emit[e] EXCEPT !.pos = @ + 1, !.called = Append(@, h.sub)]
    <3>1. emit' = [emit EXCEPT ![e] = o] /\ emit[e].at \in Bus!Hooks /\ Bus!Left(e) # <<>>
      BY <1>0, <1>7, <2>2 DEF Bus!CallNext
    <3>2. /\ emit[e].copy \in Seq(Subscriptions) /\ Len(emit[e].copy) \in Nat /\ emit[e].pos \in Nat
          /\ emit[e].pos <= Len(emit[e].copy)
      BY <1>0, LenProperties DEF Emits, BusPlaced
    <3>3. emit[e].pos + 1 <= Len(emit[e].copy)
      BY <3>1, <3>2, LeftIs DEF Bus!Hooks
    <3>4. o.pos = emit[e].pos + 1 /\ o.at = emit[e].at /\ o.copy = emit[e].copy
      BY <1>0 DEF Emits
    <3> HIDE DEF o, h
    <3>5. o.pos <= Len(o.copy) /\ o.at # "idle"
      BY <3>1, <3>3, <3>4 DEF Bus!Hooks
    <3> QED  BY <1>2, <3>1, <3>5
  <2> QED  BY <2>1, <2>2
<1>8. ASSUME \/ \E l \in Bus!Hooks, f \in Functions_, once \in BOOLEAN : Bus!Subscribe(l, f, once)
             \/ \E l \in Bus!Hooks : \E i \in DOMAIN handlers[l] : Bus!Unsubscribe(l, i)
             \/ \E all \in BOOLEAN : Bus!Off(all)
             \/ UNCHANGED Bus!busVars
      PROVE  BusPlaced'
  <2>1. emit' = emit
    BY <1>8 DEF Bus!Subscribe, Bus!Unsubscribe, Bus!Off, Bus!busVars
  <2> QED  BY <1>1, <2>1
<1> QED
  BY <1>4, <1>5, <1>6, <1>7, <1>8 DEF Bus!Next

\* At first nobody emits.
LEMMA PlacesStart == Bus!Init => BusPlaced
BY DEF Bus!Init, BusPlaced, Bus!NotEmitting

EmitsBounded == emits \in 0 .. MaxEmits

\* Emits are counted.
LEMMA EmitsCounted ==
    /\ Bus!Init => EmitsBounded
    /\ EmitsBounded /\ [Bus!Next]_Bus!busVars => EmitsBounded'
<1> USE BoundsAreNumbers DEF EmitsBounded
<1>a. Bus!Init => EmitsBounded
  BY DEF Bus!Init
<1> SUFFICES ASSUME EmitsBounded, [Bus!Next]_Bus!busVars PROVE EmitsBounded'
  BY <1>a
<1>1. emits' = emits \/ (emits < MaxEmits /\ emits' = emits + 1)
  BY DEF Bus!Next, Bus!Subscribe, Bus!Unsubscribe, Bus!Off, Bus!BeginEmit, Bus!TellAny, Bus!EndEmit, Bus!CallNext,
         Bus!busVars
<1> QED  BY <1>1

\* What both say of the bus's state.
LEMMA BusTypes == BusIInv /\ BusPlaced /\ EmitsBounded => Bus!TypeOK
<1> SUFFICES ASSUME BusIInv, BusPlaced, EmitsBounded PROVE Bus!TypeOK
  OBVIOUS
<1>1. \A l \in Bus!Hooks : Bus!SubsIn(handlers[l]) \subseteq 1 .. subs
                           /\ Len(handlers[l]) = Bus!Cardinality(Bus!SubsIn(handlers[l]))
  <2> TAKE l \in Bus!Hooks
  <2>1. handlers[l] \in Seq(Subscriptions) /\ Rising(handlers[l]) /\ Bus!SubsIn(handlers[l]) \subseteq 1 .. subs
    BY DEF BusIInv, BusTyped, ListedAs, Bus!Hooks
  <2> QED  BY <2>1, RisingCounts
<1>2. \A e \in Emitters : emit[e].at \in Bus!Hooks \cup {"idle"} /\ emit[e].pos \in 0 .. Len(emit[e].copy)
  <2> TAKE e \in Emitters
  <2>1. emit[e] \in Emits
    BY DEF BusIInv, BusTyped
  <2>2. /\ emit[e].at \in Bus!Hooks \cup {"idle"} /\ emit[e].pos \in Nat /\ emit[e].copy \in Seq(Subscriptions)
        /\ emit[e].pos <= Len(emit[e].copy)
    BY <2>1 DEF Emits, Bus!Hooks, BusPlaced
  <2>3. Len(emit[e].copy) \in Nat
    BY <2>2, LenProperties
  <2> QED  BY <2>2, <2>3
<1> QED  BY <1>1, <1>2 DEF BusIInv, BusTyped, EmitsBounded, Bus!TypeOK

-----------------------------------------------------------------------------
(* RealtimeSession: a frame is in one place, of the wire, the flush, the     *)
(* outbox and the hands of its caller, and comes to the wire after the       *)
(* handshake; END is put by the reader's last step.                          *)

Numbers == 1 .. MaxTurns
Frames == Callers \X Numbers \X {1, 2}
Sendings == [pc : {"idle", "looked", "sending"}, turn : 0 .. MaxTurns, left : Seq(Frames)]
SessionTyped ==
    /\ host \in {"openai", "google"} /\ ready \in BOOLEAN /\ cut \in BOOLEAN
    /\ caller \in [Callers -> Sendings]
    /\ outbox \in Seq(Frames) /\ flushing \in Seq(Frames) /\ wire \in Seq(Frames \cup {<<>>})
    /\ held \subseteq Callers \X Numbers
    /\ events \in Seq({"open", "message", "error", "end"})

\* What is in a sequence, and that it is there once.
Placed(q) == {q[i] : i \in 1 .. Len(q)}
Single(q) == \A i, j \in 1 .. Len(q) : q[i] = q[j] => i = j
AllOf(t) == {t \o <<i>> : i \in 1 .. (IF host = "openai" THEN 2 ELSE 1)}

Shaken ==
    /\ opener = "none" => reader = "none"
    /\ reader \in {"none", "connecting", "opening"} => wire = <<>> /\ ~ ready
    /\ wire # <<>> => wire[1] = <<>>
    /\ ready \/ reader = "marking" => wire # <<>>
    /\ reader \in {"swapping", "flushing"} => ready
    /\ \A c \in Callers : (caller[c].pc = "sending" => ready) /\ (caller[c].pc = "sending" <=> caller[c].left # <<>>)
    /\ \A c \in Callers : caller[c].pc = "looked" => caller[c].turn # 0

\* A frame comes of a turn its caller has begun, and not of the one it is still looking about.
Begun(f) == f[2] <= caller[f[1]].turn /\ (caller[f[1]].pc = "looked" => f[2] < caller[f[1]].turn)
Apart ==
    /\ Single(wire) /\ Single(flushing) /\ Single(outbox)
    /\ Placed(wire) \cap Placed(flushing) = {} /\ Placed(wire) \cap Placed(outbox) = {}
    /\ Placed(flushing) \cap Placed(outbox) = {}
    /\ \A f \in Placed(wire) \cup Placed(flushing) \cup Placed(outbox) : f # <<>> => Begun(f)
    /\ \A c \in Callers :
          /\ Single(caller[c].left)
          /\ \A f \in Placed(caller[c].left) :
                /\ f[1] = c /\ f[2] = caller[c].turn
                /\ f \notin Placed(wire) \cup Placed(flushing) \cup Placed(outbox)

HeldOn ==
    /\ ready /\ reader # "swapping" => outbox = <<>>
    /\ ~ cut /\ reader # "flushing" => flushing = <<>>
    /\ ~ cut => \A t \in held : AllOf(t) \subseteq Placed(wire) \cup Placed(flushing) \cup Placed(outbox)

Ending == \A i \in 1 .. Len(events) : events[i] = "end" => i = Len(events) /\ reader = "done"

SessionIInv == SessionTyped /\ Shaken /\ Apart /\ HeldOn /\ Ending

-----------------------------------------------------------------------------
\* What a sequence has.
LEMMA PlacedIs ==
    ASSUME NEW S, NEW q \in Seq(S)
    PROVE  /\ Len(q) \in Nat /\ DOMAIN q = 1 .. Len(q) /\ \A i \in 1 .. Len(q) : q[i] \in S
           /\ Realtime!Range(q) = Placed(q) /\ Placed(q) \subseteq S
           /\ q = <<>> <=> Placed(q) = {}
<1>1. Len(q) \in Nat /\ DOMAIN q = 1 .. Len(q) /\ \A i \in 1 .. Len(q) : q[i] \in S
  BY LenProperties, ElementOfSeq
<1>2. Realtime!Range(q) = Placed(q) /\ Placed(q) \subseteq S
  BY <1>1 DEF Realtime!Range, Placed
<1>3. q # <<>> => 1 \in 1 .. Len(q)
  <2>1. q # <<>> => Len(q) \in Nat \ {0}
    BY EmptySeq
  <2> QED  BY <2>1
<1>4. Placed(<<>>) = {}
  <2>1. Len(<<>>) = 0 /\ 1 .. 0 = {}
    BY EmptySeq
  <2> QED  BY <2>1 DEF Placed
<1> QED  BY <1>1, <1>2, <1>3, <1>4 DEF Placed

\* One more at the end.
LEMMA AppendPlaces ==
    ASSUME NEW S, NEW q \in Seq(S), NEW x \in S
    PROVE  /\ Append(q, x) \in Seq(S) /\ Append(q, x) # <<>>
           /\ Placed(Append(q, x)) = Placed(q) \cup {x}
           /\ Single(q) /\ x \notin Placed(q) => Single(Append(q, x))
           /\ q # <<>> => Append(q, x)[1] = q[1]
           /\ q = <<>> => Append(q, x)[1] = x
<1> DEFINE p == Append(q, x)
           n == Len(q)
<1>1. p \in Seq(S) /\ Len(p) = n + 1 /\ p[n + 1] = x /\ \A i \in 1 .. n : p[i] = q[i]
  BY AppendProperties
<1>2. n \in Nat /\ (q = <<>> <=> Placed(q) = {})
  BY PlacedIs
<1>3. Placed(q) = {q[i] : i \in 1 .. n} /\ Placed(p) = {p[i] : i \in 1 .. n + 1}
  BY <1>1 DEF Placed
<1>4. q = <<>> => n = 0
  BY EmptySeq
<1>5. q # <<>> => n # 0
  BY EmptySeq
<1> HIDE DEF p
<1>6. 1 .. n + 1 = (1 .. n) \cup {n + 1} /\ (n # 0 => 1 \in 1 .. n)
  BY <1>2
<1>7. p # <<>>
  <2>1. n + 1 # 0
    BY <1>2
  <2> HIDE DEF n
  <2> QED  BY <1>1, <2>1, EmptySeq
<1> HIDE DEF n
<1>8. Placed(p) = Placed(q) \cup {x}
  BY <1>1, <1>3, <1>6
<1>9. ASSUME Single(q), x \notin Placed(q) PROVE Single(p)
  <2>1. \A i, j \in 1 .. n : q[i] = q[j] => i = j
    BY <1>9 DEF Single, n
  <2>2. \A i \in 1 .. n : p[i] = q[i] /\ p[i] # x
    BY <1>1, <1>3, <1>9
  <2>3. \A i, j \in 1 .. n + 1 : p[i] = p[j] => i = j
    BY <1>1, <1>6, <2>1, <2>2
  <2> QED  BY <1>1, <2>3 DEF Single
<1>10. (q # <<>> => p[1] = q[1]) /\ (q = <<>> => p[1] = x)
  BY <1>1, <1>4, <1>5, <1>6
<1> QED
  BY <1>1, <1>7, <1>8, <1>9, <1>10 DEF p

\* The first taken.
LEMMA TailPlaces ==
    ASSUME NEW S, NEW q \in Seq(S), q # <<>>, Single(q)
    PROVE  /\ Head(q) \in S /\ Head(q) = q[1] /\ Head(q) \in Placed(q) /\ Tail(q) \in Seq(S)
           /\ Placed(Tail(q)) = Placed(q) \ {Head(q)} /\ Single(Tail(q))
           /\ Len(q) # 1 => Tail(q) # <<>>
<1> DEFINE t == Tail(q)
           h == Head(q)
           n == Len(q)
<1>1. h \in S /\ t \in Seq(S) /\ Len(t) = n - 1 /\ \A i \in 1 .. Len(t) : t[i] = q[i + 1]
  BY HeadTailProperties
<1>2. h = q[1] /\ n \in Nat \ {0}
  BY EmptySeq
<1>3. Placed(q) = {q[i] : i \in 1 .. n} /\ \A i, j \in 1 .. n : q[i] = q[j] => i = j
  BY DEF Placed, Single
<1> HIDE DEF t, h, n
<1>4. /\ 1 \in 1 .. n /\ 1 .. Len(t) = 1 .. n - 1
      /\ \A i \in 1 .. n - 1 : i + 1 \in 1 .. n /\ i + 1 # 1 /\ t[i] = q[i + 1]
      /\ \A i \in 1 .. n : i # 1 => i - 1 \in 1 .. n - 1 /\ q[i] = t[i - 1]
  BY <1>1, <1>2
<1>5. Placed(t) = {t[i] : i \in 1 .. n - 1}
  BY <1>4 DEF Placed
<1>6. Placed(t) = Placed(q) \ {h}
  <2>1. \A x \in Placed(t) : x \in Placed(q) /\ x # h
    BY <1>2, <1>3, <1>4, <1>5
  <2>2. \A x \in Placed(q) \ {h} : x \in Placed(t)
    <3> SUFFICES ASSUME NEW x \in Placed(q), x # h PROVE x \in Placed(t)
      OBVIOUS
    <3>1. PICK i \in 1 .. n : x = q[i]
      BY <1>3
    <3>2. i # 1
      BY <1>2, <3>1
    <3>3. i - 1 \in 1 .. n - 1 /\ x = t[i - 1]
      BY <1>4, <3>1, <3>2
    <3> QED  BY <1>5, <3>3
  <2> QED  BY <2>1, <2>2
<1>7. Single(t)
  <2> SUFFICES ASSUME NEW i \in 1 .. n - 1, NEW j \in 1 .. n - 1, t[i] = t[j] PROVE i = j
    BY <1>4 DEF Single
  <2>1. i + 1 = j + 1
    BY <1>3, <1>4
  <2> QED  BY <1>2, <2>1
<1>8. n # 1 => t # <<>>
  <2>1. n # 1 => Len(t) # 0
    BY <1>1, <1>2
  <2> QED  BY <2>1, EmptySeq
<1>9. h \in Placed(q)
  BY <1>2, <1>3, <1>4
<1> QED
  BY <1>1, <1>2, <1>6, <1>7, <1>8, <1>9 DEF t, h, n

\* Two, one after the other.
LEMMA ConcatPlaces ==
    ASSUME NEW S, NEW p \in Seq(S), NEW q \in Seq(S)
    PROVE  /\ p \o q \in Seq(S) /\ Placed(p \o q) = Placed(p) \cup Placed(q)
           /\ Single(p) /\ Single(q) /\ Placed(p) \cap Placed(q) = {} => Single(p \o q)
<1> DEFINE r == p \o q
           m == Len(p)
           n == Len(q)
<1>1. /\ r \in Seq(S) /\ Len(r) = m + n
      /\ \A i \in 1 .. m + n : r[i] = IF i <= m THEN p[i] ELSE q[i - m]
  BY ConcatProperties
<1>2. m \in Nat /\ n \in Nat
  BY LenProperties
<1>3. Placed(p) = {p[i] : i \in 1 .. m} /\ Placed(q) = {q[i] : i \in 1 .. n}
  BY DEF Placed
<1> HIDE DEF r
<1>4. Placed(r) = {r[i] : i \in 1 .. m + n}
  BY <1>1 DEF Placed
<1>5. ASSUME Single(p), Single(q), Placed(p) \cap Placed(q) = {} PROVE Single(r)
  <2>1. /\ \A i, j \in 1 .. m : p[i] = p[j] => i = j
        /\ \A i, j \in 1 .. n : q[i] = q[j] => i = j
    BY <1>5 DEF Single
  <2> HIDE DEF m, n
  <2>2. \A i \in 1 .. m + n : (i <= m => i \in 1 .. m) /\ (~ (i <= m) => i - m \in 1 .. n)
    BY <1>2
  <2>3. \A i \in 1 .. m, j \in 1 .. n : p[i] # q[j]
    BY <1>3, <1>5
  <2>4. ASSUME NEW i \in 1 .. m + n, NEW j \in 1 .. m + n, r[i] = r[j] PROVE i = j
    <3>1. CASE i <= m /\ j <= m
      BY <1>1, <2>1, <2>2, <2>4, <3>1
    <3>2. CASE ~ (i <= m) /\ ~ (j <= m)
      <4>1. i - m = j - m
        BY <1>1, <2>1, <2>2, <2>4, <3>2
      <4> QED  BY <1>2, <4>1
    <3>3. CASE (i <= m /\ ~ (j <= m)) \/ (~ (i <= m) /\ j <= m)
      BY <1>1, <2>2, <2>3, <2>4, <3>3
    <3> QED  BY <3>1, <3>2, <3>3
  <2> QED  BY <1>1, <2>4 DEF Single
<1> HIDE DEF m, n
<1>6. Placed(r) = Placed(p) \cup Placed(q)
  <2>1. \A i \in 1 .. m : i \in 1 .. m + n /\ r[i] = p[i]
    BY <1>1, <1>2
  <2>2. \A i \in 1 .. n : i + m \in 1 .. m + n /\ r[i + m] = q[i]
    BY <1>1, <1>2
  <2>3. \A i \in 1 .. m + n : (i \in 1 .. m /\ r[i] = p[i]) \/ (i - m \in 1 .. n /\ r[i] = q[i - m])
    BY <1>1, <1>2
  <2> QED  BY <1>3, <1>4, <2>1, <2>2, <2>3
<1> QED
  BY <1>1, <1>5, <1>6 DEF r

\* The frames of a turn.
LEMMA FramesAre ==
    ASSUME host \in {"openai", "google"}, NEW c \in Callers, NEW n \in Numbers
    PROVE  /\ Realtime!FramesOf(<<c, n>>) \in Seq(Frames) /\ Realtime!FramesOf(<<c, n>>) # <<>>
           /\ Single(Realtime!FramesOf(<<c, n>>)) /\ Placed(Realtime!FramesOf(<<c, n>>)) = AllOf(<<c, n>>)
           /\ \A f \in AllOf(<<c, n>>) : f \in Frames /\ f[1] = c /\ f[2] = n
<1> DEFINE k == IF host = "openai" THEN 2 ELSE 1
           q == [i \in 1 .. k |-> <<c, n>> \o <<i>>]
<1>1. \A i \in {1, 2} : <<c, n>> \o <<i>> = <<c, n, i>>
  <2> SUFFICES ASSUME NEW i \in {1, 2} PROVE <<c, n>> \o <<i>> = <<c, n, i>>
    OBVIOUS
  <2> DEFINE a == <<c, n>>
             b == <<i>>
             z == <<c, n, i>>
             S == {c, n, i}
  <2>1. /\ a \in Seq(S) /\ Len(a) = 2 /\ a[1] = c /\ a[2] = n
        /\ b \in Seq(S) /\ Len(b) = 1 /\ b[1] = i
        /\ z \in Seq(S) /\ Len(z) = 3 /\ z[1] = c /\ z[2] = n /\ z[3] = i
    OBVIOUS
  <2> HIDE DEF a, b, z, S
  <2>2. /\ a \o b \in Seq(S) /\ Len(a \o b) = 2 + 1
        /\ \A j \in 1 .. 2 + 1 : (a \o b)[j] = IF j <= 2 THEN a[j] ELSE b[j - 2]
    <3>1. a \in Seq(S) /\ b \in Seq(S)
      BY <2>1
    <3>2. /\ a \o b \in Seq(S) /\ Len(a \o b) = Len(a) + Len(b)
          /\ \A j \in 1 .. Len(a) + Len(b) : (a \o b)[j] = IF j <= Len(a) THEN a[j] ELSE b[j - Len(a)]
      BY <3>1, ConcatProperties
    <3>3. Len(a) = 2 /\ Len(b) = 1
      BY <2>1
    <3> QED  BY <3>2, <3>3
  <2>3. \A j \in 1 .. 3 : (a \o b)[j] = z[j]
    <3>1. (a \o b)[1] = c /\ (a \o b)[2] = n /\ (a \o b)[3] = i
      BY <2>1, <2>2
    <3>2. \A j \in 1 .. 3 : j = 1 \/ j = 2 \/ j = 3
      OBVIOUS
    <3> QED  BY <2>1, <3>1, <3>2
  <2>4. a \o b = z
    BY <2>1, <2>2, <2>3, SeqEqual
  <2> QED  BY <2>4 DEF a, b, z
<1>2. k \in {1, 2} /\ 1 .. k \subseteq {1, 2} /\ 1 \in 1 .. k /\ k \in Nat
  OBVIOUS
<1> HIDE DEF k
<1>3. \A i \in 1 .. k : <<c, n, i>> \in Frames
  BY <1>2 DEF Frames
<1>4. q = [i \in 1 .. k |-> <<c, n, i>>]
  BY <1>1, <1>2
<1> HIDE DEF q
<1>5. q \in Seq(Frames) /\ Len(q) = k
  BY <1>2, <1>3, <1>4
<1>6. Single(q)
  <2>1. \A i, j \in 1 .. k : q[i] = <<c, n, i>> /\ q[j] = <<c, n, j>>
    BY <1>4
  <2> QED  BY <1>5, <2>1 DEF Single
<1>7. Placed(q) = {<<c, n, i>> : i \in 1 .. k} /\ AllOf(<<c, n>>) = {<<c, n, i>> : i \in 1 .. k}
  <2>1. AllOf(<<c, n>>) = {<<c, n>> \o <<i>> : i \in 1 .. k}
    BY DEF AllOf, k
  <2>2. AllOf(<<c, n>>) = {<<c, n, i>> : i \in 1 .. k}
    BY <1>1, <1>2, <2>1
  <2>3. Placed(q) = {q[i] : i \in 1 .. k}
    BY <1>5 DEF Placed
  <2> QED  BY <1>4, <2>2, <2>3
<1>8. q # <<>>
  BY <1>2, <1>5, EmptySeq
<1>9. Realtime!FramesOf(<<c, n>>) = q
  BY DEF Realtime!FramesOf, q, k
<1>10. \A f \in AllOf(<<c, n>>) : f \in Frames /\ f[1] = c /\ f[2] = n
  <2> SUFFICES ASSUME NEW i \in 1 .. k PROVE <<c, n, i>> \in Frames /\ <<c, n, i>>[1] = c /\ <<c, n, i>>[2] = n
    BY <1>7
  <2> QED  BY <1>3
<1> QED
  BY <1>5, <1>6, <1>7, <1>8, <1>9, <1>10

\* A frame is no handshake.
LEMMA FrameIs ==
    \A f \in Frames : f # <<>> /\ f[1] \in Callers /\ f[2] \in Nat /\ f[2] # 0
<1> SUFFICES ASSUME NEW f \in Frames PROVE f # <<>> /\ f[1] \in Callers /\ f[2] \in Nat /\ f[2] # 0
  OBVIOUS
<1>1. PICK c \in Callers, n \in Numbers, i \in {1, 2} : f = <<c, n, i>>
  BY DEF Frames
<1>2. Len(<<c, n, i>>) = 3 /\ Len(<<>>) = 0
  OBVIOUS
<1>3. <<c, n, i>> # <<>>
  BY <1>2
<1>4. n \in Nat /\ n # 0
  BY DEF Numbers
<1> QED  BY <1>1, <1>3, <1>4

-----------------------------------------------------------------------------
\* A session begins with nothing said.
LEMMA SessionStarts == Realtime!Init => SessionIInv
<1> SUFFICES ASSUME Realtime!Init PROVE SessionIInv
  OBVIOUS
<1>1. /\ host \in {"openai", "google"} /\ opener = "none" /\ reader = "none" /\ ready = FALSE /\ cut = FALSE
      /\ outbox = <<>> /\ flushing = <<>> /\ wire = <<>> /\ events = <<>> /\ held = {}
      /\ caller = [c \in Callers |-> [pc |-> "idle", turn |-> 0, left |-> <<>>]]
  BY DEF Realtime!Init, Realtime!Resting
<1>2. /\ <<>> \in Seq(Frames) /\ <<>> \in Seq(Frames \cup {<<>>}) /\ <<>> \in Seq({"open", "message", "error", "end"})
      /\ Len(<<>>) = 0 /\ 1 .. 0 = {}
  BY EmptySeq
<1>3. Placed(<<>>) = {} /\ Single(<<>>)
  BY <1>2 DEF Placed, Single
<1>4. SessionTyped
  <2>1. MaxTurns \in Nat
    BY AroundAssumption
  <2>2. [pc |-> "idle", turn |-> 0, left |-> <<>>] \in Sendings
    BY <1>2, <2>1 DEF Sendings
  <2> QED  BY <1>1, <1>2, <2>2 DEF SessionTyped
<1>5. Shaken
  BY <1>1 DEF Shaken
<1>6. Apart
  BY <1>1, <1>3 DEF Apart
<1>7. HeldOn /\ Ending
  BY <1>1, <1>2 DEF HeldOn, Ending
<1> QED
  BY <1>4, <1>5, <1>6, <1>7 DEF SessionIInv

\* Before the reader is done there is no END, and what it puts is last.
LEMMA PutEnds ==
    ASSUME SessionIInv, reader # "done", NEW x \in {"open", "message", "error", "end"}, events' = Append(events, x),
           x = "end" => reader' = "done"
    PROVE  events' \in Seq({"open", "message", "error", "end"}) /\ Ending'
<1> DEFINE n == Len(events)
<1>1. /\ events' \in Seq({"open", "message", "error", "end"}) /\ Len(events') = n + 1 /\ events'[n + 1] = x
      /\ \A i \in 1 .. n : events'[i] = events[i]
  BY AppendProperties DEF SessionIInv, SessionTyped
<1>2. n \in Nat /\ \A i \in 1 .. n : events[i] # "end"
  BY LenProperties DEF SessionIInv, SessionTyped, Ending
<1> HIDE DEF n
<1>3. 1 .. n + 1 = (1 .. n) \cup {n + 1}
  BY <1>2
<1> QED
  BY <1>1, <1>2, <1>3 DEF Ending

\* Where nothing is put, and where one is read, END stays last.
LEMMA StaysEnded ==
    ASSUME SessionIInv, reader = "done" => reader' = "done",
           events' = events \/ (events # <<>> /\ events' = Tail(events))
    PROVE  events' \in Seq({"open", "message", "error", "end"}) /\ Ending'
<1>1. CASE events' = events
  BY <1>1 DEF SessionIInv, SessionTyped, Ending
<1>2. CASE events # <<>> /\ events' = Tail(events)
  <2> DEFINE n == Len(events)
  <2>1. /\ events' \in Seq({"open", "message", "error", "end"}) /\ Len(events') = n - 1
        /\ \A i \in 1 .. Len(events') : events'[i] = events[i + 1]
    BY <1>2, HeadTailProperties DEF SessionIInv, SessionTyped
  <2>2. n \in Nat /\ \A i \in 1 .. n : events[i] = "end" => i = n /\ reader = "done"
    BY LenProperties DEF SessionIInv, SessionTyped, Ending
  <2> HIDE DEF n
  <2>3. \A i \in 1 .. n - 1 : events'[i] = events[i + 1] /\ i + 1 \in 1 .. n /\ (i + 1 = n => i = n - 1)
    BY <2>1, <2>2
  <2>4. \A i \in 1 .. n - 1 : events'[i] = "end" => i = n - 1 /\ reader' = "done"
    BY <2>2, <2>3
  <2> QED  BY <2>1, <2>4 DEF Ending
<1> QED  BY <1>1, <1>2

\* A step that moves no frame.
LEMMA QuietKeeps ==
    ASSUME SessionIInv, UNCHANGED <<host, ready, cut, caller, outbox, flushing, wire, held>>,
           events' \in Seq({"open", "message", "error", "end"}), Ending',
           opener' = "none" => reader' = "none",
           reader' \in {"none", "connecting", "opening"} => reader \in {"none", "connecting", "opening"},
           reader' = "marking" => wire # <<>>,
           reader' \in {"swapping", "flushing"} => reader' = reader,
           reader = "swapping" => reader' = "swapping",
           reader = "flushing" => reader' = "flushing" \/ flushing = <<>>
    PROVE  SessionIInv'
<1>1. SessionTyped'
  BY DEF SessionIInv, SessionTyped
<1>2. Shaken'
  BY DEF SessionIInv, Shaken
<1>3. Apart'
  BY DEF SessionIInv, Apart, Begun
<1>4. HeldOn'
  BY DEF SessionIInv, HeldOn, AllOf
<1> QED
  BY <1>1, <1>2, <1>3, <1>4 DEF SessionIInv

\* The open, the close, the network and the consumer move no frame.
LEMMA OutsideKeeps ==
    ASSUME SessionIInv,
           \/ Realtime!OpenBegins \/ Realtime!OpenReturns \/ Realtime!OpenTimesOut \/ Realtime!Close \/ Realtime!Break
           \/ Realtime!Read \/ UNCHANGED Realtime!realtimeVars
    PROVE  SessionIInv'
<1>1. CASE Realtime!OpenBegins
  <2>1. /\ opener = "none" /\ opener' = "waiting" /\ reader' = "connecting" /\ events' = events
        /\ UNCHANGED <<host, ready, cut, caller, outbox, flushing, wire, held>>
    BY <1>1 DEF Realtime!OpenBegins
  <2>2. reader = "none"
    BY <2>1 DEF SessionIInv, Shaken
  <2>3. events' \in Seq({"open", "message", "error", "end"}) /\ Ending'
    BY <2>1, <2>2, StaysEnded
  <2> QED  BY <2>1, <2>2, <2>3, QuietKeeps
<1>2. CASE Realtime!OpenReturns \/ Realtime!OpenTimesOut \/ Realtime!Close \/ Realtime!Break
  <2>1. /\ reader' = reader /\ events' = events /\ (opener' = "none" => opener = "none")
        /\ UNCHANGED <<host, ready, cut, caller, outbox, flushing, wire, held>>
    BY <1>2 DEF Realtime!OpenReturns, Realtime!OpenTimesOut, Realtime!Close, Realtime!Break
  <2>2. events' \in Seq({"open", "message", "error", "end"}) /\ Ending'
    BY <2>1, StaysEnded
  <2>3. (opener' = "none" => reader' = "none") /\ (reader' = "marking" => wire # <<>>)
    BY <2>1 DEF SessionIInv, Shaken
  <2> QED  BY <2>1, <2>2, <2>3, QuietKeeps
<1>3. CASE Realtime!Read \/ UNCHANGED Realtime!realtimeVars
  <2>1. /\ reader' = reader /\ opener' = opener
        /\ events' = events \/ (events # <<>> /\ events' = Tail(events))
        /\ UNCHANGED <<host, ready, cut, caller, outbox, flushing, wire, held>>
    BY <1>3 DEF Realtime!Read, Realtime!realtimeVars
  <2>2. events' \in Seq({"open", "message", "error", "end"}) /\ Ending'
    BY <2>1, StaysEnded
  <2>3. (opener' = "none" => reader' = "none") /\ (reader' = "marking" => wire # <<>>)
    BY <2>1 DEF SessionIInv, Shaken
  <2> QED  BY <2>1, <2>2, <2>3, QuietKeeps
<1> QED
  BY <1>1, <1>2, <1>3

\* The steps of the reader that move no frame: it fails, finds itself ready already, pumps and ends.
LEMMA ReaderQuiet ==
    ASSUME SessionIInv, Realtime!Connect \/ Realtime!Pump \/ Realtime!End \/ (Realtime!MarkReady /\ ready)
    PROVE  SessionIInv'
<1>0. opener = "none" => reader = "none"
  BY DEF SessionIInv, Shaken
<1>1. CASE Realtime!Connect
  <2>1. /\ reader = "connecting" /\ reader' \in {"opening", "ending"} /\ events' = events /\ opener' = opener
        /\ UNCHANGED <<host, ready, cut, caller, outbox, flushing, wire, held>>
    BY <1>1 DEF Realtime!Connect
  <2>2. events' \in Seq({"open", "message", "error", "end"}) /\ Ending'
    BY <2>1, StaysEnded
  <2> QED  BY <1>0, <2>1, <2>2, QuietKeeps
<1>2. CASE Realtime!Pump
  <2>1. /\ reader = "pumping" /\ reader' \in {"pumping", "ending", "marking"} /\ opener' = opener
        /\ events' = events \/ \E x \in {"message", "error"} : events' = Append(events, x)
        /\ UNCHANGED <<host, ready, cut, caller, outbox, flushing, wire, held>>
        /\ reader' = "marking" => <<>> \in Realtime!Range(wire)
    BY <1>2 DEF Realtime!Pump, Realtime!Put
  <2>2. events' \in Seq({"open", "message", "error", "end"}) /\ Ending'
    BY <2>1, StaysEnded, PutEnds
  <2>3. reader' = "marking" => wire # <<>>
    BY <2>1, PlacedIs DEF SessionIInv, SessionTyped
  <2> QED  BY <1>0, <2>1, <2>2, <2>3, QuietKeeps
<1>3. CASE Realtime!End
  <2>1. /\ reader = "ending" /\ reader' = "done" /\ opener' = opener
        /\ events' = events \/ events' = Append(events, "end")
        /\ UNCHANGED <<host, ready, cut, caller, outbox, flushing, wire, held>>
    BY <1>3 DEF Realtime!End, Realtime!Ended, Realtime!Put
  <2>2. events' \in Seq({"open", "message", "error", "end"}) /\ Ending'
    BY <2>1, StaysEnded, PutEnds
  <2> QED  BY <1>0, <2>1, <2>2, QuietKeeps
<1>4. CASE Realtime!MarkReady /\ ready
  <2>1. /\ reader = "marking" /\ reader' = "pumping" /\ opener' = opener /\ events' = events /\ ready' = TRUE
        /\ UNCHANGED <<host, cut, caller, outbox, flushing, wire, held>>
    BY <1>4 DEF Realtime!MarkReady
  <2>2. events' \in Seq({"open", "message", "error", "end"}) /\ Ending'
    BY <2>1, StaysEnded
  <2>3. ready' = ready
    BY <1>4, <2>1 DEF SessionIInv, SessionTyped
  <2> QED  BY <1>0, <2>1, <2>2, <2>3, QuietKeeps
<1> QED
  BY <1>1, <1>2, <1>3, <1>4

\* The handshake is the first frame, and the only one of its kind.
LEMMA HandshakeKeeps ==
    ASSUME SessionIInv, Realtime!Handshake
    PROVE  SessionIInv'
<1>1. /\ reader = "opening" /\ UNCHANGED <<host, opener, ready, cut, caller, outbox, flushing, held>>
      /\ reader' \in {"ending", "marking", "pumping"}
      /\ events' = events \/ events' = Append(events, "error")
      /\ wire' = Append(wire, <<>>) \/ (wire' = wire /\ reader' # "marking")
  BY DEF Realtime!Handshake, Realtime!Put
<1>2. wire = <<>> /\ ~ ready /\ (opener = "none" => reader = "none")
  BY <1>1 DEF SessionIInv, Shaken
<1>3. events' \in Seq({"open", "message", "error", "end"}) /\ Ending'
  BY <1>1, StaysEnded, PutEnds
<1>4. CASE wire' = wire /\ reader' # "marking"
  BY <1>1, <1>2, <1>3, <1>4, QuietKeeps
<1>5. CASE wire' = Append(wire, <<>>)
  <2>1. /\ wire' \in Seq(Frames \cup {<<>>}) /\ wire' # <<>> /\ wire'[1] = <<>> /\ Single(wire')
        /\ Placed(wire') = {<<>>}
    <3>1. wire \in Seq(Frames \cup {<<>>}) /\ <<>> \in Frames \cup {<<>>} /\ Single(wire)
      BY DEF SessionIInv, SessionTyped, Apart
    <3>2. Placed(wire) = {}
      BY <1>2, <3>1, PlacedIs
    <3> DEFINE S == Frames \cup {<<>>}
               x == <<>>
    <3>3. wire \in Seq(S) /\ x \in S /\ Single(wire) /\ x \notin Placed(wire)
      BY <3>1, <3>2
    <3> HIDE DEF S, x
    <3>4. /\ Append(wire, x) \in Seq(S) /\ Append(wire, x) # <<>> /\ Placed(Append(wire, x)) = Placed(wire) \cup {x}
          /\ Single(Append(wire, x)) /\ (wire = <<>> => Append(wire, x)[1] = x)
      BY <3>3, AppendPlaces
    <3> QED  BY <1>2, <1>5, <3>2, <3>4 DEF S, x
  <2>2. SessionTyped'
    BY <1>1, <1>3, <2>1 DEF SessionIInv, SessionTyped
  <2>3. Shaken'
    BY <1>1, <1>2, <2>1 DEF SessionIInv, Shaken
  <2>4. <<>> \notin Placed(flushing) \cup Placed(outbox) /\ \A c \in Callers : <<>> \notin Placed(caller[c].left)
    <3>1. flushing \in Seq(Frames) /\ outbox \in Seq(Frames) /\ \A c \in Callers : caller[c].left \in Seq(Frames)
      BY DEF SessionIInv, SessionTyped, Sendings
    <3>2. Placed(flushing) \subseteq Frames /\ Placed(outbox) \subseteq Frames /\ \A c \in Callers : Placed(caller[c].left) \subseteq Frames
      BY <3>1, PlacedIs
    <3> QED  BY <3>2, FrameIs
  <2>5. Apart'
    BY <1>1, <2>1, <2>4 DEF SessionIInv, Apart, Begun
  <2>6. HeldOn'
    <3>1. Placed(wire) = {}
      BY <1>2, PlacedIs DEF SessionIInv, SessionTyped
    <3> QED  BY <1>1, <1>2, <2>1, <3>1 DEF SessionIInv, HeldOn, AllOf
  <2> QED  BY <1>3, <2>2, <2>3, <2>5, <2>6 DEF SessionIInv
<1> QED
  BY <1>1, <1>4, <1>5

\* A session that becomes ready has what it held still in the outbox.
LEMMA MarkReadyKeeps ==
    ASSUME SessionIInv, Realtime!MarkReady, ~ ready
    PROVE  SessionIInv'
<1>1. /\ reader = "marking" /\ reader' = "swapping" /\ ready' = TRUE /\ events' = events
      /\ UNCHANGED <<host, opener, cut, caller, outbox, flushing, wire, held>>
  BY DEF Realtime!MarkReady
<1>2. Ending'
  BY <1>1, StaysEnded
<1>3. SessionTyped'
  BY <1>1 DEF SessionIInv, SessionTyped
<1>4. Shaken'
  BY <1>1 DEF SessionIInv, Shaken
<1>5. Apart'
  BY <1>1 DEF SessionIInv, Apart, Begun
<1>6. HeldOn'
  BY <1>1 DEF SessionIInv, HeldOn, AllOf
<1> QED
  BY <1>2, <1>3, <1>4, <1>5, <1>6 DEF SessionIInv

\* The frames of the outbox become those of the flush.
LEMMA TakeKeeps ==
    ASSUME SessionIInv, Realtime!TakeOutbox
    PROVE  SessionIInv'
<1>1. /\ reader = "swapping" /\ reader' = "flushing" /\ flushing' = outbox /\ outbox' = <<>> /\ events' = events
      /\ UNCHANGED <<host, opener, ready, cut, caller, wire, held>>
  BY DEF Realtime!TakeOutbox
<1>2. Ending'
  BY <1>1, StaysEnded
<1>3. <<>> \in Seq(Frames) /\ Placed(<<>>) = {} /\ Single(<<>>)
  <2>1. <<>> \in Seq(Frames) /\ Len(<<>>) = 0 /\ 1 .. 0 = {}
    BY EmptySeq
  <2> QED  BY <2>1 DEF Placed, Single
<1>4. SessionTyped'
  BY <1>1, <1>3 DEF SessionIInv, SessionTyped
<1>5. Shaken'
  BY <1>1 DEF SessionIInv, Shaken
<1>6. Apart'
  BY <1>1, <1>3 DEF SessionIInv, Apart, Begun
<1>7. HeldOn'
  <2>1. ~ cut => flushing = <<>>
    BY <1>1 DEF SessionIInv, HeldOn
  <2>2. \A t \in held : AllOf(t)' = AllOf(t)
    BY <1>1 DEF AllOf
  <2> QED  BY <1>1, <1>3, <2>1, <2>2 DEF SessionIInv, HeldOn
<1> QED
  BY <1>2, <1>4, <1>5, <1>6, <1>7 DEF SessionIInv

\* A frame of the flush goes to the wire, or the rest of the flush nowhere.
LEMMA FlushKeeps ==
    ASSUME SessionIInv, Realtime!Flush
    PROVE  SessionIInv'
<1>1. /\ reader = "flushing" /\ UNCHANGED <<host, opener, ready, outbox, caller, held>>
      /\ reader' \in {"flushing", "pumping"}
      /\ \/ /\ flushing # <<>> /\ wire' = Append(wire, Head(flushing)) /\ flushing' = Tail(flushing)
            /\ \/ UNCHANGED <<reader, events, cut>>
               \/ cut' = TRUE /\ events' = Append(events, "error")
         \/ cut' = TRUE /\ flushing' = <<>> /\ events' = Append(events, "error") /\ wire' = wire
         \/ flushing = <<>> /\ events' = Append(events, "open") /\ UNCHANGED <<flushing, wire, cut>>
  BY DEF Realtime!Flush, Realtime!Put
<1>2. ready /\ wire # <<>> /\ wire[1] = <<>> /\ opener # "none" /\ outbox = <<>>
  BY <1>1 DEF SessionIInv, Shaken, HeldOn
<1>3. events' \in Seq({"open", "message", "error", "end"}) /\ Ending'
  BY <1>1, StaysEnded, PutEnds
<1>4. /\ flushing \in Seq(Frames) /\ wire \in Seq(Frames \cup {<<>>}) /\ Single(flushing) /\ Single(wire)
      /\ Placed(wire) \cap Placed(flushing) = {}
  BY DEF SessionIInv, SessionTyped, Apart
<1>5. CASE /\ flushing # <<>> /\ wire' = Append(wire, Head(flushing)) /\ flushing' = Tail(flushing)
           /\ \/ UNCHANGED <<reader, events, cut>>
              \/ cut' = TRUE /\ events' = Append(events, "error")
  <2> DEFINE x == Head(flushing)
  <2>1. /\ x \in Frames /\ x \in Placed(flushing) /\ flushing' \in Seq(Frames)
        /\ Placed(flushing') = Placed(flushing) \ {x} /\ Single(flushing')
    BY <1>4, <1>5, TailPlaces
  <2> HIDE DEF x
  <2>2. x \in Frames \cup {<<>>} /\ x \notin Placed(wire)
    BY <1>4, <2>1
  <2>3. wire' = Append(wire, x)
    BY <1>5 DEF x
  <2>4. /\ wire' \in Seq(Frames \cup {<<>>}) /\ wire' # <<>> /\ Placed(wire') = Placed(wire) \cup {x}
        /\ Single(wire') /\ wire'[1] = <<>>
    BY <1>2, <1>4, <2>2, <2>3, AppendPlaces
  <2>5. SessionTyped'
    BY <1>1, <1>3, <1>5, <2>1, <2>4 DEF SessionIInv, SessionTyped
  <2>6. Shaken'
    BY <1>1, <1>2, <2>4 DEF SessionIInv, Shaken
  <2>7. Apart'
    BY <1>1, <2>1, <2>4 DEF SessionIInv, Apart, Begun
  <2>8. HeldOn'
    <3>1. \A t \in held : AllOf(t)' = AllOf(t)
      BY <1>1 DEF AllOf
    <3>2. Placed(wire') \cup Placed(flushing') = Placed(wire) \cup Placed(flushing)
      BY <2>1, <2>4
    <3> QED  BY <1>1, <1>2, <1>5, <3>1, <3>2 DEF SessionIInv, HeldOn
  <2> QED  BY <1>3, <2>5, <2>6, <2>7, <2>8 DEF SessionIInv
<1>6. CASE cut' = TRUE /\ flushing' = <<>> /\ events' = Append(events, "error") /\ wire' = wire
  <2>1. <<>> \in Seq(Frames) /\ Placed(<<>>) = {} /\ Single(<<>>)
    <3>1. <<>> \in Seq(Frames) /\ Len(<<>>) = 0 /\ 1 .. 0 = {}
      BY EmptySeq
    <3> QED  BY <3>1 DEF Placed, Single
  <2>2. SessionTyped'
    BY <1>1, <1>3, <1>6, <2>1 DEF SessionIInv, SessionTyped
  <2>3. Shaken'
    BY <1>1, <1>2, <1>6 DEF SessionIInv, Shaken
  <2>4. Apart'
    BY <1>1, <1>6, <2>1 DEF SessionIInv, Apart, Begun
  <2>5. HeldOn'
    BY <1>1, <1>2, <1>6 DEF SessionIInv, HeldOn
  <2> QED  BY <1>3, <2>2, <2>3, <2>4, <2>5 DEF SessionIInv
<1>7. CASE flushing = <<>> /\ events' = Append(events, "open") /\ UNCHANGED <<flushing, wire, cut>>
  BY <1>1, <1>2, <1>3, <1>7, QuietKeeps
<1> QED
  BY <1>1, <1>5, <1>6, <1>7

-----------------------------------------------------------------------------
\* A caller that goes on with a turn, or begins the next, has the frames there were from turns begun.
LEMMA CallerMoves ==
    ASSUME SessionIInv, NEW c \in Callers, NEW o \in Sendings, caller' = [caller EXCEPT ![c] = o],
           \/ o.turn = caller[c].turn /\ (o.pc = "looked" => caller[c].pc = "looked")
           \/ o.turn = caller[c].turn + 1
    PROVE  /\ caller' \in [Callers -> Sendings]
           /\ \A d \in Callers : caller'[d] = IF d = c THEN o ELSE caller[d]
           /\ \A f \in Frames : Begun(f) => Begun(f)'
<1>1. caller \in [Callers -> Sendings]
  BY DEF SessionIInv, SessionTyped
<1>2. /\ caller' \in [Callers -> Sendings]
      /\ \A d \in Callers : caller'[d] = IF d = c THEN o ELSE caller[d]
  BY <1>1
<1>3. \A d \in Callers : caller[d].turn \in Nat
  BY <1>1 DEF Sendings
<1>4. ASSUME NEW f \in Frames, Begun(f) PROVE Begun(f)'
  <2>1. f[1] \in Callers /\ f[2] \in Nat
    BY FrameIs
  <2>2. f[2] <= caller[f[1]].turn /\ (caller[f[1]].pc = "looked" => f[2] < caller[f[1]].turn)
    BY <1>4 DEF Begun
  <2>3. CASE f[1] # c
    BY <1>2, <2>1, <2>2, <2>3 DEF Begun
  <2>4. CASE f[1] = c
    <3>1. f[2] <= o.turn /\ (o.pc = "looked" => f[2] < o.turn)
      BY <1>3, <2>1, <2>2, <2>4
    <3>2. caller'[f[1]] = o
      BY <1>2, <2>1, <2>4
    <3> QED  BY <3>1, <3>2 DEF Begun
  <2> QED  BY <2>3, <2>4
<1> QED
  BY <1>2, <1>4

\* What is anywhere but in hand is of a turn begun, and what is in hand is typed.
LEMMA HandsTyped ==
    ASSUME SessionIInv, NEW c \in Callers
    PROVE  /\ caller[c].turn \in 0 .. MaxTurns /\ caller[c].left \in Seq(Frames) /\ caller[c].pc \in {"idle", "looked", "sending"}
           /\ Placed(caller[c].left) \subseteq Frames
           /\ Placed(flushing) \subseteq Frames /\ Placed(outbox) \subseteq Frames
           /\ \A f \in Placed(wire) : f = <<>> \/ f \in Frames
           /\ \A f \in Frames :
                 f[1] = c /\ f[2] = caller[c].turn + 1 => f \notin Placed(wire) \cup Placed(flushing) \cup Placed(outbox)
           /\ caller[c].pc = "looked" =>
                 \A f \in Frames : f[1] = c /\ f[2] = caller[c].turn => f \notin Placed(wire) \cup Placed(flushing) \cup Placed(outbox)
<1>1. caller[c] \in Sendings /\ flushing \in Seq(Frames) /\ outbox \in Seq(Frames) /\ wire \in Seq(Frames \cup {<<>>})
  BY DEF SessionIInv, SessionTyped
<1>2. caller[c].turn \in 0 .. MaxTurns /\ caller[c].left \in Seq(Frames) /\ caller[c].pc \in {"idle", "looked", "sending"}
  BY <1>1 DEF Sendings
<1>3. /\ Placed(caller[c].left) \subseteq Frames
      /\ Placed(flushing) \subseteq Frames /\ Placed(outbox) \subseteq Frames
  BY <1>1, <1>2, PlacedIs
<1>4. \A f \in Placed(wire) : f = <<>> \/ f \in Frames
  <2>1. Placed(wire) \subseteq Frames \cup {<<>>}
    BY <1>1, PlacedIs
  <2> QED  BY <2>1
<1>5. \A f \in Frames : f[1] = c /\ f \in Placed(wire) \cup Placed(flushing) \cup Placed(outbox)
                            => f[2] <= caller[c].turn /\ (caller[c].pc = "looked" => f[2] < caller[c].turn)
  BY FrameIs DEF SessionIInv, Apart, Begun
<1>6. \A f \in Frames : f[2] = caller[c].turn + 1 => ~ (f[2] <= caller[c].turn)
  BY <1>2
<1>7. \A f \in Frames : f[2] = caller[c].turn => ~ (f[2] < caller[c].turn)
  BY <1>2
<1> QED
  BY <1>2, <1>3, <1>4, <1>5, <1>6, <1>7

\* A caller that sends at once has the frames of a new turn in hand, and one that finds the session not ready has none.
LEMMA SendKeeps ==
    ASSUME SessionIInv, NEW c \in Callers, Realtime!Send(c)
    PROVE  SessionIInv'
<1> DEFINE t == caller[c].turn + 1
           q == Realtime!FramesOf(<<c, t>>)
           o == IF ready THEN [pc |-> "sending", turn |-> t, left |-> q] ELSE [pc |-> "looked", turn |-> t, left |-> <<>>]
<1>1. /\ opener # "none" /\ caller[c].pc = "idle" /\ caller[c].turn < MaxTurns
      /\ UNCHANGED <<host, opener, reader, ready, outbox, flushing, cut, held, events, wire>>
  BY DEF Realtime!Send
<1>2. /\ caller[c].turn \in 0 .. MaxTurns /\ caller[c].left \in Seq(Frames) /\ caller[c].left = <<>>
      /\ caller \in [Callers -> Sendings] /\ ready \in BOOLEAN /\ host \in {"openai", "google"}
  BY <1>1, HandsTyped DEF SessionIInv, SessionTyped, Shaken
<1>3. MaxTurns \in Nat
  BY AroundAssumption
<1>4. t \in Numbers /\ t \in 0 .. MaxTurns /\ t # 0
  BY <1>1, <1>2, <1>3 DEF Numbers
<1>5. caller' = [caller EXCEPT ![c] = o]
  <2>1. CASE ready
    BY <2>1 DEF Realtime!Send
  <2>2. CASE ~ ready
    <3>1. caller' = [caller EXCEPT ![c] = [caller[c] EXCEPT !.pc = "looked", !.turn = t]]
      BY <1>2, <2>2 DEF Realtime!Send
    <3> DEFINE y == [caller[c] EXCEPT !.pc = "looked"]
               z == [y EXCEPT !.turn = t]
    <3>2. [caller[c] EXCEPT !.pc = "looked", !.turn = t] = z
      OBVIOUS
    <3>3. y = [pc |-> "looked", turn |-> caller[c].turn, left |-> <<>>]
      BY <1>2 DEF Sendings
    <3> HIDE DEF y
    <3>4. z = [pc |-> "looked", turn |-> t, left |-> <<>>]
      BY <3>3
    <3> QED  BY <2>2, <3>1, <3>2, <3>4
  <2> QED  BY <2>1, <2>2
<1>6. /\ q \in Seq(Frames) /\ q # <<>> /\ Single(q) /\ Placed(q) = AllOf(<<c, t>>)
      /\ \A f \in Placed(q) : f \in Frames /\ f[1] = c /\ f[2] = t
  <2> HIDE DEF t
  <2> QED  BY <1>2, <1>4, FramesAre
<1>7. \A f \in Placed(q) : f \notin Placed(wire) \cup Placed(flushing) \cup Placed(outbox)
  BY <1>6, HandsTyped
<1>8. <<>> \in Seq(Frames) /\ Placed(<<>>) = {} /\ Single(<<>>)
  <2>1. <<>> \in Seq(Frames) /\ Len(<<>>) = 0 /\ 1 .. 0 = {}
    BY EmptySeq
  <2> QED  BY <2>1 DEF Placed, Single
<1> HIDE DEF q, t
<1>9. /\ o \in Sendings /\ o.turn = t /\ (o.pc = "looked" => t # 0) /\ (o.pc = "sending" => ready)
      /\ (o.pc = "sending" <=> o.left # <<>>) /\ Single(o.left)
      /\ o.left = q \/ o.left = <<>>
  BY <1>4, <1>6, <1>8 DEF Sendings
<1>10. \A f \in Placed(o.left) : f[1] = c /\ f[2] = o.turn /\ f \notin Placed(wire) \cup Placed(flushing) \cup Placed(outbox)
  BY <1>6, <1>7, <1>8, <1>9
<1> HIDE DEF o
<1>11. /\ caller' \in [Callers -> Sendings]
       /\ \A d \in Callers : caller'[d] = IF d = c THEN o ELSE caller[d]
       /\ \A f \in Frames : Begun(f) => Begun(f)'
  <2>1. o.turn = caller[c].turn + 1
    BY <1>9 DEF t
  <2> QED  BY <1>5, <1>9, <2>1, CallerMoves
<1>12. SessionTyped'
  BY <1>1, <1>11 DEF SessionIInv, SessionTyped
<1>13. Shaken'
  BY <1>1, <1>9, <1>11 DEF SessionIInv, Shaken
<1>14. Apart'
  <2>1. \A f \in Placed(wire) \cup Placed(flushing) \cup Placed(outbox) : f # <<>> => Begun(f)'
    BY <1>11, HandsTyped DEF SessionIInv, Apart
  <2>2. \A d \in Callers :
          /\ Single(caller'[d].left)
          /\ \A f \in Placed(caller'[d].left) :
                /\ f[1] = d /\ f[2] = caller'[d].turn
                /\ f \notin Placed(wire) \cup Placed(flushing) \cup Placed(outbox)
    BY <1>9, <1>10, <1>11 DEF SessionIInv, Apart
  <2> QED  BY <1>1, <2>1, <2>2 DEF SessionIInv, Apart
<1>15. HeldOn' /\ Ending'
  BY <1>1 DEF SessionIInv, HeldOn, Ending, AllOf
<1> QED
  BY <1>12, <1>13, <1>14, <1>15 DEF SessionIInv

\* A second look takes the frames in hand, or puts them in the outbox.
LEMMA LookAgainKeeps ==
    ASSUME SessionIInv, NEW c \in Callers, Realtime!LookAgain(c)
    PROVE  SessionIInv'
<1> DEFINE t == caller[c].turn
           q == Realtime!FramesOf(<<c, t>>)
           o == IF ready THEN [pc |-> "sending", turn |-> t, left |-> q] ELSE [pc |-> "idle", turn |-> t, left |-> <<>>]
<1>1. /\ caller[c].pc = "looked"
      /\ UNCHANGED <<host, opener, reader, ready, flushing, cut, events, wire>>
      /\ ready => outbox' = outbox /\ held' = held
      /\ ~ ready => outbox' = outbox \o q /\ held' = held \cup {<<c, t>>}
  BY DEF Realtime!LookAgain, Realtime!MaySend
<1>2. /\ caller[c].turn \in 0 .. MaxTurns /\ caller[c].left = <<>> /\ t # 0
      /\ caller \in [Callers -> Sendings] /\ ready \in BOOLEAN /\ host \in {"openai", "google"}
  BY <1>1, HandsTyped DEF SessionIInv, SessionTyped, Shaken
<1>3. MaxTurns \in Nat
  BY AroundAssumption
<1>4. t \in Numbers
  BY <1>2, <1>3 DEF Numbers
<1>5. caller' = [caller EXCEPT ![c] = o]
  <2> DEFINE y(p) == [caller[c] EXCEPT !.pc = p]
  <2>1. \A p : y(p) = [pc |-> p, turn |-> t, left |-> <<>>]
    BY <1>2 DEF Sendings
  <2>2. CASE ready
    <3>1. caller' = [caller EXCEPT ![c] = [caller[c] EXCEPT !.pc = "sending", !.left = q]]
      BY <1>2, <2>2 DEF Realtime!LookAgain, Realtime!MaySend
    <3> DEFINE z == [y("sending") EXCEPT !.left = q]
    <3>2. [caller[c] EXCEPT !.pc = "sending", !.left = q] = z
      OBVIOUS
    <3> HIDE DEF y, q
    <3>3. z = [pc |-> "sending", turn |-> t, left |-> q]
      BY <2>1
    <3> QED  BY <2>2, <3>1, <3>2, <3>3 DEF q
  <2>3. CASE ~ ready
    <3>1. caller' = [caller EXCEPT ![c] = y("idle")]
      BY <1>2, <2>3 DEF Realtime!LookAgain, Realtime!MaySend
    <3> QED  BY <2>1, <2>3, <3>1
  <2> QED  BY <2>2, <2>3
<1>6. /\ q \in Seq(Frames) /\ q # <<>> /\ Single(q) /\ Placed(q) = AllOf(<<c, t>>)
      /\ \A f \in Placed(q) : f \in Frames /\ f[1] = c /\ f[2] = t
  <2> HIDE DEF t
  <2> QED  BY <1>2, <1>4, FramesAre
<1>7. \A f \in Placed(q) : f \notin Placed(wire) \cup Placed(flushing) \cup Placed(outbox)
  BY <1>1, <1>6, HandsTyped
<1>8. <<>> \in Seq(Frames) /\ Placed(<<>>) = {} /\ Single(<<>>)
  <2>1. <<>> \in Seq(Frames) /\ Len(<<>>) = 0 /\ 1 .. 0 = {}
    BY EmptySeq
  <2> QED  BY <2>1 DEF Placed, Single
<1> HIDE DEF q
<1>9. /\ o \in Sendings /\ o.turn = t /\ o.pc # "looked" /\ (o.pc = "sending" => ready)
      /\ (o.pc = "sending" <=> o.left # <<>>) /\ Single(o.left)
      /\ ready => o.left = q
      /\ ~ ready => o.left = <<>>
  BY <1>2, <1>6, <1>8 DEF Sendings
<1>10. \A f \in Placed(o.left) : f[1] = c /\ f[2] = o.turn /\ f \notin Placed(wire) \cup Placed(flushing) \cup Placed(outbox)
  BY <1>2, <1>6, <1>7, <1>8, <1>9
<1> HIDE DEF o
<1>11. /\ caller' \in [Callers -> Sendings]
       /\ \A d \in Callers : caller'[d] = IF d = c THEN o ELSE caller[d]
       /\ \A f \in Frames : Begun(f) => Begun(f)'
  BY <1>5, <1>9, CallerMoves
<1>12. /\ outbox' \in Seq(Frames) /\ Single(outbox')
       /\ Placed(outbox') = Placed(outbox) \cup (IF ready THEN {} ELSE Placed(q))
  <2>1. outbox \in Seq(Frames) /\ Single(outbox) /\ Placed(outbox) \cap Placed(q) = {}
    BY <1>7 DEF SessionIInv, SessionTyped, Apart
  <2>2. /\ outbox \o q \in Seq(Frames) /\ Placed(outbox \o q) = Placed(outbox) \cup Placed(q)
        /\ Single(outbox \o q)
    BY <1>6, <2>1, ConcatPlaces
  <2> QED  BY <1>1, <2>1, <2>2
<1>13. held' \subseteq Callers \X Numbers
  BY <1>1, <1>4 DEF SessionIInv, SessionTyped
<1>14. SessionTyped'
  BY <1>1, <1>11, <1>12, <1>13 DEF SessionIInv, SessionTyped
<1>15. Shaken'
  BY <1>1, <1>9, <1>11 DEF SessionIInv, Shaken
<1>16. Apart'
  <2>1. \A f \in Placed(q) : Begun(f)'
    <3> SUFFICES ASSUME NEW f \in Placed(q) PROVE Begun(f)'
      OBVIOUS
    <3>1. f[1] = c /\ f[2] = o.turn /\ o.turn <= o.turn
      BY <1>2, <1>6, <1>9
    <3> QED  BY <1>9, <1>11, <3>1 DEF Begun
  <2>2. \A f \in Placed(wire) \cup Placed(flushing) \cup Placed(outbox') : f # <<>> => Begun(f)'
    BY <1>11, <1>12, <2>1, HandsTyped DEF SessionIInv, Apart
  <2>3. \A d \in Callers :
          /\ Single(caller'[d].left)
          /\ \A f \in Placed(caller'[d].left) :
                /\ f[1] = d /\ f[2] = caller'[d].turn
                /\ f \notin Placed(wire) \cup Placed(flushing) \cup Placed(outbox')
    <3> SUFFICES ASSUME NEW d \in Callers
                 PROVE  /\ Single(caller'[d].left)
                        /\ \A f \in Placed(caller'[d].left) :
                              /\ f[1] = d /\ f[2] = caller'[d].turn
                              /\ f \notin Placed(wire) \cup Placed(flushing) \cup Placed(outbox')
      OBVIOUS
    <3>1. CASE d = c
      BY <1>8, <1>9, <1>10, <1>11, <1>12, <3>1
    <3>2. CASE d # c
      BY <1>6, <1>11, <1>12, <3>2 DEF SessionIInv, Apart
    <3> QED  BY <3>1, <3>2
  <2>4. Placed(wire) \cap Placed(outbox') = {} /\ Placed(flushing) \cap Placed(outbox') = {}
    BY <1>7, <1>12 DEF SessionIInv, Apart
  <2> QED  BY <1>1, <1>12, <2>2, <2>3, <2>4 DEF SessionIInv, Apart
<1>17. HeldOn'
  <2>1. \A s \in held' : AllOf(s)' = AllOf(s)
    BY <1>1 DEF AllOf
  <2>2. ~ cut => \A s \in held' : AllOf(s) \subseteq Placed(wire) \cup Placed(flushing) \cup Placed(outbox')
    BY <1>1, <1>6, <1>12 DEF SessionIInv, HeldOn
  <2> QED  BY <1>1, <2>1, <2>2 DEF SessionIInv, HeldOn
<1>18. Ending'
  BY <1>1 DEF SessionIInv, Ending
<1> QED
  BY <1>14, <1>15, <1>16, <1>17, <1>18 DEF SessionIInv

\* A frame in hand goes to the wire, or what is in hand goes nowhere.
LEMMA SendFrameKeeps ==
    ASSUME SessionIInv, NEW c \in Callers, Realtime!SendFrame(c)
    PROVE  SessionIInv'
<1> DEFINE left == caller[c].left
<1>0. PICK x : x = Head(left)
  OBVIOUS
<1>1. /\ caller[c].pc = "sending"
      /\ UNCHANGED <<host, opener, reader, ready, outbox, flushing, cut, held, events>>
      /\ \/ /\ wire' = Append(wire, x)
            /\ \E stop \in {Len(left) = 1, TRUE} :
                  caller' = [caller EXCEPT ![c].left = IF stop THEN <<>> ELSE Tail(@), ![c].pc = IF stop THEN "idle" ELSE @]
         \/ caller' = [caller EXCEPT ![c].left = <<>>, ![c].pc = "idle"] /\ wire' = wire
  BY <1>0 DEF Realtime!SendFrame
<1>2. /\ caller \in [Callers -> Sendings] /\ ready /\ left # <<>> /\ left \in Seq(Frames) /\ Single(left)
      /\ caller[c].turn \in 0 .. MaxTurns
  BY <1>1, HandsTyped DEF SessionIInv, SessionTyped, Shaken, Apart
<1>3. <<>> \in Seq(Frames) /\ Placed(<<>>) = {} /\ Single(<<>>)
  <2>1. <<>> \in Seq(Frames) /\ Len(<<>>) = 0 /\ 1 .. 0 = {}
    BY EmptySeq
  <2> QED  BY <2>1 DEF Placed, Single
<1>4. /\ x \in Frames /\ x \in Placed(left) /\ Tail(left) \in Seq(Frames)
      /\ Placed(Tail(left)) = Placed(left) \ {x} /\ Single(Tail(left))
      /\ Len(left) # 1 => Tail(left) # <<>>
  <2> HIDE DEF left
  <2> QED  BY <1>0, <1>2, TailPlaces
<1>5. /\ x \notin Placed(wire) \cup Placed(flushing) \cup Placed(outbox) /\ x[1] = c /\ x[2] = caller[c].turn
      /\ wire # <<>> /\ wire[1] = <<>>
  BY <1>2, <1>4 DEF SessionIInv, Apart, Shaken
<1>6. ASSUME NEW l, NEW p, caller' = [caller EXCEPT ![c].left = l, ![c].pc = p]
      PROVE  caller' = [caller EXCEPT ![c] = [pc |-> p, turn |-> caller[c].turn, left |-> l]]
  <2>1. caller' = [caller EXCEPT ![c] = [caller[c] EXCEPT !.left = l, !.pc = p]]
    BY <1>2, <1>6
  <2> DEFINE y == [caller[c] EXCEPT !.left = l]
             z == [y EXCEPT !.pc = p]
  <2>2. [caller[c] EXCEPT !.left = l, !.pc = p] = z
    OBVIOUS
  <2>3. y = [pc |-> caller[c].pc, turn |-> caller[c].turn, left |-> l]
    BY <1>2 DEF Sendings
  <2> HIDE DEF y
  <2>4. z = [pc |-> p, turn |-> caller[c].turn, left |-> l]
    BY <2>3
  <2> QED  BY <2>1, <2>2, <2>4
<1>7. \E l, p :
         /\ caller' = [caller EXCEPT ![c] = [pc |-> p, turn |-> caller[c].turn, left |-> l]]
         /\ (l = <<>> /\ p = "idle") \/ (l = Tail(left) /\ l # <<>> /\ p = "sending")
         /\ (wire' = wire /\ l = <<>>) \/ wire' = Append(wire, x)
  <2>1. CASE caller' = [caller EXCEPT ![c].left = <<>>, ![c].pc = "idle"] /\ wire' = wire
    <3>1. caller' = [caller EXCEPT ![c] = [pc |-> "idle", turn |-> caller[c].turn, left |-> <<>>]]
      BY <1>6, <2>1
    <3> QED  BY <2>1, <3>1
  <2>2. CASE /\ wire' = Append(wire, x)
             /\ \E stop \in {Len(left) = 1, TRUE} :
                   caller' = [caller EXCEPT ![c].left = IF stop THEN <<>> ELSE Tail(@), ![c].pc = IF stop THEN "idle" ELSE @]
    <3>1. PICK stop \in {Len(left) = 1, TRUE} :
             caller' = [caller EXCEPT ![c].left = IF stop THEN <<>> ELSE Tail(@), ![c].pc = IF stop THEN "idle" ELSE @]
      BY <2>2
    <3>2. CASE stop
      <4>1. caller' = [caller EXCEPT ![c].left = <<>>, ![c].pc = "idle"]
        BY <3>1, <3>2
      <4>2. caller' = [caller EXCEPT ![c] = [pc |-> "idle", turn |-> caller[c].turn, left |-> <<>>]]
        BY <1>6, <4>1
      <4> QED  BY <2>2, <4>2
    <3>3. CASE ~ stop
      <4>1. caller' = [caller EXCEPT ![c].left = Tail(left), ![c].pc = "sending"]
        BY <1>1, <1>2, <3>1, <3>3
      <4>2. Len(left) # 1
        BY <3>1, <3>3
      <4>3. caller' = [caller EXCEPT ![c] = [pc |-> "sending", turn |-> caller[c].turn, left |-> Tail(left)]]
        BY <1>6, <4>1
      <4>4. Tail(left) # <<>>
        BY <1>4, <4>2
      <4> QED  BY <2>2, <4>3, <4>4
    <3> QED  BY <3>2, <3>3
  <2> QED  BY <1>1, <2>1, <2>2
<1>8. PICK l, p :
         /\ caller' = [caller EXCEPT ![c] = [pc |-> p, turn |-> caller[c].turn, left |-> l]]
         /\ (l = <<>> /\ p = "idle") \/ (l = Tail(left) /\ l # <<>> /\ p = "sending")
         /\ (wire' = wire /\ l = <<>>) \/ wire' = Append(wire, x)
  BY <1>7
<1> DEFINE o == [pc |-> p, turn |-> caller[c].turn, left |-> l]
<1>9. /\ o \in Sendings /\ o.turn = caller[c].turn /\ o.pc # "looked"
      /\ (o.pc = "sending" <=> o.left # <<>>) /\ Single(o.left)
      /\ Placed(o.left) \subseteq Placed(left) /\ (wire' # wire => x \notin Placed(o.left)) /\ o.left = l
  BY <1>2, <1>3, <1>4, <1>8 DEF Sendings
<1>10. caller' = [caller EXCEPT ![c] = o]
  BY <1>8
<1> HIDE DEF o
<1>11. /\ caller' \in [Callers -> Sendings]
       /\ \A d \in Callers : caller'[d] = IF d = c THEN o ELSE caller[d]
       /\ \A f \in Frames : Begun(f) => Begun(f)'
  BY <1>9, <1>10, CallerMoves
<1>12. /\ wire' \in Seq(Frames \cup {<<>>}) /\ wire' # <<>> /\ wire'[1] = <<>> /\ Single(wire')
       /\ Placed(wire') = Placed(wire) \/ (Placed(wire') = Placed(wire) \cup {x} /\ x \notin Placed(o.left))
       /\ Placed(wire) \subseteq Placed(wire')
  <2>1. wire \in Seq(Frames \cup {<<>>}) /\ Single(wire)
    BY DEF SessionIInv, SessionTyped, Apart
  <2>2. CASE wire' = wire
    BY <1>5, <2>1, <2>2
  <2>3. CASE wire' = Append(wire, x) /\ wire' # wire
    <3>1. x \in Frames \cup {<<>>} /\ x \notin Placed(wire)
      BY <1>4, <1>5
    <3>2. /\ wire' \in Seq(Frames \cup {<<>>}) /\ wire' # <<>> /\ Placed(wire') = Placed(wire) \cup {x}
          /\ Single(wire') /\ wire'[1] = <<>>
      BY <1>5, <2>1, <2>3, <3>1, AppendPlaces
    <3> QED  BY <1>9, <2>3, <3>2
  <2> QED  BY <1>8, <2>2, <2>3
<1>13. SessionTyped'
  BY <1>1, <1>11, <1>12 DEF SessionIInv, SessionTyped
<1>14. Shaken'
  <2>1. reader \notin {"none", "connecting", "opening"}
    BY <1>5 DEF SessionIInv, Shaken
  <2>2. \A d \in Callers :
           /\ (caller'[d].pc = "sending" => ready) /\ (caller'[d].pc = "sending" <=> caller'[d].left # <<>>)
           /\ caller'[d].pc = "looked" => caller'[d].turn # 0
    BY <1>2, <1>9, <1>11 DEF SessionIInv, Shaken
  <2> QED  BY <1>1, <1>2, <1>12, <2>1, <2>2 DEF SessionIInv, Shaken
<1>15. Apart'
  <2>1. Begun(x)'
    <3>1. x[2] <= o.turn
      <4>1. x[2] = o.turn /\ o.turn \in Nat
        BY <1>2, <1>5, <1>9
      <4> QED  BY <4>1
    <3>2. caller'[x[1]] = o
      BY <1>5, <1>11
    <3> QED  BY <1>9, <3>1, <3>2 DEF Begun
  <2>2. \A f \in Placed(wire') \cup Placed(flushing) \cup Placed(outbox) : f # <<>> => Begun(f)'
    <3>1. \A f \in Placed(wire) \cup Placed(flushing) \cup Placed(outbox) : f # <<>> => f \in Frames /\ Begun(f)
      BY HandsTyped DEF SessionIInv, Apart
    <3> QED  BY <1>11, <1>12, <2>1, <3>1
  <2>3. \A d \in Callers :
          /\ Single(caller'[d].left)
          /\ \A f \in Placed(caller'[d].left) :
                /\ f[1] = d /\ f[2] = caller'[d].turn
                /\ f \notin Placed(wire') \cup Placed(flushing) \cup Placed(outbox)
    <3> SUFFICES ASSUME NEW d \in Callers
                 PROVE  /\ Single(caller'[d].left)
                        /\ \A f \in Placed(caller'[d].left) :
                              /\ f[1] = d /\ f[2] = caller'[d].turn
                              /\ f \notin Placed(wire') \cup Placed(flushing) \cup Placed(outbox)
      OBVIOUS
    <3>1. CASE d = c
      BY <1>9, <1>11, <1>12, <3>1 DEF SessionIInv, Apart
    <3>2. CASE d # c
      BY <1>5, <1>11, <1>12, <3>2 DEF SessionIInv, Apart
    <3> QED  BY <3>1, <3>2
  <2>4. Placed(wire') \cap Placed(outbox) = {} /\ Placed(wire') \cap Placed(flushing) = {}
    BY <1>5, <1>12 DEF SessionIInv, Apart
  <2> QED  BY <1>1, <1>12, <2>2, <2>3, <2>4 DEF SessionIInv, Apart
<1>16. HeldOn'
  <2>1. \A s \in held : AllOf(s)' = AllOf(s)
    BY <1>1 DEF AllOf
  <2> QED  BY <1>1, <1>12, <2>1 DEF SessionIInv, HeldOn
<1>17. Ending'
  BY <1>1 DEF SessionIInv, Ending
<1> QED
  BY <1>13, <1>14, <1>15, <1>16, <1>17 DEF SessionIInv

\* Every step of the session keeps it.
LEMMA SessionKeeps == SessionIInv /\ [Realtime!Next]_Realtime!realtimeVars => SessionIInv'
<1> SUFFICES ASSUME SessionIInv, [Realtime!Next]_Realtime!realtimeVars PROVE SessionIInv'
  OBVIOUS
<1>1. CASE \/ Realtime!OpenBegins \/ Realtime!OpenReturns \/ Realtime!OpenTimesOut \/ Realtime!Close \/ Realtime!Break
           \/ Realtime!Read \/ UNCHANGED Realtime!realtimeVars
  BY <1>1, OutsideKeeps
<1>2. CASE Realtime!Connect \/ Realtime!Pump \/ Realtime!End \/ (Realtime!MarkReady /\ ready)
  BY <1>2, ReaderQuiet
<1>3. CASE Realtime!Handshake
  BY <1>3, HandshakeKeeps
<1>4. CASE Realtime!MarkReady /\ ~ ready
  BY <1>4, MarkReadyKeeps
<1>5. CASE Realtime!TakeOutbox
  BY <1>5, TakeKeeps
<1>6. CASE Realtime!Flush
  BY <1>6, FlushKeeps
<1>7. ASSUME NEW c \in Callers, Realtime!Send(c) \/ Realtime!LookAgain(c) \/ Realtime!SendFrame(c) PROVE SessionIInv'
  BY <1>7, SendKeeps, LookAgainKeeps, SendFrameKeeps
<1> QED
  BY <1>1, <1>2, <1>3, <1>4, <1>5, <1>6, <1>7 DEF Realtime!Next, Realtime!Reads

\* Which is what is asked of it.
LEMMA SessionSays == SessionIInv => Realtime!TurnsKept /\ Realtime!EndLast
<1> SUFFICES ASSUME SessionIInv PROVE Realtime!TurnsKept /\ Realtime!EndLast
  OBVIOUS
<1>1. /\ wire \in Seq(Frames \cup {<<>>}) /\ events \in Seq({"open", "message", "error", "end"})
      /\ host \in {"openai", "google"} /\ held \subseteq Callers \X Numbers
  BY DEF SessionIInv, SessionTyped
<1>2. DOMAIN wire = 1 .. Len(wire) /\ DOMAIN events = 1 .. Len(events) /\ Realtime!Range(wire) = Placed(wire)
  BY <1>1, PlacedIs
<1>3. Realtime!EndLast
  BY <1>2 DEF SessionIInv, Ending, Realtime!EndLast
<1>4. wire # <<>> => Head(wire) = <<>>
  BY DEF SessionIInv, Shaken
<1>5. Realtime!IsInjective(wire)
  BY <1>2 DEF SessionIInv, Apart, Single, Realtime!IsInjective
<1>6. ready /\ reader \notin {"marking", "swapping"} => outbox = <<>>
  BY DEF SessionIInv, HeldOn
<1>7. ASSUME ready, reader = "pumping", ~ cut, NEW t \in held
      PROVE  Realtime!Range(Realtime!FramesOf(t)) \subseteq Realtime!Range(wire)
  <2>1. PICK c \in Callers, n \in Numbers : t = <<c, n>>
    BY <1>1
  <2>2. Realtime!Range(Realtime!FramesOf(t)) = AllOf(t)
    <3>1. Realtime!FramesOf(<<c, n>>) \in Seq(Frames) /\ Placed(Realtime!FramesOf(<<c, n>>)) = AllOf(<<c, n>>)
      BY <1>1, FramesAre
    <3>2. Realtime!Range(Realtime!FramesOf(<<c, n>>)) = AllOf(<<c, n>>)
      BY <3>1, PlacedIs
    <3> QED  BY <2>1, <3>2
  <2>3. Placed(flushing) = {} /\ Placed(outbox) = {}
    <3>1. flushing = <<>> /\ outbox = <<>> /\ flushing \in Seq(Frames) /\ outbox \in Seq(Frames)
      BY <1>7 DEF SessionIInv, HeldOn, SessionTyped
    <3> QED  BY <3>1, PlacedIs
  <2>4. AllOf(t) \subseteq Placed(wire)
    BY <1>7, <2>3 DEF SessionIInv, HeldOn
  <2> QED  BY <1>2, <2>2, <2>4
<1> QED
  BY <1>3, <1>4, <1>5, <1>6, <1>7 DEF Realtime!TurnsKept

\* Where the threads of a session stand.
SessionPlaces ==
    /\ opener \in {"none", "waiting", "open", "failed"} /\ lock \in Callers \cup {"none"}
    /\ reader \in {"none", "connecting", "opening", "marking", "swapping", "flushing", "pumping", "ending", "done"}
    /\ sock \in {"none", "up", "broken"}

\* Every step of a session keeps the places.
LEMMA SessionPlacesKeep == SessionPlaces /\ [Realtime!Next]_Realtime!realtimeVars => SessionPlaces'
<1> SUFFICES ASSUME SessionPlaces, [Realtime!Next]_Realtime!realtimeVars PROVE SessionPlaces'
  OBVIOUS
<1>1. CASE Realtime!OpenBegins \/ Realtime!OpenReturns \/ Realtime!OpenTimesOut \/ Realtime!Close \/ Realtime!Break
  BY <1>1 DEF SessionPlaces, Realtime!OpenBegins, Realtime!OpenReturns, Realtime!OpenTimesOut, Realtime!Close,
         Realtime!Break
<1>2. CASE Realtime!Connect \/ Realtime!Handshake \/ Realtime!MarkReady \/ Realtime!TakeOutbox
  BY <1>2 DEF SessionPlaces, Realtime!Connect, Realtime!Handshake, Realtime!MarkReady, Realtime!TakeOutbox
<1>3. CASE Realtime!Flush \/ Realtime!Pump \/ Realtime!End
  BY <1>3 DEF SessionPlaces, Realtime!Flush, Realtime!Pump, Realtime!End, Realtime!Ended
<1>4. ASSUME NEW c \in Callers, Realtime!Send(c) \/ Realtime!LookAgain(c) \/ Realtime!SendFrame(c)
      PROVE  SessionPlaces'
  <2>1. UNCHANGED <<opener, reader, sock>> /\ lock' \in {lock, c, "none"}
    BY <1>4 DEF Realtime!Send, Realtime!LookAgain, Realtime!SendFrame
  <2> QED  BY <2>1 DEF SessionPlaces
<1>5. CASE Realtime!Read \/ UNCHANGED Realtime!realtimeVars
  BY <1>5 DEF SessionPlaces, Realtime!Read, Realtime!realtimeVars
<1> QED
  BY <1>1, <1>2, <1>3, <1>4, <1>5 DEF Realtime!Next, Realtime!Reads

\* At first all are at rest.
LEMMA SessionPlacesStart == Realtime!Init => SessionPlaces
BY DEF Realtime!Init, SessionPlaces

\* What both say of a session's state.
LEMMA SessionTypes == SessionIInv /\ SessionPlaces => Realtime!TypeOK
<1> SUFFICES ASSUME SessionIInv, SessionPlaces PROVE Realtime!TypeOK
  OBVIOUS
<1>1. events \in Seq({"open", "message", "error", "end"}) /\ held \subseteq Callers \X Numbers
  BY DEF SessionIInv, SessionTyped
<1>2. Realtime!Range(events) \subseteq {"open", "message", "error", "end"}
  BY <1>1, PlacedIs
<1>3. held \subseteq Realtime!Turns
  BY <1>1 DEF Numbers, Realtime!Turns
<1> QED  BY <1>2, <1>3 DEF SessionPlaces, Realtime!TypeOK

-----------------------------------------------------------------------------
(* The conversation.  The guard and the transcript are those that             *)
(* ConversationProofs is about, with what they are called here: what is       *)
(* proved of them there holds of them here.                                   *)

Conversation == INSTANCE ConversationProofs WITH Keep <- Recent, said <- seen, Forever <- -1, Interjects <- FALSE

\* The guard is the one that ConversationProofs is about: their definitions are the same.
LEMMA GuardIs ==
    /\ Context!Init => Conversation!Init
    /\ [Context!Next]_Context!vars => [Conversation!Next]_Conversation!vars
<1>1. Context!Init => Conversation!Init
  BY DEF Context!Init, Conversation!Init, Context!Fresh, Conversation!Fresh, Context!NoReading, Conversation!NoReading,
      Context!None, Conversation!None
<1>2. Context!User \/ Context!Reply \/ Context!Call \/ Context!Result => Conversation!Next
  BY DEF Context!Next, Conversation!Next, Context!User, Conversation!User, Context!Reply, Conversation!Reply,
      Context!Call, Conversation!Call, Context!Result, Conversation!Result, Context!Speak, Conversation!Speak,
      Context!Append_, Conversation!Append_, Context!Entry, Conversation!Entry, Context!Size, Conversation!Size,
      Context!Provider, Conversation!Provider, Context!Heuristic, Conversation!Heuristic
<1>3. Context!Repeat \/ Context!Restore => Conversation!Next
  BY DEF Context!Next, Conversation!Next, Context!Repeat, Conversation!Repeat, Context!Restore, Conversation!Restore,
      Context!Copy, Conversation!Copy, Context!None, Conversation!None
<1>4. Context!Measure => Conversation!Next
  BY DEF Context!Next, Conversation!Next, Context!Measure, Conversation!Measure, Context!Crossed, Conversation!Crossed,
      Context!Weight, Conversation!Weight, Context!Ladder, Conversation!Ladder, Context!Heuristic,
      Conversation!Heuristic, Context!Climbing, Conversation!Climbing, Context!Ended, Conversation!Ended,
      Context!NoReading, Conversation!NoReading, Context!Max, Conversation!Max, Context!Cardinality,
      Conversation!Cardinality
<1>5. Context!React => Conversation!React
  BY DEF Context!React, Conversation!React, Context!Decisions, Conversation!Decisions, Context!Ended,
      Conversation!Ended, Context!NoReading, Conversation!NoReading, Context!Ladder, Conversation!Ladder,
      Context!Heuristic, Conversation!Heuristic, Context!Fresh, Conversation!Fresh, Context!None, Conversation!None,
      Context!Entry, Conversation!Entry, Context!At, Conversation!At, Context!Size, Conversation!Size,
      Context!Orphaned, Conversation!Orphaned, Context!Cut, Conversation!Cut, Context!Truncate,
      Conversation!Truncate, Context!Forgot, Conversation!Forgot, Context!Splice, Conversation!Splice,
      Context!Decision, Conversation!Decision, Context!ShareLeft, Conversation!ShareLeft, Context!Judged,
      Conversation!Judged, Context!ReactTruncate, Conversation!ReactTruncate, Context!Start, Conversation!Start,
      Context!Mid, Conversation!Mid, Context!Summary, Conversation!Summary, Context!CompactOld,
      Conversation!CompactOld, Context!OldAndMiddle, Conversation!OldAndMiddle, Context!CompactAll,
      Conversation!CompactAll, Context!CompactAggressively, Conversation!CompactAggressively, Context!Escalated,
      Conversation!Escalated, Context!ReactLayered, Conversation!ReactLayered, Context!RetainStart,
      Conversation!RetainStart, Context!ReactAnchored, Conversation!ReactAnchored, Context!Max, Conversation!Max,
      Context!Min, Conversation!Min
<1>6. UNCHANGED Context!vars => UNCHANGED Conversation!vars
  BY DEF Context!vars, Conversation!vars
<1> QED  BY <1>1, <1>2, <1>3, <1>4, <1>5, <1>6 DEF Context!Next, Conversation!Next

\* What is said of it there is what is said of it here.
LEMMA GuardSaysHere ==
    /\ Conversation!TypeOK => Context!TypeOK
    /\ Conversation!HistoryTrue => Context!HistoryTrue
    /\ Conversation!RefusedForCause => Context!RefusedForCause
<1>1. Conversation!TypeOK => Context!TypeOK
  BY DEF Context!TypeOK, Conversation!TypeOK, Context!Ladder, Conversation!Ladder, Context!None, Conversation!None
<1>2. Conversation!HistoryTrue => Context!HistoryTrue
  BY DEF Context!HistoryTrue, Conversation!HistoryTrue, Context!PairsKept, Conversation!PairsKept, Context!Pairs,
      Conversation!Pairs, Context!CountBelongs, Conversation!CountBelongs, Context!Exact, Conversation!Exact,
      Context!Size, Conversation!Size, Context!Provider, Conversation!Provider, Context!Heuristic,
      Conversation!Heuristic
<1>3. Conversation!RefusedForCause => Context!RefusedForCause
  BY DEF Context!RefusedForCause, Conversation!RefusedForCause, Context!Weight, Conversation!Weight, Context!Ladder,
      Conversation!Ladder, Context!Heuristic, Conversation!Heuristic
<1> QED  BY <1>1, <1>2, <1>3

\* The same of the transcript.
LEMMA TranscriptIs ==
    /\ State!Init => Conversation!State!Init
    /\ [State!Next]_State!stateVars => [Conversation!State!Next]_Conversation!State!stateVars
<1>1. State!Init => Conversation!State!Init
  BY DEF State!Init, Conversation!State!Init, State!NoAnswer, Conversation!State!NoAnswer, State!Nobody,
      Conversation!State!Nobody
<1>2. State!Say \/ State!Tick => Conversation!State!Next
  BY DEF State!Next, Conversation!State!Next, State!Say, Conversation!State!Say, State!Tick, Conversation!State!Tick,
      State!NoAnswer, Conversation!State!NoAnswer, State!Nobody, Conversation!State!Nobody
<1>3. (\E m \in Models, stateful \in BOOLEAN : State!Ask(m, stateful)) => Conversation!State!Next
  BY DEF State!Next, Conversation!State!Next, State!Ask, Conversation!State!Ask, State!Decision,
      Conversation!State!Decision, State!LastStated, Conversation!State!LastStated, State!After,
      Conversation!State!After, State!MayContinue, Conversation!State!MayContinue, State!Lapsed,
      Conversation!State!Lapsed, State!Full, Conversation!State!Full, State!Refusal, Conversation!State!Refusal,
      State!Ids, Conversation!State!Ids, State!Max, Conversation!State!Max, State!Last, Conversation!State!Last
<1>4. (\E stamped \in BOOLEAN : State!Keep(stamped)) => Conversation!State!Next
  BY DEF State!Next, Conversation!State!Next, State!Keep, Conversation!State!Keep, State!NoAnswer,
      Conversation!State!NoAnswer, State!Nobody, Conversation!State!Nobody
<1>5. (\E i \in 1 .. Len(messages) - 1 : State!Cut(i)) => Conversation!State!Next
  BY DEF State!Next, Conversation!State!Next, State!Cut, Conversation!State!Cut, State!Ids, Conversation!State!Ids,
      State!ToSet, Conversation!State!ToSet
<1>6. UNCHANGED State!stateVars => UNCHANGED Conversation!State!stateVars
  BY DEF State!stateVars, Conversation!State!stateVars
<1> QED  BY <1>1, <1>2, <1>3, <1>4, <1>5, <1>6 DEF State!Next

\* And of what is said of it.
LEMMA TranscriptSaysHere ==
    /\ Conversation!State!TypeOK => State!TypeOK
    /\ Conversation!State!StateTrue => State!StateTrue
<1>1. Conversation!State!TypeOK => State!TypeOK
  BY DEF State!TypeOK, Conversation!State!TypeOK, State!ToSet, Conversation!State!ToSet
<1>2. Conversation!State!StateTrue => State!StateTrue
  BY DEF State!StateTrue, Conversation!State!StateTrue, State!ContextWhole, Conversation!State!ContextWhole,
      State!RefusedOnlyLate, Conversation!State!RefusedOnlyLate, State!IsSuffix, Conversation!State!IsSuffix,
      State!IsPrefix, Conversation!State!IsPrefix, State!Reverse, Conversation!State!Reverse, State!IsInjective,
      Conversation!State!IsInjective, State!ToSet, Conversation!State!ToSet
<1> QED  BY <1>1, <1>2

\* The ladders, weights, models and bounds here are what is proved about there.
LEMMA SizesHere == Conversation!Sizes /\ Conversation!StateSizes
<1>1. Conversation!Sizes
  BY AroundAssumption DEF Conversation!Sizes
<1>2. Retention \in [Hosts -> Int]
  <2>1. Retention \in [Hosts -> Nat \cup {-1}]
    BY AroundAssumption
  <2>2. Nat \cup {-1} \subseteq Int
    OBVIOUS
  <2> QED  BY <2>1, <2>2
<1>3. Conversation!StateSizes
  BY <1>2, AroundAssumption DEF Conversation!StateSizes
<1> QED  BY <1>1, <1>3

\* A result follows its call, and a count is of the messages that it covers
\* (ConversationHistory.truncate, splice_range).
LEMMA GuardKept == Context!Spec => [](Context!TypeOK /\ Context!HistoryTrue)
<1>1. Context!Spec => Conversation!Spec
  BY GuardIs, PTL DEF Context!Spec, Conversation!Spec
<1>2. Conversation!Spec => []Conversation!TypeOK
  BY SizesHere, Conversation!GuardTypeCorrect
<1>3. Conversation!Spec => []Conversation!HistoryTrue
  BY SizesHere, Conversation!HistoryKept
<1> QED  BY <1>1, <1>2, <1>3, GuardSaysHere, PTL

\* A request is refused only for what is left to ask (ContextGuard._handle_measure).
LEMMA GuardRefuses == ASSUME Conversation!Reachable PROVE Context!Spec => []Context!RefusedForCause
<1>1. Context!Spec => Conversation!Spec
  BY GuardIs, PTL DEF Context!Spec, Conversation!Spec
<1>2. Conversation!Spec => []Conversation!RefusedForCause
  BY SizesHere, Conversation!RefusalsHaveCause
<1> QED  BY <1>1, <1>2, GuardSaysHere, PTL

\* A transcript is read whole, in order and nothing of it twice (resolve_server_state).
LEMMA TranscriptHeld == State!Spec => [](State!TypeOK /\ State!StateTrue)
<1>1. State!Spec => Conversation!State!Spec
  BY TranscriptIs, PTL DEF State!Spec, Conversation!State!Spec
<1>2. Conversation!State!Spec => [](Conversation!State!TypeOK /\ Conversation!State!StateTrue)
  BY SizesHere, Conversation!TranscriptRead
<1> QED  BY <1>1, <1>2, TranscriptSaysHere, PTL

-----------------------------------------------------------------------------
(* The behaviours of one part: a step of another leaves its state alone.     *)

\* Every behaviour of the whole is one of each part that is proved about here.
THEOREM PartsImplemented ==
    AroundSpec => /\ Init /\ [][Next]_chunkVars
                  /\ Batch!Spec /\ Files!Spec /\ Indexed!Spec /\ Realtime!Spec /\ Store!Spec /\ Spans!Spec /\ Bus!Spec
                  /\ Context!Spec /\ State!Spec
<1>1. AroundInit => /\ Init /\ Batch!Init /\ Files!Init /\ Indexed!Init /\ Realtime!Init /\ Store!Init /\ Spans!Init
                    /\ Bus!Init /\ Context!Init /\ State!Init
  BY DEF AroundInit
<1>2. [AroundNext]_aroundVars => [Next]_chunkVars
  BY DEF AroundNext, aroundVars, chunkVars
<1>3. [AroundNext]_aroundVars => [Batch!Next]_Batch!vars
  BY DEF AroundNext, aroundVars, batchVars, Batch!vars
<1>4. [AroundNext]_aroundVars => [Files!Next]_Files!filesVars
  BY DEF AroundNext, aroundVars, filesVars, Files!filesVars
<1>5. [AroundNext]_aroundVars => [Indexed!Next]_Indexed!retrievalVars
  BY DEF AroundNext, aroundVars, retrievalVars, Indexed!retrievalVars
<1>6. [AroundNext]_aroundVars => [Realtime!Next]_Realtime!realtimeVars
  BY DEF AroundNext, aroundVars, realtimeVars, Realtime!realtimeVars
<1>7. [AroundNext]_aroundVars => [Store!Next]_Store!storeVars
  BY DEF AroundNext, aroundVars, storeVars, Store!storeVars
<1>8. [AroundNext]_aroundVars => [Spans!Next]_Spans!telemetryVars
  BY DEF AroundNext, aroundVars, telemetryVars, Spans!telemetryVars
<1>9. [AroundNext]_aroundVars => [Bus!Next]_Bus!busVars
  BY DEF AroundNext, aroundVars, busVars, Bus!busVars
<1>10. [AroundNext]_aroundVars => [Context!Next]_Context!vars
  BY DEF AroundNext, aroundVars, contextVars, Context!vars
<1>11. [AroundNext]_aroundVars => [State!Next]_State!stateVars
  BY DEF AroundNext, aroundVars, stateVars, State!stateVars
<1> QED
  BY <1>1, <1>2, <1>3, <1>4, <1>5, <1>6, <1>7, <1>8, <1>9, <1>10, <1>11, PTL
  DEF AroundSpec, Batch!Spec, Files!Spec, Indexed!Spec, Realtime!Spec, Store!Spec, Spans!Spec, Bus!Spec, Context!Spec,
      State!Spec

\* Where no key has two writers at a time, a file of the store is what the last put or
\* delete carried out left, and what is read or restored was put there (FilePersistence.set,
\* ResponseStore).
THEOREM StoreDurable == ASSUME ~Shared PROVE Store!Spec => []Store!Durable
<1>1. StoreIInv => Store!Durable
  BY DEF StoreIInv
<1> QED  BY StoreStarts, StoreKeeps, <1>1, PTL DEF Store!Spec

\* A reference that is taken for uploaded is one that its provider has, and no other
\* attachment's (FilesRegistry._upload_to, delete_from).
THEOREM FilesHeld == Files!Spec => [](Files!RefsTrue /\ Files!TypeOK)
BY FilesStarts, FilesKeeps, FilesSays, PTL DEF Files!Spec

\* Who is told that an index is ready can search what was to be indexed, and the corpus that
\* was made for a block goes with it (wait_indexed, Corpus.__exit__).
THEOREM IndexHeld == Indexed!Spec => [](Indexed!RetrievalTrue /\ Indexed!TypeOK)
BY IndexStarts, IndexKeeps, IndexSays, PTL DEF Indexed!Spec

\* All of it, whatever the sizes, lifetimes, bounds and sets.
THEOREM KeptHolds == ASSUME ~Shared PROVE AroundSpec => []KeptTrue
<1>1. Init /\ [][Next]_chunkVars => []ChunksIInv
  BY ChunksStart, ChunksKeep, PTL
<1>2. ChunksIInv => Sized
  BY DEF ChunksIInv
<1>3. Store!Durable /\ Files!RefsTrue /\ Indexed!RetrievalTrue /\ Sized => KeptTrue
  BY DEF KeptTrue
<1> QED  BY PartsImplemented, StoreDurable, FilesHeld, IndexHeld, <1>1, <1>2, <1>3, PTL

\* However a text is cut, each of its characters that is not a space is in a window.
THEOREM WholeTextIndexed == AroundSpec => []NothingDropped
<1>1. Init /\ [][Next]_chunkVars => []ChunksIInv
  BY ChunksStart, ChunksKeep, PTL
<1>2. ChunksIInv => NothingDropped
  BY DEF ChunksIInv
<1> QED  BY PartsImplemented, <1>1, <1>2, PTL

\* Where fetch raises on an HTTP error, a ticket is settled with the answer to its own
\* request, none is lost between add() and the results, and one is missing only if its job
\* has no result for it (AutoBatcher._submit, _settle).
THEOREM BatchHolds == ASSUME Raises PROVE AroundSpec => []BatchTrue
<1>1. Batch!Spec => [](BatchIInv /\ BatchWhole)
  BY BatchStarts, BatchKeeps, PTL DEF Batch!Spec
<1>2. BatchIInv /\ BatchWhole => BatchTrue
  BY BatchSays DEF BatchTrue
<1> QED  BY PartsImplemented, <1>1, <1>2, PTL

\* A turn sent before the handshake goes out after it, once and whole, whoever sends
\* meanwhile, and nothing comes after END (RealtimeSession.send, mark_ready, _on_close).
THEOREM TurnsHold == AroundSpec => []TurnsKept
<1>1. Realtime!Spec => []SessionIInv
  BY SessionStarts, SessionKeeps, PTL DEF Realtime!Spec
<1>2. SessionIInv => TurnsKept
  BY SessionSays DEF TurnsKept
<1> QED  BY PartsImplemented, <1>1, <1>2, PTL

\* Whoever subscribes, unsubscribes and emits meanwhile, an emit reaches every handler that
\* was there all along, once and in order; and the spans of a thread have ids of their own,
\* are closed by who opened them, and tell their parent (HookBus.emit, Telemetry).
THEOREM HooksHold == AroundSpec => []HooksTrue
<1>1. Bus!Spec => []BusIInv
  BY BusStarts, BusKeeps, PTL DEF Bus!Spec
<1>2. Spans!Spec => []SpansIInv
  BY SpansStart, SpansKeep, PTL DEF Spans!Spec
<1>3. BusIInv /\ SpansIInv => HooksTrue
  BY BusSays, SpansSay DEF HooksTrue
<1> QED  BY PartsImplemented, <1>1, <1>2, <1>3, PTL

\* Where no strategy declines below its first rung: results keep their calls through every cut,
\* splice and copy, a count covers what it says, a request is refused for what is left of it;
\* and a provider that is sent an id and the new turns reads the whole transcript
\* (ConversationHistory, ContextGuard._handle_measure, resolve_server_state).
THEOREM HistoryHolds == ASSUME Conversation!Reachable PROVE AroundSpec => []HistoryTrue
<1>1. Context!HistoryTrue /\ Context!RefusedForCause /\ State!StateTrue => HistoryTrue
  BY DEF HistoryTrue
<1> QED  BY PartsImplemented, GuardKept, GuardRefuses, TranscriptHeld, <1>1, PTL

\* Where every message weighs something, a conversation that is measured twice with nothing
\* said in between is compacted once (ContextGuard._handle_measure, highest_crossed_level).
THEOREM CalmHolds == ASSUME 0 \notin Weights PROVE AroundSpec => Calm
<1>1. Context!Spec => Conversation!Spec
  BY GuardIs, PTL DEF Context!Spec, Conversation!Spec
<1>2. Conversation!Spec => Conversation!Calm
  BY SizesHere, Conversation!GuardIsCalm
<1>3. [turn = "ask" /\ history.entries = last /\ ~refused => turn' = "sent"]_Conversation!vars
         => [turn = "ask" /\ history.entries = last /\ ~refused => turn' = "sent"]_Context!vars
  BY DEF Conversation!vars, Context!vars
<1> QED  BY PartsImplemented, <1>1, <1>2, <1>3, PTL DEF Calm, Context!Calm, Conversation!Calm

\* Where no key has two writers at a time and fetch raises on an HTTP error, each part's
\* state keeps its type: among others a cache keeps its capacity and holds no key twice
\* (ResponseStore._remember), and what survives of a span that a subscriber filters is a
\* span that was opened (Telemetry._surviving_parent).
THEOREM TypesHold == ASSUME ~Shared, Raises PROVE AroundSpec => []AroundTypeOK
<1>1. Init /\ [][Next]_chunkVars => []TypeOK
  <2>1. ChunksIInv => TypeOK
    BY DEF ChunksIInv
  <2> QED  BY ChunksStart, ChunksKeep, <2>1, PTL
<1>2. Batch!Spec => []Batch!TypeOK
  BY BatchStarts, BatchKeeps, BatchSays, PTL DEF Batch!Spec
<1>3. Realtime!Spec => []Realtime!TypeOK
  BY SessionStarts, SessionKeeps, SessionPlacesStart, SessionPlacesKeep, SessionTypes, PTL DEF Realtime!Spec
<1>4. Store!Spec => []Store!TypeOK
  BY StoreStarts, StoreKeeps, CacheStarts, CacheKeeps, StoreTypes, PTL DEF Store!Spec
<1>5. Spans!Spec => []Spans!TypeOK
  BY SpansStart, SpansKeep, SpansRangedStart, SpansRangedKeeps, SpansTypes, PTL DEF Spans!Spec
<1>6. Bus!Spec => []Bus!TypeOK
  BY BusStarts, BusKeeps, PlacesStart, PlacesKeep, EmitsCounted, BusTypes, PTL DEF Bus!Spec
<1>7. /\ TypeOK /\ Batch!TypeOK /\ Context!TypeOK /\ Files!TypeOK /\ Indexed!TypeOK /\ Realtime!TypeOK
      /\ Store!TypeOK /\ Spans!TypeOK /\ Bus!TypeOK /\ State!TypeOK
      => AroundTypeOK
  BY DEF AroundTypeOK
<1> QED
  BY PartsImplemented, FilesHeld, IndexHeld, GuardKept, TranscriptHeld, <1>1, <1>2, <1>3, <1>4, <1>5, <1>6, <1>7, PTL
=============================================================================
