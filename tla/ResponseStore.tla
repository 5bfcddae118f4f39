--------------------------- MODULE ResponseStore ---------------------------
(***************************************************************************)
(* Conversations by id: ResponseStore's least-recently-used cache in       *)
(* front of a FilePersistence, one file for each key, written beside and   *)
(* moved into place. Threads of one process read, write and delete; the    *)
(* process may die at any step. A value is the number of the put that made *)
(* it; Half is a file that does not parse.                                 *)
(***************************************************************************)
EXTENDS Integers, Sequences, Functions, FiniteSets

CONSTANTS
    Threads, Keys,
    MaxWrites,      \* puts and deletes in a behaviour
    Capacity,       \* ResponseStore._capacity
    Shared          \* whether two threads may write one key at the same time

None == 0
Half == -1
Values == 1 .. MaxWrites

VARIABLES
    file,           \* each key's file: None, Half or a value
    tmp,            \* each key's .json.tmp
    cache,          \* ResponseStore._cache: <<key, value>>, the most recent last
    op,             \* what each thread is doing
    writes,         \* puts and deletes so far
    acked           \* history: what the last put or delete of each key that was carried out left

storeVars == <<file, tmp, cache, op, writes, acked>>

Resting == [pc |-> "idle", key |-> None, value |-> None, handle |-> "none", saw |-> None]
Doing(t, k, kinds) == op[t].pc \in kinds /\ op[t].key = k
Writing == {"put", "opened", "written", "delete"}

Init ==
    /\ file = [k \in Keys |-> None] /\ tmp = [k \in Keys |-> None] /\ cache = <<>>
    /\ op = [t \in Threads |-> Resting] /\ writes = 0
    /\ acked = [k \in Keys |-> None]

Cached(k) == {cache[i][2] : i \in {j \in DOMAIN cache : cache[j][1] = k}}
Forget(k) == LET at == {i \in DOMAIN cache : cache[i][1] = k}
                 i == CHOOSE i \in at : TRUE IN
             IF at = {} THEN cache ELSE SubSeq(cache, 1, i - 1) \o SubSeq(cache, i + 1, Len(cache))
\* Fault: an entry that is remembered again is not taken out first.
RememberTwice(k, v) == LET rows == Append(cache, <<k, v>>) IN
                       SubSeq(rows, 1 + IF Cardinality(Range(rows)) > Capacity THEN Len(rows) - Capacity ELSE 0, Len(rows))
\* _remember: the key last, and the oldest out while there are too many.
Remember(k, v) == LET rows == Append(Forget(k), <<k, v>>) IN
                  SubSeq(rows, 1 + IF Len(rows) > Capacity THEN Len(rows) - Capacity ELSE 0, Len(rows))
-----------------------------------------------------------------------------
BeginWrite(t, k, pc) ==
    /\ op[t].pc = "idle" /\ writes < MaxWrites
    /\ Shared \/ \A u \in Threads : ~Doing(u, k, Writing)
    /\ writes' = writes + 1
    /\ op' = [op EXCEPT ![t] = [Resting EXCEPT !.pc = pc, !.key = k, !.value = IF pc = "put" THEN writes + 1 ELSE None]]

\* put: into the cache first, then through to the store.
Put(t) == \E k \in Keys :
    /\ BeginWrite(t, k, "put")
    /\ cache' = Remember(k, writes + 1)
    /\ UNCHANGED <<file, tmp, acked>>

\* Fault: set() opens the file itself.
OpenInPlace(t, k) == file' = [file EXCEPT ![k] = Half] /\ tmp' = [tmp EXCEPT ![k] = Half]
\* FilePersistence.set opens the temporary file, empty, writes it, and moves it into place. Whoever else
\* has it open goes on writing to the file it became.
OpenTemporary(t, k) == tmp' = [tmp EXCEPT ![k] = Half] /\ UNCHANGED file
Open(t) ==
    /\ op[t].pc = "put" /\ OpenTemporary(t, op[t].key)
    /\ op' = [op EXCEPT ![t].pc = "opened", ![t].handle = "tmp"]
    /\ UNCHANGED <<cache, writes, acked>>

Write(t) ==
    /\ op[t].pc = "opened"
    /\ LET k == op[t].key
           together == \E u \in Threads \ {t} : Doing(u, k, {"opened", "written"}) /\ op[u].handle = op[t].handle
       IN \E content \in {op[t].value} \cup (IF together THEN {Half} ELSE {}) :
          IF op[t].handle = "tmp" THEN tmp' = [tmp EXCEPT ![k] = content] /\ UNCHANGED file
                                  ELSE file' = [file EXCEPT ![k] = content] /\ UNCHANGED tmp
    /\ op' = [op EXCEPT ![t].pc = "written"]
    /\ UNCHANGED <<cache, writes, acked>>

\* A value that is not JSON, or a full disk, raises out of put; the cache has the value already.
Fail(t) ==
    /\ op[t].pc = "opened"
    /\ op' = [op EXCEPT ![t] = Resting]
    /\ UNCHANGED <<file, tmp, cache, writes, acked>>

\* The move raises FileNotFoundError in the thread that comes second.
Replace(t) ==
    LET k == op[t].key IN
    /\ op[t].pc = "written"
    /\ IF tmp[k] = None
       THEN /\ op' = [op EXCEPT ![t] = [Resting EXCEPT !.pc = "raised"]]
            /\ UNCHANGED <<file, tmp, acked>>
       ELSE /\ file' = [file EXCEPT ![k] = tmp[k]] /\ tmp' = [tmp EXCEPT ![k] = None]
            /\ op' = [u \in Threads |->
                   IF u = t THEN Resting
                   ELSE IF Doing(u, k, {"opened", "written"}) THEN [op[u] EXCEPT !.handle = "file"] ELSE op[u]]
            /\ acked' = [acked EXCEPT ![k] = op[t].value]
    /\ UNCHANGED <<cache, writes>>

\* delete: out of the cache, then the file.
Delete(t) == \E k \in Keys :
    /\ BeginWrite(t, k, "delete")
    /\ cache' = Forget(k)
    /\ UNCHANGED <<file, tmp, acked>>

Unlink(t) ==
    /\ op[t].pc = "delete"
    /\ file' = [file EXCEPT ![op[t].key] = None] /\ acked' = [acked EXCEPT ![op[t].key] = None]
    /\ op' = [op EXCEPT ![t] = Resting]
    /\ UNCHANGED <<tmp, cache, writes>>
-----------------------------------------------------------------------------
\* get: the cache, and the key made most recent, or the store, and what it said remembered.
Get(t) == \E k \in Keys :
    /\ op[t].pc = "idle"
    /\ op' = [op EXCEPT ![t] = [Resting EXCEPT !.key = k,
                                               !.pc = IF Cached(k) # {} THEN "hit" ELSE "missed"]]
    /\ UNCHANGED <<file, tmp, cache, writes, acked>>

\* move_to_end raises KeyError when the key was evicted or deleted since the look.
Touch(t) ==
    LET k == op[t].key IN
    /\ op[t].pc = "hit"
    /\ IF Cached(k) = {} THEN op' = [op EXCEPT ![t] = [Resting EXCEPT !.pc = "raised"]] /\ UNCHANGED cache
       ELSE /\ op' = [op EXCEPT ![t] = Resting]
            /\ cache' = Append(Forget(k), <<k, CHOOSE v \in Cached(k) : TRUE>>)
    /\ UNCHANGED <<file, tmp, writes, acked>>

\* A file that is not there or does not parse reads as None, and nothing is remembered.
ReadFile(t) ==
    LET row == file[op[t].key] IN
    /\ op[t].pc = "missed"
    /\ op' = [op EXCEPT ![t] = IF row \in {None, Half} THEN Resting ELSE [@ EXCEPT !.pc = "read", !.saw = row]]
    /\ UNCHANGED <<file, tmp, cache, writes, acked>>

Restored(t) ==
    /\ op[t].pc = "read"
    /\ cache' = Remember(op[t].key, op[t].saw)
    /\ op' = [op EXCEPT ![t] = Resting]
    /\ UNCHANGED <<file, tmp, writes, acked>>

\* The process dies and another one begins, with the directory it left.
Crash ==
    /\ op' = [t \in Threads |-> Resting] /\ cache' = <<>>
    /\ UNCHANGED <<file, tmp, writes, acked>>

Next == Crash \/ \E t \in Threads :
    Put(t) \/ Open(t) \/ Write(t) \/ Fail(t) \/ Replace(t) \/ Delete(t) \/ Unlink(t)
    \/ Get(t) \/ Touch(t) \/ ReadFile(t) \/ Restored(t)
Spec == Init /\ [][Next]_storeVars
-----------------------------------------------------------------------------
\* The state keeps its type.
TypeOK ==
    /\ file \in [Keys -> Values \cup {None, Half}] /\ tmp \in [Keys -> Values \cup {None, Half}]
    /\ Len(cache) <= Capacity /\ \A i \in DOMAIN cache : cache[i] \in Keys \X Values
    /\ IsInjective([i \in DOMAIN cache |-> cache[i][1]])
    /\ acked \in [Keys -> Values \cup {None}]
    /\ \A t \in Threads : op[t].pc \in Writing \cup {"idle", "hit", "missed", "read", "raised"}

\* Nobody is in the middle of a call about the key.
Quiet(k) == \A t \in Threads : ~Doing(t, k, Writing \cup {"read"})

\* While no two threads write one key, its file is at every moment what the last put or delete that was
\* carried out left: whole, and neither older nor newer, through writes that raise and crashes at any step
\* (FilePersistence.set: "a crash mid-write leaves the previous checkpoint intact").
Durable == file = acked

\* Stated and refuted by TLC when two threads save one key: persistence.py says "a reader never sees half a file".
WholeFile == \A k \in Keys : file[k] # Half
\* Stated and refuted by TLC: a get that missed remembers what it read over a put or a delete that came between.
CacheTrue == \A k \in Keys : Quiet(k) => Cached(k) \subseteq {file[k]}
\* Stated and refuted by TLC: no call raises because of another thread's.
NobodyRaises == \A t \in Threads : op[t].pc # "raised"
=============================================================================
