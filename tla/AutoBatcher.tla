---------------------------- MODULE AutoBatcher ----------------------------
(***************************************************************************)
(* AutoBatcher of src/combycode_llm_sdk/batch/batcher.py over the four     *)
(* providers of batch/adapters.py, and the BatchJob of helpers/batch.py.   *)
(* One thread calls it; a provider works on the jobs at its own pace.  An  *)
(* answer is named by the item it was made for, so a ticket that holds     *)
(* another item's answer is visible.                                       *)
(***************************************************************************)
EXTENDS Integers, Sequences, SequencesExt, FiniteSets

CONSTANTS
    Items,         \* custom ids; a request is known by its id, which is not "free", "waiting" or "failed"
    Providers,     \* of "anthropic", "openai", "google", "xai"
    MinBatch, MaxBatch, Window,   \* BatchStrategy; the window in ticks
    Raises,        \* fetch raises on an HTTP error (an engine's does, a bare transport's does not)
    Lists,         \* what submit_batch is called with: sequences of items
    MaxJobs        \* bound

VARIABLES
    provider,
    collecting,   \* _collecting: the ids, in order
    waited,       \* since _opened_at, or Shut
    tickets,      \* per id: "free" (no ticket), "waiting", "failed", or whose answer it holds
    job,          \* _job: an index of jobs, or 0
    rows,         \* the store's batch:{id} rows
    jobs,         \* the provider's jobs, in order: [ids, out, state]
    order,        \* the tickets of the BatchJob submit_batch returned, or <<>>
    known, read,  \* history: jobs whose id the batcher was told; those read when finished
    missing       \* history: [id, job] reported as "no result" when that job was read

vars == <<provider, collecting, waited, tickets, job, rows, jobs, order, known, read, missing>>
memory == <<collecting, waited, tickets, job, rows, order, known, read, missing>>

Shut == 0 - 1
Used == order # <<>> \/ jobs # <<>> \/ \E i \in Items : tickets[i] # "free"

Init ==
    /\ provider \in Providers
    /\ collecting = <<>> /\ waited = Shut
    /\ tickets = [i \in Items |-> "free"]
    /\ job = 0 /\ rows = {} /\ jobs = <<>> /\ order = <<>>
    /\ known = {} /\ read = {} /\ missing = {}

-----------------------------------------------------------------------------
(* Submitting.                                                               *)

ShouldSubmit(size, age) ==
    /\ size > 0
    /\ size >= MaxBatch \/ (age >= Window /\ size >= MinBatch)

NewJob(ids) == [ids |-> ids, out |-> [i \in ToSet(ids) |-> "none"], state |-> "running"]

\* How adapter.submit ends: it refuses; the job is made but its id lost (no answer,
\* or one without an id); and where a job is created first and filled by a
\* second call, the second may be refused.
Endings == {"told", "refused", "lost"} \cup (IF provider = "xai" THEN {"unfilled"} ELSE {})

\* Fault: the collection is cleared before the provider has answered.
SubmittedEarly(batch, how) ==
    /\ collecting' = <<>> /\ waited' = Shut
    /\ jobs' = IF how = "refused" THEN jobs
               ELSE Append(jobs, NewJob(IF how = "unfilled" THEN <<>> ELSE batch))
    /\ IF how = "told"
          THEN /\ job' = Len(jobs') /\ rows' = rows \cup {job'} /\ known' = known \cup {job'}
          ELSE UNCHANGED <<job, rows, known>>

\* submit(): on any failure the items stay collected.
Submitted(batch, how) ==
    /\ Len(jobs) < MaxJobs
    /\ jobs' = IF how = "refused" THEN jobs
               ELSE Append(jobs, NewJob(IF how = "unfilled" THEN <<>> ELSE batch))
    /\ IF how = "told"
          THEN /\ collecting' = <<>> /\ waited' = Shut
               /\ job' = Len(jobs') /\ rows' = rows \cup {job'} /\ known' = known \cup {job'}
          ELSE /\ collecting' = batch /\ waited' = (IF waited = Shut THEN 0 ELSE waited)
               /\ UNCHANGED <<job, rows, known>>

\* A custom_id that has a ticket is refused, however long ago it was settled.
Free(i) == tickets[i] = "free"

\* add: a full batch goes at once, and if that fails the caller has the exception and
\* no ticket, though the item stays.
Add(i) ==
    /\ order = <<>> /\ Free(i)
    /\ tickets' = [tickets EXCEPT ![i] = "waiting"]
    /\ LET batch == Append(collecting, i) IN
       IF Len(batch) >= MaxBatch
          THEN \E how \in Endings : Submitted(batch, how)
          ELSE /\ collecting' = batch /\ waited' = (IF waited = Shut THEN 0 ELSE waited)
               /\ UNCHANGED <<job, rows, jobs, known>>
    /\ UNCHANGED <<provider, order, read, missing>>

\* tick.
Tick ==
    /\ order = <<>> /\ waited # Shut /\ ShouldSubmit(Len(collecting), waited)
    /\ \E how \in Endings : Submitted(collecting, how)
    /\ UNCHANGED <<provider, tickets, order, read, missing>>

\* submit, called by hand or by wait() when there is no job yet.
Submit ==
    /\ order = <<>> /\ collecting # <<>>
    /\ \E how \in Endings : Submitted(collecting, how)
    /\ UNCHANGED <<provider, tickets, order, read, missing>>

\* submit_batch on a new batcher: add() submits each full batch on the way, submit()
\* what is left.  With nothing left it raises, as at any refusal on the way, and the
\* caller has no BatchJob.  There is no store.
SubmitBatch(list) ==
    LET full == Len(list) \div MaxBatch
        chunk(k) == SubSeq(list, (k - 1) * MaxBatch + 1, k * MaxBatch)
        rest == SubSeq(list, full * MaxBatch + 1, Len(list))
    IN  /\ ~Used /\ list # <<>> /\ full < MaxJobs /\ rest # <<>>
        /\ jobs' = [k \in 1 .. full |-> NewJob(chunk(k))] \o <<NewJob(rest)>>
        /\ job' = Len(jobs') /\ known' = {job'} /\ order' = list
        /\ tickets' = [i \in Items |-> IF i \in ToSet(list) THEN "waiting" ELSE "free"]
        /\ UNCHANGED <<provider, collecting, waited, rows, read, missing>>

-----------------------------------------------------------------------------
(* Reading.                                                                  *)

\* An HTTP error reaches the adapter only where fetch does not raise.
Replies == {"ok"} \cup (IF Raises THEN {} ELSE {"error"})

Undone(j) == {i \in DOMAIN jobs[j].out : jobs[j].out[i] = "none"}

\* Fault: a batch with some answers is taken for a finished one.
TerminalOnSight(j, reply) == Undone(j) # DOMAIN jobs[j].out

\* Whether get_status of job j reads as one of TERMINAL: an error's body has no status
\* for Anthropic and OpenAI, and is FAILED for Google and xAI; xAI names no state at all,
\* and a job without requests is never done.
Terminal(j, reply) ==
    IF reply = "error" THEN provider \in {"google", "xai"}
    ELSE IF provider = "xai" THEN DOMAIN jobs[j].out # {} /\ jobs[j].state = "ended"
    ELSE jobs[j].state = "ended"

\* get_results: what the provider has, in its own order, and perhaps an id never sent;
\* any error reads as no results.
Result(j, i) == [id |-> i, ok |-> jobs[j].out[i] = "ok", of |-> i]
Stray == [id |-> "stray", ok |-> TRUE, of |-> "stray"]
Results(j, reply) ==
    IF reply = "error" THEN {<<>>}
    ELSE LET rs == {Result(j, i) : i \in DOMAIN jobs[j].out \ Undone(j)}
         IN  UNION {SetToSeqs(rs), SetToSeqs(rs \cup {Stray})}

\* Fault: results are matched to the job's items by position.
SettledByPosition(rs) ==
    [i \in Items |->
        IF tickets[i] # "free" /\ \E k \in DOMAIN rs : k <= Len(jobs[job].ids) /\ jobs[job].ids[k] = i
        THEN LET r == rs[CHOOSE k \in DOMAIN rs : jobs[job].ids[k] = i]
             IN  IF r.ok THEN r.of ELSE "failed"
        ELSE tickets[i]]

\* collect: by id, and an unknown id settles nothing.
Settled(rs) ==
    [i \in Items |->
        IF tickets[i] # "free" /\ \E r \in ToSet(rs) : r.id = i
        THEN LET r == CHOOSE r \in ToSet(rs) : r.id = i IN IF r.ok THEN r.of ELSE "failed"
        ELSE tickets[i]]

Collect(rs) ==
    /\ tickets' = Settled(rs)
    /\ rows' = rows \ {job}
    /\ read' = read \cup (IF jobs[job].state = "ended" THEN {job} ELSE {})
    \* BatchJob._collected: a ticket that is still waiting is reported as a failure
    /\ missing' = missing \cup {[id |-> i, job |-> job] : i \in {k \in ToSet(order) : tickets'[k] = "waiting"}}

\* One look of wait(), of AutoBatcher or BatchJob, or BatchJob.results(): a job that
\* is not done is left alone.
Look ==
    /\ job # 0
    /\ \E asked \in Replies, got \in Replies :
          /\ Terminal(job, asked)
          /\ \E rs \in Results(job, got) : Collect(rs)
    /\ UNCHANGED <<provider, collecting, waited, job, jobs, order, known>>

-----------------------------------------------------------------------------
(* The provider and the clock.                                               *)

Produce(j, i, out) ==
    /\ jobs[j].state = "running" /\ i \in Undone(j)
    /\ jobs' = [jobs EXCEPT ![j].out[i] = out]
    /\ UNCHANGED <<provider, memory>>

\* The job completes, or expires, fails or is cancelled with items undone.
EndJob(j) ==
    /\ jobs[j].state = "running"
    /\ jobs' = [jobs EXCEPT ![j].state = "ended"]
    /\ UNCHANGED <<provider, memory>>

Pass ==
    /\ waited \in 0 .. Window - 1 /\ waited' = waited + 1
    /\ UNCHANGED <<provider, collecting, tickets, job, rows, jobs, order, known, read, missing>>

Next ==
    \/ \E i \in Items : Add(i)
    \/ Tick \/ Submit \/ Look \/ Pass
    \/ \E list \in Lists : SubmitBatch(list)
    \/ \E j \in DOMAIN jobs :
          \/ \E i \in DOMAIN jobs[j].out, out \in {"ok", "error"} : Produce(j, i, out)
          \/ EndJob(j)

Spec == Init /\ [][Next]_vars

-----------------------------------------------------------------------------
TypeOK ==
    /\ provider \in Providers /\ collecting \in Seq(Items) /\ waited \in {Shut} \cup 0 .. Window
    /\ tickets \in [Items -> Items \cup {"free", "waiting", "failed"}]
    /\ job \in 0 .. Len(jobs) /\ rows \cup known \cup read \subseteq DOMAIN jobs
    /\ \A j \in DOMAIN jobs : jobs[j].state \in {"running", "ended"} /\ jobs[j].ids \in Seq(Items)
    /\ order \in Seq(Items)

\* A ticket holds the answer to its own request, from a job it went out with: "that id
\* is the only thing allowed to settle a caller's ticket" (batch/types.py), in whatever
\* order results come and however jobs and strangers' ids mix.
OwnAnswer ==
    \A i \in Items : tickets[i] \in Items =>
        tickets[i] = i /\ \E j \in DOMAIN jobs : i \in DOMAIN jobs[j].out /\ jobs[j].out[i] = "ok"

\* No item is dropped on the way: while its ticket waits it is collected, with an open
\* window, or in a job whose id is known; and a job leaves the store only once it was
\* read after its end, so a failed submit or a failed read loses nothing.
NothingDropped ==
    /\ collecting # <<>> <=> waited # Shut
    /\ \A i \in Items : tickets[i] = "waiting" /\ order = <<>> =>
          i \in ToSet(collecting) \/ \E j \in known : i \in ToSet(jobs[j].ids)
    /\ \A j \in known : order # <<>> \/ j \in rows \/ j \in read

\* "the provider returned no result for this item" is said only of an item its job
\* ended without: never of one still being worked on or answered.
MissingIsTrue ==
    \A m \in missing : LET j == jobs[m.job] IN
        m.id \in DOMAIN j.out => j.state = "ended" /\ j.out[m.id] = "none"

\* "return every answer in request order" (helpers/batch.py, batch): an item reported as
\* missing was answered in no job.  Refuted by a list longer than MaxBatch.
EveryAnswer ==
    \A m \in missing, j \in DOMAIN jobs : m.id \in DOMAIN jobs[j].out => jobs[j].out[m.id] # "ok"
=============================================================================
