------------------------------ MODULE Scheduler ------------------------------
(***************************************************************************)
(* The schedule of src/combycode_llm_sdk/scheduler.py: tasks are rows of a *)
(* store that several processes share and that outlives them; a process    *)
(* registers handlers by name and now and then asks for what is due.       *)
(* Handlers are the application's: they may add and cancel tasks while     *)
(* they run, raise, or leave the loop with a SystemExit.  pending() reads  *)
(* row by row, in one step here: the rows are independent, and a row that  *)
(* changes after it was read is the same as one that changes after all     *)
(* were.                                                                   *)
(***************************************************************************)
EXTENDS Integers, Sequences, SequencesExt, FiniteSets

CONSTANTS
    Processes,
    Names,        \* names of handlers
    Serves,       \* [Processes -> the names it may register]
    Delays,       \* how far ahead a task is scheduled, or how far back by at()
    Intervals,    \* of periodic tasks
    MaxTasks, MaxTime, MaxCrashes   \* bounds

ASSUME SchedulerAssumption ==
    /\ Serves \in [Processes -> SUBSET Names]
    /\ \A p, q \in Processes : p # q => Serves[p] \cap Serves[q] = {}
    /\ Delays \subseteq Int /\ Intervals \subseteq Nat
    /\ MaxTasks \in Nat /\ MaxTime \in Nat /\ MaxCrashes \in Nat

VARIABLES
    now,
    store,      \* rows by task id
    handlers,   \* [Processes -> the names registered]
    todo,       \* [Processes -> rows run_due has not come to]
    busy,       \* [Processes -> the row whose handler runs]
    \* history
    made,       \* what was added, in order: [name, type, interval]
    starts,     \* [id -> how often its handler was called]
    ended,      \* [id -> when it last returned, or Never]
    lost,       \* [id -> calls cut off by a crash]
    cancelled   \* ids somebody cancelled

ghosts == <<made, starts, ended, lost, cancelled>>
vars == <<now, store, handlers, todo, busy, ghosts>>

Ids == 1 .. MaxTasks
Never == 0 - MaxTime
NoTask == [id |-> 0, name |-> "none", type |-> "none", fire |-> 0, interval |-> 0]

Init ==
    /\ now = 0
    /\ store = [i \in Ids |-> NoTask]
    /\ handlers = [p \in Processes |-> {}]
    /\ todo = [p \in Processes |-> <<>>]
    /\ busy = [p \in Processes |-> NoTask]
    /\ made = <<>>
    /\ starts = [i \in Ids |-> 0] /\ ended = [i \in Ids |-> Never] /\ lost = [i \in Ids |-> 0]
    /\ cancelled = {}

Asking(p) == todo[p] # <<>>
Running(p) == busy[p] # NoTask

-----------------------------------------------------------------------------
(* Registration and scheduling, from anywhere.                               *)

Register(p, name) ==
    /\ name \in Serves[p]
    /\ handlers' = [handlers EXCEPT ![p] = @ \cup {name}]
    /\ UNCHANGED <<now, store, todo, busy, ghosts>>

Unregister(p, name) ==
    /\ handlers' = [handlers EXCEPT ![p] = @ \ {name}]
    /\ UNCHANGED <<now, store, todo, busy, ghosts>>

\* Fault: an id is free again when its row is gone.
FreshRow == 1 + Cardinality({i \in Ids : store[i] # NoTask})

\* An id nobody had.
Fresh == Len(made) + 1

About(task) == [name |-> task.name, type |-> task.type, interval |-> task.interval]

Add(task) ==
    /\ Fresh \in Ids
    /\ made' = Append(made, About(task))
    /\ store' = [store EXCEPT ![Fresh] = task]
    /\ UNCHANGED <<now, handlers, todo, busy, starts, ended, lost, cancelled>>

\* after and at.
Once(name, delay) ==
    Add([id |-> Fresh, name |-> name, type |-> "once", fire |-> now + delay, interval |-> 0])

Every(name, interval) ==
    Add([id |-> Fresh, name |-> name, type |-> "periodic", fire |-> now + interval,
         interval |-> interval])

Cancel(i) ==
    /\ store[i] # NoTask
    /\ store' = [store EXCEPT ![i] = NoTask]
    /\ cancelled' = cancelled \cup {i}
    /\ UNCHANGED <<now, handlers, todo, busy, made, starts, ended, lost>>

-----------------------------------------------------------------------------
(* run_due.                                                                  *)

Due == {store[i] : i \in {j \in Ids : store[j] # NoTask /\ store[j].fire <= now}}

\* due(): earliest first, rows with one moment in the store's order, which is any.
InOrder(rows) ==
    {s \in SetToSeqs(rows) : \A i, j \in DOMAIN s : i < j => s[i].fire <= s[j].fire}

RunDue(p) ==
    /\ ~Asking(p) /\ ~Running(p) /\ Due # {}
    /\ \E s \in InOrder(Due) : todo' = [todo EXCEPT ![p] = s]
    /\ UNCHANGED <<now, store, handlers, busy, ghosts>>

\* Fault: a task nobody here handles ends the loop.
PassOver(p) == <<>>

\* The loop goes on past a task that has no handler here, whose row stays.
Remaining(p) == Tail(todo[p])

Skip(p) ==
    /\ Asking(p) /\ ~Running(p)
    /\ Head(todo[p]).name \notin handlers[p]
    /\ todo' = [todo EXCEPT ![p] = Remaining(p)]
    /\ UNCHANGED <<now, store, handlers, busy, ghosts>>

\* The handler is called, whatever has become of the row in the meantime.
Start(p) ==
    /\ Asking(p) /\ ~Running(p)
    /\ Head(todo[p]).name \in handlers[p]
    /\ busy' = [busy EXCEPT ![p] = Head(todo[p])]
    /\ todo' = [todo EXCEPT ![p] = Tail(@)]
    /\ starts' = [starts EXCEPT ![Head(todo[p]).id] = @ + 1]
    /\ UNCHANGED <<now, store, handlers, made, ended, lost, cancelled>>

\* Fault: the next time is counted from the last.
NextFireKept(task) == task.fire + task.interval

NextFire(task) == now + task.interval

\* Fault: every task is taken for a periodic one.
RetiredAlike(task) == [store EXCEPT ![task.id] = [task EXCEPT !.fire = NextFire(task)]]

\* _retire: the row run_due read is written back with its next moment, or deleted.
Retired(task) ==
    [store EXCEPT ![task.id] =
        IF task.type = "periodic" /\ task.interval > 0
        THEN [task EXCEPT !.fire = NextFire(task)] ELSE NoTask]

\* The handler returns, raises, or raises past `except Exception`, which leaves
\* the loop by way of the same `finally`.
HandlerEnds(p, how) ==
    /\ Running(p)
    /\ store' = Retired(busy[p])
    /\ busy' = [busy EXCEPT ![p] = NoTask]
    /\ todo' = IF how = "exit" THEN [todo EXCEPT ![p] = <<>>] ELSE todo
    /\ ended' = [ended EXCEPT ![busy[p].id] = now]
    /\ UNCHANGED <<now, handlers, made, starts, lost, cancelled>>

-----------------------------------------------------------------------------
\* The process dies and starts again: the store is what it finds.
Crash(p) ==
    /\ Asking(p) \/ Running(p) \/ handlers[p] # {}
    /\ Running(p) => lost[busy[p].id] < MaxCrashes
    /\ handlers' = [handlers EXCEPT ![p] = {}]
    /\ todo' = [todo EXCEPT ![p] = <<>>]
    /\ busy' = [busy EXCEPT ![p] = NoTask]
    /\ lost' = IF Running(p) THEN [lost EXCEPT ![busy[p].id] = @ + 1] ELSE lost
    /\ UNCHANGED <<now, store, made, starts, ended, cancelled>>

Tick == now < MaxTime /\ now' = now + 1 /\ UNCHANGED <<store, handlers, todo, busy, ghosts>>

Loop(p) == RunDue(p) \/ Skip(p) \/ Start(p) \/ \E how \in {"return", "exit"} : HandlerEnds(p, how)

Next ==
    \/ \E p \in Processes :
          \/ \E name \in Names : Register(p, name) \/ Unregister(p, name)
          \/ Loop(p) \/ Crash(p)
    \/ \E name \in Names :
          \/ \E d \in Delays : Once(name, d)
          \/ \E n \in Intervals : Every(name, n)
    \/ \E i \in Ids : Cancel(i)
    \/ Tick

\* Every process keeps asking for what is due, and handlers come back.
Spec == Init /\ [][Next]_vars /\ \A p \in Processes : WF_vars(Loop(p))

-----------------------------------------------------------------------------
Task == [id : Ids, name : Names, type : {"once", "periodic"}, fire : Int, interval : Nat]

TypeOK ==
    /\ now \in 0 .. MaxTime
    /\ store \in [Ids -> Task \cup {NoTask}]
    /\ \A i \in Ids : store[i] # NoTask => store[i].id = i
    /\ handlers \in [Processes -> SUBSET Names]
    /\ \A p \in Processes : handlers[p] \subseteq Serves[p]
    /\ todo \in [Processes -> Seq(Task)]
    /\ busy \in [Processes -> Task \cup {NoTask}]
    /\ made \in Seq([name : Names, type : {"once", "periodic"}, interval : Nat])
    /\ Len(made) <= MaxTasks
    /\ starts \in [Ids -> Nat] /\ lost \in [Ids -> Nat] /\ ended \in [Ids -> Int]
    /\ cancelled \subseteq Ids

\* A one-time task is called once, and once more for each call that a crash cut
\* off; and no row leaves the store before its task was called, but by cancel:
\* not when its process does not know the name, and not for a failure.
RunsRight(i) ==
    /\ made[i].type = "once" => starts[i] <= 1 + lost[i]
    /\ store[i] = NoTask =>
          i \in cancelled \/ (starts[i] > lost[i] /\ (made[i].type = "once" \/ made[i].interval = 0))
OnceRuns == \A i \in 1 .. Len(made) : RunsRight(i)

\* A periodic task is called an interval or more after its last call came back,
\* however long that took, late it was, or badly it ended: "a periodic task that
\* re-fires instantly on failure is a hot loop" (run_due).
Spaced ==
    \A i \in 1 .. Len(made) :
        made[i].type = "periodic" /\ starts'[i] > starts[i] /\ ended[i] # Never
           => now >= ended[i] + made[i].interval
PeriodicSpaced == [][Spaced]_vars

\* A due task whose handler is there is called in the end, whatever the tasks
\* due before it do: fail, leave the loop, or have no handler here.
Served(i) == \E p \in Processes : store[i].name \in handlers[p]
Called(i) == \E p \in Processes : busy[p].id = i
DueRuns ==
    \A i \in Ids :
        (store[i] \in Due /\ Served(i)) ~> (Called(i) \/ store[i] \notin Due \/ ~Served(i))

-----------------------------------------------------------------------------
(* What a caller of cancel may expect and the code does not do.              *)

\* A cancelled task is not called again, and its row does not come back.
CancelHolds ==
    [][\A i \in cancelled : starts'[i] = starts[i] /\ (store[i] = NoTask => store'[i] = NoTask)]_vars
=============================================================================
