-------------------------- MODULE SchedulerProofs --------------------------
(***************************************************************************)
(* OnceRuns and PeriodicSpaced for every number of processes, tasks and    *)
(* crashes.  OnceRuns is not inductive: nothing in it keeps a task that    *)
(* was called from being called again by a process that read its row       *)
(* before.  IInv says who may still call a task, and what the row of a     *)
(* task that is being called is; Timely, when a row may be due again.      *)
(***************************************************************************)
EXTENDS Scheduler, FiniteSetTheorems, TLAPS

\* A row as it was added, but for the moment it is due.
RowOf(r) == r.id \in 1 .. Len(made) /\ About(r) = made[r.id]
Rows ==
    /\ \A i \in Ids : store[i] # NoTask => RowOf(store[i])
    /\ \A p \in Processes : /\ \A k \in 1 .. Len(todo[p]) : RowOf(todo[p][k])
                            /\ Running(p) => RowOf(busy[p])

\* The tasks p may still call: in its list, and under a name it may register.
Ahead(p) == {k \in 1 .. Len(todo[p]) : todo[p][k].name \in Serves[p]}

\* A process has each task once, and calls what it may serve.
Lists ==
    \A p \in Processes :
        /\ \A j, k \in 1 .. Len(todo[p]) : todo[p][j].id = todo[p][k].id => j = k
        /\ Running(p) => /\ busy[p].name \in Serves[p]
                         /\ \A k \in 1 .. Len(todo[p]) : todo[p][k].id # busy[p].id

\* Calls are counted before they can be lost.
Counted ==
    /\ \A i \in Ids : lost[i] <= starts[i]
    /\ \A p \in Processes : Running(p) => lost[busy[p].id] < starts[busy[p].id]
    /\ \A i \in Ids : i > Len(made) => starts[i] = 0 /\ lost[i] = 0 /\ store[i] = NoTask

\* A one-time task with a call that was not lost is not called again: nobody
\* that serves it has it ahead, and its row is gone, or will be when the call ends.
Spent(i) == made[i].type = "once" /\ starts[i] # lost[i]
SingleAt(i) ==
    /\ made[i].type = "once" => starts[i] <= 1 + lost[i]
    /\ Spent(i) => /\ \A p \in Processes : \A k \in Ahead(p) : todo[p][k].id # i
                   /\ store[i] = NoTask \/ Called(i)
Single == \A i \in 1 .. Len(made) : SingleAt(i)

\* What is being called, or ahead of its process, has its row or was cancelled.
Present ==
    \A p \in Processes :
        /\ Running(p) /\ store[busy[p].id] = NoTask => busy[p].id \in cancelled
        /\ \A k \in Ahead(p) : store[todo[p][k].id] = NoTask => todo[p][k].id \in cancelled

Inner == Rows /\ Lists /\ Counted /\ Single /\ Present /\ OnceRuns
IInv == TypeOK /\ Inner

-----------------------------------------------------------------------------
\* No row of a task is the absent row.
LEMMA NoTaskIsNone == NoTask \notin Task
    BY DEF NoTask, Task

\* A row with another moment is a row.
LEMMA FireChanged ==
    ASSUME NEW task \in Task, NEW t \in Int
    PROVE  [task EXCEPT !.fire = t] \in Task
    BY DEF Task

\* A list run_due may come to has each due row once (SetToSeqs).
LEMMA InOrderLists ==
    ASSUME TypeOK, NEW s \in InOrder(Due)
    PROVE  /\ s \in Seq(Due)
           /\ \A j, k \in 1 .. Len(s) : j # k => s[j] # s[k]
<1>1. IsFiniteSet(Due)
    <2> DEFINE I == {j \in Ids : store[j] # NoTask /\ store[j].fire <= now}
    <2>1. IsFiniteSet(Ids)
        BY SchedulerAssumption, FS_Interval DEF Ids
    <2>2. IsFiniteSet(I)
        BY <2>1, FS_Subset
    <2> DEFINE f == [i \in I |-> store[i]]
    <2>3. f \in Surjection(I, Due)
        BY DEF Due, Surjection
    <2> HIDE DEF I, f
    <2> QED
        BY <2>2, <2>3, FS_Surjection
<1>2. Cardinality(Due) \in Nat
    BY <1>1, FS_CardinalityType
<1>3. /\ s \in [1 .. Cardinality(Due) -> Due]
      /\ \A j, k \in 1 .. Cardinality(Due) : j # k => s[j] # s[k]
    BY DEF InOrder, SetToSeqs
<1> QED
    BY <1>2, <1>3

\* What is due has its id and a time that has come.
LEMMA DueRows ==
    ASSUME TypeOK, NEW r \in Due
    PROVE  r \in Task /\ r.id \in Ids /\ store[r.id] = r
    BY NoTaskIsNone DEF Due, TypeOK, Task

-----------------------------------------------------------------------------
\* Every step keeps the types.
LEMMA TypeStep == TypeOK /\ [Next]_vars => TypeOK'
<1> SUFFICES ASSUME TypeOK, [Next]_vars PROVE TypeOK'
    OBVIOUS
<1> USE SchedulerAssumption
<1>1. ASSUME NEW p \in Processes, NEW name \in Names, Register(p, name) PROVE TypeOK'
    BY <1>1 DEF TypeOK, Register, ghosts
<1>2. ASSUME NEW p \in Processes, NEW name \in Names, Unregister(p, name) PROVE TypeOK'
    BY <1>2 DEF TypeOK, Unregister, ghosts
<1>3. ASSUME NEW task \in Task, task.id = Fresh, Add(task) PROVE TypeOK'
    <2>1. About(task) \in [name : Names, type : {"once", "periodic"}, interval : Nat]
        BY DEF About, Task
    <2>2. made' \in Seq([name : Names, type : {"once", "periodic"}, interval : Nat])
          /\ Len(made') = Len(made) + 1
        BY <1>3, <2>1 DEF TypeOK, Add
    <2>3. Len(made') <= MaxTasks
        BY <1>3, <2>2 DEF Add, Fresh, Ids, TypeOK
    <2>4. /\ store' \in [Ids -> Task \cup {NoTask}]
          /\ \A i \in Ids : store'[i] # NoTask => store'[i].id = i
        BY <1>3 DEF TypeOK, Add
    <2> QED
        BY <1>3, <2>2, <2>3, <2>4 DEF TypeOK, Add
<1>4. ASSUME NEW name \in Names, NEW d \in Delays, Once(name, d) PROVE TypeOK'
    <2> DEFINE task == [id |-> Fresh, name |-> name, type |-> "once", fire |-> now + d, interval |-> 0]
    <2>1. Add(task) /\ Fresh \in Ids
        BY <1>4 DEF Once, Add
    <2>2. task \in Task /\ task.id = Fresh
        BY <2>1 DEF Task, TypeOK
    <2> QED
        BY <1>3, <2>1, <2>2
<1>5. ASSUME NEW name \in Names, NEW n \in Intervals, Every(name, n) PROVE TypeOK'
    <2> DEFINE task == [id |-> Fresh, name |-> name, type |-> "periodic", fire |-> now + n,
                        interval |-> n]
    <2>1. Add(task) /\ Fresh \in Ids
        BY <1>5 DEF Every, Add
    <2>2. task \in Task /\ task.id = Fresh
        BY <2>1 DEF Task, TypeOK
    <2> QED
        BY <1>3, <2>1, <2>2
<1>6. ASSUME NEW i \in Ids, Cancel(i) PROVE TypeOK'
    BY <1>6 DEF TypeOK, Cancel
<1>7. ASSUME NEW p \in Processes, RunDue(p) PROVE TypeOK'
    <2>1. PICK s \in InOrder(Due) : todo' = [todo EXCEPT ![p] = s]
        BY <1>7 DEF RunDue
    <2>2. s \in Seq(Task)
        <3>1. s \in Seq(Due)
            BY InOrderLists
        <3>2. Due \subseteq Task
            BY DueRows
        <3> QED
            BY <3>1, <3>2
    <2> QED
        BY <1>7, <2>1, <2>2 DEF TypeOK, RunDue, ghosts
<1>8. ASSUME NEW p \in Processes, Skip(p) PROVE TypeOK'
    BY <1>8 DEF TypeOK, Skip, Asking, Remaining, ghosts
<1>9. ASSUME NEW p \in Processes, Start(p) PROVE TypeOK'
    <2>1. Head(todo[p]) \in Task /\ Tail(todo[p]) \in Seq(Task)
        BY <1>9 DEF TypeOK, Start, Asking
    <2>2. Head(todo[p]).id \in Ids
        BY <2>1 DEF Task
    <2> QED
        BY <1>9, <2>1, <2>2 DEF TypeOK, Start
<1>10. ASSUME NEW p \in Processes, NEW how, HandlerEnds(p, how) PROVE TypeOK'
    <2>1. busy[p] \in Task /\ busy[p].id \in Ids
        BY <1>10 DEF TypeOK, HandlerEnds, Running, Task
    <2>2. [busy[p] EXCEPT !.fire = NextFire(busy[p])] \in Task
        <3>1. NextFire(busy[p]) \in Int
            BY <2>1 DEF NextFire, Task, TypeOK
        <3> QED
            BY <2>1, <3>1, FireChanged
    <2>3. store' \in [Ids -> Task \cup {NoTask}] /\ \A i \in Ids : store'[i] # NoTask => store'[i].id = i
        <3>1. PICK row \in Task \cup {NoTask} :
                 store' = [store EXCEPT ![busy[p].id] = row] /\ (row # NoTask => row.id = busy[p].id)
            <4>1. [busy[p] EXCEPT !.fire = NextFire(busy[p])].id = busy[p].id
                BY <2>1 DEF Task
            <4>2. store' = Retired(busy[p])
                BY <1>10 DEF HandlerEnds
            <4> QED
                BY <2>2, <4>1, <4>2 DEF Retired
        <3> QED
            BY <2>1, <3>1 DEF TypeOK
    <2>4. todo' \in [Processes -> Seq(Task)]
        BY <1>10 DEF TypeOK, HandlerEnds
    <2> QED
        BY <1>10, <2>1, <2>3, <2>4 DEF TypeOK, HandlerEnds
<1>11. ASSUME NEW p \in Processes, Crash(p) PROVE TypeOK'
    <2>1. lost' \in [Ids -> Nat]
        BY <1>11 DEF TypeOK, Crash, Running, Task
    <2> QED
        BY <1>11, <2>1 DEF TypeOK, Crash
<1>12. CASE Tick
    BY <1>12 DEF TypeOK, Tick, ghosts
<1>13. CASE UNCHANGED vars
    BY <1>13 DEF TypeOK, vars, ghosts
<1> QED
    BY <1>1, <1>2, <1>4, <1>5, <1>6, <1>7, <1>8, <1>9, <1>10, <1>11, <1>12, <1>13 DEF Next, Loop

\* The state of the schedule keeps its types, for any processes, names and bounds.
THEOREM TypeCorrect == Spec => []TypeOK
<1>1. Init => TypeOK
    BY SchedulerAssumption DEF Init, TypeOK, Ids, Never, NoTask
<1> QED
    BY <1>1, TypeStep, PTL DEF Spec

-----------------------------------------------------------------------------
\* No two processes serve one name, so none serves another's task.
LEMMA OneServer ==
    ASSUME NEW p \in Processes, NEW q \in Processes, NEW r, NEW t,
           RowOf(r), RowOf(t), r.id = t.id, r.name \in Serves[p], t.name \in Serves[q]
    PROVE  p = q
<1>1. r.name = t.name
    <2>1. About(r) = About(t)
        BY DEF RowOf
    <2> QED
        BY <2>1 DEF About
<1> QED
    BY <1>1, SchedulerAssumption

\* What was added has an id.
LEMMA MadeIds == TypeOK => /\ Len(made) \in Nat
                           /\ \A i \in 1 .. Len(made) : i \in Ids
    BY SchedulerAssumption DEF TypeOK, Ids

\* Every row somebody holds is of a task that was added.
LEMMA HeldIds ==
    ASSUME TypeOK, Rows, NEW p \in Processes
    PROVE  /\ Running(p) => busy[p] \in Task /\ busy[p].id \in 1 .. Len(made)
           /\ ~Running(p) => busy[p].id = 0
           /\ \A k \in 1 .. Len(todo[p]) : todo[p][k] \in Task /\ todo[p][k].id \in 1 .. Len(made)
<1>2. Running(p) => busy[p] \in Task /\ busy[p].id \in 1 .. Len(made)
    BY DEF TypeOK, Rows, RowOf, Running
<1>3. ~Running(p) => busy[p].id = 0
    BY DEF Running, NoTask
<1>4. \A k \in 1 .. Len(todo[p]) : todo[p][k] \in Task /\ todo[p][k].id \in 1 .. Len(made)
    <2>1. todo[p] \in Seq(Task)
        BY DEF TypeOK
    <2> QED
        BY <2>1 DEF Rows, RowOf
<1> QED
    BY <1>2, <1>3, <1>4

\* t is what is left of the list s.
Suffix(t, s) == \E d \in Nat : /\ Len(t) + d = Len(s)
                              /\ \A k \in 1 .. Len(t) : t[k] = s[k + d]

\* A list that only lost its head, or everything, has no task it had not, and
\* none twice.
LEMMA ListsShrink ==
    ASSUME TypeOK, TypeOK', Lists, \A q \in Processes : Suffix(todo'[q], todo[q]),
           NEW q \in Processes
    PROVE  /\ \A k \in 1 .. Len(todo'[q]) : \E j \in 1 .. Len(todo[q]) : todo'[q][k] = todo[q][j]
           /\ \A j, k \in 1 .. Len(todo'[q]) : todo'[q][j].id = todo'[q][k].id => j = k
           /\ \A k \in Ahead(q)' : \E j \in Ahead(q) : todo'[q][k] = todo[q][j]
<1>1. todo[q] \in Seq(Task) /\ todo'[q] \in Seq(Task)
    BY DEF TypeOK
<1>2. PICK d \in Nat : /\ Len(todo'[q]) + d = Len(todo[q])
                      /\ \A k \in 1 .. Len(todo'[q]) : todo'[q][k] = todo[q][k + d]
    BY DEF Suffix
<1>3. \A j, k \in 1 .. Len(todo[q]) : todo[q][j].id = todo[q][k].id => j = k
    BY DEF Lists
<1>4. \A k \in 1 .. Len(todo'[q]) : k + d \in 1 .. Len(todo[q])
    BY <1>1, <1>2
<1>5. \A k \in 1 .. Len(todo'[q]) : \E j \in 1 .. Len(todo[q]) : todo'[q][k] = todo[q][j]
    BY <1>2, <1>4
<1>6. ASSUME NEW j \in 1 .. Len(todo'[q]), NEW k \in 1 .. Len(todo'[q]),
             todo'[q][j].id = todo'[q][k].id
      PROVE  j = k
    <2>1. todo[q][j + d].id = todo[q][k + d].id
        BY <1>2, <1>6
    <2>2. j + d = k + d
        BY <2>1, <1>3, <1>4
    <2>3. j \in Int /\ k \in Int /\ d \in Int
        BY <1>2
    <2> QED
        BY <2>2, <2>3
<1>7. \A k \in Ahead(q)' : \E j \in Ahead(q) : todo'[q][k] = todo[q][j]
    BY <1>5 DEF Ahead
<1> QED
    BY <1>5, <1>6, <1>7

\* The three ways a list gets shorter.
LEMMA SuffixTail ==
    ASSUME NEW s \in Seq(Task), s # <<>>
    PROVE  Suffix(Tail(s), s)
<1>1. Len(Tail(s)) + 1 = Len(s) /\ \A k \in 1 .. Len(Tail(s)) : Tail(s)[k] = s[k + 1]
    OBVIOUS
<1> QED
    BY <1>1 DEF Suffix

\* The empty list is a suffix of every list ...
LEMMA SuffixNone ==
    ASSUME NEW s \in Seq(Task)
    PROVE  Suffix(<<>>, s)
<1>1. Len(s) \in Nat /\ Len(<<>>) + Len(s) = Len(s)
    OBVIOUS
<1>2. \A k \in 1 .. Len(<<>>) : <<>>[k] = s[k + Len(s)]
    OBVIOUS
<1> QED
    BY <1>1, <1>2 DEF Suffix

\* ... and a list of itself.
LEMMA SuffixAll ==
    ASSUME NEW s \in Seq(Task)
    PROVE  Suffix(s, s)
<1>1. Len(s) + 0 = Len(s) /\ \A k \in 1 .. Len(s) : s[k] = s[k + 0]
    OBVIOUS
<1> QED
    BY <1>1 DEF Suffix

-----------------------------------------------------------------------------
\* One lemma per step.

\* Registering, and the clock, touch no part of the invariant.
LEMMA InnerFrame ==
    ASSUME Inner, UNCHANGED <<store, todo, busy, made, starts, lost, cancelled>>
    PROVE  Inner'
    BY DEF Inner, Rows, Lists, Counted, Single, SingleAt, Present, OnceRuns, RunsRight, RowOf, Ahead, Running,
           Spent, Called

\* A new row has an id that was never called.
LEMMA InnerAdd ==
    ASSUME TypeOK, TypeOK', Inner, NEW task \in Task, task.id = Fresh, Add(task)
    PROVE  Inner'
<1> USE DEF Inner
<1> DEFINE n == Len(made) + 1
<1>1. /\ n \in Ids /\ task.id = n /\ Len(made) \in Nat /\ Len(made') = n
      /\ made'[n] = About(task) /\ \A i \in 1 .. Len(made) : made'[i] = made[i]
    BY DEF TypeOK, Add, Fresh
<1>2. /\ task # NoTask /\ store'[n] = task
      /\ \A i \in Ids : i # n => store'[i] = store[i]
    BY <1>1, NoTaskIsNone DEF TypeOK, Add, Fresh
<1>3. UNCHANGED <<todo, busy, starts, lost, cancelled>>
    BY DEF Add
<1>4. starts[n] = 0 /\ lost[n] = 0
    BY <1>1 DEF Counted
<1>5. n \notin 1 .. Len(made) /\ 1 .. n = (1 .. Len(made)) \cup {n}
    BY <1>1
<1>6. \A r : RowOf(r) => RowOf(r)'
    BY <1>1, <1>5 DEF RowOf
<1>7. RowOf(task)'
    BY <1>1, <1>5 DEF RowOf
<1> HIDE DEF n
<1>8. Rows'
    BY <1>2, <1>3, <1>6, <1>7 DEF Rows, Running
<1>9. Lists' /\ Counted'
    <2>1. \A i \in Ids : i > Len(made') => i > Len(made) /\ i # n
        BY <1>1 DEF n, Ids
    <2> QED
        BY <1>2, <1>3, <2>1 DEF Lists, Counted, Running
<1>10. ASSUME NEW i \in 1 .. Len(made') PROVE SingleAt(i)'
    <2>1. CASE i = n
        BY <2>1, <1>3, <1>4 DEF SingleAt, Spent
    <2>2. CASE i # n
        <3>1. i \in 1 .. Len(made) /\ i \in Ids /\ made'[i] = made[i] /\ store'[i] = store[i]
            BY <1>1, <1>2, <1>10, <2>2, MadeIds DEF n
        <3>2. SingleAt(i)
            BY <3>1 DEF Single
        <3> QED
            BY <3>1, <3>2, <1>3 DEF SingleAt, Spent, Ahead, Called
    <2> QED
        BY <2>1, <2>2
<1>11. Present'
    <2>1. \A i \in 1 .. Len(made) : store'[i] = store[i]
        BY <1>1, <1>2, MadeIds DEF n
    <2> QED
        BY <2>1, <1>3, HeldIds DEF Present, Running, Ahead
<1>12. ASSUME NEW i \in 1 .. Len(made') PROVE RunsRight(i)'
    <2>1. CASE i = n
        BY <2>1, <1>2, <1>3, <1>4 DEF RunsRight
    <2>2. CASE i # n
        <3>1. i \in 1 .. Len(made) /\ made'[i] = made[i] /\ store'[i] = store[i]
            BY <1>1, <1>2, <1>12, <2>2, MadeIds DEF n
        <3> QED
            BY <3>1, <1>3 DEF OnceRuns, RunsRight
    <2> QED
        BY <2>1, <2>2
<1> QED
    BY <1>8, <1>9, <1>10, <1>11, <1>12 DEF Single, OnceRuns

\* A cancelled row is gone, and that is noted.
LEMMA InnerCancel ==
    ASSUME TypeOK, Inner, NEW i \in Ids, Cancel(i)
    PROVE  Inner'
<1>1. UNCHANGED <<todo, busy, made, starts, lost>>
    BY DEF Cancel
<1>2. /\ store'[i] = NoTask /\ cancelled' = cancelled \cup {i}
      /\ \A j \in Ids : j # i => store'[j] = store[j]
    BY DEF Cancel, TypeOK
<1>3. Rows' /\ Lists' /\ Counted'
    BY <1>1, <1>2 DEF Inner, Rows, Lists, Counted, RowOf, Running
<1>4. Single'
    BY <1>1, <1>2, MadeIds DEF Inner, Single, SingleAt, Spent, Ahead, Called
<1>5. Present'
    <2>1. \A j \in 1 .. Len(made) : store'[j] = NoTask => store[j] = NoTask \/ j = i
        BY <1>2, MadeIds
    <2> QED
        BY <1>1, <1>2, <2>1, HeldIds DEF Inner, Present, Running, Ahead
<1>6. OnceRuns'
    <2>1. \A j \in 1 .. Len(made) : store'[j] = NoTask => store[j] = NoTask \/ j = i
        BY <1>2, MadeIds
    <2> QED
        BY <1>1, <1>2, <2>1 DEF Inner, OnceRuns, RunsRight
<1> QED
    BY <1>3, <1>4, <1>5, <1>6 DEF Inner

\* What is due has a row, so it is not spent, unless somebody is calling it, who
\* is then the only one that serves it.
LEMMA InnerRunDue ==
    ASSUME TypeOK, TypeOK', Inner, NEW p \in Processes, RunDue(p)
    PROVE  Inner'
<1> USE DEF Inner
<1>1. UNCHANGED <<store, busy, made, starts, lost, cancelled>> /\ ~Running(p)
    BY DEF RunDue, ghosts
<1>2. PICK s \in InOrder(Due) : todo' = [todo EXCEPT ![p] = s]
    BY DEF RunDue
<1>3. todo'[p] = s /\ \A q \in Processes : q # p => todo'[q] = todo[q]
    BY <1>2 DEF TypeOK
<1>4. \A k \in 1 .. Len(s) : s[k] \in Due
    BY InOrderLists
<1>5. \A k \in 1 .. Len(s) : s[k].id \in Ids /\ store[s[k].id] = s[k] /\ s[k] # NoTask
    BY <1>4, DueRows, NoTaskIsNone
<1>6. \A k \in 1 .. Len(s) : RowOf(s[k])
    BY <1>5 DEF Rows
<1>7. Rows'
    BY <1>1, <1>3, <1>6 DEF Rows, RowOf, Running
<1>8. Lists'
    <2>1. \A j, k \in 1 .. Len(s) : s[j].id = s[k].id => j = k
        BY <1>5, InOrderLists
    <2> QED
        BY <1>1, <1>3, <2>1 DEF Lists, Running
<1>9. Counted'
    BY <1>1 DEF Counted, Running
<1>10. ASSUME NEW i \in 1 .. Len(made), Spent(i), NEW k \in 1 .. Len(s), s[k].id = i,
              s[k].name \in Serves[p]
       PROVE  FALSE
    <2>1. Called(i)
        BY <1>5, <1>10 DEF Single, SingleAt
    <2>2. PICK q \in Processes : busy[q].id = i
        BY <2>1 DEF Called
    <2>3. Running(q)
        BY <2>2, HeldIds
    <2>4. q = p
        BY <2>2, <2>3, <1>6, <1>10, OneServer DEF Rows, Lists
    <2> QED
        BY <2>3, <2>4, <1>1
<1>11. Single'
    BY <1>1, <1>3, <1>10 DEF Single, SingleAt, Spent, Ahead, Called
<1>12. Present'
    BY <1>1, <1>3, <1>5 DEF Present, Running, Ahead
<1>13. OnceRuns'
    BY <1>1 DEF OnceRuns, RunsRight
<1> QED
    BY <1>7, <1>8, <1>9, <1>11, <1>12, <1>13

\* A list that gets shorter, while nothing else changes.
LEMMA InnerSkip ==
    ASSUME TypeOK, TypeOK', Inner, NEW p \in Processes, Skip(p)
    PROVE  Inner'
<1> USE DEF Inner
<1>1. UNCHANGED <<store, busy, made, starts, lost, cancelled>>
    BY DEF Skip, ghosts
<1>2. ASSUME NEW q \in Processes PROVE Suffix(todo'[q], todo[q])
    <2>1. todo[q] \in Seq(Task)
        BY DEF TypeOK
    <2>2. CASE q = p
        BY <2>1, <2>2, SuffixTail DEF Skip, Remaining, Asking, TypeOK
    <2>3. CASE q # p
        BY <2>1, <2>3, SuffixAll DEF Skip, TypeOK
    <2> QED
        BY <2>2, <2>3
<1>3. \A q \in Processes :
         /\ \A k \in 1 .. Len(todo'[q]) : \E j \in 1 .. Len(todo[q]) : todo'[q][k] = todo[q][j]
         /\ \A j, k \in 1 .. Len(todo'[q]) : todo'[q][j].id = todo'[q][k].id => j = k
         /\ \A k \in Ahead(q)' : \E j \in Ahead(q) : todo'[q][k] = todo[q][j]
    BY <1>2, ListsShrink
<1>4. Rows' /\ Lists'
    <2>1. \A t : RowOf(t)' <=> RowOf(t)
        BY <1>1 DEF RowOf
    <2> QED
        BY <1>1, <1>3, <2>1 DEF Rows, Lists, Running
<1>5. Counted' /\ OnceRuns'
    BY <1>1 DEF Counted, OnceRuns, RunsRight, Running
<1>6. Single'
    <2>1. \A q \in Processes : \A k \in Ahead(q)' : \E j \in Ahead(q) : todo'[q][k] = todo[q][j]
        BY <1>3
    <2> QED
        BY <1>1, <2>1 DEF Single, SingleAt, Spent, Called
<1>7. Present'
    <2>1. \A q \in Processes : \A k \in Ahead(q)' : \E j \in Ahead(q) : todo'[q][k] = todo[q][j]
        BY <1>3
    <2> QED
        BY <1>1, <2>1 DEF Present, Running
<1> QED
    BY <1>4, <1>5, <1>6, <1>7

\* The call is counted.  The task was ahead of p and so not spent; after it, no
\* list has it ahead: p's has each task once, and nobody else serves it.
LEMMA InnerStart ==
    ASSUME TypeOK, TypeOK', Inner, NEW p \in Processes, Start(p)
    PROVE  Inner'
<1> USE DEF Inner
<1>0. PICK r : r = Head(todo[p])
    OBVIOUS
<1>id. PICK i : i = r.id
    OBVIOUS
<1>1. UNCHANGED <<store, made, lost, cancelled>> /\ ~Running(p)
    BY DEF Start
<1>2. /\ todo[p] \in Seq(Task) /\ todo[p] # <<>> /\ 1 \in 1 .. Len(todo[p]) /\ todo[p][1] = r
      /\ r.name \in Serves[p] /\ 1 \in Ahead(p)
    BY <1>0 DEF Start, Asking, TypeOK, Ahead
<1>3. r \in Task /\ r # NoTask /\ i \in 1 .. Len(made) /\ i \in Ids /\ RowOf(r)
    BY <1>2, <1>id, HeldIds, MadeIds, NoTaskIsNone DEF Rows
<1>4. /\ busy'[p] = r /\ \A q \in Processes : q # p => busy'[q] = busy[q]
      /\ todo'[p] = Tail(todo[p]) /\ \A q \in Processes : q # p => todo'[q] = todo[q]
      /\ starts'[i] = starts[i] + 1 /\ \A j \in Ids : j # i => starts'[j] = starts[j]
    BY <1>0, <1>3, <1>id DEF Start, TypeOK
<1>5. starts[i] \in Nat /\ lost[i] \in Nat /\ \A j \in Ids : starts[j] \in Nat /\ lost[j] \in Nat
    BY <1>3 DEF TypeOK
<1>6. ~Spent(i)
    BY <1>2, <1>3, <1>id DEF Single, SingleAt
<1>7. ASSUME NEW q \in Processes PROVE Suffix(todo'[q], todo[q])
    <2>1. todo[q] \in Seq(Task)
        BY DEF TypeOK
    <2> QED
        BY <2>1, <1>2, <1>4, SuffixTail, SuffixAll
<1>8. ASSUME NEW q \in Processes
      PROVE  /\ \A k \in 1 .. Len(todo'[q]) : \E j \in 1 .. Len(todo[q]) : todo'[q][k] = todo[q][j]
             /\ \A j, k \in 1 .. Len(todo'[q]) : todo'[q][j].id = todo'[q][k].id => j = k
             /\ \A k \in Ahead(q)' : \E j \in Ahead(q) : todo'[q][k] = todo[q][j]
    BY <1>7, ListsShrink
<1>9. ASSUME NEW k \in 1 .. Len(todo'[p]) PROVE todo'[p][k].id # i
    <2>1. k + 1 \in 1 .. Len(todo[p]) /\ todo'[p][k] = todo[p][k + 1] /\ k + 1 # 1
        BY <1>2, <1>4
    <2> QED
        BY <2>1, <1>2, <1>id DEF Lists
<1>10. ASSUME NEW q \in Processes, NEW k \in Ahead(q)' PROVE todo'[q][k].id # i
    <2>1. CASE q = p
        BY <1>9, <2>1 DEF Ahead
    <2>2. CASE q # p
        BY <1>2, <1>3, <1>4, <1>id, <2>2, OneServer DEF Ahead, Rows
    <2> QED
        BY <2>1, <2>2
<1>11. Rows'
    <2>1. \A t : RowOf(t)' <=> RowOf(t)
        BY <1>1 DEF RowOf
    <2>2. \A j \in Ids : store'[j] # NoTask => RowOf(store'[j])
        BY <1>1 DEF Rows
    <2>3. ASSUME NEW q \in Processes, NEW k \in 1 .. Len(todo'[q]) PROVE RowOf(todo'[q][k])
        BY <1>8 DEF Rows
    <2>4. ASSUME NEW q \in Processes, Running(q)' PROVE RowOf(busy'[q])
        BY <1>3, <1>4, <2>4 DEF Rows, Running
    <2> QED
        BY <2>1, <2>2, <2>3, <2>4 DEF Rows
<1>12. Lists'
    <2>1. ASSUME NEW q \in Processes, Running(q)'
          PROVE  /\ busy'[q].name \in Serves[q]
                 /\ \A k \in 1 .. Len(todo'[q]) : todo'[q][k].id # busy'[q].id
        <3>1. CASE q = p
            BY <1>2, <1>4, <1>9, <1>id, <3>1
        <3>2. CASE q # p
            <4>1. Running(q) /\ busy'[q] = busy[q] /\ todo'[q] = todo[q]
                BY <1>4, <2>1, <3>2 DEF Running
            <4> QED
                BY <4>1 DEF Lists
        <3> QED
            BY <3>1, <3>2
    <2> QED
        BY <1>8, <2>1 DEF Lists
<1>13. Counted'
    <2>1. \A j \in Ids : lost[j] <= starts'[j] /\ (lost[j] < starts[j] => lost[j] < starts'[j])
        BY <1>4, <1>5 DEF Counted
    <2>2. lost[i] < starts'[i]
        BY <1>3, <1>4, <1>5 DEF Counted
    <2>3. \A j \in Ids : j > Len(made) => starts'[j] = starts[j]
        BY <1>3, <1>4, MadeIds
    <2>4. ASSUME NEW q \in Processes, Running(q)' PROVE lost[busy'[q].id] < starts'[busy'[q].id]
        <3>1. CASE q = p
            BY <1>4, <1>id, <2>2, <3>1
        <3>2. CASE q # p
            BY <1>4, <2>1, <2>4, <3>2, HeldIds, MadeIds DEF Counted, Running
        <3> QED
            BY <3>1, <3>2
    <2> QED
        BY <1>1, <2>1, <2>3, <2>4 DEF Counted
<1>14. ASSUME NEW j \in 1 .. Len(made) PROVE SingleAt(j)'
    <2>1. CASE j = i
        <3>1. Called(i)'
            BY <1>4, <1>id DEF Called
        <3>2. made[i].type = "once" => starts'[i] <= 1 + lost[i]
            BY <1>4, <1>5, <1>6 DEF Spent
        <3> QED
            BY <1>1, <1>10, <2>1, <3>1, <3>2 DEF SingleAt
    <2>2. CASE j # i
        <3>1. starts'[j] = starts[j] /\ SingleAt(j)
            BY <1>4, <2>2, MadeIds DEF Single
        <3>2. Called(j) => Called(j)'
            BY <1>1, <1>4, HeldIds DEF Called
        <3>3. \A q \in Processes : \A k \in Ahead(q)' : \E l \in Ahead(q) : todo'[q][k] = todo[q][l]
            BY <1>8
        <3> QED
            BY <1>1, <3>1, <3>2, <3>3 DEF SingleAt, Spent
    <2> QED
        BY <2>1, <2>2
<1>15. Present'
    <2>1. \A q \in Processes : \A k \in Ahead(q)' : \E l \in Ahead(q) : todo'[q][k] = todo[q][l]
        BY <1>8
    <2>2. store[i] = NoTask => i \in cancelled
        BY <1>2, <1>id DEF Present
    <2> QED
        BY <1>1, <1>4, <1>id, <2>1, <2>2 DEF Present, Running
<1>16. OnceRuns'
    <2>1. \A j \in 1 .. Len(made) : starts'[j] >= starts[j] /\ starts'[j] \in Nat /\ lost[j] \in Nat
        BY <1>4, <1>5, MadeIds
    <2>2. \A j \in 1 .. Len(made) : SingleAt(j)'
        BY <1>14
    <2> QED
        BY <1>1, <1>5, <2>1, <2>2, MadeIds DEF OnceRuns, RunsRight, SingleAt
<1> QED
    BY <1>1, <1>11, <1>12, <1>13, <1>14, <1>15, <1>16 DEF Single

\* The handler ended: the row of a one-time task is gone, and that of a periodic
\* one is as it was but for its moment.
LEMMA InnerHandlerEnds ==
    ASSUME TypeOK, TypeOK', Inner, NEW p \in Processes, NEW how, HandlerEnds(p, how)
    PROVE  Inner'
<1> USE DEF Inner
<1>0. PICK r : r = busy[p]
    OBVIOUS
<1>id. PICK i : i = r.id
    OBVIOUS
<1>1. UNCHANGED <<made, starts, lost, cancelled>> /\ Running(p)
    BY DEF HandlerEnds
<1>2. r \in Task /\ r # NoTask /\ i \in 1 .. Len(made) /\ i \in Ids /\ RowOf(r) /\ r.name \in Serves[p]
    BY <1>0, <1>id, <1>1, HeldIds, MadeIds, NoTaskIsNone DEF Rows, Lists
<1>3. busy'[p] = NoTask /\ \A q \in Processes : q # p => busy'[q] = busy[q]
    BY DEF HandlerEnds, TypeOK
<1>4. /\ \A j \in Ids : j # i => store'[j] = store[j]
      /\ \/ r.type = "periodic" /\ r.interval > 0 /\ store'[i] = [r EXCEPT !.fire = NextFire(r)]
         \/ ~(r.type = "periodic" /\ r.interval > 0) /\ store'[i] = NoTask
    BY <1>0, <1>id, <1>2 DEF HandlerEnds, Retired, TypeOK
<1>5. store'[i] # NoTask => RowOf(store'[i]) /\ r.type # "once"
    <2>1. \A t : [r EXCEPT !.fire = t].id = r.id /\ About([r EXCEPT !.fire = t]) = About(r)
        BY <1>2 DEF Task, About
    <2>2. RowOf([r EXCEPT !.fire = NextFire(r)])
        BY <1>2, <2>1 DEF RowOf
    <2>3. store'[i] # NoTask => store'[i] = [r EXCEPT !.fire = NextFire(r)] /\ r.type = "periodic"
        BY <1>4
    <2> QED
        BY <2>2, <2>3
<1>6. store'[i] = NoTask => r.type = "once" \/ r.interval = 0
    <2>1. \A t \in Int : [r EXCEPT !.fire = t] # NoTask
        BY <1>2, FireChanged, NoTaskIsNone
    <2>2. NextFire(r) \in Int
        BY <1>2 DEF NextFire, Task, TypeOK
    <2> QED
        BY <1>2, <1>4, <2>1, <2>2 DEF Task
<1>7. r.type = made[i].type /\ r.interval = made[i].interval
    <2>1. About(r) = made[i]
        BY <1>2, <1>id DEF RowOf
    <2> QED
        BY <2>1 DEF About
<1>8. ASSUME NEW q \in Processes PROVE Suffix(todo'[q], todo[q])
    <2>1. todo[q] \in Seq(Task) /\ (todo'[q] = <<>> \/ todo'[q] = todo[q])
        BY DEF TypeOK, HandlerEnds
    <2> QED
        BY <2>1, SuffixNone, SuffixAll
<1>9. ASSUME NEW q \in Processes
      PROVE  /\ \A k \in 1 .. Len(todo'[q]) : \E j \in 1 .. Len(todo[q]) : todo'[q][k] = todo[q][j]
             /\ \A j, k \in 1 .. Len(todo'[q]) : todo'[q][j].id = todo'[q][k].id => j = k
             /\ \A k \in Ahead(q)' : \E j \in Ahead(q) : todo'[q][k] = todo[q][j]
    BY <1>8, ListsShrink
<1>10. ASSUME NEW q \in Processes, NEW k \in Ahead(q) PROVE todo[q][k].id # i
    <2>1. CASE q = p
        BY <1>0, <1>id, <1>1, <2>1 DEF Lists, Ahead
    <2>2. CASE q # p
        BY <1>2, <1>id, <2>2, OneServer DEF Ahead, Rows
    <2> QED
        BY <2>1, <2>2
<1>11. ASSUME NEW q \in Processes, q # p, Running(q) PROVE busy[q].id # i
    BY <1>2, <1>id, <1>11, OneServer DEF Rows, Lists
<1>12. Rows'
    <2>1. \A t : RowOf(t)' <=> RowOf(t)
        BY <1>1 DEF RowOf
    <2>2. \A j \in Ids : store'[j] # NoTask => RowOf(store'[j])
        BY <1>4, <1>5 DEF Rows
    <2>3. ASSUME NEW q \in Processes, NEW k \in 1 .. Len(todo'[q]) PROVE RowOf(todo'[q][k])
        BY <1>9 DEF Rows
    <2>4. ASSUME NEW q \in Processes, Running(q)' PROVE RowOf(busy'[q])
        BY <1>3, <2>4 DEF Rows, Running
    <2> QED
        BY <2>1, <2>2, <2>3, <2>4 DEF Rows
<1>13. Lists'
    <2>1. ASSUME NEW q \in Processes, Running(q)'
          PROVE  /\ busy'[q].name \in Serves[q]
                 /\ \A k \in 1 .. Len(todo'[q]) : todo'[q][k].id # busy'[q].id
        <3>1. Running(q) /\ busy'[q] = busy[q]
            BY <1>3, <2>1 DEF Running
        <3>2. /\ busy[q].name \in Serves[q]
              /\ \A j \in 1 .. Len(todo[q]) : todo[q][j].id # busy[q].id
            BY <3>1 DEF Lists
        <3>3. ASSUME NEW k \in 1 .. Len(todo'[q]) PROVE todo'[q][k].id # busy'[q].id
            <4>1. PICK j \in 1 .. Len(todo[q]) : todo'[q][k] = todo[q][j]
                BY <1>9
            <4> QED
                BY <3>1, <3>2, <4>1
        <3> QED
            BY <3>1, <3>2, <3>3
    <2> QED
        BY <1>9, <2>1 DEF Lists
<1>14. Counted'
    BY <1>1, <1>2, <1>3, <1>4, MadeIds DEF Counted, Running
<1>15. ASSUME NEW j \in 1 .. Len(made) PROVE SingleAt(j)'
    <2>1. \A q \in Processes : \A k \in Ahead(q)' : \E l \in Ahead(q) : todo'[q][k] = todo[q][l]
        BY <1>9
    <2>2. SingleAt(j)
        BY DEF Single
    <2>3. Spent(j) => store'[j] = NoTask \/ Called(j)'
        <3>1. CASE j = i
            BY <1>5, <1>7, <3>1 DEF Spent
        <3>2. CASE j # i
            <4>1. store'[j] = store[j]
                BY <1>4, <3>2, MadeIds
            <4>2. Called(j) => Called(j)'
                BY <1>0, <1>id, <1>3, <3>2 DEF Called
            <4> QED
                BY <2>2, <4>1, <4>2 DEF SingleAt
        <3> QED
            BY <3>1, <3>2
    <2> QED
        BY <1>1, <2>1, <2>2, <2>3 DEF SingleAt, Spent
<1>16. Present'
    <2>1. \A q \in Processes : \A k \in Ahead(q)' : \E l \in Ahead(q) : todo'[q][k] = todo[q][l]
        BY <1>9
    <2>2. ASSUME NEW q \in Processes, NEW k \in Ahead(q)
          PROVE  store'[todo[q][k].id] = store[todo[q][k].id]
        BY <1>4, <1>10, HeldIds, MadeIds DEF Ahead
    <2>3. ASSUME NEW q \in Processes, Running(q)'
          PROVE  q # p /\ Running(q) /\ busy'[q] = busy[q] /\ store'[busy[q].id] = store[busy[q].id]
        BY <1>3, <1>4, <1>11, <2>3, HeldIds, MadeIds DEF Running
    <2> QED
        BY <1>1, <2>1, <2>2, <2>3 DEF Present
<1>17. ASSUME NEW j \in 1 .. Len(made) PROVE RunsRight(j)'
    <2>1. CASE j = i
        <3>1. starts[i] > lost[i]
            BY <1>0, <1>id, <1>1, <1>2 DEF Counted, TypeOK
        <3> QED
            BY <1>1, <1>6, <1>7, <2>1, <3>1 DEF OnceRuns, RunsRight
    <2>2. CASE j # i
        BY <1>1, <1>4, <2>2, MadeIds DEF OnceRuns, RunsRight
    <2> QED
        BY <2>1, <2>2
<1> QED
    BY <1>1, <1>12, <1>13, <1>14, <1>15, <1>16, <1>17 DEF Single, OnceRuns

\* A crash: the call it cut off is counted as lost, so its task is not spent, and
\* its row is there unless it was cancelled.
LEMMA InnerCrash ==
    ASSUME TypeOK, TypeOK', Inner, NEW p \in Processes, Crash(p)
    PROVE  Inner'
<1> USE DEF Inner
<1>0. PICK i : i = busy[p].id
    OBVIOUS
<1>1. UNCHANGED <<store, made, starts, cancelled>>
    BY DEF Crash
<1>2. busy'[p] = NoTask /\ \A q \in Processes : q # p => busy'[q] = busy[q]
    BY DEF Crash, TypeOK
<1>3. Running(p) => /\ i \in 1 .. Len(made) /\ i \in Ids /\ lost'[i] = lost[i] + 1 /\ lost[i] < starts[i]
                    /\ \A j \in Ids : j # i => lost'[j] = lost[j]
    BY <1>0, HeldIds, MadeIds DEF Crash, TypeOK, Counted
<1>4. ~Running(p) => lost' = lost
    BY DEF Crash
<1>5. \A j \in Ids : starts[j] \in Nat /\ lost[j] \in Nat
    BY DEF TypeOK
<1>6. ASSUME NEW q \in Processes PROVE Suffix(todo'[q], todo[q])
    <2>1. todo[q] \in Seq(Task) /\ (todo'[q] = <<>> \/ todo'[q] = todo[q])
        BY DEF TypeOK, Crash
    <2> QED
        BY <2>1, SuffixNone, SuffixAll
<1>7. ASSUME NEW q \in Processes
      PROVE  /\ \A k \in 1 .. Len(todo'[q]) : \E j \in 1 .. Len(todo[q]) : todo'[q][k] = todo[q][j]
             /\ \A j, k \in 1 .. Len(todo'[q]) : todo'[q][j].id = todo'[q][k].id => j = k
             /\ \A k \in Ahead(q)' : \E j \in Ahead(q) : todo'[q][k] = todo[q][j]
    BY <1>6, ListsShrink
<1>8. ASSUME NEW q \in Processes, Running(q)'
      PROVE  q # p /\ Running(q) /\ busy'[q] = busy[q] /\ busy[q].id \in Ids /\ (Running(p) => busy[q].id # i)
    <2>1. q # p /\ Running(q) /\ busy'[q] = busy[q]
        BY <1>2, <1>8 DEF Running
    <2>2. Running(p) => busy[q].id # i
        BY <1>0, <2>1, OneServer DEF Rows, Lists
    <2> QED
        BY <2>1, <2>2, HeldIds, MadeIds
<1>9. Rows'
    <2>1. \A t : RowOf(t)' <=> RowOf(t)
        BY <1>1 DEF RowOf
    <2>2. \A j \in Ids : store'[j] # NoTask => RowOf(store'[j])
        BY <1>1 DEF Rows
    <2>3. ASSUME NEW q \in Processes, NEW k \in 1 .. Len(todo'[q]) PROVE RowOf(todo'[q][k])
        BY <1>7 DEF Rows
    <2>4. ASSUME NEW q \in Processes, Running(q)' PROVE RowOf(busy'[q])
        BY <1>8, <2>4 DEF Rows
    <2> QED
        BY <2>1, <2>2, <2>3, <2>4 DEF Rows
<1>10. Lists'
    <2>1. ASSUME NEW q \in Processes, Running(q)'
          PROVE  /\ busy'[q].name \in Serves[q]
                 /\ \A k \in 1 .. Len(todo'[q]) : todo'[q][k].id # busy'[q].id
        BY <1>7, <1>8, <2>1 DEF Lists
    <2> QED
        BY <1>7, <2>1 DEF Lists
<1>11. Counted'
    <2>1. \A j \in Ids : lost'[j] <= starts[j]
        BY <1>3, <1>4, <1>5 DEF Counted
    <2>2. \A j \in Ids : j > Len(made) => lost'[j] = lost[j]
        BY <1>3, <1>4, MadeIds
    <2>3. ASSUME NEW q \in Processes, Running(q)' PROVE lost'[busy'[q].id] < starts[busy'[q].id]
        BY <1>3, <1>4, <1>8, <2>3 DEF Counted
    <2> QED
        BY <1>1, <2>1, <2>2, <2>3 DEF Counted
<1>12. ASSUME NEW j \in 1 .. Len(made) PROVE SingleAt(j)'
    <2>1. \A q \in Processes : \A k \in Ahead(q)' : \E l \in Ahead(q) : todo'[q][k] = todo[q][l]
        BY <1>7
    <2>2. SingleAt(j) /\ j \in Ids
        BY MadeIds DEF Single
    <2>3. CASE Running(p) /\ j = i
        <3>1. made[i].type = "once" => starts[i] = lost'[i]
            BY <1>3, <1>5, <2>2, <2>3 DEF SingleAt
        <3> QED
            BY <1>1, <1>3, <1>5, <2>3, <3>1 DEF SingleAt, Spent
    <2>4. CASE ~(Running(p) /\ j = i)
        <3>1. lost'[j] = lost[j]
            BY <1>3, <1>4, <2>2, <2>4
        <3>2. Called(j) => Called(j)'
            BY <1>0, <1>2, <2>2, <2>4, HeldIds DEF Called, Ids
        <3> QED
            BY <1>1, <2>1, <2>2, <3>1, <3>2 DEF SingleAt, Spent
    <2> QED
        BY <2>3, <2>4
<1>13. Present'
    <2>1. \A q \in Processes : \A k \in Ahead(q)' : \E l \in Ahead(q) : todo'[q][k] = todo[q][l]
        BY <1>7
    <2> QED
        BY <1>1, <1>8, <2>1 DEF Present
<1>14. ASSUME NEW j \in 1 .. Len(made) PROVE RunsRight(j)'
    <2>1. j \in Ids /\ RunsRight(j)
        BY MadeIds DEF OnceRuns
    <2>2. CASE Running(p) /\ j = i
        <3>1. store[j] = NoTask => j \in cancelled
            BY <1>0, <2>2 DEF Present
        <3>2. made[j].type = "once" => starts[j] <= 1 + lost'[j]
            BY <1>3, <1>5, <2>1, <2>2 DEF RunsRight
        <3> QED
            BY <1>1, <3>1, <3>2 DEF RunsRight
    <2>3. CASE ~(Running(p) /\ j = i)
        BY <1>1, <1>3, <1>4, <2>1, <2>3 DEF RunsRight
    <2> QED
        BY <2>2, <2>3
<1> QED
    BY <1>1, <1>9, <1>10, <1>11, <1>12, <1>13, <1>14 DEF Single, OnceRuns

-----------------------------------------------------------------------------
\* The invariant holds at first, and every step keeps it.
LEMMA InnerInit == Init => Inner
<1> SUFFICES ASSUME Init PROVE Inner
    OBVIOUS
<1>1. /\ Len(made) = 0 /\ 1 .. Len(made) = {}
      /\ \A i \in Ids : store[i] = NoTask /\ starts[i] = 0 /\ lost[i] = 0
      /\ \A p \in Processes : /\ 1 .. Len(todo[p]) = {} /\ ~Running(p)
    BY DEF Init, Running
<1> QED
    BY <1>1 DEF Inner, Rows, Lists, Counted, Single, Present, OnceRuns, Ahead

\* Every step keeps the inner invariant.
LEMMA InnerStep == TypeOK /\ Inner /\ [Next]_vars => Inner'
<1> SUFFICES ASSUME TypeOK, Inner, [Next]_vars PROVE Inner'
    OBVIOUS
<1>0. TypeOK'
    BY TypeStep
<1> USE SchedulerAssumption
<1>1. ASSUME NEW p \in Processes, NEW name \in Names, Register(p, name) \/ Unregister(p, name)
      PROVE  Inner'
    BY <1>1, InnerFrame DEF Register, Unregister, ghosts
<1>2. ASSUME NEW name \in Names, NEW d \in Delays, Once(name, d) PROVE Inner'
    <2> DEFINE task == [id |-> Fresh, name |-> name, type |-> "once", fire |-> now + d, interval |-> 0]
    <2>1. Add(task) /\ Fresh \in Ids
        BY <1>2 DEF Once, Add
    <2>2. task \in Task /\ task.id = Fresh
        BY <2>1 DEF Task, TypeOK
    <2> QED
        BY <1>0, <2>1, <2>2, InnerAdd
<1>3. ASSUME NEW name \in Names, NEW n \in Intervals, Every(name, n) PROVE Inner'
    <2> DEFINE task == [id |-> Fresh, name |-> name, type |-> "periodic", fire |-> now + n,
                        interval |-> n]
    <2>1. Add(task) /\ Fresh \in Ids
        BY <1>3 DEF Every, Add
    <2>2. task \in Task /\ task.id = Fresh
        BY <2>1 DEF Task, TypeOK
    <2> QED
        BY <1>0, <2>1, <2>2, InnerAdd
<1>4. ASSUME NEW i \in Ids, Cancel(i) PROVE Inner'
    BY <1>4, InnerCancel
<1>5. ASSUME NEW p \in Processes, Loop(p) PROVE Inner'
    BY <1>0, <1>5, InnerRunDue, InnerSkip, InnerStart, InnerHandlerEnds DEF Loop
<1>6. ASSUME NEW p \in Processes, Crash(p) PROVE Inner'
    BY <1>0, <1>6, InnerCrash
<1>7. CASE Tick
    BY <1>7, InnerFrame DEF Tick, ghosts
<1>8. CASE UNCHANGED vars
    BY <1>8, InnerFrame DEF vars, ghosts
<1> QED
    BY <1>1, <1>2, <1>3, <1>4, <1>5, <1>6, <1>7, <1>8 DEF Next

\* A one-time task is called once, and once more for each call a crash cut off;
\* and no row goes before its task was called, but by cancel.
THEOREM OnceRunsAlways == Spec => []OnceRuns
<1>1. Init => TypeOK
    BY SchedulerAssumption DEF Init, TypeOK, Ids, Never, NoTask
<1>2. Init => IInv
    BY <1>1, InnerInit DEF IInv
<1>3. IInv /\ [Next]_vars => IInv'
    BY InnerStep, TypeStep DEF IInv
<1>4. IInv => OnceRuns
    BY DEF IInv, Inner
<1> QED
    BY <1>2, <1>3, <1>4, PTL DEF Spec

-----------------------------------------------------------------------------
(* PeriodicSpaced.  A row carries the moment its last call came back, and so  *)
(* does a copy of it that its process has ahead, for nobody else calls it.    *)

Repeats(r) == r.type = "periodic" /\ r.interval > 0
Later(r) == Repeats(r) /\ ended[r.id] # Never => r.fire >= ended[r.id] + r.interval
Timely ==
    /\ \A i \in Ids : ended[i] <= now /\ (i > Len(made) => ended[i] = Never)
    /\ \A i \in Ids : store[i] # NoTask => Later(store[i])
    /\ \A p \in Processes :
          /\ \A k \in 1 .. Len(todo[p]) : todo[p][k].fire <= now
          /\ \A k \in Ahead(p) : Later(todo[p][k])

\* Where no call ends, rows only go, and lists only get shorter.
LEMMA TimelyFrame ==
    ASSUME TypeOK, TypeOK', Lists, Timely, UNCHANGED <<made, ended>>, now' >= now,
           \A i \in Ids : store'[i] = NoTask \/ store'[i] = store[i],
           \A q \in Processes : Suffix(todo'[q], todo[q])
    PROVE  Timely'
<1>1. \A r : Later(r)' <=> Later(r)
    BY DEF Later, Repeats
<1>2. \A i \in Ids : ended'[i] <= now' /\ (i > Len(made') => ended'[i] = Never)
    BY DEF Timely, TypeOK
<1>3. \A i \in Ids : store'[i] # NoTask => Later(store'[i])
    BY DEF Timely
<1>4. ASSUME NEW q \in Processes, NEW k \in 1 .. Len(todo'[q]) PROVE todo'[q][k].fire <= now'
    <2>1. PICK j \in 1 .. Len(todo[q]) : todo'[q][k] = todo[q][j]
        BY ListsShrink
    <2>2. todo[q][j].fire \in Int
        <3>1. todo[q] \in Seq(Task)
            BY DEF TypeOK
        <3>2. todo[q][j] \in Task
            BY <3>1
        <3> QED
            BY <3>2 DEF Task
    <2>3. todo[q][j].fire <= now
        BY DEF Timely
    <2>4. now \in Int /\ now' \in Int
        BY DEF TypeOK
    <2> QED
        BY <2>1, <2>2, <2>3, <2>4
<1>5. ASSUME NEW q \in Processes, NEW k \in Ahead(q)' PROVE Later(todo'[q][k])
    BY ListsShrink DEF Timely
<1> QED
    BY <1>1, <1>2, <1>3, <1>4, <1>5 DEF Timely

\* A new row has an id no call of which came back.
LEMMA TimelyAdd ==
    ASSUME TypeOK, TypeOK', Timely, NEW task \in Task, task.id = Fresh, Add(task)
    PROVE  Timely'
<1>1. \A r : Later(r)' <=> Later(r)
    BY DEF Later, Repeats, Add
<1>2. Fresh \in Ids /\ Later(task) /\ \A i \in Ids : i > Len(made') => i > Len(made)
    <2>1. Fresh > Len(made) /\ Len(made') = Fresh
        BY MadeIds DEF Fresh, Add, TypeOK
    <2>2. Fresh \in Ids
        BY DEF Add
    <2> QED
        BY <2>1, <2>2, MadeIds DEF Later, Timely, Ids
<1>3. \A i \in Ids : store'[i] # NoTask => Later(store'[i])
    BY <1>2 DEF Timely, Add, TypeOK
<1>4. \A q \in Processes : Ahead(q)' = Ahead(q)
    BY DEF Ahead, Add
<1> QED
    BY <1>1, <1>2, <1>3, <1>4 DEF Timely, Add

\* A list of what is due holds rows of the store.
LEMMA TimelyRunDue ==
    ASSUME TypeOK, TypeOK', Timely, NEW p \in Processes, RunDue(p)
    PROVE  Timely'
<1>1. \A r : Later(r)' <=> Later(r)
    BY DEF Later, Repeats, RunDue, ghosts
<1>2. PICK s \in InOrder(Due) : todo' = [todo EXCEPT ![p] = s]
    BY DEF RunDue
<1>3. todo'[p] = s /\ \A q \in Processes : q # p => todo'[q] = todo[q]
    BY <1>2 DEF TypeOK
<1>4. UNCHANGED <<store, ended, now, made>>
    BY DEF RunDue, ghosts
<1>5. ASSUME NEW k \in 1 .. Len(s) PROVE s[k].fire <= now /\ Later(s[k])
    <2>1. s[k] \in Due
        BY InOrderLists
    <2> QED
        BY <2>1 DEF Due, Timely
<1>6. ASSUME NEW q \in Processes
      PROVE  /\ \A k \in 1 .. Len(todo'[q]) : todo'[q][k].fire <= now
             /\ \A k \in Ahead(q)' : Later(todo'[q][k])
    BY <1>3, <1>5 DEF Timely, Ahead
<1> QED
    BY <1>1, <1>4, <1>6 DEF Timely

\* The call came back now, and its row, if it stays, is an interval ahead.
LEMMA TimelyHandlerEnds ==
    ASSUME TypeOK, TypeOK', Inner, Timely, NEW p \in Processes, NEW how, HandlerEnds(p, how)
    PROVE  Timely'
<1> USE DEF Inner
<1> DEFINE Late(t) == Repeats(t) /\ ended'[t.id] # Never => t.fire >= ended'[t.id] + t.interval
<1>0. PICK r : r = busy[p]
    OBVIOUS
<1>id. PICK i : i = r.id
    OBVIOUS
<1>1. /\ r \in Task /\ i \in 1 .. Len(made) /\ i \in Ids /\ RowOf(r) /\ r.name \in Serves[p]
      /\ Running(p)
    BY <1>0, <1>id, HeldIds, MadeIds DEF HandlerEnds, Rows, Lists
<1>2. /\ now' = now /\ made' = made /\ ended'[i] = now
      /\ \A j \in Ids : j # i => ended'[j] = ended[j] /\ store'[j] = store[j]
    BY <1>0, <1>id, <1>1 DEF HandlerEnds, Retired, TypeOK
<1>3. store'[i] = NoTask \/ store'[i] = [r EXCEPT !.fire = NextFire(r)]
    BY <1>0, <1>id, <1>1 DEF HandlerEnds, Retired, TypeOK
<1>4. \A j \in Ids : ended'[j] <= now' /\ (j > Len(made') => ended'[j] = Never)
    <2>1. now \in Int /\ Len(made) \in Nat
        BY DEF TypeOK
    <2> QED
        BY <1>1, <1>2, <2>1 DEF Timely
<1>5. ASSUME NEW j \in Ids, store'[j] # NoTask PROVE Late(store'[j])
    <2>1. CASE j = i
        <3>1. store'[j].fire = now + r.interval /\ store'[j].interval = r.interval /\ store'[j].id = i
            BY <1>1, <1>3, <1>5, <1>id, <2>1 DEF Task, NextFire
        <3>2. now + r.interval >= now + r.interval
            BY <1>1 DEF TypeOK, Task
        <3> QED
            BY <1>2, <2>1, <3>1, <3>2
    <2>2. CASE j # i
        <3>1. store'[j] = store[j] /\ store[j].id = j /\ ended'[j] = ended[j]
            BY <1>2, <1>5, <2>2 DEF TypeOK
        <3> QED
            BY <1>5, <3>1 DEF Timely, Later
    <2> QED
        BY <2>1, <2>2
<1>6. ASSUME NEW q \in Processes PROVE Suffix(todo'[q], todo[q])
    <2>1. todo[q] \in Seq(Task) /\ (todo'[q] = <<>> \/ todo'[q] = todo[q])
        BY DEF TypeOK, HandlerEnds
    <2> QED
        BY <2>1, SuffixNone, SuffixAll
<1>7. ASSUME NEW q \in Processes, NEW k \in 1 .. Len(todo'[q]) PROVE todo'[q][k].fire <= now'
    BY <1>2, <1>6, ListsShrink DEF Timely
<1>8. ASSUME NEW q \in Processes, NEW k \in Ahead(q) PROVE todo[q][k].id # i
    <2>1. CASE q = p
        BY <1>0, <1>id, <1>1, <2>1 DEF Lists, Ahead
    <2>2. CASE q # p
        BY <1>1, <1>id, <2>2, OneServer DEF Ahead, Rows
    <2> QED
        BY <2>1, <2>2
<1>9. ASSUME NEW q \in Processes, NEW k \in Ahead(q)' PROVE Late(todo'[q][k])
    <2>1. PICK j \in Ahead(q) : todo'[q][k] = todo[q][j]
        BY <1>6, ListsShrink
    <2>2. Later(todo[q][j]) /\ ended'[todo[q][j].id] = ended[todo[q][j].id]
        BY <1>2, <1>8, HeldIds, MadeIds DEF Timely, Ahead
    <2> QED
        BY <2>1, <2>2 DEF Later
<1>10. \A t : Later(t)' <=> Late(t)
    BY DEF Later, Repeats
<1> HIDE DEF Late
<1> QED
    BY <1>4, <1>5, <1>7, <1>9, <1>10 DEF Timely

\* Every step keeps the rows timely.
LEMMA TimelyStep == IInv /\ Timely /\ [Next]_vars => Timely'
<1> SUFFICES ASSUME TypeOK, Inner, Timely, [Next]_vars PROVE Timely'
    BY DEF IInv
<1>0. TypeOK' /\ Lists /\ now \in Int
    BY TypeStep DEF Inner, TypeOK
<1> USE SchedulerAssumption
<1>1. ASSUME UNCHANGED <<todo, made, ended>>, now' >= now,
             \A i \in Ids : store'[i] = NoTask \/ store'[i] = store[i]
      PROVE  Timely'
    <2>1. \A q \in Processes : Suffix(todo'[q], todo[q])
        BY <1>1, SuffixAll DEF TypeOK
    <2> QED
        BY <1>0, <1>1, <2>1, TimelyFrame
<1>2. ASSUME NEW p \in Processes, NEW name \in Names, Register(p, name) \/ Unregister(p, name)
      PROVE  Timely'
    BY <1>0, <1>1, <1>2 DEF Register, Unregister, ghosts
<1>3. ASSUME NEW name \in Names, NEW d \in Delays, Once(name, d) PROVE Timely'
    <2> DEFINE task == [id |-> Fresh, name |-> name, type |-> "once", fire |-> now + d, interval |-> 0]
    <2>1. Add(task) /\ Fresh \in Ids
        BY <1>3 DEF Once, Add
    <2>2. task \in Task /\ task.id = Fresh
        BY <2>1 DEF Task, TypeOK
    <2> QED
        BY <1>0, <2>1, <2>2, TimelyAdd
<1>4. ASSUME NEW name \in Names, NEW n \in Intervals, Every(name, n) PROVE Timely'
    <2> DEFINE task == [id |-> Fresh, name |-> name, type |-> "periodic", fire |-> now + n,
                        interval |-> n]
    <2>1. Add(task) /\ Fresh \in Ids
        BY <1>4 DEF Every, Add
    <2>2. task \in Task /\ task.id = Fresh
        BY <2>1 DEF Task, TypeOK
    <2> QED
        BY <1>0, <2>1, <2>2, TimelyAdd
<1>5. ASSUME NEW i \in Ids, Cancel(i) PROVE Timely'
    <2>1. \A j \in Ids : store'[j] = NoTask \/ store'[j] = store[j]
        BY <1>5 DEF Cancel, TypeOK
    <2> QED
        BY <1>0, <1>1, <1>5, <2>1 DEF Cancel
<1>6. ASSUME NEW p \in Processes, Skip(p) \/ Start(p) \/ Crash(p) PROVE Timely'
    <2>1. UNCHANGED <<store, made, ended, now>>
        BY <1>6 DEF Skip, Start, Crash, ghosts
    <2>2. ASSUME NEW q \in Processes PROVE Suffix(todo'[q], todo[q])
        <3>1. todo[q] \in Seq(Task)
            BY DEF TypeOK
        <3>2. todo'[q] = todo[q] \/ todo'[q] = <<>> \/ (todo[q] # <<>> /\ todo'[q] = Tail(todo[q]))
            BY <1>6 DEF Skip, Start, Crash, Remaining, Asking, TypeOK
        <3> QED
            BY <3>1, <3>2, SuffixAll, SuffixNone, SuffixTail
    <2> QED
        BY <1>0, <2>1, <2>2, TimelyFrame
<1>7. ASSUME NEW p \in Processes, Loop(p) PROVE Timely'
    BY <1>0, <1>6, <1>7, TimelyRunDue, TimelyHandlerEnds DEF Loop
<1>8. CASE Tick
    BY <1>0, <1>1, <1>8 DEF Tick, ghosts
<1>9. CASE UNCHANGED vars
    BY <1>0, <1>1, <1>9 DEF vars, ghosts
<1> QED
    BY <1>2, <1>3, <1>4, <1>5, <1>6, <1>7, <1>8, <1>9 DEF Next

\* Only Start counts a call, and its task is ahead of its process.
LEMMA SpacedStep == IInv /\ Timely /\ [Next]_vars => [Spaced]_vars
<1> SUFFICES ASSUME TypeOK, Inner, Timely, [Next]_vars,
                    NEW i \in 1 .. Len(made), made[i].type = "periodic", starts'[i] > starts[i], ended[i] # Never
             PROVE  now >= ended[i] + made[i].interval
    BY DEF IInv, Spaced
<1>1. i \in Ids /\ starts[i] \in Nat
    BY MadeIds DEF TypeOK
<1>2. starts' # starts
    BY <1>1
<1>3. PICK p \in Processes : Start(p)
    BY <1>2 DEF Next, Loop, Register, Unregister, Once, Every, Add, Cancel, RunDue, Skip,
                HandlerEnds, Crash, Tick, vars, ghosts
<1>4. PICK r : r = Head(todo[p])
    OBVIOUS
<1>5. /\ todo[p] \in Seq(Task) /\ todo[p] # <<>> /\ 1 \in 1 .. Len(todo[p]) /\ todo[p][1] = r
      /\ 1 \in Ahead(p) /\ r \in Task
    BY <1>3, <1>4 DEF Start, Asking, TypeOK, Ahead
<1>6. r.id = i
    BY <1>1, <1>3, <1>4 DEF Start, TypeOK
<1>7. r.type = made[i].type /\ r.interval = made[i].interval
    <2>1. About(r) = made[i]
        BY <1>5, <1>6 DEF Inner, Rows, RowOf
    <2> QED
        BY <2>1 DEF About
<1>8. /\ now \in Int /\ ended[i] \in Int /\ r.fire \in Int /\ r.interval \in Nat
      /\ r.fire <= now /\ Later(r) /\ ended[i] <= now
    <2>1. r.fire \in Int /\ r.interval \in Nat
        BY <1>5 DEF Task
    <2>2. now \in Int /\ ended[i] \in Int
        BY <1>1 DEF TypeOK
    <2>3. r.fire <= now /\ Later(r) /\ ended[i] <= now
        BY <1>1, <1>5 DEF Timely
    <2> QED
        BY <2>1, <2>2, <2>3
<1>9. CASE Repeats(r)
    BY <1>6, <1>7, <1>8, <1>9 DEF Later
<1>10. CASE ~Repeats(r)
    <2>1. r.interval = 0
        BY <1>7, <1>8, <1>10 DEF Repeats
    <2> QED
        BY <1>7, <1>8, <2>1
<1> QED
    BY <1>9, <1>10

\* A periodic task is called an interval or more after its last call came back.
THEOREM PeriodicSpacedAlways == Spec => PeriodicSpaced
<1>1. Init => TypeOK
    BY SchedulerAssumption DEF Init, TypeOK, Ids, Never, NoTask
<1>2. Init => IInv
    BY <1>1, InnerInit DEF IInv
<1>3. Init => Timely
    <2> SUFFICES ASSUME Init PROVE Timely
        OBVIOUS
    <2>1. Never <= 0
        BY SchedulerAssumption DEF Never
    <2> QED
        BY <2>1 DEF Init, Timely, Ahead
<1>4. IInv /\ [Next]_vars => IInv'
    BY InnerStep, TypeStep DEF IInv
<1> QED
    BY <1>2, <1>3, <1>4, TimelyStep, SpacedStep, PTL DEF Spec, PeriodicSpaced
=============================================================================
