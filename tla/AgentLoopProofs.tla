--------------------------- MODULE AgentLoopProofs ---------------------------
(***************************************************************************)
(* Theorems about the agent's loop, for any number of steps, retries,      *)
(* calls to a round, staged messages, runs and crashes: TypeOK, GateTrue,  *)
(* and, where the ids of calls differ between turns, TranscriptTrue.       *)
(*                                                                         *)
(* The invariant has four parts: the types (Typed); what a run has spent   *)
(* of its steps and retries at each place of it (Spent); the calls of a    *)
(* round, which in turn are all over before the next one begins (Rounds);  *)
(* and staged input, numbered on from what the transcript holds (Staged),  *)
(* in this process and in the checkpoint alike.  A fifth says where calls  *)
(* and results stand (Told).                                               *)
(***************************************************************************)
EXTENDS AgentLoop, FiniteSetTheorems, TLAPS

\* The calls made so far, and what may be said of them.
Past == {c \in Call : c.turn <= turn}
Known == [role : {"user", "assistant", "tool"}, mark : Nat, calls : SUBSET Past,
          kind : {"input", "staged", "guidance", "reply", "results", "repair"}]
Held == [at : {"none", "queued", "saving", "waiting", "decided", "running", "done", "failed"},
         said : Verdicts \union {"nothing", "asked"}, draft : SUBSET Past, copy : SUBSET Past]
Store == [history : Seq(Known), pending : SUBSET Past, staged : Seq(Nat)]

Places == {"idle", "top", "step", "model", "reply", "tools", "told"}

\* Types, with all that is said of calls said of calls that were made.
Typed ==
  /\ pc \in Places /\ running \in BOOLEAN /\ stopping \in BOOLEAN /\ streaming \in BOOLEAN
  /\ parallel \in Parallel
  /\ step \in Nat /\ failures \in Nat /\ asks \in Nat /\ turn \in Nat
  /\ history \in Seq(Known) /\ staged \in Seq(Nat)
  /\ call \in [1..Width -> Held]
  /\ pending \in SUBSET Past /\ unheard \in SUBSET Past
  /\ saved \in Store

-----------------------------------------------------------------------------
(* Types.                                                                    *)

\* What Append and concatenation make of sequences.
LEMMA AppendTyped ==
  ASSUME NEW S, NEW q \in Seq(S), NEW x \in S
  PROVE  /\ Append(q, x) \in Seq(S) /\ Len(q) \in Nat /\ Len(Append(q, x)) = Len(q) + 1
         /\ Append(q, x)[Len(q) + 1] = x
         /\ \A i \in 1..Len(q) : Append(q, x)[i] = q[i]
         /\ DOMAIN q = 1..Len(q) /\ DOMAIN Append(q, x) = 1..Len(q) + 1
OBVIOUS

\* And concatenation.
LEMMA ConcatTyped ==
  ASSUME NEW S, NEW q \in Seq(S), NEW r \in Seq(S)
  PROVE  /\ q \o r \in Seq(S) /\ Len(q) \in Nat /\ Len(r) \in Nat /\ Len(q \o r) = Len(q) + Len(r)
         /\ \A i \in 1..Len(q) : (q \o r)[i] = q[i]
         /\ \A i \in 1..Len(r) : (q \o r)[Len(q) + i] = r[i]
OBVIOUS

\* A turn more leaves what was known known.
LEMMA KnownGrows ==
  ASSUME turn \in Nat, turn' = turn + 1
  PROVE  /\ Past \subseteq Past' /\ Known \subseteq Known' /\ Held \subseteq Held'
         /\ \A q \in Seq(Known) : q \in Seq(Known')
         /\ Store \subseteq Store'
<1>1. Past \subseteq Past'
  BY DEF Past, Call
<1>2. SUBSET Past \subseteq SUBSET Past'
  BY <1>1
<1> DEFINE P == SUBSET Past
           Q == SUBSET Past'
<1>3. P \subseteq Q
  BY <1>2
<1>4. Known \subseteq Known' /\ Held \subseteq Held'
  <2>1. Known = [role : {"user", "assistant", "tool"}, mark : Nat, calls : P,
                 kind : {"input", "staged", "guidance", "reply", "results", "repair"}]
    BY DEF Known
  <2>2. Known' = [role : {"user", "assistant", "tool"}, mark : Nat, calls : Q,
                  kind : {"input", "staged", "guidance", "reply", "results", "repair"}]
    BY DEF Known
  <2>3. Held = [at : {"none", "queued", "saving", "waiting", "decided", "running", "done", "failed"},
                said : Verdicts \union {"nothing", "asked"}, draft : P, copy : P]
    BY DEF Held
  <2>4. Held' = [at : {"none", "queued", "saving", "waiting", "decided", "running", "done", "failed"},
                 said : Verdicts \union {"nothing", "asked"}, draft : Q, copy : Q]
    BY DEF Held, Verdicts
  <2> HIDE DEF P, Q
  <2> QED
    BY <1>3, <2>1, <2>2, <2>3, <2>4
<1>5. ASSUME NEW q \in Seq(Known) PROVE q \in Seq(Known')
  BY <1>4
<1>6. Store \subseteq Store'
  <2>1. Seq(Known) \subseteq Seq(Known')
    BY <1>5
  <2> DEFINE R == Seq(Known)
             T == Seq(Known')
  <2>2. Store = [history : R, pending : P, staged : Seq(Nat)] /\ Store' = [history : T, pending : Q, staged : Seq(Nat)]
    BY DEF Store
  <2>3. R \subseteq T
    BY <2>1
  <2> HIDE DEF P, Q, R, T
  <2> QED
    BY <1>3, <2>2, <2>3
<1> QED
  BY <1>1, <1>4, <1>5, <1>6

\* No turn more, nothing known anew.
LEMMA KnownStays ==
  ASSUME turn' = turn
  PROVE  Past' = Past /\ Known' = Known /\ Held' = Held /\ Store' = Store
<1>1. Past' = Past
  BY DEF Past, Call
<1> QED
  BY <1>1 DEF Known, Held, Store, Verdicts

\* The calls a transcript leaves open are calls that were made.
LEMMA OrphansTyped ==
  ASSUME NEW h \in Seq(Known)
  PROVE  Orphans(h) \in SUBSET Past
<1>1. \A k \in DOMAIN h : h[k].calls \subseteq Past
  <2>1. \A k \in DOMAIN h : h[k] \in Known
    OBVIOUS
  <2> QED
    BY <2>1 DEF Known
<1> QED
  BY <1>1 DEF Orphans, Spoken

\* The repair speaks of calls that were made; so does what a run begins with.
LEMMA RepairTyped ==
  ASSUME NEW h \in Seq(Known)
  PROVE  Repaired(h) \in Seq(Known)
<1>2. Orphans(h) \in SUBSET Past
  BY OrphansTyped
<1>3. Results("repair", Orphans(h)) \in Known
  BY <1>2 DEF Results, Known
<1> QED
  BY <1>3, AppendTyped DEF Repaired

\* What a run admits, its input and what was staged, are entries.
LEMMA AdmitTyped ==
  ASSUME NEW h \in Seq(Known), NEW s \in Seq(Nat)
  PROVE  /\ Append(h, Said("input", 0)) \in Seq(Known)
         /\ [k \in DOMAIN s |-> Said("staged", s[k])] \in Seq(Known)
         /\ Len([k \in DOMAIN s |-> Said("staged", s[k])]) = Len(s)
         /\ Admitted(h, s) \in Seq(Known)
<1>1. Said("input", 0) \in Known
  BY DEF Said, Known
<1>2. Append(h, Said("input", 0)) \in Seq(Known)
  BY <1>1, AppendTyped
<1>3. \A k \in DOMAIN s : Said("staged", s[k]) \in Known
  BY DEF Said, Known
<1>4. DOMAIN s = 1..Len(s) /\ Len(s) \in Nat
  OBVIOUS
<1> DEFINE r == [k \in DOMAIN s |-> Said("staged", s[k])]
<1>5. r \in Seq(Known) /\ Len(r) = Len(s)
  BY <1>3, <1>4
<1> QED
  BY <1>2, <1>5, ConcatTyped DEF Admitted

\* A call of the round is made, and so are the calls that nobody asks about.
LEMMA CallsTyped ==
  ASSUME Typed
  PROVE  /\ \A i \in 1..Width : call[i] \in Held
         /\ NoCall \in Held /\ Queued \in Held /\ NoRound \in [1..Width -> Held]
<1>1. NoCall \in Held
  BY DEF NoCall, Held, Verdicts
<1>2. Queued = [at |-> "queued", said |-> "nothing", draft |-> {}, copy |-> {}]
  BY DEF Queued, NoCall
<1>3. Queued \in Held
  BY <1>2 DEF Held, Verdicts
<1>4. NoRound \in [1..Width -> Held]
  BY <1>1 DEF NoRound
<1> QED
  BY <1>1, <1>3, <1>4 DEF Typed

\* A call's thread goes on.
LEMMA HeldTyped ==
  ASSUME NEW c \in Held, NEW place \in {"none", "queued", "saving", "waiting", "decided", "running", "done", "failed"},
         NEW word \in Verdicts \union {"nothing", "asked"}, NEW d \in SUBSET Past
  PROVE  /\ [at |-> place, said |-> word, draft |-> {}, copy |-> {}] \in Held
         /\ [at |-> place, said |-> c.said, draft |-> {}, copy |-> {}] \in Held
         /\ [c EXCEPT !.at = place, !.said = word, !.draft = d] \in Held
         /\ [c EXCEPT !.at = place, !.said = word, !.copy = d] \in Held
BY DEF Held

\* Steps of the callers keep the types.
LEMMA CallerTyped ==
  ASSUME Typed, Cardinality(Marks) \in Nat, Caller
  PROVE  Typed'
<1>0. saved.history \in Seq(Known) /\ saved.pending \in SUBSET Past /\ saved.staged \in Seq(Nat)
  BY DEF Typed, Store
<1>1. ASSUME turn' = turn PROVE Past' = Past /\ Known' = Known /\ Held' = Held /\ Store' = Store
  BY <1>1, KnownStays
<1>2. /\ history \in Seq(Known) /\ staged \in Seq(Nat) /\ Repaired(history) \in Seq(Known)
      /\ Admitted(Repaired(history), staged) \in Seq(Known) /\ <<>> \in Seq(Nat)
  <2>1. history \in Seq(Known) /\ staged \in Seq(Nat)
    BY DEF Typed
  <2>2. Repaired(history) \in Seq(Known)
    BY <2>1, RepairTyped
  <2>3. Admitted(Repaired(history), staged) \in Seq(Known)
    BY <2>1, <2>2, AdmitTyped
  <2> QED
    BY <2>1, <2>2, <2>3
<1>3. ASSUME NEW asStream \in BOOLEAN, BeginRun(asStream) PROVE Typed'
  BY <1>1, <1>2, <1>3 DEF BeginRun, Occupy, Unadmitted, Typed, Places
<1>4. ASSUME NEW asStream \in BOOLEAN, NEW at, BeginRaises(asStream, at) PROVE Typed'
  <2>1. at \in {"thunk", "warning", "start"}
    BY <1>4 DEF BeginRaises
  <2>2. history' \in Seq(Known)
    BY <1>2, <1>4, <2>1 DEF BeginRaises
  <2>3. staged' \in Seq(Nat)
    BY <1>2, <1>4 DEF BeginRaises, Unadmitted
  <2>4. UNCHANGED <<turn, pc, parallel, pending, call, saved, step, asks>> /\ running' = TRUE /\ stopping' = FALSE
        /\ failures' = 0 /\ streaming' = asStream /\ unheard' = {}
    BY <1>4 DEF BeginRaises, Occupy
  <2> QED
    BY <1>1, <2>2, <2>3, <2>4 DEF Typed
<1>5. CASE Stop
  BY <1>1, <1>5 DEF Stop, Typed
<1>6. CASE ClearPendingInput
  BY <1>1, <1>2, <1>6 DEF ClearPendingInput, control, ghosts, Typed
<1>7. CASE Abandon
  BY <1>1, <1>7, CallsTyped DEF Abandon, Over, ghosts, Typed, Places
<1>8. CASE Dump
  <2>1. saved' \in Store
    BY <1>8 DEF Dump, Store, Typed
  <2> QED
    BY <1>1, <1>8, <2>1 DEF Dump, control, ghosts, Typed
<1>9. CASE Restart
  <2>1. /\ history' = saved.history /\ pending' = saved.pending /\ staged' = saved.staged
        /\ pc' = "idle" /\ running' = FALSE /\ stopping' = FALSE /\ step' = 0 /\ failures' = 0
        /\ call' = NoRound /\ streaming' = FALSE /\ asks' = 0 /\ UNCHANGED <<parallel, saved, turn, unheard>>
    BY <1>9 DEF Restart
  <2> QED
    BY <1>0, <1>1, <2>1, CallsTyped DEF Typed, Places
<1>10. CASE AddInput
  <2>1. Cardinality(Marks) + 1 \in Nat
    OBVIOUS
  <2> QED
    BY <1>1, <1>2, <1>10, <2>1 DEF AddInput, control, ghosts, Typed
<1> QED
  BY <1>3, <1>4, <1>5, <1>6, <1>7, <1>8, <1>9, <1>10 DEF Caller

\* Steps of the run keep the types.
LEMMA RunTyped ==
  ASSUME Typed, Run
  PROVE  Typed'
<1>1. ASSUME turn' = turn PROVE Past' = Past /\ Known' = Known /\ Held' = Held /\ Store' = Store
  BY <1>1, KnownStays
<1>2. ASSUME NEW place \in Places, Goto(place), UNCHANGED <<step, failures, history, staged, pending, call, saved, turn, asks, unheard>>
      PROVE  Typed'
  BY <1>1, <1>2 DEF Goto, Typed
<1>3. ASSUME Over PROVE Typed'
  BY <1>1, <1>3, CallsTyped DEF Over, ghosts, Typed, Places
<1>4. CASE StepTop
  BY <1>2, <1>3, <1>4 DEF StepTop, Places, ghosts
<1>5. CASE AskModel
  <2>1. CASE Goto("model") /\ asks' = asks + 1 /\ UNCHANGED <<step, failures, history, staged, pending, call, saved, ghosts, unheard>>
    <3>1. asks' \in Nat
      BY <2>1 DEF Typed
    <3> QED
      BY <1>1, <2>1, <3>1 DEF Goto, ghosts, Typed, Places
  <2> QED
    BY <1>3, <1>5, <2>1 DEF AskModel
<1>6. CASE ModelFails
  BY <1>3, <1>6 DEF ModelFails
<1>7. CASE ModelMalfunctions
  <2>1. Said("guidance", 0) \in Known
    BY DEF Said, Known
  <2>2. history' \in Seq(Known)
    <3>1. history \in Seq(Known)
      BY DEF Typed
    <3> QED
      BY <1>7, <2>1, <3>1, AppendTyped DEF ModelMalfunctions
  <2>3. failures' \in Nat
    BY <1>7 DEF ModelMalfunctions, Typed
  <2> QED
    BY <1>1, <1>7, <2>2, <2>3 DEF ModelMalfunctions, Goto, Typed, Places
<1>8. CASE ModelReplies
  <2>1. PICK n \in 0..Width, usable \in BOOLEAN :
           /\ failures' = IF usable /\ ~streaming THEN 0 ELSE failures + (IF usable THEN 0 ELSE 1)
           /\ turn' = turn + 1
           /\ history' = Append(history, Reply(Calls(turn + 1, n)))
           /\ call' = [i \in 1..Width |-> IF i <= n THEN Queued ELSE NoCall]
    BY <1>8 DEF ModelReplies
  <2>2. turn \in Nat /\ turn' \in Nat
    BY <2>1 DEF Typed
  <2>3. /\ Past \subseteq Past' /\ Known \subseteq Known' /\ Held \subseteq Held'
        /\ \A q \in Seq(Known) : q \in Seq(Known')
        /\ Store \subseteq Store'
    BY <2>1, <2>2, KnownGrows
  <2>4. Calls(turn + 1, n) \in SUBSET Past'
    BY <2>1, <2>2, LoopAssumption DEF Calls, Past, Call
  <2>5. Reply(Calls(turn + 1, n)) \in Known'
    BY <2>4 DEF Reply, Known
  <2>6. history' \in Seq(Known')
    <3>1. history \in Seq(Known')
      BY <2>3 DEF Typed
    <3> QED
      BY <2>1, <2>5, <3>1, AppendTyped
  <2>7. call' \in [1..Width -> Held']
    BY <2>1, <2>3, CallsTyped
  <2>8. failures' \in Nat
    BY <2>1 DEF Typed
  <2>9. pending' \in SUBSET Past' /\ unheard' \in SUBSET Past' /\ saved' \in Store'
    BY <1>8, <2>3 DEF ModelReplies, Typed
  <2> QED
    BY <1>8, <2>2, <2>6, <2>7, <2>8, <2>9 DEF ModelReplies, Goto, Typed, Places
<1>9. CASE ReplyChecked
  BY <1>2, <1>3, <1>9 DEF ReplyChecked, Places, ghosts
<1>10. CASE RoundFails
  BY <1>3, <1>10 DEF RoundFails
<1>11. CASE RoundDone
  BY <1>2, <1>11 DEF RoundDone, Places, ghosts
<1>12. CASE NextStep
  <2>1. {Current(i) : i \in Asked} \in SUBSET Past
    BY DEF Current, Asked, Past, Call, Typed
  <2>2. Results("results", {Current(i) : i \in Asked}) \in Known
    BY <2>1 DEF Results, Known
  <2>3. history' \in Seq(Known)
    <3>1. history \in Seq(Known)
      BY DEF Typed
    <3> QED
      BY <1>12, <2>2, <3>1, AppendTyped DEF NextStep
  <2>4. step' \in Nat /\ asks' \in Nat /\ pc' \in Places
    BY <1>12 DEF NextStep, Counted, Typed, Places
  <2>8. running' \in BOOLEAN /\ streaming' \in BOOLEAN
    <3>1. (running' = running \/ running' = FALSE) /\ (streaming' = streaming \/ streaming' = FALSE)
      BY <1>12 DEF NextStep
    <3> QED
      BY <3>1 DEF Typed
  <2>5. call' \in [1..Width -> Held]
    BY <1>12, CallsTyped DEF NextStep
  <2>6. unheard' \in SUBSET Past
    BY <1>12 DEF NextStep, Typed
  <2>7. UNCHANGED <<stopping, parallel, failures, staged, pending, saved, turn>>
    BY <1>12 DEF NextStep, ghosts
  <2> QED
    BY <1>1, <2>3, <2>4, <2>5, <2>6, <2>7, <2>8 DEF Typed
<1> QED
  BY <1>4, <1>5, <1>6, <1>7, <1>8, <1>9, <1>10, <1>11, <1>12 DEF Run

\* Steps of the workers keep the types.
LEMMA WorkerTyped ==
  ASSUME Typed, NEW i \in 1..Width, Worker(i)
  PROVE  Typed'
<1>0. call[i] \in Held /\ Current(i) \in Past
  BY DEF Current, Past, Call, Typed
<1>1. ASSUME UNCHANGED <<control, history, staged, ghosts, asks>>, NEW c \in Held, call' = [call EXCEPT ![i] = c],
             pending' \in SUBSET Past, unheard' \in SUBSET Past, saved' \in Store
      PROVE  Typed'
  <2>1. UNCHANGED <<pc, running, stopping, streaming, parallel, step, failures, history, staged, turn, asks>>
    BY <1>1 DEF control, ghosts
  <2>2. call' \in [1..Width -> Held]
    BY <1>1 DEF Typed
  <2>3. Past' = Past /\ Known' = Known /\ Held' = Held /\ Store' = Store
    BY <2>1, KnownStays
  <2> QED
    BY <1>1, <2>1, <2>2, <2>3 DEF Typed
<1>2. ASSUME NEW place \in {"waiting", "running", "done", "failed"}, CallGoes(i, place),
             pending' \in SUBSET Past, unheard' \in SUBSET Past, saved' \in Store
      PROVE  Typed'
  <2> DEFINE word == IF place \in {"done", "failed"} THEN "nothing" ELSE call[i].said
             c == [at |-> place, said |-> word, draft |-> {}, copy |-> {}]
  <2>1. c \in Held
    BY <1>0, HeldTyped DEF Verdicts
  <2>2. call' = [call EXCEPT ![i] = c] /\ UNCHANGED <<control, history, staged, ghosts, asks>>
    BY <1>2 DEF CallGoes
  <2> HIDE DEF c
  <2> QED
    BY <1>1, <1>2, <2>1, <2>2
<1>3. pending \in SUBSET Past /\ unheard \in SUBSET Past /\ saved \in Store /\ unheard \union {Current(i)} \in SUBSET Past
  BY <1>0 DEF Typed
<1>4. CASE RunTool(i)
  BY <1>2, <1>3, <1>4 DEF RunTool
<1>5. CASE Refuse(i)
  BY <1>2, <1>3, <1>5 DEF Refuse
<1>6. CASE AwaitApproval(i)
  <2>1. pending' \in SUBSET Past /\ Snapshot(i) \in SUBSET Past
    BY <1>0, <1>3, <1>6 DEF AwaitApproval, Snapshot, Listed
  <2> DEFINE c == [call[i] EXCEPT !.at = "saving", !.said = "asked", !.draft = Snapshot(i)]
  <2>2. c \in Held
    BY <1>0, <2>1, HeldTyped
  <2>3. call' = [call EXCEPT ![i] = c]
    BY <1>6 DEF AwaitApproval, Typed
  <2>4. UNCHANGED <<control, history, staged, ghosts, asks, saved, unheard>>
    BY <1>6 DEF AwaitApproval
  <2> HIDE DEF c
  <2> QED
    BY <1>1, <1>3, <2>1, <2>2, <2>3, <2>4
<1>7. CASE SaveCheckpoint(i)
  <2>1. saved' \in Store
    <3>1. call[i].draft \in SUBSET Past
      BY <1>0 DEF Held
    <3> QED
      BY <1>7, <3>1 DEF SaveCheckpoint, Store, Typed
  <2> QED
    BY <1>2, <1>3, <1>7, <2>1 DEF SaveCheckpoint
<1>8. ASSUME NEW verdict \in Verdicts, Decide(i, verdict) PROVE Typed'
  <2>1. Without(i, pending) \in SUBSET Past
    BY <1>3 DEF Without
  <2> DEFINE c == [call[i] EXCEPT !.at = "decided", !.said = verdict, !.copy = Without(i, pending)]
  <2>2. c \in Held
    BY <1>0, <2>1, HeldTyped
  <2>3. call' = [call EXCEPT ![i] = c]
    BY <1>8 DEF Decide, Typed
  <2>4. UNCHANGED <<control, history, staged, ghosts, asks, pending, saved, unheard>>
    BY <1>8 DEF Decide
  <2> HIDE DEF c
  <2> QED
    BY <1>1, <1>3, <2>2, <2>3, <2>4
<1>9. CASE Resolve(i)
  <2>1. pending' \in SUBSET Past
    BY <1>0, <1>9 DEF Resolve, Held
  <2>2. unheard' \in SUBSET Past /\ saved' = saved
    BY <1>3, <1>9 DEF Resolve
  <2>3. CallGoes(i, "running") \/ CallGoes(i, "done")
    BY <1>9 DEF Resolve
  <2> QED
    BY <1>2, <1>3, <2>1, <2>2, <2>3
<1>10. CASE Suspend(i)
  BY <1>2, <1>3, <1>10 DEF Suspend
<1>11. CASE ToolReturns(i)
  BY <1>2, <1>3, <1>11 DEF ToolReturns
<1>12. CASE CallRaises(i)
  BY <1>2, <1>3, <1>12 DEF CallRaises
<1> QED
  BY <1>4, <1>5, <1>6, <1>7, <1>8, <1>9, <1>10, <1>11, <1>12 DEF Worker

-----------------------------------------------------------------------------
(* Steps, failures and requests.                                             *)

\* At each place of a run: the failures of its streak, and the requests it sent.
Spent ==
  /\ pc # "idle" => running
  /\ pc = "idle" => step = 0 /\ asks = 0
  /\ step < MaxSteps /\ failures <= Attempts + MaxSteps
  /\ pc \in {"top", "step", "model"} => failures <= Attempts + step
  /\ pc \in {"reply", "tools", "told"} => failures <= Attempts + step + 1
  /\ pc \in {"top", "step"} => /\ asks <= step * (Attempts + 1) + failures
                               /\ asks <= step * (Attempts + 1) + Attempts
  /\ pc = "model" => /\ asks <= step * (Attempts + 1) + failures + 1
                     /\ asks <= step * (Attempts + 1) + Attempts + 1
  /\ pc \in {"reply", "tools", "told"} => asks <= (step + 1) * (Attempts + 1)

\* What a step more allows.
LEMMA StepMore ==
  ASSUME NEW n \in Nat
  PROVE  /\ (n + 1) * (Attempts + 1) = n * (Attempts + 1) + Attempts + 1
         /\ n * (Attempts + 1) \in Nat
<1>1. Attempts \in Nat
  BY LoopAssumption
<1> QED
  BY <1>1

\* Every step keeps within it.
LEMMA SpentNext ==
  ASSUME Typed, Spent, [Next]_vars
  PROVE  Spent'
<1>0. /\ MaxSteps \in Nat \ {0} /\ Attempts \in Nat /\ step \in Nat /\ failures \in Nat /\ asks \in Nat
      /\ pc \in Places
  BY LoopAssumption DEF Typed
<1> DEFINE product == step * (Attempts + 1)
<1>a. product \in Nat /\ (step + 1) * (Attempts + 1) = product + Attempts + 1 /\ 0 * (Attempts + 1) = 0
  BY <1>0, StepMore
<1>1. ASSUME Over PROVE Spent'
  BY <1>0, <1>1 DEF Over, Spent, Places
<1>2. ASSUME UNCHANGED <<pc, running, step, failures, asks>> PROVE Spent'
  BY <1>2 DEF Spent
<1>3. ASSUME NEW asStream, BeginRun(asStream) PROVE Spent'
  BY <1>0, <1>a, <1>3 DEF BeginRun, Occupy, Spent
<1>4. ASSUME NEW asStream, NEW at, BeginRaises(asStream, at) PROVE Spent'
  <2>1. pc = "idle" /\ running' = TRUE /\ failures' = 0 /\ UNCHANGED <<pc, step, asks>>
    BY <1>4 DEF BeginRaises, Occupy
  <2> QED
    BY <1>0, <2>1 DEF Spent
<1>5. CASE AddInput \/ ClearPendingInput \/ Stop \/ Dump
  BY <1>2, <1>5 DEF AddInput, ClearPendingInput, Stop, Dump, control
<1>6. CASE Abandon \/ ModelFails \/ RoundFails
  BY <1>1, <1>6 DEF Abandon, ModelFails, RoundFails
<1>7. CASE Restart
  BY <1>0, <1>7 DEF Restart, Spent
<1>8. CASE StepTop
  BY <1>0, <1>1, <1>8 DEF StepTop, Goto, Spent
<1>9. CASE AskModel
  <2>1. CASE Goto("model") /\ asks' = asks + 1 /\ UNCHANGED <<step, failures>> /\ pc = "step"
    <3> HIDE DEF product
    <3>1. running' /\ pc' = "model"
      BY <2>1 DEF Goto, Spent
    <3>2. asks <= product + failures /\ asks <= product + Attempts /\ step' * (Attempts + 1) = product
      BY <2>1 DEF Spent, product
    <3>3. step' = step /\ failures' = failures /\ step < MaxSteps /\ failures <= Attempts + MaxSteps /\ failures <= Attempts + step
      BY <2>1 DEF Spent
    <3> QED
      BY <1>0, <1>a, <2>1, <3>1, <3>2, <3>3 DEF Spent
  <2> QED
    BY <1>1, <1>9, <2>1 DEF AskModel
<1>10. CASE ModelMalfunctions
  <2>1. /\ pc = "model" /\ pc' = "top" /\ running' = running /\ step' = step /\ asks' = asks /\ failures' = failures + 1
        /\ failures + 1 <= Attempts
    BY <1>10 DEF ModelMalfunctions, MayReflect, Goto
  <2>2. asks <= product + failures + 1 /\ running /\ step < MaxSteps /\ step' * (Attempts + 1) = product
    BY <2>1 DEF Spent
  <2> HIDE DEF product
  <2> QED
    BY <1>0, <1>a, <2>1, <2>2 DEF Spent
<1>11. CASE ModelReplies
  <2>1. /\ pc = "model" /\ pc' = "reply" /\ running' = running /\ step' = step /\ asks' = asks
        /\ failures' \in {0, failures, failures + 1}
    BY <1>0, <1>11 DEF ModelReplies, Goto
  <2>2. asks <= product + Attempts + 1 /\ running /\ step < MaxSteps /\ failures <= Attempts + step
        /\ (step' + 1) * (Attempts + 1) = product + Attempts + 1
    BY <1>a, <2>1 DEF Spent
  <2> HIDE DEF product
  <2> QED
    BY <1>0, <1>a, <2>1, <2>2 DEF Spent
<1>12. CASE ReplyChecked
  BY <1>1, <1>12 DEF ReplyChecked, Goto, Spent
<1>13. CASE RoundDone
  BY <1>13 DEF RoundDone, Goto, Spent
<1>14. CASE NextStep
  <2>1. CASE pc' = "idle" /\ step' = 0 /\ asks' = 0 /\ failures' = failures
    BY <1>0, <2>1 DEF Spent
  <2>2. CASE pc' = "top" /\ step' = step + 1 /\ asks' = asks /\ failures' = failures /\ running' = running /\ ~OutOfSteps
             /\ pc \in {"tools", "told"}
    <3>1. asks <= product + Attempts + 1 /\ running /\ failures <= Attempts + step + 1
          /\ step' * (Attempts + 1) = product + Attempts + 1
      BY <1>a, <2>2 DEF Spent
    <3>2. step' < MaxSteps
      BY <1>0, <2>2 DEF OutOfSteps
    <3> HIDE DEF product
    <3> QED
      BY <1>0, <1>a, <2>2, <3>1, <3>2 DEF Spent
  <2> QED
    BY <1>14, <2>1, <2>2 DEF NextStep, Counted
<1>15. ASSUME NEW i, Worker(i) PROVE Spent'
  BY <1>2, <1>15 DEF Worker, RunTool, Refuse, AwaitApproval, SaveCheckpoint, Resolve, Decide, Suspend, ToolReturns,
     CallRaises, CallGoes, control
<1>16. CASE UNCHANGED vars
  BY <1>2, <1>16 DEF vars
<1> QED
  BY <1>3, <1>4, <1>5, <1>6, <1>7, <1>8, <1>9, <1>10, <1>11, <1>12, <1>13, <1>14, <1>15, <1>16
     DEF Next, Caller, Progress, Run

-----------------------------------------------------------------------------
(* The calls of a round, and the gate.                                       *)

\* Where calls are made in turn, all that come before one are over, and the one that
\* asks is listed before it is saved and after.
InTurn ==
  /\ \A i, j \in 1..Width : j < i /\ call[i].at \notin {"none", "queued"} /\ call[j].at # "none" => call[j].at = "done"
  /\ \A i \in 1..Width : call[i].at = "saving" => Current(i) \in pending \cap call[i].draft
  /\ WaitingIsSaved

\* Calls are on their way only in a round, and none runs that was asked about and not
\* answered yes.
Rounds ==
  /\ pc \in {"idle", "top", "step", "model"} => call = NoRound
  /\ pc = "reply" => \A i \in 1..Width : call[i].at \in {"none", "queued"}
  /\ pc # "tools" => \A i \in 1..Width : call[i].at \in {"none", "queued", "done"}
  /\ \A i \in 1..Width : call[i].at \in {"none", "queued"} => call[i].said = "nothing"
  /\ GatedByYes
  /\ ~parallel => InTurn

\* No round.
LEMMA NoRoundKeeps ==
  ASSUME call' = NoRound
  PROVE  Rounds'
<1>1. \A i \in 1..Width : call'[i].at = "none" /\ call'[i].said = "nothing"
  BY DEF NoRound, NoCall
<1> QED
  BY <1>1 DEF Rounds, GatedByYes, InTurn, WaitingIsSaved

\* The calls stay as they are.
LEMMA StillKeeps ==
  ASSUME Rounds, UNCHANGED <<call, parallel, turn>>,
         \/ UNCHANGED <<pc, pending, saved>>
         \/ pc' = pc /\ pc # "tools"
         \/ pc \in {"idle", "top", "step", "model"} /\ pc' \in {"idle", "top", "step", "model"}
  PROVE  Rounds'
<1>1. CASE call = NoRound
  BY <1>1, NoRoundKeeps
<1>2. CASE UNCHANGED <<pc, pending, saved>>
  BY <1>2 DEF Rounds, GatedByYes, InTurn, WaitingIsSaved, Current
<1>3. CASE pc' = pc /\ pc # "tools"
  BY <1>3 DEF Rounds, GatedByYes, InTurn, WaitingIsSaved
<1> QED
  BY <1>1, <1>2, <1>3 DEF Rounds

\* One call's thread goes on.
LEMMA OneKeeps ==
  ASSUME Typed, Rounds, NEW i \in 1..Width, NEW c, call' = [call EXCEPT ![i] = c], UNCHANGED <<pc, parallel, turn>>,
         pc = "tools", call[i].at \in {"queued", "saving", "waiting", "decided", "running"},
         c.at \notin {"none", "queued"}, c.at = "running" => c.said \in {"nothing", "yes"},
         ~parallel => \A j \in 1..Width : j < i /\ call[j].at # "none" => call[j].at = "done",
         c.at = "saving" => parallel \/ Current(i) \in pending' \cap c.draft,
         c.at = "waiting" => parallel \/ Current(i) \in pending' \cap saved'.pending
  PROVE  Rounds'
<1>0. call'[i] = c /\ \A j \in 1..Width \ {i} : call'[j] = call[j]
  BY DEF Typed
<1>1. GatedByYes' /\ \A j \in 1..Width : call'[j].at \in {"none", "queued"} => call'[j].said = "nothing"
  BY <1>0 DEF Rounds, GatedByYes
<1>2. ASSUME ~parallel PROVE InTurn'
  <2>1. \A j \in 1..Width \ {i} : call[j].at \in {"none", "queued", "done"}
    BY <1>2 DEF Rounds, InTurn
  <2>2. \A j \in 1..Width : Current(j)' = Current(j)
    BY DEF Current
  <2>3. ASSUME NEW k \in 1..Width, NEW j \in 1..Width, j < k, call'[k].at \notin {"none", "queued"}, call'[j].at # "none"
        PROVE  call'[j].at = "done"
    <3>1. CASE k = i
      BY <1>0, <1>2, <2>3, <3>1
    <3>2. CASE k # i
      <4>1. call[k].at \notin {"none", "queued"}
        BY <1>0, <2>3, <3>2
      <4>2. j # i
        BY <1>2, <2>3, <4>1 DEF Rounds, InTurn
      <4> QED
        BY <1>0, <1>2, <2>3, <4>1, <4>2 DEF Rounds, InTurn
    <3> QED
      BY <3>1, <3>2
  <2>4. \A k \in 1..Width : call'[k].at = "saving" => Current(k)' \in pending' \cap call'[k].draft
    BY <1>0, <1>2, <2>1, <2>2
  <2>5. \A k \in 1..Width : call'[k].at = "waiting" => Current(k)' \in pending' \cap saved'.pending
    BY <1>0, <1>2, <2>1, <2>2
  <2> QED
    BY <2>3, <2>4, <2>5 DEF InTurn, WaitingIsSaved
<1> QED
  BY <1>1, <1>2 DEF Rounds

\* Every worker's step keeps the gate.
LEMMA WorkerRounds ==
  ASSUME Typed, Rounds, NEW i \in 1..Width, Worker(i)
  PROVE  Rounds'
<1>1. UNCHANGED <<pc, parallel, turn>>
  BY DEF Worker, RunTool, Refuse, AwaitApproval, SaveCheckpoint, Resolve, Decide, Suspend, ToolReturns,
     CallRaises, CallGoes, control, ghosts
<1>2. call[i].at \in {"queued", "saving", "waiting", "decided", "running"} /\ pc = "tools"
  <2>1. call[i].at \in {"queued", "saving", "waiting", "decided", "running"} /\ (call[i].at = "queued" => pc = "tools")
    BY DEF Worker, RunTool, Refuse, AwaitApproval, SaveCheckpoint, Resolve, Decide, Suspend, ToolReturns,
       CallRaises, MayStart
  <2> QED
    BY <2>1 DEF Rounds
<1>3. ~parallel => \A j \in 1..Width : j < i /\ call[j].at # "none" => call[j].at = "done"
  <2>1. CASE call[i].at = "queued"
    <3>1. MayStart(i)
      BY <2>1 DEF Worker, RunTool, Refuse, AwaitApproval, SaveCheckpoint, Resolve, Decide, Suspend, ToolReturns, CallRaises
    <3> QED
      BY <3>1 DEF MayStart, Asked, Ended
  <2>2. CASE call[i].at # "queued"
    BY <1>2, <2>2 DEF Rounds, InTurn
  <2> QED
    BY <2>1, <2>2
<1>4. call[i].at = "queued" => call[i].said = "nothing"
  BY DEF Rounds
<1>5. ASSUME NEW place \in {"running", "done", "failed"}, CallGoes(i, place), place = "running" => call[i].said \in {"nothing", "yes"}
      PROVE  Rounds'
  <2> DEFINE word == IF place \in {"done", "failed"} THEN "nothing" ELSE call[i].said
             c == [at |-> place, said |-> word, draft |-> {}, copy |-> {}]
  <2>1. call' = [call EXCEPT ![i] = c]
    BY <1>5 DEF CallGoes
  <2>2. c.at = place /\ (c.at = "running" => c.said \in {"nothing", "yes"})
    BY <1>5
  <2> HIDE DEF c
  <2> QED
    BY <1>1, <1>2, <1>3, <2>1, <2>2, OneKeeps
<1>6. CASE RunTool(i)
  BY <1>4, <1>5, <1>6 DEF RunTool, MayStart
<1>7. CASE Refuse(i) \/ Suspend(i) \/ ToolReturns(i) \/ CallRaises(i)
  BY <1>5, <1>7 DEF Refuse, Suspend, ToolReturns, CallRaises
<1>8. CASE AwaitApproval(i)
  <2> DEFINE c == [call[i] EXCEPT !.at = "saving", !.said = "asked", !.draft = Snapshot(i)]
  <2>1. call[i] \in Held
    BY DEF Typed
  <2>2. c.at = "saving" /\ c.draft = Snapshot(i)
    BY <2>1 DEF Held
  <2>3. call' = [call EXCEPT ![i] = c]
    BY <1>8 DEF AwaitApproval, Typed
  <2>4. Current(i) \in pending' \cap c.draft
    BY <1>8, <2>2 DEF AwaitApproval, Snapshot, Listed
  <2> HIDE DEF c
  <2> QED
    BY <1>1, <1>2, <1>3, <2>2, <2>3, <2>4, OneKeeps
<1>9. CASE SaveCheckpoint(i)
  <2> DEFINE c == [at |-> "waiting", said |-> call[i].said, draft |-> {}, copy |-> {}]
  <2>1. call' = [call EXCEPT ![i] = c] /\ pending' = pending /\ saved'.pending = call[i].draft /\ c.at = "waiting"
        /\ call[i].at = "saving"
    BY <1>9 DEF SaveCheckpoint, CallGoes
  <2>2. parallel \/ Current(i) \in pending' \cap saved'.pending
    BY <2>1 DEF Rounds, InTurn
  <2> HIDE DEF c
  <2> QED
    BY <1>1, <1>2, <1>3, <2>1, <2>2, OneKeeps
<1>10. ASSUME NEW verdict \in Verdicts, Decide(i, verdict) PROVE Rounds'
  <2> DEFINE c == [call[i] EXCEPT !.at = "decided", !.said = verdict, !.copy = Without(i, pending)]
  <2>1. call[i] \in Held
    BY DEF Typed
  <2>2. c.at = "decided"
    BY <2>1 DEF Held
  <2>3. call' = [call EXCEPT ![i] = c]
    BY <1>10 DEF Decide, Typed
  <2> HIDE DEF c
  <2> QED
    BY <1>1, <1>2, <1>3, <2>2, <2>3, OneKeeps
<1>11. CASE Resolve(i)
  BY <1>5, <1>11 DEF Resolve, Approved
<1> QED
  BY <1>6, <1>7, <1>8, <1>9, <1>10, <1>11 DEF Worker

\* So does every other step.
LEMMA RoundsNext ==
  ASSUME Typed, Spent, Rounds, [Next]_vars
  PROVE  Rounds'
<1>1. ASSUME Over PROVE Rounds'
  BY <1>1, NoRoundKeeps DEF Over
<1>2. ASSUME NEW asStream, BeginRun(asStream) PROVE Rounds'
  BY <1>2, StillKeeps DEF BeginRun, Occupy
<1>3. ASSUME NEW asStream, NEW at, BeginRaises(asStream, at) PROVE Rounds'
  BY <1>3, StillKeeps DEF BeginRaises, Occupy
<1>4. CASE AddInput \/ ClearPendingInput \/ Stop
  BY <1>4, StillKeeps DEF AddInput, ClearPendingInput, Stop, control, ghosts
<1>5. CASE Dump
  <2>1. pc = "idle"
    BY <1>5 DEF Dump, Spent
  <2> QED
    BY <1>5, <2>1, StillKeeps DEF Dump, control, ghosts
<1>6. CASE Abandon \/ ModelFails \/ RoundFails
  BY <1>1, <1>6 DEF Abandon, ModelFails, RoundFails
<1>7. CASE Restart
  BY <1>7, NoRoundKeeps DEF Restart
<1>8. CASE StepTop
  BY <1>1, <1>8, StillKeeps DEF StepTop, Goto, ghosts
<1>9. CASE AskModel
  BY <1>1, <1>9, StillKeeps DEF AskModel, Goto, ghosts
<1>10. CASE ModelMalfunctions
  BY <1>10, StillKeeps DEF ModelMalfunctions, Goto
<1>11. CASE ModelReplies
  <2>1. PICK n \in 0..Width : call' = [i \in 1..Width |-> IF i <= n THEN Queued ELSE NoCall]
    BY <1>11 DEF ModelReplies
  <2>2. \A i \in 1..Width : call'[i].at \in {"none", "queued"} /\ call'[i].said = "nothing"
    BY <2>1 DEF Queued, NoCall
  <2>3. pc' = "reply"
    BY <1>11 DEF ModelReplies, Goto
  <2> QED
    BY <2>2, <2>3 DEF Rounds, GatedByYes, InTurn, WaitingIsSaved
<1>12. CASE ReplyChecked
  <2>1. CASE Goto("tools") /\ pc = "reply" /\ UNCHANGED <<call, pending, saved, turn>>
    <3>1. \A i \in 1..Width : call'[i].at \in {"none", "queued"} /\ call'[i].said = "nothing"
      BY <2>1 DEF Rounds
    <3> QED
      BY <2>1, <3>1 DEF Goto, Rounds, GatedByYes, InTurn, WaitingIsSaved
  <2> QED
    BY <1>1, <1>12, <2>1 DEF ReplyChecked, ghosts
<1>13. CASE RoundDone
  <2>1. pc' = "told" /\ UNCHANGED <<call, pending, saved, turn, parallel>>
    BY <1>13 DEF RoundDone, Goto, ghosts
  <2>2. \A i \in 1..Width : call[i].at \in {"none", "done"}
    BY <1>13 DEF RoundDone, Asked, Ended
  <2> QED
    BY <2>1, <2>2 DEF Rounds, GatedByYes, InTurn, WaitingIsSaved
<1>14. CASE NextStep
  BY <1>14, NoRoundKeeps DEF NextStep
<1>15. CASE UNCHANGED vars
  BY <1>15, StillKeeps DEF vars
<1> QED
  BY <1>2, <1>3, <1>4, <1>5, <1>6, <1>7, <1>8, <1>9, <1>10, <1>11, <1>12, <1>13, <1>14, <1>15, WorkerRounds
     DEF Next, Caller, Progress, Run

-----------------------------------------------------------------------------
(* Staged input.                                                             *)

\* Transcript h holds the staged messages 1 to b, each once and after a run's own input
\* or another of them; those after b wait in s, in order.
NumberedFrom(b, h, s) ==
  /\ b + Len(s) <= MaxStaged
  /\ \A j \in 1..Len(s) : s[j] = b + j
  /\ \A k \in 1..Len(h) : h[k].mark \in 0..b /\ (h[k].kind = "staged" <=> h[k].mark # 0)
  /\ \A k \in 1..Len(h) : h[k].kind = "staged" => k > 1 /\ h[k - 1].kind \in {"input", "staged"}
  /\ \A j, k \in 1..Len(h) : h[j].mark = h[k].mark /\ h[k].mark # 0 => j = k
  /\ \A m \in 1..b : \E k \in 1..Len(h) : h[k].mark = m

\* So it is in this process, and in the checkpoint.
Staged ==
  /\ \E b \in Nat : NumberedFrom(b, history, staged)
  /\ \E b \in Nat : NumberedFrom(b, saved.history, saved.staged)

\* Any other entry joins.
LEMMA NumberedAppend ==
  ASSUME NEW K, NEW h \in Seq(K), NEW s \in Seq(Nat), NEW b \in Nat, NumberedFrom(b, h, s),
         NEW e \in K, e.kind # "staged", e.mark = 0
  PROVE  NumberedFrom(b, Append(h, e), s)
<1> DEFINE g == Append(h, e)
<1>1. /\ Len(h) \in Nat /\ Len(g) = Len(h) + 1 /\ g[Len(h) + 1] = e /\ \A k \in 1..Len(h) : g[k] = h[k]
  BY AppendTyped
<1> HIDE DEF g
<1>2. \A k \in 1..Len(g) : k = Len(h) + 1 \/ k \in 1..Len(h)
  BY <1>1
<1>3. b + Len(s) <= MaxStaged /\ \A j \in 1..Len(s) : s[j] = b + j
  BY DEF NumberedFrom
<1>a. /\ \A k \in 1..Len(h) : h[k].mark \in 0..b /\ (h[k].kind = "staged" <=> h[k].mark # 0)
      /\ \A j, k \in 1..Len(h) : h[j].mark = h[k].mark /\ h[k].mark # 0 => j = k
  BY DEF NumberedFrom
<1>4. ASSUME NEW k \in 1..Len(g) PROVE g[k].mark \in 0..b /\ (g[k].kind = "staged" <=> g[k].mark # 0)
  <2>1. CASE k = Len(h) + 1
    BY <1>1, <2>1
  <2>2. CASE k \in 1..Len(h)
    BY <1>1, <1>a, <2>2
  <2> QED
    BY <1>2, <2>1, <2>2
<1>5. ASSUME NEW k \in 1..Len(g), g[k].kind = "staged" PROVE k > 1 /\ g[k - 1].kind \in {"input", "staged"}
  <2>1. k \in 1..Len(h) /\ h[k].kind = "staged"
    BY <1>1, <1>2, <1>5
  <2>2. k > 1 /\ h[k - 1].kind \in {"input", "staged"}
    BY <2>1 DEF NumberedFrom
  <2>3. k - 1 \in 1..Len(h)
    BY <1>1, <2>1, <2>2
  <2> QED
    BY <1>1, <2>2, <2>3
<1>6. ASSUME NEW j \in 1..Len(g), NEW k \in 1..Len(g), g[j].mark = g[k].mark, g[k].mark # 0 PROVE j = k
  <2>1. g[Len(h) + 1].mark = 0
    BY <1>1
  <2>2. j # Len(h) + 1 /\ k # Len(h) + 1
    BY <1>6, <2>1
  <2>3. j \in 1..Len(h) /\ k \in 1..Len(h)
    BY <1>2, <2>2
  <2>4. h[j] = g[j] /\ h[k] = g[k]
    BY <1>1, <2>3
  <2>5. h[j].mark = h[k].mark /\ h[k].mark # 0
    BY <1>6, <2>4
  <2> QED
    BY <1>a, <2>3, <2>5
<1>7. ASSUME NEW m \in 1..b PROVE \E k \in 1..Len(g) : g[k].mark = m
  <2>1. PICK k \in 1..Len(h) : h[k].mark = m
    BY DEF NumberedFrom
  <2>2. k \in 1..Len(g) /\ g[k].mark = m
    BY <1>1, <2>1
  <2> QED
    BY <2>2
<1>8. NumberedFrom(b, g, s)
  BY <1>3, <1>4, <1>5, <1>6, <1>7 DEF NumberedFrom
<1> QED
  BY <1>8 DEF g

\* What waits is admitted.
LEMMA NumberedAdmit ==
  ASSUME NEW h \in Seq(Known), NEW s \in Seq(Nat), NEW b \in Nat, NumberedFrom(b, h, s)
  PROVE  NumberedFrom(b + Len(s), Admitted(h, s), <<>>)
<1> DEFINE f == Append(h, Said("input", 0))
           r == [k \in DOMAIN s |-> Said("staged", s[k])]
           g == Admitted(h, s)
           n == Len(s)
           l == Len(h)
<1>1. Said("input", 0) \in Known /\ Said("input", 0).kind = "input" /\ Said("input", 0).mark = 0
  BY DEF Said, Known
<1>2. f \in Seq(Known) /\ Len(f) = l + 1 /\ l \in Nat /\ f[l + 1] = Said("input", 0) /\ NumberedFrom(b, f, s)
  BY <1>1, AppendTyped, NumberedAppend
<1>3. r \in Seq(Known) /\ Len(r) = n /\ n \in Nat /\ DOMAIN s = 1..n
  BY AdmitTyped
<1>4. \A j \in 1..n : r[j] = Said("staged", s[j])
  BY <1>3
<1>5. g = f \o r
  BY DEF Admitted
<1>6. Len(g) = l + 1 + n /\ (\A k \in 1..l + 1 : g[k] = f[k]) /\ \A j \in 1..n : g[l + 1 + j] = r[j]
  BY <1>2, <1>3, <1>5, ConcatTyped
<1>7. \A j \in 1..n : g[l + 1 + j].kind = "staged" /\ g[l + 1 + j].mark = b + j
  <2>1. \A j \in 1..n : s[j] = b + j
    BY DEF NumberedFrom
  <2>2. \A j \in 1..n : r[j].kind = "staged" /\ r[j].mark = s[j]
    BY <1>4 DEF Said
  <2> HIDE DEF r, g, n, l
  <2> QED
    BY <1>6, <2>1, <2>2
<1>8. g[l + 1].kind = "input" /\ l + 1 \in 1..l + 1
  BY <1>1, <1>2, <1>6
<1>9. b + n <= MaxStaged /\ MaxStaged \in Nat
  BY LoopAssumption DEF NumberedFrom
<1>a. /\ \A k \in 1..l + 1 : f[k].mark \in 0..b /\ (f[k].kind = "staged" <=> f[k].mark # 0)
      /\ \A k \in 1..l + 1 : f[k].kind = "staged" => k > 1 /\ f[k - 1].kind \in {"input", "staged"}
      /\ \A j, k \in 1..l + 1 : f[j].mark = f[k].mark /\ f[k].mark # 0 => j = k
      /\ \A m \in 1..b : \E k \in 1..l + 1 : f[k].mark = m
  BY <1>2 DEF NumberedFrom
<1> HIDE DEF f, r, g, n, l
<1>b. \A k \in 1..Len(g) : k \in 1..l + 1 \/ \E j \in 1..n : k = l + 1 + j
  <2>1. \A k \in 1..Len(g) : k \in 1..l + 1 \/ (k - (l + 1) \in 1..n /\ k = l + 1 + (k - (l + 1)))
    BY <1>2, <1>3, <1>6
  <2> QED
    BY <2>1
<1>10. ASSUME NEW k \in 1..Len(g) PROVE g[k].mark \in 0..b + n /\ (g[k].kind = "staged" <=> g[k].mark # 0)
  <2>1. CASE k \in 1..l + 1
    <3>1. g[k] = f[k] /\ f[k].mark \in 0..b /\ (f[k].kind = "staged" <=> f[k].mark # 0)
      BY <1>6, <1>a, <2>1
    <3> QED
      BY <1>3, <3>1
  <2>2. ASSUME NEW j \in 1..n, k = l + 1 + j PROVE g[k].mark \in 0..b + n /\ (g[k].kind = "staged" <=> g[k].mark # 0)
    BY <1>3, <1>7, <2>2
  <2> QED
    BY <1>b, <2>1, <2>2
<1>11. ASSUME NEW k \in 1..Len(g), g[k].kind = "staged" PROVE k > 1 /\ g[k - 1].kind \in {"input", "staged"}
  <2>1. CASE k \in 1..l + 1
    <3>1. k > 1 /\ f[k - 1].kind \in {"input", "staged"}
      BY <1>6, <1>11, <1>a, <2>1
    <3>2. k - 1 \in 1..l + 1
      BY <1>2, <2>1, <3>1
    <3> QED
      BY <1>6, <3>1, <3>2
  <2>2. ASSUME NEW j \in 1..n, k = l + 1 + j PROVE k > 1 /\ g[k - 1].kind \in {"input", "staged"}
    <3>1. k > 1
      BY <1>2, <2>2
    <3>2. CASE j = 1
      <4>1. k - 1 = l + 1
        BY <1>2, <2>2, <3>2
      <4> QED
        BY <1>8, <3>1, <4>1
    <3>3. CASE j # 1
      <4>1. j - 1 \in 1..n /\ k - 1 = l + 1 + (j - 1)
        BY <1>2, <1>3, <2>2, <3>3
      <4> QED
        BY <1>7, <3>1, <4>1
    <3> QED
      BY <3>2, <3>3
  <2> QED
    BY <1>b, <2>1, <2>2
<1>12. ASSUME NEW j \in 1..Len(g), NEW k \in 1..Len(g), g[j].mark = g[k].mark, g[k].mark # 0 PROVE j = k
  <2>1. CASE j \in 1..l + 1 /\ k \in 1..l + 1
    <3>1. g[j] = f[j] /\ g[k] = f[k]
      BY <1>6, <2>1
    <3>2. f[j].mark = f[k].mark /\ f[k].mark # 0
      BY <1>12, <3>1
    <3> QED
      BY <1>a, <2>1, <3>2
  <2>2. ASSUME NEW m \in 1..l + 1, NEW i \in 1..n PROVE g[m].mark # g[l + 1 + i].mark
    <3>1. g[m].mark \in 0..b
      BY <1>6, <1>a
    <3> QED
      BY <1>7, <3>1
  <2>3. ASSUME NEW p \in 1..n, NEW q \in 1..n, g[l + 1 + p].mark = g[l + 1 + q].mark PROVE p = q
    <3>1. b + p = b + q
      BY <1>7, <2>3
    <3> QED
      BY <1>3, <3>1
  <2> QED
    BY <1>12, <1>b, <2>1, <2>2, <2>3
<1>13. ASSUME NEW m \in 1..b + n PROVE \E k \in 1..Len(g) : g[k].mark = m
  <2>1. CASE m \in 1..b
    <3>1. PICK k \in 1..l + 1 : f[k].mark = m
      BY <1>a, <2>1
    <3>2. k \in 1..Len(g) /\ g[k].mark = m
      BY <1>2, <1>3, <1>6, <3>1
    <3> QED
      BY <3>2
  <2>2. CASE m \notin 1..b
    <3>1. m - b \in 1..n /\ b + (m - b) = m
      BY <1>3, <2>2
    <3>2. l + 1 + (m - b) \in 1..Len(g)
      BY <1>2, <1>3, <1>6, <3>1
    <3>3. g[l + 1 + (m - b)].mark = m
      BY <1>7, <3>1
    <3> QED
      BY <3>2, <3>3
  <2> QED
    BY <2>1, <2>2
<1>14. Len(<<>>) = 0 /\ b + n \in Nat /\ b + n + Len(<<>>) <= MaxStaged
  BY <1>3, <1>9
<1>15. NumberedFrom(b + n, g, <<>>)
  BY <1>10, <1>11, <1>12, <1>13, <1>14 DEF NumberedFrom
<1> QED
  BY <1>15 DEF g, n

\* The count of messages is the number of the last.
LEMMA MarksCount ==
  ASSUME Typed, NEW b \in Nat, NumberedFrom(b, history, staged)
  PROVE  Cardinality(Marks) = b + Len(staged) /\ b + Len(staged) \in Nat
<1>1. history \in Seq(Known) /\ staged \in Seq(Nat)
  BY DEF Typed
<1>2. DOMAIN history = 1..Len(history) /\ DOMAIN staged = 1..Len(staged) /\ Len(staged) \in Nat
  BY <1>1
<1>3. /\ \A j \in 1..Len(staged) : staged[j] = b + j
      /\ \A k \in 1..Len(history) : history[k].mark \in 0..b
      /\ \A m \in 1..b : \E k \in 1..Len(history) : history[k].mark = m
  BY DEF NumberedFrom
<1>4. Marks \subseteq 1..b + Len(staged)
  <2>1. \A j \in 1..Len(staged) : staged[j] \in 1..b + Len(staged)
    BY <1>2, <1>3
  <2>2. \A k \in 1..Len(history) : history[k].mark = 0 \/ history[k].mark \in 1..b + Len(staged)
    BY <1>2, <1>3
  <2> QED
    BY <1>2, <2>1, <2>2 DEF Marks
<1>5. ASSUME NEW m \in 1..b + Len(staged) PROVE m \in Marks
  <2>1. CASE m \in 1..b
    <3>1. PICK k \in 1..Len(history) : history[k].mark = m
      BY <1>3, <2>1
    <3>2. m # 0 /\ k \in DOMAIN history
      BY <1>2, <2>1, <3>1
    <3> QED
      BY <3>1, <3>2 DEF Marks
  <2>2. CASE m \notin 1..b
    <3>1. m - b \in 1..Len(staged) /\ staged[m - b] = m
      BY <1>2, <1>3, <2>2
    <3> QED
      BY <1>2, <3>1 DEF Marks
  <2> QED
    BY <2>1, <2>2
<1>6. Marks = 1..b + Len(staged)
  BY <1>4, <1>5
<1> DEFINE n == b + Len(staged)
<1>7. n \in Nat
  BY <1>2
<1> HIDE DEF n
<1>8. Cardinality(1..n) = n
  <2>1. n \in Int /\ 1 \in Int
    BY <1>7
  <2>2. Cardinality(1..n) = IF 1 > n THEN 0 ELSE n - 1 + 1
    BY <2>1, FS_Interval
  <2> QED
    BY <1>7, <2>2
<1>9. Cardinality(Marks) = n /\ n \in Nat
  BY <1>6, <1>7, <1>8 DEF n
<1> QED
  BY <1>9 DEF n

\* What waits is cleared.
LEMMA NumberedClear ==
  ASSUME NEW h, NEW s \in Seq(Nat), NEW b \in Nat, NumberedFrom(b, h, s)
  PROVE  NumberedFrom(b, h, <<>>)
<1>1. Len(<<>>) = 0 /\ Len(s) \in Nat /\ b + Len(s) <= MaxStaged /\ MaxStaged \in Nat
  BY LoopAssumption DEF NumberedFrom
<1>2. b + Len(<<>>) <= MaxStaged
  BY <1>1
<1> QED
  BY <1>1, <1>2 DEF NumberedFrom

\* One more waits.
LEMMA NumberedMore ==
  ASSUME NEW h, NEW s \in Seq(Nat), NEW b \in Nat, NumberedFrom(b, h, s), b + Len(s) < MaxStaged
  PROVE  NumberedFrom(b, h, Append(s, b + Len(s) + 1))
<1> DEFINE x == b + Len(s) + 1
           t == Append(s, x)
<1>1. x \in Nat
  OBVIOUS
<1>2. /\ Len(s) \in Nat /\ Len(t) = Len(s) + 1 /\ t[Len(s) + 1] = x /\ \A j \in 1..Len(s) : t[j] = s[j]
  BY <1>1, AppendTyped
<1>3. x = b + (Len(s) + 1) /\ MaxStaged \in Nat
  BY <1>2, LoopAssumption
<1>4. \A j \in 1..Len(s) : s[j] = b + j
  BY DEF NumberedFrom
<1> HIDE DEF x, t
<1>5. ASSUME NEW j \in 1..Len(t) PROVE t[j] = b + j
  <2>1. j = Len(s) + 1 \/ j \in 1..Len(s)
    BY <1>2
  <2> QED
    BY <1>2, <1>3, <1>4, <2>1
<1>6. b + Len(t) <= MaxStaged
  BY <1>2, <1>3
<1>7. NumberedFrom(b, h, t)
  BY <1>5, <1>6 DEF NumberedFrom
<1> QED
  BY <1>7 DEF t, x

\* A repair is an entry like any other.
LEMMA NumberedRepair ==
  ASSUME NEW h \in Seq(Known), NEW s \in Seq(Nat), NEW b \in Nat, NumberedFrom(b, h, s)
  PROVE  NumberedFrom(b, Repaired(h), s)
<1>1. CASE Orphans(h) = {}
  BY <1>1 DEF Repaired
<1>2. CASE Orphans(h) # {}
  <2> DEFINE e == Results("repair", Orphans(h))
  <2>1. e.kind # "staged" /\ e.mark = 0
    BY DEF Results
  <2>2. Repaired(h) = Append(h, e)
    BY <1>2 DEF Repaired
  <2>3. Repaired(h) \in Seq(Known)
    BY RepairTyped
  <2>4. e \in Known
    BY OrphansTyped DEF Results, Known
  <2> HIDE DEF e
  <2> QED
    BY <2>1, <2>2, <2>4, NumberedAppend
<1> QED
  BY <1>1, <1>2

\* Staged input is admitted once, whatever the step.
LEMMA StagedNext ==
  ASSUME Typed, Spent, Staged, [Next]_vars
  PROVE  Staged'
<1>0. history \in Seq(Known) /\ staged \in Seq(Nat) /\ turn \in Nat
  BY DEF Typed
<1>1. PICK b \in Nat : NumberedFrom(b, history, staged)
  BY DEF Staged
<1>2. PICK a \in Nat : NumberedFrom(a, saved.history, saved.staged)
  BY DEF Staged
<1>3. ASSUME UNCHANGED <<history, staged, saved>> PROVE Staged'
  BY <1>1, <1>2, <1>3 DEF Staged
<1>4. ASSUME UNCHANGED saved, NEW c \in Nat, NumberedFrom(c, history', staged') PROVE Staged'
  BY <1>2, <1>4 DEF Staged
<1>5. NumberedFrom(b, Repaired(history), staged) /\ Repaired(history) \in Seq(Known)
  BY <1>0, <1>1, NumberedRepair, RepairTyped
<1>6. NumberedFrom(b + Len(staged), Admitted(Repaired(history), staged), <<>>) /\ b + Len(staged) \in Nat
  BY <1>0, <1>5, NumberedAdmit
<1>7. ASSUME NEW asStream, BeginRun(asStream) PROVE Staged'
  BY <1>4, <1>6, <1>7 DEF BeginRun, Occupy, Unadmitted
<1>8. ASSUME NEW asStream, NEW at, BeginRaises(asStream, at) PROVE Staged'
  <2>1. UNCHANGED saved /\ at \in {"thunk", "warning", "start"}
    BY <1>8 DEF BeginRaises, Occupy
  <2>2. CASE at = "thunk"
    BY <1>1, <1>4, <1>8, <2>1, <2>2 DEF BeginRaises
  <2>3. CASE at = "warning"
    BY <1>4, <1>5, <1>8, <2>1, <2>3 DEF BeginRaises
  <2>4. CASE at = "start"
    BY <1>4, <1>6, <1>8, <2>1, <2>4 DEF BeginRaises, Unadmitted
  <2> QED
    BY <2>1, <2>2, <2>3, <2>4
<1>9. CASE AddInput
  <2>1. Cardinality(Marks) = b + Len(staged) /\ b + Len(staged) \in Nat
    BY <1>1, MarksCount
  <2>2. b + Len(staged) < MaxStaged /\ staged' = Append(staged, b + Len(staged) + 1) /\ UNCHANGED <<history, saved>>
    BY <1>9, <2>1 DEF AddInput
  <2> QED
    BY <1>0, <1>1, <1>4, <2>2, NumberedMore
<1>10. CASE ClearPendingInput
  BY <1>0, <1>1, <1>4, <1>10, NumberedClear DEF ClearPendingInput
<1>11. CASE Stop \/ Abandon \/ StepTop \/ AskModel \/ ModelFails \/ ReplyChecked \/ RoundFails \/ RoundDone \/ UNCHANGED vars
  BY <1>3, <1>11 DEF Stop, Abandon, StepTop, AskModel, ModelFails, ReplyChecked, RoundFails, RoundDone, Over, vars
<1>12. CASE Dump \/ \E i \in 1..Width : SaveCheckpoint(i)
  <2>1. saved'.history = history /\ saved'.staged = staged /\ UNCHANGED <<history, staged>>
    BY <1>12 DEF Dump, SaveCheckpoint, CallGoes
  <2> QED
    BY <1>1, <2>1 DEF Staged
<1>13. CASE Restart
  BY <1>2, <1>13 DEF Restart, Staged
<1>14. ASSUME NEW e, e.kind # "staged", e.mark = 0, e \in Known', turn' \in {turn, turn + 1},
              history' = Append(history, e), UNCHANGED <<staged, saved>>
       PROVE  Staged'
  <2>1. history \in Seq(Known')
    BY <1>0, <1>14, KnownStays, KnownGrows
  <2> DEFINE K == Known'
  <2>2. history \in Seq(K) /\ e \in K
    BY <1>14, <2>1
  <2> HIDE DEF K
  <2>3. NumberedFrom(b, history', staged)
    BY <1>0, <1>1, <1>14, <2>2, NumberedAppend
  <2> QED
    BY <1>4, <1>14, <2>3
<1>15. ASSUME NEW cs, cs \in SUBSET Past', NEW kind \in {"results", "guidance", "reply"}
       PROVE  /\ Results("results", cs) \in Known' /\ Reply(cs) \in Known' /\ Said("guidance", 0) \in Known'
              /\ Results("results", cs).kind # "staged" /\ Reply(cs).kind # "staged" /\ Said("guidance", 0).kind # "staged"
              /\ Results("results", cs).mark = 0 /\ Reply(cs).mark = 0 /\ Said("guidance", 0).mark = 0
  BY <1>15 DEF Results, Reply, Said, Known
<1>16. CASE ModelMalfunctions
  BY <1>14, <1>15, <1>16 DEF ModelMalfunctions
<1>17. CASE ModelReplies
  <2>1. PICK n \in 0..Width : history' = Append(history, Reply(Calls(turn + 1, n)))
    BY <1>17 DEF ModelReplies
  <2>2. turn' = turn + 1 /\ UNCHANGED <<staged, saved>>
    BY <1>17 DEF ModelReplies
  <2>3. Calls(turn + 1, n) \in SUBSET Past'
    BY <1>0, <2>2, LoopAssumption DEF Calls, Past, Call
  <2> QED
    BY <1>14, <1>15, <2>1, <2>2, <2>3
<1>18. CASE NextStep
  <2>1. UNCHANGED <<turn, staged, saved>>
    BY <1>18 DEF NextStep, ghosts
  <2> DEFINE cs == {Current(i) : i \in Asked}
  <2>2. history' = history \/ history' = Append(history, Results("results", cs))
    BY <1>18 DEF NextStep
  <2>3. cs \in SUBSET Past'
    BY <1>0, <2>1 DEF Asked, Current, Past, Call
  <2> HIDE DEF cs
  <2> QED
    BY <1>3, <1>14, <1>15, <2>1, <2>2, <2>3
<1>19. ASSUME NEW i \in 1..Width, Worker(i), ~SaveCheckpoint(i) PROVE Staged'
  BY <1>3, <1>19 DEF Worker, RunTool, Refuse, AwaitApproval, Resolve, Decide, Suspend, ToolReturns, CallRaises, CallGoes
<1> QED
  BY <1>7, <1>8, <1>9, <1>10, <1>11, <1>12, <1>13, <1>16, <1>17, <1>18, <1>19
     DEF Next, Caller, Progress, Run

-----------------------------------------------------------------------------
(* Types, the gate and the bounds on what a run spends.                      *)

IInv == Typed /\ Spent /\ Rounds /\ Staged

\* It holds at first ...
LEMMA InitIInv == Init => IInv
<1> SUFFICES ASSUME Init PROVE IInv
  OBVIOUS
<1>1. Typed
  <2>1. <<>> \in Seq(Known) /\ <<>> \in Seq(Nat)
    OBVIOUS
  <2>2. Nothing \in Store
    BY <2>1 DEF Nothing, Store
  <2>3. NoRound \in [1..Width -> Held]
    BY DEF NoRound, NoCall, Held, Verdicts
  <2> QED
    BY <2>1, <2>2, <2>3 DEF Init, Typed, Places
<1>2. Spent
  BY LoopAssumption DEF Init, Spent
<1>3. Rounds
  BY NoRoundKeeps, LoopAssumption DEF Init, Rounds, GatedByYes, InTurn, WaitingIsSaved, NoRound, NoCall
<1>4. NumberedFrom(0, <<>>, <<>>)
  BY LoopAssumption DEF NumberedFrom
<1>5. Staged
  BY <1>4 DEF Init, Staged, Nothing
<1> QED
  BY <1>1, <1>2, <1>3, <1>5 DEF IInv

\* ... and after every step.
LEMMA NextIInv == IInv /\ [Next]_vars => IInv'
<1> SUFFICES ASSUME IInv, [Next]_vars PROVE IInv'
  OBVIOUS
<1>1. Typed /\ Spent /\ Rounds /\ Staged
  BY DEF IInv
<1>2. Spent'
  BY <1>1, SpentNext
<1>3. Rounds'
  BY <1>1, RoundsNext
<1>4. Staged'
  BY <1>1, StagedNext
<1>5. Cardinality(Marks) \in Nat
  <2>1. PICK b \in Nat : NumberedFrom(b, history, staged)
    BY <1>1 DEF Staged
  <2> QED
    BY <1>1, <2>1, MarksCount
<1>6. Typed'
  <2>1. CASE Caller
    BY <1>1, <1>5, <2>1, CallerTyped
  <2>2. CASE Run
    BY <1>1, <2>2, RunTyped
  <2>3. CASE \E i \in 1..Width : Worker(i)
    BY <1>1, <2>3, WorkerTyped
  <2>4. CASE UNCHANGED vars
    <3>1. Past' = Past /\ Known' = Known /\ Held' = Held /\ Store' = Store
      BY <2>4, KnownStays DEF vars
    <3> QED
      BY <1>1, <2>4, <3>1 DEF vars, Typed
  <2> QED
    BY <2>1, <2>2, <2>3, <2>4 DEF Next, Progress
<1> QED
  BY <1>2, <1>3, <1>4, <1>6 DEF IInv

\* The invariant holds of every reachable state.
THEOREM Invariant == Spec => []IInv
<1>1. Init => IInv
  BY InitIInv
<1>2. IInv /\ [Next]_vars => IInv'
  BY NextIInv
<1> QED
  BY <1>1, <1>2, PTL DEF Spec

\* Whatever the callers, the models and the tools do, a run keeps to its steps and a streak
\* of failures to its budget, and the loop speaks only of calls that were made.
THEOREM TypeCorrect == Spec => []TypeOK
<1>1. ASSUME IInv PROVE TypeOK
  <2>1. Typed /\ Spent /\ Staged
    BY <1>1 DEF IInv
  <2>2. \A k \in DOMAIN history : history[k] \in Entry
    <3>1. \A k \in DOMAIN history : history[k] \in Known
      BY <2>1 DEF Typed
    <3> QED
      BY <3>1 DEF Known, Entry, Past
  <2>3. \A k \in DOMAIN staged : staged[k] \in 1..MaxStaged
    <3>1. PICK b \in Nat : NumberedFrom(b, history, staged)
      BY <2>1 DEF Staged
    <3>2. b + Len(staged) <= MaxStaged /\ \A j \in 1..Len(staged) : staged[j] = b + j
      BY <3>1 DEF NumberedFrom
    <3>3. DOMAIN staged = 1..Len(staged) /\ Len(staged) \in Nat
      BY <2>1 DEF Typed
    <3> QED
      BY <3>2, <3>3, LoopAssumption
  <2>4. \A i \in 1..Width : call[i] \in Held
    BY <2>1 DEF Typed
  <2>5. \A i \in 1..Width :
          /\ call[i].at \in {"none", "queued", "saving", "waiting", "decided", "running", "done", "failed"}
          /\ call[i].said \in Verdicts \union {"nothing", "asked"}
          /\ \A c \in call[i].draft \union call[i].copy : c \in Call
    BY <2>4 DEF Held, Past
  <2>6. \A c \in pending \union saved.pending \union unheard : c \in Call /\ c.turn <= turn
    BY <2>1 DEF Typed, Store, Past
  <2>7. step \in 0..(MaxSteps - 1) /\ failures \in 0..(Attempts + MaxSteps)
    BY <2>1, LoopAssumption DEF Typed, Spent
  <2> QED
    BY <2>1, <2>2, <2>3, <2>5, <2>6, <2>7 DEF TypeOK, Typed, Places
<1> QED
  BY <1>1, Invariant, PTL

\* A tool that a policy asked about runs only after a plain yes to that very call; and where
\* calls are made in turn, one whose approver has been asked is among the pending ones, here
\* and in the checkpoint (result_for).
THEOREM GateHolds == Spec => []GateTrue
<1>1. ASSUME IInv PROVE GateTrue
  BY <1>1 DEF IInv, Rounds, InTurn, GateTrue, PendingKept
<1> QED
  BY <1>1, Invariant, PTL

\* Staged input is admitted once, after the run's own input, and a snapshot holds it either
\* as staged or as said (add_input, _begin_run, dump).
THEOREM StagedAdmittedOnce == Spec => []StagedOnce
<1>1. ASSUME IInv PROVE StagedOnce
  <2>1. Typed /\ Staged
    BY <1>1 DEF IInv
  <2>2. PICK b \in Nat : NumberedFrom(b, history, staged)
    BY <2>1 DEF Staged
  <2>3. DOMAIN history = 1..Len(history) /\ DOMAIN staged = 1..Len(staged) /\ Len(staged) \in Nat
    BY <2>1 DEF Typed
  <2>4. /\ \A j \in 1..Len(staged) : staged[j] = b + j
        /\ \A k \in 1..Len(history) : history[k].mark \in 0..b /\ (history[k].kind = "staged" <=> history[k].mark # 0)
        /\ \A k \in 1..Len(history) : history[k].kind = "staged" => k > 1 /\ history[k - 1].kind \in {"input", "staged"}
        /\ \A j, k \in 1..Len(history) : history[j].mark = history[k].mark /\ history[k].mark # 0 => j = k
    BY <2>2 DEF NumberedFrom
  <2>5. IsInjective(staged)
    BY <2>3, <2>4 DEF IsInjective
  <2>6. ASSUME NEW k \in DOMAIN history, history[k].kind = "staged", NEW j \in DOMAIN staged PROVE staged[j] # history[k].mark
    <3>1. history[k].mark <= b /\ staged[j] = b + j /\ j >= 1 /\ history[k].mark \in Nat /\ j \in Nat
      BY <2>3, <2>4, <2>6
    <3> QED
      BY <3>1
  <2>7. ASSUME NEW k \in DOMAIN history, history[k].kind = "staged", NEW j \in DOMAIN history,
               history[j].kind = "staged", history[j].mark = history[k].mark
        PROVE  j = k
    BY <2>3, <2>4, <2>7
  <2> QED
    BY <2>3, <2>4, <2>5, <2>6, <2>7 DEF StagedOnce
<1> QED
  BY <1>1, Invariant, PTL

\* Each step of a run asks a model once, and max_attempts more where the model malfunctions.
THEOREM AsksStayBounded == Spec => []AsksBounded
<1>1. ASSUME IInv PROVE AsksBounded
  <2>1. Spent /\ step \in Nat /\ asks \in Nat /\ Attempts \in Nat /\ pc \in Places
    BY <1>1, LoopAssumption DEF IInv, Typed
  <2> DEFINE m == step * (Attempts + 1)
  <2>2. (step + 1) * (Attempts + 1) = m + Attempts + 1 /\ m \in Nat
    BY <2>1, StepMore
  <2>3. pc # "idle" => asks <= m + Attempts + 1
    BY <2>1, <2>2 DEF Spent, Places
  <2>4. pc = "idle" => asks = 0
    BY <2>1 DEF Spent
  <2> QED
    BY <2>1, <2>2, <2>3, <2>4 DEF AsksBounded
<1> QED
  BY <1>1, Invariant, PTL

-----------------------------------------------------------------------------
(* Calls and their results, where the ids of calls differ between turns.     *)

\* In transcript h results stand right after the reply that asked for them, only the last
\* reply may be without, and no two replies ask for the same call.
Beside(h) ==
  /\ \A k \in 1..Len(h) : h[k].calls # {} => h[k].role \in {"assistant", "tool"}
  /\ \A k \in 1..Len(h) : h[k].role = "tool" =>
       k > 1 /\ h[k - 1].role = "assistant" /\ h[k - 1].calls = h[k].calls
  /\ \A k \in 1..Len(h) : h[k].role = "assistant" /\ h[k].calls # {} /\ k # Len(h) => h[k + 1].role = "tool"
  /\ \A j, k \in 1..Len(h) : h[j].role = "assistant" /\ h[k].role = "assistant" /\ j # k =>
       h[j].calls \cap h[k].calls = {}

\* What the last reply asks for, where nothing follows it.
LastCalls(h) == IF Len(h) > 0 /\ h[Len(h)].role = "assistant" THEN h[Len(h)].calls ELSE {}

\* A request finds no call open, and within a round the open ones are the round's.
Told ==
  /\ Beside(history) /\ Beside(saved.history)
  /\ pc \in {"top", "step", "model"} => LastCalls(history) = {}
  /\ pc \in {"reply", "tools", "told"} => LastCalls(history) = {Current(i) : i \in Asked}

\* The calls that are open are those of the last reply.
LEMMA OpenAreLast ==
  ASSUME FreshIds, NEW h \in Seq(Known), Beside(h)
  PROVE  Orphans(h) = LastCalls(h)
<1>1. DOMAIN h = 1..Len(h) /\ Len(h) \in Nat /\ \A k \in 1..Len(h) : h[k] \in Known
  OBVIOUS
<1>2. \A k \in 1..Len(h) : h[k].calls \subseteq Call
  BY <1>1 DEF Known, Past
<1>3. ASSUME NEW c \in Call, NEW d \in Call, Id(c) = Id(d) PROVE c = d
  BY <1>3 DEF Id, Call
<1>4. /\ \A k \in 1..Len(h) : h[k].role = "tool" => k > 1 /\ h[k - 1].role = "assistant" /\ h[k - 1].calls = h[k].calls
      /\ \A k \in 1..Len(h) : h[k].role = "assistant" /\ h[k].calls # {} /\ k # Len(h) => h[k + 1].role = "tool"
      /\ \A j, k \in 1..Len(h) : h[j].role = "assistant" /\ h[k].role = "assistant" /\ j # k => h[j].calls \cap h[k].calls = {}
  BY DEF Beside
<1> DEFINE answered == {Id(c) : c \in Spoken(h, "tool")}
           open == {c \in Spoken(h, "assistant") : Id(c) \notin answered}
<1>5. Spoken(h, "tool") \subseteq Call /\ Spoken(h, "assistant") \subseteq Call
  BY <1>1, <1>2 DEF Spoken
<1>6. Orphans(h) = {c \in open : \A d \in open : Id(d) = Id(c) => d.turn >= c.turn}
  BY DEF Orphans
<1>7. Orphans(h) = open
  <2>1. ASSUME NEW c \in open, NEW d \in open, Id(d) = Id(c) PROVE d.turn >= c.turn
    <3>1. c \in Call /\ d \in Call
      BY <1>5
    <3>2. d = c /\ c.turn \in Nat
      BY <1>3, <2>1, <3>1 DEF Call
    <3> QED
      BY <3>2
  <2> HIDE DEF open
  <2> QED
    BY <1>6, <2>1
<1>8. ASSUME NEW c \in open PROVE c \in LastCalls(h)
  <2>1. PICK k \in 1..Len(h) : h[k].role = "assistant" /\ c \in h[k].calls
    BY <1>1 DEF Spoken
  <2>2. CASE k = Len(h)
    BY <1>1, <2>1, <2>2 DEF LastCalls
  <2>3. CASE k # Len(h)
    <3>1. h[k + 1].role = "tool"
      BY <1>4, <2>1, <2>3
    <3>2. k + 1 \in 1..Len(h) /\ (k + 1) - 1 = k
      BY <1>1, <2>3
    <3>3. h[k + 1].calls = h[k].calls
      BY <1>4, <3>1, <3>2
    <3>4. c \in Spoken(h, "tool")
      BY <1>1, <2>1, <3>1, <3>2, <3>3 DEF Spoken
    <3> QED
      BY <3>4
  <2> QED
    BY <2>2, <2>3
<1>9. ASSUME NEW c \in LastCalls(h) PROVE c \in open
  <2>1. Len(h) \in 1..Len(h) /\ h[Len(h)].role = "assistant" /\ c \in h[Len(h)].calls
    BY <1>1 DEF LastCalls
  <2>2. c \in Spoken(h, "assistant") /\ c \in Call
    BY <1>1, <1>2, <2>1 DEF Spoken
  <2>3. ASSUME NEW d \in Spoken(h, "tool"), Id(c) = Id(d) PROVE FALSE
    <3>1. c = d
      BY <1>3, <1>5, <2>2, <2>3
    <3>2. PICK k \in 1..Len(h) : h[k].role = "tool" /\ c \in h[k].calls
      BY <1>1, <3>1 DEF Spoken
    <3>3. k > 1 /\ h[k - 1].role = "assistant" /\ h[k - 1].calls = h[k].calls
      BY <1>4, <3>2
    <3>4. k - 1 \in 1..Len(h) /\ k - 1 # Len(h)
      BY <1>1, <3>3
    <3>5. h[k - 1].calls \cap h[Len(h)].calls = {}
      BY <1>4, <2>1, <3>3, <3>4
    <3> QED
      BY <2>1, <3>2, <3>3, <3>5
  <2> QED
    BY <2>2, <2>3
<1> HIDE DEF open
<1> QED
  BY <1>7, <1>8, <1>9

\* A transcript that leaves no call open takes a message, or a reply that asks for new
\* calls; one that leaves some open takes their results.
LEMMA BesideAppend ==
  ASSUME NEW K, NEW h \in Seq(K), Beside(h), NEW e \in K,
         \/ LastCalls(h) = {} /\ e.role = "user" /\ e.calls = {}
         \/ LastCalls(h) = {} /\ e.role = "assistant"
            /\ \A k \in 1..Len(h) : h[k].role = "assistant" => h[k].calls \cap e.calls = {}
         \/ LastCalls(h) # {} /\ e.role = "tool" /\ e.calls = LastCalls(h)
  PROVE  Beside(Append(h, e)) /\ LastCalls(Append(h, e)) = IF e.role = "assistant" THEN e.calls ELSE {}
<1> DEFINE g == Append(h, e)
           l == Len(h)
<1>1. l \in Nat /\ Len(g) = l + 1 /\ g[l + 1] = e /\ \A k \in 1..l : g[k] = h[k]
  BY AppendTyped
<1>2. /\ \A k \in 1..l : h[k].calls # {} => h[k].role \in {"assistant", "tool"}
      /\ \A k \in 1..l : h[k].role = "tool" => k > 1 /\ h[k - 1].role = "assistant" /\ h[k - 1].calls = h[k].calls
      /\ \A k \in 1..l : h[k].role = "assistant" /\ h[k].calls # {} /\ k # l => h[k + 1].role = "tool"
      /\ \A j, k \in 1..l : h[j].role = "assistant" /\ h[k].role = "assistant" /\ j # k => h[j].calls \cap h[k].calls = {}
  BY DEF Beside
<1>3. LastCalls(h) = IF l > 0 /\ h[l].role = "assistant" THEN h[l].calls ELSE {}
  BY DEF LastCalls
<1> HIDE DEF g, l
<1>4. \A k \in 1..Len(g) : k = l + 1 \/ k \in 1..l
  BY <1>1
<1>5. e.role = "tool" => l > 0 /\ h[l].role = "assistant" /\ h[l].calls = e.calls
  BY <1>3
<1>6. l > 0 /\ h[l].role = "assistant" /\ h[l].calls # {} => e.role = "tool"
  BY <1>3
<1>7. ASSUME NEW k \in 1..Len(g), g[k].calls # {} PROVE g[k].role \in {"assistant", "tool"}
  <2>1. CASE k = l + 1
    BY <1>1, <1>7, <2>1
  <2>2. CASE k \in 1..l
    BY <1>1, <1>2, <1>7, <2>2
  <2> QED
    BY <1>4, <2>1, <2>2
<1>8. ASSUME NEW k \in 1..Len(g), g[k].role = "tool"
      PROVE  k > 1 /\ g[k - 1].role = "assistant" /\ g[k - 1].calls = g[k].calls
  <2>1. CASE k = l + 1
    <3>1. l > 0 /\ h[l].role = "assistant" /\ h[l].calls = g[k].calls
      BY <1>1, <1>5, <1>8, <2>1
    <3>2. k - 1 = l /\ g[l] = h[l] /\ k > 1
      BY <1>1, <2>1, <3>1
    <3> QED
      BY <3>1, <3>2
  <2>2. CASE k \in 1..l
    <3>1. g[k] = h[k]
      BY <1>1, <2>2
    <3>2. k > 1 /\ h[k - 1].role = "assistant" /\ h[k - 1].calls = h[k].calls
      BY <1>2, <1>8, <2>2, <3>1
    <3>3. k - 1 \in 1..l
      BY <1>1, <2>2, <3>2
    <3> QED
      BY <1>1, <3>1, <3>2, <3>3
  <2> QED
    BY <1>4, <2>1, <2>2
<1>9. ASSUME NEW k \in 1..Len(g), g[k].role = "assistant", g[k].calls # {}, k # Len(g) PROVE g[k + 1].role = "tool"
  <2>1. k \in 1..l /\ g[k] = h[k]
    BY <1>1, <1>4, <1>9
  <2>2. CASE k = l
    <3>1. e.role = "tool"
      BY <1>1, <1>6, <1>9, <2>1, <2>2
    <3> QED
      BY <1>1, <2>2, <3>1
  <2>3. CASE k # l
    <3>1. h[k + 1].role = "tool"
      BY <1>2, <1>9, <2>1, <2>3
    <3>2. k + 1 \in 1..l
      BY <1>1, <2>1, <2>3
    <3> QED
      BY <1>1, <3>1, <3>2
  <2> QED
    BY <2>2, <2>3
<1>10. ASSUME NEW j \in 1..Len(g), NEW k \in 1..Len(g), g[j].role = "assistant", g[k].role = "assistant", j # k
       PROVE  g[j].calls \cap g[k].calls = {}
  <2>1. \A i \in 1..l : e.role = "assistant" /\ h[i].role = "assistant" => h[i].calls \cap e.calls = {}
    BY DEF l
  <2>2. CASE j = l + 1
    <3>1. k \in 1..l /\ g[k] = h[k] /\ g[j] = e
      BY <1>1, <1>4, <1>10, <2>2
    <3>2. h[k].calls \cap e.calls = {}
      BY <1>10, <2>1, <3>1
    <3> QED
      BY <3>1, <3>2
  <2>3. CASE k = l + 1
    <3>1. j \in 1..l /\ g[j] = h[j] /\ g[k] = e
      BY <1>1, <1>4, <1>10, <2>3
    <3>2. h[j].calls \cap e.calls = {}
      BY <1>10, <2>1, <3>1
    <3> QED
      BY <3>1, <3>2
  <2>4. CASE j \in 1..l /\ k \in 1..l
    <3>1. g[j] = h[j] /\ g[k] = h[k]
      BY <1>1, <2>4
    <3> QED
      BY <1>2, <1>10, <2>4, <3>1
  <2> QED
    BY <1>4, <2>2, <2>3, <2>4
<1>11. Beside(g)
  BY <1>7, <1>8, <1>9, <1>10 DEF Beside
<1>12. LastCalls(g) = IF e.role = "assistant" THEN e.calls ELSE {}
  <2>1. Len(g) > 0 /\ g[Len(g)] = e
    BY <1>1
  <2> QED
    BY <2>1 DEF LastCalls
<1> QED
  BY <1>11, <1>12 DEF g

\* The repair closes what is open.
LEMMA RepairCloses ==
  ASSUME FreshIds, NEW h \in Seq(Known), Beside(h)
  PROVE  Beside(Repaired(h)) /\ LastCalls(Repaired(h)) = {}
<1>1. Orphans(h) = LastCalls(h)
  BY OpenAreLast
<1>2. CASE Orphans(h) = {}
  BY <1>1, <1>2 DEF Repaired
<1>3. CASE Orphans(h) # {}
  <2> DEFINE e == Results("repair", Orphans(h))
  <2>1. Repaired(h) = Append(h, e) /\ e.role = "tool" /\ e.calls = LastCalls(h) /\ LastCalls(h) # {}
    BY <1>1, <1>3 DEF Repaired, Results
  <2>2. e \in Known
    BY OrphansTyped DEF Results, Known
  <2> HIDE DEF e
  <2>3. e.role # "assistant"
    BY <2>1
  <2>4. Beside(Append(h, e)) /\ LastCalls(Append(h, e)) = IF e.role = "assistant" THEN e.calls ELSE {}
    BY <2>1, <2>2, BesideAppend
  <2> QED
    BY <2>1, <2>3, <2>4
<1> QED
  BY <1>2, <1>3

\* What a run begins with asks for nothing.
LEMMA AdmitCloses ==
  ASSUME NEW h \in Seq(Known), NEW s \in Seq(Nat), Beside(h), LastCalls(h) = {}
  PROVE  Beside(Admitted(h, s)) /\ LastCalls(Admitted(h, s)) = {}
<1> DEFINE e == Said("input", 0)
           f == Append(h, e)
           r == [k \in DOMAIN s |-> Said("staged", s[k])]
           g == Admitted(h, s)
           l == Len(h) + 1
           n == Len(s)
<1>1. e \in Known /\ e.role = "user" /\ e.calls = {}
  BY DEF Said, Known
<1> HIDE DEF e
<1>2. Beside(f)
  BY <1>1, BesideAppend
<1>3. f \in Seq(Known) /\ Len(f) = l /\ l \in Nat /\ l >= 1 /\ f[l] = e
  BY <1>1, AppendTyped
<1>4. r \in Seq(Known) /\ Len(r) = n /\ n \in Nat /\ DOMAIN s = 1..n
  BY AdmitTyped
<1>5. \A j \in 1..n : r[j].role = "user" /\ r[j].calls = {}
  BY <1>4 DEF Said
<1>6. g = f \o r
  BY DEF Admitted, e
<1>7. Len(g) = l + n /\ (\A k \in 1..l : g[k] = f[k]) /\ \A j \in 1..n : g[l + j] = r[j]
  BY <1>3, <1>4, <1>6, ConcatTyped
<1>8. /\ \A k \in 1..l : f[k].calls # {} => f[k].role \in {"assistant", "tool"}
      /\ \A k \in 1..l : f[k].role = "tool" => k > 1 /\ f[k - 1].role = "assistant" /\ f[k - 1].calls = f[k].calls
      /\ \A k \in 1..l : f[k].role = "assistant" /\ f[k].calls # {} /\ k # l => f[k + 1].role = "tool"
      /\ \A j, k \in 1..l : f[j].role = "assistant" /\ f[k].role = "assistant" /\ j # k => f[j].calls \cap f[k].calls = {}
  BY <1>2, <1>3 DEF Beside
<1> HIDE DEF f, r, g, l, n
<1>9. ASSUME NEW k \in 1..Len(g), k \notin 1..l \/ k = l PROVE g[k].role = "user" /\ g[k].calls = {}
  <2>1. CASE k = l
    BY <1>1, <1>3, <1>7, <2>1
  <2>2. CASE k \notin 1..l
    <3>1. k - l \in 1..n /\ l + (k - l) = k
      BY <1>3, <1>4, <1>7, <2>2
    <3> QED
      BY <1>5, <1>7, <3>1
  <2> QED
    BY <1>9, <2>1, <2>2
<1>10. ASSUME NEW k \in 1..Len(g), g[k].role # "user" \/ g[k].calls # {}
       PROVE  k \in 1..l /\ k # l /\ g[k] = f[k]
  <2>1. k \in 1..l /\ k # l
    BY <1>9, <1>10
  <2> QED
    BY <1>7, <2>1
<1>11. ASSUME NEW k \in 1..Len(g), g[k].calls # {} PROVE g[k].role \in {"assistant", "tool"}
  BY <1>8, <1>10, <1>11
<1>12. ASSUME NEW k \in 1..Len(g), g[k].role = "tool"
       PROVE  k > 1 /\ g[k - 1].role = "assistant" /\ g[k - 1].calls = g[k].calls
  <2>1. k \in 1..l /\ g[k] = f[k]
    BY <1>10, <1>12
  <2>2. k > 1 /\ f[k - 1].role = "assistant" /\ f[k - 1].calls = f[k].calls
    BY <1>8, <1>12, <2>1
  <2>3. k - 1 \in 1..l
    BY <1>3, <2>1, <2>2
  <2> QED
    BY <1>7, <2>1, <2>2, <2>3
<1>13. ASSUME NEW k \in 1..Len(g), g[k].role = "assistant", g[k].calls # {}, k # Len(g) PROVE g[k + 1].role = "tool"
  <2>1. k \in 1..l /\ k # l /\ g[k] = f[k]
    BY <1>10, <1>13
  <2>2. f[k + 1].role = "tool"
    BY <1>8, <1>13, <2>1
  <2>3. k + 1 \in 1..l
    BY <1>3, <2>1
  <2> QED
    BY <1>7, <2>2, <2>3
<1>14. ASSUME NEW j \in 1..Len(g), NEW k \in 1..Len(g), g[j].role = "assistant", g[k].role = "assistant", j # k
       PROVE  g[j].calls \cap g[k].calls = {}
  <2>1. j \in 1..l /\ g[j] = f[j] /\ k \in 1..l /\ g[k] = f[k]
    BY <1>10, <1>14
  <2> QED
    BY <1>8, <1>14, <2>1
<1>15. Beside(g)
  BY <1>11, <1>12, <1>13, <1>14 DEF Beside
<1>16. LastCalls(g) = {}
  <2>1. Len(g) \in 1..Len(g) /\ (Len(g) \notin 1..l \/ Len(g) = l)
    BY <1>3, <1>4, <1>7
  <2>2. g[Len(g)].role = "user"
    BY <1>9, <2>1
  <2> QED
    BY <2>2 DEF LastCalls
<1> QED
  BY <1>15, <1>16 DEF g

\* An entry joins the transcript, and the place of the run follows from it.
LEMMA ToldAppend ==
  ASSUME Typed, Told, NEW e, e \in Known', turn' \in {turn, turn + 1}, history' = Append(history, e), UNCHANGED saved,
         \/ LastCalls(history) = {} /\ e.role = "user" /\ e.calls = {}
         \/ LastCalls(history) = {} /\ e.role = "assistant"
            /\ \A k \in 1..Len(history) : history[k].role = "assistant" => history[k].calls \cap e.calls = {}
         \/ LastCalls(history) # {} /\ e.role = "tool" /\ e.calls = LastCalls(history)
  PROVE  Beside(history') /\ Beside(saved'.history) /\ LastCalls(history') = IF e.role = "assistant" THEN e.calls ELSE {}
<1>1. history \in Seq(Known) /\ turn \in Nat
  BY DEF Typed
<1> DEFINE K == Known'
<1>2. history \in Seq(K) /\ e \in K
  <2>1. CASE turn' = turn
    BY <1>1, <2>1, KnownStays
  <2>2. CASE turn' = turn + 1
    BY <1>1, <2>2, KnownGrows
  <2> QED
    BY <2>1, <2>2
<1> HIDE DEF K
<1>3. Beside(history) /\ Beside(saved.history)
  BY DEF Told
<1> QED
  BY <1>2, <1>3, BesideAppend

\* Calls stand beside their results, whatever the step.
LEMMA ToldNext ==
  ASSUME FreshIds, Typed, Spent, Rounds, Told, [Next]_vars
  PROVE  Told'
<1>0. history \in Seq(Known) /\ staged \in Seq(Nat) /\ turn \in Nat /\ pc \in Places
  BY DEF Typed
<1>1. Beside(history) /\ Beside(saved.history)
  BY DEF Told
<1>2. Beside(Repaired(history)) /\ LastCalls(Repaired(history)) = {} /\ Repaired(history) \in Seq(Known)
  BY <1>0, <1>1, RepairCloses, RepairTyped
<1>3. Beside(Admitted(Repaired(history), staged)) /\ LastCalls(Admitted(Repaired(history), staged)) = {}
  BY <1>0, <1>2, AdmitCloses
<1>4. ASSUME pc' = "idle", UNCHANGED <<history, saved>> PROVE Told'
  BY <1>1, <1>4 DEF Told
<1>5. ASSUME pc' \in {"top", "step", "model"}, LastCalls(history) = {}, UNCHANGED <<history, saved>> PROVE Told'
  BY <1>1, <1>5 DEF Told
<1>6. ASSUME UNCHANGED <<pc, history, call, turn>>, UNCHANGED saved \/ saved'.history = history PROVE Told'
  <2>1. {Current(i) : i \in Asked}' = {Current(i) : i \in Asked}
    BY <1>6 DEF Asked, Current
  <2>2. LastCalls(history)' = LastCalls(history)
    BY <1>6
  <2> QED
    BY <1>1, <1>6, <2>1, <2>2 DEF Told
<1>7. ASSUME Over PROVE Told'
  BY <1>4, <1>7 DEF Over
<1>8. ASSUME NEW asStream, BeginRun(asStream) PROVE Told'
  <2>1. pc' = "top" /\ history' = Admitted(Repaired(history), staged) /\ UNCHANGED saved
    BY <1>8 DEF BeginRun, Occupy
  <2> QED
    BY <1>1, <1>3, <2>1 DEF Told
<1>9. ASSUME NEW asStream, NEW at, BeginRaises(asStream, at) PROVE Told'
  <2>1. at \in {"thunk", "warning", "start"} /\ pc' = "idle" /\ UNCHANGED saved
    BY <1>9 DEF BeginRaises, Occupy
  <2>2. Beside(history')
    <3>1. CASE at = "thunk"
      BY <1>1, <1>9, <3>1 DEF BeginRaises
    <3>2. CASE at = "warning"
      BY <1>2, <1>9, <3>2 DEF BeginRaises
    <3>3. CASE at = "start"
      BY <1>3, <1>9, <3>3 DEF BeginRaises
    <3> QED
      BY <2>1, <3>1, <3>2, <3>3
  <2> QED
    BY <1>1, <2>1, <2>2 DEF Told
<1>10. CASE AddInput \/ ClearPendingInput \/ Stop \/ Dump \/ UNCHANGED vars
  BY <1>6, <1>10 DEF AddInput, ClearPendingInput, Stop, Dump, control, ghosts, vars
<1>11. CASE Abandon \/ ModelFails \/ RoundFails
  BY <1>7, <1>11 DEF Abandon, ModelFails, RoundFails
<1>12. CASE Restart
  BY <1>1, <1>12 DEF Restart, Told
<1>13. CASE StepTop
  BY <1>5, <1>7, <1>13 DEF StepTop, Goto, Told
<1>14. CASE AskModel
  BY <1>5, <1>7, <1>14 DEF AskModel, Goto, Told
<1>15. CASE ModelMalfunctions
  <2> DEFINE e == Said("guidance", 0)
  <2>1. e \in Known' /\ e.role = "user" /\ e.calls = {}
    BY DEF Said, Known
  <2>2. history' = Append(history, e) /\ turn' = turn /\ pc' = "top" /\ UNCHANGED saved /\ LastCalls(history) = {}
    BY <1>15 DEF ModelMalfunctions, Goto, Told
  <2> HIDE DEF e
  <2>3. Beside(history') /\ Beside(saved'.history) /\ LastCalls(history') = IF e.role = "assistant" THEN e.calls ELSE {}
    BY <2>1, <2>2, ToldAppend
  <2>4. LastCalls(history') = {}
    BY <2>1, <2>3
  <2> QED
    BY <2>2, <2>3, <2>4 DEF Told
<1>16. CASE ModelReplies
  <2>1. PICK n \in 0..Width : /\ history' = Append(history, Reply(Calls(turn + 1, n)))
                              /\ call' = [i \in 1..Width |-> IF i <= n THEN Queued ELSE NoCall]
    BY <1>16 DEF ModelReplies
  <2>2. turn' = turn + 1 /\ pc' = "reply" /\ UNCHANGED saved /\ LastCalls(history) = {}
    BY <1>16 DEF ModelReplies, Goto, Told
  <2> DEFINE cs == Calls(turn + 1, n)
             e == Reply(cs)
  <2>3. cs \in SUBSET Past'
    BY <1>0, <2>2, LoopAssumption DEF Calls, Past, Call
  <2>4. \A c \in cs : c.turn = turn + 1
    BY DEF Calls
  <2>5. cs = {Current(i) : i \in Asked}'
    <3>1. \A i \in 1..Width : call'[i].at # "none" <=> i <= n
      BY <2>1 DEF Queued, NoCall
    <3>2. Asked' = {i \in 1..Width : call'[i].at # "none"}
      BY DEF Asked
    <3>3. Asked' = 1..n
      BY <3>1, <3>2, LoopAssumption
    <3>4. \A i : Current(i)' = [turn |-> turn + 1, index |-> i]
      BY <2>2 DEF Current
    <3> QED
      BY <3>3, <3>4 DEF Calls
  <2> HIDE DEF cs
  <2>6. e \in Known' /\ e.role = "assistant" /\ e.calls = cs
    BY <2>3 DEF Reply, Known
  <2>7. ASSUME NEW k \in 1..Len(history) PROVE history[k].calls \cap e.calls = {}
    <3>1. history[k] \in Known
      BY <1>0
    <3>2. \A c \in history[k].calls : c.turn <= turn
      BY <3>1 DEF Known, Past
    <3>3. \A c \in history[k].calls : c.turn # turn + 1
      BY <1>0, <3>1, <3>2 DEF Known, Past, Call
    <3> QED
      BY <2>4, <2>6, <3>3
  <2>8. history' = Append(history, e)
    BY <2>1 DEF cs
  <2> HIDE DEF e
  <2>9. Beside(history') /\ Beside(saved'.history) /\ LastCalls(history') = IF e.role = "assistant" THEN e.calls ELSE {}
    BY <2>2, <2>6, <2>7, <2>8, ToldAppend
  <2>10. LastCalls(history') = cs
    BY <2>6, <2>9
  <2> QED
    BY <2>2, <2>5, <2>9, <2>10 DEF Told
<1>17. CASE ReplyChecked
  <2>1. CASE Goto("tools") /\ pc = "reply" /\ UNCHANGED <<history, saved, call, turn>>
    <3>1. {Current(i) : i \in Asked}' = {Current(i) : i \in Asked} /\ pc' = "tools"
      BY <2>1 DEF Asked, Current, Goto
    <3>2. LastCalls(history)' = LastCalls(history)
      BY <2>1
    <3> QED
      BY <1>1, <2>1, <3>1, <3>2 DEF Told
  <2> QED
    BY <1>7, <1>17, <2>1 DEF ReplyChecked, ghosts
<1>18. CASE RoundDone
  <2>1. pc = "tools" /\ pc' = "told" /\ UNCHANGED <<history, saved, call, turn>>
    BY <1>18 DEF RoundDone, Goto, ghosts
  <2>2. {Current(i) : i \in Asked}' = {Current(i) : i \in Asked}
    BY <2>1 DEF Asked, Current
  <2>3. LastCalls(history)' = LastCalls(history)
    BY <2>1
  <2> QED
    BY <1>1, <2>1, <2>2, <2>3 DEF Told
<1>19. CASE NextStep
  <2> DEFINE cs == {Current(i) : i \in Asked}
  <2>1. turn' = turn /\ UNCHANGED saved /\ LastCalls(history) = cs
    BY <1>19 DEF NextStep, ghosts, Told
  <2>2. CASE Asked = {}
    <3>1. pc' = "idle" /\ history' = history
      BY <1>19, <2>2 DEF NextStep
    <3> QED
      BY <1>4, <2>1, <3>1
  <2>3. CASE Asked # {}
    <3> DEFINE e == Results("results", cs)
    <3>1. pc' \in {"idle", "top"} /\ history' = Append(history, e)
      BY <1>19, <2>3 DEF NextStep
    <3>2. cs \in SUBSET Past' /\ cs # {}
      <4>1. cs \in SUBSET Past'
        BY <1>0, <2>1 DEF Asked, Current, Past, Call
      <4>2. cs # {}
        BY <2>3
      <4> QED
        BY <4>1, <4>2
    <3> HIDE DEF cs
    <3>3. e \in Known' /\ e.role = "tool" /\ e.calls = cs
      BY <3>2 DEF Results, Known
    <3> HIDE DEF e
    <3>4. Beside(history') /\ Beside(saved'.history) /\ LastCalls(history') = IF e.role = "assistant" THEN e.calls ELSE {}
      BY <2>1, <3>1, <3>2, <3>3, ToldAppend
    <3>5. LastCalls(history') = {}
      BY <3>3, <3>4
    <3> QED
      BY <3>1, <3>4, <3>5 DEF Told
  <2> QED
    BY <2>2, <2>3
<1>20. ASSUME NEW i \in 1..Width, Worker(i) PROVE Told'
  <2>1. UNCHANGED <<pc, history, turn>> /\ (UNCHANGED saved \/ saved'.history = history)
    <3>1. UNCHANGED <<pc, history, turn>>
      BY <1>20 DEF Worker, RunTool, Refuse, AwaitApproval, SaveCheckpoint, Resolve, Decide, Suspend, ToolReturns,
         CallRaises, CallGoes, control, ghosts
    <3>2. CASE SaveCheckpoint(i)
      BY <3>1, <3>2 DEF SaveCheckpoint
    <3>3. CASE ~SaveCheckpoint(i)
      <4>1. UNCHANGED saved
        BY <1>20, <3>3 DEF Worker, RunTool, Refuse, AwaitApproval, Resolve, Decide, Suspend, ToolReturns, CallRaises
      <4> QED
        BY <3>1, <4>1
    <3> QED
      BY <3>2, <3>3
  <2>2. Asked' = Asked
    <3>1. call \in [1..Width -> Held] /\ call[i].at # "none"
      BY <1>20 DEF Typed, Worker, RunTool, Refuse, AwaitApproval, SaveCheckpoint, Resolve, Decide, Suspend, ToolReturns,
         CallRaises, MayStart
    <3>2. PICK c : call' = [call EXCEPT ![i] = c] /\ c.at # "none"
      <4>1. ASSUME NEW place \in {"running", "waiting", "done", "failed"}, CallGoes(i, place)
            PROVE  \E c : call' = [call EXCEPT ![i] = c] /\ c.at # "none"
        <5> DEFINE word == IF place \in {"done", "failed"} THEN "nothing" ELSE call[i].said
                   c == [at |-> place, said |-> word, draft |-> {}, copy |-> {}]
        <5>1. call' = [call EXCEPT ![i] = c]
          BY <4>1 DEF CallGoes
        <5>2. c.at # "none"
          OBVIOUS
        <5> HIDE DEF c
        <5> QED
          BY <5>1, <5>2
      <4>2. CASE AwaitApproval(i) \/ \E verdict \in Verdicts : Decide(i, verdict)
        <5>1. call'[i].at # "none"
          <6>1. call[i] \in Held
            BY <3>1
          <6>2. CASE AwaitApproval(i)
            BY <3>1, <6>1, <6>2 DEF AwaitApproval, Held
          <6>3. ASSUME NEW verdict \in Verdicts, Decide(i, verdict) PROVE call'[i].at # "none"
            BY <3>1, <6>1, <6>3 DEF Decide, Held
          <6> QED
            BY <4>2, <6>2, <6>3
        <5>2. call' = [call EXCEPT ![i] = call'[i]]
          BY <3>1, <4>2 DEF AwaitApproval, Decide
        <5> QED
          BY <5>1, <5>2
      <4>3. CASE RunTool(i) \/ Refuse(i) \/ SaveCheckpoint(i) \/ Suspend(i) \/ ToolReturns(i) \/ CallRaises(i)
        BY <4>1, <4>3 DEF RunTool, Refuse, SaveCheckpoint, Suspend, ToolReturns, CallRaises
      <4>4. CASE Resolve(i)
        BY <4>1, <4>4 DEF Resolve
      <4> QED
        BY <1>20, <4>2, <4>3, <4>4 DEF Worker
    <3>3. \A j \in 1..Width : call'[j].at # "none" <=> call[j].at # "none"
      BY <3>1, <3>2
    <3> QED
      BY <3>3 DEF Asked
  <2>3. {Current(j) : j \in Asked}' = {Current(j) : j \in Asked}
    BY <2>1, <2>2 DEF Current
  <2>4. LastCalls(history)' = LastCalls(history)
    BY <2>1
  <2> QED
    BY <1>1, <2>1, <2>3, <2>4 DEF Told
<1> QED
  BY <1>8, <1>9, <1>10, <1>11, <1>12, <1>13, <1>14, <1>15, <1>16, <1>17, <1>18, <1>19, <1>20
     DEF Next, Caller, Progress, Run

\* A request sent to a model shows every tool call with its result right after it and no
\* result without its call, whatever ended the earlier runs: a guardrail, a hook, an
\* abandoned stream, a suspended approval, a crash.  Where ids recur between turns the
\* repair leaves out a call whose id an earlier result answers.
THEOREM CallsArePaired == ASSUME FreshIds PROVE Spec => []Paired
<1>1. Init => IInv /\ Told
  <2>1. Init => Told
    BY DEF Init, Told, Beside, Nothing
  <2> QED
    BY <2>1, InitIInv
<1>2. (IInv /\ Told) /\ [Next]_vars => (IInv /\ Told)'
  BY NextIInv, ToldNext DEF IInv
<1>3. ASSUME IInv, Told PROVE Paired
  <2>1. history \in Seq(Known)
    BY <1>3 DEF IInv, Typed
  <2>2. DOMAIN history = 1..Len(history) /\ Len(history) \in Nat
    BY <2>1
  <2>3. /\ \A k \in 1..Len(history) : history[k].calls # {} => history[k].role \in {"assistant", "tool"}
        /\ \A k \in 1..Len(history) : history[k].role = "tool" =>
             k > 1 /\ history[k - 1].role = "assistant" /\ history[k - 1].calls = history[k].calls
        /\ \A k \in 1..Len(history) : history[k].role = "assistant" /\ history[k].calls # {} /\ k # Len(history) =>
             history[k + 1].role = "tool"
    BY <1>3 DEF Told, Beside
  <2>4. ASSUME pc = "model", NEW k \in 1..Len(history), history[k].calls # {}, history[k].role = "assistant"
        PROVE  k + 1 \in 1..Len(history) /\ history[k + 1].role = "tool" /\ history[k + 1].calls = history[k].calls
    <3>1. LastCalls(history) = {}
      BY <1>3, <2>4 DEF Told
    <3>2. k # Len(history)
      <4>1. SUFFICES ASSUME k = Len(history) PROVE FALSE
        OBVIOUS
      <4>2. LastCalls(history) = history[k].calls
        BY <2>2, <2>4, <4>1 DEF LastCalls
      <4> QED
        BY <2>4, <3>1, <4>2
    <3>3. k + 1 \in 1..Len(history) /\ (k + 1) - 1 = k
      <4>1. \A n \in Nat : \A m \in 1..n : m # n => m + 1 \in 1..n /\ (m + 1) - 1 = m
        OBVIOUS
      <4>2. Len(history) \in Nat /\ k \in 1..Len(history)
        BY <2>2, <2>4
      <4> QED
        BY <3>2, <4>1, <4>2
    <3>4. history[k + 1].role = "tool"
      BY <2>3, <2>4, <3>2
    <3> QED
      BY <2>3, <3>3, <3>4
  <2>5. ASSUME pc = "model", NEW k \in 1..Len(history), history[k].calls # {}, history[k].role = "tool"
        PROVE  k - 1 \in 1..Len(history) /\ history[k - 1].role = "assistant" /\ history[k - 1].calls = history[k].calls
    <3>1. k > 1 /\ history[k - 1].role = "assistant" /\ history[k - 1].calls = history[k].calls
      BY <2>3, <2>5
    <3> QED
      BY <2>2, <3>1
  <2> QED
    BY <2>2, <2>3, <2>4, <2>5 DEF Paired
<1> QED
  BY <1>1, <1>2, <1>3, PTL DEF Spec

\* What a model is shown is whole, said once and asked for no oftener than the run may.
THEOREM TranscriptHolds == ASSUME FreshIds PROVE Spec => []TranscriptTrue
<1>1. Paired /\ StagedOnce /\ AsksBounded => TranscriptTrue
  BY DEF TranscriptTrue
<1> QED
  BY <1>1, CallsArePaired, StagedAdmittedOnce, AsksStayBounded, PTL
=============================================================================
