----------------------------- MODULE McpProofs -----------------------------
(***************************************************************************)
(* Theorems about the MCP client's transports (MCMcp), for any number of   *)
(* callers, threads, servers, calls and events: the state of each part     *)
(* keeps its type, and                                                     *)
(*   - over stdio, answers, ends and the server's own requests each reach  *)
(*     whom they are for, once (StdioTrue);                                *)
(*   - a stream that is resumed misses nothing (StreamTrue);               *)
(*   - tokens, refreshes and step-ups are right (OAuthTrue);               *)
(*   - a session's calls run at most once, on a wire that both ends speak  *)
(*     (SessionTrue), and which is kept (EraKept).                         *)
(* Each part has an inductive invariant, made of named parts, and one      *)
(* lemma for what each of its steps does to it.                            *)
(***************************************************************************)
EXTENDS MCMcp, TLAPS, WellFoundedInduction

-----------------------------------------------------------------------------
(* Stdio: answers, ends and entries.                                         *)
(*                                                                           *)
(* Correlated and Tracked hold because ids are never given twice, and an     *)
(* entry, a message on the way to the child and an answer on the way back    *)
(* all carry the id of the call they are about; the invariant says that.     *)

\* Every call that began has an id of its own.
Identified ==
    /\ \A b \in Bodies : pc[b] = "new" \/ id[b] \in 1 .. nextId
    /\ \A a, b \in Bodies : pc[a] # "new" /\ pc[b] # "new" /\ id[a] = id[b] => a = b

\* What is said about a call carries its id.
About(i, b) == b \in Bodies /\ pc[b] # "new" /\ i = id[b]
AboutNext(i, b) == b \in Bodies /\ pc'[b] # "new" /\ i = id'[b]
Addressed ==
    /\ \A e \in pending \cup longLived \cup toChild : About(e.id, e.call)
    /\ \A k \in 1 .. Len(toUs) : toUs[k].kind = "response" => About(toUs[k].id, toUs[k].body)

\* Nothing was heard by a call that did not begin.
Unheard ==
    /\ \A c \in Calls : pc[c] = "new" => cell[c] = Empty
    /\ \A s \in Streams : pc[s] = "new" => told[s] = <<>>

CallsRight == Identified /\ Addressed /\ Unheard /\ Correlated /\ Tracked /\ ToldOnce

\* The server's requests: each on its way or in hand only until it is answered.
Asked ==
    /\ \A k \in 1 .. Len(toUs) :
          /\ toUs[k].kind = "notice" => toUs[k].id = 0
          /\ toUs[k].kind = "ask" => /\ toUs[k].id \in 1 .. Len(own) /\ replies[toUs[k].id] = 0
                                     /\ toUs[k].id # reader.ask
    /\ \A j, k \in 1 .. Len(toUs) :
          toUs[j].kind = "ask" /\ toUs[k].kind = "ask" /\ toUs[j].id = toUs[k].id => j = k
    /\ reader.ask # 0 => /\ reader.at = "handling" /\ reader.ask \in 1 .. Len(own)
                         /\ replies[reader.ask] = 0
    /\ Len(own) <= Chatter
    /\ \A n \in 1 .. Chatter : n > Len(own) => replies[n] = 0

-----------------------------------------------------------------------------
\* What Tail leaves.
LEMMA TailElements ==
    ASSUME NEW S, NEW q \in Seq(S), q # <<>>
    PROVE  /\ Tail(q) \in Seq(S) /\ Len(q) \in Nat \ {0} /\ Len(Tail(q)) = Len(q) - 1
           /\ Head(q) = q[1] /\ q[1] \in S
           /\ \A i \in 1 .. Len(q) - 1 : Tail(q)[i] = q[i + 1]
OBVIOUS

\* What Append adds.
LEMMA AppendElements ==
    ASSUME NEW S, NEW q \in Seq(S), NEW x \in S
    PROVE  /\ Append(q, x) \in Seq(S) /\ Len(q) \in Nat /\ Len(Append(q, x)) = Len(q) + 1
           /\ Append(q, x)[Len(q) + 1] = x
           /\ \A i \in 1 .. Len(q) : Append(q, x)[i] = q[i]
OBVIOUS

\* A line of the child.
Line0 == [kind : {"response", "notice", "ask", "blob"}, id : Nat, body : Bodies]

\* _fail_all keeps types; so does the whole of PipeClosed.
LEMMA FailAllTyped ==
    ASSUME TypeOK, NEW S \in SUBSET longLived, FailAll(S)
    PROVE  /\ pending' = {} /\ longLived' = {} /\ nextId' = nextId /\ id' = id
           /\ cell' \in [Calls -> {Empty, Lost} \cup Bodies]
           /\ told' \in [Streams -> Seq({Lost} \cup Bodies)]
<1>1. \A s \in Streams : told[s] \in Seq({Lost} \cup Bodies) /\ Append(told[s], Lost) \in Seq({Lost} \cup Bodies)
    BY DEF TypeOK
<1>2. told' = [s \in Streams |-> IF \E e \in S : e.call = s THEN Append(told[s], Lost) ELSE told[s]]
    BY DEF FailAll, Tell
<1>3. told' \in [Streams -> Seq({Lost} \cup Bodies)]
    BY <1>1, <1>2
<1> QED
    BY <1>3 DEF FailAll, Woken, TypeOK

\* What _fail_all leaves when the pipe is closed is typed.
LEMMA PipeClosedTyped ==
    ASSUME TypeOK, PipeClosed
    PROVE  /\ pending' \subseteq [id : Nat, call : Calls] /\ longLived' \subseteq [id : Nat, call : Streams]
           /\ nextId' = nextId /\ id' = id
           /\ cell' \in [Calls -> {Empty, Lost} \cup Bodies]
           /\ told' \in [Streams -> Seq({Lost} \cup Bodies)]
           /\ reader' = Gone("ended")
<1>1. CASE closed
    BY <1>1 DEF PipeClosed, TypeOK, table
<1>2. CASE ~closed
    <2>1. PICK S \in SUBSET longLived : FailAll(S)
        BY <1>2 DEF PipeClosed, Tellable
    <2> QED
        BY <2>1, FailAllTyped DEF PipeClosed, TypeOK
<1> QED
    BY <1>1, <1>2

\* Every step keeps the types.
LEMMA TypeOKNext ==
    ASSUME TypeOK, Asked, [Next]_vars
    PROVE  TypeOK'
<1>0. /\ Calls \subseteq Bodies /\ Streams \subseteq Bodies /\ Nested \in Calls
      /\ {"lost", "failed", "timedout", "answered"} \subseteq Done
    BY DEF Bodies, Calls, Done
<1>z. /\ Reading \in [at : {"reading", "handling", "overflow", "ended", "died"}, ask : 0 .. Chatter]
      /\ Gone("ended") \in [at : {"reading", "handling", "overflow", "ended", "died"}, ask : 0 .. Chatter]
      /\ Gone("died") \in [at : {"reading", "handling", "overflow", "ended", "died"}, ask : 0 .. Chatter]
      /\ [at |-> "overflow", ask |-> 0] \in [at : {"reading", "handling", "overflow", "ended", "died"}, ask : 0 .. Chatter]
    BY TransportAssumption DEF Reading, Gone
<1>a. toUs # <<>> => /\ Tail(toUs) \in Seq(Line0) /\ Head(toUs) = toUs[1] /\ toUs[1] \in Line0
                     /\ 1 \in 1 .. Len(toUs)
    <2>1. toUs \in Seq(Line0)
        BY DEF TypeOK, Line0
    <2> QED
        BY <2>1, TailElements
<1>1. ASSUME NEW c \in Calls, Register(c) PROVE TypeOK'
    <2>1. nextId' \in Nat /\ id' \in [Bodies -> Nat] /\ id'[c] \in Nat
        BY <1>0, <1>1 DEF Register, AllocateId, TypeOK
    <2>2. pending' \subseteq [id : Nat, call : Calls]
        BY <1>1, <2>1 DEF Register, Entered, TypeOK
    <2>3. pc' \in [Bodies -> {"new", "registered", "waiting", "open"} \cup Done]
        BY <1>0, <1>1 DEF Register, TypeOK
    <2> QED
        BY <1>1, <2>1, <2>2, <2>3 DEF Register, TypeOK, env
<1>2. ASSUME NEW c \in Calls, Wake(c) PROVE TypeOK'
    <2>1. pc' \in [Bodies -> {"new", "registered", "waiting", "open"} \cup Done]
        BY <1>0, <1>2 DEF Wake, TypeOK
    <2> QED
        BY <1>2, <2>1 DEF Wake, TypeOK, env, table
<1>3. ASSUME NEW c \in Calls, TimeOut(c) PROVE TypeOK'
    <2>1. pc' \in [Bodies -> {"new", "registered", "waiting", "open"} \cup Done]
        BY <1>0, <1>3 DEF TimeOut, TypeOK
    <2>2. pending' \subseteq pending /\ longLived' \subseteq longLived
        BY <1>3 DEF TimeOut, Unregister
    <2> QED
        BY <1>3, <2>1, <2>2 DEF TimeOut, TypeOK, env
<1>4. ASSUME NEW s \in Streams, Open(s) PROVE TypeOK'
    <2>1. nextId' \in Nat /\ id' \in [Bodies -> Nat] /\ id'[s] \in Nat
        BY <1>0, <1>4 DEF Open, AllocateId, TypeOK
    <2>2. longLived' \subseteq [id : Nat, call : Streams]
        BY <1>4, <2>1 DEF Open, Entered, TypeOK
    <2>3. pc' \in [Bodies -> {"new", "registered", "waiting", "open"} \cup Done]
        BY <1>0, <1>4 DEF Open, TypeOK
    <2> QED
        BY <1>4, <2>1, <2>2, <2>3 DEF Open, TypeOK, env
<1>5. ASSUME NEW b \in Bodies, Send(b) PROVE TypeOK'
    <2>1. pc' \in [Bodies -> {"new", "registered", "waiting", "open"} \cup Done]
        BY <1>0, <1>5 DEF Send, TypeOK
    <2>2. pending' \subseteq pending /\ longLived' \subseteq longLived
        BY <1>5 DEF Send, Unregister
    <2>3. toChild' \subseteq [id : Nat, call : Bodies]
        BY <1>5 DEF Send, Entry, TypeOK
    <2> QED
        BY <1>5, <2>1, <2>2, <2>3 DEF Send, TypeOK
<1>6. CASE RouteResponse
    <2>1. toUs # <<>> /\ toUs' = Tail(toUs) /\ Head(toUs).body \in Bodies
        BY <1>6, <1>a DEF RouteResponse, Line, Line0
    <2>2. cell' \in [Calls -> {Empty, Lost} \cup Bodies]
        BY <1>6, <2>1 DEF RouteResponse, TypeOK
    <2>3. \A s \in Streams : /\ told[s] \in Seq({Lost} \cup Bodies)
                             /\ Append(told[s], Head(toUs).body) \in Seq({Lost} \cup Bodies)
        BY <2>1 DEF TypeOK
    <2>4. told' \in [Streams -> Seq({Lost} \cup Bodies)]
        BY <1>6, <2>3 DEF RouteResponse, Tell, TypeOK
    <2>5. pending' \subseteq pending /\ longLived' \subseteq longLived
        BY <1>6 DEF RouteResponse
    <2> QED
        BY <1>6, <1>a, <2>1, <2>2, <2>4, <2>5 DEF RouteResponse, TypeOK, env, Line0
<1>7. CASE RouteToHandler
    <2>1. toUs # <<>> /\ toUs' = Tail(toUs) /\ toUs[1].kind \in {"notice", "ask"}
        BY <1>7, <1>a DEF RouteToHandler, Line
    <2>2. Head(toUs).id \in 0 .. Chatter
        <3>1. toUs[1].id = 0 \/ toUs[1].id \in 1 .. Len(own)
            BY <1>a, <2>1 DEF Asked
        <3> QED
            BY <1>a, <2>1, <3>1, TransportAssumption DEF Asked, TypeOK
    <2> QED
        BY <1>7, <1>a, <2>1, <2>2 DEF RouteToHandler, TypeOK, env, table, Line0
<1>8. ASSUME NEW how \in HandlerDoes \ {"request"}, NoticeHandled(how) PROVE TypeOK'
    <2>1. CASE PipeClosed
        BY <1>8, <1>z, <2>1, PipeClosedTyped DEF NoticeHandled, TypeOK, env
    <2>2. CASE reader' \in {Reading, Gone("died")} /\ UNCHANGED <<table, cell, told>>
        BY <1>8, <1>z, <2>2 DEF NoticeHandled, TypeOK, env, table
    <2>3. how \in {"return", "raise", "value"} => PipeClosed \/ (reader' \in {Reading, Gone("died")} /\ UNCHANGED <<table, cell, told>>)
        BY <1>8 DEF NoticeHandled
    <2> QED
        BY <2>1, <2>2, <2>3, TransportAssumption
<1>9. ASSUME NEW how, Reply(how) PROVE TypeOK'
    <2>1. reader.ask \in 1 .. Chatter
        BY <1>9, TransportAssumption DEF Reply, Asked, TypeOK
    <2>2. replies' \in [1 .. Chatter -> Nat]
        <3>1. replies \in [1 .. Chatter -> Nat] /\ replies[reader.ask] + 1 \in Nat
            BY <2>1 DEF TypeOK
        <3>2. replies' \in {replies, [replies EXCEPT ![reader.ask] = @ + 1]}
            BY <1>9 DEF Reply
        <3> QED
            BY <3>1, <3>2
    <2> QED
        BY <1>9, <1>z, <2>2 DEF Reply, TypeOK, env, table
<1>10. CASE Overflow
    <2>1. toUs # <<>> /\ toUs' = Tail(toUs) /\ FailAll(longLived)
        BY <1>10 DEF Overflow, Line
    <2> QED
        BY <1>10, <1>a, <1>z, <2>1, FailAllTyped DEF Overflow, TypeOK, env, Line0
<1>11. CASE ReadEof
    BY <1>11, <1>z, PipeClosedTyped DEF ReadEof, TypeOK, env
<1>12. ASSUME NEW t \in {"closer", "reader"}, CloseBegin(t) PROVE TypeOK'
    <2>1. PICK S \in SUBSET longLived :
             FailAll(S) /\ closing' = [closing EXCEPT ![t] = IF S = longLived THEN "begun" ELSE "done"]
        BY <1>12 DEF CloseBegin, Tellable
    <2>2. closing' \in [{"closer", "reader"} -> {"no", "begun", "done"}]
        BY <2>1 DEF TypeOK
    <2> QED
        BY <1>12, <2>1, <2>2, FailAllTyped DEF CloseBegin, TypeOK, env
<1>13. ASSUME NEW t \in {"closer", "reader"}, CloseEnd(t) PROVE TypeOK'
    BY <1>13, <1>z DEF CloseEnd, TypeOK, env, table
<1>14. ASSUME NEW m \in toChild, ChildAnswers(m) PROVE TypeOK'
    <2>1. [kind |-> "response", id |-> m.id, body |-> m.call] \in Line0
        BY DEF TypeOK, Line0
    <2>2. toUs' \in Seq(Line0)
        BY <1>14, <2>1 DEF ChildAnswers, Emitted, TypeOK, Line0
    <2> QED
        BY <1>14, <2>2 DEF ChildAnswers, TypeOK, table, Line0
<1>15. ASSUME NEW what \in Kinds, ChildSends(what) PROVE TypeOK'
    <2>1. [kind |-> what, id |-> IF what = "ask" THEN Len(own) + 1 ELSE 0, body |-> Nested] \in Line0
        BY <1>0, TransportAssumption DEF TypeOK, Line0
    <2>2. toUs' \in Seq(Line0)
        BY <1>15, <2>1 DEF ChildSends, Emitted, TypeOK, Line0
    <2>3. own' \in Seq(Kinds)
        BY <1>15 DEF ChildSends, TypeOK
    <2> QED
        BY <1>15, <2>2, <2>3 DEF ChildSends, TypeOK, table, Line0
<1>16. CASE ChildExits
    BY <1>16 DEF ChildExits, TypeOK, table
<1>17. CASE UNCHANGED vars
    BY <1>17 DEF vars, TypeOK, table, env
<1> QED
    BY <1>1, <1>2, <1>3, <1>4, <1>5, <1>6, <1>7, <1>8, <1>9, <1>10, <1>11, <1>12, <1>13, <1>14,
       <1>15, <1>16, <1>17 DEF Next, CallNext, ReaderNext, CloseNext, ChildNext, TypeOK

-----------------------------------------------------------------------------
(* Answers, ends and entries.                                                *)

\* A new id is not that of any entry.
LEMMA NewEntry ==
    ASSUME TypeOK, CallsRight, NEW b \in Bodies, pc[b] = "new", AllocateId(b)
    PROVE  /\ id'[b] = nextId + 1 /\ \A a \in Bodies \ {b} : id'[a] = id[a]
           /\ \A a \in Bodies : pc[a] # "new" => a # b /\ id'[a] \in 1 .. nextId /\ id'[a] # id'[b]
           /\ Entered(pending, b) = pending \cup {[id |-> id'[b], call |-> b]}
           /\ Entered(longLived, b) = longLived \cup {[id |-> id'[b], call |-> b]}
<1>1. id'[b] = nextId + 1 /\ \A a \in Bodies \ {b} : id'[a] = id[a]
    BY DEF AllocateId, TypeOK
<1>2. \A a \in Bodies : pc[a] # "new" => a # b /\ id'[a] \in 1 .. nextId /\ id'[a] # id'[b]
    BY <1>1 DEF CallsRight, Identified, TypeOK
<1>3. \A e \in pending \cup longLived : e.id # id'[b]
    BY <1>1, <1>2 DEF CallsRight, Addressed, About, Identified, TypeOK
<1>4. Keyed(pending, id'[b]) = {} /\ Keyed(longLived, id'[b]) = {}
    BY <1>3 DEF Keyed
<1> QED
    BY <1>1, <1>2, <1>4 DEF Entered

\* The entries with the id of a call are the call's.
LEMMA KeyedIs ==
    ASSUME TypeOK, CallsRight, NEW b \in Bodies, pc[b] # "new"
    PROVE  /\ \A e \in pending : e \in Keyed(pending, id[b]) <=> e = Entry(b)
           /\ \A e \in longLived : e \in Keyed(longLived, id[b]) <=> e = Entry(b)
<1>1. \A e \in pending \cup longLived : e.id = id[b] <=> e.call = b
    BY DEF CallsRight, Addressed, About, Identified
<1>2. \A e \in pending \cup longLived : e = [id |-> e.id, call |-> e.call]
    BY DEF TypeOK
<1> QED
    BY <1>1, <1>2 DEF Keyed, Entry

\* An entry is what it says of its call.
LEMMA EntriesAre ==
    ASSUME TypeOK, CallsRight
    PROVE  \A e \in pending \cup longLived : e = Entry(e.call)
<1>1. \A e \in pending \cup longLived : e = [id |-> e.id, call |-> e.call]
    BY DEF TypeOK
<1> QED
    BY <1>1 DEF CallsRight, Addressed, About, Entry

\* What is not said anew stays addressed.
LEMMA AddressedKept ==
    ASSUME Addressed,
           \A b \in Bodies : pc[b] # "new" => pc'[b] # "new" /\ id'[b] = id[b],
           \A e \in pending' \cup longLived' \cup toChild' :
              e \in pending \cup longLived \cup toChild \/ AboutNext(e.id, e.call),
           \A k \in 1 .. Len(toUs') : toUs'[k].kind = "response" =>
              \/ \E j \in 1 .. Len(toUs) : toUs[j] = toUs'[k]
              \/ AboutNext(toUs'[k].id, toUs'[k].body)
    PROVE  Addressed'
<1>1. \A i, b : About(i, b) => AboutNext(i, b)
    BY DEF About, AboutNext
<1>2. \A e \in pending' \cup longLived' \cup toChild' : AboutNext(e.id, e.call)
    BY <1>1 DEF Addressed
<1>3. \A k \in 1 .. Len(toUs') : toUs'[k].kind = "response" => AboutNext(toUs'[k].id, toUs'[k].body)
    BY <1>1 DEF Addressed
<1> QED
    BY <1>2, <1>3 DEF Addressed, About, AboutNext

\* _fail_all wakes every call that may be woken, and tells streams once.
LEMMA FailAllRight ==
    ASSUME TypeOK, CallsRight, NEW S \in SUBSET longLived, FailAll(S), pc' = pc, toChild' = toChild,
           \A k \in 1 .. Len(toUs') : toUs'[k].kind = "response" => \E j \in 1 .. Len(toUs) : toUs[j] = toUs'[k]
    PROVE  CallsRight'
<1>0. /\ Calls \subseteq Bodies /\ Streams \subseteq Bodies /\ Empty # Lost /\ Lost \notin Bodies /\ Empty \notin Bodies
    BY TransportAssumption DEF Bodies, Calls, Nested, Empty, Lost
<1>1. pending' = {} /\ longLived' = {} /\ nextId' = nextId /\ id' = id
    BY DEF FailAll
<1>2. \A c \in Calls : cell'[c] = IF \E e \in pending : e.call = c THEN Lost ELSE cell[c]
    BY DEF FailAll, Woken
<1>3. \A s \in Streams : told'[s] = IF \E e \in S : e.call = s THEN Append(told[s], Lost) ELSE told[s]
    BY DEF FailAll, Tell
<1>4. ASSUME NEW s \in Streams, NEW e \in S, e.call = s PROVE told[s] = <<>> /\ told'[s] = <<Lost>>
    <2>1. Entry(s) \in longLived
        BY <1>4, EntriesAre
    <2>2. told[s] = <<>>
        BY <2>1 DEF CallsRight, Tracked
    <2>3. Append(<<>>, Lost) = <<Lost>>
        OBVIOUS
    <2> QED
        BY <1>3, <1>4, <2>2, <2>3
<1>b. \A s \in Streams : told'[s] = told[s] \/ told'[s] = <<Lost>>
    BY <1>3, <1>4
<1>5. Identified'
    BY <1>1 DEF CallsRight, Identified
<1>6. Addressed'
    BY <1>1, AddressedKept DEF CallsRight
<1>7. Unheard'
    <2>1. \A e \in pending \cup S : pc[e.call] # "new"
        BY DEF CallsRight, Addressed, About
    <2> QED
        BY <1>0, <1>2, <1>3, <2>1 DEF CallsRight, Unheard
<1>8. Correlated'
    <2>1. \A c \in Calls : cell'[c] \in Bodies => cell'[c] = c
        BY <1>0, <1>2 DEF CallsRight, Correlated
    <2>2. \A s \in Streams : \A n \in 1 .. Len(told'[s]) : told'[s][n] \in {s, Lost}
        <3>1. SUFFICES ASSUME NEW s \in Streams, NEW n \in 1 .. Len(told'[s]) PROVE told'[s][n] \in {s, Lost}
            OBVIOUS
        <3>2. CASE told'[s] = told[s]
            BY <3>2 DEF CallsRight, Correlated
        <3>3. CASE told'[s] = <<Lost>>
            BY <3>3
        <3> QED
            BY <1>b, <3>2, <3>3
    <2> QED
        BY <2>1, <2>2 DEF Correlated
<1>9. Tracked'
    <2>1. \A c \in Calls : Awaits(c) => \E e \in pending : e.call = c
        BY DEF CallsRight, Tracked, Entry
    <2>2. \A c \in Calls : ~Awaits(c)'
        BY <1>0, <1>2, <2>1 DEF Awaits
    <2> QED
        BY <1>1, <2>2 DEF Tracked
<1>10. ToldOnce'
    <2>1. Len(<<Lost>>) = 1
        OBVIOUS
    <2> QED
        <3>1. ASSUME NEW s \in Streams PROVE Len(told'[s]) <= 1
            <4>1. CASE told'[s] = told[s]
                BY <4>1 DEF CallsRight, ToldOnce
            <4>2. CASE told'[s] = <<Lost>>
                BY <2>1, <4>2
            <4> QED
                BY <1>b, <4>1, <4>2
        <3> QED
            BY <3>1 DEF ToldOnce
<1> QED
    BY <1>5, <1>6, <1>7, <1>8, <1>9, <1>10 DEF CallsRight

\* Nothing about the calls changes.
LEMMA CallsUnchanged ==
    ASSUME TypeOK, CallsRight, UNCHANGED <<table, pc, cell, told>>,
           \A m \in toChild' : m \in toChild \/ About(m.id, m.call),
           \A k \in 1 .. Len(toUs') : toUs'[k].kind = "response" =>
              \/ \E j \in 1 .. Len(toUs) : toUs[j] = toUs'[k]
              \/ About(toUs'[k].id, toUs'[k].body)
    PROVE  CallsRight'
<1>1. UNCHANGED <<nextId, id, pending, longLived, pc, cell, told>>
    BY DEF table
<1>2. \A i, b : About(i, b) <=> AboutNext(i, b)
    BY <1>1 DEF About, AboutNext
<1>3. Addressed'
    BY <1>1, <1>2, AddressedKept DEF CallsRight
<1>4. Identified' /\ Unheard' /\ Correlated' /\ ToldOnce'
    BY <1>1 DEF CallsRight, Identified, Unheard, Correlated, ToldOnce
<1>5. Tracked'
    BY <1>1 DEF CallsRight, Tracked, Awaits, Entry
<1> QED
    BY <1>3, <1>4, <1>5 DEF CallsRight

\* It leaves every answer with its own call.
LEMMA PipeClosedRight ==
    ASSUME TypeOK, CallsRight, PipeClosed, pc' = pc, toChild' = toChild, toUs' = toUs
    PROVE  CallsRight'
<1>1. CASE closed
    BY <1>1, CallsUnchanged DEF PipeClosed
<1>2. CASE ~closed
    <2>1. PICK S \in SUBSET longLived : FailAll(S)
        BY <1>2 DEF PipeClosed, Tellable
    <2> QED
        BY <2>1, FailAllRight
<1> QED
    BY <1>1, <1>2

\* A call that began is not new again.
LEMMA BegunKept ==
    ASSUME CallsRight, UNCHANGED <<nextId, id, cell, told>>,
           \A b \in Bodies : pc'[b] = "new" <=> pc[b] = "new"
    PROVE  Identified' /\ Unheard' /\ Correlated' /\ ToldOnce'
<1>0. Calls \subseteq Bodies /\ Streams \subseteq Bodies
    BY DEF Bodies, Calls
<1>1. Identified'
    BY DEF CallsRight, Identified
<1>2. Unheard'
    BY <1>0 DEF CallsRight, Unheard
<1> QED
    BY <1>1, <1>2 DEF CallsRight, Correlated, ToldOnce

\* request() and send_long_lived_request() enter the call.
LEMMA BeginRight ==
    ASSUME TypeOK, CallsRight, NEW b \in Bodies, pc[b] = "new", AllocateId(b),
           pc' = [pc EXCEPT ![b] = "registered"], UNCHANGED <<cell, told, toChild, toUs>>,
           \/ b \in Calls /\ pending' = Entered(pending, b) /\ longLived' = longLived
           \/ b \in Streams /\ longLived' = Entered(longLived, b) /\ pending' = pending
    PROVE  CallsRight'
<1>0. Calls \subseteq Bodies /\ Streams \subseteq Bodies /\ Calls \cap Streams = {}
    BY TransportAssumption DEF Bodies, Calls
<1>1. /\ id'[b] = nextId + 1 /\ nextId' = nextId + 1 /\ \A a \in Bodies \ {b} : id'[a] = id[a]
      /\ \A a \in Bodies : pc[a] # "new" => a # b /\ id'[a] \in 1 .. nextId /\ id'[a] # id'[b]
    BY NewEntry DEF AllocateId
<1>2. pc'[b] = "registered" /\ \A a \in Bodies \ {b} : pc'[a] = pc[a]
    BY DEF TypeOK
<1>3. Identified'
    <2>1. \A a \in Bodies : pc'[a] = "new" \/ id'[a] \in 1 .. nextId'
        BY <1>1, <1>2 DEF TypeOK
    <2>2. ASSUME NEW a \in Bodies, NEW d \in Bodies, pc'[a] # "new", pc'[d] # "new", id'[a] = id'[d]
          PROVE  a = d
        <3>1. (a # b => pc[a] # "new") /\ (d # b => pc[d] # "new")
            BY <1>2, <2>2
        <3> QED
            BY <1>1, <2>2, <3>1 DEF CallsRight, Identified
    <2> QED
        BY <2>1, <2>2 DEF Identified
<1>4. \A e \in pending' \cup longLived' : e \in pending \cup longLived \/ e = [id |-> id'[b], call |-> b]
    BY NewEntry
<1>5. Addressed'
    <2>1. \A e \in pending' \cup longLived' \cup toChild' :
             e \in pending \cup longLived \cup toChild \/ AboutNext(e.id, e.call)
        BY <1>2, <1>4 DEF AboutNext
    <2>2. \A a \in Bodies : pc[a] # "new" => pc'[a] # "new" /\ id'[a] = id[a]
        BY <1>1, <1>2
    <2> QED
        BY <2>1, <2>2, AddressedKept DEF CallsRight
<1>6. Unheard' /\ Correlated' /\ ToldOnce'
    BY <1>0, <1>2 DEF CallsRight, Unheard, Correlated, ToldOnce
<1>7. \A a \in Bodies \ {b} : /\ Entry(a)' = Entry(a) /\ Entry(a) # [id |-> id'[b], call |-> b]
    BY <1>1 DEF Entry
<1>8. Tracked'
    <2>1. ASSUME NEW c \in Calls PROVE Awaits(c)' <=> (Entry(c)' \in pending')
        <3>1. CASE c # b
            <4>1. Entry(c) \in pending' <=> Entry(c) \in pending
                BY <1>0, <1>7, <3>1, NewEntry
            <4> QED
                BY <1>0, <1>2, <1>7, <3>1, <4>1 DEF CallsRight, Tracked, Awaits
        <3>2. CASE c = b
            <4>1. cell[c] = Empty
                BY <3>2 DEF CallsRight, Unheard
            <4>2. Entry(c)' \in pending'
                BY <1>0, <3>2, NewEntry DEF Entry
            <4> QED
                BY <1>2, <3>2, <4>1, <4>2 DEF Awaits
        <3> QED
            BY <3>1, <3>2
    <2>2. ASSUME NEW s \in Streams, Entry(s)' \in longLived'
          PROVE  pc'[s] \in {"registered", "open"} /\ told'[s] = <<>>
        <3>1. CASE s # b
            <4>1. Entry(s) \in longLived
                BY <1>0, <1>7, <2>2, <3>1, NewEntry
            <4> QED
                BY <1>0, <1>2, <3>1, <4>1 DEF CallsRight, Tracked
        <3>2. CASE s = b
            BY <1>2, <3>2 DEF CallsRight, Unheard
        <3> QED
            BY <3>1, <3>2
    <2> QED
        BY <2>1, <2>2 DEF Tracked
<1> QED
    BY <1>3, <1>5, <1>6, <1>8 DEF CallsRight

\* Taking an entry back takes that of the call, and no other.
LEMMA Dropped ==
    ASSUME TypeOK, CallsRight, NEW b \in Bodies, pc[b] # "new", Unregister(b)
    PROVE  /\ pending' \subseteq pending /\ longLived' \subseteq longLived
           /\ Entry(b) \notin pending' \cup longLived'
           /\ \A a \in Bodies \ {b} : /\ Entry(a) \in pending' <=> Entry(a) \in pending
                                      /\ Entry(a) \in longLived' <=> Entry(a) \in longLived
<1>1. \A a \in Bodies \ {b} : Entry(a) # Entry(b)
    BY DEF Entry
<1>2. pending' = pending \ Keyed(pending, id[b]) /\ longLived' = longLived \ Keyed(longLived, id[b])
    BY DEF Unregister
<1> QED
    BY <1>1, <1>2, KeyedIs

\* A call that is given up, its entry with it.
LEMMA GiveUpRight ==
    ASSUME TypeOK, CallsRight, NEW b \in Bodies, pc[b] # "new", Unregister(b),
           NEW how \in Done, pc' = [pc EXCEPT ![b] = how],
           UNCHANGED <<nextId, id, cell, told, toChild, toUs>>
    PROVE  CallsRight'
<1>0. /\ Calls \subseteq Bodies /\ Streams \subseteq Bodies
      /\ how \notin {"new", "registered", "waiting", "open"}
    BY DEF Bodies, Calls, Done
<1>1. pc'[b] = how /\ \A a \in Bodies \ {b} : pc'[a] = pc[a]
    BY DEF TypeOK
<1>2. Identified' /\ Unheard' /\ Correlated' /\ ToldOnce'
    BY <1>0, <1>1, BegunKept
<1>3. Addressed'
    BY <1>0, <1>1, Dropped, AddressedKept DEF CallsRight
<1>4. \A a \in Bodies : Entry(a)' = Entry(a)
    BY DEF Entry
<1>5. ASSUME NEW c \in Calls PROVE Awaits(c)' <=> (Entry(c)' \in pending')
    <2>1. CASE c = b
        BY <1>0, <1>1, <1>4, <2>1, Dropped DEF Awaits
    <2>2. CASE c # b
        <3>1. Entry(c) \in pending' <=> Entry(c) \in pending
            BY <1>0, <2>2, Dropped
        <3> QED
            BY <1>0, <1>1, <1>4, <2>2, <3>1 DEF CallsRight, Tracked, Awaits
    <2> QED
        BY <2>1, <2>2
<1>6. ASSUME NEW s \in Streams, Entry(s)' \in longLived'
      PROVE  pc'[s] \in {"registered", "open"} /\ told'[s] = <<>>
    <2>1. s # b /\ Entry(s) \in longLived
        BY <1>0, <1>4, <1>6, Dropped
    <2> QED
        BY <1>0, <1>1, <2>1 DEF CallsRight, Tracked
<1>7. Tracked'
    BY <1>5, <1>6 DEF Tracked
<1> QED
    BY <1>2, <1>3, <1>7 DEF CallsRight

\* A response reaches the call it is the answer of; a stream that is dropped is told.
LEMMA RouteResponseRight ==
    ASSUME TypeOK, CallsRight, RouteResponse
    PROVE  /\ CallsRight'
           /\ \A s \in Streams : \/ told'[s] = told[s] /\ (Entry(s) \in longLived' <=> Entry(s) \in longLived)
                                \/ told'[s] # <<>>
<1> DEFINE b == Head(toUs).body
           K(entries) == Keyed(entries, Head(toUs).id)
<1>0. /\ Calls \subseteq Bodies /\ Streams \subseteq Bodies /\ Empty \notin Bodies /\ Calls \cap Streams = {}
    BY TransportAssumption DEF Bodies, Calls, Empty, Nested, Lost
<1>1. /\ toUs # <<>> /\ toUs' = Tail(toUs) /\ Head(toUs) = toUs[1] /\ 1 \in 1 .. Len(toUs)
      /\ toUs[1].kind = "response" /\ \A k \in 1 .. Len(toUs') : \E j \in 1 .. Len(toUs) : toUs[j] = toUs'[k]
    <2>1. toUs \in Seq(Line0)
        BY DEF TypeOK, Line0
    <2>2. toUs # <<>> /\ toUs' = Tail(toUs) /\ Head(toUs).kind = "response"
        BY DEF RouteResponse, Line
    <2>3. \A k \in 1 .. Len(toUs) - 1 : k + 1 \in 1 .. Len(toUs) /\ toUs[k + 1] = Tail(toUs)[k]
        BY <2>1, <2>2, TailElements
    <2> QED
        BY <2>1, <2>2, <2>3, TailElements
<1>2. b \in Bodies /\ pc[b] # "new" /\ Head(toUs).id = id[b]
    BY <1>1 DEF CallsRight, Addressed, About
<1>3. /\ \A e \in pending : e \in K(pending) <=> e = Entry(b)
      /\ \A e \in longLived : e \in K(longLived) <=> e = Entry(b)
    BY <1>2, KeyedIs
<1>4. /\ pending' = pending \ K(pending) /\ UNCHANGED <<nextId, id, pc, toChild>>
      /\ \A c \in Calls : cell'[c] = IF Entry(c) \in K(pending) THEN b ELSE cell[c]
    BY DEF RouteResponse, env
<1>5. \/ longLived' = longLived /\ told' = told
      \/ /\ longLived' = longLived \ K(longLived)
         /\ \A s \in Streams : told'[s] = IF \E e \in K(longLived) : e.call = s THEN Append(told[s], b) ELSE told[s]
    BY DEF RouteResponse, Tell
<1>6. b = Head(toUs).body /\ K(pending) \subseteq pending /\ K(longLived) \subseteq longLived
    BY DEF Keyed
<1> HIDE DEF b, K
<1>7. \A a \in Bodies : Entry(a) = Entry(b) => a = b
    BY DEF Entry
<1>8. \A c \in Calls : Entry(c) \in K(pending) => c = b
    BY <1>0, <1>3, <1>6, <1>7
<1>9. ASSUME NEW s \in Streams
      PROVE  \/ told'[s] = told[s] /\ (Entry(s) \in longLived' <=> Entry(s) \in longLived)
             \/ s = b /\ told'[s] = <<s>> /\ Entry(s) \notin longLived'
    <2>1. CASE longLived' = longLived /\ told' = told
        BY <2>1
    <2>2. CASE \E e \in K(longLived) : e.call = s /\ longLived' = longLived \ K(longLived) /\ told'[s] = Append(told[s], b)
        <3>1. Entry(b) \in K(longLived) /\ s = b
            BY <1>3, <1>6, <2>2 DEF Entry
        <3>2. told[s] = <<>>
            BY <1>6, <3>1 DEF CallsRight, Tracked
        <3>3. Append(<<>>, s) = <<s>>
            OBVIOUS
        <3> QED
            BY <2>2, <3>1, <3>2, <3>3
    <2>3. CASE /\ told'[s] = told[s] /\ longLived' = longLived \ K(longLived)
               /\ ~(\E e \in K(longLived) : e.call = s)
        <3>1. Entry(s) \notin K(longLived)
            BY <2>3 DEF Entry
        <3> QED
            BY <2>3, <3>1
    <2> QED
        BY <1>5, <2>1, <2>2, <2>3
<1>10. Identified'
    BY <1>4 DEF CallsRight, Identified
<1>11. Addressed'
    <2>1. longLived' \subseteq longLived
        BY <1>5
    <2> QED
        BY <1>1, <1>4, <2>1, AddressedKept DEF CallsRight
<1>12. Unheard'
    BY <1>2, <1>4, <1>8, <1>9 DEF CallsRight, Unheard
<1>13. Correlated'
    <2>1. \A c \in Calls : cell'[c] \in Bodies => cell'[c] = c
        BY <1>4, <1>8 DEF CallsRight, Correlated
    <2>2. ASSUME NEW s \in Streams, NEW n \in 1 .. Len(told'[s]) PROVE told'[s][n] \in {s, Lost}
        <3>1. CASE told'[s] = told[s]
            BY <3>1 DEF CallsRight, Correlated
        <3>2. CASE told'[s] = <<s>>
            BY <3>2
        <3> QED
            BY <1>9, <3>1, <3>2
    <2> QED
        BY <2>1, <2>2 DEF Correlated
<1>14. Tracked'
    <2>0. \A a \in Bodies : Entry(a)' = Entry(a)
        BY <1>4 DEF Entry
    <2>1. ASSUME NEW c \in Calls PROVE Awaits(c)' <=> (Entry(c)' \in pending')
        <3>1. CASE Entry(c) \in K(pending)
            BY <1>0, <1>2, <1>4, <2>0, <3>1 DEF Awaits
        <3>2. CASE Entry(c) \notin K(pending)
            <4>1. Entry(c) \in pending' <=> Entry(c) \in pending
                BY <1>4, <3>2
            <4>2. Awaits(c)' <=> Awaits(c)
                BY <1>4, <3>2 DEF Awaits
            <4> QED
                BY <1>0, <2>0, <4>1, <4>2 DEF CallsRight, Tracked
        <3> QED
            BY <3>1, <3>2
    <2>2. ASSUME NEW s \in Streams, Entry(s)' \in longLived'
          PROVE  pc'[s] \in {"registered", "open"} /\ told'[s] = <<>>
        <3>1. Entry(s) \in longLived /\ told'[s] = told[s]
            BY <1>0, <1>9, <2>0, <2>2
        <3> QED
            BY <1>4, <3>1 DEF CallsRight, Tracked
    <2> QED
        BY <2>1, <2>2 DEF Tracked
<1>15. ToldOnce'
    <2>1. ASSUME NEW s \in Streams PROVE Len(told'[s]) <= 1
        <3>1. CASE told'[s] = told[s]
            BY <3>1 DEF CallsRight, ToldOnce
        <3>2. CASE told'[s] = <<s>>
            <4>1. Len(<<s>>) = 1
                OBVIOUS
            <4> QED
                BY <3>2, <4>1
        <3> QED
            BY <1>9, <3>1, <3>2
    <2> QED
        BY <2>1 DEF ToldOnce
<1>16. \A s \in Streams : <<s>> # <<>>
    OBVIOUS
<1> QED
    BY <1>9, <1>10, <1>11, <1>12, <1>13, <1>14, <1>15, <1>16 DEF CallsRight

\* Answers and ends reach their own calls, in every step.
LEMMA CallsNext ==
    ASSUME TypeOK, CallsRight, [Next]_vars
    PROVE  CallsRight'
<1>0. /\ Calls \subseteq Bodies /\ Streams \subseteq Bodies /\ Calls \cap Streams = {}
      /\ Done \cap {"new", "registered", "waiting", "open"} = {}
      /\ {"failed", "timedout", "lost", "answered"} \subseteq Done
    BY TransportAssumption DEF Bodies, Calls, Done
<1>a. toUs \in Seq(Line0)
    BY DEF TypeOK, Line0
<1>b. toUs # <<>> /\ toUs' = Tail(toUs) => \A k \in 1 .. Len(toUs') : \E j \in 1 .. Len(toUs) : toUs[j] = toUs'[k]
    <2>1. toUs # <<>> => \A k \in 1 .. Len(toUs) - 1 : k + 1 \in 1 .. Len(toUs) /\ toUs[k + 1] = Tail(toUs)[k]
        BY <1>a, TailElements
    <2> QED
        BY <1>a, <2>1, TailElements
<1>c. toUs' = toUs => \A k \in 1 .. Len(toUs') : \E j \in 1 .. Len(toUs) : toUs[j] = toUs'[k]
    OBVIOUS
<1>1. ASSUME NEW c \in Calls, Register(c) PROVE CallsRight'
    BY <1>0, <1>1, BeginRight DEF Register, env
<1>2. ASSUME NEW s \in Streams, Open(s) PROVE CallsRight'
    BY <1>0, <1>2, BeginRight DEF Open, env
<1>3. ASSUME NEW c \in Calls, Wake(c) PROVE CallsRight'
    <2>1. /\ UNCHANGED <<nextId, id, pending, longLived, cell, told, toChild, toUs>>
          /\ pc[c] = "waiting" /\ cell[c] # Empty /\ pc'[c] \in Done /\ \A a \in Bodies \ {c} : pc'[a] = pc[a]
        BY <1>0, <1>3 DEF Wake, table, env, TypeOK
    <2>2. Identified' /\ Unheard' /\ Correlated' /\ ToldOnce'
        BY <1>0, <2>1, BegunKept
    <2>3. Addressed'
        BY <1>0, <2>1, AddressedKept DEF CallsRight
    <2>4. \A a \in Calls : Awaits(a)' <=> Awaits(a)
        BY <1>0, <2>1 DEF Awaits
    <2>5. Tracked'
        BY <1>0, <2>1, <2>4 DEF CallsRight, Tracked, Entry
    <2> QED
        BY <2>2, <2>3, <2>5 DEF CallsRight
<1>4. ASSUME NEW c \in Calls, TimeOut(c) PROVE CallsRight'
    <2>1. pc[c] # "new" /\ "timedout" \in Done
        BY <1>0, <1>4 DEF TimeOut
    <2> QED
        BY <1>0, <1>4, <2>1, GiveUpRight DEF TimeOut, env
<1>5. ASSUME NEW b \in Bodies, Send(b), ~WriteWorks PROVE CallsRight'
    <2>1. /\ pc[b] # "new" /\ pc' = [pc EXCEPT ![b] = "failed"] /\ Unregister(b)
          /\ UNCHANGED <<nextId, id, cell, told, toChild, toUs>>
        BY <1>5 DEF Send
    <2> QED
        BY <1>0, <2>1, GiveUpRight
<1>6. ASSUME NEW b \in Bodies, Send(b), WriteWorks PROVE CallsRight'
    <2>1. /\ UNCHANGED <<nextId, id, pending, longLived, cell, told, toUs>>
          /\ pc[b] = "registered" /\ \A a \in Bodies \ {b} : pc'[a] = pc[a]
          /\ pc'[b] = IF b \in Streams THEN "open" ELSE "waiting"
          /\ toChild' = toChild \cup {Entry(b)}
        BY <1>6 DEF Send, TypeOK
    <2>2. Identified' /\ Unheard' /\ Correlated' /\ ToldOnce'
        BY <2>1, BegunKept
    <2>3. Addressed'
        <3>1. AboutNext(Entry(b).id, Entry(b).call)
            BY <2>1 DEF AboutNext, Entry
        <3>2. \A e \in pending' \cup longLived' \cup toChild' :
                 e \in pending \cup longLived \cup toChild \/ AboutNext(e.id, e.call)
            BY <2>1, <3>1
        <3>3. \A a \in Bodies : pc[a] # "new" => pc'[a] # "new" /\ id'[a] = id[a]
            BY <2>1
        <3> QED
            BY <2>1, <3>2, <3>3, AddressedKept DEF CallsRight
    <2>4. \A a \in Calls : Awaits(a)' <=> Awaits(a)
        BY <1>0, <2>1 DEF Awaits
    <2>5. \A s \in Streams : pc[s] \in {"registered", "open"} => pc'[s] \in {"registered", "open"}
        BY <1>0, <2>1
    <2>6. Tracked'
        BY <1>0, <2>1, <2>4, <2>5 DEF CallsRight, Tracked, Entry
    <2> QED
        BY <2>2, <2>3, <2>6 DEF CallsRight
<1>7. CASE RouteResponse
    BY <1>7, RouteResponseRight
<1>8. CASE RouteToHandler
    <2>1. toUs # <<>> /\ toUs' = Tail(toUs) /\ UNCHANGED <<table, pc, cell, told, toChild>>
        BY <1>8 DEF RouteToHandler, Line, env
    <2> QED
        BY <1>b, <2>1, CallsUnchanged
<1>9. ASSUME NEW how \in HandlerDoes \ {"request"}, NoticeHandled(how) PROVE CallsRight'
    <2>1. UNCHANGED <<pc, toChild, toUs>>
        BY <1>9 DEF NoticeHandled, env
    <2>2. CASE PipeClosed
        BY <2>1, <2>2, PipeClosedRight
    <2>3. CASE UNCHANGED <<table, cell, told>>
        BY <1>c, <2>1, <2>3, CallsUnchanged
    <2>4. how \in {"return", "raise", "value"} => PipeClosed \/ UNCHANGED <<table, cell, told>>
        BY <1>9 DEF NoticeHandled
    <2> QED
        BY <2>2, <2>3, <2>4, TransportAssumption
<1>10. ASSUME NEW how, Reply(how) PROVE CallsRight'
    <2>1. UNCHANGED <<table, pc, cell, told, toChild, toUs>>
        BY <1>10 DEF Reply, env
    <2> QED
        BY <1>c, <2>1, CallsUnchanged
<1>11. CASE Overflow
    <2>1. toUs # <<>> /\ toUs' = Tail(toUs) /\ FailAll(longLived) /\ pc' = pc /\ toChild' = toChild
        BY <1>11 DEF Overflow, Line, env
    <2> QED
        BY <1>b, <2>1, FailAllRight
<1>12. CASE ReadEof
    BY <1>12, PipeClosedRight DEF ReadEof, env
<1>13. ASSUME NEW t, CloseBegin(t) PROVE CallsRight'
    <2>1. PICK S \in SUBSET longLived : FailAll(S) /\ UNCHANGED <<pc, toChild, toUs>>
        BY <1>13 DEF CloseBegin, Tellable, env
    <2> QED
        BY <1>c, <2>1, FailAllRight
<1>14. ASSUME NEW t, CloseEnd(t) PROVE CallsRight'
    <2>1. UNCHANGED <<table, pc, cell, told, toChild, toUs>>
        BY <1>14 DEF CloseEnd, env
    <2> QED
        BY <1>c, <2>1, CallsUnchanged
<1>15. ASSUME NEW m \in toChild, ChildAnswers(m) PROVE CallsRight'
    <2>1. UNCHANGED <<table, pc, cell, told>> /\ toChild' \subseteq toChild /\ About(m.id, m.call)
        BY <1>15 DEF ChildAnswers, CallsRight, Addressed
    <2>2. PICK line \in Line0 : line = [kind |-> "response", id |-> m.id, body |-> m.call]
        BY DEF TypeOK, Line0
    <2>3. toUs' = Append(toUs, line) /\ About(line.id, line.body)
        BY <1>15, <2>1, <2>2 DEF ChildAnswers, Emitted
    <2>4. \A k \in 1 .. Len(toUs') : (k \in 1 .. Len(toUs) /\ toUs'[k] = toUs[k]) \/ toUs'[k] = line
        BY <1>a, <2>3, AppendElements
    <2> QED
        BY <2>1, <2>3, <2>4, CallsUnchanged
<1>16. ASSUME NEW what \in Kinds, ChildSends(what) PROVE CallsRight'
    <2>1. UNCHANGED <<table, pc, cell, told>> /\ toChild' = toChild
        BY <1>16 DEF ChildSends
    <2>2. PICK line \in Line0 : line = [kind |-> what, id |-> IF what = "ask" THEN Len(own) + 1 ELSE 0, body |-> Nested]
        <3>1. Len(own) + 1 \in Nat /\ what \in {"notice", "ask", "blob"} /\ Nested \in Bodies
            BY TransportAssumption DEF TypeOK, Bodies, Calls
        <3> DEFINE line == [kind |-> what, id |-> IF what = "ask" THEN Len(own) + 1 ELSE 0, body |-> Nested]
        <3>2. line \in Line0
            BY <3>1 DEF Line0
        <3> QED
            BY <3>2
    <2>3. toUs' = Append(toUs, line) /\ line.kind # "response"
        BY <1>16, <2>2, TransportAssumption DEF ChildSends, Emitted
    <2>4. \A k \in 1 .. Len(toUs') : (k \in 1 .. Len(toUs) /\ toUs'[k] = toUs[k]) \/ toUs'[k] = line
        BY <1>a, <2>3, AppendElements
    <2> QED
        BY <2>1, <2>3, <2>4, CallsUnchanged
<1>17. CASE ChildExits
    <2>1. UNCHANGED <<table, pc, cell, told, toChild, toUs>>
        BY <1>17 DEF ChildExits
    <2> QED
        BY <1>c, <2>1, CallsUnchanged
<1>18. CASE UNCHANGED vars
    <2>1. UNCHANGED <<table, pc, cell, told, toChild, toUs>>
        BY <1>18 DEF vars, env
    <2> QED
        BY <1>c, <2>1, CallsUnchanged
<1> QED
    BY <1>1, <1>2, <1>3, <1>4, <1>5, <1>6, <1>7, <1>8, <1>9, <1>10, <1>11, <1>12, <1>13, <1>14,
       <1>15, <1>16, <1>17, <1>18 DEF Next, CallNext, ReaderNext, CloseNext, ChildNext

-----------------------------------------------------------------------------
(* The server's own requests.                                                *)

\* Nothing is asked or answered, and the reader is done with what it had in hand.
LEMMA AsksKept ==
    ASSUME TypeOK, Asked, ServerAnswered, own' = own, replies' = replies,
           \/ toUs' = toUs
           \/ toUs # <<>> /\ toUs' = Tail(toUs) /\ (Head(toUs).kind # "ask" \/ reader'.ask = Head(toUs).id),
           \/ reader' = reader
           \/ reader'.ask = 0 /\ reader'.at \notin {"reading", "handling"}
           \/ reader.ask = 0 /\ reader.at \in {"reading", "handling"} /\ reader'.ask = 0
           \/ /\ toUs # <<>> /\ toUs' = Tail(toUs) /\ Head(toUs).kind = "ask" /\ reader.at = "reading"
              /\ reader' = [at |-> "handling", ask |-> Head(toUs).id]
    PROVE  Asked' /\ ServerAnswered'
<1>a. toUs \in Seq(Line0) /\ Len(toUs) \in Nat
    BY DEF TypeOK, Line0
<1>1. CASE toUs' = toUs /\ reader' = reader
    BY <1>1 DEF Asked, ServerAnswered
<1>b. toUs # <<>> => /\ Len(Tail(toUs)) = Len(toUs) - 1 /\ Head(toUs) = toUs[1] /\ 1 \in 1 .. Len(toUs)
                     /\ \A k \in 1 .. Len(toUs) - 1 : k + 1 \in 1 .. Len(toUs) /\ Tail(toUs)[k] = toUs[k + 1]
    BY <1>a, TailElements
<1>2. Asked'
    <2>1. CASE toUs' = toUs
        BY <2>1 DEF Asked
    <2>2. CASE toUs # <<>> /\ toUs' = Tail(toUs)
        <3>1. \A k \in 1 .. Len(toUs') : k \in 1 .. Len(toUs) - 1 /\ toUs'[k] = toUs[k + 1] /\ k + 1 \in 1 .. Len(toUs) /\ k + 1 # 1
            BY <1>a, <1>b, <2>2
        <3>2. ASSUME NEW k \in 1 .. Len(toUs')
              PROVE  /\ toUs'[k].kind = "notice" => toUs'[k].id = 0
                     /\ toUs'[k].kind = "ask" => /\ toUs'[k].id \in 1 .. Len(own) /\ replies[toUs'[k].id] = 0
                                                 /\ toUs'[k].id # reader'.ask
            <4>1. toUs'[k].kind = "notice" => toUs'[k].id = 0
                BY <3>1 DEF Asked
            <4>2. ASSUME toUs'[k].kind = "ask"
                  PROVE  toUs'[k].id \in 1 .. Len(own) /\ replies[toUs'[k].id] = 0 /\ toUs'[k].id # reader.ask
                BY <3>1, <4>2 DEF Asked
            <4>3. ASSUME toUs'[k].kind = "ask" PROVE toUs'[k].id # reader'.ask
                <5>1. CASE reader' = reader
                    BY <4>2, <4>3, <5>1
                <5>2. CASE reader'.ask = 0
                    <6>1. Len(own) \in Nat
                        BY DEF TypeOK
                    <6> QED
                        BY <4>2, <4>3, <5>2, <6>1
                <5>3. CASE Head(toUs).kind = "ask" /\ reader'.ask = Head(toUs).id
                    <6>1. toUs[k + 1].kind = "ask" /\ toUs[1].kind = "ask" /\ k + 1 # 1
                        BY <1>b, <2>2, <3>1, <4>3, <5>3
                    <6>2. toUs[k + 1].id # toUs[1].id
                        BY <1>b, <2>2, <3>1, <6>1 DEF Asked
                    <6> QED
                        BY <1>b, <2>2, <3>1, <5>3, <6>2
                <5> QED
                    BY <5>1, <5>2, <5>3
            <4> QED
                BY <4>1, <4>2, <4>3
        <3>3. ASSUME NEW j \in 1 .. Len(toUs'), NEW k \in 1 .. Len(toUs'),
                     toUs'[j].kind = "ask", toUs'[k].kind = "ask", toUs'[j].id = toUs'[k].id
              PROVE  j = k
            <4>1. j + 1 = k + 1
                BY <3>1, <3>3 DEF Asked
            <4> QED
                BY <4>1
        <3>4. reader'.ask # 0 => /\ reader'.at = "handling" /\ reader'.ask \in 1 .. Len(own) /\ replies[reader'.ask] = 0
            BY <1>b, <2>2 DEF Asked
        <3> QED
            BY <3>2, <3>3, <3>4 DEF Asked
    <2> QED
        BY <2>1, <2>2
<1>3. ASSUME NEW n \in 1 .. Len(own), own[n] = "ask"
      PROVE  \/ replies[n] = 1
             \/ replies[n] = 0
                /\ \/ reader'.at \notin {"reading", "handling"}
                   \/ reader'.ask = n
                   \/ \E k \in 1 .. Len(toUs') : toUs'[k].kind = "ask" /\ toUs'[k].id = n
    <2>0. /\ n # 0
          /\ \/ replies[n] = 1
             \/ replies[n] = 0
                /\ \/ reader.at \notin {"reading", "handling"}
                   \/ reader.ask = n
                   \/ \E k \in 1 .. Len(toUs) : toUs[k].kind = "ask" /\ toUs[k].id = n
        BY <1>3 DEF ServerAnswered
    <2>1. CASE \E k \in 1 .. Len(toUs) : toUs[k].kind = "ask" /\ toUs[k].id = n
        <3>1. PICK k \in 1 .. Len(toUs) : toUs[k].kind = "ask" /\ toUs[k].id = n
            BY <2>1
        <3>2. CASE toUs' = toUs
            BY <2>0, <3>1, <3>2
        <3>3. CASE toUs # <<>> /\ toUs' = Tail(toUs) /\ k = 1
            BY <1>b, <2>0, <3>1, <3>3
        <3>4. CASE toUs # <<>> /\ toUs' = Tail(toUs) /\ k # 1
            <4>1. k - 1 \in 1 .. Len(toUs) - 1 /\ (k - 1) + 1 = k
                BY <1>a, <3>4
            <4>2. k - 1 \in 1 .. Len(toUs') /\ toUs'[k - 1] = toUs[k]
                BY <1>b, <3>4, <4>1
            <4> QED
                BY <2>0, <3>1, <4>2
        <3> QED
            BY <3>2, <3>3, <3>4
    <2>2. CASE reader' = reader /\ ~(\E k \in 1 .. Len(toUs) : toUs[k].kind = "ask" /\ toUs[k].id = n)
        BY <2>0, <2>2
    <2>3. CASE reader'.at \notin {"reading", "handling"}
        BY <2>0, <2>3
    <2>4. CASE reader.ask = 0 /\ reader.at \in {"reading", "handling"}
        BY <2>0, <2>1, <2>4
    <2> QED
        BY <2>1, <2>2, <2>3, <2>4 DEF Asked
<1>4. ServerAnswered'
    BY <1>3 DEF ServerAnswered
<1> QED
    BY <1>2, <1>4

\* A handler is done with a request: it is answered, or the reader is gone.
LEMMA ReplyAsks ==
    ASSUME TypeOK, Asked, ServerAnswered, NEW how, Reply(how)
    PROVE  Asked' /\ ServerAnswered'
<1>1. /\ own' = own /\ toUs' = toUs /\ reader.ask # 0 /\ reader.ask \in 1 .. Len(own) /\ replies[reader.ask] = 0
      /\ Len(own) \in Nat /\ Len(own) <= Chatter /\ replies \in [1 .. Chatter -> Nat]
    <2>1. own \in Seq(Kinds) /\ replies \in [1 .. Chatter -> Nat]
        BY DEF TypeOK
    <2>2. Len(own) \in Nat
        BY <2>1
    <2> QED
        BY <2>1, <2>2 DEF Reply, Asked, env
<1>2. CASE reader' = Gone("died") /\ replies' = replies
    BY <1>1, <1>2, AsksKept DEF Gone
<1>3. CASE reader' = Reading /\ replies' = [replies EXCEPT ![reader.ask] = @ + 1]
    <2>1. /\ reader'.ask = 0 /\ replies'[reader.ask] = 1
          /\ \A n \in 1 .. Chatter : n # reader.ask => replies'[n] = replies[n]
        BY <1>1, <1>3, TransportAssumption DEF Reading
    <2>2. Asked'
        <3>1. ASSUME NEW k \in 1 .. Len(toUs), toUs[k].kind = "ask"
              PROVE  toUs[k].id \in 1 .. Len(own) /\ replies'[toUs[k].id] = 0 /\ toUs[k].id # 0
            <4>1. toUs[k].id \in 1 .. Len(own) /\ replies[toUs[k].id] = 0 /\ toUs[k].id # reader.ask
                BY <3>1 DEF Asked
            <4>2. toUs[k].id \in 1 .. Chatter
                BY <1>1, <4>1, TransportAssumption
            <4> QED
                BY <1>1, <2>1, <4>1, <4>2
        <3>2. \A n \in 1 .. Chatter : n > Len(own) => replies'[n] = 0
            BY <1>1, <2>1 DEF Asked
        <3> QED
            BY <1>1, <2>1, <3>1, <3>2 DEF Asked
    <2>3. ASSUME NEW n \in 1 .. Len(own), own[n] = "ask"
          PROVE  \/ replies'[n] = 1
                 \/ replies'[n] = 0
                    /\ \/ reader'.at \notin {"reading", "handling"}
                       \/ reader'.ask = n
                       \/ \E k \in 1 .. Len(toUs') : toUs'[k].kind = "ask" /\ toUs'[k].id = n
        <3>1. n = reader.ask \/ replies'[n] = replies[n]
            BY <1>1, <2>1, TransportAssumption
        <3>2. reader.at \in {"reading", "handling"}
            BY <1>1 DEF Asked
        <3>3. \/ replies[n] = 1
              \/ replies[n] = 0 /\ (reader.ask = n \/ \E k \in 1 .. Len(toUs) : toUs[k].kind = "ask" /\ toUs[k].id = n)
            BY <2>3, <3>2 DEF ServerAnswered
        <3> QED
            BY <1>1, <2>1, <3>1, <3>3
    <2>4. ServerAnswered'
        BY <1>1, <2>3 DEF ServerAnswered
    <2> QED
        BY <2>2, <2>4
<1> QED
    BY <1>2, <1>3 DEF Reply, Answers

\* The child writes a line that is not a request.
LEMMA SaysAsks ==
    ASSUME TypeOK, Asked, ServerAnswered, NEW line \in Line0, line.kind # "ask",
           line.kind = "notice" => line.id = 0, toUs' = Append(toUs, line), reader' = reader, replies' = replies,
           Len(own') \in Nat, Len(own') <= Chatter, Len(own) <= Len(own'),
           \A n \in 1 .. Len(own) : own'[n] = own[n],
           \A n \in 1 .. Len(own') : n > Len(own) => own'[n] # "ask"
    PROVE  Asked' /\ ServerAnswered'
<1>a. toUs \in Seq(Line0) /\ Len(toUs) \in Nat /\ Len(own) \in Nat
    BY DEF TypeOK, Line0
<1>1. \A k \in 1 .. Len(toUs') : \/ k \in 1 .. Len(toUs) /\ toUs'[k] = toUs[k]
                                 \/ toUs'[k] = line
    BY <1>a, AppendElements
<1>2. \A k \in 1 .. Len(toUs) : k \in 1 .. Len(toUs') /\ toUs'[k] = toUs[k]
    BY <1>a, AppendElements
<1>3. \A n \in 1 .. Len(own) : n \in 1 .. Len(own')
    BY <1>a
<1>4. Asked'
    <2>1. ASSUME NEW k \in 1 .. Len(toUs')
          PROVE  /\ toUs'[k].kind = "notice" => toUs'[k].id = 0
                 /\ toUs'[k].kind = "ask" => /\ toUs'[k].id \in 1 .. Len(own') /\ replies'[toUs'[k].id] = 0
                                             /\ toUs'[k].id # reader'.ask
        BY <1>1, <1>3 DEF Asked
    <2>2. ASSUME NEW j \in 1 .. Len(toUs'), NEW k \in 1 .. Len(toUs'),
                 toUs'[j].kind = "ask", toUs'[k].kind = "ask", toUs'[j].id = toUs'[k].id
          PROVE  j = k
        BY <1>1, <2>2 DEF Asked
    <2>3. reader'.ask # 0 => /\ reader'.at = "handling" /\ reader'.ask \in 1 .. Len(own') /\ replies'[reader'.ask] = 0
        BY <1>3 DEF Asked
    <2>4. \A n \in 1 .. Chatter : n > Len(own') => replies'[n] = 0
        BY <1>a DEF Asked
    <2> QED
        BY <2>1, <2>2, <2>3, <2>4 DEF Asked
<1>5. ASSUME NEW n \in 1 .. Len(own'), own'[n] = "ask"
      PROVE  \/ replies'[n] = 1
             \/ replies'[n] = 0
                /\ \/ reader'.at \notin {"reading", "handling"}
                   \/ reader'.ask = n
                   \/ \E k \in 1 .. Len(toUs') : toUs'[k].kind = "ask" /\ toUs'[k].id = n
    <2>1. n \in 1 .. Len(own) /\ own[n] = "ask"
        BY <1>a, <1>5
    <2> QED
        BY <1>2, <2>1 DEF ServerAnswered
<1>6. ServerAnswered'
    BY <1>5 DEF ServerAnswered
<1> QED
    BY <1>4, <1>6

\* The child asks.
LEMMA AsksAsks ==
    ASSUME TypeOK, Asked, ServerAnswered, NEW line \in Line0, line.kind = "ask", line.id = Len(own) + 1,
           toUs' = Append(toUs, line), own' = Append(own, "ask"), "ask" \in Kinds, Len(own) < Chatter,
           reader' = reader, replies' = replies
    PROVE  Asked' /\ ServerAnswered'
<1>a. toUs \in Seq(Line0) /\ Len(toUs) \in Nat /\ own \in Seq(Kinds)
    BY DEF TypeOK, Line0
<1>b. /\ Len(own) \in Nat /\ Len(own') = Len(own) + 1 /\ own'[Len(own) + 1] = "ask"
      /\ \A n \in 1 .. Len(own) : own'[n] = own[n] /\ n # Len(own) + 1
    BY <1>a, AppendElements
<1>1. /\ Len(toUs') = Len(toUs) + 1 /\ toUs'[Len(toUs) + 1] = line
      /\ \A k \in 1 .. Len(toUs) : k \in 1 .. Len(toUs') /\ toUs'[k] = toUs[k]
    BY <1>a, AppendElements
<1>2. \A k \in 1 .. Len(toUs') : k = Len(toUs) + 1 \/ k \in 1 .. Len(toUs)
    BY <1>a, <1>1
<1>3. \A n \in 1 .. Len(own) : n \in 1 .. Len(own')
    BY <1>b
<1>4. replies[Len(own) + 1] = 0 /\ reader.ask # Len(own) + 1 /\ Len(own) + 1 \in 1 .. Len(own')
    <2>1. reader.ask = 0 \/ reader.ask \in 1 .. Len(own)
        BY DEF Asked
    <2>2. Len(own) + 1 \in 1 .. Chatter
        BY <1>b, TransportAssumption
    <2> QED
        BY <1>b, <2>1, <2>2 DEF Asked
<1>5. Asked'
    <2>1. ASSUME NEW k \in 1 .. Len(toUs')
          PROVE  /\ toUs'[k].kind = "notice" => toUs'[k].id = 0
                 /\ toUs'[k].kind = "ask" => /\ toUs'[k].id \in 1 .. Len(own') /\ replies'[toUs'[k].id] = 0
                                             /\ toUs'[k].id # reader'.ask
        <3>1. CASE k = Len(toUs) + 1
            BY <1>1, <1>4, <3>1
        <3>2. CASE k \in 1 .. Len(toUs)
            BY <1>1, <1>3, <3>2 DEF Asked
        <3> QED
            BY <1>2, <3>1, <3>2
    <2>2. ASSUME NEW j \in 1 .. Len(toUs'), NEW k \in 1 .. Len(toUs'),
                 toUs'[j].kind = "ask", toUs'[k].kind = "ask", toUs'[j].id = toUs'[k].id
          PROVE  j = k
        <3>1. ASSUME NEW l \in 1 .. Len(toUs), toUs[l].kind = "ask" PROVE toUs[l].id # Len(own) + 1
            BY <1>b, <3>1 DEF Asked
        <3>2. CASE j \in 1 .. Len(toUs) /\ k \in 1 .. Len(toUs)
            BY <1>1, <2>2, <3>2 DEF Asked
        <3> QED
            BY <1>1, <1>2, <2>2, <3>1, <3>2
    <2>3. reader'.ask # 0 => /\ reader'.at = "handling" /\ reader'.ask \in 1 .. Len(own') /\ replies'[reader'.ask] = 0
        BY <1>3 DEF Asked
    <2>4. Len(own') <= Chatter /\ \A n \in 1 .. Chatter : n > Len(own') => replies'[n] = 0
        BY <1>b, TransportAssumption DEF Asked
    <2> QED
        BY <2>1, <2>2, <2>3, <2>4 DEF Asked
<1>6. ASSUME NEW n \in 1 .. Len(own'), own'[n] = "ask"
      PROVE  \/ replies'[n] = 1
             \/ replies'[n] = 0
                /\ \/ reader'.at \notin {"reading", "handling"}
                   \/ reader'.ask = n
                   \/ \E k \in 1 .. Len(toUs') : toUs'[k].kind = "ask" /\ toUs'[k].id = n
    <2>1. CASE n = Len(own) + 1
        <3>1. Len(toUs) + 1 \in 1 .. Len(toUs') /\ toUs'[Len(toUs) + 1].kind = "ask" /\ toUs'[Len(toUs) + 1].id = n
            BY <1>a, <1>1, <2>1
        <3> QED
            BY <1>4, <2>1, <3>1
    <2>2. CASE n \in 1 .. Len(own)
        BY <1>1, <1>6, <1>b, <2>2 DEF ServerAnswered
    <2> QED
        BY <1>b, <2>1, <2>2
<1>7. ServerAnswered'
    BY <1>6 DEF ServerAnswered
<1> QED
    BY <1>5, <1>7

\* The server's requests, in every step.
LEMMA AsksNext ==
    ASSUME TypeOK, Asked, ServerAnswered, [Next]_vars
    PROVE  Asked' /\ ServerAnswered'
<1>1. CASE UNCHANGED <<own, replies, toUs, reader>>
    BY <1>1, AsksKept
<1>2. CASE RouteResponse
    <2>1. /\ UNCHANGED <<own, replies, reader>> /\ toUs # <<>> /\ toUs' = Tail(toUs)
          /\ Head(toUs).kind # "ask"
        BY <1>2 DEF RouteResponse, Line, env
    <2> QED
        BY <2>1, AsksKept
<1>3. CASE RouteToHandler
    <2>1. /\ UNCHANGED <<own, replies>> /\ toUs # <<>> /\ toUs' = Tail(toUs) /\ reader.at = "reading"
          /\ reader' = [at |-> "handling", ask |-> Head(toUs).id]
        BY <1>3 DEF RouteToHandler, Line, env
    <2>2. CASE Head(toUs).kind = "ask"
        BY <2>1, <2>2, AsksKept
    <2>3. CASE Head(toUs).kind = "notice"
        <3>1. toUs \in Seq(Line0)
            BY DEF TypeOK, Line0
        <3>2. Head(toUs) = toUs[1] /\ 1 \in 1 .. Len(toUs)
            BY <2>1, <3>1, TailElements
        <3>3. Head(toUs).id = 0 /\ reader.ask = 0
            BY <2>1, <2>3, <3>2 DEF Asked
        <3>4. reader'.ask = 0
            BY <2>1, <3>3
        <3> QED
            BY <2>1, <2>3, <3>3, <3>4, AsksKept
    <2> QED
        BY <1>3, <2>2, <2>3 DEF RouteToHandler, Line
<1>4. ASSUME NEW how \in HandlerDoes \ {"request"}, NoticeHandled(how) PROVE Asked' /\ ServerAnswered'
    <2>1. UNCHANGED <<own, replies, toUs>> /\ reader.ask = 0 /\ reader.at = "handling"
        BY <1>4 DEF NoticeHandled, HandlerFree, env
    <2>2. how \in {"return", "raise", "value"}
        BY TransportAssumption
    <2>3. reader' \in {Reading, Gone("died"), Gone("ended")}
        BY <1>4, <2>2 DEF NoticeHandled, PipeClosed
    <2>4. reader'.ask = 0
        BY <2>3 DEF Reading, Gone
    <2> QED
        BY <2>1, <2>4, AsksKept
<1>5. ASSUME NEW how, Reply(how) PROVE Asked' /\ ServerAnswered'
    BY <1>5, ReplyAsks
<1>6. CASE Overflow
    <2>1. /\ UNCHANGED <<own, replies>> /\ toUs # <<>> /\ toUs' = Tail(toUs) /\ Head(toUs).kind = "blob"
          /\ reader'.ask = 0 /\ reader'.at = "overflow"
        BY <1>6 DEF Overflow, Line, env
    <2> QED
        BY <2>1, AsksKept
<1>7. CASE ReadEof
    <2>1. UNCHANGED <<own, replies, toUs>> /\ reader'.ask = 0 /\ reader'.at = "ended"
        BY <1>7 DEF ReadEof, PipeClosed, Gone, env
    <2> QED
        BY <2>1, AsksKept
<1>8. ASSUME NEW t, CloseEnd(t) PROVE Asked' /\ ServerAnswered'
    <2>1. UNCHANGED <<own, replies, toUs>>
        BY <1>8 DEF CloseEnd, env
    <2>2. reader' = reader \/ (reader'.ask = 0 /\ reader'.at = "ended")
        BY <1>8 DEF CloseEnd, Gone
    <2> QED
        BY <2>1, <2>2, AsksKept
<1>a. own \in Seq(Kinds) /\ Len(own) \in Nat /\ Len(own) <= Chatter
    BY DEF TypeOK, Asked
<1>9. ASSUME NEW m \in toChild, ChildAnswers(m) PROVE Asked' /\ ServerAnswered'
    <2>1. PICK line \in Line0 : line = [kind |-> "response", id |-> m.id, body |-> m.call]
        BY DEF TypeOK, Line0
    <2>2. UNCHANGED <<own, replies, reader>> /\ toUs' = Append(toUs, line)
        BY <1>9, <2>1 DEF ChildAnswers, Emitted
    <2>3. /\ Len(own') \in Nat /\ Len(own') <= Chatter /\ Len(own) <= Len(own')
          /\ \A n \in 1 .. Len(own') : ~(n > Len(own))
        BY <1>a, <2>2
    <2> QED
        BY <2>1, <2>2, <2>3, SaysAsks
<1>10. ASSUME NEW what \in Kinds, ChildSends(what) PROVE Asked' /\ ServerAnswered'
    <2> DEFINE said == [kind |-> what, id |-> IF what = "ask" THEN Len(own) + 1 ELSE 0, body |-> Nested]
    <2>1. said \in Line0
        <3>1. Len(own) + 1 \in Nat /\ what \in {"notice", "ask", "blob"} /\ Nested \in Bodies
            BY <1>a, TransportAssumption DEF Bodies, Calls
        <3> QED
            BY <3>1 DEF Line0
    <2>2. /\ UNCHANGED <<replies, reader>> /\ toUs' = Append(toUs, said) /\ own' = Append(own, what)
          /\ Len(own) < Chatter
        BY <1>10 DEF ChildSends, Emitted
    <2>3. said.kind = what /\ (what = "ask" => said.id = Len(own) + 1) /\ (what = "notice" => said.id = 0)
        OBVIOUS
    <2> HIDE DEF said
    <2>4. CASE what = "ask"
        BY <2>1, <2>2, <2>3, <2>4, AsksAsks
    <2>5. CASE what # "ask"
        <3>1. /\ Len(own') = Len(own) + 1 /\ own'[Len(own) + 1] = what
              /\ \A n \in 1 .. Len(own) : own'[n] = own[n]
            BY <1>a, <2>2, AppendElements
        <3>2. /\ Len(own') \in Nat /\ Len(own') <= Chatter /\ Len(own) <= Len(own')
              /\ \A n \in 1 .. Len(own') : n > Len(own) => own'[n] # "ask"
            BY <1>a, <2>2, <2>5, <3>1, TransportAssumption
        <3> QED
            BY <2>1, <2>2, <2>3, <2>5, <3>1, <3>2, SaysAsks
    <2> QED
        BY <2>4, <2>5
<1>11. ASSUME NEW c, Register(c) \/ Wake(c) \/ TimeOut(c) \/ Open(c) \/ Send(c)
       PROVE  UNCHANGED <<own, replies, toUs, reader>>
    BY <1>11 DEF Register, Wake, TimeOut, Open, Send, env
<1>12. ASSUME NEW t, CloseBegin(t) PROVE UNCHANGED <<own, replies, toUs, reader>>
    BY <1>12 DEF CloseBegin, env
<1>13. ChildExits \/ UNCHANGED vars => UNCHANGED <<own, replies, toUs, reader>>
    BY DEF ChildExits, vars, env
<1> QED
    BY <1>1, <1>2, <1>3, <1>4, <1>5, <1>6, <1>7, <1>8, <1>9, <1>10, <1>11, <1>12, <1>13
       DEF Next, CallNext, ReaderNext, CloseNext, ChildNext

-----------------------------------------------------------------------------
(* Nobody waits for a server that is gone, where no handler raises.          *)

\* Handlers return, or make requests of their own.
NoHandlerRaises == HandlerDoes \cap {"raise", "value"} = {}

\* A stream that was not told can still be.
Reachable == \A s \in Streams : pc[s] \in {"registered", "open"} /\ told[s] = <<>> => Entry(s) \in longLived
EndIsExit == reader.at = "ended" /\ ~closed => ~child /\ NobodyWaits
Aware == Reachable /\ EndIsExit /\ \A t \in {"closer", "reader"} : closing[t] # "no" => closed

\* _fail_all, where no handler raises, leaves nobody waiting.
LEMMA FailAllWakes ==
    ASSUME TypeOK, CallsRight, Reachable, FailAll(longLived), pc' = pc
    PROVE  NobodyWaits' /\ Reachable'
<1>1. \A c \in Calls : cell'[c] = IF \E e \in pending : e.call = c THEN Lost ELSE cell[c]
    BY DEF FailAll, Woken
<1>2. \A s \in Streams : told'[s] = IF \E e \in longLived : e.call = s THEN Append(told[s], Lost) ELSE told[s]
    BY DEF FailAll, Tell
<1>3. ASSUME NEW c \in Calls, pc[c] = "waiting" PROVE cell'[c] # Empty
    <2>1. cell[c] = Empty => \E e \in pending : e.call = c
        BY <1>3 DEF CallsRight, Tracked, Awaits, Entry
    <2> QED
        BY <1>1, <2>1 DEF Empty, Lost
<1>4. ASSUME NEW s \in Streams, pc[s] \in {"registered", "open"} PROVE told'[s] # <<>>
    <2>1. told[s] = <<>> => \E e \in longLived : e.call = s
        BY <1>4 DEF Reachable, Entry
    <2>2. told[s] \in Seq({Lost} \cup Bodies)
        BY DEF TypeOK
    <2>3. Append(told[s], Lost) # <<>>
        BY <2>2
    <2> QED
        BY <1>2, <2>1, <2>3
<1> QED
    BY <1>3, <1>4 DEF NobodyWaits, Reachable

\* PipeClosed likewise.
LEMMA PipeClosedWakes ==
    ASSUME NoHandlerRaises, TypeOK, CallsRight, Reachable, PipeClosed, pc' = pc
    PROVE  Reachable' /\ (closed \/ NobodyWaits')
<1>1. CASE closed
    BY <1>1 DEF PipeClosed, table, Reachable, Entry
<1>2. CASE ~closed
    <2>1. FailAll(longLived)
        BY <1>2 DEF PipeClosed, Tellable, NoHandlerRaises
    <2> QED
        BY <2>1, FailAllWakes
<1> QED
    BY <1>1, <1>2

\* A stream that was not told can still be, in every step.
LEMMA ReachableNext ==
    ASSUME NoHandlerRaises, TypeOK, CallsRight, Reachable, [Next]_vars
    PROVE  Reachable'
<1>0. Calls \subseteq Bodies /\ Streams \subseteq Bodies /\ Calls \cap Streams = {} /\ Done \cap {"registered", "open"} = {}
    BY TransportAssumption DEF Bodies, Calls, Done
<1>1. ASSUME NEW c \in Calls, Register(c) PROVE Reachable'
    <2>1. pc[c] = "new" /\ AllocateId(c) /\ longLived' = longLived /\ told' = told /\ \A s \in Streams : s # c /\ pc'[s] = pc[s]
        BY <1>0, <1>1 DEF Register, TypeOK
    <2>2. \A s \in Streams : Entry(s)' = Entry(s)
        BY <1>0, <2>1, NewEntry DEF Entry
    <2> QED
        BY <2>1, <2>2 DEF Reachable
<1>2. ASSUME NEW b \in Streams, Open(b) PROVE Reachable'
    <2>1. pc[b] = "new" /\ AllocateId(b) /\ longLived' = Entered(longLived, b) /\ told' = told
          /\ \A s \in Streams \ {b} : pc'[s] = pc[s]
        BY <1>2 DEF Open, TypeOK
    <2>2. \A s \in Streams \ {b} : Entry(s)' = Entry(s)
        BY <1>0, <2>1, NewEntry DEF Entry
    <2>3. longLived' = longLived \cup {[id |-> id'[b], call |-> b]}
        BY <1>0, <2>1, NewEntry
    <2>4. Entry(b)' \in longLived'
        BY <2>3 DEF Entry
    <2> QED
        BY <2>1, <2>2, <2>3, <2>4 DEF Reachable
<1>3. ASSUME NEW b \in Bodies, pc[b] # "new", Unregister(b), id' = id, told' = told, pc'[b] \in Done,
             \A a \in Bodies \ {b} : pc'[a] = pc[a]
      PROVE  Reachable'
    <2>1. \A s \in Streams : Entry(s)' = Entry(s)
        BY <1>3 DEF Entry
    <2>2. \A s \in Streams \ {b} : Entry(s) \in longLived' <=> Entry(s) \in longLived
        BY <1>0, <1>3, Dropped
    <2> QED
        BY <1>0, <1>3, <2>1, <2>2 DEF Reachable
<1>4. ASSUME NEW c \in Calls, TimeOut(c) PROVE Reachable'
    <2>1. pc[c] # "new" /\ pc'[c] \in Done /\ \A a \in Bodies \ {c} : pc'[a] = pc[a]
        BY <1>0, <1>4 DEF TimeOut, TypeOK, Done
    <2> QED
        BY <1>0, <1>3, <1>4, <2>1 DEF TimeOut
<1>5. ASSUME NEW b \in Bodies, Send(b), ~WriteWorks PROVE Reachable'
    <2>1. pc[b] # "new" /\ pc'[b] \in Done /\ \A a \in Bodies \ {b} : pc'[a] = pc[a]
        BY <1>0, <1>5 DEF Send, TypeOK, Done
    <2> QED
        BY <1>3, <1>5, <2>1 DEF Send
<1>6. ASSUME id' = id, told' = told, longLived' = longLived,
             \A s \in Streams : pc'[s] \in {"registered", "open"} => pc[s] \in {"registered", "open"}
      PROVE  Reachable'
    BY <1>6 DEF Reachable, Entry
<1>7. ASSUME NEW b \in Bodies, Send(b), WriteWorks PROVE Reachable'
    <2>1. \A s \in Streams : pc'[s] \in {"registered", "open"} => pc[s] \in {"registered", "open"}
        BY <1>0, <1>7 DEF Send, TypeOK
    <2> QED
        BY <1>6, <1>7, <2>1 DEF Send
<1>8. ASSUME NEW c \in Calls, Wake(c) PROVE Reachable'
    <2>1. \A s \in Streams : pc'[s] = pc[s]
        BY <1>0, <1>8 DEF Wake, TypeOK
    <2> QED
        BY <1>6, <1>8, <2>1 DEF Wake, table
<1>9. CASE RouteResponse
    <2>1. /\ pc' = pc /\ id' = id
          /\ \A s \in Streams : \/ told'[s] = told[s] /\ (Entry(s) \in longLived' <=> Entry(s) \in longLived)
                                \/ told'[s] # <<>>
        BY <1>9, RouteResponseRight DEF RouteResponse
    <2> QED
        BY <2>1 DEF Reachable, Entry
<1>10. ASSUME NEW how \in HandlerDoes \ {"request"}, NoticeHandled(how) PROVE Reachable'
    <2>1. how = "return"
        BY TransportAssumption DEF NoHandlerRaises
    <2> QED
        BY <1>6, <1>10, <2>1 DEF NoticeHandled, table
<1>11. CASE Overflow
    BY <1>11, FailAllWakes DEF Overflow
<1>12. CASE ReadEof
    BY <1>12, PipeClosedWakes DEF ReadEof
<1>13. ASSUME NEW t, CloseBegin(t) PROVE Reachable'
    BY <1>13, FailAllWakes DEF CloseBegin, Tellable, NoHandlerRaises
<1>14. ASSUME UNCHANGED <<table, pc, told>> PROVE Reachable'
    BY <1>6, <1>14 DEF table
<1>15. ASSUME NEW x, RouteToHandler \/ Reply(x) \/ CloseEnd(x) \/ ChildAnswers(x) \/ ChildSends(x) \/ ChildExits \/ UNCHANGED vars
       PROVE  UNCHANGED <<table, pc, told>>
    BY <1>15 DEF RouteToHandler, Reply, CloseEnd, ChildAnswers, ChildSends, ChildExits, vars
<1> QED
    BY <1>1, <1>2, <1>4, <1>5, <1>7, <1>8, <1>9, <1>10, <1>11, <1>12, <1>13, <1>14, <1>15
       DEF Next, CallNext, ReaderNext, CloseNext, ChildNext

\* Once the loop ended with the child gone, nobody comes to wait.
LEMMA EndIsExitNext ==
    ASSUME NoHandlerRaises, TypeOK, CallsRight, Aware, [Next]_vars
    PROVE  Aware'
<1>0. Calls \subseteq Bodies /\ Streams \subseteq Bodies /\ Calls \cap Streams = {} /\ Done \cap {"waiting", "open"} = {}
    BY TransportAssumption DEF Bodies, Calls, Done
<1>1. Reachable'
    BY ReachableNext DEF Aware
<1>2. \A t \in {"closer", "reader"} : closing'[t] # "no" => closed'
    <2>1. ASSUME NEW t \in {"closer", "reader"}, CloseBegin(t) PROVE closed'
        BY <2>1 DEF CloseBegin
    <2>2. ASSUME NEW t \in {"closer", "reader"}, CloseEnd(t) PROVE closed'
        BY <2>2 DEF CloseEnd, Aware
    <2>3. ASSUME UNCHANGED <<closed, closing>> PROVE \A t \in {"closer", "reader"} : closing'[t] # "no" => closed'
        BY <2>3 DEF Aware
    <2>4. ASSUME NEW x, \/ Register(x) \/ Wake(x) \/ TimeOut(x) \/ Open(x) \/ Send(x) \/ RouteResponse \/ RouteToHandler
                        \/ NoticeHandled(x) \/ Reply(x) \/ Overflow \/ ReadEof \/ ChildAnswers(x) \/ ChildSends(x)
                        \/ ChildExits \/ UNCHANGED vars
          PROVE  UNCHANGED <<closed, closing>>
        BY <2>4 DEF Register, Wake, TimeOut, Open, Send, RouteResponse, RouteToHandler, NoticeHandled, Reply,
                    Overflow, ReadEof, ChildAnswers, ChildSends, ChildExits, vars
    <2>5. DOMAIN closing = {"closer", "reader"}
        BY DEF TypeOK
    <2> QED
        BY <2>1, <2>2, <2>3, <2>4, <2>5 DEF Next, CallNext, ReaderNext, CloseNext, ChildNext
<1>3. ASSUME closed' PROVE EndIsExit'
    BY <1>3 DEF EndIsExit
<1>4. ASSUME reader.at = "ended", ~closed PROVE ~child /\ NobodyWaits
    BY <1>4 DEF Aware, EndIsExit
<1>5. ASSUME reader' = reader, closed' = closed, child' \in {child, FALSE}, reader.at = "ended" /\ ~closed => NobodyWaits'
      PROVE  EndIsExit'
    BY <1>4, <1>5 DEF EndIsExit
<1>6. ASSUME UNCHANGED <<cell, told>>, \A b \in Bodies : pc'[b] \in {"waiting", "open"} => pc'[b] = pc[b], NobodyWaits
      PROVE  NobodyWaits'
    BY <1>0, <1>6 DEF NobodyWaits
<1>7. ASSUME NEW c \in Calls, Register(c) \/ Wake(c) \/ TimeOut(c) PROVE EndIsExit'
    <2>1. /\ UNCHANGED <<reader, closed, child, cell, told>>
          /\ \A b \in Bodies : pc'[b] \in {"waiting", "open"} => pc'[b] = pc[b]
        BY <1>0, <1>7 DEF Register, Wake, TimeOut, env, TypeOK
    <2> QED
        BY <1>4, <1>5, <1>6, <2>1
<1>8. ASSUME NEW s \in Streams, Open(s) PROVE EndIsExit'
    <2>1. /\ UNCHANGED <<reader, closed, child, cell, told>>
          /\ \A b \in Bodies : pc'[b] \in {"waiting", "open"} => pc'[b] = pc[b]
        BY <1>0, <1>8 DEF Open, env, TypeOK
    <2> QED
        BY <1>4, <1>5, <1>6, <2>1
<1>9. ASSUME NEW b \in Bodies, Send(b) PROVE EndIsExit'
    <2>1. UNCHANGED <<reader, closed, child, cell, told>>
        BY <1>9 DEF Send
    <2>2. ASSUME reader.at = "ended", ~closed PROVE \A a \in Bodies : pc'[a] \in {"waiting", "open"} => pc'[a] = pc[a]
        <3>1. ~WriteWorks
            BY <1>4, <2>2 DEF WriteWorks
        <3> QED
            BY <1>0, <1>9, <3>1 DEF Send, TypeOK
    <2> QED
        BY <1>4, <1>5, <1>6, <2>1, <2>2
<1>10. ASSUME ReadEof PROVE EndIsExit'
    <2>1. ~child /\ pc' = pc /\ closed' = closed /\ child' = child /\ PipeClosed
        BY <1>10 DEF ReadEof, env
    <2>2. Reachable
        BY DEF Aware
    <2>3. closed \/ NobodyWaits'
        BY <2>1, <2>2, PipeClosedWakes
    <2> QED
        BY <2>1, <2>3 DEF EndIsExit
<1>11. ASSUME NEW t \in {"closer", "reader"}, CloseNext(t) PROVE closed'
    BY <1>11 DEF CloseNext, CloseBegin, CloseEnd, Aware
<1>12. ASSUME reader'.at # "ended" PROVE EndIsExit'
    BY <1>12 DEF EndIsExit
<1>13. ASSUME NEW x \in HandlerDoes \ {"request"}, RouteResponse \/ RouteToHandler \/ Overflow \/ NoticeHandled(x) \/ Reply(x)
       PROVE  reader'.at # "ended"
    <2>1. x = "return"
        BY TransportAssumption DEF NoHandlerRaises
    <2> QED
        BY <1>13, <2>1 DEF RouteResponse, Line, RouteToHandler, Overflow, NoticeHandled, Reply, Reading, Gone
<1>14. ASSUME NEW x, ChildAnswers(x) \/ ChildSends(x) \/ ChildExits \/ UNCHANGED vars PROVE EndIsExit'
    <2>1. UNCHANGED <<reader, closed, cell, told, pc>> /\ child' \in {child, FALSE}
        BY <1>14 DEF ChildAnswers, ChildSends, ChildExits, vars, env
    <2> QED
        BY <1>4, <1>5, <1>6, <2>1
<1>15. DOMAIN closing = {"closer", "reader"} /\ HandlerDoes \ {"request"} # {}
    BY TransportAssumption DEF TypeOK
<1>16. EndIsExit'
    <2>1. CASE ReaderNext
        <3>1. PICK x \in HandlerDoes \ {"request"} :
                 RouteResponse \/ RouteToHandler \/ Overflow \/ ReadEof \/ NoticeHandled(x) \/ Reply(x)
            BY <1>15, <2>1 DEF ReaderNext
        <3>2. CASE ReadEof
            BY <1>10, <3>2
        <3>3. CASE ~ReadEof
            <4>1. reader'.at # "ended"
                BY <1>13, <3>1, <3>3
            <4> QED
                BY <1>12, <4>1
        <3> QED
            BY <3>2, <3>3
    <2>2. CASE ChildNext \/ UNCHANGED vars
        BY <1>14, <2>2 DEF ChildNext
    <2>3. CASE \E t \in DOMAIN closing : CloseNext(t)
        BY <1>3, <1>11, <1>15, <2>3
    <2>4. CASE \/ \E c \in Calls : CallNext(c)
               \/ \E s \in Streams : Open(s)
               \/ \E b \in Bodies : Send(b)
        BY <1>7, <1>8, <1>9, <2>4 DEF CallNext
    <2> QED
        BY <2>1, <2>2, <2>3, <2>4 DEF Next
<1> QED
    BY <1>1, <1>2, <1>16 DEF Aware

-----------------------------------------------------------------------------
\* The inductive invariant: types, what calls and streams hear, and what the
\* server's own requests come to.
IInv == TypeOK /\ CallsRight /\ Asked /\ ServerAnswered

\* The start.
LEMMA InitIInv == Init => IInv /\ Aware
<1> SUFFICES ASSUME Init PROVE IInv /\ Aware
    OBVIOUS
<1>0. Calls \subseteq Bodies /\ Streams \subseteq Bodies /\ Empty \notin Bodies
    BY TransportAssumption DEF Bodies, Calls, Empty, Nested, Lost
<1>1. TypeOK
    <2>1. <<>> \in Seq({Lost} \cup Bodies) /\ <<>> \in Seq(Line0) /\ <<>> \in Seq(Kinds)
        OBVIOUS
    <2>2. /\ nextId \in Nat /\ id \in [Bodies -> Nat] /\ pending = {} /\ longLived = {} /\ toChild = {}
          /\ pc \in [Bodies -> {"new", "registered", "waiting", "open"} \cup Done]
          /\ cell \in [Calls -> {Empty, Lost} \cup Bodies] /\ replies \in [1 .. Chatter -> Nat]
        BY DEF Init
    <2>3. told \in [Streams -> Seq({Lost} \cup Bodies)] /\ toUs \in Seq(Line0) /\ own \in Seq(Kinds)
        BY <2>1 DEF Init
    <2>4. reader \in [at : {"reading", "handling", "overflow", "ended", "died"}, ask : 0 .. Chatter]
        BY TransportAssumption DEF Init, Reading
    <2>5. closed \in BOOLEAN /\ stdin \in BOOLEAN /\ child \in BOOLEAN
          /\ closing \in [{"closer", "reader"} -> {"no", "begun", "done"}]
        BY DEF Init
    <2> QED
        BY <2>2, <2>3, <2>4, <2>5 DEF TypeOK, Line0
<1>2. /\ toUs = <<>> /\ own = <<>> /\ Len(toUs) = 0 /\ Len(own) = 0
      /\ \A s \in Streams : told[s] = <<>> /\ Len(told[s]) = 0
    BY DEF Init
<1>3. Identified /\ Addressed
    BY <1>2 DEF Init, Identified, Addressed
<1>4. Unheard /\ Correlated /\ ToldOnce
    BY <1>0, <1>2 DEF Init, Unheard, Correlated, ToldOnce
<1>5. Tracked
    BY <1>0 DEF Init, Tracked, Awaits
<1>6. Asked /\ ServerAnswered
    BY <1>2, TransportAssumption DEF Init, Asked, ServerAnswered, Reading
<1>7. Aware
    BY <1>0 DEF Init, Aware, Reachable, EndIsExit, Reading
<1> QED
    BY <1>1, <1>3, <1>4, <1>5, <1>6, <1>7 DEF IInv, CallsRight


-----------------------------------------------------------------------------
(* Streams.                                                                  *)

StreamPlaces == {"none", "entered", "start", "drain", "route", "tell", "again", "pause", "settle", "done"}

\* Types of the log and what has been read of it.
LogTyped ==
    /\ log \in Seq({"listen", "get"}) /\ Len(log) <= MaxEvents
    /\ routed \subseteq DOMAIN log /\ last \in Nat /\ get.pos \in Nat
    /\ shut \in BOOLEAN /\ entry \in BOOLEAN

\* The thread of the stream, and how far its budget of resumes is used where it is.
Rec == [at : StreamPlaces, from : Nat, pos : Nat, reached : Nat, cursor : Nat,
        tries : -1 .. MaxResumeAttempts, delivered : BOOLEAN]
ThreadTyped ==
    /\ stream \in Rec
    /\ stream.at \in {"drain", "route", "tell", "again"} =>
          stream.tries = -1 \/ stream.tries < MaxResumeAttempts
    /\ stream.at = "pause" => stream.tries \in 0 .. MaxResumeAttempts - 1
    /\ stream.at \in {"none", "entered", "start"} =>
          stream.tries = -1 /\ stream.pos = 0 /\ stream.reached = 0 /\ stream.cursor = 0

\* What was cached, and what was told.
CacheTyped ==
    /\ sub \in {"none", "live", "ended", "closed"} /\ cache \in -1 .. MaxEvents
    /\ lister \in [at : {"idle", "asked"}, value : 0 .. MaxEvents, n : Nat]
    /\ notified \in Nat /\ cleared \in Nat

StreamTyped == LogTyped /\ ThreadTyped /\ CacheTyped

\* The cursor stays behind what was read, and what was read behind the log.
Behind ==
    /\ stream.cursor <= stream.pos /\ stream.reached <= stream.pos /\ stream.pos <= Len(log)
    /\ \A e \in DOMAIN log :
          log[e] = "listen" /\ stream.from < e /\ e <= stream.pos => e \in routed

\* The end is told by whoever takes the entry away.
ToldAtEnd ==
    /\ ended = IF entry \/ stream.at = "none" THEN 0 ELSE 1
    /\ stream.at = "none" \/ stream.at = "done" => ~entry

\* Whoever is told of an event was preceded by the clearing of the cache.
ClearedFirst ==
    /\ notified <= cleared
    /\ stream.at = "tell" => stream.pos <= cleared
    /\ cache # -1 /\ ~raced => cache >= cleared

StreamIInv == StreamTyped /\ Behind /\ ToldAtEnd /\ ClearedFirst

\* A set of numbers has a least member.
LEMMA HasLeast ==
    ASSUME NEW S \in SUBSET Nat, S # {}
    PROVE  \E i \in S : \A j \in S : i <= j
<1>1. PICK i \in S : \A j \in S : ~ (<<j, i>> \in OpToRel(<, Nat))
  BY WFMin, NatLessThanWellFounded
<1>2. \A j \in S : ~ (j < i)
  BY <1>1 DEF OpToRel
<1> QED  BY <1>2

\* The next event of a channel after one is read is the first there is (_drain).
LEMMA NextEvent ==
    ASSUME NEW n \in Nat, log \in Seq({"listen", "get"}), NEW channel, Http!After(channel, n) # {},
           NEW e, e = Http!Min(Http!After(channel, n))
    PROVE  /\ e \in DOMAIN log /\ e \in Nat /\ log[e] = channel /\ n < e /\ e <= Len(log)
           /\ \A d \in DOMAIN log : log[d] = channel /\ n < d => e <= d
<1> DEFINE S == Http!After(channel, n)
<1>1. S = {i \in DOMAIN log : log[i] = channel /\ i > n}
  BY DEF Http!After, Http!Of
<1>2. DOMAIN log = 1 .. Len(log) /\ Len(log) \in Nat
  OBVIOUS
<1>3. S \in SUBSET Nat /\ S # {}
  BY <1>1, <1>2
<1>4. \E i \in S : \A j \in S : i <= j
  <2> HIDE DEF S
  <2> QED  BY <1>3, HasLeast
<1>5. e \in S /\ \A j \in S : e <= j
  BY <1>4, Zenon DEF Http!Min
<1> QED
  BY <1>1, <1>2, <1>5

\* The greater of two numbers.
LEMMA Greater ==
    ASSUME NEW a \in Nat, NEW b \in Nat
    PROVE  Http!Max({a, b}) \in {a, b} /\ Http!Max({a, b}) >= a /\ Http!Max({a, b}) >= b
<1>1. \E x \in {a, b} : \A y \in {a, b} : x >= y
  OBVIOUS
<1> QED
  BY <1>1 DEF Http!Max

\* Where the thread may be after a connection began or ended.
Onward(r) ==
    /\ r \in Rec /\ r.at \in {"drain", "pause", "settle"}
    /\ r.at = "drain" => r.tries = -1 \/ r.tries < MaxResumeAttempts
    /\ r.at = "pause" => r.tries \in 0 .. MaxResumeAttempts - 1
    /\ r.cursor <= r.pos /\ r.reached <= r.pos /\ r.pos <= Len(log)
    /\ r.pos <= r.from \/ (r.from = stream.from /\ r.pos <= stream.pos)

\* A step that only moves the thread on keeps it.
LEMMA MovesOn ==
    ASSUME StreamIInv, NEW r, Onward(r), Http!Goes(r), stream.at \notin {"none", "done"}
    PROVE  StreamIInv'
<1> USE DEF StreamIInv
<1>1. /\ stream' = r /\ r.at \notin {"none", "done", "tell", "entered", "start", "route", "again"}
      /\ UNCHANGED <<log, shut, entry, last, get, sub, cache, lister, routed, ended, notified, cleared, raced>>
  BY DEF Http!Goes, Onward
<1>2. UNCHANGED <<log, shut, entry, last, get, sub, cache, lister, routed>>
      /\ UNCHANGED <<ended, notified, cleared, raced>>
  BY <1>1
<1>3. LogTyped' /\ CacheTyped'
  BY <1>2 DEF StreamTyped, LogTyped, CacheTyped
<1>4. ThreadTyped'
  BY <1>1 DEF ThreadTyped, Onward
<1>5. Behind'
  <2>1. r.cursor <= r.pos /\ r.reached <= r.pos /\ r.pos <= Len(log)
    BY DEF Onward
  <2>2. ASSUME NEW e \in DOMAIN log, log[e] = "listen", r.from < e, e <= r.pos PROVE e \in routed
    <3>1. e \in Nat /\ r.from \in Nat /\ r.pos \in Nat /\ stream.pos \in Nat
      BY DEF Onward, Rec, StreamTyped, LogTyped, ThreadTyped
    <3>2. ~ (r.pos <= r.from)
      BY <2>2, <3>1
    <3>3. r.from = stream.from /\ e <= stream.pos
      BY <2>2, <3>1, <3>2 DEF Onward
    <3> QED  BY <2>2, <3>3 DEF Behind
  <2> QED  BY <1>1, <1>2, <2>1, <2>2 DEF Behind
<1>6. ToldAtEnd'
  BY <1>1, <1>2 DEF ToldAtEnd
<1>7. ClearedFirst'
  BY <1>1, <1>2 DEF ClearedFirst
<1> QED  BY <1>3, <1>4, <1>5, <1>6, <1>7 DEF StreamTyped

\* Between two connections the thread pauses or gives up (_long_lived_loop).
LEMMA PausesOrSettles ==
    ASSUME NEW r \in Rec, r.tries \in 0 .. MaxResumeAttempts, MaxResumeAttempts \in Nat,
           r.cursor <= r.pos, r.reached <= r.pos, r.pos <= Len(log),
           r.from = stream.from, r.pos = stream.pos
    PROVE  Onward(Http!Again(r))
<1> DEFINE a == Http!Again(r)
<1>1. /\ a \in Rec /\ a.at \in {"pause", "settle"} /\ a.tries = r.tries
      /\ a.cursor = r.cursor /\ a.reached = r.reached /\ a.pos = r.pos /\ a.from = r.from
  BY DEF Http!Again, Rec, StreamPlaces
<1>2. a.at = "pause" => r.tries < MaxResumeAttempts
  BY DEF Http!Again, Rec
<1> HIDE DEF a
<1>3. a.pos <= stream.pos
  BY <1>1 DEF Rec
<1>4. a.at = "pause" => a.tries \in 0 .. MaxResumeAttempts - 1
  BY <1>1, <1>2
<1>5. Onward(a)
  BY <1>1, <1>3, <1>4 DEF Onward
<1> QED  BY <1>5 DEF a

\* Every step of the streams keeps it.
LEMMA StreamKeeps ==
    ASSUME McpAssumption, StreamIInv, Http!Next
    PROVE  StreamIInv'
<1> USE DEF StreamIInv
<1>0. /\ MaxEvents \in Nat /\ MaxResumeAttempts \in Nat
      /\ Len(log) \in Nat /\ DOMAIN log = 1 .. Len(log)
  BY DEF McpAssumption, StreamTyped, LogTyped
<1>1. ASSUME Http!Listen PROVE StreamIInv'
  <2>1. CacheTyped'
    BY <1>1 DEF StreamTyped, CacheTyped, Http!Listen
  <2>2. LogTyped'
    BY <1>0, <1>1 DEF StreamTyped, LogTyped, Http!Listen
  <2>3. ThreadTyped'
    BY <1>0, <1>1 DEF StreamTyped, LogTyped, Rec, StreamPlaces, ThreadTyped, Http!Listen
  <2>4. Behind'
    BY <1>0, <1>1 DEF StreamTyped, LogTyped, ThreadTyped, Rec, Behind, Http!Listen
  <2>5. ToldAtEnd'
    BY <1>0, <1>1 DEF StreamTyped, LogTyped, ThreadTyped, Rec, StreamPlaces, ToldAtEnd, Http!Listen
  <2>6. ClearedFirst'
    BY <1>0, <1>1 DEF StreamTyped, LogTyped, CacheTyped, ThreadTyped, Rec, ClearedFirst, Http!Listen
  <2> QED  BY <2>1, <2>2, <2>3, <2>4, <2>5, <2>6 DEF StreamTyped
<1>2. ASSUME Http!Open PROVE StreamIInv'
  <2>1. LogTyped'
    BY <1>2 DEF StreamTyped, LogTyped, Http!Open
  <2>2. ThreadTyped'
    BY <1>0, <1>2 DEF StreamTyped, LogTyped, Rec, StreamPlaces, ThreadTyped, Http!Open
  <2>3. CacheTyped'
    BY <1>0, <1>2 DEF StreamTyped, LogTyped, ThreadTyped, Rec, CacheTyped, Http!Open
  <2>4. Behind'
    BY <1>0, <1>2 DEF StreamTyped, LogTyped, ThreadTyped, Rec, Behind, Http!Open
  <2>5. ToldAtEnd'
    BY <1>0, <1>2 DEF StreamTyped, LogTyped, ThreadTyped, Rec, StreamPlaces, ToldAtEnd, Http!Open
  <2>6. ClearedFirst'
    BY <1>0, <1>2 DEF StreamTyped, LogTyped, CacheTyped, ThreadTyped, Rec, ClearedFirst, Http!Open
  <2> QED  BY <2>1, <2>2, <2>3, <2>4, <2>5, <2>6 DEF StreamTyped
<1>3. ASSUME Http!CloseSubscription PROVE StreamIInv'
  <2>1. LogTyped' /\ ThreadTyped' /\ Behind' /\ ToldAtEnd' /\ ClearedFirst'
    BY <1>3 DEF StreamTyped, LogTyped, ThreadTyped, Behind, ToldAtEnd, ClearedFirst, Http!CloseSubscription
  <2>2. CacheTyped'
    BY <1>0, <1>3 DEF StreamTyped, LogTyped, ThreadTyped, Rec, CacheTyped, Http!CloseSubscription
  <2> QED  BY <2>1, <2>2 DEF StreamTyped
<1>4. ASSUME Http!Close PROVE StreamIInv'
  <2>1. ThreadTyped' /\ Behind' /\ ClearedFirst'
    BY <1>4 DEF StreamTyped, ThreadTyped, Behind, ClearedFirst, Http!Close
  <2>2. LogTyped'
    BY <1>0, <1>4 DEF StreamTyped, LogTyped, Http!Close, Http!Resolve, Http!OnEnd
  <2>3. CacheTyped'
    BY <1>0, <1>4 DEF StreamTyped, LogTyped, ThreadTyped, Rec, CacheTyped, Http!Close, Http!Resolve, Http!OnEnd
  <2>4. ToldAtEnd'
    BY <1>0, <1>4 DEF StreamTyped, LogTyped, ThreadTyped, Rec, StreamPlaces, ToldAtEnd, Http!Close, Http!Resolve, Http!OnEnd
  <2> QED  BY <2>1, <2>2, <2>3, <2>4 DEF StreamTyped
<1>5. ASSUME Http!Connect PROVE StreamIInv'
  <2> DEFINE on == [stream EXCEPT !.at = "drain", !.from = Len(log), !.pos = Len(log)]
             off == [stream EXCEPT !.at = "settle"]
  <2>1. /\ stream \in Rec /\ stream.at = "start" /\ stream.tries = -1
        /\ stream.pos = 0 /\ stream.reached = 0 /\ stream.cursor = 0
    BY <1>5 DEF StreamTyped, ThreadTyped, Http!Connect
  <2>2. Onward(on)
    <3>1. /\ on \in Rec /\ on.at = "drain" /\ on.tries = -1 /\ on.cursor = 0 /\ on.reached = 0
          /\ on.pos = Len(log) /\ on.from = Len(log)
      BY <1>0, <2>1 DEF Rec, StreamPlaces
    <3> HIDE DEF on
    <3> QED  BY <1>0, <3>1 DEF Onward
  <2>3. Onward(off)
    BY <1>0, <2>1 DEF Onward, Rec, StreamPlaces
  <2>4. Http!Goes(on) \/ Http!Goes(off)
    BY <1>5 DEF Http!Connect
  <2> HIDE DEF on, off
  <2> QED  BY <2>1, <2>2, <2>3, <2>4, MovesOn
<1>6. ASSUME Http!Reconnect PROVE StreamIInv'
  <2> DEFINE on == [stream EXCEPT !.at = "drain", !.pos = stream.cursor,
                                  !.reached = stream.cursor, !.delivered = FALSE]
             off == [stream EXCEPT !.at = "settle"]
             tried == [stream EXCEPT !.tries = @ + 1]
  <2>1. /\ stream \in Rec /\ stream.at = "pause" /\ stream.tries \in 0 .. MaxResumeAttempts - 1
        /\ stream.cursor <= stream.pos /\ stream.reached <= stream.pos /\ stream.pos <= Len(log)
    BY <1>6 DEF StreamTyped, ThreadTyped, Behind, Http!Reconnect
  <2>2. Onward(on)
    <3>1. /\ on \in Rec /\ on.at = "drain" /\ on.tries = stream.tries /\ on.cursor = stream.cursor
          /\ on.reached = stream.cursor /\ on.pos = stream.cursor /\ on.from = stream.from
          /\ stream.cursor \in Nat /\ stream.pos \in Nat
      BY <1>0, <2>1 DEF Rec, StreamPlaces
    <3> HIDE DEF on
    <3> QED  BY <1>0, <2>1, <3>1 DEF Onward
  <2>3. Onward(off)
    BY <1>0, <2>1 DEF Onward, Rec, StreamPlaces
  <2>4. /\ tried \in Rec /\ tried.tries \in 0 .. MaxResumeAttempts
        /\ tried.cursor = stream.cursor /\ tried.reached = stream.reached
        /\ tried.pos = stream.pos /\ tried.from = stream.from
    <3>1. stream.tries + 1 \in 0 .. MaxResumeAttempts
      BY <1>0, <2>1
    <3>2. tried = [stream EXCEPT !.tries = stream.tries + 1]
      BY <2>1 DEF Rec
    <3> HIDE DEF tried
    <3> QED  BY <2>1, <3>1, <3>2 DEF Rec
  <2>5. Http!Goes(on) \/ Http!Goes(off) \/ Http!Goes(Http!Again(tried))
    BY <1>6 DEF Http!Reconnect, Http!ResumeFrom, Http!Tried
  <2> HIDE DEF on, off, tried
  <2>6. Onward(Http!Again(tried))
    BY <1>0, <2>1, <2>4, PausesOrSettles
  <2> QED  BY <2>1, <2>2, <2>3, <2>5, <2>6, MovesOn
<1>7. ASSUME Http!Eof PROVE StreamIInv'
  <2> DEFINE kept == [stream EXCEPT !.cursor = stream.reached]
             fresh == [kept EXCEPT !.tries = 0]
             tried == [kept EXCEPT !.tries = @ + 1]
  <2>1. /\ stream \in Rec /\ stream.at = "drain" /\ (stream.tries = -1 \/ stream.tries < MaxResumeAttempts)
        /\ stream.cursor <= stream.pos /\ stream.reached <= stream.pos /\ stream.pos <= Len(log)
    BY <1>7 DEF StreamTyped, ThreadTyped, Behind, Http!Eof
  <2>2. /\ kept \in Rec /\ kept.tries = stream.tries /\ kept.delivered = stream.delivered
        /\ kept.cursor = stream.reached /\ kept.reached = stream.reached
        /\ kept.pos = stream.pos /\ kept.from = stream.from
    BY <2>1 DEF Rec
  <2>3. Http!Goes(Http!Again(fresh)) \/ (kept.tries # -1 /\ Http!Goes(Http!Again(tried)))
    <3>1. Http!Goes(Http!Again(IF kept.tries = 0 - 1 \/ kept.delivered THEN fresh ELSE tried))
      BY <1>7, Zenon DEF Http!Eof, Http!Tried, Http!Nothing
    <3>2. (IF kept.tries = 0 - 1 \/ kept.delivered THEN fresh ELSE tried) = fresh
          \/ (kept.tries # -1 /\ (IF kept.tries = 0 - 1 \/ kept.delivered THEN fresh ELSE tried) = tried)
      <4> HIDE DEF kept, fresh, tried
      <4> QED  OBVIOUS
    <3> HIDE DEF fresh, tried
    <3> QED  BY <3>1, <3>2
  <2> HIDE DEF kept
  <2>4. /\ fresh \in Rec /\ fresh.tries = 0 /\ fresh.cursor = kept.cursor /\ fresh.reached = kept.reached
        /\ fresh.pos = kept.pos /\ fresh.from = kept.from
    BY <1>0, <2>2 DEF Rec
  <2>5. kept.tries # -1 => tried \in Rec /\ tried.tries \in 0 .. MaxResumeAttempts
    BY <1>0, <2>1, <2>2 DEF Rec
  <2>6. /\ tried.cursor = kept.cursor /\ tried.reached = kept.reached
        /\ tried.pos = kept.pos /\ tried.from = kept.from
    BY <2>2 DEF Rec
  <2> HIDE DEF fresh, tried
  <2>7. Onward(Http!Again(fresh))
    BY <1>0, <2>1, <2>2, <2>4, PausesOrSettles
  <2>8. kept.tries # -1 => Onward(Http!Again(tried))
    BY <1>0, <2>1, <2>2, <2>5, <2>6, PausesOrSettles
  <2> QED  BY <2>1, <2>3, <2>7, <2>8, MovesOn
<1>8. ASSUME Http!Break PROVE StreamIInv'
  <2> DEFINE off == [stream EXCEPT !.at = "settle"]
             tried == [stream EXCEPT !.tries = @ + 1]
  <2>1. /\ stream \in Rec /\ stream.at = "drain" /\ (stream.tries = -1 \/ stream.tries < MaxResumeAttempts)
        /\ stream.cursor <= stream.pos /\ stream.reached <= stream.pos /\ stream.pos <= Len(log)
    BY <1>8 DEF StreamTyped, ThreadTyped, Behind, Http!Break
  <2>2. Http!Goes(off) \/ (stream.tries # -1 /\ Http!Goes(Http!Again(tried)))
    <3> DEFINE x == IF stream.tries = 0 - 1 THEN off ELSE Http!Again(tried)
    <3>1. Http!Goes(x)
      BY <1>8, Zenon DEF Http!Break, Http!Tried, Http!Nothing
    <3>2. x = off \/ (stream.tries # -1 /\ x = Http!Again(tried))
      <4> HIDE DEF off, tried
      <4> QED  OBVIOUS
    <3> HIDE DEF off, tried, x
    <3> QED  BY <3>1, <3>2
  <2>3. Onward(off)
    BY <1>0, <2>1 DEF Onward, Rec, StreamPlaces
  <2>4. /\ tried.cursor = stream.cursor /\ tried.reached = stream.reached
        /\ tried.pos = stream.pos /\ tried.from = stream.from
    BY <2>1 DEF Rec
  <2>5. stream.tries # -1 => tried \in Rec /\ tried.tries \in 0 .. MaxResumeAttempts
    BY <1>0, <2>1 DEF Rec
  <2> HIDE DEF off, tried
  <2>6. stream.tries # -1 => Onward(Http!Again(tried))
    BY <1>0, <2>1, <2>4, <2>5, PausesOrSettles
  <2> QED  BY <2>1, <2>2, <2>3, <2>6, MovesOn
<1>9. ASSUME Http!Read PROVE StreamIInv'
  <2>1. CacheTyped'
    BY <1>9 DEF StreamTyped, CacheTyped, Http!Read
  <2> DEFINE e == Http!Min(Http!After("listen", stream.pos))
  <2>0. /\ stream.at = "drain" /\ stream' = [stream EXCEPT !.at = "route", !.pos = e, !.reached = e, !.delivered = TRUE]
        /\ last' = e /\ routed' = routed \cup {e} /\ Http!After("listen", stream.pos) # {}
        /\ UNCHANGED <<log, shut, entry, get, sub, cache, lister, ended, notified, cleared, raced>>
    BY <1>9 DEF Http!Read
  <2>a. /\ e \in DOMAIN log /\ e \in Nat /\ stream.pos < e /\ e <= Len(log)
        /\ \A d \in DOMAIN log : log[d] = "listen" /\ stream.pos < d => e <= d
    <3>1. stream.pos \in Nat /\ log \in Seq({"listen", "get"})
      BY DEF StreamTyped, LogTyped, ThreadTyped, Rec
    <3> HIDE DEF e
    <3>2. e = Http!Min(Http!After("listen", stream.pos))
      BY DEF e
    <3> QED  BY <2>0, <3>1, <3>2, NextEvent
  <2> HIDE DEF e
  <2>2. LogTyped'
    BY <1>0, <2>0, <2>a DEF StreamTyped, LogTyped
  <2>3. ThreadTyped'
    BY <2>0, <2>a DEF StreamTyped, Rec, StreamPlaces, ThreadTyped
  <2>4. Behind'
    <3>1. /\ stream'.pos = e /\ stream'.reached = e /\ stream'.cursor = stream.cursor
          /\ stream'.from = stream.from /\ stream.pos \in Nat /\ stream.cursor \in Nat
      BY <2>0 DEF StreamTyped, ThreadTyped, Rec
    <3>2. ASSUME NEW d \in DOMAIN log, log[d] = "listen", stream.from < d, d <= e PROVE d \in routed \cup {e}
      <4>1. d \in Nat
        BY <1>0
      <4>2. CASE d <= stream.pos
        BY <3>2, <4>2 DEF Behind
      <4>3. CASE stream.pos < d
        BY <2>a, <3>2, <4>1, <4>3
      <4> QED  BY <3>1, <4>1, <4>2, <4>3
    <3> QED  BY <1>0, <2>0, <2>a, <3>1, <3>2 DEF Behind
  <2>5. ToldAtEnd'
    BY <2>0 DEF StreamTyped, ThreadTyped, Rec, ToldAtEnd
  <2>6. ClearedFirst'
    BY <2>0 DEF StreamTyped, ThreadTyped, Rec, ClearedFirst
  <2> QED  BY <2>1, <2>2, <2>3, <2>4, <2>5, <2>6 DEF StreamTyped
<1>10. ASSUME Http!Invalidate PROVE StreamIInv'
  <2>1. /\ stream.at = "route" /\ stream' = [stream EXCEPT !.at = "tell"]
        /\ cache' = -1 /\ cleared' = Http!Max({cleared, stream.pos}) /\ raced' = FALSE
        /\ UNCHANGED <<log, shut, entry, last, get, sub, lister, routed, ended, notified>>
    BY <1>10 DEF Http!Invalidate, Http!Evicted, Http!Nothing
  <2>2. stream.pos \in Nat /\ cleared \in Nat /\ notified \in Nat
    BY DEF StreamTyped, ThreadTyped, CacheTyped, Rec
  <2>3. cleared' \in Nat /\ cleared' >= cleared /\ cleared' >= stream.pos
    BY <2>1, <2>2, Greater
  <2>4. LogTyped'
    BY <2>1 DEF StreamTyped, LogTyped
  <2>5. ThreadTyped'
    BY <2>1 DEF StreamTyped, ThreadTyped, Rec, StreamPlaces
  <2>6. CacheTyped'
    BY <1>0, <2>1, <2>3 DEF StreamTyped, CacheTyped
  <2>7. Behind'
    BY <1>0, <2>1 DEF StreamTyped, ThreadTyped, Rec, Behind
  <2>8. ToldAtEnd'
    BY <2>1 DEF StreamTyped, ThreadTyped, Rec, ToldAtEnd
  <2>9. ClearedFirst'
    BY <2>1, <2>2, <2>3 DEF StreamTyped, ThreadTyped, Rec, ClearedFirst
  <2> QED  BY <2>4, <2>5, <2>6, <2>7, <2>8, <2>9 DEF StreamTyped
<1>11. ASSUME Http!Tell PROVE StreamIInv'
  <2>1. LogTyped'
    BY <1>11 DEF StreamTyped, LogTyped, Http!Tell
  <2>2. ThreadTyped'
    BY <1>0, <1>11, Greater DEF StreamTyped, LogTyped, Rec, StreamPlaces, ThreadTyped, Http!Tell
  <2>3. CacheTyped'
    BY <1>0, <1>11, Greater DEF StreamTyped, LogTyped, ThreadTyped, Rec, CacheTyped, Http!Tell
  <2>4. Behind'
    BY <1>0, <1>11, Greater DEF StreamTyped, LogTyped, ThreadTyped, Rec, Behind, Http!Tell
  <2>5. ToldAtEnd'
    BY <1>0, <1>11, Greater DEF StreamTyped, LogTyped, ThreadTyped, Rec, StreamPlaces, ToldAtEnd, Http!Tell
  <2>6. ClearedFirst'
    BY <1>0, <1>11, Greater DEF StreamTyped, LogTyped, CacheTyped, ThreadTyped, Rec, ClearedFirst, Http!Tell
  <2> QED  BY <2>1, <2>2, <2>3, <2>4, <2>5, <2>6 DEF StreamTyped
<1>12. ASSUME Http!InvalidateAgain PROVE StreamIInv'
  <2>1. LogTyped'
    BY <1>12 DEF StreamTyped, LogTyped, Http!InvalidateAgain
  <2>2. ThreadTyped'
    BY <1>0, <1>12 DEF StreamTyped, LogTyped, Rec, StreamPlaces, ThreadTyped, Http!InvalidateAgain, Http!Evicted, Http!Nothing
  <2>3. CacheTyped'
    BY <1>0, <1>12 DEF StreamTyped, LogTyped, ThreadTyped, Rec, CacheTyped, Http!InvalidateAgain, Http!Evicted, Http!Nothing
  <2>4. Behind'
    BY <1>0, <1>12 DEF StreamTyped, LogTyped, ThreadTyped, Rec, Behind, Http!InvalidateAgain, Http!Evicted, Http!Nothing
  <2>5. ToldAtEnd'
    BY <1>0, <1>12 DEF StreamTyped, LogTyped, ThreadTyped, Rec, StreamPlaces, ToldAtEnd, Http!InvalidateAgain, Http!Evicted, Http!Nothing
  <2>6. ClearedFirst'
    BY <1>0, <1>12 DEF StreamTyped, LogTyped, CacheTyped, ThreadTyped, Rec, ClearedFirst, Http!InvalidateAgain, Http!Evicted, Http!Nothing
  <2> QED  BY <2>1, <2>2, <2>3, <2>4, <2>5, <2>6 DEF StreamTyped
<1>13. ASSUME Http!Over PROVE StreamIInv'
  <2>1. ThreadTyped' /\ Behind' /\ ClearedFirst'
    BY <1>13 DEF StreamTyped, ThreadTyped, Behind, ClearedFirst, Http!Over
  <2>2. LogTyped'
    BY <1>0, <1>13 DEF StreamTyped, LogTyped, Http!Over, Http!Resolve, Http!OnEnd
  <2>3. CacheTyped'
    BY <1>0, <1>13 DEF StreamTyped, LogTyped, ThreadTyped, Rec, CacheTyped, Http!Over, Http!Resolve, Http!OnEnd
  <2>4. ToldAtEnd'
    BY <1>0, <1>13 DEF StreamTyped, LogTyped, ThreadTyped, Rec, StreamPlaces, ToldAtEnd, Http!Over, Http!Resolve, Http!OnEnd
  <2> QED  BY <2>1, <2>2, <2>3, <2>4 DEF StreamTyped
<1>14. ASSUME Http!Settle PROVE StreamIInv'
  <2>1. LogTyped'
    BY <1>0, <1>14 DEF StreamTyped, LogTyped, Http!Settle, Http!Settled, Http!Resolve, Http!OnEnd
  <2>2. ThreadTyped'
    BY <1>0, <1>14 DEF StreamTyped, LogTyped, Rec, StreamPlaces, ThreadTyped, Http!Settle, Http!Settled, Http!Resolve, Http!OnEnd
  <2>3. CacheTyped'
    BY <1>0, <1>14 DEF StreamTyped, LogTyped, ThreadTyped, Rec, CacheTyped, Http!Settle, Http!Settled, Http!Resolve, Http!OnEnd
  <2>4. Behind'
    BY <1>0, <1>14 DEF StreamTyped, LogTyped, ThreadTyped, Rec, Behind, Http!Settle, Http!Settled, Http!Resolve, Http!OnEnd
  <2>5. ToldAtEnd'
    BY <1>0, <1>14 DEF StreamTyped, LogTyped, ThreadTyped, Rec, StreamPlaces, ToldAtEnd, Http!Settle, Http!Settled, Http!Resolve, Http!OnEnd
  <2>6. ClearedFirst'
    BY <1>0, <1>14 DEF StreamTyped, LogTyped, CacheTyped, ThreadTyped, Rec, ClearedFirst, Http!Settle, Http!Settled, Http!Resolve, Http!OnEnd
  <2> QED  BY <2>1, <2>2, <2>3, <2>4, <2>5, <2>6 DEF StreamTyped
<1>15. ASSUME Http!Happens PROVE StreamIInv'
  <2>1. ThreadTyped' /\ CacheTyped' /\ ToldAtEnd' /\ ClearedFirst'
    BY <1>15 DEF StreamTyped, ThreadTyped, CacheTyped, ToldAtEnd, ClearedFirst, Http!Happens
  <2>2. LogTyped'
    BY <1>0, <1>15 DEF StreamTyped, LogTyped, Http!Happens
  <2>3. Behind'
    BY <1>0, <1>15 DEF StreamTyped, LogTyped, ThreadTyped, Rec, Behind, Http!Happens
  <2> QED  BY <2>1, <2>2, <2>3 DEF StreamTyped
<1>16. ASSUME Http!GetReads PROVE StreamIInv'
  <2>1. ThreadTyped' /\ CacheTyped' /\ ToldAtEnd' /\ ClearedFirst'
    BY <1>16 DEF StreamTyped, ThreadTyped, CacheTyped, ToldAtEnd, ClearedFirst, Http!GetReads
  <2>2. LogTyped'
    BY <1>0, <1>16, NextEvent DEF StreamTyped, LogTyped, Http!GetReads
  <2>3. Behind'
    BY <1>0, <1>16, NextEvent DEF StreamTyped, LogTyped, ThreadTyped, Rec, Behind, Http!GetReads
  <2> QED  BY <2>1, <2>2, <2>3 DEF StreamTyped
<1>17. ASSUME Http!GetDrops PROVE StreamIInv'
  <2>1. ThreadTyped' /\ CacheTyped' /\ Behind' /\ ToldAtEnd' /\ ClearedFirst'
    BY <1>17 DEF StreamTyped, ThreadTyped, CacheTyped, Behind, ToldAtEnd, ClearedFirst, Http!GetDrops
  <2>2. LogTyped'
    BY <1>0, <1>17 DEF StreamTyped, LogTyped, Http!GetDrops
  <2> QED  BY <2>1, <2>2 DEF StreamTyped
<1>18. ASSUME Http!Ask PROVE StreamIInv'
  <2>1. LogTyped' /\ ThreadTyped' /\ Behind' /\ ToldAtEnd' /\ ClearedFirst'
    BY <1>18 DEF StreamTyped, LogTyped, ThreadTyped, Behind, ToldAtEnd, ClearedFirst, Http!Ask
  <2>2. CacheTyped'
    BY <1>0, <1>18 DEF StreamTyped, LogTyped, ThreadTyped, Rec, CacheTyped, Http!Ask, Http!Nothing
  <2> QED  BY <2>1, <2>2 DEF StreamTyped
<1>19. ASSUME Http!Store PROVE StreamIInv'
  <2>1. LogTyped' /\ ThreadTyped' /\ Behind' /\ ToldAtEnd'
    BY <1>19 DEF StreamTyped, LogTyped, ThreadTyped, Behind, ToldAtEnd, Http!Store
  <2>0. /\ lister' = [lister EXCEPT !.at = "idle"] /\ cache' = lister.value
        /\ raced' = (lister.value < cleared) /\ lister.value \in 0 .. MaxEvents
        /\ UNCHANGED <<sub, notified, cleared, stream>>
    BY <1>19 DEF StreamTyped, CacheTyped, Http!Store
  <2>2. CacheTyped'
    <3>1. lister' \in [at : {"idle", "asked"}, value : 0 .. MaxEvents, n : Nat]
      BY <2>0 DEF StreamTyped, CacheTyped
    <3>2. cache' \in -1 .. MaxEvents
      BY <1>0, <2>0
    <3> QED  BY <2>0, <3>1, <3>2 DEF StreamTyped, CacheTyped
  <2>3. ClearedFirst'
    <3>1. cleared \in Nat
      BY DEF StreamTyped, CacheTyped
    <3>2. cache' # -1 /\ ~raced' => cache' >= cleared'
      <4>1. ~raced' => ~ (lister.value < cleared)
        BY <2>0, Zenon
      <4> QED  BY <1>0, <2>0, <3>1, <4>1
    <3> QED  BY <2>0, <3>2 DEF ClearedFirst
  <2> QED  BY <2>1, <2>2, <2>3 DEF StreamTyped
<1>20. ASSUME Http!Lapse PROVE StreamIInv'
  <2>1. LogTyped' /\ ThreadTyped' /\ Behind' /\ ToldAtEnd'
    BY <1>20 DEF StreamTyped, LogTyped, ThreadTyped, Behind, ToldAtEnd, Http!Lapse
  <2>2. CacheTyped'
    BY <1>0, <1>20 DEF StreamTyped, LogTyped, ThreadTyped, Rec, CacheTyped, Http!Lapse, Http!Nothing
  <2>3. ClearedFirst'
    BY <1>0, <1>20 DEF StreamTyped, LogTyped, CacheTyped, ThreadTyped, Rec, ClearedFirst, Http!Lapse, Http!Nothing
  <2> QED  BY <2>1, <2>2, <2>3 DEF StreamTyped
<1> QED
  BY <1>1, <1>2, <1>3, <1>4, <1>5, <1>6, <1>7, <1>8, <1>9, <1>10, <1>11, <1>12, <1>13, <1>14, <1>15, <1>16, <1>17, <1>18, <1>19, <1>20 DEF Http!Next

\* At the start nothing was read and nothing told.
LEMMA StreamStarts ==
    ASSUME McpAssumption, Http!Init
    PROVE  StreamIInv
<1>1. /\ log = <<>> /\ shut = FALSE /\ entry = FALSE /\ last = 0 /\ get = [pos |-> 0, drops |-> 0]
      /\ sub = "none" /\ cache = -1 /\ lister = [at |-> "idle", value |-> 0, n |-> 0] /\ routed = {}
      /\ ended = 0 /\ notified = 0 /\ cleared = 0 /\ stream = Http!Quiet
  BY DEF Http!Init, Http!Nothing
<1>2. /\ stream \in Rec /\ stream.at = "none" /\ stream.tries = -1 /\ stream.pos = 0 /\ stream.reached = 0
      /\ stream.cursor = 0 /\ stream.from = 0
  BY <1>1 DEF McpAssumption, Http!Quiet, Http!Nothing, Rec, StreamPlaces
<1>3. LogTyped
  <2>1. log \in Seq({"listen", "get"}) /\ Len(log) = 0
    BY <1>1
  <2>2. routed \subseteq DOMAIN log /\ last \in Nat /\ get.pos \in Nat /\ shut \in BOOLEAN /\ entry \in BOOLEAN
    BY <1>1
  <2>3. Len(log) <= MaxEvents
    BY <2>1 DEF McpAssumption
  <2> QED  BY <2>1, <2>2, <2>3 DEF LogTyped
<1>4. CacheTyped
  BY <1>1 DEF McpAssumption, CacheTyped
<1>5. ThreadTyped
  BY <1>2 DEF ThreadTyped
<1>6. Behind /\ ToldAtEnd /\ ClearedFirst
  BY <1>1, <1>2 DEF Behind, ToldAtEnd, ClearedFirst
<1> QED  BY <1>3, <1>4, <1>5, <1>6 DEF StreamIInv, StreamTyped

\* It says what StreamTrue and the type invariant say of the streams.
LEMMA StreamSays ==
    ASSUME McpAssumption, StreamIInv
    PROVE  Http!TypeOK /\ Http!NoGap /\ Http!EndOnce /\ Http!Fresh
<1> USE DEF StreamIInv
<1>1. Http!TypeOK
  BY DEF StreamTyped, LogTyped, ThreadTyped, CacheTyped, Rec, ToldAtEnd, Http!TypeOK, Http!Nothing
<1>2. Http!NoGap
  BY DEF Behind, Http!NoGap, Http!Of
<1>3. Http!EndOnce
  BY DEF ToldAtEnd, Http!EndOnce
<1>4. Http!Fresh
  BY DEF StreamTyped, CacheTyped, ClearedFirst, McpAssumption, Http!Fresh, Http!Nothing
<1> QED  BY <1>1, <1>2, <1>3, <1>4

-----------------------------------------------------------------------------
(* Authorization.                                                            *)

Grantable == SUBSET (Scopes \cup Configured)
Authorization == [server : OAuthServers, scope : Grantable, used : BOOLEAN]
Grant == [server : OAuthServers, scope : Grantable]
Token == [n : Nat, scope : Grantable, said : Grantable, refresh : Nat, stamp : OAuthServers \cup {"none"}]

Place == [at : {"idle", "refresh", "save", "redirect", "state"}, server : OAuthServers \cup {"none"},
          why : {"none", "header", "refused", "step_up"}, token : Token, n : Nat]

OauthTyped ==
    /\ minted \in Seq(Grant)
    /\ asked \in Seq(Authorization)
    /\ tokens \in Token /\ secrets \in [state : 0 .. Len(asked), verifier : 0 .. Len(asked)]
    /\ spent \subseteq DOMAIN minted /\ lost \subseteq spent
    /\ grantor \in [Threads -> Place] /\ \A t \in Threads : grantor[t].n \in 0 .. Len(asked)

\* A token among those that were minted (m): it and its refresh token are one server's.
Backed(m, tok) ==
    /\ tok.n \in DOMAIN m /\ tok.refresh \in DOMAIN m
    /\ m[tok.n].server = tok.stamp /\ m[tok.refresh].server = tok.stamp
    /\ tok.stamp \in OAuthServers
    /\ tok.stamp \notin Silent => tok.scope \subseteq tok.said

\* Nothing is stored, or a token; what is used and what is about to be stored is one.
Held ==
    /\ (tokens.n = 0 /\ tokens.refresh = 0) \/ Backed(minted, tokens)
    /\ \A t \in Threads : grantor[t].at \in {"refresh", "save"} => Backed(minted, grantor[t].token)
    /\ \A t \in Threads : grantor[t].at = "refresh" =>
          grantor[t].token.stamp = grantor[t].server /\ grantor[t].why \in {"header", "refused"}
    /\ \A t \in Threads : grantor[t].at # "idle" => grantor[t].server \in OAuthServers

\* Who is about to store a refresh token that its use will void is alone in having it.
Alone(stored, threads, t, r) ==
    /\ stored.refresh # r
    /\ \A u \in Threads \ {t} : threads[u].at \in {"refresh", "save"} => threads[u].token.refresh # r

Voided ==
    /\ \A r \in spent : minted[r].server \in Rotates
    /\ \A t \in Threads : grantor[t].at = "save" =>
          /\ grantor[t].token.refresh \notin spent
          /\ grantor[t].token.stamp \in Rotates => Alone(tokens, grantor, t, grantor[t].token.refresh)

\* A refresh token that is stored and void was lost, or what replaces it is about to be stored.
Replaced ==
    tokens.refresh \in spent =>
        \/ tokens.refresh \in lost
        \/ \E t \in Threads : grantor[t].at = "save" /\ grantor[t].token.stamp = tokens.stamp

Presented == \A p \in sent : p[2] \in DOMAIN minted /\ minted[p[2]].server = p[1]

\* Who is sent for more scope asks for all it had.
AsksForAll ==
    \A t \in Threads :
        grantor[t].why = "step_up" /\ grantor[t].at = "redirect" /\ grantor[t].server \notin Silent =>
            grantor[t].token.scope \subseteq grantor[t].token.said

OauthIInv == OauthTyped /\ Held /\ Voided /\ Replaced /\ Presented /\ AsksForAll

\* Minting one more token leaves those there are (Mint).
LEMMA MintedStay ==
    ASSUME minted \in Seq(Grant), NEW g \in Grant, minted' = Append(minted, g)
    PROVE  /\ minted' \in Seq(Grant) /\ Len(minted') = Len(minted) + 1 /\ Len(minted) \in Nat
           /\ DOMAIN minted' = 1 .. Len(minted) + 1 /\ DOMAIN minted = 1 .. Len(minted)
           /\ minted'[Len(minted) + 1] = g
           /\ \A i \in DOMAIN minted : minted'[i] = minted[i]
           /\ \A tok : Backed(minted, tok) => Backed(minted', tok)
<1>1. /\ minted' \in Seq(Grant) /\ Len(minted') = Len(minted) + 1 /\ Len(minted) \in Nat
      /\ DOMAIN minted' = 1 .. Len(minted) + 1 /\ DOMAIN minted = 1 .. Len(minted)
      /\ minted'[Len(minted) + 1] = g
      /\ \A i \in DOMAIN minted : minted'[i] = minted[i]
  OBVIOUS
<1>2. ASSUME NEW tok, Backed(minted, tok) PROVE Backed(minted', tok)
  BY <1>1, <1>2 DEF Backed
<1> QED  BY <1>1, <1>2

\* The types of a step that moves one thread and asks for nothing more.
LEMMA TurnsTyped ==
    ASSUME OauthTyped, NEW t \in Threads, NEW r \in Place, grantor' = [grantor EXCEPT ![t] = r],
           r.n \in 0 .. Len(asked), asked' = asked,
           secrets' \in [state : 0 .. Len(asked), verifier : 0 .. Len(asked)],
           minted' = minted, spent' = spent, lost' = lost, tokens' = tokens
    PROVE  OauthTyped'
BY DEF OauthTyped

\* A thread whose place neither refreshes nor saves holds nothing (AuthHeader, Redirect, SaveState ...).
LEMMA Turns ==
    ASSUME OauthIInv, NEW t \in Threads, NEW r \in Place, grantor' = [grantor EXCEPT ![t] = r],
           OauthTyped',
           r.at \in {"idle", "redirect", "state", "refresh"}, grantor[t].at # "save",
           r.at = "refresh" => /\ Backed(minted, r.token) /\ r.token = tokens
                               /\ r.token.stamp = r.server /\ r.why \in {"header", "refused"},
           r.at # "idle" => r.server \in OAuthServers,
           r.at = "redirect" /\ r.why = "step_up" /\ r.server \notin Silent => r.token.scope \subseteq r.token.said,
           minted' = minted, spent' = spent, lost' = lost, sent' = sent, tokens' = tokens
    PROVE  OauthIInv'
<1> USE DEF OauthIInv
<1>1. minted' = minted /\ spent' = spent /\ lost' = lost /\ sent' = sent /\ tokens' = tokens
  OBVIOUS
<1>2. /\ grantor' \in [Threads -> Place] /\ grantor'[t] = r
      /\ \A u \in Threads : u # t => grantor'[u] = grantor[u]
  BY DEF OauthTyped
<1>4. Held'
  BY <1>1, <1>2 DEF Held
<1>5. Voided'
  <2>1. ASSUME NEW u \in Threads, grantor'[u].at = "save", grantor'[u].token.stamp \in Rotates
        PROVE  Alone(tokens', grantor', u, grantor'[u].token.refresh)
    <3>1. u # t /\ grantor'[u] = grantor[u]
      BY <1>2, <2>1
    <3>2. Alone(tokens, grantor, u, grantor[u].token.refresh)
      BY <2>1, <3>1 DEF Voided
    <3>3. r.at = "refresh" => r.token.refresh # grantor[u].token.refresh
      BY <3>2 DEF Alone
    <3> QED  BY <1>1, <1>2, <3>1, <3>2, <3>3 DEF Alone
  <2>2. ASSUME NEW u \in Threads, grantor'[u].at = "save" PROVE grantor'[u].token.refresh \notin spent
    BY <1>2, <2>2 DEF Voided
  <2> QED  BY <1>1, <2>1, <2>2 DEF Voided
<1>6. Replaced'
  BY <1>1, <1>2 DEF Replaced
<1>7. Presented'
  BY <1>1 DEF Presented
<1>8. AsksForAll'
  BY <1>2 DEF AsksForAll
<1> QED  BY <1>4, <1>5, <1>6, <1>7, <1>8

\* What is bound to a server is what is stored, or nothing (_bound_tokens).
LEMMA BoundIsStored ==
    ASSUME McpAssumption, OauthIInv, NEW v \in OAuthServers
    PROVE  LET b == OAuth!BoundTokens(v)
           IN  /\ b \in Token
               /\ b.n # 0 \/ b.refresh # 0 => b = tokens /\ tokens.stamp = v /\ Backed(minted, tokens)
<1> USE DEF OauthIInv
<1>1. OAuth!Nothing \in Token /\ OAuth!Nothing.n = 0 /\ OAuth!Nothing.refresh = 0 /\ OAuth!Nothing.stamp = "none"
  BY DEF OAuth!Nothing, Token, Grantable
<1>2. /\ tokens \in Token /\ minted \in Seq(Grant)
      /\ (tokens.n = 0 /\ tokens.refresh = 0) \/ Backed(minted, tokens)
  BY DEF OauthTyped, Held
<1>3. Backed(minted, tokens) => tokens.n # 0
  BY <1>2 DEF Backed
<1>4. v # "none"
  BY DEF McpAssumption
<1> QED  BY <1>1, <1>2, <1>3, <1>4 DEF OAuth!BoundTokens

\* The steps of a thread that uses the tokens there are, or is sent (AuthHeader, Unauthorized, StepUp, Redirect, SaveState).
LEMMA UsesKeep ==
    ASSUME McpAssumption, OauthIInv, NEW t \in Threads,
           \/ \E v \in OAuthServers : \/ OAuth!AuthHeader(t, v) \/ OAuth!Unauthorized(t, v)
                                      \/ \E x \in Scopes : OAuth!StepUp(t, v, x)
           \/ OAuth!Redirect(t) \/ OAuth!SaveState(t)
    PROVE  OauthIInv'
<1> USE DEF OauthIInv
<1>0. /\ OAuth!Nothing \in Token /\ OAuth!Idle \in Place /\ OAuth!Idle.at = "idle" /\ OAuth!Idle.n = 0
      /\ asked \in Seq(Authorization) /\ Len(asked) \in Nat /\ OauthTyped /\ 0 \in 0 .. Len(asked)
      /\ secrets \in [state : 0 .. Len(asked), verifier : 0 .. Len(asked)]
      /\ grantor \in [Threads -> Place] /\ grantor[t] \in Place /\ grantor[t].n \in 0 .. Len(asked)
  <2>1. OAuth!Nothing \in Token
    BY DEF OAuth!Nothing, Token, Grantable
  <2>2. OAuth!Idle \in Place /\ OAuth!Idle.at = "idle" /\ OAuth!Idle.n = 0
    BY <2>1 DEF OAuth!Idle, Place
  <2>3. /\ asked \in Seq(Authorization)
        /\ secrets \in [state : 0 .. Len(asked), verifier : 0 .. Len(asked)]
        /\ grantor \in [Threads -> Place] /\ grantor[t].n \in 0 .. Len(asked)
    BY DEF OauthTyped
  <2>4. grantor[t] \in Place
    BY <2>3
  <2>6. Len(asked) \in Nat
    BY <2>3
  <2> QED  BY <2>1, <2>2, <2>3, <2>4, <2>6
<1>1. ASSUME NEW v \in OAuthServers, OAuth!AuthHeader(t, v) PROVE OauthIInv'
  <2> DEFINE b == OAuth!BoundTokens(v)
  <2>1. b \in Token /\ b = tokens /\ tokens.stamp = v /\ Backed(minted, tokens)
    BY <1>1, BoundIsStored DEF OAuth!AuthHeader
  <2>2. CASE sent' = sent \cup {<<v, b.n>>} /\ UNCHANGED grantor
    <3>1. UNCHANGED tokens /\ UNCHANGED secrets /\ UNCHANGED minted /\ UNCHANGED spent /\ UNCHANGED asked
          /\ UNCHANGED lost /\ UNCHANGED grantor
      BY <1>1, <2>2 DEF OAuth!AuthHeader
    <3>2. Presented'
      BY <2>1, <2>2, <3>1 DEF Presented, Backed
    <3>3. OauthTyped' /\ Held' /\ Voided' /\ Replaced'
      BY <3>1 DEF OauthTyped, Held, Voided, Replaced
    <3>4. AsksForAll'
      BY <3>1 DEF AsksForAll
    <3> QED  BY <3>2, <3>3, <3>4
  <2>3. CASE OAuth!Set(t, [OAuth!Idle EXCEPT !.at = "refresh", !.server = v, !.why = "header", !.token = b])
             /\ UNCHANGED sent
    <3> DEFINE q == [OAuth!Idle EXCEPT !.at = "refresh", !.server = v, !.why = "header", !.token = b]
    <3> HIDE DEF b
    <3>1. q \in Place /\ q.n = 0 /\ q.at = "refresh" /\ q.token = b /\ q.server = v /\ q.why = "header"
      BY <1>0, <2>1 DEF Place, OAuth!Idle
    <3>2. grantor' = [grantor EXCEPT ![t] = q] /\ minted' = minted /\ spent' = spent /\ lost' = lost /\ sent' = sent /\ tokens' = tokens
          /\ asked' = asked /\ secrets' = secrets /\ grantor[t].at # "save"
      BY <1>0, <1>1, <2>3 DEF OAuth!AuthHeader, OAuth!Set
    <3> HIDE DEF q
    <3>3. OauthTyped'
      BY <1>0, <3>1, <3>2, TurnsTyped
    <3> QED  BY <1>0, <2>1, <3>1, <3>2, <3>3, Turns
  <2> QED  BY <1>1, <2>2, <2>3 DEF OAuth!AuthHeader
<1>2. ASSUME NEW v \in OAuthServers, OAuth!Unauthorized(t, v) PROVE OauthIInv'
  <2> DEFINE b == OAuth!BoundTokens(v)
             q == [OAuth!Idle EXCEPT !.at = IF b.refresh = 0 THEN "redirect" ELSE "refresh",
                                     !.server = v, !.why = "refused", !.token = b]
  <2>1. b \in Token /\ (b.refresh # 0 => b = tokens /\ tokens.stamp = v /\ Backed(minted, tokens))
    BY BoundIsStored
  <2>2. grantor' = [grantor EXCEPT ![t] = q] /\ minted' = minted /\ spent' = spent /\ lost' = lost /\ sent' = sent /\ tokens' = tokens
        /\ asked' = asked /\ secrets' = secrets /\ grantor[t].at # "save"
    BY <1>0, <1>2 DEF OAuth!Unauthorized, OAuth!Set
  <2> HIDE DEF b
  <2>3. q \in Place /\ q.n = 0 /\ q.at \in {"redirect", "refresh"} /\ (q.at = "refresh" => b.refresh # 0)
        /\ q.token = b /\ q.server = v /\ q.why = "refused"
    BY <1>0, <2>1 DEF Place, OAuth!Idle
  <2> HIDE DEF q
  <2>4. OauthTyped'
    BY <1>0, <2>2, <2>3, TurnsTyped
  <2> QED  BY <1>0, <2>1, <2>2, <2>3, <2>4, Turns
<1>3. ASSUME NEW v \in OAuthServers, NEW x \in Scopes, OAuth!StepUp(t, v, x) PROVE OauthIInv'
  <2> DEFINE b == OAuth!BoundTokens(v)
             up == [b EXCEPT !.said = Configured \cup b.said \cup {x}]
             q == [OAuth!Idle EXCEPT !.at = "redirect", !.server = v, !.why = "step_up", !.token = up]
  <2>1. b \in Token /\ b = tokens /\ tokens.stamp = v /\ Backed(minted, tokens)
    BY <1>3, BoundIsStored DEF OAuth!StepUp
  <2>2. grantor' = [grantor EXCEPT ![t] = q] /\ minted' = minted /\ spent' = spent /\ lost' = lost /\ sent' = sent /\ tokens' = tokens
        /\ asked' = asked /\ secrets' = secrets /\ grantor[t].at # "save"
    BY <1>0, <1>3 DEF OAuth!StepUp, OAuth!Set, OAuth!Union
  <2> HIDE DEF b
  <2>3. up \in Token /\ up.scope = b.scope /\ up.said = Configured \cup b.said \cup {x}
    BY <2>1 DEF Token, Grantable
  <2> HIDE DEF up
  <2>4. q \in Place /\ q.n = 0 /\ q.at = "redirect" /\ q.token = up /\ q.server = v
    BY <1>0, <2>3 DEF Place, OAuth!Idle
  <2>5. v \notin Silent => up.scope \subseteq up.said
    BY <2>1, <2>3 DEF Backed
  <2> HIDE DEF q
  <2>6. OauthTyped'
    BY <1>0, <2>2, <2>4, TurnsTyped
  <2> QED  BY <1>0, <2>2, <2>4, <2>5, <2>6, Turns
<1>4. ASSUME OAuth!Redirect(t) PROVE OauthIInv'
  <2> DEFINE sc == IF grantor[t].why = "step_up" THEN grantor[t].token.said ELSE Configured
             a == [server |-> grantor[t].server, used |-> FALSE, scope |-> sc]
             q == [grantor[t] EXCEPT !.at = "state", !.n = Len(asked')]
  <2>1. /\ grantor[t].at = "redirect" /\ asked' = Append(asked, a)
        /\ secrets' = [secrets EXCEPT !.verifier = Len(asked')] /\ grantor' = [grantor EXCEPT ![t] = q]
        /\ minted' = minted /\ spent' = spent /\ lost' = lost /\ sent' = sent /\ tokens' = tokens
    BY <1>4 DEF OAuth!Redirect, OAuth!Set
  <2>2. grantor[t].server \in OAuthServers
    BY <2>1 DEF Held
  <2>3. sc \in Grantable
    BY <1>0 DEF Place, Token, Grantable
  <2> HIDE DEF sc
  <2>4. a \in Authorization
    BY <2>2, <2>3 DEF Authorization
  <2> HIDE DEF a
  <2>5. asked' \in Seq(Authorization) /\ Len(asked') = Len(asked) + 1
    BY <1>0, <2>1, <2>4
  <2>6. q \in Place /\ q.at = "state" /\ q.n = Len(asked') /\ q.server = grantor[t].server
    <3>1. Len(asked') \in Nat
      BY <1>0, <2>5
    <3> QED  BY <1>0, <3>1 DEF Place
  <2> HIDE DEF q
  <2>7. OauthTyped'
    <3>1. secrets' \in [state : 0 .. Len(asked'), verifier : 0 .. Len(asked')]
      BY <1>0, <2>1, <2>5
    <3>2. \A u \in Threads : grantor'[u].n \in 0 .. Len(asked')
      BY <1>0, <2>1, <2>5, <2>6 DEF OauthTyped
    <3> QED  BY <2>1, <2>5, <2>6, <3>1, <3>2 DEF OauthTyped
  <2> QED  BY <2>1, <2>2, <2>6, <2>7, Turns
<1>5. ASSUME OAuth!SaveState(t) PROVE OauthIInv'
  <2>1. grantor' = [grantor EXCEPT ![t] = OAuth!Idle] /\ minted' = minted /\ spent' = spent /\ lost' = lost /\ sent' = sent /\ tokens' = tokens
        /\ asked' = asked /\ secrets' = [secrets EXCEPT !.state = grantor[t].n] /\ grantor[t].at # "save"
    BY <1>5 DEF OAuth!SaveState, OAuth!Set
  <2>2. secrets' \in [state : 0 .. Len(asked), verifier : 0 .. Len(asked)]
    BY <1>0, <2>1
  <2>3. OauthTyped'
    BY <1>0, <2>1, <2>2, TurnsTyped
  <2> QED  BY <1>0, <2>1, <2>3, Turns
<1> QED  BY <1>1, <1>2, <1>3, <1>4, <1>5

\* What a thread was about to store is stored (Save).
LEMMA SaveKeeps ==
    ASSUME McpAssumption, OauthIInv, NEW t \in Threads, OAuth!Save(t)
    PROVE  OauthIInv'
<1> USE DEF OauthIInv
<1>1. /\ grantor[t].at = "save" /\ tokens' = grantor[t].token /\ grantor' = [grantor EXCEPT ![t] = OAuth!Idle]
      /\ secrets' = secrets /\ minted' = minted /\ spent' = spent /\ asked' = asked /\ sent' = sent /\ lost' = lost
  BY DEF OAuth!Save, OAuth!Set
<1>2. /\ OAuth!Idle \in Place /\ OAuth!Idle.at = "idle" /\ OAuth!Idle.n = 0
      /\ grantor \in [Threads -> Place] /\ grantor[t] \in Place /\ grantor[t].token \in Token
      /\ Backed(minted, grantor[t].token) /\ grantor[t].token.refresh \notin spent
  <2>1. OAuth!Nothing \in Token
    BY DEF OAuth!Nothing, Token, Grantable
  <2>2. OAuth!Idle \in Place /\ OAuth!Idle.at = "idle" /\ OAuth!Idle.n = 0
    BY <2>1 DEF OAuth!Idle, Place
  <2>3. grantor \in [Threads -> Place]
    BY DEF OauthTyped
  <2>4. grantor[t] \in Place
    BY <2>3
  <2>5. grantor[t].token \in Token
    BY <2>4 DEF Place
  <2> QED  BY <1>1, <2>2, <2>3, <2>4, <2>5 DEF Held, Voided
<1>3. /\ grantor' \in [Threads -> Place] /\ grantor'[t] = OAuth!Idle
      /\ \A u \in Threads : u # t => grantor'[u] = grantor[u]
  BY <1>1, <1>2
<1>4. OauthTyped'
  <2>1. asked \in Seq(Authorization)
    BY DEF OauthTyped
  <2>2. 0 \in 0 .. Len(asked)
    BY <2>1
  <2> QED  BY <1>1, <1>2, <1>3, <2>2 DEF OauthTyped
<1>5. Held'
  BY <1>1, <1>2, <1>3 DEF Held
<1>6. Voided'
  <2>1. ASSUME NEW u \in Threads, grantor'[u].at = "save", grantor'[u].token.stamp \in Rotates
        PROVE  Alone(tokens', grantor', u, grantor'[u].token.refresh)
    <3>1. u # t /\ grantor'[u] = grantor[u]
      BY <1>2, <1>3, <2>1
    <3>2. Alone(tokens, grantor, u, grantor[u].token.refresh)
      BY <2>1, <3>1 DEF Voided
    <3>3. grantor[t].token.refresh # grantor[u].token.refresh
      BY <1>1, <3>1, <3>2 DEF Alone
    <3> QED  BY <1>1, <1>2, <1>3, <3>1, <3>2, <3>3 DEF Alone
  <2>2. ASSUME NEW u \in Threads, grantor'[u].at = "save" PROVE grantor'[u].token.refresh \notin spent
    BY <1>2, <1>3, <2>2 DEF Voided
  <2> QED  BY <1>1, <2>1, <2>2 DEF Voided
<1>7. Replaced'
  BY <1>1, <1>2 DEF Replaced
<1>8. Presented'
  BY <1>1 DEF Presented
<1>9. AsksForAll'
  BY <1>2, <1>3 DEF AsksForAll
<1> QED  BY <1>4, <1>5, <1>6, <1>7, <1>8, <1>9

\* Where the next of a sequence is.
LEMMA Beyond ==
    \A k \in Nat : k + 1 \notin 1 .. k /\ 0 \notin 1 .. k /\ 0 # k + 1 /\ 1 .. k \subseteq 1 .. k + 1
OBVIOUS

\* Thread t has minted g, its request made refresh tokens void, and it is at r now: what it is
\* to store, if the answer arrived.
Mints(t, r, g, void) ==
    /\ t \in Threads /\ r \in Place /\ g \in Grant /\ void \subseteq DOMAIN minted
    /\ grantor[t].at \in {"idle", "refresh"} /\ grantor' = [grantor EXCEPT ![t] = r]
    /\ minted' = Append(minted, g) /\ spent' = spent \cup void /\ sent' = sent /\ tokens' = tokens
    /\ lost' = IF r.at = "save" THEN lost ELSE lost \cup void
    /\ r.at \in {"save", "idle", "redirect"} /\ r.why # "step_up"
    /\ r.at # "idle" => r.server \in OAuthServers
    /\ \A i \in void : minted[i].server = g.server /\ g.server \in Rotates
    /\ \A i \in void, u \in Threads \ {t} : grantor[u].at = "save" => grantor[u].token.refresh # i
    /\ r.at = "save" =>
           /\ Backed(minted', r.token) /\ r.token.stamp = g.server /\ r.token.refresh \notin spent \cup void
           /\ g.server \in Rotates => r.token.refresh = Len(minted) + 1

\* Its old refresh token is void, and replaced by what it is about to store, or lost with
\* the answer (Refresh, finish).
LEMMA MintKeeps ==
    ASSUME McpAssumption, OauthIInv, NEW t, NEW r, NEW g, NEW void, Mints(t, r, g, void), OauthTyped'
    PROVE  OauthIInv'
<1>0. /\ t \in Threads /\ r \in Place /\ g \in Grant /\ void \subseteq DOMAIN minted
      /\ grantor[t].at \in {"idle", "refresh"} /\ grantor' = [grantor EXCEPT ![t] = r]
      /\ minted' = Append(minted, g) /\ spent' = spent \cup void /\ sent' = sent /\ tokens' = tokens
      /\ lost' = IF r.at = "save" THEN lost ELSE lost \cup void
      /\ r.at \in {"save", "idle", "redirect"} /\ r.why # "step_up"
      /\ r.at # "idle" => r.server \in OAuthServers
  BY DEF Mints
<1>a. /\ \A i \in void : minted[i].server = g.server /\ g.server \in Rotates
      /\ \A i \in void, u \in Threads \ {t} : grantor[u].at = "save" => grantor[u].token.refresh # i
  BY DEF Mints
<1>b. r.at = "save" =>
          /\ Backed(minted', r.token) /\ r.token.stamp = g.server /\ r.token.refresh \notin spent \cup void
          /\ g.server \in Rotates => r.token.refresh = Len(minted) + 1
  BY DEF Mints
<1> USE DEF OauthIInv
<1>1. /\ minted \in Seq(Grant) /\ tokens \in Token /\ grantor \in [Threads -> Place]
  BY DEF OauthTyped
<1>2. /\ Len(minted) \in Nat /\ DOMAIN minted' = 1 .. Len(minted) + 1 /\ DOMAIN minted = 1 .. Len(minted)
      /\ minted'[Len(minted) + 1] = g /\ \A i \in DOMAIN minted : minted'[i] = minted[i]
      /\ \A tok : Backed(minted, tok) => Backed(minted', tok)
  BY <1>0, <1>1, MintedStay
<1>3. grantor'[t] = r /\ \A u \in Threads : u # t => grantor'[u] = grantor[u]
  BY <1>0, <1>1
<1>4. \A tok : Backed(minted, tok) => tok.refresh # Len(minted) + 1
  <2>2. Len(minted) + 1 \notin DOMAIN minted
    BY <1>2, Beyond, Zenon
  <2> QED  BY <2>2, Zenon DEF Backed
<1>5. tokens.refresh # Len(minted) + 1 /\ (tokens.refresh \in DOMAIN minted => Backed(minted, tokens))
  <2>1. CASE tokens.refresh = 0
    <3>1. 0 \notin DOMAIN minted /\ 0 # Len(minted) + 1
      BY <1>2, Beyond
    <3> QED  BY <2>1, <3>1
  <2>2. CASE Backed(minted, tokens)
    BY <1>4, <2>2
  <2> QED  BY <2>1, <2>2 DEF Held
<1>6. Held'
  BY <1>0, <1>a, <1>b, <1>2, <1>3 DEF Held
<1>7. Voided'
  <2>1. ASSUME NEW i \in spent \cup void PROVE minted'[i].server \in Rotates
    <3>1. i \in DOMAIN minted
      BY <1>0, <2>1 DEF OauthTyped
    <3> QED  BY <1>a, <1>2, <2>1, <3>1 DEF Voided
  <2>2. ASSUME NEW u \in Threads, grantor'[u].at = "save"
        PROVE  grantor'[u].token.refresh \notin spent \cup void
    BY <1>0, <1>a, <1>b, <1>3, <2>2 DEF Voided
  <2>3. ASSUME NEW u \in Threads, grantor'[u].at = "save", grantor'[u].token.stamp \in Rotates
        PROVE  Alone(tokens', grantor', u, grantor'[u].token.refresh)
    <3>1. CASE u = t
      <4>1. r.at = "save" /\ r.token.refresh = Len(minted) + 1
        BY <1>0, <1>b, <1>3, <2>3, <3>1
      <4>2. \A w \in Threads \ {t} : grantor[w].at \in {"refresh", "save"} => grantor[w].token.refresh # Len(minted) + 1
        BY <1>4 DEF Held
      <4>3. \A w \in Threads \ {u} : grantor'[w] = grantor[w]
        BY <1>3, <3>1
      <4>4. grantor'[u].token.refresh = Len(minted) + 1
        BY <1>3, <3>1, <4>1
      <4> QED  BY <1>0, <1>5, <3>1, <4>2, <4>3, <4>4 DEF Alone
    <3>2. CASE u # t
      <4>1. grantor'[u] = grantor[u] /\ Alone(tokens, grantor, u, grantor[u].token.refresh)
            /\ Backed(minted, grantor[u].token)
        BY <1>3, <2>3, <3>2 DEF Voided, Held
      <4>2. r.at = "save" => r.token.refresh # grantor[u].token.refresh
        <5>1. CASE g.server \in Rotates
          BY <1>b, <1>4, <4>1, <5>1
        <5>2. CASE g.server \notin Rotates
          <6>1. r.at = "save" => minted'[r.token.refresh].server = g.server
            BY <1>b DEF Backed
          <6>2. minted'[grantor[u].token.refresh].server \in Rotates
            BY <1>2, <2>3, <4>1 DEF Backed
          <6> QED  BY <5>2, <6>1, <6>2
        <5> QED  BY <5>1, <5>2
      <4> QED  BY <1>0, <1>3, <4>1, <4>2 DEF Alone
    <3> QED  BY <3>1, <3>2
  <2> QED  BY <1>0, <2>1, <2>2, <2>3 DEF Voided
<1>8. Replaced'
  <2> SUFFICES ASSUME tokens.refresh \in spent \cup void, tokens.refresh \notin lost'
      PROVE  \E u \in Threads : grantor'[u].at = "save" /\ grantor'[u].token.stamp = tokens.stamp
    BY <1>0 DEF Replaced
  <2>1. CASE tokens.refresh \in spent
    BY <1>0, <1>3, <2>1 DEF Replaced
  <2>2. CASE tokens.refresh \in void
    <3>1. r.at = "save" /\ tokens.refresh \in DOMAIN minted /\ minted[tokens.refresh].server = g.server
      BY <1>0, <1>a, <2>2
    <3>2. Backed(minted, tokens)
      BY <1>5, <3>1
    <3>3. tokens.stamp = g.server
      BY <3>1, <3>2 DEF Backed
    <3>4. grantor'[t].at = "save" /\ grantor'[t].token.stamp = g.server
      BY <1>b, <1>3, <3>1
    <3> QED  BY <1>0, <3>3, <3>4
  <2> QED  BY <2>1, <2>2
<1>9. Presented'
  <2>1. ASSUME NEW p \in sent PROVE p[2] \in DOMAIN minted' /\ minted'[p[2]].server = p[1]
    <3>1. p[2] \in DOMAIN minted /\ minted[p[2]].server = p[1]
      BY DEF Presented
    <3>3. DOMAIN minted \subseteq DOMAIN minted'
      BY <1>2, Beyond, Zenon
    <3> QED  BY <1>2, <3>1, <3>3, Zenon
  <2> QED  BY <1>0, <2>1 DEF Presented
<1>10. AsksForAll'
  BY <1>0, <1>3 DEF AsksForAll
<1> QED  BY <1>6, <1>7, <1>8, <1>9, <1>10

\* A refresh, whether it is answered, refused or lost (_try_refresh).
LEMMA RefreshKeeps ==
    ASSUME McpAssumption, OauthIInv, NEW t \in Threads
    PROVE  OAuth!Refresh(t) => OauthIInv'
<1>0. SUFFICES ASSUME OAuth!Refresh(t) PROVE OauthIInv'
  OBVIOUS
<1> USE DEF OauthIInv
<1> DEFINE k == grantor[t]
           v == k.server
           i == k.token.refresh
           n == Len(minted) + 1
           void == IF v \in Rotates THEN {i} ELSE {}
           g == [server |-> v, scope |-> minted[i].scope]
           kept == [n |-> n, scope |-> minted[i].scope, stamp |-> v,
                    said |-> IF v \in Silent THEN {} ELSE minted[i].scope,
                    refresh |-> OAuth!KeptRefresh(IF v \in Rotates THEN n ELSE 0, i)]
           saving == [k EXCEPT !.at = "save", !.token = kept]
           left == IF k.why = "header" THEN OAuth!Idle ELSE [k EXCEPT !.at = "redirect", !.token = OAuth!Nothing]
<1>1. /\ k.at = "refresh" /\ tokens' = tokens /\ secrets' = secrets /\ asked' = asked /\ sent' = sent
      /\ \/ /\ i \notin spent /\ minted' = Append(minted, g) /\ spent' = spent \cup void
            /\ \/ grantor' = [grantor EXCEPT ![t] = saving] /\ lost' = lost
               \/ grantor' = [grantor EXCEPT ![t] = left] /\ lost' = lost \cup void
         \/ grantor' = [grantor EXCEPT ![t] = left] /\ minted' = minted /\ spent' = spent /\ lost' = lost
  BY <1>0 DEF OAuth!Refresh, OAuth!Set, OAuth!NotRefreshed, OAuth!Mint
<1>2. /\ minted \in Seq(Grant) /\ grantor \in [Threads -> Place] /\ asked \in Seq(Authorization)
      /\ secrets \in [state : 0 .. Len(asked), verifier : 0 .. Len(asked)] /\ tokens \in Token
      /\ spent \subseteq DOMAIN minted /\ lost \subseteq spent
      /\ \A u \in Threads : grantor[u].n \in 0 .. Len(asked)
  BY DEF OauthTyped
<1>3. /\ k \in Place /\ k.token \in Token /\ i \in Nat /\ Len(minted) \in Nat /\ n \in Nat /\ 0 \in 0 .. Len(asked)
      /\ k.n \in 0 .. Len(asked)
  <2>1. k \in Place
    BY <1>2
  <2>2. k.token \in Token
    BY <2>1 DEF Place
  <2> QED  BY <1>2, <2>1, <2>2 DEF Token
<1>4. /\ Backed(minted, k.token) /\ k.token.stamp = v /\ v \in OAuthServers /\ k.why \in {"header", "refused"}
      /\ i \in DOMAIN minted /\ minted[i].server = v
  BY <1>1 DEF Held, Backed
<1>5. minted[i] \in Grant /\ minted[i].scope \in Grantable
  <2>1. minted[i] \in Grant
    BY <1>2, <1>4
  <2> QED  BY <2>1 DEF Grant
<1>6. g \in Grant /\ g.server = v
  BY <1>4, <1>5 DEF Grant
<1>7. /\ left \in Place /\ left.n \in 0 .. Len(asked) /\ left.at \in {"idle", "redirect"} /\ left.why # "step_up"
      /\ left.at = "redirect" => left.server = v
  <2>1. OAuth!Nothing \in Token
    BY DEF OAuth!Nothing, Token, Grantable
  <2>2. OAuth!Idle \in Place /\ OAuth!Idle.at = "idle" /\ OAuth!Idle.n = 0 /\ OAuth!Idle.why = "none"
    BY <2>1 DEF OAuth!Idle, Place
  <2>3. [k EXCEPT !.at = "redirect", !.token = OAuth!Nothing] \in Place
    BY <1>3, <2>1 DEF Place
  <2> QED  BY <1>3, <1>4, <2>2, <2>3 DEF Place
<1>8. kept \in Token /\ saving \in Place
  <2>1. OAuth!KeptRefresh(IF v \in Rotates THEN n ELSE 0, i) \in Nat
    BY <1>3 DEF OAuth!KeptRefresh
  <2>2. kept \in Token
    BY <1>3, <1>4, <1>5, <2>1 DEF Token, Grantable
  <2> HIDE DEF kept
  <2> QED  BY <1>3, <2>2 DEF Place
<1>9. /\ saving.at = "save" /\ saving.token = kept /\ saving.n = k.n /\ saving.why = k.why /\ saving.server = v
      /\ kept.n = n /\ kept.stamp = v /\ (v \notin Silent => kept.scope \subseteq kept.said)
      /\ kept.refresh = IF v \in Rotates THEN n ELSE i
  <2>1. n # 0
    BY <1>3
  <2>2. saving.at = "save" /\ saving.token = kept /\ saving.n = k.n /\ saving.why = k.why /\ saving.server = v
    BY <1>3 DEF Place
  <2> QED  BY <2>1, <2>2 DEF OAuth!KeptRefresh
<1> HIDE DEF left, kept, saving, g
<1>10. ASSUME minted' = minted \/ minted' = Append(minted, g), spent' = spent \/ spent' = spent \cup void,
              lost' = lost \/ (lost' = lost \cup void /\ spent' = spent \cup void),
              NEW r \in Place, r.n \in 0 .. Len(asked), grantor' = [grantor EXCEPT ![t] = r]
       PROVE  OauthTyped'
  <2>1. minted' \in Seq(Grant) /\ DOMAIN minted \subseteq DOMAIN minted'
    <3>1. CASE minted' = minted
      BY <1>2, <3>1
    <3>2. CASE minted' = Append(minted, g)
      BY <1>2, <1>6, <3>2, MintedStay
    <3> QED  BY <1>10, <3>1, <3>2
  <2>2. spent' \subseteq DOMAIN minted' /\ lost' \subseteq spent'
    BY <1>2, <1>4, <1>10, <2>1
  <2>3. grantor' \in [Threads -> Place] /\ \A u \in Threads : grantor'[u].n \in 0 .. Len(asked)
    BY <1>2, <1>10
  <2> QED  BY <1>1, <1>2, <2>1, <2>2, <2>3 DEF OauthTyped
<1>11. \A j \in void : minted[j].server = g.server /\ g.server \in Rotates
  BY <1>4, <1>6
<1>12. \A j \in void, u \in Threads \ {t} : grantor[u].at = "save" => grantor[u].token.refresh # j
  <2> SUFFICES ASSUME v \in Rotates, NEW u \in Threads \ {t}, grantor[u].at = "save", grantor[u].token.refresh = i
      PROVE  FALSE
    OBVIOUS
  <2>1. grantor[u].token.stamp \in Rotates
    BY <1>4 DEF Held, Backed
  <2> QED  BY <1>1, <2>1 DEF Voided, Alone
<1>13. CASE /\ i \notin spent /\ minted' = Append(minted, g) /\ spent' = spent \cup void
            /\ grantor' = [grantor EXCEPT ![t] = saving] /\ lost' = lost
  <2>1. OauthTyped'
    BY <1>3, <1>8, <1>9, <1>10, <1>13
  <2>2. /\ DOMAIN minted' = 1 .. n /\ DOMAIN minted = 1 .. Len(minted) /\ minted'[n] = g
        /\ \A j \in DOMAIN minted : minted'[j] = minted[j]
    BY <1>2, <1>6, <1>13, MintedStay
  <2>3. n \in DOMAIN minted' /\ i \in DOMAIN minted' /\ n \notin spent \cup void
    BY <1>2, <1>3, <1>4, <2>2
  <2>4. Backed(minted', kept)
    BY <1>4, <1>6, <1>9, <2>2, <2>3 DEF Backed
  <2>5. kept.refresh \notin spent \cup void
    BY <1>9, <1>13, <2>3
  <2>6. /\ void \in SUBSET DOMAIN minted
        /\ (g.server \in Rotates => kept.refresh = n) /\ saving.why # "step_up"
    BY <1>4, <1>6, <1>9, <1>13
  <2>7. /\ grantor[t].at \in {"idle", "refresh"} /\ saving.at \in {"save", "idle", "redirect"}
        /\ (saving.at # "idle" => saving.server \in OAuthServers) /\ saving \in Place /\ g \in Grant
        /\ lost' = (IF saving.at = "save" THEN lost ELSE lost \cup void) /\ sent' = sent /\ tokens' = tokens
    BY <1>1, <1>4, <1>6, <1>8, <1>9, <1>13
  <2>8. saving.at = "save" =>
            /\ Backed(minted', saving.token) /\ saving.token.stamp = g.server
            /\ saving.token.refresh \notin spent \cup void
            /\ (g.server \in Rotates => saving.token.refresh = Len(minted) + 1)
    BY <1>6, <1>9, <2>4, <2>5, <2>6
  <2> HIDE DEF void, OauthIInv
  <2>9. Mints(t, saving, g, void)
    BY <1>11, <1>12, <1>13, <2>6, <2>7, <2>8 DEF Mints
  <2> QED  BY <2>1, <2>9, MintKeeps
<1>14. CASE /\ i \notin spent /\ minted' = Append(minted, g) /\ spent' = spent \cup void
            /\ grantor' = [grantor EXCEPT ![t] = left] /\ lost' = lost \cup void
  <2>1. OauthTyped'
    BY <1>3, <1>7, <1>10, <1>14
  <2>2. void \in SUBSET DOMAIN minted /\ left.at # "save"
        /\ (left.at # "idle" => left.server \in OAuthServers)
    BY <1>4, <1>7
  <2>3. /\ grantor[t].at \in {"idle", "refresh"} /\ left.at \in {"save", "idle", "redirect"}
        /\ left \in Place /\ g \in Grant /\ left.why # "step_up"
        /\ sent' = sent /\ tokens' = tokens /\ lost' = IF left.at = "save" THEN lost ELSE lost \cup void
    BY <1>1, <1>6, <1>7, <1>14
  <2> HIDE DEF void, OauthIInv
  <2>4. Mints(t, left, g, void)
    BY <1>11, <1>12, <1>14, <2>2, <2>3 DEF Mints
  <2> QED  BY <2>1, <2>4, MintKeeps
<1>15. CASE grantor' = [grantor EXCEPT ![t] = left] /\ minted' = minted /\ spent' = spent /\ lost' = lost
  <2>1. OauthTyped'
    BY <1>3, <1>7, <1>10, <1>15
  <2> QED  BY <1>1, <1>4, <1>7, <1>15, <2>1, Turns
<1> QED  BY <1>1, <1>13, <1>14, <1>15

\* The code of an authorization is exchanged (finish).
LEMMA FinishKeeps ==
    ASSUME McpAssumption, OauthIInv, NEW t \in Threads, NEW n \in DOMAIN asked
    PROVE  OAuth!Finish(t, n) => OauthIInv'
<1>0. SUFFICES ASSUME OAuth!Finish(t, n) PROVE OauthIInv'
  OBVIOUS
<1> DEFINE v == asked[n].server
           m == Len(minted) + 1
           g == [server |-> v, scope |-> asked[n].scope]
           kept == [n |-> Len(minted'), scope |-> asked[n].scope, stamp |-> v,
                    said |-> IF v \in Silent THEN {} ELSE asked[n].scope, refresh |-> Len(minted')]
           saving == [OAuth!Idle EXCEPT !.at = "save", !.server = v, !.token = kept]
<1>1. /\ grantor[t] = OAuth!Idle /\ asked' = [asked EXCEPT ![n].used = TRUE] /\ minted' = Append(minted, g)
      /\ grantor' = [grantor EXCEPT ![t] = saving]
      /\ tokens' = tokens /\ secrets' = secrets /\ spent' = spent /\ sent' = sent /\ lost' = lost
  BY <1>0 DEF OAuth!Finish, OAuth!Mint, OAuth!Set
<1>2. /\ minted \in Seq(Grant) /\ grantor \in [Threads -> Place] /\ asked \in Seq(Authorization)
      /\ secrets \in [state : 0 .. Len(asked), verifier : 0 .. Len(asked)] /\ tokens \in Token
      /\ spent \subseteq DOMAIN minted /\ lost \subseteq spent
      /\ \A u \in Threads : grantor[u].n \in 0 .. Len(asked)
  BY DEF OauthIInv, OauthTyped
<1>3. asked[n] \in Authorization /\ v \in OAuthServers /\ asked[n].scope \in Grantable
  <2>1. asked[n] \in Authorization
    BY <1>2
  <2> QED  BY <2>1 DEF Authorization
<1>4. g \in Grant /\ g.server = v
  BY <1>3 DEF Grant
<1>5. /\ OAuth!Idle \in Place /\ OAuth!Idle.at = "idle" /\ OAuth!Idle.n = 0 /\ OAuth!Idle.why = "none"
  <2>1. OAuth!Nothing \in Token
    BY DEF OAuth!Nothing, Token, Grantable
  <2> QED  BY <2>1 DEF OAuth!Idle, Place
<1>6. /\ Len(minted) \in Nat /\ DOMAIN minted' = 1 .. m /\ DOMAIN minted = 1 .. Len(minted)
      /\ minted' \in Seq(Grant) /\ Len(minted') = m /\ minted'[m] = g
  <2> HIDE DEF g
  <2> QED  BY <1>1, <1>2, <1>4, MintedStay
<1>7. kept \in Token /\ saving \in Place
  <2>1. kept \in Token
    BY <1>3, <1>6 DEF Token, Grantable
  <2> HIDE DEF kept
  <2> QED  BY <1>3, <1>5, <2>1 DEF Place
<1>8. /\ saving.at = "save" /\ saving.token = kept /\ saving.n = 0 /\ saving.why = "none" /\ saving.server = v
      /\ kept.n = m /\ kept.stamp = v /\ (v \notin Silent => kept.scope \subseteq kept.said) /\ kept.refresh = m
  BY <1>6 DEF OAuth!Idle
<1>9. OauthTyped'
  <2>1. asked' \in Seq(Authorization) /\ Len(asked') = Len(asked)
    <3>1. [asked[n] EXCEPT !.used = TRUE] \in Authorization
      BY <1>3 DEF Authorization
    <3>2. asked' = [asked EXCEPT ![n] = [asked[n] EXCEPT !.used = TRUE]]
      BY <1>1
    <3> QED  BY <1>2, <3>1, <3>2
  <2> HIDE DEF saving
  <2>2. grantor' \in [Threads -> Place] /\ \A u \in Threads : grantor'[u].n \in 0 .. Len(asked)
    BY <1>1, <1>2, <1>7, <1>8
  <2>3. spent \subseteq DOMAIN minted'
    BY <1>2, <1>6
  <2> QED  BY <1>1, <1>2, <1>6, <2>1, <2>2, <2>3 DEF OauthTyped
<1>10. m \in DOMAIN minted' /\ m \notin spent
  BY <1>2, <1>6
<1> HIDE DEF kept, saving, g
<1>11. Backed(minted', kept)
  BY <1>3, <1>4, <1>6, <1>8, <1>10 DEF Backed
<1>12. Mints(t, saving, g, {})
  BY <1>1, <1>3, <1>4, <1>5, <1>7, <1>8, <1>10, <1>11 DEF Mints
<1> QED  BY <1>9, <1>12, MintKeeps

\* Every step of an authorization keeps it.
LEMMA OauthKeeps ==
    ASSUME McpAssumption, OauthIInv, OAuth!Next
    PROVE  OauthIInv'
BY UsesKeep, RefreshKeeps, SaveKeeps, FinishKeeps, Zenon DEF OAuth!Next

\* At the start nothing is stored.
LEMMA OauthStarts ==
    ASSUME McpAssumption, OAuth!Init
    PROVE  OauthIInv
<1>1. /\ tokens = OAuth!Nothing /\ secrets = [state |-> 0, verifier |-> 0] /\ minted = <<>> /\ spent = {}
      /\ lost = {} /\ asked = <<>> /\ grantor = [t \in Threads |-> OAuth!Idle] /\ sent = {}
  BY DEF OAuth!Init
<1>2. OAuth!Nothing \in Token /\ OAuth!Nothing.n = 0 /\ OAuth!Nothing.refresh = 0
  BY DEF OAuth!Nothing, Token, Grantable
<1>3. /\ OAuth!Idle \in Place /\ OAuth!Idle.at = "idle" /\ OAuth!Idle.n = 0
  BY <1>2 DEF OAuth!Idle, Place
<1>4. /\ grantor \in [Threads -> Place] /\ \A t \in Threads : grantor[t].at = "idle" /\ grantor[t].n = 0
  BY <1>1, <1>3
<1>5. OauthTyped
  <2>1. minted \in Seq(Grant) /\ asked \in Seq(Authorization) /\ Len(asked) = 0
    BY <1>1
  <2>2. secrets \in [state : 0 .. Len(asked), verifier : 0 .. Len(asked)]
    BY <1>1, <2>1
  <2>3. \A t \in Threads : grantor[t].n \in 0 .. Len(asked)
    BY <1>4, <2>1
  <2> QED  BY <1>1, <1>2, <1>4, <2>1, <2>2, <2>3 DEF OauthTyped
<1>6. Held /\ Voided /\ Replaced /\ Presented /\ AsksForAll
  BY <1>1, <1>2, <1>4 DEF Held, Voided, Replaced, Presented, AsksForAll
<1> QED  BY <1>5, <1>6 DEF OauthIInv

\* It says what OAuthTrue and the type invariant say.
LEMMA OauthSays ==
    ASSUME McpAssumption, OauthIInv
    PROVE  OAuth!TypeOK /\ OAuth!OAuthTrue
<1> USE DEF OauthIInv
<1>1. OAuth!TypeOK
  <2>1. /\ minted \in Seq(Grant) /\ tokens \in Token /\ grantor \in [Threads -> Place]
        /\ secrets \in [state : 0 .. Len(asked), verifier : 0 .. Len(asked)]
        /\ spent \subseteq DOMAIN minted /\ lost \subseteq spent
    BY DEF OauthTyped
  <2>2. tokens.n \in 0 .. Len(minted)
    BY <2>1 DEF Held, Backed, Token
  <2>3. tokens.stamp \in OAuthServers \cup {"none"}
    BY <2>1 DEF Token
  <2>4. \A t \in Threads : grantor[t].at \in {"idle", "refresh", "save", "redirect", "state"}
    BY <2>1 DEF Place
  <2>5. secrets.state \in 0 .. Len(asked) /\ secrets.verifier \in 0 .. Len(asked)
    BY <2>1
  <2> QED  BY <2>1, <2>2, <2>3, <2>4, <2>5 DEF OAuth!TypeOK
<1>2. OAuth!Bound
  BY DEF Presented, OAuth!Bound
<1>3. OAuth!RefreshKept
  <2>1. minted \in Seq(Grant) /\ (tokens.n # 0 => Backed(minted, tokens))
    BY DEF OauthTyped, Held
  <2>2. Backed(minted, tokens) => tokens.refresh # 0 /\ minted[tokens.refresh].server = tokens.stamp
    BY <2>1 DEF Backed
  <2> QED  BY <2>1, <2>2 DEF OAuth!RefreshKept, Replaced
<1>4. OAuth!StepUpKeepsSaid
  BY DEF AsksForAll, OAuth!StepUpKeepsSaid, OAuth!Steps
<1> QED  BY <1>1, <1>2, <1>3, <1>4 DEF OAuth!OAuthTrue

-----------------------------------------------------------------------------
(* The session.                                                              *)

Statuses == {"none", "ok", "400", "401", "404", "500", "dead", "error", "names_new", "names_now", "names_later"}
Eras == {"handshake", "modern"}
Request == [at : {"idle", "wire", "answer", "noticed"},
            msg : {"none", "discover", "initialize", "initialized", "call"},
            try : 1 .. 3, call : 0 .. MaxCalls, inner : BOOLEAN,
            sent : [session : Nat, era : Eras \cup {"none"}, token : {"good", "stale", "none"}],
            status : Statuses]

Wire(n) == [version : {"none", "new", "now", "old"}, era : Eras, session : 0 .. n, recovering : BOOLEAN]

SessionTyped ==
    /\ kind \in {"stateful", "older", "plain", "modern", "dual", "future"}
    /\ made \in Nat /\ live \subseteq 1 .. made /\ token \in {"good", "stale"}
    /\ client \in [phase : {"new", "probing", "connected", "refused"}, version : {"new", "now", "old"}]
    /\ wire \in Wire(made)
    /\ caller \in [Threads -> Request] /\ \A t \in Threads : caller[t].sent.session \in 0 .. made
    /\ ran \in [Threads \X (1 .. MaxCalls) -> Nat]
    /\ outcome \in [Threads \X (1 .. MaxCalls) -> {"none", "ok", "refused", "failed"}]

\* What the server has run of a thread's call, by how far the call is.
Tallied(r, runs, end) ==
    /\ r.at # "idle" /\ r.call # 0 => end = "none"
    /\ r.at \in {"wire", "noticed"} /\ r.call # 0 => runs = 0
    /\ r.at = "answer" /\ r.call # 0 =>
          IF r.msg # "call" \/ r.status \in {"400", "401", "404"} THEN runs = 0
          ELSE runs <= 1 /\ (r.status = "ok" => runs = 1)
    /\ r.at = "noticed" => r.status = "404" /\ r.msg = "call"

\* Calls that have not begun, the one that is under way, and those that are over.
Counted ==
    \A t \in Threads : \A c \in 1 .. MaxCalls :
        /\ c > caller[t].call => ran[<<t, c>>] = 0 /\ outcome[<<t, c>>] = "none"
        /\ c = caller[t].call => Tallied(caller[t], ran[<<t, c>>], outcome[<<t, c>>])
        /\ ran[<<t, c>>] <= 1 /\ (outcome[<<t, c>>] = "ok" => ran[<<t, c>>] = 1) /\ (outcome[<<t, c>>] = "refused" => ran[<<t, c>>] = 0)

\* Who may be asking for what, by the phase the client is in: one thread connects, and only
\* after that do others call.
InPhase(r, phase) ==
    /\ r.at = "idle" => ~r.inner
    /\ r.at # "idle" =>
        /\ phase \in {"probing", "connected"}
        /\ phase = "probing" => r.call = 0 /\ ~r.inner /\ r.at # "noticed" /\ r.msg \in {"discover", "initialize", "initialized"}
        /\ phase = "connected" =>
              /\ r.call # 0
              /\ IF r.inner THEN r.msg \in {"initialize", "initialized"} ELSE r.msg = "call"

Phased ==
    /\ \A t \in Threads : InPhase(caller[t], client.phase)
    /\ client.phase # "connected" => \A t \in Threads : caller[t].call = 0
    /\ client.phase = "probing" => \A t, u \in Threads : caller[t].at # "idle" /\ caller[u].at # "idle" => t = u

\* What a thread's place says of the server, of the revision and of the probe's answer.
Knows(r, version, answer, speaks) ==
    /\ r.msg = "discover" /\ r.at = "answer" /\ r.status = "ok" => "new" \in speaks
    /\ r.at # "idle" =>
          /\ r.msg \in {"initialize", "initialized"} => answer \in {"error", "names_now"}
          /\ r.msg = "initialized" => version \in speaks \cap {"now", "old"}
          /\ r.inner => version # "new"

\* What was settled on, and on which wire.
Agreed(version, w, answer, speaks) ==
    /\ version \in speaks
    /\ version = "new" => w.version = "new" /\ w.era = "modern"
    /\ version # "new" => answer \in {"error", "names_now"}

Negotiated ==
    /\ \A t \in Threads : Knows(caller[t], client.version, probe, Session!Speaks)
    /\ client.phase = "connected" => Agreed(client.version, wire, probe, Session!Speaks)

SessionIInv == SessionTyped /\ Counted /\ Phased /\ Negotiated

\* A request that is posted carries what the transport holds (Posting).
IsPosted(p, r, msg, try) ==
    /\ p \in Request /\ p.at = "wire" /\ p.msg = msg /\ p.try = try /\ p.call = r.call
    /\ p.inner = r.inner /\ p.status = "none" /\ p.sent.session \in 0 .. made

\* Posting makes such a request.
LEMMA Posted ==
    ASSUME made \in Nat, NEW r \in Request, NEW msg \in {"discover", "initialize", "initialized", "call"},
           NEW try \in 1 .. 3, NEW w \in Wire(made), NEW bearer \in {"good", "stale"}
    PROVE  IsPosted(Session!Posting(r, msg, try, w, bearer), r, msg, try)
<1> DEFINE carried == [session |-> IF w.era = "modern" THEN Session!None ELSE w.session, era |-> w.era, token |-> bearer]
           p == Session!Posting(r, msg, try, w, bearer)
<1>1. /\ carried \in [session : Nat, era : Eras \cup {"none"}, token : {"good", "stale", "none"}]
      /\ carried.session \in 0 .. made
  BY DEF Wire, Eras, Session!None
<1>2. p = [r EXCEPT !.at = "wire", !.msg = msg, !.try = try, !.status = "none", !.sent = carried]
  BY DEF Session!Posting
<1> HIDE DEF carried, p
<1>3. IsPosted(p, r, msg, try)
  BY <1>1, <1>2 DEF Request, Statuses, IsPosted
<1> QED  BY <1>3 DEF p

\* The types of a step that moves one thread.
LEMMA StepTyped ==
    ASSUME SessionTyped, NEW t \in Threads, NEW r \in Request, caller' = [caller EXCEPT ![t] = r],
           r.sent.session \in 0 .. made, kind' = kind, made' = made, live' = live, token' \in {"good", "stale"},
           client' \in [phase : {"new", "probing", "connected", "refused"}, version : {"new", "now", "old"}],
           wire' \in Wire(made), ran' = ran,
           outcome' \in [Threads \X (1 .. MaxCalls) -> {"none", "ok", "refused", "failed"}]
    PROVE  SessionTyped'
BY DEF SessionTyped

\* Moving on in a call changes no count (Reauthorize, Notice, Recover ...).
LEMMA StepCounted ==
    ASSUME SessionTyped, Counted, NEW t \in Threads, NEW r \in Request, caller' = [caller EXCEPT ![t] = r],
           r.call = caller[t].call, ran' = ran, outcome' = outcome,
           r.call \in 1 .. MaxCalls => Tallied(r, ran[<<t, r.call>>], outcome[<<t, r.call>>])
    PROVE  Counted'
<1>1. /\ caller \in [Threads -> Request] /\ caller'[t] = r
      /\ \A u \in Threads : u # t => caller'[u] = caller[u]
  BY DEF SessionTyped
<1>2. ASSUME NEW u \in Threads, NEW c \in 1 .. MaxCalls, c = caller'[u].call
      PROVE  Tallied(caller'[u], ran[<<u, c>>], outcome[<<u, c>>])
  BY <1>1, <1>2 DEF Counted
<1>3. \A u \in Threads : caller'[u].call = caller[u].call
  BY <1>1
<1> QED  BY <1>2, <1>3 DEF Counted

\* A call that ends says of itself what was counted (Ends).
LEMMA EndCounted ==
    ASSUME SessionTyped, Counted, NEW t \in Threads, NEW r \in Request, caller' = [caller EXCEPT ![t] = r],
           r.call = caller[t].call, r.at = "idle", NEW how, ran' = ran, r.call \in 1 .. MaxCalls,
           outcome' = [outcome EXCEPT ![<<t, r.call>>] = how],
           how = "ok" => ran[<<t, r.call>>] = 1, how = "refused" => ran[<<t, r.call>>] = 0
    PROVE  Counted'
<1>1. /\ caller \in [Threads -> Request] /\ caller'[t] = r
      /\ \A u \in Threads : u # t => caller'[u] = caller[u]
      /\ outcome \in [Threads \X (1 .. MaxCalls) -> {"none", "ok", "refused", "failed"}]
  BY DEF SessionTyped
<1>2. ASSUME NEW u \in Threads, NEW c \in 1 .. MaxCalls
      PROVE  /\ c > caller'[u].call => ran[<<u, c>>] = 0 /\ outcome'[<<u, c>>] = "none"
             /\ c = caller'[u].call => Tallied(caller'[u], ran[<<u, c>>], outcome'[<<u, c>>])
             /\ ran[<<u, c>>] <= 1 /\ (outcome'[<<u, c>>] = "ok" => ran[<<u, c>>] = 1)
             /\ (outcome'[<<u, c>>] = "refused" => ran[<<u, c>>] = 0)
  <2>1. CASE u = t /\ c = r.call
    BY <1>1, <2>1 DEF Counted, Tallied
  <2>2. CASE u = t /\ c # r.call
    <3>1. outcome'[<<u, c>>] = outcome[<<u, c>>]
      BY <1>1, <2>2
    <3> QED  BY <1>1, <2>2, <3>1 DEF Counted
  <2>3. CASE u # t
    <3>1. outcome'[<<u, c>>] = outcome[<<u, c>>]
      BY <1>1, <2>3
    <3> QED  BY <1>1, <2>3, <3>1 DEF Counted
  <2> QED  BY <2>1, <2>2, <2>3
<1> QED  BY <1>2 DEF Counted

\* Where the threads are agrees with the phase after one has moved.
LEMMA StepPhased ==
    ASSUME SessionTyped, Phased, NEW t \in Threads, NEW r \in Request, caller' = [caller EXCEPT ![t] = r],
           InPhase(r, client'.phase), client'.phase # "connected" => r.call = 0,
           \/ client'.phase = client.phase /\ (client.phase = "probing" => caller[t].at # "idle")
           \/ \A u \in Threads \ {t} : caller[u].at = "idle" /\ caller[u].call = 0
    PROVE  Phased'
<1>1. /\ caller \in [Threads -> Request] /\ caller'[t] = r
      /\ \A u \in Threads : u # t => caller'[u] = caller[u]
  BY DEF SessionTyped
<1>2. ASSUME NEW u \in Threads PROVE InPhase(caller'[u], client'.phase)
  <2>1. CASE u = t
    BY <1>1, <2>1
  <2>2. CASE u # t /\ client'.phase = client.phase
    BY <1>1, <2>2 DEF Phased
  <2>3. CASE u # t /\ caller[u].at = "idle"
    BY <1>1, <2>3 DEF InPhase, Phased
  <2> QED  BY <2>1, <2>2, <2>3
<1>3. ASSUME client'.phase # "connected", NEW u \in Threads PROVE caller'[u].call = 0
  BY <1>1, <1>3 DEF Phased
<1>4. ASSUME client'.phase = "probing", NEW u \in Threads, NEW x \in Threads,
             caller'[u].at # "idle", caller'[x].at # "idle"
      PROVE  u = x
  BY <1>1, <1>4 DEF Phased
<1> QED  BY <1>2, <1>3, <1>4 DEF Phased

\* What is known is still so after one thread has moved.
LEMMA StepNegotiated ==
    ASSUME SessionTyped, Negotiated, NEW t \in Threads, NEW r \in Request, caller' = [caller EXCEPT ![t] = r],
           kind' = kind, Knows(r, client'.version, probe', Session!Speaks),
           client'.phase = "connected" => Agreed(client'.version, wire', probe', Session!Speaks),
           \/ client'.version = client.version /\ probe' = probe
           \/ probe' = probe /\ client'.version \in Session!Speaks \cap {"now", "old"}
           \/ \A u \in Threads \ {t} : caller[u].at = "idle"
    PROVE  Negotiated'
<1>1. /\ caller \in [Threads -> Request] /\ caller'[t] = r
      /\ \A u \in Threads : u # t => caller'[u] = caller[u]
  BY DEF SessionTyped
<1>2. Session!Speaks' = Session!Speaks
  BY DEF Session!Speaks
<1>3. ASSUME NEW u \in Threads PROVE Knows(caller'[u], client'.version, probe', Session!Speaks)
  <2>1. CASE u = t
    BY <1>1, <2>1
  <2>2. CASE u # t
    BY <1>1, <2>2 DEF Negotiated, Knows
  <2> QED  BY <2>1, <2>2
<1> QED  BY <1>2, <1>3 DEF Negotiated

\* Every answer of the server: what it runs, and what it can be (Answers).
LEMMA AnswersSay ==
    ASSUME SessionTyped, NEW r \in Request, r.msg # "none", NEW a \in Session!Answers(r)
    PROVE  /\ a.status \in Statuses /\ a.runs \in {0, 1} /\ a.made \in {made, made + 1} /\ a.live \subseteq 1 .. a.made
           /\ r.msg = "call" /\ a.status \in {"400", "401", "404"} => a.runs = 0
           /\ r.msg = "call" /\ a.status = "ok" => a.runs = 1
           /\ r.msg = "discover" /\ a.status = "ok" => "new" \in Session!Speaks
<1> DEFINE Fits(x) == /\ x.status \in Statuses /\ x.runs \in {0, 1} /\ x.made \in {made, made + 1}
                      /\ x.live \subseteq 1 .. x.made
           Right(x) == /\ r.msg = "call" /\ x.status \in {"400", "401", "404"} => x.runs = 0
                       /\ r.msg = "call" /\ x.status = "ok" => x.runs = 1
                       /\ r.msg = "discover" /\ x.status = "ok" => "new" \in Session!Speaks
<1>1. made \in Nat /\ live \subseteq 1 .. made
  BY DEF SessionTyped
<1>2. ASSUME NEW st \in Statuses PROVE Fits(Session!Refuses(st)) /\ Session!Refuses(st).runs = 0 /\ Session!Refuses(st).status = st
  BY <1>1, <1>2 DEF Session!Refuses
<1>3. Fits(Session!Opens) /\ Session!Opens.status = "ok" /\ Session!Opens.runs = 0
  BY <1>1 DEF Session!Opens, Statuses
<1>4. ASSUME NEW st \in Statuses \ {"ok"} PROVE Fits(Session!Refuses(st)) /\ Right(Session!Refuses(st))
  BY <1>2
<1>5. "400" \in Statuses /\ "401" \in Statuses /\ "404" \in Statuses /\ "dead" \in Statuses /\ "500" \in Statuses
      /\ "error" \in Statuses /\ "names_now" \in Statuses /\ "names_new" \in Statuses /\ "names_later" \in Statuses
      /\ "ok" \in Statuses
  BY DEF Statuses
<1>6. CASE a = Session!Refuses("401") \/ a = Session!Refuses("dead") \/ a = Session!Refuses("500")
  BY <1>4, <1>5, <1>6
<1>7. CASE r.msg = "discover" /\ a \in Session!Discovered
  <2>1. CASE "new" \in Session!Speaks
    BY <1>2, <1>3, <1>5, <1>7, <2>1 DEF Session!Discovered
  <2>2. CASE "new" \notin Session!Speaks
    <3>1. a \in {Session!Refuses("names_later"), Session!Refuses("error"), Session!Refuses("names_now")}
      BY <1>7, <2>2 DEF Session!Discovered
    <3> QED  BY <1>4, <1>5, <3>1
  <2> QED  BY <2>1, <2>2
<1>8. CASE r.msg = "initialize" /\ a \in Session!Initialized
  <2>1. a \in {Session!Refuses("error"), Session!Opens, Session!Refuses("ok")}
    BY <1>8 DEF Session!Initialized
  <2> QED  BY <1>2, <1>3, <1>5, <1>8, <2>1
<1>9. CASE r.msg = "initialized" /\ a = Session!Refuses("ok")
  BY <1>2, <1>5, <1>9
<1>10. CASE r.msg = "call" /\ a \in Session!Called(r)
  <2> DEFINE run(st) == [status |-> st, live |-> live, made |-> made, runs |-> 1]
  <2>1. \/ \E st \in {"ok", "500", "dead"} : a = run(st)
        \/ a \in {Session!Refuses("404"), Session!Refuses("400")}
    BY <1>10 DEF Session!Called
  <2>2. ASSUME NEW st \in {"ok", "500", "dead"}, a = run(st) PROVE Fits(a) /\ Right(a)
    BY <1>1, <1>5, <1>10, <2>2
  <2>3. CASE a \in {Session!Refuses("404"), Session!Refuses("400")}
    BY <1>4, <1>5, <2>3
  <2> QED  BY <2>1, <2>2, <2>3
<1>11. r.msg \in {"discover", "initialize", "initialized", "call"}
  BY DEF Request
<1> QED  BY <1>6, <1>7, <1>8, <1>9, <1>10, <1>11 DEF Session!Answers

Phases == [phase : {"new", "probing", "connected", "refused"}, version : {"new", "now", "old"}]

\* What the invariant says of a thread.
LEMMA Here ==
    ASSUME SessionIInv, NEW t \in Threads
    PROVE  /\ caller[t] \in Request /\ caller \in [Threads -> Request]
           /\ InPhase(caller[t], client.phase) /\ Knows(caller[t], client.version, probe, Session!Speaks)
           /\ made \in Nat /\ wire \in Wire(made) /\ token \in {"good", "stale"} /\ client \in Phases
           /\ caller[t].sent.session \in 0 .. made /\ caller[t].call \in 0 .. MaxCalls
           /\ outcome \in [Threads \X (1 .. MaxCalls) -> {"none", "ok", "refused", "failed"}]
           /\ ran \in [Threads \X (1 .. MaxCalls) -> Nat]
           /\ caller[t].at # "idle" => caller[t].msg \in {"discover", "initialize", "initialized", "call"}
           /\ caller[t].at # "idle" => client.phase \in {"probing", "connected"}
           /\ caller[t].call \in 1 .. MaxCalls =>
                 /\ Tallied(caller[t], ran[<<t, caller[t].call>>], outcome[<<t, caller[t].call>>])
                 /\ ran[<<t, caller[t].call>>] <= 1
           /\ client.phase = "connected" => Agreed(client.version, wire, probe, Session!Speaks)
<1> USE DEF SessionIInv
<1>1. caller \in [Threads -> Request]
  BY DEF SessionTyped
<1>2. caller[t] \in Request
  BY <1>1
<1>3. caller[t].call \in 0 .. MaxCalls
  BY <1>2 DEF Request
<1>4. InPhase(caller[t], client.phase)
  BY DEF Phased
<1>5. /\ caller[t].at # "idle" => caller[t].msg \in {"discover", "initialize", "initialized", "call"}
      /\ caller[t].at # "idle" => client.phase \in {"probing", "connected"}
  BY <1>2, <1>4 DEF InPhase, Request
<1>6. caller[t].call \in 1 .. MaxCalls =>
          /\ Tallied(caller[t], ran[<<t, caller[t].call>>], outcome[<<t, caller[t].call>>])
          /\ ran[<<t, caller[t].call>>] <= 1
  BY DEF Counted
<1>7. Knows(caller[t], client.version, probe, Session!Speaks)
      /\ (client.phase = "connected" => Agreed(client.version, wire, probe, Session!Speaks))
  BY DEF Negotiated
<1> QED
  BY <1>1, <1>2, <1>3, <1>4, <1>5, <1>6, <1>7 DEF SessionTyped, Phases

\* The server restarts, or the token expires.
LEMMA TroublesKeep ==
    ASSUME SessionIInv, Session!Restart \/ Session!Expire
    PROVE  SessionIInv'
<1>1. /\ kind' = kind /\ made' = made /\ client' = client /\ wire' = wire /\ caller' = caller /\ ran' = ran
      /\ outcome' = outcome /\ probe' = probe /\ token' \in {token, "stale"} /\ live' \subseteq live
  BY DEF Session!Restart, Session!Expire
<1>2. SessionTyped'
  BY <1>1 DEF SessionIInv, SessionTyped
<1>3. Counted' /\ Phased'
  BY <1>1 DEF SessionIInv, Counted, Phased
<1>4. Negotiated'
  <2>1. Session!Speaks' = Session!Speaks
    BY <1>1 DEF Session!Speaks
  <2> QED  BY <1>1, <2>1 DEF SessionIInv, Negotiated
<1> QED  BY <1>2, <1>3, <1>4 DEF SessionIInv

\* One thread connects.
LEMMA ConnectKeeps ==
    ASSUME SessionIInv, NEW t \in Threads
    PROVE  Session!Connect(t) => SessionIInv'
<1>0. SUFFICES ASSUME Session!Connect(t) PROVE SessionIInv'
  OBVIOUS
<1> DEFINE p == Session!Posting(caller[t], "discover", 1, wire', token)
<1>1. /\ client.phase = "new" /\ client' = [client EXCEPT !.phase = "probing"] /\ wire' = [wire EXCEPT !.version = "new"]
      /\ caller' = [caller EXCEPT ![t] = p]
      /\ kind' = kind /\ live' = live /\ made' = made /\ token' = token /\ ran' = ran /\ outcome' = outcome
      /\ probe' = probe
  BY <1>0 DEF Session!Connect, Session!Set
<1>2. /\ SessionTyped /\ Counted /\ Phased /\ Negotiated /\ caller[t] \in Request /\ made \in Nat /\ wire \in Wire(made)
      /\ token \in {"good", "stale"} /\ client \in Phases
      /\ outcome \in [Threads \X (1 .. MaxCalls) -> {"none", "ok", "refused", "failed"}]
  BY Here DEF SessionIInv
<1>3. \A u \in Threads : caller[u].at = "idle" /\ caller[u].call = 0
  BY <1>1, <1>2 DEF Phased, InPhase
<1>4. wire' \in Wire(made) /\ client' \in Phases /\ client'.phase = "probing"
  BY <1>1, <1>2 DEF Wire, Phases
<1>5. /\ p \in Request /\ p.at = "wire" /\ p.msg = "discover" /\ p.call = caller[t].call
      /\ p.inner = caller[t].inner /\ p.sent.session \in 0 .. made
  <2>1. IsPosted(p, caller[t], "discover", 1)
    BY <1>2, <1>4, Posted
  <2> HIDE DEF p
  <2> QED  BY <2>1 DEF IsPosted
<1> HIDE DEF p
<1>6. ~ caller[t].inner
  BY <1>2, <1>3 DEF Phased, InPhase
<1>7. SessionTyped'
  BY <1>1, <1>2, <1>4, <1>5, StepTyped DEF Phases
<1>8. Counted'
  <2>1. p.call \notin 1 .. MaxCalls
    BY <1>3, <1>5
  <2> QED  BY <1>1, <1>2, <1>5, <2>1, StepCounted
<1>9. Phased'
  <2>1. InPhase(p, client'.phase)
    BY <1>3, <1>4, <1>5, <1>6 DEF InPhase
  <2> QED  BY <1>1, <1>2, <1>3, <1>4, <1>5, <2>1, StepPhased
<1>10. Negotiated'
  <2>1. Knows(p, client'.version, probe', Session!Speaks)
    BY <1>5, <1>6 DEF Knows
  <2> QED  BY <1>1, <1>2, <1>3, <1>4, <1>5, <2>1, StepNegotiated
<1> QED  BY <1>7, <1>8, <1>9, <1>10 DEF SessionIInv

\* A thread that has nothing under way.
IsIdle(r, n) == r \in Request /\ r.at = "idle" /\ r.msg = "none" /\ r.call = n /\ ~r.inner /\ r.sent.session = 0

\* Idle is a thread's place, and so is what Ends leaves.
LEMMA IdleTyped ==
    ASSUME NEW n \in 0 .. MaxCalls
    PROVE  IsIdle([Session!Idle EXCEPT !.call = n], n) /\ IsIdle(Session!Idle, 0)
<1>1. /\ MaxCalls \in Nat
      /\ Session!Idle = [at |-> "idle", msg |-> "none", try |-> 1, call |-> 0, inner |-> FALSE,
                         sent |-> [session |-> 0, era |-> "none", token |-> "none"], status |-> "none"]
  BY McpAssumption DEF Session!Idle, Session!None
<1>2. [session |-> 0, era |-> "none", token |-> "none"]
         \in [session : Nat, era : Eras \cup {"none"}, token : {"good", "stale", "none"}]
  OBVIOUS
<1>3. IsIdle(Session!Idle, 0)
  BY <1>1, <1>2 DEF Request, Statuses, IsIdle
<1> DEFINE i == Session!Idle
<1> HIDE DEF i
<1>4. IsIdle(i, 0) => IsIdle([i EXCEPT !.call = n], n)
  BY DEF IsIdle, Request
<1> QED  BY <1>3, <1>4 DEF i

\* The transport keeps the id of an answer, and stays on its wire (Kept).
LEMMA KeptTyped ==
    ASSUME SessionIInv, NEW t \in Threads
    PROVE  Session!Kept(t) \in Wire(made) /\ Session!Kept(t).version = wire.version /\ Session!Kept(t).era = wire.era
BY Here DEF Session!Kept, Wire

\* A call is begun.
LEMMA CallKeeps ==
    ASSUME SessionIInv, NEW t \in Threads
    PROVE  Session!Call(t) => SessionIInv'
<1>0. SUFFICES ASSUME Session!Call(t) PROVE SessionIInv'
  OBVIOUS
<1> DEFINE q == [caller[t] EXCEPT !.call = @ + 1]
           p == Session!Posting(q, "call", 1, wire, token)
<1>1. /\ client.phase = "connected" /\ caller[t].at = "idle" /\ caller[t].call < MaxCalls
      /\ caller' = [caller EXCEPT ![t] = p]
      /\ kind' = kind /\ live' = live /\ made' = made /\ token' = token /\ ran' = ran /\ outcome' = outcome
      /\ probe' = probe /\ client' = client /\ wire' = wire
  BY <1>0 DEF Session!Call, Session!Set
<1>2. /\ SessionTyped /\ Counted /\ Phased /\ Negotiated /\ caller[t] \in Request /\ made \in Nat /\ wire \in Wire(made)
      /\ token \in {"good", "stale"} /\ client \in Phases /\ caller[t].call \in 0 .. MaxCalls
      /\ outcome \in [Threads \X (1 .. MaxCalls) -> {"none", "ok", "refused", "failed"}]
      /\ InPhase(caller[t], client.phase) /\ Agreed(client.version, wire, probe, Session!Speaks)
      /\ caller \in [Threads -> Request]
  BY Here, <1>1 DEF SessionIInv
<1>3. q \in Request /\ q.call = caller[t].call + 1 /\ ~q.inner /\ q.call \in 1 .. MaxCalls
  BY <1>1, <1>2, McpAssumption DEF Request, InPhase
<1>4. IsPosted(p, q, "call", 1)
  <2> HIDE DEF q
  <2> QED  BY <1>2, <1>3, Posted
<1> HIDE DEF p, q
<1>5. /\ p \in Request /\ p.at = "wire" /\ p.msg = "call" /\ p.call = caller[t].call + 1 /\ p.call \in 1 .. MaxCalls
      /\ ~p.inner /\ p.sent.session \in 0 .. made
  BY <1>3, <1>4 DEF IsPosted
<1>6. SessionTyped'
  BY <1>1, <1>2, <1>5, StepTyped DEF Phases
<1>7. Counted'
  <2>1. caller'[t] = p /\ \A u \in Threads : u # t => caller'[u] = caller[u]
    BY <1>1, <1>2
  <2>2. ASSUME NEW u \in Threads, NEW c \in 1 .. MaxCalls
        PROVE  /\ c > caller'[u].call => ran[<<u, c>>] = 0 /\ outcome[<<u, c>>] = "none"
               /\ c = caller'[u].call => Tallied(caller'[u], ran[<<u, c>>], outcome[<<u, c>>])
    <3>1. CASE u = t
      <4>1. c >= p.call => ran[<<u, c>>] = 0 /\ outcome[<<u, c>>] = "none"
        BY <1>2, <1>5, <3>1 DEF Counted
      <4>2. ran[<<u, c>>] = 0 /\ outcome[<<u, c>>] = "none" => Tallied(p, ran[<<u, c>>], outcome[<<u, c>>])
        BY <1>5 DEF Tallied
      <4> QED  BY <1>5, <2>1, <3>1, <4>1, <4>2
    <3>2. CASE u # t
      BY <1>2, <2>1, <3>2 DEF Counted
    <3> QED  BY <3>1, <3>2
  <2> QED  BY <1>1, <1>2, <2>2 DEF Counted
<1>8. Phased'
  <2>1. InPhase(p, client'.phase)
    BY <1>1, <1>5 DEF InPhase
  <2> QED  BY <1>1, <1>2, <1>5, <2>1, StepPhased
<1>9. Negotiated'
  <2>1. Knows(p, client'.version, probe', Session!Speaks)
    BY <1>5 DEF Knows
  <2> QED  BY <1>1, <1>2, <1>5, <2>1, StepNegotiated
<1> QED  BY <1>6, <1>7, <1>8, <1>9 DEF SessionIInv

\* The server handles a request.
LEMMA ServeKeeps ==
    ASSUME SessionIInv, NEW t \in Threads
    PROVE  Session!Serve(t) => SessionIInv'
<1>0. SUFFICES ASSUME Session!Serve(t) PROVE SessionIInv'
  OBVIOUS
<1>1. PICK a \in Session!Answers(caller[t]) :
         /\ live' = a.live /\ made' = a.made
         /\ caller' = [caller EXCEPT ![t] = [caller[t] EXCEPT !.at = "answer", !.status = a.status,
                                      !.sent.session = IF a.made > made THEN a.made ELSE @]]
         /\ ran' = IF caller[t].msg = "call" THEN [ran EXCEPT ![<<t, caller[t].call>>] = @ + a.runs] ELSE ran
  BY <1>0 DEF Session!Serve, Session!Set, Session!Me
<1>2. /\ caller[t].at = "wire" /\ kind' = kind /\ token' = token /\ outcome' = outcome
      /\ probe' = probe /\ client' = client /\ wire' = wire
  BY <1>0 DEF Session!Serve
<1>3. /\ SessionTyped /\ Counted /\ Phased /\ Negotiated /\ caller[t] \in Request /\ made \in Nat /\ wire \in Wire(made)
      /\ token \in {"good", "stale"} /\ client \in Phases /\ caller[t].call \in 0 .. MaxCalls
      /\ ran \in [Threads \X (1 .. MaxCalls) -> Nat] /\ caller[t].sent.session \in 0 .. made
      /\ InPhase(caller[t], client.phase) /\ Knows(caller[t], client.version, probe, Session!Speaks)
      /\ caller \in [Threads -> Request] /\ caller[t].msg # "none"
  BY Here, <1>2 DEF SessionIInv
<1>4. /\ a.status \in Statuses /\ a.runs \in {0, 1} /\ a.made \in {made, made + 1} /\ a.live \subseteq 1 .. a.made
      /\ caller[t].msg = "call" /\ a.status \in {"400", "401", "404"} => a.runs = 0
      /\ caller[t].msg = "call" /\ a.status = "ok" => a.runs = 1
      /\ caller[t].msg = "discover" /\ a.status = "ok" => "new" \in Session!Speaks
  BY <1>1, <1>3, AnswersSay
<1> DEFINE carried == [caller[t].sent EXCEPT !.session = IF a.made > made THEN a.made ELSE @]
           p == [caller[t] EXCEPT !.at = "answer", !.status = a.status, !.sent = carried]
<1>5. carried \in [session : Nat, era : Eras \cup {"none"}, token : {"good", "stale", "none"}] /\ carried.session \in 0 .. a.made
  BY <1>3, <1>4 DEF Request
<1>6. caller' = [caller EXCEPT ![t] = p]
  BY <1>1, <1>3 DEF Request
<1> HIDE DEF carried
<1>7. /\ p \in Request /\ p.at = "answer" /\ p.status = a.status /\ p.msg = caller[t].msg /\ p.call = caller[t].call
      /\ p.inner = caller[t].inner /\ p.sent.session \in 0 .. made'
  BY <1>1, <1>3, <1>4, <1>5 DEF Request
<1> HIDE DEF p
<1>8. caller'[t] = p /\ \A u \in Threads : u # t => caller'[u] = caller[u]
  BY <1>3, <1>6
<1>9. SessionTyped'
  <2>1. kind' \in {"stateful", "older", "plain", "modern", "dual", "future"}
        /\ outcome' \in [Threads \X (1 .. MaxCalls) -> {"none", "ok", "refused", "failed"}] /\ token' \in {"good", "stale"}
        /\ client' \in [phase : {"new", "probing", "connected", "refused"}, version : {"new", "now", "old"}]
    BY <1>2, <1>3 DEF SessionTyped
  <2>2. made' \in Nat /\ live' \subseteq 1 .. made'
    BY <1>1, <1>3, <1>4
  <2>3. wire' \in Wire(made')
    <3>1. wire.session \in 0 .. made'
      BY <1>1, <1>3, <1>4 DEF Wire
    <3> QED  BY <1>2, <1>3, <3>1 DEF Wire
  <2>4. caller' \in [Threads -> Request]
    BY <1>3, <1>6, <1>7
  <2>5. ASSUME NEW u \in Threads PROVE caller'[u].sent.session \in 0 .. made'
    <3>1. CASE u = t
      BY <1>7, <1>8, <3>1
    <3>2. CASE u # t
      <4>1. caller[u].sent.session \in 0 .. made
        BY <1>3 DEF SessionTyped
      <4> QED  BY <1>1, <1>3, <1>4, <1>8, <3>2, <4>1
    <3> QED  BY <3>1, <3>2
  <2>6. ran' \in [Threads \X (1 .. MaxCalls) -> Nat]
    <3>1. \A x \in Nat : x + a.runs \in Nat
      BY <1>4
    <3> QED  BY <1>1, <1>3, <3>1
  <2> QED  BY <2>1, <2>2, <2>3, <2>4, <2>5, <2>6 DEF SessionTyped
<1>10. Counted'
  <2>1. ASSUME NEW u \in Threads, NEW c \in 1 .. MaxCalls
        PROVE  /\ c > caller'[u].call => ran'[<<u, c>>] = 0 /\ outcome[<<u, c>>] = "none"
               /\ c = caller'[u].call => Tallied(caller'[u], ran'[<<u, c>>], outcome[<<u, c>>])
               /\ ran'[<<u, c>>] <= 1 /\ (outcome[<<u, c>>] = "ok" => ran'[<<u, c>>] = 1)
               /\ (outcome[<<u, c>>] = "refused" => ran'[<<u, c>>] = 0)
    <3>0. <<u, c>> \in Threads \X (1 .. MaxCalls)
      OBVIOUS
    <3>1. CASE u = t /\ c = caller[t].call
      <4>1. ran[<<u, c>>] = 0 /\ outcome[<<u, c>>] = "none"
        <5>1. Tallied(caller[t], ran[<<u, c>>], outcome[<<u, c>>]) /\ caller[t].call # 0
          BY <1>3, <3>1 DEF Counted
        <5> QED  BY <1>2, <5>1 DEF Tallied
      <4>2. ran'[<<u, c>>] = IF caller[t].msg = "call" THEN a.runs ELSE 0
        BY <1>1, <1>3, <1>4, <3>0, <3>1, <4>1
      <4>3. Tallied(p, ran'[<<u, c>>], outcome[<<u, c>>])
        BY <1>4, <1>7, <4>1, <4>2 DEF Tallied
      <4>4. ran'[<<u, c>>] <= 1
        BY <1>4, <4>2
      <4> QED  BY <1>7, <1>8, <3>1, <4>1, <4>3, <4>4
    <3>2. CASE ~(u = t /\ c = caller[t].call)
      <4>1. ran'[<<u, c>>] = ran[<<u, c>>]
        BY <1>1, <1>3, <3>0, <3>2
      <4>2. caller'[u].call = caller[u].call
        BY <1>7, <1>8
      <4>3. CASE u = t
        BY <1>3, <3>2, <4>1, <4>2, <4>3 DEF Counted
      <4>4. CASE u # t
        BY <1>3, <1>8, <3>2, <4>1, <4>2, <4>4 DEF Counted
      <4> QED  BY <4>3, <4>4
    <3> QED  BY <3>1, <3>2
  <2> QED  BY <1>2, <2>1 DEF Counted
<1>11. Phased'
  <2>1. InPhase(p, client'.phase)
    BY <1>2, <1>3, <1>7 DEF InPhase
  <2>2. client'.phase # "connected" => p.call = 0
    BY <1>2, <1>3, <1>7 DEF Phased
  <2> QED  BY <1>2, <1>3, <1>6, <1>7, <2>1, <2>2, StepPhased
<1>12. Negotiated'
  <2>1. Knows(p, client'.version, probe', Session!Speaks)
    BY <1>2, <1>3, <1>4, <1>7 DEF Knows
  <2>2. client.phase = "connected" => Agreed(client.version, wire, probe, Session!Speaks)
    BY <1>3 DEF Negotiated
  <2> QED  BY <1>2, <1>3, <1>6, <1>7, <2>1, <2>2, StepNegotiated
<1> QED  BY <1>9, <1>10, <1>11, <1>12 DEF SessionIInv

\* A 401 is answered by another post, or by none.
LEMMA ReauthorizeKeeps ==
    ASSUME SessionIInv, NEW t \in Threads
    PROVE  Session!Reauthorize(t) => SessionIInv'
<1>0. SUFFICES ASSUME Session!Reauthorize(t) PROVE SessionIInv'
  OBVIOUS
<1> DEFINE p == Session!Posting(caller[t], caller[t].msg, 2, wire, "good")
           q == [caller[t] EXCEPT !.try = 2]
<1>1. PICK r \in {p, q} : caller' = [caller EXCEPT ![t] = r]
  BY <1>0 DEF Session!Reauthorize, Session!Set
<1>2. /\ caller[t].at = "answer" /\ caller[t].status = "401" /\ token' \in {"good", token}
      /\ kind' = kind /\ live' = live /\ made' = made /\ ran' = ran /\ outcome' = outcome
      /\ probe' = probe /\ client' = client /\ wire' = wire
  BY <1>0 DEF Session!Reauthorize
<1>3. /\ SessionTyped /\ Counted /\ Phased /\ Negotiated /\ caller[t] \in Request /\ made \in Nat /\ wire \in Wire(made)
      /\ token \in {"good", "stale"} /\ client \in Phases /\ caller[t].call \in 0 .. MaxCalls
      /\ outcome \in [Threads \X (1 .. MaxCalls) -> {"none", "ok", "refused", "failed"}]
      /\ InPhase(caller[t], client.phase) /\ Knows(caller[t], client.version, probe, Session!Speaks)
      /\ caller[t].msg \in {"discover", "initialize", "initialized", "call"} /\ caller[t].sent.session \in 0 .. made
      /\ caller[t].call \in 1 .. MaxCalls => Tallied(caller[t], ran[<<t, caller[t].call>>], outcome[<<t, caller[t].call>>])
      /\ client.phase = "connected" => Agreed(client.version, wire, probe, Session!Speaks)
  BY Here, <1>2 DEF SessionIInv
<1>4. IsPosted(p, caller[t], caller[t].msg, 2)
  BY <1>3, Posted
<1>5. q \in Request /\ q.at = "answer" /\ q.msg = caller[t].msg /\ q.status = caller[t].status /\ q.call = caller[t].call
      /\ q.inner = caller[t].inner /\ q.sent = caller[t].sent
  BY <1>2, <1>3 DEF Request
<1> HIDE DEF p, q
<1>6. /\ r \in Request /\ r.msg = caller[t].msg /\ r.call = caller[t].call /\ r.inner = caller[t].inner
      /\ r.sent.session \in 0 .. made /\ (r.at = "wire" \/ (r.at = "answer" /\ r.status = "401"))
  BY <1>1, <1>2, <1>3, <1>4, <1>5 DEF IsPosted
<1>7. SessionTyped'
  BY <1>1, <1>2, <1>3, <1>6, StepTyped DEF Phases
<1>8. Counted'
  <2>1. r.call \in 1 .. MaxCalls => Tallied(r, ran[<<t, r.call>>], outcome[<<t, r.call>>])
    BY <1>2, <1>3, <1>6 DEF Tallied
  <2> QED  BY <1>1, <1>2, <1>3, <1>6, <2>1, StepCounted
<1>9. Phased'
  <2>1. InPhase(r, client'.phase)
    BY <1>2, <1>3, <1>6 DEF InPhase
  <2>2. client'.phase # "connected" => r.call = 0
    BY <1>2, <1>3, <1>6 DEF Phased
  <2> QED  BY <1>1, <1>2, <1>3, <1>6, <2>1, <2>2, StepPhased
<1>10. Negotiated'
  <2>1. Knows(r, client'.version, probe', Session!Speaks)
    BY <1>2, <1>3, <1>6 DEF Knows
  <2> QED  BY <1>1, <1>2, <1>3, <1>6, <2>1, StepNegotiated
<1> QED  BY <1>7, <1>8, <1>9, <1>10 DEF SessionIInv

\* A 404 of a session id is noticed.
LEMMA NoticeKeeps ==
    ASSUME SessionIInv, NEW t \in Threads
    PROVE  Session!Notice(t) => SessionIInv'
<1>0. SUFFICES ASSUME Session!Notice(t) PROVE SessionIInv'
  OBVIOUS
<1> DEFINE r == [caller[t] EXCEPT !.at = "noticed"]
<1>1. /\ caller[t].at = "answer" /\ caller[t].msg = "call" /\ caller[t].status = "404"
      /\ caller' = [caller EXCEPT ![t] = r] /\ token' = token
      /\ kind' = kind /\ live' = live /\ made' = made /\ ran' = ran /\ outcome' = outcome
      /\ probe' = probe /\ client' = client /\ wire' = wire
  BY <1>0 DEF Session!Notice, Session!Set, Session!Forgotten
<1>2. /\ SessionTyped /\ Counted /\ Phased /\ Negotiated /\ caller[t] \in Request /\ made \in Nat /\ wire \in Wire(made)
      /\ token \in {"good", "stale"} /\ client \in Phases /\ caller[t].call \in 0 .. MaxCalls
      /\ outcome \in [Threads \X (1 .. MaxCalls) -> {"none", "ok", "refused", "failed"}]
      /\ InPhase(caller[t], client.phase) /\ Knows(caller[t], client.version, probe, Session!Speaks)
      /\ caller[t].sent.session \in 0 .. made /\ client.phase \in {"probing", "connected"}
      /\ caller[t].call \in 1 .. MaxCalls => Tallied(caller[t], ran[<<t, caller[t].call>>], outcome[<<t, caller[t].call>>])
      /\ client.phase = "connected" => Agreed(client.version, wire, probe, Session!Speaks)
  BY Here, <1>1 DEF SessionIInv
<1>3. r \in Request /\ r.at = "noticed" /\ r.msg = "call" /\ r.status = "404" /\ r.call = caller[t].call
      /\ r.inner = caller[t].inner /\ r.sent = caller[t].sent
  BY <1>1, <1>2 DEF Request
<1> HIDE DEF r
<1>4. SessionTyped'
  BY <1>1, <1>2, <1>3, StepTyped DEF Phases
<1>5. Counted'
  <2>1. r.call \in 1 .. MaxCalls => Tallied(r, ran[<<t, r.call>>], outcome[<<t, r.call>>])
    BY <1>1, <1>2, <1>3 DEF Tallied
  <2> QED  BY <1>1, <1>2, <1>3, <2>1, StepCounted
<1>6. Phased'
  <2>1. client.phase = "connected" /\ InPhase(r, client'.phase)
    BY <1>1, <1>2, <1>3 DEF InPhase
  <2> QED  BY <1>1, <1>2, <1>3, <2>1, StepPhased
<1>7. Negotiated'
  <2>1. Knows(r, client'.version, probe', Session!Speaks)
    BY <1>1, <1>2, <1>3 DEF Knows
  <2> QED  BY <1>1, <1>2, <1>3, <2>1, StepNegotiated
<1> QED  BY <1>4, <1>5, <1>6, <1>7 DEF SessionIInv

\* A session is rebuilt, on the wire it was on, or the 404 is the answer.
LEMMA RecoverKeeps ==
    ASSUME SessionIInv, NEW t \in Threads
    PROVE  Session!Recover(t) => SessionIInv'
<1>0. SUFFICES ASSUME Session!Recover(t) PROVE SessionIInv'
  OBVIOUS
<1> DEFINE p == Session!Posting(caller[t], "initialize", 1, wire', token)
           q == [caller[t] EXCEPT !.at = "answer", !.try = 3]
<1>1. /\ caller[t].at = "noticed" /\ token' = token
      /\ kind' = kind /\ live' = live /\ made' = made /\ ran' = ran /\ outcome' = outcome
      /\ probe' = probe /\ client' = client
  BY <1>0 DEF Session!Recover
<1>2. \/ /\ client.version # "new" /\ caller' = [caller EXCEPT ![t] = [p EXCEPT !.inner = TRUE]]
         /\ wire' = [wire EXCEPT !.session = 0, !.version = "now", !.recovering = TRUE]
      \/ /\ client.version = "new" /\ caller' = [caller EXCEPT ![t] = q]
         /\ wire' = [wire EXCEPT !.session = 0]
  BY <1>0 DEF Session!Recover, Session!Set, Session!Recoverable, Session!Era, Session!None
<1>3. /\ SessionTyped /\ Counted /\ Phased /\ Negotiated /\ caller[t] \in Request /\ made \in Nat /\ wire \in Wire(made)
      /\ token \in {"good", "stale"} /\ client \in Phases /\ caller[t].call \in 0 .. MaxCalls
      /\ outcome \in [Threads \X (1 .. MaxCalls) -> {"none", "ok", "refused", "failed"}]
      /\ InPhase(caller[t], client.phase) /\ Knows(caller[t], client.version, probe, Session!Speaks)
      /\ caller[t].sent.session \in 0 .. made /\ client.phase \in {"probing", "connected"}
      /\ caller[t].call \in 1 .. MaxCalls => Tallied(caller[t], ran[<<t, caller[t].call>>], outcome[<<t, caller[t].call>>])
      /\ client.phase = "connected" => Agreed(client.version, wire, probe, Session!Speaks)
  BY Here, <1>1 DEF SessionIInv
<1>4. /\ client.phase = "connected" /\ caller[t].call # 0 /\ caller[t].call \in 1 .. MaxCalls
      /\ Agreed(client.version, wire, probe, Session!Speaks)
  BY <1>1, <1>3 DEF InPhase
<1>5. /\ caller[t].status = "404" /\ caller[t].msg = "call" /\ ran[<<t, caller[t].call>>] = 0
      /\ outcome[<<t, caller[t].call>>] = "none" /\ ~caller[t].inner
  <2>1. caller[t].status = "404" /\ caller[t].msg = "call"
    BY <1>1, <1>3, <1>4 DEF Tallied
  <2> QED  BY <1>1, <1>3, <1>4, <2>1 DEF Tallied, InPhase
<1>6. wire' \in Wire(made) /\ Agreed(client.version, wire', probe, Session!Speaks)
  <2>1. wire' \in Wire(made)
    <3>1. wire \in Wire(made) /\ made \in Nat
      BY <1>3
    <3>2. [wire EXCEPT !.session = 0] \in Wire(made)
      BY <3>1 DEF Wire
    <3>3. ASSUME NEW w \in Wire(made) PROVE [w EXCEPT !.version = "now"] \in Wire(made)
      BY <3>1 DEF Wire
    <3>4. ASSUME NEW w \in Wire(made) PROVE [w EXCEPT !.recovering = TRUE] \in Wire(made)
      BY <3>1 DEF Wire
    <3>5. [wire EXCEPT !.session = 0, !.version = "now", !.recovering = TRUE]
             = [[[wire EXCEPT !.session = 0] EXCEPT !.version = "now"] EXCEPT !.recovering = TRUE]
      OBVIOUS
    <3> QED  BY <1>2, <3>2, <3>3, <3>4, <3>5
  <2>2. client.version = "new" => wire'.version = wire.version /\ wire'.era = wire.era
    BY <1>2, <1>3 DEF Wire
  <2> QED  BY <1>4, <2>1, <2>2 DEF Agreed
<1>7. IsPosted(p, caller[t], "initialize", 1)
  BY <1>3, <1>6, Posted
<1>8. q \in Request /\ q.at = "answer" /\ q.msg = "call" /\ q.status = "404" /\ q.call = caller[t].call
      /\ ~q.inner /\ q.sent = caller[t].sent
  <2> HIDE DEF p
  <2>1. caller[t] \in Request /\ caller[t].status = "404" /\ caller[t].msg = "call" /\ ~caller[t].inner
    BY <1>3, <1>5
  <2>2. q \in Request
    <3>1. ASSUME NEW x \in Request PROVE [x EXCEPT !.at = "answer"] \in Request
      BY DEF Request
    <3>2. ASSUME NEW x \in Request PROVE [x EXCEPT !.try = 3] \in Request
      BY DEF Request
    <3>3. q = [[caller[t] EXCEPT !.at = "answer"] EXCEPT !.try = 3]
      OBVIOUS
    <3> HIDE DEF q
    <3> QED  BY <2>1, <3>1, <3>2, <3>3
  <2>3. q.at = "answer" /\ q.msg = "call" /\ q.status = "404" /\ q.call = caller[t].call
    BY <2>1 DEF Request
  <2>4. ~q.inner /\ q.sent = caller[t].sent
    BY <2>1 DEF Request
  <2> QED  BY <2>2, <2>3, <2>4
<1> HIDE DEF p, q
<1> DEFINE i == [p EXCEPT !.inner = TRUE]
<1>9. i \in Request /\ i.at = "wire" /\ i.msg = "initialize" /\ i.call = caller[t].call /\ i.inner
      /\ i.sent.session \in 0 .. made
  BY <1>7 DEF IsPosted, Request
<1>10. PICK r \in {i, q} : /\ caller' = [caller EXCEPT ![t] = r] /\ (r = i => client.version # "new")
  BY <1>2, <1>8, <1>9
<1> HIDE DEF i
<1>11. /\ r \in Request /\ r.call = caller[t].call /\ r.sent.session \in 0 .. made
       /\ \/ r.at = "wire" /\ r.msg = "initialize" /\ r.inner /\ client.version # "new"
          \/ r.at = "answer" /\ r.status = "404" /\ r.msg = "call" /\ ~r.inner
  BY <1>3, <1>8, <1>9, <1>10
<1>12. SessionTyped'
  BY <1>1, <1>3, <1>6, <1>10, <1>11, StepTyped DEF Phases
<1>13. Counted'
  <2>1. Tallied(r, ran[<<t, r.call>>], outcome[<<t, r.call>>])
    BY <1>5, <1>11 DEF Tallied
  <2> QED  BY <1>1, <1>3, <1>10, <1>11, <2>1, StepCounted
<1>14. Phased'
  <2>1. InPhase(r, client'.phase)
    BY <1>1, <1>4, <1>11 DEF InPhase
  <2> QED  BY <1>1, <1>3, <1>4, <1>10, <1>11, <2>1, StepPhased
<1>15. Negotiated'
  <2>1. Knows(r, client'.version, probe', Session!Speaks)
    BY <1>1, <1>4, <1>11 DEF Knows, Agreed
  <2> QED  BY <1>1, <1>3, <1>6, <1>10, <1>11, <2>1, StepNegotiated
<1> QED  BY <1>12, <1>13, <1>14, <1>15 DEF SessionIInv

\* A handshake that failed: connect() gives up, a recovery gives the 404 back.
FailsFrom(t) ==
    /\ Session!HandshakeFails(t) /\ caller[t].at = "answer" /\ caller[t].msg \in {"initialize", "initialized"}
    /\ kind' = kind /\ live' = live /\ made' = made /\ token' = token /\ ran' = ran /\ probe' = probe

\* Either way the invariant is kept.
LEMMA FailsKeep ==
    ASSUME SessionIInv, NEW t \in Threads, FailsFrom(t)
    PROVE  SessionIInv'
<1>1. /\ caller[t].at = "answer" /\ caller[t].msg \in {"initialize", "initialized"}
      /\ kind' = kind /\ live' = live /\ made' = made /\ token' = token /\ ran' = ran /\ probe' = probe
      /\ Session!HandshakeFails(t)
  BY DEF FailsFrom
<1>2. /\ SessionTyped /\ Counted /\ Phased /\ Negotiated /\ caller[t] \in Request /\ made \in Nat /\ wire \in Wire(made)
      /\ token \in {"good", "stale"} /\ client \in Phases /\ caller[t].call \in 0 .. MaxCalls
      /\ outcome \in [Threads \X (1 .. MaxCalls) -> {"none", "ok", "refused", "failed"}]
      /\ InPhase(caller[t], client.phase) /\ client.phase \in {"probing", "connected"}
      /\ caller[t].call \in 1 .. MaxCalls => Tallied(caller[t], ran[<<t, caller[t].call>>], outcome[<<t, caller[t].call>>])
      /\ client.phase = "connected" => Agreed(client.version, wire, probe, Session!Speaks)
  BY Here, <1>1 DEF SessionIInv
<1>3. CASE caller[t].inner
  <2> DEFINE r == [Session!Idle EXCEPT !.call = caller[t].call]
  <2>1. /\ client.phase = "connected" /\ caller[t].call \in 1 .. MaxCalls
    BY <1>1, <1>2, <1>3 DEF InPhase
  <2>2. /\ caller' = [caller EXCEPT ![t] = r] /\ wire' = [wire EXCEPT !.recovering = FALSE] /\ client' = client
        /\ outcome' = [outcome EXCEPT ![<<t, caller[t].call>>] = "refused"]
    BY <1>1, <1>3 DEF Session!HandshakeFails, Session!Ends, Session!Set, Session!Me
  <2>3. IsIdle(r, caller[t].call)
    BY <1>2, IdleTyped
  <2> HIDE DEF r
  <2>4. r \in Request /\ r.at = "idle" /\ r.msg = "none" /\ r.call = caller[t].call /\ ~r.inner /\ r.sent.session \in 0 .. made
    BY <1>2, <2>3 DEF IsIdle
  <2>5. wire' \in Wire(made) /\ wire'.version = wire.version /\ wire'.era = wire.era
    BY <1>2, <2>2 DEF Wire
  <2>6. outcome' \in [Threads \X (1 .. MaxCalls) -> {"none", "ok", "refused", "failed"}]
    BY <1>2, <2>2
  <2>7. SessionTyped'
    BY <1>1, <1>2, <2>2, <2>4, <2>5, <2>6, StepTyped DEF Phases
  <2>8. Counted'
    <3>1. ran[<<t, r.call>>] = 0
      BY <1>1, <1>2, <2>1, <2>4 DEF Tallied
    <3> QED  BY <1>1, <1>2, <2>1, <2>2, <2>4, <3>1, EndCounted
  <2>9. Phased'
    <3>1. InPhase(r, client'.phase)
      BY <2>4 DEF InPhase
    <3> QED  BY <1>2, <2>1, <2>2, <2>4, <3>1, StepPhased
  <2>10. Negotiated'
    <3>1. Knows(r, client'.version, probe', Session!Speaks)
      BY <2>4 DEF Knows
    <3>2. client'.phase = "connected" => Agreed(client'.version, wire', probe', Session!Speaks)
      BY <1>1, <1>2, <2>2, <2>5 DEF Agreed
    <3> QED  BY <1>1, <1>2, <2>2, <2>4, <3>1, <3>2, StepNegotiated
  <2> QED  BY <2>7, <2>8, <2>9, <2>10 DEF SessionIInv
<1>4. CASE ~caller[t].inner
  <2> DEFINE r == Session!Idle
  <2>1. client.phase = "probing" /\ caller[t].call = 0
    BY <1>1, <1>2, <1>4 DEF InPhase
  <2>2. /\ caller' = [caller EXCEPT ![t] = r] /\ wire' = wire /\ client' = [client EXCEPT !.phase = "refused"]
        /\ outcome' = outcome
    BY <1>1, <1>4 DEF Session!HandshakeFails, Session!Set
  <2>3. IsIdle(r, 0)
    BY <1>2, IdleTyped
  <2> HIDE DEF r
  <2>4. r \in Request /\ r.at = "idle" /\ r.msg = "none" /\ r.call = caller[t].call /\ r.call = 0 /\ ~r.inner
        /\ r.sent.session \in 0 .. made
    BY <1>2, <2>1, <2>3 DEF IsIdle
  <2>5. client' \in Phases /\ client'.phase = "refused" /\ client'.version = client.version
    BY <1>2, <2>2 DEF Phases
  <2>6. \A u \in Threads \ {t} : caller[u].at = "idle" /\ caller[u].call = 0
    BY <1>1, <1>2, <2>1 DEF Phased
  <2>7. SessionTyped'
    BY <1>1, <1>2, <2>2, <2>4, <2>5, StepTyped DEF Phases
  <2>8. Counted'
    <3>1. r.call \notin 1 .. MaxCalls
      BY <2>4
    <3> QED  BY <1>1, <1>2, <2>2, <2>4, <3>1, StepCounted
  <2>9. Phased'
    <3>1. InPhase(r, client'.phase)
      BY <2>4 DEF InPhase
    <3> QED  BY <1>2, <2>2, <2>4, <2>6, <3>1, StepPhased
  <2>10. Negotiated'
    <3>1. Knows(r, client'.version, probe', Session!Speaks)
      BY <2>4 DEF Knows
    <3> QED  BY <1>1, <1>2, <2>2, <2>4, <2>5, <3>1, StepNegotiated
  <2> QED  BY <2>7, <2>8, <2>9, <2>10 DEF SessionIInv
<1> QED  BY <1>3, <1>4

\* A call is over.
LEMMA AnswerKeeps ==
    ASSUME SessionIInv, NEW t \in Threads
    PROVE  Session!Answer(t) => SessionIInv'
<1>0. SUFFICES ASSUME Session!Answer(t) PROVE SessionIInv'
  OBVIOUS
<1> DEFINE r == [Session!Idle EXCEPT !.call = caller[t].call]
           how == CASE caller[t].status = "ok" -> "ok"
                    [] caller[t].status \in {"400", "401", "404"} -> "refused"
                    [] OTHER -> "failed"
<1>1. /\ caller[t].at = "answer" /\ caller[t].msg = "call"
      /\ caller' = [caller EXCEPT ![t] = r] /\ outcome' = [outcome EXCEPT ![<<t, caller[t].call>>] = how]
      /\ wire' = Session!Kept(t)
      /\ kind' = kind /\ live' = live /\ made' = made /\ token' = token /\ ran' = ran /\ probe' = probe /\ client' = client
  BY <1>0 DEF Session!Answer, Session!Read, Session!Ends, Session!Set, Session!Me
<1>2. /\ SessionTyped /\ Counted /\ Phased /\ Negotiated /\ caller[t] \in Request /\ made \in Nat /\ wire \in Wire(made)
      /\ token \in {"good", "stale"} /\ client \in Phases /\ caller[t].call \in 0 .. MaxCalls
      /\ outcome \in [Threads \X (1 .. MaxCalls) -> {"none", "ok", "refused", "failed"}]
      /\ InPhase(caller[t], client.phase) /\ client.phase \in {"probing", "connected"}
      /\ caller[t].call \in 1 .. MaxCalls => Tallied(caller[t], ran[<<t, caller[t].call>>], outcome[<<t, caller[t].call>>])
      /\ client.phase = "connected" => Agreed(client.version, wire, probe, Session!Speaks)
  BY Here, <1>1 DEF SessionIInv
<1>3. /\ how \in {"ok", "refused", "failed"}
      /\ how = "ok" => caller[t].status = "ok"
      /\ how = "refused" => caller[t].status \in {"400", "401", "404"}
  OBVIOUS
<1>4. /\ client.phase = "connected" /\ caller[t].call \in 1 .. MaxCalls
  BY <1>1, <1>2 DEF InPhase
<1>5. IsIdle(r, caller[t].call)
  BY <1>2, IdleTyped
<1> HIDE DEF r, how
<1>6. r \in Request /\ r.at = "idle" /\ r.msg = "none" /\ r.call = caller[t].call /\ ~r.inner /\ r.sent.session \in 0 .. made
  BY <1>2, <1>5 DEF IsIdle
<1>7. wire' \in Wire(made) /\ wire'.version = wire.version /\ wire'.era = wire.era
  BY <1>1, KeptTyped
<1>8. outcome' \in [Threads \X (1 .. MaxCalls) -> {"none", "ok", "refused", "failed"}]
  BY <1>1, <1>2, <1>3
<1>9. SessionTyped'
  BY <1>1, <1>2, <1>6, <1>7, <1>8, StepTyped DEF Phases
<1>10. Counted'
  <2>1. (how = "ok" => ran[<<t, r.call>>] = 1) /\ (how = "refused" => ran[<<t, r.call>>] = 0)
    BY <1>1, <1>2, <1>3, <1>4, <1>6 DEF Tallied
  <2> QED  BY <1>1, <1>2, <1>4, <1>6, <2>1, EndCounted
<1>11. Phased'
  <2>1. InPhase(r, client'.phase)
    BY <1>6 DEF InPhase
  <2> QED  BY <1>1, <1>2, <1>4, <1>6, <2>1, StepPhased
<1>12. Negotiated'
  <2>1. Knows(r, client'.version, probe', Session!Speaks)
    BY <1>6 DEF Knows
  <2>2. client'.phase = "connected" => Agreed(client'.version, wire', probe', Session!Speaks)
    BY <1>1, <1>2, <1>7 DEF Agreed
  <2> QED  BY <1>1, <1>2, <1>6, <2>1, <2>2, StepNegotiated
<1> QED  BY <1>9, <1>10, <1>11, <1>12 DEF SessionIInv

\* What is asked for after a server/discover, or after the first answer of a handshake.
LEMMA DiscoveryKeeps ==
    ASSUME SessionIInv, NEW t \in Threads
    PROVE  Session!Discovery(t) => SessionIInv'
<1>0. SUFFICES ASSUME Session!Discovery(t) PROVE SessionIInv'
  OBVIOUS
<1> DEFINE p == Session!Posting(caller[t], "discover", 1, wire, token)
           q == Session!Posting(caller[t], "initialize", 1, wire', token)
           i == Session!Idle
           st == caller[t].status
<1>1. /\ caller[t].at = "answer" /\ caller[t].msg = "discover" /\ probe' = st
      /\ kind' = kind /\ live' = live /\ made' = made /\ token' = token /\ ran' = ran /\ outcome' = outcome
  BY <1>0 DEF Session!Discovery, Session!Read
<1>2. \/ /\ st = "ok" /\ caller' = [caller EXCEPT ![t] = i]
         /\ client' = [client EXCEPT !.phase = "connected", !.version = "new"]
         /\ wire' = [Session!Kept(t) EXCEPT !.version = "new", !.era = "modern"]
      \/ caller' = [caller EXCEPT ![t] = p] /\ client' = client /\ wire' = wire
      \/ /\ st \in {"error", "names_now"} /\ caller' = [caller EXCEPT ![t] = q] /\ client' = client
         /\ wire' = [wire EXCEPT !.version = "now"]
      \/ caller' = [caller EXCEPT ![t] = i] /\ client' = [client EXCEPT !.phase = "refused"] /\ wire' = wire
  BY <1>0, <1>1 DEF Session!Discovery, Session!Read, Session!Adopt, Session!Handshake, Session!Set, Session!FallsBack, Session!Era
<1>3. /\ SessionTyped /\ Counted /\ Phased /\ Negotiated /\ caller[t] \in Request /\ made \in Nat /\ wire \in Wire(made)
      /\ token \in {"good", "stale"} /\ client \in Phases
      /\ outcome \in [Threads \X (1 .. MaxCalls) -> {"none", "ok", "refused", "failed"}]
      /\ InPhase(caller[t], client.phase) /\ client.phase \in {"probing", "connected"}
      /\ Knows(caller[t], client.version, probe, Session!Speaks)
  BY Here, <1>1 DEF SessionIInv
<1>4. client.phase = "probing" /\ caller[t].call = 0 /\ ~caller[t].inner
  BY <1>1, <1>3 DEF InPhase
<1>5. \A u \in Threads \ {t} : caller[u].at = "idle" /\ caller[u].call = 0
  BY <1>1, <1>3, <1>4 DEF Phased
<1>6. st = "ok" => "new" \in Session!Speaks
  BY <1>1, <1>3 DEF Knows
<1>7. Session!Kept(t) \in Wire(made)
  BY KeptTyped
<1>8. /\ wire' \in Wire(made)
      /\ client' \in Phases /\ client'.phase \in {"probing", "connected", "refused"}
      /\ client'.phase = "connected" =>
            st = "ok" /\ client'.version = "new" /\ wire'.version = "new" /\ wire'.era = "modern"
  <2>1. CASE st = "ok" /\ client' = [client EXCEPT !.phase = "connected", !.version = "new"]
             /\ wire' = [Session!Kept(t) EXCEPT !.version = "new", !.era = "modern"]
    <3> DEFINE k == Session!Kept(t)
    <3>1. k \in Wire(made) /\ wire' = [k EXCEPT !.version = "new", !.era = "modern"]
      BY <1>7, <2>1
    <3> HIDE DEF k
    <3>2. wire' \in Wire(made) /\ wire'.version = "new" /\ wire'.era = "modern"
      BY <3>1 DEF Wire, Eras
    <3>3. client' \in Phases /\ client'.phase = "connected" /\ client'.version = "new"
      BY <1>3, <2>1 DEF Phases
    <3> QED  BY <2>1, <3>2, <3>3
  <2>2. CASE client' = client /\ wire' \in {wire, [wire EXCEPT !.version = "now"]}
    BY <1>3, <1>4, <2>2 DEF Wire
  <2>3. CASE client' = [client EXCEPT !.phase = "refused"] /\ wire' = wire
    BY <1>3, <2>3 DEF Phases
  <2> QED  BY <1>2, <2>1, <2>2, <2>3
<1>9. IsPosted(p, caller[t], "discover", 1) /\ IsPosted(q, caller[t], "initialize", 1) /\ IsIdle(i, 0)
  <2>1. IsIdle(i, 0)
    <3>1. 0 \in 0 .. MaxCalls
      BY McpAssumption
    <3> QED  BY <3>1, IdleTyped
  <2> QED  BY <1>3, <1>8, <2>1, Posted
<1>10. PICK r \in {p, q, i} :
          /\ caller' = [caller EXCEPT ![t] = r]
          /\ (r = i /\ client'.phase \in {"connected", "refused"}) \/ (r # i /\ client' = client)
          /\ r = q /\ r # i /\ r # p => st \in {"error", "names_now"}
  <2>1. p # i /\ q # i
    BY <1>9 DEF IsPosted, IsIdle
  <2> HIDE DEF p, q, i, st
  <2>2. /\ client' = [client EXCEPT !.phase = "connected", !.version = "new"] => client'.phase = "connected"
        /\ client' = [client EXCEPT !.phase = "refused"] => client'.phase = "refused"
    BY <1>3 DEF Phases
  <2>3. CASE caller' = [caller EXCEPT ![t] = i]
             /\ (client' = [client EXCEPT !.phase = "connected", !.version = "new"] \/ client' = [client EXCEPT !.phase = "refused"])
    BY <2>1, <2>2, <2>3
  <2>4. CASE caller' = [caller EXCEPT ![t] = p] /\ client' = client
    BY <2>1, <2>4
  <2>5. CASE st \in {"error", "names_now"} /\ caller' = [caller EXCEPT ![t] = q] /\ client' = client
    BY <2>1, <2>5
  <2> QED  BY <1>2, <2>3, <2>4, <2>5
<1> HIDE DEF p, q, i, st
<1>11. /\ r \in Request /\ r.call = caller[t].call /\ r.call = 0 /\ ~r.inner /\ r.sent.session \in 0 .. made
       /\ \/ r = i /\ r.at = "idle" /\ r.msg = "none"
          \/ r # i /\ r.at = "wire" /\ r.msg = "discover"
          \/ r # i /\ r.at = "wire" /\ r.msg = "initialize" /\ st \in {"error", "names_now"}
  BY <1>3, <1>4, <1>9, <1>10 DEF IsPosted, IsIdle
<1>12. SessionTyped'
  BY <1>1, <1>3, <1>8, <1>10, <1>11, StepTyped DEF Phases
<1>13. Counted'
  <2>1. r.call \notin 1 .. MaxCalls
    BY <1>11
  <2> QED  BY <1>1, <1>3, <1>10, <1>11, <2>1, StepCounted
<1>14. Phased'
  <2>1. InPhase(r, client'.phase)
    BY <1>4, <1>10, <1>11 DEF InPhase
  <2> QED  BY <1>3, <1>5, <1>10, <1>11, <2>1, StepPhased
<1>15. Negotiated'
  <2>1. Knows(r, client'.version, probe', Session!Speaks)
    BY <1>1, <1>11 DEF Knows
  <2>2. client'.phase = "connected" => Agreed(client'.version, wire', probe', Session!Speaks)
    BY <1>6, <1>8 DEF Agreed
  <2> QED  BY <1>1, <1>3, <1>5, <1>10, <1>11, <2>1, <2>2, StepNegotiated
<1> QED  BY <1>12, <1>13, <1>14, <1>15 DEF SessionIInv

\* The answer to initialize.
LEMMA InitializeKeeps ==
    ASSUME SessionIInv, NEW t \in Threads
    PROVE  Session!Initialize(t) => SessionIInv'
<1>0. SUFFICES ASSUME Session!Initialize(t) PROVE SessionIInv'
  OBVIOUS
<1> DEFINE p == Session!Posting(caller[t], "initialized", 1, wire', token)
<1>1. /\ caller[t].at = "answer" /\ caller[t].msg = "initialize"
      /\ kind' = kind /\ live' = live /\ made' = made /\ token' = token /\ ran' = ran /\ probe' = probe
  BY <1>0 DEF Session!Initialize, Session!Read
<1>2. CASE caller[t].status # "ok"
  <2>1. FailsFrom(t)
    BY <1>0, <1>1, <1>2 DEF Session!Initialize, FailsFrom
  <2> QED  BY <2>1, FailsKeep
<1>3. CASE caller[t].status = "ok"
  <2>1. PICK v \in Session!Speaks \cap {"now", "old"} :
           /\ client' = [client EXCEPT !.version = v] /\ outcome' = outcome
           /\ wire' = [Session!Kept(t) EXCEPT !.version = v, !.era = Session!Era(v)]
           /\ caller' = [caller EXCEPT ![t] = p]
    BY <1>0, <1>3 DEF Session!Initialize, Session!Set
  <2>2. /\ SessionTyped /\ Counted /\ Phased /\ Negotiated /\ caller[t] \in Request /\ made \in Nat /\ wire \in Wire(made)
        /\ token \in {"good", "stale"} /\ client \in Phases /\ caller[t].call \in 0 .. MaxCalls
        /\ outcome \in [Threads \X (1 .. MaxCalls) -> {"none", "ok", "refused", "failed"}]
        /\ InPhase(caller[t], client.phase) /\ client.phase \in {"probing", "connected"}
        /\ Knows(caller[t], client.version, probe, Session!Speaks)
        /\ caller[t].call \in 1 .. MaxCalls => Tallied(caller[t], ran[<<t, caller[t].call>>], outcome[<<t, caller[t].call>>])
    BY Here, <1>1 DEF SessionIInv
  <2>3. probe \in {"error", "names_now"}
    BY <1>1, <2>2 DEF Knows
  <2>4. wire' \in Wire(made)
    <3> DEFINE k == Session!Kept(t)
    <3>1. k \in Wire(made) /\ wire' = [k EXCEPT !.version = v, !.era = "handshake"]
      BY <2>1, KeptTyped DEF Session!Era
    <3> HIDE DEF k
    <3> QED  BY <2>1, <3>1 DEF Wire, Eras
  <2>5. client' \in Phases /\ client'.phase = client.phase /\ client'.version = v
    BY <2>1, <2>2 DEF Phases
  <2>6. IsPosted(p, caller[t], "initialized", 1)
    BY <2>2, <2>4, Posted
  <2> HIDE DEF p
  <2>7. /\ p \in Request /\ p.at = "wire" /\ p.msg = "initialized" /\ p.call = caller[t].call /\ p.inner = caller[t].inner
        /\ p.sent.session \in 0 .. made
    BY <2>6 DEF IsPosted
  <2>8. SessionTyped'
    BY <1>1, <2>1, <2>2, <2>4, <2>5, <2>7, StepTyped DEF Phases
  <2>9. Counted'
    <3>1. p.call \in 1 .. MaxCalls => Tallied(p, ran[<<t, p.call>>], outcome[<<t, p.call>>])
      BY <1>1, <2>2, <2>7 DEF Tallied
    <3> QED  BY <1>1, <2>1, <2>2, <2>7, <3>1, StepCounted
  <2>10. Phased'
    <3>1. InPhase(p, client'.phase)
      BY <1>1, <2>2, <2>5, <2>7 DEF InPhase
    <3>2. client'.phase # "connected" => p.call = 0
      BY <2>2, <2>5, <2>7 DEF Phased
    <3> QED  BY <1>1, <2>1, <2>2, <2>5, <2>7, <3>1, <3>2, StepPhased
  <2>11. Negotiated'
    <3>1. Knows(p, client'.version, probe', Session!Speaks)
      BY <1>1, <2>1, <2>3, <2>5, <2>7 DEF Knows
    <3>2. Agreed(client'.version, wire', probe', Session!Speaks)
      BY <1>1, <2>1, <2>3, <2>5 DEF Agreed
    <3> QED  BY <1>1, <2>1, <2>2, <2>5, <2>7, <3>1, <3>2, StepNegotiated
  <2> QED  BY <2>8, <2>9, <2>10, <2>11 DEF SessionIInv
<1> QED  BY <1>2, <1>3

\* notifications/initialized has been posted.
LEMMA InitializedKeeps ==
    ASSUME SessionIInv, NEW t \in Threads
    PROVE  Session!Initialized_(t) => SessionIInv'
<1>0. SUFFICES ASSUME Session!Initialized_(t) PROVE SessionIInv'
  OBVIOUS
<1>1. /\ caller[t].at = "answer" /\ caller[t].msg = "initialized"
      /\ kind' = kind /\ live' = live /\ made' = made /\ token' = token /\ ran' = ran /\ probe' = probe
  BY <1>0 DEF Session!Initialized_, Session!Read
<1>2. CASE caller[t].status = "dead"
  <2>1. FailsFrom(t)
    BY <1>0, <1>1, <1>2 DEF Session!Initialized_, FailsFrom
  <2> QED  BY <2>1, FailsKeep
<1>3. /\ SessionTyped /\ Counted /\ Phased /\ Negotiated /\ caller[t] \in Request /\ made \in Nat /\ wire \in Wire(made)
      /\ token \in {"good", "stale"} /\ client \in Phases /\ caller[t].call \in 0 .. MaxCalls
      /\ outcome \in [Threads \X (1 .. MaxCalls) -> {"none", "ok", "refused", "failed"}]
      /\ InPhase(caller[t], client.phase) /\ client.phase \in {"probing", "connected"}
      /\ Knows(caller[t], client.version, probe, Session!Speaks)
      /\ caller[t].call \in 1 .. MaxCalls => Tallied(caller[t], ran[<<t, caller[t].call>>], outcome[<<t, caller[t].call>>])
      /\ client.phase = "connected" => Agreed(client.version, wire, probe, Session!Speaks)
  BY Here, <1>1 DEF SessionIInv
<1>4. CASE caller[t].status # "dead" /\ caller[t].inner
  <2> DEFINE p == Session!Posting(caller[t], "call", 3, wire', token)
             r == [p EXCEPT !.inner = FALSE]
  <2>1. /\ caller' = [caller EXCEPT ![t] = r] /\ wire' = [wire EXCEPT !.recovering = FALSE] /\ client' = client
        /\ outcome' = outcome
    BY <1>0, <1>4 DEF Session!Initialized_, Session!Set
  <2>2. client.phase = "connected" /\ caller[t].call \in 1 .. MaxCalls
    BY <1>1, <1>3, <1>4 DEF InPhase
  <2>3. wire' \in Wire(made) /\ wire'.version = wire.version /\ wire'.era = wire.era
    BY <1>3, <2>1 DEF Wire
  <2>4. IsPosted(p, caller[t], "call", 3)
    BY <1>3, <2>3, Posted
  <2> HIDE DEF p
  <2>5. /\ r \in Request /\ r.at = "wire" /\ r.msg = "call" /\ r.call = caller[t].call /\ ~r.inner
        /\ r.sent.session \in 0 .. made
    BY <2>4 DEF IsPosted, Request
  <2> HIDE DEF r
  <2>6. SessionTyped'
    BY <1>1, <1>3, <2>1, <2>3, <2>5, StepTyped DEF Phases
  <2>7. Counted'
    <3>1. Tallied(r, ran[<<t, r.call>>], outcome[<<t, r.call>>])
      BY <1>1, <1>3, <2>2, <2>5 DEF Tallied
    <3> QED  BY <1>1, <1>3, <2>1, <2>5, <3>1, StepCounted
  <2>8. Phased'
    <3>1. InPhase(r, client'.phase)
      BY <1>3, <2>1, <2>2, <2>5 DEF InPhase
    <3> QED  BY <1>3, <2>1, <2>2, <2>5, <3>1, StepPhased
  <2>9. Negotiated'
    <3>1. Knows(r, client'.version, probe', Session!Speaks)
      BY <2>5 DEF Knows
    <3>2. Agreed(client'.version, wire', probe', Session!Speaks)
      BY <1>1, <1>3, <2>1, <2>2, <2>3 DEF Agreed
    <3> QED  BY <1>1, <1>3, <2>1, <2>5, <3>1, <3>2, StepNegotiated
  <2> QED  BY <2>6, <2>7, <2>8, <2>9 DEF SessionIInv
<1>5. CASE caller[t].status # "dead" /\ ~caller[t].inner
  <2> DEFINE r == Session!Idle
  <2>1. /\ caller' = [caller EXCEPT ![t] = r] /\ wire' = wire /\ client' = [client EXCEPT !.phase = "connected"]
        /\ outcome' = outcome
    BY <1>0, <1>5 DEF Session!Initialized_, Session!Set
  <2>2. client.phase = "probing" /\ caller[t].call = 0
    BY <1>1, <1>3, <1>5 DEF InPhase
  <2>3. client.version \in Session!Speaks \cap {"now", "old"} /\ probe \in {"error", "names_now"}
    BY <1>1, <1>3 DEF Knows
  <2>4. \A u \in Threads \ {t} : caller[u].at = "idle" /\ caller[u].call = 0
    BY <1>1, <1>3, <2>2 DEF Phased
  <2>5. IsIdle(r, 0)
    <3>1. 0 \in 0 .. MaxCalls
      BY McpAssumption
    <3> QED  BY <3>1, IdleTyped
  <2> HIDE DEF r
  <2>6. r \in Request /\ r.at = "idle" /\ r.msg = "none" /\ r.call = caller[t].call /\ r.call = 0 /\ ~r.inner
        /\ r.sent.session \in 0 .. made
    BY <1>3, <2>2, <2>5 DEF IsIdle
  <2>7. client' \in Phases /\ client'.phase = "connected" /\ client'.version = client.version
    BY <1>3, <2>1 DEF Phases
  <2>8. SessionTyped'
    BY <1>1, <1>3, <2>1, <2>6, <2>7, StepTyped DEF Phases
  <2>9. Counted'
    <3>1. r.call \notin 1 .. MaxCalls
      BY <2>6
    <3> QED  BY <1>1, <1>3, <2>1, <2>6, <3>1, StepCounted
  <2>10. Phased'
    <3>1. InPhase(r, client'.phase)
      BY <2>6 DEF InPhase
    <3> QED  BY <1>3, <2>1, <2>4, <2>6, <3>1, StepPhased
  <2>11. Negotiated'
    <3>1. Knows(r, client'.version, probe', Session!Speaks)
      BY <2>6 DEF Knows
    <3>2. Agreed(client'.version, wire', probe', Session!Speaks)
      BY <1>1, <2>1, <2>3, <2>7 DEF Agreed
    <3> QED  BY <1>1, <1>3, <2>1, <2>6, <2>7, <3>1, <3>2, StepNegotiated
  <2> QED  BY <2>8, <2>9, <2>10, <2>11 DEF SessionIInv
<1> QED  BY <1>2, <1>4, <1>5

\* Every step of the session keeps the invariant.
LEMMA SessionKeeps ==
    ASSUME SessionIInv, Session!Next
    PROVE  SessionIInv'
<1>1. CASE Session!Restart \/ Session!Expire
  BY <1>1, TroublesKeep
<1>2. ASSUME NEW t \in Threads,
             \/ Session!Connect(t) \/ Session!Call(t) \/ Session!Serve(t) \/ Session!Reauthorize(t)
             \/ Session!Notice(t) \/ Session!Recover(t) \/ Session!Discovery(t) \/ Session!Initialize(t)
             \/ Session!Initialized_(t) \/ Session!Answer(t)
      PROVE  SessionIInv'
  BY <1>2, ConnectKeeps, CallKeeps, ServeKeeps, ReauthorizeKeeps, NoticeKeeps, RecoverKeeps, DiscoveryKeeps,
     InitializeKeeps, InitializedKeeps, AnswerKeeps
<1> QED  BY <1>1, <1>2 DEF Session!Next

\* The invariant holds at first.
LEMMA SessionStarts ==
    ASSUME Session!Init
    PROVE  SessionIInv
<1>1. /\ kind \in {"stateful", "older", "plain", "modern", "dual", "future"} /\ live = {} /\ made = 0 /\ token = "good"
      /\ client = [phase |-> "new", version |-> "now"]
      /\ wire = [version |-> "none", era |-> "handshake", session |-> 0, recovering |-> FALSE]
      /\ caller = [t \in Threads |-> Session!Idle]
      /\ ran = [c \in Threads \X (1 .. MaxCalls) |-> 0] /\ outcome = [c \in Threads \X (1 .. MaxCalls) |-> "none"]
  BY DEF Session!Init, Session!Calls, Session!None
<1> DEFINE i == Session!Idle
<1>2. IsIdle(i, 0)
  <2>1. 0 \in 0 .. MaxCalls
    BY McpAssumption
  <2> QED  BY <2>1, IdleTyped
<1> HIDE DEF i
<1>3. \A t \in Threads : caller[t] = i
  BY <1>1 DEF i
<1>4. i \in Request /\ i.at = "idle" /\ i.msg = "none" /\ i.call = 0 /\ ~i.inner /\ i.sent.session = 0
  BY <1>2 DEF IsIdle
<1>5. SessionTyped
  <2>1. wire \in Wire(made)
    BY <1>1 DEF Wire, Eras
  <2>2. caller \in [Threads -> Request]
    BY <1>1, <1>4 DEF i
  <2>3. \A t \in Threads : caller[t].sent.session \in 0 .. made
    BY <1>1, <1>3, <1>4
  <2> QED  BY <1>1, <2>1, <2>2, <2>3 DEF SessionTyped
<1>6. Counted
  BY <1>1, <1>3, <1>4 DEF Counted, Tallied
<1>7. Phased
  BY <1>1, <1>3, <1>4 DEF Phased, InPhase
<1>8. Negotiated
  BY <1>1, <1>3, <1>4 DEF Negotiated, Knows
<1> QED  BY <1>5, <1>6, <1>7, <1>8 DEF SessionIInv

\* What the invariant says.
LEMMA SessionSays ==
    ASSUME SessionIInv
    PROVE  Session!TypeOK /\ Session!Honest /\ Session!SharedWire
<1> USE DEF SessionIInv
<1>1. Session!TypeOK
  <2>1. /\ kind \in {"stateful", "older", "plain", "modern", "dual", "future"} /\ live \subseteq 1 .. made
        /\ token \in {"good", "stale"} /\ client \in Phases /\ wire \in Wire(made) /\ made \in Nat
    BY DEF SessionTyped, Phases
  <2>2. ASSUME NEW t \in Threads PROVE caller[t].call \in 0 .. MaxCalls /\ caller[t].try \in 1 .. 3
    <3>1. caller[t] \in Request
      BY Here
    <3> QED  BY <3>1 DEF Request
  <2> QED  BY <2>1, <2>2 DEF Session!TypeOK, Phases, Wire, Session!None
<1>2. Session!Honest
  BY DEF Session!Honest, Session!Calls, Counted
<1>3. Session!SharedWire
  BY DEF Session!SharedWire, Session!Era, Negotiated, Agreed
<1> QED  BY <1>1, <1>2, <1>3

\* The unchanged session keeps its invariant.
LEMMA SessionStays ==
    ASSUME SessionIInv, UNCHANGED sessionVars
    PROVE  SessionIInv'
<1>1. /\ kind' = kind /\ live' = live /\ made' = made /\ token' = token /\ client' = client /\ wire' = wire
      /\ caller' = caller /\ ran' = ran /\ outcome' = outcome /\ probe' = probe
  BY DEF sessionVars
<1>2. Session!Speaks' = Session!Speaks
  BY <1>1 DEF Session!Speaks
<1>3. SessionTyped' /\ Counted' /\ Phased'
  BY <1>1 DEF SessionIInv, SessionTyped, Counted, Phased
<1>4. Negotiated'
  BY <1>1, <1>2 DEF SessionIInv, Negotiated
<1> QED  BY <1>3, <1>4 DEF SessionIInv

\* The unchanged authorization keeps its invariant.
LEMMA OauthStays ==
    ASSUME OauthIInv, UNCHANGED oauthVars
    PROVE  OauthIInv'
<1>1. /\ tokens' = tokens /\ secrets' = secrets /\ minted' = minted /\ spent' = spent /\ asked' = asked
      /\ grantor' = grantor /\ sent' = sent /\ lost' = lost
  BY DEF oauthVars
<1>2. OauthTyped'
  BY <1>1 DEF OauthIInv, OauthTyped
<1>3. Held'
  BY <1>1 DEF OauthIInv, Held
<1>4. Voided' /\ Replaced'
  BY <1>1 DEF OauthIInv, Voided, Replaced
<1>5. Presented' /\ AsksForAll'
  BY <1>1 DEF OauthIInv, Presented, AsksForAll
<1> QED  BY <1>2, <1>3, <1>4, <1>5 DEF OauthIInv

\* The unchanged streams keep their invariant.
LEMMA StreamStays ==
    ASSUME StreamIInv, UNCHANGED streamVars
    PROVE  StreamIInv'
<1>1. /\ log' = log /\ shut' = shut /\ entry' = entry /\ stream' = stream /\ last' = last /\ get' = get /\ sub' = sub
      /\ cache' = cache /\ lister' = lister /\ routed' = routed /\ ended' = ended /\ notified' = notified
      /\ cleared' = cleared /\ raced' = raced
  BY DEF streamVars
<1>2. StreamTyped'
  BY <1>1 DEF StreamIInv, StreamTyped, LogTyped, ThreadTyped, CacheTyped
<1>3. Behind' /\ ToldAtEnd' /\ ClearedFirst'
  BY <1>1 DEF StreamIInv, Behind, ToldAtEnd, ClearedFirst
<1> QED  BY <1>2, <1>3 DEF StreamIInv

\* A connected client stays connected, and on its era.
LEMMA StaysOnEra ==
    ASSUME SessionIInv, Session!Next, client.phase = "connected"
    PROVE  client'.phase = "connected" /\ Session!Era(client'.version) = Session!Era(client.version)
<1>1. client \in Phases
  BY DEF SessionIInv, SessionTyped, Phases
<1>2. CASE client' = client
  BY <1>2
<1>3. ASSUME NEW t \in Threads, Session!Discovery(t) PROVE FALSE
  <2>1. caller[t].at = "answer" /\ caller[t].msg = "discover"
    BY <1>3 DEF Session!Discovery, Session!Read
  <2> QED  BY <2>1, Here DEF InPhase
<1>4. ASSUME NEW t \in Threads, Session!Initialize(t) \/ Session!Initialized_(t), client' # client
      PROVE  client'.phase = "connected" /\ Session!Era(client'.version) = Session!Era(client.version)
  <2>1. caller[t].at = "answer" /\ caller[t].msg \in {"initialize", "initialized"}
    BY <1>4 DEF Session!Initialize, Session!Initialized_, Session!Read
  <2>2. caller[t].inner /\ client.version # "new"
    BY <2>1, Here DEF InPhase, Knows
  <2>3. PICK v \in {"now", "old"} : client' = [client EXCEPT !.version = v]
    BY <1>4, <2>2 DEF Session!Initialize, Session!Initialized_, Session!HandshakeFails
  <2> QED  BY <1>1, <2>2, <2>3 DEF Session!Era, Phases
<1>5. ASSUME NEW t \in Threads,
             \/ Session!Call(t) \/ Session!Serve(t) \/ Session!Reauthorize(t) \/ Session!Notice(t)
             \/ Session!Recover(t) \/ Session!Answer(t)
      PROVE  client' = client
  BY <1>5 DEF Session!Call, Session!Serve, Session!Reauthorize, Session!Notice, Session!Recover, Session!Answer
<1>6. ASSUME NEW t \in Threads PROVE ~Session!Connect(t)
  BY DEF Session!Connect
<1>7. CASE Session!Restart \/ Session!Expire
  BY <1>7 DEF Session!Restart, Session!Expire
<1> QED  BY <1>2, <1>3, <1>4, <1>5, <1>6, <1>7 DEF Session!Next

-----------------------------------------------------------------------------
(* The parts, and the theorems.                                              *)

\* The composition does to each part what the part's own specification says.
THEOREM PartsImplemented == McpSpec => Spec /\ Session!Spec /\ OAuth!Spec /\ Http!Spec
<1>1. McpInit => Init /\ Session!Init /\ OAuth!Init /\ Http!Init
  BY DEF McpInit
<1>2. [McpNext]_mcpVars => [Next]_vars
  BY DEF McpNext, mcpVars, stdioVars, vars, table, env
<1>3. [McpNext]_mcpVars => [Session!Next]_Session!sessionVars
  BY DEF McpNext, mcpVars, sessionVars, Session!sessionVars
<1>4. [McpNext]_mcpVars => [OAuth!Next]_OAuth!oauthVars
  BY DEF McpNext, mcpVars, oauthVars, OAuth!oauthVars
<1>5. [McpNext]_mcpVars => [Http!Next]_Http!streamVars
  BY DEF McpNext, mcpVars, streamVars, Http!streamVars
<1> QED
  BY <1>1, <1>2, <1>3, <1>4, <1>5, PTL DEF McpSpec, Spec, Session!Spec, OAuth!Spec, Http!Spec

\* The invariants of the parts.
THEOREM StdioInvariant == Spec => []IInv
<1>1. IInv /\ [Next]_vars => IInv'
  BY TypeOKNext, CallsNext, AsksNext DEF IInv
<1> QED  BY InitIInv, <1>1, PTL DEF Spec

\* Of the session: who is where, what is counted, and what was agreed on.
THEOREM SessionInvariant == Session!Spec => []SessionIInv
<1>1. Session!Init => SessionIInv
  BY SessionStarts
<1>2. SessionIInv /\ [Session!Next]_Session!sessionVars => SessionIInv'
  BY SessionKeeps, SessionStays DEF sessionVars, Session!sessionVars
<1> QED  BY <1>1, <1>2, PTL DEF Session!Spec

\* Of the authorization: what is stored, what is void, and who holds what.
THEOREM OauthInvariant == OAuth!Spec => []OauthIInv
<1>1. OAuth!Init => OauthIInv
  BY McpAssumption, OauthStarts
<1>2. OauthIInv /\ [OAuth!Next]_OAuth!oauthVars => OauthIInv'
  BY McpAssumption, OauthKeeps, OauthStays DEF oauthVars, OAuth!oauthVars
<1> QED  BY <1>1, <1>2, PTL DEF OAuth!Spec

\* Of the streams: how far each reader is behind, and what it was told.
THEOREM StreamInvariant == Http!Spec => []StreamIInv
<1>1. Http!Init => StreamIInv
  BY McpAssumption, StreamStarts
<1>2. StreamIInv /\ [Http!Next]_Http!streamVars => StreamIInv'
  BY McpAssumption, StreamKeeps, StreamStays DEF streamVars, Http!streamVars
<1> QED  BY <1>1, <1>2, PTL DEF Http!Spec

\* The variables of every part keep their types, whatever the bounds.
THEOREM McpTypeCorrect == McpSpec => []McpTypeOK
<1>1. IInv => TypeOK
  BY DEF IInv
<1>2. SessionIInv => Session!TypeOK
  BY SessionSays
<1>3. OauthIInv => OAuth!TypeOK
  BY McpAssumption, OauthSays
<1>4. StreamIInv => Http!TypeOK
  BY McpAssumption, StreamSays
<1>5. IInv /\ SessionIInv /\ OauthIInv /\ StreamIInv => McpTypeOK
  BY <1>1, <1>2, <1>3, <1>4 DEF McpTypeOK
<1> QED
  BY PartsImplemented, StdioInvariant, SessionInvariant, OauthInvariant, StreamInvariant, <1>5, PTL

\* Whatever handlers do, raise or return: a call hears the answer to its own
\* request, has an entry exactly while it may be woken, a stream hears of its end
\* once, and a request of the server is answered once (_resolve_response,
\* _register, _fail_all, _handle_request).
THEOREM AnswersReachTheirCalls == Spec => [](Correlated /\ Tracked /\ ToldOnce /\ ServerAnswered)
<1>1. IInv => Correlated /\ Tracked /\ ToldOnce /\ ServerAnswered
  BY DEF IInv, CallsRight
<1> QED  BY StdioInvariant, <1>1, PTL

\* Where no handler raises, nobody waits either for a server whose exit ended the
\* reader's loop: all of StdioTrue (_fail_all, _read_loop).
THEOREM NobodyIsLeft ==
    ASSUME NoHandlerRaises
    PROVE  McpSpec => []StdioTrue
<1>1. IInv /\ Aware /\ [Next]_vars => Aware'
  BY EndIsExitNext DEF IInv
<1>2. IInv /\ Aware => StdioTrue
  BY DEF IInv, CallsRight, Aware, EndIsExit, ExitWakesAll, StdioTrue
<1>3. Spec => []StdioTrue
  BY InitIInv, StdioInvariant, <1>1, <1>2, PTL DEF Spec
<1> QED  BY PartsImplemented, <1>3, PTL

\* A call that is reported done ran once and one that is reported refused never did,
\* through re-authorizations, recoveries and replays; and the revision is one the server
\* speaks, fallen back on only after its own answer (_post, _recover_session,
\* _negotiate_auto).
THEOREM SessionHolds == McpSpec => []SessionTrue
<1>1. SessionIInv => SessionTrue
  BY SessionSays DEF SessionTrue
<1> QED  BY PartsImplemented, SessionInvariant, <1>1, PTL

\* A connected client, and a modern transport, never change wire (_recover_session).
THEOREM EraStays == McpSpec => EraKept
<1>1. ASSUME SessionIInv, SessionIInv', [Session!Next]_Session!sessionVars, client.phase = "connected",
             ~ UNCHANGED Session!sessionVars
      PROVE  /\ Session!Era(client'.version) = Session!Era(client.version)
             /\ client.version = "new" => wire'.version = "new" /\ wire'.era = "modern"
  <2>1. client'.phase = "connected" /\ Session!Era(client'.version) = Session!Era(client.version)
    BY <1>1, StaysOnEra
  <2>2. client.version = "new" => client'.version = "new"
    BY <2>1 DEF Session!Era
  <2>3. client'.version = "new" => wire'.version = "new" /\ wire'.era = "modern"
    BY <1>1, <2>1 DEF SessionIInv, Negotiated, Agreed
  <2> QED  BY <2>1, <2>2, <2>3
<1>2. SessionIInv /\ SessionIInv' /\ [Session!Next]_Session!sessionVars =>
        [client.phase = "connected" =>
           /\ Session!Era(client'.version) = Session!Era(client.version)
           /\ client.version = "new" => wire'.version = "new" /\ wire'.era = "modern"]_Session!sessionVars
  BY <1>1
<1> QED  BY PartsImplemented, SessionInvariant, <1>2, PTL DEF EraKept, Session!EraKept, Session!Spec

\* A token is presented where it was minted, what is stored still refreshes, and a
\* step-up asks for no less (reauthorize, _bound_tokens).
THEOREM OAuthHolds == McpSpec => []OAuthTrue
<1>1. OauthIInv => OAuthTrue
  BY McpAssumption, OauthSays DEF OAuthTrue
<1> QED  BY PartsImplemented, OauthInvariant, <1>1, PTL

\* A resumed stream misses nothing, a stream's end is told once, and a list that is read
\* after a change is the changed one (_stream_loop, listen).
THEOREM StreamHolds == McpSpec => []StreamTrue
<1>1. StreamIInv => StreamTrue
  BY McpAssumption, StreamSays DEF StreamTrue
<1> QED  BY PartsImplemented, StreamInvariant, <1>1, PTL
=============================================================================
