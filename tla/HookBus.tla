------------------------------ MODULE HookBus ------------------------------
(***************************************************************************)
(* HookBus of src/combycode_llm_sdk/bus/hook_bus.py, for one hook and the  *)
(* catch-all: subscriptions come and go while emits, each of which awaits  *)
(* its handlers one after the other, are under way.  A handler's own calls *)
(* on the bus are steps of their own, between that handler and the next.   *)
(***************************************************************************)
EXTENDS Integers, Sequences, Functions, FiniteSets

CONSTANTS
    Functions_,     \* handlers: the same one may be subscribed twice
    Emitters,       \* tasks that emit the hook
    MaxSubs, MaxEmits

VARIABLES
    handlers,       \* the lists: "hook" and "any", of [sub, f, once]
    subs,           \* subscriptions made so far
    emit,           \* each task's emit: where it stands, its copy of the list, what it called
    emits,          \* emits begun
    kept,           \* history: each emit's subscriptions that were there from its beginning
    fired           \* history: how often each subscription was called

busVars == <<handlers, subs, emit, emits, kept, fired>>

Hooks == {"hook", "any"}
NotEmitting == [at |-> "idle", copy |-> <<>>, pos |-> 0, called |-> <<>>]
SubsIn(list) == {list[i].sub : i \in DOMAIN list}

Init ==
    /\ handlers = [l \in Hooks |-> <<>>] /\ subs = 0
    /\ emit = [e \in Emitters |-> NotEmitting] /\ emits = 0
    /\ kept = [e \in Emitters |-> {}] /\ fired = [s \in 1 .. MaxSubs |-> 0]
-----------------------------------------------------------------------------
\* list.remove: the first that equals it.
WithoutFirst(list, h) ==
    LET same == {i \in DOMAIN list : list[i].f = h.f /\ list[i].once = h.once /\ (h.once => list[i].sub = h.sub)}
        i == CHOOSE i \in same : \A j \in same : i <= j
    IN  IF same = {} THEN list ELSE SubSeq(list, 1, i - 1) \o SubSeq(list, i + 1, Len(list))

Becomes(lists) ==
    /\ handlers' = lists
    /\ kept' = [e \in Emitters |-> kept[e] \cap UNION {SubsIn(lists[l]) : l \in Hooks}]

\* on, once and on_any; once wraps the handler, so that no two are equal.
Subscribe(l, f, once) ==
    /\ subs < MaxSubs /\ subs' = subs + 1
    /\ l = "any" => ~once
    /\ Becomes([handlers EXCEPT ![l] = Append(@, [sub |-> subs', f |-> f, once |-> once])])
    /\ UNCHANGED <<emit, emits, fired>>

\* The function that on() returned, of this subscription or of an equal one.
Unsubscribe(l, i) ==
    /\ Becomes([handlers EXCEPT ![l] = WithoutFirst(@, @[i])])
    /\ UNCHANGED <<subs, emit, emits, fired>>

\* off: of the hook, or of everything.
Off(all) ==
    /\ Becomes([l \in Hooks |-> IF all \/ l = "hook" THEN <<>> ELSE handlers[l]])
    /\ UNCHANGED <<subs, emit, emits, fired>>

BeginEmit(e) ==
    /\ emit[e].at = "idle" /\ emits < MaxEmits /\ emits' = emits + 1
    /\ emit' = [emit EXCEPT ![e] = [NotEmitting EXCEPT !.at = "hook", !.copy = handlers["hook"]]]
    /\ kept' = [kept EXCEPT ![e] = SubsIn(handlers["hook"])]
    /\ UNCHANGED <<handlers, subs, fired>>

\* Fault: the list itself is walked, while handlers leave it.
LeftOfList(e) == SubSeq(handlers[emit[e].at], emit[e].pos + 1, Len(handlers[emit[e].at]))
Left(e) == SubSeq(emit[e].copy, emit[e].pos + 1, Len(emit[e].copy))

\* The next handler is called; one made by once leaves the list first. A handler may raise.
CallNext(e, raises) ==
    /\ emit[e].at \in Hooks /\ Left(e) # <<>>
    /\ LET h == Head(Left(e)) IN
       /\ IF h.once THEN Becomes([handlers EXCEPT !["hook"] = WithoutFirst(@, h)]) ELSE UNCHANGED <<handlers, kept>>
       /\ fired' = [fired EXCEPT ![h.sub] = @ + 1]
       /\ emit' = IF raises THEN [emit EXCEPT ![e] = NotEmitting]
                  ELSE [emit EXCEPT ![e].pos = @ + 1, ![e].called = Append(@, h.sub)]
    /\ UNCHANGED <<subs, emits>>

\* The catch-all's handlers are copied when the hook's have been called.
TellAny(e) ==
    /\ emit[e].at = "hook" /\ Left(e) = <<>>
    /\ emit' = [emit EXCEPT ![e].at = "any", ![e].copy = handlers["any"], ![e].pos = 0]
    /\ kept' = [kept EXCEPT ![e] = @ \cup SubsIn(handlers["any"])]
    /\ UNCHANGED <<handlers, subs, emits, fired>>

EndEmit(e) ==
    /\ emit[e].at = "any" /\ Left(e) = <<>>
    /\ emit' = [emit EXCEPT ![e] = NotEmitting]
    /\ UNCHANGED <<handlers, subs, emits, kept, fired>>

Next ==
    \/ \E l \in Hooks, f \in Functions_, once \in BOOLEAN : Subscribe(l, f, once)
    \/ \E l \in Hooks : \E i \in DOMAIN handlers[l] : Unsubscribe(l, i)
    \/ \E all \in BOOLEAN : Off(all)
    \/ \E e \in Emitters : BeginEmit(e) \/ TellAny(e) \/ EndEmit(e)
    \/ \E e \in Emitters, raises \in BOOLEAN : CallNext(e, raises)

Spec == Init /\ [][Next]_busVars
-----------------------------------------------------------------------------
\* The state keeps its type.
TypeOK ==
    /\ subs \in 0 .. MaxSubs /\ emits \in 0 .. MaxEmits
    /\ \A l \in Hooks : SubsIn(handlers[l]) \subseteq 1 .. subs /\ Len(handlers[l]) = Cardinality(SubsIn(handlers[l]))
    /\ \A e \in Emitters : emit[e].at \in Hooks \cup {"idle"} /\ emit[e].pos \in 0 .. Len(emit[e].copy)

\* An emit that comes to its end has called every handler that was subscribed all along, and each once and in
\* the order of subscription, whoever subscribes, leaves or emits meanwhile ("which in Python skips the next
\* handler rather than raising", emit).
Delivered ==
    \A e \in Emitters : emit[e].at = "any" =>
        /\ Left(e) = <<>> => kept[e] \subseteq Range(emit[e].called)
        /\ IsInjective(emit[e].called)
        /\ \A i, j \in DOMAIN emit[e].called :
              i < j /\ emit[e].called[j] < emit[e].called[i] => emit[e].called[j] \in SubsIn(emit[e].copy)

\* Stated and refuted by TLC: a handler of once() is called once. hook_bus.py:121 calls it "a one-time handler"; two
\* emits that copied the list before either reached it both call it.
OnceIsOnce == \A s \in 1 .. MaxSubs :
    (\E e \in Emitters : \E i \in DOMAIN emit[e].copy : emit[e].copy[i].sub = s /\ emit[e].copy[i].once)
    => fired[s] <= 1
=============================================================================
