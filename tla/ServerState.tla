---------------------------- MODULE ServerState ----------------------------
(***************************************************************************)
(* A conversation over providers that keep it on their side: what a call   *)
(* sends, an id and the new turns or the whole transcript                  *)
(* (llm/server_state.py, as LLMClient applies it), and what the provider   *)
(* then reads.  Messages are known by the order they were made in; the     *)
(* transcript is the caller's, who may cut it or keep an answer late.      *)
(***************************************************************************)
EXTENDS Integers, Sequences, SequencesExt, FiniteSets

CONSTANTS
    Models,         \* <<provider, model>>
    Supports,       \* those whose catalog entry supports continuing
    BoundTo,        \* providers whose state is bound to the model
    Retention,      \* of each provider, or Forever
    Forever,
    Interjects,     \* whether something is said before the answer to what came before it is kept
    MaxTurns, MaxTime

VARIABLES
    messages,       \* the transcript: of [id, role, by, sid, createdAt]
    answer,         \* the last answer, until it is kept or dropped
    contexts,       \* the providers' side: of [by, holds, at]
    turns, now,
    cut,            \* history: messages dropped from the transcript
    read,           \* history: what the last call that was answered read, and the transcript then
    refused         \* history: why ids were refused

stateVars == <<messages, answer, contexts, turns, now, cut, read, refused>>

Nobody == <<"nobody", "none">>
NoAnswer == [id |-> 0, by |-> Nobody, sid |-> 0]
Ids(ms) == [i \in DOMAIN ms |-> ms[i].id]
Lapsed(provider, since) == Retention[provider] # Forever /\ now - since > Retention[provider]

Init ==
    /\ messages = <<>> /\ answer = NoAnswer /\ contexts = <<>> /\ turns = 0 /\ now = 0
    /\ cut = {} /\ read = [all |-> <<>>, transcript |-> <<>>] /\ refused = {}
-----------------------------------------------------------------------------
Full == [sid |-> 0, sent |-> messages]

\* The last of the assistant's turns that carries an id, or 0.
LastStated == Max({0} \cup {i \in DOMAIN messages : messages[i].role = "assistant" /\ messages[i].sid # 0})

\* Fault: what is sent is the last turn.
LastTurn(i) == SubSeq(messages, Len(messages), Len(messages))
\* Fault: the answer the id stands for is sent as well.
FromStored(i) == SubSeq(messages, i, Len(messages))
\* Only the turns after the stored one.
After(i) == SubSeq(messages, i + 1, Len(messages))

\* Fault: an id is taken back to whoever is asked.
AnyonesId(m, by) == m \in Supports
\* An id of the same provider, and of the same model where that matters.
MayContinue(m, by) == by[1] = m[1] /\ m \in Supports /\ (m[1] \in BoundTo => by[2] = m[2])

\* resolve_server_state
Decision(m, stateful) ==
    LET i == LastStated IN
    IF /\ stateful /\ i # 0
       /\ MayContinue(m, messages[i].by)
       /\ ~Lapsed(m[1], messages[i].createdAt)
       /\ After(i) # <<>>
    THEN [sid |-> messages[i].sid, sent |-> After(i)]
    ELSE Full

\* What a provider makes of an id: it knows its own, for as long as it keeps them.
Refusal(m, sid) ==
    IF sid = 0 THEN {}
    ELSE LET c == contexts[sid] IN
         {why \in {"foreign", "model", "lapsed"} :
             CASE why = "foreign" -> c.by[1] # m[1]
               [] why = "model" -> m[1] \in BoundTo /\ c.by # m
               [] why = "lapsed" -> Lapsed(c.by[1], c.at)}

\* The next thing is said. An answer not kept by then is dropped, or is kept behind it.
Say ==
    /\ turns < MaxTurns /\ turns' = turns + 1
    /\ messages' = Append(messages, [id |-> turns', role |-> "user", by |-> Nobody, sid |-> 0, createdAt |-> 0])
    /\ IF Interjects THEN UNCHANGED answer ELSE answer' = NoAnswer
    /\ UNCHANGED <<contexts, now, cut, read, refused>>

\* complete(): _apply_server_state, and the provider's answer, or its refusal of the id.
Ask(m, stateful) ==
    LET d == Decision(m, stateful)
        before == IF d.sid = 0 THEN <<>> ELSE contexts[d.sid].holds
        all == before \o Ids(d.sent)
    IN  /\ messages # <<>> /\ Last(messages).role = "user" /\ turns < MaxTurns
        /\ IF Refusal(m, d.sid) # {}
           THEN /\ refused' = refused \cup {[why |-> why, late |-> \E i \in DOMAIN messages :
                                               messages[i].sid = d.sid /\ messages[i].createdAt > contexts[d.sid].at]
                                             : why \in Refusal(m, d.sid)}
                /\ UNCHANGED <<answer, contexts, turns, read>>
           ELSE /\ turns' = turns + 1
                /\ contexts' = IF m \notin Supports THEN contexts
                               ELSE Append(contexts, [by |-> m, holds |-> Append(all, turns'), at |-> now])
                /\ answer' = [id |-> turns', by |-> m, sid |-> IF m \in Supports THEN Len(contexts') ELSE 0]
                /\ read' = [all |-> all, transcript |-> Ids(messages)]
                /\ UNCHANGED refused
        /\ UNCHANGED <<messages, now, cut>>

\* assistant_message() of the answer, or a message of the caller's own that says the same.
Keep(stamped) ==
    /\ answer # NoAnswer
    /\ messages' = Append(messages, [id |-> answer.id, role |-> "assistant", createdAt |-> IF stamped THEN now ELSE 0,
                                     by |-> IF stamped THEN answer.by ELSE Nobody,
                                     sid |-> IF stamped THEN answer.sid ELSE 0])
    /\ answer' = NoAnswer
    /\ UNCHANGED <<contexts, turns, now, cut, read, refused>>

\* The transcript loses its beginning: the caller's, a history's or a context guard's doing.
Cut(i) ==
    /\ i < Len(messages)
    /\ messages' = SubSeq(messages, i + 1, Len(messages)) /\ cut' = cut \cup ToSet(Ids(SubSeq(messages, 1, i)))
    /\ UNCHANGED <<answer, contexts, turns, now, read, refused>>

Tick == now < MaxTime /\ now' = now + 1 /\ UNCHANGED <<messages, answer, contexts, turns, cut, read, refused>>

Next ==
    \/ Say \/ Tick
    \/ \E m \in Models, stateful \in BOOLEAN : Ask(m, stateful)
    \/ \E stamped \in BOOLEAN : Keep(stamped)
    \/ \E i \in 1 .. Len(messages) - 1 : Cut(i)

Spec == Init /\ [][Next]_stateVars
-----------------------------------------------------------------------------
\* The state keeps its type.
TypeOK ==
    /\ turns \in 0 .. MaxTurns /\ now \in 0 .. MaxTime
    /\ \A i \in DOMAIN messages : messages[i].sid \in 0 .. Len(contexts) /\ messages[i].createdAt \in 0 .. now
    /\ \A c \in ToSet(contexts) : c.by \in Models

\* Where answers are kept in their place, and whatever is sent, a provider reads the whole transcript, in order and
\* nothing twice, over changes of provider and model, opted-out calls and turns without provenance; what it reads
\* besides was cut from the transcript (resolve_server_state: "the full transcript, which is always correct").
ContextWhole ==
    /\ IsSuffix(read.transcript, read.all) /\ IsInjective(read.all)
    /\ ToSet(read.all) \subseteq cut \cup ToSet(read.transcript)

\* An id is refused only for its age, and then only where its message was built later than the answer was made.
RefusedOnlyLate == \A r \in refused : r.why = "lapsed" /\ r.late

StateTrue == ContextWhole /\ RefusedOnlyLate

\* Stated and refuted by TLC: a provider reads the transcript and no more. What a cut took off it is still in the
\* context that the id of a later turn stands for.
CutIsCut == read.all = read.transcript

\* Stated and refuted by TLC: "TTL: if expired, the server has forgotten -- resend history" (server_state.py:73).
\* createdAt is the time of assistant_message(), not of the answer.
NeverRefused == refused = {}

\* ContextWhole is refuted by TLC too where Interjects: what was said before an answer and stands before it in the
\* transcript is neither in the answer's context nor after its turn, and no provider reads it again.
=============================================================================
