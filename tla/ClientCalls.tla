---------------------------- MODULE ClientCalls ----------------------------
(***************************************************************************)
(* Calls made through a client, on threads of their own, and the ledger    *)
(* they share (llm/client.py, client_base.py, cost_collector.py). The      *)
(* hooks may abort a call, answer it themselves, or raise; the wire may    *)
(* fail; a reply may not parse; a structured call repairs what it is       *)
(* given; a stream may be left before its end. A billed answer is known by *)
(* its number, and one that a hook gave by 0.                              *)
(***************************************************************************)
EXTENDS Integers, Sequences, SequencesExt, FiniteSetsExt

CONSTANTS
    Callers,
    Rates,          \* what a model's call costs, where its catalog entry says
    TierRates,      \* and at the tiers it is priced at, where it has any
    Asked,          \* the <<model, tier>> that are called
    Listed,         \* whether a structured call is given a list of messages, or a string
    MaxCalls, MaxRepairs, MaxClears,
    Torn,           \* a thread may be switched between the read and the write of +=
    ClearsAnytime   \* the ledger may be cleared while a call is being recorded

VARIABLES call, calls, answers, ledger, total, warned, warnings, clears, notes

callsVars == <<call, calls, answers, ledger, total, warned, warnings, clears, notes>>

Idle == [stage |-> "idle", kind |-> "complete", asked |-> <<>>, keyless |-> FALSE, attempt |-> 0, answer |-> 0, read |-> 0]
Stages == {"idle", "resolve", "submit", "fetch", "stream", "finish", "record", "adding", "noting", "heard", "parse"}
Priced(asked) == asked[1] \in DOMAIN Rates
TierPriced(asked) == asked[1] \in DOMAIN TierRates /\ asked[2] \in DOMAIN TierRates[asked[1]]
\* A tier's rate over the flat one, and the flat one for a tier that has none (compute_cost).
CostOf(asked) ==
    IF ~Priced(asked) THEN 0
    ELSE IF TierPriced(asked) THEN TierRates[asked[1]][asked[2]] ELSE Rates[asked[1]]

Init ==
    /\ call = [c \in Callers |-> Idle] /\ calls = 0 /\ answers = 0 /\ ledger = <<>> /\ total = 0
    /\ warned = {} /\ warnings = <<>> /\ clears = 0
    /\ notes = [c \in Callers |-> [lost |-> {}, turns |-> 0]]

Go(c, stage) == call' = [call EXCEPT ![c].stage = stage]
End(c) == call' = [call EXCEPT ![c] = Idle]
\* What a key that is missing has discarded.
Lose(c) == notes' = [notes EXCEPT ![c].lost = @ \cup {call[c].answer}]
LedgerUnchanged == UNCHANGED <<ledger, total, warned, warnings>>

Begin(c, kind, asked, keyless) ==
    /\ call[c].stage = "idle" /\ calls < MaxCalls /\ calls' = calls + 1
    /\ call' = [call EXCEPT ![c] = [Idle EXCEPT !.stage = "resolve", !.kind = kind, !.asked = asked, !.keyless = keyless]]
    /\ notes' = [notes EXCEPT ![c].turns = 0]
    /\ LedgerUnchanged /\ UNCHANGED <<answers, clears>>

\* onMessageResolve: a handler aborts the call, or raises, or lets it go on.
Resolve(c) ==
    /\ call[c].stage = "resolve"
    /\ End(c) \/ Go(c, IF call[c].kind = "stream" THEN "fetch" ELSE "submit")
    /\ LedgerUnchanged /\ UNCHANGED <<calls, answers, clears, notes>>

\* Fault: the moderation key is looked for when the answer is there to be moderated.
RefusesLater(c) == FALSE
Refuses(c) == call[c].keyless

\* onBeforeSubmit: a handler may raise, or answer the call; a call that is to be moderated
\* without a key is refused before it goes out, and one that a hook answered is too.
Submit(c) ==
    /\ call[c].stage = "submit"
    /\ \/ End(c)
       \/ ~Refuses(c) /\ \E to \in {"fetch", "finish"} : Go(c, to)
    /\ LedgerUnchanged /\ UNCHANGED <<calls, answers, clears, notes>>

Fetch(c) ==
    /\ call[c].stage = "fetch" /\ ~Refuses(c)
    /\ answers' = answers + 1
    /\ call' = [call EXCEPT ![c].stage = IF call[c].kind = "stream" THEN "stream" ELSE "finish", ![c].answer = answers + 1]
    /\ LedgerUnchanged /\ UNCHANGED <<calls, clears, notes>>
Refused(c) ==
    /\ call[c].stage = "fetch"
    /\ End(c)
    /\ LedgerUnchanged /\ UNCHANGED <<calls, answers, clears, notes>>

\* A stream that ends is recorded; one that breaks, or whose consumer goes away, is not.
Stream(c) ==
    /\ call[c].stage = "stream"
    /\ Go(c, "record") \/ End(c)
    /\ LedgerUnchanged /\ UNCHANGED <<calls, answers, clears, notes>>

\* The body is parsed, which may raise, and moderated, which only reports.
Finish(c) ==
    /\ call[c].stage = "finish"
    /\ \/ ~call[c].keyless /\ Go(c, "record") /\ UNCHANGED notes
       \/ call[c].keyless /\ End(c) /\ Lose(c)
       \/ End(c) /\ UNCHANGED notes
    /\ LedgerUnchanged /\ UNCHANGED <<calls, answers, clears>>

\* onCompletion reaches the collector first: the entry, the total, the two warnings.
Record(c) ==
    /\ call[c].stage = "record"
    /\ ledger' = Append(ledger, [answer |-> call[c].answer, asked |-> call[c].asked])
    /\ call' = [call EXCEPT ![c].stage = "adding", ![c].read = IF Torn THEN total ELSE 0]
    /\ UNCHANGED <<calls, answers, total, warned, warnings, clears, notes>>
\* Fault: what cannot be priced at its tier is not added.
AddPriced(c) == IF TierPriced(call[c].asked) \/ call[c].asked[2] = "standard" THEN CostOf(call[c].asked) ELSE 0
AddCost(c) == CostOf(call[c].asked)
Add(c) ==
    /\ call[c].stage = "adding"
    /\ total' = (IF Torn THEN call[c].read ELSE total) + AddCost(c)
    /\ Go(c, "noting")
    /\ UNCHANGED <<calls, answers, ledger, warned, warnings, clears, notes>>

\* What is said of a call once: that its model has no price, or that its tier has none though
\* others have.
Unsaid(asked) ==
    IF ~Priced(asked) THEN <<asked[1]>>
    ELSE IF asked[2] # "standard" /\ asked[1] \in DOMAIN TierRates /\ ~TierPriced(asked) THEN asked ELSE <<>>
\* A subscriber to onCostEntry or onCompletion may raise, once the entry is in.
Note(c) ==
    /\ call[c].stage = "noting"
    /\ LET key == Unsaid(call[c].asked) IN
       IF key = <<>> \/ key \in warned THEN UNCHANGED <<warned, warnings>>
       ELSE warned' = warned \cup {key} /\ warnings' = Append(warnings, key)
    /\ (call[c].kind = "structured" /\ Go(c, "parse")) \/ End(c)
    /\ UNCHANGED <<calls, answers, ledger, total, clears, notes>>

\* A reply that is not what was asked for is sent back with what is wrong with it, at the end
\* of the list the caller gave, while there are repairs left.
Parse(c) ==
    /\ call[c].stage = "parse"
    /\ \/ End(c) /\ UNCHANGED <<calls, notes>>
       \/ /\ call[c].attempt < MaxRepairs /\ calls < MaxCalls /\ calls' = calls + 1
          /\ call' = [call EXCEPT ![c].stage = "resolve", ![c].attempt = @ + 1, ![c].answer = 0]
          /\ notes' = [notes EXCEPT ![c].turns = @ + (IF Listed THEN 2 ELSE 0)]
    /\ LedgerUnchanged /\ UNCHANGED <<answers, clears>>

\* Fault: what has been warned of stays so.
ForgetLedger == ledger' = <<>> /\ total' = 0 /\ warnings' = <<>> /\ UNCHANGED warned
Forget == ledger' = <<>> /\ total' = 0 /\ warnings' = <<>> /\ warned' = {}
Clear ==
    /\ clears < MaxClears
    /\ ClearsAnytime \/ \A c \in Callers : call[c].stage \notin {"adding", "noting"}
    /\ Forget /\ clears' = clears + 1
    /\ UNCHANGED <<call, calls, answers, notes>>

Next ==
    \/ \E c \in Callers :
          \/ \E kind \in {"complete", "structured", "stream"}, asked \in Asked, keyless \in BOOLEAN : Begin(c, kind, asked, keyless)
          \/ Resolve(c) \/ Submit(c) \/ Fetch(c) \/ Refused(c) \/ Stream(c) \/ Finish(c)
          \/ Record(c) \/ Add(c) \/ Note(c) \/ Parse(c)
    \/ Clear

Spec == Init /\ [][Next]_callsVars

TypeOK ==
    /\ \A c \in Callers : call[c].stage \in Stages /\ call[c].attempt \in 0 .. MaxRepairs /\ call[c].answer \in 0 .. answers
    /\ answers \in 0 .. calls /\ calls \in 0 .. MaxCalls /\ total \in Nat /\ clears \in 0 .. MaxClears

-----------------------------------------------------------------------------
Recording(stages) == {c \in Callers : call[c].stage \in stages}

\* The running total is the ledger's, whoever is being recorded (CostCollector.running_total,
\* "which is authoritative rather than a snapshot that can drift").
TotalIsSum ==
    total + MapThenSumSet(LAMBDA c : CostOf(call[c].asked), Recording({"adding"}))
      = MapThenSumSet(LAMBDA n : CostOf(ledger[n].asked), DOMAIN ledger)

\* Since it was cleared, each model of the ledger that has no price, and each tier that has
\* none, has been warned of once, and nothing else has (_note_if_unpriced,
\* _note_if_tier_unpriced, clear).
WarnedOnce ==
    /\ Cardinality(ToSet(warnings)) = Len(warnings)
    /\ {Unsaid(ledger[n].asked) : n \in DOMAIN ledger} \ {<<>>}
          \subseteq ToSet(warnings) \cup {Unsaid(call[c].asked) : c \in Recording({"adding", "noting"})}
    /\ ToSet(warnings) \subseteq {Unsaid(ledger[n].asked) : n \in DOMAIN ledger}

\* An answer that was billed is in the ledger at most once, and none is discarded for want of
\* a key to moderate it with (_moderation_plan, "never discards a billed completion").
BilledOnce ==
    /\ \A m, n \in DOMAIN ledger : m # n /\ ledger[m].answer = ledger[n].answer => ledger[m].answer = 0
    /\ \A c \in Callers : notes[c].lost \subseteq {0}

CallsTrue == TotalIsSum /\ WarnedOnce /\ BilledOnce

\* What a hook answered is not paid for (onBeforeSubmit).
AnsweredIsFree == \A n \in DOMAIN ledger : ledger[n].answer = 0 => CostOf(ledger[n].asked) = 0

\* A caller's list of messages is what the caller made it (structured_complete).
OwnList == \A c \in Callers : notes[c].turns = 0
=============================================================================
