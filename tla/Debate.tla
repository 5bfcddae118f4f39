------------------------------- MODULE Debate -------------------------------
(***************************************************************************)
(* Several models arguing until an outsider says that they agree           *)
(* (helpers/consolidate.py). The agents of a round are asked at once, on   *)
(* threads (consolidate) or gathered (aconsolidate), and any call may      *)
(* fail. A text is known by who wrote it, in which round, and whose texts  *)
(* it was shown.                                                           *)
(***************************************************************************)
EXTENDS Naturals, Sequences, SequencesExt, FiniteSets

CONSTANTS
    Agents,         \* how many, known by their places
    Rounds

VARIABLES
    mode,           \* "threads" or "gathered"
    stage,          \* where consolidate is
    prompt,         \* what the agents of this round are shown
    asking,         \* the agents whose call is under way
    texts, order,   \* the texts that have come, by agent, and in the order of coming
    transcript,
    unreadable,     \* the judge's failures
    agreedAt,
    report          \* what on_round has been told, and what the summary was made of

debateVars == <<mode, stage, prompt, asking, texts, order, transcript, unreadable, agreedAt, report>>

People == 1 .. Agents
NoText == [by |-> 0, round |-> 0, shown |-> <<>>]
Text(a) == [by |-> a, round |-> Len(transcript) + 1, shown |-> prompt]
Ended == stage \in {"done", "raised"}

Init ==
    /\ mode \in {"threads", "gathered"} /\ stage = "round"
    /\ prompt = <<>> /\ asking = {} /\ texts = [a \in People |-> NoText] /\ order = <<>>
    /\ transcript = <<>> /\ unreadable = 0 /\ agreedAt = 0
    /\ report = [told |-> <<>>, summary |-> <<>>]

\* Fault: each round is shown the first one's answers.
PriorFirst == IF transcript = <<>> THEN <<>> ELSE <<Len(Head(transcript)), 1>>
\* The round before this one is quoted back, every answer of it.
Prior == IF transcript = <<>> THEN <<>> ELSE <<Len(Last(transcript)), Len(transcript)>>

Ask ==
    /\ stage = "round" /\ Len(transcript) < Rounds
    /\ stage' = "asking" /\ prompt' = Prior
    /\ asking' = People /\ texts' = [a \in People |-> NoText] /\ order' = <<>>
    /\ UNCHANGED <<mode, transcript, unreadable, agreedAt, report>>

Answer(a) ==
    /\ a \in asking
    /\ asking' = asking \ {a}
    /\ IF stage = "asking" THEN texts' = [texts EXCEPT ![a] = Text(a)] /\ order' = Append(order, Text(a))
       ELSE UNCHANGED <<texts, order>>
    /\ UNCHANGED <<mode, stage, prompt, transcript, unreadable, agreedAt, report>>

\* A call that fails is raised when the pool has ended with every thread of it, or at once,
\* with the other calls still under way.
Fail(a) ==
    /\ a \in asking
    /\ asking' = asking \ {a}
    /\ stage' = IF mode = "gathered" /\ stage = "asking" THEN "raised" ELSE stage
    /\ UNCHANGED <<mode, prompt, texts, order, transcript, unreadable, agreedAt, report>>

\* Fault: the texts are given to the agents in the order they came.
AsTheyCame == order
Answers == [a \in People |-> texts[a]]

Gather ==
    /\ stage = "asking" /\ asking = {}
    /\ IF \E a \in People : texts[a] = NoText THEN stage' = "raised" /\ UNCHANGED transcript
       ELSE stage' = "judge" /\ transcript' = Append(transcript, Answers)
    /\ UNCHANGED <<mode, prompt, asking, texts, order, unreadable, agreedAt, report>>

\* The judge's verdict: yes, no, one that cannot be read, or none at all; on_round may raise.
Judge(verdict) ==
    /\ stage = "judge"
    /\ unreadable' = IF verdict = "unreadable" THEN unreadable + 1 ELSE unreadable
    /\ report' = IF verdict = "raises" THEN report ELSE [report EXCEPT !.told = Append(@, verdict)]
    /\ \/ /\ verdict # "raises"
          /\ stage' = IF verdict = "yes" THEN "summary" ELSE "round"
          /\ agreedAt' = IF verdict = "yes" THEN Len(transcript) ELSE agreedAt
       \/ stage' = "raised" /\ UNCHANGED agreedAt
    /\ UNCHANGED <<mode, prompt, asking, texts, order, transcript>>

\* The rounds are up. With none at all there is no last one to write up, and that raises.
GiveUp ==
    /\ stage = "round" /\ Len(transcript) = Rounds
    /\ stage' = IF transcript = <<>> THEN "raised" ELSE "summary"
    /\ UNCHANGED <<mode, prompt, asking, texts, order, transcript, unreadable, agreedAt, report>>

Summarise ==
    /\ stage = "summary"
    /\ \/ stage' = "done" /\ report' = [report EXCEPT !.summary = Last(transcript)]
       \/ stage' = "raised" /\ UNCHANGED report
    /\ UNCHANGED <<mode, prompt, asking, texts, order, transcript, unreadable, agreedAt>>

Next ==
    \/ Ask \/ Gather \/ GiveUp \/ Summarise
    \/ \E a \in People : Answer(a) \/ Fail(a)
    \/ \E verdict \in {"yes", "no", "unreadable", "raises"} : Judge(verdict)

Spec == Init /\ [][Next]_debateVars

TypeOK ==
    /\ stage \in {"round", "asking", "judge", "summary", "done", "raised"}
    /\ asking \subseteq People /\ agreedAt \in 0 .. Rounds /\ unreadable \in 0 .. Rounds

-----------------------------------------------------------------------------
\* Each round is every agent's own answer to the whole of the round before, whoever answered
\* first; a debate ends where its judge agreed or when its rounds are up, tells each round
\* once, counts each verdict it could not read, and writes up its last round; and on threads
\* nothing is under way when it has ended (consolidate, _round_prompt, _verdict_of).
DebateTrue ==
    /\ \A n \in DOMAIN transcript, a \in People :
          transcript[n][a] = [by |-> a, round |-> n, shown |-> IF n = 1 THEN <<>> ELSE <<Agents, n - 1>>]
    /\ unreadable >= Len(SelectSeq(report.told, LAMBDA v : v = "unreadable"))
    /\ Len(report.told) <= Len(transcript)
    /\ \A n \in DOMAIN report.told : report.told[n] = "yes" => n = Len(transcript)
    /\ stage = "done" => /\ report.summary = Last(transcript) /\ Len(report.told) = Len(transcript)
                         /\ Len(transcript) = IF agreedAt = 0 THEN Rounds ELSE agreedAt
                         /\ agreedAt # 0 <=> Last(report.told) = "yes"
                         /\ unreadable = Len(SelectSeq(report.told, LAMBDA v : v = "unreadable"))
    /\ (mode = "threads" /\ Ended) => asking = {}

\* Gathered or on threads, a debate that has ended has nothing under way (aconsolidate).
NoneOutlives == Ended => asking = {}
=============================================================================
