----------------------------- MODULE Retrieval -----------------------------
(***************************************************************************)
(* Documents indexed at a provider, through a handle that may own what it  *)
(* stands for (retrieval/hosted.py, corpus.py): a document is uploaded and *)
(* then attached, the provider indexes it or fails to, the caller waits    *)
(* until the index is said to be ready, and leaving the block deletes what *)
(* the handle created. Any call may fail.                                  *)
(***************************************************************************)
EXTENDS Naturals, FiniteSets

CONSTANTS
    Providers, Docs, Patience,  \* how often a wait asks
    Lags                        \* whether a listing may leave out what was just attached

VARIABLES
    provider,
    owns,       \* whether the handle created the corpus
    store,      \* "none", "there" or "deleted"
    files,      \* the uploads the provider holds
    state,      \* of each document attached: "queued", "indexed" or "failed"
    step,       \* what the caller's thread is doing
    asked,      \* how often this wait has asked
    told,       \* what the last wait returned, and of what documents it could have known
    failedDelete

retrievalVars == <<provider, owns, store, files, state, step, asked, told, failedDelete>>

Attached == DOMAIN state
In(status) == {d \in Attached : state[d] = status}
Nothing == [state |-> "none", unready |-> {}]

Init ==
    /\ provider \in Providers /\ owns \in BOOLEAN
    /\ store = IF owns THEN "none" ELSE "there"
    /\ files = {} /\ state = <<>> /\ step = [at |-> IF owns THEN "outside" ELSE "inside", doc |-> {}]
    /\ asked = 0 /\ told = Nothing /\ failedDelete = FALSE

At(where) == step.at = where
Goto(where) == step' = [at |-> where, doc |-> {}]

\* A handle that could not create its corpus is none.
Create ==
    /\ At("outside")
    /\ \/ store' = "there" /\ Goto("inside")
       \/ Goto("gone") /\ UNCHANGED store
    /\ UNCHANGED <<provider, owns, files, state, asked, told, failedDelete>>

\* add_document: an upload, and an attachment that may fail when the upload has not.
Upload(d) ==
    /\ At("inside") /\ d \notin files
    /\ \/ files' = files \cup {d} /\ step' = [at |-> "attach", doc |-> {d}]
       \/ UNCHANGED <<files, step>>
    /\ UNCHANGED <<provider, owns, store, state, asked, told, failedDelete>>
Attach ==
    /\ At("attach") /\ Goto("inside")
    /\ state' \in {[d \in Attached \cup step.doc |-> IF d \in step.doc THEN "queued" ELSE state[d]], state}
    /\ UNCHANGED <<provider, owns, store, files, asked, told, failedDelete>>

Remove(d) ==
    /\ At("inside") /\ d \in Attached
    /\ state' \in {[e \in Attached \ {d} |-> state[e]], state}
    /\ UNCHANGED <<provider, owns, store, files, step, asked, told, failedDelete>>

\* The provider's work.
Index(d) ==
    /\ d \in In("queued") /\ store = "there"
    /\ \E to \in {"indexed", "failed"} : state' = [state EXCEPT ![d] = to]
    /\ UNCHANGED <<provider, owns, store, files, step, asked, told, failedDelete>>

\* Fault: that some document is indexed is enough.
AnyIndexed(listed) ==
    IF In("indexed") \cap listed # {} THEN "ready" ELSE IF In("failed") \cap listed # {} THEN "error"
    ELSE IF listed = {} THEN "pending" ELSE "indexing"
\* What xAI's documents say: none is not ready, and one that failed is an error.
AllIndexed(listed) ==
    IF listed = {} THEN "pending"
    ELSE IF In("failed") \cap listed # {} THEN "error"
    ELSE IF listed \subseteq In("indexed") THEN "ready" ELSE "indexing"
\* OpenAI's word for its store, whose count of failures is only passed on, and Gemini's, which
\* has none and is taken to be ready. A status that cannot be had is an error.
Statuses(listed) ==
    {"error"} \cup
    CASE provider = "openai" -> {IF In("queued") = {} THEN "ready" ELSE "indexing"}
      [] provider = "google" -> {"ready"}
      [] provider = "xai"    -> {AllIndexed(listed)}

\* wait_indexed asks until there is an answer or no time is left, and then raises.
Wait ==
    /\ At("inside") /\ step' = [at |-> "waiting", doc |-> {}] /\ asked' = 0 /\ told' = Nothing
    /\ UNCHANGED <<provider, owns, store, files, state, failedDelete>>
Ask ==
    /\ At("waiting") /\ asked <= Patience
    /\ \E listed \in IF Lags THEN SUBSET Attached ELSE {Attached} : \E status \in Statuses(listed) :
          IF status \in {"pending", "indexing"}
          THEN asked' = asked + 1 /\ UNCHANGED <<step, told>>
          ELSE /\ told' = [state |-> status, unready |-> Attached \ In("indexed")]
               /\ Goto("inside") /\ UNCHANGED asked
    /\ UNCHANGED <<provider, owns, store, files, state, failedDelete>>
GiveUp ==
    /\ At("waiting") /\ asked > Patience
    /\ told' = [told EXCEPT !.state = "timeout"] /\ Goto("inside")
    /\ UNCHANGED <<provider, owns, store, files, state, asked, failedDelete>>

\* Fault: the block deletes what it was handed.
DeletesAdopted == TRUE
Deletes == owns
\* The block is left, by its end or by what it raised.
Leave ==
    /\ step.at \in {"inside"} /\ Goto("gone")
    /\ \/ Deletes /\ store' = "deleted" /\ state' = <<>> /\ UNCHANGED failedDelete
       \/ Deletes /\ failedDelete' = TRUE /\ UNCHANGED <<store, state>>
       \/ ~Deletes /\ UNCHANGED <<store, state, failedDelete>>
    /\ UNCHANGED <<provider, owns, files, asked, told>>

Next ==
    \/ Create \/ Attach \/ Wait \/ Ask \/ GiveUp \/ Leave
    \/ \E d \in Docs : Upload(d) \/ Remove(d) \/ Index(d)

Spec == Init /\ [][Next]_retrievalVars

TypeOK ==
    /\ store \in {"none", "there", "deleted"} /\ files \subseteq Docs /\ Attached \subseteq files
    /\ step.at \in {"outside", "inside", "attach", "waiting", "gone"} /\ asked \in 0 .. Patience + 1

-----------------------------------------------------------------------------
\* Who is told that the index is ready can search every document attached: at xAI all of
\* them are indexed, at OpenAI none is still to be, and a wait that was not answered raised
\* (wait_indexed, index_status).
ReadyTrue ==
    told.state = "ready" =>
        /\ provider = "xai" => told.unready = {}
        /\ provider = "openai" => told.unready \cap In("queued") = {}

\* A corpus that the handle created is deleted when its block has been left, unless that
\* failed, and one that was adopted never is (Corpus.__exit__, "a standing charge").
NoCharge ==
    At("gone") => /\ owns => store \in {"none", "deleted"} \/ failedDelete
                  /\ ~owns => store = "there"

RetrievalTrue == ReadyTrue /\ NoCharge

\* "Block until the provider will actually search these documents": at every provider.
ReadyMeansAll == told.state = "ready" => told.unready = {}
\* A corpus that is deleted leaves nothing behind.
NoFileLeft == store = "deleted" => files = {}
=============================================================================
