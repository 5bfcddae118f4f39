-------------------------------- MODULE Media --------------------------------
(***************************************************************************)
(* Images, speech and video made at endpoints of their own: MediaOutput    *)
(* (media/output.py), the adapters of four providers beside it, and the    *)
(* two stores (stores.py). A video is submitted, polled and downloaded; an *)
(* asset is saved as its bytes and then a sidecar; and what was made is    *)
(* told of once. An asset is known by its call and its place, and its      *)
(* bytes by what they are: the asset's, none, or an error's.               *)
(***************************************************************************)
EXTENDS Naturals, Sequences, SequencesExt, FiniteSets, FiniteSetsExt

CONSTANTS
    Vendors,        \* of "openai", "google", "imagen" (Google's, which answers otherwise), "xai", "openrouter"
    Raises,         \* whether fetch raises on an HTTP error (an engine's does, a caller's own need not)
    Gaps,           \* whether an answer may hold an item with nothing in it
    Interval, MaxWait,  \* poll_interval, max_poll_wait
    Slow,           \* bound: ticks that a request takes
    MaxRows, MaxMade    \* bounds: items of an answer, calls

VARIABLES
    vendor, onDisk, reachable,  \* the handle: its provider, its store, what the catalog says
    closed,         \* _stop
    clock,          \* since the call began
    made,           \* calls begun
    op,             \* the call under way or over
    job,            \* the provider's: a video's progress
    media,          \* the store: asset -> what is there of its bytes and of its sidecar
    receipts,       \* the assets a caller was told of
    deleting, torn  \* the asset being deleted, and those whose deletion a crash cut short

mediaVars == <<vendor, onDisk, reachable, closed, clock, made, op, job, media, receipts, deleting, torn>>

NoAsset == <<0, 0>>
Nothing == [bytes |-> "none", sidecar |-> "none"]
NoOp == [kind |-> "image", at |-> "idle", rows |-> <<>>, raw |-> <<>>, billed |-> 0, asked |-> 0, until |-> 0,
         deadline |-> 0, saved |-> 0, told |-> <<>>, end |-> "none"]

Init ==
    /\ vendor \in Vendors /\ onDisk \in BOOLEAN /\ reachable \in BOOLEAN
    /\ closed = FALSE /\ clock = 0 /\ made = 0 /\ op = NoOp /\ job = "none"
    /\ media = [a \in {} |-> Nothing] /\ receipts = {} /\ deleting = NoAsset /\ torn = {}

-----------------------------------------------------------------------------
handleVars == <<vendor, onDisk, reachable>>
storeVars == <<media, receipts, deleting, torn>>

Raised(o, how) == [o EXCEPT !.at = "idle", !.end = how]
Told(o, what) == [o EXCEPT !.told = Append(@, what)]
Asking(o, at) == [o EXCEPT !.at = at, !.asked = clock]

\* What the catalog has measured as unreachable.
Refused == ~reachable

\* OpenRouter routes chat, and no chat makes video.
Capable(kind) == ~(vendor = "openrouter" /\ kind = "video")

\* The refusal and the capability are asked about before anything is sent.
Generate(kind) ==
    /\ op.at = "idle" /\ made < MaxMade /\ (vendor = "imagen" => kind = "image")
    /\ made' = made + 1 /\ clock' = 0
    /\ LET o == [NoOp EXCEPT !.kind = kind]
       IN  op' = IF Refused THEN Raised(o, "unsupported")
                 ELSE IF ~Capable(kind) THEN Raised(o, "value")
                 ELSE [o EXCEPT !.at = IF kind = "video" THEN "submitting" ELSE "asking"]
    /\ job' = "none"
    /\ UNCHANGED <<handleVars, closed, storeVars>>

-----------------------------------------------------------------------------
\* What the adapters make of an answer.

Asset(bytes, usage) == [bytes |-> bytes, usage |-> usage]

\* The usage rides on the first.
Usage(i) == IF i = 1 THEN op.billed ELSE 0
Present(rows) == SelectSeq([i \in DOMAIN rows |-> <<rows[i], i>>], LAMBDA row : row[1] # "nothing")

\* Every item, though it hold nothing.
OpenAIRaw(rows) == [i \in DOMAIN rows |-> Asset(IF rows[i] = "inline" THEN "whole" ELSE "empty", Usage(i))]
GoogleRaw(rows) == [i \in DOMAIN Present(rows) |-> Asset("whole", Usage(i))]
\* On the first that came, not the first that is kept.
OpenRouterRaw(rows) == [i \in DOMAIN Present(rows) |-> Asset("whole", Usage(Present(rows)[i][2]))]
\* By now the places have been fetched from.
XaiRaw(rows) ==
    [i \in DOMAIN Present(rows) |->
        Asset(IF Present(rows)[i][1] = "inline" THEN "whole" ELSE Present(rows)[i][1], 0)]

RawOf(rows) ==
    CASE vendor \in {"openai", "imagen"} -> OpenAIRaw(rows)
      [] vendor = "google" -> GoogleRaw(rows)
      [] vendor = "openrouter" -> OpenRouterRaw(rows)
      [] vendor = "xai" -> XaiRaw(rows)

\* xAI may answer with places to fetch from; every usage but xAI's and Imagen's is in tokens.
RowKinds == {"inline"} \cup (IF vendor = "xai" THEN {"url"} ELSE {}) \cup (IF Gaps THEN {"nothing"} ELSE {})
Usages == IF vendor \in {"openai", "google", "openrouter"} THEN {0, 1} ELSE {0}

\* What is saved next: a batch without assets is told of at once.
Saving(o, raw) == [o EXCEPT !.raw = raw, !.at = IF raw = <<>> THEN "telling" ELSE "bytes"]

\* A body is audio whatever it says; Google and OpenRouter have to find theirs in an answer.
Spoken(o, good) == Saving(o, <<Asset(IF good THEN "whole" ELSE "error", 0)>>)
Heard(o) ==
    IF Present(o.rows) = <<>> THEN Raised(o, "runtime") ELSE Saving(o, <<Asset("whole", o.billed)>>)

Answered ==
    /\ op.at = "asking"
    /\ \/ \E n \in 0 .. MaxRows : \E rows \in [1 .. n -> RowKinds], u \in Usages :
             LET o == [op EXCEPT !.billed = u, !.rows = rows]
             IN  op' = IF op.kind # "audio" THEN [o EXCEPT !.at = "parsing"]
                       ELSE IF vendor \in {"openai", "xai"} THEN Spoken(op, TRUE)
                       ELSE Heard(o)
       \/ op' = Raised(op, "network")
       \/ ~Raises /\ op' = IF op.kind # "audio" THEN Saving(op, <<>>)
                           ELSE IF vendor \in {"openai", "xai"} THEN Spoken(op, FALSE)
                           ELSE Heard(op)
    /\ UNCHANGED <<handleVars, closed, clock, made, job, storeVars>>

\* The places are fetched one after another, and one that cannot be ends the call.
Places == {i \in DOMAIN op.rows : op.rows[i] = "url"}
Parsed ==
    /\ op.at = "parsing"
    /\ IF Places = {} THEN op' = Saving(op, RawOf(op.rows))
       ELSE \/ op' = [op EXCEPT !.rows[Min(Places)] = "whole"]
            \/ op' = Raised(op, "network")
            \/ ~Raises /\ op' = [op EXCEPT !.rows[Min(Places)] = "error"]
    /\ UNCHANGED <<handleVars, closed, clock, made, job, storeVars>>

-----------------------------------------------------------------------------
\* A video.

\* The top of the loop of _await_video.
Again(o) == IF clock < o.deadline /\ ~closed THEN Asking(o, "polling") ELSE Raised(o, "timeout")

Submitted ==
    /\ op.at = "submitting"
    /\ \/ job' = "working" /\ op' = Again([op EXCEPT !.deadline = clock + MaxWait])
       \/ job' = "working" /\ op' = Raised(op, "runtime")      \* it has no operation id
       \/ job' = "none" /\ op' = Raised(op, "network")
       \/ ~Raises /\ job' = "none" /\ op' = Raised(op, IF vendor = "openai" THEN "unsupported" ELSE "runtime")
    /\ UNCHANGED <<handleVars, closed, clock, made, storeVars>>

JobEnds(how) ==
    /\ job = "working" /\ job' = how
    /\ UNCHANGED <<handleVars, closed, clock, made, op, storeVars>>

NextPoll(o) == Min({clock + Interval, Max({clock, o.deadline})})

\* Handlers of what is told of a video may raise, too.
Failed(o) == {Raised(Told(o, <<"error", 0, 0>>), how) : how \in {"failed", "listener"}}

Status == IF job = "working" THEN "processing" ELSE job

Polled ==
    /\ op.at = "polling"
    /\ \/ Status = "processing"
          /\ LET o == Told(op, <<"progress", 0, 0>>)
             IN  op' \in {[o EXCEPT !.at = "waiting", !.until = NextPoll(op)], Raised(o, "listener")}
       \/ Status = "completed"
          /\ op' = IF vendor = "google" THEN Raised(op, "attribute")     \* no download_video
                   ELSE Asking(op, IF vendor = "xai" THEN "locating" ELSE "downloading")
       \/ Status = "failed" /\ op' \in Failed(op)
       \/ op' = Raised(op, "network")
       \/ ~Raises /\ op' \in Failed(op)
    /\ UNCHANGED <<handleVars, closed, clock, made, job, storeVars>>

Woken ==
    /\ op.at = "waiting" /\ (closed \/ clock = op.until)
    /\ op' = IF closed THEN Raised(op, "timeout") ELSE Again(op)
    /\ UNCHANGED <<handleVars, closed, clock, made, job, storeVars>>

\* xAI's status is asked once more, for the place of the video.
Located ==
    /\ op.at = "locating"
    /\ op' \in {Asking(op, "downloading"), Raised(op, "runtime"), Raised(op, "network")}
    /\ UNCHANGED <<handleVars, closed, clock, made, job, storeVars>>

Downloaded ==
    /\ op.at = "downloading"
    /\ \/ op' = Saving(op, <<Asset("whole", 0)>>)
       \/ op' = Raised(op, "network")
       \/ ~Raises /\ op' = IF vendor = "openai" THEN Raised(op, "runtime") ELSE Saving(op, <<Asset("error", 0)>>)
    /\ UNCHANGED <<handleVars, closed, clock, made, job, storeVars>>

-----------------------------------------------------------------------------
\* The stores. A file is written in place, so a write that fails or is cut off leaves half of it.

Id(k) == <<made, k>>
Put(a, part, value) ==
    media' = [b \in DOMAIN media \cup {a} |->
                IF b = a THEN [(IF a \in DOMAIN media THEN media[a] ELSE Nothing) EXCEPT ![part] = value] ELSE media[b]]

Content == op.raw[op.saved + 1].bytes
Onward(o) == [o EXCEPT !.saved = @ + 1, !.at = IF o.saved + 1 = Len(o.raw) THEN "telling" ELSE "bytes"]

\* MemoryMediaStore.save is one step under its lock.
Save ==
    /\ op.at \in {"bytes", "sidecar"}
    /\ IF onDisk
       THEN \/ /\ Put(Id(op.saved + 1), op.at, IF op.at = "bytes" THEN Content ELSE "whole")
               /\ op' = IF op.at = "bytes" THEN [op EXCEPT !.at = "sidecar"] ELSE Onward(op)
            \/ Put(Id(op.saved + 1), op.at, "half") /\ op' = Raised(op, "store")
       ELSE /\ media' = [a \in DOMAIN media \cup {Id(op.saved + 1)} |->
                            IF a = Id(op.saved + 1) THEN [bytes |-> Content, sidecar |-> "whole"] ELSE media[a]]
            /\ op' = Onward(op)
    /\ UNCHANGED <<handleVars, closed, clock, made, job, receipts, deleting, torn>>

\* One event for the batch, whose handler may raise; then the caller has its receipts.
Reported(raw) == FoldSeq(LAMBDA asset, sum : asset.usage + sum, 0, raw)
Tell ==
    /\ op.at = "telling"
    /\ LET o == Told(op, <<"generated", Len(op.raw), Reported(op.raw)>>)
       IN  \/ op' = Raised(o, "returned") /\ receipts' = receipts \cup {Id(k) : k \in DOMAIN op.raw}
           \/ op' = Raised(o, "handler") /\ UNCHANGED receipts
    /\ UNCHANGED <<handleVars, closed, clock, made, job, media, deleting, torn>>

Loads(a) == a \in DOMAIN media /\ media[a].sidecar = "whole" /\ media[a].bytes # "none"
Without(a) == [b \in DOMAIN media \ {a} |-> media[b]]

\* The bytes first, if the sidecar can be read, and then the sidecar.
Delete(a) ==
    /\ a \in receipts /\ deleting = NoAsset
    /\ IF onDisk THEN Put(a, "bytes", "none") /\ deleting' = a ELSE media' = Without(a) /\ UNCHANGED deleting
    /\ receipts' = receipts \ {a}
    /\ UNCHANGED <<handleVars, closed, clock, made, op, job, torn>>

Deleted ==
    /\ deleting # NoAsset
    /\ media' = Without(deleting) /\ deleting' = NoAsset
    /\ UNCHANGED <<handleVars, closed, clock, made, op, job, receipts, torn>>

-----------------------------------------------------------------------------
\* close() is for good, and a call that comes after it is made all the same.
Close ==
    /\ ~closed /\ closed' = TRUE
    /\ UNCHANGED <<handleVars, clock, made, op, job, storeVars>>

\* The process dies, in the middle of a write perhaps, and another takes up the directory.
Die ==
    /\ op.at # "idle" \/ deleting # NoAsset
    /\ op' = Raised(op, "died") /\ closed' = FALSE
    /\ IF ~onDisk THEN media' = [a \in {} |-> Nothing] /\ receipts' = {}
       ELSE /\ UNCHANGED receipts
            /\ \/ UNCHANGED media
               \/ op.at \in {"bytes", "sidecar"} /\ Put(Id(op.saved + 1), op.at, "half")
    /\ torn' = torn \cup ({deleting} \ {NoAsset}) /\ deleting' = NoAsset
    /\ UNCHANGED <<handleVars, clock, made, job>>

Requesting == op.at \in {"submitting", "polling", "locating", "downloading"}
Tick ==
    /\ \/ Requesting /\ op.kind = "video" /\ clock < op.asked + Slow
       \/ op.at = "waiting" /\ clock < op.until /\ ~closed
    /\ clock' = clock + 1
    /\ UNCHANGED <<handleVars, closed, made, op, job, storeVars>>

Next ==
    \/ \E kind \in {"image", "audio", "video"} : Generate(kind)
    \/ Answered \/ Parsed \/ Submitted \/ \E how \in {"completed", "failed"} : JobEnds(how)
    \/ Polled \/ Woken \/ Located \/ Downloaded
    \/ Save \/ Tell \/ \E a \in receipts : Delete(a)
    \/ Deleted \/ Close \/ Die \/ Tick

Spec == Init /\ [][Next]_mediaVars

-----------------------------------------------------------------------------
Bytes == {"none", "half", "whole", "empty", "error"}
TypeOK ==
    /\ vendor \in Vendors /\ {onDisk, reachable, closed} \subseteq BOOLEAN /\ clock \in Nat
    /\ job \in {"none", "working", "completed", "failed"}
    /\ op.raw \in Seq([bytes : Bytes, usage : {0, 1}]) /\ op.saved \in 0 .. Len(op.raw)
    /\ \A a \in DOMAIN media : media[a] \in [bytes : Bytes, sidecar : {"none", "half", "whole"}]
    /\ receipts \cup torn \subseteq (1 .. MaxMade) \X Nat

\* What a caller has a receipt for is there, and what list() names can be loaded and is whole,
\* whatever died or failed while something was saved (FileMediaStore.save, get_meta).
Kept ==
    /\ receipts \subseteq {a \in DOMAIN media : Loads(a)}
    /\ \A a \in DOMAIN media \ (torn \cup {deleting}) :
          media[a].sidecar = "whole" => media[a].bytes \notin {"none", "half"}

\* A batch is told of once, with all its assets and what was reported for it, if and only if all of
\* them were saved; a failure of the provider's is told once, and never of what was generated
\* ("ONE event for the batch, not one per asset", MediaOutput._save).
ToldOnce ==
    LET batches == SelectSeq(op.told, LAMBDA t : t[1] = "generated")
        errors == SelectSeq(op.told, LAMBDA t : t[1] = "error")
    IN  /\ op.end \in {"returned", "handler"} => 
              batches = <<<<"generated", Len(op.raw), IF op.raw = <<>> THEN 0 ELSE op.billed>>>>
        /\ op.end = "failed" => Len(errors) = 1
        /\ Len(batches) + Len(errors) <= 1
        /\ op.end \in {"returned", "handler"} => \A k \in DOMAIN op.raw :
              Id(k) \in receipts => media[Id(k)].bytes = op.raw[k].bytes

\* "a caller's timeout must mean what it says": nothing is asked at or after the deadline but for
\* a video that was ready before it, and no wait goes past it (MediaOutput._await_video).
InTime ==
    /\ op.at = "polling" => op.asked < op.deadline
    /\ op.at = "waiting" => op.until <= Max({op.deadline, clock}) /\ clock <= op.deadline + Slow
    /\ op.end = "timeout" /\ ~closed => clock >= op.deadline

MediaTrue == Kept /\ ToldOnce /\ InTime

-----------------------------------------------------------------------------
\* Stated and refuted by TLC: list() names only what load() returns (a deletion cut short by a
\* crash leaves the sidecar, and has() and list() still name the asset).
ListedLoads == \A a \in DOMAIN media : deleting # a /\ media[a].sidecar = "whole" => Loads(a)

\* Stated and refuted by TLC: nothing is kept that nobody can find. A save that fails on the second
\* asset leaves the first, and a crash leaves bytes without a sidecar.
NothingLost == op.at = "idle" => DOMAIN media \subseteq receipts \cup torn \cup {deleting}

\* Stated and refuted by TLC: what was billed is reported. Usage rides on the first asset, and a model that
\* answers with none, or OpenRouter with an item that holds none first, reports nothing.
UsageKept == op.end = "returned" => Reported(op.raw) = op.billed

\* Stated and refuted by TLC: what is saved is what was made. Without an engine an HTTP error is
\* read as audio, or as the image a place was given for; with gaps, OpenAI's items are empty.
SavedWhole == \A a \in DOMAIN media : media[a].sidecar = "whole" => media[a].bytes \in {"whole", "none"}

\* Stated and refuted by TLC: a video that is ready is downloaded. Google's adapter says that it
\* makes video and has no download_video.
ReadyIsFetched == op.end # "attribute"

\* Stated and refuted by TLC: "a 404 raises a typed error naming the cause" (OpenAIMediaAdapter.submit_video).
\* An engine's fetch has raised one of its own before the adapter looks at the status.
GoneIsNamed == vendor = "openai" /\ op.kind = "video" /\ op.told = <<>> /\ job = "none" => op.end # "network"

\* Stated and refuted by TLC: a video that was submitted and is not returned is told of as an error. A poll
\* that raises, a download that fails and a timeout are not.
LossIsTold == op.end \in {"network", "timeout", "runtime"} /\ job # "none" => op.told # <<>> /\ Last(op.told)[1] = "error"
=============================================================================
