---------------------------- MODULE FilesRegistry ----------------------------
(***************************************************************************)
(* Files in conversations: FilesRegistry resolves the file parts of a      *)
(* request's messages for the provider it goes to, uploading, inlining,    *)
(* linking or leaving out, and rewrites the parts where they stand, which  *)
(* is in the conversation's own history. Conversations share the registry. *)
(***************************************************************************)
EXTENDS Integers, FiniteSets

CONSTANTS
    Convs,          \* conversations, each with one part for each file
    Providers,
    Files,          \* [Files -> "small", "big" or "url"]: size and content
    Takes,          \* <<file, provider>>: the type and the size the provider accepts
    UrlCapable,     \* URL_CAPABLE_PROVIDERS
    Lifetime,       \* ms from an upload to the provider's deleting it
    MaxUploads, MaxTime

VARIABLES
    uploads,        \* each attachment's FileUploadState for each provider
    remote,         \* the provider's files: <<provider, reference, expiry>>
    part,           \* each conversation's part for each file
    req,            \* each conversation's request: where it stands, its provider, when it began, the file in
                    \* hand, those left
    deleting,       \* delete_remote calls that have reached the provider: <<file, provider>>
    refs,           \* references handed out
    now,
    bad             \* history: what was wrong with references sent and not held there: "elsewhere", "lapsed"
                    \* before the request began, or "gone" since

filesVars == <<uploads, remote, part, req, deleting, refs, now, bad>>

FileNames == DOMAIN Files
NoUpload == [status |-> "none", ref |-> 0, expires |-> 0]
Source == [kind |-> "source", ref |-> 0, by |-> "none"]
Resting == [pc |-> "idle", by |-> "none", began |-> 0, file |-> "none", todo |-> {}]

Init ==
    /\ uploads = [f \in FileNames |-> [p \in Providers |-> NoUpload]]
    /\ remote = {} /\ part = [c \in Convs |-> [f \in FileNames |-> Source]]
    /\ req = [c \in Convs |-> Resting] /\ deleting = {}
    /\ refs = 0 /\ now = 0 /\ bad = {}
-----------------------------------------------------------------------------
\* Fault: the expiry is not looked at.
NeverExpired(state) == FALSE
Expired(state) == now > state.expires
\* is_available marks what it finds expired.
Looked(f, p) == IF uploads[f][p].status = "uploaded" /\ Expired(uploads[f][p])
                THEN [uploads EXCEPT ![f][p].status = "expired"] ELSE uploads
Available(f, p) == uploads[f][p].status = "uploaded" /\ ~Expired(uploads[f][p])
Lapsed(ref, time) == \E row \in remote : row[2] = ref /\ row[3] < time
Holds(p, ref) == \E row \in remote : row[1] = p /\ row[2] = ref /\ now <= row[3]

\* DefaultFileStrategy.decide, for the states the registry reports.
Decision(f, p) ==
    IF <<f, p>> \notin Takes THEN "skip"
    ELSE IF Available(f, p) \/ uploads[f][p].status = "expired" \/ Looked(f, p)[f][p].status = "expired" THEN "upload"
    ELSE IF Files[f] = "url" /\ p \in UrlCapable THEN "url"
    ELSE IF Files[f] = "small" THEN "inline" ELSE "upload"

\* A request of the conversation: the parts that still name a source are resolved, one after the other.
Begin(c) == \E p \in Providers :
    /\ req[c].pc = "idle"
    /\ req' = [req EXCEPT ![c] = [pc |-> "part", by |-> p, began |-> now, file |-> "none",
                                  todo |-> {f \in FileNames : part[c][f].kind = "source"}]]
    /\ UNCHANGED <<uploads, remote, part, deleting, refs, now, bad>>

Rewritten(c, f, kind, ref) == part' = [part EXCEPT ![c][f] = [kind |-> kind, ref |-> ref, by |-> req[c].by]]
Moved(c, f) == [req EXCEPT ![c].todo = @ \ {f}, ![c].pc = "part"]

\* _resolve_part and _carry_out, up to the upload's request.
ResolvePart(c) == \E f \in req[c].todo :
    LET p == req[c].by IN
    /\ req[c].pc = "part"
    /\ uploads' = Looked(f, p)
    /\ CASE Decision(f, p) = "upload" /\ ~Available(f, p) ->
              /\ refs < MaxUploads
              /\ req' = [req EXCEPT ![c].pc = "uploading", ![c].file = f] /\ UNCHANGED part
         [] Decision(f, p) = "upload" /\ Available(f, p) ->
              Rewritten(c, f, "ref", uploads[f][p].ref) /\ req' = Moved(c, f)
         [] OTHER -> Rewritten(c, f, Decision(f, p), 0) /\ req' = Moved(c, f)
    /\ UNCHANGED <<remote, deleting, refs, now, bad>>

\* set_uploaded, and get_ref after it; a lifetime that is over already leaves the part inline.
Uploaded(c) ==
    LET p == req[c].by f == req[c].file ref == refs + 1 IN
    /\ req[c].pc = "uploading" /\ refs < MaxUploads
    /\ refs' = ref
    /\ \E lived \in {Lifetime, -1} :
          /\ uploads' = [uploads EXCEPT ![f][p] =
                 [status |-> IF lived < 0 THEN "expired" ELSE "uploaded", ref |-> ref, expires |-> now + lived]]
          /\ remote' = remote \cup {<<p, ref, now + lived>>}
          /\ IF lived < 0 THEN Rewritten(c, f, "inline", 0) ELSE Rewritten(c, f, "ref", ref)
    /\ req' = Moved(c, f)
    /\ UNCHANGED <<deleting, now, bad>>

\* set_error, and the request is over; the parts rewritten before it stay so.
UploadFails(c) ==
    /\ req[c].pc = "uploading"
    /\ uploads' = [uploads EXCEPT ![req[c].file][req[c].by] = [NoUpload EXCEPT !.status = "error"]]
    /\ req' = [req EXCEPT ![c] = Resting]
    /\ UNCHANGED <<remote, part, deleting, refs, now, bad>>

\* The request goes out with every part as it stands.
Carried(c) == {f \in FileNames : part[c][f].kind = "ref"}
Send(c) ==
    /\ req[c].pc = "part" /\ req[c].todo = {}
    /\ bad' = bad \cup {CASE part[c][f].by # req[c].by -> "elsewhere"
                           [] Lapsed(part[c][f].ref, req[c].began) -> "lapsed"
                           [] OTHER -> "gone" : f \in {g \in Carried(c) : ~Holds(req[c].by, part[c][g].ref)}}
    /\ req' = [req EXCEPT ![c] = Resting]
    /\ UNCHANGED <<uploads, remote, part, deleting, refs, now>>

\* delete_remote: the provider's copy first, then the state.
DeleteRemote(f, p) ==
    /\ <<f, p>> \notin deleting /\ uploads' = Looked(f, p)
    /\ IF Available(f, p)
       THEN /\ remote' = {row \in remote : ~(row[1] = p /\ row[2] = uploads[f][p].ref)}
            /\ deleting' = deleting \cup {<<f, p>>}
       ELSE UNCHANGED <<remote, deleting>>
    /\ UNCHANGED <<part, req, refs, now, bad>>

\* Fault: the deletion is not recorded.
Unmarked(f, p) == uploads
\* set_deleted marks the state it finds, whatever became of it in between.
Marked(f, p) == [uploads EXCEPT ![f][p].status = IF @ = "none" THEN @ ELSE "deleted"]
Deleted(f, p) ==
    /\ <<f, p>> \in deleting
    /\ deleting' = deleting \ {<<f, p>>} /\ uploads' = Marked(f, p)
    /\ UNCHANGED <<remote, part, req, refs, now, bad>>

Tick == now < MaxTime /\ now' = now + 1 /\ UNCHANGED <<uploads, remote, part, req, deleting, refs, bad>>

Next ==
    \/ \E c \in Convs : Begin(c) \/ ResolvePart(c) \/ Uploaded(c) \/ UploadFails(c) \/ Send(c)
    \/ \E f \in FileNames, p \in Providers : DeleteRemote(f, p) \/ Deleted(f, p)
    \/ Tick
Spec == Init /\ [][Next]_filesVars
-----------------------------------------------------------------------------
\* The state keeps its type.
TypeOK ==
    /\ uploads \in [FileNames -> [Providers -> [status : {"none", "uploaded", "expired", "deleted", "error"},
                                            ref : 0 .. MaxUploads, expires : -1 .. MaxTime + Lifetime]]]
    /\ \A row \in remote : row[1] \in Providers /\ row[2] \in 1 .. refs
    /\ \A c \in Convs : req[c].todo \subseteq FileNames /\ req[c].pc \in {"idle", "part", "uploading"}
    /\ \A c \in Convs, f \in FileNames : part[c][f].kind \in {"source", "ref", "inline", "url", "skip"}

\* What the registry takes for uploaded and not expired is at the provider the state names, whatever
\* uploads, failures, expiries and deletions of several conversations came before, except while a
\* delete_remote is under way (is_available, set_uploaded, set_deleted).
RefsTrue == \A f \in FileNames, p \in Providers :
    Available(f, p) /\ <<f, p>> \notin deleting => Holds(p, uploads[f][p].ref)

\* Stated and refuted by TLC: no request carries a reference of another provider. attachment.py:150 says
\* "a remote id is meaningless anywhere but where it was issued".
RefAtHome == "elsewhere" \notin bad
\* Stated and refuted by TLC: no request carries a reference that had expired when it began. attachment.py:200
\* says checking the expiry there "is what stops a stale id being sent".
NoStaleRef == "lapsed" \notin bad
\* Stated and refuted by TLC: each file the registry put at a provider is known to it, or expired.
NoOrphans == \A row \in remote : now <= row[3] => \E f \in FileNames :
    uploads[f][row[1]].status = "uploaded" /\ uploads[f][row[1]].ref = row[2]
=============================================================================
