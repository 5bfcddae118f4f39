------------------------------ MODULE McpOAuth ------------------------------
(***************************************************************************)
(* McpOAuth of src/combycode_llm_sdk/mcp/oauth.py: connections to several  *)
(* MCP servers, each with its own authorization server, that share one     *)
(* McpAuthProvider (what a host stores), each used by several threads.  A  *)
(* refresh token is known by the number of the token it came with.         *)
(***************************************************************************)
EXTENDS Integers, Sequences, FiniteSets

CONSTANTS
    Servers, Threads,
    Scopes,        \* what a server may challenge for
    Configured,    \* client_metadata.scope
    Rotates,       \* servers that void a refresh token when it is used
    Silent,        \* servers that do not repeat the scope they grant
    MaxTokens,     \* bound: tokens minted
    MaxAsked       \* bound: times the person is sent to authorize

VARIABLES
    tokens,      \* the provider's tokens(), or Nothing
    secrets,     \* the provider's state and code_verifier: the authorization each is for
    minted,      \* the tokens there are, in the order they were issued
    spent,       \* refresh tokens that are void
    asked,       \* the authorizations the person was sent to: [server, scope, used]
    thread,      \* what each thread is in; see Idle
    sent,        \* history: <<server, token>> of every bearer header
    lost         \* history: refresh tokens whose use was not answered

oauthVars == <<tokens, secrets, minted, spent, asked, thread, sent, lost>>

\* `scope` is what a token is good for, `said` what the answer said of it.
Nothing == [n |-> 0, scope |-> {}, said |-> {}, refresh |-> 0, stamp |-> "none"]
Idle == [at |-> "idle", server |-> "none", why |-> "none", token |-> Nothing, n |-> 0]

Init ==
    /\ tokens = Nothing /\ secrets = [state |-> 0, verifier |-> 0]
    /\ minted = <<>> /\ spent = {} /\ lost = {} /\ asked = <<>>
    /\ thread = [t \in Threads |-> Idle] /\ sent = {}

Set(t, r) == thread' = [thread EXCEPT ![t] = r]

\* Fault: what is stored is used, whoever minted it.
StoredTokens(s) == tokens

\* _bound_tokens: tokens another server minted are as good as none.
BoundTokens(s) == IF tokens.stamp = s THEN tokens ELSE Nothing

Mint(s, scope) ==
    /\ Len(minted) < MaxTokens
    /\ minted' = Append(minted, [server |-> s, scope |-> scope])

-----------------------------------------------------------------------------
(* Using and refreshing tokens.                                              *)

\* auth_header: the bearer token, refreshed first if it is about to expire.
AuthHeader(t, s) ==
    /\ thread[t] = Idle /\ BoundTokens(s).n # 0
    /\ \/ sent' = sent \cup {<<s, BoundTokens(s).n>>} /\ UNCHANGED thread
       \/ /\ Set(t, [Idle EXCEPT !.at = "refresh", !.server = s, !.why = "header",
                                 !.token = BoundTokens(s)])
          /\ UNCHANGED sent
    /\ UNCHANGED <<tokens, secrets, minted, spent, asked, lost>>

\* reauthorize after a 401, and authorize with nothing usable.
Unauthorized(t, s) ==
    /\ thread[t] = Idle
    /\ Set(t, [Idle EXCEPT !.at = IF BoundTokens(s).refresh = 0 THEN "redirect" ELSE "refresh",
                           !.server = s, !.why = "refused", !.token = BoundTokens(s)])
    /\ UNCHANGED <<tokens, secrets, minted, spent, asked, sent, lost>>

\* A refresh that fails, for whatever reason, leaves a header as it was and otherwise
\* sends the person.
NotRefreshed(t) ==
    Set(t, IF thread[t].why = "header" THEN Idle
           ELSE [thread[t] EXCEPT !.at = "redirect", !.token = Nothing])

\* Fault: an answer without a refresh token is taken to have revoked it.
KeptRefreshDropped(new, old) == new

\* "A server that returns no new refresh token means the old one still stands."
KeptRefresh(new, old) == IF new = 0 THEN old ELSE new

\* _try_refresh up to the answer: minted, refused, or lost on either way.
Refresh(t) ==
    /\ thread[t].at = "refresh"
    /\ LET s == thread[t].server
           r == thread[t].token.refresh
           n == Len(minted) + 1
           void == IF s \in Rotates THEN {r} ELSE {}
       IN  \/ /\ r \notin spent /\ Mint(s, minted[r].scope)
              /\ spent' = spent \cup void
              /\ \/ /\ Set(t, [thread[t] EXCEPT !.at = "save", !.token =
                         [n |-> n, scope |-> minted[r].scope, stamp |-> s,
                          said |-> IF s \in Silent THEN {} ELSE minted[r].scope,
                          refresh |-> KeptRefresh(IF s \in Rotates THEN n ELSE 0, r)]])
                    /\ UNCHANGED lost
                 \/ lost' = lost \cup void /\ NotRefreshed(t)
           \/ NotRefreshed(t) /\ UNCHANGED <<minted, spent, lost>>
    /\ UNCHANGED <<tokens, secrets, asked, sent>>

Save(t) ==
    /\ thread[t].at = "save" /\ tokens' = thread[t].token /\ Set(t, Idle)
    /\ UNCHANGED <<secrets, minted, spent, asked, sent, lost>>

-----------------------------------------------------------------------------
(* Sending the person, and coming back.                                      *)

\* Fault: what is challenged for is what is asked for.
UnionChallenged(said, x) == {x}

\* union_scopes: what was configured, what the token says it was granted, and x.
Union(said, x) == Configured \cup said \cup {x}

\* A 403 for want of scope x: no refresh, which would mint what was just refused.
StepUp(t, s, x) ==
    /\ thread[t] = Idle /\ BoundTokens(s).n # 0 /\ x \notin BoundTokens(s).scope
    /\ Set(t, [Idle EXCEPT !.at = "redirect", !.server = s, !.why = "step_up", !.token =
                  [BoundTokens(s) EXCEPT !.said = Union(@, x)]])
    /\ UNCHANGED <<tokens, secrets, minted, spent, asked, sent, lost>>

\* _start_redirect saves the verifier ...
Redirect(t) ==
    /\ thread[t].at = "redirect" /\ Len(asked) < MaxAsked
    /\ asked' = Append(asked, [server |-> thread[t].server, used |-> FALSE,
                               scope |-> IF thread[t].why = "step_up" THEN thread[t].token.said
                                         ELSE Configured])
    /\ secrets' = [secrets EXCEPT !.verifier = Len(asked')]
    /\ Set(t, [thread[t] EXCEPT !.at = "state", !.n = Len(asked')])
    /\ UNCHANGED <<tokens, minted, spent, sent, lost>>

\* ... then the state, and then the person is sent.
SaveState(t) ==
    /\ thread[t].at = "state"
    /\ secrets' = [secrets EXCEPT !.state = thread[t].n] /\ Set(t, Idle)
    /\ UNCHANGED <<tokens, minted, spent, asked, sent, lost>>

\* finish: the callback of authorization n, whenever the person is done.  The code is
\* good once, with the verifier of its challenge.
Finish(t, n) ==
    /\ thread[t] = Idle /\ \A u \in Threads : thread[u].at = "state" => thread[u].n # n
    /\ secrets.state = n /\ secrets.verifier = n /\ ~asked[n].used
    /\ asked' = [asked EXCEPT ![n].used = TRUE]
    /\ Mint(asked[n].server, asked[n].scope)
    /\ Set(t, [Idle EXCEPT !.at = "save", !.server = asked[n].server, !.token =
                 [n |-> Len(minted'), scope |-> asked[n].scope, stamp |-> asked[n].server,
                  said |-> IF asked[n].server \in Silent THEN {} ELSE asked[n].scope,
                  refresh |-> Len(minted')]])
    /\ UNCHANGED <<tokens, secrets, spent, sent, lost>>

Next ==
    \E t \in Threads :
        \/ \E s \in Servers :
              AuthHeader(t, s) \/ Unauthorized(t, s) \/ \E x \in Scopes : StepUp(t, s, x)
        \/ Refresh(t) \/ Save(t) \/ Redirect(t) \/ SaveState(t)
        \/ \E n \in DOMAIN asked : Finish(t, n)

Spec == Init /\ [][Next]_oauthVars

-----------------------------------------------------------------------------
TypeOK ==
    /\ tokens.n \in 0 .. Len(minted) /\ tokens.stamp \in Servers \cup {"none"}
    /\ secrets.state \in 0 .. Len(asked) /\ secrets.verifier \in 0 .. Len(asked)
    /\ spent \subseteq DOMAIN minted /\ lost \subseteq spent
    /\ \A t \in Threads : thread[t].at \in {"idle", "refresh", "save", "redirect", "state"}

\* Two servers share the provider's one place for tokens, and still a token minted by
\* one is never presented to the other (_bound_tokens, _expected_issuer).
Bound == \A p \in sent : minted[p[2]].server = p[1]

\* However refreshes and grants overlap, the refresh token that is stored belongs to the
\* token it is stored with, and still works unless a use of it was never answered: no
\* thread's save brings back one that another's use made void.
RefreshKept ==
    tokens.n # 0 =>
        /\ tokens.refresh # 0 /\ minted[tokens.refresh].server = tokens.stamp
        /\ tokens.refresh \in spent => tokens.refresh \in lost \/ \E t \in Threads :
              thread[t].at = "save" /\ thread[t].token.stamp = tokens.stamp

\* A step-up asks for all that the token it is to replace was good for, where the server
\* says what it grants.
Steps == {t \in Threads : thread[t].why = "step_up" /\ thread[t].at = "redirect"}
StepUpKeepsSaid ==
    \A t \in Steps : thread[t].server \notin Silent => thread[t].token.scope \subseteq thread[t].token.said

OAuthTrue == Bound /\ RefreshKept /\ StepUpKeepsSaid

\* "The scope asked for is the UNION of everything previously requested, what the stored
\* token was actually granted, and what the server now demands" (reauthorize).  Refuted:
\* a server need not repeat the scope it grants, and what was requested is not recorded.
StepUpKeeps == \A t \in Steps : thread[t].token.scope \subseteq thread[t].token.said

\* When nothing is under way, the last authorization can be completed.  Refuted by two
\* threads that are sent at once.
CanFinish == (\A t \in Threads : thread[t] = Idle) => secrets.state = secrets.verifier
=============================================================================
