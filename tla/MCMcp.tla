------------------------------- MODULE MCMcp -------------------------------
(***************************************************************************)
(* The MCP client's transports for TLC: stdio (StdioTransport), and over   *)
(* Streamable HTTP the session (McpSession), its authorization (McpOAuth)  *)
(* and its streams (McpStreams), on small instances. They share no state,  *)
(* and each behaviour is one of the four.                                  *)
(***************************************************************************)
EXTENDS StdioTransport

CONSTANTS
    c1, s1, Threads,
    MaxCalls, MaxTroubles,
    OAuthServers, Scopes, Configured, Rotates, Silent, MaxTokens, MaxAsked,
    MaxEvents, MaxResumeAttempts, MaxDrops, MaxLists

\* "none" is no server's name, and a resume is tried a number of times.
ASSUME McpAssumption ==
    /\ MaxCalls \in Nat /\ MaxTokens \in Nat /\ MaxEvents \in Nat /\ MaxResumeAttempts \in Nat
    /\ "none" \notin OAuthServers

VARIABLES
    part,
    kind, live, made, token, client, wire, caller, ran, outcome, probe, troubles,
    tokens, secrets, minted, spent, asked, grantor, sent, lost,
    log, shut, entry, stream, last, get, sub, cache, lister, routed, ended, notified, cleared, raced

\* A server that speaks each mix of revisions, with sessions and without.
Session == INSTANCE McpSession WITH
    Servers <- {"stateful", "older", "plain", "modern", "dual", "future"},
    thread <- caller

OAuth == INSTANCE McpOAuth WITH Servers <- OAuthServers, thread <- grantor

Http == INSTANCE McpStreams WITH closed <- shut, told <- notified

stdioVars == <<nextId, id, pc, pending, longLived, cell, told, reader, closed, closing, stdin, child, toChild,
               toUs, own, replies>>
sessionVars == <<kind, live, made, token, client, wire, caller, ran, outcome, probe, troubles>>
oauthVars == <<tokens, secrets, minted, spent, asked, grantor, sent, lost>>
streamVars == <<log, shut, entry, stream, last, get, sub, cache, lister, routed, ended, notified, cleared, raced>>
mcpVars == <<part, stdioVars, sessionVars, oauthVars, streamVars>>

McpInit ==
    /\ part \in {"stdio", "session", "oauth", "streams"}
    /\ Init /\ Session!Init /\ OAuth!Init /\ Http!Init
    /\ part = "session" \/ kind = "plain"

McpNext ==
    \/ part = "stdio" /\ Next /\ UNCHANGED <<part, sessionVars, oauthVars, streamVars>>
    \/ part = "session" /\ Session!Next /\ UNCHANGED <<part, stdioVars, oauthVars, streamVars>>
    \/ part = "oauth" /\ OAuth!Next /\ UNCHANGED <<part, stdioVars, sessionVars, streamVars>>
    \/ part = "streams" /\ Http!Next /\ UNCHANGED <<part, stdioVars, sessionVars, oauthVars>>

\* Each part is fair as its module says; where a part has not begun, none of its fair actions is enabled.
McpSpec == McpInit /\ [][McpNext]_mcpVars /\ Fairness /\ Http!Running /\ Http!Flapping

\* The state of the one that the behaviour is keeps its type.
McpTypeOK ==
    /\ part = "stdio" => TypeOK
    /\ part = "session" => Session!TypeOK
    /\ part = "oauth" => OAuth!TypeOK
    /\ part = "streams" => Http!TypeOK

\* What McpClient._send returns is the server's own word on the request it was given, and
\* client and transport speak one revision, whatever sessions end meanwhile.
SessionTrue == part = "session" => Session!Honest /\ Session!SharedWire

\* A client that settled on an era keeps it (McpClient._recover_session).
EraKept == Session!EraKept

\* A token goes where it was issued, a refresh keeps what still refreshes, and a step-up
\* asks for no less than was granted (McpOAuth.reauthorize).
OAuthTrue == part = "oauth" => OAuth!OAuthTrue

\* A resumed stream misses nothing, a stream's end is told once, and a list read after a
\* change it was told of is the new one (HttpTransport._stream_loop, McpClient.listen).
StreamTrue == part = "streams" => Http!NoGap /\ Http!EndOnce /\ Http!Fresh

\* Whoever waits on a child that exits hears of it (StdioTransport._read_loop), and a stream
\* whose server only ever hangs up is given up in the end (HttpTransport._long_lived_loop).
EndsHeard == HearsOfExit /\ Http!FlappingEnds
=============================================================================
