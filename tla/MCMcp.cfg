SPECIFICATION McpSpec
CONSTANTS
    c1 = c1  s1 = s1
    Callers = {c1}
    Streams = {s1}
    Chatter = 1
    Kinds = {"notice", "ask", "blob"}
    HandlerDoes = {"return", "request"}
    Threads = {"a", "b"}
    MaxCalls = 1
    MaxTroubles = 2
    OAuthServers = {"p", "q"}
    Scopes = {"x", "y"}
    Configured = {}
    Rotates = {"p"}
    Silent = {"q"}
    MaxTokens = 3
    MaxAsked = 2
    MaxEvents = 2
    MaxResumeAttempts = 1
    MaxDrops = 1
    MaxLists = 1
INVARIANTS McpTypeOK StdioTrue   StreamTrue
PROPERTIES EraKept EndsHeard
CHECK_DEADLOCK FALSE
