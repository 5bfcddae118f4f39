SPECIFICATION AroundSpec
CONSTANTS
    Items = {"a", "b", "c"}
    Providers = {"openai", "xai"}
    MinBatch = 1
    MaxBatch = 2
    Window = 1
    Raises = TRUE
    MaxJobs = 2
    Lists <- MCLists
    Callers = {"a", "b"}
    Threads = {"s", "t"}
    Convs = {"c"}
    MaxTurns = 1
    MaxWrites = 3
    Shared = FALSE
    MaxEntries = 7
    MaxHooks = 7
    Functions_ = {"f"}
    Emitters = {"d", "e"}
    MaxSubs = 3
    MaxEmits = 2
    MaxMessages = 1
    Raising = {"open", "frame"}
    Keys = {"k", "l"}
    Capacity = 1
    FileHosts = {"openai", "google"}
    FileSizes <- MCFileSizes
    Takes <- MCTakes
    UrlCapable = {"openai"}
    Lifetime = 1
    MaxUploads = 2
    MaxTime = 2
    Docs = {"d", "e"}
    Patience = 1
    Fails = {"agent", "tool", "http"}
    Lengths = {0, 1, 5, 9}
    MaxChars = 4
    Overlap = 2
    Strategies = {"truncate", "layered", "anchored"}
    Triggers <- MCTriggers
    Ceiling = 9
    Floor = 10
    Recent = 3
    Jump = 3
    MaxCompactRetries = 2
    Weights = {1, 3}
    Hosts = {"openai", "google"}
    Names = {"m", "n"}
    Models <- MCModels
    Supports <- MCModels
    BoundTo = {"openai"}
    Retention <- MCRetention
    MaxAsks = 5
    MaxAge = 1
INVARIANTS AroundTypeOK BatchTrue HistoryTrue KeptTrue TurnsKept HooksTrue NothingDropped
PROPERTIES Calm IteratorEnds
CHECK_DEADLOCK FALSE
