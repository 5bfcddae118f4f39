SPECIFICATION CallSpec
CONSTANTS
    Default <- MCDefault
    EngineLayers <- MCEngineLayers
    QueueLayers <- MCQueueLayers
    RequestLayers <- MCRequestLayers
    Bodies <- MCBodies
    Errors <- MCErrors
    TimeoutError <- MCTimeoutError
    Durations = {1, 3}
    HooksRaise = TRUE
    MostTries = 4
    Apis = {"messages", "completions", "openrouter", "responses", "xai", "generate", "interactions"}
    MaxItems = 3
    MaxBytes = 7
    MaxChunk = 3
    Threads = {"a", "b"}
    Rates <- MCRates
    TierRates <- MCTierRates
    AskedFor <- MCAskedFor
    Listed = TRUE
    MaxCalls = 2
    MaxRepairs = 1
    MaxClears = 1
    Readers = {"r", "s"}
    CacheNames <- MCNames
    CacheKeys <- MCKeys
    Lifetimes = {1, 2}
    DefaultLifetime = 2
    MaxSets = 2
    MaxAge = 2
INVARIANT WholeOrContinued
CHECK_DEADLOCK FALSE
