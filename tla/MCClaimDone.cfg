\* Slow workers, against requirement 4: no URL left behind.
CONSTANTS
    a = a
    b = b
    c = c
    Urls = {a, b}
    Tokens = {1, 2, 3, 4, 5, 6, 7, 8}
    Bodies = {body}
    Null = Null
    MaxRenewals = 3
    Seed = a
    Links <- PairLinks
    Target <- PairTarget
    Responses <- PairResponses
    Accepted = {a, b}
    RawSpelled = {}
    Workers = {w1, w2}
    BatchSize = 2
    LeaseTtl = 2
    MaxDepth = 1
    MaxRetries = 1
    MaxRedirects = 1
    HeartbeatInterval = 1
    Second = 1
    PromptHeartbeats = TRUE
    PromptWorkers = FALSE
    MaxCrashes = 0
    MaxStops = 0
    MaxNow = 6
SPECIFICATION Spec
INVARIANT
    DoneIsFinal
