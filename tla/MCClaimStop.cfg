\* A site where nothing fails, and a stop, against requirement 17 on interruptions.
CONSTANTS
    a = a
    b = b
    c = c
    Urls = {a, b}
    Tokens = {1, 2, 3, 4, 5, 6, 7, 8}
    Bodies = {body}
    Null = Null
    MaxRenewals = 3
    Seed = a
    Links <- PairLinks
    Target <- PairTarget
    Responses <- FineResponses
    Accepted = {a, b}
    RawSpelled = {}
    Workers = {w1, w2}
    BatchSize = 2
    LeaseTtl = 2
    MaxDepth = 1
    MaxRetries = 1
    MaxRedirects = 1
    HeartbeatInterval = 1
    Second = 1
    PromptHeartbeats = TRUE
    PromptWorkers = TRUE
    MaxCrashes = 0
    MaxStops = 1
    MaxNow = 6
SPECIFICATION Spec
INVARIANT
    FailuresAreTheSites
