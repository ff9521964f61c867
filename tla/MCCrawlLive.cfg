\* Liveness, over a crash and a stop at any moments, with a worker that does not
\* outlive its lease (of one that does, see MCClaimAttempts.cfg).  MaxNow is far
\* beyond the time at which the slowest crawl of this site ends.
CONSTANTS
    a = a
    b = b
    c = c
    Urls = {a, b}
    Tokens = {1, 2, 3, 4, 5, 6, 7, 8}
    Bodies = {body}
    Null = Null
    MaxRenewals = 1
    Seed = a
    Links <- PairLinks
    Target <- PairTarget
    Responses <- LiveResponses
    Accepted = {a, b}
    RawSpelled = {}
    Workers = {w1}
    BatchSize = 2
    LeaseTtl = 2
    MaxDepth = 1
    MaxRetries = 1
    MaxRedirects = 1
    HeartbeatInterval = 1
    Second = 1
    PromptHeartbeats = TRUE
    PromptWorkers = TRUE
    MaxCrashes = 1
    MaxStops = 1
    MaxNow = 20
SPECIFICATION FairSpec
INVARIANT
    StoreOutlivesWorkers
PROPERTIES
    Terminates
    OrphansReclaimed
