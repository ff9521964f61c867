\* Slow fetches and a site with one page, whose server is always in error, against the
\* bound on fetches.  One retry is allowed.
CONSTANTS
    a = a
    b = b
    c = c
    Urls = {a}
    Tokens = {1, 2, 3, 4, 5, 6, 7, 8}
    Bodies = {body}
    Null = Null
    MaxRenewals = 3
    Seed = a
    Links <- OneLinks
    Target <- OneTarget
    Responses <- OneResponses
    Accepted = {a}
    RawSpelled = {}
    Workers = {w1, w2}
    BatchSize = 2
    LeaseTtl = 2
    MaxDepth = 1
    MaxRetries = 1
    MaxRedirects = 1
    HeartbeatInterval = 1
    Second = 1
    PromptHeartbeats = TRUE
    PromptWorkers = FALSE
    MaxCrashes = 0
    MaxStops = 0
    MaxNow = 20
SPECIFICATION CountingSpec
INVARIANT
    FetchesBounded
