\* Three pages, with a link to a page itself, a redirect and a link back; two
\* workers, none of which outlives its lease; one crash.  The clock never gets
\* to MaxNow.
CONSTANTS
    a = a
    b = b
    c = c
    Urls = {a, b, c}
    Tokens = {1, 2, 3, 4, 5, 6, 7, 8}
    Bodies = {body}
    Null = Null
    MaxRenewals = 1
    Seed = a
    Links <- SmallLinks
    Target <- SmallTarget
    Responses <- SmallResponses
    Accepted = {a, b, c}
    RawSpelled = {}
    Workers = {w1, w2}
    BatchSize = 2
    LeaseTtl = 2
    MaxDepth = 2
    MaxRetries = 1
    MaxRedirects = 1
    HeartbeatInterval = 1
    Second = 1
    PromptHeartbeats = TRUE
    PromptWorkers = TRUE
    MaxCrashes = 1
    MaxStops = 0
    MaxNow = 20
SYMMETRY WorkerSymmetry
SPECIFICATION Spec
INVARIANTS
    TypeOK
    NothingLost
    OneWorkerPerUrl
    DoneIsFinal
    FailuresAreTheSites
