\* Workers as slow as they like: leases expire, after any number of heartbeats,
\* under workers that go on.  Two pages, two workers.  The clock stops at 4, two
\* lease times, after which the workers still come to an end in every order.
CONSTANTS
    a = a
    b = b
    c = c
    Urls = {a, b}
    Tokens = {1, 2, 3, 4, 5, 6, 7, 8}
    Bodies = {body}
    Null = Null
    MaxRenewals = 3
    Seed = a
    Links <- PairLinks
    Target <- PairTarget
    Responses <- PairResponses
    Accepted = {a, b}
    RawSpelled = {}
    Workers = {w1, w2}
    BatchSize = 2
    LeaseTtl = 2
    MaxDepth = 1
    MaxRetries = 2
    MaxRedirects = 1
    HeartbeatInterval = 1
    Second = 1
    PromptHeartbeats = FALSE
    PromptWorkers = FALSE
    MaxCrashes = 0
    MaxStops = 0
    MaxNow = 4
SYMMETRY WorkerSymmetry
SPECIFICATION Spec
INVARIANTS
    BatchFits
    NothingLost
    OneHolder
    FailuresAreTheSites
PROPERTIES
    RetriesCounted
    LeasesKept
    UsesStore
