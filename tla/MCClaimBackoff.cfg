\* The instance of MCRateLimiter.cfg, against requirement 6.8.
CONSTANTS
    Callers = {c1, c2, c3, c4}
    MaxQueue = 3
    MaxConsecutive = 3
    Permits = 2
SPECIFICATION FairSpec
PROPERTY
    BackoffPausesAll
