\* Two URLs and two tokens: batches of two rows, with everything a second
\* coroutine may do between their SELECT, UPDATEs and commit.  A lease and a
\* backoff last one clock unit, so both can end, and the URL be leased again,
\* before the clock stops at 1.
CONSTANTS
    Urls = {u1, u2}
    Tokens = {t1, t2}
    Bodies = {b1}
    Null = Null
    MaxRenewals = 1
    LeaseTtl = 1
    BatchSizes = {2}
    RetryCounts = {1}
    RetryDelays = {1}
    Depths = {0}
    Parents = {Null}
    RedirectCounts = {0}
    MaxLag = 0
    Horizon = 1
    MaxNow = 1
SYMMETRY TokenSymmetry
SPECIFICATION Spec
\* With no lease left to drop and the clock at its bound nothing may be left to do.
CHECK_DEADLOCK FALSE
INVARIANTS
    TypeOK
    LeaseCommitted
    Reclaimable
    IInv
PROPERTIES
    LiveLeaseRespected
    RetryNotEarly
    ImplementsLifecycle
