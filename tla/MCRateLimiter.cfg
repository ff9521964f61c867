\* Four callers, one too many for the queue, and two permits: the semaphore has
\* waiters and the gate is waited at while two callers back off at the same
\* time.  Three refusals exhaust a call.
CONSTANTS
    Callers = {c1, c2, c3, c4}
    MaxQueue = 3
    MaxConsecutive = 3
    Permits = 2
SPECIFICATION FairSpec
INVARIANTS
    TypeOK
    PermitsAccountedFor
    GateWillOpen
PROPERTIES
    EveryCallEnds
