---------------------------- MODULE RateLimiter -----------------------------
(***************************************************************************)
(* rate_limiter.py: the gateway every fetch goes through.  A call of       *)
(* execute waits for the gate (an asyncio.Event, closed while somebody     *)
(* backs off), then for a permit (an asyncio.Semaphore), then for the      *)
(* fetch; a 429 makes it close the gate, sleep, open it and start over.    *)
(*                                                                         *)
(* A step is what a call does between two suspensions: Event.wait does not *)
(* suspend when the event is set, nor Semaphore.acquire when a permit is   *)
(* free and nobody waits, so a call may get from the door to its fetch in  *)
(* one step.  How long a sleep takes is left open, as _compute_backoff     *)
(* takes it from a header of the server's.                                 *)
(***************************************************************************)
EXTENDS Naturals, FiniteSets, Sequences

CONSTANTS
    Callers,         \* tasks that call execute
    MaxQueue,        \* _MAX_QUEUE_SIZE
    MaxConsecutive,  \* _MAX_CONSECUTIVE_429
    Permits          \* max_concurrency

ASSUME LimiterAssumption ==
    /\ IsFiniteSet(Callers)
    /\ MaxQueue \in Nat /\ MaxConsecutive \in Nat \ {0} /\ Permits \in Nat \ {0}

VARIABLES
    pc,       \* where each caller is
    refusals, \* consecutive_429_count of its call
    open,     \* _backoff_event
    permits,  \* the value of _semaphore
    queue,    \* the waiters of _semaphore, those already woken first
    pending   \* _pending_count

vars == <<pc, refusals, open, permits, queue, pending>>

Places == {"outside", "gate", "passed", "queued", "granted", "fetching", "backoff"}

Init ==
    /\ pc = [c \in Callers |-> "outside"]
    /\ refusals = [c \in Callers |-> 0]
    /\ open = TRUE
    /\ permits = Permits
    /\ queue = <<>>
    /\ pending = 0

At(place) == {c \in Callers : pc[c] = place}

-----------------------------------------------------------------------------

\* _semaphore.acquire, in the state where p are the callers' places.
Acquire(c, p) ==
    IF permits > 0 /\ queue = <<>>
    THEN /\ pc' = [p EXCEPT ![c] = "fetching"]
         /\ permits' = permits - 1 /\ UNCHANGED queue
    ELSE /\ pc' = [p EXCEPT ![c] = "queued"]
         /\ queue' = Append(queue, c) /\ UNCHANGED permits

\* Mutant: the capacity is not checked.
ExecuteUnbounded(c) ==
    /\ pc[c] = "outside"
    /\ pending' = pending + 1
    /\ refusals' = [refusals EXCEPT ![c] = 0]
    /\ IF open THEN Acquire(c, pc)
       ELSE pc' = [pc EXCEPT ![c] = "gate"] /\ UNCHANGED <<permits, queue>>
    /\ UNCHANGED open

\* execute.  When the queue is full it raises QueueOverflowError and nothing
\* changes.
Execute(c) ==
    /\ pc[c] = "outside" /\ pending < MaxQueue
    /\ pending' = pending + 1
    /\ refusals' = [refusals EXCEPT ![c] = 0]
    /\ IF open THEN Acquire(c, pc)
       ELSE pc' = [pc EXCEPT ![c] = "gate"] /\ UNCHANGED <<permits, queue>>
    /\ UNCHANGED open

\* Mutant: the event is looked at again.
ProceedRechecking(c) ==
    /\ pc[c] = "passed"
    /\ IF open THEN Acquire(c, pc)
       ELSE pc' = [pc EXCEPT ![c] = "gate"] /\ UNCHANGED <<permits, queue>>
    /\ UNCHANGED <<refusals, open, pending>>

\* A caller the event has woken goes on, whether or not the event has been
\* cleared again in the meantime.
Proceed(c) ==
    /\ pc[c] = "passed"
    /\ Acquire(c, pc)
    /\ UNCHANGED <<refusals, open, pending>>

\* _wake_up_next, as often as there are permits: n permits are handed to the
\* first waiters that have none, and the rest of them becomes the value.
HandOut(p, q, n, value) ==
    LET Waiting == {i \in 1 .. Len(q) : p[q[i]] = "queued"}
        Handed  == {q[i] : i \in {j \in Waiting :
                                    Cardinality({k \in Waiting : k < j}) < n}}
    IN  /\ pc' = [d \in Callers |-> IF d \in Handed THEN "granted" ELSE p[d]]
        /\ permits' = value + n - Cardinality(Handed)

\* Mutant: the waiter keeps to itself what it sees.
StartGrantedAlone(c) ==
    /\ pc[c] = "granted" /\ Head(queue) = c
    /\ queue' = Tail(queue)
    /\ pc' = [pc EXCEPT ![c] = "fetching"]
    /\ UNCHANGED <<permits, refusals, open, pending>>

\* A waiter of the semaphore that was given a permit starts its fetch.  Before
\* that it hands out permits released while it stood first in the queue.
StartGranted(c) ==
    /\ pc[c] = "granted" /\ Head(queue) = c
    /\ queue' = Tail(queue)
    /\ HandOut([pc EXCEPT ![c] = "fetching"], Tail(queue), permits, 0)
    /\ UNCHANGED <<refusals, open, pending>>

\* _semaphore.release by c, which goes on at place.
Release(c, place) == HandOut([pc EXCEPT ![c] = place], queue, 1, permits)

\* The fetch returned anything but 429, or raised: execute is left.
Answered(c) ==
    /\ pc[c] = "fetching"
    /\ Release(c, "outside")
    /\ pending' = pending - 1
    /\ UNCHANGED <<refusals, open, queue>>

\* Mutant: the event is cleared by every 429, also by the one that is the last.
RefusedClosing(c) ==
    /\ pc[c] = "fetching"
    /\ refusals' = [refusals EXCEPT ![c] = @ + 1]
    /\ open' = FALSE
    /\ IF refusals[c] + 1 >= MaxConsecutive
       THEN Release(c, "outside") /\ pending' = pending - 1
       ELSE Release(c, "backoff") /\ UNCHANGED pending
    /\ UNCHANGED queue

\* The fetch returned 429: RateLimitExhaustedError, or the start of a backoff.
Refused(c) ==
    /\ pc[c] = "fetching"
    /\ refusals' = [refusals EXCEPT ![c] = @ + 1]
    /\ IF refusals[c] + 1 >= MaxConsecutive
       THEN Release(c, "outside") /\ pending' = pending - 1 /\ UNCHANGED open
       ELSE Release(c, "backoff") /\ open' = FALSE /\ UNCHANGED pending
    /\ UNCHANGED queue

\* The sleep is over: the event is set, which wakes everybody at the gate, and
\* the caller goes on to the semaphore before any of them runs.
BackoffOver(c) ==
    /\ pc[c] = "backoff"
    /\ open' = TRUE
    /\ Acquire(c, [d \in Callers |-> IF pc[d] = "gate" THEN "passed" ELSE pc[d]])
    /\ UNCHANGED <<refusals, pending>>

-----------------------------------------------------------------------------

Step(c) == \/ Proceed(c) \/ StartGranted(c) \/ Answered(c) \/ Refused(c) \/ BackoffOver(c)

Next == \E c \in Callers : Execute(c) \/ Step(c)

\* Every fetch ends and every sleep is over at some time; tasks that can run do.
Fairness == \A c \in Callers : WF_vars(Step(c))

Spec     == Init /\ [][Next]_vars
FairSpec == Spec /\ Fairness

-----------------------------------------------------------------------------
(* Properties.                                                             *)

TypeOK ==
    /\ pc \in [Callers -> Places]
    /\ refusals \in [Callers -> 0 .. MaxConsecutive]
    /\ open \in BOOLEAN
    /\ permits \in 0 .. Permits
    /\ queue \in Seq(Callers)
    /\ pending \in 0 .. MaxQueue

\* No permit is lost or made up over fetches that fail, are refused, or end
\* while others wait, and none is idle while a caller waits for one, unless a
\* waiter that was woken is still to run and will hand it on.
PermitsAccountedFor ==
    /\ permits + Cardinality(At("fetching")) + Cardinality(At("granted")) = Permits
    /\ permits > 0 /\ At("queued") # {} => At("granted") # {}
    /\ pending = Cardinality(Callers \ At("outside"))

\* Nobody waits at an open gate, and while it is closed somebody sleeps who
\* will open it, however the sleeps of several callers overlap.
GateWillOpen ==
    /\ At("gate") # {} => ~open
    /\ ~open => At("backoff") # {}

\* Every call of execute ends: nobody is starved at the gate or in the queue by
\* the calls that keep coming, and no call backs off for ever.
EveryCallEnds == \A c \in Callers : pc[c] # "outside" ~> pc[c] = "outside"

\* What the documents say: no fetch starts while a backoff is under way.
BackoffPausesAll == [][
    \A c, d \in Callers : pc[c] # "fetching" /\ pc'[c] = "fetching" => pc'[d] # "backoff" ]_vars
=============================================================================
