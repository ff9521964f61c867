--------------------------- MODULE CrawlRowProofs ---------------------------
(***************************************************************************)
(* What becomes of the rows of a crawl.                                    *)
(*                                                                         *)
(* How the URLs end: how often they are tried, and for what they fail.     *)
(* All of it follows from the few things a step can do to a row (RowStep), *)
(* and from who does it.                                                   *)
(*                                                                         *)
(* Who has them: no two holders have the same lease, however slow they     *)
(* are, so one at most can report, no other takes its lease away, and the  *)
(* crawl uses the store as MetadataStore lets its callers.  If moreover no *)
(* worker outlives its lease, the end of the crawl is the end.             *)
(***************************************************************************)
EXTENDS CrawlProofs

-----------------------------------------------------------------------------
(* What a step does to a row.                                              *)

\* The columns that matter for what follows, but for the lease's and the state.
Same(u) ==
    /\ db'[u].retries = db[u].retries /\ db'[u].content = db[u].content
    /\ db'[u].redirects = db[u].redirects

Untouched(u) ==
    Same(u) /\ db'[u].state = db[u].state /\ db'[u].token = db[u].token
            /\ db'[u].expires = db[u].expires

Added(u) ==
    /\ ~Exists(db, u) /\ sched = "down"
    /\ db'[u].state = "Pending" /\ db'[u].retries = 0 /\ db'[u].content = Null

Linked(u, w) ==
    /\ ~Exists(db, u) /\ work[w].pc \in {"enqueue", "redirect"}
    /\ db'[u].state = "Pending" /\ db'[u].retries = 0 /\ db'[u].content = Null

Freed(u) ==
    Same(u) /\ sched \in {"top", "woken"} /\ LeaseExpired(db[u], now) /\ db'[u].state = "Pending"

Taken(u) ==
    /\ Same(u) /\ sched = "acquire" /\ Leasable(db[u], batch.asOf) /\ Unused(db'[u].token)
    /\ db'[u].state = "In_Progress" /\ db'[u].expires = batch.asOf + LeaseTtl

Renewed(u, w) ==
    /\ Same(u) /\ Held(db[u], work[w].token) /\ work[w].url = u /\ InProcess(w)
    /\ db'[u].state = db[u].state /\ db'[u].token = db[u].token
    /\ db'[u].expires = now + LeaseTtl

Completed(u, w) ==
    /\ Held(db[u], work[w].token) /\ work[w].url = u /\ CompleteUrl(w)
    /\ db'[u].state = "Completed" /\ db'[u].retries = db[u].retries
    /\ db'[u].redirects = db[u].redirects

Refused(u, w) ==
    /\ Same(u) /\ Held(db[u], work[w].token) /\ work[w].url = u /\ FailUrl(w)
    /\ db'[u].state = "Terminal_Failed"

GivenUp(u, w) ==
    /\ Same(u) /\ Held(db[u], work[w].token) /\ work[w].url = u /\ RescheduleUrl(w)
    /\ db'[u].state = "Failed"

PutOff(u, w) ==
    /\ Held(db[u], work[w].token) /\ work[w].url = u /\ RescheduleUrl(w)
    /\ ~Exhausted(work[w].attempt) /\ db'[u].retries = work[w].attempt
    /\ db'[u].state = "Retry"
    /\ db'[u].content = db[u].content /\ db'[u].redirects = db[u].redirects

RowStep(u) ==
    \/ Untouched(u) \/ Added(u) \/ Freed(u) \/ Taken(u)
    \/ \E w \in Workers : \/ Linked(u, w) \/ Renewed(u, w) \/ Completed(u, w) \/ Refused(u, w)
                          \/ GivenUp(u, w) \/ PutOff(u, w)

\* A step that does not write.
LEMMA NoWrite ==
    ASSUME db' = db, NEW u \in Urls
    PROVE  RowStep(u)
BY DEF RowStep, Untouched, Same

\* The steps of the scheduler.
LEMMA SchedulerRows ==
    ASSUME IInv, Scheduler, NEW u \in Urls
    PROVE  RowStep(u)
<1>1. db \in Table /\ now \in Nat
  BY DEF IInv, TypeOK
<1>2. CASE Start \/ Resume
  <2>1. sched = "down" /\ db' = Insert(db, Seed, 0, Null, 0) /\ Seed \in Urls
    BY <1>2, SiteAssumption DEF Start, Resume
  <2>2. db'[u] = db[u] \/ (~Exists(db, u) /\ db'[u].state = "Pending"
                             /\ db'[u].retries = 0 /\ db'[u].content = Null)
    BY <1>1, <2>1, InsertRows
  <2> QED  BY <2>1, <2>2 DEF RowStep, Untouched, Same, Added
<1>3. CASE ExpireLeases
  <2>1. sched \in {"top", "woken"} /\ db' = Expire(db, now)
    BY <1>3 DEF ExpireLeases
  <2> QED  BY <1>1, <2>1, ExpireRows DEF RowStep, Untouched, Same, Freed
<1>4. CASE AcquireUpdate
  <2> DEFINE v == Head(batch.todo)
  <2>1. /\ sched = "acquire" /\ v \in Urls
        /\ db' = Lease(db, v, FreshToken, batch.asOf + LeaseTtl, batch.asOf)
    BY <1>4 DEF AcquireUpdate, IInv, TypeOK, BatchRecord
  <2>2. Unused(FreshToken)
    BY <1>4, FreshTokenUnused
  <2> QED  BY <1>1, <2>1, <2>2, LeaseRows DEF RowStep, Untouched, Same, Taken
<1>5. CASE SkipExpire \/ NoSlot \/ SlotFreed \/ AcquireSelect \/ Dispatch \/ CheckComplete
           \/ Wake \/ LeaveLoop \/ Exit
  <2>1. db' = db
    BY <1>5 DEF SkipExpire, NoSlot, SlotFreed, AcquireSelect, Dispatch, CheckComplete, Wake,
                LeaveLoop, Exit
  <2> QED  BY <2>1, NoWrite
<1> QED  BY <1>2, <1>3, <1>4, <1>5 DEF Scheduler

\* The steps of a worker and of its heartbeat.
LEMMA WorkerRows ==
    ASSUME IInv, NEW w \in Workers, Worker(w) \/ Heartbeat(w), NEW u \in Urls
    PROVE  RowStep(u)
<1> DEFINE x == work[w].url
<1>1. /\ db \in Table /\ work[w] \in Job /\ TaskPlaced(w)
  BY DEF IInv, TypeOK, TaskInv
<1>2. CASE FetchDone(w) \/ ReadRetryCount(w) \/ Finally(w)
  BY <1>2, NoWrite DEF FetchDone, ReadRetryCount, Finally
<1>3. CASE Process(w)
  <2>1. x \in Urls
    BY <1>1, <1>3 DEF Process, TaskPlaced
  <2>2. db' = db \/ db' = ReplaceMetadata(db, x, work[w].body)
    BY <1>3 DEF Process
  <2> QED  BY <1>1, <2>1, <2>2, MetadataRows, NoWrite DEF RowStep, Untouched, Same
<1>4. ASSUME NEW v \in Urls, NEW depth, NEW parent, NEW n, work[w].pc \in {"enqueue", "redirect"},
             db' = Insert(db, v, depth, parent, n)
      PROVE  RowStep(u)
  <2>1. db'[u] = db[u] \/ (~Exists(db, u) /\ db'[u].state = "Pending"
                             /\ db'[u].retries = 0 /\ db'[u].content = Null)
    BY <1>1, <1>4, InsertRows
  <2>2. Linked(u, w) => RowStep(u)
    BY DEF RowStep
  <2> QED  BY <1>4, <2>1, <2>2 DEF RowStep, Untouched, Same, Linked
<1>5. CASE EnqueueDiscovered(w)
  <2>1. PICK v \in work[w].todo :
           db' = IF Passes(v, db[x].depth + 1) THEN Insert(db, v, db[x].depth + 1, Null, 0) ELSE db
    BY <1>5 DEF EnqueueDiscovered
  <2>2. v \in Urls /\ work[w].pc = "enqueue"
    BY <1>1, <1>5 DEF Job, EnqueueDiscovered
  <2> QED  BY <1>4, <2>1, <2>2, NoWrite
<1>6. CASE HandleRedirect(w)
  <2>1. /\ work[w].pc = "redirect" /\ Target[x] \in Urls
        /\ \/ db' = db
           \/ db' = Insert(db, Target[x], db[x].depth, AsFound(x), db[x].redirects + 1)
    BY <1>1, <1>6, SiteAssumption DEF HandleRedirect, TaskPlaced
  <2> QED  BY <1>4, <2>1, NoWrite
<1>7. CASE CompleteUrl(w)
  <2>1. x \in Urls /\ db' = Complete(db, x, work[w].token, work[w].body)
    BY <1>1, <1>7 DEF CompleteUrl, TaskPlaced
  <2>2. \/ db'[u] = db[u]
        \/ /\ u = x /\ Held(db[u], work[w].token) /\ db'[u].state = "Completed"
           /\ db'[u].retries = db[u].retries /\ db'[u].redirects = db[u].redirects
    BY <1>1, <2>1, CompleteRows
  <2>3. Completed(u, w) => RowStep(u)
    BY DEF RowStep
  <2> QED  BY <1>7, <2>2, <2>3 DEF RowStep, Untouched, Same, Completed
<1>8. CASE FailUrl(w)
  <2>1. x \in Urls /\ db' = FailTerminally(db, x, work[w].token)
    BY <1>1, <1>8 DEF FailUrl, TaskPlaced
  <2>2. \/ db'[u] = db[u]
        \/ u = x /\ Held(db[u], work[w].token) /\ db'[u].state = "Terminal_Failed" /\ Same(u)
    BY <1>1, <2>1, FailTerminallyRows DEF Same
  <2>3. Refused(u, w) => RowStep(u)
    BY DEF RowStep
  <2> QED  BY <1>8, <2>2, <2>3 DEF RowStep, Untouched, Same, Refused
<1>9. CASE RescheduleUrl(w)
  <2>1. x \in Urls
    BY <1>1, <1>9 DEF RescheduleUrl, TaskPlaced
  <2>2. \/ db'[u] = db[u]
        \/ /\ u = x /\ Held(db[u], work[w].token)
           /\ db'[u].content = db[u].content /\ db'[u].redirects = db[u].redirects
           /\ \/ db'[u].state = "Failed" /\ db'[u].retries = db[u].retries
              \/ /\ ~Exhausted(work[w].attempt) /\ db'[u].state = "Retry"
                 /\ db'[u].retries = work[w].attempt
    BY <1>9, <2>1, RescheduleUrlRows
  <2>3. GivenUp(u, w) \/ PutOff(u, w) => RowStep(u)
    BY DEF RowStep
  <2> QED  BY <1>9, <2>2, <2>3 DEF RowStep, Untouched, Same, GivenUp, PutOff
<1>10. CASE Heartbeat(w)
  <2>1. x \in Urls /\ db' = Renew(db, x, work[w].token, now + LeaseTtl) /\ InProcess(w)
    BY <1>1, <1>10 DEF Heartbeat, InProcess, TaskPlaced
  <2>2. \/ db'[u] = db[u]
        \/ /\ u = x /\ Held(db[u], work[w].token) /\ Same(u)
           /\ db'[u].state = db[u].state /\ db'[u].token = db[u].token
           /\ db'[u].expires \in {now + LeaseTtl, db[u].expires}
    BY <1>1, <2>1, RenewRows DEF Same
  <2>3. Renewed(u, w) => RowStep(u)
    BY DEF RowStep
  <2> QED  BY <2>1, <2>2, <2>3 DEF RowStep, Untouched, Same, Renewed
<1> QED  BY <1>2, <1>3, <1>5, <1>6, <1>7, <1>8, <1>9, <1>10 DEF Worker

LEMMA StepRows ==
    ASSUME IInv, [Next]_vars, NEW u \in Urls
    PROVE  RowStep(u)
<1>1. CASE Scheduler
  BY <1>1, SchedulerRows
<1>2. CASE \E w \in Workers : Worker(w) \/ Heartbeat(w)
  BY <1>2, WorkerRows
<1>3. CASE Stop \/ Tick \/ Crash \/ Exited \/ UNCHANGED vars
  BY <1>3, NoWrite DEF Stop, RequestStop, Drained, CloseStore, Tick, Crash, Exited, vars
<1> QED  BY <1>1, <1>2, <1>3 DEF Next

-----------------------------------------------------------------------------
(* Retries.                                                                *)

\* A URL nobody has found was never tried; content is what a completed URL has.
Settled ==
    \A u \in Urls : /\ ~Exists(db, u) => db[u].retries = 0
                    /\ db[u].content # Null => db[u].state = "Completed"

LEMMA SettledInit == Init => Settled
BY DEF Init, Settled, EmptyTable, NoRow

LEMMA SettledNext ==
    ASSUME IInv, Settled, [Next]_vars
    PROVE  Settled'
<1> SUFFICES ASSUME NEW u \in Urls
             PROVE  /\ ~Exists(db', u) => db'[u].retries = 0
                    /\ db'[u].content # Null => db'[u].state = "Completed"
  BY DEF Settled
<1>1. RowStep(u)
  BY StepRows
<1>2. /\ db[u].state = "Absent" => db[u].retries = 0
      /\ db[u].content # Null => db[u].state = "Completed"
  BY DEF Settled, Exists
<1> QED
  BY <1>1, <1>2 DEF RowStep, Untouched, Added, Freed, Taken, Linked, Renewed, Completed, Refused,
                    GivenUp, PutOff, Same, Exists, Held, LeaseExpired, Leasable, RetryDue

LEMMA RetriesStep ==
    ASSUME IInv, Settled, [Next]_vars, NEW u \in Urls, db'[u].retries # db[u].retries
    PROVE  db'[u].retries = db[u].retries + 1 /\ db[u].retries < MaxRetries
<1>1. RowStep(u)
  BY StepRows
<1>2. ~Exists(db, u) => db[u].retries = 0
  BY DEF Settled
<1>3. PICK w \in Workers : PutOff(u, w)
  BY <1>1, <1>2 DEF RowStep, Untouched, Added, Freed, Taken, Linked, Renewed, Completed, Refused,
                    GivenUp, Same
<1>4. work[w].attempt = db[u].retries + 1
  BY <1>3 DEF PutOff, RescheduleUrl, IInv, TaskInv, TaskCounts
<1>5. db[u].retries \in Nat /\ MaxRetries \in Nat
  BY ConfigAssumption DEF IInv, TypeOK, Table, Row
<1> QED  BY <1>3, <1>4, <1>5 DEF PutOff, Exhausted

\* The retry count goes up by one and not past max_retries, however the workers that
\* read and write it come to lose their leases.
THEOREM RetriesAreCounted == Spec => RetriesCounted
<1>1. IInv /\ Settled /\ [Next]_vars =>
        [\A u \in Urls : LET n == db[u].retries IN
            db'[u].retries # n => db'[u].retries = n + 1 /\ n < MaxRetries]_vars
  BY RetriesStep
<1>2. Spec => []Settled
  <2>1. IInv /\ Settled /\ [Next]_vars => Settled'
    BY SettledNext
  <2> QED  BY SettledInit, <2>1, Invariance, PTL DEF Spec
<1> QED  BY <1>1, <1>2, Invariance, PTL DEF Spec, RetriesCounted

-----------------------------------------------------------------------------
(* Failures, of a site spelled regularly in a crawl that is not stopped.   *)

\* Nobody has called stop, and a crawl that has ended leased nothing since.
Unstopped ==
    /\ stop = "no" /\ stops = 0 /\ sched # "ended"
    /\ sched \in {"done", "exited"} => \A u \in Urls : db[u].state # "In_Progress"

\* A task fails because of what the site answered, or has no lease to fail with.
TaskFails(w) ==
    LET u == work[w].url
    IN  /\ work[w].pc = "redirect" => "redirect" \in Responses[u]
        /\ work[w].pc = "terminal" =>
              \/ "permanent" \in Responses[u]
              \/ "redirect" \in Responses[u] /\ db[u].redirects >= MaxRedirects
              \/ db[u].state = "Completed"
              \/ sched \in {"done", "exited"}

FailInv == /\ Settled /\ Unstopped /\ FailuresAreTheSites
           /\ \A w \in Workers : TaskFails(w)

\* run() is over once it has found the crawl complete.
LEMMA EndStep ==
    ASSUME [Next]_vars, sched' \in {"done", "exited"}
    PROVE  \/ sched \in {"done", "exited"}
           \/ sched = "ended" /\ Exit
           \/ CheckComplete /\ \A u \in Urls : db[u].state \notin Processable
<1>1. CASE Scheduler
  BY <1>1 DEF Scheduler, Start, Resume, ExpireLeases, SkipExpire, NoSlot, SlotFreed, AcquireSelect,
              AcquireUpdate, Dispatch, CheckComplete, Wake, LeaveLoop, Exit
<1>2. CASE \E w \in Workers : Worker(w) \/ Heartbeat(w)
  BY <1>2 DEF Worker, FetchDone, Process, EnqueueDiscovered, HandleRedirect, CompleteUrl, FailUrl,
              ReadRetryCount, RescheduleUrl, Finally, Heartbeat
<1>3. CASE Stop \/ Tick \/ Crash \/ Exited \/ UNCHANGED vars
  BY <1>3 DEF Stop, RequestStop, Drained, CloseStore, Tick, Crash, Exited, vars
<1> QED  BY <1>1, <1>2, <1>3 DEF Next

\* Without a stop the loop is not left but at the end.
LEMMA StopStep ==
    ASSUME MaxStops = 0, stop = "no", stops = 0, sched # "ended", [Next]_vars
    PROVE  stop' = "no" /\ stops' = 0 /\ sched' # "ended"
<1>1. CASE Scheduler
  BY <1>1 DEF Scheduler, Start, Resume, ExpireLeases, SkipExpire, NoSlot, SlotFreed, AcquireSelect,
              AcquireUpdate, Dispatch, CheckComplete, Wake, LeaveLoop, Exit, interrupts
<1>2. CASE \E w \in Workers : Worker(w) \/ Heartbeat(w)
  BY <1>2 DEF Worker, FetchDone, Process, EnqueueDiscovered, HandleRedirect, CompleteUrl, FailUrl,
              ReadRetryCount, RescheduleUrl, Finally, Heartbeat, interrupts
<1>3. CASE Stop \/ Tick \/ Crash \/ Exited \/ UNCHANGED vars
  BY <1>3 DEF Stop, RequestStop, Drained, CloseStore, Tick, Crash, Exited, vars, interrupts
<1> QED  BY <1>1, <1>2, <1>3 DEF Next

LEMMA UnstoppedNext ==
    ASSUME MaxStops = 0, IInv, Unstopped, [Next]_vars
    PROVE  Unstopped'
<1>1. stop' = "no" /\ stops' = 0 /\ sched' # "ended"
  BY StopStep DEF Unstopped
<1>2. ASSUME sched' \in {"done", "exited"}, NEW u \in Urls
      PROVE  db'[u].state # "In_Progress"
  <2>1. db[u].state # "In_Progress" /\ sched # "acquire"
    BY <1>2, EndStep DEF Unstopped, CheckComplete, Processable
  <2>2. RowStep(u)
    BY StepRows
  <2> QED  BY <2>1, <2>2 DEF RowStep, Untouched, Added, Freed, Taken, Linked, Renewed, Completed,
                    Refused, GivenUp, PutOff, Held
<1> QED  BY <1>1, <1>2 DEF Unstopped

\* What is completed stays so, and a row keeps its redirect count.
LEMMA RowKeeps ==
    ASSUME IInv, [Next]_vars, NEW u \in Urls, Exists(db, u)
    PROVE  /\ db'[u].redirects = db[u].redirects
           /\ db[u].state = "Completed" => db'[u].state = "Completed"
<1>1. RowStep(u)
  BY StepRows
<1> QED
  BY <1>1 DEF RowStep, Untouched, Added, Freed, Taken, Linked, Renewed, Completed, Refused,
              GivenUp, PutOff, Same, Exists, Held, LeaseExpired, Leasable, RetryDue

\* A task comes to fail, or to follow a redirect, in its own steps only.
LEMMA TaskStep ==
    ASSUME IInv, [Next]_vars, NEW w \in Workers, work'[w].pc \in {"redirect", "terminal"}
    PROVE  \/ work'[w].pc = work[w].pc /\ work'[w].url = work[w].url
           \/ FetchDone(w) \/ Process(w) \/ HandleRedirect(w)
<1>1. TypeOK /\ TaskPlaced(w)
  BY DEF IInv, TaskInv
<1>2. CASE Dispatch
  <2> DEFINE leases == IF stop = "no" THEN batch.got ELSE {}
  <2>1. leases \in SUBSET LeaseRecord /\ Dispatched(leases)
    BY <1>1, <1>2 DEF TypeOK, BatchRecord, Dispatch
  <2> HIDE DEF leases
  <2>2. PICK slot \in [leases -> Workers \ Active] :
           /\ \A l \in leases : work'[slot[l]] = Fetching(l)
           /\ \A v \in Workers : (\A l \in leases : slot[l] # v) => work'[v] = work[v]
    BY <1>1, <2>1, DispatchedJobs
  <2>3. \A l \in leases : Fetching(l).pc = "fetch"
    BY <1>1, <2>1, FetchingType
  <2> QED  BY <2>2, <2>3
<1>3. CASE Scheduler /\ ~Dispatch
  <2>1. work' = work \/ work' = [v \in Workers |-> Idle]
    BY <1>3 DEF Scheduler, Start, Resume, ExpireLeases, SkipExpire, NoSlot, SlotFreed,
                AcquireSelect, AcquireUpdate, CheckComplete, Wake, LeaveLoop, Exit
  <2> QED  BY <2>1 DEF Idle
<1>4. ASSUME NEW v \in Workers, Worker(v) \/ Heartbeat(v), v # w
      PROVE  work'[w] = work[w]
  BY <1>1, <1>4 DEF Worker, FetchDone, Process, EnqueueDiscovered, HandleRedirect, CompleteUrl,
     FailUrl, ReadRetryCount, RescheduleUrl, Finally, Heartbeat, Return, Reporting, Goto, TypeOK
<1>5. CASE Heartbeat(w)
  BY <1>1, <1>5, HeartbeatJob DEF GoesOn
<1>6. CASE EnqueueDiscovered(w)
  BY <1>1, <1>6, EnqueueJob DEF EnqueueDiscovered, GoesOn
<1>7. CASE CompleteUrl(w) \/ FailUrl(w) \/ RescheduleUrl(w)
  BY <1>1, <1>7, ReportingJob DEF CompleteUrl, FailUrl, RescheduleUrl
<1>8. CASE ReadRetryCount(w)
  BY <1>1, <1>8, ReadJob
<1>9. CASE Finally(w)
  BY <1>1, <1>9 DEF Finally, TypeOK, Idle
<1>10. CASE Stop \/ Tick \/ Exited \/ UNCHANGED vars
  BY <1>10 DEF Stop, RequestStop, Drained, CloseStore, Tick, Exited, vars
<1>11. CASE Crash
  BY <1>11 DEF Crash, Idle
<1> QED
  BY <1>2, <1>3, <1>4, <1>5, <1>6, <1>7, <1>8, <1>9, <1>10, <1>11 DEF Next, Worker

\* An ended crawl stays ended, or all its tasks are gone.
LEMMA EndStays ==
    ASSUME Unstopped, [Next]_vars, sched \in {"done", "exited"}
    PROVE  sched' \in {"done", "exited"} \/ work' = [w \in Workers |-> Idle]
<1>1. CASE Scheduler
  BY <1>1 DEF Scheduler, Start, Resume, ExpireLeases, SkipExpire, NoSlot, SlotFreed, AcquireSelect,
              AcquireUpdate, Dispatch, CheckComplete, Wake, LeaveLoop, Exit
<1>2. CASE \E w \in Workers : Worker(w) \/ Heartbeat(w)
  BY <1>2 DEF Worker, FetchDone, Process, EnqueueDiscovered, HandleRedirect, CompleteUrl, FailUrl,
              ReadRetryCount, RescheduleUrl, Finally, Heartbeat
<1>3. CASE Stop \/ Tick \/ Crash \/ Exited \/ UNCHANGED vars
  BY <1>3 DEF Stop, RequestStop, Drained, CloseStore, Tick, Crash, Exited, vars
<1> QED  BY <1>1, <1>2, <1>3 DEF Next

LEMMA TaskFailsNext ==
    ASSUME RawSpelled = {}, MaxStops = 0, IInv, FailInv, [Next]_vars, NEW w \in Workers
    PROVE  TaskFails(w)'
<1>1. CASE work'[w].pc \notin {"redirect", "terminal"}
  BY <1>1 DEF TaskFails
<1>2. ASSUME work'[w].pc \in {"redirect", "terminal"}
      PROVE  TaskFails(w)'
  <2> DEFINE u == work[w].url
  <2>1. /\ TypeOK /\ TaskPlaced(w) /\ TaskFollows(w) /\ TaskFails(w) /\ sched # "ended"
    BY DEF IInv, TaskInv, FailInv, Unstopped
  <2>2. work' # [v \in Workers |-> Idle]
    BY <1>2 DEF Idle
  <2>3. sched \in {"done", "exited"} => sched' \in {"done", "exited"}
    BY <2>2, EndStays DEF FailInv
  <2>4. CASE work'[w].pc = work[w].pc /\ work'[w].url = u
    <3>1. u \in Urls /\ Exists(db, u)
      BY <1>2, <2>1, <2>4 DEF TaskPlaced
    <3>2. /\ db'[u].redirects = db[u].redirects
          /\ db[u].state = "Completed" => db'[u].state = "Completed"
      BY <3>1, RowKeeps
    <3> QED  BY <2>1, <2>3, <2>4, <3>2 DEF TaskFails
  <2>5. CASE FetchDone(w)
    <3>1. /\ work'[w].url = u /\ work'[w].kind \in Outcomes(u)
          /\ work'[w].pc = "redirect" => work'[w].kind = "redirect"
          /\ work'[w].pc = "terminal" => work'[w].kind \in {"permanent", "client closed"}
      BY <2>1, <2>5, FetchDoneJob DEF GoesOn
    <3>2. u \in Urls /\ sched' = sched
      BY <2>1, <2>5 DEF FetchDone, TaskPlaced
    <3>3. Responses[u] \subseteq Answers
      BY <3>2, SiteAssumption
    <3>4. work'[w].kind \in {"redirect", "permanent"} => work'[w].kind \in Responses[u]
      BY <3>1 DEF Outcomes
    <3>5. work'[w].kind = "client closed" => sched \in {"done", "exited"}
      BY <2>1, <3>1, <3>3 DEF Outcomes, ClientOpen, Answers
    <3> QED  BY <3>1, <3>2, <3>4, <3>5 DEF TaskFails
  <2>6. CASE Process(w)
    <3>1. /\ work'[w].url = u /\ work'[w].pc = "terminal" /\ db' = db
          /\ db[u].content = work[w].body /\ u \in Urls /\ work[w].body \in Bodies
      BY <1>2, <2>1, <2>6, ProcessJob DEF GoesOn, TaskPlaced, TaskFollows, Process
    <3>2. db[u].state = "Completed"
      BY <3>1, NullAssumption DEF FailInv, Settled
    <3> QED  BY <3>1, <3>2 DEF TaskFails
  <2>7. CASE HandleRedirect(w)
    <3>1. work[w].pc = "redirect" /\ u \in Urls /\ Exists(db, u)
      BY <2>1, <2>7 DEF HandleRedirect, TaskPlaced
    <3>2. ~InsertFails(db, Target[u], AsFound(u))
      BY <3>1 DEF InsertFails, AsFound
    <3>3. CASE Goto(w, "complete")
      BY <1>2, <2>1, <3>3, GotoJob DEF Pcs
    <3>4. CASE ChainTooLong(u) /\ Return(w, "terminal", "redirect") /\ UNCHANGED db
      <4>1. work'[w].pc = "terminal" /\ work'[w].url = u
        BY <2>1, <3>4, ReturnJob DEF Pcs, Kinds, Answers
      <4>2. "redirect" \in Responses[u]
        BY <2>1, <3>1 DEF TaskFails
      <4> QED  BY <3>4, <4>1, <4>2 DEF TaskFails, ChainTooLong
    <3> QED  BY <2>7, <3>2, <3>3, <3>4 DEF HandleRedirect
  <2> QED  BY <1>2, <2>4, <2>5, <2>6, <2>7, TaskStep
<1> QED  BY <1>1, <1>2

LEMMA FailInvNext ==
    ASSUME RawSpelled = {}, MaxStops = 0, IInv, FailInv, [Next]_vars
    PROVE  FailInv'
<1>1. Settled' /\ Unstopped' /\ \A w \in Workers : TaskFails(w)'
  BY SettledNext, UnstoppedNext, TaskFailsNext DEF FailInv
<1>2. FailuresAreTheSites'
  <2>1. SUFFICES ASSUME NEW u \in Urls, db'[u].state = "Terminal_Failed"
                 PROVE  \/ "permanent" \in Responses[u]
                        \/ "redirect" \in Responses[u] /\ db'[u].redirects >= MaxRedirects
    BY DEF FailuresAreTheSites
  <2>2. RowStep(u)
    BY StepRows
  <2>3. CASE Untouched(u)
    BY <2>1, <2>3 DEF Untouched, Same, FailInv, FailuresAreTheSites
  <2>4. ASSUME NEW w \in Workers, Refused(u, w)
        PROVE  \/ "permanent" \in Responses[u]
               \/ "redirect" \in Responses[u] /\ db'[u].redirects >= MaxRedirects
    <3>1. TaskFails(w) /\ Unstopped
      BY DEF FailInv
    <3>2. /\ work[w].pc = "terminal" /\ work[w].url = u /\ db[u].state = "In_Progress"
          /\ db'[u].redirects = db[u].redirects
      BY <2>4 DEF Refused, FailUrl, Held, Same
    <3> QED  BY <3>1, <3>2 DEF TaskFails, Unstopped
  <2>5. ASSUME NEW w \in Workers, Renewed(u, w) PROVE FALSE
    BY <2>1, <2>5 DEF Renewed, Held
  <2> QED  BY <2>1, <2>2, <2>3, <2>4, <2>5 DEF RowStep, Added, Freed, Taken, Linked, Completed,
                GivenUp, PutOff
<1> QED  BY <1>1, <1>2 DEF FailInv

\* What fails for good was refused, or redirected to too often, by the site, if URLs are
\* found under their normal forms and nobody stops the crawl; crashes, lost leases and
\* slow workers do not make it fail.
THEOREM OnlyTheSiteRefuses ==
    ASSUME RawSpelled = {}, MaxStops = 0
    PROVE  Spec => []FailuresAreTheSites
<1>1. Init => FailInv
  <2> SUFFICES ASSUME Init PROVE FailInv
    OBVIOUS
  <2>1. \A u \in Urls : db[u].state = "Absent"
    BY DEF Init, EmptyTable, NoRow
  <2>2. \A w \in Workers : work[w].pc = "idle"
    BY DEF Init, Idle
  <2> QED  BY <2>1, <2>2, SettledInit DEF Init, FailInv, Unstopped, FailuresAreTheSites, TaskFails
<1>2. IInv /\ FailInv /\ [Next]_vars => FailInv'
  BY FailInvNext
<1>3. FailInv => FailuresAreTheSites
  BY DEF FailInv
<1> QED  BY <1>1, <1>2, <1>3, Invariance, PTL DEF Spec

-----------------------------------------------------------------------------
(* Who has a lease, after a step.                                          *)

\* A slot gets no task: one that is there has its URL and lease, and does not come
\* back from its finally.
Kept(w) ==
    work'[w].pc # "idle" =>
       work[w].pc # "idle" /\ GoesOn(w) /\ (work[w].pc = "finally" => work'[w].pc = "finally")

\* A worker's step, and its heartbeat's.
LEMMA WorkerKeeps ==
    ASSUME IInv, NEW w \in Workers, Worker(w) \/ Heartbeat(w)
    PROVE  Alone(w) /\ Kept(w) /\ work[w].pc # "idle"
<1>1. TypeOK /\ TaskPlaced(w)
  BY DEF IInv, TaskInv
<1>2. CASE FetchDone(w)
  BY <1>1, <1>2, FetchDoneJob DEF FetchDone, Kept
<1>3. CASE Process(w)
  BY <1>1, <1>3, ProcessJob DEF Process, Kept
<1>4. CASE EnqueueDiscovered(w)
  BY <1>1, <1>4, EnqueueJob DEF EnqueueDiscovered, Kept
<1>5. CASE HandleRedirect(w)
  <2>1. work[w].pc = "redirect" /\ (Return(w, "terminal", "redirect") \/ Goto(w, "complete"))
    BY <1>5 DEF HandleRedirect
  <2> QED  BY <1>1, <2>1, ReturnJob, GotoJob DEF Pcs, Kinds, Answers, Kept, GoesOn, Alone
<1>6. CASE CompleteUrl(w) \/ FailUrl(w) \/ RescheduleUrl(w)
  BY <1>1, <1>6, ReportingJob DEF CompleteUrl, FailUrl, RescheduleUrl, Kept, GoesOn, Alone
<1>7. CASE ReadRetryCount(w)
  BY <1>1, <1>7, ReadJob DEF ReadRetryCount, Kept
<1>8. CASE Finally(w)
  BY <1>1, <1>8 DEF Finally, TypeOK, Idle, Kept, Alone
<1>9. CASE Heartbeat(w)
  BY <1>1, <1>9, HeartbeatJob DEF Heartbeat, InProcess, Kept
<1> QED  BY <1>2, <1>3, <1>4, <1>5, <1>6, <1>7, <1>8, <1>9 DEF Worker

\* Only dispatch gives a slot a task.
LEMMA StepKeeps ==
    ASSUME IInv, [Next]_vars, ~Dispatch, NEW w \in Workers
    PROVE  Kept(w)
<1>1. CASE Scheduler
  <2>1. work' = work \/ work' = [v \in Workers |-> Idle]
    BY <1>1 DEF Scheduler, Start, Resume, ExpireLeases, SkipExpire, NoSlot, SlotFreed,
                AcquireSelect, AcquireUpdate, CheckComplete, Wake, LeaveLoop, Exit
  <2> QED  BY <2>1 DEF Idle, Kept, GoesOn
<1>2. CASE \E v \in Workers : Worker(v) \/ Heartbeat(v)
  <2>1. PICK v \in Workers : Alone(v) /\ Kept(v)
    BY <1>2, WorkerKeeps
  <2> QED  BY <2>1 DEF Alone, Kept, GoesOn
<1>3. CASE Stop \/ Tick \/ Exited \/ UNCHANGED vars
  BY <1>3 DEF Stop, RequestStop, Drained, CloseStore, Tick, Exited, vars, Kept, GoesOn
<1>4. CASE Crash
  BY <1>4 DEF Crash, Idle, Kept
<1> QED  BY <1>1, <1>2, <1>3, <1>4 DEF Next

\* dispatch: a slot is as it was, or free and given a lease of the batch.
LEMMA DispatchGives ==
    ASSUME IInv, Dispatch
    PROVE  \E slot \in [(IF stop = "no" THEN batch.got ELSE {}) -> Workers \ Active] :
              /\ \A l \in DOMAIN slot : /\ work'[slot[l]].pc = "fetch"
                                        /\ work'[slot[l]].url = l.url
                                        /\ work'[slot[l]].token = l.token
              /\ \A w \in Workers : (\A l \in DOMAIN slot : slot[l] # w) => work'[w] = work[w]
<1> DEFINE given == IF stop = "no" THEN batch.got ELSE {}
<1>1. TypeOK /\ given \in SUBSET LeaseRecord /\ Dispatched(given)
  BY DEF Dispatch, IInv, TypeOK, BatchRecord
<1> HIDE DEF given
<1>2. PICK slot \in [given -> Workers \ Active] :
         /\ \A l \in given : work'[slot[l]] = Fetching(l)
         /\ \A w \in Workers : (\A l \in given : slot[l] # w) => work'[w] = work[w]
  BY <1>1, DispatchedJobs
<1>3. \A l \in given : /\ Fetching(l).pc = "fetch" /\ Fetching(l).url = l.url
                       /\ Fetching(l).token = l.token
  BY <1>1, FetchingType
<1> QED  BY <1>2, <1>3 DEF given

\* The batch: as it was, none, a new one, or one with at most a lease more.
LEMMA StepBatch ==
    ASSUME IInv, [Next]_vars
    PROVE  \/ batch' = batch
           \/ batch' = NoBatch
           \/ AcquireSelect /\ batch'.active /\ batch'.asOf = now /\ batch'.got = {}
           \/ /\ AcquireUpdate /\ batch'.active = batch.active /\ batch'.asOf = batch.asOf
              /\ batch'.got = IF db' # db
                              THEN batch.got \cup {[url |-> Head(batch.todo), token |-> FreshToken]}
                              ELSE batch.got
<1>1. CASE AcquireSelect
  BY <1>1 DEF AcquireSelect
<1>2. CASE AcquireUpdate
  <2>1. batch \in BatchRecord
    BY DEF IInv, TypeOK
  <2> QED  BY <1>2, <2>1 DEF AcquireUpdate, BatchRecord
<1>3. CASE Scheduler /\ ~AcquireSelect /\ ~AcquireUpdate
  BY <1>3 DEF Scheduler, Start, Resume, ExpireLeases, SkipExpire, NoSlot, SlotFreed, Dispatch,
              CheckComplete, Wake, LeaveLoop, Exit
<1>4. CASE \E w \in Workers : Worker(w) \/ Heartbeat(w)
  BY <1>4 DEF Worker, FetchDone, Process, EnqueueDiscovered, HandleRedirect, CompleteUrl, FailUrl,
              ReadRetryCount, RescheduleUrl, Finally, Heartbeat
<1>5. CASE Stop \/ Tick \/ Crash \/ Exited \/ UNCHANGED vars
  BY <1>5 DEF Stop, RequestStop, Drained, CloseStore, Tick, Crash, Exited, vars
<1> QED  BY <1>1, <1>2, <1>3, <1>4, <1>5 DEF Next

-----------------------------------------------------------------------------
(* No two leases in use have the same token.                               *)

TokensApart ==
    /\ \A v, w \in Active : v # w => work[v].token # work[w].token
    /\ \A l, k \in batch.got : l # k => l.token # k.token
    /\ \A l \in batch.got, w \in Active : l.token # work[w].token

LEMMA TokensApartNext ==
    ASSUME IInv, TokensApart, [Next]_vars
    PROVE  TokensApart'
<1>1. CASE Dispatch
  <2>1. batch'.got = {}
    BY <1>1 DEF Dispatch, NoBatch
  <2>2. PICK slot \in [(IF stop = "no" THEN batch.got ELSE {}) -> Workers \ Active] :
              /\ \A l \in DOMAIN slot : /\ work'[slot[l]].pc = "fetch"
                                        /\ work'[slot[l]].url = l.url
                                        /\ work'[slot[l]].token = l.token
              /\ \A w \in Workers : (\A l \in DOMAIN slot : slot[l] # w) => work'[w] = work[w]
    BY <1>1, DispatchGives
  <2>3. DOMAIN slot \subseteq batch.got
    OBVIOUS
  <2>4. ASSUME NEW v \in Active', NEW w \in Active', v # w
        PROVE  work'[v].token # work'[w].token
    <3>1. /\ work'[v] = work[v] /\ v \in Active
          \/ \E l \in DOMAIN slot : slot[l] = v /\ work'[v].token = l.token
      BY <2>2, <2>4 DEF Active
    <3>2. /\ work'[w] = work[w] /\ w \in Active
          \/ \E l \in DOMAIN slot : slot[l] = w /\ work'[w].token = l.token
      BY <2>2, <2>4 DEF Active
    <3> QED  BY <2>3, <2>4, <3>1, <3>2 DEF TokensApart
  <2> QED  BY <2>1, <2>4 DEF TokensApart
<1>2. CASE ~Dispatch
  <2>1. \A w \in Active' : w \in Active /\ work'[w].token = work[w].token
    BY <1>2, StepKeeps DEF Active, Kept, GoesOn
  <2>2. CASE batch' = batch \/ batch'.got = {}
    BY <2>1, <2>2 DEF TokensApart
  <2>3. CASE /\ AcquireUpdate
             /\ batch'.got = batch.got \cup {[url |-> Head(batch.todo), token |-> FreshToken]}
    <3>1. /\ \A w \in Workers : work[w].token # FreshToken
          /\ \A l \in batch.got : l.token # FreshToken
      BY <2>3, FreshTokenUnused DEF Unused
    <3> QED  BY <2>1, <2>3, <3>1 DEF TokensApart, Active
  <2>4. CASE AcquireUpdate /\ batch'.got = batch.got
    BY <2>1, <2>4 DEF TokensApart
  <2>5. NoBatch.got = {}
    BY DEF NoBatch
  <2> QED  BY <2>2, <2>3, <2>4, <2>5, StepBatch
<1> QED  BY <1>1, <1>2

\* A lease is handed to one worker, and not while another still has it.
THEOREM LeasesAreApart == Spec => []TokensApart
<1>1. Init => TokensApart
  BY DEF Init, TokensApart, Active, Idle, NoBatch
<1> QED  BY <1>1, TokensApartNext, Invariance, PTL DEF Spec

\* Of the workers at one URL one at most has the lease, so that one report counts, however
\* long the others take.
THEOREM LeaseExcludes == Spec => []OneHolder
<1>1. TokensApart => OneHolder
  BY DEF TokensApart, OneHolder, Held
<1> QED  BY <1>1, LeasesAreApart, PTL

\* The time a batch was selected at has come.
BatchTimed == batch.active => batch.asOf <= now

LEMMA BatchTimedNext ==
    ASSUME IInv, BatchTimed, [Next]_vars
    PROVE  BatchTimed'
<1>1. now \in Nat /\ batch.asOf \in Nat
  BY DEF IInv, TypeOK, BatchRecord
<1>2. now' \in {now, now + 1}
  <2>1. CASE Scheduler
    BY <2>1 DEF Scheduler, Start, Resume, ExpireLeases, SkipExpire, NoSlot, SlotFreed, AcquireSelect,
                AcquireUpdate, Dispatch, CheckComplete, Wake, LeaveLoop, Exit
  <2>2. CASE \E w \in Workers : Worker(w) \/ Heartbeat(w)
    BY <2>2 DEF Worker, FetchDone, Process, EnqueueDiscovered, HandleRedirect, CompleteUrl, FailUrl,
                ReadRetryCount, RescheduleUrl, Finally, Heartbeat
  <2>3. CASE Stop \/ Tick \/ Crash \/ Exited \/ UNCHANGED vars
    BY <2>3 DEF Stop, RequestStop, Drained, CloseStore, Tick, Crash, Exited, vars
  <2> QED  BY <2>1, <2>2, <2>3 DEF Next
<1>3. CASE AcquireSelect /\ batch'.asOf = now
  BY <1>1, <1>2, <1>3 DEF BatchTimed
<1>4. CASE batch'.active = batch.active /\ batch'.asOf = batch.asOf
  BY <1>1, <1>2, <1>4 DEF BatchTimed
<1>5. CASE batch' = NoBatch
  BY <1>5 DEF BatchTimed, NoBatch
<1> QED  BY <1>3, <1>4, <1>5, StepBatch

\* A lease that is gone was reported on by its holder, or its time was up.
LEMMA LeaseLost ==
    ASSUME IInv, TokensApart, BatchTimed, [Next]_vars, NEW w \in Active,
           Held(db[work[w].url], work[w].token), ~Held(db'[work[w].url], work[w].token)
    PROVE  \/ work[w].pc # "finally" /\ work'[w].pc = "finally"
           \/ Elapsed(db[work[w].url].expires, now)
<1> DEFINE u == work[w].url
           tok == work[w].token
<1>1. /\ u \in Urls /\ w \in Workers /\ TypeOK
      /\ db[u].state = "In_Progress" /\ db[u].token = tok
  BY DEF Active, IInv, TaskInv, TaskPlaced, Held
<1>2. RowStep(u)
  BY <1>1, StepRows
<1>3. ~Untouched(u) /\ ~Added(u) /\ \A v \in Workers : ~Linked(u, v) /\ ~Renewed(u, v)
  BY <1>1 DEF Untouched, Added, Linked, Renewed, Held, Exists
<1>4. CASE Freed(u)
  BY <1>4 DEF Freed, LeaseExpired
<1>5. CASE Taken(u)
  <2>1. Elapsed(db[u].expires, batch.asOf) /\ sched = "acquire"
    BY <1>1, <1>5 DEF Taken, Leasable, RetryDue, LeaseExpired
  <2>2. /\ batch.asOf <= now /\ batch.asOf \in Nat /\ now \in Nat
        /\ db[u].expires \in Nat \cup {Null}
    BY <1>1, <2>1 DEF IInv, BatchPlaced, BatchTimed, TypeOK, BatchRecord, Table, Row
  <2> QED  BY <2>1, <2>2 DEF Elapsed
<1>6. ASSUME NEW v \in Workers,
             Completed(u, v) \/ Refused(u, v) \/ GivenUp(u, v) \/ PutOff(u, v)
      PROVE  work[w].pc # "finally" /\ work'[w].pc = "finally"
  <2>1. work[v].token = tok /\ (CompleteUrl(v) \/ FailUrl(v) \/ RescheduleUrl(v))
    BY <1>1, <1>6 DEF Completed, Refused, GivenUp, PutOff, Held
  <2>2. v \in Active /\ work[v].pc # "finally" /\ Reporting(v)
    BY <2>1 DEF CompleteUrl, FailUrl, RescheduleUrl, Active
  <2>3. v = w
    BY <2>1, <2>2 DEF TokensApart
  <2> QED  BY <1>1, <2>2, <2>3, ReportingJob
<1> QED  BY <1>2, <1>3, <1>4, <1>5, <1>6 DEF RowStep

\* A lease ends by its holder's report or with its time: no report or heartbeat of a
\* worker that lost its own touches it, nor does acquire_lease_batch, whose UPDATE goes by
\* the time of its SELECT.
THEOREM LeasesLast == Spec => LeasesKept
<1>1. Init => BatchTimed
  BY DEF Init, BatchTimed, NoBatch
<1>2. IInv /\ BatchTimed /\ [Next]_vars => BatchTimed'
  BY BatchTimedNext
<1>3. IInv /\ TokensApart /\ BatchTimed /\ [Next]_vars =>
        [\A w \in Active : LET u == work[w].url IN
           Held(db[u], work[w].token) /\ ~Held(db'[u], work[w].token) =>
              \/ work[w].pc # "finally" /\ work'[w].pc = "finally"
              \/ Elapsed(db[u].expires, now)]_vars
  BY LeaseLost
<1> QED  BY <1>1, <1>2, <1>3, Invariance, LeasesAreApart, PTL DEF Spec, LeasesKept

-----------------------------------------------------------------------------
(* Prompt workers: no lease ends under its holder.                         *)

Working == {w \in Active : work[w].pc # "finally"}

\* A lease that is held and has time left.
Lasts(d, u, tok, t) == Held(d[u], tok) /\ d[u].expires \in Nat /\ t < d[u].expires

\* The clock reading of a batch, and the leases granted under it, are good.
BatchLasts ==
    batch.active =>
       /\ batch.asOf <= now /\ now < batch.asOf + LeaseTtl
       /\ \A l \in batch.got : /\ Lasts(db, l.url, l.token, now)
                               /\ db[l.url].expires = batch.asOf + LeaseTtl

\* A crawl that is over has no URL left to work on, and the loop was not left early.
Ended ==
    /\ sched = "ended" => stop # "no"
    /\ DoneIsFinal

LeaseInv ==
    /\ TokensApart /\ BatchLasts /\ Ended
    /\ \A w \in Working : Lasts(db, work[w].url, work[w].token, now)

\* Only its holder's report ends a lease that has time left; only its holder's heartbeat
\* prolongs it.
LEMMA LeaseStep ==
    ASSUME IInv, [Next]_vars, NEW u \in Urls, NEW tok, Lasts(db, u, tok, now),
           batch.active => batch.asOf <= now
    PROVE  \/ Held(db'[u], tok) /\ db'[u].expires = db[u].expires
           \/ \E w \in Active : /\ work[w].token = tok
                                /\ \/ work'[w].pc = "finally"
                                   \/ Held(db'[u], tok) /\ db'[u].expires = now + LeaseTtl
<1>1. RowStep(u)
  BY StepRows
<1>2. /\ db[u].state = "In_Progress" /\ db[u].token = tok /\ db[u].expires \in Nat
      /\ now < db[u].expires /\ now \in Nat /\ batch.asOf \in Nat
      /\ sched = "acquire" => batch.asOf <= now
  BY DEF Lasts, Held, IInv, TypeOK, BatchRecord, BatchPlaced
<1>3. ~Leasable(db[u], batch.asOf) \/ sched # "acquire"
  BY <1>2 DEF Leasable, RetryDue, LeaseExpired, Elapsed
<1>4. ~LeaseExpired(db[u], now)
  BY <1>2 DEF LeaseExpired, Elapsed
<1>5. CASE Untouched(u)
  BY <1>2, <1>5 DEF Untouched, Held
<1>6. ASSUME NEW w \in Workers, Renewed(u, w)
      PROVE  /\ w \in Active /\ work[w].token = tok
             /\ Held(db'[u], tok) /\ db'[u].expires = now + LeaseTtl
  BY <1>2, <1>6 DEF Renewed, InProcess, Active, Held
<1>7. ASSUME NEW w \in Workers,
             Completed(u, w) \/ Refused(u, w) \/ GivenUp(u, w) \/ PutOff(u, w)
      PROVE  w \in Active /\ work[w].token = tok /\ work'[w].pc = "finally"
  <2>1. work[w].token = tok /\ (CompleteUrl(w) \/ FailUrl(w) \/ RescheduleUrl(w))
    BY <1>2, <1>7 DEF Completed, Refused, GivenUp, PutOff, Held
  <2>2. w \in Active /\ Reporting(w) /\ TypeOK
    BY <2>1 DEF CompleteUrl, FailUrl, RescheduleUrl, Active, IInv
  <2> QED  BY <2>1, <2>2, ReportingJob
<1> QED
  BY <1>1, <1>2, <1>3, <1>4, <1>5, <1>6, <1>7 DEF RowStep, Added, Linked, Freed, Taken, Exists

\* The clock: with prompt workers it passes no end of a lease.
LEMMA ClockStep ==
    ASSUME PromptWorkers, [Next]_vars
    PROVE  \/ now' = now
           \/ Patient /\ now' = now + 1 /\ UNCHANGED <<db, sched, batch, work, interrupts>>
<1>1. CASE Scheduler
  BY <1>1 DEF Scheduler, Start, Resume, ExpireLeases, SkipExpire, NoSlot, SlotFreed, AcquireSelect,
              AcquireUpdate, Dispatch, CheckComplete, Wake, LeaveLoop, Exit
<1>2. CASE \E w \in Workers : Worker(w) \/ Heartbeat(w)
  BY <1>2 DEF Worker, FetchDone, Process, EnqueueDiscovered, HandleRedirect, CompleteUrl, FailUrl,
              ReadRetryCount, RescheduleUrl, Finally, Heartbeat
<1>3. CASE Stop \/ Tick \/ Crash \/ Exited \/ UNCHANGED vars
  BY <1>3 DEF Stop, RequestStop, Drained, CloseStore, Tick, Crash, Exited, vars
<1> QED  BY <1>1, <1>2, <1>3 DEF Next

\* What a worker is at lasts: it was at it before, or the batch had it.
LEMMA WorkingLasts ==
    ASSUME PromptWorkers, IInv, LeaseInv, [Next]_vars, NEW w \in Working'
    PROVE  Lasts(db', work'[w].url, work'[w].token, now')
<1>1. w \in Workers /\ now \in Nat /\ LeaseTtl \in Nat \ {0}
  BY ConfigAssumption DEF Working, Active, IInv, TypeOK
<1>2. CASE Dispatch
  <2>1. PICK slot \in [(IF stop = "no" THEN batch.got ELSE {}) -> Workers \ Active] :
              /\ \A l \in DOMAIN slot : /\ work'[slot[l]].pc = "fetch"
                                        /\ work'[slot[l]].url = l.url
                                        /\ work'[slot[l]].token = l.token
              /\ \A v \in Workers : (\A l \in DOMAIN slot : slot[l] # v) => work'[v] = work[v]
    BY <1>2, DispatchGives
  <2>2. DOMAIN slot \subseteq batch.got /\ batch.active /\ db' = db /\ now' = now
    BY <1>2 DEF Dispatch, IInv, BatchPlaced
  <2>3. CASE \E l \in DOMAIN slot : slot[l] = w
    BY <2>1, <2>2, <2>3 DEF LeaseInv, BatchLasts
  <2>4. CASE \A l \in DOMAIN slot : slot[l] # w
    BY <1>1, <2>1, <2>2, <2>4 DEF LeaseInv, Working, Active
  <2> QED  BY <2>3, <2>4
<1>3. CASE ~Dispatch
  <2> DEFINE u == work[w].url
             tok == work[w].token
  <2>1. w \in Working /\ work'[w].url = u /\ work'[w].token = tok /\ work'[w].pc # "finally"
    BY <1>1, <1>3, StepKeeps DEF Working, Active, Kept, GoesOn
  <2>2. Lasts(db, u, tok, now) /\ u \in Urls
    BY <2>1 DEF LeaseInv, Working, Active, IInv, TaskInv, TaskPlaced
  <2>3. CASE now' = now
    <3>1. batch.active => batch.asOf <= now
      BY DEF LeaseInv, BatchLasts
    <3>2. \A v \in Active : work[v].token = tok => v = w
      BY <2>1 DEF LeaseInv, TokensApart, Working
    <3>3. Held(db'[u], tok) /\ db'[u].expires \in {db[u].expires, now + LeaseTtl}
      BY <2>1, <2>2, <3>1, <3>2, LeaseStep
    <3>4. db[u].expires \in Nat /\ now < db[u].expires
      BY <2>2 DEF Lasts
    <3> QED  BY <1>1, <2>1, <2>3, <3>3, <3>4 DEF Lasts
  <2>4. CASE Patient /\ now' = now + 1 /\ db' = db
    <3>1. ~Elapsed(db[u].expires, now + 1)
      BY <2>1, <2>2, <2>4 DEF Patient, Working, Lasts
    <3>2. Held(db[u], tok) /\ db[u].expires \in Nat
      BY <2>2 DEF Lasts
    <3>3. db[u].expires # Null
      BY <3>2, NullAssumption
    <3> QED  BY <1>1, <2>1, <2>4, <3>1, <3>2, <3>3 DEF Lasts, Elapsed
  <2> QED  BY <2>3, <2>4, ClockStep
<1> QED  BY <1>2, <1>3

\* What the batch has granted lasts, the lease it grants in this step included.
LEMMA BatchLastsNext ==
    ASSUME PromptWorkers, IInv, LeaseInv, [Next]_vars
    PROVE  BatchLasts'
<1>1. now \in Nat /\ LeaseTtl \in Nat \ {0} /\ batch.asOf \in Nat /\ batch.got \subseteq LeaseRecord
  BY ConfigAssumption DEF IInv, TypeOK, BatchRecord
<1>2. CASE Patient /\ now' = now + 1 /\ UNCHANGED <<db, batch>>
  BY <1>1, <1>2 DEF LeaseInv, BatchLasts, Lasts, Patient
<1>3. ASSUME now' = now, batch.active, NEW l \in batch.got
      PROVE  Lasts(db', l.url, l.token, now) /\ db'[l.url].expires = batch.asOf + LeaseTtl
  <2>1. /\ Lasts(db, l.url, l.token, now) /\ db[l.url].expires = batch.asOf + LeaseTtl
        /\ l.url \in Urls /\ batch.asOf <= now /\ now < batch.asOf + LeaseTtl
    BY <1>1, <1>3 DEF LeaseInv, BatchLasts, LeaseRecord
  <2>2. \A w \in Active : work[w].token # l.token
    BY DEF LeaseInv, TokensApart
  <2>3. Held(db'[l.url], l.token) /\ db'[l.url].expires = db[l.url].expires
    BY <2>1, <2>2, LeaseStep
  <2> QED  BY <1>1, <2>1, <2>3 DEF Lasts
<1>4. CASE now' = now /\ batch' = batch
  BY <1>3, <1>4 DEF LeaseInv, BatchLasts
<1>5. CASE batch' = NoBatch
  BY <1>5 DEF BatchLasts, NoBatch
<1>6. CASE AcquireSelect /\ batch'.active /\ batch'.asOf = now /\ batch'.got = {}
  BY <1>1, <1>6 DEF AcquireSelect, BatchLasts
<1>7. CASE /\ AcquireUpdate /\ batch'.active = batch.active /\ batch'.asOf = batch.asOf
           /\ batch'.got = IF db' # db
                           THEN batch.got \cup {[url |-> Head(batch.todo), token |-> FreshToken]}
                           ELSE batch.got
  <2> DEFINE u == Head(batch.todo)
  <2>1. /\ now' = now /\ batch.active /\ db \in Table /\ u \in Urls
        /\ db' = Lease(db, u, FreshToken, batch.asOf + LeaseTtl, batch.asOf)
    BY <1>7 DEF AcquireUpdate, IInv, TypeOK, BatchRecord, BatchPlaced
  <2>2. batch.asOf <= now /\ now < batch.asOf + LeaseTtl
    BY <2>1 DEF LeaseInv, BatchLasts
  <2>3. db' # db => /\ Lasts(db', u, FreshToken, now)
                    /\ db'[u].expires = batch.asOf + LeaseTtl
    <3>1. db' # db => /\ db'[u].state = "In_Progress" /\ db'[u].token = FreshToken
                      /\ db'[u].expires = batch.asOf + LeaseTtl
      BY <2>1, LeaseRows
    <3> QED  BY <1>1, <2>2, <3>1 DEF Lasts, Held
  <2>4. \A l \in batch'.got : \/ l \in batch.got
                              \/ db' # db /\ l.url = u /\ l.token = FreshToken
    BY <1>7
  <2>5. \A l \in batch'.got : /\ Lasts(db', l.url, l.token, now)
                              /\ db'[l.url].expires = batch.asOf + LeaseTtl
    BY <1>3, <2>1, <2>3, <2>4
  <2> QED  BY <1>7, <2>1, <2>2, <2>5 DEF BatchLasts
<1> QED  BY <1>2, <1>4, <1>5, <1>6, <1>7, ClockStep, StepBatch

\* The loop ends with nothing open, or because somebody calls stop.
LEMMA EndedNext ==
    ASSUME IInv, LeaseInv, [Next]_vars
    PROVE  Ended'
<1>1. sched' = "ended" => stop' # "no"
  <2>1. sched = "ended" => stop # "no"
    BY DEF LeaseInv, Ended
  <2>2. CASE Scheduler
    BY <2>1, <2>2 DEF Scheduler, Start, Resume, ExpireLeases, SkipExpire, NoSlot, SlotFreed,
       AcquireSelect, AcquireUpdate, Dispatch, CheckComplete, Wake, LeaveLoop, Exit, interrupts
  <2>3. CASE \E w \in Workers : Worker(w) \/ Heartbeat(w)
    BY <2>1, <2>3 DEF Worker, FetchDone, Process, EnqueueDiscovered, HandleRedirect, CompleteUrl,
       FailUrl, ReadRetryCount, RescheduleUrl, Finally, Heartbeat, interrupts
  <2>4. CASE Stop \/ Tick \/ Crash \/ Exited \/ UNCHANGED vars
    BY <2>1, <2>4 DEF Stop, RequestStop, Drained, CloseStore, Tick, Crash, Exited, vars, interrupts
  <2> QED  BY <2>2, <2>3, <2>4 DEF Next
<1>2. ASSUME sched' \in {"done", "exited"}, NEW u \in Urls
      PROVE  db'[u].state \notin Open
  <2>1. CASE CheckComplete /\ \A v \in Urls : db[v].state \notin Processable
    BY <2>1 DEF CheckComplete, Processable, Open
  <2>2. CASE sched = "ended" /\ Exit
    BY <1>2, <2>2 DEF LeaseInv, Ended, Exit
  <2>3. CASE sched \in {"done", "exited"}
    <3>1. \A v \in Urls : db[v].state \notin Open
      BY <2>3 DEF LeaseInv, Ended, DoneIsFinal
    <3>2. Working = {}
      <4> SUFFICES ASSUME NEW w \in Working PROVE FALSE
        OBVIOUS
      <4>1. db[work[w].url].state = "In_Progress" /\ work[w].url \in Urls
        BY DEF LeaseInv, Lasts, Held, Working, Active, IInv, TaskInv, TaskPlaced
      <4> QED  BY <3>1, <4>1 DEF Open
    <3>3. RowStep(u)
      BY StepRows
    <3>4. \A w \in Workers : ~Linked(u, w)
      BY <3>2 DEF Working, Active, Linked
    <3> QED
      BY <2>3, <3>1, <3>3, <3>4 DEF RowStep, Untouched, Added, Freed, Taken, Renewed, Completed,
         Refused, GivenUp, PutOff, Held, Open, LeaseExpired
  <2> QED  BY <1>2, <2>1, <2>2, <2>3, EndStep
<1> QED  BY <1>1, <1>2 DEF Ended, DoneIsFinal

LEMMA LeasesHold ==
    ASSUME PromptWorkers
    PROVE  Spec => []LeaseInv
<1>1. Init => LeaseInv
  BY DEF Init, LeaseInv, TokensApart, BatchLasts, Ended, DoneIsFinal, Working, Active, Idle, NoBatch
<1>2. IInv /\ LeaseInv /\ [Next]_vars => LeaseInv'
  BY TokensApartNext, BatchLastsNext, EndedNext, WorkingLasts DEF LeaseInv
<1> QED  BY <1>1, <1>2, Invariance, PTL DEF Spec

\* When run() finds no processable URL none will come, if no lease runs out under a
\* worker: one that could still enqueue one would hold a lease, and its URL would be in progress.
THEOREM TheEndIsFinal ==
    ASSUME PromptWorkers
    PROVE  Spec => []DoneIsFinal
<1>1. LeaseInv => DoneIsFinal
  BY DEF LeaseInv, Ended
<1> QED  BY <1>1, LeasesHold, PTL

-----------------------------------------------------------------------------
(* The crawl uses the store through its operations.                        *)

\* The leases the crawl has not let go of.
Leases == {[url |-> work[w].url, token |-> work[w].token] : w \in Active}

\* The reports and the other one-statement operations are those of the store: its
\* instance defines them over the same rows.
LEMMA SameStatements ==
    ASSUME NEW d, NEW u, NEW tok, NEW at, NEW n, NEW parent, NEW body
    PROVE  /\ Store!Insert(d, u, at, parent, n) = Insert(d, u, at, parent, n)
           /\ Store!InsertFails(d, u, parent) = InsertFails(d, u, parent)
           /\ Store!Renew(d, u, tok, at) = Renew(d, u, tok, at)
           /\ Store!Expire(d, at) = Expire(d, at)
           /\ Store!Complete(d, u, tok, body) = Complete(d, u, tok, body)
           /\ Store!Reschedule(d, u, tok, n, at) = Reschedule(d, u, tok, n, at)
           /\ Store!FailTerminally(d, u, tok) = FailTerminally(d, u, tok)
           /\ Store!Fail(d, u, tok) = Fail(d, u, tok)
           /\ Store!ReplaceMetadata(d, u, body) = ReplaceMetadata(d, u, body)
<1> USE DEF Store!Exists, Exists, Store!Held, Held, Store!Release, Release, Store!NoRow, NoRow
<1>1. Store!Insert(d, u, at, parent, n) = Insert(d, u, at, parent, n)
  BY DEF Store!Insert, Insert
<1>2. Store!InsertFails(d, u, parent) = InsertFails(d, u, parent)
  BY DEF Store!InsertFails, InsertFails
<1>3. Store!Renew(d, u, tok, at) = Renew(d, u, tok, at)
  BY DEF Store!Renew, Renew
<1>4. Store!Expire(d, at) = Expire(d, at)
  BY DEF Store!Expire, Expire, Store!LeaseExpired, LeaseExpired, Store!Elapsed, Elapsed
<1>5. Store!Complete(d, u, tok, body) = Complete(d, u, tok, body)
  BY DEF Store!Complete, Complete
<1>6. Store!Reschedule(d, u, tok, n, at) = Reschedule(d, u, tok, n, at)
  BY DEF Store!Reschedule, Reschedule
<1>7. /\ Store!FailTerminally(d, u, tok) = FailTerminally(d, u, tok)
      /\ Store!Fail(d, u, tok) = Fail(d, u, tok)
  BY DEF Store!FailTerminally, FailTerminally, Store!Fail, Fail
<1>8. Store!ReplaceMetadata(d, u, body) = ReplaceMetadata(d, u, body)
  BY DEF Store!ReplaceMetadata, ReplaceMetadata
<1> QED  BY <1>1, <1>2, <1>3, <1>4, <1>5, <1>6, <1>7, <1>8

\* So are those of acquire_lease_batch, and the empty table and batch.
LEMMA SameAcquisition ==
    ASSUME NEW d, NEW u, NEW tok, NEW at, NEW t, NEW n
    PROVE  /\ Store!Lease(d, u, tok, at, t) = Lease(d, u, tok, at, t)
           /\ Store!Candidates(d, t, n) = Candidates(d, t, n)
           /\ Store!NoBatch = NoBatch /\ Store!EmptyTable = EmptyTable
<1>1. \A r : Store!Leasable(r, t) = Leasable(r, t)
  BY DEF Store!Leasable, Leasable, Store!LeaseExpired, LeaseExpired, Store!RetryDue, RetryDue,
         Store!Elapsed, Elapsed
<1>2. Store!Lease(d, u, tok, at, t) = Lease(d, u, tok, at, t)
  BY <1>1 DEF Store!Lease, Lease
<1>3. \A r, q : Store!NoLater(r, q) = NoLater(r, q)
  BY DEF Store!NoLater, NoLater, Store!Tier, Tier
<1>4. \A S : Store!Cardinality(S) = Cardinality(S)
  BY DEF Store!Cardinality, Cardinality
<1>5. Store!Candidates(d, t, n) = Candidates(d, t, n)
  BY <1>1, <1>3, <1>4 DEF Store!Candidates, Candidates
<1>6. Store!NoBatch = NoBatch /\ Store!EmptyTable = EmptyTable
  BY DEF Store!NoBatch, NoBatch, Store!EmptyTable, EmptyTable, Store!NoRow, NoRow
<1> QED  BY <1>2, <1>5, <1>6

\* The leases stay when every task keeps its own.
LEMMA SameLeases ==
    ASSUME \A w \in Workers : /\ work[w].pc = "idle" <=> work'[w].pc = "idle"
                              /\ work[w].pc # "idle" => GoesOn(w)
    PROVE  Leases' = Leases
BY DEF Leases, Active, GoesOn

\* A step of the scheduler but for dispatch.
LEMMA SchedulerUses ==
    ASSUME IInv, Scheduler, ~Dispatch
    PROVE  Store!Next \/ UNCHANGED Store!vars
<1>1. TypeOK /\ BatchPlaced /\ now \in 0 .. now /\ now - now <= 0
  BY DEF IInv, TypeOK
<1>2. CASE Start \/ Resume
  <2>1. db' = Insert(db, Seed, 0, Null, 0) /\ UNCHANGED <<now, batch, work>> /\ Seed \in Urls
    BY <1>2, SiteAssumption DEF Start, Resume
  <2>2. ~InsertFails(db, Seed, Null)
    BY DEF InsertFails
  <2>3. Leases' = Leases
    BY <2>1 DEF Leases, Active
  <2>4. Store!Enqueue(Seed, 0, Null, 0)
    BY <2>1, <2>2, <2>3, SameStatements DEF Store!Enqueue, Store!Execute, Leases
  <2>5. 0 \in 0 .. MaxDepth /\ 0 \in 0 .. MaxRedirects
    BY ConfigAssumption
  <2> QED  BY <2>1, <2>4, <2>5 DEF Store!Next
<1>3. CASE ExpireLeases
  <2>1. db' = Expire(db, now) /\ UNCHANGED <<now, batch, work>>
    BY <1>3 DEF ExpireLeases
  <2>2. Leases' = Leases
    BY <2>1 DEF Leases, Active
  <2>3. Store!ExpireLeases
    BY <1>1, <2>1, <2>2, SameStatements
       DEF Store!ExpireLeases, Store!Execute, Store!ClockReadings, Leases
  <2> QED  BY <2>3 DEF Store!Next
<1>4. CASE AcquireSelect
  <2> DEFINE limit == IF FreeSlots < BatchSize THEN FreeSlots ELSE BatchSize
  <2>1. UNCHANGED <<db, now, work>> /\ Active # Workers /\ batch = NoBatch
    BY <1>1, <1>4 DEF AcquireSelect, BatchPlaced
  <2>2. Leases' = Leases
    BY <2>1 DEF Leases, Active
  <2>3. limit \in 1 .. BatchSize
    BY <2>1, FreeSlotsType, ConfigAssumption
  <2>4. PICK todo \in Candidates(db, now, limit) :
           \/ todo = <<>> /\ UNCHANGED batch
           \/ todo # <<>> /\ batch' = [active |-> TRUE, asOf |-> now, todo |-> todo, got |-> {}]
    BY <1>4 DEF AcquireSelect
  <2> HIDE DEF limit
  <2>5. CASE todo = <<>> /\ UNCHANGED batch
    BY <2>1, <2>2, <2>5 DEF Store!vars, Leases
  <2>6. CASE todo # <<>> /\ batch' = [active |-> TRUE, asOf |-> now, todo |-> todo, got |-> {}]
    <3>1. todo \in Store!Candidates(db, now, limit)
      BY <2>4, SameAcquisition
    <3>2. Store!AcquireSelect(limit)
      BY <1>1, <2>1, <2>2, <2>6, <3>1
         DEF Store!AcquireSelect, Store!ClockReadings, Leases, NoBatch
    <3> QED  BY <2>3, <3>2 DEF Store!Next
  <2> QED  BY <2>4, <2>5, <2>6
<1>5. CASE AcquireUpdate
  <2> DEFINE u == Head(batch.todo)
  <2>1. PICK tok \in Tokens : tok = FreshToken /\ Unused(tok)
    BY <1>5, FreshTokenUnused
  <2>2. /\ batch.active /\ batch.todo # <<>> /\ UNCHANGED <<now, work>>
        /\ u \in Urls /\ db \in Table
        /\ db' = Lease(db, u, tok, batch.asOf + LeaseTtl, batch.asOf)
        /\ batch' = [batch EXCEPT
              !.todo = Tail(@),
              !.got  = IF db' # db THEN @ \cup {[url |-> u, token |-> tok]} ELSE @]
    BY <1>1, <1>5, <2>1 DEF AcquireUpdate, TypeOK, BatchRecord, BatchPlaced
  <2>3. Leases' = Leases
    BY <2>2 DEF Leases, Active
  <2>4. tok \in Tokens \ Store!InUse
    BY <2>1 DEF Store!InUse, Unused, Active
  <2>5. db' # db <=> db'[u].token = tok
    BY <2>1, <2>2, LeaseRows DEF Unused
  <2>6. Store!Execute(Store!Lease(db, u, tok, batch.asOf + LeaseTtl, batch.asOf))
    BY <2>2, SameAcquisition DEF Store!Execute
  <2>7. Store!AcquireUpdate(tok)
    BY <2>2, <2>3, <2>4, <2>5, <2>6 DEF Store!AcquireUpdate, Leases
  <2> QED  BY <2>7 DEF Store!Next
<1>6. CASE SkipExpire \/ NoSlot \/ SlotFreed \/ CheckComplete \/ Wake
  <2>1. UNCHANGED <<db, now, batch, work>>
    BY <1>6 DEF SkipExpire, NoSlot, SlotFreed, CheckComplete, Wake
  <2>2. Leases' = Leases
    BY <2>1 DEF Leases, Active
  <2> QED  BY <2>1, <2>2 DEF Store!vars, Leases
<1>7. CASE LeaveLoop
  <2>1. UNCHANGED <<db, now, work>> /\ batch' = NoBatch
    BY <1>7 DEF LeaveLoop
  <2>2. Leases' = Leases
    BY <2>1 DEF Leases, Active
  <2>3. CASE sched # "acquire"
    BY <1>1, <2>1, <2>2, <2>3 DEF BatchPlaced, Store!vars, Leases
  <2>4. CASE sched = "acquire"
    <3>1. Active = {}
      BY <1>7, <2>4 DEF LeaveLoop, IInv, StoreOutlivesWorkers
    <3>2. Leases' = {}
      BY <2>2, <3>1 DEF Leases
    <3>3. Store!Crash
      BY <2>1, <3>2, SameAcquisition DEF Store!Crash, Leases
    <3> QED  BY <3>3 DEF Store!Next
  <2> QED  BY <2>3, <2>4
<1>8. CASE Exit
  <2>1. /\ UNCHANGED <<db, now, batch>> /\ batch = NoBatch
        /\ work' = [w \in Workers |-> Idle]
    BY <1>1, <1>8 DEF Exit, BatchPlaced
  <2>2. Leases' = {}
    BY <2>1 DEF Leases, Active, Idle
  <2>3. Store!Crash
    BY <2>1, <2>2, SameAcquisition DEF Store!Crash, Leases
  <2> QED  BY <2>3 DEF Store!Next
<1> QED  BY <1>2, <1>3, <1>4, <1>5, <1>6, <1>7, <1>8 DEF Scheduler

\* dispatch returns the leases to their workers, or drops them.
LEMMA DispatchUses ==
    ASSUME IInv, Dispatch
    PROVE  Store!Next
<1> DEFINE given == IF stop = "no" THEN batch.got ELSE {}
<1>1. /\ batch.active /\ batch.todo = <<>> /\ UNCHANGED <<db, now>> /\ batch' = NoBatch
      /\ batch.got \subseteq LeaseRecord /\ given \subseteq batch.got
  BY DEF Dispatch, IInv, TypeOK, BatchRecord, BatchPlaced
<1>2. PICK slot \in [given -> Workers \ Active] :
              /\ \A l \in DOMAIN slot : /\ work'[slot[l]].pc = "fetch"
                                        /\ work'[slot[l]].url = l.url
                                        /\ work'[slot[l]].token = l.token
              /\ \A w \in Workers : (\A l \in DOMAIN slot : slot[l] # w) => work'[w] = work[w]
  BY DispatchGives
<1> HIDE DEF given
<1>3. \A l \in given : /\ slot[l] \in Workers \ Active /\ work'[slot[l]].pc = "fetch"
                       /\ [url |-> work'[slot[l]].url, token |-> work'[slot[l]].token] = l
  BY <1>1, <1>2 DEF LeaseRecord
<1>4. \A w \in Workers : \/ \E l \in given : slot[l] = w
                         \/ work'[w] = work[w]
  BY <1>2
<1>5. Leases' \subseteq Leases \cup given
  BY <1>3, <1>4 DEF Leases, Active
<1>6. Leases \cup given \subseteq Leases'
  <2>1. ASSUME NEW l \in given PROVE l \in Leases'
    BY <1>3, <2>1 DEF Leases, Active
  <2>2. ASSUME NEW w \in Active
        PROVE  [url |-> work[w].url, token |-> work[w].token] \in Leases'
    <3>1. w \in Workers /\ work'[w] = work[w]
      BY <1>3, <1>4, <2>2 DEF Active
    <3> QED  BY <2>2, <3>1 DEF Leases, Active
  <2>3. Leases \subseteq Leases'
    BY <2>2 DEF Leases
  <2> QED  BY <2>1, <2>3
<1>7. Store!AcquireCommit
  BY <1>1, <1>5, <1>6, SameAcquisition DEF Store!AcquireCommit, Leases
<1> QED  BY <1>7 DEF Store!Next

\* A step of a worker or its heartbeat, under the lease it was handed.
LEMMA WorkerUses ==
    ASSUME IInv, TokensApart, NEW w \in Workers, Worker(w) \/ Heartbeat(w)
    PROVE  Store!Next \/ UNCHANGED Store!vars
<1> DEFINE u == work[w].url
           tok == work[w].token
           l == [url |-> u, token |-> tok]
<1>1. /\ TypeOK /\ TaskInv(w) /\ TaskPlaced(w) /\ UNCHANGED <<now, batch>>
      /\ now \in 0 .. now /\ now - now <= 0
  <2>1. TypeOK /\ TaskInv(w) /\ TaskPlaced(w)
    BY DEF IInv, TaskInv
  <2>2. now \in 0 .. now /\ now - now <= 0
    BY <2>1 DEF TypeOK
  <2>3. UNCHANGED <<now, batch>>
    BY DEF Worker, FetchDone, Process, EnqueueDiscovered, HandleRedirect, CompleteUrl, FailUrl,
           ReadRetryCount, RescheduleUrl, Finally, Heartbeat
  <2> QED  BY <2>1, <2>2, <2>3
<1>2. Alone(w) /\ Kept(w) /\ w \in Active /\ u \in Urls /\ Exists(db, u)
  BY <1>1, WorkerKeeps DEF Active, TaskPlaced
<1>3. l \in Leases /\ l.url = u /\ l.token = tok
  BY <1>2 DEF Leases
<1>4. work'[w].pc # "idle" => Leases' = Leases
  BY <1>2, SameLeases DEF Alone, Kept, GoesOn, Active
<1> HIDE DEF l
<1>5. CASE FetchDone(w) \/ ReadRetryCount(w)
  <2>1. db' = db /\ work'[w].pc # "idle"
    BY <1>1, <1>5, FetchDoneJob, ReadJob DEF FetchDone, ReadRetryCount
  <2> QED  BY <1>1, <1>4, <2>1 DEF Store!vars, Leases
<1>6. CASE Process(w)
  <2>1. /\ work'[w].pc # "idle" /\ work[w].body \in Bodies
        /\ db' = db \/ db' = ReplaceMetadata(db, u, work[w].body)
    BY <1>1, <1>6, ProcessJob DEF Process, TaskInv, TaskFollows
  <2>2. CASE db' = db
    BY <1>1, <1>4, <2>1, <2>2 DEF Store!vars, Leases
  <2>3. CASE db' = ReplaceMetadata(db, u, work[w].body)
    <3>1. Store!StoreMetadata(l, work[w].body)
      BY <1>1, <1>3, <1>4, <2>1, <2>3, SameStatements
         DEF Store!StoreMetadata, Store!Execute, Leases
    <3> QED  BY <1>3, <2>1, <3>1 DEF Store!Next, Leases
  <2> QED  BY <2>1, <2>2, <2>3
<1>7. CASE EnqueueDiscovered(w)
  <2> DEFINE depth == db[u].depth + 1
  <2>1. PICK v \in work[w].todo :
           /\ db' = IF Passes(v, depth) THEN Insert(db, v, depth, Null, 0) ELSE db
           /\ work' = [work EXCEPT ![w].todo = @ \ {v}]
    BY <1>7 DEF EnqueueDiscovered
  <2>2. v \in Urls /\ depth \in Nat /\ work'[w].pc # "idle"
    BY <1>1, <1>2, <1>7, <2>1, EnqueueJob DEF EnqueueDiscovered, TypeOK, Job, Table, Row
  <2> HIDE DEF depth
  <2>3. CASE ~Passes(v, depth)
    BY <1>1, <1>4, <2>1, <2>2, <2>3 DEF Store!vars, Leases
  <2>4. CASE Passes(v, depth)
    <3>1. depth \in 0 .. MaxDepth /\ 0 \in 0 .. MaxRedirects
      BY <2>2, <2>4, ConfigAssumption DEF Passes
    <3>2. ~InsertFails(db, v, Null)
      BY DEF InsertFails
    <3>3. Store!Enqueue(v, depth, Null, 0)
      BY <1>1, <1>4, <2>1, <2>2, <2>4, <3>2, SameStatements
         DEF Store!Enqueue, Store!Execute, Leases
    <3> QED  BY <2>2, <3>1, <3>3 DEF Store!Next
  <2> QED  BY <2>3, <2>4
<1>8. CASE HandleRedirect(w)
  <2> DEFINE v == Target[u]
             depth == db[u].depth
             n == db[u].redirects + 1
  <2>1. /\ work[w].pc = "redirect" /\ v \in Urls /\ depth \in Nat /\ n \in Nat /\ n # 0
    BY <1>1, <1>2, <1>8, SiteAssumption DEF HandleRedirect, TypeOK, Table, Row
  <2>2. work'[w].pc # "idle"
    BY <1>1, <1>8, ReturnJob, GotoJob DEF HandleRedirect, Pcs, Kinds, Answers
  <2>3. CASE db' = db
    BY <1>1, <1>4, <2>2, <2>3 DEF Store!vars, Leases
  <2>4. CASE /\ Passes(v, depth) /\ ~Exists(db, v) /\ ~ChainTooLong(u)
             /\ ~InsertFails(db, v, AsFound(u)) /\ db' = Insert(db, v, depth, AsFound(u), n)
    <3>1. AsFound(u) \in Urls \cup {Null}
      BY <2>4 DEF InsertFails
    <3>2. db[u].redirects \in Nat /\ db[u].redirects < MaxRedirects
      BY <1>1, <1>2, <2>4, ConfigAssumption DEF ChainTooLong, TypeOK, Table, Row
    <3>3. n \in 0 .. MaxRedirects /\ depth \in 0 .. MaxDepth
      BY <2>1, <2>4, <3>2, ConfigAssumption DEF Passes
    <3>4. Store!Enqueue(v, depth, AsFound(u), n)
      BY <1>1, <1>4, <2>2, <2>4, SameStatements DEF Store!Enqueue, Store!Execute, Leases
    <3> QED  BY <2>1, <3>1, <3>3, <3>4 DEF Store!Next
  <2> QED  BY <1>8, <2>3, <2>4 DEF HandleRedirect
<1>9. CASE CompleteUrl(w)
  <2>1. /\ db' = Complete(db, u, tok, work[w].body) /\ Reporting(w)
        /\ work[w].body \in Bodies \cup {Null}
    BY <1>1, <1>9 DEF CompleteUrl, TypeOK, Job
  <2>2. work'[w].pc # "idle"
    BY <1>1, <2>1, ReportingJob
  <2>3. Store!MarkCompleted(l, work[w].body)
    BY <1>1, <1>3, <1>4, <2>1, <2>2, SameStatements
       DEF Store!MarkCompleted, Store!Execute, Leases
  <2>4. Store!Report(l)
    BY <2>1, <2>3 DEF Store!Report
  <2> QED  BY <1>3, <2>4 DEF Store!Next, Leases
<1>10. CASE FailUrl(w)
  <2>1. db' = FailTerminally(db, u, tok) /\ Reporting(w)
    BY <1>10 DEF FailUrl
  <2>2. work'[w].pc # "idle"
    BY <1>1, <2>1, ReportingJob
  <2>3. Store!MarkTerminalFailed(l)
    BY <1>1, <1>3, <1>4, <2>1, <2>2, SameStatements
       DEF Store!MarkTerminalFailed, Store!Execute, Leases
  <2>4. Store!Report(l)
    BY <2>3 DEF Store!Report
  <2> QED  BY <1>3, <2>4 DEF Store!Next, Leases
<1>11. CASE RescheduleUrl(w)
  <2> DEFINE attempt == work[w].attempt
             delay == RetryDelay(attempt)
  <2>1. Reporting(w) /\ attempt \in Nat \ {0}
    BY <1>1, <1>11 DEF RescheduleUrl, TaskInv, TaskCounts
  <2>2. work'[w].pc # "idle"
    BY <1>1, <2>1, ReportingJob
  <2>3. CASE Exhausted(attempt)
    <3>1. db' = Fail(db, u, tok)
      BY <1>11, <2>3 DEF RescheduleUrl
    <3>2. Store!MarkFailed(l)
      BY <1>1, <1>3, <1>4, <2>2, <3>1, SameStatements
         DEF Store!MarkFailed, Store!Execute, Leases
    <3>3. Store!Report(l)
      BY <3>2 DEF Store!Report
    <3> QED  BY <1>3, <3>3 DEF Store!Next, Leases
  <2>4. CASE ~Exhausted(attempt)
    <3>1. db' = Reschedule(db, u, tok, attempt, now + delay)
      BY <1>11, <2>4 DEF RescheduleUrl
    <3>2. attempt \in 1 .. MaxRetries
      BY <2>1, <2>4, ConfigAssumption DEF Exhausted
    <3>3. delay \in {RetryDelay(n) : n \in 1 .. MaxRetries}
      BY <3>2
    <3> HIDE DEF delay
    <3>4. Store!MarkRetry(l, attempt, delay)
      BY <1>1, <1>3, <1>4, <2>2, <3>1, SameStatements
         DEF Store!MarkRetry, Store!Execute, Store!ClockReadings, Leases
    <3>5. Store!Report(l)
      BY <3>2, <3>3, <3>4 DEF Store!Report
    <3> QED  BY <1>3, <3>5 DEF Store!Next, Leases
  <2> QED  BY <2>3, <2>4
<1>12. CASE Finally(w)
  <2>1. db' = db /\ work'[w] = Idle
    BY <1>1, <1>12 DEF Finally, TypeOK
  <2>2. Active' = Active \ {w}
    BY <1>2, <2>1 DEF Active, Alone, Idle
  <2>3. Leases' = {[url |-> work[v].url, token |-> work[v].token] : v \in Active \ {w}}
    BY <1>2, <2>2 DEF Leases, Alone, Active
  <2>4. \A v \in Active \ {w} : [url |-> work[v].url, token |-> work[v].token] # l
    BY <1>2, <1>3 DEF TokensApart
  <2>5. Leases' = Leases \ {l}
    BY <2>3, <2>4 DEF Leases, l
  <2>6. \E k \in Leases : Store!Forget(k)
    BY <1>1, <1>3, <2>1, <2>5 DEF Store!Forget, Leases
  <2> QED  BY <2>6 DEF Store!Next, Leases
<1>13. CASE Heartbeat(w)
  <2>1. db' = Renew(db, u, tok, now + LeaseTtl) /\ work'[w].pc # "idle"
    BY <1>1, <1>13, HeartbeatJob DEF Heartbeat, InProcess
  <2>2. Store!RenewLease(l)
    BY <1>1, <1>3, <1>4, <2>1, SameStatements
       DEF Store!RenewLease, Store!Execute, Store!ClockReadings, Leases
  <2> QED  BY <1>3, <2>2 DEF Store!Next, Leases
<1> QED
  BY <1>5, <1>6, <1>7, <1>8, <1>9, <1>10, <1>11, <1>12, <1>13 DEF Worker

\* Every step of a crawl is one of the store, or none.
LEMMA StepUses ==
    ASSUME IInv, TokensApart, [Next]_vars
    PROVE  [Store!Next]_Store!vars
<1>1. CASE Scheduler
  BY <1>1, SchedulerUses, DispatchUses
<1>2. CASE \E w \in Workers : Worker(w) \/ Heartbeat(w)
  BY <1>2, WorkerUses
<1>3. CASE Stop \/ Exited \/ UNCHANGED vars
  <2>1. UNCHANGED <<db, now, batch, work>>
    BY <1>3 DEF Stop, RequestStop, Drained, CloseStore, Exited, vars
  <2> QED  BY <2>1 DEF Store!vars, Active
<1>4. CASE Tick
  <2>1. now < MaxNow /\ now' = now + 1 /\ UNCHANGED <<db, batch, work>>
    BY <1>4 DEF Tick
  <2>2. Store!Tick
    BY <2>1 DEF Store!Tick, Active
  <2> QED  BY <2>2 DEF Store!Next
<1>5. CASE Crash
  <2>1. UNCHANGED <<db, now>> /\ batch' = NoBatch /\ work' = [w \in Workers |-> Idle]
    BY <1>5 DEF Crash
  <2>2. Active' = {}
    BY <2>1 DEF Active, Idle
  <2>3. Store!Crash
    BY <2>1, <2>2, SameAcquisition DEF Store!Crash
  <2> QED  BY <2>3 DEF Store!Next
<1> QED  BY <1>1, <1>2, <1>3, <1>4, <1>5 DEF Next

\* The crawl uses the store through its operations alone, each with a lease its worker
\* was handed and has not let go of: what MetadataStore promises of any such caller
\* holds of the crawl.
THEOREM StoreIsUsed == Spec => UsesStore
<1>1. Init => Store!Init
  BY SameAcquisition DEF Init, Store!Init, Active, Idle
<1> QED  BY <1>1, StepUses, LeasesAreApart, Invariance, PTL DEF Spec, UsesStore, Store!Spec

=============================================================================
