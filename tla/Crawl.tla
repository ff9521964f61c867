------------------------------- MODULE Crawl --------------------------------
(***************************************************************************)
(* One crawl: the scheduler's run loop, the worker tasks it dispatches,    *)
(* each worker's lease heartbeat, and the metadata store between them; the *)
(* process may crash, or be stopped, and be started again on the same      *)
(* database.                                                               *)
(*                                                                         *)
(* A step is what runs between two suspensions of a coroutine, or one SQL  *)
(* statement together with its commit.  (MetadataStore separates the two   *)
(* and shows what that changes; a crash that rolls back the statements     *)
(* since the last commit leaves what a crash at that commit would, so      *)
(* keeping them apart again here would add nothing.)  Only                 *)
(* acquire_lease_batch is taken apart, statement by statement.             *)
(*                                                                         *)
(* The web site is given: what a URL may answer, where it links and where  *)
(* it redirects.  The fetch, through the rate limiter, takes any time.     *)
(***************************************************************************)
EXTENDS UrlRecords

CONSTANTS
    Seed, Links, Target, Responses,  \* the site
    Accepted,        \* URLs the filters other than depth and deduplication let pass
    RawSpelled,      \* URLs whose spelling where found is not the normalized one
    Workers,         \* one per max_concurrency
    BatchSize, LeaseTtl, MaxDepth, MaxRetries, MaxRedirects,
    HeartbeatInterval,  \* lease_timeout_ms / 2
    Second,             \* clock units in a second
    PromptHeartbeats,   \* a heartbeat runs when it is due
    PromptWorkers,      \* no worker outlives its lease
    MaxCrashes, MaxStops, MaxNow

\* What the site may answer, and what a fetch ends in besides.
Answers == {"page", "redirect", "permanent", "transient"}
Kinds   == Answers \cup {"client closed"}

ASSUME SiteAssumption ==
    /\ Seed \in Urls /\ Accepted \subseteq Urls /\ RawSpelled \subseteq Urls
    /\ Links \in [Urls -> SUBSET Urls]
    /\ Target \in [Urls -> Urls]
    /\ Responses \in [Urls -> SUBSET Answers]

ASSUME ConfigAssumption ==
    /\ IsFiniteSet(Workers) /\ Workers # {}
    /\ BatchSize \in Nat \ {0} /\ LeaseTtl \in Nat \ {0} /\ HeartbeatInterval \in Nat \ {0}
    /\ MaxDepth \in Nat /\ MaxRetries \in Nat /\ MaxRedirects \in Nat
    /\ Second \in Nat \ {0} /\ MaxCrashes \in Nat /\ MaxStops \in Nat /\ MaxNow \in Nat
    /\ PromptHeartbeats \in BOOLEAN /\ PromptWorkers \in BOOLEAN

VARIABLES
    db,       \* url_records
    now,      \* time.time()
    sched,    \* where the scheduler's run loop is
    stop,     \* where Crawler.stop is; from its first step on the flag is up
    batch,    \* its call of acquire_lease_batch
    work,     \* the worker tasks, with their heartbeats
    crashes,  \* how often the process has died
    stops     \* how often it was stopped

interrupts == <<stop, crashes, stops>>
vars == <<db, now, sched, batch, work, interrupts>>

NoBatch == [active |-> FALSE, asOf |-> 0, todo |-> <<>>, got |-> {}]

\* A free slot of the pool.
Idle == [pc |-> "idle", url |-> Null, token |-> Null, kind |-> Null, body |-> Null,
         todo |-> {}, attempt |-> 0, beats |-> 0, beatAt |-> Null]

Init ==
    /\ db = EmptyTable
    /\ now = 0
    /\ sched = "down"
    /\ stop = "no"
    /\ batch = NoBatch
    /\ work = [w \in Workers |-> Idle]
    /\ crashes = 0 /\ stops = 0

-----------------------------------------------------------------------------
(* Configuration-dependent values.                                         *)

\* compute_retry_delay: min(1.0 * 2^(attempt-1), 300.0) seconds
RetryDelay(attempt) ==
    Second * (IF attempt > 9 THEN 300 ELSE <<1, 2, 4, 8, 16, 32, 64, 128, 256>>[attempt])

\* URLFilter.passes, up to the deduplication that INSERT OR IGNORE repeats
Passes(u, depth) == u \in Accepted /\ depth <= MaxDepth

\* lease.url, which _handle_redirect records as the parent
AsFound(u) == IF u \in RawSpelled THEN <<"raw", u>> ELSE u

-----------------------------------------------------------------------------
(* Scheduler.                                                              *)

Active == {w \in Workers : work[w].pc # "idle"}

\* start, up to the first iteration: scheduler.init enqueues the seed.
Start ==
    /\ sched = "down"
    /\ db' = Insert(db, Seed, 0, Null, 0)
    /\ sched' = "top"
    /\ UNCHANGED <<now, batch, work, interrupts>>

\* resume, which needs the configuration an earlier start has stored; it calls
\* scheduler.init as well and does nothing else to url_records.
Resume ==
    /\ sched = "down" /\ Exists(db, Seed)
    /\ db' = Insert(db, Seed, 0, Null, 0)
    /\ sched' = "top"
    /\ UNCHANGED <<now, batch, work, interrupts>>

\* _maybe_expire_leases at the top of an iteration after a sleep of one poll
\* interval, or the first; an iteration after wait_for_slot may come too early.
ExpireLeases ==
    /\ sched \in {"top", "woken"} /\ stop = "no"
    /\ db' = Expire(db, now)
    /\ sched' = "slots"
    /\ UNCHANGED <<now, batch, work, interrupts>>

SkipExpire ==
    /\ sched = "woken" /\ stop = "no"
    /\ sched' = "slots"
    /\ UNCHANGED <<db, now, batch, work, interrupts>>

\* No slot: wait_for_slot.
NoSlot ==
    /\ sched = "slots" /\ Active = Workers
    /\ sched' = "wait"
    /\ UNCHANGED <<db, now, batch, work, interrupts>>

SlotFreed ==
    /\ sched = "wait" /\ Active # Workers
    /\ sched' = "woken"
    /\ UNCHANGED <<db, now, batch, work, interrupts>>

\* Mutant: the workers at work are not subtracted.
AllSlots == Cardinality(Workers)

\* available_slots
FreeSlots == Cardinality(Workers \ Active)

\* The clock reading and the SELECT, limited by the free slots.
AcquireSelect ==
    /\ sched = "slots" /\ Active # Workers /\ stop # "closed"
    /\ LET limit == IF FreeSlots < BatchSize THEN FreeSlots ELSE BatchSize
       IN  \E todo \in Candidates(db, now, limit) :
              IF todo = <<>>
              THEN sched' = "check" /\ UNCHANGED batch
              ELSE /\ sched' = "acquire"
                   /\ batch' = [active |-> TRUE, asOf |-> now, todo |-> todo, got |-> {}]
    /\ UNCHANGED <<db, now, work, interrupts>>

\* Mutant: one and the same token for every lease of a URL.
SameToken == CHOOSE tok \in Tokens : TRUE

\* In no row, task or batch.
Unused(tok) ==
    /\ \A u \in Urls : db[u].token # tok
    /\ \A w \in Workers : work[w].token # tok
    /\ \A l \in batch.got : l.token # tok

\* Which unused token makes no difference.
FreshToken == CHOOSE tok \in Tokens : Unused(tok)

\* Tokens bounds the leases in use; uuid4 does not.
AcquireUpdate ==
    /\ sched = "acquire" /\ batch.todo # <<>> /\ stop # "closed"
    /\ \E tok \in Tokens : Unused(tok)
    /\ LET u == Head(batch.todo)
           lease == [url |-> u, token |-> FreshToken]
       IN  /\ db' = Lease(db, u, lease.token, batch.asOf + LeaseTtl, batch.asOf)
           /\ batch' = [batch EXCEPT !.todo = Tail(@),
                                     !.got  = IF db' # db THEN @ \cup {lease} ELSE @]
    /\ UNCHANGED <<now, sched, work, interrupts>>

\* dispatch, for each lease a slot of its own.
Dispatched(leases) ==
    \E slot \in {f \in [leases -> Workers \ Active] :
                   \A l, k \in leases : f[l] = f[k] => l = k} :
       work' = [w \in Workers |->
          IF \E l \in leases : slot[l] = w
          THEN LET l == CHOOSE l \in leases : slot[l] = w
               IN  [Idle EXCEPT !.pc = "fetch", !.url = l.url, !.token = l.token,
                                !.beatAt = now + HeartbeatInterval]
          ELSE work[w]]

\* Mutant: the flag is looked at in the loop's condition only.
DispatchFlagged ==
    /\ sched = "acquire" /\ batch.todo = <<>> /\ stop # "closed"
    /\ Dispatched(batch.got)
    /\ batch' = NoBatch
    /\ sched' = IF batch.got = {} THEN "check" ELSE "sleep"
    /\ UNCHANGED <<db, now, interrupts>>

\* The commit, the return and the dispatch loop: nothing in dispatch suspends
\* while slots are free, so all leases are dispatched in one step, or, once the
\* flag is up, none: they are dropped.  A batch whose every UPDATE came too
\* late is empty, and treated as such.
Dispatch ==
    /\ sched = "acquire" /\ batch.todo = <<>> /\ stop # "closed"
    /\ Dispatched(IF stop = "no" THEN batch.got ELSE {})
    /\ batch' = NoBatch
    /\ sched' = IF batch.got = {} THEN "check" ELSE "sleep"
    /\ UNCHANGED <<db, now, interrupts>>

\* Mutant: URLs that wait for a retry do not count.
ProcessableNow == {"Pending", "In_Progress"}

\* The states _is_crawl_complete asks for.
Processable == {"Pending", "Retry", "In_Progress"}

\* _is_crawl_complete; if so run() breaks.
CheckComplete ==
    /\ sched = "check" /\ stop # "closed"
    /\ sched' = IF \E u \in Urls : db[u].state \in Processable THEN "sleep" ELSE "done"
    /\ UNCHANGED <<db, now, batch, work, interrupts>>

Wake ==
    /\ sched = "sleep"
    /\ sched' = "top"
    /\ UNCHANGED <<db, now, batch, work, interrupts>>

\* run() sees the flag, or meets the connection stop has closed and raises;
\* start goes on to close the HTTP client and return, or raises.
LeaveLoop ==
    /\ \/ sched \in {"top", "woken"} /\ stop # "no"
       \/ sched \in {"slots", "acquire", "check"} /\ stop = "closed"
    /\ sched' = "ended"
    /\ batch' = NoBatch
    /\ UNCHANGED <<db, now, work, interrupts>>

\* start and stop have returned, the program ends, and asyncio.run cancels the
\* tasks still there.  A crawl that was stopped will be resumed.
Exit ==
    /\ sched \in {"done", "ended"} /\ stop \in {"no", "closed"}
    /\ sched' = IF stop = "no" THEN "exited" ELSE "down"
    /\ stop' = "no"
    /\ work' = [w \in Workers |-> Idle]
    /\ UNCHANGED <<db, now, batch, crashes, stops>>

Scheduler == \/ Start \/ Resume \/ ExpireLeases \/ SkipExpire \/ NoSlot \/ SlotFreed
             \/ AcquireSelect \/ AcquireUpdate \/ Dispatch \/ CheckComplete \/ Wake
             \/ LeaveLoop \/ Exit

-----------------------------------------------------------------------------
(* Crawler.stop.                                                           *)

\* Scheduler.shutdown up to drain.
RequestStop ==
    /\ stops < MaxStops /\ stop = "no" /\ sched \notin {"down", "exited"}
    /\ stop' = "draining"
    /\ stops' = stops + 1
    /\ UNCHANGED <<db, now, sched, batch, work, crashes>>

\* drain returns: the tasks it gathered are all there are, as no more are
\* dispatched, and they have ended.  stop closes the HTTP client.
Drained ==
    /\ stop = "draining" /\ Active = {}
    /\ stop' = "closing"
    /\ UNCHANGED <<db, now, sched, batch, work, crashes, stops>>

\* MetadataStore.close
CloseStore ==
    /\ stop = "closing"
    /\ stop' = "closed"
    /\ UNCHANGED <<db, now, sched, batch, work, crashes, stops>>

Stop == RequestStop \/ Drained \/ CloseStore

\* start closes the client once it has left the loop, whoever still uses it.
ClientOpen == sched \notin {"done", "ended"}

-----------------------------------------------------------------------------
(* Workers.                                                                *)

\* process_url is still running, and with it the heartbeat task.
InProcess(w) == work[w].pc \in {"fetch", "process", "enqueue", "redirect", "complete"}

Goto(w, pc) == work' = [work EXCEPT ![w].pc = pc]

\* process_url returns its result, and its finally cancels the heartbeat.
Return(w, pc, kind) ==
    work' = [work EXCEPT ![w] = [@ EXCEPT !.pc = pc, !.kind = kind,
                                          !.beats = 0, !.beatAt = Null]]

\* What is left of a worker once its report is made.
Reporting(w) ==
    work' = [work EXCEPT ![w] = [Idle EXCEPT !.pc = "finally", !.url = work[w].url,
                                             !.token = work[w].token]]

\* What a fetch may end in.  On a closed client a request under way breaks off
\* with a transport error, and one not yet sent raises a RuntimeError.
Outcomes(u) ==
    Responses[u] \cup (IF ClientOpen THEN {} ELSE {"transient", "client closed"})

\* rate_limiter.execute returned or raised, and the status was classified.
\* "permanent": 403, 404, an unexpected status, a body that is too large, an
\* unsupported type; "transient": 500, network errors, rate limits exhausted.
FetchDone(w) ==
    /\ work[w].pc = "fetch"
    /\ \E kind \in Outcomes(work[w].url) :
          \/ /\ kind = "page"
             /\ \E body \in Bodies :
                   work' = [work EXCEPT ![w].pc = "process", ![w].kind = kind, ![w].body = body]
          \/ kind = "redirect"  /\ work' = [work EXCEPT ![w].pc = "redirect", ![w].kind = kind]
          \/ kind \in {"permanent", "client closed"} /\ Return(w, "terminal", kind)
          \/ kind = "transient" /\ Return(w, "retry", kind)
    /\ UNCHANGED <<db, now, sched, batch, interrupts>>

\* HtmlProcessor.process.  For a page whose hash is the stored one it calls a
\* method the store does not have, and the exception makes the URL fail.
Process(w) ==
    /\ work[w].pc = "process"
    /\ LET u == work[w].url
           unchanged == db[u].content = work[w].body
       IN  \/ unchanged /\ Return(w, "terminal", "page") /\ UNCHANGED db
           \/ /\ ~unchanged
              /\ db' = ReplaceMetadata(db, u, work[w].body)
              /\ work' = [work EXCEPT ![w].pc = "enqueue", ![w].todo = Links[u]]
    /\ UNCHANGED <<now, sched, batch, interrupts>>

\* _enqueue_discovered_urls, one URL.
EnqueueDiscovered(w) ==
    /\ work[w].pc = "enqueue" /\ work[w].todo # {}
    /\ \E v \in work[w].todo :
          LET depth == db[work[w].url].depth + 1
          IN  /\ db' = IF Passes(v, depth) THEN Insert(db, v, depth, Null, 0) ELSE db
              /\ work' = [work EXCEPT ![w].todo = @ \ {v}]
    /\ UNCHANGED <<now, sched, batch, interrupts>>

\* Mutant: off by one.
ChainTooLongEarly(u) == db[u].redirects + 1 >= MaxRedirects

\* redirect_count >= max_redirects
ChainTooLong(u) == db[u].redirects >= MaxRedirects

\* _handle_redirect up to its enqueue.  A parent that is not a key violates the
\* foreign key; _do_process makes the exception a terminal failure.
HandleRedirect(w) ==
    /\ work[w].pc = "redirect"
    /\ LET u == work[w].url
           v == Target[u]
           wanted == Passes(v, db[u].depth) /\ ~Exists(db, v)
           broken == wanted /\ InsertFails(db, v, AsFound(u))
       IN  \/ /\ ChainTooLong(u) \/ broken
              /\ Return(w, "terminal", "redirect")
              /\ UNCHANGED db
           \/ /\ ~ChainTooLong(u) /\ ~broken
              /\ Goto(w, "complete")
              /\ db' = IF wanted
                       THEN Insert(db, v, db[u].depth, AsFound(u), db[u].redirects + 1)
                       ELSE db
    /\ UNCHANGED <<now, sched, batch, interrupts>>

\* Mutant: the URL is completed while links are still to be enqueued.
AnyLinkEnqueued(w) == TRUE

\* The loop over the discovered URLs is through.
LinksEnqueued(w) == work[w].todo = {}

\* mark_completed, with the content hash of a page and without one for a
\* redirect; its return value is not looked at.
CompleteUrl(w) ==
    /\ \/ work[w].pc = "enqueue" /\ LinksEnqueued(w)
       \/ work[w].pc = "complete"
    /\ db' = Complete(db, work[w].url, work[w].token, work[w].body)
    /\ Reporting(w)
    /\ UNCHANGED <<now, sched, batch, interrupts>>

\* _handle_worker_result of a terminal failure.
FailUrl(w) ==
    /\ work[w].pc = "terminal"
    /\ db' = FailTerminally(db, work[w].url, work[w].token)
    /\ Reporting(w)
    /\ UNCHANGED <<now, sched, batch, interrupts>>

\* _handle_retry: first get_retry_count, and later the report it decides on.
ReadRetryCount(w) ==
    /\ work[w].pc = "retry"
    /\ work' = [work EXCEPT ![w].pc = "reschedule",
                            ![w].attempt = db[work[w].url].retries + 1]
    /\ UNCHANGED <<db, now, sched, batch, interrupts>>

\* next_attempt > max_retries
Exhausted(attempt) == attempt > MaxRetries

RescheduleUrl(w) ==
    /\ work[w].pc = "reschedule"
    /\ LET u == work[w].url
           tok == work[w].token
           attempt == work[w].attempt
       IN  db' = IF Exhausted(attempt) THEN Fail(db, u, tok)
                 ELSE Reschedule(db, u, tok, attempt, now + RetryDelay(attempt))
    /\ Reporting(w)
    /\ UNCHANGED <<now, sched, batch, interrupts>>

\* _run_worker's finally: the slot is free again.
Finally(w) ==
    /\ work[w].pc = "finally"
    /\ work' = [work EXCEPT ![w] = Idle]
    /\ UNCHANGED <<db, now, sched, batch, interrupts>>

\* Mutant: the heartbeat goes on whatever renew_lease answers.
HeartbeatForever(w) ==
    /\ InProcess(w) /\ Elapsed(work[w].beatAt, now)
    /\ db' = Renew(db, work[w].url, work[w].token, now + LeaseTtl)
    /\ work' = [work EXCEPT ![w].beats = @ + 1, ![w].beatAt = now + HeartbeatInterval]
    /\ UNCHANGED <<now, sched, batch, interrupts>>

\* _lease_heartbeat: after a failed renewal, or the third, it ends; the worker
\* it belongs to is told nothing.
Heartbeat(w) ==
    /\ InProcess(w) /\ Elapsed(work[w].beatAt, now)
    /\ db' = Renew(db, work[w].url, work[w].token, now + LeaseTtl)
    /\ LET beats == work[w].beats + 1
       IN  work' = [work EXCEPT
              ![w].beats  = IF db' # db THEN beats ELSE @,
              ![w].beatAt = IF db' # db /\ beats < MaxRenewals
                            THEN now + HeartbeatInterval ELSE Null]
    /\ UNCHANGED <<now, sched, batch, interrupts>>

Worker(w) == \/ FetchDone(w) \/ Process(w) \/ EnqueueDiscovered(w)
             \/ HandleRedirect(w) \/ CompleteUrl(w) \/ FailUrl(w)
             \/ ReadRetryCount(w) \/ RescheduleUrl(w) \/ Finally(w)

-----------------------------------------------------------------------------
(* Time and crashes.                                                       *)

\* The times something waits for.
Deadlines ==
    ({db[u].expires : u \in {v \in Urls : db[v].state = "In_Progress"}}
     \cup {db[u].retryAt : u \in {v \in Urls : db[v].state = "Retry"}}
     \cup {work[w].beatAt : w \in {x \in Workers : InProcess(x)}}) \ {Null}

\* With prompt heartbeats time waits for one that is due.
Beating == \A w \in Workers : InProcess(w) => ~Elapsed(work[w].beatAt, now)

\* With prompt workers time does not reach the end of a lease somebody works
\* under or is being granted.
Patient ==
    /\ \A w \in Active : Held(db[work[w].url], work[w].token)
                           => ~Elapsed(db[work[w].url].expires, now + 1)
    /\ batch.active => now + 1 < batch.asOf + LeaseTtl

\* Time passes as long as something waits for it.
Tick ==
    /\ now < MaxNow
    /\ \E t \in Deadlines : t > now
    /\ PromptHeartbeats => Beating
    /\ PromptWorkers => Patient
    /\ now' = now + 1
    /\ UNCHANGED <<db, sched, batch, work, interrupts>>

\* The process dies; whoever restarts it finds the database.
Crash ==
    /\ crashes < MaxCrashes /\ sched \notin {"down", "exited"}
    /\ crashes' = crashes + 1
    /\ sched' = "down"
    /\ stop' = "no"
    /\ batch' = NoBatch
    /\ work' = [w \in Workers |-> Idle]
    /\ UNCHANGED <<db, now, stops>>

\* The end: anything but this that cannot step is a deadlock.
Exited == sched = "exited" /\ UNCHANGED vars

Next == \/ Scheduler \/ Stop
        \/ \E w \in Workers : Worker(w) \/ Heartbeat(w)
        \/ Tick \/ Crash \/ Exited

\* The event loop runs every coroutine that can run, fetches end (the HTTP
\* client has a timeout), the clock does not stop, a process that died or was
\* stopped is started again.
Fairness == /\ WF_vars(Scheduler) /\ WF_vars(Drained \/ CloseStore)
            /\ \A w \in Workers : WF_vars(Worker(w)) /\ WF_vars(Heartbeat(w))
            /\ WF_vars(Tick)

Spec     == Init /\ [][Next]_vars
FairSpec == Spec /\ Fairness

-----------------------------------------------------------------------------
(* Properties.                                                             *)

Pcs == {"idle", "fetch", "process", "enqueue", "redirect", "complete", "terminal", "retry",
        "reschedule", "finally"}
Job == [pc : Pcs, url : Urls \cup {Null}, token : Tokens \cup {Null}, kind : Kinds \cup {Null},
        body : Bodies \cup {Null}, todo : SUBSET Urls, attempt : Nat, beats : 0 .. MaxRenewals,
        beatAt : Nat \cup {Null}]
LeaseRecord == [url : Urls, token : Tokens]
BatchRecord == [active : BOOLEAN, asOf : Nat, todo : Seq(Urls), got : SUBSET LeaseRecord]

TypeOK ==
    /\ db \in Table
    /\ now \in Nat /\ crashes \in 0 .. MaxCrashes /\ stops \in 0 .. MaxStops
    /\ sched \in {"down", "top", "woken", "slots", "wait", "acquire", "check", "sleep",
                  "done", "ended", "exited"}
    /\ stop \in {"no", "draining", "closing", "closed"}
    /\ batch \in BatchRecord
    /\ work \in [Workers -> Job]

\* The pool's counter and the batch limit agree: by the time a batch is
\* dispatched there is a slot for each of its leases, so dispatch never waits
\* for the semaphore with leases running out behind it.
BatchFits ==
    Len(batch.todo) + Cardinality(batch.got) <= Cardinality(Workers \ Active)

\* The links of a completed page and the target of a completed redirect are in
\* the frontier, whatever crashed, expired or was processed twice on the way.
NothingLost ==
    \A u \in Urls : db[u].state = "Completed" =>
       \/ /\ db[u].content # Null
          /\ \A v \in Links[u] : Passes(v, db[u].depth + 1) => Exists(db, v)
       \/ /\ db[u].content = Null
          /\ Passes(Target[u], db[u].depth) => Exists(db, Target[u])

\* The retry count only ever goes up by one and never past max_retries, although
\* it is read in one statement and written in another, and a worker that lost
\* its lease in between may be at it too.
RetriesCounted == [][
    \A u \in Urls : LET n == db[u].retries IN
       db'[u].retries # n => db'[u].retries = n + 1 /\ n < MaxRetries ]_vars

\* At most one worker at a time works on a URL, until its report is made; if no
\* worker outlives its lease, that is, which is not for the code to say.
OneWorkerPerUrl ==
    LET Working == {w \in Active : work[w].pc # "finally"}
    IN  \A v, w \in Working : v # w => work[v].url # work[w].url

\* Of the workers at a URL, however slow and however many, one at most can still
\* report: the others' leases are lost, and the reports they go on to make come to
\* nothing.
OneHolder ==
    \A v, w \in Active :
       v # w /\ work[v].url = work[w].url =>
          ~(Held(db[work[v].url], work[v].token) /\ Held(db[work[w].url], work[w].token))

\* A worker loses its lease by its own report, or when the time is up: neither another
\* worker's heartbeat or report, nor a batch that was selected when things were
\* different, takes it away.
LeasesKept == [][
    \A w \in Active : LET u == work[w].url IN
       Held(db[u], work[w].token) /\ ~Held(db'[u], work[w].token) =>
          \/ work[w].pc # "finally" /\ work'[w].pc = "finally"
          \/ Elapsed(db[u].expires, now) ]_vars

\* When run() has found the crawl complete, it is, under the same condition.
DoneIsFinal ==
    sched \in {"done", "exited"} => \A u \in Urls : db[u].state \notin Open

\* A URL has failed for good only if the site refuses it, or redirects to it
\* too often: not by the order things happened in, nor by how it was found.
FailuresAreTheSites ==
    \A u \in Urls : db[u].state = "Terminal_Failed" =>
       \/ "permanent" \in Responses[u]
       \/ "redirect" \in Responses[u] /\ db[u].redirects >= MaxRedirects

\* stop closes the store, and the client before it, when all that was
\* dispatched has come to its end, also what was acquired as it was called.
StoreOutlivesWorkers == stop \in {"closing", "closed"} => Active = {}

\* The crawl ends, also after crashes, stops and failures, if no worker outlives its
\* lease.  A URL whose every worker does is leased again and again, as attempts
\* that are not reported in time do not count.
Terminates == <>[](sched = "exited")

\* A lease a dead process left behind does not keep its URL for ever.
Orphaned(u) ==
    /\ db[u].state = "In_Progress"
    /\ \A w \in Workers : work[w].token # db[u].token
    /\ \A l \in batch.got : l.token # db[u].token
OrphansReclaimed ==
    \A u \in Urls : Orphaned(u) ~> ~Orphaned(u)

-----------------------------------------------------------------------------
\* The crawl uses the store only through its operations, and only with leases
\* it was handed and has not dropped.
Store == INSTANCE MetadataStore WITH
    durable <- db,
    leases <- {[url |-> work[w].url, token |-> work[w].token] : w \in Active},
    BatchSizes <- 1 .. BatchSize,
    RetryCounts <- 1 .. MaxRetries,
    RetryDelays <- {RetryDelay(n) : n \in 1 .. MaxRetries},
    Depths <- 0 .. MaxDepth,
    Parents <- Urls \cup {Null},
    RedirectCounts <- 0 .. MaxRedirects,
    MaxLag <- 0,
    Horizon <- LeaseTtl + RetryDelay(MaxRetries)
UsesStore == Store!Spec

=============================================================================
