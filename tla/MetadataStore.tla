---------------------------- MODULE MetadataStore ---------------------------
(***************************************************************************)
(* metadata_store.py under concurrent coroutines and crashes.              *)
(*                                                                         *)
(* One aiosqlite connection serves every coroutine of the process.  An     *)
(* operation is a statement and, some time later, a commit; the commit of  *)
(* ANY coroutine makes durable whatever has been executed by then.  db is  *)
(* what the connection sees, durable what a crash leaves.  Only            *)
(* acquire_lease_batch has more than one statement: a clock reading, a     *)
(* SELECT, an UPDATE per candidate and a commit, between which the         *)
(* operations of other coroutines run.                                     *)
(*                                                                         *)
(* The callers are free: anyone who was ever handed a lease may use it at  *)
(* any later time, whether it is still current or not.                     *)
(***************************************************************************)
EXTENDS UrlRecords

CONSTANTS
    LeaseTtl,       \* lease_ttl_ms and extension_ms
    BatchSizes,     \* values of batch_size
    RetryCounts,    \* values of retry_count passed to mark_retry
    RetryDelays,    \* next_retry_at - now
    Depths,         \* values of depth passed to enqueue
    Parents,        \* values of parent_url passed to enqueue; not all need be keys
    RedirectCounts, \* values of redirect_count passed to enqueue
    MaxLag,         \* a statement runs at most this long after its clock reading
    Horizon,        \* no lease and no retry delay is longer than this
    MaxNow          \* bound on the clock

ASSUME StoreAssumption ==
    /\ LeaseTtl \in Nat \ {0}
    /\ MaxLag \in Nat /\ MaxNow \in Nat
    /\ Horizon \in Nat /\ LeaseTtl <= Horizon /\ \A d \in RetryDelays : d <= Horizon
    /\ BatchSizes \subseteq Nat /\ RetryCounts \subseteq Nat /\ RetryDelays \subseteq Nat
    /\ Depths \subseteq Nat /\ RedirectCounts \subseteq Nat

VARIABLES
    db,       \* url_records as the connection sees it
    durable,  \* url_records as of the last commit
    now,      \* time.time()
    batch,    \* the call of acquire_lease_batch in progress
    leases    \* leases returned to callers that have not let go of them

vars == <<db, durable, now, batch, leases>>

LeaseRecord == [url : Urls, token : Tokens]
BatchRecord == [active : BOOLEAN, asOf : Nat, todo : Seq(Urls), got : SUBSET LeaseRecord]

NoBatch == [active |-> FALSE, asOf |-> 0, todo |-> <<>>, got |-> {}]

Init ==
    /\ db = EmptyTable
    /\ durable = EmptyTable
    /\ now = 0
    /\ batch = NoBatch
    /\ leases = {}

-----------------------------------------------------------------------------

\* A statement runs; its commit may follow at once, or later as Commit.
Execute(newDb) == db' = newDb /\ durable' \in {durable, newDb}

\* A commit, of the operation that ran the statement or of another one.
Commit ==
    /\ db # durable
    /\ durable' = db
    /\ UNCHANGED <<db, now, batch, leases>>

\* time.time() was read before the statement that carries it was executed.
ClockReadings == {t \in 0 .. now : now - t <= MaxLag}

InUse == {db[u].token : u \in Urls} \cup {durable[u].token : u \in Urls}
         \cup {l.token : l \in leases \cup batch.got}

Enqueue(u, depth, parent, redirects) ==
    /\ ~InsertFails(db, u, parent)
    /\ Execute(Insert(db, u, depth, parent, redirects))
    /\ UNCHANGED <<now, batch, leases>>

\* Clock reading and SELECT.  With no candidate the call returns [] at once.
AcquireSelect(limit) ==
    /\ ~batch.active
    /\ \E t \in ClockReadings : \E todo \in Candidates(db, t, limit) :
          /\ todo # <<>>
          /\ batch' = [active |-> TRUE, asOf |-> t, todo |-> todo, got |-> {}]
    /\ UNCHANGED <<db, durable, now, leases>>

\* One UPDATE; rowcount tells whether the row was still there to be taken.
AcquireUpdate(tok) ==
    /\ batch.active /\ batch.todo # <<>>
    /\ tok \in Tokens \ InUse
    /\ LET u == Head(batch.todo)
       IN  /\ Execute(Lease(db, u, tok, batch.asOf + LeaseTtl, batch.asOf))
           /\ batch' = [batch EXCEPT
                 !.todo = Tail(@),
                 !.got  = IF db'[u].token = tok THEN @ \cup {[url |-> u, token |-> tok]} ELSE @]
    /\ UNCHANGED <<now, leases>>

\* Mutant: the leases are returned before the commit.
AcquireReturnEarly ==
    /\ batch.active /\ batch.todo = <<>>
    /\ leases' = leases \cup batch.got
    /\ batch' = NoBatch
    /\ UNCHANGED <<db, durable, now>>

\* The commit, after which the leases are returned; a caller that is shutting
\* down drops those it does not dispatch.
AcquireCommit ==
    /\ batch.active /\ batch.todo = <<>>
    /\ durable' = db
    /\ \E kept \in SUBSET batch.got : leases' = leases \cup kept
    /\ batch' = NoBatch
    /\ UNCHANGED <<db, now>>

RenewLease(l) ==
    /\ \E t \in ClockReadings : Execute(Renew(db, l.url, l.token, t + LeaseTtl))
    /\ UNCHANGED <<now, batch, leases>>

ExpireLeases ==
    /\ \E t \in ClockReadings : Execute(Expire(db, t))
    /\ UNCHANGED <<now, batch, leases>>

MarkCompleted(l, body) ==
    /\ Execute(Complete(db, l.url, l.token, body))
    /\ UNCHANGED <<now, batch, leases>>

MarkRetry(l, count, delay) ==
    /\ \E t \in ClockReadings : Execute(Reschedule(db, l.url, l.token, count, t + delay))
    /\ UNCHANGED <<now, batch, leases>>

MarkTerminalFailed(l) ==
    /\ Execute(FailTerminally(db, l.url, l.token))
    /\ UNCHANGED <<now, batch, leases>>

MarkFailed(l) ==
    /\ Execute(Fail(db, l.url, l.token))
    /\ UNCHANGED <<now, batch, leases>>

\* mark_failed(url) with no token
MarkFailedUnleased(u) ==
    /\ Execute(FailWaiting(db, u))
    /\ UNCHANGED <<now, batch, leases>>

\* store_{html,image,video,pdf}_metadata, called by whoever processes the URL
StoreMetadata(l, body) ==
    /\ Execute(ReplaceMetadata(db, l.url, body))
    /\ UNCHANGED <<now, batch, leases>>

-----------------------------------------------------------------------------
(* The surroundings.                                                       *)

\* The holder of a lease ends, whatever became of the lease.
Forget(l) ==
    /\ leases' = leases \ {l}
    /\ UNCHANGED <<db, durable, now, batch>>

Tick ==
    /\ now < MaxNow
    /\ now' = now + 1
    /\ UNCHANGED <<db, durable, batch, leases>>

\* The process dies and is started again on the same file: SQLite rolls back.
Crash ==
    /\ db' = durable
    /\ batch' = NoBatch
    /\ leases' = {}
    /\ UNCHANGED <<durable, now>>

-----------------------------------------------------------------------------

Report(l) ==
    \/ \E body \in Bodies \cup {Null} : MarkCompleted(l, body)
    \/ \E count \in RetryCounts, delay \in RetryDelays : MarkRetry(l, count, delay)
    \/ MarkTerminalFailed(l)
    \/ MarkFailed(l)

Next ==
    \/ \E u \in Urls, depth \in Depths, parent \in Parents, n \in RedirectCounts :
          Enqueue(u, depth, parent, n)
    \/ \E limit \in BatchSizes : AcquireSelect(limit)
    \/ \E tok \in Tokens : AcquireUpdate(tok)
    \/ AcquireCommit
    \/ \E l \in leases : RenewLease(l)
    \/ ExpireLeases
    \/ \E l \in leases : Report(l)
    \/ \E u \in Urls : MarkFailedUnleased(u)
    \/ \E l \in leases, body \in Bodies : StoreMetadata(l, body)
    \/ Commit
    \/ \E l \in leases : Forget(l)
    \/ Tick
    \/ Crash

Spec == Init /\ [][Next]_vars

-----------------------------------------------------------------------------
(* Properties.                                                             *)

TypeOK ==
    /\ db \in Table
    /\ durable \in Table
    /\ now \in Nat
    /\ batch \in BatchRecord
    /\ leases \subseteq LeaseRecord

\* acquire_lease_batch commits before it returns: a lease somebody works under
\* and that is current is also current in the file, whoever committed what in
\* between, so a crash never takes it back while its holder may have reported.
LeaseCommitted ==
    \A l \in leases : Held(db[l.url], l.token) => Held(durable[l.url], l.token)

\* No row is ever stuck: whatever was executed or committed, a URL that is not
\* in a final state can be leased again after a bounded time (a comparison with
\* a NULL column would never come true, in this process or after a restart).
Reclaimable ==
    \A u \in Urls : /\ db[u].state \in Open => Leasable(db[u], now + Horizon)
                    /\ durable[u].state \in Open => Leasable(durable[u], now + Horizon)

\* A lease that has not expired ends only by a report of its holder: neither
\* expire_leases nor an acquire_lease_batch whose SELECT saw the lease expired
\* before it was renewed takes it away.
LiveLeaseRespected == [][
    \A l \in leases \cap leases' :
        Held(db[l.url], l.token) /\ db[l.url].expires > now
          => Held(db'[l.url], l.token) \/ db'[l.url].state \in Reported ]_vars

\* A URL whose retry is scheduled is not leased before its backoff is over, not
\* even by a batch that selected it under an earlier, expired lease.
RetryNotEarly == [][
    \A l \in batch'.got \ batch.got :
        db[l.url].state = "Retry" => db[l.url].retryAt <= now ]_vars

\* After a crash at any moment the file holds states the diagram allows.
Lifecycle == INSTANCE UrlLifecycle WITH phase <- [u \in Urls |-> durable[u].state]
ImplementsLifecycle == Lifecycle!Spec

-----------------------------------------------------------------------------
(* The inductive invariant: the invariants above and the two facts about   *)
(* operations in progress they and the action properties rest on.          *)

\* The clock reading of a batch is never ahead of the clock.
BatchInPast == batch.asOf <= now

\* Whatever has been executed since the last commit, committing it now is a
\* step of the diagram, for each URL.
CommitAllowed ==
    \A u \in Urls : \/ db[u].state = durable[u].state
                    \/ <<durable[u].state, db[u].state>> \in Lifecycle!Moves

IInv == TypeOK /\ BatchInPast /\ LeaseCommitted /\ Reclaimable /\ CommitAllowed

=============================================================================
