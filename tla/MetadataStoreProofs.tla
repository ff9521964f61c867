------------------------ MODULE MetadataStoreProofs -------------------------
(***************************************************************************)
(* Proofs about MetadataStore, for any number of URLs, tokens, callers and *)
(* any clock.  The argument: an operation either executes a statement that *)
(* grants no lease, and then ExecuteInv carries the invariant from the     *)
(* three facts it asks of the statement, or it is a step of                *)
(* acquire_lease_batch, treated by itself.                                 *)
(***************************************************************************)
EXTENDS MetadataStore, UrlRecordsProofs, FiniteSetTheorems

\* What a step makes durable follows the diagram, for each URL.
CommitStep ==
    \A u \in Urls : \/ durable'[u].state = durable[u].state
                    \/ <<durable[u].state, durable'[u].state>> \in Lifecycle!Moves

\* A statement keeps the invariant, committed or not, if it gives no holder of a
\* lease anything new, leaves no open row stuck and changes states by moves of
\* the diagram.
LEMMA StatementInv ==
    ASSUME IInv,
           NEW e \in Table, Execute(e), UNCHANGED <<now, leases>>,
           batch' \in BatchRecord, batch'.asOf = batch.asOf,
           \A l \in leases : Held(e[l.url], l.token) => Held(db[l.url], l.token),
           \A u \in Urls : e[u].state \in Open => Leasable(e[u], now + Horizon),
           \A u \in Urls : \/ e[u].state = durable[u].state
                           \/ <<durable[u].state, e[u].state>> \in Lifecycle!Moves
    PROVE  IInv' /\ CommitStep
<1>1. TypeOK'
  BY DEF IInv, TypeOK, BatchRecord, Execute
<1>2. BatchInPast'
  BY DEF IInv, BatchInPast
<1>3. LeaseCommitted'
  BY DEF IInv, LeaseCommitted, Execute
<1>4. Reclaimable'
  BY DEF IInv, Reclaimable, Execute
<1>5. CommitAllowed'
  BY DEF CommitAllowed, Execute
<1>6. CommitStep
  BY DEF CommitStep, Execute
<1>7. QED
  BY <1>1, <1>2, <1>3, <1>4, <1>5, <1>6 DEF IInv

\* The statements of all operations but acquire_lease_batch.
LEMMA ExecuteInv ==
    ASSUME IInv,
           NEW e \in Table, Execute(e), UNCHANGED <<now, batch, leases>>,
           \A u \in Urls : \A tok \in Tokens : Held(e[u], tok) => Held(db[u], tok),
           \A u \in Urls : e[u].state \in Open => Leasable(e[u], now + Horizon),
           \A u \in Urls : \/ e[u].state = durable[u].state
                           \/ <<durable[u].state, e[u].state>> \in Lifecycle!Moves
    PROVE  IInv' /\ CommitStep
<1>1. batch \in BatchRecord /\ \A l \in leases : l.url \in Urls /\ l.token \in Tokens
  BY DEF IInv, TypeOK, BatchRecord, LeaseRecord
<1>2. QED
  BY <1>1, StatementInv

\* A reported row was leased in the file too: its holder got the lease from a
\* committed batch.
LEMMA HolderIsDurable ==
    ASSUME IInv, NEW l \in leases, Held(db[l.url], l.token)
    PROVE  l.url \in Urls /\ l.token \in Tokens /\ durable[l.url].state = "In_Progress"
BY DEF IInv, TypeOK, BatchRecord, LeaseRecord, LeaseCommitted, Held

\* The initial state, an empty database, satisfies the invariant.
LEMMA InitInv == Init => IInv
<1> SUFFICES ASSUME Init PROVE IInv
  OBVIOUS
<1>1. TypeOK
  BY EmptyTableType DEF Init, TypeOK, BatchRecord, NoBatch
<1>2. \A u \in Urls : EmptyTable[u].state = "Absent"
  BY DEF EmptyTable, NoRow
<1>3. QED
  BY <1>1, <1>2 DEF Init, IInv, BatchInPast, NoBatch, LeaseCommitted, Reclaimable, Open,
                    CommitAllowed

\* A report: at most the row of the lease changes, if the lease is current, to a
\* state a report may leave, and a scheduled retry comes within the horizon.
LEMMA ReportInv ==
    ASSUME IInv, NEW l \in leases,
           NEW e \in Table, Execute(e), UNCHANGED <<now, batch, leases>>,
           \A u \in Urls : \/ e[u] = db[u]
                           \/ /\ u = l.url
                              /\ Held(db[u], l.token)
                              /\ e[u].state \in Reported
                              /\ e[u].state = "Retry" => Elapsed(e[u].retryAt, now + Horizon)
    PROVE  IInv' /\ CommitStep
<1>1. ASSUME NEW u \in Urls, NEW tok \in Tokens, Held(e[u], tok)
      PROVE  Held(db[u], tok)
  BY <1>1 DEF Held, Reported
<1>2. ASSUME NEW u \in Urls, e[u].state \in Open
      PROVE  Leasable(e[u], now + Horizon)
  BY <1>2 DEF IInv, Reclaimable, Open, Reported, Leasable, RetryDue
<1>3. ASSUME NEW u \in Urls
      PROVE  \/ e[u].state = durable[u].state
             \/ <<durable[u].state, e[u].state>> \in Lifecycle!Moves
  <2>1. CASE e[u] = db[u]
    BY <2>1 DEF IInv, CommitAllowed
  <2>2. CASE u = l.url /\ Held(db[u], l.token) /\ e[u].state \in Reported
    <3>1. durable[u].state = "In_Progress"
      BY <2>2, HolderIsDurable
    <3>2. QED
      BY <2>2, <3>1 DEF Reported, Lifecycle!Moves, Lifecycle!Phases
  <2>3. QED
    BY <2>1, <2>2
<1>4. QED
  BY <1>1, <1>2, <1>3, ExecuteInv

\* The numbers the store computes with.
LEMMA Clock ==
    ASSUME IInv, NEW t \in ClockReadings
    PROVE  t \in Nat /\ t <= now /\ now \in Nat /\ t + LeaseTtl \in Nat
           /\ t + LeaseTtl <= now + Horizon
           /\ \A d \in RetryDelays : t + d \in Nat /\ t + d <= now + Horizon
BY StoreAssumption DEF IInv, TypeOK, BatchRecord, ClockReadings

LEMMA EnqueueInv ==
    ASSUME IInv, NEW u \in Urls, NEW depth \in Depths, NEW parent \in Parents,
           NEW n \in RedirectCounts, Enqueue(u, depth, parent, n)
    PROVE  IInv' /\ CommitStep
<1> DEFINE e == Insert(db, u, depth, parent, n)
<1>1. Execute(e) /\ UNCHANGED <<now, batch, leases>>
  BY DEF Enqueue
<1>2. db \in Table /\ depth \in Nat /\ n \in Nat
  BY StoreAssumption DEF IInv, TypeOK, BatchRecord
<1>3. CASE Exists(db, u)
  <2>1. e = db
    BY <1>3 DEF Insert
  <2>2. QED
    BY <1>1, <1>2, <2>1, ExecuteInv DEF IInv, Reclaimable, CommitAllowed
<1>4. CASE ~Exists(db, u)
  <2>1. parent \in Urls \cup {Null}
    BY <1>4 DEF Enqueue, InsertFails
  <2>2. e \in Table
    BY <1>2, <2>1, InsertType
  <2>3. \A v \in Urls : e[v] = db[v] \/ (v = u /\ e[v].state = "Pending")
    <3>1. [NoRow EXCEPT !.state = "Pending", !.depth = depth,
                        !.parent = parent, !.redirects = n].state = "Pending"
      BY DEF NoRow
    <3>2. QED
      BY <1>2, <1>4, <3>1 DEF Insert, Table
  <2>4. db[u].state = "Absent" /\ durable[u].state = "Absent"
    BY <1>2, <1>4 DEF Exists, IInv, CommitAllowed, Lifecycle!Moves, Lifecycle!Phases
  <2>5. \A v \in Urls : e[v].state \in Open => Leasable(e[v], now + Horizon)
    BY <2>3 DEF IInv, Reclaimable, Leasable
  <2>6. \A v \in Urls : \A tok \in Tokens : Held(e[v], tok) => Held(db[v], tok)
    BY <2>3 DEF Held
  <2>7. \A v \in Urls : \/ e[v].state = durable[v].state
                        \/ <<durable[v].state, e[v].state>> \in Lifecycle!Moves
    BY <2>3, <2>4 DEF IInv, CommitAllowed, Lifecycle!Moves
  <2>8. QED
    BY <1>1, <2>2, <2>5, <2>6, <2>7, ExecuteInv
<1>5. QED
  BY <1>3, <1>4

LEMMA RenewInv ==
    ASSUME IInv, NEW l \in leases, RenewLease(l)
    PROVE  IInv' /\ CommitStep
<1>1. PICK t \in ClockReadings : Execute(Renew(db, l.url, l.token, t + LeaseTtl))
  BY DEF RenewLease
<1> DEFINE e == Renew(db, l.url, l.token, t + LeaseTtl)
<1>2. db \in Table /\ l.url \in Urls
  BY DEF IInv, TypeOK, BatchRecord, LeaseRecord
<1>3. t + LeaseTtl \in Nat /\ t + LeaseTtl <= now + Horizon
  BY Clock
<1>4. e \in Table
  BY <1>2, <1>3, RenewType
<1>5. \A u \in Urls : \/ e[u] = db[u]
                      \/ /\ db[u].state = "In_Progress"
                         /\ e[u] = [db[u] EXCEPT !.expires = t + LeaseTtl, !.renewals = @ + 1]
  BY <1>2 DEF Renew, Held, Table
<1>6. ASSUME NEW u \in Urls
      PROVE  e[u].state = db[u].state /\ e[u].token = db[u].token
  <2> DEFINE r == [db[u] EXCEPT !.expires = t + LeaseTtl, !.renewals = @ + 1]
  <2>1. r.state = db[u].state /\ r.token = db[u].token
    BY <1>2 DEF Table, Row
  <2>2. QED
    BY <1>5, <2>1
<1>7. ASSUME NEW u \in Urls, e[u].state \in Open
      PROVE  Leasable(e[u], now + Horizon)
  <2>1. CASE e[u] = db[u]
    BY <1>7, <2>1 DEF IInv, Reclaimable
  <2>2. CASE /\ db[u].state = "In_Progress"
             /\ e[u] = [db[u] EXCEPT !.expires = t + LeaseTtl, !.renewals = @ + 1]
    <3>1. e[u].expires = t + LeaseTtl
      BY <1>2, <2>2 DEF Table, Row
    <3>2. Elapsed(e[u].expires, now + Horizon)
      BY <1>3, <3>1, NullAssumption DEF Elapsed
    <3>3. QED
      BY <1>6, <2>2, <3>2 DEF Leasable, LeaseExpired
  <2>3. QED
    BY <1>5, <2>1, <2>2
<1>8. \A u \in Urls : \A tok \in Tokens : Held(e[u], tok) => Held(db[u], tok)
  BY <1>6 DEF Held
<1>9. \A u \in Urls : \/ e[u].state = durable[u].state
                      \/ <<durable[u].state, e[u].state>> \in Lifecycle!Moves
  BY <1>6 DEF IInv, CommitAllowed
<1>10. QED
  BY <1>1, <1>4, <1>7, <1>8, <1>9, ExecuteInv DEF RenewLease

LEMMA ExpireInv ==
    ASSUME IInv, ExpireLeases
    PROVE  IInv' /\ CommitStep
<1>1. PICK t \in ClockReadings : Execute(Expire(db, t))
  BY DEF ExpireLeases
<1> DEFINE e == Expire(db, t)
<1>2. db \in Table
  BY DEF IInv, TypeOK, BatchRecord
<1>3. e \in Table
  BY <1>2, ExpireType
<1>4. \A u \in Urls : e[u] = db[u] \/ (db[u].state = "In_Progress" /\ e[u].state = "Pending")
  BY <1>2 DEF Expire, LeaseExpired, Table, Row
<1>5. \A u \in Urls : e[u].state \in Open => Leasable(e[u], now + Horizon)
  BY <1>4 DEF IInv, Reclaimable, Leasable
<1>6. \A u \in Urls : \A tok \in Tokens : Held(e[u], tok) => Held(db[u], tok)
  BY <1>4 DEF Held
<1>7. \A u \in Urls : \/ e[u].state = durable[u].state
                      \/ <<durable[u].state, e[u].state>> \in Lifecycle!Moves
  BY <1>4 DEF IInv, CommitAllowed, Lifecycle!Moves, Lifecycle!Phases
<1>8. QED
  BY <1>1, <1>3, <1>5, <1>6, <1>7, ExecuteInv DEF ExpireLeases

LEMMA ReportsInv ==
    ASSUME IInv, NEW l \in leases, Report(l)
    PROVE  IInv' /\ CommitStep
<1>1. db \in Table /\ l.url \in Urls
  BY DEF IInv, TypeOK, BatchRecord, LeaseRecord
<1>2. ASSUME NEW state \in Reported, NEW u \in Urls
      PROVE  Release(db[u], state).state = state
  BY <1>1 DEF Release, Table, Row
<1>3. ASSUME NEW body \in Bodies \cup {Null}, MarkCompleted(l, body)
      PROVE  IInv' /\ CommitStep
  <2> DEFINE r == [Release(db[l.url], "Completed") EXCEPT !.content = body]
  <2>1. r.state = "Completed"
    BY <1>2 DEF Reported, Release
  <2>2. \A u \in Urls : \/ Complete(db, l.url, l.token, body)[u] = db[u]
                        \/ /\ u = l.url /\ Held(db[u], l.token)
                           /\ Complete(db, l.url, l.token, body)[u] = r
    BY <1>1 DEF Complete, Table
  <2>3. Complete(db, l.url, l.token, body) \in Table
    BY <1>1, CompleteType
  <2>4. QED
    BY <1>3, <2>1, <2>2, <2>3, ReportInv DEF MarkCompleted, Reported
<1>4. ASSUME NEW count \in RetryCounts, NEW delay \in RetryDelays, MarkRetry(l, count, delay)
      PROVE  IInv' /\ CommitStep
  <2>1. PICK t \in ClockReadings : Execute(Reschedule(db, l.url, l.token, count, t + delay))
    BY <1>4 DEF MarkRetry
  <2> DEFINE r == [Release(db[l.url], "Retry") EXCEPT !.retries = count, !.retryAt = t + delay]
             e == Reschedule(db, l.url, l.token, count, t + delay)
  <2>2. count \in Nat /\ t + delay \in Nat /\ t + delay <= now + Horizon
    BY Clock, StoreAssumption
  <2>3. r.state = "Retry" /\ r.retryAt = t + delay
    BY <1>1 DEF Release, Table, Row
  <2>4. Elapsed(r.retryAt, now + Horizon)
    BY <2>2, <2>3, NullAssumption DEF Elapsed
  <2>5. \A u \in Urls : e[u] = db[u] \/ (u = l.url /\ Held(db[u], l.token) /\ e[u] = r)
    BY <1>1 DEF Reschedule, Table
  <2>6. e \in Table
    BY <1>1, <2>2, RescheduleType
  <2>7. QED
    BY <1>4, <2>1, <2>3, <2>4, <2>5, <2>6, ReportInv DEF MarkRetry, Reported
<1>5. CASE MarkTerminalFailed(l)
  <2> DEFINE e == FailTerminally(db, l.url, l.token)
  <2>1. \A u \in Urls : \/ e[u] = db[u]
                        \/ /\ u = l.url /\ Held(db[u], l.token)
                           /\ e[u] = Release(db[u], "Terminal_Failed")
    BY <1>1 DEF FailTerminally, Table
  <2>2. e \in Table
    BY <1>1, FailType
  <2>3. QED
    BY <1>2, <1>5, <2>1, <2>2, ReportInv DEF MarkTerminalFailed, Reported
<1>6. CASE MarkFailed(l)
  <2> DEFINE e == Fail(db, l.url, l.token)
  <2>1. \A u \in Urls : \/ e[u] = db[u]
                        \/ /\ u = l.url /\ Held(db[u], l.token)
                           /\ e[u] = Release(db[u], "Failed")
    BY <1>1 DEF Fail, Table
  <2>2. e \in Table
    BY <1>1, FailType
  <2>3. QED
    BY <1>2, <1>6, <2>1, <2>2, ReportInv DEF MarkFailed, Reported
<1>7. QED
  BY <1>3, <1>4, <1>5, <1>6 DEF Report

LEMMA FailUnleasedInv ==
    ASSUME IInv, NEW u \in Urls, MarkFailedUnleased(u)
    PROVE  IInv' /\ CommitStep
<1> DEFINE e == FailWaiting(db, u)
<1>1. db \in Table
  BY DEF IInv, TypeOK, BatchRecord
<1>2. e \in Table
  BY <1>1, FailType
<1>3. Release(db[u], "Failed").state = "Failed"
  BY <1>1 DEF Release, Table, Row
<1>4. \A v \in Urls : e[v] = db[v] \/ (db[v].state = "Retry" /\ e[v].state = "Failed")
  BY <1>1, <1>3 DEF FailWaiting, Table
<1>5. \A v \in Urls : e[v].state \in Open => Leasable(e[v], now + Horizon)
  BY <1>4 DEF IInv, Reclaimable, Open
<1>6. \A v \in Urls : \A tok \in Tokens : Held(e[v], tok) => Held(db[v], tok)
  BY <1>4 DEF Held
<1>7. \A v \in Urls : \/ e[v].state = durable[v].state
                      \/ <<durable[v].state, e[v].state>> \in Lifecycle!Moves
  BY <1>4 DEF IInv, CommitAllowed, Lifecycle!Moves, Lifecycle!Phases
<1>8. QED
  BY <1>2, <1>5, <1>6, <1>7, ExecuteInv DEF MarkFailedUnleased

LEMMA StoreMetadataInv ==
    ASSUME IInv, NEW l \in leases, NEW body \in Bodies, StoreMetadata(l, body)
    PROVE  IInv' /\ CommitStep
<1> DEFINE e == ReplaceMetadata(db, l.url, body)
<1>1. db \in Table /\ l.url \in Urls
  BY DEF IInv, TypeOK, BatchRecord, LeaseRecord
<1>2. e \in Table
  BY <1>1, MetadataType
<1>3. \A u \in Urls : /\ e[u].state = db[u].state /\ e[u].token = db[u].token
                      /\ e[u].expires = db[u].expires /\ e[u].retryAt = db[u].retryAt
  BY <1>1 DEF ReplaceMetadata, Table, Row
<1>4. \A u \in Urls : e[u].state \in Open => Leasable(e[u], now + Horizon)
  BY <1>3 DEF IInv, Reclaimable, Leasable, RetryDue, LeaseExpired
<1>5. \A u \in Urls : \A tok \in Tokens : Held(e[u], tok) => Held(db[u], tok)
  BY <1>3 DEF Held
<1>6. \A u \in Urls : \/ e[u].state = durable[u].state
                      \/ <<durable[u].state, e[u].state>> \in Lifecycle!Moves
  BY <1>3 DEF IInv, CommitAllowed
<1>7. QED
  BY <1>2, <1>4, <1>5, <1>6, ExecuteInv DEF StoreMetadata

\* Every list the SELECT may return is a sequence of keys.
LEMMA CandidatesType ==
    ASSUME NEW d, NEW t, NEW limit \in Nat, NEW s \in Candidates(d, t, limit)
    PROVE  s \in Seq(Urls)
<1> DEFINE E == {u \in Urls : Leasable(d[u], t)}
           n == IF Cardinality(E) < limit THEN Cardinality(E) ELSE limit
<1>1. Cardinality(E) \in Nat
  <2>1. IsFiniteSet(E)
    BY UrlsAssumption, FS_Subset
  <2>2. QED
    BY <2>1, FS_CardinalityType
<1>2. n \in Nat
  BY <1>1
<1>3. s \in [1 .. n -> E]
  BY DEF Candidates
<1>4. s \in [1 .. n -> Urls]
  BY <1>3
<1> HIDE DEF n
<1>5. QED
  BY <1>2, <1>4

LEMMA SelectInv ==
    ASSUME IInv, NEW limit \in BatchSizes, AcquireSelect(limit)
    PROVE  IInv' /\ CommitStep
<1>0. PICK t \in ClockReadings : \E todo \in Candidates(db, t, limit) :
         batch' = [active |-> TRUE, asOf |-> t, todo |-> todo, got |-> {}]
  BY DEF AcquireSelect
<1>1. PICK todo \in Candidates(db, t, limit) :
         batch' = [active |-> TRUE, asOf |-> t, todo |-> todo, got |-> {}]
  BY <1>0
<1>2. t \in Nat /\ t <= now
  BY Clock
<1>3. todo \in Seq(Urls)
  BY CandidatesType, StoreAssumption
<1>4. UNCHANGED <<db, durable, now, leases>>
  BY DEF AcquireSelect
<1>5. TypeOK'
  BY <1>1, <1>2, <1>3, <1>4 DEF IInv, TypeOK, BatchRecord
<1>6. BatchInPast'
  BY <1>1, <1>2, <1>4 DEF BatchInPast
<1>7. QED
  BY <1>4, <1>5, <1>6 DEF IInv, LeaseCommitted, Reclaimable, CommitAllowed, CommitStep

\* The UPDATE grants a lease under a token nobody holds, on a row that the moves
\* of the diagram lead from whatever the file says to In_Progress.
LEMMA UpdateInv ==
    ASSUME IInv, NEW tok \in Tokens, AcquireUpdate(tok)
    PROVE  IInv' /\ CommitStep
<1> DEFINE u == Head(batch.todo)
           expires == batch.asOf + LeaseTtl
           e == Lease(db, u, tok, expires, batch.asOf)
           r == [db[u] EXCEPT !.state = "In_Progress", !.token = tok,
                              !.expires = expires, !.renewals = 0]
<1>1. /\ db \in Table /\ durable \in Table
      /\ batch.todo \in Seq(Urls) /\ batch.todo # <<>>
      /\ batch.asOf \in Nat /\ batch.asOf <= now /\ now \in Nat
      /\ batch.got \subseteq LeaseRecord
  BY DEF IInv, TypeOK, BatchRecord, BatchInPast, AcquireUpdate
<1>2. u \in Urls /\ Tail(batch.todo) \in Seq(Urls)
  BY <1>1
<1>3. expires \in Nat /\ expires <= now + Horizon
  BY <1>1, StoreAssumption
<1>4. Execute(e) /\ UNCHANGED <<now, leases>>
  BY DEF AcquireUpdate, Execute
<1>5. e \in Table
  BY <1>1, <1>2, <1>3, LeaseType
<1>6. r.state = "In_Progress" /\ r.token = tok /\ r.expires = expires
  BY <1>1, <1>2 DEF Table, Row
<1>7. \A v \in Urls : e[v] = db[v] \/ (v = u /\ db[v].state \in Open /\ e[v] = r)
  BY <1>1, <1>2 DEF Lease, Leasable, RetryDue, LeaseExpired, Open, Table
<1>8. batch' \in BatchRecord /\ batch'.asOf = batch.asOf
  <2>1. [url |-> u, token |-> tok] \in LeaseRecord
    BY <1>2 DEF LeaseRecord
  <2>2. batch \in BatchRecord
    BY DEF IInv, TypeOK, BatchRecord
  <2>3. PICK got \in SUBSET LeaseRecord :
           batch' = [batch EXCEPT !.todo = Tail(batch.todo), !.got = got]
    BY <1>1, <2>1 DEF AcquireUpdate
  <2>4. QED
    BY <1>2, <2>2, <2>3 DEF BatchRecord
<1>9. ASSUME NEW l \in leases, Held(e[l.url], l.token)
      PROVE  Held(db[l.url], l.token)
  <2>1. l.url \in Urls /\ l.token # tok
    BY DEF IInv, TypeOK, BatchRecord, LeaseRecord, AcquireUpdate, InUse
  <2>2. e[l.url] = db[l.url]
    BY <1>6, <1>7, <1>9, <2>1 DEF Held
  <2>3. QED
    BY <1>9, <2>2
<1>10. ASSUME NEW v \in Urls, e[v].state \in Open
       PROVE  Leasable(e[v], now + Horizon)
  <2>1. CASE e[v] = db[v]
    BY <1>10, <2>1 DEF IInv, Reclaimable
  <2>2. CASE e[v] = r
    <3>1. Elapsed(r.expires, now + Horizon)
      BY <1>3, <1>6, NullAssumption DEF Elapsed
    <3>2. QED
      BY <1>6, <2>2, <3>1 DEF Leasable, LeaseExpired
  <2>3. QED
    BY <1>7, <2>1, <2>2
<1>11. \A v \in Urls : \/ e[v].state = durable[v].state
                       \/ <<durable[v].state, e[v].state>> \in Lifecycle!Moves
  BY <1>6, <1>7 DEF IInv, CommitAllowed, Open, Lifecycle!Moves, Lifecycle!Phases
<1>12. QED
  BY <1>4, <1>5, <1>8, <1>9, <1>10, <1>11, StatementInv

LEMMA CommitsInv ==
    ASSUME IInv, Commit \/ AcquireCommit
    PROVE  IInv' /\ CommitStep
<1>1. CASE Commit
  BY <1>1 DEF IInv, TypeOK, BatchRecord, BatchInPast, LeaseCommitted, Reclaimable, CommitAllowed, CommitStep,
              Commit
<1>2. CASE AcquireCommit
  <2>1. TypeOK'
    BY <1>2 DEF IInv, TypeOK, BatchRecord, AcquireCommit, NoBatch
  <2>2. BatchInPast'
    BY <1>2 DEF IInv, TypeOK, BatchRecord, BatchInPast, AcquireCommit, NoBatch
  <2>3. LeaseCommitted' /\ Reclaimable' /\ CommitAllowed'
    BY <1>2 DEF IInv, LeaseCommitted, Reclaimable, CommitAllowed, AcquireCommit
  <2>4. CommitStep
    BY <1>2 DEF IInv, CommitAllowed, CommitStep, AcquireCommit
  <2>5. QED
    BY <2>1, <2>2, <2>3, <2>4 DEF IInv
<1>3. QED
  BY <1>1, <1>2

\* What is leasable stays leasable as the clock moves.
LEMMA LeasableLater ==
    ASSUME NEW r \in Row, NEW t \in Nat, NEW v \in Nat, t <= v, Leasable(r, t)
    PROVE  Leasable(r, v)
<1>1. \A at \in Nat \cup {Null} : Elapsed(at, t) => Elapsed(at, v)
  BY NullAssumption DEF Elapsed
<1>2. QED
  BY <1>1 DEF Leasable, RetryDue, LeaseExpired, Row

LEMMA SurroundingsInv ==
    ASSUME IInv, Tick \/ Crash \/ (\E l \in leases : Forget(l))
    PROVE  IInv' /\ CommitStep
<1>1. CASE Tick
  <2>1. TypeOK' /\ BatchInPast' /\ LeaseCommitted' /\ CommitAllowed'
    BY <1>1 DEF IInv, TypeOK, BatchRecord, BatchInPast, LeaseCommitted, CommitAllowed, Tick
  <2>2. Reclaimable'
    <3>1. now + Horizon \in Nat /\ now' + Horizon \in Nat /\ now + Horizon <= now' + Horizon
      BY <1>1, StoreAssumption DEF IInv, TypeOK, BatchRecord, Tick
    <3>2. \A u \in Urls : db[u] \in Row /\ durable[u] \in Row
      BY DEF IInv, TypeOK, BatchRecord, Table
    <3>3. UNCHANGED <<db, durable>>
      BY <1>1 DEF Tick
    <3>4. QED
      BY <3>1, <3>2, <3>3, LeasableLater DEF IInv, Reclaimable
  <2>3. QED
    BY <1>1, <2>1, <2>2 DEF IInv, CommitStep, Tick
<1>2. CASE Crash
  <2>1. TypeOK' /\ BatchInPast'
    BY <1>2 DEF IInv, TypeOK, BatchRecord, BatchInPast, Crash, NoBatch
  <2>2. LeaseCommitted' /\ Reclaimable' /\ CommitAllowed'
    BY <1>2 DEF IInv, LeaseCommitted, Reclaimable, CommitAllowed, Crash
  <2>3. QED
    BY <1>2, <2>1, <2>2 DEF IInv, CommitStep, Crash
<1>3. CASE \E l \in leases : Forget(l)
  BY <1>3 DEF IInv, TypeOK, BatchRecord, BatchInPast, LeaseCommitted, Reclaimable, CommitAllowed, CommitStep,
              Forget
<1>4. QED
  BY <1>1, <1>2, <1>3

LEMMA NextInv == IInv /\ [Next]_vars => IInv' /\ CommitStep
<1> SUFFICES ASSUME IInv, [Next]_vars PROVE IInv' /\ CommitStep
  OBVIOUS
<1>1. CASE UNCHANGED vars
  BY <1>1 DEF IInv, TypeOK, BatchRecord, BatchInPast, LeaseCommitted, Reclaimable, CommitAllowed, CommitStep,
              vars
<1>2. CASE Next
  BY <1>2, EnqueueInv, SelectInv, UpdateInv, CommitsInv, RenewInv, ExpireInv, ReportsInv,
     FailUnleasedInv, StoreMetadataInv, SurroundingsInv DEF Next
<1>3. QED
  BY <1>1, <1>2

-----------------------------------------------------------------------------
(* The action properties, one step at a time.                              *)

\* What a step may do to the row of a live lease whose holder is still there.
LiveKept(l) == Held(db'[l.url], l.token) \/ db'[l.url].state \in Reported

LEMMA LiveLeaseStep ==
    ASSUME IInv, [Next]_vars, NEW l \in leases \cap leases',
           Held(db[l.url], l.token), db[l.url].expires > now
    PROVE  LiveKept(l)
<1>1. db \in Table /\ l.url \in Urls /\ l.token \in Tokens /\ now \in Nat
  BY DEF IInv, TypeOK, BatchRecord, LeaseRecord
<1>2. \A t \in Nat : t <= now => ~Leasable(db[l.url], t)
  <2>1. db[l.url].expires \in Nat \/ db[l.url].expires = Null
    BY <1>1 DEF Table, Row
  <2>2. \A t \in Nat : t <= now => ~Elapsed(db[l.url].expires, t)
    BY <1>1, <2>1 DEF Elapsed
  <2>3. QED
    BY <2>2 DEF Leasable, RetryDue, LeaseExpired, Held
<1>3. CASE UNCHANGED vars
  BY <1>3 DEF vars, LiveKept
<1>4. ASSUME NEW u \in Urls, NEW depth \in Depths, NEW parent \in Parents,
             NEW n \in RedirectCounts, Enqueue(u, depth, parent, n)
      PROVE  LiveKept(l)
  <2>1. db'[l.url] = db[l.url]
    BY <1>1, <1>4 DEF Enqueue, Execute, Insert, Exists, Held, Table
  <2>2. QED
    BY <2>1 DEF LiveKept
<1>5. ASSUME NEW limit \in BatchSizes, AcquireSelect(limit)
      PROVE  LiveKept(l)
  BY <1>5 DEF AcquireSelect, LiveKept
<1>6. ASSUME NEW tok \in Tokens, AcquireUpdate(tok)
      PROVE  LiveKept(l)
  <2>1. ~Leasable(db[l.url], batch.asOf)
    BY <1>2 DEF IInv, TypeOK, BatchRecord, BatchInPast
  <2>2. db'[l.url] = db[l.url]
    BY <1>1, <1>6, <2>1 DEF AcquireUpdate, Execute, Lease, Table
  <2>3. QED
    BY <2>2 DEF LiveKept
<1>7. ASSUME NEW k \in leases, RenewLease(k)
      PROVE  LiveKept(l)
  <2>1. PICK t \in ClockReadings : db' = Renew(db, k.url, k.token, t + LeaseTtl)
    BY <1>7 DEF RenewLease, Execute
  <2> DEFINE r == [db[l.url] EXCEPT !.expires = t + LeaseTtl, !.renewals = @ + 1]
  <2>2. r.state = db[l.url].state /\ r.token = db[l.url].token
    BY <1>1 DEF Table, Row
  <2>3. db'[l.url] = db[l.url] \/ db'[l.url] = r
    BY <1>1, <2>1 DEF Renew, Table
  <2>4. QED
    BY <2>2, <2>3 DEF LiveKept, Held
<1>8. CASE ExpireLeases
  <2>1. PICK t \in ClockReadings : db' = Expire(db, t)
    BY <1>8 DEF ExpireLeases, Execute
  <2>2. ~LeaseExpired(db[l.url], t)
    BY <1>2, Clock DEF Leasable
  <2>3. QED
    BY <1>1, <2>1, <2>2 DEF Expire, LiveKept
<1>9. ASSUME NEW k \in leases, Report(k)
      PROVE  LiveKept(l)
  <2>1. \A u \in Urls, state \in Reported : Release(db[u], state).state = state
    BY <1>1 DEF Release, Table, Row
  <2>2. ASSUME NEW body \in Bodies \cup {Null}, MarkCompleted(k, body)
        PROVE  LiveKept(l)
    <3> DEFINE r == [Release(db[l.url], "Completed") EXCEPT !.content = body]
    <3>1. r.state = "Completed"
      BY <1>1 DEF Release, Table, Row
    <3>2. db'[l.url] = db[l.url] \/ db'[l.url] = r
      BY <1>1, <2>2 DEF MarkCompleted, Execute, Complete, Table
    <3>3. QED
      BY <3>1, <3>2 DEF LiveKept, Reported
  <2>3. ASSUME NEW count \in RetryCounts, NEW delay \in RetryDelays, MarkRetry(k, count, delay)
        PROVE  LiveKept(l)
    <3>1. PICK t \in ClockReadings : db' = Reschedule(db, k.url, k.token, count, t + delay)
      BY <2>3 DEF MarkRetry, Execute
    <3> DEFINE r == [Release(db[l.url], "Retry") EXCEPT !.retries = count, !.retryAt = t + delay]
    <3>2. r.state = "Retry"
      BY <1>1 DEF Release, Table, Row
    <3>3. db'[l.url] = db[l.url] \/ db'[l.url] = r
      BY <1>1, <3>1 DEF Reschedule, Table
    <3>4. QED
      BY <3>2, <3>3 DEF LiveKept, Reported
  <2>4. CASE MarkTerminalFailed(k) \/ MarkFailed(k)
    <3>1. \/ db'[l.url] = db[l.url]
          \/ db'[l.url] = Release(db[l.url], "Terminal_Failed")
          \/ db'[l.url] = Release(db[l.url], "Failed")
      BY <1>1, <2>4 DEF MarkTerminalFailed, MarkFailed, Execute, FailTerminally, Fail, Table
    <3>2. QED
      BY <1>1, <2>1, <3>1 DEF LiveKept, Reported
  <2>5. QED
    BY <1>9, <2>2, <2>3, <2>4 DEF Report
<1>10. ASSUME NEW u \in Urls, MarkFailedUnleased(u)
       PROVE  LiveKept(l)
  <2>1. db'[l.url] = db[l.url]
    BY <1>1, <1>10 DEF MarkFailedUnleased, Execute, FailWaiting, Held, Table
  <2>2. QED
    BY <2>1 DEF LiveKept
<1>11. ASSUME NEW k \in leases, NEW body \in Bodies, StoreMetadata(k, body)
       PROVE  LiveKept(l)
  <2> DEFINE r == [db[l.url] EXCEPT !.meta = body]
  <2>1. r.state = db[l.url].state /\ r.token = db[l.url].token
    BY <1>1 DEF Table, Row
  <2>2. db'[l.url] = db[l.url] \/ db'[l.url] = r
    BY <1>1, <1>11 DEF StoreMetadata, Execute, ReplaceMetadata, Table
  <2>3. QED
    BY <2>1, <2>2 DEF LiveKept, Held
<1>12. CASE Commit \/ AcquireCommit \/ Tick \/ (\E k \in leases : Forget(k))
  BY <1>12 DEF Commit, AcquireCommit, Tick, Forget, LiveKept
<1>13. CASE Crash
  BY <1>13 DEF Crash
<1>14. QED
  BY <1>3, <1>4, <1>5, <1>6, <1>7, <1>8, <1>9, <1>10, <1>11, <1>12, <1>13 DEF Next

LEMMA RetryStep ==
    ASSUME IInv, [Next]_vars, NEW l \in batch'.got \ batch.got, db[l.url].state = "Retry"
    PROVE  db[l.url].retryAt <= now
<1>1. CASE \E tok \in Tokens : AcquireUpdate(tok)
  <2>1. PICK tok \in Tokens : AcquireUpdate(tok)
    BY <1>1
  <2> DEFINE u == Head(batch.todo)
  <2>2. l = [url |-> u, token |-> tok] /\ db'[u].token = tok
    BY <2>1 DEF AcquireUpdate, IInv, TypeOK, BatchRecord
  <2>3. db'[u] # db[u]
    <3>1. u \in Urls
      BY <2>1 DEF AcquireUpdate, IInv, TypeOK, BatchRecord
    <3>2. db[u].token # tok
      BY <2>1, <3>1 DEF AcquireUpdate, InUse
    <3>3. QED
      BY <2>2, <3>2
  <2>4. Leasable(db[u], batch.asOf)
    BY <2>1, <2>3 DEF AcquireUpdate, Execute, Lease
  <2>5. Elapsed(db[u].retryAt, batch.asOf)
    BY <2>2, <2>4 DEF Leasable, RetryDue, LeaseExpired
  <2>6. batch.asOf \in Nat /\ batch.asOf <= now /\ now \in Nat /\ db[u].retryAt \in Nat \cup {Null}
    BY <2>1 DEF AcquireUpdate, IInv, TypeOK, BatchRecord, BatchInPast, Table, Row
  <2>7. QED
    BY <2>2, <2>5, <2>6 DEF Elapsed
<1>2. CASE ~\E tok \in Tokens : AcquireUpdate(tok)
  <2>1. batch'.got = batch.got \/ batch'.got = {}
    BY <1>2 DEF Next, vars, Enqueue, AcquireSelect, AcquireCommit, RenewLease, ExpireLeases,
       Report, MarkCompleted, MarkRetry, MarkTerminalFailed, MarkFailed, MarkFailedUnleased,
       StoreMetadata, Commit, Forget, Tick, Crash, NoBatch
  <2>2. QED
    BY <2>1
<1>3. QED
  BY <1>1, <1>2

-----------------------------------------------------------------------------
(* Theorems.                                                               *)

LEMMA Invariance == Spec => []IInv
BY InitInv, NextInv, PTL DEF Spec

\* The store's tables, batches and leases stay well typed; in particular no row's
\* renewal count passes the limit of renew_lease.
THEOREM TypeCorrect == Spec => []TypeOK
<1>1. IInv => TypeOK
  BY DEF IInv
<1>2. QED
  BY <1>1, Invariance, PTL

\* acquire_lease_batch hands out only committed leases, and they stay committed
\* while current.
THEOREM LeasesAreCommitted == Spec => []LeaseCommitted
<1>1. IInv => LeaseCommitted
  BY DEF IInv
<1>2. QED
  BY <1>1, Invariance, PTL

\* No statement, commit or crash leaves an open URL that cannot be leased again.
THEOREM RowsAreReclaimable == Spec => []Reclaimable
<1>1. IInv => Reclaimable
  BY DEF IInv
<1>2. QED
  BY <1>1, Invariance, PTL

\* Neither expire_leases nor a stale batch takes a lease that has not expired.
THEOREM LiveLeasesStand == Spec => LiveLeaseRespected
<1>1. IInv /\ [Next]_vars =>
        [\A l \in leases \cap leases' :
            Held(db[l.url], l.token) /\ db[l.url].expires > now
              => Held(db'[l.url], l.token) \/ db'[l.url].state \in Reported]_vars
  BY LiveLeaseStep DEF LiveKept
<1>2. QED
  BY <1>1, Invariance, PTL DEF Spec, LiveLeaseRespected

\* acquire_lease_batch never leases a URL before its backoff is over.
THEOREM RetriesWait == Spec => RetryNotEarly
<1>1. IInv /\ [Next]_vars =>
        [\A l \in batch'.got \ batch.got :
            db[l.url].state = "Retry" => db[l.url].retryAt <= now]_vars
  BY RetryStep
<1>2. QED
  BY <1>1, Invariance, PTL DEF Spec, RetryNotEarly

\* The file follows the state diagram of the crawl, commit by commit.
THEOREM FileFollowsLifecycle == Spec => ImplementsLifecycle
<1>1. Init => Lifecycle!Init
  BY DEF Init, Lifecycle!Init, EmptyTable, NoRow
<1>2. IInv /\ IInv' /\ [Next]_vars => [Lifecycle!Commit]_([u \in Urls |-> durable[u].state])
  <2> SUFFICES ASSUME IInv, IInv', [Next]_vars
               PROVE  Lifecycle!Commit
    OBVIOUS
  <2>1. CommitStep
    BY NextInv
  <2>2. [u \in Urls |-> durable'[u].state] \in [Urls -> Lifecycle!Phases]
    BY DEF IInv, TypeOK, BatchRecord, Table, Row, States, Lifecycle!Phases
  <2>3. QED
    BY <2>1, <2>2 DEF CommitStep, Lifecycle!Commit, Lifecycle!Moves
<1>3. QED
  BY <1>1, <1>2, Invariance, PTL DEF Spec, ImplementsLifecycle, Lifecycle!Spec
=============================================================================
