-------------------------- MODULE UrlRecordsProofs --------------------------
(***************************************************************************)
(* Every statement of UrlRecords maps tables to tables.                    *)
(***************************************************************************)
EXTENDS UrlRecords, TLAPS

\* Writing one row leaves a table.
LEMMA PutType ==
    ASSUME NEW d \in Table, NEW u \in Urls, NEW r \in Row
    PROVE  [d EXCEPT ![u] = r] \in Table
BY DEF Table

\* NoRow is a row, so a new database (schema created, nothing inserted) is a table.
LEMMA EmptyTableType == NoRow \in Row /\ EmptyTable \in Table
BY RenewalAssumption DEF EmptyTable, Table, NoRow, Row, States

\* The four reports release a row in the same way.
LEMMA ReleaseType ==
    ASSUME NEW r \in Row, NEW state \in States
    PROVE  Release(r, state) \in Row
BY DEF Release, Row

\* enqueue's INSERT OR IGNORE, with a parent that passed the foreign key.
LEMMA InsertType ==
    ASSUME NEW d \in Table, NEW u \in Urls, NEW depth \in Nat, NEW redirects \in Nat,
           NEW parent \in Urls \cup {Null}
    PROVE  Insert(d, u, depth, parent, redirects) \in Table
<1>1. [NoRow EXCEPT !.state = "Pending", !.depth = depth,
                    !.parent = parent, !.redirects = redirects] \in Row
  BY EmptyTableType DEF Row, States
<1>2. QED
  BY <1>1, PutType DEF Insert

\* acquire_lease_batch's UPDATE.
LEMMA LeaseType ==
    ASSUME NEW d \in Table, NEW u \in Urls, NEW tok \in Tokens, NEW expires \in Nat, NEW t
    PROVE  Lease(d, u, tok, expires, t) \in Table
<1>1. d[u] \in Row
  BY DEF Table
<1>2. [d[u] EXCEPT !.state = "In_Progress", !.token = tok,
                   !.expires = expires, !.renewals = 0] \in Row
  <2>1. "In_Progress" \in States /\ 0 \in 0 .. MaxRenewals
    BY RenewalAssumption DEF States
  <2>2. QED
    BY <1>1, <2>1 DEF Row
<1>3. QED
  BY <1>2, PutType DEF Lease

\* renew_lease: the count stays within the limit its WHERE clause sets.
LEMMA RenewType ==
    ASSUME NEW d \in Table, NEW u \in Urls, NEW tok, NEW expires \in Nat
    PROVE  Renew(d, u, tok, expires) \in Table
<1>1. d[u] \in Row
  BY DEF Table
<1>2. CASE d[u].renewals < MaxRenewals
  <2>1. d[u].renewals + 1 \in 0 .. MaxRenewals
    BY <1>1, <1>2, RenewalAssumption DEF Row
  <2>2. [d[u] EXCEPT !.expires = expires, !.renewals = @ + 1] \in Row
    BY <1>1, <2>1 DEF Row
  <2>3. QED
    BY <2>2, PutType DEF Renew
<1>3. CASE ~(d[u].renewals < MaxRenewals)
  BY <1>3 DEF Renew
<1>4. QED
  BY <1>2, <1>3

\* expire_leases.
LEMMA ExpireType ==
    ASSUME NEW d \in Table, NEW t
    PROVE  Expire(d, t) \in Table
<1>1. SUFFICES ASSUME NEW u \in Urls
               PROVE  [d[u] EXCEPT !.state = "Pending", !.token = Null,
                                   !.expires = Null, !.renewals = 0] \in Row
  BY DEF Expire, Table
<1>2. d[u] \in Row
  BY DEF Table
<1>3. "Pending" \in States /\ 0 \in 0 .. MaxRenewals
  BY RenewalAssumption DEF States
<1>4. QED
  BY <1>2, <1>3 DEF Row

\* mark_completed.
LEMMA CompleteType ==
    ASSUME NEW d \in Table, NEW u \in Urls, NEW tok, NEW body \in Bodies \cup {Null}
    PROVE  Complete(d, u, tok, body) \in Table
<1>1. Release(d[u], "Completed") \in Row
  BY ReleaseType DEF Table, States
<1>2. [Release(d[u], "Completed") EXCEPT !.content = body] \in Row
  BY <1>1 DEF Row
<1>3. QED
  BY <1>2, PutType DEF Complete

\* mark_retry.
LEMMA RescheduleType ==
    ASSUME NEW d \in Table, NEW u \in Urls, NEW tok, NEW count \in Nat, NEW at \in Nat
    PROVE  Reschedule(d, u, tok, count, at) \in Table
<1>1. Release(d[u], "Retry") \in Row
  BY ReleaseType DEF Table, States
<1>2. [Release(d[u], "Retry") EXCEPT !.retries = count, !.retryAt = at] \in Row
  BY <1>1 DEF Row
<1>3. QED
  BY <1>2, PutType DEF Reschedule

\* mark_terminal_failed, and mark_failed with and without a token.
LEMMA FailType ==
    ASSUME NEW d \in Table, NEW u \in Urls, NEW tok
    PROVE  /\ FailTerminally(d, u, tok) \in Table
           /\ Fail(d, u, tok) \in Table
           /\ FailWaiting(d, u) \in Table
<1>1. Release(d[u], "Terminal_Failed") \in Row /\ Release(d[u], "Failed") \in Row
  BY ReleaseType DEF Table, States
<1>2. QED
  BY <1>1, PutType DEF FailTerminally, Fail, FailWaiting

\* store_*_metadata.
LEMMA MetadataType ==
    ASSUME NEW d \in Table, NEW u \in Urls, NEW body \in Bodies
    PROVE  ReplaceMetadata(d, u, body) \in Table
<1>1. [d[u] EXCEPT !.meta = body] \in Row
  BY DEF Table, Row
<1>2. [d EXCEPT ![u].meta = body] = [d EXCEPT ![u] = [d[u] EXCEPT !.meta = body]]
  OBVIOUS
<1>3. QED
  BY <1>1, <1>2, PutType DEF ReplaceMetadata

-----------------------------------------------------------------------------
(* What each statement does to the rows: all but at most one are as they   *)
(* were.                                                                   *)

\* enqueue: the row is there afterwards.
LEMMA InsertRows ==
    ASSUME NEW d \in Table, NEW u \in Urls, NEW depth, NEW parent, NEW redirects,
           NEW e, e = Insert(d, u, depth, parent, redirects)
    PROVE  /\ \A v \in Urls : v # u \/ Exists(d, u) => e[v] = d[v]
           /\ ~Exists(d, u) => /\ e[u].state = "Pending" /\ e[u].token = Null
                              /\ e[u].depth = depth /\ e[u].redirects = redirects
                              /\ e[u].retries = 0 /\ e[u].content = Null
           /\ Exists(e, u)
<1>1. CASE Exists(d, u)
  BY <1>1 DEF Insert
<1>2. CASE ~Exists(d, u)
  <2> DEFINE r == [NoRow EXCEPT !.state = "Pending", !.depth = depth,
                                !.parent = parent, !.redirects = redirects]
  <2>1. e = [d EXCEPT ![u] = r]
    BY <1>2 DEF Insert
  <2>2. /\ r.state = "Pending" /\ r.token = Null /\ r.depth = depth
        /\ r.redirects = redirects /\ r.retries = 0 /\ r.content = Null
    BY DEF NoRow
  <2>3. e[u] = r /\ \A v \in Urls : v # u => e[v] = d[v]
    BY <2>1 DEF Table
  <2> HIDE DEF r
  <2> QED  BY <1>2, <2>2, <2>3 DEF Exists
<1> QED  BY <1>1, <1>2

\* acquire_lease_batch's UPDATE: it takes the row, or changes nothing.
LEMMA LeaseRows ==
    ASSUME NEW d \in Table, NEW u \in Urls, NEW tok, NEW expires, NEW t,
           NEW e, e = Lease(d, u, tok, expires, t)
    PROVE  /\ \A v \in Urls : v # u \/ ~Leasable(d[u], t) => e[v] = d[v]
           /\ ~Leasable(d[u], t) => e = d
           /\ Leasable(d[u], t) =>
                 /\ e[u].state = "In_Progress" /\ e[u].token = tok /\ e[u].expires = expires
                 /\ e[u].depth = d[u].depth /\ e[u].redirects = d[u].redirects
                 /\ e[u].retries = d[u].retries /\ e[u].content = d[u].content
BY DEF Lease, Table, Row

\* renew_lease.
LEMMA RenewRows ==
    ASSUME NEW d \in Table, NEW u \in Urls, NEW tok, NEW expires,
           NEW e, e = Renew(d, u, tok, expires)
    PROVE  /\ \A v \in Urls : v # u => e[v] = d[v]
           /\ e[u].state = d[u].state /\ e[u].token = d[u].token
           /\ e[u].depth = d[u].depth /\ e[u].redirects = d[u].redirects
           /\ e[u].retries = d[u].retries /\ e[u].content = d[u].content
           /\ e[u].expires \in {expires, d[u].expires}
           /\ e = d \/ Held(d[u], tok)
BY DEF Renew, Table, Row, Held

\* expire_leases: the leases of the rows it resets are over.
LEMMA ExpireRows ==
    ASSUME NEW d \in Table, NEW t, NEW e, e = Expire(d, t), NEW u \in Urls
    PROVE  /\ ~LeaseExpired(d[u], t) => e[u] = d[u]
           /\ LeaseExpired(d[u], t) => e[u].state = "Pending"
           /\ e[u].depth = d[u].depth /\ e[u].redirects = d[u].redirects
           /\ e[u].retries = d[u].retries /\ e[u].content = d[u].content
BY DEF Expire, Table, Row

\* mark_completed.
LEMMA CompleteRows ==
    ASSUME NEW d \in Table, NEW u \in Urls, NEW tok, NEW body,
           NEW e, e = Complete(d, u, tok, body)
    PROVE  /\ \A v \in Urls : v # u \/ ~Held(d[u], tok) => e[v] = d[v]
           /\ Held(d[u], tok) => e[u].state = "Completed" /\ e[u].content = body
           /\ e[u].depth = d[u].depth /\ e[u].redirects = d[u].redirects
           /\ e[u].retries = d[u].retries
BY DEF Complete, Release, Table, Row

\* mark_retry.
LEMMA RescheduleRows ==
    ASSUME NEW d \in Table, NEW u \in Urls, NEW tok, NEW count, NEW at,
           NEW e, e = Reschedule(d, u, tok, count, at)
    PROVE  /\ \A v \in Urls : v # u \/ ~Held(d[u], tok) => e[v] = d[v]
           /\ Held(d[u], tok) => e[u].state = "Retry" /\ e[u].retries = count
           /\ e[u].depth = d[u].depth /\ e[u].redirects = d[u].redirects
           /\ e[u].content = d[u].content
BY DEF Reschedule, Release, Table, Row

\* mark_terminal_failed.
LEMMA FailTerminallyRows ==
    ASSUME NEW d \in Table, NEW u \in Urls, NEW tok, NEW e, e = FailTerminally(d, u, tok)
    PROVE  /\ \A v \in Urls : v # u \/ ~Held(d[u], tok) => e[v] = d[v]
           /\ Held(d[u], tok) => e[u].state = "Terminal_Failed"
           /\ e[u].depth = d[u].depth /\ e[u].redirects = d[u].redirects
           /\ e[u].retries = d[u].retries /\ e[u].content = d[u].content
BY DEF FailTerminally, Release, Table, Row

\* mark_failed.
LEMMA FailRows ==
    ASSUME NEW d \in Table, NEW u \in Urls, NEW tok, NEW e, e = Fail(d, u, tok)
    PROVE  /\ \A v \in Urls : v # u \/ ~Held(d[u], tok) => e[v] = d[v]
           /\ Held(d[u], tok) => e[u].state = "Failed"
           /\ e[u].depth = d[u].depth /\ e[u].redirects = d[u].redirects
           /\ e[u].retries = d[u].retries /\ e[u].content = d[u].content
BY DEF Fail, Release, Table, Row

\* store_*_metadata.
LEMMA MetadataRows ==
    ASSUME NEW d \in Table, NEW u \in Urls, NEW body, NEW e, e = ReplaceMetadata(d, u, body),
           NEW v \in Urls
    PROVE  /\ e[v].state = d[v].state /\ e[v].token = d[v].token /\ e[v].expires = d[v].expires
           /\ e[v].depth = d[v].depth /\ e[v].redirects = d[v].redirects
           /\ e[v].retries = d[v].retries /\ e[v].content = d[v].content
BY DEF ReplaceMetadata, Table, Row
=============================================================================
