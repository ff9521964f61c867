----------------------------- MODULE UrlRecords -----------------------------
(***************************************************************************)
(* The table url_records of metadata_store.py, and each SQL statement the  *)
(* store executes on it as an operator from one table value to the next.   *)
(* A statement is atomic (SQLite runs the statements of the one shared     *)
(* connection one at a time); what may happen between two statements is    *)
(* the business of the modules that extend this one.                       *)
(*                                                                         *)
(* Abstractions: time is an integer, one unit standing for a number of     *)
(* milliseconds chosen by the instance; a URL, a lease token and a content *)
(* hash are opaque values; columns no statement's condition reads          *)
(* (failure_reason, etag, content_type, timestamps, lease_owner_id) are    *)
(* left out; the four *_metadata tables, at most one row per URL in each,  *)
(* are the field meta.                                                     *)
(***************************************************************************)
EXTENDS Integers, FiniteSets, Sequences

CONSTANTS
    Urls,         \* normalized URLs, the primary key
    Tokens,       \* lease tokens (uuid4)
    Bodies,       \* content hashes / metadata payloads
    Null,         \* SQL NULL
    MaxRenewals   \* the limit in renew_lease's WHERE clause (3)

ASSUME UrlsAssumption    == IsFiniteSet(Urls) /\ Null \notin Urls
ASSUME NullAssumption    == Null \notin Tokens \cup Bodies \cup Nat
ASSUME RenewalAssumption == MaxRenewals \in Nat \ {0}

States   == {"Pending", "In_Progress", "Completed", "Retry", "Failed", "Terminal_Failed"}
Reported == {"Completed", "Retry", "Failed", "Terminal_Failed"}
Terminal == {"Completed", "Failed", "Terminal_Failed"}
Open     == {"Pending", "In_Progress", "Retry"}

Row == [state     : States \cup {"Absent"},
        token     : Tokens \cup {Null},
        expires   : Nat \cup {Null},
        renewals  : 0 .. MaxRenewals,
        retries   : Nat,
        retryAt   : Nat \cup {Null},
        depth     : Nat,
        parent    : Urls \cup {Null},
        redirects : Nat,
        content   : Bodies \cup {Null},
        meta      : Bodies \cup {Null}]

Table == [Urls -> Row]

\* A key with no row.
NoRow == [state |-> "Absent", token |-> Null, expires |-> Null, renewals |-> 0,
          retries |-> 0, retryAt |-> Null, depth |-> 0, parent |-> Null,
          redirects |-> 0, content |-> Null, meta |-> Null]

EmptyTable == [u \in Urls |-> NoRow]

-----------------------------------------------------------------------------
(* Conditions of the WHERE clauses.                                        *)

Exists(d, u) == d[u].state # "Absent"

\* "column <= ?" is not true of NULL
Elapsed(at, t) == at # Null /\ at <= t

RetryDue(r, t)     == r.state = "Retry" /\ Elapsed(r.retryAt, t)

\* Mutant: a lease that was never renewed is never taken to have expired.
LeaseExpiredOnceRenewed(r, t) ==
    r.state = "In_Progress" /\ r.renewals > 0 /\ Elapsed(r.expires, t)

LeaseExpired(r, t) == r.state = "In_Progress" /\ Elapsed(r.expires, t)
Leasable(r, t)     == r.state = "Pending" \/ RetryDue(r, t) \/ LeaseExpired(r, t)

\* the check every report is guarded by
Held(r, tok) == r.state = "In_Progress" /\ r.token = tok

-----------------------------------------------------------------------------
(* The SELECT of acquire_lease_batch.                                      *)

Tier(r) == CASE r.state = "Retry"       -> 1
             [] r.state = "In_Progress" -> 2
             [] OTHER                   -> 3

\* ORDER BY priority ASC, crawl_depth ASC; ties come in any order
NoLater(r, q) == \/ Tier(r) < Tier(q)
                 \/ Tier(r) = Tier(q) /\ r.depth <= q.depth

\* every list the SELECT may return at clock value t under LIMIT limit
Candidates(d, t, limit) ==
    LET E == {u \in Urls : Leasable(d[u], t)}
        n == IF Cardinality(E) < limit THEN Cardinality(E) ELSE limit
    IN  {s \in [1 .. n -> E] :
            /\ \A i, j \in 1 .. n : i < j => s[i] # s[j] /\ NoLater(d[s[i]], d[s[j]])
            /\ \A u \in E : \/ \E i \in 1 .. n : s[i] = u
                            \/ \A i \in 1 .. n : NoLater(d[s[i]], d[u])}

-----------------------------------------------------------------------------
(* INSERT and UPDATE statements.                                           *)

\* The foreign key on parent_url is checked only when a row is inserted.
InsertFails(d, u, parent) ==
    /\ ~Exists(d, u)
    /\ parent # Null
    /\ parent \in Urls => ~Exists(d, parent)

\* INSERT OR IGNORE
Insert(d, u, depth, parent, redirects) ==
    IF Exists(d, u) THEN d
    ELSE [d EXCEPT ![u] = [NoRow EXCEPT !.state = "Pending", !.depth = depth,
                                        !.parent = parent, !.redirects = redirects]]

\* Mutant: the row is not examined again.
LeaseUnchecked(d, u, tok, expires, t) ==
    [d EXCEPT ![u] = [d[u] EXCEPT !.state = "In_Progress", !.token = tok,
                                  !.expires = expires, !.renewals = 0]]

\* Mutant: the row is examined again, but not when its retry is due.
LeaseBeforeBackoff(d, u, tok, expires, t) ==
    IF Leasable(d[u], t) \/ d[u].state = "Retry"
    THEN LeaseUnchecked(d, u, tok, expires, t) ELSE d

\* The UPDATE of acquire_lease_batch: the row is examined again.
Lease(d, u, tok, expires, t) ==
    IF Leasable(d[u], t)
    THEN [d EXCEPT ![u] = [d[u] EXCEPT !.state = "In_Progress", !.token = tok,
                                       !.expires = expires, !.renewals = 0]]
    ELSE d

\* Mutant: renewals are counted but not limited.
RenewUnlimited(d, u, tok, expires) ==
    IF Held(d[u], tok)
    THEN [d EXCEPT ![u] = [d[u] EXCEPT !.expires = expires, !.renewals = @ + 1]]
    ELSE d

Renew(d, u, tok, expires) ==
    IF Held(d[u], tok) /\ d[u].renewals < MaxRenewals
    THEN [d EXCEPT ![u] = [d[u] EXCEPT !.expires = expires, !.renewals = @ + 1]]
    ELSE d

\* Mutant: every lease is reset, expired or not.
ExpireAll(d, t) ==
    [u \in Urls |-> IF d[u].state = "In_Progress"
                    THEN [d[u] EXCEPT !.state = "Pending", !.token = Null,
                                      !.expires = Null, !.renewals = 0]
                    ELSE d[u]]

Expire(d, t) ==
    [u \in Urls |-> IF LeaseExpired(d[u], t)
                    THEN [d[u] EXCEPT !.state = "Pending", !.token = Null,
                                      !.expires = Null, !.renewals = 0]
                    ELSE d[u]]

\* What the four guarded reports have in common; the renewal count stays.
Release(r, state) == [r EXCEPT !.state = state, !.token = Null, !.expires = Null]

\* Mutant: the report is not guarded by the lease.
CompleteUnguarded(d, u, tok, body) ==
    [d EXCEPT ![u] = [Release(d[u], "Completed") EXCEPT !.content = body]]

Complete(d, u, tok, body) ==
    IF Held(d[u], tok)
    THEN [d EXCEPT ![u] = [Release(d[u], "Completed") EXCEPT !.content = body]]
    ELSE d

\* Mutant: next_retry_at is not written (the alias of the parameter is ignored).
RescheduleUndated(d, u, tok, count, at) ==
    IF Held(d[u], tok)
    THEN [d EXCEPT ![u] = [Release(d[u], "Retry") EXCEPT !.retries = count]]
    ELSE d

\* Mutant: the report is not guarded by the lease.
RescheduleUnguarded(d, u, tok, count, at) ==
    [d EXCEPT ![u] = [Release(d[u], "Retry") EXCEPT !.retries = count, !.retryAt = at]]

Reschedule(d, u, tok, count, at) ==
    IF Held(d[u], tok)
    THEN [d EXCEPT ![u] = [Release(d[u], "Retry") EXCEPT !.retries = count, !.retryAt = at]]
    ELSE d

\* Mutant: the report is not guarded by the lease.
FailTerminallyUnguarded(d, u, tok) ==
    [d EXCEPT ![u] = Release(d[u], "Terminal_Failed")]

FailTerminally(d, u, tok) ==
    IF Held(d[u], tok) THEN [d EXCEPT ![u] = Release(d[u], "Terminal_Failed")] ELSE d

Fail(d, u, tok) ==
    IF Held(d[u], tok) THEN [d EXCEPT ![u] = Release(d[u], "Failed")] ELSE d

\* Mutant: the state is not looked at.
FailWhatever(d, u) ==
    IF Exists(d, u) THEN [d EXCEPT ![u] = Release(d[u], "Failed")] ELSE d

\* mark_failed without a token
FailWaiting(d, u) ==
    IF d[u].state = "Retry" THEN [d EXCEPT ![u] = Release(d[u], "Failed")] ELSE d

\* INSERT OR REPLACE into a *_metadata table: no lease is looked at.
ReplaceMetadata(d, u, body) ==
    IF Exists(d, u) THEN [d EXCEPT ![u].meta = body] ELSE d

=============================================================================
