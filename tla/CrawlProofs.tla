---------------------------- MODULE CrawlProofs -----------------------------
(***************************************************************************)
(* What holds of a crawl whatever the site, the configuration and the      *)
(* speed of the workers.                                                   *)
(*                                                                         *)
(* The argument has three parts.  Growing says what no step does to the    *)
(* rows: it forgets none, and it gives no worker a lease it did not have.  *)
(* TaskInv says what a worker knows at each place of its task, and a step  *)
(* under which the rows grow keeps that of the workers it does not move.   *)
(* What is left is, for each step, the worker it moves.                    *)
(***************************************************************************)
EXTENDS Crawl, UrlRecordsProofs, FiniteSetTheorems

\* No row is forgotten, or changes its depth or redirect count; a lease a worker holds
\* it held before, and the retry count is what it was.
Growing ==
    \A u \in Urls :
       /\ Exists(db, u) => /\ Exists(db', u)
                           /\ db'[u].depth = db[u].depth /\ db'[u].redirects = db[u].redirects
       /\ \A w \in Active : Held(db'[u], work[w].token) =>
             Held(db[u], work[w].token) /\ db'[u].retries = db[u].retries

\* No URL becomes a completed one.
Incomplete ==
    \A u \in Urls : db'[u].state = "Completed" =>
       db[u].state = "Completed" /\ db'[u].content = db[u].content

\* A task has the row of its URL, and a heartbeat under way has renewals left.
TaskPlaced(w) ==
    /\ work[w].pc # "idle" => /\ work[w].url \in Urls /\ work[w].token \in Tokens
                              /\ Exists(db, work[w].url)
    /\ work[w].beatAt # Null => work[w].beats < MaxRenewals

\* The body is known when the page is; the links taken off the list, and the target
\* of a redirect, are in the frontier.
TaskFollows(w) ==
    /\ work[w].pc \in {"process", "enqueue"} => work[w].body \in Bodies
    /\ work[w].pc \in {"fetch", "redirect", "complete"} => work[w].body = Null
    /\ work[w].pc = "enqueue" =>
          \A v \in Links[work[w].url] \ work[w].todo :
             Passes(v, db[work[w].url].depth + 1) => Exists(db, v)
    /\ work[w].pc = "complete" =>
          LET v == Target[work[w].url]
          IN  Passes(v, db[work[w].url].depth) => Exists(db, v)

\* The retry count read is the current one as long as the lease is.
TaskCounts(w) ==
    work[w].pc = "reschedule" =>
       /\ work[w].attempt \in Nat \ {0}
       /\ Held(db[work[w].url], work[w].token) =>
             work[w].attempt = db[work[w].url].retries + 1

TaskInv(w) == TaskPlaced(w) /\ TaskFollows(w) /\ TaskCounts(w)

\* A batch is there exactly while it is acquired, its leases are of rows there are.
BatchPlaced ==
    /\ IsFiniteSet(batch.got)
    /\ IF sched = "acquire" THEN batch.active ELSE batch = NoBatch
    /\ \A l \in batch.got : Exists(db, l.url)

IInv == /\ TypeOK /\ BatchPlaced /\ BatchFits /\ NothingLost /\ StoreOutlivesWorkers
        /\ \A w \in Workers : TaskInv(w)

-----------------------------------------------------------------------------
(* Types.                                                                  *)

\* A free slot.
LEMMA IdleType == Idle \in Job /\ Idle.pc = "idle" /\ NoBatch \in BatchRecord
BY RenewalAssumption DEF Idle, Job, Pcs, NoBatch, BatchRecord

\* Giving one slot a new job.
LEMMA PutJob ==
    ASSUME NEW f \in [Workers -> Job], NEW w \in Workers, NEW j \in Job
    PROVE  /\ [f EXCEPT ![w] = j] \in [Workers -> Job]
           /\ [f EXCEPT ![w] = j][w] = j
           /\ \A v \in Workers : v # w => [f EXCEPT ![w] = j][v] = f[v]
OBVIOUS

\* A task returns: the job it leaves.
LEMMA ReturnJob ==
    ASSUME TypeOK, NEW w \in Workers, NEW pc \in Pcs, NEW kind \in Kinds, Return(w, pc, kind)
    PROVE  /\ work' \in [Workers -> Job]
           /\ \A v \in Workers : v # w => work'[v] = work[v]
           /\ work'[w].pc = pc /\ work'[w].kind = kind /\ work'[w].beatAt = Null
           /\ work'[w].url = work[w].url /\ work'[w].token = work[w].token
<1> DEFINE j == [work[w] EXCEPT !.pc = pc, !.kind = kind, !.beats = 0, !.beatAt = Null]
<1>1. work[w] \in Job
  BY DEF TypeOK
<1>2. j \in Job
  <2>1. 0 \in 0 .. MaxRenewals
    BY RenewalAssumption
  <2> QED  BY <1>1, <2>1 DEF Job
<1>3. /\ j.pc = pc /\ j.kind = kind /\ j.beatAt = Null
      /\ j.url = work[w].url /\ j.token = work[w].token
  BY <1>1 DEF Job
<1>4. work' = [work EXCEPT ![w] = j]
  BY DEF Return
<1> HIDE DEF j
<1> QED  BY <1>2, <1>3, <1>4, PutJob DEF TypeOK

\* A report is made: the job it leaves.
LEMMA ReportingJob ==
    ASSUME TypeOK, NEW w \in Workers, Reporting(w)
    PROVE  /\ work' \in [Workers -> Job]
           /\ \A v \in Workers : v # w => work'[v] = work[v]
           /\ work'[w].pc = "finally" /\ work'[w].beatAt = Null
           /\ work'[w].url = work[w].url /\ work'[w].token = work[w].token
<1> DEFINE j == [Idle EXCEPT !.pc = "finally", !.url = work[w].url, !.token = work[w].token]
<1>1. work[w] \in Job
  BY DEF TypeOK
<1>2. j \in Job
  BY <1>1, IdleType DEF Job, Pcs
<1>3. j.pc = "finally" /\ j.beatAt = Null /\ j.url = work[w].url /\ j.token = work[w].token
  BY DEF Idle
<1>4. work' = [work EXCEPT ![w] = j]
  BY DEF Reporting
<1> HIDE DEF j
<1> QED  BY <1>2, <1>3, <1>4, PutJob DEF TypeOK

-----------------------------------------------------------------------------
(* What the steps of a worker leave: of the others nothing changes.        *)

\* The others are as they were.
Alone(w) == \A v \in Workers : v # w => work'[v] = work[v]

\* The task goes on, with its URL and its lease.
GoesOn(w) == work'[w].url = work[w].url /\ work'[w].token = work[w].token

\* FetchDone: the four ways a fetch ends.
LEMMA FetchDoneJob ==
    ASSUME TypeOK, NEW w \in Workers, FetchDone(w)
    PROVE  /\ work' \in [Workers -> Job] /\ Alone(w) /\ GoesOn(w)
           /\ \/ work'[w].pc = "process" /\ work'[w].body \in Bodies
              \/ work'[w].pc = "redirect" /\ work'[w].body = work[w].body
              \/ work'[w].pc \in {"terminal", "retry"}
           /\ work'[w].pc \in {"process", "redirect"} =>
                 work'[w].beats = work[w].beats /\ work'[w].beatAt = work[w].beatAt
           /\ work'[w].pc \in {"terminal", "retry"} => work'[w].beatAt = Null
           /\ work'[w].kind \in Outcomes(work[w].url)
           /\ work'[w].pc = "redirect" => work'[w].kind = "redirect"
           /\ work'[w].pc = "terminal" => work'[w].kind \in {"permanent", "client closed"}
<1>1. work \in [Workers -> Job] /\ work[w] \in Job
  BY DEF TypeOK
<1>2. PICK kind \in Outcomes(work[w].url) :
          \/ /\ kind = "page"
             /\ \E body \in Bodies :
                   work' = [work EXCEPT ![w].pc = "process", ![w].kind = kind, ![w].body = body]
          \/ kind = "redirect"  /\ work' = [work EXCEPT ![w].pc = "redirect", ![w].kind = kind]
          \/ kind \in {"permanent", "client closed"} /\ Return(w, "terminal", kind)
          \/ kind = "transient" /\ Return(w, "retry", kind)
  BY DEF FetchDone
<1>3. CASE kind = "page" /\ \E body \in Bodies :
               work' = [work EXCEPT ![w].pc = "process", ![w].kind = kind, ![w].body = body]
  <2>1. PICK body \in Bodies :
             work' = [work EXCEPT ![w].pc = "process", ![w].kind = kind, ![w].body = body]
    BY <1>3
  <2> DEFINE j == [work[w] EXCEPT !.pc = "process", !.kind = kind, !.body = body]
  <2>2. j \in Job
    BY <1>1, <1>3 DEF Job, Pcs, Kinds, Answers
  <2>3. /\ j.pc = "process" /\ j.kind = kind /\ j.body = body /\ j.url = work[w].url
        /\ j.token = work[w].token /\ j.beats = work[w].beats /\ j.beatAt = work[w].beatAt
    BY <1>1 DEF Job
  <2>4. work' = [work EXCEPT ![w] = j]
    BY <1>1, <2>1
  <2> HIDE DEF j
  <2>5. work' \in [Workers -> Job] /\ Alone(w) /\ work'[w] = j
    BY <1>1, <2>2, <2>4, PutJob DEF Alone
  <2> QED  BY <1>3, <1>2, <2>3, <2>5 DEF GoesOn
<1>4. CASE kind = "redirect" /\ work' = [work EXCEPT ![w].pc = "redirect", ![w].kind = kind]
  <2> DEFINE j == [work[w] EXCEPT !.pc = "redirect", !.kind = kind]
  <2>2. j \in Job
    BY <1>1, <1>4 DEF Job, Pcs, Kinds, Answers
  <2>3. /\ j.pc = "redirect" /\ j.kind = kind /\ j.body = work[w].body /\ j.url = work[w].url
        /\ j.token = work[w].token /\ j.beats = work[w].beats /\ j.beatAt = work[w].beatAt
    BY <1>1 DEF Job
  <2>4. work' = [work EXCEPT ![w] = j]
    BY <1>1, <1>4
  <2> HIDE DEF j
  <2>5. work' \in [Workers -> Job] /\ Alone(w) /\ work'[w] = j
    BY <1>1, <2>2, <2>4, PutJob DEF Alone
  <2> QED  BY <1>4, <1>2, <2>3, <2>5 DEF GoesOn
<1>5. CASE kind \in {"permanent", "client closed"} /\ Return(w, "terminal", kind)
  BY <1>2, <1>5, ReturnJob DEF Pcs, Kinds, Answers, Alone, GoesOn
<1>6. CASE kind = "transient" /\ Return(w, "retry", kind)
  BY <1>2, <1>6, ReturnJob DEF Pcs, Kinds, Answers, Alone, GoesOn
<1> QED  BY <1>2, <1>3, <1>4, <1>5, <1>6

\* Process: the exception of an unchanged page, or its links to follow.
LEMMA ProcessJob ==
    ASSUME TypeOK, NEW w \in Workers, Process(w), TaskPlaced(w)
    PROVE  /\ work' \in [Workers -> Job] /\ Alone(w) /\ GoesOn(w)
           /\ \/ /\ work'[w].pc = "terminal" /\ work'[w].beatAt = Null
                 /\ work'[w].kind = "page"
                 /\ db' = db /\ db[work[w].url].content = work[w].body
              \/ /\ work'[w].pc = "enqueue" /\ work'[w].body = work[w].body
                 /\ work'[w].todo = Links[work[w].url]
                 /\ work'[w].beats = work[w].beats /\ work'[w].beatAt = work[w].beatAt
                 /\ db' = ReplaceMetadata(db, work[w].url, work[w].body)
<1>1. work \in [Workers -> Job] /\ work[w] \in Job
  BY DEF TypeOK
<1>2. CASE /\ db[work[w].url].content = work[w].body
           /\ Return(w, "terminal", "page") /\ UNCHANGED db
  BY <1>2, ReturnJob DEF Pcs, Kinds, Answers, Alone, GoesOn
<1>3. CASE /\ db' = ReplaceMetadata(db, work[w].url, work[w].body)
           /\ work' = [work EXCEPT ![w].pc = "enqueue", ![w].todo = Links[work[w].url]]
  <2> DEFINE j == [work[w] EXCEPT !.pc = "enqueue", !.todo = Links[work[w].url]]
  <2>1. Links[work[w].url] \in SUBSET Urls
    BY SiteAssumption DEF TaskPlaced, Process
  <2>2. j \in Job
    BY <1>1, <2>1 DEF Job, Pcs
  <2>3. /\ j.pc = "enqueue" /\ j.body = work[w].body /\ j.todo = Links[work[w].url]
        /\ j.url = work[w].url
        /\ j.token = work[w].token /\ j.beats = work[w].beats /\ j.beatAt = work[w].beatAt
    BY <1>1 DEF Job
  <2>4. work' = [work EXCEPT ![w] = j]
    BY <1>1, <1>3
  <2> HIDE DEF j
  <2>5. work' \in [Workers -> Job] /\ Alone(w) /\ work'[w] = j
    BY <1>1, <2>2, <2>4, PutJob DEF Alone
  <2> QED  BY <1>3, <2>3, <2>5 DEF GoesOn
<1> QED  BY <1>2, <1>3 DEF Process

\* EnqueueDiscovered: one link less to follow.
LEMMA EnqueueJob ==
    ASSUME TypeOK, NEW w \in Workers, NEW v,
           work' = [work EXCEPT ![w].todo = @ \ {v}]
    PROVE  /\ work' \in [Workers -> Job] /\ Alone(w) /\ GoesOn(w)
           /\ work'[w].pc = work[w].pc /\ work'[w].body = work[w].body
           /\ work'[w].todo = work[w].todo \ {v}
           /\ work'[w].beats = work[w].beats /\ work'[w].beatAt = work[w].beatAt
           /\ work'[w].attempt = work[w].attempt
<1>1. work \in [Workers -> Job] /\ work[w] \in Job
  BY DEF TypeOK
<1> DEFINE j == [work[w] EXCEPT !.todo = @ \ {v}]
<1>2. j \in Job
  BY <1>1 DEF Job
<1>3. /\ j.pc = work[w].pc /\ j.body = work[w].body /\ j.todo = work[w].todo \ {v}
      /\ j.url = work[w].url /\ j.attempt = work[w].attempt
      /\ j.token = work[w].token /\ j.beats = work[w].beats /\ j.beatAt = work[w].beatAt
  BY <1>1 DEF Job
<1>4. work' = [work EXCEPT ![w] = j]
  BY <1>1
<1> HIDE DEF j
<1>5. work' \in [Workers -> Job] /\ Alone(w) /\ work'[w] = j
  <2> DEFINE f == [work EXCEPT ![w] = j]
  <2>1. f \in [Workers -> Job] /\ f[w] = j /\ \A x \in Workers : x # w => f[x] = work[x]
    BY <1>1, <1>2, PutJob
  <2> HIDE DEF f
  <2>2. work' = f
    BY <1>4 DEF f
  <2> QED  BY ONLY <2>1, <2>2 DEF Alone
<1> QED  BY <1>3, <1>5 DEF GoesOn

\* HandleRedirect, when the target is taken.
LEMMA GotoJob ==
    ASSUME TypeOK, NEW w \in Workers, NEW pc \in Pcs, Goto(w, pc)
    PROVE  /\ work' \in [Workers -> Job] /\ Alone(w) /\ GoesOn(w)
           /\ work'[w].pc = pc /\ work'[w].body = work[w].body
           /\ work'[w].beats = work[w].beats /\ work'[w].beatAt = work[w].beatAt
<1>1. work \in [Workers -> Job] /\ work[w] \in Job
  BY DEF TypeOK
<1> DEFINE j == [work[w] EXCEPT !.pc = pc]
<1>2. j \in Job
  BY <1>1 DEF Job
<1>3. /\ j.pc = pc /\ j.body = work[w].body /\ j.url = work[w].url
      /\ j.token = work[w].token /\ j.beats = work[w].beats /\ j.beatAt = work[w].beatAt
  BY <1>1 DEF Job
<1>4. work' = [work EXCEPT ![w] = j]
  BY <1>1 DEF Goto
<1> HIDE DEF j
<1>5. work' \in [Workers -> Job] /\ Alone(w) /\ work'[w] = j
  BY <1>1, <1>2, <1>4, PutJob DEF Alone
<1> QED  BY <1>3, <1>5 DEF GoesOn

\* ReadRetryCount: the count is one more than that of the row.
LEMMA ReadJob ==
    ASSUME TypeOK, NEW w \in Workers, ReadRetryCount(w), TaskPlaced(w)
    PROVE  /\ work' \in [Workers -> Job] /\ Alone(w) /\ GoesOn(w)
           /\ work'[w].pc = "reschedule" /\ work'[w].attempt = db[work[w].url].retries + 1
           /\ work'[w].attempt \in Nat \ {0}
           /\ work'[w].beats = work[w].beats /\ work'[w].beatAt = work[w].beatAt
<1>1. work \in [Workers -> Job] /\ work[w] \in Job
  BY DEF TypeOK
<1>2. db[work[w].url].retries \in Nat
  BY DEF TypeOK, Table, Row, TaskPlaced, ReadRetryCount
<1> DEFINE n == db[work[w].url].retries + 1
           j == [work[w] EXCEPT !.pc = "reschedule", !.attempt = n]
<1>3. n \in Nat \ {0}
  BY <1>2
<1>4. work' = [work EXCEPT ![w] = j]
  BY <1>1 DEF ReadRetryCount
<1> HIDE DEF n
<1>5. j \in Job
  BY <1>1, <1>3 DEF Job, Pcs
<1>6. /\ j.pc = "reschedule" /\ j.attempt = n /\ j.url = work[w].url
      /\ j.token = work[w].token /\ j.beats = work[w].beats /\ j.beatAt = work[w].beatAt
  BY <1>1 DEF Job
<1> HIDE DEF j
<1>7. work' \in [Workers -> Job] /\ Alone(w) /\ work'[w] = j
  BY <1>1, <1>4, <1>5, PutJob DEF Alone
<1> QED  BY <1>3, <1>6, <1>7 DEF n, GoesOn

\* Heartbeat: only the beats change, and another is due only while fewer than
\* MaxRenewals have been made.
LEMMA HeartbeatJob ==
    ASSUME TypeOK, NEW w \in Workers, Heartbeat(w), TaskPlaced(w)
    PROVE  /\ work' \in [Workers -> Job] /\ Alone(w) /\ GoesOn(w)
           /\ work'[w].pc = work[w].pc /\ work'[w].body = work[w].body
           /\ work'[w].todo = work[w].todo /\ work'[w].attempt = work[w].attempt
           /\ work'[w].kind = work[w].kind
           /\ work'[w].beatAt # Null => work'[w].beats < MaxRenewals
<1>1. work \in [Workers -> Job] /\ work[w] \in Job /\ now \in Nat
  BY DEF TypeOK
<1> DEFINE n  == IF db' # db THEN work[w].beats + 1 ELSE work[w].beats
           at == IF db' # db /\ work[w].beats + 1 < MaxRenewals
                 THEN now + HeartbeatInterval ELSE Null
           j  == [work[w] EXCEPT !.beats = n, !.beatAt = at]
<1>2. work[w].beats \in 0 .. MaxRenewals /\ work[w].beats < MaxRenewals
  BY <1>1 DEF Job, Heartbeat, Elapsed, TaskPlaced
<1>3. n \in 0 .. MaxRenewals /\ at \in Nat \cup {Null} /\ (at # Null => n < MaxRenewals)
  BY <1>1, <1>2, RenewalAssumption, ConfigAssumption
<1>4. work' = [work EXCEPT ![w] = j]
  BY <1>1 DEF Heartbeat
<1> HIDE DEF n, at
<1>5. j \in Job
  BY <1>1, <1>3 DEF Job
<1>6. /\ j.pc = work[w].pc /\ j.body = work[w].body /\ j.url = work[w].url
      /\ j.todo = work[w].todo /\ j.attempt = work[w].attempt /\ j.kind = work[w].kind
      /\ j.token = work[w].token /\ j.beats = n /\ j.beatAt = at
  BY <1>1 DEF Job
<1> HIDE DEF j
<1>7. work' \in [Workers -> Job] /\ Alone(w) /\ work'[w] = j
  BY <1>1, <1>4, <1>5, PutJob DEF Alone
<1> QED  BY <1>3, <1>6, <1>7 DEF GoesOn

-----------------------------------------------------------------------------
(* The rows grow.                                                          *)

\* A statement that leaves tokens, depths and counts alone.
LEMMA SameGrowing ==
    ASSUME \A u \in Urls : /\ db'[u].state = db[u].state /\ db'[u].token = db[u].token
                           /\ db'[u].depth = db[u].depth /\ db'[u].redirects = db[u].redirects
                           /\ db'[u].retries = db[u].retries /\ db'[u].content = db[u].content
    PROVE  Growing /\ Incomplete
BY DEF Growing, Incomplete, Exists, Held

\* enqueue.
LEMMA InsertGrowing ==
    ASSUME TypeOK, NEW u \in Urls, NEW depth, NEW parent, NEW n,
           db' = Insert(db, u, depth, parent, n)
    PROVE  Growing /\ Incomplete /\ Exists(db', u)
<1>1. db \in Table
  BY DEF TypeOK
<1>2. /\ \A v \in Urls : v # u \/ Exists(db, u) => db'[v] = db[v]
      /\ ~Exists(db, u) => db'[u].state = "Pending"
      /\ Exists(db', u)
  BY <1>1, InsertRows
<1> QED  BY <1>2 DEF Growing, Incomplete, Exists, Held

\* A report, of whomever: the row it releases is nobody's.
LEMMA ReleaseGrowing ==
    ASSUME NEW u \in Urls, NEW tok,
           \A v \in Urls : v # u \/ ~Held(db[u], tok) => db'[v] = db[v],
           Held(db[u], tok) => db'[u].state \in Reported,
           db'[u].depth = db[u].depth, db'[u].redirects = db[u].redirects
    PROVE  /\ Growing
           /\ db'[u].state # "Completed" => Incomplete
BY DEF Growing, Incomplete, Exists, Held, Reported

\* renew_lease.
LEMMA RenewGrowing ==
    ASSUME TypeOK, NEW u \in Urls, NEW tok, NEW expires, db' = Renew(db, u, tok, expires)
    PROVE  Growing /\ Incomplete
<1>1. db \in Table
  BY DEF TypeOK
<1>2. \A v \in Urls : /\ db'[v].state = db[v].state /\ db'[v].token = db[v].token
                      /\ db'[v].depth = db[v].depth /\ db'[v].redirects = db[v].redirects
                      /\ db'[v].retries = db[v].retries /\ db'[v].content = db[v].content
  BY <1>1, RenewRows
<1> QED  BY <1>2, SameGrowing

\* expire_leases.
LEMMA ExpireGrowing ==
    ASSUME TypeOK, NEW t, db' = Expire(db, t)
    PROVE  Growing /\ Incomplete
<1>1. db \in Table
  BY DEF TypeOK
<1>2. \A u \in Urls : /\ ~LeaseExpired(db[u], t) => db'[u] = db[u]
                      /\ LeaseExpired(db[u], t) => db'[u].state = "Pending"
                      /\ db'[u].depth = db[u].depth /\ db'[u].redirects = db[u].redirects
                      /\ db'[u].retries = db[u].retries /\ db'[u].content = db[u].content
  BY <1>1, ExpireRows
<1> QED  BY <1>2 DEF Growing, Incomplete, Exists, Held, LeaseExpired

\* acquire_lease_batch's UPDATE: the lease it gives is under a token no worker has.
LEMMA LeaseGrowing ==
    ASSUME TypeOK, NEW u \in Urls, NEW tok, NEW expires, NEW t,
           \A w \in Workers : work[w].token # tok,
           db' = Lease(db, u, tok, expires, t)
    PROVE  Growing /\ Incomplete
<1>1. db \in Table
  BY DEF TypeOK
<1>2. /\ \A v \in Urls : v # u \/ ~Leasable(db[u], t) => db'[v] = db[v]
      /\ Leasable(db[u], t) =>
            /\ db'[u].state = "In_Progress" /\ db'[u].token = tok
            /\ db'[u].depth = db[u].depth /\ db'[u].redirects = db[u].redirects
            /\ db'[u].content = db[u].content
  BY <1>1, LeaseRows
<1> QED  BY <1>2 DEF Growing, Incomplete, Exists, Held, Active

-----------------------------------------------------------------------------
(* What growing rows keep.                                                 *)

\* A worker that is not moved knows what it knew.
LEMMA Steady ==
    ASSUME TypeOK, Growing, NEW w \in Workers, TaskInv(w), work'[w] = work[w]
    PROVE  TaskInv(w)'
<1>1. CASE work[w].pc = "idle"
  BY <1>1 DEF TaskInv, TaskPlaced, TaskFollows, TaskCounts
<1>2. CASE work[w].pc # "idle"
  <2> DEFINE u == work[w].url
  <2>1. /\ u \in Urls /\ Exists(db, u) /\ Exists(db', u) /\ db'[u].depth = db[u].depth
        /\ \A v \in Urls : Exists(db, v) => Exists(db', v)
        /\ Held(db'[u], work[w].token) =>
              Held(db[u], work[w].token) /\ db'[u].retries = db[u].retries
    BY <1>2 DEF TaskInv, TaskPlaced, Growing, Active
  <2>2. Links[u] \subseteq Urls /\ Target[u] \in Urls
    BY <2>1, SiteAssumption
  <2>3. TaskPlaced(w)'
    BY <2>1 DEF TaskInv, TaskPlaced
  <2>4. TaskFollows(w)'
    BY <2>1, <2>2 DEF TaskInv, TaskFollows, Passes
  <2>5. TaskCounts(w)'
    BY <2>1 DEF TaskInv, TaskCounts
  <2> QED  BY <2>3, <2>4, <2>5 DEF TaskInv
<1> QED  BY <1>1, <1>2

\* The links of completed pages stay in the frontier.
LEMMA NothingLostStays ==
    ASSUME NothingLost, TypeOK, Growing, Incomplete
    PROVE  NothingLost'
<1> SUFFICES ASSUME NEW u \in Urls, db'[u].state = "Completed"
             PROVE  \/ /\ db'[u].content # Null
                       /\ \A v \in Links[u] : Passes(v, db'[u].depth + 1) => Exists(db', v)
                    \/ /\ db'[u].content = Null
                       /\ Passes(Target[u], db'[u].depth) => Exists(db', Target[u])
  BY DEF NothingLost
<1>1. db[u].state = "Completed" /\ db'[u].content = db[u].content /\ db'[u].depth = db[u].depth
  BY DEF Incomplete, Growing, Exists
<1>2. Links[u] \subseteq Urls /\ Target[u] \in Urls
  BY SiteAssumption
<1> QED  BY <1>1, <1>2 DEF NothingLost, Growing

\* A batch fits as long as no slot is taken.
LEMMA FitsStays ==
    ASSUME BatchFits, BatchPlaced, TypeOK, Active' \subseteq Active, UNCHANGED batch
    PROVE  BatchFits'
<1>1. IsFiniteSet(Workers \ Active) /\ IsFiniteSet(Workers \ Active')
  <2>1. Workers \ Active \in SUBSET Workers /\ Workers \ Active' \in SUBSET Workers
    OBVIOUS
  <2> QED  BY <2>1, ConfigAssumption, FS_Subset
<1>2. Workers \ Active \in SUBSET (Workers \ Active')
  OBVIOUS
<1>3. Cardinality(Workers \ Active) <= Cardinality(Workers \ Active')
  BY <1>1, <1>2, FS_Subset
<1>4. Cardinality(Workers \ Active) \in Nat /\ Cardinality(Workers \ Active') \in Nat
  BY <1>1, FS_CardinalityType
<1>5. Len(batch.todo) \in Nat /\ Cardinality(batch.got) \in Nat
  BY FS_CardinalityType DEF TypeOK, BatchRecord, BatchPlaced
<1> QED  BY <1>3, <1>4, <1>5 DEF BatchFits

-----------------------------------------------------------------------------
(* Workers.                                                                *)

\* A step of a worker: what is left to show.
LEMMA MoveInv ==
    ASSUME IInv, NEW w \in Workers, work[w].pc # "idle",
           work' \in [Workers -> Job], Alone(w),
           UNCHANGED <<now, sched, batch, interrupts>>,
           db' \in Table, Growing, NothingLost', TaskInv(w)'
    PROVE  IInv'
<1>1. TypeOK'
  BY DEF IInv, TypeOK, interrupts
<1>2. BatchPlaced'
  <2>1. \A l \in batch.got : l.url \in Urls
    BY DEF IInv, TypeOK, BatchRecord, LeaseRecord
  <2> QED  BY <2>1 DEF IInv, BatchPlaced, Growing
<1>3. Active' \subseteq Active
  BY DEF Active, Alone
<1>4. BatchFits'
  BY <1>3, FitsStays DEF IInv
<1>5. StoreOutlivesWorkers'
  BY <1>3 DEF IInv, StoreOutlivesWorkers, interrupts
<1>6. \A v \in Workers : TaskInv(v)'
  BY Steady DEF IInv, Alone
<1> QED  BY <1>1, <1>2, <1>4, <1>5, <1>6 DEF IInv

\* FetchDone.
LEMMA FetchDoneInv ==
    ASSUME IInv, NEW w \in Workers, FetchDone(w)
    PROVE  IInv'
<1>1. /\ work[w].pc = "fetch" /\ TypeOK /\ TaskInv(w) /\ NothingLost
      /\ UNCHANGED <<db, now, sched, batch, interrupts>>
  BY DEF FetchDone, IInv
<1>2. Growing /\ Incomplete /\ db' \in Table
  BY <1>1, SameGrowing DEF TypeOK
<1>3. NothingLost'
  BY <1>1, <1>2, NothingLostStays
<1>4. TaskInv(w)'
  <2>1. TaskPlaced(w)'
    BY <1>1, FetchDoneJob DEF TaskInv, TaskPlaced, GoesOn
  <2>2. TaskFollows(w)' /\ TaskCounts(w)'
    BY <1>1, FetchDoneJob DEF TaskInv, TaskFollows, TaskCounts
  <2> QED  BY <2>1, <2>2 DEF TaskInv
<1> QED  BY <1>1, <1>2, <1>3, <1>4, FetchDoneJob, MoveInv

\* Process.
LEMMA ProcessInv ==
    ASSUME IInv, NEW w \in Workers, Process(w)
    PROVE  IInv'
<1>1. /\ work[w].pc = "process" /\ TypeOK /\ TaskInv(w) /\ NothingLost /\ TaskPlaced(w)
      /\ UNCHANGED <<now, sched, batch, interrupts>>
  BY DEF Process, IInv, TaskInv
<1>2. work[w].url \in Urls /\ work[w].body \in Bodies /\ Exists(db, work[w].url) /\ db \in Table
  BY <1>1 DEF TaskInv, TaskPlaced, TaskFollows, TypeOK
<1>3. Growing /\ Incomplete /\ db' \in Table
  <2>1. CASE db' = db
    BY <1>2, <2>1, SameGrowing
  <2>2. CASE db' = ReplaceMetadata(db, work[w].url, work[w].body)
    BY <1>2, <2>2, MetadataRows, MetadataType, SameGrowing
  <2> QED  BY <1>1, <2>1, <2>2, ProcessJob
<1>4. NothingLost'
  BY <1>1, <1>3, NothingLostStays
<1>5. TaskInv(w)'
  <2>1. TaskPlaced(w)'
    BY <1>1, <1>2, <1>3, ProcessJob DEF TaskInv, TaskPlaced, GoesOn, Growing
  <2>2. TaskFollows(w)' /\ TaskCounts(w)'
    BY <1>1, <1>2, ProcessJob DEF TaskInv, TaskFollows, TaskCounts, GoesOn
  <2> QED  BY <2>1, <2>2 DEF TaskInv
<1> QED  BY <1>1, <1>3, <1>4, <1>5, ProcessJob, MoveInv

\* EnqueueDiscovered: a link taken off the list is in the frontier, if it passes.
LEMMA EnqueueDiscoveredInv ==
    ASSUME IInv, NEW w \in Workers, EnqueueDiscovered(w)
    PROVE  IInv'
<1> DEFINE u == work[w].url
           depth == db[u].depth + 1
<1>1. /\ work[w].pc = "enqueue" /\ TypeOK /\ TaskInv(w) /\ NothingLost
      /\ UNCHANGED <<now, sched, batch, interrupts>>
  BY DEF EnqueueDiscovered, IInv
<1>2. u \in Urls /\ Exists(db, u) /\ db \in Table /\ work[w] \in Job /\ Links[u] \subseteq Urls
  BY <1>1, SiteAssumption DEF TaskInv, TaskPlaced, TypeOK
<1>3. PICK v \in work[w].todo :
         /\ db' = IF Passes(v, depth) THEN Insert(db, v, depth, Null, 0) ELSE db
         /\ work' = [work EXCEPT ![w].todo = @ \ {v}]
  BY DEF EnqueueDiscovered
<1>4. v \in Urls /\ depth \in Nat
  BY <1>2 DEF Job, Table, Row
<1>5. Growing /\ Incomplete /\ db' \in Table /\ (Passes(v, depth) => Exists(db', v))
  <2>1. CASE Passes(v, depth)
    BY <1>1, <1>2, <1>3, <1>4, <2>1, InsertGrowing, InsertType
  <2>2. CASE ~Passes(v, depth)
    BY <1>2, <1>3, <2>2, SameGrowing
  <2> QED  BY <2>1, <2>2
<1>6. NothingLost'
  BY <1>1, <1>5, NothingLostStays
<1>7. db'[u].depth = db[u].depth /\ Exists(db', u)
  BY <1>2, <1>5 DEF Growing
<1>8. TaskInv(w)'
  <2>1. /\ work'[w].url = u /\ work'[w].token = work[w].token /\ work'[w].pc = "enqueue"
        /\ work'[w].body = work[w].body /\ work'[w].todo = work[w].todo \ {v}
        /\ work'[w].beats = work[w].beats /\ work'[w].beatAt = work[w].beatAt
    BY <1>1, <1>3, EnqueueJob DEF GoesOn
  <2>2. TaskPlaced(w)' /\ TaskCounts(w)'
    BY <1>1, <1>7, <2>1 DEF TaskInv, TaskPlaced, TaskCounts
  <2>3. ASSUME NEW x \in Links[u] \ (work[w].todo \ {v}), Passes(x, depth)
        PROVE  Exists(db', x)
    <3>1. CASE x = v
      BY <1>5, <2>3, <3>1
    <3>2. CASE x # v
      <4>1. Exists(db, x) /\ x \in Urls
        BY <1>1, <1>2, <2>3, <3>2 DEF TaskInv, TaskFollows
      <4> QED  BY <1>5, <4>1 DEF Growing
    <3> QED  BY <3>1, <3>2
  <2>4. TaskFollows(w)'
    BY <1>1, <1>7, <2>1, <2>3 DEF TaskInv, TaskFollows
  <2> QED  BY <2>2, <2>4 DEF TaskInv
<1>9. work' \in [Workers -> Job] /\ Alone(w)
  BY <1>1, <1>3, EnqueueJob
<1> QED  BY <1>1, <1>5, <1>6, <1>8, <1>9, MoveInv

\* HandleRedirect: the target is in the frontier when the task goes on, if it passes.
LEMMA HandleRedirectInv ==
    ASSUME IInv, NEW w \in Workers, HandleRedirect(w)
    PROVE  IInv'
<1> DEFINE u == work[w].url
           v == Target[u]
           n == db[u].redirects + 1
<1>1. /\ work[w].pc = "redirect" /\ TypeOK /\ TaskInv(w) /\ NothingLost
      /\ UNCHANGED <<now, sched, batch, interrupts>>
  BY DEF HandleRedirect, IInv
<1>2. u \in Urls /\ Exists(db, u) /\ db \in Table /\ v \in Urls /\ work[w].body = Null
  BY <1>1, SiteAssumption DEF TaskInv, TaskPlaced, TaskFollows, TypeOK
<1>3. db[u].depth \in Nat /\ n \in Nat
  BY <1>2 DEF Table, Row
<1>4. CASE Return(w, "terminal", "redirect") /\ db' = db
  <2>1. Growing /\ Incomplete /\ db' \in Table
    BY <1>2, <1>4, SameGrowing
  <2>2. NothingLost'
    BY <1>1, <2>1, NothingLostStays
  <2>3. /\ work' \in [Workers -> Job] /\ Alone(w) /\ GoesOn(w)
        /\ work'[w].pc = "terminal" /\ work'[w].beatAt = Null
    BY <1>1, <1>4, ReturnJob DEF Pcs, Kinds, Answers, Alone, GoesOn
  <2>4. TaskInv(w)'
    BY <1>1, <1>4, <2>3 DEF TaskInv, TaskPlaced, TaskFollows, TaskCounts, GoesOn
  <2> QED  BY <1>1, <2>1, <2>2, <2>3, <2>4, MoveInv
<1>5. ASSUME ~Passes(v, db[u].depth) \/ Exists(db, v), Goto(w, "complete"), db' = db
      PROVE  IInv'
  <2>1. Growing /\ Incomplete /\ db' \in Table
    BY <1>2, <1>5, SameGrowing
  <2>2. NothingLost'
    BY <1>1, <2>1, NothingLostStays
  <2>3. /\ work' \in [Workers -> Job] /\ Alone(w) /\ GoesOn(w)
        /\ work'[w].pc = "complete" /\ work'[w].body = Null
        /\ work'[w].beats = work[w].beats /\ work'[w].beatAt = work[w].beatAt
    BY <1>1, <1>2, <1>5, GotoJob DEF Pcs
  <2>4. TaskInv(w)'
    BY <1>1, <1>5, <2>3 DEF TaskInv, TaskPlaced, TaskFollows, TaskCounts, GoesOn
  <2> QED  BY <1>1, <2>1, <2>2, <2>3, <2>4, MoveInv
<1>6. ASSUME ~InsertFails(db, v, AsFound(u)), ~Exists(db, v), Goto(w, "complete"),
             db' = Insert(db, v, db[u].depth, AsFound(u), n)
      PROVE  IInv'
  <2>1. AsFound(u) \in Urls \cup {Null}
    BY <1>6 DEF InsertFails
  <2>2. Growing /\ Incomplete /\ db' \in Table /\ Exists(db', v)
    BY <1>1, <1>2, <1>3, <1>6, <2>1, InsertGrowing, InsertType
  <2>3. NothingLost'
    BY <1>1, <2>2, NothingLostStays
  <2>4. /\ work' \in [Workers -> Job] /\ Alone(w) /\ GoesOn(w)
        /\ work'[w].pc = "complete" /\ work'[w].body = Null
        /\ work'[w].beats = work[w].beats /\ work'[w].beatAt = work[w].beatAt
    BY <1>1, <1>2, <1>6, GotoJob DEF Pcs
  <2>5. db'[u].depth = db[u].depth /\ Exists(db', u)
    BY <1>2, <2>2 DEF Growing
  <2>6. TaskInv(w)'
    BY <1>1, <2>2, <2>4, <2>5 DEF TaskInv, TaskPlaced, TaskFollows, TaskCounts, GoesOn
  <2> QED  BY <1>1, <2>2, <2>3, <2>4, <2>6, MoveInv
<1> QED
  BY <1>4, <1>5, <1>6 DEF HandleRedirect

\* A report leaves a worker that has nothing to keep but its lease.
LEMMA ReportInv ==
    ASSUME IInv, NEW w \in Workers, work[w].pc # "idle", Reporting(w),
           UNCHANGED <<now, sched, batch, interrupts>>,
           db' \in Table, Growing, NothingLost'
    PROVE  IInv'
<1>1. /\ work' \in [Workers -> Job] /\ Alone(w) /\ GoesOn(w)
      /\ work'[w].pc = "finally" /\ work'[w].beatAt = Null
  BY ReportingJob DEF IInv, Alone, GoesOn
<1>2. TaskInv(w)
  BY DEF IInv
<1>3. TaskInv(w)'
  BY <1>1, <1>2 DEF TaskInv, TaskPlaced, TaskFollows, TaskCounts, GoesOn, Growing
<1> QED  BY <1>1, <1>3, MoveInv

\* CompleteUrl: what it takes to be completed is what TaskFollows says at the end.
LEMMA CompleteUrlInv ==
    ASSUME IInv, NEW w \in Workers, CompleteUrl(w)
    PROVE  IInv'
<1> DEFINE u == work[w].url
           body == work[w].body
<1>1. /\ work[w].pc \in {"enqueue", "complete"} /\ TypeOK /\ TaskInv(w) /\ NothingLost
      /\ db' = Complete(db, u, work[w].token, body) /\ Reporting(w)
      /\ UNCHANGED <<now, sched, batch, interrupts>>
  BY DEF CompleteUrl, IInv
<1>2. u \in Urls /\ db \in Table /\ body \in Bodies \cup {Null}
  BY <1>1 DEF TaskInv, TaskPlaced, TaskFollows, TypeOK
<1>3. /\ \A v \in Urls : v # u \/ ~Held(db[u], work[w].token) => db'[v] = db[v]
      /\ Held(db[u], work[w].token) => db'[u].state = "Completed" /\ db'[u].content = body
      /\ db'[u].depth = db[u].depth /\ db'[u].redirects = db[u].redirects
  BY <1>1, <1>2, CompleteRows
<1>4. Growing /\ db' \in Table
  BY <1>1, <1>2, <1>3, ReleaseGrowing, CompleteType DEF Reported
<1>5. NothingLost'
  <2>1. CASE ~Held(db[u], work[w].token)
    <3>1. Incomplete
      BY <1>3, <2>1 DEF Incomplete
    <3> QED  BY <1>1, <1>4, <3>1, NothingLostStays
  <2>2. CASE Held(db[u], work[w].token)
    <3>1. SUFFICES ASSUME NEW x \in Urls, db'[x].state = "Completed"
                   PROVE  \/ /\ db'[x].content # Null
                             /\ \A v \in Links[x] : Passes(v, db'[x].depth + 1) => Exists(db', v)
                          \/ /\ db'[x].content = Null
                             /\ Passes(Target[x], db'[x].depth) => Exists(db', Target[x])
      BY DEF NothingLost
    <3>2. Links[x] \subseteq Urls /\ Target[x] \in Urls
      BY SiteAssumption
    <3>3. CASE x # u
      BY <1>1, <1>3, <1>4, <3>1, <3>2, <3>3 DEF NothingLost, Growing
    <3>4. CASE x = u /\ work[w].pc = "enqueue"
      <4>1. body # Null /\ work[w].todo = {}
        BY <1>1, <3>4, NullAssumption DEF TaskInv, TaskFollows, CompleteUrl, LinksEnqueued
      <4>2. \A v \in Links[u] : Passes(v, db[u].depth + 1) => Exists(db, v)
        BY <1>1, <3>4, <4>1 DEF TaskInv, TaskFollows
      <4> QED  BY <1>3, <1>4, <2>2, <3>2, <3>4, <4>1, <4>2 DEF Growing
    <3>5. CASE x = u /\ work[w].pc = "complete"
      <4>1. body = Null /\ (Passes(Target[u], db[u].depth) => Exists(db, Target[u]))
        BY <1>1, <3>5 DEF TaskInv, TaskFollows
      <4> QED  BY <1>3, <1>4, <2>2, <3>2, <3>5, <4>1 DEF Growing
    <3> QED  BY <1>1, <3>3, <3>4, <3>5
  <2> QED  BY <2>1, <2>2
<1> QED  BY <1>1, <1>4, <1>5, ReportInv

\* FailUrl.
LEMMA FailUrlInv ==
    ASSUME IInv, NEW w \in Workers, FailUrl(w)
    PROVE  IInv'
<1> DEFINE u == work[w].url
<1>1. /\ work[w].pc = "terminal" /\ TypeOK /\ TaskInv(w) /\ NothingLost
      /\ db' = FailTerminally(db, u, work[w].token) /\ Reporting(w)
      /\ UNCHANGED <<now, sched, batch, interrupts>>
  BY DEF FailUrl, IInv
<1>2. u \in Urls /\ db \in Table
  BY <1>1 DEF TaskInv, TaskPlaced, TypeOK
<1>3. /\ \A v \in Urls : v # u \/ ~Held(db[u], work[w].token) => db'[v] = db[v]
      /\ Held(db[u], work[w].token) => db'[u].state = "Terminal_Failed"
      /\ db'[u].depth = db[u].depth /\ db'[u].redirects = db[u].redirects
      /\ db'[u].content = db[u].content
  BY <1>1, <1>2, FailTerminallyRows
<1>4. Growing /\ db' \in Table
  BY <1>1, <1>2, <1>3, ReleaseGrowing, FailType DEF Reported
<1>5. Incomplete
  BY <1>3 DEF Incomplete
<1> QED  BY <1>1, <1>4, <1>5, NothingLostStays, ReportInv

\* ReadRetryCount.
LEMMA ReadRetryCountInv ==
    ASSUME IInv, NEW w \in Workers, ReadRetryCount(w)
    PROVE  IInv'
<1>1. /\ work[w].pc = "retry" /\ TypeOK /\ TaskInv(w) /\ TaskPlaced(w) /\ NothingLost
      /\ UNCHANGED <<db, now, sched, batch, interrupts>>
  BY DEF ReadRetryCount, IInv, TaskInv
<1>2. Growing /\ Incomplete /\ db' \in Table
  BY <1>1, SameGrowing DEF TypeOK
<1>3. NothingLost'
  BY <1>1, <1>2, NothingLostStays
<1>4. TaskInv(w)'
  BY <1>1, ReadJob DEF TaskInv, TaskPlaced, TaskFollows, TaskCounts, GoesOn
<1> QED  BY <1>1, <1>2, <1>3, <1>4, ReadJob, MoveInv

\* compute_retry_delay is a number of clock units.
LEMMA RetryDelayType ==
    ASSUME NEW attempt \in Nat \ {0}
    PROVE  RetryDelay(attempt) \in Nat
<1> DEFINE n == IF attempt > 9 THEN 300 ELSE <<1, 2, 4, 8, 16, 32, 64, 128, 256>>[attempt]
<1>1. n \in Nat
  <2>1. CASE attempt > 9
    BY <2>1
  <2>2. CASE ~(attempt > 9)
    <3>1. attempt \in 1 .. 9
      BY <2>2
    <3> QED  BY <2>2, <3>1
  <2> QED  BY <2>1, <2>2
<1> HIDE DEF n
<1>2. Second * n \in Nat
  BY <1>1, ConfigAssumption
<1> QED  BY <1>2 DEF RetryDelay, n

\* RescheduleUrl: the row of an attempt that is its worker's.
LEMMA RescheduleUrlRows ==
    ASSUME IInv, NEW w \in Workers, RescheduleUrl(w)
    PROVE  LET u == work[w].url
               held == Held(db[u], work[w].token)
           IN  /\ \A v \in Urls : v # u \/ ~held => db'[v] = db[v]
               /\ held => db'[u].state = IF Exhausted(work[w].attempt) THEN "Failed" ELSE "Retry"
               /\ held /\ ~Exhausted(work[w].attempt) => db'[u].retries = work[w].attempt
               /\ Exhausted(work[w].attempt) => db'[u].retries = db[u].retries
               /\ db'[u].depth = db[u].depth /\ db'[u].redirects = db[u].redirects
               /\ db'[u].content = db[u].content
               /\ db' \in Table
<1> DEFINE u == work[w].url
           tok == work[w].token
           at == now + RetryDelay(work[w].attempt)
<1>1. /\ u \in Urls /\ db \in Table /\ now \in Nat /\ work[w].attempt \in Nat \ {0}
  BY DEF IInv, RescheduleUrl, TaskInv, TaskPlaced, TaskCounts, TypeOK
<1>2. at \in Nat
  BY <1>1, RetryDelayType
<1>3. CASE Exhausted(work[w].attempt)
  <2>1. db' = Fail(db, u, tok)
    BY <1>3 DEF RescheduleUrl
  <2> QED  BY <1>1, <1>3, <2>1, FailRows, FailType
<1>4. CASE ~Exhausted(work[w].attempt)
  <2>1. db' = Reschedule(db, u, tok, work[w].attempt, at)
    BY <1>4 DEF RescheduleUrl
  <2> HIDE DEF at
  <2> QED  BY <1>1, <1>2, <1>4, <2>1, RescheduleRows, RescheduleType
<1> QED  BY <1>3, <1>4

LEMMA RescheduleUrlInv ==
    ASSUME IInv, NEW w \in Workers, RescheduleUrl(w)
    PROVE  IInv'
<1> DEFINE u == work[w].url
<1>1. /\ work[w].pc = "reschedule" /\ TypeOK /\ TaskInv(w) /\ NothingLost /\ Reporting(w)
      /\ UNCHANGED <<now, sched, batch, interrupts>>
  BY DEF RescheduleUrl, IInv
<1>2. u \in Urls
  BY <1>1 DEF TaskInv, TaskPlaced
<1>3. /\ \A v \in Urls : v # u \/ ~Held(db[u], work[w].token) => db'[v] = db[v]
      /\ Held(db[u], work[w].token) => db'[u].state \in {"Failed", "Retry"}
      /\ db'[u].depth = db[u].depth /\ db'[u].redirects = db[u].redirects
      /\ db'[u].content = db[u].content
      /\ db' \in Table
  BY RescheduleUrlRows
<1>4. Growing
  BY <1>2, <1>3, ReleaseGrowing DEF Reported
<1>5. Incomplete
  BY <1>3 DEF Incomplete
<1> QED  BY <1>1, <1>3, <1>4, <1>5, NothingLostStays, ReportInv

\* Finally: the slot is free.
LEMMA FinallyInv ==
    ASSUME IInv, NEW w \in Workers, Finally(w)
    PROVE  IInv'
<1>1. /\ work[w].pc = "finally" /\ TypeOK /\ NothingLost /\ work' = [work EXCEPT ![w] = Idle]
      /\ UNCHANGED <<db, now, sched, batch, interrupts>>
  BY DEF Finally, IInv
<1>2. Growing /\ Incomplete /\ db' \in Table
  BY <1>1, SameGrowing DEF TypeOK
<1>3. work' \in [Workers -> Job] /\ Alone(w) /\ work'[w] = Idle
  BY <1>1, IdleType, PutJob DEF Alone, TypeOK
<1>4. TaskInv(w)'
  BY <1>3 DEF TaskInv, TaskPlaced, TaskFollows, TaskCounts, Idle
<1> QED  BY <1>1, <1>2, <1>3, <1>4, NothingLostStays, MoveInv

\* Heartbeat.
LEMMA HeartbeatInv ==
    ASSUME IInv, NEW w \in Workers, Heartbeat(w)
    PROVE  IInv'
<1> DEFINE u == work[w].url
<1>1. /\ work[w].pc \in {"fetch", "process", "enqueue", "redirect", "complete"}
      /\ TypeOK /\ TaskInv(w) /\ TaskPlaced(w) /\ NothingLost
      /\ db' = Renew(db, u, work[w].token, now + LeaseTtl)
      /\ UNCHANGED <<now, sched, batch, interrupts>>
  BY DEF Heartbeat, InProcess, IInv, TaskInv
<1>2. u \in Urls /\ db \in Table /\ now + LeaseTtl \in Nat /\ Exists(db, u)
  BY <1>1, ConfigAssumption DEF TaskPlaced, TypeOK
<1>3. Growing /\ Incomplete /\ db' \in Table
  BY <1>1, <1>2, RenewGrowing, RenewType
<1>4. /\ work' \in [Workers -> Job] /\ Alone(w) /\ GoesOn(w)
      /\ work'[w].pc = work[w].pc /\ work'[w].body = work[w].body
      /\ work'[w].todo = work[w].todo
      /\ work'[w].beatAt # Null => work'[w].beats < MaxRenewals
  BY <1>1, HeartbeatJob
<1>5. TaskInv(w)'
  <2>1. Links[u] \subseteq Urls /\ Target[u] \in Urls
    BY <1>2, SiteAssumption
  <2>2. /\ db'[u].depth = db[u].depth /\ Exists(db', u)
        /\ \A v \in Urls : Exists(db, v) => Exists(db', v)
    BY <1>2, <1>3 DEF Growing
  <2>3. TaskPlaced(w)' /\ TaskCounts(w)'
    BY <1>1, <1>4, <2>2 DEF TaskInv, TaskPlaced, TaskCounts, GoesOn
  <2>4. TaskFollows(w)'
    BY <1>1, <1>4, <2>1, <2>2 DEF TaskInv, TaskFollows, GoesOn, Passes
  <2> QED  BY <2>3, <2>4 DEF TaskInv
<1> QED  BY <1>1, <1>3, <1>4, <1>5, NothingLostStays, MoveInv

-----------------------------------------------------------------------------
(* The scheduler, stop and the surroundings.                               *)

\* A step of nobody's: what is left to show.
LEMMA QuietInv ==
    ASSUME IInv, work' = work, TypeOK', Growing, Incomplete, BatchPlaced', BatchFits',
           stop' \in {"closing", "closed"} => stop \in {"closing", "closed"} \/ Active = {}
    PROVE  IInv'
<1>1. NothingLost'
  BY NothingLostStays DEF IInv
<1>2. \A w \in Workers : TaskInv(w)'
  BY Steady DEF IInv
<1>3. StoreOutlivesWorkers'
  BY DEF IInv, StoreOutlivesWorkers, Active
<1> QED  BY <1>1, <1>2, <1>3 DEF IInv

\* One that leaves the table and the batch alone as well.
LEMMA IdleInv ==
    ASSUME IInv, UNCHANGED <<db, batch, work>>, TypeOK',
           (sched = "acquire") <=> (sched' = "acquire"),
           stop' \in {"closing", "closed"} => stop \in {"closing", "closed"} \/ Active = {}
    PROVE  IInv'
<1>1. Growing /\ Incomplete
  BY SameGrowing
<1>2. BatchPlaced'
  BY DEF IInv, BatchPlaced
<1>3. BatchFits'
  BY DEF IInv, BatchFits, Active
<1> QED  BY <1>1, <1>2, <1>3, QuietInv

\* One that changes the table only, outside a batch.
LEMMA TableInv ==
    ASSUME IInv, UNCHANGED <<batch, work>>, TypeOK', Growing, Incomplete,
           sched # "acquire", sched' # "acquire", UNCHANGED stop
    PROVE  IInv'
<1>1. BatchPlaced'
  BY DEF IInv, BatchPlaced, NoBatch
<1>2. BatchFits'
  BY DEF IInv, BatchFits, Active
<1> QED  BY <1>1, <1>2, QuietInv

\* Without a batch there is nothing to fit.
LEMMA NothingToFit ==
    ASSUME batch' = NoBatch
    PROVE  BatchFits' /\ (sched' # "acquire" => BatchPlaced')
<1>1. IsFiniteSet(Workers \ Active')
  BY ConfigAssumption, FS_Subset, Workers \ Active' \in SUBSET Workers
<1>2. Cardinality(Workers \ Active') \in Nat
  BY <1>1, FS_CardinalityType
<1>3. Len(<<>>) = 0 /\ Cardinality({}) = 0 /\ IsFiniteSet({})
  BY FS_EmptySet
<1>4. Len(batch'.todo) = 0 /\ Cardinality(batch'.got) = 0
  BY <1>3 DEF NoBatch
<1>5. BatchFits'
  BY <1>2, <1>4 DEF BatchFits
<1>6. ASSUME sched' # "acquire" PROVE BatchPlaced'
  BY <1>3, <1>6 DEF BatchPlaced, NoBatch
<1> QED  BY <1>5, <1>6

\* The process is gone, and everything of it.
LEMMA EndInv ==
    ASSUME IInv, UNCHANGED db, work' = [w \in Workers |-> Idle], batch' = NoBatch,
           sched' # "acquire", TypeOK'
    PROVE  IInv'
<1>1. \A w \in Workers : TaskInv(w)'
  BY DEF TaskInv, TaskPlaced, TaskFollows, TaskCounts, Idle
<1>2. NothingLost'
  BY SameGrowing, NothingLostStays DEF IInv
<1>3. StoreOutlivesWorkers'
  BY DEF StoreOutlivesWorkers, Active, Idle
<1> QED  BY <1>1, <1>2, <1>3, NothingToFit DEF IInv

\* The SELECT of acquire_lease_batch returns keys, no more than its LIMIT.
LEMMA CandidatesType ==
    ASSUME NEW d \in Table, NEW t, NEW limit \in Nat, NEW s \in Candidates(d, t, limit)
    PROVE  s \in Seq(Urls) /\ Len(s) \in Nat /\ Len(s) <= limit
<1> DEFINE E == {u \in Urls : Leasable(d[u], t)}
           n == IF Cardinality(E) < limit THEN Cardinality(E) ELSE limit
<1>1. Cardinality(E) \in Nat
  <2>1. E \in SUBSET Urls
    OBVIOUS
  <2> QED  BY <2>1, UrlsAssumption, FS_Subset, FS_CardinalityType
<1>2. s \in [1 .. n -> E]
  BY DEF Candidates
<1>3. E \subseteq Urls
  OBVIOUS
<1> HIDE DEF E
<1>4. n \in Nat /\ n <= limit
  BY <1>1
<1> HIDE DEF n
<1>5. s \in Seq(Urls) /\ Len(s) = n
  BY <1>2, <1>3, <1>4
<1> QED  BY <1>4, <1>5

\* The slots there are.
LEMMA FreeSlotsType == FreeSlots \in Nat /\ (Active # Workers => FreeSlots > 0)
<1>1. Workers \ Active \in SUBSET Workers /\ Active \subseteq Workers
  BY DEF Active
<1>2. IsFiniteSet(Workers \ Active)
  BY <1>1, ConfigAssumption, FS_Subset
<1>3. Cardinality(Workers \ Active) \in Nat
  BY <1>2, FS_CardinalityType
<1>4. Cardinality(Workers \ Active) = 0 <=> Workers \ Active = {}
  BY <1>2, FS_EmptySet
<1> QED  BY <1>1, <1>3, <1>4 DEF FreeSlots

\* Start and Resume: scheduler.init enqueues the seed.
LEMMA StartInv ==
    ASSUME IInv, Start \/ Resume
    PROVE  IInv'
<1>1. /\ sched = "down" /\ sched' = "top" /\ db' = Insert(db, Seed, 0, Null, 0)
      /\ UNCHANGED <<now, batch, work, interrupts>> /\ TypeOK
  BY DEF Start, Resume, IInv
<1>2. db \in Table /\ Seed \in Urls
  BY <1>1, SiteAssumption DEF TypeOK
<1>3. Growing /\ Incomplete /\ db' \in Table
  BY <1>1, <1>2, InsertGrowing, InsertType
<1>4. TypeOK'
  BY <1>1, <1>3 DEF TypeOK, interrupts
<1> QED  BY <1>1, <1>3, <1>4, TableInv DEF interrupts

\* _maybe_expire_leases.
LEMMA ExpireLeasesInv ==
    ASSUME IInv, ExpireLeases
    PROVE  IInv'
<1>1. /\ sched \in {"top", "woken"} /\ sched' = "slots" /\ db' = Expire(db, now)
      /\ UNCHANGED <<now, batch, work, interrupts>> /\ TypeOK
  BY DEF ExpireLeases, IInv
<1>2. db \in Table
  BY <1>1 DEF TypeOK
<1>3. Growing /\ Incomplete /\ db' \in Table
  BY <1>1, <1>2, ExpireGrowing, ExpireType
<1>4. TypeOK'
  BY <1>1, <1>3 DEF TypeOK, interrupts
<1> QED  BY <1>1, <1>3, <1>4, TableInv DEF interrupts

\* The steps of the loop, and of stop, that write nothing.
LEMMA LoopInv ==
    ASSUME IInv, \/ SkipExpire \/ NoSlot \/ SlotFreed \/ CheckComplete \/ Wake
                 \/ RequestStop \/ Drained \/ CloseStore \/ Tick
    PROVE  IInv'
<1>1. CASE SkipExpire \/ NoSlot \/ SlotFreed \/ CheckComplete \/ Wake
  <2>1. /\ UNCHANGED <<db, now, batch, work, interrupts>>
        /\ sched \in {"woken", "slots", "wait", "check", "sleep"}
        /\ sched' \in {"woken", "slots", "wait", "check", "sleep", "done", "top"}
    BY <1>1 DEF SkipExpire, NoSlot, SlotFreed, CheckComplete, Wake
  <2>2. TypeOK'
    BY <2>1 DEF IInv, TypeOK, interrupts
  <2> QED  BY <2>1, <2>2, IdleInv DEF interrupts
<1>2. CASE RequestStop
  <2>1. TypeOK'
    BY <1>2, ConfigAssumption DEF RequestStop, IInv, TypeOK
  <2> QED  BY <1>2, <2>1, IdleInv DEF RequestStop
<1>3. CASE Drained
  <2>1. TypeOK'
    BY <1>3 DEF Drained, IInv, TypeOK
  <2> QED  BY <1>3, <2>1, IdleInv DEF Drained
<1>4. CASE CloseStore
  <2>1. TypeOK'
    BY <1>4 DEF CloseStore, IInv, TypeOK
  <2> QED  BY <1>4, <2>1, IdleInv DEF CloseStore
<1>5. CASE Tick
  <2>1. /\ now' = now + 1 /\ UNCHANGED <<db, sched, batch, work, interrupts>>
    BY <1>5 DEF Tick
  <2>2. TypeOK'
    BY <2>1 DEF IInv, TypeOK, interrupts
  <2> QED  BY <2>1, <2>2, IdleInv DEF interrupts
<1> QED  BY <1>1, <1>2, <1>3, <1>4, <1>5

\* AcquireSelect: the list is no longer than the slots are many.
LEMMA AcquireSelectInv ==
    ASSUME IInv, AcquireSelect
    PROVE  IInv'
<1> DEFINE limit == IF FreeSlots < BatchSize THEN FreeSlots ELSE BatchSize
<1>1. /\ sched = "slots" /\ UNCHANGED <<db, now, work, interrupts>> /\ TypeOK
      /\ batch = NoBatch
  BY DEF AcquireSelect, IInv, BatchPlaced
<1>2. PICK todo \in Candidates(db, now, limit) :
         IF todo = <<>>
         THEN sched' = "check" /\ UNCHANGED batch
         ELSE /\ sched' = "acquire"
              /\ batch' = [active |-> TRUE, asOf |-> now, todo |-> todo, got |-> {}]
  BY DEF AcquireSelect
<1>3. limit \in Nat /\ limit <= FreeSlots /\ FreeSlots \in Nat
  BY FreeSlotsType, ConfigAssumption
<1> HIDE DEF limit
<1>4. db \in Table /\ now \in Nat
  BY <1>1 DEF TypeOK
<1>5. todo \in Seq(Urls) /\ Len(todo) \in Nat /\ Len(todo) <= limit
  BY <1>2, <1>3, <1>4, CandidatesType
<1>6. CASE todo = <<>>
  <2>1. TypeOK'
    BY <1>1, <1>2, <1>6 DEF TypeOK, interrupts
  <2> QED  BY <1>1, <1>2, <1>6, <2>1, IdleInv DEF interrupts
<1>7. CASE todo # <<>>
  <2>1. sched' = "acquire" /\ batch' = [active |-> TRUE, asOf |-> now, todo |-> todo, got |-> {}]
    BY <1>2, <1>7
  <2>2. TypeOK'
    BY <1>1, <1>4, <1>5, <2>1 DEF TypeOK, BatchRecord, interrupts
  <2>3. Growing /\ Incomplete
    BY <1>1, SameGrowing
  <2>4. BatchPlaced'
    BY <2>1, FS_EmptySet DEF BatchPlaced
  <2>5. BatchFits'
    <3>1. Len(batch'.todo) = Len(todo) /\ Cardinality(batch'.got) = 0
      BY <2>1, FS_EmptySet
    <3>2. Cardinality(Workers \ Active') = FreeSlots
      BY <1>1 DEF FreeSlots, Active
    <3> QED  BY <1>3, <1>5, <3>1, <3>2 DEF BatchFits
  <2> QED  BY <1>1, <2>2, <2>3, <2>4, <2>5, QuietInv DEF interrupts
<1> QED  BY <1>6, <1>7

\* The token of a new lease is in no row, task or lease.
LEMMA FreshTokenUnused ==
    ASSUME AcquireUpdate
    PROVE  FreshToken \in Tokens /\ Unused(FreshToken)
BY DEF AcquireUpdate, FreshToken

\* AcquireUpdate: one URL less, and at most one lease more.
LEMMA AcquireUpdateInv ==
    ASSUME IInv, AcquireUpdate
    PROVE  IInv'
<1> DEFINE u == Head(batch.todo)
           lease == [url |-> u, token |-> FreshToken]
<1>1. /\ sched = "acquire" /\ batch.todo # <<>> /\ TypeOK /\ BatchPlaced /\ BatchFits
      /\ db' = Lease(db, u, FreshToken, batch.asOf + LeaseTtl, batch.asOf)
      /\ batch' = [batch EXCEPT !.todo = Tail(@),
                                !.got  = IF db' # db THEN @ \cup {lease} ELSE @]
      /\ UNCHANGED <<now, sched, work, interrupts>>
  BY DEF AcquireUpdate, IInv
<1>2. FreshToken \in Tokens /\ \A w \in Workers : work[w].token # FreshToken
  BY FreshTokenUnused DEF Unused
<1>3. /\ db \in Table /\ batch.todo \in Seq(Urls) /\ u \in Urls
      /\ batch.asOf + LeaseTtl \in Nat /\ batch.got \in SUBSET LeaseRecord
      /\ Tail(batch.todo) \in Seq(Urls) /\ Len(Tail(batch.todo)) = Len(batch.todo) - 1
      /\ Len(batch.todo) \in Nat
  BY <1>1, ConfigAssumption DEF TypeOK, BatchRecord
<1>4. Growing /\ Incomplete /\ db' \in Table
  BY <1>1, <1>2, <1>3, LeaseGrowing, LeaseType
<1>5. /\ batch'.active = batch.active /\ batch'.asOf = batch.asOf
      /\ batch'.todo = Tail(batch.todo)
      /\ batch'.got = batch.got \/ (db' # db /\ batch'.got = batch.got \cup {lease})
  BY <1>1 DEF TypeOK, BatchRecord
<1>6. lease \in LeaseRecord
  BY <1>2, <1>3 DEF LeaseRecord
<1>7. TypeOK'
  <2>1. batch' = [active |-> batch'.active, asOf |-> batch'.asOf, todo |-> batch'.todo,
                  got |-> batch'.got]
    BY <1>1 DEF TypeOK, BatchRecord
  <2>2. batch'.got \in SUBSET LeaseRecord
    BY <1>3, <1>5, <1>6
  <2>3. batch' \in BatchRecord
    BY <1>1, <1>3, <1>5, <2>1, <2>2 DEF TypeOK, BatchRecord
  <2> QED  BY <1>1, <1>4, <2>3 DEF TypeOK, interrupts
<1>8. IsFiniteSet(batch'.got) /\ Cardinality(batch'.got) <= Cardinality(batch.got) + 1
      /\ Cardinality(batch.got) \in Nat /\ Cardinality(batch'.got) \in Nat
  <2> DEFINE more == batch.got \cup {lease}
  <2>1. IsFiniteSet(batch.got)
    BY <1>1 DEF BatchPlaced
  <2>2. /\ IsFiniteSet(more)
        /\ Cardinality(more) \in {Cardinality(batch.got), Cardinality(batch.got) + 1}
    BY <2>1, FS_AddElement
  <2>3. Cardinality(batch.got) \in Nat /\ Cardinality(more) \in Nat
    BY <2>1, <2>2, FS_CardinalityType
  <2> HIDE DEF more, lease
  <2>4. batch'.got \in {batch.got, more}
    BY <1>5 DEF more
  <2> QED  BY <2>1, <2>2, <2>3, <2>4
<1>9. BatchPlaced'
  <2>1. db' # db => Exists(db', u)
    BY <1>1, <1>3, LeaseRows DEF Exists
  <2>2. \A l \in batch.got : Exists(db', l.url)
    BY <1>1, <1>3, <1>4 DEF BatchPlaced, Growing, LeaseRecord
  <2> QED  BY <1>1, <1>5, <1>8, <2>1, <2>2 DEF BatchPlaced
<1>10. BatchFits'
  <2>1. Cardinality(Workers \ Active') = Cardinality(Workers \ Active)
    BY <1>1 DEF Active
  <2>2. Cardinality(Workers \ Active) \in Nat
    BY FreeSlotsType DEF FreeSlots
  <2> QED  BY <1>1, <1>3, <1>5, <1>8, <2>1, <2>2 DEF BatchFits
<1> QED  BY <1>1, <1>4, <1>7, <1>9, <1>10, QuietInv DEF interrupts

\* The job of a worker just dispatched.
Fetching(l) == [Idle EXCEPT !.pc = "fetch", !.url = l.url, !.token = l.token,
                            !.beatAt = now + HeartbeatInterval]

LEMMA FetchingType ==
    ASSUME TypeOK, NEW l \in LeaseRecord
    PROVE  /\ Fetching(l) \in Job
           /\ Fetching(l).pc = "fetch" /\ Fetching(l).url = l.url /\ Fetching(l).token = l.token
           /\ Fetching(l).beats = 0 /\ Fetching(l).body = Null
<1>1. now + HeartbeatInterval \in Nat
  BY ConfigAssumption DEF TypeOK
<1>2. l.url \in Urls /\ l.token \in Tokens
  BY DEF LeaseRecord
<1> DEFINE at == now + HeartbeatInterval
           j == [Idle EXCEPT !.pc = "fetch", !.url = l.url, !.token = l.token, !.beatAt = at]
<1> HIDE DEF at
<1>3. at \in Nat
  BY <1>1 DEF at
<1>4. j \in Job
  BY <1>2, <1>3, IdleType DEF Job, Pcs
<1>5. j.pc = "fetch" /\ j.url = l.url /\ j.token = l.token /\ j.beats = 0 /\ j.body = Null
  BY DEF Idle
<1> QED  BY <1>4, <1>5 DEF Fetching, at

\* dispatch: each lease goes to a free slot, and the other slots are as they were.
LEMMA DispatchedJobs ==
    ASSUME TypeOK, NEW leases \in SUBSET LeaseRecord, Dispatched(leases)
    PROVE  /\ work' \in [Workers -> Job]
           /\ \E slot \in [leases -> Workers \ Active] :
                 /\ \A l \in leases : work'[slot[l]] = Fetching(l)
                 /\ \A w \in Workers : (\A l \in leases : slot[l] # w) => work'[w] = work[w]
<1>1. PICK slot \in [leases -> Workers \ Active] :
         /\ \A l, k \in leases : slot[l] = slot[k] => l = k
         /\ work' = [w \in Workers |->
                       IF \E l \in leases : slot[l] = w
                       THEN LET l == CHOOSE l \in leases : slot[l] = w
                            IN  [Idle EXCEPT !.pc = "fetch", !.url = l.url, !.token = l.token,
                                             !.beatAt = now + HeartbeatInterval]
                       ELSE work[w]]
  BY DEF Dispatched
<1> DEFINE From(w) == CHOOSE l \in leases : slot[l] = w
<1>2. work' = [w \in Workers |-> IF \E l \in leases : slot[l] = w
                                 THEN Fetching(From(w)) ELSE work[w]]
  BY <1>1 DEF Fetching
<1>3. \A l \in leases : slot[l] \in Workers /\ From(slot[l]) = l
  BY <1>1
<1>4. ASSUME NEW w \in Workers, \E l \in leases : slot[l] = w
      PROVE  From(w) \in leases
  BY <1>4
<1> HIDE DEF From
<1>5. work' \in [Workers -> Job]
  <2>1. ASSUME NEW w \in Workers
        PROVE  (IF \E l \in leases : slot[l] = w THEN Fetching(From(w)) ELSE work[w]) \in Job
    BY <1>4, FetchingType DEF TypeOK
  <2> QED  BY <1>2, <2>1
<1>6. \A l \in leases : work'[slot[l]] = Fetching(l)
  BY <1>2, <1>3
<1>7. \A w \in Workers : (\A l \in leases : slot[l] # w) => work'[w] = work[w]
  BY <1>2
<1> QED  BY <1>1, <1>5, <1>6, <1>7

\* Dispatch: what it dispatches has a row and a heartbeat to come; with the flag up
\* it dispatches nothing.
LEMMA DispatchInv ==
    ASSUME IInv, Dispatch
    PROVE  IInv'
<1> DEFINE leases == IF stop = "no" THEN batch.got ELSE {}
<1>1. /\ sched = "acquire" /\ sched' \in {"check", "sleep"} /\ batch' = NoBatch
      /\ Dispatched(leases) /\ UNCHANGED <<db, now, interrupts>> /\ TypeOK /\ BatchPlaced
  BY DEF Dispatch, IInv
<1>2. leases \in SUBSET LeaseRecord
  BY <1>1 DEF TypeOK, BatchRecord
<1>3. \A l \in leases : Exists(db, l.url)
  BY <1>1 DEF BatchPlaced
<1> HIDE DEF leases
<1>4. work' \in [Workers -> Job]
  BY <1>1, <1>2, DispatchedJobs
<1>5. PICK slot \in [leases -> Workers \ Active] :
         /\ \A l \in leases : work'[slot[l]] = Fetching(l)
         /\ \A w \in Workers : (\A l \in leases : slot[l] # w) => work'[w] = work[w]
  BY <1>1, <1>2, DispatchedJobs
<1>6. TypeOK'
  BY <1>1, <1>4, IdleType DEF TypeOK, interrupts
<1>7. Growing /\ Incomplete
  BY <1>1, SameGrowing
<1>8. ASSUME NEW w \in Workers
      PROVE  TaskInv(w)'
  <2>1. CASE \A l \in leases : slot[l] # w
    BY <1>1, <1>5, <1>7, <2>1, Steady DEF IInv
  <2>2. ASSUME NEW l \in leases, slot[l] = w
        PROVE  TaskInv(w)'
    <3>1. /\ work'[w].pc = "fetch" /\ work'[w].url = l.url /\ work'[w].token = l.token
          /\ work'[w].beats = 0 /\ work'[w].body = Null
      BY <1>1, <1>2, <1>5, <2>2, FetchingType
    <3>2. l.url \in Urls /\ l.token \in Tokens /\ Exists(db', l.url)
      BY <1>1, <1>2, <1>3 DEF LeaseRecord
    <3>3. TaskPlaced(w)'
      BY <3>1, <3>2, RenewalAssumption DEF TaskPlaced
    <3>4. TaskFollows(w)' /\ TaskCounts(w)'
      BY <3>1 DEF TaskFollows, TaskCounts
    <3> QED  BY <3>3, <3>4 DEF TaskInv
  <2> QED  BY <2>1, <2>2
<1>9. NothingLost'
  BY <1>1, <1>7, NothingLostStays DEF IInv
<1>10. StoreOutlivesWorkers'
  <2>1. SUFFICES ASSUME stop \in {"closing", "closed"}, NEW w \in Workers
                 PROVE  work'[w].pc = "idle"
    BY <1>1 DEF StoreOutlivesWorkers, Active, interrupts
  <2>2. leases = {} /\ work[w].pc = "idle"
    BY <2>1 DEF IInv, StoreOutlivesWorkers, Active, leases
  <2> QED  BY <1>5, <2>2
<1> QED  BY <1>1, <1>6, <1>8, <1>9, <1>10, NothingToFit DEF IInv

\* LeaveLoop: the batch is dropped with the call that acquired it.
LEMMA LeaveLoopInv ==
    ASSUME IInv, LeaveLoop
    PROVE  IInv'
<1>1. /\ sched' = "ended" /\ batch' = NoBatch /\ UNCHANGED <<db, now, work, interrupts>>
  BY DEF LeaveLoop
<1>2. TypeOK'
  BY <1>1, IdleType DEF IInv, TypeOK, interrupts
<1>3. Growing /\ Incomplete
  BY <1>1, SameGrowing
<1> QED  BY <1>1, <1>2, <1>3, NothingToFit, QuietInv DEF interrupts

\* Exit and Crash.
LEMMA ExitInv ==
    ASSUME IInv, Exit \/ Crash
    PROVE  IInv'
<1>1. /\ work' = [w \in Workers |-> Idle] /\ batch' = NoBatch /\ UNCHANGED db
      /\ sched' \in {"exited", "down"} /\ stop' = "no" /\ UNCHANGED <<now, stops>>
      /\ crashes' \in 0 .. MaxCrashes
  <2>1. CASE Exit
    BY <2>1 DEF Exit, IInv, TypeOK, BatchPlaced
  <2>2. CASE Crash
    BY <2>2, ConfigAssumption DEF Crash, IInv, TypeOK
  <2> QED  BY <2>1, <2>2
<1>2. work' \in [Workers -> Job]
  BY <1>1, IdleType
<1>3. TypeOK'
  BY <1>1, <1>2, IdleType DEF IInv, TypeOK
<1> QED  BY <1>1, <1>3, EndInv

-----------------------------------------------------------------------------

LEMMA InitInv == Init => IInv
<1> SUFFICES ASSUME Init PROVE IInv
  OBVIOUS
<1>1. TypeOK
  BY IdleType, EmptyTableType, ConfigAssumption DEF Init, TypeOK
<1>2. \A w \in Workers : TaskInv(w)
  BY DEF Init, TaskInv, TaskPlaced, TaskFollows, TaskCounts, Idle
<1>3. NothingLost
  BY DEF Init, NothingLost, EmptyTable, NoRow
<1>4. BatchPlaced
  BY FS_EmptySet DEF Init, BatchPlaced, NoBatch
<1>5. BatchFits
  <2>1. Len(<<>>) = 0 /\ Cardinality({}) = 0
    BY FS_EmptySet
  <2>2. Cardinality(Workers \ Active) \in Nat
    BY FreeSlotsType DEF FreeSlots
  <2> QED  BY <2>1, <2>2 DEF Init, BatchFits, NoBatch
<1>6. StoreOutlivesWorkers
  BY DEF Init, StoreOutlivesWorkers
<1> QED  BY <1>1, <1>2, <1>3, <1>4, <1>5, <1>6 DEF IInv

LEMMA StutterInv ==
    ASSUME IInv, UNCHANGED vars
    PROVE  IInv'
<1>1. /\ UNCHANGED <<db, now, sched, stop, batch, work, crashes, stops>>
  BY DEF vars, interrupts
<1>2. TypeOK'
  BY <1>1 DEF IInv, TypeOK
<1> QED  BY <1>1, <1>2, IdleInv

LEMMA NextInv == IInv /\ [Next]_vars => IInv'
<1> SUFFICES ASSUME IInv, [Next]_vars PROVE IInv'
  OBVIOUS
<1>1. CASE Scheduler
  BY <1>1, StartInv, ExpireLeasesInv, LoopInv, AcquireSelectInv, AcquireUpdateInv, DispatchInv,
     LeaveLoopInv, ExitInv DEF Scheduler
<1>2. CASE Stop \/ Tick
  BY <1>2, LoopInv DEF Stop
<1>3. ASSUME NEW w \in Workers, Worker(w) \/ Heartbeat(w)
      PROVE  IInv'
  BY <1>3, FetchDoneInv, ProcessInv, EnqueueDiscoveredInv, HandleRedirectInv, CompleteUrlInv,
     FailUrlInv, ReadRetryCountInv, RescheduleUrlInv, FinallyInv, HeartbeatInv DEF Worker
<1>4. CASE Crash
  BY <1>4, ExitInv
<1>5. CASE Exited \/ UNCHANGED vars
  BY <1>5, StutterInv DEF Exited
<1> QED  BY <1>1, <1>2, <1>3, <1>4, <1>5 DEF Next

\* The inductive invariant holds of every crawl.
THEOREM Invariance == Spec => []IInv
BY InitInv, NextInv, PTL DEF Spec

-----------------------------------------------------------------------------
(* The theorems.                                                           *)

\* The table and the tasks keep their types; no heartbeat beats more often than a
\* lease may be renewed.
THEOREM TypeCorrect == Spec => []TypeOK
<1>1. IInv => TypeOK
  BY DEF IInv
<1> QED  BY <1>1, Invariance, PTL

\* The links of a completed page and the target of a completed redirect are in the
\* frontier: for any site, any speed of workers, and any crashes and stops.
THEOREM LinksAreFollowed == Spec => []NothingLost
<1>1. IInv => NothingLost
  BY DEF IInv
<1> QED  BY <1>1, Invariance, PTL

\* available_slots never promises the batch more than dispatch finds.
THEOREM DispatchNeverWaits == Spec => []BatchFits
<1>1. IInv => BatchFits
  BY DEF IInv
<1> QED  BY <1>1, Invariance, PTL

\* Crawler.stop closes client and store when the workers have come to their end.
THEOREM StopWaits == Spec => []StoreOutlivesWorkers
<1>1. IInv => StoreOutlivesWorkers
  BY DEF IInv
<1> QED  BY <1>1, Invariance, PTL
=============================================================================
