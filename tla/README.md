# A TLA+ model of the crawler

The crawler (`src/src/crawler`) is one asyncio process around one SQLite file.
It keeps a frontier of URLs, leases them to workers, and must come through
crashes, stops, slow workers and refusals without losing a URL or doing two
workers' work with one. This directory models that core, checks it with TLC and
proves most of its safety with TLAPS.

Paths below are relative to `src/src/crawler/` unless they start with `src/`.
The requirements quoted are those of
`src/.kiro/specs/web-crawler/requirements.md`.

## 1. The system

| Component | State | Operations | Correct when |
|---|---|---|---|
| Metadata store (`metadata_store.py`) | tables `url_records`, `*_metadata`, `crawl_config`; one connection, so one open transaction for all coroutines | enqueue, acquire_lease_batch, renew_lease, expire_leases, mark_completed / retry / terminal_failed / failed, store_*_metadata, queries | a lease is held by one party, is durable before it is used, ends by report or expiry only; no row gets stuck; the file always shows a legal history |
| Scheduler (`scheduler.py`) | its place in the run loop, when it last expired leases, shutdown flag | init, run, completion test, handling of results, retries, shutdown | the crawl ends, and only when nothing is left to do; retries are counted and bounded |
| Worker pool (`worker_pool.py`) | active count, semaphore, event, tasks | dispatch, wait_for_slot, drain | no more workers than slots, a freed slot is noticed |
| Worker (`worker.py`) | the lease it works under, its heartbeat task, the links still to enqueue | process_url, redirect, enqueue links, heartbeat | all links of a finished page are in the frontier; a worker that lost its lease does no harm |
| Rate limiter (`rate_limiter.py`) | gate (event), semaphore, pending count, refusals of each call | execute, backoff | permits are conserved, the gate reopens, nobody starves, and nobody fetches during a backoff |
| Crawler (`crawler.py`, `__main__.py`) | the objects above, the HTTP client | start, resume, stop | a restarted crawl goes on where the last one ended |
| Processors, dispatcher (`processors/`, `content_dispatcher.py`) | content-addressed files | process, write_file_if_not_exists | what a completed URL refers to is there and whole |
| Configuration (`crawl_config`, `CrawlerConfig`) | the row of the last start or init, the copy of the session | store_config, load_config | a resumed crawl goes by the limits of the one started |
| URL filter and normalizer (`url_filter.py`, `url_normalizer.py`, `pipeline/`) | the domain and the limits of the session | passes, normalize | one key per page; the crawl stays on its site, within its limits |
| Fetchers, logger, pipeline configuration | none | | |

How they interact. `Crawler.start` or `resume` opens the store, wires the
objects and awaits `Scheduler.run`. The run loop acquires a batch of leases,
limited by the free slots, and hands each to the pool, which runs
`Scheduler._process_lease` as a task: it makes a `Worker`, whose `process_url`
starts a heartbeat task, fetches through the rate limiter, processes the
content, enqueues links and reports `mark_completed` itself; other outcomes are
reported by the scheduler, after `process_url` has returned. All of them await
the same store. The tasks share nothing else but the pool's counters and the
rate limiter.

What is hard about it:

* Every `await` of the store is a point where other coroutines run. The SELECT
  of `acquire_lease_batch` is old when its UPDATEs run; `get_retry_count` is old
  when `mark_retry` writes.
* One connection means one transaction: whoever commits, commits for everyone.
* A lease can expire under a worker that is still at work. The heartbeat renews
  it at most three times, its failure is not told to the worker, and a backoff
  of the rate limiter (up to 300 s) is longer than a lease (60 s by default).
* The completion test reads the table, not the tasks.
* A crash rolls back what was not committed, and leaves leases without a holder.
* Overlapping backoffs share one event.
* `stop` runs beside `start`: either may close what the other still uses.
* The configuration is stored twice by a start and once by a resume, not each
  time with the same domain, and a crash may come in between.
* Workers write the same file at the same time, each in its own thread.

`PROJECT.json` lists these and the other hazards, line by line, with the
properties that cover them.

## 2. The modules

| Module | What it is |
|---|---|
| `UrlRecords` | the table `url_records` and one operator per SQL condition and statement, from table to table. No state |
| `UrlLifecycle` | abstract specification: the state diagram of a URL, as the file shows it from commit to commit |
| `MetadataStore` | the store with any callers: statements, the shared transaction, crash and rollback |
| `Crawl` | scheduler, workers, heartbeats, store and `stop` together, over a given site, with crashes, stops and restarts |
| `RateLimiter` | calls of `execute`, the gate, the semaphore |
| `UrlNormalizer` | the steps of the normalizing pipeline, and what a URL stands for, defined without them. No state |
| `Frontier` | the configuration through starts, resumes and crashes, and the filter and normalizer every URL found passes |
| `PageStore` | the content-addressed files, between workers, lost leases, crashes and write errors |
| `*Proofs` | theorems about the module in the name; those about `Crawl` are in `CrawlProofs` and `CrawlRowProofs` (how URLs end and who holds them) |
| `MCMetadataStore`, `MCCrawl`, `MCFrontier`, `MCPageStore` | instances |
| `MCAttempts` | `MCCrawl` with a count of the fetches of each URL, for `claim_attempts` |

**Table.** A row keeps the columns some condition reads. Absent rows are rows
with state `"Absent"`; SQL NULL is `Null`, and `Elapsed` is the comparison that
is never true of it. Time is an integer. The four metadata tables, which no
condition reads and which hold at most one row per URL, are the field `meta`.
Where `ORDER BY` leaves a tie, `Candidates` has every order.

**MetadataStore.** `db` is what the connection sees, `durable` what the file
has. An operation is `Execute(newDb)`: the statement, with its commit at once or
later; `Commit` is the commit whenever it comes, of whomever. This is exactly
what one aiosqlite connection does: its thread runs statements and commits one
at a time, in any order the coroutines ask for them, in one transaction.
`acquire_lease_batch` is `AcquireSelect`, an `AcquireUpdate` per candidate and
`AcquireCommit`. A statement may run up to `MaxLag` after the clock reading it
carries. Whoever was ever handed a lease may use it whenever it likes
(`leases`), until `Forget`. `Crash` is the death of the process, followed by a
rollback when the file is opened again.

**Crawl.** One value of `sched` per place in `Scheduler.run`, one of `stop` per
place in `Crawler.stop`:

| Code | Actions |
|---|---|
| `Crawler.start` / `resume`, `Scheduler.init` | `Start`, `Resume` |
| `_maybe_expire_leases`, slots, `wait_for_slot` | `ExpireLeases`, `SkipExpire`, `NoSlot`, `SlotFreed` |
| `acquire_lease_batch` and the dispatch loop | `AcquireSelect`, `AcquireUpdate`, `Dispatch` |
| `_is_crawl_complete`, `sleep` | `CheckComplete`, `Wake` |
| the loop's test of the flag, or the exception of a closed connection; the end of the program | `LeaveLoop`, `Exit` |
| `Crawler.stop`: `shutdown` and `drain`, closing the client, closing the store | `RequestStop`, `Drained`, `CloseStore` |
| `_do_process`, `HtmlProcessor.process` | `FetchDone`, `Process` |
| `_enqueue_discovered_urls`, `_handle_redirect`, `mark_completed` | `EnqueueDiscovered`, `HandleRedirect`, `CompleteUrl` |
| `_handle_worker_result`, `_handle_retry` | `FailUrl`, `ReadRetryCount`, `RescheduleUrl` |
| `_run_worker`'s `finally` | `Finally` |
| `_lease_heartbeat` | `Heartbeat` |

Here a statement and its commit are one step. `MetadataStore` shows what lies
between them, and a crash that rolls back to the last commit leaves the table a
crash right after that commit would leave. The reads a redirect makes
(`get_redirect_count`, the deduplication) are one step with its `enqueue`: the
columns read never change once the row exists, and a target that appears in
between is ignored by `INSERT OR IGNORE` as well. `Process` takes the path of an
unchanged page to the exception it ends in (`html_processor.py:101` calls a
method the store does not have). The constant `MaxRenewals` stands for both
limits of 3, the one in the SQL and the one in the heartbeat.

After a stop the flag is up, and the run loop is left where it next looks at the
flag, or where it next uses the connection once that is closed. The client is
closed by `stop`, after the drain, and by `start`, as soon as the loop is left
(`ClientOpen`); a worker that still fetches then sees a transport error or, when
it has not sent its request yet, a `RuntimeError` (`Outcomes`).

That the crawl uses the store as `MetadataStore` describes is a property of a
run and a theorem (`UsesStore`, an INSTANCE with `durable <- db` and the workers' leases as
`leases`), so what is proved of the store's callers in general holds of these.

**RateLimiter.** A step is what a call does between two suspensions. It follows
`asyncio` where it matters: `Event.set` wakes those who wait, and they go on
even if it is cleared again before they run; the call that ends a backoff goes
to the semaphore before those it wakes; a released permit is handed to the first
waiter, and a waiter that starts hands on what was released in the meantime.
The last one was found by a run of the model without it, in which a permit lay
idle beside a waiter.

**UrlNormalizer and Frontier.** A URL is a record of what `urlparse` finds. A
query is its names and values as spelled; each spelling stands for octets, which
`ParseQsl` decodes to a text, putting the replacement character for what is no
UTF-8 and taking `a` for `a=`, and `Urlencode` spells the text in its own way.
Octets, texts and spellings are constants (`Octets`, `Text`, `Spell`), of which
only one thing is assumed: a text, spelled and decoded, is that text
(`QueryAssumption`). The other direction does not hold, and is not assumed. Paths are sequences over the digits 1, 3, a, A, the slash and `%`: an alphabet
in which decoding a triplet gives an unreserved character, or none, and which it
does not leave. `Normalize` composes the steps, each on the part it rewrites.
`SamePage` says, from RFC 3986 and not from the steps, when two spellings are of
one page: queries are compared by their octets. `Regular` excludes those that
have no such reading (a `%` that begins no triplet, a path of slashes only, a
`;`) and those that the pipeline cannot keep apart (a query with a name without
`=`, or with octets that are no UTF-8; section 5). In `Frontier` a process is a
`session`: `Start` and `Resume` build its `CrawlerConfig` and filter, `InitStores`
and `InitSeeds` are `Scheduler.init`, `Discover` is one link of a page and
`Redirect` the target of a redirect, at the depth of its source, through
normalizer, filter and `INSERT OR IGNORE`; `End` may come at any point. `asked`,
and the field of that name in a row, remember the seed and the limits of the
last start, and `found` whether the row came from a page rather than from the
seed. A regular expression is the set of the paths of the URLs it matches.

**PageStore.** A body is `Chunks` write calls; a file is the set of chunks it
has. `CheckExists` is `os.path.exists`, `Open` truncates, `Write` writes where the
writer has got to, whatever others did to the file. Leases are reduced to their
holder, and `Expire` takes one at any time. `cut` remembers files whose writing
was cut short.

## 3. The runs

| Run | Instance | Shows |
|---|---|---|
| `store` | 2 URLs, 2 tokens, batches of 2, leases and backoffs of 1, clock to 1 | `TypeOK`, `LeaseCommitted`, `Reclaimable`, `LiveLeaseRespected`, `RetryNotEarly`, the refinement `ImplementsLifecycle`, and the invariant of the proofs, `IInv` |
| `crawl` | 3 URLs (self link, back link, redirect, a page that may fail or be gone), 2 workers, 1 crash, prompt workers and heartbeats | `TypeOK`, `NothingLost`, `OneWorkerPerUrl`, `DoneIsFinal`, `FailuresAreTheSites` |
| `crawl_slow` | 2 URLs, 2 workers and heartbeats of any speed, 2 retries, clock to 4 | `BatchFits`, `NothingLost`, `OneHolder`, `FailuresAreTheSites`, `RetriesCounted`, `LeasesKept`, `UsesStore` |
| `crawl_live` | 2 URLs, 1 worker, 1 crash, 1 stop, fairness, prompt workers and heartbeats | `StoreOutlivesWorkers`, `Terminates`, `OrphansReclaimed` |
| `limiter` | 4 callers, queue of 3, 2 permits, 3 refusals | `TypeOK`, `PermitsAccountedFor`, `GateWillOpen`, `EveryCallEnds` |
| `pages` | 2 workers, 2 pages with a body in common, 3 writes per file, 2 crashes or write errors, fairness | `CompletedFilesWhole`, `FilesSettleForGood`, `SharedFilesSettle`, and the invariant of the proofs, `IInv` |
| `frontier` | 4 seeds, 2 sets of limits, 99 links, 1 URL found | `TypeOK`, `OneRowPerPage`, `KeysAreNormal`, `OnSite`, `WithinLimits`, `SurvivesResume` |
| `claim_*` | small instances of the same | a statement of the documents that the code does not keep, see 5 |

Why these bounds. In the store everything that can go wrong is about one row,
or about a batch of two whose first row is leased while the second changes;
tokens are compared only for equality, hence the symmetry. One clock unit lets
a lease and a backoff run out and the URL be leased again. What needs more
(three renewals, lags, many tokens) is what the theorems are for. In the crawl,
two workers are the least at which a lease can be lost to another, `BatchSize` 2
the least with a second UPDATE, `MaxRetries` 1 has a retry that is allowed and
one that is not, and likewise `MaxRedirects` 1; `crawl_slow` has 2 of them, so
that a stale worker's count is one the row may have had and has no longer; a lease
of two units with a heartbeat after one has the proportions of the code. There is a token for every
row, task and lease of a batch, and one more, so `FreshToken` never lacks one
(`MCCrawl` assumes that of its instances). One crash can hit every step, before
and after which the crawl runs on, and one stop every place of the loop. Queue
overflow, an exhausted call, two simultaneous backoffs and waiters in the
semaphore all occur in `limiter`. Two writers of one file and a crash, or a
second writer and an error, are what `pages` needs; three writes have a first, a
middle and a last. `frontier` has every path of up to three characters from
`/`, `%`, `3`, every triplet of `Hex` with a letter, and one of each other thing
a step looks at, queries whose values are spelled in two ways, come in another
order, come twice, are empty, have no `=` or are not UTF-8. Rows of seeds are not
bounded; one row of a URL found is enough for a page found from a page, and as the
finite `max_depth` is 0, a link of the seed is beyond it and a redirect of the seed
is not. The seeds are spelled as normalized, with a capital and the default port,
with a port that is none, and one is on another site, so that the rows of a site
are still there when the next is crawled. The bound
`MaxNow` on the clock is reached, among the passing crawl runs, in `crawl_slow`
only, after which workers still finish in every order. In `crawl` no reachable
state has the clock at 20, and in `crawl_live` a run loop that polls for a time
that never comes would violate `Terminates`.

**Prompt workers.** A worker whose lease expires goes on working, and nothing in
the code keeps a lease from expiring: a backoff may last 300 s
(`rate_limiter.py:144`), a lease 60 s, and there are three renewals. Two constants
say how fast tasks are, by making the clock wait. With `PromptHeartbeats` it does
not pass a heartbeat that is due; with `PromptWorkers` it does not reach the end
of a lease somebody works under. Three properties rest on `PromptWorkers`, which is
an assumption about the site and the machine and not something the code enforces:
`OneWorkerPerUrl`, `DoneIsFinal` and `Terminates` (the first two are checked in
`crawl`, the third in `crawl_live`). Two runs show what happens without it:

* `claim_attempts`: with heartbeats on time and fetches that take longer than the
  lease and its three renewals, the URL is leased again while the first worker is
  still at it, and the late attempts are not counted: a URL that may be retried once
  is fetched three times. Only fetches and the run loop's sleep take time there
  (`SlowFetch`), so nothing but the site is to blame. Each such fetch leaves the row
  with the retry count it had, and nothing keeps the next one from ending the same
  way: the crawl of such a site does not end, and `Terminates` is a statement about
  others. The run shows the part of this that is a finite behaviour.
* `claim_done`: the crawl is declared complete while a worker without a lease goes
  on, which then adds a URL (heartbeats on time, the clock to 6).

Under any speed of either (`crawl_slow`) there remain `NothingLost`,
`RetriesCounted`, `BatchFits`, `FailuresAreTheSites`, what the store promises, and
two properties that say what a lease is still worth: of the workers at one URL one
at most can report (`OneHolder`), and nobody else can take that from it before its
time is up (`LeasesKept`).

**Fairness.** `crawl_live` assumes weak fairness of the run loop, of what `stop`
does once it is called, of each worker and heartbeat, and of the clock. The
event loop runs every task that is ready; fetches end because the HTTP client
has a timeout of 30 s; a process that died or was stopped is started again. The
clock ticks while something waits for it (`Deadlines`), so a crawl that waits for
nothing and does not end is found. Crashes and stops are not fair, and finitely
many. `limiter` assumes that each step of a call that can be taken is taken:
fetches and sleeps end. New calls need not be made. `pages` assumes that a task
that can go on does, file operations ending in their threads; leases need not
run out and nothing need be fetched.

Every property has a mutation of the code that breaks it, kept beside the
definition it replaces and introduced by "Mutant:".

## 4. The theorems

*The store* (`MetadataStoreProofs`, from `UrlsAssumption`, `NullAssumption`,
`RenewalAssumption`, `StoreAssumption`). For every finite set of URLs and every
choice of tokens, limits, delays and lag:

* `TypeCorrect`, `LeasesAreCommitted`, `RowsAreReclaimable`: the invariants of
  the runs;
* `LiveLeasesStand`, `RetriesWait`: the action properties;
* `FileFollowsLifecycle`: `Spec => ImplementsLifecycle`, the refinement of the
  abstract state diagram by the durable states.

They rest on one inductive invariant, `IInv`. `LeaseCommitted` and `Reclaimable`
are part of it. Two things had to be added. `BatchInPast`: the clock reading of
a batch is not in the future, without which an UPDATE that comes late could
take a live lease (`LiveLeaseRespected`), as it compares with that reading.
`CommitAllowed`: for each URL, committing now would be a step of the diagram,
without which nothing is known of a commit that comes after several statements.
For this the diagram's moves have to be closed under the statements that need no
lease, and a report has to find its lease in the file, which is `LeaseCommitted`.
`UrlRecordsProofs` has a lemma per statement (the table keeps its type);
`StatementInv` states once what a statement must do to keep `IInv`, so that an
operation's lemma only looks at the row it writes. The action properties follow
from `IInv` and a look at each action that ends a lease or starts one.

*The crawl* (`CrawlProofs` and `CrawlRowProofs`, from
`UrlsAssumption`, `NullAssumption`, `RenewalAssumption`, `SiteAssumption`,
`ConfigAssumption`). For every site, number of workers, batch size, limits, and
any crashes and stops:

* `TypeCorrect`, `LinksAreFollowed` (`NothingLost`), `DispatchNeverWaits`
  (`BatchFits`), `StopWaits` (`StoreOutlivesWorkers`);
* `RetriesAreCounted` (`RetriesCounted`);
* `StoreIsUsed`: `Spec => UsesStore`, the crawl implements the store's
  specification;
* `OnlyTheSiteRefuses` (`FailuresAreTheSites`), if `RawSpelled = {}` and
  `MaxStops = 0`: what it excludes is what the runs `claim_redirect` and
  `claim_stop` show;
* `LeaseExcludes` (`OneHolder`) and `LeasesLast` (`LeasesKept`), at any speed of
  the workers;
* `TheEndIsFinal` (`DoneIsFinal`), if `PromptWorkers`: without it the run
  `claim_done` shows it to fail.

`CrawlProofs` proves the first from the inductive invariant `IInv`. It adds to
the properties where a batch is (`BatchPlaced`) and what each worker knows at
each place of its task (`TaskInv`): that its row exists, that the links it has
crossed off are in the frontier, that the retry count it read is still the
row's as long as it holds the lease. Most of a step's effect on this is that the
rows *grow* (`Growing`): none is forgotten, and none becomes held by a worker
that did not hold it; `Steady` says that a worker that is not moved then keeps
what it knows. `TaskCounts` is why `RetriesCounted` holds although the
count is read in one statement and written in another: whoever may still write
has read the current value.

`CrawlRowProofs` lists the ten things a step can do to a row, and who does
them (`RowStep`, `StepRows`). Its theorems follow by going through the list:
only a task whose site refused, or which no longer has a lease, can be about to
fail for good (`TaskFails`).

Of leases it shows that no two leases in use have the same token
(`TokensApart`, without any assumption on speed), which is what lets a worker
forget its lease without another losing it; that is `LeaseExcludes`, and with
`BatchTimed` (the time a batch was selected at has come, so that a lease it takes
has run out) `LeasesLast`. With prompt workers it shows besides that every
lease worked under, or just granted, is held and has time left (`LeaseInv`). A
worker that could still enqueue a link then has its own URL in progress, so the
completion test cannot have succeeded.

*The rate limiter* (`RateLimiterProofs`, from `LimiterAssumption`). For any
callers, permits and limits. `GateReopens`: nobody waits at an open gate, and a
closed gate has a sleeper; this is inductive once `pc` is a function to `Places`,
the lemmas say where the semaphore can move a caller. `PermitsKept` and
`LimiterTypes`: permits add up, and none is idle while a caller waits and nobody
was woken. Here `PermitInv` adds that the semaphore's queue holds exactly the
callers that wait or were woken, each once, and that a call still inside has been
refused less often than the limit. The counting (`HandOutKeeps`) rests on
`FirstFew`: of the waiters with fewer than n before them there are at most n, and
one at least when somebody waits.

*The files* (`PageStoreProofs`, from `PageAssumption`). For any workers, pages,
files and number of write calls: `CompletedAreWhole`, `FilesSettle`. The
invariant `IInv` says why it is so (`WrittenByFollows`): a chunk that is missing
from a file not cut short will be written by a writer who has not got to it. A
second writer's truncation keeps that, because it starts with the first chunk
(`OpenedAtStart`).

*The normalizer* (`UrlNormalizerProofs`, from `LowerAssumption` and
`QueryAssumption`). For URLs whose
paths and queries have any length: `NormalizeType`, that a URL comes out;
`PagesTell`, that regular spellings have one normal form exactly when they are
spellings of one page (`SamePage`, which is defined by what the characters of a
path and the octets of a query's pairs are, without the steps); `NormalizeTwice`, that
the normal form is its own. "Regular" cannot be left out, as the assumptions
`NotIdempotent` and `QueriesMerge` of `MCFrontier` show.

* *Substituting.* `SubstituteUnfolds` turns the recursion of `Substitute` into an
  equation. By induction from the end of the path (`SubstituteReads`), what is
  written *reads* as what was read: there is a map of the places where characters
  begin, in order, onto those of the result, that keeps each character. The two
  steps are instances (`UpperRespells`, `DecodeRespells`), and such a map keeps
  `Resource` (`ReadsKeepsResource`).
* *Slashes.* Stripping keeps `Resource` too (`StrippedKeeps`): no triplet ends in
  a slash, so none is cut.
* *No two forms.* Of paths in normal form, the resource tells the path
  (`ResourceTells`): where the two have been alike, the next character begins at
  the same place, has the same number and is therefore the same (`EntryNext`);
  and in a path without unreserved triplets or small digits it is spelled the
  same (`CharTells`).
* *Queries.* Each pair's number of predecessors is a permutation that sorts
  (`OrderingExists`), and sequences in order with equally many of each pair are
  equal (`OrderTells`, by `NextInOrder`). What is parsed from two queries, of
  whatever spelling, has equally many of each pair exactly when they come out the
  same (`SortTells`), and what comes out is parsed to what it was made from
  (`ParseSpelled`). Where decoding replaces nothing, texts are equal just where
  octets are (`PlainDecodes`), so there the pairs of the page are those of the
  parse (`PlainTimes`), and the page tells the query (`QueryTells`).

The library's induction theorems take an operator for a parameter, which the
provers cannot instantiate. Induction is on a *set* of numbers instead
(`StrongInduction`, `Downward`), which follows from the least number that is not
in the set (`LeastNumber`).

*The frontier* (`FrontierProofs`, from `FrontierAssumption`, `LowerAssumption`,
`QueryAssumption`). For any seeds, links, limits and length of crawl:
`FrontierTypes`, `StaysOnSite`, `LimitsHold`, `ResumeAccepts` (`SurvivesResume`),
`KeysStayNormal`, `PagesHaveOneRow`. The invariant
has, besides the types, the site and the limits, where the configuration and the
session's scope come from (`Traceable`: the limits are those of the last start,
the domain the seed's as spelled or as normalized), that `Scheduler.init` has
stored the normalized one before a session accepts anything (`Frozen`), and that
each row has the normal form of the URL it was found under, which no other row
has (`Keyed`). `ResumeAccepts` needs no condition on the seed: a host that
matches the seed as spelled matches it in normal form (`SpelledIsNormal`). The
converse does not hold (`SpellingMatters` in `MCFrontier`). The last two theorems are `Keyed` and the
theorems on the normalizer.

*Model-checked only.* Liveness: `Terminates`, `OrphansReclaimed`, `EveryCallEnds`
and `SharedFilesSettle` are out of the prover's reach. `OneWorkerPerUrl` is left to
the run: what holds of it at any speed is `LeaseExcludes`. Every other property
of the passing runs is a theorem (`FailuresAreTheSites` under the conditions
above).

## 5. Where code and documents differ

| Run | The documents | The code |
|---|---|---|
| `claim_done` | after the crawl every URL is in a terminal state (4, line 128) | a worker that lost its lease may enqueue links after the end was decided |
| `claim_redirect` | a redirect's target is enqueued with its source as parent (5.3, line 140) | the parent is the spelling found; if that is no key the foreign key fails the URL |
| `claim_stop` | interrupted and resumed crawls give the same results (17, line 354) | a page whose request meets the client `start` has closed fails for good |
| `claim_backoff` | nothing is dispatched while a backoff is active (6.8, line 163) | the end of one backoff opens the gate for all |
| `claim_attempts` | at most `max_retries + 1` fetches of a URL (line 206) | attempts reported after their lease ran out do not count, nor do those lost in a crash |

The models show more of these, without a run of their own; the first two are
assumptions about the operators, `NotIdempotent` and `SpellingMatters`, that TLC
checks with every run of `MCFrontier`.

* Normalizing twice changes nothing (line 106, `url_normalizer.py:7`): a path of
  slashes only becomes the empty path, whose normal form is the root
  (`normalization_steps.py:157`), and decoding `/%%331` in one pass gives the
  triplet `/%31`, which another pass decodes.
* Interrupted and resumed crawls give the same results (line 354): a seed with a
  capital, a user or its default port spelled out has none of its links accepted
  after `start`, which compares them with the domain as spelled, and all of them
  after `resume` (`crawler.py:227`, `scheduler.py:79`, `filter_steps.py:32`).
* A lease guarantees that only one worker processes a URL at a time
  (`src/initial_spec.md:92`): the heartbeat ends after three renewals, the worker
  does not.
* The file of a URL crawled for the first time is written unconditionally
  (line 302, `src/README.md:25`): one that a crash or an error cut short is there,
  and is taken for the content for good, which is what `cut` excuses in
  `CompletedFilesWhole`.
* A stale worker never overwrites a newer one's work (`src/README.md:9`,
  line 120): the metadata tables are written without a look at the lease
  (`ReplaceMetadata`).
* Resuming resets all that is `In_Progress` (line 351): it waits for the leases
  to expire (`Resume`).
* Links are enqueued with the page as parent (line 392): with `parent_url` NULL
  (`worker.py:230`, `EnqueueDiscovered`).
* A stop that closes the store before the loop has looked at the flag makes
  `start` raise instead of return (`LeaveLoop`).
* A body has one file (line 309): one per content type, in image and video
  processors.
* A seed on a port other than the default has none of its links accepted at all,
  while of a seed without one links to every port are (`filter_steps.py:32`
  compares the host of a URL with a domain that may have a port).
* The configuration is frozen (line 382): `start` on a database that has one
  replaces it, also when it then fails, as it does for a port that is none.
  Fields that are not stored (`max_redirects`, `user_agent`, ...) have their
  defaults after a resume.
* Characters beyond ASCII are percent-encoded (line 97): they are left alone. A
  path's `;params` are dropped, so pages that differ in them share a row.
* The same holds of queries that differ in octets which are no UTF-8
  (`?a=%FF` and `?a=%FE` come to `?a=%EF%BF%BD`), and of `?a` and `?a=`
  (`normalization_steps.py:120`); `QueriesMerge`, an assumption TLC checks in
  `MCFrontier`, shows both. These and the `;params` are what `Regular` excludes in
  `OneRowPerPage`.

## 6. Not modelled

Errors of the database itself (a heartbeat that raises); a stop before the run
loop is reached; a wall clock that is set back; power failures, which with
`synchronous = NORMAL` may lose commits; the ranges `_validate_config` checks;
IPv6 hosts and the finer points of `urlparse`. Parsing and decoding by libraries
are the constants `Links` and `Served`. The logger, `analyze_crawl.py`, the
statistics and the pipeline configuration have no behaviour of interest. A
worker pool with semaphore, counter and event apart would show nothing more:
they change together, without a suspension in between, except for the release of
the semaphore, which `BatchFits` makes irrelevant.

## 7. How it was built

1. `UrlRecords`, `MetadataStore`, `UrlLifecycle`, their proofs.
2. `Crawl`, over `UrlRecords`, with the store as the specification it
   implements; then `stop`.
3. `RateLimiter` and the proofs about its gate and its permits.
4. `PageStore`, `UrlNormalizer` and `Frontier`, with their proofs.
5. The proofs about `Crawl`.
6. The proofs about `UrlNormalizer`.

Left to do: shortest ways to a page under `max_depth` (a site of four pages);
errors of single statements.
