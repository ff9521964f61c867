------------------------------ MODULE MCCrawl -------------------------------
(* Instances of Crawl for TLC: the sites. *)
EXTENDS Crawl, TLC

CONSTANTS a, b, c

\* A token for every row, task and lease of a batch, and one more: AcquireUpdate is
\* never short of one.
ASSUME Cardinality(Tokens) > Cardinality(Urls) + Cardinality(Workers) + BatchSize

\* a links to b and to itself, b redirects to c, c links back to b.
SmallLinks  == (a :> {a, b}) @@ (b :> {}) @@ (c :> {b})
SmallTarget == (a :> a) @@ (b :> c) @@ (c :> c)

\* a answers with its page or a server error, b redirects, c may be gone.
SmallResponses == (a :> {"page", "transient"}) @@ (b :> {"redirect"})
                  @@ (c :> {"page", "permanent"})

\* Two pages that link to each other; either may fail, and a may be refused.
PairLinks     == (a :> {b}) @@ (b :> {a})
PairTarget    == (a :> a) @@ (b :> b)
PairResponses == (a :> {"page", "transient", "permanent"}) @@ (b :> {"page", "transient"})

\* The same with a that may fail once, and b that may be refused.
LiveResponses == (a :> {"page", "transient"}) @@ (b :> {"page", "permanent"})

\* The same with nothing that could fail.
FineResponses == (a :> {"page"}) @@ (b :> {"page"})

\* Only a fetch takes time, and the run loop's sleep.
SlowFetch == now' # now => sched \in {"sleep", "wait"} /\ \A w \in Active : work[w].pc = "fetch"

\* Slots are interchangeable.
WorkerSymmetry == Permutations(Workers)
=============================================================================
