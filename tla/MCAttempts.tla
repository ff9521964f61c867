----------------------------- MODULE MCAttempts -----------------------------
(* A crawl that counts its fetches, in which they only take time, for TLC. *)
EXTENDS MCCrawl

VARIABLE fetches  \* of each URL, those that have ended (history)

\* One page, whose server is always in error.
OneLinks     == (a :> {})
OneTarget    == (a :> a)
OneResponses == (a :> {"transient"})

Fetched(u) == {w \in Workers : work[w].pc = "fetch" /\ work[w].url = u
                                 /\ work'[w].pc \notin {"fetch", "idle"}}

CountingSpec ==
    /\ Init /\ fetches = [u \in Urls |-> 0]
    /\ [][/\ Next /\ SlowFetch
          /\ fetches' = [u \in Urls |-> fetches[u] + Cardinality(Fetched(u))]]_<<vars, fetches>>

\* A URL is fetched once, and then as often as it may be retried.
FetchesBounded == \A u \in Urls : fetches[u] <= MaxRetries + 1

=============================================================================
