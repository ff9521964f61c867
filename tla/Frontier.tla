------------------------------ MODULE Frontier ------------------------------
(***************************************************************************)
(* What gets into the frontier: the configuration of a crawl, from the     *)
(* YAML file to the database and back, the sessions that use it, and the   *)
(* normalizer and filters that every URL found passes.                     *)
(*                                                                         *)
(* start stores the configuration with the seed's host and port as         *)
(* spelled; scheduler.init, which resume calls as well, stores it again    *)
(* with those of the normalized seed.  The filter of a session has the     *)
(* former after a start and what is stored after a resume.  The process    *)
(* may end at any step.                                                    *)
(*                                                                         *)
(* A regular expression is the set of the paths of the URLs it matches.    *)
(* How often the URLs are fetched and found again is left open; asked and  *)
(* the fields asked and found of the rows are history.                     *)
(***************************************************************************)
EXTENDS UrlNormalizer

CONSTANTS
    Seeds,     \* seed_url, as the YAML file may have it
    Found,     \* URLs pages may link to
    Limits,    \* the limits the YAML file may set
    MaxFound   \* bound on the rows of URLs found

LimitRecord == [maxDepth : Nat \cup {Null}, include : SUBSET Seq(Chars), exclude : SUBSET Seq(Chars)]

ASSUME FrontierAssumption ==
    /\ Seeds \subseteq Url /\ Found \subseteq Url /\ Limits \subseteq LimitRecord
    /\ \A s \in Seeds : s.host # Null
    /\ MaxFound \in Nat

VARIABLES
    config,   \* the row of crawl_config
    session,  \* the running process: its place, CrawlerConfig and URLFilter
    rows,     \* url_records, as far as the frontier goes
    asked     \* the seed and the limits of the last start (history)

vars == <<config, session, rows, asked>>

\* netloc, which DomainMatchStep compares with a host.
Netloc(u) == [user |-> u.user, host |-> u.host, port |-> u.port]
Host(h)   == [user |-> FALSE, host |-> h, port |-> Null]

NoSession == [at |-> "down"]

Init ==
    /\ config = Null
    /\ session = NoSession
    /\ rows = {}
    /\ asked = Null

-----------------------------------------------------------------------------
(* Sessions.                                                               *)

\* Mutant: a configuration that is there stays, INSERT OR IGNORE.
StoreConfigOnce(seed, limits, domain) ==
    config' = IF config = Null THEN [seed |-> seed, limits |-> limits, domain |-> domain] ELSE config

\* store_config, INSERT OR REPLACE
StoreConfig(seed, limits, domain) ==
    config' = [seed |-> seed, limits |-> limits, domain |-> domain]

\* start, up to store_config.  _validate_seed_url looks at scheme and host.  A
\* configuration and rows that are there already are no obstacle.
Start(seed, limits) ==
    /\ session = NoSession
    /\ seed.scheme \in {"http", "https"}
    /\ StoreConfig(seed, limits, Netloc(seed))
    /\ session' = [at |-> "init", seed |-> seed, limits |-> limits, scope |-> Netloc(seed)]
    /\ asked' = [seed |-> seed, limits |-> limits]
    /\ UNCHANGED rows

\* Mutant: max_depth is not read back.
LoadPatterns == [config.limits EXCEPT !.maxDepth = Null]

\* load_config
LoadLimits == config.limits

\* resume, up to scheduler.init
Resume ==
    /\ session = NoSession /\ config # Null
    /\ session' = [at |-> "init", seed |-> config.seed, limits |-> LoadLimits,
                   scope |-> config.domain]
    /\ UNCHANGED <<config, rows, asked>>

\* scheduler.init of a seed the normalizer rejects: start or resume raises.
InitFails ==
    /\ session.at = "init" /\ Normalize(session.seed) = Null
    /\ session' = NoSession
    /\ UNCHANGED <<config, rows, asked>>

\* scheduler.init, up to its store_config
InitStores ==
    /\ session.at = "init" /\ Normalize(session.seed) # Null
    /\ StoreConfig(session.seed, session.limits, Netloc(Normalize(session.seed)))
    /\ session' = [session EXCEPT !.at = "seed"]
    /\ UNCHANGED <<rows, asked>>

\* Mutant: the URL as found is the key.
EnqueueRaw(key, raw, depth, found) ==
    rows' = IF \E r \in rows : r.key = raw THEN rows
            ELSE rows \cup {[key |-> raw, raw |-> raw, depth |-> depth,
                             asked |-> asked, found |-> found]}

\* enqueue, INSERT OR IGNORE
Enqueue(key, raw, depth, found) ==
    rows' = IF \E r \in rows : r.key = key THEN rows
            ELSE rows \cup {[key |-> key, raw |-> raw, depth |-> depth,
                             asked |-> asked, found |-> found]}

\* scheduler.init, its enqueue; then run.
InitSeeds ==
    /\ session.at = "seed"
    /\ Enqueue(Normalize(session.seed), session.seed, 0, FALSE)
    /\ session' = [session EXCEPT !.at = "run"]
    /\ UNCHANGED <<config, asked>>

\* The process ends, in whatever way.
End ==
    /\ session # NoSession
    /\ session' = NoSession
    /\ UNCHANGED <<config, rows, asked>>

-----------------------------------------------------------------------------
(* URLs found.                                                             *)

NormalForms == [u \in Found |-> Normalize(u)]

\* SchemeCheckStep
SchemeCheck(u) == u.scheme \in {"http", "https"}

\* Mutant: the host is compared where there is one to compare with.
DomainMatchLoose(u, scope) == scope = Host(scope.host) => u.host = scope.host

\* DomainMatchStep: the hostname, and not the netloc, of the URL
DomainMatch(u, scope) == Host(u.host) = scope

\* DepthCheckStep
DepthCheck(depth, limits) == limits.maxDepth # Null => depth <= limits.maxDepth

\* ExcludePatternStep, IncludePatternStep
Patterns(u, limits) ==
    /\ u.path \notin limits.exclude
    /\ limits.include # {} => u.path \in limits.include

\* URLFilter.passes, up to the deduplication that Enqueue repeats
Passes(u, depth, scope, limits) ==
    /\ SchemeCheck(u) /\ DomainMatch(u, scope)
    /\ DepthCheck(depth, limits) /\ Patterns(u, limits)

\* A URL found, through normalizer and filter
Find(raw, depth) ==
    /\ session.at = "run" /\ Cardinality({r \in rows : r.found}) < MaxFound
    /\ LET key == NormalForms[raw]
       IN  /\ key # Null /\ Passes(key, depth, session.scope, session.limits)
           /\ Enqueue(key, raw, depth, TRUE)
    /\ UNCHANGED <<config, session, asked>>

\* One URL of _enqueue_discovered_urls for the page of row r
Discover(r, raw) == Find(raw, r.depth + 1)

\* _handle_redirect of the URL of row r
Redirect(r, raw) == Find(raw, r.depth)

\* What a URL answers is left open.
Next ==
    \/ \E seed \in Seeds, limits \in Limits : Start(seed, limits)
    \/ Resume \/ InitFails \/ InitStores \/ InitSeeds \/ End
    \/ \E r \in rows, raw \in Found : Discover(r, raw) \/ Redirect(r, raw)

Spec == Init /\ [][Next]_vars

-----------------------------------------------------------------------------
(* Properties.                                                             *)

Domain  == [user : BOOLEAN, host : DOMAIN Lower, port : Ports]
Asked   == [seed : Seeds, limits : Limits]
Row     == [key : Url, raw : Url, depth : Nat, asked : Asked, found : BOOLEAN]
Config  == [seed : Seeds, limits : LimitRecord, domain : Domain]
Session == [at : {"init", "seed", "run"}, seed : Seeds, limits : LimitRecord, scope : Domain]

\* A row has the normal form of the URL it was first found under, and is the only
\* one to have it: the primary key of url_records.
TypeOK ==
    /\ config \in Config \cup {Null}
    /\ session \in Session \cup {NoSession}
    /\ rows \subseteq Row
    /\ \A r \in rows : /\ r.key = Normalize(r.raw)
                      /\ \A s \in rows : r.key = s.key => r = s
    /\ asked \in Asked \cup {Null}

\* The spellings of each page among the URLs the pages link to.
Spellings ==
    LET Plain == {v \in Found \cup Seeds : Regular(v) /\ Parses(v)}
    IN  [u \in Plain |-> {v \in Found \cap Plain : SamePage(u, v)}]

\* A page has one row, however it is spelled where it is found, and no two
\* pages share one: the URLs spelled regularly that come to the key of a row are
\* those that stand for its page.
OneRowPerPage ==
    \A r \in rows : Regular(r.raw) =>
       {v \in Found : Regular(v) /\ NormalForms[v] = r.key} = Spellings[r.raw]

\* The key of a row is its own normal form; a crawl that found its keys in the
\* links of a page would add nothing.
KeysAreNormal == \A r \in rows : Regular(r.raw) => Normalize(r.key) = r.key

\* A URL gets into the frontier on the host of the seed last asked for only, however
\* that is spelled, whatever was started on this database before, and whether the
\* session that finds it was started or resumed.
OnSite ==
    \A r \in rows : SchemeCheck(r.key) /\ r.key.host = Lower[r.asked.seed.host]

\* A URL found by a session, be it the one that was started or one that was
\* resumed after any number of crashes, is within the limits asked for.
WithinLimits ==
    \A r \in rows : r.found =>
       DepthCheck(r.depth, r.asked.limits) /\ Patterns(r.key, r.asked.limits)

\* What a session accepts would be accepted after a crash as well, by a session that
\* has to go by what is stored: for every seed, and every configuration the
\* database has had before.
SurvivesResume ==
    session.at = "run" =>
       \A r \in rows, raw \in Found :
          LET key == NormalForms[raw]
          IN  key # Null /\ Passes(key, r.depth + 1, session.scope, session.limits)
                => Passes(key, r.depth + 1, config.domain, LoadLimits)

=============================================================================
