--------------------------- MODULE FrontierProofs ---------------------------
(***************************************************************************)
(* What a session accepts depends on what it compares URLs with, and that  *)
(* comes from the database or from the YAML file.  The inductive invariant *)
(* says where it can come from: Traceable, that seed and limits are those  *)
(* last asked for and the domain one of the seed's two spellings, and      *)
(* Frozen, that scheduler.init has replaced the stored domain by the       *)
(* normal one before a session accepts anything.  Keyed is what enqueue    *)
(* does to the rows; with it, the theorems on the normalizer are theorems  *)
(* on the keys of the frontier.                                            *)
(***************************************************************************)
EXTENDS Frontier, UrlNormalizerProofs

Normal(u) == Netloc(Normalize(u))

\* d is what start or scheduler.init takes for the domain of the seed.
DomainOf(d, seed) ==
    d = Netloc(seed) \/ (Normalize(seed) # Null /\ d = Normal(seed))

Sessions == [at : {"init", "seed", "run"}, seed : Seeds, limits : Limits, scope : Domain]

Shape ==
    /\ config \in Config \cup {Null}
    /\ session \in Sessions \cup {NoSession}
    /\ asked \in Asked \cup {Null}

Stored ==
    /\ config.seed \in Seeds /\ SchemeCheck(config.seed) /\ config.limits \in Limits
    /\ asked = [seed |-> config.seed, limits |-> config.limits]
    /\ config.domain \in Domain /\ DomainOf(config.domain, config.seed)

InSession ==
    /\ session.seed = config.seed /\ session.limits = config.limits
    /\ DomainOf(session.scope, session.seed)

Traceable ==
    /\ config # Null \/ session # NoSession => Stored
    /\ session # NoSession => InSession

Frozen ==
    session.at \in {"seed", "run"} =>
       Normalize(session.seed) # Null /\ config.domain = Normal(session.seed)

Unique == \A r, s \in rows : r.key = s.key => r = s

Keyed ==
    /\ rows \subseteq Row
    /\ \A r \in rows : r.raw \in Found \cup Seeds /\ r.key # Null /\ r.key = Normalize(r.raw)
    /\ Unique

IInv == Shape /\ Traceable /\ Frozen /\ OnSite /\ WithinLimits /\ Keyed

-----------------------------------------------------------------------------
(* The normalizer.                                                         *)

\* What is left of scheme, host and port; the path and the query are whatever the
\* steps make of them.
LEMMA NormalForm ==
    ASSUME NEW u \in Url, Normalize(u) # Null
    PROVE  /\ Normalize(u).scheme = u.scheme
           /\ u.host \in DOMAIN Lower
           /\ Normalize(u).host = Lower[u.host]
           /\ Normal(u) \in Domain
<1>1. u.scheme \in Schemes /\ u.host \in (DOMAIN Lower) \cup {Null} /\ u.port \in Ports
  BY DEF Url
<1>2. Parses(u)
  BY DEF Normalize
<1>3. u.host \in DOMAIN Lower
  BY <1>1, <1>2 DEF Parses
<1>4. Lower[u.host] \in DOMAIN Lower
  BY <1>3, LowerAssumption
<1>5. RemoveDefaultPort(u.port, u.scheme) \in Ports
  BY <1>1 DEF RemoveDefaultPort, Ports
<1>6. /\ Normalize(u).scheme = u.scheme
      /\ Normalize(u).host = Lower[u.host]
      /\ Normalize(u).port = RemoveDefaultPort(u.port, u.scheme)
      /\ Normalize(u).user = FALSE
  BY <1>2 DEF Normalize, Lowercase
<1> QED
  BY <1>3, <1>4, <1>5, <1>6 DEF Normal, Netloc, Domain

-----------------------------------------------------------------------------
(* The invariant.                                                          *)

LEMMA SeedDomain ==
    ASSUME NEW seed \in Seeds
    PROVE  Netloc(seed) \in Domain
<1>1. seed \in Url /\ seed.host # Null
  BY FrontierAssumption
<1>2. seed.user \in BOOLEAN /\ seed.host \in (DOMAIN Lower) \cup {Null} /\ seed.port \in Ports
  BY <1>1 DEF Url
<1> QED  BY <1>1, <1>2 DEF Netloc, Domain

LEMMA InitIInv == Init => IInv
BY DEF Init, IInv, Shape, Traceable, Frozen, OnSite, WithinLimits, Keyed, Unique, NoSession

\* A process that starts or ends leaves no trace in the rows.
LEMMA SameRows ==
    ASSUME IInv, rows' = rows
    PROVE  OnSite' /\ WithinLimits' /\ Keyed'
BY DEF IInv, OnSite, WithinLimits, DepthCheck, Patterns, Keyed, Unique

\* start: the seed's spelling in the configuration and in the filter.
LEMMA StartKeeps ==
    ASSUME IInv, NEW seed \in Seeds, NEW limits \in Limits, Start(seed, limits)
    PROVE  IInv'
<1>1. OnSite' /\ WithinLimits' /\ Keyed'
  BY SameRows DEF Start
<1>2. Netloc(seed) \in Domain /\ DomainOf(Netloc(seed), seed)
  BY SeedDomain DEF DomainOf
<1>3. /\ config' = [seed |-> seed, limits |-> limits, domain |-> Netloc(seed)]
      /\ session' = [at |-> "init", seed |-> seed, limits |-> limits, scope |-> Netloc(seed)]
      /\ asked' = [seed |-> seed, limits |-> limits]
  BY DEF Start, StoreConfig
<1>4. Shape' /\ session'.at = "init"
  BY <1>2, <1>3, FrontierAssumption DEF Shape, Sessions, Config, Asked
<1>5. Stored' /\ InSession'
  BY <1>2, <1>3 DEF Stored, InSession, DomainOf, SchemeCheck, Start
<1> QED  BY <1>1, <1>4, <1>5 DEF IInv, Frozen, Traceable

\* resume: what is stored.
LEMMA ResumeKeeps ==
    ASSUME IInv, Resume
    PROVE  IInv'
<1>1. OnSite' /\ WithinLimits' /\ Keyed'
  BY SameRows DEF Resume
<1>2. Stored
  BY DEF IInv, Traceable, Resume
<1>3. /\ session' = [at |-> "init", seed |-> config.seed, limits |-> config.limits,
                     scope |-> config.domain]
      /\ config' = config /\ asked' = asked
  BY DEF Resume, LoadLimits
<1>4. Shape' /\ session'.at = "init"
  BY <1>2, <1>3 DEF IInv, Shape, Sessions, Stored
<1>5. Stored' /\ InSession'
  BY <1>2, <1>3 DEF Stored, InSession, DomainOf, SchemeCheck
<1> QED  BY <1>1, <1>4, <1>5 DEF IInv, Frozen, Traceable

LEMMA EndKeeps ==
    ASSUME IInv, session' = NoSession, UNCHANGED <<config, rows, asked>>
    PROVE  IInv'
<1>1. OnSite' /\ WithinLimits' /\ Keyed'
  BY SameRows
<1>2. Shape' /\ session'.at = "down"
  BY DEF IInv, Shape, NoSession
<1>3. config' # Null => Stored'
  BY DEF IInv, Traceable, Stored, DomainOf, SchemeCheck
<1> QED  BY <1>1, <1>2, <1>3 DEF IInv, Frozen, Traceable

\* What a session that has begun has to do with the configuration.
LEMMA SessionFacts ==
    ASSUME IInv, session.at \in {"init", "seed", "run"}
    PROVE  session \in Sessions /\ Stored /\ InSession /\ session.seed \in Url
<1>1. session # NoSession
  BY DEF NoSession
<1>2. session \in Sessions /\ Stored /\ InSession
  BY <1>1 DEF IInv, Shape, Traceable
<1> QED  BY <1>2, FrontierAssumption DEF Sessions

\* scheduler.init: the normal domain in the configuration, not in the filter.
LEMMA InitStoresKeeps ==
    ASSUME IInv, InitStores
    PROVE  IInv'
<1>1. OnSite' /\ WithinLimits' /\ Keyed'
  BY SameRows DEF InitStores
<1>2. session.at = "init" /\ Normalize(session.seed) # Null
  BY DEF InitStores
<1>3. /\ config' = [seed |-> session.seed, limits |-> session.limits,
                    domain |-> Normal(session.seed)]
      /\ session' = [session EXCEPT !.at = "seed"] /\ asked' = asked
  BY DEF InitStores, StoreConfig, Normal
<1>4. session \in Sessions /\ Stored /\ InSession /\ session.seed \in Url
  BY <1>2, SessionFacts
<1>5. /\ session' \in Sessions /\ session'.at = "seed" /\ session'.seed = session.seed
      /\ session'.limits = session.limits /\ session'.scope = session.scope
  BY <1>3, <1>4 DEF Sessions
<1>6. Normal(session.seed) \in Domain /\ DomainOf(Normal(session.seed), session.seed)
  BY <1>2, <1>4, NormalForm DEF DomainOf
<1>7. /\ config'.seed = session.seed /\ config'.limits = session.limits
      /\ config'.domain = Normal(session.seed)
  BY <1>3
<1>8. Stored' /\ InSession'
  BY <1>3, <1>4, <1>5, <1>6, <1>7 DEF Stored, InSession, DomainOf, SchemeCheck
<1>9. Frozen'
  BY <1>2, <1>5, <1>7 DEF Frozen, Normal
<1>10. config' \in Config
  <2>1. session.seed \in Seeds /\ session.limits \in LimitRecord
    BY <1>4, FrontierAssumption DEF Sessions
  <2> QED  BY <1>3, <1>6, <2>1 DEF Config
<1> QED  BY <1>1, <1>3, <1>5, <1>8, <1>9, <1>10 DEF IInv, Shape, Traceable

\* A row of the normal form of a URL on the site, within the limits unless it is
\* the seed's, is as good as those there are.
LEMMA EnqueueKeeps ==
    ASSUME OnSite, WithinLimits, Keyed, asked \in Asked, asked' = asked,
           NEW raw \in Found \cup Seeds, NEW key, key = Normalize(raw), key # Null,
           NEW depth \in Nat, NEW found \in BOOLEAN,
           Enqueue(key, raw, depth, found),
           SchemeCheck(key), key.host = Lower[asked.seed.host],
           found => DepthCheck(depth, asked.limits) /\ Patterns(key, asked.limits)
    PROVE  OnSite' /\ WithinLimits' /\ Keyed'
<1> DEFINE row == [key |-> key, raw |-> raw, depth |-> depth, asked |-> asked, found |-> found]
<1>1. row.key = key /\ row.depth = depth /\ row.asked = asked /\ row.found = found
  OBVIOUS
<1>2. \A r \in rows' : r \in rows \/ r = row
  BY DEF Enqueue
<1>3. OnSite'
  BY <1>1, <1>2 DEF OnSite, SchemeCheck
<1>4. ASSUME NEW r \in rows', r.found
      PROVE  DepthCheck(r.depth, r.asked.limits) /\ Patterns(r.key, r.asked.limits)
  <2>1. CASE r \in rows
    BY <2>1, <1>4 DEF WithinLimits
  <2>2. CASE r = row
    BY <2>2, <1>1, <1>4
  <2> QED  BY <1>2, <2>1, <2>2
<1>5. WithinLimits'
  BY <1>4 DEF WithinLimits, DepthCheck, Patterns
<1>6. row \in Row /\ row.raw = raw
  <2>1. raw \in Url /\ Parses(raw)
    BY FrontierAssumption DEF Normalize
  <2>2. key \in Url
    BY <2>1, NormalizeType
  <2> QED  BY <2>1, <2>2 DEF Row
<1>7. rows' \subseteq Row
  BY <1>2, <1>6 DEF Keyed
<1>8. \A r \in rows' : r.raw \in Found \cup Seeds /\ r.key # Null /\ r.key = Normalize(r.raw)
  BY <1>1, <1>2, <1>6 DEF Keyed
<1>9. Unique'
  <2>1. CASE \E r \in rows : r.key = key
    <3>1. rows' = rows
      BY <2>1 DEF Enqueue
    <3> QED  BY <3>1 DEF Keyed, Unique
  <2>2. CASE ~\E r \in rows : r.key = key
    BY <1>1, <1>2, <2>2 DEF Keyed, Unique
  <2> QED  BY <2>1, <2>2
<1> QED  BY <1>3, <1>5, <1>7, <1>8, <1>9 DEF Keyed

LEMMA InitSeedsKeeps ==
    ASSUME IInv, InitSeeds
    PROVE  IInv'
<1>1. session.at = "seed"
  BY DEF InitSeeds
<1>2. session \in Sessions /\ Stored /\ InSession /\ session.seed \in Url
  BY <1>1, SessionFacts
<1>3. Normalize(session.seed) # Null /\ config.domain = Normal(session.seed)
  BY <1>1 DEF IInv, Frozen
<1>4. /\ session' = [session EXCEPT !.at = "run"] /\ config' = config /\ asked' = asked
      /\ Enqueue(Normalize(session.seed), session.seed, 0, FALSE)
  BY DEF InitSeeds
<1>5. /\ session' \in Sessions /\ session'.at = "run" /\ session'.seed = session.seed
      /\ session'.limits = session.limits /\ session'.scope = session.scope
  BY <1>2, <1>4 DEF Sessions
<1>6. SchemeCheck(Normalize(session.seed))
  BY <1>2, <1>3, NormalForm DEF Stored, InSession, SchemeCheck
<1>7. /\ Normalize(session.seed).host = Lower[asked.seed.host] /\ session.seed \in Seeds
      /\ asked \in Asked
  <2>1. asked.seed = session.seed /\ asked \in Asked
    BY <1>2 DEF Stored, InSession, Asked
  <2> QED  BY <1>2, <1>3, <2>1, NormalForm DEF Sessions
<1>8. OnSite' /\ WithinLimits' /\ Keyed'
  <2>1. asked \in Asked
    BY <1>7
  <2> QED  BY <1>3, <1>4, <1>6, <1>7, <2>1, EnqueueKeeps DEF IInv
<1>9. Stored' /\ InSession'
  BY <1>2, <1>4, <1>5 DEF Stored, InSession, DomainOf, SchemeCheck
<1>10. Frozen'
  BY <1>3, <1>4, <1>5 DEF Frozen, Normal
<1> QED  BY <1>4, <1>5, <1>8, <1>9, <1>10 DEF IInv, Shape, Traceable

\* DomainMatchStep compares normal hosts with the seed's, as spelled or as
\* normalized; either way only the seed's own host is equal.
LEMMA MatchedHost ==
    ASSUME NEW raw \in Url, Normalize(raw) # Null, NEW seed \in Url, NEW scope,
           DomainOf(scope, seed), DomainMatch(Normalize(raw), scope)
    PROVE  Normalize(raw).host = Lower[seed.host]
<1> DEFINE h == Normalize(raw).host
<1>1. h = Lower[raw.host] /\ raw.host \in DOMAIN Lower
  BY NormalForm
<1>2. Lower[h] = h
  BY <1>1, LowerAssumption
<1>3. scope.host = h
  BY DEF DomainMatch, Host
<1>4. CASE scope = Netloc(seed)
  <2>1. scope.host = seed.host
    BY <1>4 DEF Netloc
  <2> QED  BY <1>2, <1>3, <2>1
<1>5. CASE Normalize(seed) # Null /\ scope = Normal(seed)
  <2>1. scope.host = Normalize(seed).host
    BY <1>5 DEF Normal, Netloc
  <2> QED  BY <1>3, <1>5, <2>1, NormalForm
<1> QED  BY <1>4, <1>5 DEF DomainOf

\* A link or the target of a redirect.
LEMMA FindKeeps ==
    ASSUME IInv, NEW raw \in Found, NEW depth \in Nat, Find(raw, depth)
    PROVE  IInv'
<1> DEFINE key == Normalize(raw)
<1>1. NormalForms[raw] = key /\ raw \in Url
  BY FrontierAssumption DEF NormalForms
<1>2. /\ session.at = "run" /\ key # Null /\ Enqueue(key, raw, depth, TRUE)
      /\ Passes(key, depth, session.scope, session.limits)
      /\ config' = config /\ session' = session /\ asked' = asked
  BY <1>1 DEF Find
<1>3. session \in Sessions /\ Stored /\ InSession /\ session.seed \in Url
  BY <1>2, SessionFacts
<1>4. asked \in Asked /\ asked.seed = session.seed /\ asked.limits = session.limits
  BY <1>3 DEF Stored, InSession, Asked
<1>5. /\ SchemeCheck(key) /\ DomainMatch(key, session.scope)
      /\ DepthCheck(depth, asked.limits) /\ Patterns(key, asked.limits)
  BY <1>2, <1>4 DEF Passes
<1>6. key.host = Lower[asked.seed.host]
  BY <1>1, <1>2, <1>3, <1>4, <1>5, MatchedHost DEF InSession
<1>7. OnSite' /\ WithinLimits' /\ Keyed'
  BY <1>2, <1>4, <1>5, <1>6, EnqueueKeeps DEF IInv
<1>8. Shape' /\ Traceable' /\ Frozen'
  BY <1>2 DEF IInv, Shape, Traceable, Stored, InSession, Frozen, DomainOf, SchemeCheck, Normal
<1> QED  BY <1>7, <1>8 DEF IInv

LEMMA NextIInv == IInv /\ [Next]_vars => IInv'
<1> SUFFICES ASSUME IInv, [Next]_vars PROVE IInv'
  OBVIOUS
<1>1. ASSUME NEW seed \in Seeds, NEW limits \in Limits, Start(seed, limits) PROVE IInv'
  BY <1>1, StartKeeps
<1>2. CASE Resume
  BY <1>2, ResumeKeeps
<1>3. CASE InitFails
  BY <1>3, EndKeeps DEF InitFails
<1>4. CASE InitStores
  BY <1>4, InitStoresKeeps
<1>5. CASE InitSeeds
  BY <1>5, InitSeedsKeeps
<1>6. CASE End
  BY <1>6, EndKeeps DEF End
<1>7. ASSUME NEW r \in rows, NEW raw \in Found, Discover(r, raw) \/ Redirect(r, raw)
      PROVE  IInv'
  <2>1. r.depth \in Nat /\ r.depth + 1 \in Nat
    BY DEF IInv, Keyed, Row
  <2> QED  BY <1>7, <2>1, FindKeeps DEF Discover, Redirect
<1>8. CASE UNCHANGED vars
  <2>1. OnSite' /\ WithinLimits' /\ Keyed'
    BY <1>8, SameRows DEF vars
  <2> QED
    BY <1>8, <2>1 DEF vars, IInv, Shape, Traceable, Stored, InSession, Frozen, DomainOf,
                      SchemeCheck, Normal
<1> QED  BY <1>1, <1>2, <1>3, <1>4, <1>5, <1>6, <1>7, <1>8 DEF Next

THEOREM Invariance == Spec => []IInv
BY InitIInv, NextIInv, PTL DEF Spec

\* The crawl stays on the host of the seed that was last started, whatever starts,
\* resumes and crashes made of crawl_config.
THEOREM StaysOnSite == Spec => []OnSite
<1>1. IInv => OnSite
  BY DEF IInv
<1> QED  BY <1>1, Invariance, PTL

\* The limits frozen by start hold for what any later session finds.
THEOREM LimitsHold == Spec => []WithinLimits
<1>1. IInv => WithinLimits
  BY DEF IInv
<1> QED  BY <1>1, Invariance, PTL

\* A host without user and port that is the seed's as spelled is the seed's in normal
\* form.
LEMMA SpelledIsNormal ==
    ASSUME NEW raw \in Url, Normalize(raw) # Null, NEW seed \in Url, Normalize(seed) # Null,
           DomainMatch(Normalize(raw), Netloc(seed))
    PROVE  DomainMatch(Normalize(raw), Normal(seed))
<1> DEFINE h == Normalize(raw).host
<1>1. Lower[h] = h
  BY NormalForm, LowerAssumption
<1>2. seed.user = FALSE /\ seed.host = h /\ seed.port = Null
  BY DEF DomainMatch, Host, Netloc
<1>3. /\ Normalize(seed).user = FALSE /\ Normalize(seed).host = h
      /\ Normalize(seed).port = Null
  BY <1>1, <1>2 DEF Normalize, Lowercase, RemoveDefaultPort
<1> QED  BY <1>3 DEF DomainMatch, Host, Normal, Netloc

\* A session resumed accepts what the session before accepted, whatever the seed's
\* spelling and whatever was stored before.
THEOREM ResumeAccepts == Spec => []SurvivesResume
<1>1. ASSUME IInv, session.at = "run", NEW r \in rows, NEW raw \in Found,
             NormalForms[raw] # Null,
             Passes(NormalForms[raw], r.depth + 1, session.scope, session.limits)
      PROVE  Passes(NormalForms[raw], r.depth + 1, config.domain, LoadLimits)
  <2> DEFINE key == NormalForms[raw]
             depth == r.depth + 1
  <2>1. key = Normalize(raw) /\ raw \in Url /\ key # Null
    BY <1>1, FrontierAssumption DEF NormalForms
  <2>2. session \in Sessions /\ Stored /\ InSession /\ session.seed \in Url
    BY <1>1, SessionFacts
  <2>3. Normalize(session.seed) # Null /\ config.domain = Normal(session.seed)
    BY <1>1 DEF IInv, Frozen
  <2>4. LoadLimits = session.limits
    BY <2>2 DEF LoadLimits, InSession
  <2>5. /\ SchemeCheck(key) /\ DomainMatch(key, session.scope)
        /\ DepthCheck(depth, session.limits) /\ Patterns(key, session.limits)
    BY <1>1 DEF Passes
  <2> HIDE DEF key, depth
  <2>6. DomainMatch(key, config.domain)
    <3>1. CASE session.scope = Netloc(session.seed)
      BY <2>1, <2>2, <2>3, <2>5, <3>1, SpelledIsNormal
    <3>2. CASE session.scope = Normal(session.seed)
      BY <2>3, <2>5, <3>2
    <3> QED  BY <2>2, <3>1, <3>2 DEF InSession, DomainOf
  <2>7. Passes(key, depth, config.domain, LoadLimits)
    BY <2>4, <2>5, <2>6 DEF Passes
  <2> QED  BY <2>7 DEF key, depth
<1>2. IInv => SurvivesResume
  BY <1>1 DEF SurvivesResume
<1> QED  BY <1>2, Invariance, PTL

-----------------------------------------------------------------------------
(* The rows and their keys.                                                *)

\* What is stored, in memory and in the database, has its type; and a key is the
\* normal form of the URL its row was found under, and that row's alone.
THEOREM FrontierTypes == Spec => []TypeOK
<1>1. ASSUME IInv PROVE TypeOK
  <2>1. session \in Session \cup {NoSession}
    BY <1>1, FrontierAssumption DEF IInv, Shape, Sessions, Session
  <2>2. asked \in Asked \cup {Null}
    BY <1>1 DEF IInv, Shape
  <2> QED  BY <1>1, <2>1, <2>2 DEF IInv, Shape, Keyed, Unique, TypeOK
<1> QED  BY <1>1, Invariance, PTL

\* What a row says of the URL it was found under.
LEMMA RowFacts ==
    ASSUME IInv, NEW r \in rows
    PROVE  /\ r.raw \in Url /\ Parses(r.raw) /\ r.raw \in Found \cup Seeds
           /\ r.key # Null /\ r.key = Normalize(r.raw)
<1>1. r.raw \in Found \cup Seeds /\ r.key # Null /\ r.key = Normalize(r.raw)
  BY DEF IInv, Keyed
<1>2. r.raw \in Url /\ Parses(r.raw)
  BY <1>1, FrontierAssumption DEF Normalize
<1> QED  BY <1>1, <1>2

\* A URL that is found as the key of a row, rather than as the pages spell it, would
\* come to that key again.
THEOREM KeysStayNormal == Spec => []KeysAreNormal
<1>1. ASSUME IInv, NEW r \in rows, Regular(r.raw)
      PROVE  Normalize(r.key) = r.key
  <2>1. r.raw \in Url /\ Parses(r.raw) /\ r.key = Normalize(r.raw)
    BY <1>1, RowFacts
  <2> QED  BY <1>1, <2>1, NormalizeTwice
<1>2. IInv => KeysAreNormal
  BY <1>1 DEF KeysAreNormal
<1> QED  BY <1>2, Invariance, PTL

\* The URLs found that are one page have one row, and those of a row are one page.
THEOREM PagesHaveOneRow == Spec => []OneRowPerPage
<1>1. ASSUME IInv, NEW r \in rows, Regular(r.raw)
      PROVE  {v \in Found : Regular(v) /\ NormalForms[v] = r.key} = Spellings[r.raw]
  <2>1. /\ r.raw \in Url /\ Parses(r.raw) /\ r.raw \in Found \cup Seeds
        /\ r.key # Null /\ r.key = Normalize(r.raw)
    BY <1>1, RowFacts
  <2>2. Spellings[r.raw] = {v \in Found : Regular(v) /\ Parses(v) /\ SamePage(r.raw, v)}
    <3> DEFINE Ordinary == {v \in Found \cup Seeds : Regular(v) /\ Parses(v)}
    <3>1. r.raw \in Ordinary
      BY <1>1, <2>1
    <3>2. Found \cap Ordinary = {v \in Found : Regular(v) /\ Parses(v)}
      OBVIOUS
    <3>3. Spellings = [u \in Ordinary |-> {v \in Found \cap Ordinary : SamePage(u, v)}]
      BY Zenon DEF Spellings
    <3> HIDE DEF Ordinary
    <3>4. Spellings[r.raw] = {v \in Found \cap Ordinary : SamePage(r.raw, v)}
      BY <3>1, <3>3
    <3> QED  BY <3>2, <3>4
  <2>3. ASSUME NEW v \in Found, Regular(v)
        PROVE  NormalForms[v] = r.key <=> Parses(v) /\ SamePage(r.raw, v)
    <3>1. NormalForms[v] = Normalize(v) /\ v \in Url
      BY FrontierAssumption DEF NormalForms
    <3>2. ~Parses(v) => NormalForms[v] # r.key
      BY <2>1, <3>1 DEF Normalize
    <3>3. Parses(v) => (Normalize(r.raw) = Normalize(v) <=> SamePage(r.raw, v))
      BY <1>1, <2>1, <2>3, <3>1, PagesTell
    <3> QED  BY <2>1, <3>1, <3>2, <3>3
  <2> QED  BY <2>2, <2>3
<1>2. IInv => OneRowPerPage
  BY <1>1 DEF OneRowPerPage
<1> QED  BY <1>2, Invariance, PTL

=============================================================================
