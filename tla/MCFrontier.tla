----------------------------- MODULE MCFrontier -----------------------------
(* Instances of Frontier for TLC: hosts, queries, seeds, links and limits. *)
EXTENDS Frontier, TLC

\* "Site" is site, spelled with a capital.
Hosts == ("site" :> "site") @@ ("Site" :> "site") @@ ("other" :> "other")

\* "b" and "%62" are spellings of one octet.  FF and FE are no UTF-8, and become what
\* EFBFBD is the UTF-8 of.
SomeOctets == ("" :> "") @@ ("a" :> "61") @@ ("b" :> "62") @@ ("%62" :> "62")
              @@ ("%FF" :> "FF") @@ ("%FE" :> "FE") @@ ("%EF%BF%BD" :> "EFBFBD")
SomeText   == ("" :> 0) @@ ("61" :> 1) @@ ("62" :> 2) @@ ("FF" :> 3) @@ ("FE" :> 3) @@ ("EFBFBD" :> 3)
SomeSpell  == (0 :> "") @@ (1 :> "a") @@ (2 :> "b") @@ (3 :> "%EF%BF%BD")

Base == [scheme |-> "http", user |-> FALSE, host |-> "site", port |-> Null, path |-> <<>>,
         params |-> FALSE, query |-> <<>>, fragment |-> FALSE]

With(field, values) == {[Base EXCEPT ![field] = x] : x \in values}

\* Spelled as normalized, with a capital and the default port, with a port that is
\* none, and on another host.
SomeSeeds == {Base, [Base EXCEPT !.host = "Site", !.port = 80]}
             \cup With("port", {65536}) \cup With("host", {"other"})

\* Every path of up to three characters after the slash, a triplet of either case
\* with and without a slash after it, and a path that decodes to a triplet.
SomePaths ==
    LET Upto3 == UNION {[1 .. n -> {"/", "%", "3"}] : n \in 0 .. 3}
    IN  {<<>>, <<"/", "%", "%", "3", "3", "1">>}
        \cup {<<"/">> \o s : s \in Upto3}
        \cup {<<"/", "%", h, l>> \o s : h \in Hex, l \in {"a", "A"}, s \in {<<>>, <<"/">>}}

\* None, ?a=b and its spellings, orders and numbers of pairs, ?a= and ?a, and values
\* that decode to the same.
SomeQueries ==
    {<<>>, <<<<"a", "b">>>>, <<<<"a", "%62">>>>, <<<<"", Null>>, <<"a", "b">>>>,
     <<<<"a", "b">>, <<"a", "a">>, <<"b", "a">>>>, <<<<"b", "a">>, <<"a", "a">>, <<"a", "b">>>>,
     <<<<"a", "b">>, <<"a", "b">>>>, <<<<"a", "">>>>, <<<<"a", Null>>>>}
    \cup {<<<<"a", v>>>> : v \in {"%FF", "%FE", "%EF%BF%BD"}}

SomeLinks ==
    With("path", SomePaths)
    \cup With("query", SomeQueries) \cup With("params", {TRUE}) \cup With("user", {TRUE})
    \cup With("host", {"Site", Null})
    \cup {[Base EXCEPT !.host = "other", !.path = p] : p \in {<<>>, <<"/", "3">>, <<"/", "%">>}}
    \cup {[Base EXCEPT !.scheme = s, !.port = p, !.fragment = f] :
             s \in Schemes, p \in {Null, 80, 443, 65536}, f \in BOOLEAN}

NoLimits == [maxDepth |-> Null, include |-> {}, exclude |-> {}]

\* None, and just the seed's depth, which is also that of a redirect from it, with one
\* page to leave out and three to take.
SomeLimits ==
    {NoLimits,
     [maxDepth |-> 0, include |-> {<<"/">>, <<"/", "%">>, <<"/", "3">>}, exclude |-> {<<"/", "3">>}]}

-----------------------------------------------------------------------------
(* What the properties do not say, as it is not so. *)

\* Pages that differ in octets which are no UTF-8 share a key, and so do ?a and ?a=.
ASSUME QueriesMerge ==
    /\ SortQueryParams(<<<<"a", "%FF">>>>) = SortQueryParams(<<<<"a", "%FE">>>>)
    /\ SortQueryParams(<<<<"a", Null>>>>) = SortQueryParams(<<<<"a", "">>>>)

\* The normal form of a path of slashes only, or of one that decodes to a triplet, has
\* another normal form.
ASSUME NotIdempotent ==
    \A path \in {<<"/", "/">>, <<"/", "%", "%", "3", "3", "1">>} :
       LET key == Normalize([Base EXCEPT !.path = path]) IN Normalize(key) # key

\* A link on the seed's host is refused under the domain of a start, if the seed is
\* spelled with a capital or its default port, and accepted under that of a resume.
ASSUME SpellingMatters ==
    \A seed \in With("host", {"Site"}) \cup With("port", {80}) :
       /\ Host(Normalize(Base).host) # Netloc(seed)
       /\ Host(Normalize(Base).host) = Netloc(Normalize(seed))

=============================================================================
