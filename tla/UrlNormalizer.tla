--------------------------- MODULE UrlNormalizer ----------------------------
(***************************************************************************)
(* url_normalizer.py: one operator per step of the pipeline, and what the  *)
(* steps are to achieve, defined without them.                             *)
(*                                                                         *)
(* A URL is a record of what urlparse finds in it.  Hosts are opaque, with *)
(* a function that lower-cases them.  A query is the sequence of its pairs *)
(* of a name and a value, as spelled.  A spelling stands for octets, which *)
(* parse_qsl decodes to a text and urlencode spells in a way of its own:   *)
(* where the octets are no UTF-8 they are replaced, and nothing undoes it. *)
(* Texts are numbers, as only their order and equality matter.  A path is  *)
(* a sequence of characters, over an alphabet that is closed under         *)
(* decoding: of the codes that can be written with the digits 1, 3 and a,  *)
(* 31 and 33 are the unreserved characters 1 and 3, and the others are     *)
(* reserved, control characters or beyond ASCII.                           *)
(***************************************************************************)
EXTENDS Naturals, Sequences, FiniteSets

CONSTANTS
    Lower,   \* host, as spelled, to host
    Octets,  \* name or value, as spelled in a query, to octets
    Text,    \* octets to text, with errors='replace'
    Spell,   \* text to its spelling by urlencode
    Blank,   \* the empty spelling
    Null     \* None

ASSUME LowerAssumption ==
    /\ \A h \in DOMAIN Lower : Lower[h] \in DOMAIN Lower /\ Lower[Lower[h]] = Lower[h]
    /\ Null \notin DOMAIN Lower /\ Null \notin Nat

Parts == DOMAIN Octets
Texts == DOMAIN Spell

\* urlencode spells the text it is given.
ASSUME QueryAssumption ==
    /\ Texts \subseteq Nat /\ Blank \in Parts /\ Null \notin Parts
    /\ \A p \in Parts : Text[Octets[p]] \in Texts
    /\ \A t \in Texts : Spell[t] \in Parts /\ Text[Octets[Spell[t]]] = t

Hex   == {"1", "3", "a", "A"}
Chars == Hex \cup {"/", "%"}

Ports   == Nat \cup {Null}
MaxPort == 65535
Schemes == {"http", "https", "ftp"}

Url == [scheme : Schemes, user : BOOLEAN, host : (DOMAIN Lower) \cup {Null}, port : Ports,
        path : Seq(Chars), params : BOOLEAN, query : Seq(Parts \X (Parts \cup {Null})),
        fragment : BOOLEAN]

-----------------------------------------------------------------------------
(* The steps, each on the part of the URL it rewrites.                     *)

\* ParseURLStep: a host is needed, and reading a port that is none raises.
Parses(u) == u.host # Null /\ (u.port # Null => u.port <= MaxPort)

\* LowercaseStep
Lowercase(host) == Lower[host]

DefaultPort(scheme) == CASE scheme = "http"  -> 80
                         [] scheme = "https" -> 443
                         [] OTHER            -> Null

\* Mutant: 80 is taken for the default whatever the scheme.
RemovePort80(port, scheme) == IF port = 80 THEN Null ELSE port

\* RemoveDefaultPortStep
RemoveDefaultPort(port, scheme) == IF port = DefaultPort(scheme) THEN Null ELSE port

Decoded(part) == Text[Octets[part]]

\* Name and value; that of a pair without "=" is empty.
DecodedPair(pair) == <<Decoded(pair[1]), Decoded(IF pair[2] = Null THEN Blank ELSE pair[2])>>

\* parse_qsl, which passes over what is empty between two "&"
ParseQsl(query) ==
    LET from[i \in 1 .. Len(query) + 1] ==
          IF i > Len(query) THEN <<>>
          ELSE IF query[i] = <<Blank, Null>> THEN from[i + 1]
          ELSE <<DecodedPair(query[i])>> \o from[i + 1]
    IN  from[1]

NotAfter(x, y) == x[1] < y[1] \/ (x[1] = y[1] /\ x[2] <= y[2])

Sorted(pairs) ==
    LET D == DOMAIN pairs
        order == CHOOSE f \in [D -> D] :
                    \A i, j \in D : i < j => f[i] # f[j] /\ NotAfter(pairs[f[i]], pairs[f[j]])
    IN  [i \in D |-> pairs[order[i]]]

Urlencode(pairs) == [i \in DOMAIN pairs |-> <<Spell[pairs[i][1]], Spell[pairs[i][2]]>>]

\* SortQueryParamsStep.  The steps on triplets find nothing to change in what
\* urlencode has spelled.
SortQueryParams(query) == Urlencode(Sorted(ParseQsl(query)))

\* _PERCENT_ENCODED_RE
Triplet(s, i) == i + 2 <= Len(s) /\ s[i] = "%" /\ s[i + 1] \in Hex /\ s[i + 2] \in Hex

\* re.sub over the triplets, from left to right
Substitute(s, new) ==
    LET from[i \in 1 .. Len(s) + 1] ==
          IF i > Len(s) THEN <<>>
          ELSE IF Triplet(s, i) THEN new[<<s[i + 1], s[i + 2]>>] \o from[i + 3]
          ELSE <<s[i]>> \o from[i + 1]
    IN  from[1]

Upper(digit) == IF digit = "a" THEN "A" ELSE digit

\* UppercasePercentEncodingStep
UppercasePercentEncoding(path) ==
    Substitute(path, [d \in Hex \X Hex |-> <<"%", Upper(d[1]), Upper(d[2])>>])

IsUnreserved(h, l) == h = "3" /\ l \in {"1", "3"}

\* DecodeUnreservedStep
DecodeUnreserved(path) ==
    Substitute(path, [d \in Hex \X Hex |->
                         IF IsUnreserved(d[1], d[2]) THEN <<d[2]>>
                         ELSE <<"%", Upper(d[1]), Upper(d[2])>>])

\* s without the slashes it ends with
Stripped(s) ==
    LET Kept == {i \in DOMAIN s : \E j \in DOMAIN s : i <= j /\ s[j] # "/"}
    IN  SubSeq(s, 1, Cardinality(Kept))

\* Mutant: the slash of the root is stripped as well.
StripSlash(path) == IF path = <<>> THEN <<"/">> ELSE Stripped(path)

\* TrailingSlashStep
TrailingSlash(path) == IF path = <<>> THEN <<"/">>
                       ELSE IF path # <<"/">> THEN Stripped(path)
                       ELSE path

\* NormalizationPipeline.execute and _reconstruct; Null for a URL that is rejected.
\* What the context does not carry, fragment, user and params, is not put back.
Normalize(u) ==
    IF Parses(u)
    THEN [scheme   |-> u.scheme,
          user     |-> FALSE,
          host     |-> Lowercase(u.host),
          port     |-> RemoveDefaultPort(u.port, u.scheme),
          path     |-> TrailingSlash(DecodeUnreserved(UppercasePercentEncoding(u.path))),
          params   |-> FALSE,
          query    |-> SortQueryParams(u.query),
          fragment |-> FALSE]
    ELSE Null

-----------------------------------------------------------------------------
(* What a URL stands for, of those that are spelled regularly: every "%"   *)
(* begins a triplet, the path is not a row of slashes, no ";" follows, and *)
(* the query is names and values in UTF-8.                                 *)

\* Decoding has replaced nothing.
Utf8(part) == Octets[Spell[Decoded(part)]] = Octets[part]

Regular(u) ==
    /\ ~u.params
    /\ \A i \in DOMAIN u.path : u.path[i] = "%" => Triplet(u.path, i)
    /\ Len(u.path) > 1 => \E i \in DOMAIN u.path : u.path[i] # "/"
    /\ \A i \in DOMAIN u.query :
          u.query[i][2] # Null /\ Utf8(u.query[i][1]) /\ Utf8(u.query[i][2])

\* Where the characters of a path begin, a triplet being one character.
Starts(s) == {i \in DOMAIN s : \A j \in DOMAIN s : s[j] = "%" => i \notin j + 1 .. j + 2}

Char(s, i) ==
    IF s[i] # "%" THEN <<s[i]>>
    ELSE IF IsUnreserved(s[i + 1], s[i + 2]) THEN <<s[i + 2]>>
    ELSE <<Upper(s[i + 1]), Upper(s[i + 2])>>

\* The path as the places and values of its characters, up to the last that is
\* not a slash.
Resource(s) ==
    {<<Cardinality({j \in Starts(s) : j < i}), Char(s, i)>> :
        i \in {k \in Starts(s) : \E j \in Starts(s) : k <= j /\ s[j] # "/"}}

\* Two spellings of one page.
SamePage(u, v) ==
    /\ u.scheme = v.scheme
    /\ Lower[u.host] = Lower[v.host]
    /\ LET Port(w) == IF w.port = Null THEN DefaultPort(w.scheme) ELSE w.port
       IN  Port(u) = Port(v)
    /\ Resource(u.path) = Resource(v.path)
    /\ LET Pair(w, i) == <<Octets[w.query[i][1]], Octets[w.query[i][2]]>>
           Pairs(w) == {Pair(w, i) : i \in DOMAIN w.query}
           Times(w, x) == Cardinality({i \in DOMAIN w.query : Pair(w, i) = x})
       IN  \A x \in Pairs(u) \cup Pairs(v) : Times(u, x) = Times(v, x)

=============================================================================
