------------------------ MODULE UrlNormalizerProofs -------------------------
(***************************************************************************)
(* The normalizer is right: of the URLs that are spelled regularly, those  *)
(* and only those that stand for one page come to one normal form, and     *)
(* that form is its own.                                                   *)
(*                                                                         *)
(* The path.  A substitution writes, where the path has one character, a   *)
(* spelling of the same character (Reads), so Resource stays; so it does   *)
(* when slashes are stripped; and what is left at the end is so settled    *)
(* that its Resource tells the path (ResourceTells).  The query.  It is    *)
(* parsed to texts, and spelled again, which undoes each other as long as  *)
(* nothing was replaced (PlainDecodes); and a sequence of texts in order   *)
(* is told by how often it has each pair (OrderTells).                     *)
(*                                                                         *)
(* Induction is on sets of numbers: the least number outside of a set is   *)
(* preceded by numbers of the set only.                                    *)
(***************************************************************************)
EXTENDS UrlNormalizer, FiniteSetTheorems, FunctionTheorems, SequenceTheorems,
        WellFoundedInduction, TLAPS

-----------------------------------------------------------------------------
(* Numbers.                                                                *)

\* A set of numbers that has any has a least.
LEMMA LeastNumber ==
    ASSUME NEW T \in SUBSET Nat, T # {}
    PROVE  \E x \in T : \A y \in T : x <= y
<1>1. PICK x \in T : \A y \in T : ~(<<y, x>> \in OpToRel(<, Nat))
  BY NatLessThanWellFounded, WFMin
<1>2. ASSUME NEW y \in T
      PROVE  x <= y
  <2>1. x \in Nat /\ y \in Nat /\ <<y, x>> \in Nat \X Nat
    OBVIOUS
  <2>2. y < x => <<y, x>> \in OpToRel(<, Nat)
    BY <2>1 DEF OpToRel
  <2>3. ~(y < x)
    BY <1>1, <2>2, Zenon
  <2> QED  BY <2>1, <2>3
<1> QED  BY <1>2

\* A set has every number if it has each that all smaller ones are followed by.
LEMMA StrongInduction ==
    ASSUME NEW S, \A n \in Nat : (\A m \in Nat : m < n => m \in S) => n \in S
    PROVE  \A n \in Nat : n \in S
<1> DEFINE T == {n \in Nat : n \notin S}
<1> SUFFICES ASSUME T # {} PROVE FALSE
  OBVIOUS
<1>1. PICK n \in T : \A m \in T : n <= m
  <2> HIDE DEF T
  <2>1. T \in SUBSET Nat
    BY DEF T
  <2> QED  BY <2>1, LeastNumber
<1>2. \A m \in Nat : m < n => m \in S
  BY <1>1
<1> QED  BY <1>2

\* The same within 1 .. m, from m down.
LEMMA Downward ==
    ASSUME NEW m \in Nat, NEW S,
           \A i \in 1 .. m : (\A j \in i + 1 .. m : j \in S) => i \in S
    PROVE  \A i \in 1 .. m : i \in S
<1> DEFINE T == {k \in Nat : m - k \in 1 .. m => m - k \in S}
<1>1. ASSUME NEW n \in Nat, \A k \in Nat : k < n => k \in T
      PROVE  n \in T
  <2> SUFFICES ASSUME m - n \in 1 .. m PROVE m - n \in S
    OBVIOUS
  <2>1. ASSUME NEW j \in m - n + 1 .. m PROVE j \in S
    <3>1. m - j \in Nat /\ m - j < n /\ m - (m - j) = j /\ j \in 1 .. m
      OBVIOUS
    <3>2. m - j \in T
      BY <1>1, <3>1
    <3> QED  BY <3>1, <3>2
  <2> QED  BY <2>1
<1>2. \A n \in Nat : n \in T
  <2> HIDE DEF T
  <2> QED  BY <1>1, StrongInduction
<1>3. ASSUME NEW i \in 1 .. m PROVE i \in S
  <2>1. m - i \in Nat /\ m - (m - i) = i
    OBVIOUS
  <2>2. m - i \in T
    BY <1>2, <2>1
  <2> QED  BY <2>1, <2>2
<1> QED  BY <1>3

\* A set of places that has every place before one of its own is an interval.
LEMMA InitialSegment ==
    ASSUME NEW m \in Nat, NEW S \in SUBSET (1 .. m),
           \A i \in S, j \in 1 .. m : j < i => j \in S
    PROVE  \E k \in 0 .. m : S = 1 .. k /\ Cardinality(S) = k
<1> DEFINE T == {u \in Nat : S \subseteq 1 .. u}
<1>1. m \in T /\ T \in SUBSET Nat
  OBVIOUS
<1>2. PICK k \in T : \A u \in T : k <= u
  <2> HIDE DEF T
  <2> QED  BY <1>1, LeastNumber
<1>3. k \in 0 .. m /\ S \subseteq 1 .. k
  BY <1>1, <1>2
<1>4. k > 0 => k \in S
  <2> SUFFICES ASSUME k > 0, k \notin S PROVE FALSE
    OBVIOUS
  <2>1. S \subseteq 1 .. (k - 1)
    BY <1>3
  <2>2. k - 1 \in T
    BY <1>3, <2>1
  <2> QED  BY <1>2, <1>3, <2>2
<1>5. S = 1 .. k
  <2>1. ASSUME NEW j \in 1 .. k PROVE j \in S
    <3>1. k \in S /\ j \in 1 .. m /\ (j = k \/ j < k)
      BY <1>3, <1>4
    <3> QED  BY <3>1
  <2> QED  BY <1>3, <2>1
<1>6. Cardinality(1 .. k) = k
  BY <1>3, FS_Interval
<1> QED  BY <1>3, <1>5, <1>6

-----------------------------------------------------------------------------
(* re.sub, as what follows from its recursion.                             *)

\* What is written from place i on, f being what is from the later ones on.
Rest(s, new, f, i) ==
    IF i > Len(s) THEN <<>>
    ELSE IF Triplet(s, i) THEN new[<<s[i + 1], s[i + 2]>>] \o f[i + 3]
    ELSE <<s[i]>> \o f[i + 1]

\* There is a function as Substitute defines it, so its result is that function's.
LEMMA SubstituteUnfolds ==
    ASSUME NEW s \in Seq(Chars), NEW new
    PROVE  \E f : /\ f = [i \in 1 .. Len(s) + 1 |-> Rest(s, new, f, i)]
                  /\ Substitute(s, new) = f[1]
<1> DEFINE m == Len(s) + 1
           Upto(f, k) == f = [i \in 1 .. m |-> IF i >= k THEN Rest(s, new, f, i) ELSE <<>>]
           S == {k \in 1 .. m : \E f : Upto(f, k)}
<1>1. m \in Nat /\ Len(s) \in Nat
  OBVIOUS
<1>2. ASSUME NEW k \in 1 .. m, \A j \in k + 1 .. m : j \in S
      PROVE  k \in S
  <2>1. CASE k = m
    <3> DEFINE f == [i \in 1 .. m |-> <<>>]
    <3>1. Rest(s, new, f, m) = <<>>
      <4>1. m > Len(s)
        BY <1>1
      <4> HIDE DEF f, m
      <4> QED  BY <4>1 DEF Rest
    <3>2. \A i \in 1 .. m : i >= k => i = m
      BY <1>1, <2>1
    <3>3. Upto(f, k)
      BY <1>1, <3>1, <3>2, Zenon
    <3> HIDE DEF Upto, f
    <3> QED  BY <3>3
  <2>2. CASE k # m
    <3>1. k + 1 \in S /\ k + 1 \in 1 .. m
      <4>1. k + 1 \in k + 1 .. m /\ k + 1 \in 1 .. m
        BY <1>1, <2>2
      <4> HIDE DEF m, S
      <4> QED  BY <1>2, <4>1
    <3>2. PICK g : Upto(g, k + 1)
      BY <3>1
    <3> DEFINE f == [i \in 1 .. m |-> IF i = k THEN Rest(s, new, g, k) ELSE g[i]]
    <3>3. ASSUME NEW i \in 1 .. m, i >= k
          PROVE  Rest(s, new, f, i) = Rest(s, new, g, i)
      <4>1. CASE i > Len(s)
        BY <4>1 DEF Rest
      <4>2. CASE ~(i > Len(s)) /\ Triplet(s, i)
        <5>1. i + 3 \in 1 .. m /\ i + 3 # k
          BY <1>1, <3>3, <4>2 DEF Triplet
        <5>2. f[i + 3] = g[i + 3]
          BY <5>1
        <5> HIDE DEF f
        <5> QED  BY <4>2, <5>2 DEF Rest
      <4>3. CASE ~(i > Len(s)) /\ ~Triplet(s, i)
        <5>1. i + 1 \in 1 .. m /\ i + 1 # k
          BY <1>1, <3>3, <4>3
        <5>2. f[i + 1] = g[i + 1]
          BY <5>1
        <5> HIDE DEF f
        <5> QED  BY <4>3, <5>2 DEF Rest
      <4> QED  BY <4>1, <4>2, <4>3
    <3>4. ASSUME NEW i \in 1 .. m
          PROVE  f[i] = IF i >= k THEN Rest(s, new, f, i) ELSE <<>>
      <4>1. CASE i = k
        BY <4>1, <3>3
      <4>2. CASE i # k
        <5>1. f[i] = g[i] /\ (i >= k <=> i >= k + 1)
          BY <4>2, <1>1
        <5>2. g[i] = IF i >= k + 1 THEN Rest(s, new, g, i) ELSE <<>>
          BY <3>2
        <5> HIDE DEF f
        <5> QED  BY <5>1, <5>2, <3>3
      <4> QED  BY <4>1, <4>2
    <3>5. f = [i \in 1 .. m |-> f[i]]
      OBVIOUS
    <3> HIDE DEF f, m
    <3>6. Upto(f, k)
      BY <3>4, <3>5
    <3> HIDE DEF Upto
    <3> QED  BY <3>6
  <2> QED  BY <2>1, <2>2
<1>3. 1 \in S
  <2>1. 1 \in 1 .. m
    BY <1>1
  <2> HIDE DEF m, S
  <2> QED  BY <1>1, <1>2, <2>1, Downward
<1>4. PICK f : Upto(f, 1)
  BY <1>3
<1>5. f = [i \in 1 .. m |-> Rest(s, new, f, i)]
  BY <1>1, <1>4
<1> DEFINE g == CHOOSE h : h = [i \in 1 .. Len(s) + 1 |-> Rest(s, new, h, i)]
<1>6. g = [i \in 1 .. Len(s) + 1 |-> Rest(s, new, g, i)]
  BY <1>5
<1>7. Substitute(s, new) = g[1]
  BY DEF Substitute, Rest
<1> HIDE DEF g
<1> QED  BY <1>6, <1>7

-----------------------------------------------------------------------------
(* Where characters begin.                                                 *)

\* Every "%" begins a triplet, of digits in Q.
Tidy(s, Q) ==
    \A i \in 1 .. Len(s) : s[i] = "%" => Triplet(s, i) /\ <<s[i + 1], s[i + 2]>> \in Q

Pairs == Hex \X Hex

\* Starts, place by place.
LEMMA StartsAre ==
    ASSUME NEW s \in Seq(Chars)
    PROVE  \A i : i \in Starts(s) <=>
              /\ i \in 1 .. Len(s)
              /\ \A j \in 1 .. Len(s) : s[j] = "%" => i # j + 1 /\ i # j + 2
<1>1. DOMAIN s = 1 .. Len(s)
  OBVIOUS
<1>2. \A i, j \in 1 .. Len(s) : i \in j + 1 .. j + 2 <=> i = j + 1 \/ i = j + 2
  <2>1. Len(s) \in Nat
    OBVIOUS
  <2> QED  BY <2>1
<1> QED  BY <1>1, <1>2, Zenon DEF Starts

\* In a tidy path a "%" begins a character, what begins none belongs to a triplet,
\* and after a character comes the next or the end.
LEMMA TidyStarts ==
    ASSUME NEW s \in Seq(Chars), Tidy(s, Pairs)
    PROVE  /\ \A i \in 1 .. Len(s) : s[i] = "%" => i \in Starts(s)
           /\ \A i \in 1 .. Len(s) : i \notin Starts(s) =>
                 \E j \in Starts(s) : s[j] = "%" /\ (i = j + 1 \/ i = j + 2)
           /\ \A i \in Starts(s) : /\ i \in 1 .. Len(s)
                                   /\ s[i] = "%" => Triplet(s, i)
                                   /\ s[i] # "%" => i + 1 \in Starts(s) \/ i = Len(s)
                                   /\ s[i] = "%" => i + 3 \in Starts(s) \/ i + 2 = Len(s)
<1>1. Len(s) \in Nat
  OBVIOUS
<1>2. ASSUME NEW i \in 1 .. Len(s), s[i] = "%"
      PROVE  i + 1 \in 1 .. Len(s) /\ i + 2 \in 1 .. Len(s) /\ s[i + 1] # "%" /\ s[i + 2] # "%"
  <2>1. i + 2 <= Len(s) /\ s[i + 1] \in Hex /\ s[i + 2] \in Hex
    BY <1>2 DEF Tidy, Triplet
  <2>2. "%" \notin Hex
    BY DEF Hex
  <2> QED  BY <1>1, <2>1, <2>2
<1>3. \A i : i \in Starts(s) <=>
         /\ i \in 1 .. Len(s)
         /\ \A j \in 1 .. Len(s) : s[j] = "%" => i # j + 1 /\ i # j + 2
  BY StartsAre
<1>4. ASSUME NEW i \in 1 .. Len(s), s[i] = "%" PROVE i \in Starts(s)
  BY <1>1, <1>2, <1>3, <1>4
<1>5. ASSUME NEW i \in 1 .. Len(s), i \notin Starts(s)
      PROVE  \E j \in Starts(s) : s[j] = "%" /\ (i = j + 1 \/ i = j + 2)
  BY <1>3, <1>4, <1>5
<1>6. ASSUME NEW i \in Starts(s)
      PROVE  /\ i \in 1 .. Len(s)
             /\ s[i] = "%" => Triplet(s, i)
             /\ s[i] # "%" => i + 1 \in Starts(s) \/ i = Len(s)
             /\ s[i] = "%" => i + 3 \in Starts(s) \/ i + 2 = Len(s)
  <2>1. i \in 1 .. Len(s)
    BY <1>3
  <2>2. s[i] = "%" => Triplet(s, i)
    BY <2>1 DEF Tidy
  <2>3. ASSUME s[i] # "%", i # Len(s) PROVE i + 1 \in Starts(s)
    <3>1. i + 1 \in 1 .. Len(s)
      BY <1>1, <2>1, <2>3
    <3>2. ASSUME NEW j \in 1 .. Len(s), s[j] = "%" PROVE i + 1 # j + 1 /\ i + 1 # j + 2
      BY <1>1, <1>3, <2>1, <2>3, <3>2
    <3> QED  BY <1>3, <3>1, <3>2
  <2>4. ASSUME s[i] = "%", i + 2 # Len(s) PROVE i + 3 \in Starts(s)
    <3>1. i + 2 \in 1 .. Len(s) /\ i + 3 \in 1 .. Len(s)
      BY <1>1, <1>2, <2>1, <2>4
    <3>2. ASSUME NEW j \in 1 .. Len(s), s[j] = "%" PROVE i + 3 # j + 1 /\ i + 3 # j + 2
      BY <1>1, <1>2, <2>1, <2>4, <3>2
    <3> QED  BY <1>3, <3>1, <3>2
  <2> QED  BY <2>1, <2>2, <2>3, <2>4
<1> QED  BY <1>1, <1>4, <1>5, <1>6

\* What may stand where a character begins.
Piece(w, Q) ==
    \/ \E c \in Chars \ {"%"} : w = <<c>>
    \/ \E h, l \in Hex : w = <<"%", h, l>> /\ <<h, l>> \in Q

\* What begins with the same letters is the same character.
LEMMA SameChar ==
    ASSUME NEW s, NEW t, NEW i, NEW j, s[i] = t[j],
           s[i] = "%" => s[i + 1] = t[j + 1] /\ s[i + 2] = t[j + 2]
    PROVE  Char(s, i) = Char(t, j)
<1>1. CASE s[i] = "%"
  BY <1>1, Zenon DEF Char
<1>2. CASE s[i] # "%"
  BY <1>2 DEF Char
<1> QED  BY <1>1, <1>2

\* With a character put in front, a path is as tidy and has the characters it had,
\* further on.
LEMMA PieceInFront ==
    ASSUME NEW Q \in SUBSET Pairs, NEW t \in Seq(Chars), Tidy(t, Q), NEW w, Piece(w, Q)
    PROVE  /\ w \o t \in Seq(Chars) /\ Tidy(w \o t, Q)
           /\ Len(w) \in {1, 3} /\ Len(w \o t) = Len(w) + Len(t)
           /\ Starts(w \o t) = {1} \cup {Len(w) + j : j \in Starts(t)}
           /\ Char(w \o t, 1) = Char(w, 1)
           /\ \A j \in Starts(t) : Char(w \o t, Len(w) + j) = Char(t, j)
<1> DEFINE u == w \o t
           d == Len(w)
<1>1. /\ w \in Seq(Chars) /\ d \in {1, 3}
      /\ d = 1 => w[1] # "%"
      /\ d = 3 => w[1] = "%" /\ w[2] \in Hex /\ w[3] \in Hex /\ <<w[2], w[3]>> \in Q
  <2>1. ASSUME NEW c \in Chars \ {"%"}, w = <<c>>
        PROVE  w \in Seq(Chars) /\ Len(w) = 1 /\ w[1] # "%"
    BY <2>1
  <2>2. ASSUME NEW h \in Hex, NEW l \in Hex, w = <<"%", h, l>>, <<h, l>> \in Q
        PROVE  /\ w \in Seq(Chars) /\ Len(w) = 3
               /\ w[1] = "%" /\ w[2] \in Hex /\ w[3] \in Hex /\ <<w[2], w[3]>> \in Q
    <3>1. "%" \in Chars /\ h \in Chars /\ l \in Chars
      BY DEF Chars
    <3> QED  BY <2>2, <3>1
  <2> HIDE DEF d, u
  <2>3. d = Len(w)
    BY DEF d
  <2>4. (\E c \in Chars \ {"%"} : w = <<c>>)
           \/ \E h, l \in Hex : w = <<"%", h, l>> /\ <<h, l>> \in Q
    BY DEF Piece
  <2>5. CASE \E c \in Chars \ {"%"} : w = <<c>>
    BY <2>1, <2>3, <2>5
  <2>6. CASE \E h, l \in Hex : w = <<"%", h, l>> /\ <<h, l>> \in Q
    BY <2>2, <2>3, <2>6
  <2> QED  BY <2>4, <2>5, <2>6
<1>2. /\ Len(t) \in Nat
      /\ u \in Seq(Chars) /\ Len(u) = d + Len(t)
      /\ \A i \in 1 .. d : u[i] = w[i]
      /\ \A i \in 1 .. Len(t) : d + i \in 1 .. Len(u) /\ u[d + i] = t[i]
  BY <1>1, ConcatProperties
<1>3. \A i \in 1 .. Len(u) : i \in 1 .. d \/ (i - d \in 1 .. Len(t) /\ i = d + (i - d))
  BY <1>1, <1>2
<1>4. Hex \in SUBSET (Chars \ {"%"}) /\ Q \in SUBSET Pairs
  BY DEF Chars, Hex
<1> HIDE DEF u, d
<1>5. ASSUME NEW i \in 1 .. Len(t), t[i] = "%"
      PROVE  /\ Triplet(u, d + i) /\ <<u[d + i + 1], u[d + i + 2]>> \in Q
             /\ u[d + i + 1] = t[i + 1] /\ u[d + i + 2] = t[i + 2]
  <2>1. Triplet(t, i) /\ <<t[i + 1], t[i + 2]>> \in Q
    BY <1>5 DEF Tidy
  <2>2. /\ i + 1 \in 1 .. Len(t) /\ i + 2 \in 1 .. Len(t)
        /\ d + (i + 1) = d + i + 1 /\ d + (i + 2) = d + i + 2 /\ d + i + 2 <= Len(u)
    BY <1>1, <1>2, <2>1 DEF Triplet
  <2>3. u[d + i + 1] = t[i + 1] /\ u[d + i + 2] = t[i + 2] /\ u[d + i] = t[i]
    BY <1>2, <2>2
  <2> QED  BY <1>5, <2>1, <2>2, <2>3 DEF Triplet
<1>6. d = 3 => /\ Triplet(u, 1) /\ <<u[2], u[3]>> \in Q
               /\ u[1] = "%" /\ u[2] # "%" /\ u[3] # "%" /\ u[2] = w[2] /\ u[3] = w[3]
  <2> SUFFICES ASSUME d = 3
               PROVE  /\ Triplet(u, 1) /\ <<u[2], u[3]>> \in Q
                      /\ u[1] = "%" /\ u[2] # "%" /\ u[3] # "%" /\ u[2] = w[2] /\ u[3] = w[3]
    OBVIOUS
  <2>1. u[1] = w[1] /\ u[2] = w[2] /\ u[3] = w[3] /\ 3 <= Len(u)
    BY <1>2
  <2>2. w[1] = "%" /\ w[2] \in Hex /\ w[3] \in Hex /\ <<w[2], w[3]>> \in Q
    BY <1>1
  <2>3. w[2] # "%" /\ w[3] # "%"
    BY <1>4, <2>2
  <2> QED  BY <2>1, <2>2, <2>3 DEF Triplet
<1>7. d = 1 => u[1] # "%" /\ u[1] = w[1]
  BY <1>1, <1>2
<1>8. \A i \in 1 .. d : u[i] = "%" => i = 1 /\ d = 3
  BY <1>1, <1>6, <1>7
<1>9. Tidy(u, Q)
  <2>1. ASSUME NEW i \in 1 .. Len(u), u[i] = "%"
        PROVE  Triplet(u, i) /\ <<u[i + 1], u[i + 2]>> \in Q
    <3>1. CASE i \in 1 .. d
      BY <1>6, <1>8, <2>1, <3>1
    <3>2. CASE i - d \in 1 .. Len(t) /\ i = d + (i - d)
      <4>1. t[i - d] = "%"
        BY <1>2, <2>1, <3>2
      <4> QED  BY <1>5, <3>2, <4>1
    <3> QED  BY <1>3, <3>1, <3>2
  <2> QED  BY <2>1 DEF Tidy
<1> DEFINE After(v, i) == \A j \in 1 .. Len(v) : v[j] = "%" => i # j + 1 /\ i # j + 2
<1>10. /\ \A i : i \in Starts(u) <=> i \in 1 .. Len(u) /\ After(u, i)
       /\ \A i : i \in Starts(t) <=> i \in 1 .. Len(t) /\ After(t, i)
  BY <1>2, StartsAre
<1>11. 1 \in Starts(u)
  <2>1. After(u, 1)
    BY <1>2
  <2>2. 1 \in 1 .. Len(u)
    BY <1>1, <1>2
  <2> QED  BY <1>10, <2>1, <2>2
<1>12. ASSUME NEW i \in 2 .. d PROVE i \notin Starts(u)
  <2>1. d = 3 /\ (i = 1 + 1 \/ i = 1 + 2)
    BY <1>1, <1>12
  <2>2. u[1] = "%" /\ 1 \in 1 .. Len(u)
    BY <1>2, <1>6, <2>1
  <2> QED  BY <1>10, <2>1, <2>2
<1>13. ASSUME NEW i \in 1 .. Len(t)
       PROVE  After(u, d + i) <=> After(t, i)
  <2>1. ASSUME NEW j \in 1 .. Len(t), t[j] = "%", i = j + 1 \/ i = j + 2
        PROVE  ~After(u, d + i)
    <3>1. d + j \in 1 .. Len(u) /\ u[d + j] = "%"
      BY <1>2, <2>1
    <3>2. d + i = (d + j) + 1 \/ d + i = (d + j) + 2
      BY <1>1, <2>1
    <3> QED  BY <3>1, <3>2
  <2>2. ASSUME NEW j \in 1 .. Len(u), u[j] = "%", d + i = j + 1 \/ d + i = j + 2
        PROVE  ~After(t, i)
    <3>1. j \notin 1 .. d
      BY <1>1, <1>8, <2>2
    <3>2. j - d \in 1 .. Len(t) /\ j = d + (j - d)
      BY <1>3, <3>1
    <3>3. t[j - d] = "%"
      BY <1>2, <2>2, <3>2
    <3>4. i = (j - d) + 1 \/ i = (j - d) + 2
      BY <1>1, <1>2, <2>2
    <3> QED  BY <3>2, <3>3, <3>4
  <2> QED  BY <2>1, <2>2
<1> HIDE DEF After
<1>14. \A i \in 1 .. Len(t) : d + i \in Starts(u) <=> i \in Starts(t)
  BY <1>2, <1>10, <1>13
<1>15. Starts(u) = {1} \cup {d + j : j \in Starts(t)}
  <2>1. ASSUME NEW i \in Starts(u), i # 1 PROVE \E j \in Starts(t) : i = d + j
    <3>1. i \in 1 .. Len(u)
      BY <1>10
    <3>2. i \notin 1 .. d
      BY <1>1, <1>12, <2>1
    <3>3. i - d \in 1 .. Len(t) /\ i = d + (i - d)
      BY <1>3, <3>1, <3>2
    <3> QED  BY <1>14, <2>1, <3>3
  <2>2. \A j \in Starts(t) : d + j \in Starts(u)
    BY <1>10, <1>14
  <2> QED  BY <1>11, <2>1, <2>2
<1>16. Char(u, 1) = Char(w, 1)
  <2>1. u[1] = w[1] /\ (w[1] = "%" => d = 3 /\ u[1 + 1] = w[1 + 1] /\ u[1 + 2] = w[1 + 2])
    BY <1>1, <1>2, <1>6, <1>7
  <2> QED  BY <2>1, SameChar
<1>17. ASSUME NEW j \in Starts(t) PROVE Char(u, d + j) = Char(t, j)
  <2>1. j \in 1 .. Len(t) /\ u[d + j] = t[j]
    BY <1>2, <1>10
  <2>2. t[j] = "%" => u[d + j + 1] = t[j + 1] /\ u[d + j + 2] = t[j + 2]
    BY <1>5, <2>1
  <2>3. (d + j) + 1 = d + j + 1 /\ (d + j) + 2 = d + j + 2
    OBVIOUS
  <2> QED  BY <2>1, <2>2, <2>3, SameChar
<1> QED  BY <1>1, <1>2, <1>9, <1>15, <1>16, <1>17 DEF u, d

-----------------------------------------------------------------------------
(* What a substitution writes reads as what it read.                       *)

\* The characters of s from place i on.
From(s, i) == {j \in Starts(s) : j >= i}

\* phi takes them to those of t, in order, each to one that is the same.
Matches(phi, s, i, t) ==
    /\ phi \in [From(s, i) -> Starts(t)]
    /\ \A j, k \in From(s, i) : j < k => phi[j] < phi[k]
    /\ \A y \in Starts(t) : \E j \in From(s, i) : phi[j] = y
    /\ \A j \in From(s, i) : Char(t, phi[j]) = Char(s, j)

\* t spells what s does from place i on.
Reads(s, i, t) == \E phi : Matches(phi, s, i, t)

\* If t spells what follows the character at i, then t after a spelling of that
\* character spells what s does from i on.
LEMMA ReadsOneMore ==
    ASSUME NEW s \in Seq(Chars), Tidy(s, Pairs), NEW i \in Starts(s), NEW n \in Nat,
           \/ s[i] # "%" /\ n = i + 1
           \/ s[i] = "%" /\ n = i + 3,
           NEW Q \in SUBSET Pairs, NEW t \in Seq(Chars), Tidy(t, Q), Reads(s, n, t),
           NEW w, Piece(w, Q), Char(w, 1) = Char(s, i)
    PROVE  Reads(s, i, w \o t)
<1> DEFINE u == w \o t
           d == Len(w)
<1>1. /\ d \in {1, 3}
      /\ Starts(u) = {1} \cup {d + j : j \in Starts(t)}
      /\ Char(u, 1) = Char(w, 1)
      /\ \A j \in Starts(t) : Char(u, d + j) = Char(t, j)
  BY PieceInFront
<1> HIDE DEF u, d
<1>2. /\ i \in Nat
      /\ \A j : j \in Starts(s) => j \in Nat
      /\ \A j : j \in Starts(t) => j \in Nat /\ j >= 1
  BY StartsAre
<1>3. \A j \in Starts(s) : j > i => j >= n
  <2>1. CASE s[i] # "%"
    BY <1>2, <2>1
  <2>2. CASE s[i] = "%"
    <3>1. /\ i + 2 <= Len(s) /\ s[i + 1] # "%" /\ s[i + 2] # "%" /\ i \in 1 .. Len(s)
      <4>1. i \in 1 .. Len(s) /\ Triplet(s, i)
        BY <2>2, TidyStarts
      <4> QED  BY <4>1, <1>2 DEF Triplet, Hex
    <3>2. \A j \in Starts(s) : j # i + 1 /\ j # i + 2
      BY <2>2, <3>1, StartsAre
    <3> QED  BY <1>2, <2>2, <3>2
  <2> QED  BY <2>1, <2>2
<1>4. /\ \A j : j \in From(s, i) <=> j = i \/ j \in From(s, n)
      /\ \A j : j \in From(s, n) => j \in Starts(s) /\ j > i /\ j # i
  BY <1>2, <1>3 DEF From
<1>5. PICK phi : Matches(phi, s, n, t)
  BY DEF Reads
<1>6. /\ phi \in [From(s, n) -> Starts(t)]
      /\ \A j, k \in From(s, n) : j < k => phi[j] < phi[k]
      /\ \A y \in Starts(t) : \E j \in From(s, n) : phi[j] = y
      /\ \A j \in From(s, n) : Char(t, phi[j]) = Char(s, j)
  BY <1>5 DEF Matches
<1> DEFINE psi == [j \in From(s, i) |-> IF j = i THEN 1 ELSE d + phi[j]]
<1>7. /\ psi[i] = 1
      /\ \A j \in From(s, n) : psi[j] = d + phi[j]
  BY <1>4
<1>8. psi \in [From(s, i) -> Starts(u)]
  BY <1>1, <1>4, <1>6
<1> HIDE DEF psi
<1>9. \A j, k \in From(s, i) : j < k => psi[j] < psi[k]
  <2> SUFFICES ASSUME NEW j \in From(s, i), NEW k \in From(s, i), j < k
               PROVE  psi[j] < psi[k]
    OBVIOUS
  <2>1. k \in From(s, n)
    BY <1>2, <1>4
  <2>2. CASE j = i
    BY <1>1, <1>2, <1>6, <1>7, <2>1, <2>2
  <2>3. CASE j \in From(s, n)
    <3>1. phi[j] \in Nat /\ phi[k] \in Nat /\ phi[j] < phi[k]
      BY <1>2, <1>6, <2>1, <2>3
    <3> QED  BY <1>1, <1>7, <2>1, <2>3, <3>1
  <2> QED  BY <1>4, <2>2, <2>3
<1>10. ASSUME NEW y \in Starts(u) PROVE \E j \in From(s, i) : psi[j] = y
  <2>1. CASE y = 1
    BY <1>4, <1>7, <2>1
  <2>2. ASSUME NEW z \in Starts(t), y = d + z PROVE \E j \in From(s, i) : psi[j] = y
    <3>1. PICK j \in From(s, n) : phi[j] = z
      BY <1>6
    <3> QED  BY <1>4, <1>7, <2>2, <3>1
  <2> QED  BY <1>1, <2>1, <2>2
<1>11. ASSUME NEW j \in From(s, i) PROVE Char(u, psi[j]) = Char(s, j)
  <2>1. CASE j = i
    BY <1>1, <1>7, <2>1
  <2>2. CASE j \in From(s, n)
    BY <1>1, <1>6, <1>7, <2>2
  <2> QED  BY <1>4, <2>1, <2>2
<1>12. Matches(psi, s, i, u)
  BY <1>8, <1>9, <1>10, <1>11 DEF Matches
<1> QED  BY <1>12 DEF Reads, u

\* The character a triplet stands for.
Word(h, l) == IF IsUnreserved(h, l) THEN <<l>> ELSE <<Upper(h), Upper(l)>>

\* new writes a triplet as a piece that stands for the same character.
Respells(new, Q) == \A h, l \in Hex : Piece(new[<<h, l>>], Q) /\ Char(new[<<h, l>>], 1) = Word(h, l)

\* By induction from the end: what a substitution writes spells what it read, with
\* the triplets it may write.
LEMMA SubstituteReads ==
    ASSUME NEW s \in Seq(Chars), Tidy(s, Pairs), NEW Q \in SUBSET Pairs, NEW new, Respells(new, Q)
    PROVE  /\ Substitute(s, new) \in Seq(Chars) /\ Tidy(Substitute(s, new), Q)
           /\ Reads(s, 1, Substitute(s, new))
<1>1. PICK f : /\ f = [i \in 1 .. Len(s) + 1 |-> Rest(s, new, f, i)]
               /\ Substitute(s, new) = f[1]
  BY SubstituteUnfolds
<1>2. Len(s) \in Nat
  OBVIOUS
<1> DEFINE Done(i) == f[i] \in Seq(Chars) /\ Tidy(f[i], Q) /\ Reads(s, i, f[i])
           S == {i \in 1 .. Len(s) + 1 : i \in Starts(s) \/ i = Len(s) + 1 => Done(i)}
<1>3. ASSUME NEW i \in 1 .. Len(s) + 1, \A j \in i + 1 .. Len(s) + 1 : j \in S
      PROVE  i \in S
  <2> SUFFICES ASSUME i \in Starts(s) \/ i = Len(s) + 1 PROVE Done(i)
    OBVIOUS
  <2>1. f[i] = Rest(s, new, f, i)
    BY <1>1
  <2>2. CASE i = Len(s) + 1
    <3>1. f[i] = <<>>
      <4>1. i > Len(s)
        BY <1>2, <2>2
      <4>2. Rest(s, new, f, i) = <<>>
        BY <4>1, Zenon DEF Rest
      <4> QED  BY <2>1, <4>2, Zenon
    <3>2. <<>> \in Seq(Chars) /\ Tidy(<<>>, Q) /\ Starts(<<>>) = {}
      BY DEF Tidy, Starts
    <3>3. From(s, i) = {}
      BY <1>2, <2>2, StartsAre DEF From
    <3>4. Matches([j \in {} |-> 1], s, i, <<>>)
      BY <3>2, <3>3 DEF Matches
    <3>5. Reads(s, i, <<>>)
      BY <3>4 DEF Reads
    <3> QED  BY <3>1, <3>2, <3>5
  <2>3. CASE i # Len(s) + 1 /\ s[i] # "%"
    <3>1. i \in Starts(s) /\ i \in 1 .. Len(s) /\ s[i] \in Chars
      BY <1>2, <2>3
    <3>2. i + 1 \in S /\ (i + 1 \in Starts(s) \/ i + 1 = Len(s) + 1) /\ i + 1 \in Nat
      <4>1. i + 1 \in i + 1 .. Len(s) + 1 /\ i + 1 \in Nat
        BY <1>2, <3>1
      <4>2. i + 1 \in Starts(s) \/ i = Len(s)
        BY <2>3, <3>1, TidyStarts
      <4> HIDE DEF S
      <4> QED  BY <1>3, <4>1, <4>2
    <3>3. Done(i + 1)
      BY <3>2
    <3>4. f[i] = <<s[i]>> \o f[i + 1]
      BY <1>2, <2>1, <2>3, <3>1 DEF Rest, Triplet
    <3>5. Piece(<<s[i]>>, Q)
      BY <2>3, <3>1 DEF Piece
    <3>6. Char(<<s[i]>>, 1) = Char(s, i)
      BY <2>3, SameChar
    <3>7. Reads(s, i, <<s[i]>> \o f[i + 1])
      BY <2>3, <3>1, <3>2, <3>3, <3>5, <3>6, ReadsOneMore
    <3> QED  BY <3>3, <3>4, <3>5, <3>7, PieceInFront
  <2>4. CASE i # Len(s) + 1 /\ s[i] = "%"
    <3>1. i \in Starts(s) /\ i \in 1 .. Len(s)
      BY <1>2, <2>4
    <3>2. Triplet(s, i)
      BY <2>4, <3>1, TidyStarts
    <3>3. i + 2 <= Len(s) /\ s[i + 1] \in Hex /\ s[i + 2] \in Hex
      BY <3>2 DEF Triplet
    <3>4. i + 3 \in S /\ (i + 3 \in Starts(s) \/ i + 3 = Len(s) + 1) /\ i + 3 \in Nat
      <4>1. i + 3 \in i + 1 .. Len(s) + 1 /\ i + 3 \in Nat /\ (i + 2 = Len(s) => i + 3 = Len(s) + 1)
        BY <1>2, <3>1, <3>3
      <4>2. i + 3 \in Starts(s) \/ i + 2 = Len(s)
        BY <2>4, <3>1, TidyStarts
      <4> HIDE DEF S
      <4> QED  BY <1>3, <4>1, <4>2
    <3>5. Done(i + 3)
      BY <3>4
    <3> DEFINE w == new[<<s[i + 1], s[i + 2]>>]
    <3>6. f[i] = w \o f[i + 3]
      <4>1. ~(i > Len(s))
        BY <1>2, <3>1
      <4>2. Rest(s, new, f, i) = w \o f[i + 3]
        BY <3>2, <4>1, Zenon DEF Rest
      <4> QED  BY <2>1, <4>2, Zenon
    <3>7. Piece(w, Q) /\ Char(w, 1) = Word(s[i + 1], s[i + 2])
      BY <3>3 DEF Respells
    <3>8. Char(s, i) = Word(s[i + 1], s[i + 2])
      BY <2>4 DEF Char, Word
    <3> HIDE DEF w
    <3>9. Reads(s, i, w \o f[i + 3])
      BY <2>4, <3>1, <3>4, <3>5, <3>7, <3>8, ReadsOneMore
    <3>10. w \o f[i + 3] \in Seq(Chars) /\ Tidy(w \o f[i + 3], Q)
      BY <3>5, <3>7, PieceInFront
    <3> QED  BY <3>6, <3>9, <3>10, Zenon
  <2> QED  BY <2>2, <2>3, <2>4
<1>4. 1 \in S
  <2>1. Len(s) + 1 \in Nat /\ 1 \in 1 .. Len(s) + 1
    BY <1>2
  <2> HIDE DEF S
  <2> QED  BY <1>3, <2>1, Downward
<1>5. 1 \in Starts(s) \/ 1 = Len(s) + 1
  BY <1>2, StartsAre
<1> QED  BY <1>1, <1>4, <1>5

-----------------------------------------------------------------------------
(* Two paths of which one reads as the other have one resource.            *)

\* The characters before one, which number its place.
Before(s, i) == {j \in Starts(s) : j < i}

\* The characters a resource shows.
Showing(s) == {k \in Starts(s) : \E j \in Starts(s) : k <= j /\ s[j] # "/"}

\* Resource in these terms.
LEMMA ResourceIs ==
    ASSUME NEW s
    PROVE  Resource(s) = {<<Cardinality(Before(s, i)), Char(s, i)>> : i \in Showing(s)}
BY DEF Resource, Before, Showing

\* No triplet stands for a slash (%2F is reserved, and its digits are not /).
LEMMA SlashChar ==
    ASSUME NEW s \in Seq(Chars), Tidy(s, Pairs), NEW i \in Starts(s)
    PROVE  Char(s, i) = <<"/">> <=> s[i] = "/"
<1>1. i \in 1 .. Len(s) /\ (s[i] = "%" => Triplet(s, i))
  BY TidyStarts
<1>2. CASE s[i] # "%"
  <2>1. Char(s, i) = <<s[i]>>
    BY <1>2 DEF Char
  <2> QED  BY <2>1
<1>3. CASE s[i] = "%"
  <2>1. s[i + 1] \in Hex /\ s[i + 2] \in Hex
    BY <1>1, <1>3 DEF Triplet
  <2>2. Char(s, i) = <<s[i + 2]>> \/ Char(s, i) = <<Upper(s[i + 1]), Upper(s[i + 2])>>
    BY <1>3 DEF Char
  <2>3. s[i + 2] # "/"
    BY <2>1 DEF Hex
  <2>4. \A x : x # "/" => <<x>> # <<"/">>
    OBVIOUS
  <2>5. \A x, y : <<x, y>> # <<"/">>
    OBVIOUS
  <2>6. Char(s, i) # <<"/">>
    BY <2>2, <2>3, <2>4, <2>5, Zenon
  <2>7. s[i] # "/"
    BY <1>3
  <2> QED  BY <2>6, <2>7, Zenon
<1> QED  BY <1>2, <1>3

\* Places can be counted.
LEMMA BeforeFinite ==
    ASSUME NEW s \in Seq(Chars), NEW i \in 1 .. Len(s) + 1
    PROVE  /\ Before(s, i) \in SUBSET (1 .. Len(s))
           /\ IsFiniteSet(Before(s, i)) /\ Cardinality(Before(s, i)) \in Nat
<1>1. Before(s, i) \in SUBSET (1 .. Len(s)) /\ Len(s) \in Nat
  BY StartsAre DEF Before
<1>2. IsFiniteSet(1 .. Len(s))
  BY <1>1, FS_Interval
<1> QED  BY <1>1, <1>2, FS_Subset, FS_CardinalityType

\* Two paths of which one spells the other have the same characters at the same
\* places; and neither has a slash, or a second character, that the other has not.
LEMMA ReadsKeepsResource ==
    ASSUME NEW s \in Seq(Chars), Tidy(s, Pairs), NEW t \in Seq(Chars), Tidy(t, Pairs),
           Reads(s, 1, t)
    PROVE  /\ Resource(t) = Resource(s)
           /\ (\E i \in Starts(s) : s[i] # "/") => \E i \in Starts(t) : t[i] # "/"
           /\ (\A i, j \in Starts(s) : i = j) => \A i, j \in Starts(t) : i = j
<1>1. From(s, 1) = Starts(s)
  BY StartsAre DEF From
<1>2. PICK phi : Matches(phi, s, 1, t)
  BY DEF Reads
<1>3. /\ phi \in [Starts(s) -> Starts(t)]
      /\ \A j, k \in Starts(s) : j < k => phi[j] < phi[k]
      /\ \A y \in Starts(t) : \E j \in Starts(s) : phi[j] = y
      /\ \A j \in Starts(s) : Char(t, phi[j]) = Char(s, j)
  BY <1>1, <1>2 DEF Matches
<1>4. /\ \A j : j \in Starts(s) => j \in 1 .. Len(s)
      /\ \A j : j \in Starts(t) => j \in 1 .. Len(t)
      /\ Len(s) \in Nat /\ Len(t) \in Nat
  BY StartsAre
<1>5. \A j, k \in Starts(s) : j < k <=> phi[j] < phi[k]
  <2> SUFFICES ASSUME NEW j \in Starts(s), NEW k \in Starts(s), phi[j] < phi[k]
               PROVE  j < k
    BY <1>3
  <2>1. j \in Nat /\ k \in Nat /\ phi[j] \in Nat /\ phi[k] \in Nat
    BY <1>3, <1>4
  <2>2. ~(k < j)
    BY <1>3, <2>1
  <2>3. j # k
    BY <2>1
  <2> QED  BY <2>1, <2>2, <2>3
<1>6. \A j, k \in Starts(s) : j <= k <=> phi[j] <= phi[k]
  <2> SUFFICES ASSUME NEW j \in Starts(s), NEW k \in Starts(s)
               PROVE  j <= k <=> phi[j] <= phi[k]
    OBVIOUS
  <2>1. j \in Nat /\ k \in Nat /\ phi[j] \in Nat /\ phi[k] \in Nat
    BY <1>3, <1>4
  <2> QED  BY <1>5, <2>1
<1>7. \A j \in Starts(s) : s[j] = "/" <=> t[phi[j]] = "/"
  BY <1>3, SlashChar
<1>8. \A k \in Starts(s) : k \in Showing(s) <=> phi[k] \in Showing(t)
  BY <1>3, <1>6, <1>7 DEF Showing
<1>9. ASSUME NEW i \in Starts(s)
      PROVE  Cardinality(Before(t, phi[i])) = Cardinality(Before(s, i))
  <2> DEFINE S == Before(s, i)
             T == Before(t, phi[i])
             g == [j \in S |-> phi[j]]
  <2>1. IsFiniteSet(S)
    BY <1>4, BeforeFinite
  <2>2. \A j \in S : g[j] = phi[j] /\ g[j] \in T
    BY <1>3 DEF Before
  <2>3. g \in [S -> T]
    BY <2>2
  <2>4. \A a, b \in S : g[a] = g[b] => a = b
    <3> SUFFICES ASSUME NEW a \in S, NEW b \in S, phi[a] = phi[b] PROVE a = b
      BY <2>2
    <3>1. a \in Starts(s) /\ b \in Starts(s) /\ a \in Nat /\ b \in Nat
      BY <1>4 DEF Before
    <3>2. phi[a] \in Nat /\ phi[b] \in Nat
      BY <1>3, <1>4, <3>1
    <3> QED  BY <1>3, <3>1, <3>2
  <2>5. \A b \in T : \E a \in S : g[a] = b
    <3> SUFFICES ASSUME NEW b \in T PROVE \E a \in S : g[a] = b
      OBVIOUS
    <3>1. b \in Starts(t) /\ b < phi[i]
      BY DEF Before
    <3>2. PICK a \in Starts(s) : phi[a] = b
      BY <1>3, <3>1
    <3>3. a < i
      BY <1>5, <3>1, <3>2
    <3>4. a \in S
      BY <3>3 DEF Before
    <3> QED  BY <2>2, <3>2, <3>4
  <2>6. ExistsBijection(S, T)
    <3> HIDE DEF g, S, T
    <3>1. g \in Bijection(S, T)
      BY <2>3, <2>4, <2>5, Fun_IsBij
    <3> QED  BY <3>1, Fun_ExistsBij
  <2> HIDE DEF g, S, T
  <2>7. Cardinality(T) = Cardinality(S)
    BY <2>1, <2>6, FS_Bijection
  <2> QED  BY <2>7 DEF S, T
<1>10. Resource(t) = Resource(s)
  <2> DEFINE At(v, i) == <<Cardinality(Before(v, i)), Char(v, i)>>
  <2>1. \A i \in Showing(s) : i \in Starts(s) /\ phi[i] \in Showing(t)
    BY <1>8 DEF Showing
  <2>2. \A y \in Showing(t) : \E i \in Showing(s) : phi[i] = y
    BY <1>3, <1>8 DEF Showing
  <2>3. \A i \in Starts(s) : At(t, phi[i]) = At(s, i)
    BY <1>3, <1>9
  <2>4. Resource(s) = {At(s, i) : i \in Showing(s)} /\ Resource(t) = {At(t, i) : i \in Showing(t)}
    BY ResourceIs, Zenon
  <2> HIDE DEF At
  <2> QED  BY <2>1, <2>2, <2>3, <2>4
<1> QED  BY <1>3, <1>7, <1>10

-----------------------------------------------------------------------------
(* The two substitutions of the pipeline.                                  *)

\* The triplets that are left: in capitals, and of no unreserved character.
Settled == {x \in Pairs : ~IsUnreserved(x[1], x[2]) /\ Upper(x[1]) = x[1] /\ Upper(x[2]) = x[2]}

\* A path the pipeline may be given: regular, and not a row of slashes.
Plain(s, Q) ==
    /\ s \in Seq(Chars) /\ Tidy(s, Q)
    /\ \/ \E i \in Starts(s) : s[i] # "/"
       \/ \A i, j \in Starts(s) : i = j

\* A digit in capitals is a digit, and stays.
LEMMA UpperTwice ==
    ASSUME NEW h \in Hex
    PROVE  Upper(h) \in Hex /\ Upper(Upper(h)) = Upper(h)
BY DEF Upper, Hex

\* UppercasePercentEncodingStep writes triplets for triplets.
LEMMA UpperRespells == Respells([d \in Hex \X Hex |-> <<"%", Upper(d[1]), Upper(d[2])>>], Pairs)
<1> DEFINE new == [d \in Hex \X Hex |-> <<"%", Upper(d[1]), Upper(d[2])>>]
<1>1. ASSUME NEW h \in Hex, NEW l \in Hex
      PROVE  Piece(new[<<h, l>>], Pairs) /\ Char(new[<<h, l>>], 1) = Word(h, l)
  <2>1. new[<<h, l>>] = <<"%", Upper(h), Upper(l)>>
    OBVIOUS
  <2>2. /\ Upper(h) \in Hex /\ Upper(l) \in Hex
        /\ Upper(Upper(h)) = Upper(h) /\ Upper(Upper(l)) = Upper(l)
    BY UpperTwice
  <2>3. Piece(<<"%", Upper(h), Upper(l)>>, Pairs)
    BY <2>2 DEF Piece, Pairs
  <2>4. Char(<<"%", Upper(h), Upper(l)>>, 1)
           = IF IsUnreserved(Upper(h), Upper(l)) THEN <<Upper(l)>>
             ELSE <<Upper(Upper(h)), Upper(Upper(l))>>
    BY DEF Char
  <2>5. /\ IsUnreserved(Upper(h), Upper(l)) <=> IsUnreserved(h, l)
        /\ IsUnreserved(h, l) => Upper(l) = l
    BY DEF IsUnreserved, Upper
  <2>6. Char(<<"%", Upper(h), Upper(l)>>, 1) = Word(h, l)
    BY <2>2, <2>4, <2>5 DEF Word
  <2> HIDE DEF new
  <2> QED  BY <2>1, <2>3, <2>6
<1> HIDE DEF new
<1>2. Respells(new, Pairs)
  BY <1>1 DEF Respells
<1> QED  BY <1>2 DEF new

\* DecodeUnreservedStep writes settled triplets and characters that need none.
LEMMA DecodeRespells ==
    Respells([d \in Hex \X Hex |->
                 IF IsUnreserved(d[1], d[2]) THEN <<d[2]>>
                 ELSE <<"%", Upper(d[1]), Upper(d[2])>>], Settled)
<1> DEFINE new == [d \in Hex \X Hex |->
                      IF IsUnreserved(d[1], d[2]) THEN <<d[2]>>
                      ELSE <<"%", Upper(d[1]), Upper(d[2])>>]
<1>1. ASSUME NEW h \in Hex, NEW l \in Hex
      PROVE  Piece(new[<<h, l>>], Settled) /\ Char(new[<<h, l>>], 1) = Word(h, l)
  <2>1. new[<<h, l>>] = IF IsUnreserved(h, l) THEN <<l>> ELSE <<"%", Upper(h), Upper(l)>>
    OBVIOUS
  <2>2. /\ Upper(h) \in Hex /\ Upper(l) \in Hex
        /\ Upper(Upper(h)) = Upper(h) /\ Upper(Upper(l)) = Upper(l)
    BY UpperTwice
  <2>3. IsUnreserved(Upper(h), Upper(l)) <=> IsUnreserved(h, l)
    BY DEF IsUnreserved, Upper
  <2> HIDE DEF new
  <2>4. CASE IsUnreserved(h, l)
    <3>1. new[<<h, l>>] = <<l>> /\ Word(h, l) = <<l>>
      BY <2>1, <2>4 DEF Word
    <3>2. l \in Chars \ {"%"} /\ l # "%"
      BY DEF Chars, Hex
    <3>3. Char(<<l>>, 1) = <<l>>
      BY <3>2 DEF Char
    <3>4. Piece(<<l>>, Settled)
      BY <3>2 DEF Piece
    <3> QED  BY <3>1, <3>3, <3>4
  <2>5. CASE ~IsUnreserved(h, l)
    <3>1. new[<<h, l>>] = <<"%", Upper(h), Upper(l)>> /\ Word(h, l) = <<Upper(h), Upper(l)>>
      BY <2>1, <2>5 DEF Word
    <3>2. <<Upper(h), Upper(l)>> \in Settled
      BY <2>2, <2>3, <2>5 DEF Settled, Pairs
    <3>3. Piece(<<"%", Upper(h), Upper(l)>>, Settled)
      BY <2>2, <3>2 DEF Piece
    <3>4. Char(<<"%", Upper(h), Upper(l)>>, 1) = <<Upper(Upper(h)), Upper(Upper(l))>>
      BY <2>3, <2>5 DEF Char
    <3> QED  BY <2>2, <3>1, <3>3, <3>4
  <2> QED  BY <2>4, <2>5
<1> HIDE DEF new
<1>2. Respells(new, Settled)
  BY <1>1 DEF Respells
<1> QED  BY <1>2 DEF new

\* Settled triplets are triplets.
LEMMA TidyMore ==
    ASSUME NEW s, Tidy(s, Settled)
    PROVE  Tidy(s, Pairs)
BY DEF Tidy, Settled

\* A step that respells keeps the resource of a path.
LEMMA SubstituteKeeps ==
    ASSUME NEW s, Plain(s, Pairs), NEW Q \in {Pairs, Settled}, NEW new, Respells(new, Q)
    PROVE  Plain(Substitute(s, new), Q) /\ Resource(Substitute(s, new)) = Resource(s)
<1> DEFINE t == Substitute(s, new)
<1>1. Settled \in SUBSET Pairs
  BY DEF Settled
<1>2. s \in Seq(Chars) /\ Tidy(s, Pairs)
  BY DEF Plain
<1>3. t \in Seq(Chars) /\ Tidy(t, Q) /\ Reads(s, 1, t)
  BY <1>1, <1>2, SubstituteReads
<1> HIDE DEF t
<1>4. Tidy(t, Pairs)
  BY <1>3, TidyMore
<1>5. /\ Resource(t) = Resource(s)
      /\ (\E i \in Starts(s) : s[i] # "/") => \E i \in Starts(t) : t[i] # "/"
      /\ (\A i, j \in Starts(s) : i = j) => \A i, j \in Starts(t) : i = j
  BY <1>2, <1>3, <1>4, ReadsKeepsResource
<1>6. Plain(t, Q)
  BY <1>3, <1>5 DEF Plain
<1> QED  BY <1>5, <1>6 DEF t

\* The two steps, one after the other.
LEMMA DecodedPath ==
    ASSUME NEW s, Plain(s, Pairs)
    PROVE  LET t == DecodeUnreserved(UppercasePercentEncoding(s))
           IN  Plain(t, Settled) /\ Resource(t) = Resource(s)
<1> DEFINE u == UppercasePercentEncoding(s)
<1>1. Plain(u, Pairs) /\ Resource(u) = Resource(s)
  BY UpperRespells, SubstituteKeeps DEF UppercasePercentEncoding
<1> HIDE DEF u
<1>2. Plain(DecodeUnreserved(u), Settled) /\ Resource(DecodeUnreserved(u)) = Resource(u)
  BY <1>1, DecodeRespells, SubstituteKeeps DEF DecodeUnreserved
<1> QED  BY <1>1, <1>2 DEF u

-----------------------------------------------------------------------------
(* Stripping slashes.                                                      *)

\* Whatever the spelling, what is read is characters.
LEMMA SubstituteType ==
    ASSUME NEW s \in Seq(Chars), NEW Q, NEW new, Respells(new, Q)
    PROVE  Substitute(s, new) \in Seq(Chars)
<1>1. PICK f : /\ f = [i \in 1 .. Len(s) + 1 |-> Rest(s, new, f, i)]
               /\ Substitute(s, new) = f[1]
  BY SubstituteUnfolds
<1>2. Len(s) \in Nat
  OBVIOUS
<1> DEFINE S == {i \in 1 .. Len(s) + 1 : f[i] \in Seq(Chars)}
<1>3. ASSUME NEW i \in 1 .. Len(s) + 1, \A j \in i + 1 .. Len(s) + 1 : j \in S
      PROVE  i \in S
  <2> SUFFICES f[i] \in Seq(Chars)
    OBVIOUS
  <2>1. f[i] = Rest(s, new, f, i)
    BY <1>1
  <2>2. CASE i > Len(s)
    <3>1. Rest(s, new, f, i) = <<>>
      BY <2>2, Zenon DEF Rest
    <3> QED  BY <2>1, <3>1
  <2>3. CASE ~(i > Len(s)) /\ Triplet(s, i)
    <3>1. i + 3 \in i + 1 .. Len(s) + 1
      BY <1>2, <2>3 DEF Triplet
    <3>2. f[i + 3] \in Seq(Chars)
      BY <1>3, <3>1
    <3> DEFINE w == new[<<s[i + 1], s[i + 2]>>]
    <3>3. Rest(s, new, f, i) = w \o f[i + 3]
      BY <2>3, Zenon DEF Rest
    <3>4. Piece(w, Q)
      BY <2>3 DEF Respells, Triplet
    <3> HIDE DEF w
    <3>5. w \in Seq(Chars)
      <4>1. "%" \in Chars /\ Hex \in SUBSET Chars
        BY DEF Chars
      <4>2. \A c \in Chars : <<c>> \in Seq(Chars)
        OBVIOUS
      <4>3. \A a, b, c \in Chars : <<a, b, c>> \in Seq(Chars)
        OBVIOUS
      <4> QED  BY <3>4, <4>1, <4>2, <4>3 DEF Piece
    <3> QED  BY <2>1, <3>2, <3>3, <3>5
  <2>4. CASE ~(i > Len(s)) /\ ~Triplet(s, i)
    <3>1. i + 1 \in i + 1 .. Len(s) + 1 /\ i \in 1 .. Len(s)
      BY <1>2, <2>4
    <3>2. f[i + 1] \in Seq(Chars) /\ s[i] \in Chars
      BY <1>3, <3>1
    <3>3. Rest(s, new, f, i) = <<s[i]>> \o f[i + 1]
      BY <2>4, Zenon DEF Rest
    <3> QED  BY <2>1, <3>2, <3>3
  <2> QED  BY <2>2, <2>3, <2>4
<1>4. 1 \in S
  <2>1. Len(s) + 1 \in Nat /\ 1 \in 1 .. Len(s) + 1
    BY <1>2
  <2> HIDE DEF S
  <2> QED  BY <1>3, <2>1, Downward
<1> QED  BY <1>1, <1>4

\* What is stripped, and what is not.
LEMMA StrippedIs ==
    ASSUME NEW s \in Seq(Chars)
    PROVE  \E k \in 0 .. Len(s) :
              /\ Stripped(s) \in Seq(Chars) /\ Len(Stripped(s)) = k
              /\ \A i \in 1 .. k : Stripped(s)[i] = s[i]
              /\ k > 0 => s[k] # "/"
              /\ \A i \in k + 1 .. Len(s) : s[i] = "/"
<1> DEFINE K == {i \in DOMAIN s : \E j \in DOMAIN s : i <= j /\ s[j] # "/"}
<1>1. Len(s) \in Nat
  OBVIOUS
<1>2. \A i : i \in K <=> i \in 1 .. Len(s) /\ \E j \in 1 .. Len(s) : i <= j /\ s[j] # "/"
  OBVIOUS
<1>3. Stripped(s) = SubSeq(s, 1, Cardinality(K))
  BY DEF Stripped
<1> HIDE DEF K
<1>4. K \in SUBSET (1 .. Len(s)) /\ \A i \in K, j \in 1 .. Len(s) : j < i => j \in K
  BY <1>1, <1>2
<1>5. PICK k \in 0 .. Len(s) : K = 1 .. k /\ Cardinality(K) = k
  BY <1>1, <1>4, InitialSegment
<1>6. /\ SubSeq(s, 1, k) \in Seq(Chars) /\ Len(SubSeq(s, 1, k)) = k
      /\ \A i \in 1 .. k : SubSeq(s, 1, k)[i] = s[i]
  BY <1>1, <1>5
<1>7. ASSUME k > 0 PROVE s[k] # "/"
  <2>1. k \in K
    BY <1>1, <1>5, <1>7
  <2>2. PICK j \in 1 .. Len(s) : k <= j /\ s[j] # "/"
    BY <1>2, <2>1
  <2>3. j \in K
    BY <1>1, <1>2, <2>2
  <2>4. j = k
    BY <1>1, <1>5, <2>2, <2>3
  <2> QED  BY <2>2, <2>4
<1>8. ASSUME NEW i \in k + 1 .. Len(s) PROVE s[i] = "/"
  <2>1. i \in 1 .. Len(s) /\ i \notin K
    BY <1>1, <1>5
  <2> QED  BY <1>1, <1>2, <2>1
<1> QED  BY <1>3, <1>5, <1>6, <1>7, <1>8

\* A path reaches to its last character that is not a slash.
LEMMA ShowingIs ==
    ASSUME NEW s \in Seq(Chars), Tidy(s, Pairs), NEW k \in 0 .. Len(s),
           k > 0 => s[k] # "/", \A i \in k + 1 .. Len(s) : s[i] = "/"
    PROVE  \A i : i \in Showing(s) <=> i \in Starts(s) /\ i <= k
<1>1. Len(s) \in Nat /\ \A i \in Starts(s) : i \in 1 .. Len(s)
  BY StartsAre
<1>2. ASSUME NEW i \in Starts(s), NEW j \in Starts(s), i <= j, s[j] # "/" PROVE i <= k
  <2>1. j \in 1 .. Len(s) /\ i \in 1 .. Len(s)
    BY <1>1
  <2>2. j \notin k + 1 .. Len(s)
    BY <1>2
  <2> QED  BY <1>1, <1>2, <2>1, <2>2
<1>3. ASSUME NEW i \in Starts(s), i <= k PROVE \E j \in Starts(s) : i <= j /\ s[j] # "/"
  <2>1. i \in 1 .. Len(s) /\ k \in 1 .. Len(s) /\ s[k] # "/"
    BY <1>1, <1>3
  <2>2. CASE k \in Starts(s)
    BY <1>3, <2>1, <2>2
  <2>3. CASE k \notin Starts(s)
    <3>1. PICK j \in Starts(s) : s[j] = "%" /\ (k = j + 1 \/ k = j + 2)
      BY <2>1, <2>3, TidyStarts
    <3>2. i # j + 1 /\ i # j + 2
      BY <1>1, <3>1, StartsAre
    <3>3. i <= j
      BY <1>1, <1>3, <3>1, <3>2
    <3> QED  BY <3>1, <3>3
  <2> QED  BY <2>2, <2>3
<1> QED  BY <1>2, <1>3 DEF Showing

\* A path without the slashes at its end has the resource it had.
LEMMA StrippedKeeps ==
    ASSUME NEW s \in Seq(Chars), Tidy(s, Settled), NEW p \in Seq(Chars), NEW k \in 0 .. Len(s),
           Len(p) = k, \A i \in 1 .. k : p[i] = s[i],
           k > 0 => s[k] # "/", \A i \in k + 1 .. Len(s) : s[i] = "/"
    PROVE  Tidy(p, Settled) /\ Resource(p) = Resource(s)
<1>1. Len(s) \in Nat /\ k \in Nat /\ \A i \in Starts(s) : i \in 1 .. Len(s)
  BY StartsAre
<1>2. ASSUME NEW i \in 1 .. k, p[i] = "%"
      PROVE  /\ i + 2 <= k /\ p[i + 1] = s[i + 1] /\ p[i + 2] = s[i + 2]
             /\ p[i + 1] \in Hex /\ p[i + 2] \in Hex /\ <<p[i + 1], p[i + 2]>> \in Settled
  <2>1. s[i] = "%" /\ i \in 1 .. Len(s)
    BY <1>1, <1>2
  <2>2. Triplet(s, i) /\ <<s[i + 1], s[i + 2]>> \in Settled
    BY <2>1 DEF Tidy
  <2>3. i + 2 <= Len(s) /\ s[i + 1] \in Hex /\ s[i + 2] \in Hex
    BY <2>2 DEF Triplet
  <2>4. s[i + 2] # "/"
    BY <2>3 DEF Hex
  <2>5. i + 2 <= k
    <3>1. i + 2 \notin k + 1 .. Len(s)
      BY <2>4
    <3> QED  BY <1>1, <2>3, <3>1
  <2>6. i + 1 \in 1 .. k /\ i + 2 \in 1 .. k
    BY <1>1, <2>5
  <2> QED  BY <2>2, <2>3, <2>5, <2>6
<1>3. Tidy(p, Settled)
  <2>1. ASSUME NEW i \in 1 .. Len(p), p[i] = "%"
        PROVE  Triplet(p, i) /\ <<p[i + 1], p[i + 2]>> \in Settled
    BY <1>2, <2>1 DEF Triplet
  <2> QED  BY <2>1 DEF Tidy
<1>4. Tidy(s, Pairs) /\ Tidy(p, Pairs)
  BY <1>3, TidyMore
<1>5. \A i : i \in Starts(p) <=> i \in Starts(s) /\ i <= k
  <2> DEFINE After(v, i) == \A j \in 1 .. Len(v) : v[j] = "%" => i # j + 1 /\ i # j + 2
  <2>1. /\ \A i : i \in Starts(p) <=> i \in 1 .. Len(p) /\ After(p, i)
        /\ \A i : i \in Starts(s) <=> i \in 1 .. Len(s) /\ After(s, i)
    BY StartsAre
  <2>2. ASSUME NEW i \in 1 .. k PROVE After(p, i) <=> After(s, i)
    <3>1. \A j \in 1 .. k : j \in 1 .. Len(s) /\ (p[j] = "%" <=> s[j] = "%")
      BY <1>1
    <3>2. \A j \in 1 .. Len(s) : i = j + 1 \/ i = j + 2 => j \in 1 .. k
      BY <1>1
    <3> QED  BY <3>1, <3>2
  <2>3. \A i : i \in 1 .. k <=> i \in 1 .. Len(s) /\ i <= k
    BY <1>1
  <2> HIDE DEF After
  <2> QED  BY <2>1, <2>2, <2>3
<1>6. \A i : i \in Showing(s) <=> i \in Starts(p)
  BY <1>4, <1>5, ShowingIs
<1>7. \A i : i \in Showing(p) <=> i \in Starts(p)
  <2>1. /\ \A i \in Starts(p) : i <= k
        /\ k > 0 => p[k] # "/"
    BY <1>1, <1>5
  <2>2. \A i \in k + 1 .. Len(p) : p[i] = "/"
    BY <1>1
  <2>3. k \in 0 .. Len(p)
    BY <1>1
  <2> QED  BY <1>4, <2>1, <2>2, <2>3, ShowingIs
<1>8. \A i \in Starts(p) : Before(p, i) = Before(s, i)
  <2>1. \A i \in Starts(p), j \in Starts(s) : j < i => j <= k
    BY <1>1, <1>5
  <2> QED  BY <1>5, <2>1 DEF Before
<1>9. ASSUME NEW i \in Starts(p) PROVE Char(p, i) = Char(s, i)
  <2>1. i \in 1 .. k
    BY <1>1, <1>5
  <2>2. p[i] = s[i] /\ (p[i] = "%" => p[i + 1] = s[i + 1] /\ p[i + 2] = s[i + 2])
    BY <1>2, <2>1
  <2> QED  BY <2>2, SameChar
<1>10. Resource(p) = Resource(s)
  <2> DEFINE At(v, i) == <<Cardinality(Before(v, i)), Char(v, i)>>
  <2>1. \A i \in Starts(p) : At(p, i) = At(s, i)
    BY <1>8, <1>9
  <2>2. Resource(s) = {At(s, i) : i \in Showing(s)} /\ Resource(p) = {At(p, i) : i \in Showing(p)}
    BY ResourceIs, Zenon
  <2> HIDE DEF At
  <2> QED  BY <1>6, <1>7, <2>1, <2>2
<1> QED  BY <1>3, <1>10

-----------------------------------------------------------------------------
(* A normal path is told by its resource.                                  *)

\* What TrailingSlashStep leaves of a decoded path.
NormalPath(p) ==
    /\ p \in Seq(Chars) /\ Tidy(p, Settled)
    /\ p = <<"/">> \/ (Len(p) > 0 /\ p[Len(p)] # "/")

\* A path begins with a character.
LEMMA FirstStart ==
    ASSUME NEW s \in Seq(Chars), Len(s) > 0
    PROVE  1 \in Starts(s)
BY StartsAre

\* TrailingSlashStep leaves the resource, and a normal path.
LEMMA TrailingSlashNormal ==
    ASSUME NEW s, Plain(s, Settled)
    PROVE  NormalPath(TrailingSlash(s)) /\ Resource(TrailingSlash(s)) = Resource(s)
<1>1. s \in Seq(Chars) /\ Tidy(s, Settled) /\ Tidy(s, Pairs) /\ Len(s) \in Nat
  BY TidyMore DEF Plain
<1>2. NormalPath(<<"/">>) /\ Resource(<<"/">>) = {} /\ Resource(<<>>) = {}
  <2>1. <<"/">> \in Seq(Chars) /\ Tidy(<<"/">>, Settled)
    BY DEF Chars, Tidy
  <2>2. Showing(<<>>) = {} /\ Showing(<<"/">>) = {}
    <3>1. \A j \in Starts(<<"/">>) : <<"/">>[j] = "/"
      BY DEF Starts
    <3>2. Starts(<<>>) = {}
      BY DEF Starts
    <3> QED  BY <3>1, <3>2 DEF Showing
  <2> QED  BY <2>1, <2>2, ResourceIs DEF NormalPath
<1>3. CASE s = <<>>
  BY <1>2, <1>3 DEF TrailingSlash
<1>4. CASE s = <<"/">>
  BY <1>2, <1>4 DEF TrailingSlash
<1>5. CASE s # <<>> /\ s # <<"/">>
  <2>1. \E i \in 1 .. Len(s) : s[i] # "/"
    <3> SUFFICES ASSUME \A i \in 1 .. Len(s) : s[i] = "/" PROVE FALSE
      OBVIOUS
    <3>1. Len(s) > 0 /\ s[1] = "/"
      BY <1>1, <1>5
    <3>2. 1 \in Starts(s)
      BY <1>1, <3>1, FirstStart
    <3>3. \A i, j \in Starts(s) : i = j
      BY <1>1, StartsAre DEF Plain
    <3>4. 2 \in Starts(s) \/ 1 = Len(s)
      <4>1. s[1] # "%"
        BY <3>1
      <4>2. 1 + 1 \in Starts(s) \/ 1 = Len(s)
        BY <1>1, <3>2, <4>1, TidyStarts
      <4> QED  BY <4>2
    <3>5. Len(s) = 1
      BY <3>2, <3>3, <3>4
    <3>6. s = <<"/">>
      BY <1>1, <3>1, <3>5
    <3> QED  BY <1>5, <3>6
  <2> DEFINE p == Stripped(s)
  <2>2. PICK k \in 0 .. Len(s) :
              /\ p \in Seq(Chars) /\ Len(p) = k
              /\ \A i \in 1 .. k : p[i] = s[i]
              /\ k > 0 => s[k] # "/"
              /\ \A i \in k + 1 .. Len(s) : s[i] = "/"
    BY <1>1, StrippedIs
  <2> HIDE DEF p
  <2>3. Tidy(p, Settled) /\ Resource(p) = Resource(s)
    BY <1>1, <2>2, StrippedKeeps
  <2>4. k > 0
    BY <1>1, <2>1, <2>2
  <2>5. Len(p) > 0 /\ p[Len(p)] # "/"
    BY <2>2, <2>4
  <2>6. TrailingSlash(s) = p
    BY <1>5 DEF TrailingSlash, p
  <2> QED  BY <2>2, <2>3, <2>5, <2>6 DEF NormalPath
<1> QED  BY <1>3, <1>4, <1>5

\* A later character has a higher number.
LEMMA Rank ==
    ASSUME NEW s \in Seq(Chars), NEW i \in Starts(s), NEW j \in Starts(s), i < j
    PROVE  Cardinality(Before(s, i)) < Cardinality(Before(s, j))
<1>1. i \in 1 .. Len(s) /\ j \in 1 .. Len(s) /\ \A l \in Starts(s) : l \in Nat
  BY StartsAre
<1>2. /\ IsFiniteSet(Before(s, j)) /\ Cardinality(Before(s, j)) \in Nat
      /\ Cardinality(Before(s, i)) \in Nat
  BY <1>1, BeforeFinite
<1>3. Before(s, i) \in SUBSET Before(s, j) /\ i \in Before(s, j) /\ i \notin Before(s, i)
  <2>1. i \in Nat /\ j \in Nat /\ ~(i < i) /\ \A l \in Starts(s) : l < i => l < j
    BY <1>1
  <2> QED  BY <2>1 DEF Before
<1>4. /\ Cardinality(Before(s, i)) <= Cardinality(Before(s, j))
      /\ Cardinality(Before(s, j)) = Cardinality(Before(s, i)) => Before(s, j) = Before(s, i)
  BY <1>2, <1>3, FS_Subset
<1> QED  BY <1>2, <1>3, <1>4

\* A character but the first comes after one, by its length.
LEMMA StartBefore ==
    ASSUME NEW s \in Seq(Chars), Tidy(s, Pairs), NEW n \in Starts(s), n # 1
    PROVE  \E b \in Starts(s) : n = IF s[b] = "%" THEN b + 3 ELSE b + 1
<1>1. n \in 1 .. Len(s) /\ n - 1 \in 1 .. Len(s) /\ Len(s) \in Nat
  <2>1. n \in 1 .. Len(s) /\ Len(s) \in Nat
    BY StartsAre
  <2> QED  BY <2>1
<1>2. \A j \in 1 .. Len(s) : s[j] = "%" => n # j + 1 /\ n # j + 2
  BY StartsAre
<1>3. CASE n - 1 \in Starts(s)
  <2>1. s[n - 1] # "%" /\ n = (n - 1) + 1
    BY <1>1, <1>2
  <2> QED  BY <1>3, <2>1
<1>4. CASE n - 1 \notin Starts(s)
  <2>1. PICK b \in Starts(s) : s[b] = "%" /\ (n - 1 = b + 1 \/ n - 1 = b + 2)
    BY <1>1, <1>4, TidyStarts
  <2>2. b \in 1 .. Len(s)
    BY StartsAre
  <2>3. n # b + 2
    BY <1>2, <2>1, <2>2
  <2>4. n = b + 3
    BY <1>1, <2>1, <2>2, <2>3
  <2> QED  BY <2>1, <2>4
<1> QED  BY <1>3, <1>4

\* A character that is not encoded is shown as one, one that is as two.
LEMMA SettledChar ==
    ASSUME NEW s \in Seq(Chars), Tidy(s, Settled), NEW i \in Starts(s)
    PROVE  IF s[i] = "%"
           THEN /\ i + 1 \in 1 .. Len(s) /\ i + 2 \in 1 .. Len(s)
                /\ Char(s, i) = <<s[i + 1], s[i + 2]>>
           ELSE Char(s, i) = <<s[i]>>
<1>1. i \in 1 .. Len(s) /\ Len(s) \in Nat
  BY StartsAre
<1>2. CASE s[i] = "%"
  <2>1. Triplet(s, i) /\ <<s[i + 1], s[i + 2]>> \in Settled
    BY <1>1, <1>2 DEF Tidy
  <2>2. /\ ~IsUnreserved(s[i + 1], s[i + 2])
        /\ Upper(s[i + 1]) = s[i + 1] /\ Upper(s[i + 2]) = s[i + 2]
    BY <2>1 DEF Settled
  <2>3. i + 2 \in 1 .. Len(s) /\ i + 1 \in 1 .. Len(s)
    BY <1>1, <2>1 DEF Triplet
  <2> QED  BY <1>2, <2>2, <2>3 DEF Char
<1>3. CASE s[i] # "%"
  BY <1>3 DEF Char
<1> QED  BY <1>2, <1>3

\* So in settled paths equal characters are spelled alike.
LEMMA CharTells ==
    ASSUME NEW p \in Seq(Chars), Tidy(p, Settled), NEW i \in Starts(p),
           NEW q \in Seq(Chars), Tidy(q, Settled), i \in Starts(q), Char(p, i) = Char(q, i)
    PROVE  /\ p[i] = q[i]
           /\ p[i] = "%" => /\ i + 1 \in 1 .. Len(q) /\ i + 2 \in 1 .. Len(q)
                            /\ p[i + 1] = q[i + 1] /\ p[i + 2] = q[i + 2]
<1>1. \A a, b, c : <<a>> # <<b, c>>
  OBVIOUS
<1>2. \A a, b : <<a>> = <<b>> => a = b
  OBVIOUS
<1>3. \A a, b, c, d : <<a, b>> = <<c, d>> => a = c /\ b = d
  OBVIOUS
<1>4. CASE p[i] = "%" /\ q[i] = "%"
  <2>1. /\ i + 1 \in 1 .. Len(q) /\ i + 2 \in 1 .. Len(q)
        /\ <<p[i + 1], p[i + 2]>> = <<q[i + 1], q[i + 2]>>
    BY <1>4, SettledChar
  <2> QED  BY <1>3, <1>4, <2>1, Zenon
<1>5. CASE p[i] # "%" /\ q[i] # "%"
  <2>1. <<p[i]>> = <<q[i]>>
    BY <1>5, SettledChar
  <2> QED  BY <1>2, <1>5, <2>1, Zenon
<1>6. CASE p[i] = "%" /\ q[i] # "%"
  <2>1. <<q[i]>> = <<p[i + 1], p[i + 2]>>
    BY <1>6, SettledChar
  <2> QED  BY <1>1, <2>1, Zenon
<1>7. CASE p[i] # "%" /\ q[i] = "%"
  <2>1. <<p[i]>> = <<q[i + 1], q[i + 2]>>
    BY <1>7, SettledChar
  <2> QED  BY <1>1, <2>1, Zenon
<1> QED  BY <1>4, <1>5, <1>6, <1>7

\* What a resource has of a character.
Entry(s, i) == <<Cardinality(Before(s, i)), Char(s, i)>>

\* p and q have the same places and values of characters.
SameEntries(p, q) == {Entry(p, i) : i \in Starts(p)} = {Entry(q, i) : i \in Starts(q)}

\* They have the same at n.
SameAt(p, q, n) ==
    /\ n \in Starts(p) <=> n \in Starts(q)
    /\ n \in Starts(p) => Char(p, n) = Char(q, n)

\* Two paths that have the same entries and have begun alike go on alike.
LEMMA EntryNext ==
    ASSUME NEW p \in Seq(Chars), Tidy(p, Settled), NEW q \in Seq(Chars), Tidy(q, Settled),
           SameEntries(p, q), NEW n \in Starts(p), \A m \in Nat : m < n => SameAt(p, q, m)
    PROVE  n \in Starts(q) /\ Char(p, n) = Char(q, n)
<1>1. /\ \A i \in Starts(p) : i \in Nat /\ i \in 1 .. Len(p) + 1
      /\ \A i \in Starts(q) : i \in Nat /\ i \in 1 .. Len(q) + 1 /\ i \in 1 .. Len(q)
  BY StartsAre
<1>2. Before(p, n) = Before(q, n)
  BY <1>1 DEF Before, SameAt
<1>3. PICK i \in Starts(q) : Entry(q, i) = Entry(p, n)
  BY DEF SameEntries
<1>4. Cardinality(Before(q, i)) = Cardinality(Before(p, n)) /\ Char(q, i) = Char(p, n)
  BY <1>3 DEF Entry
<1>5. /\ Cardinality(Before(q, i)) \in Nat /\ n \in Nat /\ i \in Nat
  BY <1>1, BeforeFinite
<1>6. ~(i < n)
  <2> SUFFICES ASSUME i < n PROVE FALSE
    OBVIOUS
  <2>1. i \in Starts(p)
    BY <1>5 DEF SameAt
  <2>2. \A j \in Nat : j < i => j < n
    BY <1>5
  <2>3. Before(p, i) = Before(q, i)
    BY <1>1, <2>2 DEF Before, SameAt
  <2>4. Cardinality(Before(p, i)) < Cardinality(Before(p, n))
    BY <2>1, Rank
  <2> QED  BY <1>4, <1>5, <2>3, <2>4
<1>7. n \in Starts(q)
  <2>1. CASE n = 1
    <3>1. Len(q) > 0
      BY <1>1
    <3> QED  BY <2>1, <3>1, FirstStart
  <2>2. CASE n # 1
    <3>1. Tidy(p, Pairs) /\ Tidy(q, Pairs)
      BY TidyMore
    <3>2. PICK b \in Starts(p) : n = IF p[b] = "%" THEN b + 3 ELSE b + 1
      BY <2>2, <3>1, StartBefore
    <3>3. b \in Nat /\ b < n
      BY <1>1, <3>2
    <3>4. b \in Starts(q) /\ Char(p, b) = Char(q, b)
      BY <3>3 DEF SameAt
    <3>5. p[b] = q[b]
      BY <3>4, CharTells
    <3>6. i <= Len(q) /\ Len(q) \in Nat
      BY <1>1
    <3>7. CASE p[b] = "%"
      <4>1. b + 2 # Len(q) /\ b + 3 = n
        BY <1>5, <1>6, <3>2, <3>3, <3>6, <3>7
      <4> QED  BY <3>1, <3>4, <3>5, <3>7, <4>1, TidyStarts
    <3>8. CASE p[b] # "%"
      <4>1. b # Len(q) /\ b + 1 = n
        BY <1>5, <1>6, <3>2, <3>3, <3>6, <3>8
      <4> QED  BY <3>1, <3>4, <3>5, <3>8, <4>1, TidyStarts
    <3> QED  BY <3>7, <3>8
  <2> QED  BY <2>1, <2>2
<1>8. ~(n < i)
  <2> SUFFICES ASSUME n < i PROVE FALSE
    OBVIOUS
  <2>1. Cardinality(Before(q, n)) < Cardinality(Before(q, i))
    BY <1>7, Rank
  <2> QED  BY <1>2, <1>4, <1>5, <2>1
<1>9. i = n
  BY <1>5, <1>6, <1>8
<1> QED  BY <1>4, <1>7, <1>9

\* So they are the same from the first place to the last.
LEMMA EntriesTell ==
    ASSUME NEW p \in Seq(Chars), Tidy(p, Settled), NEW q \in Seq(Chars), Tidy(q, Settled),
           SameEntries(p, q)
    PROVE  p = q
<1> DEFINE S == {n \in Nat : SameAt(p, q, n)}
<1>1. ASSUME NEW n \in Nat, \A m \in Nat : m < n => m \in S PROVE n \in S
  <2>1. \A m \in Nat : m < n => SameAt(p, q, m) /\ SameAt(q, p, m)
    BY <1>1 DEF SameAt
  <2>2. SameEntries(q, p)
    BY DEF SameEntries
  <2> HIDE DEF S
  <2>3. n \in Starts(p) => n \in Starts(q) /\ Char(p, n) = Char(q, n)
    BY <2>1, EntryNext
  <2>4. n \in Starts(q) => n \in Starts(p) /\ Char(q, n) = Char(p, n)
    BY <2>1, <2>2, EntryNext
  <2>5. SameAt(p, q, n)
    BY <2>3, <2>4 DEF SameAt
  <2> QED  BY <2>5 DEF S
<1>2. \A n \in Nat : n \in S
  <2> HIDE DEF S
  <2> QED  BY <1>1, StrongInduction
<1>3. \A n \in Nat : SameAt(p, q, n) /\ SameAt(q, p, n)
  BY <1>2 DEF SameAt
<1>4. ASSUME NEW v \in Seq(Chars), Tidy(v, Settled), NEW w \in Seq(Chars), Tidy(w, Settled),
             \A n \in Nat : SameAt(v, w, n), NEW i \in 1 .. Len(v)
      PROVE  i \in 1 .. Len(w) /\ v[i] = w[i]
  <2>1. /\ \A j \in Starts(v) : j \in Nat
        /\ \A j \in Starts(w) : j \in 1 .. Len(w)
    BY StartsAre
  <2>2. \A j \in Starts(v) : j \in Starts(w) /\ Char(v, j) = Char(w, j)
    BY <1>4, <2>1 DEF SameAt
  <2>3. CASE i \in Starts(v)
    BY <1>4, <2>1, <2>2, <2>3, CharTells
  <2>4. CASE i \notin Starts(v)
    <3>1. PICK j \in Starts(v) : v[j] = "%" /\ (i = j + 1 \/ i = j + 2)
      BY <1>4, <2>4, TidyMore, TidyStarts
    <3>2. /\ j + 1 \in 1 .. Len(w) /\ j + 2 \in 1 .. Len(w)
          /\ v[j + 1] = w[j + 1] /\ v[j + 2] = w[j + 2]
      BY <1>4, <2>2, <3>1, CharTells
    <3> QED  BY <3>1, <3>2
  <2> QED  BY <2>3, <2>4
<1>5. /\ \A i \in 1 .. Len(p) : i \in 1 .. Len(q) /\ p[i] = q[i]
      /\ \A i \in 1 .. Len(q) : i \in 1 .. Len(p)
  BY <1>3, <1>4
<1>6. Len(p) \in Nat /\ Len(q) \in Nat
  OBVIOUS
<1>7. Len(p) = Len(q)
  BY <1>5, <1>6
<1> QED  BY <1>5, <1>7

\* Two paths that TrailingSlashStep has left and that have the same characters at
\* the same places are one path.
THEOREM ResourceTells ==
    ASSUME NEW p, NormalPath(p), NEW q, NormalPath(q), Resource(p) = Resource(q)
    PROVE  p = q
<1> DEFINE Root == <<"/">>
<1>1. ASSUME NEW s, NormalPath(s), s # Root
      PROVE  /\ \A i : i \in Showing(s) <=> i \in Starts(s)
             /\ 1 \in Starts(s)
  <2>1. s \in Seq(Chars) /\ Tidy(s, Pairs) /\ Len(s) > 0 /\ s[Len(s)] # "/"
    BY <1>1, TidyMore DEF NormalPath
  <2>2. \A i \in Starts(s) : i <= Len(s)
    BY <2>1, StartsAre
  <2>3. Len(s) \in 0 .. Len(s) /\ \A i \in Len(s) + 1 .. Len(s) : s[i] = "/"
    BY <2>1
  <2> QED  BY <2>1, <2>2, <2>3, ShowingIs, FirstStart
<1>2. Showing(Root) = {}
  <2>1. \A j \in Starts(Root) : Root[j] = "/"
    BY DEF Starts
  <2> QED  BY <2>1 DEF Showing
<1> HIDE DEF Root
<1>3. /\ Resource(p) = {Entry(p, i) : i \in Showing(p)}
      /\ Resource(q) = {Entry(q, i) : i \in Showing(q)}
  BY ResourceIs, Zenon DEF Entry
<1>4. Showing(p) = {} <=> Showing(q) = {}
  BY <1>3
<1>5. CASE p = Root \/ q = Root
  BY <1>1, <1>2, <1>4, <1>5
<1>6. CASE p # Root /\ q # Root
  <2>1. SameEntries(p, q)
    BY <1>1, <1>3, <1>6 DEF SameEntries
  <2> QED  BY <2>1, EntriesTell DEF NormalPath
<1> QED  BY <1>5, <1>6

-----------------------------------------------------------------------------
(* The query.                                                              *)

\* The pairs of a query.
Query == Seq(Nat \X Nat)

\* How often q has x.
Times(q, x) == Cardinality({i \in 1 .. Len(q) : q[i] = x})

\* As sorted() returns them.
InOrder(q) == \A i, j \in 1 .. Len(q) : i < j => NotAfter(q[i], q[j])

\* f puts the places of q in order.
Ordering(q, f) ==
    /\ f \in [1 .. Len(q) -> 1 .. Len(q)]
    /\ \A i, j \in 1 .. Len(q) : i < j => f[i] # f[j] /\ NotAfter(q[f[i]], q[f[j]])

\* Pairs are ordered.
LEMMA NotAfterOrders ==
    /\ \A x, y \in Nat \X Nat : NotAfter(x, y) \/ NotAfter(y, x)
    /\ \A x, y \in Nat \X Nat : NotAfter(x, y) /\ NotAfter(y, x) => x = y
    /\ \A x, y, z \in Nat \X Nat : NotAfter(x, y) /\ NotAfter(y, z) => NotAfter(x, z)
<1>1. \A x, y \in Nat \X Nat : NotAfter(x, y) \/ NotAfter(y, x)
  BY DEF NotAfter
<1>2. ASSUME NEW x \in Nat \X Nat, NEW y \in Nat \X Nat, NotAfter(x, y), NotAfter(y, x)
      PROVE  x = y
  <2>1. x[1] = y[1] /\ x[2] = y[2]
    BY <1>2 DEF NotAfter
  <2> QED  BY <2>1
<1>3. \A x, y, z \in Nat \X Nat : NotAfter(x, y) /\ NotAfter(y, z) => NotAfter(x, z)
  BY DEF NotAfter
<1> QED  BY <1>1, <1>2, <1>3

\* Before i in the order, of equals the first.
Earlier(q, j, i) ==
    NotAfter(q[j], q[i]) /\ (NotAfter(q[i], q[j]) => j < i)

\* The places before i in the order.
Preceding(q, i) == {j \in 1 .. Len(q) : Earlier(q, j, i)}

\* Places are ordered, no two alike.
LEMMA EarlierOrders ==
    ASSUME NEW q \in Query
    PROVE  /\ \A i \in 1 .. Len(q) : ~Earlier(q, i, i)
           /\ \A i, j \in 1 .. Len(q) : i # j => Earlier(q, i, j) \/ Earlier(q, j, i)
           /\ \A i, j, k \in 1 .. Len(q) :
                 Earlier(q, i, j) /\ Earlier(q, j, k) => Earlier(q, i, k)
<1>1. Len(q) \in Nat /\ \A i \in 1 .. Len(q) : q[i] \in Nat \X Nat /\ i \in Nat
  BY DEF Query
<1>2. \A i \in 1 .. Len(q) : ~Earlier(q, i, i)
  BY <1>1, NotAfterOrders DEF Earlier
<1>3. \A i, j \in 1 .. Len(q) : i # j => Earlier(q, i, j) \/ Earlier(q, j, i)
  BY <1>1, NotAfterOrders DEF Earlier
<1>4. ASSUME NEW i \in 1 .. Len(q), NEW j \in 1 .. Len(q), NEW k \in 1 .. Len(q),
             Earlier(q, i, j), Earlier(q, j, k)
      PROVE  Earlier(q, i, k)
  <2>1. i \in Nat /\ j \in Nat /\ k \in Nat
    BY <1>1
  <2>2. NotAfter(q[i], q[k])
    BY <1>1, <1>4, NotAfterOrders DEF Earlier
  <2>3. NotAfter(q[k], q[i]) => NotAfter(q[j], q[i]) /\ NotAfter(q[k], q[j])
    BY <1>1, <1>4, NotAfterOrders DEF Earlier
  <2>4. NotAfter(q[k], q[i]) => i < j /\ j < k
    BY <1>4, <2>3 DEF Earlier
  <2> QED  BY <2>1, <2>2, <2>4 DEF Earlier
<1> QED  BY <1>2, <1>3, <1>4

\* What is earlier has fewer before it.
LEMMA PrecedingGrows ==
    ASSUME NEW q \in Query, NEW i \in 1 .. Len(q), NEW j \in 1 .. Len(q), Earlier(q, i, j)
    PROVE  Cardinality(Preceding(q, i)) < Cardinality(Preceding(q, j))
<1>1. /\ Preceding(q, i) \in SUBSET (1 .. Len(q)) /\ Preceding(q, j) \in SUBSET (1 .. Len(q))
      /\ Preceding(q, i) \in SUBSET Preceding(q, j)
      /\ i \in Preceding(q, j) /\ i \notin Preceding(q, i)
  BY EarlierOrders DEF Preceding
<1>2. Len(q) \in Nat
  BY DEF Query
<1>3. IsFiniteSet(1 .. Len(q))
  BY <1>2, FS_Interval
<1>4. /\ IsFiniteSet(Preceding(q, j)) /\ Cardinality(Preceding(q, j)) \in Nat
      /\ Cardinality(Preceding(q, i)) \in Nat
  BY <1>1, <1>3, FS_Subset, FS_CardinalityType
<1>5. /\ Cardinality(Preceding(q, i)) <= Cardinality(Preceding(q, j))
      /\ Cardinality(Preceding(q, j)) = Cardinality(Preceding(q, i))
            => Preceding(q, j) = Preceding(q, i)
  BY <1>1, <1>4, FS_Subset
<1> QED  BY <1>1, <1>4, <1>5

\* Every query can be sorted: the place with n others before it goes to n + 1.  The
\* CHOOSE of Sorted has something to choose.
LEMMA OrderingExists ==
    ASSUME NEW q \in Query
    PROVE  \E f : Ordering(q, f)
<1> DEFINE D == 1 .. Len(q)
           g == [i \in D |-> Cardinality(Preceding(q, i)) + 1]
<1>1. Len(q) \in Nat
  BY DEF Query
<1>2. IsFiniteSet(D) /\ Cardinality(D) = Len(q)
  BY <1>1, FS_Interval
<1>3. ASSUME NEW i \in D PROVE Cardinality(Preceding(q, i)) + 1 \in D
  <2>1. Preceding(q, i) \in SUBSET D /\ i \notin Preceding(q, i)
    BY EarlierOrders DEF Preceding
  <2> HIDE DEF D
  <2>2. /\ Cardinality(Preceding(q, i)) \in Nat /\ Cardinality(Preceding(q, i)) <= Cardinality(D)
        /\ Cardinality(Preceding(q, i)) # Cardinality(D)
    BY <1>2, <2>1, FS_Subset, FS_CardinalityType
  <2> QED  BY <1>1, <1>2, <2>2 DEF D
<1>4. g \in [D -> D] /\ \A i \in D : g[i] = Cardinality(Preceding(q, i)) + 1
  BY <1>3
<1> HIDE DEF g
<1>5. ASSUME NEW i \in D, NEW j \in D, Earlier(q, i, j) PROVE g[i] < g[j]
  <2>1. Cardinality(Preceding(q, i)) < Cardinality(Preceding(q, j))
    BY <1>5, PrecedingGrows
  <2>2. g[i] \in Nat /\ g[j] \in Nat
    BY <1>4
  <2>3. /\ g[i] = Cardinality(Preceding(q, i)) + 1 /\ g[j] = Cardinality(Preceding(q, j)) + 1
        /\ Cardinality(Preceding(q, i)) \in Nat /\ Cardinality(Preceding(q, j)) \in Nat
    <3>1. Preceding(q, i) \in SUBSET D /\ Preceding(q, j) \in SUBSET D
      BY DEF Preceding
    <3> HIDE DEF D
    <3> QED  BY <1>2, <1>4, <3>1, FS_Subset, FS_CardinalityType
  <2> QED  BY <2>1, <2>3
<1>6. \A i, j \in D : g[i] = g[j] => i = j
  <2> SUFFICES ASSUME NEW i \in D, NEW j \in D, i # j PROVE g[i] # g[j]
    OBVIOUS
  <2>1. g[i] \in Nat /\ g[j] \in Nat
    BY <1>4
  <2>2. g[i] < g[j] \/ g[j] < g[i]
    BY <1>5, EarlierOrders
  <2> QED  BY <2>1, <2>2
<1>7. \A k \in D : \E i \in D : g[i] = k
  <2> HIDE DEF D
  <2>1. g \in Injection(D, D)
    BY <1>4, <1>6, Fun_IsInj
  <2>2. g \in Surjection(D, D)
    BY <1>2, <2>1, FS_Injection
  <2> QED  BY <2>2, Fun_SurjectionProperties
<1> DEFINE f == [k \in D |-> CHOOSE i \in D : g[i] = k]
<1>8. f \in [D -> D] /\ \A k \in D : g[f[k]] = k
  BY <1>7
<1> HIDE DEF f
<1>9. ASSUME NEW i \in D, NEW j \in D, i < j
      PROVE  f[i] # f[j] /\ NotAfter(q[f[i]], q[f[j]])
  <2>1. i # j /\ ~(j < i)
    BY <1>1, <1>9
  <2>2. f[i] # f[j] /\ f[i] \in D /\ f[j] \in D
    BY <1>8, <2>1
  <2>3. ~Earlier(q, f[j], f[i])
    BY <1>5, <1>8, <2>1, <2>2
  <2>4. Earlier(q, f[i], f[j])
    BY <2>2, <2>3, EarlierOrders
  <2> QED  BY <2>2, <2>4 DEF Earlier
<1>10. Ordering(q, f)
  BY <1>8, <1>9 DEF Ordering
<1> QED  BY <1>10

\* The pairs there are, as often as they are there, in order.
LEMMA SortQuery ==
    ASSUME NEW q \in Query
    PROVE  /\ Sorted(q) \in Query /\ InOrder(Sorted(q))
           /\ \A x : Times(Sorted(q), x) = Times(q, x)
           /\ \A i \in 1 .. Len(Sorted(q)) : \E j \in 1 .. Len(q) : Sorted(q)[i] = q[j]
<1> DEFINE D == 1 .. Len(q)
           f == CHOOSE g : Ordering(q, g)
           t == [i \in D |-> q[f[i]]]
<1>1. Len(q) \in Nat /\ DOMAIN q = D /\ \A i \in D : q[i] \in Nat \X Nat
  BY DEF Query
<1>2. Ordering(q, f)
  BY OrderingExists
<1>3. Sorted(q) = t
  <2>1. (CHOOSE g \in [D -> D] :
              \A i, j \in D : i < j => g[i] # g[j] /\ NotAfter(q[g[i]], q[g[j]])) = f
    BY DEF Ordering
  <2>2. Sorted(q) =
           [i \in DOMAIN q |->
              q[(CHOOSE g \in [DOMAIN q -> DOMAIN q] :
                    \A j, k \in DOMAIN q :
                       j < k => g[j] # g[k] /\ NotAfter(q[g[j]], q[g[k]]))[i]]]
    BY Zenon DEF Sorted
  <2>3. DOMAIN q = D
    BY <1>1
  <2> HIDE DEF f, D
  <2> QED  BY <2>1, <2>2, <2>3, Zenon
<1> HIDE DEF f
<1>4. /\ f \in [D -> D]
      /\ \A i, j \in D : i < j => f[i] # f[j] /\ NotAfter(q[f[i]], q[f[j]])
  BY <1>2 DEF Ordering
<1>5. t \in Query /\ Len(t) = Len(q) /\ \A i \in D : t[i] = q[f[i]]
  <2>1. \A i \in D : q[f[i]] \in Nat \X Nat
    BY <1>1, <1>4
  <2> QED  BY <1>1, <2>1 DEF Query
<1> HIDE DEF t
<1>6. InOrder(t)
  BY <1>4, <1>5 DEF InOrder
<1>7. \A i, j \in D : f[i] = f[j] => i = j
  <2> SUFFICES ASSUME NEW i \in D, NEW j \in D, i # j PROVE f[i] # f[j]
    OBVIOUS
  <2>1. i < j \/ j < i
    BY <1>1
  <2> QED  BY <1>4, <2>1
<1>8. IsFiniteSet(D)
  BY <1>1, FS_Interval
<1>9. \A k \in D : \E i \in D : f[i] = k
  <2> HIDE DEF D
  <2>1. f \in Injection(D, D)
    BY <1>4, <1>7, Fun_IsInj
  <2>2. f \in Surjection(D, D)
    BY <1>8, <2>1, FS_Injection
  <2> QED  BY <2>2, Fun_SurjectionProperties
<1>10. ASSUME NEW x PROVE Times(t, x) = Times(q, x)
  <2> DEFINE S == {i \in D : t[i] = x}
             T == {i \in D : q[i] = x}
             h == [i \in S |-> f[i]]
  <2>1. IsFiniteSet(S)
    <3>1. S \in SUBSET D
      OBVIOUS
    <3> HIDE DEF S, D
    <3> QED  BY <1>8, <3>1, FS_Subset
  <2>2. h \in [S -> T] /\ \A i \in S : h[i] = f[i] /\ i \in D
    BY <1>4, <1>5
  <2>3. \A a, b \in S : h[a] = h[b] => a = b
    BY <1>7, <2>2
  <2>4. \A b \in T : \E a \in S : h[a] = b
    <3> SUFFICES ASSUME NEW b \in T PROVE \E a \in S : h[a] = b
      OBVIOUS
    <3>1. PICK a \in D : f[a] = b
      BY <1>9
    <3>2. a \in S
      BY <1>5, <3>1
    <3> QED  BY <2>2, <3>1, <3>2
  <2>5. Times(t, x) = Cardinality(S) /\ Times(q, x) = Cardinality(T)
    BY <1>5 DEF Times
  <2> HIDE DEF h, S, T
  <2>6. h \in Bijection(S, T)
    BY <2>2, <2>3, <2>4, Fun_IsBij
  <2>7. Cardinality(T) = Cardinality(S)
    BY <2>1, <2>6, Fun_ExistsBij, FS_Bijection
  <2> QED  BY <2>5, <2>7
<1>11. \A i \in 1 .. Len(t) : \E j \in 1 .. Len(q) : t[i] = q[j]
  BY <1>4, <1>5
<1> QED  BY <1>3, <1>5, <1>6, <1>10, <1>11

\* Two sequences in order with the same prefix: the one that has another pair may
\* not have it any earlier.
LEMMA NextInOrder ==
    ASSUME NEW t \in Query, InOrder(t), NEW v \in Query, InOrder(v),
           \A x : Times(t, x) = Times(v, x), NEW n \in 1 .. Len(t),
           \A m \in 1 .. n - 1 : m \in 1 .. Len(v) /\ t[m] = v[m]
    PROVE  n \in 1 .. Len(v) /\ NotAfter(v[n], t[n])
<1>1. Len(t) \in Nat /\ Len(v) \in Nat
  BY DEF Query
<1>2. /\ \A i \in 1 .. Len(t) : t[i] \in Nat \X Nat
      /\ \A i \in 1 .. Len(v) : v[i] \in Nat \X Nat
  BY DEF Query
<1> SUFFICES ASSUME ~(n \in 1 .. Len(v) /\ NotAfter(v[n], t[n])) PROVE FALSE
  OBVIOUS
<1> DEFINE x == t[n]
           S == {i \in 1 .. Len(t) : t[i] = x}
           T == {i \in 1 .. Len(v) : v[i] = x}
<1>3. ASSUME NEW i \in T PROVE i \in S /\ i # n
  <2>1. i \in 1 .. Len(v) /\ v[i] = x
    OBVIOUS
  <2>2. CASE i < n
    BY <1>1, <2>1, <2>2
  <2>3. CASE ~(i < n)
    <3>1. n \in 1 .. Len(v)
      BY <1>1, <2>1, <2>3
    <3>2. NotAfter(v[n], v[i])
      BY <1>1, <1>2, <2>1, <2>3, <3>1, NotAfterOrders DEF InOrder
    <3> QED  BY <2>1, <3>1, <3>2
  <2> QED  BY <2>2, <2>3
<1>4. n \in S /\ T \in SUBSET S /\ n \notin T /\ S \in SUBSET (1 .. Len(t))
  BY <1>3
<1>5. Cardinality(S) = Cardinality(T)
  BY DEF Times
<1>6. IsFiniteSet(1 .. Len(t))
  BY <1>1, FS_Interval
<1> HIDE DEF S, T
<1>7. S = T
  BY <1>4, <1>5, <1>6, FS_Subset
<1> QED  BY <1>4, <1>7

\* So sequences in order that have the same pairs as often are the same.
LEMMA OrderTells ==
    ASSUME NEW t \in Query, InOrder(t), NEW v \in Query, InOrder(v),
           \A x : Times(t, x) = Times(v, x)
    PROVE  t = v
<1> DEFINE Agree(n) == /\ n \in 1 .. Len(t) <=> n \in 1 .. Len(v)
                       /\ n \in 1 .. Len(t) => t[n] = v[n]
           S == {n \in Nat : Agree(n)}
<1>1. Len(t) \in Nat /\ Len(v) \in Nat
  BY DEF Query
<1>2. /\ \A i \in 1 .. Len(t) : t[i] \in Nat \X Nat
      /\ \A i \in 1 .. Len(v) : v[i] \in Nat \X Nat
  BY DEF Query
<1>3. ASSUME NEW n \in Nat, \A m \in Nat : m < n => m \in S PROVE n \in S
  <2>1. \A m \in Nat : m < n => Agree(m)
    BY <1>3
  <2> HIDE DEF S
  <2>2. ASSUME n \in 1 .. Len(t)
        PROVE  n \in 1 .. Len(v) /\ NotAfter(v[n], t[n])
    <3>1. \A m \in 1 .. n - 1 : m \in 1 .. Len(v) /\ t[m] = v[m]
      BY <1>1, <2>1, <2>2
    <3> QED  BY <2>2, <3>1, NextInOrder
  <2>3. ASSUME n \in 1 .. Len(v)
        PROVE  n \in 1 .. Len(t) /\ NotAfter(t[n], v[n])
    <3>1. \A m \in 1 .. n - 1 : m \in 1 .. Len(t) /\ v[m] = t[m]
      BY <1>1, <2>1, <2>3
    <3> QED  BY <2>3, <3>1, NextInOrder
  <2>4. Agree(n)
    BY <1>2, <2>2, <2>3, NotAfterOrders
  <2> QED  BY <2>4 DEF S
<1>4. \A n \in Nat : n \in S
  <2> HIDE DEF S
  <2> QED  BY <1>3, StrongInduction
<1>5. \A n \in Nat : Agree(n)
  BY <1>4
<1>6. Len(t) = Len(v)
  BY <1>1, <1>5
<1>7. \A i \in 1 .. Len(t) : t[i] = v[i]
  BY <1>1, <1>5
<1>8. t \in Seq(Nat \X Nat) /\ v \in Seq(Nat \X Nat)
  BY DEF Query
<1> HIDE DEF Agree, S
<1> QED  BY <1>6, <1>7, <1>8, SeqEqual

\* Two of them come to one order exactly when they have the same pairs, each as often
\* as the other.
LEMMA SortedTells ==
    ASSUME NEW p \in Query, NEW q \in Query
    PROVE  Sorted(p) = Sorted(q) <=> \A x : Times(p, x) = Times(q, x)
<1>1. ASSUME \A x : Times(p, x) = Times(q, x)
      PROVE  Sorted(p) = Sorted(q)
  <2>1. \A x : Times(Sorted(p), x) = Times(Sorted(q), x)
    BY <1>1, SortQuery
  <2> QED  BY <2>1, SortQuery, OrderTells
<1>2. ASSUME Sorted(p) = Sorted(q), NEW x
      PROVE  Times(p, x) = Times(q, x)
  <2>1. Times(p, x) = Times(Sorted(p), x) /\ Times(q, x) = Times(Sorted(q), x)
    BY SortQuery
  <2> QED  BY <1>2, <2>1
<1> QED  BY <1>1, <1>2

-----------------------------------------------------------------------------
(* Queries, as spelled and as parsed.                                      *)

Spelled == Seq(Parts \X (Parts \cup {Null}))
Parsed  == Seq(Texts \X Texts)

LEMMA ParsedIsQuery ==
    ASSUME NEW t \in Parsed
    PROVE  /\ t \in Query /\ Len(t) \in Nat
           /\ \A i \in 1 .. Len(t) : t[i] \in Texts \X Texts
<1>1. \A i \in 1 .. Len(t) : t[i] \in Texts \X Texts
  BY DEF Parsed
<1>2. Texts \X Texts \in SUBSET (Nat \X Nat)
  BY QueryAssumption
<1>3. t \in Query
  BY <1>2 DEF Parsed, Query
<1> QED  BY <1>1, <1>3 DEF Query

\* What is parsed from place i on, f being what is from the later ones on.
RestParsed(q, f, i) ==
    IF i > Len(q) THEN <<>>
    ELSE IF q[i] = <<Blank, Null>> THEN f[i + 1]
    ELSE <<DecodedPair(q[i])>> \o f[i + 1]

\* There is a function as ParseQsl defines it, so its result is that function's.
LEMMA ParseUnfolds ==
    ASSUME NEW q \in Spelled
    PROVE  \E f : /\ f = [i \in 1 .. Len(q) + 1 |-> RestParsed(q, f, i)]
                  /\ ParseQsl(q) = f[1]
<1> DEFINE m == Len(q) + 1
           Upto(f, k) == f = [i \in 1 .. m |-> IF i >= k THEN RestParsed(q, f, i) ELSE <<>>]
           S == {k \in 1 .. m : \E f : Upto(f, k)}
<1>1. m \in Nat /\ Len(q) \in Nat
  BY DEF Spelled
<1>2. ASSUME NEW k \in 1 .. m, \A j \in k + 1 .. m : j \in S
      PROVE  k \in S
  <2>1. CASE k = m
    <3> DEFINE f == [i \in 1 .. m |-> <<>>]
    <3>1. RestParsed(q, f, m) = <<>>
      <4>1. m > Len(q)
        BY <1>1
      <4> HIDE DEF f, m
      <4> QED  BY <4>1 DEF RestParsed
    <3>2. \A i \in 1 .. m : i >= k => i = m
      BY <1>1, <2>1
    <3>3. Upto(f, k)
      BY <1>1, <3>1, <3>2, Zenon
    <3> HIDE DEF Upto, f
    <3> QED  BY <3>3
  <2>2. CASE k # m
    <3>1. k + 1 \in S /\ k + 1 \in 1 .. m
      <4>1. k + 1 \in k + 1 .. m /\ k + 1 \in 1 .. m
        BY <1>1, <2>2
      <4> HIDE DEF m, S
      <4> QED  BY <1>2, <4>1
    <3>2. PICK g : Upto(g, k + 1)
      BY <3>1
    <3> DEFINE f == [i \in 1 .. m |-> IF i = k THEN RestParsed(q, g, k) ELSE g[i]]
    <3>3. ASSUME NEW i \in 1 .. m, i >= k
          PROVE  RestParsed(q, f, i) = RestParsed(q, g, i)
      <4>1. CASE i > Len(q)
        BY <4>1 DEF RestParsed
      <4>2. CASE ~(i > Len(q))
        <5>1. i + 1 \in 1 .. m /\ i + 1 # k
          BY <1>1, <3>3, <4>2
        <5>2. f[i + 1] = g[i + 1]
          BY <5>1
        <5> HIDE DEF f
        <5> QED  BY <4>2, <5>2 DEF RestParsed
      <4> QED  BY <4>1, <4>2
    <3>4. ASSUME NEW i \in 1 .. m
          PROVE  f[i] = IF i >= k THEN RestParsed(q, f, i) ELSE <<>>
      <4>1. CASE i = k
        BY <4>1, <3>3
      <4>2. CASE i # k
        <5>1. f[i] = g[i] /\ (i >= k <=> i >= k + 1)
          BY <4>2, <1>1
        <5>2. g[i] = IF i >= k + 1 THEN RestParsed(q, g, i) ELSE <<>>
          BY <3>2
        <5> HIDE DEF f
        <5> QED  BY <5>1, <5>2, <3>3
      <4> QED  BY <4>1, <4>2
    <3>5. f = [i \in 1 .. m |-> f[i]]
      OBVIOUS
    <3> HIDE DEF f, m
    <3>6. Upto(f, k)
      BY <3>4, <3>5
    <3> HIDE DEF Upto
    <3> QED  BY <3>6
  <2> QED  BY <2>1, <2>2
<1>3. 1 \in S
  <2>1. 1 \in 1 .. m
    BY <1>1
  <2> HIDE DEF m, S
  <2> QED  BY <1>1, <1>2, <2>1, Downward
<1>4. PICK f : Upto(f, 1)
  BY <1>3
<1>5. f = [i \in 1 .. m |-> RestParsed(q, f, i)]
  BY <1>1, <1>4
<1> DEFINE g == CHOOSE h : h = [i \in 1 .. Len(q) + 1 |-> RestParsed(q, h, i)]
<1>6. g = [i \in 1 .. Len(q) + 1 |-> RestParsed(q, g, i)]
  BY <1>5
<1>7. ParseQsl(q) = g[1]
  BY DEF ParseQsl, RestParsed
<1> HIDE DEF g
<1> QED  BY <1>6, <1>7

\* A pair is decoded to a pair of texts.
LEMMA DecodedType ==
    ASSUME NEW x \in Parts \X (Parts \cup {Null})
    PROVE  DecodedPair(x) \in Texts \X Texts
<1>1. x[1] \in Parts /\ (IF x[2] = Null THEN Blank ELSE x[2]) \in Parts
  BY QueryAssumption
<1> QED  BY <1>1, QueryAssumption DEF DecodedPair, Decoded

\* Whatever the query, pairs of texts come out.
LEMMA ParseType ==
    ASSUME NEW q \in Spelled
    PROVE  ParseQsl(q) \in Parsed
<1>1. PICK f : /\ f = [i \in 1 .. Len(q) + 1 |-> RestParsed(q, f, i)]
               /\ ParseQsl(q) = f[1]
  BY ParseUnfolds
<1>2. Len(q) \in Nat /\ \A i \in 1 .. Len(q) : q[i] \in Parts \X (Parts \cup {Null})
  BY DEF Spelled
<1> DEFINE S == {i \in 1 .. Len(q) + 1 : f[i] \in Parsed}
<1>3. ASSUME NEW i \in 1 .. Len(q) + 1, \A j \in i + 1 .. Len(q) + 1 : j \in S
      PROVE  i \in S
  <2> SUFFICES f[i] \in Parsed
    OBVIOUS
  <2>1. f[i] = RestParsed(q, f, i)
    BY <1>1
  <2>2. CASE i > Len(q)
    <3>1. RestParsed(q, f, i) = <<>>
      BY <2>2, Zenon DEF RestParsed
    <3> QED  BY <2>1, <3>1 DEF Parsed
  <2>3. CASE ~(i > Len(q))
    <3>1. i + 1 \in i + 1 .. Len(q) + 1 /\ i \in 1 .. Len(q)
      BY <1>2, <2>3
    <3>2. f[i + 1] \in Parsed /\ DecodedPair(q[i]) \in Texts \X Texts
      BY <1>2, <1>3, <3>1, DecodedType
    <3>3. <<DecodedPair(q[i])>> \o f[i + 1] \in Parsed
      BY <3>2 DEF Parsed
    <3>4. RestParsed(q, f, i) \in {f[i + 1], <<DecodedPair(q[i])>> \o f[i + 1]}
      BY <2>3, Zenon DEF RestParsed
    <3> QED  BY <2>1, <3>2, <3>3, <3>4
  <2> QED  BY <2>2, <2>3
<1>4. 1 \in S
  <2>1. 1 \in 1 .. Len(q) + 1 /\ Len(q) + 1 \in Nat
    BY <1>2
  <2> HIDE DEF S
  <2> QED  BY <1>3, <2>1, Downward
<1> QED  BY <1>1, <1>4

\* A query whose pairs all have a value is decoded pair by pair.
LEMMA ParseEach ==
    ASSUME NEW q \in Spelled, \A i \in 1 .. Len(q) : q[i][2] # Null
    PROVE  /\ Len(ParseQsl(q)) = Len(q)
           /\ \A i \in 1 .. Len(q) : ParseQsl(q)[i] = DecodedPair(q[i])
<1>1. PICK f : /\ f = [i \in 1 .. Len(q) + 1 |-> RestParsed(q, f, i)]
               /\ ParseQsl(q) = f[1]
  BY ParseUnfolds
<1>2. Len(q) \in Nat /\ \A i \in 1 .. Len(q) : q[i] \in Parts \X (Parts \cup {Null})
  BY DEF Spelled
<1> DEFINE Each(i) == /\ f[i] \in Parsed /\ Len(f[i]) = Len(q) + 1 - i
                      /\ \A k \in 1 .. Len(q) + 1 - i : f[i][k] = DecodedPair(q[i + k - 1])
           S == {i \in 1 .. Len(q) + 1 : Each(i)}
<1>3. ASSUME NEW i \in 1 .. Len(q) + 1, \A j \in i + 1 .. Len(q) + 1 : j \in S
      PROVE  i \in S
  <2> SUFFICES Each(i)
    OBVIOUS
  <2>1. f[i] = RestParsed(q, f, i)
    BY <1>1
  <2>2. CASE i > Len(q)
    <3>1. f[i] = <<>>
      BY <2>1, <2>2, Zenon DEF RestParsed
    <3>2. Len(q) + 1 - i = 0
      BY <1>2, <2>2
    <3> QED  BY <3>1, <3>2 DEF Parsed
  <2>3. CASE ~(i > Len(q))
    <3>1. i + 1 \in i + 1 .. Len(q) + 1 /\ i \in 1 .. Len(q)
      BY <1>2, <2>3
    <3>2. Each(i + 1) /\ DecodedPair(q[i]) \in Texts \X Texts
      BY <1>2, <1>3, <3>1, DecodedType
    <3>3. q[i] # <<Blank, Null>>
      BY <3>1
    <3> DEFINE x == DecodedPair(q[i])
               t == f[i + 1]
    <3>4. f[i] = <<x>> \o t
      BY <2>1, <2>3, <3>3, Zenon DEF RestParsed
    <3>5. t \in Seq(Texts \X Texts) /\ Len(t) = Len(q) - i
      BY <1>2, <3>1, <3>2 DEF Parsed
    <3>6. \A k \in 1 .. Len(q) - i : t[k] = DecodedPair(q[i + k])
      <4> SUFFICES ASSUME NEW k \in 1 .. Len(q) - i PROVE t[k] = DecodedPair(q[i + k])
        OBVIOUS
      <4>1. k \in 1 .. Len(q) + 1 - (i + 1) /\ (i + 1) + k - 1 = i + k
        BY <1>2, <3>1
      <4> HIDE DEF t
      <4> QED  BY <3>2, <4>1 DEF t
    <3> HIDE DEF t, x
    <3>7. x \in Texts \X Texts
      BY <3>2 DEF x
    <3>8. f[i] \in Parsed /\ Len(f[i]) = Len(q) + 1 - i
      BY <1>2, <3>1, <3>4, <3>5, <3>7 DEF Parsed
    <3>9. ASSUME NEW k \in 1 .. Len(q) + 1 - i PROVE f[i][k] = DecodedPair(q[i + k - 1])
      <4>1. CASE k = 1
        <5>1. f[i][1] = x
          BY <3>4, <3>5, <3>7
        <5>2. i + 1 - 1 = i
          BY <3>1
        <5> QED  BY <4>1, <5>1, <5>2 DEF x
      <4>2. CASE k # 1
        <5>1. k - 1 \in 1 .. Len(q) - i /\ i + k - 1 = i + (k - 1)
          BY <1>2, <3>1, <4>2
        <5>2. f[i][k] = t[k - 1]
          BY <3>4, <3>5, <3>7, <5>1
        <5> QED  BY <3>6, <5>1, <5>2
      <4> QED  BY <4>1, <4>2
    <3> QED  BY <3>8, <3>9
  <2> QED  BY <2>2, <2>3
<1>4. 1 \in S
  <2>1. 1 \in 1 .. Len(q) + 1 /\ Len(q) + 1 \in Nat
    BY <1>2
  <2> HIDE DEF S
  <2> QED  BY <1>3, <2>1, Downward
<1>5. Each(1)
  BY <1>4
<1>6. Len(q) + 1 - 1 = Len(q) /\ \A k \in 1 .. Len(q) : 1 + k - 1 = k
  BY <1>2
<1> HIDE DEF Each
<1>7. Len(f[1]) = Len(q) /\ \A k \in 1 .. Len(q) : f[1][k] = DecodedPair(q[k])
  BY <1>5, <1>6 DEF Each
<1> QED  BY <1>1, <1>7

\* What urlencode has spelled is parsed to what it was given.
LEMMA ParseSpelled ==
    ASSUME NEW t \in Parsed
    PROVE  Urlencode(t) \in Spelled /\ ParseQsl(Urlencode(t)) = t
<1> DEFINE q == Urlencode(t)
<1>1. Len(t) \in Nat /\ \A i \in 1 .. Len(t) : t[i] \in Texts \X Texts
  BY ParsedIsQuery
<1>2. q = [i \in 1 .. Len(t) |-> <<Spell[t[i][1]], Spell[t[i][2]]>>]
  <2>1. DOMAIN t = 1 .. Len(t)
    BY DEF Parsed
  <2> QED  BY <2>1, Zenon DEF Urlencode
<1>3. \A i \in 1 .. Len(t) : <<Spell[t[i][1]], Spell[t[i][2]]>> \in Parts \X Parts
  BY <1>1, QueryAssumption
<1> HIDE DEF q
<1>4. /\ q \in Spelled /\ Len(q) = Len(t)
      /\ \A i \in 1 .. Len(t) : q[i] = <<Spell[t[i][1]], Spell[t[i][2]]>>
  BY <1>1, <1>2, <1>3 DEF Spelled
<1>5. ASSUME NEW i \in 1 .. Len(q) PROVE q[i][2] # Null
  <2>1. q[i] = <<Spell[t[i][1]], Spell[t[i][2]]>> /\ Spell[t[i][2]] \in Parts
    BY <1>3, <1>4
  <2> QED  BY <2>1, QueryAssumption
<1>6. Len(ParseQsl(q)) = Len(t) /\ \A i \in 1 .. Len(t) : ParseQsl(q)[i] = DecodedPair(q[i])
  BY <1>4, <1>5, ParseEach
<1>7. ASSUME NEW i \in 1 .. Len(t) PROVE ParseQsl(q)[i] = t[i]
  <2>1. /\ q[i][1] = Spell[t[i][1]] /\ q[i][2] = Spell[t[i][2]] /\ q[i][2] # Null
        /\ t[i][1] \in Texts /\ t[i][2] \in Texts /\ t[i] = <<t[i][1], t[i][2]>>
    BY <1>1, <1>4, <1>5
  <2>2. DecodedPair(q[i]) = <<Text[Octets[Spell[t[i][1]]]], Text[Octets[Spell[t[i][2]]]]>>
    BY <2>1 DEF DecodedPair, Decoded
  <2> QED  BY <1>6, <2>1, <2>2, QueryAssumption
<1>8. ParseQsl(q) \in Parsed
  BY <1>4, ParseType
<1>9. ParseQsl(q) = t
  BY <1>6, <1>7, <1>8, SeqEqual DEF Parsed
<1> QED  BY <1>4, <1>9 DEF q

\* Sorting what is parsed.
LEMMA SortParsed ==
    ASSUME NEW t \in Parsed
    PROVE  Sorted(t) \in Parsed
<1>1. t \in Query /\ \A i \in 1 .. Len(t) : t[i] \in Texts \X Texts
  BY ParsedIsQuery
<1> DEFINE v == Sorted(t)
<1>2. v \in Query /\ \A i \in 1 .. Len(v) : \E j \in 1 .. Len(t) : v[i] = t[j]
  BY <1>1, SortQuery
<1> HIDE DEF v
<1>3. \A i \in 1 .. Len(v) : v[i] \in Texts \X Texts
  BY <1>1, <1>2
<1>4. Len(v) \in Nat /\ v = [i \in 1 .. Len(v) |-> v[i]]
  BY <1>2 DEF Query
<1> QED  BY <1>3, <1>4 DEF Parsed, v

\* Two queries come to one exactly when they are parsed to the same pairs, each as
\* often: for every spelling, also those in which decoding has replaced something.
THEOREM SortTells ==
    ASSUME NEW p \in Spelled, NEW q \in Spelled
    PROVE  SortQueryParams(p) = SortQueryParams(q)
              <=> \A x : Times(ParseQsl(p), x) = Times(ParseQsl(q), x)
<1> DEFINE t == ParseQsl(p)
           v == ParseQsl(q)
<1>1. t \in Parsed /\ v \in Parsed
  BY ParseType
<1> HIDE DEF t, v
<1>2. Sorted(t) \in Parsed /\ Sorted(v) \in Parsed /\ t \in Query /\ v \in Query
  BY <1>1, SortParsed, ParsedIsQuery
<1>3. Urlencode(Sorted(t)) = Urlencode(Sorted(v)) <=> Sorted(t) = Sorted(v)
  BY <1>2, ParseSpelled
<1>4. Sorted(t) = Sorted(v) <=> \A x : Times(t, x) = Times(v, x)
  BY <1>2, SortedTells
<1> QED  BY <1>3, <1>4 DEF SortQueryParams, t, v

\* The step applied to what it returns changes nothing.
LEMMA SortTwice ==
    ASSUME NEW q \in Spelled
    PROVE  /\ SortQueryParams(q) \in Spelled
           /\ SortQueryParams(SortQueryParams(q)) = SortQueryParams(q)
<1> DEFINE t == Sorted(ParseQsl(q))
<1>1. t \in Parsed
  BY ParseType, SortParsed
<1>2. Sorted(t) = t
  <2>1. ParseQsl(q) \in Query
    BY ParseType, ParsedIsQuery
  <2> QED  BY <2>1, SortQuery, SortedTells
<1> HIDE DEF t
<1>3. Urlencode(t) \in Spelled /\ ParseQsl(Urlencode(t)) = t
  BY <1>1, ParseSpelled
<1>4. SortQueryParams(q) = Urlencode(t)
  BY DEF SortQueryParams, t
<1> QED  BY <1>2, <1>3, <1>4 DEF SortQueryParams

\* The octets of a pair, and how often a query has them.
OctetPair(q, i)  == <<Octets[q[i][1]], Octets[q[i][2]]>>
OctetTimes(q, x) == Cardinality({i \in 1 .. Len(q) : OctetPair(q, i) = x})

\* Every pair has a value, and is UTF-8.
PlainQuery(q) ==
    /\ q \in Spelled
    /\ \A i \in 1 .. Len(q) : q[i][2] # Null /\ Utf8(q[i][1]) /\ Utf8(q[i][2])

\* From octets to texts and back.
Decode(o) == <<Text[o[1]], Text[o[2]]>>
Encode(x) == <<Octets[Spell[x[1]]], Octets[Spell[x[2]]]>>

\* What is parsed has the octets that were spelled.
LEMMA PlainDecodes ==
    ASSUME NEW q, PlainQuery(q)
    PROVE  /\ Len(ParseQsl(q)) = Len(q)
           /\ \A i \in 1 .. Len(q) : /\ ParseQsl(q)[i] = Decode(OctetPair(q, i))
                                     /\ OctetPair(q, i) = Encode(ParseQsl(q)[i])
<1>1. /\ Len(ParseQsl(q)) = Len(q)
      /\ \A i \in 1 .. Len(q) : ParseQsl(q)[i] = DecodedPair(q[i])
  BY ParseEach DEF PlainQuery
<1>2. ASSUME NEW i \in 1 .. Len(q)
      PROVE  /\ ParseQsl(q)[i] = Decode(OctetPair(q, i))
             /\ OctetPair(q, i) = Encode(ParseQsl(q)[i])
  <2>1. q[i][2] # Null /\ Utf8(q[i][1]) /\ Utf8(q[i][2])
    BY DEF PlainQuery
  <2>2. DecodedPair(q[i]) = <<Decoded(q[i][1]), Decoded(q[i][2])>>
    BY <2>1 DEF DecodedPair
  <2>3. Decode(OctetPair(q, i)) = <<Decoded(q[i][1]), Decoded(q[i][2])>>
    BY DEF Decode, OctetPair, Decoded
  <2>4. Encode(<<Decoded(q[i][1]), Decoded(q[i][2])>>) = OctetPair(q, i)
    BY <2>1 DEF Encode, OctetPair, Utf8
  <2> QED  BY <1>1, <2>2, <2>3, <2>4
<1> QED  BY <1>1, <1>2

\* So it has a pair of texts as often as that pair's octets were spelled.
LEMMA PlainTimes ==
    ASSUME NEW q, PlainQuery(q), NEW x, NEW o
    PROVE  /\ Times(ParseQsl(q), x) = IF Decode(Encode(x)) = x THEN OctetTimes(q, Encode(x))
                                      ELSE Cardinality({})
           /\ OctetTimes(q, o) = IF Encode(Decode(o)) = o THEN Times(ParseQsl(q), Decode(o))
                                 ELSE Cardinality({})
<1> DEFINE D == 1 .. Len(q)
           t == ParseQsl(q)
           Pair(i) == OctetPair(q, i)
<1>1. Len(t) = Len(q) /\ \A i \in D : t[i] = Decode(Pair(i)) /\ Pair(i) = Encode(t[i])
  BY PlainDecodes
<1>2. Times(t, x) = Cardinality({i \in D : t[i] = x})
  BY <1>1 DEF Times
<1>3. \A y : OctetTimes(q, y) = Cardinality({i \in D : Pair(i) = y})
  BY DEF OctetTimes
<1>4. Times(t, Decode(o)) = Cardinality({i \in D : t[i] = Decode(o)})
  BY <1>1 DEF Times
<1> HIDE DEF D, t, Pair
<1>5. {i \in D : t[i] = x} = IF Decode(Encode(x)) = x THEN {i \in D : Pair(i) = Encode(x)} ELSE {}
  BY <1>1
<1>6. {i \in D : Pair(i) = o} = IF Encode(Decode(o)) = o THEN {i \in D : t[i] = Decode(o)} ELSE {}
  BY <1>1
<1>7. Times(t, x) = IF Decode(Encode(x)) = x THEN OctetTimes(q, Encode(x)) ELSE Cardinality({})
  BY <1>2, <1>3, <1>5
<1>8. OctetTimes(q, o) = IF Encode(Decode(o)) = o THEN Times(t, Decode(o)) ELSE Cardinality({})
  BY <1>3, <1>4, <1>6
<1> QED  BY <1>7, <1>8 DEF t

\* Queries in UTF-8 come to one exactly when they have the same pairs of octets.
LEMMA QueryTells ==
    ASSUME NEW p, PlainQuery(p), NEW q, PlainQuery(q)
    PROVE  SortQueryParams(p) = SortQueryParams(q) <=> \A x : OctetTimes(p, x) = OctetTimes(q, x)
<1>1. SortQueryParams(p) = SortQueryParams(q)
         <=> \A x : Times(ParseQsl(p), x) = Times(ParseQsl(q), x)
  BY SortTells DEF PlainQuery
<1>2. ASSUME \A x : Times(ParseQsl(p), x) = Times(ParseQsl(q), x), NEW o
      PROVE  OctetTimes(p, o) = OctetTimes(q, o)
  BY <1>2, PlainTimes
<1>3. ASSUME \A o : OctetTimes(p, o) = OctetTimes(q, o), NEW x
      PROVE  Times(ParseQsl(p), x) = Times(ParseQsl(q), x)
  BY <1>3, PlainTimes
<1> QED  BY <1>1, <1>2, <1>3

-----------------------------------------------------------------------------
(* The URL.                                                                *)

\* The path that comes out.
Path(u) == TrailingSlash(DecodeUnreserved(UppercasePercentEncoding(u.path)))

\* Normalize, with the types of what goes into it.
LEMMA Normalized ==
    ASSUME NEW u \in Url, Parses(u)
    PROVE  /\ Normalize(u) = [scheme |-> u.scheme, user |-> FALSE, host |-> Lower[u.host],
                              port |-> RemoveDefaultPort(u.port, u.scheme), path |-> Path(u),
                              params |-> FALSE, query |-> SortQueryParams(u.query),
                              fragment |-> FALSE]
           /\ u.host \in DOMAIN Lower /\ Lower[u.host] \in DOMAIN Lower
           /\ u.scheme \in Schemes /\ u.port \in Ports /\ u.path \in Seq(Chars)
           /\ u.query \in Spelled
<1>1. /\ u.scheme \in Schemes /\ u.port \in Ports /\ u.path \in Seq(Chars)
      /\ u.query \in Spelled /\ u.host \in (DOMAIN Lower) \cup {Null}
  BY DEF Url, Spelled
<1>2. u.host \in DOMAIN Lower
  BY <1>1 DEF Parses
<1>3. Lower[u.host] \in DOMAIN Lower
  BY <1>2, LowerAssumption
<1>4. Normalize(u) = [scheme |-> u.scheme, user |-> FALSE, host |-> Lower[u.host],
                      port |-> RemoveDefaultPort(u.port, u.scheme), path |-> Path(u),
                      params |-> FALSE, query |-> SortQueryParams(u.query),
                      fragment |-> FALSE]
  BY DEF Normalize, Lowercase, Path
<1> QED  BY <1>1, <1>2, <1>3, <1>4

\* Whatever the spelling of the path, a path comes out.
LEMMA PathType ==
    ASSUME NEW u \in Url
    PROVE  Path(u) \in Seq(Chars)
<1>1. u.path \in Seq(Chars)
  BY DEF Url
<1> DEFINE s == UppercasePercentEncoding(u.path)
           t == DecodeUnreserved(s)
<1>2. s \in Seq(Chars)
  BY <1>1, UpperRespells, SubstituteType DEF UppercasePercentEncoding
<1> HIDE DEF s
<1>3. t \in Seq(Chars)
  BY <1>2, DecodeRespells, SubstituteType DEF DecodeUnreserved
<1> HIDE DEF t
<1>4. Stripped(t) \in Seq(Chars)
  BY <1>3, StrippedIs
<1>5. <<"/">> \in Seq(Chars)
  BY DEF Chars
<1>6. TrailingSlash(t) \in Seq(Chars)
  BY <1>3, <1>4, <1>5 DEF TrailingSlash
<1> QED  BY <1>6 DEF Path, t, s

\* The pipeline makes a URL of a URL, whatever its spelling.
THEOREM NormalizeType ==
    ASSUME NEW u \in Url, Parses(u)
    PROVE  Normalize(u) \in Url
<1>1. Path(u) \in Seq(Chars)
  BY PathType
<1>2. /\ Lower[u.host] \in DOMAIN Lower /\ u.scheme \in Schemes /\ u.port \in Ports
      /\ u.query \in Spelled
  BY Normalized
<1>3. SortQueryParams(u.query) \in Spelled
  BY <1>2, SortTwice
<1>4. RemoveDefaultPort(u.port, u.scheme) \in Ports
  BY <1>2 DEF RemoveDefaultPort, Ports
<1> DEFINE n == [scheme |-> u.scheme, user |-> FALSE, host |-> Lower[u.host],
                 port |-> RemoveDefaultPort(u.port, u.scheme), path |-> Path(u),
                 params |-> FALSE, query |-> SortQueryParams(u.query), fragment |-> FALSE]
<1>5. n \in Url
  BY <1>1, <1>2, <1>3, <1>4 DEF Url, Spelled
<1>6. Normalize(u) = n
  BY Normalized
<1> QED  BY <1>5, <1>6

\* The path of a URL spelled regularly is one the lemmas above are about.
LEMMA RegularPath ==
    ASSUME NEW u \in Url, Regular(u)
    PROVE  Plain(u.path, Pairs)
<1> DEFINE s == u.path
<1>1. s \in Seq(Chars) /\ Len(s) \in Nat
  BY DEF Url
<1>2. /\ \A i \in 1 .. Len(s) : s[i] = "%" => Triplet(s, i)
      /\ Len(s) > 1 => \E i \in 1 .. Len(s) : s[i] # "/"
  <2>1. DOMAIN s = 1 .. Len(s)
    BY <1>1
  <2> QED  BY <2>1, Zenon DEF Regular
<1> HIDE DEF s
<1>3. Tidy(s, Pairs)
  BY <1>2 DEF Tidy, Triplet, Pairs
<1>4. CASE \E i \in Starts(s) : s[i] # "/"
  BY <1>1, <1>3, <1>4 DEF Plain, s
<1>5. CASE \A i \in Starts(s) : s[i] = "/"
  <2>1. \A i \in 1 .. Len(s) : s[i] = "/"
    <3> SUFFICES ASSUME NEW i \in 1 .. Len(s), s[i] # "/" PROVE FALSE
      OBVIOUS
    <3>1. PICK j \in Starts(s) : s[j] = "%"
      BY <1>1, <1>3, <1>5, TidyStarts
    <3> QED  BY <1>5, <3>1
  <2>2. ~(Len(s) > 1)
    BY <1>2, <2>1
  <2>3. \A i \in Starts(s) : i = 1
    <3>1. \A i \in Starts(s) : i \in 1 .. Len(s)
      BY <1>1, StartsAre
    <3> QED  BY <1>1, <2>2, <3>1
  <2> QED  BY <1>1, <1>3, <2>3 DEF Plain, s
<1> QED  BY <1>4, <1>5

\* So is its query.
LEMMA RegularQuery ==
    ASSUME NEW u \in Url, Regular(u)
    PROVE  PlainQuery(u.query)
<1>1. u.query \in Spelled
  BY DEF Url, Spelled
<1>2. DOMAIN u.query = 1 .. Len(u.query)
  BY <1>1 DEF Spelled
<1> QED  BY <1>1, <1>2, Zenon DEF Regular, PlainQuery

\* So is a normal path.
LEMMA NormalIsPlain ==
    ASSUME NEW p, NormalPath(p)
    PROVE  Plain(p, Pairs)
<1>1. p \in Seq(Chars) /\ Tidy(p, Pairs) /\ Len(p) \in Nat
  BY TidyMore DEF NormalPath
<1>2. CASE p = <<"/">>
  <2>1. \A i \in Starts(p) : i = 1
    BY <1>2 DEF Starts
  <2> QED  BY <1>1, <2>1 DEF Plain
<1>3. CASE Len(p) > 0 /\ p[Len(p)] # "/"
  <2>1. Len(p) \in 0 .. Len(p) /\ \A i \in Len(p) + 1 .. Len(p) : p[i] = "/"
    BY <1>1
  <2>2. 1 \in Starts(p) /\ 1 <= Len(p)
    BY <1>1, <1>3, FirstStart
  <2>3. 1 \in Showing(p)
    BY <1>1, <1>3, <2>1, <2>2, ShowingIs
  <2> QED  BY <1>1, <2>3 DEF Plain, Showing
<1> QED  BY <1>2, <1>3 DEF NormalPath

\* The steps on the path, all three.
LEMMA PathTells ==
    ASSUME NEW u \in Url, Plain(u.path, Pairs)
    PROVE  NormalPath(Path(u)) /\ Resource(Path(u)) = Resource(u.path)
BY DecodedPath, TrailingSlashNormal DEF Path

\* A port that is the default is as good as none.
LEMMA PortTells ==
    ASSUME NEW p \in Ports, NEW q \in Ports, NEW scheme \in Schemes
    PROVE  LET Port(w) == IF w = Null THEN DefaultPort(scheme) ELSE w
           IN  RemoveDefaultPort(p, scheme) = RemoveDefaultPort(q, scheme) <=> Port(p) = Port(q)
<1>1. DefaultPort(scheme) \in Ports /\ Null \notin Nat
  BY LowerAssumption DEF DefaultPort, Schemes, Ports
<1> QED  BY <1>1 DEF RemoveDefaultPort, Ports

\* URLs spelled regularly come to one normal form exactly when they are spellings of
\* one page: the key of url_records neither splits a page nor merges two.
THEOREM PagesTell ==
    ASSUME NEW u \in Url, Parses(u), Regular(u), NEW v \in Url, Parses(v), Regular(v)
    PROVE  Normalize(u) = Normalize(v) <=> SamePage(u, v)
<1>1. /\ u.scheme \in Schemes /\ u.port \in Ports /\ PlainQuery(u.query)
      /\ v.scheme \in Schemes /\ v.port \in Ports /\ PlainQuery(v.query)
  BY Normalized, RegularQuery
<1>2. Normalize(u) = Normalize(v) <=>
         /\ u.scheme = v.scheme /\ Lower[u.host] = Lower[v.host]
         /\ RemoveDefaultPort(u.port, u.scheme) = RemoveDefaultPort(v.port, v.scheme)
         /\ Path(u) = Path(v) /\ SortQueryParams(u.query) = SortQueryParams(v.query)
  <2> DEFINE n(w) == [scheme |-> w.scheme, user |-> FALSE, host |-> Lower[w.host],
                      port |-> RemoveDefaultPort(w.port, w.scheme), path |-> Path(w),
                      params |-> FALSE, query |-> SortQueryParams(w.query), fragment |-> FALSE]
  <2>1. Normalize(u) = n(u) /\ Normalize(v) = n(v)
    BY Normalized
  <2>2. \A w : /\ n(w).scheme = w.scheme /\ n(w).host = Lower[w.host]
               /\ n(w).port = RemoveDefaultPort(w.port, w.scheme)
               /\ n(w).path = Path(w) /\ n(w).query = SortQueryParams(w.query)
    OBVIOUS
  <2>3. ASSUME u.scheme = v.scheme, Lower[u.host] = Lower[v.host],
               RemoveDefaultPort(u.port, u.scheme) = RemoveDefaultPort(v.port, v.scheme),
               Path(u) = Path(v), SortQueryParams(u.query) = SortQueryParams(v.query)
        PROVE  n(u) = n(v)
    BY <2>3
  <2> HIDE DEF n
  <2>4. n(u) = n(v) =>
           /\ u.scheme = v.scheme /\ Lower[u.host] = Lower[v.host]
           /\ RemoveDefaultPort(u.port, u.scheme) = RemoveDefaultPort(v.port, v.scheme)
           /\ Path(u) = Path(v) /\ SortQueryParams(u.query) = SortQueryParams(v.query)
    BY <2>2
  <2> QED  BY <2>1, <2>3, <2>4
<1>3. Path(u) = Path(v) <=> Resource(u.path) = Resource(v.path)
  <2>1. /\ NormalPath(Path(u)) /\ Resource(Path(u)) = Resource(u.path)
        /\ NormalPath(Path(v)) /\ Resource(Path(v)) = Resource(v.path)
    BY RegularPath, PathTells
  <2> QED  BY <2>1, ResourceTells
<1> DEFINE Vals == {OctetPair(u.query, i) : i \in 1 .. Len(u.query)}
                      \cup {OctetPair(v.query, i) : i \in 1 .. Len(v.query)}
<1>4. SortQueryParams(u.query) = SortQueryParams(v.query)
         <=> \A x \in Vals : OctetTimes(u.query, x) = OctetTimes(v.query, x)
  <2>1. ASSUME NEW x, x \notin Vals PROVE OctetTimes(u.query, x) = OctetTimes(v.query, x)
    <3>1. /\ {i \in 1 .. Len(u.query) : OctetPair(u.query, i) = x} = {}
          /\ {i \in 1 .. Len(v.query) : OctetPair(v.query, i) = x} = {}
      BY <2>1
    <3> QED  BY <3>1 DEF OctetTimes
  <2> HIDE DEF Vals
  <2> QED  BY <1>1, <2>1, QueryTells
<1>5. u.scheme = v.scheme =>
         (RemoveDefaultPort(u.port, u.scheme) = RemoveDefaultPort(v.port, v.scheme)
            <=> (IF u.port = Null THEN DefaultPort(u.scheme) ELSE u.port)
                   = (IF v.port = Null THEN DefaultPort(v.scheme) ELSE v.port))
  BY <1>1, PortTells
<1>6. DOMAIN u.query = 1 .. Len(u.query) /\ DOMAIN v.query = 1 .. Len(v.query)
  BY <1>1 DEF PlainQuery, Spelled
<1>7. SamePage(u, v) <=>
         /\ u.scheme = v.scheme /\ Lower[u.host] = Lower[v.host]
         /\ (IF u.port = Null THEN DefaultPort(u.scheme) ELSE u.port)
               = (IF v.port = Null THEN DefaultPort(v.scheme) ELSE v.port)
         /\ Resource(u.path) = Resource(v.path)
         /\ \A x \in Vals : OctetTimes(u.query, x) = OctetTimes(v.query, x)
  BY <1>6, Zenon DEF SamePage, OctetTimes, OctetPair
<1> HIDE DEF Vals
<1> QED  BY <1>2, <1>3, <1>4, <1>5, <1>7

\* The normal form of a URL spelled regularly is its own normal form: of these the
\* key invariant at the head of url_normalizer.py is true.
THEOREM NormalizeTwice ==
    ASSUME NEW u \in Url, Parses(u), Regular(u)
    PROVE  Normalize(Normalize(u)) = Normalize(u)
<1> DEFINE k == Normalize(u)
<1>1. /\ k.scheme = u.scheme /\ k.host = Lower[u.host] /\ k.path = Path(u)
      /\ k.port = RemoveDefaultPort(u.port, u.scheme)
      /\ k.query = SortQueryParams(u.query)
      /\ k = [scheme |-> k.scheme, user |-> FALSE, host |-> k.host, port |-> k.port,
              path |-> k.path, params |-> FALSE, query |-> k.query, fragment |-> FALSE]
  BY Normalized
<1>2. /\ u.host \in DOMAIN Lower /\ u.port \in Ports /\ u.query \in Spelled
      /\ u.port # Null => u.port <= MaxPort
  BY Normalized DEF Parses
<1>3. k \in Url
  BY NormalizeType
<1> HIDE DEF k
<1>4. Parses(k) /\ Lower[k.host] = k.host
  BY <1>1, <1>2, LowerAssumption DEF Parses, RemoveDefaultPort
<1>5. RemoveDefaultPort(k.port, k.scheme) = k.port
  BY <1>1 DEF RemoveDefaultPort
<1>6. SortQueryParams(k.query) = k.query
  BY <1>1, <1>2, SortTwice
<1>7. Path(k) = k.path
  <2>1. NormalPath(k.path)
    BY <1>1, RegularPath, PathTells
  <2>2. NormalPath(Path(k)) /\ Resource(Path(k)) = Resource(k.path)
    BY <1>3, <2>1, NormalIsPlain, PathTells
  <2> QED  BY <2>1, <2>2, ResourceTells
<1>8. Normalize(k) = [scheme |-> k.scheme, user |-> FALSE, host |-> Lower[k.host],
                      port |-> RemoveDefaultPort(k.port, k.scheme), path |-> Path(k),
                      params |-> FALSE, query |-> SortQueryParams(k.query),
                      fragment |-> FALSE]
  BY <1>3, <1>4, Normalized
<1> QED  BY <1>1, <1>4, <1>5, <1>6, <1>7, <1>8 DEF k

=============================================================================
