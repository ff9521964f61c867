-------------------------- MODULE RateLimiterProofs -------------------------
(***************************************************************************)
(* Proofs that a closed gate is always going to be opened and that permits *)
(* are neither lost nor idle, for any number of callers and permits.       *)
(*                                                                         *)
(* GateWillOpen is inductive once pc is known to be a function to places:  *)
(* the semaphore moves callers only from "queued" to "granted", which      *)
(* concerns neither the gate nor a sleeper.  PermitsAccountedFor is not:   *)
(* it needs to know that the semaphore's queue holds exactly the callers   *)
(* that wait or were woken, each once.  The counting itself rests on one   *)
(* fact about places in a queue: of those that have fewer than n before    *)
(* them there are at most n, and at least one when there is a place.       *)
(***************************************************************************)
EXTENDS RateLimiter, FiniteSetTheorems, FunctionTheorems, WellFoundedInduction, TLAPS

GateInv == pc \in [Callers -> Places] /\ GateWillOpen

\* Handing out permits turns some of the queued callers into granted ones and
\* leaves every other caller where p has it.
LEMMA HandOutMoves ==
    ASSUME NEW p \in [Callers -> Places], NEW q, NEW n, NEW value,
           HandOut(p, q, n, value)
    PROVE  /\ pc' \in [Callers -> Places]
           /\ \A d \in Callers : pc'[d] = p[d] \/ (p[d] = "queued" /\ pc'[d] = "granted")
<1> DEFINE Waiting == {i \in 1 .. Len(q) : p[q[i]] = "queued"}
           Handed  == {q[i] : i \in {j \in Waiting :
                                       Cardinality({k \in Waiting : k < j}) < n}}
<1>1. pc' = [d \in Callers |-> IF d \in Handed THEN "granted" ELSE p[d]]
  BY DEF HandOut
<1>2. \A d \in Handed : p[d] = "queued"
  OBVIOUS
<1> HIDE DEF Handed
<1> QED
  BY <1>1, <1>2 DEF Places

\* Acquiring a permit moves only the caller that asks for it, and neither to the
\* gate nor to a sleep.
LEMMA AcquireMoves ==
    ASSUME NEW p \in [Callers -> Places], NEW c \in Callers, Acquire(c, p)
    PROVE  /\ pc' \in [Callers -> Places]
           /\ pc'[c] \in {"fetching", "queued"}
           /\ \A d \in Callers \ {c} : pc'[d] = p[d]
BY DEF Acquire, Places

\* Releasing a permit takes the caller to where it goes on.
LEMMA ReleaseMoves ==
    ASSUME pc \in [Callers -> Places], NEW c \in Callers,
           NEW place \in Places \ {"queued"}, Release(c, place)
    PROVE  /\ pc' \in [Callers -> Places]
           /\ pc'[c] = place
           /\ \A d \in Callers \ {c} :
                 pc'[d] = pc[d] \/ (pc[d] = "queued" /\ pc'[d] = "granted")
<1> DEFINE p == [pc EXCEPT ![c] = place]
<1>1. p \in [Callers -> Places] OBVIOUS
<1>2. HandOut(p, queue, 1, permits) BY DEF Release
<1> QED BY <1>1, <1>2, HandOutMoves

\* Every step of a caller keeps GateInv.
LEMMA GateStep ==
    ASSUME GateInv, [Next]_vars
    PROVE  GateInv'
<1> USE DEF GateInv, GateWillOpen, At
<1>1. ASSUME NEW c \in Callers, Execute(c) PROVE GateInv'
  <2>1. CASE open
    BY <1>1, <2>1, AcquireMoves DEF Execute
  <2>2. CASE ~open
    BY <1>1, <2>2 DEF Execute, Places
  <2> QED BY <2>1, <2>2
<1>2. ASSUME NEW c \in Callers, Proceed(c) PROVE GateInv'
  BY <1>2, AcquireMoves DEF Proceed
<1>3. ASSUME NEW c \in Callers, StartGranted(c) PROVE GateInv'
  <2> DEFINE p == [pc EXCEPT ![c] = "fetching"]
  <2>1. p \in [Callers -> Places] BY DEF Places
  <2>2. HandOut(p, Tail(queue), permits, 0) BY <1>3 DEF StartGranted
  <2>3. /\ pc' \in [Callers -> Places]
        /\ \A d \in Callers : pc'[d] = p[d] \/ (p[d] = "queued" /\ pc'[d] = "granted")
    BY <2>1, <2>2, HandOutMoves
  <2> QED BY <1>3, <2>3 DEF StartGranted
<1>4. ASSUME NEW c \in Callers, Answered(c) PROVE GateInv'
  <2>1. "outside" \in Places \ {"queued"} BY DEF Places
  <2> QED BY <1>4, <2>1, ReleaseMoves DEF Answered
<1>5. ASSUME NEW c \in Callers, Refused(c) PROVE GateInv'
  <2>1. "outside" \in Places \ {"queued"} /\ "backoff" \in Places \ {"queued"}
    BY DEF Places
  <2>2. CASE refusals[c] + 1 >= MaxConsecutive
    BY <1>5, <2>1, <2>2, ReleaseMoves DEF Refused
  <2>3. CASE ~(refusals[c] + 1 >= MaxConsecutive)
    BY <1>5, <2>1, <2>3, ReleaseMoves DEF Refused
  <2> QED BY <2>2, <2>3
<1>6. ASSUME NEW c \in Callers, BackoffOver(c) PROVE GateInv'
  <2> DEFINE p == [d \in Callers |-> IF pc[d] = "gate" THEN "passed" ELSE pc[d]]
  <2>1. p \in [Callers -> Places] BY DEF Places
  <2>2. Acquire(c, p) /\ open' BY <1>6 DEF BackoffOver
  <2>3. /\ pc' \in [Callers -> Places]
        /\ pc'[c] \in {"fetching", "queued"}
        /\ \A d \in Callers \ {c} : pc'[d] = p[d]
    BY <2>1, <2>2, AcquireMoves
  <2> QED BY <2>2, <2>3
<1>7. ASSUME UNCHANGED vars PROVE GateInv'
  BY <1>7 DEF vars
<1> QED
  BY <1>1, <1>2, <1>3, <1>4, <1>5, <1>6, <1>7 DEF Next, Step

\* No lost wake-up at the gate: nobody waits at an open gate, and a closed one
\* has a sleeper that will open it, however many callers back off at once
\* (_apply_backoff and the Event it shares with all calls of execute).
THEOREM GateReopens == Spec => []GateWillOpen
<1>1. Init => GateInv
  BY DEF Init, GateInv, GateWillOpen, At, Places
<1>2. GateInv /\ [Next]_vars => GateInv'
  BY GateStep
<1>3. GateInv => GateWillOpen
  BY DEF GateInv
<1> QED
  BY <1>1, <1>2, <1>3, PTL DEF Spec

-----------------------------------------------------------------------------
(* Counting the permits.                                                   *)

\* A set of natural numbers has a smallest element.
LEMMA Smallest ==
    ASSUME NEW S \in SUBSET Nat, S # {}
    PROVE  \E x \in S : \A y \in S : x <= y
<1>1. PICK x \in S : \A y \in S : ~(<<y, x>> \in OpToRel(<, Nat))
  BY NatLessThanWellFounded, WFMin
<1>2. ASSUME NEW y \in S
      PROVE  x <= y
  <2>1. x \in Nat /\ y \in Nat /\ <<y, x>> \in Nat \X Nat
    OBVIOUS
  <2>2. y < x => <<y, x>> \in OpToRel(<, Nat)
    BY <2>1 DEF OpToRel
  <2>3. ~(y < x)
    BY <1>1, <2>2, Zenon
  <2> QED  BY <2>1, <2>3
<1> QED  BY <1>2

\* and, if it is bounded, a largest.
LEMMA Largest ==
    ASSUME NEW m \in Nat, NEW S \in SUBSET (1 .. m), S # {}
    PROVE  \E x \in S : \A y \in S : y <= x
<1> DEFINE U == {u \in Nat : \A y \in S : y <= u}
<1>1. m \in U /\ U \in SUBSET Nat
  OBVIOUS
<1>2. PICK x \in U : \A u \in U : x <= u
  BY <1>1, Smallest
<1>3. \A y \in S : y \in Nat /\ y >= 1 /\ y <= x
  BY <1>1, <1>2
<1>4. x \in Nat /\ x >= 1
  <2>1. PICK y \in S : TRUE
    OBVIOUS
  <2>2. y \in Nat /\ y >= 1 /\ y <= x /\ x \in Nat
    BY <1>2, <1>3
  <2> QED  BY <2>2
<1>5. x - 1 \notin U
  BY <1>2, <1>4
<1>6. \E y \in S : ~(y <= x - 1)
  BY <1>4, <1>5
<1>7. PICK y \in S : ~(y <= x - 1)
  BY <1>6
<1>8. y = x
  BY <1>3, <1>4, <1>7
<1> QED  BY <1>3, <1>7, <1>8

\* The members of W that have fewer than n members of W before them.
Few(W, n) == {j \in W : Cardinality({k \in W : k < j}) < n}

\* At most n places have fewer than n before them, and the first has none.
LEMMA FirstFew ==
    ASSUME NEW m \in Nat, NEW W \in SUBSET (1 .. m), NEW n \in Nat
    PROVE  /\ Few(W, n) \subseteq W /\ IsFiniteSet(Few(W, n))
           /\ Cardinality(Few(W, n)) \in Nat /\ Cardinality(Few(W, n)) <= n
           /\ n > 0 /\ W # {} => Few(W, n) # {}
<1> DEFINE Before(j) == {k \in W : k < j}
           H == {j \in W : Cardinality(Before(j)) < n}
<1>1. IsFiniteSet(1 .. m) /\ IsFiniteSet(W)
  <2>1. IsFiniteSet(1 .. m)
    BY FS_Interval
  <2> QED  BY <2>1, FS_Subset
<1>2. ASSUME NEW j \in W
      PROVE  IsFiniteSet(Before(j)) /\ Cardinality(Before(j)) \in Nat
  <2>1. Before(j) \in SUBSET W
    OBVIOUS
  <2> HIDE DEF Before
  <2> QED  BY <1>1, <2>1, FS_Subset, FS_CardinalityType
<1>3. H \in SUBSET W /\ H \in SUBSET (1 .. m)
  OBVIOUS
<1>4. \A j \in H : j \in W /\ Cardinality(Before(j)) < n
  OBVIOUS
<1>5. IsFiniteSet(H) /\ Cardinality(H) \in Nat
  <2> HIDE DEF H
  <2> QED  BY <1>1, <1>3, FS_Subset, FS_CardinalityType
<1>7. n > 0 /\ W # {} => H # {}
  <2> SUFFICES ASSUME n > 0, W # {} PROVE H # {}
    OBVIOUS
  <2>1. W \in SUBSET Nat
    OBVIOUS
  <2>2. PICK x \in W : \A y \in W : x <= y
    BY <2>1, Smallest
  <2>3. Before(x) = {}
    <3>1. \A y \in W : y \in Nat /\ x \in Nat /\ x <= y
      BY <2>1, <2>2
    <3>2. \A y \in W : ~(y < x)
      BY <3>1
    <3> QED  BY <3>2
  <2>4. Cardinality(Before(x)) = 0
    BY <2>3, FS_EmptySet
  <2>5. x \in H
    BY <2>4
  <2> QED  BY <2>5
<1>8. Cardinality(H) <= n
  <2>1. CASE H = {}
    <3> HIDE DEF H
    <3> QED  BY <2>1, FS_EmptySet
  <2>2. CASE H # {}
    <3> HIDE DEF H
    <3>1. PICK x \in H : \A y \in H : y <= x
      BY <1>3, <2>2, Largest
    <3>2. x \in W /\ Cardinality(Before(x)) < n
      BY <1>4
    <3>3. H \subseteq Before(x) \cup {x}
      <4>1. \A y \in H : y \in W /\ y \in Nat /\ x \in Nat /\ y <= x
        BY <1>3, <3>1
      <4> QED  BY <4>1
    <3>4. IsFiniteSet(Before(x)) /\ Cardinality(Before(x)) \in Nat
      BY <1>2, <3>2
    <3>5. x \notin Before(x)
      BY <3>2
    <3> HIDE DEF Before
    <3>6. /\ IsFiniteSet(Before(x) \cup {x})
          /\ Cardinality(Before(x) \cup {x}) = Cardinality(Before(x)) + 1
      BY <3>4, <3>5, FS_AddElement
    <3>7. Cardinality(H) <= Cardinality(Before(x)) + 1
      BY <3>3, <3>6, FS_Subset
    <3> QED  BY <1>5, <3>2, <3>4, <3>7
  <2> QED  BY <2>1, <2>2
<1>9. H = Few(W, n)
  BY DEF Few
<1> HIDE DEF H
<1> QED  BY <1>3, <1>5, <1>7, <1>8, <1>9

\* The callers that are at place in p.
On(p, place) == {c \in Callers : p[c] = place}

\* q holds the callers that wait for the semaphore or were woken by it, each once.
InLine(p, q) ==
    /\ q \in Seq(Callers)
    /\ \A c \in Callers :
          p[c] \in {"queued", "granted"} <=> \E i \in 1 .. Len(q) : q[i] = c
    /\ \A i, j \in 1 .. Len(q) : q[i] = q[j] => i = j

\* The semaphore's value and the permits in use add up, and it is not kept from
\* those that wait.
Balanced(p, value) ==
    /\ value + Cardinality(On(p, "fetching")) + Cardinality(On(p, "granted")) = Permits
    /\ value > 0 /\ On(p, "queued") # {} => On(p, "granted") # {}

\* Callers can be counted, place by place
LEMMA OnFinite ==
    ASSUME NEW p, NEW place
    PROVE  IsFiniteSet(On(p, place)) /\ Cardinality(On(p, place)) \in Nat
<1>1. On(p, place) \in SUBSET Callers
  BY DEF On
<1> QED  BY <1>1, LimiterAssumption, FS_Subset, FS_CardinalityType

\* Handing out n permits beside a value: what is handed and what is left add up,
\* and when something is left although callers wait, somebody was woken.  This is
\* where a waiter that keeps to itself what it sees would lose a permit.
LEMMA HandOutKeeps ==
    ASSUME NEW p \in [Callers -> Places], NEW q, NEW n \in Nat, NEW value \in Nat,
           InLine(p, q), n > 0 \/ value = 0,
           value + n + Cardinality(On(p, "fetching")) + Cardinality(On(p, "granted"))
              = Permits,
           HandOut(p, q, n, value)
    PROVE  /\ permits' \in Nat
           /\ InLine(pc', q)
           /\ Balanced(pc', permits')
<1> DEFINE Waiting == {i \in 1 .. Len(q) : p[q[i]] = "queued"}
           Handed  == {q[i] : i \in Few(Waiting, n)}
<1>1. /\ pc' = [d \in Callers |-> IF d \in Handed THEN "granted" ELSE p[d]]
      /\ permits' = value + n - Cardinality(Handed)
  BY DEF HandOut, Few
<1>2. /\ q \in Seq(Callers) /\ Len(q) \in Nat /\ Waiting \in SUBSET (1 .. Len(q))
      /\ \A i \in 1 .. Len(q) : q[i] \in Callers
  BY DEF InLine
<1>3. /\ Few(Waiting, n) \subseteq Waiting
      /\ IsFiniteSet(Few(Waiting, n))
      /\ Cardinality(Few(Waiting, n)) \in Nat /\ Cardinality(Few(Waiting, n)) <= n
      /\ n > 0 /\ Waiting # {} => Few(Waiting, n) # {}
  <2> HIDE DEF Waiting
  <2> QED  BY <1>2, FirstFew
<1>4. IsFiniteSet(Handed) /\ Cardinality(Handed) \in Nat /\ Cardinality(Handed) <= n
  <2> DEFINE f == [i \in Few(Waiting, n) |-> q[i]]
  <2>1. f \in Surjection(Few(Waiting, n), Handed)
    BY DEF Surjection
  <2> HIDE DEF f, Handed
  <2>2. IsFiniteSet(Handed) /\ Cardinality(Handed) <= Cardinality(Few(Waiting, n))
    BY <1>3, <2>1, FS_Surjection
  <2> QED  BY <1>3, <2>2, FS_CardinalityType
<1>5. \A d \in Handed : d \in Callers /\ p[d] = "queued"
  BY <1>2, <1>3
<1>6. On(p, "queued") # {} /\ n > 0 => Handed # {}
  <2> SUFFICES ASSUME NEW c \in Callers, p[c] = "queued", n > 0
               PROVE  Handed # {}
    BY DEF On
  <2>1. PICK i \in 1 .. Len(q) : q[i] = c
    BY DEF InLine
  <2>2. i \in Waiting
    BY <2>1
  <2> HIDE DEF Waiting
  <2>3. Few(Waiting, n) # {}
    BY <1>3, <2>2
  <2> QED  BY <2>3
<1> HIDE DEF Handed
<1>7. /\ On(pc', "granted") = On(p, "granted") \cup Handed
      /\ On(p, "granted") \cap Handed = {}
      /\ On(pc', "fetching") = On(p, "fetching")
      /\ On(pc', "queued") \subseteq On(p, "queued")
  BY <1>1, <1>5 DEF On
<1>8. InLine(pc', q)
  BY <1>1, <1>5 DEF InLine
<1>9. Cardinality(On(p, "granted") \cup Handed)
         = Cardinality(On(p, "granted")) + Cardinality(Handed)
  <2>1. IsFiniteSet(On(p, "granted")) /\ Cardinality(On(p, "granted")) \in Nat
    BY OnFinite
  <2>2. Cardinality(On(p, "granted") \cup Handed)
           = Cardinality(On(p, "granted")) + Cardinality(Handed)
                - Cardinality(On(p, "granted") \cap Handed)
    BY <1>4, <2>1, FS_Union
  <2>3. Cardinality(On(p, "granted") \cap Handed) = 0
    BY <1>7, FS_EmptySet
  <2> QED  BY <1>4, <2>1, <2>2, <2>3
<1>10. permits' \in Nat
  BY <1>1, <1>4
<1>11. permits' + Cardinality(On(pc', "fetching")) + Cardinality(On(pc', "granted"))
          = Permits
  <2>1. Cardinality(On(p, "granted")) \in Nat /\ Cardinality(On(p, "fetching")) \in Nat
    BY OnFinite
  <2> QED  BY <1>1, <1>4, <1>7, <1>9, <2>1
<1>12. permits' > 0 /\ On(pc', "queued") # {} => On(pc', "granted") # {}
  <2> SUFFICES ASSUME permits' > 0, On(pc', "queued") # {}
               PROVE  On(pc', "granted") # {}
    OBVIOUS
  <2>1. n > 0
    <3>1. ASSUME n = 0 PROVE FALSE
      BY <1>1, <1>4, <3>1
    <3> QED  BY <3>1
  <2> QED  BY <1>6, <1>7, <2>1
<1> QED  BY <1>8, <1>10, <1>11, <1>12 DEF Balanced

\* Acquiring takes a permit only when nobody waits for one.
LEMMA AcquireKeeps ==
    ASSUME NEW p \in [Callers -> Places], NEW c \in Callers,
           p[c] \in {"outside", "passed", "backoff"},
           permits \in Nat, InLine(p, queue), Balanced(p, permits), Acquire(c, p)
    PROVE  /\ permits' \in Nat
           /\ InLine(pc', queue')
           /\ Balanced(pc', permits')
<1>1. /\ queue \in Seq(Callers) /\ Len(queue) \in Nat
      /\ ~\E i \in 1 .. Len(queue) : queue[i] = c
  BY DEF InLine
<1>2. CASE permits > 0 /\ queue = <<>>
  <2>1. pc' = [p EXCEPT ![c] = "fetching"] /\ permits' = permits - 1 /\ queue' = queue
    BY <1>2 DEF Acquire
  <2>2. InLine(pc', queue')
    BY <2>1 DEF InLine
  <2>3. /\ On(pc', "fetching") = On(p, "fetching") \cup {c}
        /\ c \notin On(p, "fetching")
        /\ On(pc', "granted") = On(p, "granted")
        /\ On(pc', "queued") = {}
    <3>1. Len(queue) = 0
      BY <1>2
    <3>2. \A d \in Callers : p[d] # "queued"
      BY <3>1 DEF InLine
    <3> QED  BY <2>1, <3>2 DEF On
  <2>4. Cardinality(On(pc', "fetching")) = Cardinality(On(p, "fetching")) + 1
    BY <2>3, OnFinite, FS_AddElement
  <2>5. Cardinality(On(p, "granted")) \in Nat /\ Cardinality(On(p, "fetching")) \in Nat
    BY OnFinite
  <2>6. permits' \in Nat
    BY <1>2, <2>1
  <2>7. permits' + Cardinality(On(pc', "fetching")) + Cardinality(On(pc', "granted"))
           = Permits
    BY <1>2, <2>1, <2>3, <2>4, <2>5 DEF Balanced
  <2> QED  BY <2>2, <2>3, <2>6, <2>7 DEF Balanced
<1>3. CASE ~(permits > 0 /\ queue = <<>>)
  <2>1. /\ pc' = [p EXCEPT ![c] = "queued"]
        /\ permits' = permits /\ queue' = Append(queue, c)
    BY <1>3 DEF Acquire
  <2>2. /\ queue' \in Seq(Callers) /\ Len(queue') = Len(queue) + 1
        /\ queue'[Len(queue) + 1] = c
        /\ \A i \in 1 .. Len(queue) : queue'[i] = queue[i]
    BY <1>1, <2>1
  <2>3. \A i \in 1 .. Len(queue') : i \in 1 .. Len(queue) \/ i = Len(queue) + 1
    BY <1>1, <2>2
  <2>4. \A i \in 1 .. Len(queue) : i \in 1 .. Len(queue')
    BY <1>1, <2>2
  <2>5. ASSUME NEW d \in Callers
        PROVE  pc'[d] \in {"queued", "granted"} <=> \E i \in 1 .. Len(queue') : queue'[i] = d
    <3>1. CASE d = c
      <4>1. Len(queue) + 1 \in 1 .. Len(queue')
        BY <1>1, <2>2
      <4> QED  BY <2>1, <2>2, <3>1, <4>1
    <3>2. CASE d # c
      <4>1. pc'[d] = p[d]
        BY <2>1, <3>2
      <4>2. (\E i \in 1 .. Len(queue') : queue'[i] = d)
               <=> \E i \in 1 .. Len(queue) : queue[i] = d
        BY <2>2, <2>3, <2>4, <3>2
      <4> QED  BY <4>1, <4>2 DEF InLine
    <3> QED  BY <3>1, <3>2
  <2>6. \A i, j \in 1 .. Len(queue') : queue'[i] = queue'[j] => i = j
    BY <1>1, <2>2, <2>3 DEF InLine
  <2>7. InLine(pc', queue')
    BY <2>2, <2>5, <2>6 DEF InLine
  <2>8. /\ On(pc', "fetching") = On(p, "fetching")
        /\ On(pc', "granted") = On(p, "granted")
    BY <2>1 DEF On
  <2>9. permits' > 0 => On(pc', "granted") # {}
    <3> SUFFICES ASSUME permits > 0 PROVE On(p, "granted") # {}
      BY <2>1, <2>8
    <3>1. Len(queue) > 0
      BY <1>1, <1>3
    <3>2. 1 \in 1 .. Len(queue) /\ queue[1] \in Callers
      BY <1>1, <3>1
    <3>3. p[queue[1]] \in {"queued", "granted"}
      BY <3>2 DEF InLine
    <3> QED  BY <3>2, <3>3 DEF Balanced, On
  <2> QED  BY <2>1, <2>7, <2>8, <2>9 DEF Balanced
<1> QED  BY <1>2, <1>3

\* The callers that are inside execute.
Inside(p) == Callers \ On(p, "outside")

\* The inductive invariant.  The sum of PermitsAccountedFor is kept only because
\* the queue holds who waits, and the type of the refusals only because the call
\* that reaches the limit is left.
PermitInv ==
    /\ TypeOK
    /\ InLine(pc, queue)
    /\ Balanced(pc, permits)
    /\ pending = Cardinality(Inside(pc))
    /\ \A c \in Inside(pc) : refusals[c] < MaxConsecutive

\* and those inside execute together.
LEMMA InsideFinite ==
    ASSUME NEW p
    PROVE  IsFiniteSet(Inside(p)) /\ Cardinality(Inside(p)) \in Nat
<1>1. Inside(p) \in SUBSET Callers
  BY DEF Inside
<1> QED  BY <1>1, LimiterAssumption, FS_Subset, FS_CardinalityType

\* The value never exceeds the number of permits.
LEMMA PermitsTyped ==
    ASSUME NEW p, NEW value \in Nat, Balanced(p, value)
    PROVE  value \in 0 .. Permits
<1>1. Cardinality(On(p, "granted")) \in Nat /\ Cardinality(On(p, "fetching")) \in Nat
  BY OnFinite
<1> QED  BY <1>1, LimiterAssumption DEF Balanced

\* A call that enters, at the gate or beyond it, keeps the accounts.
LEMMA ExecuteCounts ==
    ASSUME PermitInv, NEW c \in Callers, Execute(c)
    PROVE  PermitInv'
<1> USE DEF PermitInv
<1>1. /\ pc' \in [Callers -> Places]
      /\ permits' \in Nat /\ InLine(pc', queue') /\ Balanced(pc', permits')
      /\ pc'[c] # "outside" /\ \A d \in Callers \ {c} : pc'[d] = pc[d]
  <2>1. CASE open
    <3>1. Acquire(c, pc)
      BY <2>1 DEF Execute
    <3>2. permits \in Nat /\ pc \in [Callers -> Places] /\ pc[c] = "outside"
      BY LimiterAssumption DEF TypeOK, Execute
    <3> QED  BY <3>1, <3>2, AcquireMoves, AcquireKeeps
  <2>2. CASE ~open
    <3>1. pc' = [pc EXCEPT ![c] = "gate"] /\ permits' = permits /\ queue' = queue
      BY <2>2 DEF Execute
    <3>2. /\ permits \in Nat /\ pc[c] = "outside"
          /\ pc \in [Callers -> Places] /\ pc' \in [Callers -> Places]
      BY <3>1, LimiterAssumption DEF TypeOK, Execute, Places
    <3>3. \A place \in {"fetching", "granted", "queued"} : On(pc', place) = On(pc, place)
      BY <3>1, <3>2 DEF On
    <3>4. InLine(pc', queue')
      BY <3>1, <3>2 DEF InLine
    <3>5. Balanced(pc', permits')
      BY <3>1, <3>3 DEF Balanced
    <3> QED  BY <3>1, <3>2, <3>4, <3>5
  <2> QED  BY <2>1, <2>2
<1>2. /\ Inside(pc') = Inside(pc) \cup {c} /\ c \notin Inside(pc)
  BY <1>1 DEF Inside, On, Execute
<1>3. pending' = Cardinality(Inside(pc'))
  BY <1>2, InsideFinite, FS_AddElement DEF Execute
<1>4. pending' \in 0 .. MaxQueue
  BY LimiterAssumption DEF Execute, TypeOK
<1>5. /\ refusals' \in [Callers -> 0 .. MaxConsecutive]
      /\ \A d \in Inside(pc') : refusals'[d] < MaxConsecutive
  BY <1>2, LimiterAssumption DEF Execute, TypeOK, Inside
<1>6. open' \in BOOLEAN
  BY DEF Execute, TypeOK
<1> QED  BY <1>1, <1>3, <1>4, <1>5, <1>6, PermitsTyped DEF TypeOK, InLine

\* So does a caller the event has woken,
LEMMA ProceedCounts ==
    ASSUME PermitInv, NEW c \in Callers, Proceed(c)
    PROVE  PermitInv'
<1> USE DEF PermitInv
<1>1. /\ permits \in Nat /\ pc \in [Callers -> Places] /\ pc[c] = "passed"
      /\ Acquire(c, pc) /\ UNCHANGED <<refusals, open, pending>>
  BY LimiterAssumption DEF TypeOK, Proceed
<1>2. /\ pc' \in [Callers -> Places]
      /\ permits' \in Nat /\ InLine(pc', queue') /\ Balanced(pc', permits')
      /\ pc'[c] # "outside" /\ \A d \in Callers \ {c} : pc'[d] = pc[d]
  BY <1>1, AcquireMoves, AcquireKeeps
<1>3. Inside(pc') = Inside(pc)
  BY <1>1, <1>2 DEF Inside, On
<1> QED  BY <1>1, <1>2, <1>3, PermitsTyped DEF TypeOK, InLine

\* one that opens the gate after its sleep
LEMMA BackoffOverCounts ==
    ASSUME PermitInv, NEW c \in Callers, BackoffOver(c)
    PROVE  PermitInv'
<1> USE DEF PermitInv
<1> DEFINE p == [d \in Callers |-> IF pc[d] = "gate" THEN "passed" ELSE pc[d]]
<1>1. /\ permits \in Nat /\ pc \in [Callers -> Places] /\ pc[c] = "backoff"
      /\ Acquire(c, p) /\ UNCHANGED <<refusals, pending>> /\ open'
  BY LimiterAssumption DEF TypeOK, BackoffOver
<1>2. p \in [Callers -> Places] /\ p[c] = "backoff"
  BY <1>1 DEF Places
<1>3. \A place \in {"fetching", "granted", "queued", "outside"} : On(p, place) = On(pc, place)
  BY <1>1 DEF On
<1>4. InLine(p, queue)
  BY <1>1 DEF InLine
<1>5. Balanced(p, permits)
  BY <1>3 DEF Balanced
<1> HIDE DEF p
<1>6. /\ pc' \in [Callers -> Places]
      /\ permits' \in Nat /\ InLine(pc', queue') /\ Balanced(pc', permits')
      /\ pc'[c] # "outside" /\ \A d \in Callers \ {c} : pc'[d] = p[d]
  BY <1>1, <1>2, <1>4, <1>5, AcquireMoves, AcquireKeeps
<1>7. Inside(pc') = Inside(pc)
  <2>1. Inside(pc') = Inside(p)
    BY <1>2, <1>6 DEF Inside, On
  <2> QED  BY <2>1, <1>3 DEF Inside
<1> QED  BY <1>1, <1>6, <1>7, PermitsTyped DEF TypeOK, InLine

\* and one that was woken by the semaphore, which takes its own permit and hands
\* on those it finds.
LEMMA StartGrantedCounts ==
    ASSUME PermitInv, NEW c \in Callers, StartGranted(c)
    PROVE  PermitInv'
<1> USE DEF PermitInv
<1> DEFINE p == [pc EXCEPT ![c] = "fetching"]
           q == Tail(queue)
<1>1. /\ permits \in Nat /\ pc \in [Callers -> Places] /\ pc[c] = "granted"
      /\ Head(queue) = c /\ queue' = q
      /\ HandOut(p, q, permits, 0) /\ UNCHANGED <<refusals, open, pending>>
  BY LimiterAssumption DEF TypeOK, StartGranted
<1>2. p \in [Callers -> Places]
  BY <1>1 DEF Places
<1>3. /\ queue \in Seq(Callers) /\ Len(queue) \in Nat /\ Len(queue) > 0
      /\ queue[1] = c
  <2>1. queue \in Seq(Callers) /\ Len(queue) \in Nat
    BY DEF InLine
  <2>2. \E i \in 1 .. Len(queue) : queue[i] = c
    BY <1>1 DEF InLine
  <2>3. Len(queue) > 0
    BY <2>1, <2>2
  <2> QED  BY <1>1, <2>1, <2>3
<1>4. /\ q \in Seq(Callers) /\ Len(q) = Len(queue) - 1
      /\ \A i \in 1 .. Len(q) : i + 1 \in 1 .. Len(queue) /\ q[i] = queue[i + 1]
  BY <1>3
<1>5. InLine(p, q)
  <2>1. ASSUME NEW d \in Callers
        PROVE  p[d] \in {"queued", "granted"} <=> \E i \in 1 .. Len(q) : q[i] = d
    <3>1. CASE d = c
      <4>1. ASSUME NEW i \in 1 .. Len(q) PROVE q[i] # c
        <5>1. 1 \in 1 .. Len(queue) /\ i + 1 \in 1 .. Len(queue) /\ i + 1 # 1
          BY <1>3, <1>4
        <5> QED  BY <1>3, <1>4, <5>1 DEF InLine
      <4> QED  BY <1>1, <3>1, <4>1
    <3>2. CASE d # c
      <4>1. ASSUME NEW i \in 1 .. Len(queue), queue[i] = d
            PROVE  i - 1 \in 1 .. Len(q) /\ q[i - 1] = d
        <5>1. i - 1 \in 1 .. Len(q) /\ (i - 1) + 1 = i
          BY <1>3, <1>4, <3>2, <4>1
        <5> QED  BY <1>4, <4>1, <5>1
      <4>2. (\E i \in 1 .. Len(q) : q[i] = d) <=> \E i \in 1 .. Len(queue) : queue[i] = d
        BY <1>4, <4>1
      <4>3. p[d] = pc[d]
        BY <1>1, <3>2
      <4> QED  BY <4>2, <4>3 DEF InLine
    <3> QED  BY <3>1, <3>2
  <2>2. ASSUME NEW i \in 1 .. Len(q), NEW j \in 1 .. Len(q), q[i] = q[j]
        PROVE  i = j
    <3>1. i + 1 = j + 1
      BY <1>4, <2>2 DEF InLine
    <3> QED  BY <1>3, <1>4, <3>1
  <2> QED  BY <1>4, <2>1, <2>2 DEF InLine
<1>6. /\ On(p, "fetching") = On(pc, "fetching") \cup {c} /\ c \notin On(pc, "fetching")
      /\ On(p, "granted") = On(pc, "granted") \ {c} /\ c \in On(pc, "granted")
  BY <1>1 DEF On
<1> HIDE DEF p, q
<1>7. permits + Cardinality(On(p, "fetching")) + Cardinality(On(p, "granted")) = Permits
  <2>1. /\ IsFiniteSet(On(pc, "fetching")) /\ Cardinality(On(pc, "fetching")) \in Nat
        /\ IsFiniteSet(On(pc, "granted")) /\ Cardinality(On(pc, "granted")) \in Nat
    BY OnFinite
  <2>2. Cardinality(On(p, "fetching")) = Cardinality(On(pc, "fetching")) + 1
    BY <1>6, <2>1, FS_AddElement
  <2>3. Cardinality(On(p, "granted")) = Cardinality(On(pc, "granted")) - 1
    BY <1>6, <2>1, FS_RemoveElement
  <2> QED  BY <1>1, <2>1, <2>2, <2>3 DEF Balanced
<1>8. permits' \in Nat /\ InLine(pc', queue') /\ Balanced(pc', permits')
  <2>1. 0 + permits + Cardinality(On(p, "fetching")) + Cardinality(On(p, "granted"))
           = Permits
    BY <1>1, <1>7
  <2> QED  BY <1>1, <1>2, <1>5, <2>1, HandOutKeeps
<1>9. /\ pc' \in [Callers -> Places]
      /\ \A d \in Callers : pc'[d] = p[d] \/ (p[d] = "queued" /\ pc'[d] = "granted")
  BY <1>1, <1>2, HandOutMoves
<1>10. Inside(pc') = Inside(pc)
  BY <1>1, <1>9 DEF Inside, On, p
<1> QED  BY <1>1, <1>8, <1>9, <1>10, PermitsTyped DEF TypeOK, InLine

\* A permit that is released becomes the value or goes to the first that waits.
LEMMA ReleaseKeeps ==
    ASSUME PermitInv, NEW c \in Callers, pc[c] = "fetching",
           NEW place \in {"outside", "backoff"}, Release(c, place)
    PROVE  permits' \in Nat /\ InLine(pc', queue) /\ Balanced(pc', permits')
<1> USE DEF PermitInv
<1> DEFINE p == [pc EXCEPT ![c] = place]
<1>1. /\ permits \in Nat /\ pc \in [Callers -> Places]
      /\ HandOut(p, queue, 1, permits)
  BY LimiterAssumption DEF TypeOK, Release
<1>2. p \in [Callers -> Places]
  BY <1>1 DEF Places
<1>3. InLine(p, queue)
  BY <1>1 DEF InLine
<1>4. /\ On(p, "fetching") = On(pc, "fetching") \ {c} /\ c \in On(pc, "fetching")
      /\ On(p, "granted") = On(pc, "granted")
  BY <1>1 DEF On
<1> HIDE DEF p
<1>5. permits + 1 + Cardinality(On(p, "fetching")) + Cardinality(On(p, "granted"))
         = Permits
  <2>1. /\ IsFiniteSet(On(pc, "fetching")) /\ Cardinality(On(pc, "fetching")) \in Nat
        /\ Cardinality(On(pc, "granted")) \in Nat
    BY OnFinite
  <2>2. Cardinality(On(p, "fetching")) = Cardinality(On(pc, "fetching")) - 1
    BY <1>4, <2>1, FS_RemoveElement
  <2> QED  BY <1>1, <1>4, <2>1, <2>2 DEF Balanced
<1> QED  BY <1>1, <1>2, <1>3, <1>5, HandOutKeeps

\* A call that is left is one fewer inside.
LEMMA LeavingCounts ==
    ASSUME PermitInv, NEW c \in Callers, pc[c] = "fetching",
           pc' \in [Callers -> Places], pc'[c] = "outside",
           \A d \in Callers \ {c} :
              pc'[d] = pc[d] \/ (pc[d] = "queued" /\ pc'[d] = "granted")
    PROVE  /\ Inside(pc') = Inside(pc) \ {c}
           /\ pending - 1 = Cardinality(Inside(pc'))
           /\ pending - 1 \in 0 .. MaxQueue
<1>1. Inside(pc') = Inside(pc) \ {c} /\ c \in Inside(pc)
  BY DEF Inside, On
<1>2. IsFiniteSet(Inside(pc)) /\ Cardinality(Inside(pc)) \in Nat
  BY InsideFinite
<1>3. Cardinality(Inside(pc')) = Cardinality(Inside(pc)) - 1
  BY <1>1, <1>2, FS_RemoveElement
<1>4. Cardinality(Inside(pc')) \in Nat
  BY InsideFinite
<1> QED  BY <1>1, <1>2, <1>3, <1>4, LimiterAssumption DEF PermitInv, TypeOK

\* A fetch that ends keeps the accounts,
LEMMA AnsweredCounts ==
    ASSUME PermitInv, NEW c \in Callers, Answered(c)
    PROVE  PermitInv'
<1> USE DEF PermitInv
<1>1. /\ pc \in [Callers -> Places] /\ pc[c] = "fetching" /\ Release(c, "outside")
      /\ pending' = pending - 1 /\ UNCHANGED <<refusals, open, queue>>
  BY DEF TypeOK, Answered
<1>2. permits' \in Nat /\ InLine(pc', queue) /\ Balanced(pc', permits')
  BY <1>1, ReleaseKeeps
<1>3. /\ pc' \in [Callers -> Places] /\ pc'[c] = "outside"
      /\ \A d \in Callers \ {c} :
            pc'[d] = pc[d] \/ (pc[d] = "queued" /\ pc'[d] = "granted")
  BY <1>1, ReleaseMoves DEF Places
<1>4. /\ Inside(pc') = Inside(pc) \ {c}
      /\ pending' = Cardinality(Inside(pc')) /\ pending' \in 0 .. MaxQueue
  BY <1>1, <1>3, LeavingCounts
<1> QED  BY <1>1, <1>2, <1>3, <1>4, PermitsTyped DEF TypeOK

\* and so does one that is refused, whether the call is left or sleeps.
LEMMA RefusedCounts ==
    ASSUME PermitInv, NEW c \in Callers, Refused(c)
    PROVE  PermitInv'
<1> USE DEF PermitInv
<1>1. /\ pc \in [Callers -> Places] /\ pc[c] = "fetching"
      /\ refusals' = [refusals EXCEPT ![c] = @ + 1] /\ queue' = queue
  BY DEF TypeOK, Refused
<1>2. c \in Inside(pc) /\ refusals[c] \in Nat /\ refusals[c] < MaxConsecutive
  BY <1>1, LimiterAssumption DEF Inside, On, TypeOK
<1>3. /\ refusals' \in [Callers -> 0 .. MaxConsecutive]
      /\ refusals'[c] = refusals[c] + 1
      /\ \A d \in Callers \ {c} : refusals'[d] = refusals[d]
  BY <1>1, <1>2, LimiterAssumption DEF TypeOK
<1>4. CASE refusals[c] + 1 >= MaxConsecutive
  <2>1. Release(c, "outside") /\ pending' = pending - 1 /\ open' = open
    BY <1>4 DEF Refused
  <2>2. permits' \in Nat /\ InLine(pc', queue) /\ Balanced(pc', permits')
    BY <1>1, <2>1, ReleaseKeeps
  <2>3. /\ pc' \in [Callers -> Places] /\ pc'[c] = "outside"
        /\ \A d \in Callers \ {c} :
              pc'[d] = pc[d] \/ (pc[d] = "queued" /\ pc'[d] = "granted")
    BY <1>1, <2>1, ReleaseMoves DEF Places
  <2>4. /\ Inside(pc') = Inside(pc) \ {c}
        /\ pending' = Cardinality(Inside(pc')) /\ pending' \in 0 .. MaxQueue
    BY <1>1, <2>1, <2>3, LeavingCounts
  <2>5. \A d \in Inside(pc') : refusals'[d] < MaxConsecutive
    BY <1>3, <2>4 DEF Inside
  <2> QED  BY <1>1, <1>3, <2>1, <2>2, <2>3, <2>4, <2>5, PermitsTyped DEF TypeOK
<1>5. CASE ~(refusals[c] + 1 >= MaxConsecutive)
  <2>1. Release(c, "backoff") /\ pending' = pending /\ open' = FALSE
    BY <1>5 DEF Refused
  <2>2. permits' \in Nat /\ InLine(pc', queue) /\ Balanced(pc', permits')
    BY <1>1, <2>1, ReleaseKeeps
  <2>3. /\ pc' \in [Callers -> Places] /\ pc'[c] = "backoff"
        /\ \A d \in Callers \ {c} :
              pc'[d] = pc[d] \/ (pc[d] = "queued" /\ pc'[d] = "granted")
    BY <1>1, <2>1, ReleaseMoves DEF Places
  <2>4. Inside(pc') = Inside(pc)
    BY <1>1, <2>3 DEF Inside, On
  <2>5. \A d \in Inside(pc') : refusals'[d] < MaxConsecutive
    BY <1>2, <1>3, <1>5, <2>4, LimiterAssumption DEF Inside
  <2> QED  BY <1>1, <1>3, <2>1, <2>2, <2>3, <2>4, <2>5, PermitsTyped DEF TypeOK
<1> QED  BY <1>4, <1>5

\* Every step keeps the accounts,
LEMMA PermitStep ==
    ASSUME PermitInv, [Next]_vars
    PROVE  PermitInv'
<1>1. CASE UNCHANGED vars
  BY <1>1 DEF vars, PermitInv, TypeOK, InLine, Balanced, Inside, On
<1> QED
  BY <1>1, ExecuteCounts, ProceedCounts, StartGrantedCounts, AnsweredCounts,
     RefusedCounts, BackoffOverCounts DEF Next, Step

\* and they are right at the start.
LEMMA PermitInit ==
    ASSUME Init
    PROVE  PermitInv
<1>1. TypeOK
  BY LimiterAssumption DEF Init, TypeOK, Places
<1>2. /\ On(pc, "fetching") = {} /\ On(pc, "granted") = {} /\ On(pc, "queued") = {}
      /\ Inside(pc) = {}
  BY DEF Init, On, Inside
<1>3. InLine(pc, queue)
  BY DEF Init, InLine
<1>4. Balanced(pc, permits)
  <2>1. Cardinality(On(pc, "fetching")) = 0 /\ Cardinality(On(pc, "granted")) = 0
    BY <1>2, FS_EmptySet
  <2>2. permits = Permits /\ Permits \in Nat
    BY LimiterAssumption DEF Init
  <2> QED  BY <1>2, <2>1, <2>2 DEF Balanced
<1>5. pending = Cardinality(Inside(pc))
  BY <1>2, FS_EmptySet DEF Init
<1> QED  BY <1>1, <1>2, <1>3, <1>4, <1>5 DEF PermitInv

\* The semaphore's value stays between zero and max_concurrency, the pending
\* calls within the queue, and no call is refused more than
\* _MAX_CONSECUTIVE_429 times (execute, RateLimitExhaustedError).
THEOREM LimiterTypes == Spec => []TypeOK
<1>1. PermitInv => TypeOK
  BY DEF PermitInv
<1> QED  BY <1>1, PermitInit, PermitStep, PTL DEF Spec

\* No permit is lost or made up, and none is idle while a caller waits and nobody
\* was woken to hand it on, for any number of callers and permits (the semaphore
\* that execute holds around every fetch).
THEOREM PermitsKept == Spec => []PermitsAccountedFor
<1>1. PermitInv => PermitsAccountedFor
  BY DEF PermitInv, Balanced, PermitsAccountedFor, Inside, On, At
<1> QED  BY <1>1, PermitInit, PermitStep, PTL DEF Spec
=============================================================================
