-------------------------- MODULE PageStoreProofs ---------------------------
(***************************************************************************)
(* For any workers, pages and number of write calls: files are as the      *)
(* completed URLs say, up to writes that were cut short, and what is       *)
(* written and left alone stays.                                           *)
(***************************************************************************)
EXTENDS PageStore, TLAPS

LEMMA ChunkFacts == Chunks \in Nat /\ 1 \in 1 .. Chunks /\ 1 \in 1 .. Chunks + 1
BY PageAssumption, SMT

LEMMA FreeTyped ==
    Free \in [pc : {"free", "process", "check", "open", "write", "stored"},
              page : Pages \cup {Null}, file : Files \cup {Null}, next : 1 .. Chunks + 1]
BY ChunkFacts DEF Free

LEMMA InitInv == Init => IInv
<1> SUFFICES ASSUME Init PROVE IInv
  OBVIOUS
<1>1. TypeOK
  BY FreeTyped, PageAssumption DEF Init, TypeOK
<1>2. JobsInOrder /\ OpenedAtStart /\ WrittenByFollows /\ ContentOnDisk
  BY ChunkFacts DEF Init, Free, JobsInOrder, OpenedAtStart, WrittenByFollows, Missing, ContentOnDisk
<1>3. QED
  BY <1>1, <1>2 DEF IInv

\* A report of a file that exists keeps the invariant.
LEMMA ReportInv ==
    ASSUME IInv, NEW w \in Workers, NEW state, NEW content, Report(w, state, content),
           job[w].pc # "free",
           state \in {"Pending", "Completed", "Terminal_Failed"},
           content \in Files \cup {Null},
           content # Null => disk[content] # Null,
           state = "Completed" => content # Null,
           UNCHANGED disk,
           \/ UNCHANGED cut /\ job[w].pc # "write"
           \/ job[w].pc = "write" /\ cut' = cut \cup {job[w].file},
           interrupts' \in 0 .. MaxInterrupts
    PROVE  IInv'
<1> DEFINE p == job[w].page
<1>1. p \in Pages /\ job[w].file \in Files
  BY DEF IInv, JobsInOrder
<1>2. row' = IF row[p].holder = w
             THEN [row EXCEPT ![p] = [state |-> state, holder |-> Null, content |-> content]]
             ELSE row
  BY DEF Report
<1>3. job' = [job EXCEPT ![w] = Free]
  BY DEF Report
<1>4. TypeOK'
  <2>1. row' \in [Pages -> [state : {"Pending", "In_Progress", "Completed", "Terminal_Failed"},
                          holder : Workers \cup {Null}, content : Files \cup {Null}]]
    BY <1>1, <1>2 DEF IInv, TypeOK
  <2>2. QED
    BY <1>1, <1>3, <2>1, FreeTyped DEF IInv, TypeOK
<1>5. JobsInOrder' /\ OpenedAtStart'
  BY <1>3, ChunkFacts DEF IInv, TypeOK, JobsInOrder, OpenedAtStart, Free
<1>6. WrittenByFollows'
  <2>1. SUFFICES ASSUME NEW f \in Files \ cut', NEW c \in Missing(f)'
                 PROVE  \E v \in Workers : job'[v].pc = "write" /\ job'[v].file = f /\ job'[v].next <= c
    BY DEF WrittenByFollows
  <2>2. PICK v \in Workers : job[v].pc = "write" /\ job[v].file = f /\ job[v].next <= c
    BY <2>1 DEF IInv, WrittenByFollows, Missing
  <2>3. v # w
    BY <2>1, <2>2
  <2>4. QED
    BY <1>3, <2>2, <2>3 DEF IInv, TypeOK
<1>7. ContentOnDisk'
  BY <1>1, <1>2 DEF IInv, TypeOK, ContentOnDisk
<1>8. QED
  BY <1>4, <1>5, <1>6, <1>7 DEF IInv

LEMMA FetchInv ==
    ASSUME IInv, NEW w \in Workers, NEW p \in Pages, Fetch(w, p)
    PROVE  IInv'
<1>1. PICK f \in Files :
         job' = [job EXCEPT ![w] = [pc |-> "process", page |-> p, file |-> f, next |-> 1]]
  BY PageAssumption DEF Fetch
<1>2. TypeOK'
  <2>1. row' = [row EXCEPT ![p] = [row[p] EXCEPT !.state = "In_Progress", !.holder = w]]
    BY DEF Fetch, IInv, TypeOK
  <2>2. QED
    BY <1>1, <2>1, ChunkFacts DEF Fetch, IInv, TypeOK
<1>3. JobsInOrder' /\ OpenedAtStart' /\ ContentOnDisk'
  BY <1>1, ChunkFacts DEF Fetch, IInv, TypeOK, JobsInOrder, OpenedAtStart, ContentOnDisk
<1>4. WrittenByFollows'
  BY <1>1 DEF Fetch, IInv, TypeOK, WrittenByFollows, Missing
<1>5. QED
  BY <1>2, <1>3, <1>4 DEF IInv

\* Steps that change nothing but the place of a worker that is not writing.
LEMMA GotoInv ==
    ASSUME IInv, NEW w \in Workers, NEW pc \in {"check", "open", "stored"},
           job[w].pc \in {"process", "check"},
           pc = "stored" => disk[job[w].file] # Null,
           Goto(w, pc), UNCHANGED <<disk, row, cut, interrupts>>
    PROVE  IInv'
<1>1. TypeOK' /\ ContentOnDisk'
  BY DEF Goto, IInv, TypeOK, ContentOnDisk
<1>2. JobsInOrder' /\ OpenedAtStart'
  BY DEF Goto, IInv, TypeOK, JobsInOrder, OpenedAtStart
<1>3. WrittenByFollows'
  BY DEF Goto, IInv, TypeOK, WrittenByFollows, Missing
<1>4. QED
  BY <1>1, <1>2, <1>3 DEF IInv

LEMMA ProcessInv ==
    ASSUME IInv, NEW w \in Workers, Process(w)
    PROVE  IInv'
<1> DEFINE content == row[job[w].page].content
<1>1. CASE Report(w, "Terminal_Failed", content)
  <2>1. content \in Files \cup {Null} /\ (content # Null => disk[content] # Null)
    BY DEF Process, IInv, TypeOK, JobsInOrder, ContentOnDisk
  <2>2. QED
    BY <1>1, <2>1, ReportInv DEF Process, IInv, TypeOK
<1>2. CASE Goto(w, "check") /\ UNCHANGED row
  BY <1>2, GotoInv DEF Process
<1>3. QED
  BY <1>1, <1>2 DEF Process

LEMMA CheckInv ==
    ASSUME IInv, NEW w \in Workers, CheckExists(w)
    PROVE  IInv'
BY GotoInv DEF CheckExists

LEMMA OpenInv ==
    ASSUME IInv, NEW w \in Workers, Open(w)
    PROVE  IInv'
<1> DEFINE g == job[w].file
<1>1. g \in Files /\ job[w].next \in 1 .. Chunks /\ job[w].pc = "open"
  BY DEF Open, IInv, JobsInOrder
<1>2. disk' = [disk EXCEPT ![g] = {}] /\ {} # Null
  BY PageAssumption DEF Open
<1>3. job' = [job EXCEPT ![w].pc = "write"]
  BY DEF Open, Goto
<1>4. TypeOK'
  BY <1>1, <1>2, <1>3 DEF Open, IInv, TypeOK
<1>5. JobsInOrder' /\ ContentOnDisk'
  BY <1>1, <1>2, <1>3 DEF Open, IInv, TypeOK, JobsInOrder, ContentOnDisk
<1>6. WrittenByFollows'
  <2>1. SUFFICES ASSUME NEW f \in Files \ cut, NEW c \in Missing(f)'
                 PROVE  \E v \in Workers : job'[v].pc = "write" /\ job'[v].file = f /\ job'[v].next <= c
    BY DEF WrittenByFollows, Open
  <2>2. CASE f = g
    <3>1. job[w].next = 1
      BY <1>1 DEF IInv, OpenedAtStart
    <3>2. c \in 1 .. Chunks
      BY <1>2, <2>1, <2>2 DEF Missing, IInv, TypeOK
    <3>3. job'[w].pc = "write" /\ job'[w].file = f /\ job'[w].next = 1
      BY <1>3, <2>2, <3>1 DEF IInv, TypeOK
    <3>4. QED
      BY <3>2, <3>3, PageAssumption
  <2>3. CASE f # g
    <3>1. c \in Missing(f)
      BY <1>2, <2>1, <2>3 DEF Missing, IInv, TypeOK
    <3>2. PICK v \in Workers : job[v].pc = "write" /\ job[v].file = f /\ job[v].next <= c
      BY <3>1 DEF IInv, WrittenByFollows
    <3>3. QED
      BY <1>1, <1>3, <3>2 DEF IInv, TypeOK
  <2>4. QED
    BY <2>2, <2>3
<1>7. OpenedAtStart'
  BY <1>3 DEF IInv, TypeOK, OpenedAtStart
<1>8. QED
  BY <1>4, <1>5, <1>6, <1>7 DEF IInv

LEMMA WriteInv ==
    ASSUME IInv, NEW w \in Workers, Write(w)
    PROVE  IInv'
<1> DEFINE g == job[w].file
           n == job[w].next
<1>1. g \in Files /\ n \in 1 .. Chunks /\ job[w].pc = "write" /\ disk[g] # Null
  BY DEF Write, IInv, JobsInOrder
<1>2. disk' = [disk EXCEPT ![g] = disk[g] \cup {n}]
  BY DEF Write
<1>3. job' = [job EXCEPT ![w] = [job[w] EXCEPT !.next = n + 1,
                                    !.pc = IF n = Chunks THEN "stored" ELSE "write"]]
  BY DEF Write, IInv, TypeOK
<1>4. disk[g] \cup {n} \in SUBSET (1 .. Chunks) /\ disk[g] \cup {n} # Null
  BY <1>1, PageAssumption DEF IInv, TypeOK
<1>5. n + 1 \in 1 .. Chunks + 1 /\ (n # Chunks => n + 1 \in 1 .. Chunks)
  BY <1>1, PageAssumption
<1>6. TypeOK'
  BY <1>1, <1>2, <1>3, <1>4, <1>5 DEF Write, IInv, TypeOK
<1>7. JobsInOrder' /\ ContentOnDisk' /\ OpenedAtStart'
  BY <1>1, <1>2, <1>3, <1>4, <1>5
     DEF Write, IInv, TypeOK, JobsInOrder, ContentOnDisk, OpenedAtStart
<1>8. WrittenByFollows'
  <2>1. SUFFICES ASSUME NEW f \in Files \ cut, NEW c \in Missing(f)'
                 PROVE  \E v \in Workers : job'[v].pc = "write" /\ job'[v].file = f /\ job'[v].next <= c
    BY DEF WrittenByFollows, Write
  <2>2. c \in Missing(f) /\ (f = g => c # n) /\ c \in 1 .. Chunks
    BY <1>1, <1>2, <1>4, <2>1 DEF Missing, IInv, TypeOK
  <2>3. PICK v \in Workers : job[v].pc = "write" /\ job[v].file = f /\ job[v].next <= c
    BY <2>2 DEF IInv, WrittenByFollows
  <2>4. CASE v = w
    <3>1. n < c /\ n # Chunks /\ n + 1 <= c
      BY <1>1, <2>2, <2>3, <2>4, PageAssumption
    <3>2. QED
      BY <1>3, <2>3, <2>4, <3>1 DEF IInv, TypeOK
  <2>5. CASE v # w
    BY <1>3, <2>3, <2>5 DEF IInv, TypeOK
  <2>6. QED
    BY <2>4, <2>5
<1>9. QED
  BY <1>6, <1>7, <1>8 DEF IInv

LEMMA CompleteInv ==
    ASSUME IInv, NEW w \in Workers, Complete(w)
    PROVE  IInv'
<1>1. job[w].file \in Files /\ job[w].file # Null /\ disk[job[w].file] # Null
  BY PageAssumption DEF Complete, IInv, JobsInOrder
<1>2. QED
  BY <1>1, ReportInv DEF Complete, IInv, TypeOK

LEMMA WriteFailsInv ==
    ASSUME IInv, NEW w \in Workers, WriteFails(w)
    PROVE  IInv'
<1> DEFINE content == row[job[w].page].content
<1>1. content \in Files \cup {Null} /\ (content # Null => disk[content] # Null)
  BY DEF WriteFails, IInv, TypeOK, JobsInOrder, ContentOnDisk
<1>2. interrupts' \in 0 .. MaxInterrupts
  BY PageAssumption DEF WriteFails, IInv, TypeOK
<1>3. QED
  BY <1>1, <1>2, ReportInv DEF WriteFails

LEMMA ExpireInv ==
    ASSUME IInv, NEW p \in Pages, Expire(p)
    PROVE  IInv'
<1>1. row' = [row EXCEPT ![p] = [row[p] EXCEPT !.state = "Pending", !.holder = Null]]
  BY DEF Expire, IInv, TypeOK
<1>2. TypeOK' /\ ContentOnDisk'
  BY <1>1 DEF Expire, IInv, TypeOK, ContentOnDisk
<1>3. JobsInOrder' /\ WrittenByFollows' /\ OpenedAtStart'
  BY DEF Expire, IInv, JobsInOrder, WrittenByFollows, Missing, OpenedAtStart
<1>4. QED
  BY <1>2, <1>3 DEF IInv

LEMMA CrashInv ==
    ASSUME IInv, Crash
    PROVE  IInv'
<1>1. interrupts' \in 0 .. MaxInterrupts
  <2>1. interrupts < MaxInterrupts /\ interrupts' = interrupts + 1
    BY DEF Crash
  <2>2. QED
    BY <2>1, PageAssumption DEF IInv, TypeOK
<1>2. cut' \subseteq Files
  BY DEF Crash, IInv, TypeOK, JobsInOrder
<1>3. \A p \in Pages :
         row'[p] = IF row[p].state = "In_Progress"
                   THEN [row[p] EXCEPT !.state = "Pending", !.holder = Null] ELSE row[p]
  BY DEF Crash
<1>4. TypeOK'
  <2>1. row' \in [Pages -> [state : {"Pending", "In_Progress", "Completed", "Terminal_Failed"},
                            holder : Workers \cup {Null}, content : Files \cup {Null}]]
    <3> DEFINE after(p) == IF row[p].state = "In_Progress"
                           THEN [row[p] EXCEPT !.state = "Pending", !.holder = Null] ELSE row[p]
    <3>1. row' = [p \in Pages |-> after(p)]
      BY DEF Crash
    <3>2. \A p \in Pages :
            after(p) \in [state : {"Pending", "In_Progress", "Completed", "Terminal_Failed"},
                          holder : Workers \cup {Null}, content : Files \cup {Null}]
      BY DEF IInv, TypeOK
    <3> HIDE DEF after
    <3>3. QED
      BY <3>1, <3>2
  <2>2. job' = [w \in Workers |-> Free] /\ disk' = disk
    BY DEF Crash
  <2>3. QED
    BY <1>1, <1>2, <2>1, <2>2, FreeTyped DEF IInv, TypeOK
<1>5. ContentOnDisk'
  <2>1. \A p \in Pages : row'[p].content = row[p].content
                          /\ (row'[p].state = "Completed" => row[p].state = "Completed")
    BY <1>3 DEF IInv, TypeOK
  <2>2. QED
    BY <2>1 DEF Crash, IInv, ContentOnDisk
<1>6. JobsInOrder' /\ OpenedAtStart'
  <2>1. job' = [w \in Workers |-> Free]
    BY DEF Crash
  <2>2. QED
    BY <2>1, ChunkFacts DEF Free, JobsInOrder, OpenedAtStart
<1>7. WrittenByFollows'
  <2>1. SUFFICES ASSUME NEW f \in Files \ cut', NEW c \in Missing(f)' PROVE FALSE
    BY DEF WrittenByFollows
  <2>2. f \notin cut /\ c \in Missing(f)
    BY <2>1 DEF Crash, Missing
  <2>3. PICK v \in Workers : job[v].pc = "write" /\ job[v].file = f
    BY <2>2 DEF IInv, WrittenByFollows
  <2>4. QED
    BY <2>1, <2>3 DEF Crash
<1>8. QED
  BY <1>4, <1>5, <1>6, <1>7 DEF IInv

LEMMA NextInv == IInv /\ [Next]_vars => IInv'
<1> SUFFICES ASSUME IInv, [Next]_vars PROVE IInv'
  OBVIOUS
<1>1. CASE \E w \in Workers, p \in Pages : Fetch(w, p)
  BY <1>1, FetchInv
<1>2. CASE \E w \in Workers : Step(w)
  BY <1>2, ProcessInv, CheckInv, OpenInv, WriteInv, CompleteInv DEF Step
<1>3. CASE \E w \in Workers : WriteFails(w)
  BY <1>3, WriteFailsInv
<1>4. CASE \E p \in Pages : Expire(p)
  BY <1>4, ExpireInv
<1>5. CASE Crash
  BY <1>5, CrashInv
<1>6. CASE UNCHANGED vars
  BY <1>6 DEF vars, IInv, TypeOK, JobsInOrder, WrittenByFollows, Missing, ContentOnDisk,
              OpenedAtStart
<1>7. QED
  BY <1>1, <1>2, <1>3, <1>4, <1>5, <1>6 DEF Next

\* The inductive invariant holds of every reachable state.
THEOREM Invariance == Spec => []IInv
BY InitInv, NextInv, PTL DEF Spec

-----------------------------------------------------------------------------

\* write_file_if_not_exists and mark_completed: what a completed URL refers to
\* is on disk and whole, except while somebody is at it or after a write that
\* was cut short.
THEOREM CompletedAreWhole == Spec => []CompletedFilesWhole
<1>1. IInv => CompletedFilesWhole
  <2> SUFFICES ASSUME IInv, NEW p \in Pages, row[p].state = "Completed"
               PROVE  LET f == row[p].content
                      IN  disk[f] # Null /\ (Missing(f) = {} \/ Busy(f) \/ f \in cut)
    BY DEF CompletedFilesWhole
  <2> DEFINE f == row[p].content
  <2>1. f \in Files /\ disk[f] # Null
    BY DEF IInv, TypeOK, ContentOnDisk
  <2>2. CASE f \notin cut /\ Missing(f) # {}
    BY <2>1, <2>2 DEF IInv, WrittenByFollows, Busy
  <2>3. QED
    BY <2>1, <2>2
<1>2. QED
  BY <1>1, Invariance, PTL

\* write_file_if_not_exists: a file that is there and that nobody is at is never
\* opened again.
THEOREM FilesSettle == Spec => FilesSettleForGood
<1>1. ASSUME IInv, [Next]_vars, NEW f \in Files, disk[f] # Null, ~Busy(f)
      PROVE  disk'[f] = disk[f] /\ ~Busy(f)'
  <2>1. CASE UNCHANGED vars
    BY <1>1, <2>1 DEF vars, Busy
  <2>2. CASE \E w \in Workers, p \in Pages : Fetch(w, p)
    BY <1>1, <2>2 DEF Fetch, Busy, IInv, TypeOK
  <2>3. CASE \E w \in Workers : Process(w)
    BY <1>1, <2>3 DEF Process, Report, Goto, Free, Busy, IInv, TypeOK
  <2>4. CASE \E w \in Workers : CheckExists(w)
    BY <1>1, <2>4 DEF CheckExists, Goto, Busy, IInv, TypeOK
  <2>5. CASE \E w \in Workers : Open(w)
    BY <1>1, <2>5 DEF Open, Goto, Busy, IInv, TypeOK
  <2>6. CASE \E w \in Workers : Write(w)
    BY <1>1, <2>6 DEF Write, Busy, IInv, TypeOK
  <2>7. CASE \E w \in Workers : Complete(w) \/ WriteFails(w)
    BY <1>1, <2>7 DEF Complete, WriteFails, Report, Free, Busy, IInv, TypeOK
  <2>8. CASE \E p \in Pages : Expire(p)
    BY <1>1, <2>8 DEF Expire, Busy
  <2>9. CASE Crash
    <3>1. job' = [w \in Workers |-> Free] /\ disk' = disk
      BY <2>9 DEF Crash
    <3>2. QED
      BY <3>1 DEF Free, Busy
  <2>10. QED
    BY <1>1, <2>1, <2>2, <2>3, <2>4, <2>5, <2>6, <2>7, <2>8, <2>9 DEF Next, Step
<1>2. IInv /\ [Next]_vars =>
        [\A f \in Files : disk[f] # Null /\ ~Busy(f) => disk'[f] = disk[f] /\ ~Busy(f)']_vars
  BY <1>1
<1>3. QED
  BY <1>2, Invariance, PTL DEF Spec, FilesSettleForGood
=============================================================================
