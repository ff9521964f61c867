----------------------------- MODULE PageStore ------------------------------
(***************************************************************************)
(* The files of crawled content.  A processor names a file for the SHA-256 *)
(* hash of the body and, for images and videos, for the content type, and  *)
(* writes it unless it exists (write_file_if_not_exists); then the URL is  *)
(* reported completed with that hash.  Pages with the same body share the  *)
(* file, and several workers may be at it at once: os.path.exists runs in  *)
(* the event loop, opening and writing in threads, so anything may happen  *)
(* between the check and the open, which truncates.                        *)
(*                                                                         *)
(* The bytes of a body are the chunks 1 .. Chunks, written in order at the *)
(* offset the writer has reached, whatever others do to the file: a writer *)
(* whose first chunk another truncates leaves a hole there.                *)
(*                                                                         *)
(* Leases are reduced to a holder.  A lease may run out at any time, and   *)
(* its holder, not being told, goes on.  Crash and write errors may leave  *)
(* a file cut short; the history variable cut says which ones.             *)
(***************************************************************************)
EXTENDS Naturals, FiniteSets

CONSTANTS
    Workers,        \* the pool's tasks
    Pages,          \* URLs
    Files,          \* file names, standing for bodies as well
    Html,           \* the files under html/
    Served,         \* what each page may answer, as the file it goes to
    Chunks,         \* write calls it takes to write a body
    MaxInterrupts,  \* bound on crashes and write errors
    Null

ASSUME PageAssumption ==
    /\ Html \subseteq Files /\ Served \in [Pages -> SUBSET Files]
    /\ Chunks \in Nat \ {0} /\ MaxInterrupts \in Nat
    /\ Null \notin Workers \cup Pages \cup Files
    /\ \A s \in SUBSET (1 .. Chunks) : s # Null

VARIABLES
    disk,       \* the chunks each file has, Null where there is none
    row,        \* url_records: state, lease and content_hash
    job,        \* what each worker is at
    cut,        \* files whose writing was cut short (history)
    interrupts  \* how often that has happened

vars == <<disk, row, job, cut, interrupts>>

Free == [pc |-> "free", page |-> Null, file |-> Null, next |-> 1]

Init ==
    /\ disk = [f \in Files |-> Null]
    /\ row = [p \in Pages |-> [state |-> "Pending", holder |-> Null, content |-> Null]]
    /\ job = [w \in Workers |-> Free]
    /\ cut = {}
    /\ interrupts = 0

Missing(f) == IF disk[f] = Null THEN {} ELSE (1 .. Chunks) \ disk[f]

-----------------------------------------------------------------------------

Goto(w, pc) == job' = [job EXCEPT ![w].pc = pc]

\* A report, guarded by the lease, and the end of the task.
Report(w, state, content) ==
    /\ LET p == job[w].page IN
       row' = IF row[p].holder = w
              THEN [row EXCEPT ![p] = [state |-> state, holder |-> Null, content |-> content]]
              ELSE row
    /\ job' = [job EXCEPT ![w] = Free]

\* acquire_lease_batch and dispatch, up to the response.
Fetch(w, p) ==
    /\ job[w].pc = "free" /\ row[p].state = "Pending"
    /\ row' = [row EXCEPT ![p].state = "In_Progress", ![p].holder = w]
    /\ \E f \in Served[p] :
          job' = [job EXCEPT ![w] = [pc |-> "process", page |-> p, file |-> f, next |-> 1]]
    /\ UNCHANGED <<disk, cut, interrupts>>

\* process, up to the writing.  The HTML processor compares the hash with the
\* stored one; when they are equal it ends in an exception and the URL fails.
Process(w) ==
    /\ job[w].pc = "process"
    /\ IF job[w].file \in Html /\ row[job[w].page].content = job[w].file
       THEN Report(w, "Terminal_Failed", row[job[w].page].content)
       ELSE Goto(w, "check") /\ UNCHANGED row
    /\ UNCHANGED <<disk, cut, interrupts>>

\* Mutant: the body is written whether or not there is a file.
CheckNothing(w) ==
    /\ job[w].pc = "check"
    /\ Goto(w, "open")
    /\ UNCHANGED <<disk, row, cut, interrupts>>

\* os.path.exists
CheckExists(w) ==
    /\ job[w].pc = "check"
    /\ Goto(w, IF disk[job[w].file] = Null THEN "open" ELSE "stored")
    /\ UNCHANGED <<disk, row, cut, interrupts>>

\* aiofiles.open(file_path, "wb")
Open(w) ==
    /\ job[w].pc = "open"
    /\ disk' = [disk EXCEPT ![job[w].file] = {}]
    /\ Goto(w, "write")
    /\ UNCHANGED <<row, cut, interrupts>>

\* Mutant: the first write call is taken to have written everything.
WriteOnce(w) ==
    /\ job[w].pc = "write"
    /\ disk' = [disk EXCEPT ![job[w].file] = @ \cup {job[w].next}]
    /\ Goto(w, "stored")
    /\ UNCHANGED <<row, cut, interrupts>>

\* A write call; the file is closed after the last.
Write(w) ==
    /\ job[w].pc = "write"
    /\ disk' = [disk EXCEPT ![job[w].file] = @ \cup {job[w].next}]
    /\ job' = [job EXCEPT ![w].next = @ + 1,
                          ![w].pc = IF job[w].next = Chunks THEN "stored" ELSE "write"]
    /\ UNCHANGED <<row, cut, interrupts>>

\* Mutant: the URL is reported while its file is being written.
CompleteEarly(w) ==
    /\ job[w].pc \in {"open", "write", "stored"}
    /\ Report(w, "Completed", job[w].file)
    /\ UNCHANGED <<disk, cut, interrupts>>

\* mark_completed, with the metadata and the links before it.
Complete(w) ==
    /\ job[w].pc = "stored"
    /\ Report(w, "Completed", job[w].file)
    /\ UNCHANGED <<disk, cut, interrupts>>

\* open or write raises an OSError, which is a transient error.
WriteFails(w) ==
    /\ interrupts < MaxInterrupts /\ job[w].pc \in {"open", "write"}
    /\ interrupts' = interrupts + 1
    /\ cut' = IF job[w].pc = "write" THEN cut \cup {job[w].file} ELSE cut
    /\ Report(w, "Pending", row[job[w].page].content)
    /\ UNCHANGED disk

\* A lease runs out; the retry of a URL comes round in the same way.
Expire(p) ==
    /\ row[p].state = "In_Progress"
    /\ row' = [row EXCEPT ![p].state = "Pending", ![p].holder = Null]
    /\ UNCHANGED <<disk, job, cut, interrupts>>

\* The process dies, and the leases it leaves run out.
Crash ==
    /\ interrupts < MaxInterrupts
    /\ interrupts' = interrupts + 1
    /\ cut' = cut \cup {job[w].file : w \in {v \in Workers : job[v].pc = "write"}}
    /\ job' = [w \in Workers |-> Free]
    /\ row' = [p \in Pages |-> IF row[p].state = "In_Progress"
                               THEN [row[p] EXCEPT !.state = "Pending", !.holder = Null]
                               ELSE row[p]]
    /\ UNCHANGED disk

Step(w) == Process(w) \/ CheckExists(w) \/ Open(w) \/ Write(w) \/ Complete(w)

Next ==
    \/ \E w \in Workers : \/ \E p \in Pages : Fetch(w, p)
                          \/ Step(w) \/ WriteFails(w)
    \/ \E p \in Pages : Expire(p)
    \/ Crash

Spec == Init /\ [][Next]_vars

\* A task that can go on does, and the threads of the file system come to an end.
FairSpec == Spec /\ \A w \in Workers : WF_vars(Step(w))

-----------------------------------------------------------------------------
(* Properties.                                                             *)

TypeOK ==
    /\ disk \in [Files -> {Null} \cup SUBSET (1 .. Chunks)]
    /\ row \in [Pages -> [state : {"Pending", "In_Progress", "Completed", "Terminal_Failed"},
                          holder : Workers \cup {Null}, content : Files \cup {Null}]]
    /\ job \in [Workers -> [pc : {"free", "process", "check", "open", "write", "stored"},
                            page : Pages \cup {Null}, file : Files \cup {Null},
                            next : 1 .. Chunks + 1]]
    /\ cut \subseteq Files
    /\ interrupts \in 0 .. MaxInterrupts

\* Somebody is between the check and the close of f.
Busy(f) == \E w \in Workers : job[w].file = f /\ job[w].pc \in {"open", "write"}

\* What a completed URL refers to is there, and, unless somebody is at it or its
\* writing was cut short, it is all there, whoever else wrote it at the same
\* time and in whatever order they truncated it.
CompletedFilesWhole ==
    \A p \in Pages : row[p].state = "Completed" =>
       LET f == row[p].content
       IN  disk[f] # Null /\ (Missing(f) = {} \/ Busy(f) \/ f \in cut)

\* A file that is there and that nobody is at stays as it is for good: no lease
\* lost, retry or restart makes anybody open it again.
FilesSettleForGood == [][
    \A f \in Files : disk[f] # Null /\ ~Busy(f)
                     => disk'[f] = disk[f] /\ ~Busy(f)' ]_vars

\* A file that another worker has truncated under a URL already completed is
\* completed again, unless it is cut short.
SharedFilesSettle ==
    \A f \in Files : Missing(f) # {} ~> Missing(f) = {} \/ f \in cut

-----------------------------------------------------------------------------
(* The inductive invariant.                                                *)

\* A chunk is missing only as long as somebody will write it.
WrittenByFollows ==
    \A f \in Files \ cut : \A c \in Missing(f) :
       \E w \in Workers : job[w].pc = "write" /\ job[w].file = f /\ job[w].next <= c

\* Workers past the check have a file to write, those past the open see one.
JobsInOrder ==
    \A w \in Workers :
       /\ job[w].pc # "free" => job[w].page \in Pages /\ job[w].file \in Files
       /\ job[w].pc \in {"write", "stored"} => disk[job[w].file] # Null
       /\ job[w].pc # "stored" => job[w].next \in 1 .. Chunks

\* A writer starts with the first chunk.
OpenedAtStart == \A w \in Workers : job[w].pc \in {"process", "check", "open"} => job[w].next = 1

\* The content a row refers to is a file that exists.
ContentOnDisk ==
    \A p \in Pages :
       /\ row[p].content # Null => disk[row[p].content] # Null
       /\ row[p].state = "Completed" => row[p].content # Null

IInv == TypeOK /\ JobsInOrder /\ OpenedAtStart /\ WrittenByFollows /\ ContentOnDisk

=============================================================================
