----------------------- MODULE SliceJobsOutcome_proofs -----------------------
(***************************************************************************)
(* Theorems about what becomes of the jobs of SliceJobs, on top of the     *)
(* invariants of SliceJobs_proofs: blobs without a record, jobs nobody     *)
(* moves, print commands, and the abstract life of a job.                  *)
(***************************************************************************)
EXTENDS SliceJobs_proofs

(* The status of a job fits where it is.  The jobs of workers and those of *)
(* print requests are therefore apart, and a queued job is with neither.   *)

StagesFit ==
  /\ \A j \in Jobs : Queued(j) => obj[j].status = "queued"
  /\ \A w \in Workers : job[w] # NoJob =>
       obj[job[w]].status = IF pc[w] = "uploading" THEN "uploading" ELSE "slicing"
  /\ \A c \in Clients : pc[c] = "uploading" =>
       /\ IsTerminal(job[c])
       /\ printer[c] \in LanPrinters => obj[job[c]].status = "ready"

\* slice_jobs.json is the dict of the process that runs.
DiskIsStore ==
  /\ \A j \in Jobs : disk[j].status = "absent" => disk[j] = NoRecord
  /\ phase # "down" => \A j \in Jobs : disk[j] = IF j \in stored THEN obj[j] ELSE NoRecord

StageInv == OwnerInv /\ StagesFit /\ DiskIsStore

LEMMA UpsertMoves ==
  ASSUME TypeOK, NEW j \in Jobs, NEW rec, Upsert(j, rec)
  PROVE  /\ obj'[j] = rec
         /\ \A i \in Jobs \ {j} : obj'[i] = obj[i]
         /\ stored' = stored \cup {j}
BY DEF Upsert, Flush, TypeOK

LEMMA SetStatusMoves ==
  ASSUME TypeOK, NEW j \in Jobs, NEW s \in Status, SetStatus(j, s)
  PROVE  /\ obj'[j] = [obj[j] EXCEPT !.status = s]
         /\ obj'[j].status = s
         /\ obj'[j].output = obj[j].output
         /\ obj'[j].printed = obj[j].printed
         /\ \A i \in Jobs \ {j} : obj'[i] = obj[i]
         /\ stored' = stored \cup {j}
<1>1. obj[j] \in Record
  BY DEF TypeOK
<1>2. Upsert(j, [obj[j] EXCEPT !.status = s])
  BY DEF SetStatus
<1>3. obj'[j] = [obj[j] EXCEPT !.status = s]
  BY <1>2, UpsertMoves
<1> QED BY <1>1, <1>2, <1>3, UpsertMoves DEF Record

LEMMA PrintedMoves ==
  ASSUME TypeOK, NEW j \in Jobs,
         Upsert(j, [obj[j] EXCEPT !.status = "ready", !.printed = TRUE])
  PROVE  /\ obj'[j].status = "ready"
         /\ obj'[j].output = obj[j].output
         /\ \A i \in Jobs \ {j} : obj'[i] = obj[i]
         /\ stored' = stored \cup {j}
<1>1. obj[j] \in Record
  BY DEF TypeOK
<1>2. obj'[j] = [obj[j] EXCEPT !.status = "ready", !.printed = TRUE]
  BY UpsertMoves
<1> QED BY <1>1, <1>2, UpsertMoves DEF Record

\* Saving a record, or letting records go, leaves the file equal to the dict.
LEMMA FlushIsStore ==
  ASSUME OwnerInv', NEW objs, NEW ids, Flush(objs, ids)
  PROVE  DiskIsStore'
BY DEF Flush, DiskIsStore, OwnerInv, BlobInv, ObjectsExist

LEMMA QuietStore ==
  ASSUME DiskIsStore, UNCHANGED <<obj, stored, disk>>, phase' # "down" => phase # "down"
  PROVE  DiskIsStore'
BY DEF DiskIsStore

\* No status changes, and processes at most let go of their jobs.
LEMMA StagesStay ==
  ASSUME StageInv, OwnerInv',
         \A j \in Jobs : obj'[j].status = obj[j].status,
         \A j : Queued(j)' => Queued(j) \/ j = Stop,
         \A s \in Procs :
           \/ /\ UNCHANGED <<job[s], printer[s]>>
              /\ pc'[s] = "uploading" <=> pc[s] = "uploading"
           \/ s \in Clients /\ pc'[s] # "uploading"
  PROVE  StagesFit'
<1>1. \A j \in Jobs : Queued(j)' => obj'[j].status = "queued"
  BY SliceJobsAssumption DEF StageInv, StagesFit
<1>2. \A s \in Procs : job[s] \in Jobs \cup {NoJob}
  BY DEF StageInv, OwnerInv, BlobInv, TypeOK
<1>3. \A w \in Workers : job'[w] # NoJob =>
       obj'[job'[w]].status = IF pc'[w] = "uploading" THEN "uploading" ELSE "slicing"
  BY <1>2, SliceJobsAssumption DEF StageInv, StagesFit, Procs
<1>4. ASSUME NEW c \in Clients, pc'[c] = "uploading"
      PROVE  /\ obj'[job'[c]].status \in Terminal
             /\ printer'[c] \in LanPrinters => obj'[job'[c]].status = "ready"
  <2>1. c \in Procs /\ UNCHANGED <<job[c], printer[c]>> /\ pc[c] = "uploading"
    BY <1>4 DEF Procs
  <2>2. job[c] \in Jobs
    BY <2>1, HeldJob DEF StageInv, OwnerInv
  <2> QED BY <2>1, <2>2 DEF StageInv, StagesFit, IsTerminal
<1> QED BY <1>1, <1>3, <1>4 DEF StagesFit, IsTerminal

\* The status of one job changes, that nobody else holds.
LEMMA OneStage ==
  ASSUME StageInv, OwnerInv', NEW j \in Jobs, NEW s \in Procs,
         \A i \in Jobs \ {j} : obj'[i].status = obj[i].status,
         \A i : Queued(i)' => Queued(i) \/ i = Stop,
         ~Queued(j)',
         \A r \in Procs \ {s} : UNCHANGED <<job[r], printer[r], pc[r]>>,
         \A r \in Workers \ {s} : job[r] # j,
         \A r \in Clients \ {s} : pc[r] = "uploading" /\ job[r] = j =>
           obj'[j].status \in {"ready", obj[j].status},
         s \in Workers /\ job'[s] # NoJob =>
           /\ job'[s] = j
           /\ obj'[j].status = IF pc'[s] = "uploading" THEN "uploading" ELSE "slicing",
         s \in Clients /\ pc'[s] = "uploading" =>
           /\ job'[s] = j
           /\ obj'[j].status \in Terminal
           /\ printer'[s] \in LanPrinters => obj'[j].status = "ready"
  PROVE  StagesFit'
<1>1. \A i \in Jobs : Queued(i)' => obj'[i].status = "queued"
  BY SliceJobsAssumption DEF StageInv, StagesFit
<1>2. \A r \in Procs : job[r] \in Jobs \cup {NoJob}
  BY DEF StageInv, OwnerInv, BlobInv, TypeOK
<1>3. ASSUME NEW w \in Workers, job'[w] # NoJob
      PROVE  obj'[job'[w]].status = IF pc'[w] = "uploading" THEN "uploading" ELSE "slicing"
  BY <1>2, <1>3 DEF StageInv, StagesFit, Procs
<1>4. ASSUME NEW c \in Clients, pc'[c] = "uploading"
      PROVE  /\ obj'[job'[c]].status \in Terminal
             /\ printer'[c] \in LanPrinters => obj'[job'[c]].status = "ready"
  <2>1. CASE c = s
    BY <1>4, <2>1 DEF Terminal
  <2>2. CASE c # s
    <3>1. c \in Procs /\ UNCHANGED <<job[c], printer[c]>> /\ pc[c] = "uploading"
      BY <1>4, <2>2 DEF Procs
    <3>2. job[c] \in Jobs
      BY <3>1, HeldJob DEF StageInv, OwnerInv
    <3> QED BY <2>2, <3>1, <3>2 DEF StageInv, StagesFit, IsTerminal, Terminal
  <2> QED BY <2>1, <2>2
<1> QED BY <1>1, <1>3, <1>4 DEF StagesFit, IsTerminal

LEMMA SubmitStages ==
  ASSUME StageInv, OwnerInv', NEW j \in Jobs, NEW t \in Printers \cup {NoPrinter},
         NEW e \in BOOLEAN, Submit(j, t, e)
  PROVE  StagesFit'
<1> TypeOK /\ QueueDistinct
  BY DEF StageInv, OwnerInv, BlobInv
<1> DEFINE rec == [NoRecord EXCEPT !.status = "queued", !.target = t]
<1>1. rec.status = "queued"
  BY DEF NoRecord
<1>2. obj'[j].status = "queued" /\ \A i \in Jobs \ {j} : obj'[i] = obj[i]
  BY <1>1, UpsertMoves DEF Submit
<1>3. j \notin used /\ UNCHANGED <<pc, job, printer>>
  BY DEF Submit, procs
<1>4. \A i : Queued(i)' => Queued(i) \/ i = j
  BY <1>3, QueueAppend DEF Submit, Queued, StageInv, OwnerInv, QueueKnown
<1>5. \A s \in Procs : job[s] # NoJob => job[s] \in Jobs \ {j}
  BY <1>3, UsedJobs DEF StageInv
<1>6. \A i \in Jobs : Queued(i)' => obj'[i].status = "queued"
  BY <1>2, <1>4 DEF StageInv, StagesFit
<1>7. \A w \in Workers : job[w] # NoJob =>
       obj'[job[w]].status = IF pc[w] = "uploading" THEN "uploading" ELSE "slicing"
  BY <1>2, <1>5 DEF StageInv, StagesFit, Procs
<1>8. ASSUME NEW c \in Clients, pc[c] = "uploading"
      PROVE  obj'[job[c]] = obj[job[c]]
  <2>1. job[c] \in Jobs /\ job[c] # NoJob
    BY <1>8, HeldJob, SliceJobsAssumption DEF StageInv, OwnerInv, Procs
  <2> QED BY <1>2, <1>5, <2>1 DEF Procs
<1>9. \A c \in Clients : pc[c] = "uploading" =>
       /\ obj'[job[c]].status \in Terminal
       /\ printer[c] \in LanPrinters => obj'[job[c]].status = "ready"
  BY <1>8 DEF StageInv, StagesFit, IsTerminal
<1> QED BY <1>3, <1>6, <1>7, <1>9 DEF StagesFit, IsTerminal

\* The job at the head of the queue is with no worker and no print request.
LEMMA HeadIsFree ==
  ASSUME StageInv, queue # <<>>, Head(queue) \in Jobs
  PROVE  /\ obj[Head(queue)].status = "queued"
         /\ \A w \in Workers : job[w] # Head(queue)
         /\ \A c \in Clients : pc[c] = "uploading" => job[c] # Head(queue)
<1>1. Queued(Head(queue))
  BY DEF Queued, StageInv, OwnerInv, BlobInv, TypeOK
<1>2. obj[Head(queue)].status = "queued"
  BY <1>1 DEF StageInv, StagesFit
<1>3. \A w \in Workers : job[w] # Head(queue)
  BY <1>1, SliceJobsAssumption DEF StageInv, OwnerInv, WorkersApart
<1>4. \A c \in Clients : pc[c] = "uploading" => job[c] # Head(queue)
  BY <1>2 DEF StageInv, StagesFit, IsTerminal, Terminal
<1> QED BY <1>2, <1>3, <1>4

\* The job of a worker is not queued, and with no other worker or print request.
LEMMA WorkersJob ==
  ASSUME StageInv, NEW w \in Workers, pc[w] \notin {"idle", "exited"}
  PROVE  /\ w \in Procs /\ job[w] \in Jobs /\ job[w] # NoJob
         /\ obj[job[w]] \in Record
         /\ obj[job[w]].status = IF pc[w] = "uploading" THEN "uploading" ELSE "slicing"
         /\ ~Queued(job[w])
         /\ \A v \in Workers \ {w} : job[v] # job[w]
         /\ \A c \in Clients : pc[c] = "uploading" => job[c] # job[w]
<1>1. w \in Procs /\ job[w] \in Jobs /\ job[w] # NoJob /\ obj[job[w]] \in Record
  BY HeldJob, SliceJobsAssumption DEF StageInv, OwnerInv, Procs
<1>2. obj[job[w]].status = IF pc[w] = "uploading" THEN "uploading" ELSE "slicing"
  BY <1>1 DEF StageInv, StagesFit
<1>3. \A c \in Clients : pc[c] = "uploading" => job[c] # job[w]
  BY <1>2 DEF StageInv, StagesFit, IsTerminal, Terminal
<1> QED BY <1>1, <1>2, <1>3 DEF StageInv, OwnerInv, WorkersApart

LEMMA WorkerStepStages ==
  ASSUME StageInv, OwnerInv', NEW w \in Workers, WorkerStep(w)
  PROVE  StagesFit'
<1> w \in Procs /\ TypeOK /\ QueueDistinct /\ w \notin Clients
  BY SliceJobsAssumption DEF Procs, StageInv, OwnerInv, BlobInv
<1>1. CASE SkipMissing(w) \/ WorkerExit(w)
  <2>1. \A j : Queued(j)' => Queued(j)
    BY <1>1, QueueTail DEF SkipMissing, WorkerExit
  <2>2. \A s \in Procs : UNCHANGED <<job[s], printer[s]>> /\ (pc'[s] = "uploading" <=> pc[s] = "uploading")
    BY <1>1 DEF SkipMissing, WorkerExit, procs, TypeOK
  <2>3. obj' = obj
    BY <1>1 DEF SkipMissing, WorkerExit, store
  <2> QED BY <2>1, <2>2, <2>3, StagesStay
<1>2. CASE SkipCancelled(w) \/ CrashSlicing(w) \/ StartSlicing(w)
  <2> PICK j \in Jobs : j = Head(queue)
    BY <1>2 DEF SkipCancelled, CrashSlicing, StartSlicing, TypeOK
  <2>1. queue # <<>> /\ queue' = Tail(queue)
    BY <1>2 DEF SkipCancelled, CrashSlicing, StartSlicing
  <2>2. /\ \A i \in Jobs \ {j} : obj'[i] = obj[i]
        /\ StartSlicing(w) => obj'[j].status = "slicing"
    BY <1>2, <2>1, SetStatusMoves
    DEF SkipCancelled, CrashSlicing, StartSlicing, Status, InFlight, Terminal
  <2>3. \A i : Queued(i)' => Queued(i)
    BY <2>1, QueueTail
  <2>4. ~Queued(j)'
    BY <2>1, QueueTail, SliceJobsAssumption
  <2>5. \A r \in Procs \ {w} : UNCHANGED <<job[r], printer[r], pc[r]>>
    BY <1>2 DEF SkipCancelled, CrashSlicing, StartSlicing, procs, TypeOK
  <2>6. job'[w] # NoJob => job'[w] = j /\ pc'[w] = "slicing" /\ StartSlicing(w)
    <3>1. job[w] = NoJob
      BY <1>2 DEF SkipCancelled, CrashSlicing, StartSlicing, TypeOK, ProcsOK, Holds
    <3> QED BY <1>2, <3>1 DEF SkipCancelled, CrashSlicing, StartSlicing, procs, TypeOK
  <2> QED BY <2>1, <2>2, <2>3, <2>4, <2>5, <2>6, HeadIsFree, OneStage
<1>3. CASE TakeProgress(w)
  <2>1. \A j : Queued(j)' => Queued(j)
    BY <1>3 DEF TakeProgress, manager, Queued
  <2>2. \A s \in Procs : UNCHANGED <<job[s], printer[s]>> /\ (pc'[s] = "uploading" <=> pc[s] = "uploading")
    BY <1>3 DEF TakeProgress, TypeOK
  <2>3. \A j \in Jobs : obj'[j] = obj[j]
    BY <1>3, UpsertMoves, HeldJob DEF TakeProgress, StageInv, OwnerInv
  <2> QED BY <2>1, <2>2, <2>3, StagesStay
<1>4. CASE FinishAutoPrint(w) \/ CancelSlicing(w) \/ \E traysOk \in BOOLEAN : FinishSlicing(w, traysOk)
  <2>1. pc[w] \notin {"idle", "exited"} /\ UNCHANGED queue
    BY <1>4 DEF FinishAutoPrint, CancelSlicing, FinishSlicing
  <2> PICK j \in Jobs : j = job[w]
    BY <2>1, WorkersJob
  <2>2. ~Queued(j)' /\ obj[j] \in Record
    BY <2>1, WorkersJob DEF Queued
  <2>3. \A r \in Procs \ {w} : UNCHANGED <<job[r], printer[r], pc[r]>>
    BY <1>4 DEF FinishAutoPrint, CancelSlicing, FinishSlicing, EndRun, Free, TypeOK
  <2>4. /\ \A i \in Jobs \ {j} : obj'[i] = obj[i]
        /\ job'[w] # NoJob => job'[w] = j /\ pc'[w] = "uploading" /\ obj'[j].status = "uploading"
    <3>1. CASE FinishAutoPrint(w) \/ CancelSlicing(w)
      BY <2>2, <3>1, UpsertMoves DEF FinishAutoPrint, CancelSlicing, SetStatus, EndRun, Free, TypeOK
    <3>2. CASE \E traysOk \in BOOLEAN : FinishSlicing(w, traysOk)
      <4> PICK traysOk \in BOOLEAN : FinishSlicing(w, traysOk)
        BY <3>2
      <4>1. CASE EndRun(w)
        BY <2>2, <4>1, UpsertMoves DEF FinishSlicing, SetStatus, EndRun, Free, TypeOK
      <4>2. CASE ~EndRun(w)
        <5>1. /\ Upsert(j, [[obj[j] EXCEPT !.output = TRUE] EXCEPT !.status = "uploading"])
              /\ pc' = [pc EXCEPT ![w] = "uploading"] /\ job' = job
          BY <4>2 DEF FinishSlicing
        <5>2. [[obj[j] EXCEPT !.output = TRUE] EXCEPT !.status = "uploading"].status = "uploading"
          BY <2>2 DEF Record
        <5> QED BY <2>2, <5>1, <5>2, UpsertMoves DEF TypeOK
      <4> QED BY <4>1, <4>2
    <3> QED BY <1>4, <3>1, <3>2
  <2>5. \A i : Queued(i)' => Queued(i)
    BY <2>1 DEF Queued
  <2> QED BY <2>1, <2>2, <2>3, <2>4, <2>5, WorkersJob, OneStage
<1> QED BY <1>1, <1>2, <1>3, <1>4 DEF WorkerStep

\* Steps that move no status, no worker and no place in the queue.
LEMMA QuietStages ==
  ASSUME StageInv, OwnerInv', UNCHANGED <<obj, queue, job, printer>>,
         \A s \in Procs : pc'[s] = "uploading" <=> pc[s] = "uploading"
  PROVE  StagesFit'
BY StagesStay DEF Queued

LEMMA RequestStages ==
  ASSUME StageInv, OwnerInv', NEW c \in Clients, RequestStart(c) \/ RequestEnd(c)
  PROVE  StagesFit'
<1> c \in Procs /\ TypeOK /\ c \notin Workers
  BY SliceJobsAssumption DEF Procs, StageInv, OwnerInv, BlobInv
<1>1. UNCHANGED queue /\ \A i : Queued(i)' => Queued(i)
  BY DEF RequestStart, RequestEnd, DeleteRequest, PrintRequest, DeleteAfterWait, FinishPrint,
         manager, Queued
<1>2. \A r \in Procs \ {c} : UNCHANGED <<job[r], printer[r], pc[r]>>
  BY DEF RequestStart, RequestEnd, DeleteRequest, PrintRequest, DeleteAfterWait, FinishPrint,
         Free, TypeOK
<1>3. \A j \in Jobs : Queued(j) => ~IsTerminal(j)
  BY DEF StageInv, StagesFit, IsTerminal, Terminal
<1>4. \A j \in Jobs, w \in Workers : IsTerminal(j) => job[w] # j
  <2>1. ASSUME NEW w \in Workers, job[w] \in Jobs
        PROVE  ~IsTerminal(job[w])
    BY <2>1, SliceJobsAssumption DEF StageInv, StagesFit, IsTerminal, Terminal
  <2> QED BY <2>1
<1>5. CASE \E j \in Jobs : DeleteRequest(c, j)
  <2>1. obj' = obj /\ (pc'[c] # "uploading" \/ UNCHANGED <<pc, job, printer>>)
    BY <1>5 DEF DeleteRequest, Delete, Flush, store, TypeOK
  <2> QED BY <1>1, <1>2, <2>1, StagesStay
<1>6. CASE \E g \in BOOLEAN : DeleteAfterWait(c, g)
  <2>1. obj' = obj /\ pc'[c] # "uploading"
    BY <1>6 DEF DeleteAfterWait, Delete, Flush, store, Free, TypeOK
  <2> QED BY <1>1, <1>2, <2>1, StagesStay
<1>7. CASE \E j \in Jobs, p \in Printers : PrintRequest(c, j, p)
  <2> PICK j \in Jobs, p \in Printers : PrintRequest(c, j, p)
    BY <1>7
  <2>1. IsTerminal(j) /\ job'[c] = j /\ printer'[c] = p
    BY DEF PrintRequest, TypeOK
  <2>2. /\ \A i \in Jobs \ {j} : obj'[i] = obj[i]
        /\ (obj'[j] = obj[j] /\ p \notin LanPrinters) \/ obj'[j].status = "ready"
    BY PrintedMoves, SliceJobsAssumption DEF PrintRequest
  <2>3. ~Queued(j)'
    BY <1>1, <1>3, <2>1
  <2> QED BY <1>1, <1>2, <1>4, <2>1, <2>2, <2>3, OneStage DEF IsTerminal, Terminal
<1>8. CASE FinishPrint(c)
  <2>1. pc[c] = "uploading" /\ pc'[c] = "idle"
    BY <1>8 DEF FinishPrint, Free, TypeOK
  <2>2. PICK j \in Jobs : j = job[c] /\ IsTerminal(j)
    BY <2>1, HeldJob DEF StageInv, OwnerInv, StagesFit
  <2>3. CASE obj' = obj
    BY <1>1, <1>2, <2>1, <2>3, StagesStay
  <2>4. CASE Upsert(j, [obj[j] EXCEPT !.status = "ready", !.printed = TRUE])
    <3>1. obj'[j].status = "ready" /\ \A i \in Jobs \ {j} : obj'[i] = obj[i]
      BY <2>4, PrintedMoves
    <3>2. ~Queued(j)'
      BY <1>1, <1>3, <2>2
    <3> QED BY <1>1, <1>2, <1>4, <2>1, <2>2, <3>1, <3>2, OneStage
  <2> QED BY <1>8, <2>2, <2>3, <2>4 DEF FinishPrint
<1> QED BY <1>5, <1>6, <1>7, <1>8 DEF RequestStart, RequestEnd

\* While the gateway is down or recovers nobody holds a job.
LEMMA IdleStages ==
  ASSUME OwnerInv', phase' \in {"down", "recovering"},
         \A j \in Jobs : Queued(j)' => obj'[j].status = "queued"
  PROVE  StagesFit'
<1>1. \A s \in Procs : job'[s] = NoJob
  BY DEF OwnerInv, BlobInv, NobodyWorks
<1>2. \A s \in Procs : pc'[s] # "uploading"
  BY <1>1, SliceJobsAssumption DEF OwnerInv, BlobInv, TypeOK, ProcsOK, Holds
<1> QED BY <1>1, <1>2 DEF StagesFit, Procs

LEMMA RestartStages ==
  ASSUME StageInv, OwnerInv', Shutdown \/ Crash \/ Restart
  PROVE  StagesFit'
<1> TypeOK /\ QueueDistinct
  BY DEF StageInv, OwnerInv, BlobInv
<1>1. CASE Shutdown
  <2>1. \A j : Queued(j)' => Queued(j) \/ j = Stop
    BY <1>1, QueuePills DEF Shutdown
  <2>2. UNCHANGED <<obj, pc, job, printer>>
    BY <1>1 DEF Shutdown, store, procs
  <2> QED BY <2>1, <2>2, StagesStay
<1>2. CASE Exit \/ Crash
  <2>1. phase' = "down" /\ queue' = <<>>
    BY <1>2 DEF Exit, Crash, Lost
  <2> QED BY <2>1, IdleStages DEF Queued
<1>3. CASE Boot
  <2>1. phase' = "recovering" /\ queue' = <<>>
    BY <1>3 DEF Boot, manager, StageInv, OwnerInv, TodoOK
  <2> QED BY <2>1, IdleStages DEF Queued
<1>4. CASE \E j \in Jobs : RecoverJob(j)
  <2> PICK j \in Jobs : RecoverJob(j)
    BY <1>4
  <2>1. phase = "recovering" /\ phase' = phase /\ ~Queued(j)
    BY DEF RecoverJob, StageInv, OwnerInv, TodoOK
  <2>2. \A i \in Jobs \ {j} : obj'[i] = obj[i]
    BY SetStatusMoves DEF RecoverJob, Status, Terminal
  <2>3. \A i \in Jobs \ {j} : Queued(i)' => Queued(i)
    BY <2>1, QueueAppend DEF RecoverJob, manager, Queued
  <2>4. Queued(j)' => obj'[j].status = "queued"
    BY <2>1 DEF RecoverJob, manager, Queued
  <2> QED BY <2>1, <2>2, <2>3, <2>4, IdleStages DEF StageInv, StagesFit
<1>5. CASE StartWorkers
  BY <1>5, QuietStages DEF StartWorkers, store, manager, procs
<1> QED BY <1>1, <1>2, <1>3, <1>4, <1>5 DEF Restart

LEMMA NextStages ==
  ASSUME StageInv, [Next]_vars
  PROVE  StagesFit'
<1> OwnerInv' /\ TypeOK
  BY NextOwner DEF StageInv, OwnerInv, BlobInv
<1>1. CASE UNCHANGED vars
  BY <1>1, QuietStages DEF vars, store, manager, procs
<1>2. CASE \E j \in Jobs : JobRequest(j)
  <2> PICK j \in Jobs : JobRequest(j)
    BY <1>2
  <2>1. CASE Cancel(j)
    BY <2>1, QuietStages DEF Cancel, store, procs
  <2> QED BY <2>1, SubmitStages DEF JobRequest
<1>3. CASE \E w \in Workers : WorkerStep(w)
  BY <1>3, WorkerStepStages
<1>4. CASE \E w \in Workers : SlicerStep(w)
  BY <1>4, QuietStages DEF SlicerStep, SlicerProgress, SlicerEnds, store, manager, TypeOK
<1>5. CASE \E w \in Workers : SaveUploadProgress(w)
  <2> PICK w \in Workers : SaveUploadProgress(w)
    BY <1>5
  <2>1. \A j \in Jobs : obj'[j] = obj[j]
    BY WorkersJob, UpsertMoves DEF SaveUploadProgress
  <2> QED BY <2>1, StagesStay DEF SaveUploadProgress, manager, procs, Queued
<1>6. CASE \E s \in Procs : SubmissionProgress(s) \/ CloudSend(s)
  BY <1>6, QuietStages
  DEF SubmissionProgress, CloudTakeSlot, CloudAnswer, LanConnect, LanUpload, LanSend, CloudSend,
      store, manager
<1>7. CASE \E c \in Clients : RequestStart(c) \/ RequestEnd(c)
  BY <1>7, RequestStages
<1>8. CASE \E statuses \in SUBSET Terminal : Clear(statuses)
  BY <1>8, QuietStages DEF Clear, Flush, manager, procs
<1>9. CASE \E p \in Printers : PrinterOnline(p) \/ PrinterFinishes(p)
  BY <1>9, QuietStages DEF PrinterOnline, PrinterFinishes, store, manager, procs
<1>10. CASE Shutdown \/ Crash \/ Restart
  BY <1>10, RestartStages
<1> QED BY <1>1, <1>2, <1>3, <1>4, <1>5, <1>6, <1>7, <1>8, <1>9, <1>10 DEF Next

\* A step leaves the store alone, flushes it, or ends or starts the process.
LEMMA StoreEffect ==
  ASSUME [Next]_vars
  PROVE  \/ UNCHANGED <<obj, stored, disk>> /\ (phase' # "down" => phase # "down")
         \/ \E objs, ids : Flush(objs, ids)
         \/ Exit \/ Crash \/ Boot
<1>1. CASE UNCHANGED vars
  BY <1>1 DEF vars, store, process
<1>2. CASE \E j \in Jobs : JobRequest(j)
  BY <1>2 DEF JobRequest, Submit, Cancel, Upsert, store, process
<1>3. CASE \E w \in Workers : WorkerStep(w)
  BY <1>3
  DEF WorkerStep, SkipMissing, SkipCancelled, StartSlicing, CrashSlicing, TakeProgress,
      CancelSlicing, FinishSlicing, FinishAutoPrint, WorkerExit, SetStatus, Upsert, store, process
<1>4. CASE \E w \in Workers : SlicerStep(w) \/ SaveUploadProgress(w)
  BY <1>4 DEF SlicerStep, SlicerProgress, SlicerEnds, SaveUploadProgress, Upsert, store, process
<1>5. CASE \E s \in Procs : SubmissionProgress(s) \/ CloudSend(s)
  BY <1>5
  DEF SubmissionProgress, CloudTakeSlot, CloudAnswer, LanConnect, LanUpload, LanSend, CloudSend,
      store, process
<1>6. CASE \E c \in Clients : RequestStart(c) \/ RequestEnd(c)
  <2> PICK c \in Clients : RequestStart(c) \/ RequestEnd(c)
    BY <1>6
  <2>1. CASE \E j \in Jobs : DeleteRequest(c, j)
    BY <2>1 DEF DeleteRequest, Delete, store, process
  <2>2. CASE \E j \in Jobs, p \in Printers : PrintRequest(c, j, p)
    BY <2>2 DEF PrintRequest, Upsert, process
  <2>3. CASE \E gaveUp \in BOOLEAN : DeleteAfterWait(c, gaveUp)
    BY <2>3 DEF DeleteAfterWait, Delete, store, process
  <2>4. CASE FinishPrint(c)
    BY <2>4 DEF FinishPrint, Upsert, process
  <2> QED BY <2>1, <2>2, <2>3, <2>4 DEF RequestStart, RequestEnd
<1>7. CASE \E statuses \in SUBSET Terminal : Clear(statuses)
  BY <1>7 DEF Clear
<1>8. CASE \E p \in Printers : PrinterOnline(p) \/ PrinterFinishes(p)
  BY <1>8 DEF PrinterOnline, PrinterFinishes, store, process
<1>9. CASE Shutdown \/ StartWorkers \/ \E j \in Jobs : RecoverJob(j)
  BY <1>9 DEF Shutdown, StartWorkers, RecoverJob, SetStatus, Upsert, store
<1> QED
  BY <1>1, <1>2, <1>3, <1>4, <1>5, <1>6, <1>7, <1>8, <1>9 DEF Next, Restart

LEMMA NextStore ==
  ASSUME StageInv, OwnerInv', [Next]_vars
  PROVE  DiskIsStore'
<1>1. CASE UNCHANGED <<obj, stored, disk>> /\ (phase' # "down" => phase # "down")
  BY <1>1, QuietStore DEF StageInv
<1>2. CASE \E objs, ids : Flush(objs, ids)
  BY <1>2, FlushIsStore
<1>3. CASE Exit \/ Crash
  <2>1. phase' = "down"
    BY <1>3 DEF Exit, Crash, Lost
  <2>2. \A j \in Jobs : disk'[j] \in {disk[j], NoRecord}
    BY <1>3 DEF Exit, Crash, StageInv, OwnerInv, BlobInv, TypeOK
  <2> QED BY <2>1, <2>2 DEF StageInv, DiskIsStore
<1>4. CASE Boot
  BY <1>4 DEF Boot, StageInv, DiskIsStore
<1> QED BY <1>1, <1>2, <1>3, <1>4, StoreEffect

LEMMA InitStage == Init => StageInv
<1> SUFFICES ASSUME Init
             PROVE  StageInv
  OBVIOUS
<1>1. OwnerInv
  BY InitOwner
<1>2. StagesFit
  BY DEF Init, StagesFit, Queued, Procs
<1>3. DiskIsStore
  BY DEF Init, DiskIsStore, NoRecord
<1> QED BY <1>1, <1>2, <1>3 DEF StageInv

LEMMA NextStage ==
  ASSUME StageInv, [Next]_vars
  PROVE  StageInv'
<1>1. OwnerInv'
  BY NextOwner DEF StageInv
<1> QED BY <1>1, NextStages, NextStore DEF StageInv

-----------------------------------------------------------------------------
(* Blobs without a record.  As long as the gateway was not killed, blobs   *)
(* belong to stored jobs, and an output blob is one that its record knows. *)

BlobsOwned ==
  restarts = 0 =>
    /\ phase \in {"up", "stopping"}
    /\ \A j \in input \cup output : j \in stored
    /\ \A j \in output : obj[j].output

OrphanInv == StageInv /\ BlobsOwned

\* The blobs stay, stored records stay stored and keep their output.
LEMMA BlobsStay ==
  ASSUME OrphanInv, UNCHANGED <<input, output, restarts>>,
         restarts = 0 => phase' \in {"up", "stopping"},
         stored \subseteq stored', \A j \in Jobs : obj[j].output => obj'[j].output
  PROVE  BlobsOwned'
BY DEF OrphanInv, StageInv, OwnerInv, BlobInv, TypeOK, BlobsOwned

LEMMA DeleteOrphans ==
  ASSUME OrphanInv, NEW j \in Jobs, Delete(j), UNCHANGED process
  PROVE  BlobsOwned'
<1>1. CASE j \in stored
  BY <1>1 DEF Delete, Flush, process, OrphanInv, BlobsOwned
<1>2. CASE j \notin stored
  BY <1>2, BlobsStay DEF Delete, store, process, OrphanInv, BlobsOwned
<1> QED BY <1>1, <1>2

LEMMA WorkerStepOrphans ==
  ASSUME OrphanInv, NEW w \in Workers, WorkerStep(w) \/ SaveUploadProgress(w)
  PROVE  BlobsOwned'
<1> TypeOK
  BY DEF OrphanInv, StageInv, OwnerInv, BlobInv
<1>1. UNCHANGED <<input, process>>
  BY DEF WorkerStep, SkipMissing, SkipCancelled, StartSlicing, CrashSlicing, TakeProgress,
         CancelSlicing, FinishSlicing, FinishAutoPrint, WorkerExit, SaveUploadProgress, store
<1>2. restarts = 0 => phase' \in {"up", "stopping"}
  BY <1>1 DEF process, OrphanInv, BlobsOwned
<1>3. CASE SkipMissing(w) \/ WorkerExit(w)
  BY <1>1, <1>2, <1>3, BlobsStay DEF SkipMissing, WorkerExit, store, process
<1>4. CASE SkipCancelled(w) \/ StartSlicing(w) \/ CrashSlicing(w)
  <2>1. Head(queue) \in Jobs
    BY <1>4 DEF SkipCancelled, StartSlicing, CrashSlicing, TypeOK
  <2>2. UNCHANGED output /\ stored \subseteq stored' /\ \A j \in Jobs : obj'[j].output = obj[j].output
    BY <1>4, <2>1, SetStatusMoves
    DEF SkipCancelled, StartSlicing, CrashSlicing, Status, InFlight, Terminal
  <2> QED BY <1>1, <1>2, <2>2, BlobsStay DEF process
<1>5. CASE TakeProgress(w) \/ CancelSlicing(w) \/ SaveUploadProgress(w) \/ FinishAutoPrint(w)
  <2>1. job[w] \in Jobs /\ UNCHANGED output
    BY <1>5, WorkersJob DEF TakeProgress, CancelSlicing, SaveUploadProgress, FinishAutoPrint, OrphanInv
  <2>2. stored \subseteq stored' /\ \A j \in Jobs : obj[j].output => obj'[j].output
    BY <1>5, <2>1, UpsertMoves, SetStatusMoves, PrintedMoves
    DEF TakeProgress, CancelSlicing, SaveUploadProgress, FinishAutoPrint, Status, Terminal
  <2> QED BY <1>1, <1>2, <2>1, <2>2, BlobsStay DEF process
<1>6. CASE \E traysOk \in BOOLEAN : FinishSlicing(w, traysOk)
  <2> PICK traysOk \in BOOLEAN : FinishSlicing(w, traysOk)
    BY <1>6
  <2>1. job[w] \in Jobs /\ obj[job[w]] \in Record
    BY WorkersJob DEF FinishSlicing, OrphanInv
  <2>2. CASE sub[w] # "result"
    <3>1. UNCHANGED output /\ stored \subseteq stored' /\ \A j \in Jobs : obj'[j].output = obj[j].output
      BY <2>1, <2>2, SetStatusMoves DEF FinishSlicing, Status, Terminal
    <3> QED BY <1>1, <1>2, <3>1, BlobsStay DEF process
  <2>3. CASE sub[w] = "result"
    <3>1. PICK st \in {"ready", "uploading"} :
                 Upsert(job[w], [obj[job[w]] EXCEPT !.output = TRUE, !.status = st])
      BY <2>3 DEF FinishSlicing
    <3>2. [obj[job[w]] EXCEPT !.output = TRUE, !.status = st].output
      BY <2>1 DEF Record
    <3>3. /\ obj'[job[w]].output /\ stored' = stored \cup {job[w]}
          /\ \A j \in Jobs \ {job[w]} : obj'[j] = obj[j]
      BY <2>1, <3>1, <3>2, UpsertMoves
    <3>4. output' = output \cup {job[w]}
      BY <2>3 DEF FinishSlicing
    <3> QED BY <1>1, <1>2, <3>3, <3>4 DEF OrphanInv, BlobsOwned, process, TypeOK
  <2> QED BY <2>2, <2>3
<1> QED BY <1>3, <1>4, <1>5, <1>6 DEF WorkerStep

LEMMA NextOrphans ==
  ASSUME OrphanInv, [Next]_vars
  PROVE  OrphanInv'
<1> SUFFICES BlobsOwned'
  BY NextStage DEF OrphanInv
<1> TypeOK
  BY DEF OrphanInv, StageInv, OwnerInv, BlobInv
<1> restarts = 0 => phase \in {"up", "stopping"}
  BY DEF OrphanInv, BlobsOwned
<1>1. CASE UNCHANGED vars
  BY <1>1, BlobsStay DEF vars, store, process
<1>2. CASE \E j \in Jobs : JobRequest(j)
  <2> PICK j \in Jobs : JobRequest(j)
    BY <1>2
  <2>1. CASE Cancel(j)
    BY <2>1, BlobsStay DEF Cancel, store, process
  <2>2. CASE \E t \in Printers \cup {NoPrinter}, e \in BOOLEAN : Submit(j, t, e)
    <3>1. /\ \A i \in Jobs \ {j} : obj'[i] = obj[i]
          /\ stored' = stored \cup {j} /\ input' = input \cup {j} /\ output' = output
          /\ UNCHANGED process
      BY <2>2, UpsertMoves DEF Submit
    <3>2. restarts = 0 => j \notin output
      BY <2>2, UsedJobs DEF Submit, OrphanInv, StageInv, BlobsOwned
    <3> QED BY <3>1, <3>2 DEF OrphanInv, BlobsOwned, process, TypeOK
  <2> QED BY <2>1, <2>2 DEF JobRequest
<1>3. CASE \E w \in Workers : WorkerStep(w) \/ SaveUploadProgress(w)
  BY <1>3, WorkerStepOrphans
<1>4. CASE \E w \in Workers : SlicerStep(w)
  BY <1>4, BlobsStay DEF SlicerStep, SlicerProgress, SlicerEnds, store, process
<1>5. CASE \E s \in Procs : SubmissionProgress(s) \/ CloudSend(s)
  BY <1>5, BlobsStay
  DEF SubmissionProgress, CloudTakeSlot, CloudAnswer, LanConnect, LanUpload, LanSend, CloudSend,
      store, process
<1>6. CASE \E c \in Clients : RequestStart(c)
  <2> PICK c \in Clients : RequestStart(c)
    BY <1>6
  <2>1. CASE \E j \in Jobs : DeleteRequest(c, j)
    BY <2>1, DeleteOrphans, BlobsStay DEF DeleteRequest, store, process
  <2>2. CASE \E j \in Jobs, p \in Printers : PrintRequest(c, j, p)
    BY <2>2, PrintedMoves, BlobsStay DEF PrintRequest, process
  <2> QED BY <2>1, <2>2 DEF RequestStart
<1>7. CASE \E c \in Clients : RequestEnd(c)
  <2> PICK c \in Clients : RequestEnd(c)
    BY <1>7
  <2>1. job[c] \in Jobs
    BY HeldJob DEF RequestEnd, DeleteAfterWait, FinishPrint, OrphanInv, StageInv, OwnerInv, Procs
  <2>2. CASE \E gaveUp \in BOOLEAN : DeleteAfterWait(c, gaveUp)
    BY <2>1, <2>2, DeleteOrphans DEF DeleteAfterWait
  <2>3. CASE FinishPrint(c)
    BY <2>1, <2>3, PrintedMoves, BlobsStay DEF FinishPrint, process
  <2> QED BY <2>2, <2>3 DEF RequestEnd
<1>8. CASE \E statuses \in SUBSET Terminal : Clear(statuses)
  BY <1>8 DEF Clear, Flush, process, OrphanInv, BlobsOwned
<1>9. CASE \E p \in Printers : PrinterOnline(p) \/ PrinterFinishes(p)
  BY <1>9, BlobsStay DEF PrinterOnline, PrinterFinishes, store, process
<1>10. CASE Shutdown
  BY <1>10, BlobsStay DEF Shutdown, store
<1>11. CASE Crash \/ Exit
  BY <1>11 DEF Crash, Exit, Lost, BlobsOwned, TypeOK
<1>12. CASE Boot \/ StartWorkers \/ \E j \in Jobs : RecoverJob(j)
  BY <1>12 DEF Boot, StartWorkers, RecoverJob, BlobsOwned, process
<1> QED
  BY <1>1, <1>2, <1>3, <1>4, <1>5, <1>6, <1>7, <1>8, <1>9, <1>10, <1>11, <1>12 DEF Next, Restart

LEMMA InitOrphans == Init => OrphanInv
BY InitStage DEF Init, OrphanInv, BlobsOwned

\* Until the gateway is killed for the first time no blob is left without the
\* record that would delete it, whatever deletions meet running workers.
THEOREM NoOrphans == Spec => []NoOrphanBlobs
<1>1. OrphanInv => NoOrphanBlobs
  <2> SUFFICES ASSUME OrphanInv, restarts = 0, NEW j \in input \cup output
               PROVE  disk[j].status # "absent"
    BY DEF NoOrphanBlobs
  <2>1. j \in stored /\ phase # "down" /\ j \in Jobs
    BY DEF OrphanInv, BlobsOwned, StageInv, OwnerInv, BlobInv, TypeOK
  <2> QED BY <2>1 DEF OrphanInv, StageInv, DiskIsStore, OwnerInv, BlobInv, ObjectsExist
<1> QED BY <1>1, InitOrphans, NextOrphans, PTL DEF Spec

-----------------------------------------------------------------------------
(* What reaches a printer was sliced first: a submission holds a job whose *)
(* record has its output, and the blob of such a record is there or was    *)
(* deleted with it.                                                        *)

SlicedFirst ==
  /\ \A j \in Jobs : (obj[j].printed => obj[j].output) /\ (disk[j].printed => disk[j].output)
  /\ \A s \in Procs : pc[s] = "uploading" => obj[job[s]].output
  /\ \A j \in handed : j \in output \cup deleted
  /\ handed \cup deleted \subseteq used

SlicedInv == StageInv /\ SlicedFirst

\* Blobs only go with their records.
BlobsGoDeleted ==
  /\ output \subseteq output' \cup deleted'
  /\ deleted \subseteq deleted' /\ deleted' \subseteq deleted \cup used
  /\ used \subseteq used'

LEMMA SlicedKeep ==
  ASSUME SlicedInv, StageInv', phase' # "down", handed' \subseteq used', BlobsGoDeleted,
         \A j \in Jobs : /\ obj[j].output => obj'[j].output
                         /\ obj'[j].printed => obj[j].printed \/ obj'[j].output,
         \A s \in Procs : pc'[s] = "uploading" =>
           (pc[s] = "uploading" /\ job'[s] = job[s]) \/ obj'[job'[s]].output,
         \A j \in handed' \ handed : j \in output' \cup deleted'
  PROVE  SlicedFirst'
<1>1. \A j \in Jobs : obj'[j].printed => obj'[j].output
  BY DEF SlicedInv, SlicedFirst
<1>2. \A j \in Jobs : disk'[j].printed => disk'[j].output
  BY <1>1 DEF StageInv, DiskIsStore, NoRecord
<1>3. ASSUME NEW s \in Procs, pc'[s] = "uploading"
      PROVE  obj'[job'[s]].output
  <2>1. CASE pc[s] = "uploading" /\ job'[s] = job[s]
    <3>1. job[s] \in Jobs
      BY <2>1, HeldJob DEF SlicedInv, StageInv, OwnerInv
    <3> QED BY <2>1, <3>1 DEF SlicedInv, SlicedFirst
  <2> QED BY <1>3, <2>1
<1>4. /\ \A j \in handed' : j \in output' \cup deleted'
      /\ handed' \cup deleted' \subseteq used'
  BY DEF SlicedInv, SlicedFirst, BlobsGoDeleted
<1> QED BY <1>1, <1>2, <1>3, <1>4 DEF SlicedFirst

\* No object changes but for its status, nobody starts to submit.
LEMMA SlicedStay ==
  ASSUME SlicedInv, StageInv', phase' # "down", BlobsGoDeleted, UNCHANGED handed,
         \A j \in Jobs : obj'[j].output = obj[j].output /\ obj'[j].printed = obj[j].printed,
         \A s \in Procs : pc'[s] = "uploading" => pc[s] = "uploading" /\ job'[s] = job[s]
  PROVE  SlicedFirst'
<1>1. handed' \subseteq used'
  BY DEF SlicedInv, SlicedFirst, BlobsGoDeleted
<1> QED BY <1>1, SlicedKeep DEF SlicedInv, SlicedFirst

\* A job that is handed over was sliced.
LEMMA HandOverSliced ==
  ASSUME SlicedInv, StageInv', phase' # "down", NEW s \in Procs, pc[s] = "uploading", HandOver(s),
         UNCHANGED <<obj, pc, job, output, deleted, used>>
  PROVE  SlicedFirst'
<1>1. job[s] \in Jobs \cap used /\ obj[job[s]].status # "absent"
  BY HeldJob, UsedJobs, SliceJobsAssumption DEF SlicedInv, StageInv, OwnerInv
<1>2. job[s] \in output \cup deleted
  BY <1>1 DEF SlicedInv, SlicedFirst, StageInv, OwnerInv, BlobInv, BlobsKept, Backed
<1>3. handed' = handed \cup {job[s]}
  BY DEF HandOver
<1> QED BY <1>1, <1>2, <1>3, SlicedKeep DEF SlicedInv, SlicedFirst, BlobsGoDeleted

LEMMA DeletedBlobs ==
  ASSUME SlicedInv, NEW j \in Jobs, Delete(j), UNCHANGED used
  PROVE  BlobsGoDeleted /\ UNCHANGED obj
<1>1. CASE j \in stored
  BY <1>1, UsedJobs DEF Delete, Flush, BlobsGoDeleted, SlicedInv, StageInv
<1>2. CASE j \notin stored
  BY <1>2 DEF Delete, store, BlobsGoDeleted
<1> QED BY <1>1, <1>2

LEMMA WorkerStepSliced ==
  ASSUME SlicedInv, StageInv', phase # "down", NEW w \in Workers,
         WorkerStep(w) \/ SlicerStep(w) \/ SaveUploadProgress(w)
  PROVE  SlicedFirst'
<1> TypeOK /\ w \in Procs
  BY DEF SlicedInv, StageInv, OwnerInv, BlobInv, Procs
<1>1. UNCHANGED <<input, phase, history>>
  BY DEF WorkerStep, SkipMissing, SkipCancelled, StartSlicing, CrashSlicing, TakeProgress,
         CancelSlicing, FinishSlicing, FinishAutoPrint, WorkerExit, SaveUploadProgress,
         SlicerStep, SlicerProgress, SlicerEnds, process, store
<1>2. UNCHANGED handed /\ handed' \subseteq used' /\ phase' # "down"
  BY <1>1 DEF history, SlicedInv, SlicedFirst
<1>3. BlobsGoDeleted
  BY <1>1
  DEF history, BlobsGoDeleted, store, WorkerStep, SkipMissing, SkipCancelled, StartSlicing,
      CrashSlicing, TakeProgress, CancelSlicing, FinishSlicing, FinishAutoPrint, WorkerExit,
      SaveUploadProgress, SlicerStep, SlicerProgress, SlicerEnds
<1>4. CASE SkipMissing(w) \/ WorkerExit(w) \/ SlicerStep(w)
  BY <1>2, <1>3, <1>4, SlicedStay
  DEF SkipMissing, WorkerExit, SlicerStep, SlicerProgress, SlicerEnds,
      store, procs, TypeOK
<1>5. CASE SkipCancelled(w) \/ StartSlicing(w) \/ CrashSlicing(w)
  <2>1. Head(queue) \in Jobs
    BY <1>5 DEF SkipCancelled, StartSlicing, CrashSlicing, TypeOK
  <2>2. \A j \in Jobs : obj'[j].output = obj[j].output /\ obj'[j].printed = obj[j].printed
    BY <1>5, <2>1, SetStatusMoves
    DEF SkipCancelled, StartSlicing, CrashSlicing, Status, InFlight, Terminal
  <2>3. \A s \in Procs : pc'[s] = "uploading" => pc[s] = "uploading" /\ job'[s] = job[s]
    BY <1>5 DEF SkipCancelled, StartSlicing, CrashSlicing, procs, TypeOK
  <2> QED BY <1>2, <1>3, <2>2, <2>3, SlicedStay
<1>6. CASE TakeProgress(w) \/ SaveUploadProgress(w)
  <2>1. job[w] \in Jobs
    BY <1>6, WorkersJob DEF TakeProgress, SaveUploadProgress, SlicedInv
  <2>2. \A j \in Jobs : obj'[j] = obj[j]
    BY <1>6, <2>1, UpsertMoves DEF TakeProgress, SaveUploadProgress
  <2>3. \A s \in Procs : pc'[s] = "uploading" => pc[s] = "uploading" /\ job'[s] = job[s]
    BY <1>6 DEF TakeProgress, SaveUploadProgress, procs, TypeOK
  <2> QED BY <1>2, <1>3, <2>2, <2>3, SlicedStay
<1>9. CASE CancelSlicing(w)
  <2>1. job[w] \in Jobs
    BY <1>9, WorkersJob DEF CancelSlicing, SlicedInv
  <2>2. \A j \in Jobs : obj'[j].output = obj[j].output /\ obj'[j].printed = obj[j].printed
    BY <1>9, <2>1, SetStatusMoves DEF CancelSlicing, Status, Terminal
  <2>3. \A s \in Procs : pc'[s] = "uploading" => pc[s] = "uploading" /\ job'[s] = job[s]
    BY <1>9 DEF CancelSlicing, EndRun, Free, TypeOK
  <2> QED BY <1>2, <1>3, <2>2, <2>3, SlicedStay
<1>7. CASE FinishAutoPrint(w)
  <2>1. job[w] \in Jobs /\ obj[job[w]].output
    BY <1>7, WorkersJob DEF FinishAutoPrint, SlicedInv, SlicedFirst
  <2>2. \A j \in Jobs : /\ obj[j].output => obj'[j].output
                        /\ obj'[j].printed => obj[j].printed \/ obj'[j].output
    BY <1>7, <2>1, SetStatusMoves, PrintedMoves DEF FinishAutoPrint, Status, Terminal
  <2>3. \A s \in Procs : pc'[s] = "uploading" => pc[s] = "uploading" /\ job'[s] = job[s]
    BY <1>7 DEF FinishAutoPrint, EndRun, Free, TypeOK
  <2> QED BY <1>2, <1>3, <2>2, <2>3, SlicedKeep
<1>8. CASE \E traysOk \in BOOLEAN : FinishSlicing(w, traysOk)
  <2> PICK traysOk \in BOOLEAN : FinishSlicing(w, traysOk)
    BY <1>8
  <2>1. job[w] \in Jobs /\ obj[job[w]] \in Record
    BY WorkersJob DEF FinishSlicing, SlicedInv
  <2>2. CASE sub[w] # "result"
    <3>1. \A j \in Jobs : obj'[j].output = obj[j].output /\ obj'[j].printed = obj[j].printed
      BY <2>1, <2>2, SetStatusMoves DEF FinishSlicing, Status, Terminal
    <3>2. \A s \in Procs : pc'[s] = "uploading" => pc[s] = "uploading" /\ job'[s] = job[s]
      BY <2>2 DEF FinishSlicing, EndRun, Free, TypeOK
    <3> QED BY <1>2, <1>3, <3>1, <3>2, SlicedStay
  <2>3. CASE sub[w] = "result"
    <3>1. PICK st \in {"ready", "uploading"} :
                 Upsert(job[w], [obj[job[w]] EXCEPT !.output = TRUE, !.status = st])
      BY <2>3 DEF FinishSlicing
    <3>2. [obj[job[w]] EXCEPT !.output = TRUE, !.status = st].output
      BY <2>1 DEF Record
    <3>3. obj'[job[w]].output /\ \A j \in Jobs \ {job[w]} : obj'[j] = obj[j]
      BY <2>1, <3>1, <3>2, UpsertMoves
    <3>4. \A s \in Procs : pc'[s] = "uploading" =>
             (pc[s] = "uploading" /\ job'[s] = job[s]) \/ job'[s] = job[w]
      BY DEF FinishSlicing, EndRun, Free, TypeOK
    <3> QED BY <1>2, <1>3, <3>3, <3>4, SlicedKeep
  <2> QED BY <2>2, <2>3
<1> QED BY <1>4, <1>5, <1>6, <1>7, <1>8, <1>9 DEF WorkerStep

LEMMA RequestSliced ==
  ASSUME SlicedInv, StageInv', phase # "down", NEW c \in Clients, RequestStart(c) \/ RequestEnd(c)
  PROVE  SlicedFirst'
<1> TypeOK /\ c \in Procs
  BY DEF SlicedInv, StageInv, OwnerInv, BlobInv, Procs
<1>1. UNCHANGED <<handed, used>> /\ handed' \subseteq used' /\ phase' # "down"
  BY DEF RequestStart, RequestEnd, DeleteRequest, PrintRequest, DeleteAfterWait, FinishPrint,
         process, history, SlicedInv, SlicedFirst
<1>2. CASE \E j \in Jobs : DeleteRequest(c, j)
  <2>1. BlobsGoDeleted /\ UNCHANGED obj
    BY <1>1, <1>2, DeletedBlobs DEF DeleteRequest, store, BlobsGoDeleted
  <2>2. \A s \in Procs : pc'[s] = "uploading" => pc[s] = "uploading" /\ job'[s] = job[s]
    BY <1>2 DEF DeleteRequest, TypeOK
  <2> QED BY <1>1, <2>1, <2>2, SlicedStay
<1>3. CASE \E gaveUp \in BOOLEAN : DeleteAfterWait(c, gaveUp)
  <2>1. job[c] \in Jobs
    BY <1>3, HeldJob DEF DeleteAfterWait, SlicedInv, StageInv, OwnerInv
  <2>2. BlobsGoDeleted /\ UNCHANGED obj
    BY <1>1, <1>3, <2>1, DeletedBlobs DEF DeleteAfterWait
  <2>3. \A s \in Procs : pc'[s] = "uploading" => pc[s] = "uploading" /\ job'[s] = job[s]
    BY <1>3 DEF DeleteAfterWait, Free, TypeOK
  <2> QED BY <1>1, <2>2, <2>3, SlicedStay
<1>4. CASE \E j \in Jobs, p \in Printers : PrintRequest(c, j, p)
  <2> PICK j \in Jobs, p \in Printers : PrintRequest(c, j, p)
    BY <1>4
  <2>1. obj[j].output /\ BlobsGoDeleted
    BY <1>1 DEF PrintRequest, history, BlobsGoDeleted
  <2>2. /\ obj'[j].output
        /\ \A i \in Jobs \ {j} : obj'[i] = obj[i]
    BY <2>1, PrintedMoves DEF PrintRequest
  <2>3. \A s \in Procs : pc'[s] = "uploading" =>
           (pc[s] = "uploading" /\ job'[s] = job[s]) \/ job'[s] = j
    BY DEF PrintRequest, TypeOK
  <2> QED BY <1>1, <2>1, <2>2, <2>3, SlicedKeep
<1>5. CASE FinishPrint(c)
  <2>1. job[c] \in Jobs /\ obj[job[c]].output /\ BlobsGoDeleted
    BY <1>1, <1>5, HeldJob
    DEF FinishPrint, SlicedInv, SlicedFirst, StageInv, OwnerInv, history, BlobsGoDeleted
  <2>2. \A j \in Jobs : /\ obj[j].output => obj'[j].output
                        /\ obj'[j].printed => obj[j].printed \/ obj'[j].output
    BY <1>5, <2>1, PrintedMoves DEF FinishPrint
  <2>3. \A s \in Procs : pc'[s] = "uploading" => pc[s] = "uploading" /\ job'[s] = job[s]
    BY <1>5 DEF FinishPrint, Free, TypeOK
  <2> QED BY <1>1, <2>1, <2>2, <2>3, SlicedKeep
<1> QED BY <1>2, <1>3, <1>4, <1>5 DEF RequestStart, RequestEnd

\* Nobody submits anything while the gateway is down or recovers.
LEMMA NobodySubmits ==
  ASSUME StageInv, phase \in {"down", "recovering"}, NEW s \in Procs
  PROVE  pc[s] \in {"idle", "exited"}
BY HeldJob, SliceJobsAssumption DEF StageInv, OwnerInv, BlobInv, NobodyWorks

LEMMA NextSliced ==
  ASSUME SlicedInv, [Next]_vars
  PROVE  SlicedInv'
<1> StageInv' /\ TypeOK
  BY NextStage DEF SlicedInv, StageInv, OwnerInv, BlobInv
<1> SUFFICES SlicedFirst'
  BY DEF SlicedInv
<1>1. CASE UNCHANGED vars
  BY <1>1 DEF vars, store, procs, history, SlicedInv, SlicedFirst
<1>2. CASE \E j \in Jobs : JobRequest(j)
  <2> PICK j \in Jobs : JobRequest(j)
    BY <1>2
  <2>1. phase' # "down" /\ BlobsGoDeleted /\ UNCHANGED <<handed, procs>>
    BY DEF JobRequest, Submit, Cancel, Serving, process, store, BlobsGoDeleted
  <2>2. CASE Cancel(j)
    BY <2>1, <2>2, SlicedStay DEF Cancel, store, procs
  <2>3. CASE \E t \in Printers \cup {NoPrinter}, e \in BOOLEAN : Submit(j, t, e)
    <3> PICK t \in Printers \cup {NoPrinter}, e \in BOOLEAN : Submit(j, t, e)
      BY <2>3
    <3>1. j \notin used /\ obj[j].status = "absent"
      BY DEF Submit, SlicedInv, StageInv, OwnerInv, RecordsKnown
    <3>2. obj'[j] = [NoRecord EXCEPT !.status = "queued", !.target = t]
      BY UpsertMoves DEF Submit
    <3>3. ~obj'[j].printed /\ \A i \in Jobs \ {j} : obj'[i] = obj[i]
      BY <3>2, UpsertMoves DEF Submit, NoRecord
    <3>4. \A i \in Jobs : obj'[i].printed => obj'[i].output
      BY <3>3 DEF SlicedInv, SlicedFirst
    <3>5. \A i \in Jobs : disk'[i].printed => disk'[i].output
      BY <2>1, <3>4 DEF StageInv, DiskIsStore, NoRecord
    <3>6. ASSUME NEW s \in Procs, pc'[s] = "uploading"
          PROVE  obj'[job'[s]].output
      <4>1. pc[s] = "uploading" /\ job'[s] = job[s]
        BY <2>1, <3>6 DEF procs
      <4>2. job[s] \in Jobs /\ job[s] # j
        BY <3>1, <4>1, HeldJob DEF SlicedInv, StageInv, OwnerInv
      <4> QED BY <3>3, <4>1, <4>2 DEF SlicedInv, SlicedFirst
    <3>7. /\ \A i \in handed' : i \in output' \cup deleted'
          /\ handed' \cup deleted' \subseteq used'
      BY <2>1 DEF Submit, SlicedInv, SlicedFirst, BlobsGoDeleted
    <3> QED BY <3>4, <3>5, <3>6, <3>7 DEF SlicedFirst
  <2> QED BY <2>2, <2>3 DEF JobRequest
<1>3. CASE \E w \in Workers : WorkerStep(w) \/ SlicerStep(w) \/ SaveUploadProgress(w)
  <2> PICK w \in Workers : WorkerStep(w) \/ SlicerStep(w) \/ SaveUploadProgress(w)
    BY <1>3
  <2>1. Working \/ pc[w] \notin {"idle", "exited"}
    BY DEF WorkerStep, SkipMissing, SkipCancelled, StartSlicing, CrashSlicing, TakeProgress,
         CancelSlicing, FinishSlicing, FinishAutoPrint, WorkerExit, SaveUploadProgress,
         SlicerStep, SlicerProgress, SlicerEnds
  <2>2. phase # "down"
    BY <2>1, NobodySubmits DEF Working, SlicedInv, Procs
  <2> QED BY <2>2, WorkerStepSliced
<1>4. CASE \E s \in Procs : SubmissionProgress(s) \/ CloudSend(s)
  <2> PICK s \in Procs : SubmissionProgress(s) \/ CloudSend(s)
    BY <1>4
  <2>1. /\ UNCHANGED <<obj, pc, job, output, deleted, used, phase>>
        /\ pc[s] = "uploading" /\ BlobsGoDeleted
        /\ UNCHANGED handed \/ HandOver(s)
    BY DEF SubmissionProgress, CloudTakeSlot, CloudAnswer, LanConnect, LanUpload, LanSend,
           CloudSend, SubmissionStep, store, process, history, BlobsGoDeleted
  <2>2. phase' # "down"
    BY <2>1, NobodySubmits DEF SlicedInv
  <2> QED BY <2>1, <2>2, SlicedStay, HandOverSliced
<1>5. CASE \E c \in Clients : RequestStart(c) \/ RequestEnd(c)
  <2> PICK c \in Clients : RequestStart(c) \/ RequestEnd(c)
    BY <1>5
  <2>1. Serving \/ pc[c] \notin {"idle", "exited"}
    BY DEF RequestStart, RequestEnd, DeleteRequest, PrintRequest, DeleteAfterWait, FinishPrint
  <2>2. phase # "down"
    BY <2>1, NobodySubmits DEF Serving, SlicedInv, Procs
  <2> QED BY <2>2, RequestSliced
<1>6. CASE \E statuses \in SUBSET Terminal : Clear(statuses)
  <2>1. BlobsGoDeleted /\ UNCHANGED <<obj, handed, phase, procs>> /\ phase # "down"
    BY <1>6, UsedJobs
    DEF Clear, Flush, BlobsGoDeleted, process, Serving, SlicedInv, StageInv
  <2> QED BY <2>1, SlicedStay DEF procs
<1>7. CASE Shutdown \/ StartWorkers \/ \E p \in Printers : PrinterOnline(p) \/ PrinterFinishes(p)
  BY <1>7 DEF Shutdown, StartWorkers, PrinterOnline, PrinterFinishes, store, procs, history,
              SlicedInv, SlicedFirst
<1>8. CASE Exit \/ Crash
  <2>1. phase' = "down" /\ \A j \in Jobs : obj'[j] = NoRecord
    BY <1>8 DEF Exit, Crash, Lost
  <2>2. \A j \in Jobs : disk'[j] \in {disk[j], NoRecord}
    BY <1>8 DEF Exit, Crash, TypeOK
  <2>3. BlobsGoDeleted /\ UNCHANGED handed
    BY <1>8, UsedJobs DEF Exit, Crash, BlobsGoDeleted, SlicedInv, StageInv
  <2>4. \A s \in Procs : pc'[s] # "uploading"
    BY <1>8 DEF Exit, Crash, Lost
  <2> QED BY <2>1, <2>2, <2>3, <2>4 DEF SlicedInv, SlicedFirst, NoRecord, BlobsGoDeleted
<1>9. CASE Boot
  <2>1. \A s \in Procs : pc'[s] # "uploading"
    BY <1>9, NobodySubmits DEF Boot, procs, SlicedInv
  <2> QED BY <1>9, <2>1 DEF Boot, history, SlicedInv, SlicedFirst
<1>10. CASE \E j \in Jobs : RecoverJob(j)
  <2> PICK j \in Jobs : RecoverJob(j)
    BY <1>10
  <2>1. phase' # "down" /\ BlobsGoDeleted /\ UNCHANGED <<handed, procs>>
    BY DEF RecoverJob, BlobsGoDeleted, history
  <2>2. \A i \in Jobs : obj'[i].output = obj[i].output /\ obj'[i].printed = obj[i].printed
    BY SetStatusMoves DEF RecoverJob, Status, Terminal
  <2> QED BY <2>1, <2>2, SlicedStay DEF procs
<1> QED
  BY <1>1, <1>2, <1>3, <1>4, <1>5, <1>6, <1>7, <1>8, <1>9, <1>10 DEF Next, Restart

LEMMA InitSliced == Init => SlicedInv
BY InitStage DEF Init, SlicedInv, SlicedFirst, NoRecord

\* Whatever reaches a printer, LAN or cloud, was sliced to its output blob first,
\* and a job that never finished slicing is not recorded as printed.
THEOREM HandedCorrect == Spec => []HandedWasSliced
<1>1. SlicedInv => HandedWasSliced
  BY DEF SlicedInv, SlicedFirst, HandedWasSliced
<1> QED BY <1>1, InitSliced, NextSliced, PTL DEF Spec

-----------------------------------------------------------------------------
(* Print commands that were sent.  With LAN printers only, the status of a *)
(* job whose command was sent is never one of a job that was not: the only *)
(* worker that still holds such a job ends with "ok".                      *)

NotSent == {"queued", "slicing", "cancelled"}

SentIsKnown ==
  /\ \A j \in handed : obj[j].status \notin NotSent /\ disk[j].status \notin NotSent
  /\ \A w \in Workers : pc[w] = "uploading" /\ job[w] \in handed => sub[w] = "ok"
  /\ \A s \in Procs : sub[s] \notin {"reading", "slot", "sent"}

SentInv == SlicedInv /\ SentIsKnown

\* Nothing is sent, and only a job that was not sent takes a status of NotSent.
LEMMA SentStay ==
  ASSUME SentInv, StageInv', phase' # "down", UNCHANGED handed,
         \A j \in handed : obj'[j].status \in {obj[j].status, "ready", "failed", "uploading"},
         \A s \in Procs : sub'[s] \notin {"reading", "slot", "sent"},
         \A w \in Workers : pc'[w] = "uploading" =>
           job'[w] \notin handed \/ UNCHANGED <<pc[w], job[w], sub[w]>>
  PROVE  SentIsKnown'
<1>1. \A j \in handed : obj'[j].status \notin NotSent
  BY DEF SentInv, SentIsKnown, NotSent
<1>2. \A j \in handed : j \in Jobs
  BY DEF SentInv, SlicedInv, StageInv, OwnerInv, BlobInv, TypeOK
<1>3. \A j \in handed : disk'[j].status \notin NotSent
  BY <1>1, <1>2 DEF StageInv, DiskIsStore, NoRecord, NotSent
<1> QED BY <1>1, <1>3 DEF SentInv, SentIsKnown

\* The job of a worker that has not submitted it yet was not sent.
LEMMA ActiveNotSent ==
  ASSUME SentInv
  PROVE  /\ \A w \in Workers : job[w] # NoJob /\ pc[w] # "uploading" => job[w] \notin handed
         /\ queue # <<>> => Head(queue) \notin handed
         /\ \A w \in Workers : pc[w] = "uploading" /\ sub[w] # "ok" => job[w] \notin handed
<1>1. handed \subseteq Jobs /\ TypeOK
  BY DEF SentInv, SlicedInv, StageInv, OwnerInv, BlobInv, TypeOK
<1>2. \A w \in Workers : job[w] # NoJob /\ pc[w] # "uploading" => job[w] \notin handed
  BY DEF SentInv, SlicedInv, StageInv, StagesFit, SentIsKnown, NotSent
<1>3. queue # <<>> => Head(queue) \notin handed
  BY <1>1, HeadIsFree DEF SentInv, SlicedInv, SentIsKnown, NotSent
<1> QED BY <1>2, <1>3 DEF SentInv, SentIsKnown

LEMMA WorkerStepSent ==
  ASSUME SentInv, StageInv', phase # "down", NEW w \in Workers,
         WorkerStep(w) \/ SlicerStep(w) \/ SaveUploadProgress(w), CloudPrinters = {}
  PROVE  SentIsKnown'
<1> TypeOK /\ w \in Procs
  BY DEF SentInv, SlicedInv, StageInv, OwnerInv, BlobInv, Procs
<1>1. UNCHANGED <<phase, handed>>
  BY DEF WorkerStep, SkipMissing, SkipCancelled, StartSlicing, CrashSlicing, TakeProgress,
         CancelSlicing, FinishSlicing, FinishAutoPrint, WorkerExit, SaveUploadProgress,
         SlicerStep, SlicerProgress, SlicerEnds, process, history
<1>2. /\ handed \subseteq Jobs
      /\ \A s \in Procs : sub'[s] \notin {"reading", "slot", "sent"}
  <2>1. \A s \in Procs : sub[s] \notin {"reading", "slot", "sent"}
    BY DEF SentInv, SentIsKnown
  <2>2. CASE UNCHANGED sub
    BY <2>1, <2>2 DEF TypeOK
  <2>3. CASE Free(w)
    BY <2>1, <2>3 DEF Free, TypeOK
  <2>4. CASE SlicerStep(w)
    BY <2>1, <2>4 DEF SlicerStep, SlicerProgress, SlicerEnds, Outcome, TypeOK
  <2>5. ASSUME NEW traysOk \in BOOLEAN, FinishSlicing(w, traysOk), ~EndRun(w)
        PROVE  \A s \in Procs : sub'[s] \notin {"reading", "slot", "sent"}
    BY <2>1, <2>5 DEF FinishSlicing, TypeOK
  <2> QED
    BY <2>2, <2>3, <2>4, <2>5
    DEF WorkerStep, SkipMissing, SkipCancelled, StartSlicing, CrashSlicing, TakeProgress,
        CancelSlicing, FinishSlicing, FinishAutoPrint, WorkerExit, SaveUploadProgress, EndRun,
        procs, TypeOK
<1>3. CASE SkipMissing(w) \/ WorkerExit(w) \/ SlicerStep(w)
  <2>1. UNCHANGED obj
    BY <1>3 DEF SkipMissing, WorkerExit, SlicerStep, SlicerProgress, SlicerEnds, store
  <2>2. \A v \in Workers : pc'[v] = "uploading" => UNCHANGED <<pc[v], job[v], sub[v]>>
    BY <1>3
    DEF SkipMissing, WorkerExit, SlicerStep, SlicerProgress, SlicerEnds, procs, Procs, TypeOK
  <2> QED BY <1>1, <1>2, <2>1, <2>2, SentStay
<1>4. CASE SkipCancelled(w) \/ StartSlicing(w) \/ CrashSlicing(w)
  <2>1. Head(queue) \in Jobs \ handed
    BY <1>4, ActiveNotSent DEF SkipCancelled, StartSlicing, CrashSlicing, TypeOK
  <2>2. \A j \in handed : obj'[j] = obj[j]
    BY <1>2, <1>4, <2>1, SetStatusMoves
    DEF SkipCancelled, StartSlicing, CrashSlicing, Status, InFlight, Terminal
  <2>3. \A v \in Workers : pc'[v] = "uploading" => UNCHANGED <<pc[v], job[v], sub[v]>>
    BY <1>4 DEF SkipCancelled, StartSlicing, CrashSlicing, procs, Procs, TypeOK
  <2> QED BY <1>1, <1>2, <2>2, <2>3, SentStay
<1>5. CASE TakeProgress(w) \/ SaveUploadProgress(w)
  <2>1. job[w] \in Jobs
    BY <1>5, WorkersJob DEF TakeProgress, SaveUploadProgress, SentInv, SlicedInv
  <2>2. \A j \in Jobs : obj'[j] = obj[j]
    BY <1>5, <2>1, UpsertMoves DEF TakeProgress, SaveUploadProgress
  <2>3. \A v \in Workers : pc'[v] = "uploading" => UNCHANGED <<pc[v], job[v], sub[v]>>
    BY <1>5 DEF TakeProgress, SaveUploadProgress, procs, Procs, TypeOK
  <2> QED BY <1>1, <1>2, <2>2, <2>3, SentStay
<1>6. CASE FinishAutoPrint(w)
  <2>1. job[w] \in Jobs
    BY <1>6, WorkersJob DEF FinishAutoPrint, SentInv, SlicedInv
  <2>2. sub[w] = "cancelled" => job[w] \notin handed
    BY <1>6, ActiveNotSent DEF FinishAutoPrint
  <2>3. \A j \in handed : obj'[j].status \in {obj[j].status, "ready", "failed"}
    <3>1. CASE sub[w] = "ok"
      BY <1>2, <1>6, <2>1, <3>1, PrintedMoves DEF FinishAutoPrint
    <3>2. CASE sub[w] = "error"
      <4>1. SetStatus(job[w], "failed") /\ "failed" \in Status
        BY <1>6, <3>2 DEF FinishAutoPrint, Status, Terminal
      <4> QED BY <1>2, <2>1, <4>1, SetStatusMoves
    <3>3. CASE sub[w] = "cancelled"
      BY <1>2, <1>6, <2>1, <2>2, <3>3, SetStatusMoves DEF FinishAutoPrint, Status, Terminal
    <3> QED BY <1>6, <3>1, <3>2, <3>3 DEF FinishAutoPrint
  <2>4. \A v \in Workers : pc'[v] = "uploading" => UNCHANGED <<pc[v], job[v], sub[v]>>
    BY <1>6 DEF FinishAutoPrint, EndRun, Free, Procs, TypeOK
  <2> QED BY <1>1, <1>2, <2>3, <2>4, SentStay
<1>8. CASE CancelSlicing(w)
  <2>1. job[w] \in Jobs \ handed
    BY <1>8, WorkersJob, ActiveNotSent DEF CancelSlicing, SentInv, SlicedInv
  <2>2. \A j \in Jobs \ {job[w]} : obj'[j] = obj[j]
    BY <1>8, <2>1, UpsertMoves DEF CancelSlicing, SetStatus
  <2>3. \A v \in Workers : pc'[v] = "uploading" => UNCHANGED <<pc[v], job[v], sub[v]>>
    BY <1>8 DEF CancelSlicing, EndRun, Free, Procs, TypeOK
  <2> QED BY <1>1, <1>2, <2>1, <2>2, <2>3, SentStay
<1>7. CASE \E traysOk \in BOOLEAN : FinishSlicing(w, traysOk)
  <2> PICK traysOk \in BOOLEAN : FinishSlicing(w, traysOk)
    BY <1>7
  <2>1. job[w] \in Jobs \ handed
    BY WorkersJob, ActiveNotSent DEF FinishSlicing, SentInv, SlicedInv
  <2>2. \A j \in Jobs \ {job[w]} : obj'[j] = obj[j]
    BY <2>1, UpsertMoves DEF FinishSlicing, SetStatus
  <2>3. \A v \in Workers : pc'[v] = "uploading" =>
           \/ job'[v] \notin handed
           \/ UNCHANGED <<pc[v], job[v], sub[v]>>
    BY <2>1 DEF FinishSlicing, EndRun, Free, Procs, TypeOK
  <2> QED BY <1>1, <1>2, <2>1, <2>2, <2>3, SentStay
<1> QED BY <1>3, <1>4, <1>5, <1>6, <1>7, <1>8 DEF WorkerStep

LEMMA SubmissionSent ==
  ASSUME SentInv, StageInv', phase # "down", NEW s \in Procs,
         SubmissionProgress(s) \/ CloudSend(s), CloudPrinters = {}
  PROVE  SentIsKnown'
<1> TypeOK
  BY DEF SentInv, SlicedInv, StageInv, OwnerInv, BlobInv
<1>1. /\ UNCHANGED <<obj, pc, job, phase>> /\ handed \subseteq Jobs
      /\ pc[s] = "uploading" /\ \A r \in Procs \ {s} : sub'[r] = sub[r]
  BY DEF SubmissionProgress, CloudTakeSlot, CloudAnswer, LanConnect, LanUpload, LanSend,
         CloudSend, SubmissionStep, store, process, TypeOK
<1>2. sub[s] \notin {"reading", "slot", "sent"} /\ sub[s] # "ok"
  BY DEF SubmissionProgress, CloudTakeSlot, CloudAnswer, LanConnect, LanUpload, LanSend,
         CloudSend, SubmissionStep, SentInv, SentIsKnown
<1>3. LanConnect(s) \/ LanUpload(s) \/ LanSend(s)
  BY <1>2 DEF SubmissionProgress, CloudTakeSlot, CloudAnswer, CloudSend, SubmissionStep
<1>4. \A r \in Procs : sub'[r] \notin {"reading", "slot", "sent"}
  BY <1>1, <1>3
  DEF LanConnect, LanUpload, LanSend, SubmissionStep, TypeOK, SentInv, SentIsKnown
<1>5. CASE UNCHANGED handed
  <2>1. s \in Workers => job[s] \notin handed
    BY <1>1, <1>2, ActiveNotSent
  <2>2. \A v \in Workers : pc'[v] = "uploading" =>
           job'[v] \notin handed \/ UNCHANGED <<pc[v], job[v], sub[v]>>
    BY <1>1, <2>1 DEF Procs
  <2> QED BY <1>1, <1>4, <1>5, <2>2, SentStay
<1>6. CASE LanSend(s) /\ HandOver(s) /\ sub'[s] = "ok"
  <2>1. handed' = handed \cup {job[s]} /\ job[s] \in Jobs
    BY <1>1, <1>6, HeldJob DEF HandOver, SentInv, SlicedInv, StageInv, OwnerInv
  <2>2. obj[job[s]].status \notin NotSent
    <3>1. CASE s \in Workers
      BY <1>1, <3>1, WorkersJob DEF NotSent, SentInv, SlicedInv
    <3>2. CASE s \in Clients
      <4>1. printer[s] \in LanPrinters
        BY <1>1 DEF TypeOK, ProcsOK, Holds, Printers
      <4> QED BY <1>1, <3>2, <4>1 DEF SentInv, SlicedInv, StageInv, StagesFit, NotSent
    <3> QED BY <3>1, <3>2 DEF Procs
  <2>3. \A j \in handed' : obj'[j].status \notin NotSent
    BY <1>1, <2>1, <2>2 DEF SentInv, SentIsKnown
  <2>4. \A j \in handed' : disk'[j].status \notin NotSent
    BY <1>1, <2>1, <2>3 DEF StageInv, DiskIsStore, NoRecord, NotSent
  <2>5. ASSUME NEW v \in Workers, pc'[v] = "uploading", job'[v] \in handed'
        PROVE  sub'[v] = "ok"
    <3>1. CASE v = s
      BY <1>6, <3>1
    <3>2. CASE v # s
      <4>1. pc[v] = "uploading" /\ sub'[v] = sub[v] /\ job'[v] = job[v]
        BY <1>1, <2>5, <3>2 DEF Procs
      <4>2. job[v] # job[s]
        BY <1>1, <3>2, <4>1, WorkersJob DEF Procs, SentInv, SlicedInv
      <4> QED BY <2>1, <2>5, <4>1, <4>2 DEF SentInv, SentIsKnown
    <3> QED BY <3>1, <3>2
  <2> QED BY <1>4, <2>3, <2>4, <2>5 DEF SentIsKnown
<1> QED
  BY <1>3, <1>5, <1>6
  DEF LanConnect, LanUpload, LanSend, SubmissionStep, history, TypeOK

LEMMA RequestSent ==
  ASSUME SentInv, StageInv', phase # "down", NEW c \in Clients, RequestStart(c) \/ RequestEnd(c),
         CloudPrinters = {}
  PROVE  SentIsKnown'
<1> TypeOK /\ c \in Procs /\ c \notin Workers
  BY SliceJobsAssumption DEF SentInv, SlicedInv, StageInv, OwnerInv, BlobInv, Procs
<1>1. UNCHANGED <<phase, handed>> /\ handed \subseteq Jobs
  BY DEF RequestStart, RequestEnd, DeleteRequest, PrintRequest, DeleteAfterWait, FinishPrint,
         process, history, TypeOK
<1>2. \A v \in Workers : UNCHANGED <<pc[v], job[v], sub[v]>>
  BY DEF RequestStart, RequestEnd, DeleteRequest, PrintRequest, DeleteAfterWait, FinishPrint,
         Free, Procs, TypeOK
<1>3. \A s \in Procs : sub'[s] \notin {"reading", "slot", "sent"}
  BY DEF RequestStart, RequestEnd, DeleteRequest, PrintRequest, DeleteAfterWait, FinishPrint,
         Free, TypeOK, SentInv, SentIsKnown
<1>4. \A j \in Jobs : obj'[j].status \in {obj[j].status, "ready"}
  <2>1. CASE UNCHANGED obj
    BY <2>1
  <2>2. CASE \E j \in Jobs : Upsert(j, [obj[j] EXCEPT !.status = "ready", !.printed = TRUE])
    BY <2>2, PrintedMoves
  <2>3. pc[c] \notin {"idle", "exited"} => job[c] \in Jobs
    BY HeldJob DEF SentInv, SlicedInv, StageInv, OwnerInv
  <2> QED
    BY <2>1, <2>2, <2>3
    DEF RequestStart, RequestEnd, DeleteRequest, PrintRequest, DeleteAfterWait, FinishPrint,
        Delete, Flush, store
<1> QED BY <1>1, <1>2, <1>3, <1>4, SentStay

LEMMA NextSent ==
  ASSUME SentInv, [Next]_vars, CloudPrinters = {}
  PROVE  SentInv'
<1> SlicedInv' /\ StageInv' /\ TypeOK
  BY NextSliced DEF SentInv, SlicedInv, StageInv, OwnerInv, BlobInv
<1> SUFFICES SentIsKnown'
  BY DEF SentInv
<1>1. CASE UNCHANGED vars
  BY <1>1 DEF vars, store, procs, history, SentInv, SentIsKnown
<1>2. CASE \E j \in Jobs : JobRequest(j)
  <2> PICK j \in Jobs : JobRequest(j)
    BY <1>2
  <2>1. phase' # "down" /\ UNCHANGED <<handed, procs>> /\ handed \subseteq Jobs
    BY DEF JobRequest, Submit, Cancel, Serving, process, TypeOK
  <2>2. CASE Cancel(j)
    BY <2>1, <2>2, SentStay DEF Cancel, store, procs, SentInv, SentIsKnown
  <2>3. CASE \E t \in Printers \cup {NoPrinter}, e \in BOOLEAN : Submit(j, t, e)
    <3>1. j \notin handed
      BY <2>3 DEF Submit, SentInv, SlicedInv, SlicedFirst
    <3>2. \A i \in Jobs \ {j} : obj'[i] = obj[i]
      BY <2>3, UpsertMoves DEF Submit
    <3> QED BY <2>1, <3>1, <3>2, SentStay DEF procs, SentInv, SentIsKnown
  <2> QED BY <2>2, <2>3 DEF JobRequest
<1>3. CASE \E w \in Workers : WorkerStep(w) \/ SlicerStep(w) \/ SaveUploadProgress(w)
  <2> PICK w \in Workers : WorkerStep(w) \/ SlicerStep(w) \/ SaveUploadProgress(w)
    BY <1>3
  <2>1. Working \/ pc[w] \notin {"idle", "exited"}
    BY DEF WorkerStep, SkipMissing, SkipCancelled, StartSlicing, CrashSlicing, TakeProgress,
         CancelSlicing, FinishSlicing, FinishAutoPrint, WorkerExit, SaveUploadProgress,
         SlicerStep, SlicerProgress, SlicerEnds
  <2>2. phase # "down"
    BY <2>1, NobodySubmits DEF Working, SentInv, SlicedInv, Procs
  <2> QED BY <2>2, WorkerStepSent
<1>4. CASE \E s \in Procs : SubmissionProgress(s) \/ CloudSend(s)
  <2> PICK s \in Procs : SubmissionProgress(s) \/ CloudSend(s)
    BY <1>4
  <2>1. pc[s] = "uploading"
    BY DEF SubmissionProgress, CloudTakeSlot, CloudAnswer, LanConnect, LanUpload, LanSend,
           CloudSend, SubmissionStep
  <2>2. phase # "down"
    BY <2>1, NobodySubmits DEF SentInv, SlicedInv
  <2> QED BY <2>2, SubmissionSent
<1>5. CASE \E c \in Clients : RequestStart(c) \/ RequestEnd(c)
  <2> PICK c \in Clients : RequestStart(c) \/ RequestEnd(c)
    BY <1>5
  <2>1. Serving \/ pc[c] \notin {"idle", "exited"}
    BY DEF RequestStart, RequestEnd, DeleteRequest, PrintRequest, DeleteAfterWait, FinishPrint
  <2>2. phase # "down"
    BY <2>1, NobodySubmits DEF Serving, SentInv, SlicedInv, Procs
  <2> QED BY <2>2, RequestSent
<1>6. CASE \E statuses \in SUBSET Terminal : Clear(statuses)
  <2>1. UNCHANGED <<obj, handed, phase, procs>> /\ phase # "down"
    BY <1>6 DEF Clear, Flush, process, Serving
  <2> QED BY <2>1, SentStay DEF procs, SentInv, SentIsKnown
<1>7. CASE Shutdown \/ StartWorkers \/ \E p \in Printers : PrinterOnline(p) \/ PrinterFinishes(p)
  BY <1>7 DEF Shutdown, StartWorkers, PrinterOnline, PrinterFinishes, store, procs, history,
              SentInv, SentIsKnown
<1>8. CASE Exit \/ Crash
  <2>1. /\ \A j \in Jobs : obj'[j] = NoRecord /\ disk'[j] \in {disk[j], NoRecord}
        /\ UNCHANGED handed /\ handed \subseteq Jobs
        /\ \A s \in Procs : pc'[s] = "idle" /\ sub'[s] = "none"
    BY <1>8 DEF Exit, Crash, Lost, TypeOK
  <2> QED BY <2>1 DEF SentInv, SentIsKnown, NoRecord, NotSent, Procs
<1>9. CASE Boot
  BY <1>9 DEF Boot, history, procs, SentInv, SentIsKnown
<1>10. CASE \E j \in Jobs : RecoverJob(j)
  <2> PICK j \in Jobs : RecoverJob(j)
    BY <1>10
  <2>1. phase' # "down" /\ UNCHANGED <<handed, procs>> /\ handed \subseteq Jobs
    BY DEF RecoverJob, history, TypeOK
  <2>2. \A i \in Jobs : obj'[i].status \in {obj[i].status, "failed"}
    BY SetStatusMoves DEF RecoverJob, Status, Terminal
  <2> QED BY <2>1, <2>2, SentStay DEF procs, SentInv, SentIsKnown
<1> QED
  BY <1>1, <1>2, <1>3, <1>4, <1>5, <1>6, <1>7, <1>8, <1>9, <1>10 DEF Next, Restart

LEMMA InitSent == Init => SentInv
BY InitSliced DEF Init, SentInv, SentIsKnown

\* With LAN printers a job that is recorded as cancelled was never printed:
\* whatever cancellations, deletions, reprints and restarts interleave, no print
\* command was sent for it, and what was sent was sliced first.  (A reprint on a
\* cloud printer sends before it records the job as ready, so the assumption is
\* needed.)
THEOREM SentCorrect ==
  ASSUME CloudPrinters = {}
  PROVE  Spec => []SentRightly
<1>1. SentInv => SentRightly
  <2>1. SlicedInv => HandedWasSliced
    BY DEF SlicedInv, SlicedFirst, HandedWasSliced
  <2>2. SentInv => CancelledWasNotSent
    BY DEF SentInv, SentIsKnown, NotSent, CancelledWasNotSent
  <2> QED BY <2>1, <2>2 DEF SentInv, SentRightly
<1>2. SentInv /\ [Next]_vars => SentInv'
  BY NextSent
<1> QED BY <1>1, <1>2, InitSent, PTL DEF Spec

-----------------------------------------------------------------------------
(* The queue of a stop: the pills are behind the jobs, one for each worker *)
(* that has not exited, and the first worker exits when no job is left.    *)

AtWork == {w \in Workers : pc[w] # "exited"}

PillsLast ==
  /\ phase # "stopping" => ~Queued(Stop) /\ AtWork = Workers
  /\ phase = "stopping" =>
       /\ Cardinality(AtWork) <= Len(queue)
       /\ AtWork # Workers => Len(queue) = Cardinality(AtWork)
       /\ \A i \in 1..Len(queue) : queue[i] = Stop <=> i > Len(queue) - Cardinality(AtWork)

PillInv == OwnerInv /\ PillsLast

LEMMA AtWorkFinite ==
  /\ IsFiniteSet(AtWork) /\ Cardinality(AtWork) \in Nat
  /\ Cardinality(Workers) \in Nat
  /\ \A w \in AtWork : Cardinality(AtWork \ {w}) = Cardinality(AtWork) - 1
BY SliceJobsAssumption, FS_Subset, FS_CardinalityType, FS_RemoveElement DEF AtWork

LEMMA PillsStay ==
  ASSUME PillInv, UNCHANGED queue, phase' = "stopping" <=> phase = "stopping",
         \A w \in Workers : pc'[w] = "exited" <=> pc[w] = "exited"
  PROVE  PillsLast'
<1>1. AtWork' = AtWork
  BY DEF AtWork
<1> QED BY <1>1 DEF PillInv, PillsLast, Queued

LEMMA HeadTaken ==
  ASSUME PillInv, queue # <<>>, Head(queue) \in Jobs, queue' = Tail(queue), UNCHANGED phase,
         \A w \in Workers : pc'[w] = "exited" <=> pc[w] = "exited"
  PROVE  PillsLast'
<1> TypeOK /\ QueueDistinct
  BY DEF PillInv, OwnerInv, BlobInv
<1>1. AtWork' = AtWork
  BY DEF AtWork
<1>2. CASE phase # "stopping"
  <2>1. ~Queued(Stop)'
    BY <1>2, QueueTail DEF PillInv, PillsLast
  <2> QED BY <1>1, <1>2, <2>1 DEF PillInv, PillsLast
<1>3. CASE phase = "stopping"
  <2> DEFINE n == Cardinality(AtWork)
  <2>1. /\ Len(queue) \in Nat /\ Len(queue) > 0 /\ Head(queue) = queue[1]
        /\ Len(queue') = Len(queue) - 1
        /\ \A i \in 1..Len(queue') : i + 1 \in 1..Len(queue) /\ queue'[i] = queue[i + 1]
    BY DEF TypeOK
  <2>2. n \in Nat
    BY AtWorkFinite
  <2>3. n < Len(queue)
    <3>1. queue[1] # Stop /\ 1 \in 1..Len(queue)
      BY <2>1, SliceJobsAssumption
    <3>2. ~(1 > Len(queue) - n)
      BY <1>3, <3>1 DEF PillInv, PillsLast
    <3> QED BY <2>1, <2>2, <3>2
  <2>4. AtWork = Workers
    BY <1>3, <2>1, <2>2, <2>3 DEF PillInv, PillsLast
  <2>5. \A i \in 1..Len(queue') : queue'[i] = Stop <=> i > Len(queue') - n
    <3> TAKE i \in 1..Len(queue')
    <3>1. queue[i + 1] = Stop <=> i + 1 > Len(queue) - n
      BY <1>3, <2>1 DEF PillInv, PillsLast
    <3> QED BY <2>1, <2>2, <3>1
  <2> QED BY <1>1, <1>3, <2>1, <2>2, <2>3, <2>4, <2>5 DEF PillsLast
<1> QED BY <1>2, <1>3

LEMMA ExitPills ==
  ASSUME PillInv, NEW w \in Workers, WorkerExit(w)
  PROVE  PillsLast'
<1> TypeOK /\ w \in Procs
  BY DEF PillInv, OwnerInv, BlobInv, Procs
<1> DEFINE n == Cardinality(AtWork)
<1>1. /\ Len(queue) \in Nat /\ Len(queue) > 0 /\ queue[1] = Stop
      /\ Len(queue') = Len(queue) - 1
      /\ \A i \in 1..Len(queue') : i + 1 \in 1..Len(queue) /\ queue'[i] = queue[i + 1]
  BY DEF WorkerExit, TypeOK
<1>2. phase = "stopping" /\ phase' = phase
  BY <1>1 DEF WorkerExit, process, PillInv, PillsLast, Queued
<1>3. w \in AtWork /\ AtWork' = AtWork \ {w}
  BY DEF WorkerExit, AtWork, TypeOK, Procs
<1>4. n \in Nat /\ Cardinality(AtWork)' = n - 1
  BY <1>3, AtWorkFinite
<1>5. Len(queue) = n
  <2>1. 1 > Len(queue) - n /\ n <= Len(queue)
    BY <1>1, <1>2 DEF PillInv, PillsLast
  <2> QED BY <1>1, <1>4, <2>1
<1>6. \A i \in 1..Len(queue') : queue'[i] = Stop
  <2> TAKE i \in 1..Len(queue')
  <2>1. i + 1 > Len(queue) - n
    BY <1>1, <1>4, <1>5
  <2> QED BY <1>1, <1>2, <2>1 DEF PillInv, PillsLast
<1>7. Len(queue') = n - 1
  BY <1>1, <1>5
<1>8. \A i \in 1..Len(queue') : i > Len(queue') - (n - 1)
  BY <1>4, <1>7
<1> HIDE DEF n
<1> QED BY <1>2, <1>4, <1>6, <1>7, <1>8 DEF PillsLast

LEMMA ShutdownPills ==
  ASSUME PillInv, Shutdown
  PROVE  PillsLast' /\ \A j : Queued(j) => Queued(j)'
<1> TypeOK
  BY DEF PillInv, OwnerInv, BlobInv
<1> DEFINE n == Cardinality(Workers)
           pills == [i \in 1..n |-> Stop]
<1>1. /\ queue \in Seq(Jobs \cup {Stop}) /\ Len(queue) \in Nat
      /\ pills \in Seq(Jobs \cup {Stop}) /\ Len(pills) = n /\ n \in Nat
  BY Pills DEF TypeOK
<1>2. queue' = queue \o pills
  BY DEF Shutdown
<1>3. /\ Len(queue') = Len(queue) + n
      /\ \A i \in 1..Len(queue) : queue'[i] = queue[i]
      /\ \A i \in Len(queue) + 1..Len(queue) + n : queue'[i] = Stop
  <2>1. Len(queue') = Len(queue) + Len(pills)
    BY <1>1, <1>2
  <2>2. \A i \in 1..Len(queue) : queue'[i] = queue[i]
    BY <1>1, <1>2
  <2>3. \A i \in Len(queue) + 1..Len(queue) + n : queue'[i] = pills[i - Len(queue)]
    BY <1>1, <1>2
  <2>4. \A i \in Len(queue) + 1..Len(queue) + n : i - Len(queue) \in 1..n
    BY <1>1
  <2> QED BY <1>1, <2>1, <2>2, <2>3, <2>4
<1> HIDE DEF pills
<1>4. phase # "stopping" /\ phase' = "stopping" /\ AtWork' = AtWork /\ AtWork = Workers
  BY DEF Shutdown, procs, AtWork, PillInv, PillsLast
<1>5. \A i \in 1..Len(queue) : queue[i] # Stop
  BY <1>4 DEF PillInv, PillsLast, Queued
<1>6. ASSUME NEW i \in 1..Len(queue')
      PROVE  queue'[i] = Stop <=> i > Len(queue') - n
  <2>1. i \in 1..Len(queue) \/ i \in Len(queue) + 1..Len(queue) + n
    BY <1>1, <1>3
  <2> QED BY <1>1, <1>3, <1>5, <2>1
<1>7. n <= Len(queue')
  BY <1>1, <1>3
<1>8. \A j : Queued(j) => Queued(j)'
  BY <1>1, <1>3 DEF Queued
<1> QED BY <1>4, <1>6, <1>7, <1>8 DEF PillsLast

LEMMA NextPills ==
  ASSUME PillInv, [Next]_vars
  PROVE  PillInv'
<1> OwnerInv' /\ TypeOK /\ QueueDistinct
  BY NextOwner DEF PillInv, OwnerInv, BlobInv
<1> SUFFICES PillsLast'
  BY DEF PillInv
<1>1. CASE UNCHANGED vars
  BY <1>1, PillsStay DEF vars, manager, procs, process
<1>2. CASE \E j \in Jobs : JobRequest(j)
  <2> PICK j \in Jobs : JobRequest(j)
    BY <1>2
  <2>1. CASE Cancel(j)
    BY <2>1, PillsStay DEF Cancel, procs, process
  <2>2. CASE \E t \in Printers \cup {NoPrinter}, e \in BOOLEAN : Submit(j, t, e)
    <3>1. phase = "up" /\ phase' = phase /\ UNCHANGED pc /\ ~Queued(j)
      BY <2>2 DEF Submit, Serving, process, procs, PillInv, OwnerInv, QueueKnown
    <3>2. ~Queued(Stop)'
      BY <2>2, <3>1, QueueAppend, SliceJobsAssumption DEF Submit, PillInv, PillsLast, Queued
    <3> QED BY <3>1, <3>2 DEF PillInv, PillsLast, AtWork
  <2> QED BY <2>1, <2>2 DEF JobRequest
<1>3. CASE \E w \in Workers : WorkerStep(w)
  <2> PICK w \in Workers : WorkerStep(w)
    BY <1>3
  <2>1. CASE WorkerExit(w)
    BY <2>1, ExitPills
  <2>2. CASE SkipMissing(w) \/ SkipCancelled(w) \/ StartSlicing(w) \/ CrashSlicing(w)
    BY <2>2, HeadTaken
    DEF SkipMissing, SkipCancelled, StartSlicing, CrashSlicing, procs, Procs, process, TypeOK
  <2>3. CASE \/ TakeProgress(w) \/ CancelSlicing(w) \/ FinishAutoPrint(w)
             \/ \E traysOk \in BOOLEAN : FinishSlicing(w, traysOk)
    BY <2>3, PillsStay
    DEF TakeProgress, CancelSlicing, FinishAutoPrint, FinishSlicing, EndRun, Free, Procs, process,
        manager, TypeOK
  <2> QED BY <2>1, <2>2, <2>3 DEF WorkerStep
<1>4. CASE \E w \in Workers : SlicerStep(w) \/ SaveUploadProgress(w)
  BY <1>4, PillsStay
  DEF SlicerStep, SlicerProgress, SlicerEnds, SaveUploadProgress, manager, procs, Procs, process,
      TypeOK
<1>5. CASE \E s \in Procs : SubmissionProgress(s) \/ CloudSend(s)
  BY <1>5, PillsStay
  DEF SubmissionProgress, CloudTakeSlot, CloudAnswer, LanConnect, LanUpload, LanSend, CloudSend,
      manager, process
<1>6. CASE \E c \in Clients : RequestStart(c) \/ RequestEnd(c)
  <2> PICK c \in Clients : RequestStart(c) \/ RequestEnd(c)
    BY <1>6
  <2>1. \A w \in Workers : pc'[w] = pc[w]
    BY SliceJobsAssumption
    DEF RequestStart, RequestEnd, DeleteRequest, PrintRequest, DeleteAfterWait, FinishPrint, Free,
        Procs, TypeOK
  <2>2. UNCHANGED <<queue, phase>>
    BY DEF RequestStart, RequestEnd, DeleteRequest, PrintRequest, DeleteAfterWait, FinishPrint,
           manager, process
  <2> QED BY <2>1, <2>2, PillsStay
<1>7. CASE \E statuses \in SUBSET Terminal : Clear(statuses)
  BY <1>7, PillsStay DEF Clear, manager, procs, process
<1>8. CASE \E p \in Printers : PrinterOnline(p) \/ PrinterFinishes(p)
  BY <1>8, PillsStay DEF PrinterOnline, PrinterFinishes, manager, procs, process
<1>9. CASE Shutdown
  BY <1>9, ShutdownPills
<1>10. CASE Exit \/ Crash
  BY <1>10 DEF Exit, Crash, Lost, PillsLast, Queued, AtWork, Procs
<1>11. CASE Boot \/ StartWorkers
  BY <1>11, PillsStay DEF Boot, StartWorkers, manager, procs
<1>12. CASE \E j \in Jobs : RecoverJob(j)
  <2> PICK j \in Jobs : RecoverJob(j)
    BY <1>12
  <2>1. phase = "recovering" /\ phase' = phase /\ UNCHANGED pc /\ ~Queued(j)
    BY DEF RecoverJob, procs, PillInv, OwnerInv, TodoOK
  <2>2. ~Queued(Stop)'
    BY <2>1, QueueAppend, SliceJobsAssumption
    DEF RecoverJob, manager, PillInv, PillsLast, Queued
  <2> QED BY <2>1, <2>2 DEF PillInv, PillsLast, AtWork
<1> QED
  BY <1>1, <1>2, <1>3, <1>4, <1>5, <1>6, <1>7, <1>8, <1>9, <1>10, <1>11, <1>12
  DEF Next, Restart

-----------------------------------------------------------------------------
(* Nobody is forgotten: a stored job in flight is with a worker, a stored  *)
(* job that waits is in the queue, and while the gateway recovers, both    *)
(* may still be in recover_on_startup's list.  A deleted job never waits   *)
(* again, so that the blob a worker is about to read is there.             *)

DeletedIsNotQueued == \A j \in deleted : disk[j].status # "queued"

ToRecover(j) == phase = "recovering" /\ j \in todo

ActiveIsHeld ==
  phase # "down" =>
    \A j \in stored : obj[j].status \in InFlight =>
      (\E w \in Workers : job[w] = j) \/ ToRecover(j)

WaitingIsQueued ==
  phase # "down" =>
    \A j \in stored \ session : obj[j].status = "queued" => Queued(j) \/ ToRecover(j)

Unforgotten == DeletedIsNotQueued /\ ActiveIsHeld /\ WaitingIsQueued

FateInv == SlicedInv /\ PillInv /\ Unforgotten

\* The jobs outside of a set J keep status, worker, and place in the queue; the
\* jobs of J are taken care of.
LEMMA FateKeep ==
  ASSUME FateInv, StageInv', phase # "down", phase' # "down", NEW J \in SUBSET Jobs,
         stored' \subseteq stored \cup J, session \subseteq session',
         \A j \in Jobs \ J :
           /\ obj'[j] = obj[j]
           /\ \A w \in Workers : job[w] = j => job'[w] = j
           /\ Queued(j) => Queued(j)'
           /\ ToRecover(j) => ToRecover(j)'
           /\ j \in deleted' \ deleted => j \notin stored',
         \A j \in J \cap stored' :
           /\ obj'[j].status \in InFlight => \E w \in Workers : job'[w] = j
           /\ obj'[j].status = "queued" => (j \in session' \/ Queued(j)') /\ j \notin deleted'
  PROVE  Unforgotten'
<1> TypeOK /\ TypeOK'
  BY DEF FateInv, SlicedInv, StageInv, OwnerInv, BlobInv
<1>1. ASSUME NEW j \in deleted', disk'[j].status = "queued"
      PROVE  FALSE
  <2>1. j \in Jobs /\ j \in stored' /\ obj'[j].status = "queued"
    BY <1>1 DEF TypeOK, StageInv, DiskIsStore, NoRecord
  <2>2. j \notin J /\ j \in deleted /\ obj[j].status = "queued" /\ j \in stored
    BY <1>1, <2>1
  <2>3. disk[j].status = "queued"
    BY <2>1, <2>2 DEF FateInv, SlicedInv, StageInv, DiskIsStore
  <2> QED BY <2>2, <2>3 DEF FateInv, Unforgotten, DeletedIsNotQueued
<1>2. ASSUME NEW j \in stored', obj'[j].status \in InFlight
      PROVE  (\E w \in Workers : job'[w] = j) \/ ToRecover(j)'
  <2>1. CASE j \in J
    BY <1>2, <2>1
  <2>2. CASE j \notin J
    <3>1. j \in Jobs \ J /\ j \in stored /\ obj[j].status \in InFlight
      BY <1>2, <2>2 DEF TypeOK
    <3> QED BY <3>1 DEF FateInv, Unforgotten, ActiveIsHeld
  <2> QED BY <2>1, <2>2
<1>3. ASSUME NEW j \in stored' \ session', obj'[j].status = "queued"
      PROVE  Queued(j)' \/ ToRecover(j)'
  <2>1. CASE j \in J
    BY <1>3, <2>1
  <2>2. CASE j \notin J
    <3>1. j \in Jobs \ J /\ j \in stored \ session /\ obj[j].status = "queued"
      BY <1>3, <2>2 DEF TypeOK
    <3> QED BY <3>1 DEF FateInv, Unforgotten, WaitingIsQueued
  <2> QED BY <2>1, <2>2
<1> QED
  BY <1>1, <1>2, <1>3 DEF Unforgotten, DeletedIsNotQueued, ActiveIsHeld, WaitingIsQueued

\* Nothing changes but processes, which keep the jobs of the workers.
LEMMA FateStay ==
  ASSUME FateInv, StageInv', phase # "down", phase' # "down",
         UNCHANGED <<obj, session>>, stored' \subseteq stored,
         \A w \in Workers : job'[w] = job[w],
         \A j \in Jobs : Queued(j) => Queued(j)',
         \A j \in Jobs : ToRecover(j) => ToRecover(j)',
         \A j \in deleted' \ deleted : j \notin stored'
  PROVE  Unforgotten'
<1>1. \A j \in Jobs \ {} :
           /\ obj'[j] = obj[j]
           /\ \A w \in Workers : job[w] = j => job'[w] = j
           /\ Queued(j) => Queued(j)'
           /\ ToRecover(j) => ToRecover(j)'
           /\ j \in deleted' \ deleted => j \notin stored'
  OBVIOUS
<1>2. stored' \subseteq stored \cup {} /\ session \subseteq session' /\ {} \in SUBSET Jobs
  OBVIOUS
<1> QED BY <1>1, <1>2, FateKeep

\* One job moves, and does not wait afterwards.
LEMMA FateOne ==
  ASSUME FateInv, StageInv', phase # "down", phase' # "down", NEW j \in Jobs,
         stored' \subseteq stored \cup {j}, UNCHANGED <<session, deleted>>,
         \A i \in Jobs \ {j} : /\ obj'[i] = obj[i]
                               /\ \A w \in Workers : job[w] = i => job'[w] = i
                               /\ Queued(i) => Queued(i)'
                               /\ ToRecover(i) => ToRecover(i)',
         obj'[j].status # "queued",
         obj'[j].status \in InFlight => \E w \in Workers : job'[w] = j
  PROVE  Unforgotten'
<1> DEFINE J == {j}
<1>1. J \in SUBSET Jobs /\ stored' \subseteq stored \cup J /\ session \subseteq session'
  OBVIOUS
<1>2. \A i \in Jobs \ J :
           /\ obj'[i] = obj[i]
           /\ \A w \in Workers : job[w] = i => job'[w] = i
           /\ Queued(i) => Queued(i)'
           /\ ToRecover(i) => ToRecover(i)'
           /\ i \in deleted' \ deleted => i \notin stored'
  OBVIOUS
<1>3. \A i \in J \cap stored' :
           /\ obj'[i].status \in InFlight => \E w \in Workers : job'[w] = i
           /\ obj'[i].status = "queued" => (i \in session' \/ Queued(i)') /\ i \notin deleted'
  OBVIOUS
<1> HIDE DEF J
<1> QED BY <1>1, <1>2, <1>3, FateKeep

\* Who is behind the head of the queue stays in it.
LEMMA QueueTailStays ==
  ASSUME TypeOK, queue # <<>>, queue' = Tail(queue)
  PROVE  \A j : Queued(j) /\ j # Head(queue) => Queued(j)'
<1>1. /\ Len(queue) \in Nat /\ Len(queue) > 0 /\ Head(queue) = queue[1]
      /\ Len(queue') = Len(queue) - 1
      /\ \A i \in 1..Len(queue') : queue'[i] = queue[i + 1]
  BY DEF TypeOK
<1>2. \A i \in 1..Len(queue) : i # 1 => i - 1 \in 1..Len(queue') /\ queue'[i - 1] = queue[i]
  BY <1>1
<1> QED BY <1>1, <1>2 DEF Queued

LEMMA QueueAppendStays ==
  ASSUME TypeOK, NEW j \in Jobs, queue' = Append(queue, j)
  PROVE  Queued(j)' /\ \A i : Queued(i) => Queued(i)'
<1>1. /\ Len(queue) \in Nat /\ Len(queue') = Len(queue) + 1
      /\ \A i \in 1..Len(queue) : queue'[i] = queue[i]
      /\ queue'[Len(queue) + 1] = j
  BY DEF TypeOK
<1>2. Len(queue) + 1 \in 1..Len(queue') /\ \A i \in 1..Len(queue) : i \in 1..Len(queue')
  BY <1>1
<1> QED BY <1>1, <1>2 DEF Queued

\* The worker that takes a waiting job finds its input blob.
LEMMA HeadHasInput ==
  ASSUME FateInv, queue # <<>>, Head(queue) \in stored, phase # "down"
  PROVE  Head(queue) \in Jobs \ deleted /\ Head(queue) \in input
<1> TypeOK
  BY DEF FateInv, SlicedInv, StageInv, OwnerInv, BlobInv
<1>1. Head(queue) \in Jobs
  BY DEF TypeOK
<1>2. obj[Head(queue)].status = "queued" /\ disk[Head(queue)] = obj[Head(queue)]
  BY <1>1, HeadIsFree DEF FateInv, SlicedInv, StageInv, DiskIsStore
<1>3. Head(queue) \notin deleted
  BY <1>2 DEF FateInv, Unforgotten, DeletedIsNotQueued
<1> QED
  BY <1>1, <1>2, <1>3 DEF FateInv, SlicedInv, StageInv, OwnerInv, BlobInv, BlobsKept, Backed

LEMMA WorkerStepFate ==
  ASSUME FateInv, StageInv', phase # "down", NEW w \in Workers,
         WorkerStep(w) \/ SlicerStep(w) \/ SaveUploadProgress(w), ~ReadMayFail
  PROVE  Unforgotten'
<1> TypeOK /\ w \in Procs
  BY DEF FateInv, SlicedInv, StageInv, OwnerInv, BlobInv, Procs
<1>1. UNCHANGED <<phase, todo, session, deleted>>
  BY DEF WorkerStep, SkipMissing, SkipCancelled, StartSlicing, CrashSlicing, TakeProgress,
         CancelSlicing, FinishSlicing, FinishAutoPrint, WorkerExit, SaveUploadProgress,
         SlicerStep, SlicerProgress, SlicerEnds, process, history
<1>2. phase' # "down" /\ \A j : ToRecover(j) => ToRecover(j)'
  BY <1>1 DEF ToRecover
<1>3. CASE SlicerStep(w)
  BY <1>1, <1>2, <1>3, FateStay
  DEF SlicerStep, SlicerProgress, SlicerEnds, store, manager, Queued
<1>4. CASE SkipMissing(w) \/ WorkerExit(w)
  <2>1. Head(queue) \notin stored /\ queue # <<>> /\ queue' = Tail(queue)
    BY <1>4, SliceJobsAssumption DEF SkipMissing, WorkerExit, TypeOK
  <2>2. UNCHANGED <<obj, stored, job>>
    BY <1>4 DEF SkipMissing, WorkerExit, store, procs
  <2> DEFINE J == {Head(queue)} \cap Jobs
  <2>3. \A j \in Jobs \ J : Queued(j) => Queued(j)'
    BY <2>1, QueueTailStays
  <2>4. J \in SUBSET Jobs /\ J \cap stored' = {}
    BY <2>1, <2>2
  <2> HIDE DEF J
  <2> QED BY <1>1, <1>2, <2>2, <2>3, <2>4, FateKeep
<1>5. CASE SkipCancelled(w) \/ StartSlicing(w) \/ CrashSlicing(w)
  <2> PICK j \in Jobs : j = Head(queue)
    BY <1>5 DEF SkipCancelled, StartSlicing, CrashSlicing, TypeOK
  <2>1. queue # <<>> /\ queue' = Tail(queue) /\ j \in stored
    BY <1>5 DEF SkipCancelled, StartSlicing, CrashSlicing
  <2>2. ~CrashSlicing(w)
    BY <2>1, HeadHasInput DEF CrashSlicing
  <2>3. /\ \A i \in Jobs \ {j} : obj'[i] = obj[i]
        /\ obj'[j].status # "queued"
        /\ obj'[j].status \in InFlight => job'[w] = j
        /\ stored' = stored \cup {j}
    <3>1. PICK st \in {"cancelled", "slicing"} :
                 SetStatus(j, st) /\ (st = "slicing" => job'[w] = j)
      BY <1>5, <2>2 DEF SkipCancelled, StartSlicing, TypeOK
    <3>2. st \in Status /\ (st \in InFlight => st = "slicing") /\ st # "queued"
      BY DEF Status, Terminal, InFlight
    <3> QED BY <3>1, <3>2, SetStatusMoves
  <2>4. \A i \in Jobs \ {j} : Queued(i) => Queued(i)'
    BY <2>1, QueueTailStays
  <2>5. \A v \in Workers : job[v] # NoJob => job'[v] = job[v]
    BY <1>5
    DEF SkipCancelled, StartSlicing, CrashSlicing, procs, Procs, TypeOK, ProcsOK, Holds
  <2>6. \A i \in Jobs : \A v \in Workers : job[v] = i => job'[v] = i
    BY <2>5, SliceJobsAssumption
  <2> QED BY <1>1, <1>2, <2>3, <2>4, <2>6, FateOne
<1>6. CASE TakeProgress(w) \/ SaveUploadProgress(w)
  <2> PICK j \in Jobs : j = job[w]
    BY <1>6, WorkersJob DEF TakeProgress, SaveUploadProgress, FateInv, SlicedInv
  <2>1. obj[j].status # "queued" /\ job[w] = j
    BY <1>6, WorkersJob DEF TakeProgress, SaveUploadProgress, FateInv, SlicedInv
  <2>2. (\A i \in Jobs : obj'[i] = obj[i]) /\ stored' \subseteq stored \cup {j}
    BY <1>6, UpsertMoves DEF TakeProgress, SaveUploadProgress
  <2>3. UNCHANGED <<queue, job>>
    BY <1>6 DEF TakeProgress, SaveUploadProgress, manager, procs
  <2> QED BY <1>1, <1>2, <2>1, <2>2, <2>3, FateOne DEF Queued
<1>7. CASE FinishAutoPrint(w) \/ CancelSlicing(w) \/ \E traysOk \in BOOLEAN : FinishSlicing(w, traysOk)
  <2> PICK j \in Jobs : j = job[w]
    BY <1>7, WorkersJob DEF FinishAutoPrint, CancelSlicing, FinishSlicing, FateInv, SlicedInv
  <2>1. obj[j] \in Record
    BY DEF TypeOK
  <2>2. /\ \A i \in Jobs \ {j} : obj'[i] = obj[i]
        /\ stored' = stored \cup {j}
        /\ obj'[j].status # "queued"
        /\ obj'[j].status \in InFlight => job'[w] = j
    <3>1. CASE FinishAutoPrint(w)
      <4>1. CASE sub[w] = "ok"
        BY <3>1, <4>1, PrintedMoves DEF FinishAutoPrint, InFlight
      <4>2. CASE sub[w] # "ok"
        <5>1. PICK st \in {"failed", "cancelled"} : SetStatus(j, st)
          BY <3>1, <4>2 DEF FinishAutoPrint
        <5> QED BY <5>1, SetStatusMoves DEF Status, Terminal, InFlight
      <4> QED BY <4>1, <4>2
    <3>0. CASE CancelSlicing(w)
      <4>1. SetStatus(j, "cancelled")
        BY <3>0 DEF CancelSlicing
      <4>2. "cancelled" \in Status /\ "cancelled" \notin InFlight
        BY DEF Status, Terminal, InFlight
      <4> QED BY <4>1, <4>2, SetStatusMoves
    <3>2. CASE \E traysOk \in BOOLEAN : FinishSlicing(w, traysOk)
      <4> PICK traysOk \in BOOLEAN : FinishSlicing(w, traysOk)
        BY <3>2
      <4>1. CASE sub[w] # "result"
        <5>1. PICK st \in {"failed", "cancelled"} : SetStatus(j, st)
          BY <4>1 DEF FinishSlicing
        <5> QED BY <5>1, SetStatusMoves DEF Status, Terminal, InFlight
      <4>2. CASE sub[w] = "result"
        <5>1. PICK st \in {"ready", "uploading"} :
                 /\ Upsert(j, [obj[j] EXCEPT !.output = TRUE, !.status = st])
                 /\ st = "uploading" => job' = job
          BY <4>2 DEF FinishSlicing
        <5>2. [obj[j] EXCEPT !.output = TRUE, !.status = st].status = st
          BY <2>1 DEF Record
        <5> QED BY <5>1, <5>2, UpsertMoves DEF InFlight
      <4> QED BY <4>1, <4>2
    <3> QED BY <1>7, <3>0, <3>1, <3>2
  <2>3. \A v \in Workers \ {w} : job'[v] = job[v]
    BY <1>7 DEF FinishAutoPrint, CancelSlicing, FinishSlicing, EndRun, Free, Procs, TypeOK
  <2>4. \A i \in Jobs \ {j} : \A v \in Workers : job[v] = i => job'[v] = i
    BY <2>3
  <2>5. UNCHANGED queue
    BY <1>7 DEF FinishAutoPrint, CancelSlicing, FinishSlicing
  <2> QED BY <1>1, <1>2, <2>2, <2>4, <2>5, FateOne DEF Queued
<1> QED BY <1>3, <1>4, <1>5, <1>6, <1>7 DEF WorkerStep

\* A job that is submitted waits, one that is recovered waits or is settled.
LEMMA FateOfWaiting ==
  ASSUME FateInv, StageInv', phase # "down", phase' # "down", NEW j \in Jobs, j \notin deleted,
         stored' \subseteq stored \cup {j}, session \subseteq session', UNCHANGED deleted,
         \A i \in Jobs \ {j} : /\ obj'[i] = obj[i]
                               /\ \A w \in Workers : job[w] = i => job'[w] = i
                               /\ Queued(i) => Queued(i)'
                               /\ ToRecover(i) => ToRecover(i)',
         obj'[j].status \notin InFlight,
         obj'[j].status = "queued" => j \in session' \/ Queued(j)'
  PROVE  Unforgotten'
<1> DEFINE J == {j}
<1>1. J \in SUBSET Jobs /\ stored' \subseteq stored \cup J
  OBVIOUS
<1>2. \A i \in Jobs \ J :
           /\ obj'[i] = obj[i]
           /\ \A w \in Workers : job[w] = i => job'[w] = i
           /\ Queued(i) => Queued(i)'
           /\ ToRecover(i) => ToRecover(i)'
           /\ i \in deleted' \ deleted => i \notin stored'
  OBVIOUS
<1>3. \A i \in J \cap stored' :
           /\ obj'[i].status \in InFlight => \E w \in Workers : job'[w] = i
           /\ obj'[i].status = "queued" => (i \in session' \/ Queued(i)') /\ i \notin deleted'
  OBVIOUS
<1> HIDE DEF J
<1> QED BY <1>1, <1>2, <1>3, FateKeep

LEMMA RequestFate ==
  ASSUME FateInv, StageInv', phase # "down", NEW c \in Clients, RequestStart(c) \/ RequestEnd(c)
  PROVE  Unforgotten'
<1> TypeOK /\ c \in Procs /\ c \notin Workers
  BY SliceJobsAssumption DEF FateInv, SlicedInv, StageInv, OwnerInv, BlobInv, Procs
<1>1. /\ UNCHANGED <<phase, todo, session, queue>> /\ phase' # "down"
      /\ \A w \in Workers : job'[w] = job[w]
  BY DEF RequestStart, RequestEnd, DeleteRequest, PrintRequest, DeleteAfterWait, FinishPrint,
         manager, process, history, Free, Procs, TypeOK
<1>2. /\ \A j : ToRecover(j) => ToRecover(j)'
      /\ \A j : Queued(j) => Queued(j)'
  BY <1>1 DEF ToRecover, Queued
<1>3. CASE UNCHANGED <<obj, stored, deleted>>
  BY <1>1, <1>2, <1>3, FateStay
<1>4. CASE \E j \in Jobs : Delete(j)
  <2>1. /\ obj' = obj /\ stored' \subseteq stored
        /\ \A j \in deleted' \ deleted : j \notin stored'
    BY <1>4 DEF Delete, Flush, store
  <2> QED BY <1>1, <1>2, <2>1, FateStay
<1>5. CASE /\ UNCHANGED deleted
           /\ \E j \in Jobs : Upsert(j, [obj[j] EXCEPT !.status = "ready", !.printed = TRUE])
  <2> PICK j \in Jobs : Upsert(j, [obj[j] EXCEPT !.status = "ready", !.printed = TRUE])
    BY <1>5
  <2>1. /\ \A i \in Jobs \ {j} : obj'[i] = obj[i]
        /\ obj'[j].status # "queued" /\ obj'[j].status \notin InFlight
        /\ stored' = stored \cup {j}
    BY PrintedMoves DEF InFlight
  <2> QED BY <1>1, <1>2, <1>5, <2>1, FateOne
<1>6. CASE \E j \in Jobs : DeleteRequest(c, j)
  BY <1>3, <1>4, <1>6 DEF DeleteRequest, store
<1>7. CASE \E g \in BOOLEAN : DeleteAfterWait(c, g)
  <2>1. job[c] \in Jobs
    BY <1>7, HeldJob DEF DeleteAfterWait, FateInv, SlicedInv, StageInv, OwnerInv
  <2> QED BY <1>4, <1>7, <2>1 DEF DeleteAfterWait
<1>8. CASE \E j \in Jobs, p \in Printers : PrintRequest(c, j, p)
  BY <1>3, <1>5, <1>8 DEF PrintRequest, history
<1>9. CASE FinishPrint(c)
  <2>1. job[c] \in Jobs
    BY <1>9, HeldJob DEF FinishPrint, FateInv, SlicedInv, StageInv, OwnerInv
  <2> QED BY <1>3, <1>5, <1>9, <2>1 DEF FinishPrint, history
<1> QED BY <1>6, <1>7, <1>8, <1>9 DEF RequestStart, RequestEnd

LEMMA RestartFate ==
  ASSUME FateInv, StageInv', Shutdown \/ Crash \/ Restart
  PROVE  Unforgotten'
<1> TypeOK
  BY DEF FateInv, SlicedInv, StageInv, OwnerInv, BlobInv
<1>1. CASE Shutdown
  <2>1. /\ UNCHANGED <<obj, stored, job, session, deleted>>
        /\ phase = "up" /\ phase' = "stopping"
    BY <1>1 DEF Shutdown, store, procs, history
  <2>2. \A j : Queued(j) => Queued(j)'
    BY <1>1, ShutdownPills DEF FateInv
  <2> QED BY <2>1, <2>2, FateStay DEF ToRecover
<1>2. CASE Exit \/ Crash
  <2>1. /\ phase' = "down"
        /\ \A j \in deleted' : disk'[j].status # "queued"
    <3>1. phase' = "down"
      BY <1>2 DEF Exit, Crash, Lost
    <3>2. CASE UNCHANGED <<disk, deleted>>
      BY <3>1, <3>2 DEF FateInv, Unforgotten, DeletedIsNotQueued
    <3>3. CASE \E j \in Jobs : disk' = [disk EXCEPT ![j] = NoRecord] /\ deleted' = deleted \cup {j}
      BY <3>1, <3>3 DEF FateInv, Unforgotten, DeletedIsNotQueued, NoRecord, TypeOK
    <3> QED BY <1>2, <3>1, <3>2, <3>3 DEF Exit, Crash, TypeOK
  <2> QED BY <2>1 DEF Unforgotten, DeletedIsNotQueued, ActiveIsHeld, WaitingIsQueued
<1>3. CASE Boot
  <2>1. UNCHANGED <<disk, deleted>> /\ phase' = "recovering" /\ todo' = stored'
    BY <1>3 DEF Boot, history
  <2> QED
    BY <2>1 DEF FateInv, Unforgotten, DeletedIsNotQueued, ActiveIsHeld, WaitingIsQueued, ToRecover
<1>4. CASE \E j \in Jobs : RecoverJob(j)
  <2> PICK j \in Jobs : RecoverJob(j)
    BY <1>4
  <2>1. /\ phase = "recovering" /\ phase' = phase /\ todo' = todo \ {j}
        /\ UNCHANGED <<job, session, deleted>>
    BY DEF RecoverJob, procs, history
  <2>2. \A i \in Jobs \ {j} : ToRecover(i) => ToRecover(i)'
    BY <2>1 DEF ToRecover
  <2>3. CASE obj[j].status \in InFlight /\ SetStatus(j, "failed") /\ UNCHANGED queue
    <3>1. /\ \A i \in Jobs \ {j} : obj'[i] = obj[i]
          /\ obj'[j].status = "failed" /\ stored' = stored \cup {j}
      BY <2>3, SetStatusMoves DEF Status, Terminal
    <3>2. obj'[j].status # "queued" /\ obj'[j].status \notin InFlight
      BY <3>1 DEF InFlight
    <3> QED BY <2>1, <2>2, <2>3, <3>1, <3>2, FateOne DEF Queued
  <2>4. CASE obj[j].status = "queued" /\ queue' = Append(queue, j) /\ UNCHANGED <<obj, stored>>
    <3>1. j \notin deleted \/ j \notin stored
      BY <2>1, <2>4 DEF FateInv, Unforgotten, DeletedIsNotQueued, SlicedInv, StageInv, DiskIsStore
    <3>2. Queued(j)' /\ \A i : Queued(i) => Queued(i)'
      BY <2>4, QueueAppendStays
    <3>3. obj'[j].status \notin InFlight
      BY <2>4 DEF InFlight
    <3>4. CASE j \notin deleted
      BY <2>1, <2>2, <2>4, <3>2, <3>3, <3>4, FateOfWaiting
    <3>5. CASE j \notin stored
      <4> DEFINE J == {j}
      <4>1. J \in SUBSET Jobs /\ J \cap stored' = {} /\ stored' \subseteq stored \cup J
        BY <2>4, <3>5
      <4>2. \A i \in Jobs \ J : ToRecover(i) => ToRecover(i)'
        BY <2>2
      <4> HIDE DEF J
      <4> QED BY <2>1, <2>4, <3>2, <4>1, <4>2, FateKeep
    <3> QED BY <3>1, <3>4, <3>5
  <2>5. CASE IsTerminal(j) /\ UNCHANGED <<obj, stored, queue>>
    <3>1. obj'[j].status # "queued" /\ obj'[j].status \notin InFlight
      BY <2>5 DEF IsTerminal, Terminal, InFlight
    <3> QED BY <2>1, <2>2, <2>5, <3>1, FateOne DEF Queued
  <2> QED BY <2>3, <2>4, <2>5 DEF RecoverJob, manager
<1>5. CASE StartWorkers
  <2>1. UNCHANGED <<obj, stored, queue, job, session, deleted>> /\ todo = {}
        /\ phase = "recovering" /\ phase' = "up"
    BY <1>5 DEF StartWorkers, store, manager, procs, history
  <2> QED BY <2>1, FateStay DEF ToRecover, Queued
<1> QED BY <1>1, <1>2, <1>3, <1>4, <1>5 DEF Restart

LEMMA NextFate ==
  ASSUME FateInv, [Next]_vars, ~ReadMayFail
  PROVE  FateInv'
<1> SlicedInv' /\ StageInv' /\ PillInv' /\ TypeOK
  BY NextSliced, NextPills DEF FateInv, SlicedInv, StageInv, OwnerInv, BlobInv
<1> SUFFICES Unforgotten'
  BY DEF FateInv
<1>1. CASE UNCHANGED vars
  BY <1>1 DEF vars, store, manager, procs, process, history, FateInv, Unforgotten,
     DeletedIsNotQueued, ActiveIsHeld, WaitingIsQueued, ToRecover, Queued
<1>2. CASE \E j \in Jobs : JobRequest(j)
  <2> PICK j \in Jobs : JobRequest(j)
    BY <1>2
  <2>1. phase = "up" /\ UNCHANGED <<phase, job>>
    BY DEF JobRequest, Submit, Cancel, Serving, process, procs
  <2>2. CASE Cancel(j)
    BY <2>1, <2>2, FateStay DEF Cancel, store, ToRecover, Queued
  <2>3. CASE \E t \in Printers \cup {NoPrinter}, e \in BOOLEAN : Submit(j, t, e)
    <3> PICK t \in Printers \cup {NoPrinter}, e \in BOOLEAN : Submit(j, t, e)
      BY <2>3
    <3>1. j \notin deleted /\ UNCHANGED deleted
      BY DEF Submit, FateInv, SlicedInv, SlicedFirst
    <3>2. obj'[j] = [NoRecord EXCEPT !.status = "queued", !.target = t]
      BY UpsertMoves DEF Submit
    <3>3. /\ \A i \in Jobs \ {j} : obj'[i] = obj[i]
          /\ stored' = stored \cup {j}
          /\ obj'[j].status \notin InFlight
      BY <3>2, UpsertMoves DEF Submit, NoRecord, InFlight
    <3>4. session \subseteq session' /\ (j \in session' \/ queue' = Append(queue, j))
      BY DEF Submit
    <3>5. (j \in session' \/ Queued(j)') /\ \A i : Queued(i) => Queued(i)'
      BY <3>4, QueueAppendStays DEF Submit, Queued
    <3> QED BY <2>1, <3>1, <3>3, <3>4, <3>5, FateOfWaiting DEF ToRecover
  <2> QED BY <2>2, <2>3 DEF JobRequest
<1>3. CASE \E w \in Workers : WorkerStep(w) \/ SlicerStep(w) \/ SaveUploadProgress(w)
  <2> PICK w \in Workers : WorkerStep(w) \/ SlicerStep(w) \/ SaveUploadProgress(w)
    BY <1>3
  <2>1. Working \/ pc[w] \notin {"idle", "exited"}
    BY DEF WorkerStep, SkipMissing, SkipCancelled, StartSlicing, CrashSlicing, TakeProgress,
         CancelSlicing, FinishSlicing, FinishAutoPrint, WorkerExit, SaveUploadProgress,
         SlicerStep, SlicerProgress, SlicerEnds
  <2>2. phase # "down"
    BY <2>1, NobodySubmits DEF Working, FateInv, SlicedInv, Procs
  <2> QED BY <2>2, WorkerStepFate
<1>4. CASE \E s \in Procs : SubmissionProgress(s) \/ CloudSend(s)
  <2> PICK s \in Procs : SubmissionProgress(s) \/ CloudSend(s)
    BY <1>4
  <2>1. /\ UNCHANGED <<obj, stored, queue, job, session, deleted, phase, todo>>
        /\ pc[s] = "uploading"
    BY DEF SubmissionProgress, CloudTakeSlot, CloudAnswer, LanConnect, LanUpload, LanSend,
           CloudSend, SubmissionStep, store, manager, process, history
  <2>2. phase # "down"
    BY <2>1, NobodySubmits DEF FateInv, SlicedInv
  <2> QED BY <2>1, <2>2, FateStay DEF ToRecover, Queued
<1>5. CASE \E c \in Clients : RequestStart(c) \/ RequestEnd(c)
  <2> PICK c \in Clients : RequestStart(c) \/ RequestEnd(c)
    BY <1>5
  <2>1. Serving \/ pc[c] \notin {"idle", "exited"}
    BY DEF RequestStart, RequestEnd, DeleteRequest, PrintRequest, DeleteAfterWait, FinishPrint
  <2>2. phase # "down"
    BY <2>1, NobodySubmits DEF Serving, FateInv, SlicedInv, Procs
  <2> QED BY <2>2, RequestFate
<1>6. CASE \E statuses \in SUBSET Terminal : Clear(statuses)
  <2>1. /\ UNCHANGED <<obj, queue, job, session, phase, todo>> /\ phase # "down"
        /\ stored' \subseteq stored /\ \A j \in deleted' \ deleted : j \notin stored'
    BY <1>6 DEF Clear, Flush, manager, procs, process, Serving
  <2> QED BY <2>1, FateStay DEF ToRecover, Queued
<1>7. CASE \E p \in Printers : PrinterOnline(p) \/ PrinterFinishes(p)
  BY <1>7 DEF PrinterOnline, PrinterFinishes, store, manager, procs, process, history, FateInv,
     Unforgotten, DeletedIsNotQueued, ActiveIsHeld, WaitingIsQueued, ToRecover, Queued
<1>8. CASE Shutdown \/ Crash \/ Restart
  BY <1>8, RestartFate
<1> QED
  BY <1>1, <1>2, <1>3, <1>4, <1>5, <1>6, <1>7, <1>8 DEF Next

LEMMA InitFate == Init => FateInv
<1> SUFFICES ASSUME Init
             PROVE  FateInv
  OBVIOUS
<1>1. PillInv
  BY InitOwner DEF Init, PillInv, PillsLast, Queued, AtWork, Procs
<1>2. Unforgotten
  BY DEF Init, Unforgotten, DeletedIsNotQueued, ActiveIsHeld, WaitingIsQueued
<1> QED BY <1>1, <1>2, InitSliced DEF FateInv

\* When every worker has exited nothing waits and nothing is in flight.
LEMMA StopHasDrained ==
  ASSUME FateInv
  PROVE  StopDrains
<1> SUFFICES ASSUME phase = "stopping", \A w \in Workers : pc[w] = "exited"
             PROVE  queue = <<>> /\ \A j \in stored \ session : IsTerminal(j)
  BY DEF StopDrains
<1> TypeOK
  BY DEF FateInv, SlicedInv, StageInv, OwnerInv, BlobInv
<1>1. AtWork = {} /\ AtWork # Workers
  BY SliceJobsAssumption DEF AtWork
<1>2. Len(queue) = 0
  BY <1>1, FS_EmptySet DEF FateInv, PillInv, PillsLast
<1>3. queue = <<>>
  BY <1>2 DEF TypeOK
<1>4. \A w \in Workers : job[w] = NoJob
  BY DEF TypeOK, ProcsOK, Holds, Procs
<1>5. ASSUME NEW j \in stored \ session
      PROVE  IsTerminal(j)
  <2>1. j \in Jobs /\ obj[j] \in Record /\ obj[j].status # "absent"
    BY DEF TypeOK, FateInv, SlicedInv, StageInv, OwnerInv, BlobInv, ObjectsExist
  <2>2. obj[j].status \notin InFlight
    BY <1>4, <2>1, SliceJobsAssumption DEF FateInv, Unforgotten, ActiveIsHeld, ToRecover
  <2>3. obj[j].status # "queued"
    BY <1>2 DEF FateInv, Unforgotten, WaitingIsQueued, ToRecover, Queued
  <2> QED BY <2>1, <2>2, <2>3 DEF IsTerminal, Record, Status
<1> QED BY <1>3, <1>5

\* As long as input blobs can be read, no crash, restart, cancellation or
\* deletion leaves a job in flight that no worker has, and a stop ends with the
\* queue worked off.  (A read that fails does leave such a job: the run
\* SliceJobs_workers lets reads fail and does not check this.)
THEOREM ForgottenCorrect ==
  ASSUME ~ReadMayFail
  PROVE  Spec => []NoJobIsForgotten
<1>1. FateInv => NoJobIsForgotten
  <2>1. FateInv => ActiveIsOwned
    BY DEF FateInv, Unforgotten, ActiveIsHeld, ToRecover, ActiveIsOwned
  <2> QED BY <2>1, StopHasDrained DEF NoJobIsForgotten
<1>2. FateInv /\ [Next]_vars => FateInv'
  BY NextFate
<1> QED BY <1>1, <1>2, InitFate, PTL DEF Spec

-----------------------------------------------------------------------------
(* The abstract life of a job.  JobStatus maps every state to the life of  *)
(* SliceJobLifecycle; a step of SliceJobs changes the status of one job    *)
(* along an edge of that machine, or makes jobs absent, or changes none.   *)

\* The edges of SliceJobLifecycle.
Edge(from, to) ==
  \/ from = "absent" /\ to = "queued"
  \/ from = "queued" /\ to \in {"cancelled", "slicing"}
  \/ from = "slicing" /\ to = "uploading"
  \/ from \in InFlight /\ to \in Terminal
  \/ from \in Terminal /\ to = "ready"

LifeStep == [Lifecycle!Next]_[j \in Jobs |-> JobStatus(j)]

\* What recover_on_startup has left to visit is in the store.
LifeInv == StageInv /\ todo \subseteq stored

LEMMA NextTodo ==
  ASSUME LifeInv, [Next]_vars
  PROVE  LifeInv'
<1> StageInv'
  BY NextStage DEF LifeInv
<1> SUFFICES todo' \subseteq stored'
  BY DEF LifeInv
<1>1. CASE \E j \in Jobs : RecoverJob(j)
  BY <1>1 DEF RecoverJob, LifeInv, SetStatus, Upsert, Flush
<1>2. CASE Exit \/ Boot \/ Crash
  BY <1>2 DEF Exit, Boot, Crash, Lost
<1>3. CASE UNCHANGED <<stored, todo>>
  BY <1>3 DEF LifeInv
<1>4. CASE UNCHANGED <<phase, todo>> /\ phase # "recovering"
  BY <1>4 DEF LifeInv, StageInv, OwnerInv, TodoOK
<1>5. CASE \E w \in Workers : WorkerStep(w) \/ SlicerStep(w) \/ SaveUploadProgress(w)
  <2> PICK w \in Workers : WorkerStep(w) \/ SlicerStep(w) \/ SaveUploadProgress(w)
    BY <1>5
  <2>1. UNCHANGED <<phase, todo>> /\ (Working \/ pc[w] \notin {"idle", "exited"})
    BY DEF WorkerStep, SkipMissing, SkipCancelled, StartSlicing, CrashSlicing, TakeProgress,
           CancelSlicing, FinishSlicing, FinishAutoPrint, WorkerExit, SaveUploadProgress,
           SlicerStep, SlicerProgress, SlicerEnds, process
  <2> QED BY <2>1, <1>4, NobodySubmits DEF Working, LifeInv, Procs
<1>6. CASE \E c \in Clients : RequestStart(c) \/ RequestEnd(c)
  <2> PICK c \in Clients : RequestStart(c) \/ RequestEnd(c)
    BY <1>6
  <2>1. UNCHANGED <<phase, todo>> /\ (Serving \/ pc[c] \notin {"idle", "exited"})
    BY DEF RequestStart, RequestEnd, DeleteRequest, PrintRequest, DeleteAfterWait, FinishPrint,
           process
  <2> QED BY <2>1, <1>4, NobodySubmits DEF Serving, LifeInv, Procs
<1>7. CASE (\E j \in Jobs : JobRequest(j)) \/ \E statuses \in SUBSET Terminal : Clear(statuses)
  BY <1>4, <1>7 DEF JobRequest, Submit, Cancel, Clear, Serving, process
<1> QED
  BY <1>1, <1>2, <1>3, <1>5, <1>6, <1>7
  DEF Next, Restart, SubmissionProgress, CloudTakeSlot, CloudAnswer, LanConnect, LanUpload,
      LanSend, CloudSend, PrinterOnline, PrinterFinishes, Shutdown, StartWorkers, store, process,
      vars

\* Jobs that keep their status or become absent are forgotten.
LEMMA LifeForgets ==
  ASSUME \A j \in Jobs : JobStatus(j)' \in {JobStatus(j), "absent"}
  PROVE  LifeStep
<1> DEFINE S == {j \in Jobs : JobStatus(j)' = "absent"}
<1> DEFINE life == [j \in Jobs |-> JobStatus(j)]
<1>1. [j \in Jobs |-> JobStatus(j)'] = [j \in Jobs |-> IF j \in S THEN "absent" ELSE life[j]]
  OBVIOUS
<1>2. S \in SUBSET Jobs
  OBVIOUS
<1> QED BY <1>1, <1>2 DEF LifeStep, Lifecycle!Next, Lifecycle!Forget

\* One job moves along an edge, the others stay.
LEMMA LifeMoves ==
  ASSUME NEW j \in Jobs,
         \A i \in Jobs \ {j} : JobStatus(i)' = JobStatus(i),
         Edge(JobStatus(j), JobStatus(j)')
  PROVE  LifeStep
<1> DEFINE life == [i \in Jobs |-> JobStatus(i)]
<1>1. [i \in Jobs |-> JobStatus(i)'] = [life EXCEPT ![j] = JobStatus(j)']
  OBVIOUS
<1>2. life[j] = JobStatus(j)
  OBVIOUS
<1> QED
  BY <1>1, <1>2
  DEF LifeStep, Edge, InFlight, Terminal, Lifecycle!Next, Lifecycle!Create,
      Lifecycle!CancelQueued, Lifecycle!Slice, Lifecycle!Upload, Lifecycle!Settle,
      Lifecycle!Reprint, Lifecycle!Move, Lifecycle!Settled

\* Records stay as they are, and tasks at most let go of their jobs.
LEMMA LifeStays ==
  ASSUME phase # "down", phase' # "down",
         \A j \in Jobs : obj'[j].status = obj[j].status,
         \A j \in Jobs : Held(j)' => Held(j)
  PROVE  LifeStep
<1>1. \A j \in Jobs : JobStatus(j)' \in {JobStatus(j), "absent"}
  BY DEF JobStatus
<1> QED BY <1>1, LifeForgets

\* A task saves the record of the job it holds, with a new status or not.
LEMMA LifeOne ==
  ASSUME phase # "down", phase' # "down", NEW j \in Jobs, NEW s \in Procs,
         JobStatus(j) = obj[j].status,
         Edge(obj[j].status, obj'[j].status) \/ obj'[j].status = obj[j].status,
         \A i \in Jobs \ {j} : obj'[i].status = obj[i].status,
         stored' = stored \cup {j},
         job[s] \in {j, NoJob}, job'[s] \in {j, NoJob},
         \A r \in Procs \ {s} : UNCHANGED <<pc[r], job[r]>>
  PROVE  LifeStep
<1>1. ASSUME NEW i \in Jobs \ {j}
      PROVE  JobStatus(i)' = JobStatus(i)
  <2>1. Held(i)' <=> Held(i)
    BY SliceJobsAssumption DEF Held
  <2> QED BY <2>1 DEF JobStatus
<1>2. JobStatus(j)' = obj'[j].status
  BY DEF JobStatus, Held
<1>3. CASE obj'[j].status = obj[j].status
  BY <1>1, <1>2, <1>3, LifeForgets
<1>4. CASE Edge(obj[j].status, obj'[j].status)
  BY <1>1, <1>2, <1>4, LifeMoves
<1> QED BY <1>3, <1>4

\* A job in the store, or in the hands of a task, has the life of its object.
LEMMA HeldLife ==
  ASSUME NEW j \in Jobs, phase # "down", Held(j)
  PROVE  JobStatus(j) = obj[j].status
BY DEF JobStatus

LEMMA JobRequestLife ==
  ASSUME LifeInv, NEW j \in Jobs, JobRequest(j)
  PROVE  LifeStep
<1> TypeOK
  BY DEF LifeInv, StageInv, OwnerInv, BlobInv
<1>1. UNCHANGED <<phase, pc, job>> /\ phase # "down"
  BY DEF JobRequest, Submit, Cancel, Serving, process, procs
<1>2. CASE Cancel(j)
  BY <1>1, <1>2, LifeStays DEF Cancel, store, Held
<1>3. CASE \E t \in Printers \cup {NoPrinter}, e \in BOOLEAN : Submit(j, t, e)
  <2> PICK t \in Printers \cup {NoPrinter}, e \in BOOLEAN : Submit(j, t, e)
    BY <1>3
  <2>1. JobStatus(j) = "absent"
    BY DEF Submit, JobStatus, LifeInv, StageInv, OwnerInv, RecordsKnown
  <2>2. obj'[j].status = "queued" /\ stored' = stored \cup {j}
    <3>1. obj'[j] = [NoRecord EXCEPT !.status = "queued", !.target = t]
      BY UpsertMoves DEF Submit
    <3> QED BY <3>1, UpsertMoves DEF Submit, NoRecord
  <2>3. \A i \in Jobs \ {j} : JobStatus(i)' = JobStatus(i)
    BY <1>1, <2>2, UpsertMoves DEF Submit, JobStatus, Held
  <2>4. JobStatus(j)' = "queued"
    BY <1>1, <2>2 DEF JobStatus, Held
  <2> QED BY <2>1, <2>3, <2>4, LifeMoves DEF Edge
<1> QED BY <1>2, <1>3 DEF JobRequest

LEMMA WorkerStepLife ==
  ASSUME LifeInv, phase # "down", NEW w \in Workers,
         WorkerStep(w) \/ SlicerStep(w) \/ SaveUploadProgress(w)
  PROVE  LifeStep
<1> TypeOK /\ w \in Procs
  BY DEF LifeInv, StageInv, OwnerInv, BlobInv, Procs
<1>1. phase' # "down" /\ \A r \in Procs \ {w} : UNCHANGED <<pc[r], job[r]>>
  BY DEF WorkerStep, SkipMissing, SkipCancelled, StartSlicing, CrashSlicing, TakeProgress,
         CancelSlicing, FinishSlicing, FinishAutoPrint, WorkerExit, SaveUploadProgress,
         SlicerStep, SlicerProgress, SlicerEnds, process, procs, EndRun, Free, TypeOK
<1>2. CASE SlicerStep(w) \/ SkipMissing(w) \/ WorkerExit(w)
  <2>1. UNCHANGED <<obj, stored, job>> /\ pc[w] # "deleting"
    BY <1>2
    DEF SlicerStep, SlicerProgress, SlicerEnds, SkipMissing, WorkerExit, store, procs
  <2> QED BY <1>1, <2>1, LifeStays DEF Held
<1>3. CASE SkipCancelled(w) \/ StartSlicing(w) \/ CrashSlicing(w)
  <2> PICK j \in Jobs : j = Head(queue)
    BY <1>3 DEF SkipCancelled, StartSlicing, CrashSlicing, TypeOK
  <2>1. j \in stored /\ job[w] = NoJob /\ job'[w] \in {j, NoJob}
    BY <1>3 DEF SkipCancelled, StartSlicing, CrashSlicing, procs, TypeOK, ProcsOK, Holds
  <2>2. obj[j].status = "queued"
    BY <1>3, QueueTail
    DEF SkipCancelled, StartSlicing, CrashSlicing, LifeInv, StageInv, OwnerInv, StagesFit
  <2>3. PICK st \in {"cancelled", "slicing"} : SetStatus(j, st)
    BY <1>3 DEF SkipCancelled, StartSlicing, CrashSlicing
  <2>4. st \in Status
    BY DEF Status, Terminal, InFlight
  <2>5. /\ obj'[j].status = st /\ stored' = stored \cup {j}
        /\ \A i \in Jobs \ {j} : obj'[i] = obj[i]
    BY <2>3, <2>4, SetStatusMoves
  <2>6. Edge(obj[j].status, obj'[j].status)
    BY <2>2, <2>5 DEF Edge
  <2>7. JobStatus(j) = obj[j].status
    BY <2>1, HeldLife DEF Held
  <2> QED BY <1>1, <2>1, <2>5, <2>6, <2>7, LifeOne
<1>4. CASE TakeProgress(w) \/ SaveUploadProgress(w)
  <2> PICK j \in Jobs : j = job[w]
    BY <1>4, WorkersJob DEF TakeProgress, SaveUploadProgress, LifeInv
  <2>1. (\A i \in Jobs : obj'[i] = obj[i]) /\ stored' \in {stored, stored \cup {j}}
    BY <1>4, UpsertMoves DEF TakeProgress, SaveUploadProgress
  <2>2. UNCHANGED job /\ pc[w] # "deleting" /\ pc'[w] # "deleting"
    BY <1>4 DEF TakeProgress, SaveUploadProgress, procs, TypeOK
  <2>3. JobStatus(j) = obj[j].status
    BY <2>2, HeldLife DEF Held
  <2>4. CASE stored' = stored
    BY <1>1, <2>1, <2>2, <2>4, LifeStays DEF Held
  <2> QED BY <1>1, <2>1, <2>2, <2>3, <2>4, LifeOne
<1>5. CASE FinishAutoPrint(w) \/ CancelSlicing(w) \/ \E traysOk \in BOOLEAN : FinishSlicing(w, traysOk)
  <2> PICK j \in Jobs : j = job[w]
    BY <1>5, WorkersJob DEF FinishAutoPrint, CancelSlicing, FinishSlicing, LifeInv
  <2>1. obj[j] \in Record
    BY DEF TypeOK
  <2>2. pc[w] # "deleting" /\ job[w] = j /\ job'[w] \in {j, NoJob}
    BY <1>5 DEF FinishAutoPrint, CancelSlicing, FinishSlicing, EndRun, Free, TypeOK
  <2>3. JobStatus(j) = obj[j].status
    BY <2>2, HeldLife DEF Held
  <2>4. /\ \A i \in Jobs \ {j} : obj'[i] = obj[i]
        /\ stored' = stored \cup {j}
        /\ Edge(obj[j].status, obj'[j].status)
    <3>1. CASE FinishAutoPrint(w)
      <4>1. obj[j].status = "uploading"
        BY <2>2, <3>1, SliceJobsAssumption DEF FinishAutoPrint, LifeInv, StageInv, StagesFit
      <4>2. CASE sub[w] = "ok"
        BY <3>1, <4>1, <4>2, PrintedMoves DEF FinishAutoPrint, InFlight, Terminal, Edge
      <4>3. CASE sub[w] # "ok"
        <5>1. PICK st \in {"failed", "cancelled"} : SetStatus(j, st)
          BY <3>1, <4>3 DEF FinishAutoPrint
        <5> QED BY <4>1, <5>1, SetStatusMoves DEF Status, Terminal, InFlight, Edge
      <4> QED BY <4>2, <4>3
    <3>0. CASE CancelSlicing(w)
      <4>1. obj[j].status = "slicing"
        BY <2>2, <3>0, SliceJobsAssumption DEF CancelSlicing, LifeInv, StageInv, StagesFit
      <4> QED BY <3>0, <4>1, SetStatusMoves DEF CancelSlicing, Status, Terminal, InFlight, Edge
    <3>2. CASE \E traysOk \in BOOLEAN : FinishSlicing(w, traysOk)
      <4> PICK traysOk \in BOOLEAN : FinishSlicing(w, traysOk)
        BY <3>2
      <4>1. obj[j].status = "slicing"
        BY <2>2, SliceJobsAssumption DEF FinishSlicing, LifeInv, StageInv, StagesFit
      <4>2. CASE sub[w] # "result"
        <5>1. PICK st \in {"failed", "cancelled"} : SetStatus(j, st)
          BY <4>2 DEF FinishSlicing
        <5> QED BY <4>1, <5>1, SetStatusMoves DEF Status, Terminal, InFlight, Edge
      <4>3. CASE sub[w] = "result"
        <5>1. PICK st \in {"ready", "uploading"} :
                 Upsert(j, [obj[j] EXCEPT !.output = TRUE, !.status = st])
          BY <4>3 DEF FinishSlicing
        <5>2. [obj[j] EXCEPT !.output = TRUE, !.status = st].status = st
          BY <2>1 DEF Record
        <5> QED BY <4>1, <5>1, <5>2, UpsertMoves DEF InFlight, Terminal, Edge
      <4> QED BY <4>2, <4>3
    <3> QED BY <1>5, <3>0, <3>1, <3>2
  <2> QED BY <1>1, <2>2, <2>3, <2>4, LifeOne
<1> QED BY <1>2, <1>3, <1>4, <1>5 DEF WorkerStep

LEMMA RequestLife ==
  ASSUME LifeInv, phase # "down", NEW c \in Clients, RequestStart(c) \/ RequestEnd(c)
  PROVE  LifeStep
<1> TypeOK /\ c \in Procs /\ c \notin Workers
  BY SliceJobsAssumption DEF LifeInv, StageInv, OwnerInv, BlobInv, Procs
<1>1. phase' # "down" /\ \A r \in Procs \ {c} : UNCHANGED <<pc[r], job[r]>>
  BY DEF RequestStart, RequestEnd, DeleteRequest, PrintRequest, DeleteAfterWait, FinishPrint,
         process, procs, Free, TypeOK
<1>2. CASE /\ UNCHANGED obj /\ stored' \subseteq stored
           /\ job'[c] = NoJob \/ pc'[c] = "deleting" \/ UNCHANGED <<job[c], pc[c]>>
  BY <1>1, <1>2, LifeStays, SliceJobsAssumption DEF Held
<1>3. CASE \E j \in Jobs : DeleteRequest(c, j)
  BY <1>2, <1>3 DEF DeleteRequest, Delete, Flush, store, TypeOK
<1>4. CASE \E g \in BOOLEAN : DeleteAfterWait(c, g)
  BY <1>2, <1>4 DEF DeleteAfterWait, Delete, Flush, store, Free, TypeOK
<1>5. CASE \E j \in Jobs, p \in Printers : PrintRequest(c, j, p)
  <2> PICK j \in Jobs, p \in Printers : PrintRequest(c, j, p)
    BY <1>5
  <2>1. j \in stored /\ IsTerminal(j) /\ job[c] = NoJob /\ job'[c] = j
    BY DEF PrintRequest, TypeOK, ProcsOK, Holds
  <2>2. JobStatus(j) = obj[j].status
    BY <2>1, HeldLife DEF Held
  <2>3. /\ \A i \in Jobs \ {j} : obj'[i] = obj[i]
        /\ stored' = stored \cup {j}
        /\ obj'[j].status \in {"ready", obj[j].status}
    BY <2>1, PrintedMoves DEF PrintRequest
  <2> QED BY <1>1, <2>1, <2>2, <2>3, LifeOne DEF Edge, IsTerminal
<1>6. CASE FinishPrint(c)
  <2> PICK j \in Jobs : j = job[c]
    BY <1>6, HeldJob DEF FinishPrint, LifeInv, StageInv, OwnerInv
  <2>1. IsTerminal(j) /\ job[c] = j /\ job'[c] = NoJob /\ pc[c] = "uploading"
    BY <1>6 DEF FinishPrint, Free, TypeOK, LifeInv, StageInv, StagesFit
  <2>2. JobStatus(j) = obj[j].status
    BY <2>1, HeldLife DEF Held
  <2>3. CASE UNCHANGED <<obj, stored>>
    BY <1>2, <2>1, <2>3
  <2>4. CASE Upsert(j, [obj[j] EXCEPT !.status = "ready", !.printed = TRUE])
    <3>1. /\ \A i \in Jobs \ {j} : obj'[i] = obj[i]
          /\ stored' = stored \cup {j} /\ obj'[j].status = "ready"
      BY <2>4, PrintedMoves
    <3> QED BY <1>1, <2>1, <2>2, <3>1, LifeOne DEF Edge, IsTerminal
  <2> QED BY <1>6, <2>3, <2>4 DEF FinishPrint
<1> QED BY <1>3, <1>4, <1>5, <1>6 DEF RequestStart, RequestEnd

\* The process goes down with what is on disk, and comes up with it.
LEMMA RestartLife ==
  ASSUME LifeInv, Shutdown \/ Crash \/ Restart
  PROVE  LifeStep
<1> TypeOK
  BY DEF LifeInv, StageInv, OwnerInv, BlobInv
<1>1. CASE Shutdown \/ StartWorkers
  BY <1>1, LifeStays DEF Shutdown, StartWorkers, store, procs, Held
<1>2. CASE Exit \/ Crash
  <2>1. phase # "down" /\ phase' = "down"
    BY <1>2 DEF Exit, Crash, Lost
  <2>2. \A j \in Jobs : disk[j].status \in {JobStatus(j), "absent"}
    BY <2>1 DEF LifeInv, StageInv, DiskIsStore, JobStatus, Held, NoRecord
  <2>3. \A j \in Jobs : disk'[j].status \in {disk[j].status, "absent"}
    BY <1>2 DEF Exit, Crash, NoRecord, TypeOK
  <2>4. \A j \in Jobs : JobStatus(j)' \in {JobStatus(j), "absent"}
    BY <2>1, <2>2, <2>3 DEF JobStatus
  <2> QED BY <2>4, LifeForgets
<1>3. CASE Boot
  <2>1. \A s \in Procs : job'[s] = NoJob
    BY <1>3 DEF Boot, procs, LifeInv, StageInv, OwnerInv, BlobInv, NobodyWorks
  <2>2. \A j \in Jobs : Held(j)' <=> disk[j].status # "absent"
    BY <1>3, <2>1, SliceJobsAssumption DEF Boot, Held
  <2>3. \A j \in Jobs : JobStatus(j)' = JobStatus(j)
    BY <1>3, <2>2 DEF Boot, JobStatus
  <2> QED BY <2>3, LifeForgets
<1>4. CASE \E j \in Jobs : RecoverJob(j)
  <2> PICK j \in Jobs : RecoverJob(j)
    BY <1>4
  <2>1. phase # "down" /\ phase' # "down" /\ UNCHANGED <<pc, job>> /\ j \in stored
    BY DEF RecoverJob, procs, LifeInv
  <2>2. CASE UNCHANGED <<obj, stored>>
    BY <2>1, <2>2, LifeStays DEF Held
  <2>3. CASE obj[j].status \in InFlight /\ SetStatus(j, "failed")
    <3>1. /\ \A i \in Jobs \ {j} : obj'[i] = obj[i]
          /\ stored' = stored /\ obj'[j].status = "failed"
      BY <2>1, <2>3, SetStatusMoves DEF Status, Terminal
    <3>2. \A i \in Jobs : Held(i)' <=> Held(i)
      BY <2>1, <3>1 DEF Held
    <3>3. \A i \in Jobs \ {j} : JobStatus(i)' = JobStatus(i)
      BY <2>1, <3>1, <3>2 DEF JobStatus
    <3>4. JobStatus(j) = obj[j].status /\ JobStatus(j)' = "failed"
      BY <2>1, <3>1 DEF JobStatus, Held
    <3> QED BY <2>3, <3>3, <3>4, LifeMoves DEF Edge, Terminal
  <2> QED BY <2>2, <2>3 DEF RecoverJob
<1> QED BY <1>1, <1>2, <1>3, <1>4 DEF Restart

LEMMA NextLife ==
  ASSUME LifeInv, [Next]_vars
  PROVE  LifeStep
<1>1. CASE UNCHANGED <<obj, stored, disk, phase, pc, job>>
  BY <1>1, LifeForgets DEF JobStatus, Held
<1>2. CASE \E w \in Workers : WorkerStep(w) \/ SlicerStep(w) \/ SaveUploadProgress(w)
  <2> PICK w \in Workers : WorkerStep(w) \/ SlicerStep(w) \/ SaveUploadProgress(w)
    BY <1>2
  <2>1. Working \/ pc[w] \notin {"idle", "exited"}
    BY DEF WorkerStep, SkipMissing, SkipCancelled, StartSlicing, CrashSlicing, TakeProgress,
         CancelSlicing, FinishSlicing, FinishAutoPrint, WorkerExit, SaveUploadProgress,
         SlicerStep, SlicerProgress, SlicerEnds
  <2> QED BY <2>1, NobodySubmits, WorkerStepLife DEF Working, LifeInv, Procs
<1>3. CASE \E c \in Clients : RequestStart(c) \/ RequestEnd(c)
  <2> PICK c \in Clients : RequestStart(c) \/ RequestEnd(c)
    BY <1>3
  <2>1. Serving \/ pc[c] \notin {"idle", "exited"}
    BY DEF RequestStart, RequestEnd, DeleteRequest, PrintRequest, DeleteAfterWait, FinishPrint
  <2> QED BY <2>1, NobodySubmits, RequestLife DEF Serving, LifeInv, Procs
<1>4. CASE \E statuses \in SUBSET Terminal : Clear(statuses)
  <2>1. /\ UNCHANGED <<obj, phase, pc, job>> /\ phase # "down" /\ stored' \subseteq stored
    BY <1>4 DEF Clear, Flush, procs, process, Serving
  <2> QED BY <2>1, LifeStays DEF Held
<1> QED
  BY <1>1, <1>2, <1>3, <1>4, JobRequestLife, RestartLife
  DEF Next, SubmissionProgress, CloudTakeSlot, CloudAnswer, LanConnect, LanUpload, LanSend,
      CloudSend, PrinterOnline, PrinterFinishes, store, procs, process, vars

\* The store, the workers, the requests and the restarts implement the status
\* machine of SliceJobStatus: whatever they interleave, a job's record moves
\* along queued, slicing, uploading and a terminal status, one job at a time,
\* and a terminal job is only ever made ready again or forgotten.
THEOREM LifecycleImplemented == Spec => ImplementsLifecycle
<1>1. Init => LifeInv
  BY InitStage DEF LifeInv, Init
<1>2. Init => Lifecycle!Init
  BY DEF Init, Lifecycle!Init, JobStatus, Held, NoRecord
<1>3. LifeInv /\ [Next]_vars => LifeInv'
  BY NextTodo
<1>4. LifeInv /\ [Next]_vars => LifeStep
  BY NextLife
<1> QED BY <1>1, <1>2, <1>3, <1>4, PTL DEF Spec, ImplementsLifecycle, Lifecycle!Spec, LifeStep
=============================================================================
