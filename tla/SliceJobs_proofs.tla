-------------------------- MODULE SliceJobs_proofs --------------------------
(***************************************************************************)
(* Theorems about SliceJobs, for every set of jobs, workers, requests and  *)
(* printers and every number of restarts.                                  *)
(***************************************************************************)
EXTENDS SliceJobs, FiniteSetTheorems, SequenceTheorems, TLAPS

(* The types of the store's variables, and of the processes' variables.    *)

StoreOK ==
  /\ obj \in [Jobs -> Record]
  /\ stored \subseteq Jobs
  /\ disk \in [Jobs -> Record]

ProcTypes ==
  /\ pc \in [Procs -> WorkerPc \cup ClientPc]
  /\ job \in [Procs -> Jobs \cup {NoJob}]
  /\ printer \in [Procs -> Printers \cup {NoPrinter}]
  /\ sub \in [Procs -> SubState]
  /\ ProcsOK

LEMMA RecordType ==
  /\ NoRecord \in Record
  /\ \A rec \in Record, s \in Status : [rec EXCEPT !.status = s] \in Record
  /\ \A rec \in Record : [rec EXCEPT !.output = TRUE] \in Record
  /\ \A rec \in Record : [rec EXCEPT !.status = "ready", !.printed = TRUE] \in Record
BY DEF NoRecord, Record, Status, Terminal

(* Saving a record, or changing its status, keeps the store well typed.    *)
LEMMA UpsertType ==
  ASSUME TypeOK, NEW j \in Jobs, NEW rec \in Record, Upsert(j, rec)
  PROVE  StoreOK'
BY RecordType DEF Upsert, Flush, TypeOK, StoreOK

LEMMA SetStatusType ==
  ASSUME TypeOK, NEW j \in Jobs, NEW s \in Status, SetStatus(j, s)
  PROVE  StoreOK'
<1>1. [obj[j] EXCEPT !.status = s] \in Record
  BY RecordType DEF TypeOK
<1> QED BY <1>1, UpsertType DEF SetStatus

LEMMA DeleteType ==
  ASSUME TypeOK, NEW j \in Jobs, Delete(j)
  PROVE  /\ StoreOK'
         /\ input' \subseteq Jobs
         /\ output' \subseteq Jobs
         /\ deleted' \subseteq Jobs
BY RecordType DEF Delete, Flush, TypeOK, StoreOK, store

(* One process moves, and what it then holds fits where it is.             *)
LEMMA OneProcMoves ==
  ASSUME TypeOK, NEW s \in Procs, NEW at, NEW j, NEW p, NEW st,
         Holds(s, at, j, p, st),
         pc' = [pc EXCEPT ![s] = at], job' = [job EXCEPT ![s] = j],
         printer' = [printer EXCEPT ![s] = p], sub' = [sub EXCEPT ![s] = st]
  PROVE  ProcTypes'
<1>1. /\ at \in WorkerPc \cup ClientPc
      /\ j \in Jobs \cup {NoJob}
      /\ p \in Printers \cup {NoPrinter}
  BY DEF Holds
<1>2. st \in SubState
  BY DEF Holds, SubState, Outcome
<1>3. ASSUME NEW r \in Procs
      PROVE  Holds(r, pc'[r], job'[r], printer'[r], sub'[r])
  <2>1. CASE r = s
    <3>1. pc'[r] = at /\ job'[r] = j /\ printer'[r] = p /\ sub'[r] = st
      BY <2>1 DEF TypeOK
    <3> QED BY <2>1, <3>1
  <2>2. CASE r # s
    <3>1. pc'[r] = pc[r] /\ job'[r] = job[r] /\ printer'[r] = printer[r] /\ sub'[r] = sub[r]
      BY <2>2 DEF TypeOK
    <3> QED BY <3>1 DEF TypeOK, ProcsOK
  <2> QED BY <2>1, <2>2
<1>4. ProcsOK'
  BY <1>3 DEF ProcsOK, Holds
<1> QED BY <1>1, <1>2, <1>4 DEF ProcTypes, TypeOK

LEMMA IdleHolds ==
  ASSUME NEW s \in Procs
  PROVE  Holds(s, "idle", NoJob, NoPrinter, "none")
BY DEF Holds, WorkerPc, ClientPc

LEMMA FreeType ==
  ASSUME TypeOK, NEW s \in Procs, Free(s)
  PROVE  ProcTypes'
BY IdleHolds, OneProcMoves DEF Free

(* The processes do not move.                                              *)
LEMMA NoProcMoves ==
  ASSUME TypeOK, UNCHANGED procs
  PROVE  ProcTypes'
BY DEF TypeOK, ProcTypes, procs, ProcsOK, Holds

LEMMA QueueHead ==
  ASSUME TypeOK, queue # <<>>
  PROVE  /\ Head(queue) \in Jobs \cup {Stop}
         /\ Tail(queue) \in Seq(Jobs \cup {Stop})
BY DEF TypeOK

-----------------------------------------------------------------------------
(* Type correctness.                                                       *)

LEMMA InitType == Init => TypeOK
<1> SUFFICES ASSUME Init
             PROVE  TypeOK
  OBVIOUS
<1>1. ProcsOK
  BY IdleHolds DEF Init, ProcsOK
<1>2. queue \in Seq(Jobs \cup {Stop}) /\ restarts \in 0..MaxRestarts
  BY SliceJobsAssumption DEF Init
<1> QED
  BY <1>1, <1>2, RecordType DEF Init, TypeOK, WorkerPc, ClientPc, SubState

LEMMA JobRequestType ==
  ASSUME TypeOK, NEW j \in Jobs, JobRequest(j)
  PROVE  TypeOK'
<1>1. CASE \E t \in Printers \cup {NoPrinter}, e \in BOOLEAN : Submit(j, t, e)
  <2> PICK t \in Printers \cup {NoPrinter}, e \in BOOLEAN : Submit(j, t, e)
    BY <1>1
  <2>1. [NoRecord EXCEPT !.status = "queued", !.target = t] \in Record
    BY DEF NoRecord, Record, Status
  <2>2. StoreOK'
    BY <2>1, UpsertType DEF Submit
  <2>3. ProcTypes'
    BY NoProcMoves DEF Submit
  <2>4. queue' \in Seq(Jobs \cup {Stop})
    BY DEF Submit, TypeOK
  <2> QED
    BY <2>2, <2>3, <2>4 DEF StoreOK, ProcTypes, Submit, TypeOK, process, printers
<1>2. CASE Cancel(j)
  <2>1. ProcTypes'
    BY <1>2, NoProcMoves DEF Cancel
  <2> QED
    BY <1>2, <2>1 DEF ProcTypes, Cancel, SetCancel, TypeOK, store, process, printers
<1> QED BY <1>1, <1>2 DEF JobRequest

LEMMA WorkerStepType ==
  ASSUME TypeOK, NEW w \in Workers, WorkerStep(w)
  PROVE  TypeOK'
<1> w \in Procs
  BY DEF Procs
<1> USE QueueHead
<1>1. CASE SkipMissing(w)
  <2>1. ProcTypes'
    BY <1>1, NoProcMoves DEF SkipMissing
  <2> QED
    BY <1>1, <2>1 DEF ProcTypes, SkipMissing, TypeOK, store, process, printers, history
<1>2. CASE SkipCancelled(w)
  <2>1. ProcTypes'
    BY <1>2, NoProcMoves DEF SkipCancelled
  <2>2. StoreOK'
    BY <1>2, SetStatusType DEF SkipCancelled, Status, Terminal, TypeOK
  <2> QED
    BY <1>2, <2>1, <2>2
    DEF StoreOK, ProcTypes, SkipCancelled, TypeOK, process, printers, history
<1>3. CASE StartSlicing(w)
  <2>1. Head(queue) \in Jobs
    BY <1>3 DEF StartSlicing, TypeOK
  <2>2. Holds(w, "slicing", Head(queue), printer[w], sub[w])
    BY <1>3, <2>1 DEF StartSlicing, TypeOK, ProcsOK, Holds, WorkerPc
  <2>3. ProcTypes'
    <3>1. /\ pc' = [pc EXCEPT ![w] = "slicing"]
          /\ job' = [job EXCEPT ![w] = Head(queue)]
          /\ printer' = [printer EXCEPT ![w] = printer[w]]
          /\ sub' = [sub EXCEPT ![w] = sub[w]]
      BY <1>3 DEF StartSlicing, TypeOK
    <3> QED BY <2>2, <3>1, OneProcMoves
  <2>4. StoreOK'
    BY <1>3, <2>1, SetStatusType DEF StartSlicing, Status, InFlight
  <2> QED
    BY <1>3, <2>3, <2>4
    DEF StoreOK, ProcTypes, StartSlicing, TypeOK, process, printers, history
<1>4. CASE CrashSlicing(w)
  <2>1. ProcTypes'
    BY <1>4, NoProcMoves DEF CrashSlicing
  <2>2. StoreOK'
    BY <1>4, SetStatusType DEF CrashSlicing, Status, InFlight, TypeOK
  <2> QED
    BY <1>4, <2>1, <2>2
    DEF StoreOK, ProcTypes, CrashSlicing, TypeOK, process, printers, history
<1>5. CASE TakeProgress(w)
  <2>1. job[w] \in Jobs /\ Holds(w, "slicing", job[w], printer[w], sub[w])
    BY <1>5 DEF TakeProgress, TypeOK, ProcsOK, Holds, WorkerPc
  <2>2. ProcTypes'
    <3>1. /\ pc' = [pc EXCEPT ![w] = "slicing"]
          /\ job' = [job EXCEPT ![w] = job[w]]
          /\ printer' = [printer EXCEPT ![w] = printer[w]]
          /\ sub' = [sub EXCEPT ![w] = sub[w]]
      BY <1>5 DEF TakeProgress, TypeOK
    <3> QED BY <2>1, <3>1, OneProcMoves
  <2>3. StoreOK'
    <3>1. obj[job[w]] \in Record
      BY <2>1 DEF TypeOK
    <3> QED BY <1>5, <2>1, <3>1, UpsertType DEF TakeProgress, TypeOK, StoreOK
  <2> QED
    BY <1>5, <2>2, <2>3
    DEF StoreOK, ProcTypes, TakeProgress, TypeOK, manager, process, printers, history
<1>6. CASE CancelSlicing(w)
  <2>1. job[w] \in Jobs /\ obj[job[w]] \in Record
    BY <1>6 DEF CancelSlicing, TypeOK, ProcsOK, Holds
  <2>2. StoreOK'
    BY <1>6, <2>1, SetStatusType DEF CancelSlicing, Status, Terminal
  <2>3. ProcTypes' /\ cancelEv' \in [Jobs -> {"none", "clear", "set"}]
    BY <1>6, <2>1, FreeType DEF CancelSlicing, EndRun, TypeOK
  <2> QED
    BY <1>6, <2>2, <2>3
    DEF StoreOK, ProcTypes, CancelSlicing, TypeOK, process, printers, history
<1>7. CASE \E traysOk \in BOOLEAN : FinishSlicing(w, traysOk)
  <2> PICK traysOk \in BOOLEAN : FinishSlicing(w, traysOk)
    BY <1>7
  <2> DEFINE j == job[w]
             sliced == [obj[j] EXCEPT !.output = TRUE]
             p == obj[j].target
  <2>1. j \in Jobs /\ obj[j] \in Record
    BY DEF FinishSlicing, TypeOK, ProcsOK, Holds
  <2>2. p \in Printers \cup {NoPrinter}
    BY <2>1 DEF Record
  <2>3. /\ sliced \in Record
        /\ [sliced EXCEPT !.status = "ready"] \in Record
        /\ [sliced EXCEPT !.status = "uploading"] \in Record
    BY <2>1, RecordType DEF Status, Terminal, InFlight
  <2>4. StoreOK'
    BY <2>1, <2>3, UpsertType, SetStatusType DEF FinishSlicing, Status, Terminal
  <2>5. ProcTypes' /\ cancelEv' \in [Jobs -> {"none", "clear", "set"}]
    <3>1. CASE EndRun(w)
      BY <3>1, FreeType, <2>1 DEF EndRun, TypeOK
    <3>2. CASE ~EndRun(w)
      <4>1. /\ p \in Printers
            /\ pc' = [pc EXCEPT ![w] = "uploading"]
            /\ printer' = [printer EXCEPT ![w] = p]
            /\ sub' = [sub EXCEPT ![w] = IF p \in CloudPrinters THEN "reading" ELSE "connect"]
            /\ job' = [job EXCEPT ![w] = j]
            /\ cancelEv' = cancelEv
        BY <3>2, <2>2 DEF FinishSlicing, TypeOK
      <4>2. Holds(w, "uploading", j, p, IF p \in CloudPrinters THEN "reading" ELSE "connect")
        BY <2>1, <4>1 DEF Holds, WorkerPc, SubState, Outcome
      <4> QED BY <4>1, <4>2, OneProcMoves DEF TypeOK
    <3> QED BY <3>1, <3>2
  <2>6. output' \subseteq Jobs
    BY <2>1 DEF FinishSlicing, TypeOK
  <2> QED
    BY <2>4, <2>5, <2>6 DEF StoreOK, ProcTypes, FinishSlicing, TypeOK, process, printers, history
<1>8. CASE FinishAutoPrint(w)
  <2>1. job[w] \in Jobs /\ obj[job[w]] \in Record
    BY <1>8 DEF FinishAutoPrint, TypeOK, ProcsOK, Holds
  <2>2. StoreOK'
    BY <1>8, <2>1, RecordType, UpsertType, SetStatusType DEF FinishAutoPrint, Status, Terminal
  <2>3. ProcTypes' /\ cancelEv' \in [Jobs -> {"none", "clear", "set"}]
    BY <1>8, <2>1, FreeType DEF FinishAutoPrint, EndRun, TypeOK
  <2> QED
    BY <1>8, <2>2, <2>3 DEF StoreOK, ProcTypes, FinishAutoPrint, TypeOK, process, printers, history
<1>9. CASE WorkerExit(w)
  <2>1. Holds(w, "exited", job[w], printer[w], sub[w])
    BY <1>9 DEF WorkerExit, TypeOK, ProcsOK, Holds, WorkerPc
  <2>2. ProcTypes'
    <3>1. /\ pc' = [pc EXCEPT ![w] = "exited"]
          /\ job' = [job EXCEPT ![w] = job[w]]
          /\ printer' = [printer EXCEPT ![w] = printer[w]]
          /\ sub' = [sub EXCEPT ![w] = sub[w]]
      BY <1>9 DEF WorkerExit, TypeOK
    <3> QED BY <2>1, <3>1, OneProcMoves
  <2> QED
    BY <1>9, <2>2 DEF ProcTypes, WorkerExit, TypeOK, store, process, printers, history
<1> QED BY <1>1, <1>2, <1>3, <1>4, <1>5, <1>6, <1>7, <1>8, <1>9 DEF WorkerStep

LEMMA SlicerStepType ==
  ASSUME TypeOK, NEW w \in Workers, SlicerStep(w) \/ SaveUploadProgress(w)
  PROVE  TypeOK'
<1> w \in Procs
  BY DEF Procs
<1>1. CASE SlicerProgress(w)
  <2>1. Holds(w, "progress", job[w], printer[w], sub[w])
    BY <1>1 DEF SlicerProgress, TypeOK, ProcsOK, Holds, WorkerPc
  <2>2. /\ pc' = [pc EXCEPT ![w] = "progress"]
        /\ job' = [job EXCEPT ![w] = job[w]]
        /\ printer' = [printer EXCEPT ![w] = printer[w]]
        /\ sub' = [sub EXCEPT ![w] = sub[w]]
    BY <1>1 DEF SlicerProgress, TypeOK
  <2>3. ProcTypes'
    BY <2>1, <2>2, OneProcMoves
  <2> QED
    BY <1>1, <2>3
    DEF ProcTypes, SlicerProgress, TypeOK, store, manager, process, printers, history
<1>2. CASE \E o \in Outcome : SlicerEnds(w, o)
  <2> PICK o \in Outcome : SlicerEnds(w, o)
    BY <1>2
  <2>1. Holds(w, "ended", job[w], printer[w], o)
    BY DEF SlicerEnds, TypeOK, ProcsOK, Holds, WorkerPc
  <2>2. /\ pc' = [pc EXCEPT ![w] = "ended"]
        /\ job' = [job EXCEPT ![w] = job[w]]
        /\ printer' = [printer EXCEPT ![w] = printer[w]]
        /\ sub' = [sub EXCEPT ![w] = o]
    BY DEF SlicerEnds, TypeOK
  <2>3. ProcTypes'
    BY <2>1, <2>2, OneProcMoves
  <2> QED
    BY <2>3 DEF ProcTypes, SlicerEnds, TypeOK, store, manager, process, printers, history
<1>3. CASE SaveUploadProgress(w)
  <2>1. job[w] \in Jobs /\ obj[job[w]] \in Record
    BY <1>3 DEF SaveUploadProgress, TypeOK, ProcsOK, Holds
  <2>2. StoreOK' /\ ProcTypes'
    BY <1>3, <2>1, UpsertType, NoProcMoves DEF SaveUploadProgress
  <2> QED
    BY <1>3, <2>2
    DEF StoreOK, ProcTypes, SaveUploadProgress, TypeOK, manager, process, printers, history
<1> QED BY <1>1, <1>2, <1>3 DEF SlicerStep

(* A step of a submission only moves the state of that submission.         *)
LEMMA SubmissionStepType ==
  ASSUME TypeOK, NEW s \in Procs, NEW from,
         NEW to \in SubState \ {"none", "result", "empty"},
         SubmissionStep(s, from, to), UNCHANGED <<pc, job, printer>>
  PROVE  ProcTypes'
<1>1. Holds(s, "uploading", job[s], printer[s], to)
  BY DEF SubmissionStep, TypeOK, ProcsOK, Holds, WorkerPc
<1>2. /\ pc' = [pc EXCEPT ![s] = "uploading"]
      /\ job' = [job EXCEPT ![s] = job[s]]
      /\ printer' = [printer EXCEPT ![s] = printer[s]]
      /\ sub' = [sub EXCEPT ![s] = to]
  BY DEF SubmissionStep, TypeOK
<1> QED BY <1>1, <1>2, OneProcMoves

LEMMA HandOverType ==
  ASSUME TypeOK, NEW s \in Procs, pc[s] = "uploading", HandOver(s)
  PROVE  /\ running' \in [Printers -> Jobs \cup {NoJob}]
         /\ handed' \subseteq Jobs
<1>1. job[s] \in Jobs
  BY DEF TypeOK, ProcsOK, Holds
<1> QED BY <1>1 DEF HandOver, TypeOK

LEMMA SubmissionType ==
  ASSUME TypeOK, NEW s \in Procs, SubmissionProgress(s) \/ CloudSend(s)
  PROVE  TypeOK'
<1> USE SubmissionStepType, HandOverType DEF SubState, Outcome
<1>1. CASE CloudTakeSlot(s)
  <2>1. ProcTypes'
    BY <1>1 DEF CloudTakeSlot
  <2> QED BY <1>1, <2>1
    DEF ProcTypes, CloudTakeSlot, TypeOK, store, manager, process, printers, history
<1>2. CASE CloudAnswer(s)
  <2>1. ProcTypes'
    BY <1>2 DEF CloudAnswer
  <2> QED BY <1>2, <2>1
    DEF ProcTypes, CloudAnswer, TypeOK, store, manager, process, printers, history
<1>3. CASE LanConnect(s)
  <2>1. ProcTypes'
    BY <1>3 DEF LanConnect
  <2> QED BY <1>3, <2>1
    DEF ProcTypes, LanConnect, TypeOK, store, manager, process, printers, history
<1>4. CASE LanUpload(s)
  <2>1. ProcTypes'
    BY <1>4 DEF LanUpload
  <2> QED BY <1>4, <2>1
    DEF ProcTypes, LanUpload, TypeOK, store, manager, process, printers, history
<1>5. CASE LanSend(s)
  <2>1. ProcTypes'
    BY <1>5 DEF LanSend
  <2>2. /\ running' \in [Printers -> Jobs \cup {NoJob}]
        /\ handed' \subseteq Jobs
    BY <1>5 DEF LanSend, SubmissionStep, TypeOK
  <2> QED BY <1>5, <2>1, <2>2
    DEF ProcTypes, LanSend, TypeOK, store, manager, process
<1>6. CASE CloudSend(s)
  <2>1. ProcTypes'
    BY <1>6 DEF CloudSend
  <2>2. /\ running' \in [Printers -> Jobs \cup {NoJob}]
        /\ handed' \subseteq Jobs
    BY <1>6 DEF CloudSend, SubmissionStep
  <2> QED BY <1>6, <2>1, <2>2
    DEF ProcTypes, CloudSend, TypeOK, store, manager, process
<1> QED BY <1>1, <1>2, <1>3, <1>4, <1>5, <1>6 DEF SubmissionProgress

LEMMA RequestType ==
  ASSUME TypeOK, NEW c \in Clients, RequestStart(c) \/ RequestEnd(c)
  PROVE  TypeOK'
<1> c \in Procs /\ c \notin Workers
  BY SliceJobsAssumption DEF Procs
<1>1. CASE \E j \in Jobs : DeleteRequest(c, j)
  <2> PICK j \in Jobs : DeleteRequest(c, j)
    BY <1>1
  <2>1. CASE IsTerminal(j)
    <3>1. ProcTypes'
      BY <2>1, NoProcMoves DEF DeleteRequest, procs
    <3> QED
      BY <2>1, <3>1, DeleteType
      DEF StoreOK, ProcTypes, DeleteRequest, TypeOK, process, printers
  <2>2. CASE ~IsTerminal(j)
    <3>1. Holds(c, "deleting", j, printer[c], sub[c])
      BY <2>2 DEF DeleteRequest, TypeOK, ProcsOK, Holds, ClientPc
    <3>2. /\ pc' = [pc EXCEPT ![c] = "deleting"]
          /\ job' = [job EXCEPT ![c] = j]
          /\ printer' = [printer EXCEPT ![c] = printer[c]]
          /\ sub' = [sub EXCEPT ![c] = sub[c]]
      BY <2>2 DEF DeleteRequest, TypeOK
    <3>3. ProcTypes'
      BY <3>1, <3>2, OneProcMoves
    <3> QED
      BY <2>2, <3>3 DEF ProcTypes, DeleteRequest, SetCancel, TypeOK, store, process, printers
  <2> QED BY <2>1, <2>2
<1>2. CASE \E j \in Jobs, p \in Printers : PrintRequest(c, j, p)
  <2> PICK j \in Jobs, p \in Printers : PrintRequest(c, j, p)
    BY <1>2
  <2> DEFINE st == IF sub'[c] = "reading" THEN "reading" ELSE "connect"
  <2>1. Holds(c, "uploading", j, p, st)
    BY DEF PrintRequest, Holds, ClientPc, SubState
  <2>2. /\ pc' = [pc EXCEPT ![c] = "uploading"]
        /\ job' = [job EXCEPT ![c] = j]
        /\ printer' = [printer EXCEPT ![c] = p]
        /\ sub' = [sub EXCEPT ![c] = st]
    BY DEF PrintRequest, TypeOK
  <2>3. ProcTypes'
    BY <2>1, <2>2, OneProcMoves
  <2>4. [obj[j] EXCEPT !.status = "ready", !.printed = TRUE] \in Record
    BY RecordType DEF TypeOK
  <2>5. StoreOK'
    BY <2>4, UpsertType DEF PrintRequest, StoreOK, TypeOK
  <2> QED
    BY <2>3, <2>5
    DEF StoreOK, ProcTypes, PrintRequest, TypeOK, manager, process, printers, history
<1>3. CASE \E gaveUp \in BOOLEAN : DeleteAfterWait(c, gaveUp)
  <2>1. job[c] \in Jobs
    BY <1>3 DEF DeleteAfterWait, TypeOK, ProcsOK, Holds
  <2>2. ProcTypes'
    BY <1>3, FreeType DEF DeleteAfterWait
  <2>3. /\ StoreOK'
        /\ input' \subseteq Jobs
        /\ output' \subseteq Jobs
        /\ deleted' \subseteq Jobs
    BY <1>3, <2>1, DeleteType DEF DeleteAfterWait
  <2> QED
    BY <1>3, <2>2, <2>3
    DEF StoreOK, ProcTypes, DeleteAfterWait, TypeOK, manager, process, printers
<1>4. CASE FinishPrint(c)
  <2>1. job[c] \in Jobs /\ obj[job[c]] \in Record
    BY <1>4 DEF FinishPrint, TypeOK, ProcsOK, Holds
  <2>2. [obj[job[c]] EXCEPT !.status = "ready", !.printed = TRUE] \in Record
    BY <2>1, RecordType
  <2>3. StoreOK' /\ ProcTypes'
    BY <1>4, <2>1, <2>2, UpsertType, FreeType DEF FinishPrint, StoreOK, TypeOK
  <2> QED
    BY <1>4, <2>3
    DEF StoreOK, ProcTypes, FinishPrint, TypeOK, manager, process, printers, history
<1> QED BY <1>1, <1>2, <1>3, <1>4 DEF RequestStart, RequestEnd

LEMMA ClearType ==
  ASSUME TypeOK, NEW statuses, Clear(statuses)
  PROVE  TypeOK'
<1>1. ProcTypes'
  BY NoProcMoves DEF Clear
<1> QED
  BY <1>1, RecordType DEF ProcTypes, Clear, Flush, TypeOK, manager, process, printers

LEMMA PrinterType ==
  ASSUME TypeOK, NEW p \in Printers, PrinterOnline(p) \/ PrinterFinishes(p)
  PROVE  TypeOK'
<1>1. ProcTypes'
  BY NoProcMoves DEF PrinterOnline, PrinterFinishes
<1> QED
  BY <1>1
  DEF ProcTypes, PrinterOnline, PrinterFinishes, TypeOK, store, manager, process, history

(* The pills are a sequence, one for each of the finitely many workers.    *)
LEMMA Pills ==
  /\ Cardinality(Workers) \in Nat
  /\ [i \in 1..Cardinality(Workers) |-> Stop] \in Seq(Jobs \cup {Stop})
<1>1. Cardinality(Workers) \in Nat
  BY SliceJobsAssumption, FS_CardinalityType
<1> QED BY <1>1

(* What is left when the process is gone is well typed.                    *)
LEMMA LostType ==
  ASSUME TypeOK, Lost, restarts < MaxRestarts,
         disk' \in [Jobs -> Record], input' \subseteq Jobs, output' \subseteq Jobs,
         used' \subseteq Jobs, deleted' \subseteq Jobs,
         UNCHANGED <<printers, session, handed>>
  PROVE  TypeOK'
<1>1. restarts' \in 0..MaxRestarts
  BY SliceJobsAssumption DEF Lost, TypeOK
<1>2. ProcsOK'
  BY IdleHolds DEF Lost, ProcsOK
<1>3. ProcTypes'
  BY <1>2 DEF Lost, ProcTypes, WorkerPc, SubState
<1>4. /\ obj' \in [Jobs -> Record]
      /\ cancelEv' \in [Jobs -> {"none", "clear", "set"}]
  BY RecordType DEF Lost
<1>5. queue' \in Seq(Jobs \cup {Stop})
  BY DEF Lost
<1> QED BY <1>1, <1>3, <1>4, <1>5 DEF Lost, ProcTypes, TypeOK, printers

LEMMA CrashType ==
  ASSUME TypeOK, Crash
  PROVE  TypeOK'
<1>1. Lost /\ restarts < MaxRestarts /\ UNCHANGED <<printers, session, handed>>
  BY DEF Crash
<1>2. CASE UNCHANGED <<disk, input, output, used, deleted>>
  BY <1>1, <1>2, LostType DEF TypeOK
<1>3. CASE \E j \in Jobs \ used :
             /\ input' = input \cup {j}
             /\ used' = used \cup {j}
             /\ UNCHANGED <<disk, output, deleted>>
  BY <1>1, <1>3, LostType DEF TypeOK
<1>4. CASE \E w \in Workers :
             /\ pc[w] = "ended"
             /\ output' = output \cup {job[w]}
             /\ UNCHANGED <<disk, input, used, deleted>>
  <2> PICK w \in Workers :
             /\ pc[w] = "ended"
             /\ output' = output \cup {job[w]}
             /\ UNCHANGED <<disk, input, used, deleted>>
    BY <1>4
  <2>1. job[w] \in Jobs
    BY DEF Procs, TypeOK, ProcsOK, Holds
  <2> QED BY <1>1, <2>1, LostType DEF TypeOK
<1>5. CASE \E j \in stored :
             /\ disk' = [disk EXCEPT ![j] = NoRecord]
             /\ input' \in {input, input \ {j}}
             /\ deleted' = deleted \cup {j}
             /\ UNCHANGED <<output, used>>
  <2> PICK j \in stored :
             /\ disk' = [disk EXCEPT ![j] = NoRecord]
             /\ input' \in {input, input \ {j}}
             /\ deleted' = deleted \cup {j}
             /\ UNCHANGED <<output, used>>
    BY <1>5
  <2>1. j \in Jobs
    BY DEF TypeOK
  <2>2. disk' \in [Jobs -> Record] /\ input' \subseteq Jobs /\ deleted' \subseteq Jobs
    BY <2>1, RecordType DEF TypeOK
  <2> QED BY <1>1, <2>2, LostType DEF TypeOK
<1> QED BY <1>2, <1>3, <1>4, <1>5 DEF Crash

LEMMA RestartType ==
  ASSUME TypeOK, Shutdown \/ Restart
  PROVE  TypeOK'
<1>1. CASE Shutdown
  <2>1. ProcTypes'
    BY <1>1, NoProcMoves DEF Shutdown
  <2>2. queue' \in Seq(Jobs \cup {Stop})
    BY <1>1, Pills DEF Shutdown, TypeOK
  <2>3. phase' \in {"down", "recovering", "up", "stopping"} /\ restarts' < MaxRestarts
    BY <1>1 DEF Shutdown
  <2> QED
    BY <1>1, <2>1, <2>2, <2>3 DEF ProcTypes, Shutdown, TypeOK, store, printers, history
<1>2. CASE Exit
  BY <1>2, LostType DEF Exit, TypeOK
<1>3. CASE Boot
  <2>1. ProcTypes'
    BY <1>3, NoProcMoves DEF Boot
  <2> QED BY <1>3, <2>1 DEF ProcTypes, Boot, TypeOK, manager, printers, history
<1>4. CASE \E j \in Jobs : RecoverJob(j)
  <2> PICK j \in Jobs : RecoverJob(j)
    BY <1>4
  <2>1. StoreOK' /\ ProcTypes'
    BY NoProcMoves, SetStatusType DEF RecoverJob, StoreOK, TypeOK, Status, Terminal
  <2>2. /\ queue' \in Seq(Jobs \cup {Stop})
        /\ cancelEv' \in [Jobs -> {"none", "clear", "set"}]
    <3>1. CASE UNCHANGED manager
      BY <3>1 DEF TypeOK, manager
    <3>2. CASE queue' = Append(queue, j) /\ cancelEv' = [cancelEv EXCEPT ![j] = "clear"]
      BY <3>2 DEF TypeOK
    <3> QED BY <3>1, <3>2 DEF RecoverJob, manager
  <2> QED
    BY <2>1, <2>2 DEF StoreOK, ProcTypes, RecoverJob, TypeOK, printers, history
<1>5. CASE StartWorkers
  <2>1. ProcTypes'
    BY <1>5, NoProcMoves DEF StartWorkers
  <2> QED BY <1>5, <2>1 DEF ProcTypes, StartWorkers, TypeOK, store, manager, printers, history
<1> QED BY <1>1, <1>2, <1>3, <1>4, <1>5 DEF Restart

LEMMA NextType ==
  ASSUME TypeOK, [Next]_vars
  PROVE  TypeOK'
<1>1. CASE UNCHANGED vars
  <2>1. ProcTypes'
    BY <1>1, NoProcMoves DEF vars
  <2> QED
    BY <1>1, <2>1
    DEF vars, ProcTypes, TypeOK, store, manager, process, printers, history
<1>2. CASE Next
  BY <1>2, JobRequestType, WorkerStepType, SlicerStepType, SubmissionType, RequestType,
     ClearType, PrinterType, CrashType, RestartType
  DEF Next
<1> QED BY <1>1, <1>2

\* Every reachable state is well typed, and every worker task and request holds
\* the job, the printer and the submission that its place in the code needs.
THEOREM TypeCorrect == Spec => []TypeOK
BY InitType, NextType, PTL DEF Spec

-----------------------------------------------------------------------------
(* Records and blobs.  RecordHasBlobs speaks of the records on disk; it is *)
(* inductive only together with what it needs of the objects in memory,    *)
(* which every later flush writes: those of stored jobs, and those that a  *)
(* worker or a request still holds after the record was deleted.           *)

Backed(j, rec) ==
  rec.status # "absent" => j \in input /\ (rec.output => j \in output)

BlobsKept == \A j \in Jobs \ deleted : Backed(j, obj[j]) /\ Backed(j, disk[j])

ObjectsExist ==
  /\ \A j \in stored : obj[j].status # "absent"
  /\ \A s \in Procs : job[s] # NoJob => obj[job[s]].status # "absent"

NobodyWorks == phase \in {"down", "recovering"} => \A s \in Procs : job[s] = NoJob

BlobInv == TypeOK /\ BlobsKept /\ ObjectsExist /\ NobodyWorks

\* No object of memory disappears, and every stored job has one.
ObjectsStay ==
  /\ \A j \in stored' : obj'[j].status # "absent"
  /\ \A j \in Jobs : obj[j].status # "absent" => obj'[j].status # "absent"

LEMMA UnchangedKeeps ==
  ASSUME BlobInv, UNCHANGED <<obj, stored, disk>>,
         input \subseteq input', output \subseteq output', deleted' = deleted
  PROVE  BlobsKept' /\ ObjectsStay
BY DEF BlobInv, TypeOK, BlobsKept, Backed, ObjectsExist, ObjectsStay

\* Saving a record whose blobs are there keeps all records backed.
LEMMA UpsertKeeps ==
  ASSUME BlobInv, NEW j \in Jobs, NEW rec \in Record, Upsert(j, rec),
         rec.status # "absent",
         j \notin deleted => j \in input' /\ (rec.output => j \in output'),
         input \subseteq input', output \subseteq output', deleted' = deleted
  PROVE  BlobsKept' /\ ObjectsStay
<1>1. /\ obj' = [obj EXCEPT ![j] = rec]
      /\ stored' = stored \cup {j}
      /\ disk' = [i \in Jobs |-> IF i \in stored' THEN obj'[i] ELSE NoRecord]
  BY DEF Upsert, Flush
<1>2. obj \in [Jobs -> Record] /\ stored \subseteq Jobs
  BY DEF BlobInv, TypeOK
<1>3. ObjectsStay
  BY <1>1, <1>2 DEF BlobInv, ObjectsExist, ObjectsStay
<1>4. ASSUME NEW i \in Jobs \ deleted
      PROVE  /\ obj'[i].status # "absent" => i \in input' /\ (obj'[i].output => i \in output')
             /\ disk'[i].status # "absent" => i \in input' /\ (disk'[i].output => i \in output')
  <2>1. obj'[i].status # "absent" => i \in input' /\ (obj'[i].output => i \in output')
    BY <1>1, <1>2 DEF BlobInv, BlobsKept, Backed
  <2>2. disk'[i] = obj'[i] \/ disk'[i] = NoRecord
    BY <1>1
  <2> QED BY <2>1, <2>2 DEF NoRecord
<1> QED BY <1>3, <1>4 DEF BlobsKept, Backed

\* The status of a record that exists changes.
LEMMA SetStatusKeeps ==
  ASSUME BlobInv, NEW j \in Jobs, NEW s \in Status, SetStatus(j, s),
         obj[j].status # "absent",
         input \subseteq input', output \subseteq output', deleted' = deleted
  PROVE  BlobsKept' /\ ObjectsStay
<1> DEFINE rec == [obj[j] EXCEPT !.status = s]
<1>1. obj[j] \in Record
  BY DEF BlobInv, TypeOK
<1>2. rec \in Record /\ rec.status = s /\ rec.output = obj[j].output
  BY <1>1, RecordType DEF Record
<1>3. s # "absent"
  BY DEF Status, InFlight, Terminal
<1>4. j \notin deleted => j \in input' /\ (rec.output => j \in output')
  BY <1>2 DEF BlobInv, BlobsKept, Backed
<1>5. Upsert(j, rec)
  BY DEF SetStatus
<1> HIDE DEF rec
<1> QED BY <1>2, <1>3, <1>4, <1>5, UpsertKeeps

\* A record goes, and it is not one of another job that loses its blobs.
LEMMA RemovalKeeps ==
  ASSUME BlobInv, NEW S \in SUBSET stored, Flush(obj, stored \ S),
         input' = input \ S, output \ S \subseteq output', deleted' = deleted \cup S
  PROVE  BlobsKept' /\ ObjectsStay
<1>1. ASSUME NEW i \in Jobs \ deleted'
      PROVE  /\ obj'[i].status # "absent" => i \in input' /\ (obj'[i].output => i \in output')
             /\ disk'[i].status # "absent" => i \in input' /\ (disk'[i].output => i \in output')
  <2>1. i \notin S /\ i \in Jobs \ deleted /\ obj'[i] = obj[i]
    BY DEF Flush
  <2>2. disk'[i] = obj'[i] \/ disk'[i] = NoRecord
    BY DEF Flush
  <2> QED BY <2>1, <2>2 DEF BlobInv, BlobsKept, Backed, NoRecord
<1> QED BY <1>1 DEF BlobInv, TypeOK, BlobsKept, Backed, ObjectsStay, ObjectsExist, Flush

LEMMA DeleteKeeps ==
  ASSUME BlobInv, NEW j \in Jobs, Delete(j)
  PROVE  BlobsKept' /\ ObjectsStay
<1>1. CASE j \in stored
  BY <1>1, RemovalKeeps DEF Delete
<1>2. CASE j \notin stored
  BY <1>2, UnchangedKeeps DEF Delete, store
<1> QED BY <1>1, <1>2

\* Processes keep their job, let go of it or take a job that has a record.
LEMMA HoldersKeep ==
  ASSUME BlobInv, TypeOK', ObjectsStay, UNCHANGED phase,
         \A s \in Procs :
           \/ job'[s] \in {job[s], NoJob}
           \/ job'[s] \in stored /\ phase \notin {"down", "recovering"}
  PROVE  ObjectsExist' /\ NobodyWorks'
BY DEF BlobInv, TypeOK, ObjectsExist, NobodyWorks, ObjectsStay

LEMMA InitBlobs == Init => BlobInv
BY InitType DEF Init, BlobInv, BlobsKept, Backed, ObjectsExist, NobodyWorks, NoRecord

LEMMA JobRequestBlobs ==
  ASSUME BlobInv, TypeOK', NEW j \in Jobs, JobRequest(j)
  PROVE  BlobInv'
<1>1. CASE \E t \in Printers \cup {NoPrinter}, e \in BOOLEAN : Submit(j, t, e)
  <2> PICK t \in Printers \cup {NoPrinter}, e \in BOOLEAN : Submit(j, t, e)
    BY <1>1
  <2> DEFINE rec == [NoRecord EXCEPT !.status = "queued", !.target = t]
  <2>1. rec \in Record /\ rec.status # "absent" /\ ~rec.output
    BY DEF NoRecord, Record, Status
  <2>2. BlobsKept' /\ ObjectsStay
    BY <2>1, UpsertKeeps DEF Submit
  <2>3. ObjectsExist' /\ NobodyWorks'
    BY <2>2, HoldersKeep DEF Submit, procs, process
  <2> QED BY <2>2, <2>3 DEF BlobInv
<1>2. CASE Cancel(j)
  <2>1. BlobsKept' /\ ObjectsStay
    BY <1>2, UnchangedKeeps DEF Cancel, store
  <2>2. ObjectsExist' /\ NobodyWorks'
    BY <1>2, <2>1, HoldersKeep DEF Cancel, procs, process
  <2> QED BY <2>1, <2>2 DEF BlobInv
<1> QED BY <1>1, <1>2 DEF JobRequest

\* Finishing a run or a request lets go of one job.
LEMMA FreeHolders ==
  ASSUME BlobInv, TypeOK', ObjectsStay, UNCHANGED phase, NEW r \in Procs, Free(r)
  PROVE  ObjectsExist' /\ NobodyWorks'
<1>1. \A s \in Procs : job'[s] \in {job[s], NoJob}
  BY DEF Free, BlobInv, TypeOK
<1> QED BY <1>1, HoldersKeep

\* A process that holds a job holds one whose object exists.
LEMMA HeldJob ==
  ASSUME BlobInv, NEW s \in Procs, pc[s] \notin {"idle", "exited"}
  PROVE  /\ job[s] \in Jobs
         /\ obj[job[s]] \in Record
         /\ obj[job[s]].status # "absent"
<1>1. job[s] \in Jobs /\ job[s] # NoJob
  BY SliceJobsAssumption DEF BlobInv, TypeOK, ProcsOK, Holds
<1> QED BY <1>1 DEF BlobInv, TypeOK, ObjectsExist

\* What is already backed can be saved again.
LEMMA SaveKeeps ==
  ASSUME BlobInv, NEW s \in Procs, pc[s] \notin {"idle", "exited"},
         Upsert(job[s], obj[job[s]]), UNCHANGED <<input, output, deleted>>
  PROVE  BlobsKept' /\ ObjectsStay
BY HeldJob, UpsertKeeps DEF BlobInv, BlobsKept, Backed

LEMMA PrintedKeeps ==
  ASSUME BlobInv, NEW j \in Jobs, obj[j].status # "absent",
         Upsert(j, [obj[j] EXCEPT !.status = "ready", !.printed = TRUE]),
         UNCHANGED <<input, output, deleted>>
  PROVE  BlobsKept' /\ ObjectsStay
<1> DEFINE rec == [obj[j] EXCEPT !.status = "ready", !.printed = TRUE]
<1>1. rec \in Record /\ rec.status = "ready" /\ rec.output = obj[j].output
  BY RecordType DEF BlobInv, TypeOK, Record
<1>2. j \notin deleted => j \in input' /\ (rec.output => j \in output')
  BY <1>1 DEF BlobInv, BlobsKept, Backed
<1>3. Upsert(j, rec)
  OBVIOUS
<1> HIDE DEF rec
<1> QED BY <1>1, <1>2, <1>3, UpsertKeeps

LEMMA WorkerStepBlobs ==
  ASSUME BlobInv, TypeOK', NEW w \in Workers, WorkerStep(w)
  PROVE  BlobInv'
<1> w \in Procs
  BY DEF Procs
<1> SUFFICES (BlobsKept' /\ ObjectsStay) /\ ObjectsExist' /\ NobodyWorks'
  BY DEF BlobInv
<1>1. CASE SkipMissing(w)
  BY <1>1, UnchangedKeeps, HoldersKeep DEF SkipMissing, store, procs, process, history
<1>2. CASE SkipCancelled(w)
  <2>1. BlobsKept' /\ ObjectsStay
    BY <1>2, SetStatusKeeps
    DEF SkipCancelled, history, Status, Terminal, BlobInv, TypeOK, ObjectsExist
  <2> QED BY <1>2, <2>1, HoldersKeep DEF SkipCancelled, procs, process
<1>3. CASE StartSlicing(w)
  <2>1. BlobsKept' /\ ObjectsStay
    BY <1>3, SetStatusKeeps
    DEF StartSlicing, history, Status, InFlight, BlobInv, TypeOK, ObjectsExist
  <2>2. \A s \in Procs : job'[s] = job[s] \/ job'[s] \in stored
    BY <1>3 DEF StartSlicing, BlobInv, TypeOK
  <2>3. phase \notin {"down", "recovering"} /\ UNCHANGED phase
    BY <1>3 DEF StartSlicing, Working, process
  <2> QED BY <2>1, <2>2, <2>3, HoldersKeep
<1>4. CASE CrashSlicing(w)
  <2>1. BlobsKept' /\ ObjectsStay
    BY <1>4, SetStatusKeeps
    DEF CrashSlicing, history, Status, InFlight, BlobInv, TypeOK, ObjectsExist
  <2> QED BY <1>4, <2>1, HoldersKeep DEF CrashSlicing, procs, process
<1>5. CASE TakeProgress(w)
  <2>1. BlobsKept' /\ ObjectsStay
    BY <1>5, SaveKeeps, UnchangedKeeps DEF TakeProgress, history
  <2> QED BY <1>5, <2>1, HoldersKeep DEF TakeProgress, process
<1>6. CASE CancelSlicing(w)
  <2>1. BlobsKept' /\ ObjectsStay
    BY <1>6, HeldJob, SetStatusKeeps DEF CancelSlicing, history, Status, Terminal
  <2> QED BY <1>6, <2>1, FreeHolders DEF CancelSlicing, EndRun, process
<1>7. CASE \E traysOk \in BOOLEAN : FinishSlicing(w, traysOk)
  <2> PICK traysOk \in BOOLEAN : FinishSlicing(w, traysOk)
    BY <1>7
  <2>1. /\ job[w] \in Jobs
        /\ obj[job[w]] \in Record
        /\ obj[job[w]].status # "absent"
    BY HeldJob DEF FinishSlicing
  <2>2. BlobsKept' /\ ObjectsStay
    <3>1. CASE sub[w] # "result"
      BY <2>1, <3>1, SetStatusKeeps DEF FinishSlicing, history, Status, Terminal
    <3>2. CASE sub[w] = "result"
      <4> PICK st \in {"ready", "uploading"} :
                 Upsert(job[w], [obj[job[w]] EXCEPT !.output = TRUE, !.status = st])
        BY <3>2 DEF FinishSlicing
      <4> DEFINE rec == [obj[job[w]] EXCEPT !.output = TRUE, !.status = st]
      <4>1. rec \in Record /\ rec.status # "absent"
        BY <2>1 DEF Record, Status, Terminal, InFlight
      <4>2. output' = output \cup {job[w]} /\ input' = input /\ deleted' = deleted
        BY <3>2 DEF FinishSlicing, history
      <4>3. job[w] \notin deleted => job[w] \in input
        BY <2>1 DEF BlobInv, BlobsKept, Backed
      <4> HIDE DEF rec
      <4> QED BY <2>1, <4>1, <4>2, <4>3, UpsertKeeps DEF rec
    <3> QED BY <3>1, <3>2
  <2>3. \A s \in Procs : job'[s] \in {job[s], NoJob}
    BY DEF FinishSlicing, EndRun, Free, BlobInv, TypeOK
  <2> QED BY <2>2, <2>3, HoldersKeep DEF FinishSlicing, process
<1>8. CASE FinishAutoPrint(w)
  <2>1. BlobsKept' /\ ObjectsStay
    BY <1>8, HeldJob, PrintedKeeps, SetStatusKeeps DEF FinishAutoPrint, history, Status, Terminal
  <2> QED BY <1>8, <2>1, FreeHolders DEF FinishAutoPrint, EndRun, process
<1>9. CASE WorkerExit(w)
  BY <1>9, UnchangedKeeps, HoldersKeep DEF WorkerExit, store, process, history
<1> QED BY <1>1, <1>2, <1>3, <1>4, <1>5, <1>6, <1>7, <1>8, <1>9 DEF WorkerStep

\* The slicer, the submissions, the printers and the pills touch no record.
LEMMA QuietBlobs ==
  ASSUME BlobInv, TypeOK', UNCHANGED <<store, job, phase, deleted>>
  PROVE  BlobInv'
BY UnchangedKeeps, HoldersKeep DEF BlobInv, store

LEMMA SaveUploadProgressBlobs ==
  ASSUME BlobInv, TypeOK', NEW w \in Workers, SaveUploadProgress(w)
  PROVE  BlobInv'
<1>1. BlobsKept' /\ ObjectsStay
  BY SaveKeeps DEF SaveUploadProgress, history, Procs
<1>2. ObjectsExist' /\ NobodyWorks'
  BY <1>1, HoldersKeep DEF SaveUploadProgress, procs, process
<1> QED BY <1>1, <1>2 DEF BlobInv

LEMMA RequestBlobs ==
  ASSUME BlobInv, TypeOK', NEW c \in Clients, RequestStart(c) \/ RequestEnd(c)
  PROVE  BlobInv'
<1> c \in Procs
  BY DEF Procs
<1> SUFFICES (BlobsKept' /\ ObjectsStay) /\ ObjectsExist' /\ NobodyWorks'
  BY DEF BlobInv
<1>1. CASE \E j \in Jobs : DeleteRequest(c, j)
  <2> PICK j \in Jobs : DeleteRequest(c, j)
    BY <1>1
  <2>1. BlobsKept' /\ ObjectsStay
    BY DeleteKeeps, UnchangedKeeps DEF DeleteRequest, store
  <2>2. \A s \in Procs : job'[s] = job[s] \/ job'[s] \in stored
    BY DEF DeleteRequest, BlobInv, TypeOK
  <2> QED BY <2>1, <2>2, HoldersKeep DEF DeleteRequest, Serving, process
<1>2. CASE \E j \in Jobs, p \in Printers : PrintRequest(c, j, p)
  <2> PICK j \in Jobs, p \in Printers : PrintRequest(c, j, p)
    BY <1>2
  <2>1. BlobsKept' /\ ObjectsStay
    BY PrintedKeeps, UnchangedKeeps DEF PrintRequest, history, BlobInv, ObjectsExist
  <2>2. \A s \in Procs : job'[s] = job[s] \/ job'[s] \in stored
    BY DEF PrintRequest, BlobInv, TypeOK
  <2> QED BY <2>1, <2>2, HoldersKeep DEF PrintRequest, Serving, process
<1>3. CASE \E gaveUp \in BOOLEAN : DeleteAfterWait(c, gaveUp)
  <2>1. BlobsKept' /\ ObjectsStay
    BY <1>3, HeldJob, DeleteKeeps DEF DeleteAfterWait
  <2> QED BY <1>3, <2>1, FreeHolders DEF DeleteAfterWait, process
<1>4. CASE FinishPrint(c)
  <2>1. BlobsKept' /\ ObjectsStay
    BY <1>4, HeldJob, PrintedKeeps, UnchangedKeeps DEF FinishPrint, history
  <2> QED BY <1>4, <2>1, FreeHolders DEF FinishPrint, process
<1> QED BY <1>1, <1>2, <1>3, <1>4 DEF RequestStart, RequestEnd

LEMMA ClearBlobs ==
  ASSUME BlobInv, TypeOK', NEW statuses, Clear(statuses)
  PROVE  BlobInv'
<1>1. BlobsKept' /\ ObjectsStay
  BY RemovalKeeps DEF Clear
<1>2. ObjectsExist' /\ NobodyWorks'
  BY <1>1, HoldersKeep DEF Clear, procs, process
<1> QED BY <1>1, <1>2 DEF BlobInv

\* The objects die with the process; the records and the blobs on disk stay, but
\* for what a crash left half done.
LEMMA LostBlobs ==
  ASSUME BlobInv, TypeOK', Exit \/ Crash
  PROVE  BlobInv'
<1>1. Lost
  BY DEF Exit, Crash
<1>2. ObjectsExist' /\ NobodyWorks'
  BY <1>1 DEF Lost, ObjectsExist, NobodyWorks
<1>3. ASSUME NEW i \in Jobs \ deleted'
      PROVE  disk'[i].status # "absent" => i \in input' /\ (disk'[i].output => i \in output')
  <2>1. i \in Jobs \ deleted /\ disk'[i] = disk[i] /\ output \subseteq output'
    BY <1>3 DEF Exit, Crash, BlobInv, TypeOK
  <2>2. i \in input => i \in input'
    BY <1>3 DEF Exit, Crash
  <2> QED BY <2>1, <2>2 DEF BlobInv, BlobsKept, Backed
<1>4. \A i \in Jobs : obj'[i].status = "absent"
  BY <1>1 DEF Lost, NoRecord
<1>5. BlobsKept'
  BY <1>3, <1>4 DEF BlobsKept, Backed
<1> QED BY <1>2, <1>5 DEF BlobInv

LEMMA RestartBlobs ==
  ASSUME BlobInv, TypeOK', Restart
  PROVE  BlobInv'
<1>1. CASE Boot
  <2>1. \A s \in Procs : job'[s] = NoJob
    BY <1>1 DEF Boot, BlobInv, NobodyWorks, procs
  <2> QED
    BY <1>1, <2>1
    DEF Boot, BlobInv, BlobsKept, Backed, ObjectsExist, NobodyWorks, history
<1>2. CASE \E j \in Jobs : RecoverJob(j)
  <2> PICK j \in Jobs : RecoverJob(j)
    BY <1>2
  <2>1. BlobsKept' /\ ObjectsStay
    <3>1. CASE obj[j].status \in InFlight /\ SetStatus(j, "failed")
      BY <3>1, SetStatusKeeps DEF RecoverJob, InFlight, Status, Terminal, history
    <3>2. CASE UNCHANGED <<obj, stored, disk>>
      BY <3>2, UnchangedKeeps DEF RecoverJob, history
    <3> QED BY <3>1, <3>2 DEF RecoverJob
  <2>2. ObjectsExist' /\ NobodyWorks'
    BY <2>1, HoldersKeep DEF RecoverJob, procs
  <2> QED BY <2>1, <2>2 DEF BlobInv
<1>3. CASE StartWorkers
  BY <1>3
  DEF StartWorkers, BlobInv, BlobsKept, Backed, ObjectsExist, NobodyWorks, store, procs, history
<1> QED BY <1>1, <1>2, <1>3, LostBlobs DEF Restart

LEMMA NextBlobs ==
  ASSUME BlobInv, [Next]_vars
  PROVE  BlobInv'
<1> TypeOK'
  BY NextType DEF BlobInv
<1>1. CASE UNCHANGED vars
  BY <1>1, QuietBlobs DEF vars, procs, process, history
<1>2. CASE \E w \in Workers : SlicerStep(w)
  BY <1>2, QuietBlobs DEF SlicerStep, SlicerProgress, SlicerEnds, process, history
<1>3. CASE \E s \in Procs : SubmissionProgress(s) \/ CloudSend(s)
  BY <1>3, QuietBlobs
  DEF SubmissionProgress, CloudTakeSlot, CloudAnswer, LanConnect, LanUpload, LanSend, CloudSend,
      process, history
<1>4. CASE Shutdown \/ \E p \in Printers : PrinterOnline(p) \/ PrinterFinishes(p)
  <2>1. CASE Shutdown
    <3>1. UNCHANGED <<store, job, deleted>> /\ phase' = "stopping"
      BY <2>1 DEF Shutdown, procs, history
    <3>2. BlobsKept' /\ ObjectsStay
      BY <3>1, UnchangedKeeps DEF store
    <3> QED BY <3>1, <3>2 DEF BlobInv, ObjectsExist, NobodyWorks, ObjectsStay, store
  <2>2. CASE \E p \in Printers : PrinterOnline(p) \/ PrinterFinishes(p)
    BY <2>2, QuietBlobs DEF PrinterOnline, PrinterFinishes, procs, process, history
  <2> QED BY <1>4, <2>1, <2>2
<1>5. CASE \E statuses \in SUBSET Terminal : Clear(statuses)
  BY <1>5, ClearBlobs
<1>6. CASE \E j \in Jobs : JobRequest(j)
  BY <1>6, JobRequestBlobs
<1>7. CASE \E w \in Workers : WorkerStep(w) \/ SaveUploadProgress(w)
  BY <1>7, WorkerStepBlobs, SaveUploadProgressBlobs
<1>8. CASE \E c \in Clients : RequestStart(c) \/ RequestEnd(c)
  BY <1>8, RequestBlobs
<1>9. CASE Crash \/ Restart
  BY <1>9, LostBlobs, RestartBlobs
<1> QED BY <1>1, <1>2, <1>3, <1>4, <1>5, <1>6, <1>7, <1>8, <1>9 DEF Next

\* A record that was never deleted always refers to blobs that exist: through
\* crashes between the writes of submit, _run_job and delete, through deletions
\* that meet a running worker, and through restarts.
THEOREM BlobsCorrect == Spec => []RecordHasBlobs
<1>1. BlobInv => RecordHasBlobs
  BY DEF BlobInv, BlobsKept, Backed, RecordHasBlobs
<1> QED BY <1>1, InitBlobs, NextBlobs, PTL DEF Spec

-----------------------------------------------------------------------------
(* One owner per job.  OneOwner is inductive once it is known that ids are *)
(* fresh: whatever has a record, an object or a place in the queue was     *)
(* submitted before, and recovery queues a job at most once.               *)

Queued(j) == \E i \in 1..Len(queue) : queue[i] = j

QueueDistinct ==
  \A i, k \in 1..Len(queue) : queue[i] = queue[k] /\ queue[i] # Stop => i = k

WorkersApart ==
  \A w \in Workers : job[w] # NoJob =>
    /\ ~Queued(job[w])
    /\ \A v \in Workers \ {w} : job[v] # job[w]

RecordsKnown ==
  \A j \in Jobs : obj[j].status # "absent" \/ disk[j].status # "absent" => j \in used

QueueKnown == \A j \in Jobs : Queued(j) => j \in used

TodoOK ==
  /\ phase # "recovering" => todo = {}
  /\ phase = "down" => queue = <<>>
  /\ \A j \in todo : ~Queued(j)

OwnerInv ==
  BlobInv /\ RecordsKnown /\ QueueDistinct /\ QueueKnown /\ WorkersApart /\ TodoOK

\* Taking the head leaves a queue without it.
LEMMA QueueTail ==
  ASSUME TypeOK, QueueDistinct, queue # <<>>, queue' = Tail(queue)
  PROVE  /\ QueueDistinct'
         /\ \A j : Queued(j)' => Queued(j)
         /\ Queued(Head(queue))
         /\ \A j : Queued(j)' /\ j # Stop => j # Head(queue)
<1> queue \in Seq(Jobs \cup {Stop})
  BY DEF TypeOK
<1>1. /\ Len(queue) \in Nat /\ Len(queue) > 0
      /\ Head(queue) = queue[1]
      /\ Len(queue') = Len(queue) - 1
      /\ \A i \in 1..Len(queue') : i + 1 \in 1..Len(queue) /\ queue'[i] = queue[i + 1]
  OBVIOUS
<1>2. QueueDistinct'
  BY <1>1 DEF QueueDistinct
<1>3. \A j : Queued(j)' => \E i \in 2..Len(queue) : queue[i] = j
  BY <1>1 DEF Queued
<1>4. 1 \in 1..Len(queue)
  BY <1>1
<1> QED BY <1>1, <1>2, <1>3, <1>4 DEF Queued, QueueDistinct

LEMMA QueueAppend ==
  ASSUME TypeOK, QueueDistinct, NEW j \in Jobs, ~Queued(j), queue' = Append(queue, j)
  PROVE  /\ QueueDistinct'
         /\ \A i : Queued(i)' => Queued(i) \/ i = j
<1> queue \in Seq(Jobs \cup {Stop})
  BY DEF TypeOK
<1>1. /\ Len(queue) \in Nat
      /\ Len(queue') = Len(queue) + 1
      /\ \A i \in 1..Len(queue) : queue'[i] = queue[i]
      /\ queue'[Len(queue) + 1] = j
  OBVIOUS
<1>2. \A i \in 1..Len(queue') : i \in 1..Len(queue) \/ i = Len(queue) + 1
  BY <1>1
<1> QED BY <1>1, <1>2 DEF QueueDistinct, Queued

LEMMA QueuePills ==
  ASSUME TypeOK, QueueDistinct,
         queue' = queue \o [i \in 1..Cardinality(Workers) |-> Stop]
  PROVE  /\ QueueDistinct'
         /\ \A j : Queued(j)' => Queued(j) \/ j = Stop
<1> DEFINE n == Cardinality(Workers)
           pills == [i \in 1..n |-> Stop]
<1>1. /\ queue \in Seq(Jobs \cup {Stop}) /\ Len(queue) \in Nat
      /\ pills \in Seq(Jobs \cup {Stop}) /\ Len(pills) = n /\ n \in Nat
  BY Pills DEF TypeOK
<1>2. /\ Len(queue') = Len(queue) + n
      /\ \A i \in 1..Len(queue) : queue'[i] = queue[i]
      /\ \A i \in Len(queue) + 1..Len(queue) + n : queue'[i] = Stop
  <2>1. Len(queue') = Len(queue) + Len(pills)
    BY <1>1
  <2>2. \A i \in 1..Len(queue) : queue'[i] = queue[i]
    BY <1>1
  <2>3. \A i \in Len(queue) + 1..Len(queue) + n : queue'[i] = pills[i - Len(queue)]
    BY <1>1
  <2>4. \A i \in Len(queue) + 1..Len(queue) + n : i - Len(queue) \in 1..n
    BY <1>1
  <2> QED BY <1>1, <2>1, <2>2, <2>3, <2>4
<1>3. ASSUME NEW i \in 1..Len(queue')
      PROVE  i \in 1..Len(queue) \/ queue'[i] = Stop
  <2>1. i \in 1..Len(queue) \/ i \in Len(queue) + 1..Len(queue) + n
    BY <1>1, <1>2
  <2> QED BY <1>2, <2>1
<1> HIDE DEF pills, n
<1>4. QueueDistinct'
  <2> SUFFICES ASSUME NEW i \in 1..Len(queue'), NEW k \in 1..Len(queue'),
                      queue'[i] = queue'[k], queue'[i] # Stop
               PROVE  i = k
    BY DEF QueueDistinct
  <2> QED BY <1>2, <1>3 DEF QueueDistinct
<1>5. ASSUME NEW j, Queued(j)', j # Stop
      PROVE  Queued(j)
  BY <1>2, <1>3, <1>5 DEF Queued
<1> QED BY <1>4, <1>5

\* The queue stays, workers at most let go of their jobs.
LEMMA QuietQueue ==
  ASSUME OwnerInv, UNCHANGED queue, used \subseteq used',
         \A w \in Workers : job'[w] \in {job[w], NoJob}
  PROVE  QueueDistinct' /\ QueueKnown' /\ WorkersApart'
BY DEF OwnerInv, QueueDistinct, QueueKnown, WorkersApart, Queued

\* The head of the queue is dropped or taken by one worker.
LEMMA TakeHead ==
  ASSUME OwnerInv, queue # <<>>, queue' = Tail(queue), UNCHANGED <<used, todo, phase>>,
         NEW w \in Workers, Working,
         job' = job \/ (job' = [job EXCEPT ![w] = Head(queue)] /\ Head(queue) \in Jobs)
  PROVE  QueueDistinct' /\ QueueKnown' /\ WorkersApart' /\ TodoOK'
<1> TypeOK /\ QueueDistinct /\ w \in Procs
  BY DEF OwnerInv, BlobInv, Procs
<1>1. /\ QueueDistinct'
      /\ \A j : Queued(j)' => Queued(j)
      /\ Queued(Head(queue))
      /\ \A j : Queued(j)' /\ j # Stop => j # Head(queue)
  BY QueueTail
<1>2. QueueKnown'
  BY <1>1 DEF OwnerInv, QueueKnown
<1>3. TodoOK'
  BY <1>1 DEF OwnerInv, TodoOK, Working
<1>4. WorkersApart'
  <2>1. CASE job' = job
    BY <1>1, <2>1 DEF OwnerInv, WorkersApart
  <2>2. CASE job' = [job EXCEPT ![w] = Head(queue)] /\ Head(queue) \in Jobs
    <3>1. Head(queue) # Stop
      BY <2>2, SliceJobsAssumption
    <3>2. \A v \in Workers : job[v] # NoJob => job[v] # Head(queue)
      BY <1>1 DEF OwnerInv, WorkersApart
    <3>3. \A v \in Workers : job'[v] = IF v = w THEN Head(queue) ELSE job[v]
      BY <2>2 DEF TypeOK, Procs
    <3>4. Head(queue) # NoJob
      BY <2>2, SliceJobsAssumption
    <3>5. \A i \in 1..Len(queue') : queue'[i] # Head(queue)
      BY <1>1, <3>1 DEF Queued
    <3>6. \A v \in Workers : job[v] # NoJob => \A i \in 1..Len(queue') : queue'[i] # job[v]
      BY <1>1 DEF OwnerInv, WorkersApart, Queued
    <3>7. ASSUME NEW v \in Workers, job'[v] # NoJob
          PROVE  ~(\E i \in 1..Len(queue') : queue'[i] = job'[v])
      BY <3>3, <3>5, <3>6, <3>7
    <3>8. ASSUME NEW v \in Workers, job'[v] # NoJob, NEW u \in Workers \ {v}
          PROVE  job'[u] # job'[v]
      BY <3>2, <3>3, <3>4, <3>8 DEF OwnerInv, WorkersApart
    <3> QED BY <3>7, <3>8 DEF WorkersApart, Queued
  <2> QED BY <2>1, <2>2
<1> QED BY <1>1, <1>2, <1>3, <1>4

\* What is saved under a known id leaves all records known.
LEMMA UpsertKnown ==
  ASSUME OwnerInv, NEW j \in Jobs, NEW rec, Upsert(j, rec),
         j \in used', used \subseteq used'
  PROVE  RecordsKnown'
<1>1. /\ obj' = [obj EXCEPT ![j] = rec]
      /\ stored' = stored \cup {j}
      /\ disk' = [i \in Jobs |-> IF i \in stored' THEN obj'[i] ELSE NoRecord]
  BY DEF Upsert, Flush
<1>2. ASSUME NEW i \in Jobs, obj'[i].status # "absent"
      PROVE  i \in used'
  BY <1>1, <1>2 DEF OwnerInv, BlobInv, TypeOK, RecordsKnown
<1>3. ASSUME NEW i \in Jobs, disk'[i].status # "absent"
      PROVE  i \in used'
  BY <1>1, <1>2, <1>3 DEF NoRecord
<1> QED BY <1>2, <1>3 DEF RecordsKnown

LEMMA SetStatusKnown ==
  ASSUME OwnerInv, NEW j \in Jobs, NEW s, SetStatus(j, s),
         j \in used', used \subseteq used'
  PROVE  RecordsKnown'
BY UpsertKnown DEF SetStatus

LEMMA FlushKnown ==
  ASSUME OwnerInv, NEW ids, Flush(obj, ids), used \subseteq used'
  PROVE  RecordsKnown'
BY DEF Flush, OwnerInv, RecordsKnown, NoRecord

LEMMA UnchangedKnown ==
  ASSUME OwnerInv, UNCHANGED <<obj, disk>>, used \subseteq used'
  PROVE  RecordsKnown'
BY DEF OwnerInv, RecordsKnown

\* Stored jobs, jobs a process holds and queued jobs were submitted.
LEMMA UsedJobs ==
  ASSUME OwnerInv
  PROVE  /\ \A j \in stored : j \in used
         /\ \A s \in Procs : pc[s] \notin {"idle", "exited"} => job[s] \in used
         /\ \A s \in Procs : job[s] # NoJob => job[s] \in Jobs \cap used
<1>1. \A s \in Procs : job[s] \in Jobs \cup {NoJob}
  BY DEF OwnerInv, BlobInv, TypeOK
<1> QED
  BY <1>1, HeldJob DEF OwnerInv, BlobInv, TypeOK, ObjectsExist, RecordsKnown

LEMMA InitOwner == Init => OwnerInv
BY InitBlobs
DEF Init, OwnerInv, RecordsKnown, QueueDistinct, QueueKnown, WorkersApart, TodoOK, Queued,
    NoRecord, Procs

LEMMA SubmitOwner ==
  ASSUME OwnerInv, BlobInv', NEW j \in Jobs, NEW t, NEW e \in BOOLEAN, Submit(j, t, e)
  PROVE  OwnerInv'
<1>1. /\ j \notin used /\ used' = used \cup {j}
      /\ UNCHANGED <<pc, job, phase, todo>> /\ phase = "up"
  BY DEF Submit, Serving, procs, process
<1>2. RecordsKnown'
  BY <1>1, UpsertKnown DEF Submit
<1>3. ~Queued(j) /\ j \notin todo /\ todo = {}
  BY <1>1 DEF OwnerInv, QueueKnown, TodoOK
<1>4. CASE queue' = queue
  <2>1. QueueDistinct' /\ QueueKnown' /\ WorkersApart'
    BY <1>1, <1>4, QuietQueue
  <2> QED BY <1>1, <1>2, <1>3, <2>1 DEF OwnerInv, TodoOK
<1>5. CASE queue' = Append(queue, j)
  <2>1. /\ QueueDistinct'
        /\ \A i : Queued(i)' => Queued(i) \/ i = j
    BY <1>3, <1>5, QueueAppend DEF OwnerInv, BlobInv
  <2>2. QueueKnown' /\ TodoOK'
    BY <1>1, <1>3, <2>1 DEF OwnerInv, QueueKnown, TodoOK
  <2>3. \A w \in Workers : job[w] # NoJob => job[w] # j
    BY <1>1, UsedJobs DEF Procs
  <2>4. WorkersApart'
    BY <1>1, <2>1, <2>3 DEF OwnerInv, WorkersApart
  <2> QED BY <1>2, <2>1, <2>2, <2>4 DEF OwnerInv
<1> QED BY <1>4, <1>5 DEF Submit

LEMMA WorkerStepOwner ==
  ASSUME OwnerInv, BlobInv', NEW w \in Workers, WorkerStep(w)
  PROVE  OwnerInv'
<1> w \in Procs
  BY DEF Procs
<1>1. ASSUME RecordsKnown', QueueDistinct', QueueKnown', WorkersApart', TodoOK'
      PROVE  OwnerInv'
  BY <1>1 DEF OwnerInv
<1>2. CASE SkipMissing(w)
  <2>1. RecordsKnown'
    BY <1>2, UnchangedKnown DEF SkipMissing, store, history
  <2> QED BY <1>1, <1>2, <2>1, TakeHead DEF SkipMissing, procs, process, history
<1>3. CASE SkipCancelled(w)
  <2>1. RecordsKnown'
    BY <1>3, UsedJobs, SetStatusKnown DEF SkipCancelled, history, OwnerInv, BlobInv, TypeOK
  <2> QED BY <1>1, <1>3, <2>1, TakeHead DEF SkipCancelled, procs, process, history
<1>4. CASE StartSlicing(w)
  <2>1. Head(queue) \in Jobs \cap used
    BY <1>4, UsedJobs DEF StartSlicing, OwnerInv, BlobInv, TypeOK
  <2>2. RecordsKnown'
    BY <1>4, <2>1, SetStatusKnown DEF StartSlicing, history
  <2> QED BY <1>1, <1>4, <2>1, <2>2, TakeHead DEF StartSlicing, process, history
<1>5. CASE CrashSlicing(w)
  <2>1. RecordsKnown'
    BY <1>5, UsedJobs, SetStatusKnown DEF CrashSlicing, history, OwnerInv, BlobInv, TypeOK
  <2> QED BY <1>1, <1>5, <2>1, TakeHead DEF CrashSlicing, procs, process, history
<1>6. CASE WorkerExit(w)
  <2>1. RecordsKnown'
    BY <1>6, UnchangedKnown DEF WorkerExit, store, history
  <2> QED BY <1>1, <1>6, <2>1, TakeHead DEF WorkerExit, process, history
<1>7. ASSUME \/ TakeProgress(w) \/ CancelSlicing(w) \/ FinishAutoPrint(w)
             \/ \E traysOk \in BOOLEAN : FinishSlicing(w, traysOk)
      PROVE  OwnerInv'
  <2>1. UNCHANGED <<queue, used, phase, todo>>
    BY <1>7 DEF TakeProgress, CancelSlicing, FinishAutoPrint, FinishSlicing, manager, process,
                history
  <2>2. \A v \in Workers : job'[v] \in {job[v], NoJob}
    BY <1>7 DEF TakeProgress, CancelSlicing, FinishAutoPrint, FinishSlicing, EndRun, Free,
                OwnerInv, BlobInv, TypeOK, Procs
  <2>3. pc[w] \notin {"idle", "exited"}
    BY <1>7 DEF TakeProgress, CancelSlicing, FinishAutoPrint, FinishSlicing
  <2>4. job[w] \in Jobs \cap used
    BY <2>3, UsedJobs, HeldJob DEF OwnerInv
  <2>5. RecordsKnown'
    <3>1. CASE UNCHANGED <<obj, disk>>
      BY <2>1, <3>1, UnchangedKnown
    <3>2. CASE \E rec : Upsert(job[w], rec)
      BY <2>1, <2>4, <3>2, UpsertKnown
    <3> QED
      BY <1>7, <3>1, <3>2
      DEF TakeProgress, CancelSlicing, FinishAutoPrint, FinishSlicing, SetStatus, store
  <2>6. QueueDistinct' /\ QueueKnown' /\ WorkersApart'
    BY <2>1, <2>2, QuietQueue
  <2> QED BY <1>1, <2>1, <2>5, <2>6 DEF OwnerInv, TodoOK, Queued
<1> QED BY <1>2, <1>3, <1>4, <1>5, <1>6, <1>7 DEF WorkerStep

\* Requests move no worker and no place in the queue.
LEMMA RequestOwner ==
  ASSUME OwnerInv, BlobInv', NEW c \in Clients, RequestStart(c) \/ RequestEnd(c)
  PROVE  OwnerInv'
<1> c \in Procs /\ c \notin Workers
  BY SliceJobsAssumption DEF Procs
<1>1. UNCHANGED <<queue, used, phase, todo>>
  BY DEF RequestStart, RequestEnd, DeleteRequest, PrintRequest, DeleteAfterWait, FinishPrint,
         manager, process, history
<1>2. \A w \in Workers : job'[w] = job[w]
  BY DEF RequestStart, RequestEnd, DeleteRequest, PrintRequest, DeleteAfterWait, FinishPrint,
         Free, OwnerInv, BlobInv, TypeOK, Procs
<1>3. RecordsKnown'
  <2>1. CASE \E j \in Jobs : Delete(j)
    BY <1>1, <2>1, FlushKnown, UnchangedKnown DEF Delete, store
  <2>2. CASE UNCHANGED <<obj, disk>>
    BY <1>1, <2>2, UnchangedKnown
  <2>3. CASE \E j \in Jobs \cap used : \E rec : Upsert(j, rec)
    BY <1>1, <2>3, UpsertKnown
  <2>4. ASSUME pc[c] \notin {"idle", "exited"}
        PROVE  job[c] \in Jobs \cap used
    BY <2>4, UsedJobs, HeldJob DEF OwnerInv
  <2>5. CASE RequestStart(c)
    BY <2>1, <2>2, <2>3, <2>5, UsedJobs DEF RequestStart, DeleteRequest, PrintRequest, store
  <2>6. CASE RequestEnd(c)
    BY <2>1, <2>2, <2>3, <2>4, <2>6 DEF RequestEnd, DeleteAfterWait, FinishPrint
  <2> QED BY <2>5, <2>6
<1>4. QueueDistinct' /\ QueueKnown' /\ WorkersApart'
  BY <1>1, <1>2, QuietQueue
<1> QED BY <1>1, <1>3, <1>4 DEF OwnerInv, TodoOK, Queued

\* Steps that touch neither records nor queue nor workers' jobs.
LEMMA QuietOwner ==
  ASSUME OwnerInv, BlobInv', UNCHANGED <<obj, disk, queue, job, phase, todo, used>>
  PROVE  OwnerInv'
<1>1. QueueDistinct' /\ QueueKnown' /\ WorkersApart'
  BY QuietQueue
<1> QED BY <1>1, UnchangedKnown DEF OwnerInv, TodoOK, Queued

LEMMA RestartOwner ==
  ASSUME OwnerInv, BlobInv', Shutdown \/ Crash \/ Restart
  PROVE  OwnerInv'
<1>1. CASE Shutdown
  <2>1. /\ QueueDistinct'
        /\ \A j : Queued(j)' => Queued(j) \/ j = Stop
    BY <1>1, QueuePills DEF Shutdown, OwnerInv, BlobInv
  <2>2. UNCHANGED <<obj, disk, used, job, todo>> /\ phase' = "stopping" /\ todo = {}
    BY <1>1 DEF Shutdown, store, procs, history, OwnerInv, TodoOK
  <2>3. QueueKnown' /\ TodoOK' /\ RecordsKnown'
    BY <2>1, <2>2, SliceJobsAssumption DEF OwnerInv, QueueKnown, TodoOK, RecordsKnown
  <2>4. \A w \in Workers : job[w] # NoJob => job[w] # Stop
    BY SliceJobsAssumption, UsedJobs DEF Procs
  <2>5. WorkersApart'
    BY <2>1, <2>2, <2>4 DEF OwnerInv, WorkersApart
  <2> QED BY <2>1, <2>3, <2>5 DEF OwnerInv
<1>2. CASE Exit \/ Crash
  <2>1. Lost /\ used \subseteq used'
    BY <1>2 DEF Exit, Crash
  <2>2. \A j \in Jobs : disk'[j].status # "absent" => disk[j].status # "absent"
    <3>1. CASE disk' = disk
      BY <3>1
    <3>2. CASE \E i \in stored : disk' = [disk EXCEPT ![i] = NoRecord]
      BY <3>2 DEF NoRecord, OwnerInv, BlobInv, TypeOK
    <3> QED BY <1>2, <3>1, <3>2 DEF Exit, Crash
  <2>3. RecordsKnown'
    BY <2>1, <2>2 DEF Lost, NoRecord, OwnerInv, RecordsKnown
  <2>4. queue' = <<>> /\ todo' = {} /\ phase' = "down" /\ \A s \in Procs : job'[s] = NoJob
    BY <2>1 DEF Lost
  <2>5. \A j : ~Queued(j)'
    BY <2>4 DEF Queued
  <2>6. QueueDistinct' /\ QueueKnown' /\ WorkersApart' /\ TodoOK'
    BY <2>4, <2>5 DEF QueueDistinct, QueueKnown, WorkersApart, TodoOK, Procs
  <2> QED BY <2>3, <2>6 DEF OwnerInv
<1>3. CASE Boot
  <2>1. UNCHANGED <<queue, used, job>> /\ queue = <<>> /\ phase' = "recovering" /\ obj' = disk
        /\ disk' = disk
    BY <1>3 DEF Boot, manager, procs, history, OwnerInv, TodoOK
  <2>2. QueueDistinct' /\ QueueKnown' /\ WorkersApart'
    BY <2>1, QuietQueue
  <2>3. RecordsKnown'
    BY <2>1 DEF OwnerInv, RecordsKnown
  <2>4. TodoOK'
    BY <2>1 DEF TodoOK, Queued
  <2> QED BY <2>2, <2>3, <2>4 DEF OwnerInv
<1>4. CASE \E j \in Jobs : RecoverJob(j)
  <2> PICK j \in Jobs : RecoverJob(j)
    BY <1>4
  <2>1. /\ phase = "recovering" /\ j \in todo /\ todo' = todo \ {j} /\ ~Queued(j)
        /\ UNCHANGED <<phase, used, job>>
    BY DEF RecoverJob, procs, history, OwnerInv, TodoOK
  <2>2. \A s \in Procs : job[s] = NoJob
    BY <2>1 DEF OwnerInv, BlobInv, NobodyWorks
  <2>3. j \in used
    <3>1. obj[j].status # "absent"
      BY DEF RecoverJob, IsTerminal, InFlight, Terminal
    <3> QED BY <3>1 DEF OwnerInv, RecordsKnown
  <2>4. RecordsKnown'
    BY <2>1, <2>3, SetStatusKnown, UnchangedKnown DEF RecoverJob
  <2>5. QueueDistinct' /\ QueueKnown' /\ TodoOK'
    <3>1. CASE UNCHANGED queue
      <4>1. QueueDistinct' /\ QueueKnown'
        BY <2>1, <3>1, QuietQueue
      <4> QED BY <2>1, <3>1, <4>1 DEF OwnerInv, TodoOK, Queued
    <3>2. CASE queue' = Append(queue, j)
      <4>1. /\ QueueDistinct'
            /\ \A i : Queued(i)' => Queued(i) \/ i = j
        BY <2>1, <3>2, QueueAppend DEF OwnerInv, BlobInv
      <4> QED BY <2>1, <2>3, <4>1 DEF OwnerInv, QueueKnown, TodoOK
    <3> QED BY <3>1, <3>2 DEF RecoverJob, manager
  <2>6. WorkersApart'
    BY <2>1, <2>2 DEF WorkersApart, Procs
  <2> QED BY <2>4, <2>5, <2>6 DEF OwnerInv
<1>5. CASE StartWorkers
  <2>1. UNCHANGED <<obj, disk, queue, job, todo, used>> /\ phase' = "up" /\ todo = {}
    BY <1>5 DEF StartWorkers, store, manager, procs, history
  <2>2. QueueDistinct' /\ QueueKnown' /\ WorkersApart' /\ RecordsKnown'
    BY <2>1, QuietQueue, UnchangedKnown
  <2> QED BY <2>1, <2>2 DEF OwnerInv, TodoOK
<1> QED BY <1>1, <1>2, <1>3, <1>4, <1>5 DEF Restart

LEMMA NextOwner ==
  ASSUME OwnerInv, [Next]_vars
  PROVE  OwnerInv'
<1> BlobInv'
  BY NextBlobs DEF OwnerInv
<1>1. CASE UNCHANGED vars
  BY <1>1, QuietOwner DEF vars, store, manager, procs, process, history
<1>2. CASE \E j \in Jobs : JobRequest(j)
  <2> PICK j \in Jobs : JobRequest(j)
    BY <1>2
  <2>1. CASE Cancel(j)
    BY <2>1, QuietOwner DEF Cancel, store, procs, process
  <2> QED BY <2>1, SubmitOwner DEF JobRequest
<1>3. CASE \E w \in Workers : WorkerStep(w)
  BY <1>3, WorkerStepOwner
<1>4. CASE \E w \in Workers : SlicerStep(w)
  BY <1>4, QuietOwner
  DEF SlicerStep, SlicerProgress, SlicerEnds, store, manager, process, history
<1>5. CASE \E w \in Workers : SaveUploadProgress(w)
  <2> PICK w \in Workers : SaveUploadProgress(w)
    BY <1>5
  <2>1. UNCHANGED <<queue, job, phase, todo, used>>
    BY DEF SaveUploadProgress, manager, procs, process, history
  <2>2. job[w] \in Jobs \cap used
    BY UsedJobs, HeldJob DEF SaveUploadProgress, OwnerInv, Procs
  <2>3. RecordsKnown'
    BY <2>1, <2>2, UpsertKnown DEF SaveUploadProgress
  <2>4. QueueDistinct' /\ QueueKnown' /\ WorkersApart'
    BY <2>1, QuietQueue
  <2> QED BY <2>1, <2>3, <2>4 DEF OwnerInv, TodoOK, Queued
<1>6. CASE \E s \in Procs : SubmissionProgress(s) \/ CloudSend(s)
  BY <1>6, QuietOwner
  DEF SubmissionProgress, CloudTakeSlot, CloudAnswer, LanConnect, LanUpload, LanSend, CloudSend,
      store, manager, process, history
<1>7. CASE \E c \in Clients : RequestStart(c) \/ RequestEnd(c)
  BY <1>7, RequestOwner
<1>8. CASE \E statuses \in SUBSET Terminal : Clear(statuses)
  <2>1. UNCHANGED <<queue, job, phase, todo, used>>
    BY <1>8 DEF Clear, manager, procs, process
  <2>2. RecordsKnown'
    BY <1>8, <2>1, FlushKnown DEF Clear
  <2>3. QueueDistinct' /\ QueueKnown' /\ WorkersApart'
    BY <2>1, QuietQueue
  <2> QED BY <2>1, <2>2, <2>3 DEF OwnerInv, TodoOK, Queued
<1>9. CASE \E p \in Printers : PrinterOnline(p) \/ PrinterFinishes(p)
  BY <1>9, QuietOwner DEF PrinterOnline, PrinterFinishes, store, manager, procs, process, history
<1>10. CASE Shutdown \/ Crash \/ Restart
  BY <1>10, RestartOwner
<1> QED BY <1>1, <1>2, <1>3, <1>4, <1>5, <1>6, <1>7, <1>8, <1>9, <1>10 DEF Next

\* A job is queued at most once, and is with at most one worker and then no
\* longer queued: it is sliced and printed once per run of the gateway, whatever
\* submit, recover_on_startup, delete and the workers interleave.
THEOREM OwnerCorrect == Spec => []OneOwner
<1>1. OwnerInv => OneOwner
  BY DEF OwnerInv, QueueDistinct, WorkersApart, Queued, OneOwner
<1> QED BY <1>1, InitOwner, NextOwner, PTL DEF Spec

=============================================================================
