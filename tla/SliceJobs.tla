------------------------------ MODULE SliceJobs ------------------------------
(***************************************************************************)
(* The asynchronous slice-job subsystem: SliceJobStore and SliceJobManager *)
(* (app/slice_jobs.py), the HTTP handlers that cancel, delete, clear and   *)
(* print jobs (app/main.py), and the print submission they share           *)
(* (PrinterService.submit_print for LAN printers, run_cloud_print for      *)
(* cloud printers).                                                        *)
(*                                                                         *)
(* Everything in the gateway's event loop runs atomically from one await   *)
(* that really suspends to the next one; an action below is such a         *)
(* segment.  The upload threads and the slicer run beside the loop.  A job *)
(* record is one shared Python object: obj[j] is the object, stored says   *)
(* which ids are in the store's dict, disk is slice_jobs.json.             *)
(***************************************************************************)
EXTENDS Naturals, Sequences, FiniteSets

CONSTANTS
  Jobs,          \* job ids; uuid4, so an id is submitted at most once
  Workers,       \* the worker tasks, SLICE_MAX_CONCURRENT of them
  Clients,       \* concurrent HTTP requests that delete or print a job
  LanPrinters,   \* printers reached over MQTT and FTPS
  CloudPrinters, \* printers reached through the Bambu cloud plugin
  NoPrinter,     \* no auto-print target
  NoJob,         \* a process that holds no job
  Stop,          \* the "__STOP__" pill
  MaxRestarts,   \* bound on crashes and graceful restarts
  ReadMayFail    \* whether reading an input blob may raise OSError

Printers == LanPrinters \cup CloudPrinters
Procs == Workers \cup Clients

ASSUME SliceJobsAssumption ==
  /\ NoJob \notin Jobs
  /\ Stop \notin Jobs
  /\ NoPrinter \notin Printers
  /\ LanPrinters \cap CloudPrinters = {}
  /\ Workers \cap Clients = {}
  /\ Workers # {}
  /\ IsFiniteSet(Workers)
  /\ MaxRestarts \in Nat
  /\ ReadMayFail \in BOOLEAN

VARIABLES
  obj,       \* obj[j]: the SliceJob object of this process
  stored,    \* ids in SliceJobStore._jobs
  disk,      \* disk[j]: the record in slice_jobs.json
  input,     \* jobs whose input blob is on disk
  output,    \* jobs whose output blob is on disk
  queue,     \* SliceJobManager._queue
  cancelEv,  \* SliceJobManager._cancel_events: "none", "clear" or "set"
  pc,        \* where each worker task and each request is
  job,       \* the job each worker task or request works on
  printer,   \* the printer each one submits to
  sub,       \* the state of its print submission
  phase,     \* the process: "down", "recovering", "up", "stopping"
  todo,      \* ids recover_on_startup has still to visit
  online,    \* printers that are online
  running,   \* running[p]: the job printer p executes
  restarts,  \* restarts so far
  used,      \* history: ids ever given to a submission
  session,   \* history: ids submitted with enqueue=False
  deleted,   \* history: ids SliceJobStore.delete removed
  handed     \* history: jobs whose print command reached a printer

store == <<obj, stored, disk, input, output>>
manager == <<queue, cancelEv>>
procs == <<pc, job, printer, sub>>
process == <<phase, todo, restarts>>
printers == <<online, running>>
history == <<used, session, deleted, handed>>
vars == <<store, manager, procs, process, printers, history>>

Terminal == {"ready", "failed", "cancelled"}
InFlight == {"slicing", "uploading"}
Status == {"queued"} \cup InFlight \cup Terminal

Record == [status : Status \cup {"absent"}, output : BOOLEAN,
           printed : BOOLEAN, target : Printers \cup {NoPrinter}]
NoRecord == [status |-> "absent", output |-> FALSE,
             printed |-> FALSE, target |-> NoPrinter]

WorkerPc == {"idle", "slicing", "progress", "ended", "uploading", "exited"}
Outcome == {"result", "empty", "error"}
ClientPc == {"idle", "deleting", "uploading"}
SubState == {"none", "reading", "slot", "sent", "connect", "chunks", "uploaded",
             "ok", "cancelled"} \cup Outcome

\* What a worker task or a request holds, by where it is.
Holds(s, at, j, p, st) ==
  /\ at \in IF s \in Workers THEN WorkerPc ELSE ClientPc
  /\ j \in IF at \in {"idle", "exited"} THEN {NoJob} ELSE Jobs
  /\ p \in IF at = "uploading" THEN Printers ELSE {NoPrinter}
  /\ st \in CASE at = "ended" -> Outcome
             [] at = "uploading" -> SubState \ {"none", "result", "empty"}
             [] OTHER -> {"none"}

ProcsOK == \A s \in Procs : Holds(s, pc[s], job[s], printer[s], sub[s])

TypeOK ==
  /\ obj \in [Jobs -> Record]
  /\ stored \subseteq Jobs
  /\ disk \in [Jobs -> Record]
  /\ input \subseteq Jobs
  /\ output \subseteq Jobs
  /\ queue \in Seq(Jobs \cup {Stop})
  /\ cancelEv \in [Jobs -> {"none", "clear", "set"}]
  /\ pc \in [Procs -> WorkerPc \cup ClientPc]
  /\ job \in [Procs -> Jobs \cup {NoJob}]
  /\ printer \in [Procs -> Printers \cup {NoPrinter}]
  /\ sub \in [Procs -> SubState]
  /\ ProcsOK
  /\ phase \in {"down", "recovering", "up", "stopping"}
  /\ todo \subseteq Jobs
  /\ online \subseteq Printers
  /\ running \in [Printers -> Jobs \cup {NoJob}]
  /\ restarts \in 0..MaxRestarts
  /\ phase = "stopping" => restarts < MaxRestarts
  /\ used \subseteq Jobs
  /\ session \subseteq Jobs
  /\ deleted \subseteq Jobs
  /\ handed \subseteq Jobs

Init ==
  /\ obj = [j \in Jobs |-> NoRecord]
  /\ stored = {}
  /\ disk = [j \in Jobs |-> NoRecord]
  /\ input = {}
  /\ output = {}
  /\ queue = <<>>
  /\ cancelEv = [j \in Jobs |-> "none"]
  /\ pc = [s \in Procs |-> "idle"]
  /\ job = [s \in Procs |-> NoJob]
  /\ printer = [s \in Procs |-> NoPrinter]
  /\ sub = [s \in Procs |-> "none"]
  /\ phase = "up"
  /\ todo = {}
  /\ online = Printers
  /\ running = [p \in Printers |-> NoJob]
  /\ restarts = 0
  /\ used = {}
  /\ session = {}
  /\ deleted = {}
  /\ handed = {}

-----------------------------------------------------------------------------
(* The store.  upsert and delete rewrite the whole file from the dict, so  *)
(* a flush also saves what other tasks changed in memory only.             *)

Flush(objs, ids) ==
  /\ obj' = objs
  /\ stored' = ids
  /\ disk' = [j \in Jobs |-> IF j \in ids THEN objs[j] ELSE NoRecord]

\* upsert puts the object into the dict whether or not the id is there.
Upsert(j, rec) == Flush([obj EXCEPT ![j] = rec], stored \cup {j})

SetStatus(j, s) == Upsert(j, [obj[j] EXCEPT !.status = s])

\* Mutant: the output blob is not unlinked.
DeleteInputOnly(j) ==
  IF j \in stored
  THEN /\ Flush(obj, stored \ {j})
       /\ input' = input \ {j}
       /\ deleted' = deleted \cup {j}
       /\ UNCHANGED output
  ELSE UNCHANGED <<store, deleted>>

\* delete: nothing if the id is unknown, else the record and then the blobs.
Delete(j) ==
  IF j \in stored
  THEN /\ Flush(obj, stored \ {j})
       /\ input' = input \ {j}
       /\ output' = IF obj[j].output THEN output \ {j} ELSE output
       /\ deleted' = deleted \cup {j}
  ELSE UNCHANGED <<store, deleted>>

IsTerminal(j) == obj[j].status \in Terminal

Free(s) ==
  /\ pc' = [pc EXCEPT ![s] = "idle"]
  /\ job' = [job EXCEPT ![s] = NoJob]
  /\ printer' = [printer EXCEPT ![s] = NoPrinter]
  /\ sub' = [sub EXCEPT ![s] = "none"]

\* What the worker loop's finally clause does after _run_job returns or raises.
EndRun(w) ==
  /\ Free(w)
  /\ cancelEv' = [cancelEv EXCEPT ![job[w]] = "none"]

Serving == phase = "up"
Working == phase \in {"up", "stopping"}

-----------------------------------------------------------------------------
(* SliceJobManager.submit and cancel.                                      *)
\* Mutant: the record is saved and the input blob is left for later.
SubmitWithoutBlob(j, target, enqueue) ==
  /\ Serving
  /\ j \notin used
  /\ used' = used \cup {j}
  /\ session' = IF enqueue THEN session ELSE session \cup {j}
  /\ Upsert(j, [NoRecord EXCEPT !.status = "queued", !.target = target])
  /\ cancelEv' = [cancelEv EXCEPT ![j] = "clear"]
  /\ queue' = IF enqueue THEN Append(queue, j) ELSE queue
  /\ UNCHANGED <<input, output, procs, process, printers, deleted, handed>>

Submit(j, target, enqueue) ==
  /\ Serving
  /\ j \notin used
  /\ used' = used \cup {j}
  /\ session' = IF enqueue THEN session ELSE session \cup {j}
  /\ input' = input \cup {j}
  /\ Upsert(j, [NoRecord EXCEPT !.status = "queued", !.target = target])
  /\ cancelEv' = [cancelEv EXCEPT ![j] = "clear"]
  /\ queue' = IF enqueue THEN Append(queue, j) ELSE queue
  /\ UNCHANGED <<output, procs, process, printers, deleted, handed>>

SetCancel(j) ==
  cancelEv' = IF cancelEv[j] = "clear" THEN [cancelEv EXCEPT ![j] = "set"] ELSE cancelEv

Cancel(j) ==
  /\ Serving
  /\ j \in stored
  /\ ~IsTerminal(j)
  /\ SetCancel(j)
  /\ UNCHANGED <<store, queue, procs, process, printers, used, session, deleted, handed>>

-----------------------------------------------------------------------------
(* The worker tasks.                                                       *)

\* A job whose record is gone by the time it is dequeued.
SkipMissing(w) ==
  /\ Working
  /\ pc[w] = "idle"
  /\ queue # <<>>
  /\ Head(queue) \in Jobs \ stored
  /\ queue' = Tail(queue)
  /\ cancelEv' = [cancelEv EXCEPT ![Head(queue)] = "none"]
  /\ UNCHANGED <<store, procs, process, printers, history>>

\* Mutant: the run returns without recording the cancellation.
SkipCancelledSilently(w) ==
  /\ Working
  /\ pc[w] = "idle"
  /\ queue # <<>>
  /\ Head(queue) \in stored
  /\ cancelEv[Head(queue)] = "set"
  /\ queue' = Tail(queue)
  /\ cancelEv' = [cancelEv EXCEPT ![Head(queue)] = "none"]
  /\ UNCHANGED <<store, procs, process, printers, history>>

\* A job whose cancel event was set while it was queued.
SkipCancelled(w) ==
  /\ Working
  /\ pc[w] = "idle"
  /\ queue # <<>>
  /\ Head(queue) \in stored
  /\ cancelEv[Head(queue)] = "set"
  /\ queue' = Tail(queue)
  /\ SetStatus(Head(queue), "cancelled")
  /\ cancelEv' = [cancelEv EXCEPT ![Head(queue)] = "none"]
  /\ UNCHANGED <<input, output, procs, process, printers, history>>

\* Mutant: the worker looks at the head of the queue and leaves it there.
StartSlicingPeeking(w) ==
  /\ Working
  /\ pc[w] = "idle"
  /\ queue # <<>>
  /\ Head(queue) \in stored
  /\ cancelEv[Head(queue)] # "set"
  /\ SetStatus(Head(queue), "slicing")
  /\ pc' = [pc EXCEPT ![w] = "slicing"]
  /\ job' = [job EXCEPT ![w] = Head(queue)]
  /\ UNCHANGED <<input, output, manager, printer, sub, process, printers, history>>

StartSlicing(w) ==
  /\ Working
  /\ pc[w] = "idle"
  /\ queue # <<>>
  /\ Head(queue) \in stored
  /\ cancelEv[Head(queue)] # "set"
  /\ Head(queue) \in input
  /\ queue' = Tail(queue)
  /\ SetStatus(Head(queue), "slicing")
  /\ pc' = [pc EXCEPT ![w] = "slicing"]
  /\ job' = [job EXCEPT ![w] = Head(queue)]
  /\ UNCHANGED <<input, output, cancelEv, printer, sub, process, printers, history>>

\* Reading the input blob raises: the exception ends the run after the
\* status was saved as slicing, and the loop only logs it.
CrashSlicing(w) ==
  /\ Working
  /\ pc[w] = "idle"
  /\ queue # <<>>
  /\ Head(queue) \in stored
  /\ cancelEv[Head(queue)] # "set"
  /\ ReadMayFail \/ Head(queue) \notin input
  /\ queue' = Tail(queue)
  /\ SetStatus(Head(queue), "slicing")
  /\ cancelEv' = [cancelEv EXCEPT ![Head(queue)] = "none"]
  /\ UNCHANGED <<input, output, procs, process, printers, history>>

\* The slicer's next event arrives (next_task is done).  An event that is
\* already there when the cancel event is set may still be taken first; one
\* that arrives later loses, because cancellation is tested first.
SlicerProgress(w) ==
  /\ pc[w] = "slicing"
  /\ cancelEv[job[w]] # "set"
  /\ pc' = [pc EXCEPT ![w] = "progress"]
  /\ UNCHANGED <<store, manager, job, printer, sub, process, printers, history>>

\* The worker handles a progress or status event: at most one write a second.
TakeProgress(w) ==
  /\ pc[w] = "progress"
  /\ pc' = [pc EXCEPT ![w] = "slicing"]
  /\ \/ Upsert(job[w], obj[job[w]])
     \/ UNCHANGED <<obj, stored, disk>>
  /\ UNCHANGED <<input, output, manager, job, printer, sub, process, printers, history>>

\* The slicer's stream ends with a result, without one, or with an error
\* (next_task is done); the worker has yet to be woken.
SlicerEnds(w, outcome) ==
  /\ pc[w] = "slicing"
  /\ cancelEv[job[w]] # "set"
  /\ outcome \in Outcome
  /\ pc' = [pc EXCEPT ![w] = "ended"]
  /\ sub' = [sub EXCEPT ![w] = outcome]
  /\ UNCHANGED <<store, manager, job, printer, process, printers, history>>

\* The cancel event wins the wait, or is there too when the worker is woken.  The
\* generator's aclose() does not suspend: with a pending __anext__ it raises, and
\* the stream below it is left to its own cancellation.
CancelSlicing(w) ==
  /\ pc[w] \in {"slicing", "progress", "ended"}
  /\ cancelEv[job[w]] = "set"
  /\ SetStatus(job[w], "cancelled")
  /\ EndRun(w)
  /\ UNCHANGED <<input, output, queue, process, printers, history>>

\* The worker takes the end of the stream.  A result is written as the output
\* blob; it is printed if the job asks for it, the target answers as online (all
\* that _is_printer_idle tests: PrinterStatus has no gcode_state) and its trays
\* are loaded, else the job is ready.
FinishSlicing(w, traysOk) ==
  LET j == job[w]
      sliced == [obj[j] EXCEPT !.output = TRUE]
      p == obj[j].target
  IN
  /\ pc[w] = "ended"
  /\ \/ /\ sub[w] \in {"empty", "error"}
        /\ SetStatus(j, "failed")
        /\ EndRun(w)
        /\ UNCHANGED output
     \/ /\ sub[w] = "result"
        /\ output' = output \cup {j}
        /\ IF p = NoPrinter \/ p \notin online \/ ~traysOk
           THEN /\ Upsert(j, [sliced EXCEPT !.status = "ready"])
                /\ EndRun(w)
           ELSE /\ Upsert(j, [sliced EXCEPT !.status = "uploading"])
                /\ pc' = [pc EXCEPT ![w] = "uploading"]
                /\ printer' = [printer EXCEPT ![w] = p]
                /\ sub' = [sub EXCEPT ![w] = IF p \in CloudPrinters
                                             THEN "reading" ELSE "connect"]
                /\ UNCHANGED <<job, cancelEv>>
  /\ UNCHANGED <<input, queue, process, printers, history>>

\* The 0.2 s poll beside a LAN upload saves the progress.
SaveUploadProgress(w) ==
  /\ pc[w] = "uploading"
  /\ printer[w] \in LanPrinters
  /\ Upsert(job[w], obj[job[w]])
  /\ UNCHANGED <<input, output, manager, procs, process, printers, history>>

\* Mutant: a cancel event that is set when the submission has ended wins.
FinishAutoPrintCancelFirst(w) ==
  /\ pc[w] = "uploading"
  /\ sub[w] \in {"ok", "error", "cancelled"}
  /\ IF cancelEv[job[w]] = "set"
     THEN SetStatus(job[w], "cancelled")
     ELSE Upsert(job[w], [obj[job[w]] EXCEPT !.status = "ready", !.printed = TRUE])
  /\ EndRun(w)
  /\ UNCHANGED <<input, output, queue, process, printers, history>>

\* Mutant: the job takes the status "printing" that the job model dropped.
FinishAutoPrintAsPrinting(w) ==
  /\ pc[w] = "uploading"
  /\ sub[w] = "ok"
  /\ Upsert(job[w], [obj[job[w]] EXCEPT !.status = "printing", !.printed = TRUE])
  /\ EndRun(w)
  /\ UNCHANGED <<input, output, queue, process, printers, history>>

\* Mutant: a job whose upload failed is queued for another try.
FinishAutoPrintRequeued(w) ==
  /\ pc[w] = "uploading"
  /\ sub[w] = "error"
  /\ SetStatus(job[w], "queued")
  /\ queue' = Append(queue, job[w])
  /\ EndRun(w)
  /\ UNCHANGED <<input, output, process, printers, history>>

\* The worker sees the end of its submission.
FinishAutoPrint(w) ==
  /\ pc[w] = "uploading"
  /\ \/ /\ sub[w] = "ok"
        /\ Upsert(job[w], [obj[job[w]] EXCEPT !.status = "ready", !.printed = TRUE])
     \/ /\ sub[w] = "error"
        /\ SetStatus(job[w], "failed")
     \/ /\ sub[w] = "cancelled"
        /\ SetStatus(job[w], "cancelled")
  /\ EndRun(w)
  /\ UNCHANGED <<input, output, queue, process, printers, history>>

WorkerExit(w) ==
  /\ Working
  /\ pc[w] = "idle"
  /\ queue # <<>>
  /\ Head(queue) = Stop
  /\ queue' = Tail(queue)
  /\ pc' = [pc EXCEPT ![w] = "exited"]
  /\ UNCHANGED <<store, cancelEv, job, printer, sub, process, printers, history>>

-----------------------------------------------------------------------------
(* Print submissions: of a worker (auto_print) or of a print request.      *)

SubmissionStep(s, from, to) ==
  /\ pc[s] = "uploading"
  /\ sub[s] \in from
  /\ sub' = [sub EXCEPT ![s] = to]

\* The printer takes the print command: from then on it executes the job.
HandOver(s) ==
  /\ running' = [running EXCEPT ![printer[s]] = job[s]]
  /\ handed' = handed \cup {job[s]}

\* CloudPrinterClient._progress of this printer is taken by another submission.
SlotTaken(s) ==
  \E t \in Procs \ {s} : printer[t] = printer[s] /\ sub[t] \in {"slot", "sent"}

\* submit_cloud_print has read the blob off the loop (or found it gone).
CloudTakeSlot(s) ==
  /\ \/ /\ job[s] \in output
        /\ ~SlotTaken(s)
        /\ SubmissionStep(s, {"reading"}, "slot")
     \/ /\ job[s] \notin output \/ SlotTaken(s)
        /\ SubmissionStep(s, {"reading"}, "error")
  /\ UNCHANGED <<store, manager, pc, job, printer, process, printers, history>>

\* The plugin has uploaded the file and sent the print to the printer.
CloudSend(s) ==
  /\ SubmissionStep(s, {"slot"}, "sent")
  /\ HandOver(s)
  /\ UNCHANGED <<store, manager, pc, job, printer, process, online,
                 used, session, deleted>>

\* The terminal frame: done only after the print was sent; an error frame, a
\* refused RPC or 900 s without a frame at any time.
CloudAnswer(s) ==
  /\ \/ SubmissionStep(s, {"sent"}, "ok")
     \/ SubmissionStep(s, {"slot", "sent"}, "error")
  /\ UNCHANGED <<store, manager, pc, job, printer, process, printers, history>>

\* The upload thread connects and tests that the printer is online.
LanConnect(s) ==
  /\ \/ printer[s] \in online /\ SubmissionStep(s, {"connect"}, "chunks")
     \/ SubmissionStep(s, {"connect"}, "error")
  /\ UNCHANGED <<store, manager, pc, job, printer, process, printers, history>>

\* FTPS: the progress callback of every chunk tests the cancel flag (the
\* job's cancel event, or the UploadState of a print request).
LanUpload(s) ==
  /\ \/ /\ SubmissionStep(s, {"chunks"}, "uploaded")
        /\ s \in Workers => cancelEv[job[s]] # "set"
     \/ /\ SubmissionStep(s, {"chunks"}, "cancelled")
        /\ s \in Workers => cancelEv[job[s]] = "set"
     \/ SubmissionStep(s, {"chunks"}, "error")
  /\ UNCHANGED <<store, manager, pc, job, printer, process, printers, history>>

\* send_print_command, after the last chunk: nothing tests the flag any more.
LanSend(s) ==
  /\ \/ /\ SubmissionStep(s, {"uploaded"}, "ok")
        /\ HandOver(s)
     \/ /\ SubmissionStep(s, {"uploaded"}, "error")
        /\ UNCHANGED <<running, handed>>
  /\ UNCHANGED <<store, manager, pc, job, printer, process, online,
                 used, session, deleted>>

-----------------------------------------------------------------------------
(* HTTP requests.                                                          *)

\* DELETE /api/slice-jobs/{id}: a terminal job goes at once; else cancel, and
\* wait for the worker to settle the job.
DeleteRequest(c, j) ==
  /\ Serving
  /\ pc[c] = "idle"
  /\ j \in stored
  /\ IF IsTerminal(j)
     THEN /\ Delete(j)
          /\ UNCHANGED <<cancelEv, pc, job>>
     ELSE /\ SetCancel(j)
          /\ pc' = [pc EXCEPT ![c] = "deleting"]
          /\ job' = [job EXCEPT ![c] = j]
          /\ UNCHANGED <<store, deleted>>
  /\ UNCHANGED <<queue, printer, sub, process, printers, used, session, handed>>

\* The poll finds the job settled, or one second has passed: the record and
\* its blobs go in either case.  A second is enough for a worker to notice the
\* cancel event while it slices, not for an upload to stop.
DeleteAfterWait(c, gaveUp) ==
  /\ pc[c] = "deleting"
  /\ \/ ~gaveUp /\ (job[c] \notin stored \/ IsTerminal(job[c]))
     \/ gaveUp /\ \A w \in Workers : job[w] = job[c] => pc[w] = "uploading"
  /\ Delete(job[c])
  /\ Free(c)
  /\ UNCHANGED <<manager, process, printers, used, session, handed>>

\* POST /api/slice-jobs/clear.
Clear(statuses) ==
  LET cleared == {j \in stored : obj[j].status \in statuses} IN
  /\ Serving
  /\ statuses \subseteq Terminal
  /\ cleared # {}
  /\ Flush(obj, stored \ cleared)
  /\ input' = input \ cleared
  /\ output' = output \ {j \in cleared : obj[j].output}
  /\ deleted' = deleted \cup cleared
  /\ UNCHANGED <<manager, procs, process, printers, used, session, handed>>

\* POST /api/print with a job_id, POST /api/print-sessions/{id}/print: the
\* job is terminal and its output blob exists.  A LAN print is handed to a
\* thread and recorded as printed at once; a cloud print is awaited.
PrintRequest(c, j, p) ==
  /\ Serving
  /\ pc[c] = "idle"
  /\ j \in stored
  /\ IsTerminal(j)
  /\ obj[j].output
  /\ j \in output
  /\ pc' = [pc EXCEPT ![c] = "uploading"]
  /\ job' = [job EXCEPT ![c] = j]
  /\ printer' = [printer EXCEPT ![c] = p]
  /\ \/ /\ p \in CloudPrinters
        /\ sub' = [sub EXCEPT ![c] = "reading"]
        /\ UNCHANGED <<obj, stored, disk>>
     \/ /\ p \in LanPrinters \cap online
        /\ sub' = [sub EXCEPT ![c] = "connect"]
        /\ Upsert(j, [obj[j] EXCEPT !.status = "ready", !.printed = TRUE])
  /\ UNCHANGED <<input, output, manager, process, printers, history>>

\* The end of a print request: a cloud print is recorded when it succeeded;
\* the thread of a LAN print only updates its UploadState.
FinishPrint(c) ==
  /\ pc[c] = "uploading"
  /\ sub[c] \in {"ok", "error", "cancelled"}
  /\ IF sub[c] = "ok" /\ printer[c] \in CloudPrinters
     THEN Upsert(job[c], [obj[job[c]] EXCEPT !.status = "ready", !.printed = TRUE])
     ELSE UNCHANGED <<obj, stored, disk>>
  /\ Free(c)
  /\ UNCHANGED <<input, output, manager, process, printers, history>>

-----------------------------------------------------------------------------
(* The printers, and the life of the gateway process.                      *)

PrinterOnline(p) ==
  /\ online' = IF p \in online THEN online \ {p} ELSE online \cup {p}
  /\ UNCHANGED <<store, manager, procs, process, running, history>>

PrinterFinishes(p) ==
  /\ running[p] # NoJob
  /\ running' = [running EXCEPT ![p] = NoJob]
  /\ UNCHANGED <<store, manager, procs, process, online, history>>

\* Mutant: one pill for all workers.
ShutdownOnePill ==
  /\ phase = "up"
  /\ \A c \in Clients : pc[c] = "idle" \/ printer[c] \in LanPrinters
  /\ restarts < MaxRestarts
  /\ phase' = "stopping"
  /\ queue' = Append(queue, Stop)
  /\ UNCHANGED <<store, cancelEv, procs, todo, restarts, printers, history>>

\* SliceJobManager.stop, once the server has answered its open requests: one
\* pill per worker, behind the queued jobs.
Shutdown ==
  /\ phase = "up"
  /\ \A c \in Clients : pc[c] = "idle" \/ printer[c] \in LanPrinters
  /\ restarts < MaxRestarts
  /\ phase' = "stopping"
  /\ queue' = queue \o [i \in 1..Cardinality(Workers) |-> Stop]
  /\ UNCHANGED <<store, cancelEv, procs, todo, restarts, printers, history>>

Lost ==
  /\ obj' = [j \in Jobs |-> NoRecord]
  /\ stored' = {}
  /\ queue' = <<>>
  /\ cancelEv' = [j \in Jobs |-> "none"]
  /\ pc' = [s \in Procs |-> "idle"]
  /\ job' = [s \in Procs |-> NoJob]
  /\ printer' = [s \in Procs |-> NoPrinter]
  /\ sub' = [s \in Procs |-> "none"]
  /\ phase' = "down"
  /\ todo' = {}
  /\ restarts' = restarts + 1

\* The process ends once every worker took its pill and no request or upload
\* thread is left.
Exit ==
  /\ phase = "stopping"
  /\ \A w \in Workers : pc[w] = "exited"
  /\ \A c \in Clients : pc[c] = "idle"
  /\ Lost
  /\ UNCHANGED <<disk, input, output, printers, used, session, deleted, handed>>

\* The process is killed.  A segment that writes several files may be cut in
\* the middle: a blob without its record yet, or a record removed and its
\* blobs not.
Crash ==
  /\ phase # "down"
  /\ restarts < MaxRestarts
  /\ Lost
  /\ \/ UNCHANGED <<disk, input, output, used, deleted>>
     \/ \E j \in Jobs \ used :
          /\ phase = "up"
          /\ input' = input \cup {j}
          /\ used' = used \cup {j}
          /\ UNCHANGED <<disk, output, deleted>>
     \/ \E w \in Workers :
          /\ pc[w] = "ended"
          /\ sub[w] = "result"
          /\ output' = output \cup {job[w]}
          /\ UNCHANGED <<disk, input, used, deleted>>
     \/ \E j \in stored :
          /\ phase = "up"
          /\ IsTerminal(j) \/ \E c \in Clients : pc[c] = "deleting" /\ job[c] = j
          /\ disk' = [disk EXCEPT ![j] = NoRecord]
          /\ input' \in {input, input \ {j}}
          /\ deleted' = deleted \cup {j}
          /\ UNCHANGED <<output, used>>
  /\ UNCHANGED <<printers, session, handed>>

Boot ==
  /\ phase = "down"
  /\ obj' = disk
  /\ stored' = {j \in Jobs : disk[j].status # "absent"}
  /\ todo' = stored'
  /\ phase' = "recovering"
  /\ UNCHANGED <<disk, input, output, manager, procs, restarts, printers, history>>

\* Mutant: an interrupted job is queued again.
RecoverJobResuming(j) ==
  /\ phase = "recovering"
  /\ j \in todo
  /\ todo' = todo \ {j}
  /\ IF IsTerminal(j)
     THEN UNCHANGED <<obj, stored, disk, manager>>
     ELSE /\ cancelEv' = [cancelEv EXCEPT ![j] = "clear"]
          /\ queue' = Append(queue, j)
          /\ SetStatus(j, "queued")
  /\ UNCHANGED <<input, output, procs, phase, restarts, printers, history>>

\* recover_on_startup, one job: an interrupted job fails and keeps its
\* output_path, a queued one is queued again; the other jobs stay as they are
\* (re-extracting a missing thumbnail changes nothing modelled here).
RecoverJob(j) ==
  /\ phase = "recovering"
  /\ j \in todo
  /\ todo' = todo \ {j}
  /\ \/ /\ obj[j].status \in InFlight
        /\ SetStatus(j, "failed")
        /\ UNCHANGED manager
     \/ /\ obj[j].status = "queued"
        /\ cancelEv' = [cancelEv EXCEPT ![j] = "clear"]
        /\ queue' = Append(queue, j)
        /\ UNCHANGED <<obj, stored, disk>>
     \/ /\ IsTerminal(j)
        /\ UNCHANGED <<obj, stored, disk, manager>>
  /\ UNCHANGED <<input, output, procs, phase, restarts, printers, history>>
\* Mutant: the workers and the server start while jobs are left to recover.
StartWorkersEarly ==
  /\ phase = "recovering"
  /\ phase' = "up"
  /\ UNCHANGED <<store, manager, procs, todo, restarts, printers, history>>

StartWorkers ==
  /\ phase = "recovering"
  /\ todo = {}
  /\ phase' = "up"
  /\ UNCHANGED <<store, manager, procs, todo, restarts, printers, history>>

-----------------------------------------------------------------------------

JobRequest(j) ==
  \/ \E t \in Printers \cup {NoPrinter} : Submit(j, t, TRUE)
  \/ Submit(j, NoPrinter, FALSE)
  \/ Cancel(j)

WorkerStep(w) ==
  \/ SkipMissing(w)
  \/ SkipCancelled(w)
  \/ StartSlicing(w)
  \/ CrashSlicing(w)
  \/ TakeProgress(w)
  \/ CancelSlicing(w)
  \/ \E traysOk \in BOOLEAN : FinishSlicing(w, traysOk)
  \/ FinishAutoPrint(w)
  \/ WorkerExit(w)

SlicerStep(w) == SlicerProgress(w) \/ \E o \in Outcome : SlicerEnds(w, o)

SubmissionProgress(s) ==
  \/ CloudTakeSlot(s)
  \/ CloudAnswer(s)
  \/ LanConnect(s)
  \/ LanUpload(s)
  \/ LanSend(s)

RequestStart(c) ==
  \/ \E j \in Jobs : DeleteRequest(c, j)
  \/ \E j \in Jobs, p \in Printers : PrintRequest(c, j, p)

RequestEnd(c) ==
  \/ \E gaveUp \in BOOLEAN : DeleteAfterWait(c, gaveUp)
  \/ FinishPrint(c)

Restart ==
  \/ Exit
  \/ Boot
  \/ \E j \in Jobs : RecoverJob(j)
  \/ StartWorkers

Next ==
  \/ \E j \in Jobs : JobRequest(j)
  \/ \E w \in Workers : WorkerStep(w) \/ SlicerStep(w) \/ SaveUploadProgress(w)
  \/ \E s \in Procs : SubmissionProgress(s) \/ CloudSend(s)
  \/ \E c \in Clients : RequestStart(c) \/ RequestEnd(c)
  \/ \E statuses \in SUBSET Terminal : Clear(statuses)
  \/ \E p \in Printers : PrinterOnline(p) \/ PrinterFinishes(p)
  \/ Shutdown
  \/ Crash
  \/ Restart

Spec == Init /\ [][Next]_vars

(* The event loop runs every ready task; the slicer ends every stream it   *)
(* serves (or its connection fails), even between progress events; uploads *)
(* and cloud submissions time out; the supervisor restarts the gateway.    *)
Fairness ==
  /\ \A w \in Workers : WF_vars(WorkerStep(w))
  /\ \A w \in Workers : SF_vars(\E o \in Outcome : SlicerEnds(w, o))
  /\ \A s \in Procs : WF_vars(SubmissionProgress(s))
  /\ \A c \in Clients : WF_vars(RequestEnd(c))
  /\ WF_vars(Restart)

FairSpec == Spec /\ Fairness

-----------------------------------------------------------------------------
(* Safety.                                                                 *)

\* A job is in the queue at most once, is not both queued and with a worker,
\* and never with two workers: it is sliced once per run of the gateway,
\* whatever submit, recover_on_startup and the workers interleave.
OneOwner ==
  /\ \A i, k \in 1..Len(queue) : queue[i] = queue[k] /\ queue[i] # Stop => i = k
  /\ \A w \in Workers : job[w] # NoJob =>
       /\ \A i \in 1..Len(queue) : queue[i] # job[w]
       /\ \A v \in Workers \ {w} : job[v] # job[w]

\* A job the store shows as slicing or uploading is in the hands of a worker:
\* no crash, restart, cancellation or deletion leaves one that nobody moves.
ActiveIsOwned ==
  phase \in {"up", "stopping"} =>
    \A j \in stored : obj[j].status \in InFlight => \E w \in Workers : job[w] = j

\* A record that was never deleted refers to blobs that exist, on disk and
\* after a crash between any two writes ("so the job record always references
\* a real file", and output_path, which printing and previews read).
RecordHasBlobs ==
  \A j \in Jobs \ deleted : disk[j].status # "absent" =>
    /\ j \in input
    /\ disk[j].output => j \in output

\* As long as the gateway was not killed, no blob is left on disk without the
\* record that would delete it, not even when a deletion meets a worker.
NoOrphanBlobs ==
  restarts = 0 => \A j \in input \cup output : disk[j].status # "absent"

\* Nothing reaches a printer that was not sliced to its output blob first,
\* and a job that never finished slicing is not recorded as printed.
HandedWasSliced ==
  /\ \A j \in handed : j \in output \cup deleted
  /\ \A j \in Jobs : disk[j].printed => disk[j].output

\* The outcome "cancelled" is honest: the print command of a job that a worker
\* recorded as cancelled was not sent (LAN targets, where a reprint request
\* records the job as ready before it sends anything).
CancelledWasNotSent ==
  \A j \in Jobs : disk[j].status = "cancelled" => j \notin handed

\* SliceJobManager.stop drains: when the last worker has exited, every job
\* that was queued has been worked off.
StopDrains ==
  phase = "stopping" /\ (\A w \in Workers : pc[w] = "exited") =>
    /\ queue = <<>>
    /\ \A j \in stored \ session : IsTerminal(j)

\* What reaches a printer was sliced, and nothing was sent for a job that is
\* recorded as cancelled (slice_jobs.py:877-899).
SentRightly == HandedWasSliced /\ CancelledWasNotSent

\* No job is left behind: a worker has every job in flight, and a stop that has
\* ended has worked off the queue (slice_jobs.py:488-532).
NoJobIsForgotten == ActiveIsOwned /\ StopDrains

(* Liveness.                                                               *)

\* Every enqueued job reaches a terminal status (or is deleted), through
\* crashes, restarts, cancellations and failed submissions.
JobsSettle ==
  \A j \in Jobs :
    (disk[j].status \in {"queued"} \cup InFlight /\ j \notin session)
      ~> (disk[j].status \in Terminal \cup {"absent"})

\* A graceful stop ends: the workers reach their pills and exit.
StopEnds == phase = "stopping" ~> phase = "down"

-----------------------------------------------------------------------------
(* The abstract life of a job: the status of its record as long as the     *)
(* store knows it or a task still works on it.                             *)

Held(j) == j \in stored \/ \E s \in Procs : job[s] = j /\ pc[s] # "deleting"

JobStatus(j) ==
  IF phase = "down" THEN disk[j].status
  ELSE IF Held(j) THEN obj[j].status ELSE "absent"

Lifecycle == INSTANCE SliceJobLifecycle WITH life <- [j \in Jobs |-> JobStatus(j)]

\* The store, the workers, the requests and the restarts together implement
\* the status machine of the job model.
ImplementsLifecycle == Lifecycle!Spec

-----------------------------------------------------------------------------
(* What the documentation says and the code does not do.                   *)

\* DELETE /api/slice-jobs/{id}: "cancel (if active) + delete record + blobs".
\* A deleted record does not come back.
DeletedStaysDeleted ==
  [][\A j \in deleted : disk[j].status = "absent" => disk'[j].status = "absent"]_vars

\* "auto_print && printer busy => ready": a worker does not start to upload
\* to a printer that executes a job.
BusyPrinterIsLeftAlone ==
  [][\A w \in Workers :
       pc[w] # "uploading" /\ pc'[w] = "uploading" => running[printer'[w]] = NoJob]_vars
=============================================================================
