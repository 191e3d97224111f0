---------------------------- MODULE MCJobs_proofs ----------------------------
(***************************************************************************)
(* Theorems about what the print jobs rely on: the calls of the slicer,    *)
(* the mapping of filaments, the upload, the printer's status, the printer *)
(* registry and the installation of the plugin.  Each part is proved of    *)
(* its own next-state relation; a behaviour of the suite exercises one.    *)
(***************************************************************************)
EXTENDS MCJobs, SliceJobsOutcome_proofs, WellFoundedInduction, TLAPS

-----------------------------------------------------------------------------
(* Uploads.  A cancelled upload stops counting, and while it transfers to  *)
(* a file of its own, that file has the chunks that went out.              *)

OnTheWay == {"storing", "sent", "stored"}
ThreadPc == {"none", "queued", "connected", "commanded", "ended"} \cup OnTheWay
UploadStatus == {"none", "uploading", "completed", "failed", "cancelled"}
UploadFiles == {FileName[u] : u \in UploadIds}

UploadType ==
  /\ upload \in [UploadIds -> [status : UploadStatus, sent : Nat,
                               cancelled : BOOLEAN, cancelledAt : Nat]]
  /\ thread \in [UploadIds -> ThreadPc]
  /\ cache \in [UploadFiles -> [by : SUBSET UploadIds, size : Nat, whole : BOOLEAN]]
  /\ commanded \subseteq UploadIds

\* How far an upload is fits where its thread is.
ThreadFits ==
  \A u \in UploadIds :
    /\ thread[u] \in {"none", "queued", "connected"} => upload[u].sent = 0
    /\ thread[u] = "sent" => upload[u].sent < Chunks
    /\ thread[u] \in {"stored", "commanded"} => upload[u].sent = Chunks
    /\ upload[u].status = "failed" => thread[u] = "ended" /\ u \notin commanded
    /\ u \in commanded => thread[u] \in {"commanded", "ended"} /\ upload[u].sent = Chunks

CancelStops == \A u \in UploadIds : upload[u].cancelled => upload[u].cancelledAt = upload[u].sent

RunningIsUploading ==
  \A u \in UploadIds : thread[u] \notin {"none", "ended"} /\ ~upload[u].cancelled =>
    u \in tracked /\ upload[u].status = "uploading"

OutgoingSize(u) == IF thread[u] = "sent" THEN upload[u].sent + 1 ELSE upload[u].sent

FilesApart ==
  \A u \in UploadIds : thread[u] \in OnTheWay /\ FileName[u] \notin shared =>
    /\ \A v \in UploadIds \ {u} : FileName[v] = FileName[u] => thread[v] \notin OnTheWay
    /\ cache[FileName[u]] = [by |-> {u}, size |-> OutgoingSize(u),
                             whole |-> OutgoingSize(u) = Chunks]

UploadInv == UploadType /\ ThreadFits /\ CancelStops /\ RunningIsUploading /\ FilesApart

LEMMA UploadInit == U!Init => UploadInv
BY UploadAssumption
DEF U!Init, UploadInv, UploadType, ThreadFits, CancelStops, RunningIsUploading, FilesApart,
    UploadStatus, ThreadPc, UploadFiles, OnTheWay

LEMMA UploadTypeNext ==
  ASSUME UploadType, NEW u \in UploadIds,
         \/ U!Create(u) \/ U!Ages(u) \/ U!Connect(u) \/ U!Store(u) \/ U!SendChunk(u)
         \/ U!Advance(u) \/ U!Stored(u) \/ U!Command(u) \/ U!Complete(u) \/ U!Fails(u)
         \/ U!Cancel(u)
  PROVE  UploadType'
<1> USE DEF UploadType, UploadStatus, ThreadPc, UploadFiles, OnTheWay
<1>1. CASE U!Create(u) \/ U!Connect(u) \/ U!Stored(u) \/ U!Command(u) \/ U!Ages(u)
  BY <1>1 DEF U!Create, U!Connect, U!Stored, U!Command, U!Moves, U!Ages
<1>2. CASE U!Store(u)
  BY <1>2, UploadAssumption DEF U!Store, U!Moves
<1>3. CASE U!SendChunk(u)
  <2>1. PICK b \in BOOLEAN :
          cache' = [cache EXCEPT ![FileName[u]] =
                      [by |-> cache[FileName[u]].by \cup {u},
                       size |-> cache[FileName[u]].size + 1, whole |-> b]]
    BY <1>3 DEF U!SendChunk
  <2> QED BY <1>3, <2>1 DEF U!SendChunk, U!Moves
<1>4. CASE U!Advance(u) \/ U!Complete(u) \/ U!Fails(u) \/ U!Cancel(u)
  <2>1. thread' \in [UploadIds -> ThreadPc] /\ UNCHANGED <<cache, commanded>>
    BY <1>4 DEF U!Advance, U!Complete, U!Fails, U!Cancel, U!Moves
  <2>2. CASE \E st \in UploadStatus : upload' = [upload EXCEPT ![u].status = st]
    BY <2>1, <2>2
  <2>3. CASE upload' = [upload EXCEPT ![u].sent = @ + 1]
    BY <2>1, <2>3
  <2>4. CASE U!Cancel(u)
    <3>1. PICK n \in Nat : upload' = [upload EXCEPT ![u].cancelled = TRUE,
                                          ![u].status = "cancelled", ![u].cancelledAt = n]
      BY <2>4 DEF U!Cancel
    <3>2. upload' = [upload EXCEPT ![u] = [upload[u] EXCEPT !.cancelled = TRUE,
                                           !.status = "cancelled", !.cancelledAt = n]]
      BY <3>1
    <3> QED BY <2>1, <3>2
  <2> QED BY <1>4, <2>1, <2>2, <2>3, <2>4 DEF U!Advance, U!Complete, U!Fails
<1> QED BY <1>1, <1>2, <1>3, <1>4

\* Nobody opens or extends a file.
LEMMA FilesStay ==
  ASSUME UploadInv, UNCHANGED <<cache, shared>>,
         \A u \in UploadIds : thread'[u] \in OnTheWay =>
           thread[u] \in OnTheWay /\ OutgoingSize(u)' = OutgoingSize(u)
  PROVE  FilesApart'
BY DEF UploadInv, FilesApart

LEMMA UploadNext ==
  ASSUME UploadInv, U!Next
  PROVE  UploadInv'
<1> PICK u \in UploadIds :
       \/ U!Create(u) \/ U!Ages(u) \/ U!Connect(u) \/ U!Store(u) \/ U!SendChunk(u)
       \/ U!Advance(u) \/ U!Stored(u) \/ U!Command(u) \/ U!Complete(u) \/ U!Fails(u)
       \/ U!Cancel(u)
  BY DEF U!Next
<1> UploadType /\ UploadType'
  BY UploadTypeNext DEF UploadInv
<1> USE UploadAssumption DEF UploadType, UploadStatus, ThreadPc, OnTheWay
<1>1. CASE U!Create(u)
  <2>1. ThreadFits'
    BY <1>1 DEF U!Create, U!Expired, UploadInv, ThreadFits
  <2>2. CancelStops'
    BY <1>1 DEF U!Create, U!Expired, UploadInv, CancelStops
  <2>3. RunningIsUploading'
    BY <1>1 DEF U!Create, U!Expired, UploadInv, RunningIsUploading
  <2>4. FilesApart'
    BY <1>1, FilesStay DEF U!Create, UploadInv, ThreadFits, OutgoingSize
  <2> QED BY <2>1, <2>2, <2>3, <2>4 DEF UploadInv
<1>2. CASE U!Ages(u)
  <2>1. ThreadFits'
    BY <1>2 DEF U!Ages, UploadInv, ThreadFits
  <2>2. CancelStops'
    BY <1>2 DEF U!Ages, UploadInv, CancelStops
  <2>3. RunningIsUploading'
    BY <1>2 DEF U!Ages, UploadInv, RunningIsUploading
  <2>4. FilesApart'
    BY <1>2, FilesStay DEF U!Ages, UploadInv, ThreadFits, OutgoingSize
  <2> QED BY <2>1, <2>2, <2>3, <2>4 DEF UploadInv
<1>3. CASE U!Connect(u)
  <2>1. ThreadFits'
    BY <1>3 DEF U!Connect, U!Moves, UploadInv, ThreadFits
  <2>2. CancelStops'
    BY <1>3 DEF U!Connect, U!Moves, UploadInv, CancelStops
  <2>3. RunningIsUploading'
    BY <1>3 DEF U!Connect, U!Moves, UploadInv, RunningIsUploading
  <2>4. FilesApart'
    BY <1>3, FilesStay DEF U!Connect, U!Moves, UploadInv, ThreadFits, OutgoingSize
  <2> QED BY <2>1, <2>2, <2>3, <2>4 DEF UploadInv
<1>4. CASE U!Store(u)
  <2>1. ThreadFits'
    BY <1>4 DEF U!Store, U!Moves, U!Transferring, UploadInv, ThreadFits
  <2>2. CancelStops'
    BY <1>4 DEF U!Store, U!Moves, U!Transferring, UploadInv, CancelStops
  <2>3. RunningIsUploading'
    BY <1>4 DEF U!Store, U!Moves, U!Transferring, UploadInv, RunningIsUploading
  <2>4. ASSUME NEW v \in UploadIds, thread'[v] \in OnTheWay, FileName[v] \notin shared'
        PROVE  /\ \A w \in UploadIds \ {v} : FileName[w] = FileName[v] => thread'[w] \notin OnTheWay
               /\ cache'[FileName[v]] = [by |-> {v}, size |-> OutgoingSize(v)',
                                        whole |-> OutgoingSize(v)' = Chunks]
    <3>1. /\ thread[u] = "connected" /\ thread' = [thread EXCEPT ![u] = "storing"]
          /\ upload' = upload /\ upload[u].sent = 0
      BY <1>4 DEF U!Store, U!Moves, UploadInv, ThreadFits
    <3>2. FileName[v] \notin shared
      BY <1>4, <2>4 DEF U!Store
    <3>3. FileName[v] = FileName[u] =>
            \A w \in UploadIds \ {u} : FileName[w] = FileName[u] => thread[w] \notin OnTheWay
      BY <1>4, <2>4 DEF U!Store, U!Transferring
    <3>4. CASE FileName[v] = FileName[u]
      <4>1. v = u
        BY <2>4, <3>1, <3>3, <3>4
      <4>2. cache'[FileName[u]] = [by |-> {u}, size |-> 0, whole |-> Chunks = 0]
        BY <1>4 DEF U!Store, UploadFiles
      <4> QED BY <3>1, <3>3, <4>1, <4>2 DEF OutgoingSize
    <3>5. CASE FileName[v] # FileName[u]
      <4>1. cache'[FileName[v]] = cache[FileName[v]]
        BY <1>4, <3>5 DEF U!Store, UploadFiles
      <4> QED BY <2>4, <3>1, <3>2, <3>5, <4>1 DEF UploadInv, FilesApart, OutgoingSize
    <3> QED BY <3>4, <3>5
  <2>5. FilesApart'
    BY <2>4 DEF FilesApart
  <2> QED BY <2>1, <2>2, <2>3, <2>5 DEF UploadInv
<1>5. CASE U!SendChunk(u)
  <2>1. ThreadFits'
    BY <1>5 DEF U!SendChunk, U!Moves, UploadInv, ThreadFits
  <2>2. CancelStops'
    BY <1>5 DEF U!SendChunk, U!Moves, UploadInv, CancelStops
  <2>3. RunningIsUploading'
    BY <1>5 DEF U!SendChunk, U!Moves, UploadInv, RunningIsUploading
  <2>4. ASSUME NEW v \in UploadIds, thread'[v] \in OnTheWay, FileName[v] \notin shared'
        PROVE  /\ \A w \in UploadIds \ {v} : FileName[w] = FileName[v] => thread'[w] \notin OnTheWay
               /\ cache'[FileName[v]] = [by |-> {v}, size |-> OutgoingSize(v)',
                                        whole |-> OutgoingSize(v)' = Chunks]
    <3>1. /\ thread[u] = "storing" /\ thread' = [thread EXCEPT ![u] = "sent"]
          /\ upload' = upload /\ shared' = shared
      BY <1>5 DEF U!SendChunk, U!Moves
    <3>2. /\ \A w \in UploadIds \ {v} : FileName[w] = FileName[v] => thread[w] \notin OnTheWay
          /\ cache[FileName[v]] = [by |-> {v}, size |-> OutgoingSize(v),
                                  whole |-> OutgoingSize(v) = Chunks]
      BY <2>4, <3>1 DEF UploadInv, FilesApart
    <3>3. CASE v = u
      <4>1. cache[FileName[u]].by = {u} /\ cache[FileName[u]].size = upload[u].sent
        BY <3>1, <3>2, <3>3 DEF OutgoingSize
      <4>2. cache'[FileName[u]] = [by |-> {u}, size |-> upload[u].sent + 1,
                                   whole |-> upload[u].sent + 1 = Chunks]
        BY <1>5, <4>1 DEF U!SendChunk, UploadFiles
      <4> QED BY <3>1, <3>2, <3>3, <4>2 DEF OutgoingSize
    <3>4. CASE v # u
      <4>1. FileName[v] # FileName[u]
        BY <3>1, <3>2, <3>4
      <4>2. cache'[FileName[v]] = cache[FileName[v]]
        BY <1>5, <4>1 DEF U!SendChunk, UploadFiles
      <4> QED BY <3>1, <3>2, <3>4, <4>2 DEF OutgoingSize
    <3> QED BY <3>3, <3>4
  <2>5. FilesApart'
    BY <2>4 DEF FilesApart
  <2> QED BY <2>1, <2>2, <2>3, <2>5 DEF UploadInv
<1>6. CASE U!Advance(u)
  <2>1. ThreadFits'
    BY <1>6 DEF U!Advance, U!Moves, U!CancelSeen, UploadInv, ThreadFits
  <2>2. CancelStops'
    BY <1>6 DEF U!Advance, U!Moves, U!CancelSeen, UploadInv, CancelStops
  <2>3. RunningIsUploading'
    BY <1>6 DEF U!Advance, U!Moves, U!CancelSeen, UploadInv, RunningIsUploading
  <2>4. FilesApart'
    BY <1>6, FilesStay DEF U!Advance, U!Moves, U!CancelSeen, UploadInv, ThreadFits, OutgoingSize
  <2> QED BY <2>1, <2>2, <2>3, <2>4 DEF UploadInv
<1>7. CASE U!Stored(u)
  <2>1. ThreadFits'
    BY <1>7 DEF U!Stored, U!Moves, UploadInv, ThreadFits
  <2>2. CancelStops'
    BY <1>7 DEF U!Stored, U!Moves, UploadInv, CancelStops
  <2>3. RunningIsUploading'
    BY <1>7 DEF U!Stored, U!Moves, UploadInv, RunningIsUploading
  <2>4. FilesApart'
    BY <1>7, FilesStay DEF U!Stored, U!Moves, UploadInv, ThreadFits, OutgoingSize
  <2> QED BY <2>1, <2>2, <2>3, <2>4 DEF UploadInv
<1>8. CASE U!Command(u)
  <2>1. ThreadFits'
    BY <1>8 DEF U!Command, U!Moves, UploadInv, ThreadFits
  <2>2. CancelStops'
    BY <1>8 DEF U!Command, U!Moves, UploadInv, CancelStops
  <2>3. RunningIsUploading'
    BY <1>8 DEF U!Command, U!Moves, UploadInv, RunningIsUploading
  <2>4. FilesApart'
    BY <1>8, FilesStay DEF U!Command, U!Moves, UploadInv, ThreadFits, OutgoingSize
  <2> QED BY <2>1, <2>2, <2>3, <2>4 DEF UploadInv
<1>9. CASE U!Complete(u)
  <2>1. ThreadFits'
    BY <1>9 DEF U!Complete, U!Moves, UploadInv, ThreadFits
  <2>2. CancelStops'
    BY <1>9 DEF U!Complete, U!Moves, UploadInv, CancelStops
  <2>3. RunningIsUploading'
    BY <1>9 DEF U!Complete, U!Moves, UploadInv, RunningIsUploading
  <2>4. FilesApart'
    BY <1>9, FilesStay DEF U!Complete, U!Moves, UploadInv, ThreadFits, OutgoingSize
  <2> QED BY <2>1, <2>2, <2>3, <2>4 DEF UploadInv
<1>10. CASE U!Fails(u)
  <2>1. ThreadFits'
    BY <1>10 DEF U!Fails, U!Moves, U!Breakable, U!Transferring, UploadInv, ThreadFits
  <2>2. CancelStops'
    BY <1>10 DEF U!Fails, U!Moves, U!Breakable, U!Transferring, UploadInv, CancelStops
  <2>3. RunningIsUploading'
    BY <1>10 DEF U!Fails, U!Moves, U!Breakable, U!Transferring, UploadInv, RunningIsUploading
  <2>4. FilesApart'
    BY <1>10, FilesStay DEF U!Fails, U!Moves, U!Breakable, U!Transferring, UploadInv, ThreadFits, OutgoingSize
  <2> QED BY <2>1, <2>2, <2>3, <2>4 DEF UploadInv
<1>11. CASE U!Cancel(u)
  <2>1. ThreadFits'
    BY <1>11 DEF U!Cancel, UploadInv, ThreadFits
  <2>2. CancelStops'
    BY <1>11 DEF U!Cancel, UploadInv, CancelStops
  <2>3. RunningIsUploading'
    BY <1>11 DEF U!Cancel, UploadInv, RunningIsUploading
  <2>4. FilesApart'
    BY <1>11, FilesStay DEF U!Cancel, UploadInv, ThreadFits, OutgoingSize
  <2> QED BY <2>1, <2>2, <2>3, <2>4 DEF UploadInv
<1> QED
  BY <1>1, <1>2, <1>3, <1>4, <1>5, <1>6, <1>7, <1>8, <1>9, <1>10, <1>11

UploadPart == part = "upload" => UploadInv

LEMMA UploadPartHolds ==
  /\ SuiteInit => UploadPart
  /\ UploadPart /\ [SuiteNext]_suiteVars => UploadPart'
<1>1. SuiteInit => UploadPart
  BY UploadInit DEF SuiteInit, UploadPart
<1>2. ASSUME UploadInv, UNCHANGED uploadVars
      PROVE  UploadInv'
  BY <1>2 DEF uploadVars, UploadInv, UploadType, ThreadFits, CancelStops, RunningIsUploading,
              FilesApart, OutgoingSize
<1>3. ASSUME UploadPart, [SuiteNext]_suiteVars
      PROVE  UploadPart'
  BY <1>2, <1>3, UploadNext DEF UploadPart, SuiteNext, suiteVars
<1> QED BY <1>1, <1>3

\* A cancellation that comes before the last chunk is counted keeps the print
\* from starting, what failed was not told to the printer, and an upload is
\* found as long as it runs: for every number of uploads, file names and chunks.
THEOREM TrackerCorrect == SuiteSpec => []TrackerTellsTheTruth
<1>1. UploadPart => TrackerTellsTheTruth
  BY DEF UploadPart, UploadInv, UploadType, ThreadFits, CancelStops, RunningIsUploading,
         TrackerTellsTheTruth, U!CancelInTime, U!FailedWasNotSent, U!RunningIsTracked
<1> QED BY <1>1, UploadPartHolds, PTL DEF SuiteSpec

\* A print command names a file that holds all the chunks of its upload and
\* nothing else, unless two uploads of one name overlapped.
THEOREM WholeFileCorrect == SuiteSpec => PrintsWholeFile
<1>1. ASSUME UploadPart, [SuiteNext]_suiteVars
      PROVE  [part = "upload" => U!SendsWholeFile]_uploadVars
  <2> SUFFICES ASSUME part = "upload", U!Next
               PROVE  U!SendsWholeFile
    BY <1>1 DEF SuiteNext, suiteVars
  <2> SUFFICES ASSUME NEW u \in UploadIds, u \in commanded' \ commanded, FileName[u] \notin shared
               PROVE  cache[FileName[u]] = [by |-> {u}, size |-> Chunks, whole |-> TRUE]
    BY DEF U!SendsWholeFile, U!Next, U!Create, U!Ages, U!Connect, U!Store, U!SendChunk,
           U!Advance, U!Stored, U!Command, U!Complete, U!Fails, U!Cancel
  <2>1. thread[u] = "stored"
    BY DEF U!Next, U!Create, U!Ages, U!Connect, U!Store, U!SendChunk, U!Advance, U!Stored,
           U!Command, U!Moves, U!Complete, U!Fails, U!Cancel
  <2>2. upload[u].sent = Chunks
    BY <1>1, <2>1 DEF UploadPart, UploadInv, ThreadFits
  <2> QED BY <1>1, <2>1, <2>2 DEF UploadPart, UploadInv, FilesApart, OnTheWay, OutgoingSize
<1> QED BY <1>1, UploadPartHolds, PTL DEF SuiteSpec, PrintsWholeFile

-----------------------------------------------------------------------------
(* The status of a printer.                                                *)

JobShown == [layer : {0, 1}, percent : {0, 50}, shown : BOOLEAN]
ReportedCodes == {"none", "jam"}
StateNames == {"offline", "finished", "cancelled", "paused", "error", "preparing", "printing", "idle"}
StatusType ==
  [online : BOOLEAN, gcode : Gcodes \cup {"IDLE"}, stage : Stages \cup {"none"}, job : JobShown,
   code : ReportedCodes, state : StateNames, error : ReportedCodes, units : {"none", "units"}]

\* What a report says of each field it has.
ReportType(report) ==
  /\ "gcode" \in DOMAIN report => report["gcode"] \in Gcodes
  /\ "stage" \in DOMAIN report => report["stage"] \in Stages
  /\ "layer" \in DOMAIN report => report["layer"] \in {0, 1}
  /\ "percent" \in DOMAIN report => report["percent"] \in {0, 50}
  /\ "code" \in DOMAIN report => report["code"] \in ReportedCodes
  /\ "ams" \in DOMAIN report => report["ams"] \in {"units", "partial"}
  /\ DOMAIN report = S!Fields => report["ams"] = "units"

\* A job at rest without progress is not shown, and the state explains the error.
StatusFits(s) ==
  /\ s.state # "offline" => s.error = IF s.state \in {"paused", "error"} THEN s.code ELSE "none"
  /\ s.state \in S!Ended /\ s.job.shown => s.job.percent > 0

LEMMA AppliedReport ==
  ASSUME NEW s \in StatusType, NEW report, ReportType(report)
  PROVE  /\ S!Apply(s, report) \in StatusType
         /\ StatusFits(S!Apply(s, report))
         /\ S!Apply(s, report).units = s.units
         /\ S!Apply(s, report).online = s.online
<1> DEFINE gcode == S!Get(report, "gcode", s.gcode)
           stage == S!Get(report, "stage", s.stage)
           code == S!Get(report, "code", s.code)
           progress == S!JobAfter(s, report)
           state == IF S!Rederives(s, report) THEN S!Derive(gcode, stage, progress.layer) ELSE s.state
           error == S!ErrorAfter(s, report, state, code)
           shown == IF S!DropsJob(report, state, progress) THEN S!BlankJob ELSE progress
<1>1. /\ gcode \in Gcodes \cup {"IDLE"} /\ stage \in Stages \cup {"none"} /\ code \in ReportedCodes
  BY DEF S!Get, ReportType, StatusType
<1>2. progress \in JobShown
  BY DEF S!JobAfter, S!Get, ReportType, StatusType, JobShown
<1>3. state \in StateNames
  BY DEF S!Derive, StateNames, StatusType
<1>4. error = IF state \in {"paused", "error"} THEN code ELSE "none"
  BY DEF S!ErrorAfter
<1>5. shown \in JobShown /\ (state \in S!Ended /\ shown.shown => shown.percent > 0)
  BY <1>2 DEF S!DropsJob, S!BlankJob, JobShown
<1> DEFINE r == [online |-> s.online, gcode |-> gcode, stage |-> stage, job |-> shown,
                 code |-> code, state |-> state, error |-> error, units |-> s.units]
<1>6. S!Apply(s, report) = r
  <2>1. S!Apply(s, report) =
          [s EXCEPT !.gcode = gcode, !.stage = stage, !.code = code, !.state = state,
                    !.error = error, !.job = shown]
    BY DEF S!Apply
  <2> HIDE DEF gcode, stage, code, progress, state, error, shown
  <2> QED BY <2>1 DEF StatusType
<1>7. error \in ReportedCodes
  BY <1>1, <1>4 DEF ReportedCodes
<1> HIDE DEF gcode, stage, code, progress, state, error, shown
<1>8. r \in StatusType
  BY <1>1, <1>3, <1>5, <1>7 DEF StatusType
<1> QED
  BY <1>4, <1>5, <1>6, <1>8 DEF StatusFits

\* A report of all the fields leaves nothing of what was shown before, and the
\* state it derives is that of what is then shown.
LEMMA FullApplied ==
  ASSUME NEW s \in StatusType, NEW t \in StatusType, NEW report, ReportType(report),
         DOMAIN report = S!Fields
  PROVE  /\ S!UpdateStatus(s, report) = [S!HandleEvent(t, report) EXCEPT !.online = s.online]
         /\ S!UpdateStatus(s, report).state =
              S!Derive(S!UpdateStatus(s, report).gcode, S!UpdateStatus(s, report).stage,
                       S!UpdateStatus(s, report).job.layer)
<1> DEFINE progress == [layer |-> report["layer"], percent |-> report["percent"], shown |-> TRUE]
           state == S!Derive(report["gcode"], report["stage"], report["layer"])
           error == S!ErrorAfter(s, report, state, report["code"])
           shown == IF S!DropsJob(report, state, progress) THEN S!BlankJob ELSE progress
           Full(up, units) == [online |-> up, gcode |-> report["gcode"], stage |-> report["stage"],
                               job |-> shown, code |-> report["code"], state |-> state,
                               error |-> error, units |-> units]
<1>1. ASSUME NEW r \in StatusType
      PROVE  /\ S!Apply(r, report) = Full(r.online, r.units)
             /\ S!UnitsAfter(r, report) = "units"
  <2>1. /\ S!Get(report, "gcode", r.gcode) = report["gcode"]
        /\ S!Get(report, "stage", r.stage) = report["stage"]
        /\ S!Get(report, "code", r.code) = report["code"]
        /\ S!JobAfter(r, report) = progress
        /\ S!Rederives(r, report)
        /\ S!UnitsAfter(r, report) = "units"
    BY DEF S!Get, S!JobAfter, S!Rederives, S!UnitsAfter, S!Fields, ReportType
  <2>2. S!ErrorAfter(r, report, state, report["code"]) = error
    BY DEF S!ErrorAfter
  <2>3. S!Apply(r, report) =
          [r EXCEPT !.gcode = report["gcode"], !.stage = report["stage"], !.code = report["code"],
                    !.state = state, !.error = error, !.job = shown]
    <3>1. progress.layer = report["layer"]
      OBVIOUS
    <3> HIDE DEF progress, error
    <3> QED BY <2>1, <2>2, <3>1 DEF S!Apply
  <2> HIDE DEF state, error, shown, progress
  <2> QED BY <2>1, <2>3 DEF StatusType
<1>2. state = S!Derive(report["gcode"], report["stage"], shown.layer)
  BY DEF S!Derive, S!DropsJob, S!Ended, S!BlankJob
<1> HIDE DEF state, error, shown, progress
<1>3. /\ S!UpdateStatus(s, report) = Full(s.online, "units")
      /\ S!HandleEvent(t, report) = Full(TRUE, "units")
  <2>1. /\ S!UpdateStatus(s, report) = [Full(s.online, s.units) EXCEPT !.units = "units"]
        /\ S!HandleEvent(t, report) = [Full(t.online, t.units) EXCEPT !.units = "units", !.online = TRUE]
    <3> HIDE DEF Full
    <3> QED BY <1>1 DEF S!UpdateStatus, S!HandleEvent
  <2> QED BY <2>1
<1>4. S!UpdateStatus(s, report) = [S!HandleEvent(t, report) EXCEPT !.online = s.online]
  BY <1>3
<1>5. S!UpdateStatus(s, report).state =
        S!Derive(S!UpdateStatus(s, report).gcode, S!UpdateStatus(s, report).stage,
                 S!UpdateStatus(s, report).job.layer)
  BY <1>2, <1>3
<1> QED BY <1>4, <1>5

LEMMA ReportTypes ==
  /\ \A said \in S!Sayings : ReportType(said) /\ DOMAIN said = S!Fields
  /\ \A form \in Forms, said \in S!Sayings : ReportType([f \in form |-> said[f]])
  /\ ReportType(S!PartialAms)
<1>1. \A said \in S!Sayings :
        /\ said["gcode"] \in Gcodes /\ said["stage"] \in Stages /\ said["layer"] \in {0, 1}
        /\ said["percent"] \in {0, 50} /\ said["code"] \in ReportedCodes /\ said["ams"] = "units"
        /\ DOMAIN said = S!Fields
  BY DEF S!Sayings, S!Fields, ReportedCodes
<1>2. \A said \in S!Sayings : ReportType(said)
  BY <1>1 DEF ReportType
<1>3. \A form \in Forms, said \in S!Sayings : ReportType([f \in form |-> said[f]])
  BY <1>1 DEF ReportType, S!Fields
<1>4. ReportType(S!PartialAms)
  BY DEF ReportType, S!PartialAms, S!Fields
<1> QED BY <1>1, <1>2, <1>3, <1>4

ReportInv ==
  /\ lanStatus \in StatusType /\ cloudStatus \in StatusType
  /\ StatusFits(lanStatus) /\ StatusFits(cloudStatus)
  /\ lanUp \in BOOLEAN /\ lanFresh \in BOOLEAN
  /\ lanUp => lanStatus.online
  /\ lanFresh => lanUp /\ lanStatus = cloudStatus

LEMMA SameOnline ==
  ASSUME NEW s \in StatusType, NEW up, s.online = up
  PROVE  [s EXCEPT !.online = up] = s
BY DEF StatusType

\* Both clients make the same status of a report, but for who is online.
LEMMA OnlineApart ==
  ASSUME NEW a \in StatusType, NEW units
  PROVE  [a EXCEPT !.units = units] =
           [[a EXCEPT !.units = units, !.online = TRUE] EXCEPT !.online = a.online]
BY DEF StatusType

\* What holds of one report that is applied.
LEMMA ReportApplied ==
  ASSUME ReportInv, NEW report, ReportType(report), S!Report(report)
  PROVE  /\ ReportInv'
         /\ lanFresh' /\ ~lanFresh => lanStatus'.state =
              S!Derive(lanStatus'.gcode, lanStatus'.stage, lanStatus'.job.layer)
         /\ lanStatus.units # "none" => lanStatus'.units # "none"
<1>1. ASSUME NEW s \in StatusType
      PROVE  /\ S!UpdateStatus(s, report) \in StatusType
             /\ S!HandleEvent(s, report) \in StatusType
             /\ StatusFits(S!UpdateStatus(s, report))
             /\ StatusFits(S!HandleEvent(s, report))
             /\ S!UpdateStatus(s, report).online = s.online
             /\ S!UpdateStatus(s, report).units \in {s.units, "units"}
             /\ S!UpdateStatus(s, report) = [S!HandleEvent(s, report) EXCEPT !.online = s.online]
             /\ S!HandleEvent(s, report).online = TRUE
  <2> DEFINE a == S!Apply(s, report)
             units == S!UnitsAfter(s, report)
  <2>1. a \in StatusType /\ StatusFits(a) /\ a.units = s.units /\ a.online = s.online
    BY AppliedReport
  <2>2. units \in {"none", "units"} /\ units \in {s.units, "units"}
    BY DEF S!UnitsAfter, StatusType
  <2>3. /\ S!UpdateStatus(s, report) = [a EXCEPT !.units = units]
        /\ S!HandleEvent(s, report) = [a EXCEPT !.units = units, !.online = TRUE]
    BY DEF S!UpdateStatus, S!HandleEvent
  <2> HIDE DEF a, units
  <2>4. /\ S!UpdateStatus(s, report) \in StatusType /\ S!HandleEvent(s, report) \in StatusType
        /\ S!UpdateStatus(s, report).online = s.online /\ S!HandleEvent(s, report).online = TRUE
        /\ S!UpdateStatus(s, report).units \in {s.units, "units"}
    BY <2>1, <2>2, <2>3 DEF StatusType
  <2>5. StatusFits(S!UpdateStatus(s, report)) /\ StatusFits(S!HandleEvent(s, report))
    BY <2>1, <2>2, <2>3 DEF StatusType, StatusFits
  <2>6. S!UpdateStatus(s, report) = [S!HandleEvent(s, report) EXCEPT !.online = s.online]
    <3>1. [a EXCEPT !.units = units] =
            [[a EXCEPT !.units = units, !.online = TRUE] EXCEPT !.online = a.online]
      BY ONLY <2>1, OnlineApart
    <3> QED BY ONLY <3>1, <2>1, <2>3, Zenon
  <2> QED BY <2>4, <2>5, <2>6
<1>2. CASE ~lanUp
  BY <1>1, <1>2 DEF S!Report, ReportInv
<1>3. CASE lanUp
  <2>1. /\ lanStatus' = S!UpdateStatus(lanStatus, report)
        /\ cloudStatus' = S!HandleEvent(cloudStatus, report)
        /\ lanFresh' = (lanFresh \/ DOMAIN report = S!Fields)
        /\ lanUp' = lanUp
    BY <1>3 DEF S!Report
  <2>2. CASE DOMAIN report = S!Fields
    <3>1. /\ lanStatus' = [cloudStatus' EXCEPT !.online = lanStatus.online]
          /\ lanStatus'.state = S!Derive(lanStatus'.gcode, lanStatus'.stage, lanStatus'.job.layer)
      BY <2>1, <2>2, FullApplied DEF ReportInv
    <3>2. cloudStatus'.online = TRUE /\ lanStatus.online = TRUE
      BY <1>1, <1>3, <2>1 DEF ReportInv, StatusType
    <3>3. cloudStatus' \in StatusType
      BY <1>1, <2>1 DEF ReportInv
    <3>4. lanStatus' = cloudStatus'
      BY <3>1, <3>2, <3>3, SameOnline
    <3>5. /\ lanStatus' \in StatusType /\ StatusFits(lanStatus') /\ StatusFits(cloudStatus')
          /\ lanStatus.units # "none" => lanStatus'.units # "none"
      BY <1>1, <2>1 DEF ReportInv
    <3>6. ReportInv'
      BY <1>3, <2>1, <2>2, <3>2, <3>3, <3>4, <3>5 DEF ReportInv
    <3> QED BY <3>1, <3>5, <3>6
  <2>3. CASE DOMAIN report # S!Fields
    <3>1. lanFresh => lanStatus' = cloudStatus'
      <4> SUFFICES ASSUME lanFresh
                   PROVE  lanStatus' = cloudStatus'
        OBVIOUS
      <4>1. lanStatus = cloudStatus /\ lanStatus.online = TRUE
        BY <1>3 DEF ReportInv, StatusType
      <4>2. cloudStatus' \in StatusType /\ cloudStatus'.online = TRUE
        BY <1>1, <2>1 DEF ReportInv
      <4>3. lanStatus' = [cloudStatus' EXCEPT !.online = TRUE]
        BY <1>1, <2>1, <4>1 DEF ReportInv
      <4> QED BY <4>2, <4>3, SameOnline
    <3> QED BY <1>1, <1>3, <2>1, <2>3, <3>1 DEF ReportInv, StatusType
  <2> QED BY <2>2, <2>3
<1> QED BY <1>2, <1>3 DEF ReportInv

LEMMA ReportNext ==
  ASSUME ReportInv, S!Next
  PROVE  ReportInv' /\ S!FullReportSetsState /\ S!KeepsUnits
<1>1. CASE S!FullReport \/ S!PartialReport
  <2> PICK report : ReportType(report) /\ S!Report(report)
    BY <1>1, ReportTypes DEF S!FullReport, S!PartialReport
  <2> QED BY ReportApplied DEF S!FullReportSetsState, S!KeepsUnits
<1>2. CASE S!Connect \/ S!Disconnect
  <2>1. \/ lanUp' = TRUE /\ lanStatus' = [lanStatus EXCEPT !.online = TRUE]
        \/ lanUp' = FALSE /\ lanStatus' = [lanStatus EXCEPT !.online = FALSE, !.state = "offline"]
    BY <1>2 DEF S!Connect, S!Disconnect
  <2>2. cloudStatus' = cloudStatus /\ lanFresh' = FALSE
    BY <1>2 DEF S!Connect, S!Disconnect
  <2>3. lanStatus' \in StatusType /\ lanStatus'.units = lanStatus.units
    BY <2>1 DEF ReportInv, StatusType, StateNames
  <2>4. StatusFits(lanStatus')
    BY <2>1 DEF ReportInv, StatusFits, StatusType, S!Ended
  <2>5. lanUp' => lanStatus'.online
    BY <2>1 DEF ReportInv, StatusType
  <2> QED
    BY <2>1, <2>2, <2>3, <2>4, <2>5 DEF ReportInv, S!FullReportSetsState, S!KeepsUnits
<1> QED BY <1>1, <1>2 DEF S!Next

ReportPart == part = "reports" => ReportInv

LEMMA ReportPartHolds ==
  /\ SuiteInit => ReportPart
  /\ ReportPart /\ [SuiteNext]_suiteVars => ReportPart'
<1>1. S!Init => ReportInv
  <2>1. S!NewStatus \in StatusType /\ StatusFits(S!NewStatus)
    BY DEF S!NewStatus, S!BlankJob, S!Ended, StatusType, StatusFits, JobShown, ReportedCodes, StateNames
  <2> QED BY <2>1 DEF S!Init, ReportInv
<1>2. ASSUME ReportInv, UNCHANGED reportVars
      PROVE  ReportInv'
  BY <1>2 DEF reportVars, ReportInv
<1>3. ASSUME ReportPart, [SuiteNext]_suiteVars
      PROVE  ReportPart'
  BY <1>2, <1>3, ReportNext DEF ReportPart, SuiteNext, suiteVars
<1> QED BY <1>1, <1>3 DEF SuiteInit, ReportPart

\* The LAN client shows what the cloud client shows as soon as a full report
\* has come, a printer that is paused or stuck says why, and one at rest shows
\* no job at 0 %: for whatever reports and losses of the connection before.
THEOREM StatusCorrect == SuiteSpec => []StatusIsRight
<1>1. ReportPart => StatusIsRight
  BY DEF ReportPart, ReportInv, StatusFits, StatusIsRight, S!SamePicture, S!ErrorIsExplained,
         S!NoGhostJob, S!Statuses
<1> QED BY <1>1, ReportPartHolds, PTL DEF SuiteSpec

\* The first full report after a connection sets the state, and no report
\* takes the AMS units away.
THEOREM ReportsHealCorrect == SuiteSpec => ReportsHeal
<1>1. ASSUME ReportPart, [SuiteNext]_suiteVars
      PROVE  [part = "reports" => S!FullReportSetsState /\ S!KeepsUnits]_reportVars
  BY <1>1, ReportNext DEF ReportPart, SuiteNext, suiteVars
<1> QED BY <1>1, ReportPartHolds, PTL DEF SuiteSpec, ReportsHeal

-----------------------------------------------------------------------------
(* The installation of the plugin.  A manifest names two sound libraries   *)
(* of one download, wherever it is; an attempt knows what staging/ has.    *)

LibType == [no : Nat, kind : {"none", "bad", "elf", "damaged"}]
ManifestType ==
  [kind : {"none", "json", "garbled", "undecodable"}, net : LibType, src : LibType,
   version : Versions \cup {""}]
DirType == [net : LibType, src : LibType, man : ManifestType]
ZipType == [version : Versions \cup {""}, net : LibType, src : LibType]
InstallerPc ==
  {"down", "check", "wipe", "fetch", "extract", "swap", "fail", "loaded", "degraded"}

InstallType ==
  /\ active \in DirType /\ staging \in DirType /\ fetched \in ZipType
  /\ pinned \in Versions /\ fetchCount \in Nat /\ installer \in InstallerPc

SoundPair(net, src) == net.kind = "elf" /\ src.kind = "elf" /\ net.no = src.no
SoundManifest(man) == man.kind = "json" => SoundPair(man.net, man.src)

\* What an attempt that is under way knows.
AttemptFits ==
  /\ installer = "fetch" => staging = I!NoFiles
  /\ installer = "extract" =>
       /\ fetched.version = pinned
       /\ staging.man = I!NoManifest
       /\ staging.net \in {I!NoLib, fetched.net} /\ staging.src \in {I!NoLib, fetched.src}
       /\ fetched.net.kind = "elf" /\ fetched.src.kind = "elf" => fetched.net.no = fetched.src.no
       /\ ~cdnFailed => fetched.net.kind = "elf" /\ fetched.src.kind = "elf"
  /\ installer = "swap" =>
       /\ SoundPair(staging.net, staging.src)
       /\ staging.man = I!Manifest("json", staging.net, staging.src, pinned)
  /\ installer = "fail" => cdnFailed

InstallInv ==
  /\ InstallType /\ AttemptFits
  /\ SoundManifest(active.man) /\ SoundManifest(staging.man)
  /\ I!LoadedIsOneDownload /\ I!DegradedForCause

LEMMA NoFilesType ==
  /\ I!NoLib \in LibType /\ I!Damaged \in LibType
  /\ I!NoManifest \in ManifestType /\ I!NoFiles \in DirType
  /\ I!NoFiles.net = I!NoLib /\ I!NoFiles.src = I!NoLib /\ I!NoFiles.man = I!NoManifest
  /\ SoundManifest(I!NoManifest)
BY DEF I!NoLib, I!Damaged, I!Lib, I!NoManifest, I!Manifest, I!NoFiles, I!Dir, LibType,
       ManifestType, DirType, SoundManifest

LEMMA InstallInit == I!Init => InstallInv
<1>1. I!NoZip \in ZipType
  BY NoFilesType DEF I!NoZip, ZipType
<1> QED
  BY <1>1, NoFilesType
  DEF I!Init, InstallInv, InstallType, AttemptFits, InstallerPc, I!LoadedIsOneDownload,
      I!DegradedForCause

LEMMA InstallNext ==
  ASSUME InstallInv, I!Next
  PROVE  InstallInv'
<1> USE NoFilesType DEF InstallInv, InstallType, InstallerPc
<1>1. CASE I!Start \/ I!Wipe \/ I!Killed \/ I!FetchFails \/ I!CleanUp \/ \E v \in Versions : I!Upgrade(v)
  BY <1>1
  DEF I!Start, I!Wipe, I!Killed, I!FetchFails, I!CleanUp, I!Upgrade, AttemptFits,
      I!LoadedIsOneDownload, I!DegradedForCause
<1>2. CASE I!Check
  BY <1>2
  DEF I!Check, I!Matches, I!Compatible, AttemptFits, SoundManifest, SoundPair,
      I!LoadedIsOneDownload, I!DegradedForCause
<1>3. CASE \E v \in Versions, net, src \in {"none", "bad", "elf"} : I!Fetch(v, net, src)
  <2> PICK v \in Versions, net \in {"none", "bad", "elf"}, src \in {"none", "bad", "elf"} :
           I!Fetch(v, net, src)
    BY <1>3
  <2>1. /\ fetched' \in ZipType /\ fetched'.version = v
        /\ fetched'.net.kind = net /\ fetched'.src.kind = src
        /\ net = "elf" /\ src = "elf" => fetched'.net.no = fetched'.src.no
    <3>1. fetched' = I!Zip(v, net, src, fetchCount + 1) /\ fetchCount + 1 \in Nat
      BY DEF I!Fetch
    <3>2. PICK n \in LibType, s \in LibType :
            /\ fetched' = [version |-> v, net |-> n, src |-> s]
            /\ n.kind = net /\ s.kind = src
            /\ net # "none" /\ src # "none" => n.no = s.no
      <4> DEFINE Made(kind) == IF kind = "none" THEN I!NoLib ELSE I!Lib(fetchCount + 1, kind)
      <4>1. \A kind \in {"none", "bad", "elf"} :
              /\ Made(kind) \in LibType /\ Made(kind).kind = kind
              /\ kind # "none" => Made(kind).no = fetchCount + 1
        BY <3>1 DEF I!Lib, I!NoLib, LibType
      <4>2. fetched' = [version |-> v, net |-> Made(net), src |-> Made(src)]
        BY <3>1 DEF I!Zip
      <4> HIDE DEF Made
      <4> QED BY <4>1, <4>2
    <3> QED BY <3>2 DEF ZipType
  <2>2. /\ UNCHANGED <<active, staging, pinned>> /\ fetchCount' = fetchCount + 1
        /\ staging = I!NoFiles /\ installer' \in {"extract", "fail"}
        /\ installer' = "extract" => v = pinned
        /\ installer' = "fail" => cdnFailed'
        /\ ~cdnFailed' => net = "elf" /\ src = "elf"
    BY DEF I!Fetch, I!Compatible, AttemptFits
  <2> QED
    BY <2>1, <2>2 DEF AttemptFits, I!LoadedIsOneDownload, I!DegradedForCause
<1>4. CASE \E f \in {"net", "src"} : I!ExtractPart(f)
  <2>1. /\ UNCHANGED <<active, pinned, fetched, fetchCount, cdnFailed>>
        /\ installer = "extract" /\ installer' \in {"extract", "down"}
        /\ staging' \in DirType /\ staging'.man = staging.man
        /\ installer' = "extract" =>
             staging'.net \in {staging.net, fetched.net} /\ staging'.src \in {staging.src, fetched.src}
    <3>1. CASE I!ExtractPart("net")
      BY <3>1 DEF I!ExtractPart, DirType, ZipType
    <3>2. CASE I!ExtractPart("src")
      BY <3>2 DEF I!ExtractPart, DirType, ZipType
    <3> QED BY <1>4, <3>1, <3>2
  <2> QED BY <2>1 DEF AttemptFits, I!LoadedIsOneDownload, I!DegradedForCause
<1>5. CASE I!Validate
  <2> DEFINE sound == staging.net.kind = "elf" /\ staging.src.kind = "elf"
             man == I!Manifest("json", staging.net, staging.src, fetched.version)
  <2>1. /\ UNCHANGED <<active, pinned, fetched, fetchCount, cdnFailed>> /\ installer = "extract"
        /\ fetched.net \in {I!NoLib, staging.net} /\ fetched.src \in {I!NoLib, staging.src}
        /\ installer' = IF sound THEN "swap" ELSE "fail"
        /\ staging' = IF sound THEN [staging EXCEPT !.man = man] ELSE staging
    BY <1>5 DEF I!Validate
  <2>2. /\ staging.net.kind = "elf" => fetched.net = staging.net
        /\ staging.src.kind = "elf" => fetched.src = staging.src
        /\ fetched.net.kind = "elf" => fetched.net = staging.net
        /\ fetched.src.kind = "elf" => fetched.src = staging.src
    BY <2>1 DEF AttemptFits, I!NoLib, I!Lib
  <2>3. CASE sound
    <3>1. SoundPair(staging.net, staging.src) /\ man \in ManifestType /\ SoundManifest(man)
      BY <2>1, <2>2, <2>3
      DEF AttemptFits, SoundPair, SoundManifest, I!Manifest, ManifestType, ZipType, DirType
    <3> HIDE DEF man
    <3>2. /\ staging' \in DirType /\ staging'.man = man
          /\ staging'.net = staging.net /\ staging'.src = staging.src
      BY <2>1, <2>3, <3>1 DEF DirType
    <3> QED
      BY <2>1, <2>3, <3>1, <3>2 DEF AttemptFits, I!LoadedIsOneDownload, I!DegradedForCause, man
  <2>4. CASE ~sound
    BY <2>1, <2>2, <2>4 DEF AttemptFits, I!LoadedIsOneDownload, I!DegradedForCause
  <2> QED BY <2>3, <2>4
<1>6. CASE \E f \in {"net", "src", "man"} : I!RemovePart(f)
  <2>1. /\ UNCHANGED <<staging, pinned, installer, fetched, fetchCount, cdnFailed>>
        /\ installer = "swap"
        /\ active' \in DirType /\ active'.man \in {active.man, I!NoManifest}
    BY <1>6 DEF I!RemovePart, DirType
  <2> QED BY <2>1 DEF AttemptFits, I!LoadedIsOneDownload, I!DegradedForCause
<1>7. CASE I!Rename
  BY <1>7
  DEF I!Rename, AttemptFits, I!LoadedIsOneDownload, I!DegradedForCause, SoundPair, I!Manifest, DirType
<1>8. CASE \E f \in {"net", "src", "man"}, kind \in {"garbled", "undecodable"} : I!Damage(f, kind)
  <2>1. /\ UNCHANGED <<staging, pinned, installer, fetched, fetchCount, cdnFailed>>
        /\ installer = "down"
        /\ active' \in DirType /\ (active'.man = active.man \/ active'.man.kind # "json")
    <3> PICK kind \in {"garbled", "undecodable"} :
             I!Damage("net", kind) \/ I!Damage("src", kind) \/ I!Damage("man", kind)
      BY <1>8
    <3>1. CASE I!Damage("net", kind) \/ I!Damage("src", kind)
      BY <3>1 DEF I!Damage, DirType
    <3>2. CASE I!Damage("man", kind)
      BY <3>2 DEF I!Damage, DirType, I!Manifest, ManifestType
    <3> QED BY <3>1, <3>2
  <2> QED BY <2>1 DEF AttemptFits, I!LoadedIsOneDownload, I!DegradedForCause, SoundManifest
<1> QED BY <1>1, <1>2, <1>3, <1>4, <1>5, <1>6, <1>7, <1>8 DEF I!Next

InstallPart == part = "install" => InstallInv

LEMMA InstallPartHolds ==
  /\ SuiteInit => InstallPart
  /\ InstallPart /\ [SuiteNext]_suiteVars => InstallPart'
<1>1. SuiteInit => InstallPart
  BY InstallInit DEF SuiteInit, InstallPart
<1>2. InstallPart /\ UNCHANGED <<part, installVars>> => InstallPart'
  BY DEF InstallPart, installVars, InstallInv, InstallType, AttemptFits, I!LoadedIsOneDownload,
         I!DegradedForCause
<1>3. InstallPart /\ [SuiteNext]_suiteVars => InstallPart'
  BY <1>2, InstallNext DEF InstallPart, SuiteNext, suiteVars
<1> QED BY <1>1, <1>3

\* What the plugin host loads is one whole download of the pinned version, however
\* kills, damage, upgrades and failures of the CDN follow each other, and a start
\* ends without the plugin only for a cause of that start.
THEOREM InstallCorrect == SuiteSpec => []InstallIsSound
<1>1. InstallPart => InstallIsSound
  BY DEF InstallPart, InstallInv, InstallIsSound
<1> QED BY <1>1, InstallPartHolds, PTL DEF SuiteSpec

-----------------------------------------------------------------------------
(* The registry of printers.  What runs follows the list the gateway has,    *)
(* and a file that can be read holds that list; nothing waits while the      *)
(* gateway is down.                                                          *)

RegistryCore ==
  /\ mode \in {"down", "lan", "cloud"}
  /\ file = [ok |-> file.ok, printers |-> file.printers]
  /\ R!ClientsFollowConfigs /\ R!FileIsRegistry

NothingWhileDown ==
  mode = "down" => cameras = R!Nobody /\ waiting = <<>> /\ account = <<>>

RegistryInv == RegistryCore /\ NothingWhileDown

LEMMA ChangeKeepsRegistry ==
  ASSUME NEW news, RegistryCore, mode # "down", UNCHANGED mode, R!Change(news)
  PROVE  RegistryCore'
<1>1. CASE \E new \in news : file' = [ok |-> TRUE, printers |-> new] /\ R!Sync(new)
  <2> PICK new \in news : file' = [ok |-> TRUE, printers |-> new] /\ R!Sync(new)
    BY <1>1
  <2>1. configs' = new
    BY DEF R!Sync
  <2>2. \A s \in DOMAIN configs \cap DOMAIN new : s \in R!Stays(new) =>
          /\ R!Endpoint(configs[s]) = R!Endpoint(new[s])
          /\ R!Reachable(configs[s]) <=> R!Reachable(new[s])
    BY DEF R!Stays, R!Moved, R!Endpoint, R!Reachable
  <2>3. R!Stays(new) \subseteq DOMAIN configs \cap DOMAIN new
    BY DEF R!Stays
  <2>4. CASE mode = "lan"
    <3>1. R!SyncLan(new)
      BY <2>4 DEF R!Sync
    <3>2. lanClients' = [s \in DOMAIN new |-> R!Endpoint(new[s])]
      BY <3>1, <2>2, <2>3, <2>4 DEF R!SyncLan, RegistryCore, R!ClientsFollowConfigs
    <3>3. fileReady' = {s \in DOMAIN new : R!Reachable(new[s])}
      BY <3>1, <2>2, <2>3 DEF R!SyncLan, RegistryCore, R!ClientsFollowConfigs
    <3>4. \A s \in DOMAIN cameras' : s \in DOMAIN new /\ cameras'[s] = R!Endpoint(new[s])
      BY <3>1, <2>2, <2>3, <2>4 DEF R!SyncLan, R!Restrict, RegistryCore, R!ClientsFollowConfigs
    <3> QED
      BY <2>1, <2>4, <3>1, <3>2, <3>3, <3>4
      DEF RegistryCore, R!ClientsFollowConfigs, R!FileIsRegistry, R!SyncLan
  <2>5. CASE mode = "cloud"
    BY <2>1, <2>5
    DEF R!Sync, R!SyncCloud, RegistryCore, R!ClientsFollowConfigs, R!FileIsRegistry
  <2> QED BY <2>4, <2>5 DEF RegistryCore
<1>2. CASE R!SaveFails
  BY <1>2 DEF R!SaveFails, RegistryCore, R!ClientsFollowConfigs, R!FileIsRegistry
<1> QED BY <1>1, <1>2 DEF R!Change

LEMMA RegistryNext ==
  ASSUME RegistryInv, R!Next
  PROVE  RegistryInv' /\ R!MergeKeepsAddresses
<1> USE DEF RegistryInv
<1>1. ASSUME UNCHANGED <<mode, file, configs, lanClients, relays, cameras, fileReady>>
      PROVE  RegistryCore'
  BY <1>1 DEF RegistryCore, R!ClientsFollowConfigs, R!FileIsRegistry
<1>2. RegistryInv'
  <2>1. CASE R!Start
    BY <2>1
    DEF R!Start, RegistryCore, NothingWhileDown, R!ClientsFollowConfigs, R!FileIsRegistry, R!Nobody
  <2>2. CASE R!Kill
    BY <2>2
    DEF R!Kill, RegistryCore, NothingWhileDown, R!ClientsFollowConfigs, R!FileIsRegistry, R!Nobody
  <2>3. CASE R!OnFound
    BY <2>3, <1>1, ChangeKeepsRegistry DEF R!OnFound, NothingWhileDown
  <2>4. CASE R!FetchDevices
    BY <2>4, <1>1 DEF R!FetchDevices, NothingWhileDown
  <2>5. CASE R!MergeDevices
    BY <2>5, <1>1, ChangeKeepsRegistry DEF R!MergeDevices, NothingWhileDown
  <2>6. ASSUME NEW s \in Serials, R!AddPrinter(s) \/ R!UpdatePrinter(s) \/ R!DeletePrinter(s)
        PROVE  RegistryInv'
    BY <2>6, ChangeKeepsRegistry
    DEF R!AddPrinter, R!UpdatePrinter, R!DeletePrinter, NothingWhileDown
  <2>7. ASSUME NEW s \in Serials, R!GetCameraProxy(s)
        PROVE  RegistryInv'
    BY <2>7
    DEF R!GetCameraProxy, R!With, RegistryCore, NothingWhileDown, R!ClientsFollowConfigs,
        R!FileIsRegistry
  <2>8. ASSUME NEW s \in Serials, NEW ip \in Ips, R!Announce(s, ip)
        PROVE  RegistryInv'
    BY <2>8, <1>1 DEF R!Announce, NothingWhileDown
  <2> QED BY <2>1, <2>2, <2>3, <2>4, <2>5, <2>6, <2>7, <2>8 DEF R!Next
<1>3. R!MergeKeepsAddresses
  <2> SUFFICES ASSUME R!MergeDevices, NEW s \in DOMAIN configs
               PROVE  s \in DOMAIN configs' /\ configs'[s].ip = configs[s].ip
    BY DEF R!MergeKeepsAddresses
  <2> PICK new : /\ new = [t \in DOMAIN configs \cup DOMAIN account |->
                             IF t \notin DOMAIN account THEN configs[t]
                             ELSE IF t \in DOMAIN configs THEN R!Merged(configs[t], TRUE, account[t])
                             ELSE R!Merged([ip |-> "", code |-> ""], FALSE, account[t])]
                 /\ IF new = configs
                    THEN UNCHANGED <<file, configs, lanClients, relays, cameras, fileReady>>
                    ELSE R!Change({new})
    BY DEF R!MergeDevices
  <2>1. s \in DOMAIN new /\ new[s].ip = configs[s].ip
    BY DEF R!Merged
  <2>2. configs' = configs \/ configs' = new
    BY DEF R!Change, R!Sync, R!SaveFails
  <2> QED BY <2>1, <2>2
<1> QED BY <1>2, <1>3

RegistryPart == part = "registry" => RegistryInv

LEMMA RegistryPartHolds ==
  /\ SuiteInit => RegistryPart
  /\ RegistryPart /\ [SuiteNext]_suiteVars => RegistryPart'
<1>1. R!Init => RegistryInv
  BY DEF R!Init, R!Nobody, RegistryInv, RegistryCore, NothingWhileDown, R!ClientsFollowConfigs,
         R!FileIsRegistry
<1>2. RegistryPart /\ UNCHANGED <<part, registryVars>> => RegistryPart'
  BY DEF RegistryPart, registryVars, RegistryInv, RegistryCore, NothingWhileDown,
         R!ClientsFollowConfigs, R!FileIsRegistry
<1>3. RegistryPart /\ [SuiteNext]_suiteVars => RegistryPart'
  BY <1>2, RegistryNext DEF RegistryPart, SuiteNext, suiteVars
<1> QED BY <1>1, <1>3 DEF SuiteInit, RegistryPart

\* Every configured printer has one client, made for its present address and code,
\* and a restart would find the printers that run: whichever of the settings, SSDP
\* and the account wrote last, and whichever save failed.
THEOREM RegistryCorrect == SuiteSpec => []RegistryAgrees
<1>1. RegistryPart => RegistryAgrees
  BY DEF RegistryPart, RegistryInv, RegistryCore, RegistryAgrees
<1> QED BY <1>1, RegistryPartHolds, PTL DEF SuiteSpec

\* Account discovery takes away no printer and no address, however the registry
\* changes while it waits for the slicer.
THEOREM DiscoveryCorrect == SuiteSpec => DiscoveryKeepsAddresses
<1>1. ASSUME RegistryPart, [SuiteNext]_suiteVars
      PROVE  [part = "registry" => R!MergeKeepsAddresses]_registryVars
  BY <1>1, RegistryNext DEF RegistryPart, SuiteNext, suiteVars
<1> QED BY <1>1, RegistryPartHolds, PTL DEF SuiteSpec, DiscoveryKeepsAddresses

-----------------------------------------------------------------------------
(* The mapping of filaments.  No two filaments of a project have a slot, so  *)
(* the entry of a slot is what its filament's position selects.              *)

\* A set of numbers that is not empty has a least one.
LEMMA LeastOfNaturals ==
  ASSUME NEW T \in SUBSET Nat, T # {}
  PROVE  M!Min(T) \in T
<1>1. PICK x \in T : \A y \in T : <<y, x>> \notin OpToRel(<, Nat)
  BY NatLessThanWellFounded, WFMin, Zenon
<1>2. \A y \in T : y \in Nat /\ x \in Nat
  OBVIOUS
<1>3. \A y \in T : ~(y < x)
  BY <1>1, <1>2, Zenon DEF OpToRel
<1>4. \A y \in T : x <= y
  BY <1>2, <1>3
<1> QED BY <1>4 DEF M!Min

\* The slots of a project are numbers, those of later positions greater; the
\* trays that are shown are numbers.
MappingType ==
  /\ \E n \in Nat \ {0} :
       slotOf \in [0..n - 1 -> Nat] /\ \A p, q \in 0..n - 1 : p < q => slotOf[p] < slotOf[q]
  /\ DOMAIN trays \subseteq Nat

\* A tray of the array of an upload is shown, or its spool went during the upload.
UploadsShownTrays ==
  print = "uploading" => \A s \in DOMAIN mapping : mapping[s] \in DOMAIN trays \cup emptied \cup {-1}

MappingInv ==
  /\ MappingType
  /\ origin = "nobody" => print = "none"
  /\ UploadsShownTrays
  /\ M!SlotsGetTheirTrays

\* The array reaches to the greatest slot; the entry of a filament's slot is what
\* its position selects, and any other entry is a selected tray or none.
LEMMA MappingIsBuilt ==
  ASSUME MappingType
  PROVE  /\ \A p, q \in M!Positions : slotOf[p] = slotOf[q] => p = q
         /\ \A p \in M!Positions : slotOf[p] \in 0..M!Max({slotOf[q] : q \in M!Positions})
         /\ \A p \in M!Positions :
              M!Entry(slotOf[p]) = IF p \in DOMAIN chosen THEN chosen[p] ELSE -1
         /\ \A s : M!Entry(s) = -1 \/ \E p \in DOMAIN chosen : M!Entry(s) = chosen[p]
<1> PICK n \in Nat \ {0} :
      /\ slotOf \in [0..n - 1 -> Nat]
      /\ \A p, q \in 0..n - 1 : p < q => slotOf[p] < slotOf[q]
  BY DEF MappingType
<1>1. M!Positions = 0..n - 1
  BY DEF M!Positions
<1>2. \A p, q \in M!Positions : slotOf[p] = slotOf[q] => p = q
  <2> SUFFICES ASSUME NEW p \in 0..n - 1, NEW q \in 0..n - 1, p < q
               PROVE  slotOf[p] # slotOf[q]
    BY <1>1
  <2>1. slotOf[p] < slotOf[q] /\ slotOf[p] \in Nat /\ slotOf[q] \in Nat
    OBVIOUS
  <2> QED BY <2>1
<1>3. \A p \in M!Positions : slotOf[p] \in 0..M!Max({slotOf[q] : q \in M!Positions})
  <2> DEFINE named == {slotOf[q] : q \in M!Positions}
  <2>1. \A p \in 0..n - 1 : slotOf[p] \in Nat /\ slotOf[p] <= slotOf[n - 1]
    <3> SUFFICES ASSUME NEW p \in 0..n - 1 PROVE slotOf[p] \in Nat /\ slotOf[p] <= slotOf[n - 1]
      OBVIOUS
    <3>1. slotOf[p] \in Nat /\ slotOf[n - 1] \in Nat /\ (p < n - 1 => slotOf[p] < slotOf[n - 1])
      OBVIOUS
    <3> QED BY <3>1
  <2>2. slotOf[n - 1] \in named /\ \A y \in named : y \in Nat /\ slotOf[n - 1] >= y
    BY <1>1, <2>1
  <2>3. \A p \in M!Positions : slotOf[p] \in named
    OBVIOUS
  <2> HIDE DEF named
  <2>4. M!Max(named) \in named /\ \A y \in named : M!Max(named) >= y
    BY <2>2 DEF M!Max
  <2> QED BY <2>2, <2>3, <2>4 DEF named
<1>4. ASSUME NEW p \in M!Positions
      PROVE  M!Entry(slotOf[p]) = IF p \in DOMAIN chosen THEN chosen[p] ELSE -1
  <2>1. {q \in DOMAIN chosen \cap M!Positions : slotOf[q] = slotOf[p]}
          = IF p \in DOMAIN chosen THEN {p} ELSE {}
    BY <1>2
  <2>2. (CHOOSE q \in {p} : TRUE) = p
    OBVIOUS
  <2> QED BY <2>1, <2>2 DEF M!Entry
<1>5. ASSUME NEW s
      PROVE  M!Entry(s) = -1 \/ \E p \in DOMAIN chosen : M!Entry(s) = chosen[p]
  <2> DEFINE at == {p \in DOMAIN chosen \cap M!Positions : slotOf[p] = s}
  <2>1. M!Entry(s) = IF at = {} THEN -1 ELSE chosen[CHOOSE p \in at : TRUE]
    BY DEF M!Entry
  <2>2. at # {} => (CHOOSE p \in at : TRUE) \in at
    OBVIOUS
  <2> QED BY <2>1, <2>2
<1> QED BY <1>2, <1>3, <1>4, <1>5

LEMMA MappingNext ==
  ASSUME MappingInv, M!Next
  PROVE  MappingInv'
<1> USE MappingAssumption DEF MappingInv
<1>1. CASE M!Select \/ M!AutoMatch
  BY <1>1 DEF M!Select, M!AutoMatch, MappingType, M!SlotsGetTheirTrays, UploadsShownTrays
<1>2. CASE M!TraysChange
  <2>1. PICK t \in Trays :
          \/ /\ t \in DOMAIN trays /\ trays' = [u \in DOMAIN trays \ {t} |-> trays[u]]
             /\ emptied' = IF print = "uploading" THEN emptied \cup {t} ELSE emptied
          \/ /\ \E f \in Filaments : trays' = [u \in DOMAIN trays \cup {t} |-> IF u = t THEN f ELSE trays[u]]
             /\ UNCHANGED emptied
    BY <1>2 DEF M!TraysChange
  <2>2. /\ DOMAIN trays' \subseteq DOMAIN trays \cup Trays
        /\ print = "uploading" => DOMAIN trays \cup emptied \subseteq DOMAIN trays' \cup emptied'
    BY <2>1
  <2>3. MappingType' /\ UploadsShownTrays'
    BY <1>2, <2>2 DEF M!TraysChange, MappingType, UploadsShownTrays
  <2> QED
    BY <1>2, <2>3 DEF M!TraysChange, M!SlotsGetTheirTrays, M!Positions
<1>3. CASE M!BeginUpload
  <2>1. MappingType' /\ origin' = origin /\ origin # "nobody"
    BY <1>3 DEF M!BeginUpload, MappingType
  <2>2. CASE chosen = M!Nothing
    BY <1>3, <2>1, <2>2
    DEF M!BeginUpload, M!BuildMapping, M!Nothing, M!SlotsGetTheirTrays, UploadsShownTrays
  <2>3. CASE chosen # M!Nothing
    <3>1. mapping' = [s \in 0..M!Max({slotOf[p] : p \in M!Positions}) |-> M!Entry(s)]
      BY <1>3, <2>3 DEF M!BeginUpload, M!BuildMapping
    <3>2. M!SlotsGetTheirTrays'
      BY <1>3, <3>1, MappingIsBuilt DEF M!BeginUpload, M!SlotsGetTheirTrays, M!Positions
    <3>3. UploadsShownTrays'
      BY <1>3, <3>1, MappingIsBuilt DEF M!BeginUpload, M!Available, UploadsShownTrays
    <3> QED BY <2>1, <3>2, <3>3
  <2> QED BY <2>2, <2>3
<1>4. CASE M!SendPrint
  BY <1>4 DEF M!SendPrint, MappingType, M!SlotsGetTheirTrays, UploadsShownTrays, M!Positions
<1>5. CASE M!UploadFails
  BY <1>5 DEF M!UploadFails, MappingType, M!SlotsGetTheirTrays, UploadsShownTrays, M!Positions
<1> QED BY <1>1, <1>2, <1>3, <1>4, <1>5 DEF M!Next

\* Without gaps, the slot of a match is the position it is for.
LEMMA MatchesHit ==
  ASSUME MappingInv, M!AutoMatch
  PROVE  M!HitsItsFilament
<1> SUFFICES ASSUME \A q \in M!Positions : slotOf[q] = q, NEW p \in M!Positions \ unknown
             PROVE  LET tray == IF M!BuildMapping' = M!Nothing THEN -1 ELSE M!BuildMapping'[p]
                        ofType == {t \in DOMAIN trays : TypeOf[trays[t]] = TypeOf[wanted[p]]}
                        same == {t \in ofType : trays[t] = wanted[p]}
                    IN tray \in IF same # {} THEN same ELSE IF ofType # {} THEN ofType ELSE {-1}
  BY DEF M!HitsItsFilament
<1> DEFINE matched == {q \in M!Positions : M!Preferred(q) # {} /\ q \notin unknown}
           ofType == {t \in DOMAIN trays : TypeOf[trays[t]] = TypeOf[wanted[p]]}
           same == {t \in ofType : trays[t] = wanted[p]}
<1>1. /\ DOMAIN chosen' = matched
      /\ p \in matched => chosen'[p] = M!Min(M!Preferred(p))
  <2>1. chosen' = [s \in {slotOf[q] : q \in matched} |->
                     M!Min(M!Preferred(CHOOSE q \in matched : slotOf[q] = s))]
    BY DEF M!AutoMatch
  <2>2. {slotOf[q] : q \in matched} = matched /\ \A q \in matched : slotOf[q] = q
    OBVIOUS
  <2>3. ASSUME p \in matched
        PROVE  (CHOOSE q \in matched : slotOf[q] = p) = p
    BY <2>2, <2>3
  <2> HIDE DEF matched
  <2> QED BY <2>1, <2>2, <2>3
<1>2. M!Preferred(p) = IF same # {} THEN same ELSE ofType
  <2>1. same = {t \in DOMAIN trays : trays[t] = wanted[p] /\ p \notin unknown}
    OBVIOUS
  <2> QED BY <2>1 DEF M!Preferred
<1>3. CASE p \in matched
  <2>1. M!Min(M!Preferred(p)) \in M!Preferred(p)
    <3>1. M!Preferred(p) \in SUBSET Nat /\ M!Preferred(p) # {}
      BY <1>2, <1>3 DEF MappingInv, MappingType
    <3> QED BY <3>1, LeastOfNaturals
  <2>2. M!BuildMapping' = [s \in 0..M!Max({slotOf[q] : q \in M!Positions}) |-> M!Entry(s)']
    <3>1. chosen' # M!Nothing
      BY <1>1, <1>3 DEF M!Nothing
    <3> QED BY <3>1 DEF M!BuildMapping, M!AutoMatch, M!Positions
  <2>3. p \in 0..M!Max({slotOf[q] : q \in M!Positions})
    BY MappingIsBuilt DEF MappingInv
  <2>4. M!Entry(p)' = chosen'[p]
    <3>1. {q \in DOMAIN chosen' \cap M!Positions' : slotOf'[q] = p} = {p}
      BY <1>1, <1>3 DEF M!AutoMatch, M!Positions
    <3>2. (CHOOSE q \in {p} : TRUE) = p
      OBVIOUS
    <3> QED BY <3>1, <3>2 DEF M!Entry
  <2>5. M!BuildMapping'[p] = M!Min(M!Preferred(p)) /\ M!BuildMapping' # M!Nothing
    BY <2>2, <2>3, <2>4, <1>1, <1>3 DEF M!Nothing
  <2>6. M!Preferred(p) # {}
    BY <1>3
  <2> HIDE DEF same, ofType, matched
  <2>7. M!BuildMapping'[p] \in IF same # {} THEN same ELSE ofType
    BY <1>2, <2>1, <2>5
  <2>8. same # {} \/ ofType # {}
    BY <1>2, <2>6
  <2>9. (IF M!BuildMapping' = M!Nothing THEN -1 ELSE M!BuildMapping'[p])
           \in IF same # {} THEN same ELSE IF ofType # {} THEN ofType ELSE {-1}
    BY <2>5, <2>7, <2>8
  <2> QED BY <2>9 DEF same, ofType
<1>4. CASE p \notin matched
  <2>1. same = {} /\ ofType = {}
    BY <1>2, <1>4
  <2>2. M!BuildMapping' = M!Nothing \/ M!BuildMapping'[p] = -1
    <3>1. CASE chosen' = M!Nothing
      BY <3>1 DEF M!BuildMapping
    <3>2. CASE chosen' # M!Nothing
      <4>1. M!BuildMapping' = [s \in 0..M!Max({slotOf[q] : q \in M!Positions}) |-> M!Entry(s)']
        BY <3>2 DEF M!BuildMapping, M!AutoMatch, M!Positions
      <4>2. p \in 0..M!Max({slotOf[q] : q \in M!Positions})
        BY MappingIsBuilt DEF MappingInv
      <4>3. {q \in DOMAIN chosen' \cap M!Positions' : slotOf'[q] = p} = {}
        BY <1>1, <1>4 DEF M!AutoMatch, M!Positions
      <4>4. M!Entry(p)' = -1
        BY <4>3 DEF M!Entry
      <4> QED BY <4>1, <4>2, <4>4
    <3> QED BY <3>1, <3>2
  <2> QED BY <2>1, <2>2
<1> QED BY <1>3, <1>4

MappingPart == part = "mapping" => MappingInv

LEMMA MappingPartHolds ==
  /\ SuiteInit => MappingPart
  /\ MappingPart /\ [SuiteNext]_suiteVars => MappingPart'
<1>1. M!Init => MappingInv
  <2> SUFFICES ASSUME M!Init PROVE MappingInv
    OBVIOUS
  <2>0. M!Cardinality(Slots) \in Nat
    <3>1. M!Cardinality(Slots) = Cardinality(Slots)
      BY DEF M!Cardinality, Cardinality
    <3> QED BY <3>1, FS_CardinalityType, MappingAssumption
  <2> PICK n \in 1..M!Cardinality(Slots) :
        slotOf \in {f \in [0..n - 1 -> Slots] : \A p, q \in 0..n - 1 : p < q => f[p] < f[q]}
    BY DEF M!Init
  <2>1. n \in Nat \ {0} /\ slotOf \in [0..n - 1 -> Nat]
    <3>1. \A m \in Nat : \A k \in 1..m : k \in Nat \ {0}
      OBVIOUS
    <3>2. n \in Nat \ {0}
      BY <3>1, <2>0
    <3>3. slotOf \in [0..n - 1 -> Slots]
      OBVIOUS
    <3> QED BY <3>2, <3>3, MappingAssumption
  <2>2. DOMAIN trays \subseteq Nat
    BY MappingAssumption DEF M!Init, M!FunctionsFromSome
  <2>3. \A p, q \in 0..n - 1 : p < q => slotOf[p] < slotOf[q]
    OBVIOUS
  <2> QED BY <2>1, <2>2, <2>3 DEF M!Init, MappingInv, MappingType, UploadsShownTrays, M!SlotsGetTheirTrays
<1>2. MappingPart /\ UNCHANGED <<part, mappingVars>> => MappingPart'
  BY DEF MappingPart, mappingVars, MappingInv, MappingType, UploadsShownTrays,
         M!SlotsGetTheirTrays, M!Positions
<1>3. MappingPart /\ [SuiteNext]_suiteVars => MappingPart'
  BY <1>2, MappingNext DEF MappingPart, SuiteNext, suiteVars
<1> QED BY <1>1, <1>3 DEF SuiteInit, MappingPart

\* The array that is sent has the selected tray for each slot, in projects with
\* any number of filaments and any gaps between their slots.
THEOREM MappingCorrect == SuiteSpec => []SlotsGetTheirTrays
<1>1. MappingPart => SlotsGetTheirTrays
  BY DEF MappingPart, MappingInv, SlotsGetTheirTrays
<1> QED BY <1>1, MappingPartHolds, PTL DEF SuiteSpec

\* A print is sent with trays that are shown when it is sent, or whose spool was
\* taken away during its own upload, and in a project without gaps each filament
\* of known profile is printed from a tray that suits it best, or from none if
\* none does.
THEOREM TraysCorrect == SuiteSpec => PrintsFromItsTrays
<1>1. ASSUME MappingInv, M!Next
      PROVE  M!SendsShownTrays /\ M!HitsItsFilament
  <2>1. M!SendsShownTrays
    <3>1. CASE M!SendPrint
      BY <1>1, <3>1 DEF M!SendPrint, MappingInv, UploadsShownTrays, M!SendsShownTrays
    <3>2. CASE M!Select \/ M!AutoMatch \/ M!TraysChange \/ M!BeginUpload \/ M!UploadFails
      <4>1. print' # "sent" \/ print = "sent"
        BY <3>2 DEF M!Select, M!AutoMatch, M!TraysChange, M!BeginUpload, M!UploadFails
      <4> QED BY <4>1 DEF M!SendsShownTrays
    <3> QED BY <1>1, <3>1, <3>2 DEF M!Next
  <2>2. M!HitsItsFilament
    <3>1. CASE M!AutoMatch
      BY <1>1, <3>1, MatchesHit
    <3>2. CASE M!Select \/ M!TraysChange \/ M!BeginUpload \/ M!SendPrint \/ M!UploadFails
      BY <3>2
      DEF M!Select, M!TraysChange, M!BeginUpload, M!SendPrint, M!UploadFails, M!HitsItsFilament
    <3> QED BY <1>1, <3>1, <3>2 DEF M!Next
  <2> QED BY <2>1, <2>2
<1>2. ASSUME MappingPart, [SuiteNext]_suiteVars
      PROVE  [part = "mapping" => M!SendsShownTrays /\ M!HitsItsFilament]_mappingVars
  BY <1>1, <1>2 DEF MappingPart, SuiteNext, suiteVars
<1> QED BY <1>2, MappingPartHolds, PTL DEF SuiteSpec, PrintsFromItsTrays

-----------------------------------------------------------------------------
(* The calls of the slicer.  A request keeps what it decided and what it was *)
(* asked for, and the token it works with, if no other one has its file.     *)

Phases == {"new", "parse", "parsing", "parsed", "source", "decide", "prepare", "queued",
           "uploaded", "built", "sliced", "done", "failed"}

CenterFits(s) ==
  IF authored[s.file] = "none" THEN s.center = FALSE
  ELSE authored[s.file] # s.target /\ s.blind = FALSE => s.center = TRUE
PicksFit(s) == \A p \in s.picks : s.ids[p] = "pick"

RequestFields ==
  {"phase", "kind", "file", "target", "picks", "content", "center", "ids", "blind", "shared"}
RequestFits(q) ==
  /\ DOMAIN q = RequestFields
  /\ q.phase \in Phases /\ q.kind \in {"slice", "job"} /\ q.picks \subseteq Picks
  /\ q.phase \notin {"new", "done", "failed"} => q.file \in Files
  /\ q.kind = "slice" => q.phase \notin {"source", "decide", "prepare", "queued"}
  /\ q.kind = "job" /\ q.phase \in {"queued", "uploaded", "built"} => q.content = <<q.file, q.target>>
  /\ q.kind = "job" /\ q.phase \in {"prepare", "queued", "uploaded"} => CenterFits(q)
  /\ q.phase = "built" => CenterFits(q) /\ PicksFit(q)

\* The content whose token a request works with.
HeldToken(q) ==
  <<q.file, IF q.kind = "job" /\ q.phase \in {"uploaded", "built"} THEN q.target ELSE authored[q.file]>>
TokenFits(q, tokens) ==
  q.phase \in {"source", "decide", "prepare", "uploaded", "built"} =>
    HeldToken(q) \in tokens \/ q.shared = TRUE

Active(q) == q.phase \notin {"new", "done", "failed"}

SlicerInv ==
  /\ slicing = [r \in Requests |-> slicing[r]]
  /\ authored \in [Files -> Machines \cup {"none"}]
  /\ \A r \in Requests : RequestFits(slicing[r]) /\ TokenFits(slicing[r], slicerStore)
  /\ \A r, s \in Requests :
       r # s /\ Active(slicing[r]) /\ Active(slicing[s]) /\ slicing[r].file = slicing[s].file =>
         slicing[r].shared = TRUE
  /\ \A s \in posted : CenterFits(s) /\ PicksFit(s)

\* One request makes a step, and deletes at most a content of its file.
LEMMA OneRequestMoves ==
  ASSUME SlicerInv, NEW r \in Requests, NEW q, RequestFits(q), TokenFits(q, slicerStore'),
         slicing' = [slicing EXCEPT ![r] = q],
         Active(q) => /\ Active(slicing[r]) /\ q.file = slicing[r].file
                      /\ q.shared = slicing[r].shared,
         Active(slicing[r]),
         \A c \in slicerStore \ slicerStore' : c[1] = slicing[r].file,
         authored' = authored, \A s \in posted' \ posted : CenterFits(s) /\ PicksFit(s)
  PROVE  SlicerInv'
<1> DEFINE req(t) == IF t = r THEN q ELSE slicing[t]
<1>1. slicing' = [t \in Requests |-> req(t)]
  BY DEF SlicerInv
<1>2. \A t \in Requests : slicing'[t] = req(t)
  BY <1>1
<1>3. \A t : /\ (RequestFits(t)' <=> RequestFits(t)) /\ (CenterFits(t)' <=> CenterFits(t))
             /\ HeldToken(t)' = HeldToken(t)
  BY DEF RequestFits, CenterFits, PicksFit, HeldToken
<1>4. \A t, tokens : TokenFits(t, tokens)' <=> TokenFits(t, tokens)
  BY <1>3 DEF TokenFits
<1>5. ASSUME NEW t \in Requests
      PROVE  RequestFits(req(t)) /\ TokenFits(req(t), slicerStore')
  <2>1. CASE t # r
    <3>1. RequestFits(slicing[t]) /\ TokenFits(slicing[t], slicerStore)
      BY DEF SlicerInv
    <3>2. HeldToken(slicing[t])[1] = slicing[t].file
      BY DEF HeldToken
    <3>3. Active(slicing[t]) /\ slicing[t].file = slicing[r].file => slicing[t].shared = TRUE
      BY <2>1 DEF SlicerInv
    <3> QED BY <2>1, <3>1, <3>2, <3>3 DEF TokenFits, Active
  <2> QED BY <2>1
<1>6. ASSUME NEW t \in Requests, NEW s \in Requests, t # s, Active(req(t)), Active(req(s)),
             req(t).file = req(s).file
      PROVE  req(t).shared = TRUE
  BY <1>6 DEF SlicerInv
<1> HIDE DEF req
<1>7. \A s \in posted' : CenterFits(s) /\ PicksFit(s)
  BY DEF SlicerInv
<1>8. slicing' = [u \in Requests |-> slicing'[u]]
  BY <1>1, <1>2
<1> QED BY <1>2, <1>3, <1>4, <1>5, <1>6, <1>7, <1>8 DEF SlicerInv, Active, PicksFit

LEMMA PhaseMoves ==
  ASSUME SlicerInv, NEW r \in Requests, NEW from, NEW to, C!Moves(r, from, to)
  PROVE  LET q == [slicing[r] EXCEPT !.phase = to]
         IN /\ slicing' = [slicing EXCEPT ![r] = q] /\ RequestFits(slicing[r])
            /\ slicing[r].phase = from /\ q.phase = to /\ DOMAIN q = RequestFields
            /\ q.kind = slicing[r].kind /\ q.file = slicing[r].file
            /\ q.target = slicing[r].target /\ q.picks = slicing[r].picks
            /\ q.content = slicing[r].content /\ q.center = slicing[r].center
            /\ q.ids = slicing[r].ids /\ q.blind = slicing[r].blind
            /\ q.shared = slicing[r].shared
<1>1. RequestFits(slicing[r]) /\ DOMAIN slicing[r] = RequestFields
  BY DEF SlicerInv, RequestFits
<1> QED BY <1>1 DEF C!Moves, RequestFields

LEMMA RequestEnds ==
  ASSUME SlicerInv, NEW r \in Requests, NEW over \in {"done", "failed"}, C!Ends(r, over),
         Active(slicing[r]), \A c \in slicerStore \ slicerStore' : c[1] = slicing[r].file,
         UNCHANGED <<authored, posted>>
  PROVE  SlicerInv'
<1> DEFINE q == [C!NoRequest EXCEPT !.phase = over]
<1>1. slicing' = [slicing EXCEPT ![r] = q]
  BY DEF C!Ends
<1>2. /\ q.phase = over /\ q.kind = "slice" /\ q.target = "" /\ q.picks = {}
      /\ DOMAIN q = RequestFields
  BY DEF C!NoRequest, RequestFields
<1> HIDE DEF q
<1>3. RequestFits(q) /\ TokenFits(q, slicerStore') /\ ~Active(q)
  BY <1>2 DEF RequestFits, TokenFits, Phases, Active
<1> QED BY <1>1, <1>3, OneRequestMoves

\* A request that goes to a phase of its way.
LEMMA MovesKeep ==
  ASSUME SlicerInv, NEW r \in Requests, NEW from, NEW to, C!Moves(r, from, to),
         <<from, to>> \in {<<"parse", "parsing">>, <<"parsing", "parsed">>, <<"parsed", "source">>,
                          <<"source", "decide">>, <<"queued", "uploaded">>, <<"parsed", "uploaded">>,
                          <<"built", "sliced">>},
         slicing[r].kind = "slice" => to \notin {"source", "decide"},
         slicing[r].kind = "job" => <<from, to>> # <<"parsed", "uploaded">>,
         to = "source" => C!Original(r) \in slicerStore',
         to = "uploaded" => C!SliceContent(r) \in slicerStore',
         to = "decide" => slicerStore \subseteq slicerStore',
         \A c \in slicerStore \ slicerStore' : c[1] = slicing[r].file,
         UNCHANGED authored, \A s \in posted' \ posted : CenterFits(s) /\ PicksFit(s)
  PROVE  SlicerInv'
<1> DEFINE q == [slicing[r] EXCEPT !.phase = to]
<1>1. /\ slicing' = [slicing EXCEPT ![r] = q] /\ RequestFits(slicing[r])
      /\ slicing[r].phase = from /\ q.phase = to /\ DOMAIN q = RequestFields
      /\ q.kind = slicing[r].kind /\ q.file = slicing[r].file
      /\ q.target = slicing[r].target /\ q.picks = slicing[r].picks
      /\ q.content = slicing[r].content /\ q.center = slicing[r].center
      /\ q.ids = slicing[r].ids /\ q.blind = slicing[r].blind
      /\ q.shared = slicing[r].shared
  BY PhaseMoves
<1> HIDE DEF q
<1>2. TokenFits(slicing[r], slicerStore)
  BY DEF SlicerInv
<1>3. CenterFits(slicing[r]) => CenterFits(q)
  BY <1>1 DEF CenterFits
<1>4. RequestFits(q)
  BY <1>1, <1>3 DEF RequestFits, Phases
<1>5. TokenFits(q, slicerStore')
  BY <1>1, <1>2 DEF TokenFits, HeldToken, C!Original, C!SliceContent, RequestFits
<1>6. Active(slicing[r])
  BY <1>1 DEF Active
<1> QED BY <1>1, <1>4, <1>5, <1>6, OneRequestMoves

\* The decision on the original suits the request.
LEMMA DecidedFits ==
  ASSUME SlicerInv, NEW r \in Requests, slicing[r].file \in Files,
         NEW q \in C!Decided(slicing[r], C!Original(r), slicing[r].target)
  PROVE  /\ DOMAIN q = RequestFields /\ q.kind = slicing[r].kind /\ q.file = slicing[r].file
         /\ q.target = slicing[r].target /\ q.picks = slicing[r].picks
         /\ q.shared = slicing[r].shared /\ q.phase = slicing[r].phase
         /\ q.content = slicing[r].content
         /\ CenterFits(q)
<1> DEFINE old == slicing[r]
<1>1. DOMAIN old = RequestFields
  BY DEF SlicerInv, RequestFits
<1>2. CASE q = [old EXCEPT !.center = FALSE, !.blind = TRUE]
  BY <1>1, <1>2 DEF RequestFields, CenterFits
<1>3. ASSUME NEW c \in C!Centers(C!Original(r), old.target), q = [old EXCEPT !.center = c]
      PROVE  /\ DOMAIN q = RequestFields /\ q.kind = slicing[r].kind /\ q.file = slicing[r].file
             /\ q.target = slicing[r].target /\ q.picks = slicing[r].picks
             /\ q.shared = slicing[r].shared /\ q.phase = slicing[r].phase
             /\ q.content = slicing[r].content
             /\ CenterFits(q)
  <2>1. /\ q.center = c /\ DOMAIN q = RequestFields /\ q.kind = old.kind /\ q.file = old.file
        /\ q.target = old.target /\ q.picks = old.picks /\ q.shared = old.shared
        /\ q.phase = old.phase /\ q.content = old.content
    BY <1>1, <1>3 DEF RequestFields
  <2>2. c = (authored[old.file] # "none" /\ authored[old.file] # old.target)
        \/ c = (authored[old.file] # "none" /\ authored[old.file] # "")
    BY <1>3 DEF C!Centers, C!MachineNames, C!Original
  <2>3. authored[old.file] = "none" => c = FALSE
    BY <2>2
  <2>4. authored[old.file] # "none" /\ authored[old.file] # old.target /\ authored[old.file] # ""
          => c = TRUE
    BY <2>2
  <2>5. authored[old.file] \in Machines \cup {"none"}
    BY DEF SlicerInv
  <2>6. authored[old.file] # "none" => authored[old.file] # ""
    BY <2>5, SlicerAssumption
  <2> QED BY <2>1, <2>3, <2>4, <2>6 DEF CenterFits
<1> QED BY <1>2, <1>3 DEF C!Decided

\* A request that comes for a file that others have is shared, and so are they.
LEMMA RequestArrives ==
  ASSUME SlicerInv, NEW r \in Requests, NEW here, NEW new, ~Active(slicing[r]),
         slicing' = [q \in Requests |-> slicing'[q]],
         slicing'[r] = new, RequestFits(new), new.phase = "parse", new.shared = (here # {}),
         \A q \in Requests : q \in here <=>
           slicing[q].file = new.file /\ slicing[q].phase \notin {"done", "failed"},
         \A q \in Requests \ {r} :
           slicing'[q] = IF q \in here THEN [slicing[q] EXCEPT !.shared = TRUE] ELSE slicing[q],
         UNCHANGED <<authored, slicerStore, posted>>
  PROVE  SlicerInv'
<1>1. ASSUME NEW q \in Requests \ {r}
      PROVE  /\ slicing'[q].phase = slicing[q].phase /\ slicing'[q].kind = slicing[q].kind
             /\ slicing'[q].file = slicing[q].file /\ slicing'[q].target = slicing[q].target
             /\ slicing'[q].picks = slicing[q].picks /\ slicing'[q].content = slicing[q].content
             /\ slicing'[q].center = slicing[q].center /\ slicing'[q].ids = slicing[q].ids
             /\ slicing'[q].blind = slicing[q].blind /\ DOMAIN slicing'[q] = RequestFields
             /\ slicing'[q].shared = IF q \in here THEN TRUE ELSE slicing[q].shared
  <2>1. DOMAIN slicing[q] = RequestFields
    BY DEF SlicerInv, RequestFits
  <2>2. CASE q \in here
    <3>1. slicing'[q] = [slicing[q] EXCEPT !.shared = TRUE]
      BY <2>2
    <3> QED BY <2>1, <2>2, <3>1 DEF RequestFields
  <2>3. CASE q \notin here
    <3>1. slicing'[q] = slicing[q]
      BY <2>3
    <3> QED BY <2>1, <2>3, <3>1
  <2> QED BY <2>2, <2>3
<1>2. TokenFits(new, slicerStore)
  BY DEF TokenFits
<1>3. ASSUME NEW q \in Requests \ {r}
      PROVE  RequestFits(slicing'[q]) /\ TokenFits(slicing'[q], slicerStore)
  <2> DEFINE p == slicing[q]
             pp == slicing'[q]
  <2>1. /\ pp.phase = p.phase /\ pp.kind = p.kind /\ pp.file = p.file /\ pp.target = p.target
        /\ pp.picks = p.picks /\ pp.content = p.content /\ pp.center = p.center
        /\ pp.ids = p.ids /\ pp.blind = p.blind /\ DOMAIN pp = RequestFields
        /\ p.shared = TRUE => pp.shared = TRUE
    <3>1. pp.shared = IF q \in here THEN TRUE ELSE p.shared
      BY <1>1
    <3> QED BY <1>1, <3>1
  <2>2. RequestFits(p) /\ TokenFits(p, slicerStore)
    BY DEF SlicerInv
  <2> HIDE DEF p, pp
  <2>3. RequestFits(pp) /\ TokenFits(pp, slicerStore)
    BY <2>1, <2>2 DEF RequestFits, TokenFits, CenterFits, PicksFit, HeldToken
  <2> QED BY <2>3 DEF pp
<1>4. ASSUME NEW s \in Requests, NEW t \in Requests, s # t, Active(slicing'[s]), Active(slicing'[t]),
             slicing'[s].file = slicing'[t].file
      PROVE  slicing'[s].shared = TRUE
  <2>1. CASE s = r
    <3>1. slicing[t].file = new.file /\ slicing[t].phase \notin {"done", "failed"}
      BY <1>1, <1>4, <2>1 DEF Active
    <3>2. here # {}
      BY <3>1
    <3> QED BY <2>1, <3>2
  <2>2. CASE t = r
    <3>1. slicing[s].file = new.file /\ slicing[s].phase \notin {"done", "failed"}
      BY <1>1, <1>4, <2>2 DEF Active
    <3> QED BY <1>1, <1>4, <2>2, <3>1
  <2>3. CASE s # r /\ t # r
    <3>1. Active(slicing[s]) /\ Active(slicing[t]) /\ slicing[s].file = slicing[t].file
      BY <1>1, <1>4, <2>3 DEF Active
    <3>2. slicing[s].shared = TRUE
      BY <1>4, <3>1 DEF SlicerInv
    <3> QED BY <1>1, <2>3, <3>2
  <2> QED BY <2>1, <2>2, <2>3
<1>5. \A t, tokens : /\ (RequestFits(t)' <=> RequestFits(t)) /\ (TokenFits(t, tokens)' <=> TokenFits(t, tokens))
                    /\ (CenterFits(t)' <=> CenterFits(t)) /\ (PicksFit(t)' <=> PicksFit(t))
  BY DEF RequestFits, CenterFits, PicksFit, TokenFits, HeldToken
<1>6. \A q \in Requests : RequestFits(slicing'[q]) /\ TokenFits(slicing'[q], slicerStore)
  BY <1>2, <1>3
<1> QED BY <1>4, <1>5, <1>6 DEF SlicerInv, Active

LEMMA ArriveKeeps ==
  ASSUME SlicerInv, NEW r \in Requests, C!Arrive(r)
  PROVE  SlicerInv'
<1>0. PICK f \in Files, m \in Machines, k \in {"slice", "job"}, picks \in SUBSET Picks :
      LET here == {q \in Requests : slicing[q].file = f /\ slicing[q].phase \notin C!Over}
      IN slicing' = [q \in Requests |->
           IF q = r THEN [C!NoRequest EXCEPT !.phase = "parse", !.kind = k, !.file = f, !.target = m,
                                             !.picks = picks, !.shared = here # {}]
           ELSE IF q \in here THEN [slicing[q] EXCEPT !.shared = TRUE] ELSE slicing[q]]
  BY DEF C!Arrive
<1> DEFINE here == {q \in Requests : slicing[q].file = f /\ slicing[q].phase \notin C!Over}
           new == [C!NoRequest EXCEPT !.phase = "parse", !.kind = k, !.file = f, !.target = m,
                                      !.picks = picks, !.shared = here # {}]
<1>1. \A q \in Requests :
        q \in here <=> slicing[q].file = f /\ slicing[q].phase \notin {"done", "failed"}
  BY DEF C!Over
<1>2. /\ slicing' = [q \in Requests |-> slicing'[q]] /\ slicing'[r] = new
      /\ \A q \in Requests \ {r} :
           slicing'[q] = IF q \in here THEN [slicing[q] EXCEPT !.shared = TRUE] ELSE slicing[q]
  BY <1>0
<1> HIDE DEF here
<1>3. /\ DOMAIN new = RequestFields /\ new.phase = "parse" /\ new.kind = k /\ new.file = f
      /\ new.target = m /\ new.picks = picks /\ new.shared = (here # {})
  BY DEF C!NoRequest, RequestFields
<1> HIDE DEF new
<1>4. RequestFits(new)
  BY <1>3 DEF RequestFits, Phases
<1>5. UNCHANGED <<authored, slicerStore, posted>> /\ ~Active(slicing[r])
  BY DEF C!Arrive, Active
<1>6. \A q \in Requests :
        q \in here <=> slicing[q].file = new.file /\ slicing[q].phase \notin {"done", "failed"}
  BY <1>1, <1>3
<1> QED BY <1>2, <1>3, <1>4, <1>5, <1>6, RequestArrives

LEMMA DecideKeeps ==
  ASSUME SlicerInv, NEW r \in Requests, C!Decide(r)
  PROVE  SlicerInv'
<1>0. slicing[r].file \in Files /\ RequestFits(slicing[r]) /\ TokenFits(slicing[r], slicerStore)
  BY DEF SlicerInv, RequestFits, C!Decide
<1>1. PICK d \in C!Decided(slicing[r], C!Original(r), slicing[r].target) :
        slicing' = [slicing EXCEPT ![r] = [d EXCEPT !.phase = "prepare"]]
  BY DEF C!Decide, C!DecideOn
<1>2. /\ DOMAIN d = RequestFields /\ d.kind = slicing[r].kind /\ d.file = slicing[r].file
      /\ d.target = slicing[r].target /\ d.picks = slicing[r].picks
      /\ d.shared = slicing[r].shared /\ CenterFits(d)
  BY <1>0, DecidedFits
<1> DEFINE q == [d EXCEPT !.phase = "prepare"]
<1>3. /\ DOMAIN q = RequestFields /\ q.kind = d.kind /\ q.file = d.file /\ q.target = d.target
      /\ q.picks = d.picks /\ q.shared = d.shared /\ q.phase = "prepare"
      /\ q.center = d.center /\ q.blind = d.blind
  BY <1>2 DEF RequestFields
<1>4. slicing' = [slicing EXCEPT ![r] = q]
  BY <1>1
<1> HIDE DEF q
<1>5. slicing[r].phase = "decide" /\ UNCHANGED <<authored, slicerStore, posted>>
  BY DEF C!Decide
<1>6. RequestFits(q)
  BY <1>0, <1>2, <1>3, <1>5 DEF RequestFits, Phases, CenterFits
<1>7. TokenFits(q, slicerStore)
  BY <1>0, <1>2, <1>3, <1>5 DEF TokenFits, HeldToken
<1>8. Active(slicing[r]) /\ q.file = slicing[r].file /\ q.shared = slicing[r].shared
  BY <1>2, <1>3, <1>5 DEF Active
<1> QED BY <1>4, <1>5, <1>6, <1>7, <1>8, OneRequestMoves

LEMMA PrepareKeeps ==
  ASSUME SlicerInv, NEW r \in Requests, C!Prepare(r)
  PROVE  SlicerInv'
<1> DEFINE old == slicing[r]
           q == [[old EXCEPT !.phase = "queued"] EXCEPT !.content = C!Prepared(r)]
<1>1. RequestFits(old) /\ DOMAIN old = RequestFields
  BY DEF SlicerInv, RequestFits
<1>2. slicing' = [slicing EXCEPT ![r] = q]
  <2>1. slicing' = [slicing EXCEPT ![r].phase = "queued", ![r].content = C!Prepared(r)]
    BY DEF C!Prepare
  <2>2. slicing = [t \in Requests |-> slicing[t]]
    BY DEF SlicerInv
  <2> QED BY <2>1, <2>2
<1>3. /\ DOMAIN q = RequestFields /\ q.kind = old.kind /\ q.file = old.file /\ q.target = old.target
      /\ q.picks = old.picks /\ q.shared = old.shared /\ q.phase = "queued"
      /\ q.center = old.center /\ q.blind = old.blind /\ q.content = <<old.file, old.target>>
  BY <1>1 DEF RequestFields, C!Prepared
<1> HIDE DEF q
<1>4. /\ old.phase = "prepare" /\ UNCHANGED <<authored, posted>>
      /\ slicerStore \subseteq slicerStore'
  BY DEF C!Prepare
<1>5. RequestFits(q)
  BY <1>1, <1>3, <1>4 DEF RequestFits, Phases, CenterFits
<1>6. TokenFits(q, slicerStore')
  BY <1>3 DEF TokenFits
<1>7. Active(old)
  BY <1>4 DEF Active
<1> QED BY <1>2, <1>3, <1>4, <1>5, <1>6, <1>7, OneRequestMoves

LEMMA BuildBodyKeeps ==
  ASSUME SlicerInv, NEW r \in Requests, C!BuildBody(r)
  PROVE  SlicerInv'
<1> DEFINE old == slicing[r]
<1>0. /\ old.file \in Files /\ RequestFits(old) /\ TokenFits(old, slicerStore)
      /\ old.phase = "uploaded" /\ DOMAIN old = RequestFields
      /\ UNCHANGED <<authored, slicerStore, posted>>
  BY DEF SlicerInv, RequestFits, C!BuildBody
<1>1. PICK answer \in C!CarriedOver,
           d \in IF old.kind = "job" THEN {old} ELSE C!Decided(old, C!SliceContent(r), old.target) :
        slicing' = [slicing EXCEPT ![r] = [d EXCEPT !.phase = "built",
                      !.ids = [p \in Picks |-> C!Resolved(r, p, answer)]]]
  BY DEF C!BuildBody
<1>2. /\ DOMAIN d = RequestFields /\ d.kind = old.kind /\ d.file = old.file /\ d.target = old.target
      /\ d.picks = old.picks /\ d.shared = old.shared /\ d.content = old.content /\ CenterFits(d)
  <2>1. CASE old.kind = "job"
    BY <1>0, <1>1, <2>1 DEF RequestFits
  <2>2. CASE old.kind # "job"
    <3>1. d \in C!Decided(old, C!Original(r), old.target)
      BY <1>1, <2>2 DEF C!SliceContent
    <3> QED BY <1>0, <3>1, DecidedFits
  <2> QED BY <2>1, <2>2
<1> DEFINE ids == [p \in Picks |-> C!Resolved(r, p, answer)]
<1>3. \A p \in old.picks : ids[p] = "pick"
  BY <1>0 DEF RequestFits, C!Resolved
<1> HIDE DEF ids
<1> DEFINE q == [d EXCEPT !.phase = "built", !.ids = ids]
<1>4. slicing' = [slicing EXCEPT ![r] = q]
  BY <1>1 DEF ids
<1>5. /\ DOMAIN q = RequestFields /\ q.kind = d.kind /\ q.file = d.file /\ q.target = d.target
      /\ q.picks = d.picks /\ q.shared = d.shared /\ q.content = d.content /\ q.phase = "built"
      /\ q.center = d.center /\ q.blind = d.blind /\ q.ids = ids
  BY <1>2 DEF RequestFields
<1> HIDE DEF q
<1>6. CenterFits(q) /\ PicksFit(q)
  BY <1>2, <1>3, <1>5 DEF CenterFits, PicksFit
<1>7. RequestFits(q)
  BY <1>0, <1>2, <1>5, <1>6 DEF RequestFits, Phases
<1>8. TokenFits(q, slicerStore)
  BY <1>0, <1>2, <1>5 DEF TokenFits, HeldToken
<1>9. Active(old) /\ q.file = old.file /\ q.shared = old.shared
  BY <1>0, <1>2, <1>5 DEF Active
<1> QED BY <1>0, <1>4, <1>7, <1>8, <1>9, OneRequestMoves

LEMMA SlicerNext ==
  ASSUME SlicerInv, C!Next
  PROVE  SlicerInv'
<1>1. CASE C!Probe
  BY <1>1 DEF C!Probe, SlicerInv, RequestFits, TokenFits, CenterFits, PicksFit, HeldToken, Active
<1> SUFFICES ASSUME NEW r \in Requests,
               \/ C!Arrive(r) \/ C!ParseUpload(r) \/ C!ParseDelete(r) \/ C!SourceUpload(r)
               \/ C!SourceReady(r) \/ C!Decide(r) \/ C!Prepare(r) \/ C!SliceUpload(r)
               \/ C!BuildBody(r) \/ C!Post(r) \/ C!FetchOutput(r) \/ C!Fail(r) \/ C!ParseFails(r)
             PROVE  SlicerInv'
  BY <1>1 DEF C!Next
<1>2. RequestFits(slicing[r])
  BY DEF SlicerInv
<1>3. C!Original(r)[1] = slicing[r].file
  BY DEF C!Original
<1>4. CASE C!ParseUpload(r)
  BY <1>4, MovesKeep DEF C!ParseUpload, C!Upload
<1>5. CASE C!ParseDelete(r)
  BY <1>3, <1>5, MovesKeep DEF C!ParseDelete
<1>6. CASE C!SourceUpload(r)
  BY <1>6, MovesKeep DEF C!SourceUpload, C!Upload
<1>7. CASE C!SourceReady(r)
  <2>1. slicing[r].phase = "source"
    BY <1>7 DEF C!SourceReady, C!Moves
  <2> QED BY <1>2, <1>7, <2>1, MovesKeep DEF C!SourceReady, RequestFits
<1>8. CASE C!SliceUpload(r)
  <2>1. CASE slicing[r].kind = "job"
    BY <1>8, <2>1, MovesKeep DEF C!SliceUpload, C!Upload
  <2>2. CASE slicing[r].kind # "job"
    BY <1>8, <2>2, MovesKeep DEF C!SliceUpload, C!Upload
  <2> QED BY <2>1, <2>2
<1>9. CASE C!Post(r)
  <2>1. slicing[r].phase = "built" /\ CenterFits(slicing[r]) /\ PicksFit(slicing[r])
    BY <1>2, <1>9 DEF C!Post, C!Moves, RequestFits
  <2>2. \A s \in posted' \ posted : CenterFits(s) /\ PicksFit(s)
    BY <1>9, <2>1 DEF C!Post, CenterFits, PicksFit
  <2> QED BY <1>9, <2>2, MovesKeep DEF C!Post
<1>10. CASE C!FetchOutput(r)
  BY <1>10, RequestEnds DEF C!FetchOutput, Active
<1>11. CASE C!Fail(r)
  BY <1>11, RequestEnds DEF C!Fail, Active, C!Over
<1>12. CASE C!ParseFails(r)
  BY <1>3, <1>12, RequestEnds DEF C!ParseFails, Active
<1> QED
  BY <1>4, <1>5, <1>6, <1>7, <1>8, <1>9, <1>10, <1>11, <1>12, ArriveKeeps, DecideKeeps, PrepareKeeps,
     BuildBodyKeeps

SlicerPart == part = "slicer" => SlicerInv

LEMMA SlicerPartHolds ==
  /\ SuiteInit => SlicerPart
  /\ SlicerPart /\ [SuiteNext]_suiteVars => SlicerPart'
<1>1. C!Init => SlicerInv
  <2>1. C!NoRequest.phase = "new" /\ RequestFits(C!NoRequest) /\ TokenFits(C!NoRequest, slicerStore)
    BY DEF C!NoRequest, RequestFits, RequestFields, TokenFits, Phases
  <2> QED BY <2>1 DEF C!Init, SlicerInv, Active
<1>2. SlicerPart /\ UNCHANGED <<part, slicerVars>> => SlicerPart'
  BY DEF SlicerPart, slicerVars, SlicerInv, RequestFits, TokenFits, CenterFits, PicksFit, HeldToken, Active
<1>3. SlicerPart /\ [SuiteNext]_suiteVars => SlicerPart'
  BY <1>2, SlicerNext DEF SlicerPart, SuiteNext, suiteVars
<1> QED BY <1>1, <1>3 DEF SuiteInit, SlicerPart

\* What a request asks of the slicer reaches it, for any number of requests and
\* files: picks, the centering of a project that was made for another machine, and
\* its token, which only another request for the same file can delete.
THEOREM RequestsCorrect == SuiteSpec => []RequestsKeepTheirs
<1>1. SlicerInv => C!RetargetsAreCentered /\ C!PicksStay /\ C!LostOnlyToAnother
  <2> SUFFICES ASSUME SlicerInv PROVE C!RetargetsAreCentered /\ C!PicksStay /\ C!LostOnlyToAnother
    OBVIOUS
  <2>1. C!RetargetsAreCentered /\ C!PicksStay
    BY DEF SlicerInv, CenterFits, PicksFit, C!RetargetsAreCentered, C!PicksStay
  <2>2. ASSUME NEW r \in Requests, C!NeedsToken(r), C!Needed(r) \notin slicerStore
        PROVE  slicing[r].shared
    <3>1. RequestFits(slicing[r]) /\ TokenFits(slicing[r], slicerStore)
      BY DEF SlicerInv
    <3>2. C!Needed(r) = HeldToken(slicing[r])
      BY <2>2, <3>1 DEF C!Needed, C!NeedsToken, C!Original, C!SliceContent, HeldToken, RequestFits
    <3> QED BY <2>2, <3>1, <3>2 DEF TokenFits, C!NeedsToken
  <2> QED BY <2>1, <2>2 DEF C!LostOnlyToAnother
<1>2. SlicerPart => RequestsKeepTheirs
  BY <1>1 DEF SlicerPart, RequestsKeepTheirs
<1> QED BY <1>2, SlicerPartHolds, PTL DEF SuiteSpec

-----------------------------------------------------------------------------
(* The jobs themselves.  The suite's behaviours are behaviours of SliceJobs, *)
(* so that what is proved of it holds of them.                               *)

LEMMA SuiteRunsJobs == SuiteSpec => Spec
<1>1. SuiteInit => Init
  BY DEF SuiteInit
<1>2. [SuiteNext]_suiteVars => [Next]_vars
  BY DEF SuiteNext, suiteVars
<1> QED BY <1>1, <1>2, PTL DEF SuiteSpec, Spec

\* Each step of the jobs is one of the status machine of SliceJobStatus, or changes
\* no job's status.
THEOREM StepsCorrect == SuiteSpec => StepsImplementLifecycle
<1>1. Init => LifeInv
  BY InitStage DEF LifeInv, Init
<1>2. LifeInv /\ [Next]_vars => LifeInv'
  BY NextTodo
<1>3. ASSUME LifeInv, [Next]_vars
      PROVE  [part = "jobs" => Lifecycle!Next \/ UNCHANGED [j \in Jobs |-> JobStatus(j)]]_vars
  BY <1>3, NextLife DEF LifeStep
<1> QED BY <1>1, <1>2, <1>3, SuiteRunsJobs, PTL DEF Spec, StepsImplementLifecycle
==============================================================================
