--------------------------- MODULE PrintSnapshots ---------------------------
(* print_tracking.PrintEventBroker: the snapshot accumulated from a printer's *)
(* partial reports, the sources registered for its prints, and the metadata   *)
(* printer_service fetches for them.  Its methods run under one lock.  How    *)
(* snapshots reach a subscriber is SnapshotDelivery.                          *)
EXTENDS Naturals, Sequences, FiniteSets

CONSTANTS Names,       \* base names of 3MF files
          Forms,       \* the sets of fields a report may carry
          MaxPrints, MaxSubmissions, MaxReports, MaxCalls

VARIABLES
  raw,            \* _raw: the merged report
  shown,          \* _snapshot
  sources,        \* _sources: job key -> source
  usage,          \* _usage_references: job key -> subtask it was fetched for
  pendingSource,  \* _pending_source
  activeKey,      \* _active_job_key
  fileReachable,  \* _printer_file_available
  cloudHost,      \* _cloud_host is set: metadata can be fetched
  metaCalls,      \* calls of _schedule_cloud_metadata scheduled in the loop
  fetches,        \* tasks of _enrich_cloud_metadata
  metaDone, metaFailed,           \* _cloud_metadata_complete, _failed_at
  printing,       \* the printer: its print, the name and the state it reports
  originOf,       \* print -> the submission it comes from, 0 for another slicer's
  submitted,      \* the submission sent and not yet taken up: number and name
  submissions, reports,
  strayed,        \* history: a submission met a busy printer, got lost or began a job
  missed          \* history: a print came after one that was never told of by id

brokerState == <<raw, shown, sources, usage, pendingSource, activeKey>>
metadata == <<cloudHost, metaCalls, fetches, metaDone, metaFailed>>
printer == <<printing, originOf, submitted, submissions, strayed, missed>>
snapshotVars == <<brokerState, fileReachable, metadata, printer, reports>>

Active == {"RUNNING", "PAUSE"}
Terminal == {"FINISH", "FAILED"}
NoName == <<"", "">>
\* A name as reported is a base and an extension: subtask_name drops the
\* extension, gcode_file keeps it.
NoKey == [by |-> "none", id |-> 0, name |-> NoName]
NoSource == [key |-> NoKey, kind |-> "none", from |-> 0]
NoReport == [id |-> 0, sub |-> NoName, file |-> NoName, st |-> "", cmd |-> FALSE,
             layer |-> 0, mapping |-> 0]
Empty == [key |-> NoKey, id |-> 0, st |-> "IDLE", layer |-> 0,
          mapping |-> 0, usage |-> 0, kind |-> "unavailable", from |-> 0]

Init ==
  /\ raw = NoReport /\ shown = Empty /\ sources = <<>> /\ usage = <<>>
  /\ pendingSource = NoSource /\ activeKey = NoKey
  /\ fileReachable \in BOOLEAN
  /\ cloudHost \in BOOLEAN /\ metaCalls = <<>> /\ fetches = {} /\ metaDone = {} /\ metaFailed = {}
  /\ printing = [id |-> 0, name |-> NoName, st |-> "IDLE", told |-> TRUE]
  /\ originOf = [p \in 1..MaxPrints |-> 0]
  /\ submitted = [no |-> 0, name |-> NoName]
  /\ submissions = 0 /\ reports = 0 /\ strayed = FALSE /\ missed = FALSE

(* --- the snapshot ------------------------------------------------------- *)

NameOf(r) == IF r.sub # NoName THEN r.sub ELSE r.file
Lookup(f, k, default) == IF k \in DOMAIN f THEN f[k] ELSE default
With(f, k, v) == [key \in DOMAIN f \cup {k} |-> IF key = k THEN v ELSE f[key]]

\* _merge: a partial report changes only the fields it has.
Merge(r, rep) ==
  [f \in DOMAIN r |-> IF rep[f] = NoReport[f] /\ f # "cmd" THEN r[f] ELSE rep[f]]

\* _derive_job_key: a key once given stays until a boundary.
DeriveKey(r, given, pend, old) ==
  IF given # NoKey THEN given
  ELSE IF r.id # 0 THEN [by |-> "printer", id |-> r.id, name |-> NameOf(r)]
  ELSE IF pend # NoSource THEN pend.key
  ELSE IF NameOf(r) = NoName THEN NoKey
  ELSE IF old.key # NoKey THEN old.key
  ELSE [by |-> "name", id |-> 0, name |-> NameOf(r)]
Sticks(r, given, pend) == given # NoKey \/ r.id # 0 \/ pend = NoSource

\* _build_snapshot, with the state it changes on the way.  old is the previous
\* snapshot, whose mapping and tray bridge partial reports.
Build(r, given, pend, srcs, uses, old, reachable) ==
  LET st == IF r.st = "" THEN "IDLE" ELSE r.st
      key == DeriveKey(r, given, pend, old)
      known == Lookup(srcs, key, NoSource)
      taken == known # NoSource /\ known.key = pend.key /\ st \in Active
      adopts == known = NoSource /\ pend # NoSource /\ st \notin Terminal
      moves == adopts /\ key # NoKey /\ key # pend.key
      reported == known = NoSource /\ ~adopts /\ key # NoKey /\ r.file # NoName
      src == CASE moves -> [pend EXCEPT !.key = key]
               [] adopts /\ ~moves -> pend
               [] reported -> [key |-> key, kind |-> "printer_ftps", from |-> 0]
               [] OTHER -> known
      bridged == IF r.mapping # 0 THEN r.mapping ELSE old.mapping
  IN [activeKey |-> IF Sticks(r, given, pend) THEN key ELSE given,
      pending |-> IF taken \/ moves THEN NoSource ELSE pend,
      sources |-> IF moves \/ reported THEN With(srcs, key, src) ELSE srcs,
      shown |-> [key |-> key, id |-> r.id, st |-> st,
                 layer |-> r.layer,
                 mapping |-> IF bridged = 0 THEN src.from ELSE bridged,
                 usage |-> Lookup(uses, key, 0),
                 kind |-> IF src = NoSource \/ (src.kind = "printer_ftps" /\ ~reachable)
                          THEN "unavailable" ELSE src.kind,
                 from |-> src.from]]

\* The end of every method that rebuilds the snapshot.
Rebuild(r, given, pend, srcs, uses, old, reachable) ==
  \E b \in {Build(r, given, pend, srcs, uses, old, reachable)} :
  /\ raw' = r /\ usage' = uses /\ fileReachable' = reachable
  /\ activeKey' = b.activeKey /\ pendingSource' = b.pending
  /\ sources' = b.sources /\ shown' = b.shown

\* register_source, called before the 3MF is uploaded: one source per printer.
RegisterSource(n) ==
  LET no == submissions + 1
      key == [by |-> "gateway", id |-> 0, name |-> <<n, ".3mf">>]
      src == [key |-> key, kind |-> "registered", from |-> no]
  IN /\ no <= MaxSubmissions
     /\ submissions' = no /\ submitted' = [no |-> no, name |-> <<n, ".3mf">>]
     /\ strayed' = (strayed \/ submitted.no # 0 \/ printing.st \in Active)
     /\ Rebuild([raw EXCEPT !.sub = <<n, ".3mf">>, !.mapping = no],
                key, src, With(<<>>, key, src), <<>>, shown, fileReachable)
     /\ UNCHANGED <<metadata, printing, originOf, missed, reports>>

EndedBefore(rep) == rep.st \in Active /\ raw.st \in Terminal
NamesDiffer(rep) == /\ NameOf(rep) # NoName /\ NameOf(raw) # NoName
               /\ ~(rep.id # 0 /\ rep.id = raw.id)
               /\ NameOf(rep)[1] # NameOf(raw)[1]
IdsDiffer(rep) == rep.id # 0 /\ raw.id # 0 /\ rep.id # raw.id
\* update: the report belongs to another print than the one accumulated.
Boundary(rep) ==
  \/ EndedBefore(rep)
  \/ /\ NamesDiffer(rep) \/ IdsDiffer(rep)
     /\ rep.st \in Active \/ rep.cmd

\* Key and sources go at a boundary, unless a source waits for a print of this name.
Detaches(boundary, n) ==
  boundary /\ ~(pendingSource # NoSource /\ n \in {NoName, pendingSource.key.name})

\* Mutant: the fields of the snapshot bridge into the next print.
BridgeBug(boundary) == shown
Bridge(boundary) == IF boundary THEN Empty ELSE shown

\* update: merge one report, into nothing if it is of another print.
Update(rep) ==
  LET b == Boundary(rep)
      gone == Detaches(b, NameOf(rep))
  IN Rebuild(Merge(IF b THEN NoReport ELSE raw, rep),
             IF gone THEN NoKey ELSE activeKey, pendingSource,
             IF gone THEN <<>> ELSE sources, IF gone THEN <<>> ELSE usage, Bridge(b), fileReachable)

\* _handle_print_report: the loop is to look at the snapshot of the report.  The
\* call returns at once unless a print runs, and its job and id are known.
Schedule(snap) ==
  /\ Len(metaCalls) < MaxCalls
  /\ metaCalls' = IF ~cloudHost \/ snap.key = NoKey \/ snap.id = 0 \/ snap.st \notin Active
                  THEN metaCalls ELSE Append(metaCalls, snap)

\* The printer reports the fields of one of Forms, the name in either spelling.  It
\* repeats the command that started a print while that runs.
Report(form) ==
  /\ reports < MaxReports /\ reports' = reports + 1
  /\ printing.id # 0
  /\ "cmd" \in form => printing.st \in Active
  /\ \E spelling \in IF "sub" \in form THEN {"", ".3mf"} ELSE {""} :
       Update([NoReport EXCEPT
         !.id = IF "id" \in form THEN printing.id ELSE 0,
         !.sub = IF "sub" \in form THEN <<printing.name[1], spelling>> ELSE NoName,
         !.file = IF "file" \in form THEN <<printing.name[1], ".3mf">> ELSE NoName,
         !.st = IF "st" \in form THEN printing.st ELSE "",
         !.layer = IF "layer" \in form THEN printing.id ELSE 0,
         !.cmd = "cmd" \in form,
         !.mapping = IF "cmd" \in form THEN originOf[printing.id] ELSE 0])
  /\ printing' = [printing EXCEPT !.told = @ \/ ({"st", "id"} \subseteq form /\ printing.st \in Active)]
  /\ Schedule(shown')
  /\ UNCHANGED <<cloudHost, fetches, metaDone, metaFailed, originOf, submitted, submissions,
                 strayed, missed>>

\* Or before: the gateway's own command has its file's name and url, and "0" for ids.
\* Over the name of the print before it begins another job, whose fields are then
\* those of either print, as long as neither reports its id.
CommandIsRepeated ==
  \E rep \in {[NoReport EXCEPT !.sub = submitted.name, !.file = submitted.name, !.cmd = TRUE,
                               !.mapping = submitted.no]} :
  /\ reports < MaxReports /\ reports' = reports + 1
  /\ submitted.no # 0
  /\ Update(rep) /\ strayed' = (strayed \/ Boundary(rep))
  /\ Schedule(shown')
  /\ UNCHANGED <<cloudHost, fetches, metaDone, metaFailed, printing, originOf, submitted,
                 submissions, missed>>

\* set_printer_file_available, when a client is wired after a settings change.
SetPrinterFileAvailable ==
  /\ Rebuild(raw, activeKey, pendingSource, sources, usage, shown, ~fileReachable)
  /\ UNCHANGED <<metadata, printer, reports>>

\* source_for, current_job_file: only the job shown has a file.
FileFor(key) ==
  IF key # NoKey /\ key = shown.key THEN Lookup(sources, key, NoSource) ELSE NoSource

(* --- metadata ------------------------------------------------------------ *)

\* _schedule_cloud_metadata, in the loop, with the snapshot of that report: tasks
\* and verdicts of other jobs are dropped, and one task fetches this job's.
ScheduleMetadata ==
  LET snap == Head(metaCalls)
      kept == {f \in fetches : f.key = snap.key}
      wanted == /\ snap.key \notin metaDone \cup metaFailed
                /\ ~\E f \in kept : f.listed
  IN /\ metaCalls # <<>> /\ metaCalls' = Tail(metaCalls)
     /\ metaDone' = metaDone \cap {snap.key}
     /\ metaFailed' = metaFailed \cap {snap.key}
     /\ fetches' = kept
          \cup {[f EXCEPT !.cancelled = @ \/ f.listed, !.listed = FALSE] : f \in fetches \ kept}
          \cup (IF wanted THEN {[key |-> snap.key, id |-> snap.id,
                                listed |-> TRUE, cancelled |-> FALSE]} ELSE {})
     /\ UNCHANGED <<brokerState, fileReachable, cloudHost, printer, reports>>

\* The finally of _enrich_cloud_metadata: whatever task is listed under the key goes.
Unlist(f) == {[g EXCEPT !.listed = g.listed /\ g.key # f.key] : g \in fetches \ {f}}

\* enrich_job: the job asked about is the one shown.
IsShown(key) == key # NoKey /\ shown.key = key

\* The answer for a job: its usage reference and, unless there is a stronger
\* source, the source it names (enrich_job).
MetadataArrives(f, url) ==
  LET known == Lookup(sources, f.key, NoSource)
      weak == known = NoSource \/ (known.kind = "printer_ftps" /\ ~fileReachable)
      src == [key |-> f.key, kind |-> "cloud_http", from |-> 0]
  IN /\ ~f.cancelled
     /\ fetches' = Unlist(f) /\ UNCHANGED metaFailed
     /\ IF IsShown(f.key)
        THEN /\ metaDone' = metaDone \cup {f.key}
             /\ Rebuild(raw, activeKey, pendingSource,
                        IF url /\ weak THEN With(sources, shown.key, src) ELSE sources,
                        With(<<>>, shown.key, f.id), shown, fileReachable)
        ELSE UNCHANGED <<metaDone, brokerState, fileReachable>>
     /\ UNCHANGED <<cloudHost, metaCalls, printer, reports>>

\* The fetch fails, or its task has been cancelled.
MetadataFails(f) ==
  /\ fetches' = Unlist(f)
  /\ metaFailed' = IF f.cancelled THEN metaFailed ELSE metaFailed \cup {f.key}
  /\ UNCHANGED <<brokerState, fileReachable, cloudHost, metaCalls, metaDone, printer, reports>>

\* Thirty seconds later the fetch may be tried again.
MetadataCools(key) ==
  /\ metaFailed' = metaFailed \ {key}
  /\ UNCHANGED <<brokerState, fileReachable, cloudHost, metaCalls, fetches, metaDone, printer, reports>>

(* --- the printer --------------------------------------------------------- *)

\* A print starts: the one submitted, or another slicer's.  One is missed if no report
\* has had its id while it ran.
PrintStarts(no, name) ==
  /\ printing.st \notin Active /\ printing.id < MaxPrints
  /\ printing' = [id |-> printing.id + 1, name |-> name, st |-> "RUNNING",
                 told |-> FALSE]
  /\ originOf' = [originOf EXCEPT ![printing.id + 1] = no]
  /\ missed' = (missed \/ ~printing.told)
  /\ UNCHANGED <<brokerState, fileReachable, metadata, submissions, reports>>
StartsSubmitted ==
  /\ submitted.no # 0 /\ PrintStarts(submitted.no, submitted.name)
  /\ submitted' = [no |-> 0, name |-> NoName] /\ UNCHANGED strayed
StartsForeign(n) ==
  /\ PrintStarts(0, <<n, "">>)
  /\ strayed' = (strayed \/ submitted.no # 0) /\ UNCHANGED submitted
\* The upload or the command fails, or the printer refuses.
SubmissionLost ==
  /\ submitted.no # 0 /\ submitted' = [no |-> 0, name |-> NoName] /\ strayed' = TRUE
  /\ UNCHANGED <<brokerState, fileReachable, metadata, printing, originOf,
                 submissions, missed, reports>>
PrintChanges(st) ==
  /\ <<printing.st, st>> \in {<<"RUNNING", "PAUSE">>, <<"PAUSE", "RUNNING">>,
       <<"RUNNING", "FINISH">>, <<"PAUSE", "FAILED">>, <<"FINISH", "IDLE">>}
  /\ printing' = [printing EXCEPT !.st = st]
  /\ UNCHANGED <<brokerState, fileReachable, metadata, originOf, submitted,
                 submissions, strayed, missed, reports>>

\* Everything but the printer's reports.
OtherStep ==
  \/ \E n \in Names : RegisterSource(n) \/ StartsForeign(n)
  \/ SetPrinterFileAvailable \/ ScheduleMetadata
  \/ \E f \in fetches : \/ MetadataFails(f)
                         \/ \E url \in BOOLEAN : MetadataArrives(f, url)
  \/ \E key \in metaFailed : MetadataCools(key)
  \/ CommandIsRepeated \/ StartsSubmitted \/ SubmissionLost
  \/ \E st \in Active \cup Terminal \cup {"IDLE"} : PrintChanges(st)

Next == OtherStep \/ \E form \in Forms : Report(form)

Spec == Init /\ [][Next]_snapshotVars

(* --- properties ---------------------------------------------------------- *)

\* A submission that met a busy printer or got lost leaves its file and its mapping
\* to whatever print comes next, and so does one that was never told of by id; one
\* whose command is taken for the start of a job mixes its fields with those of the
\* print before.  After any of these nothing is claimed.
Followed == ~strayed /\ ~missed

\* The snapshot shows the print that runs, by its id, and no submission is on its way.
ShowsPrinting == /\ shown.id # 0 /\ shown.id = printing.id /\ shown.st \in Active
                 /\ submitted.no = 0 /\ Followed

\* Layer and mapping are those of the print shown: reports are partial, fields
\* outlive them and bridge the gaps, but not into the next print.
FieldsOfThisPrint ==
  ShowsPrinting => /\ shown.layer \in {0, shown.id}
                   /\ shown.mapping \in {0, originOf[shown.id]}

\* The file offered for the print shown is the one submitted for it.
SourceOfThisPrint ==
  LET file == FileFor(shown.key) IN
  ShowsPrinting /\ file.kind = "registered" => file.from = originOf[shown.id]

\* A delayed answer is not attached to the next print where the job's key has
\* the printer's id.  It may be where the key has not: a file submitted again has
\* the key it had, and so has a print of the same name whose id comes late.
UsageOfThisPrint ==
  Followed /\ shown.id # 0 /\ shown.st \in Active /\ shown.usage \notin {0, shown.id} =>
    shown.key.by = "name" \/ (shown.key.by = "gateway" /\ submissions > 1)
=============================================================================
