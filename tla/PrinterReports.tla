--------------------------- MODULE PrinterReports ---------------------------
(* How a printer's partial status reports become its status: the parser that   *)
(* the LAN client (_update_status) and the cloud client (handle_event) share,  *)
(* apply_print_payload with determine_state and current_error_description, and *)
(* the parser of the AMS blocks.  One printer is reached both ways; the LAN    *)
(* connection is lost and made again, and misses what was said meanwhile.      *)
EXTENDS FiniteSets, Naturals

CONSTANTS Gcodes,  \* values of gcode_state
          Stages,  \* kinds of stg_cur
          Forms    \* the sets of fields a partial report may have

\* What a printer says, as far as the code tells it apart: the stages of
\* preparation, calibration and filament change are one; a code is the first
\* HMS code or print_error; an AMS block lists the units, or only other things.
Sayings == [gcode: Gcodes, stage: Stages, layer: {0, 1}, percent: {0, 50},
            code: {"none", "jam"}, ams: {"units"}]
Fields == {"gcode", "stage", "layer", "percent", "code", "ams"}
PartialAms == [ams |-> "partial"]

VARIABLES
  lanStatus,   \* PrinterStatus of the LAN client, with its _gcode_state
  cloudStatus, \* and of the cloud client
  lanUp,       \* is MQTT connected
  lanFresh     \* has a full report come since

reportVars == <<lanStatus, cloudStatus, lanUp, lanFresh>>

BlankJob == [layer |-> 0, percent |-> 0, shown |-> FALSE]
NewStatus == [online |-> FALSE, gcode |-> "IDLE", stage |-> "none", job |-> BlankJob, code |-> "none",
              state |-> "offline", error |-> "none", units |-> "none"]

Init == lanStatus = NewStatus /\ cloudStatus = NewStatus /\ lanUp = FALSE /\ lanFresh = FALSE

----------------------------------------------------------------------------
\* determine_state.
Ended == {"idle", "finished", "cancelled"}
Derive(gcode, stage, layer) ==
  IF gcode = "FINISH" THEN "finished"
  ELSE IF gcode = "FAILED" THEN "cancelled"
  ELSE IF gcode = "PAUSE" \/ stage = "pause" THEN "paused"
  ELSE IF stage = "issue" THEN "error"
  ELSE IF stage = "prepare" /\ gcode # "IDLE" THEN (IF layer > 0 THEN "paused" ELSE "preparing")
  ELSE IF gcode = "RUNNING" THEN "printing" ELSE "idle"

Get(report, field, old) == IF field \in DOMAIN report THEN report[field] ELSE old

JobAfter(s, report) ==
  IF DOMAIN report \cap {"layer", "percent"} = {} THEN s.job
  ELSE [layer |-> Get(report, "layer", s.job.layer),
        percent |-> Get(report, "percent", s.job.percent), shown |-> TRUE]

\* Mutant: the state is derived anew only when gcode_state is another one.
RederivesBug(s, report) == Get(report, "gcode", s.gcode) # s.gcode
\* The state is derived anew from a gcode_state or a stage, of whatever value.
Rederives(s, report) == DOMAIN report \cap {"gcode", "stage"} # {}

ErrorAfter(s, report, state, code) == IF state \in {"paused", "error"} THEN code ELSE "none"

DropsJob(report, state, job) == state \in Ended /\ job.percent = 0

\* apply_print_payload: the fields of the report over those of before.
Apply(s, report) ==
  LET gcode == Get(report, "gcode", s.gcode)
      stage == Get(report, "stage", s.stage)
      code  == Get(report, "code", s.code)
      job   == JobAfter(s, report)
      state == IF Rederives(s, report) THEN Derive(gcode, stage, job.layer) ELSE s.state
  IN [s EXCEPT !.gcode = gcode, !.stage = stage, !.code = code, !.state = state,
               !.error = ErrorAfter(s, report, state, code),
               !.job = IF DropsJob(report, state, job) THEN BlankJob ELSE job]

\* parse_ams_report: only a list of units replaces the cached ones.
UnitsAfter(s, report) ==
  IF Get(report, "ams", "partial") = "units" THEN "units" ELSE s.units

\* BambuMQTTClient._update_status.
UpdateStatus(s, report) == [Apply(s, report) EXCEPT !.units = UnitsAfter(s, report)]

\* Mutant: the accumulated gcode_state is not handed to the parser.
HandleEventBug(s, report) ==
  [Apply([s EXCEPT !.gcode = "IDLE"], report) EXCEPT !.units = UnitsAfter(s, report), !.online = TRUE]
\* CloudPrinterClient.handle_event: a report is a sign of life.
HandleEvent(s, report) ==
  [Apply(s, report) EXCEPT !.units = UnitsAfter(s, report), !.online = TRUE]

----------------------------------------------------------------------------
\* The printer says something, and who listens applies it.
Report(report) ==
  /\ lanStatus' = IF lanUp THEN UpdateStatus(lanStatus, report) ELSE lanStatus
  /\ cloudStatus' = HandleEvent(cloudStatus, report)
  /\ lanFresh' = (lanUp /\ (lanFresh \/ DOMAIN report = Fields))
  /\ UNCHANGED lanUp

\* The answer to a pushall, and what changed since the last report.
FullReport == \E said \in Sayings : Report(said)
PartialReport ==
  \/ \E form \in Forms : \E report \in {[f \in form |-> said[f]] : said \in Sayings} : Report(report)
  \/ Report(PartialAms)

\* _on_connect leaves the state alone: the answer to its pushall sets it.
Connect ==
  /\ ~lanUp /\ lanUp' = TRUE /\ lanFresh' = FALSE
  /\ lanStatus' = [lanStatus EXCEPT !.online = TRUE]
  /\ UNCHANGED cloudStatus

\* _on_disconnect, and a refused connection.
Disconnect ==
  /\ lanUp' = FALSE /\ lanFresh' = FALSE
  /\ lanStatus' = [lanStatus EXCEPT !.online = FALSE, !.state = "offline"]
  /\ UNCHANGED cloudStatus

Next == FullReport \/ PartialReport \/ Connect \/ Disconnect
Spec == Init /\ [][Next]_reportVars

----------------------------------------------------------------------------
Statuses == {lanStatus, cloudStatus}

\* "both produce identical state updates from the same payload format"
\* (mqtt_client.py:268): with a full report since it connected, the LAN client
\* shows what the cloud client shows, however much it missed before.
SamePicture == lanFresh => lanStatus = cloudStatus

\* A printer that is paused or stuck says why as long as a code is reported, and
\* any other one says nothing: codes and states come and go in different
\* reports (mqtt_client.py:374-379).
ErrorIsExplained ==
  \A s \in Statuses : s.state # "offline" =>
    s.error = IF s.state \in {"paused", "error"} THEN s.code ELSE "none"

\* A printer at rest shows no job at 0 %, left over or made up by a report of a
\* single field (mqtt_client.py:381-386).
NoGhostJob == \A s \in Statuses : s.state \in Ended => (s.job.shown => s.job.percent > 0)

\* A layer alone does not change the state, so a print that starts with the last
\* one's layer may show as paused; and a lost connection shows as offline.  The
\* full report that follows a connection sets the state right, also when it says
\* nothing new.
FullReportSetsState ==
  lanFresh' /\ ~lanFresh => lanStatus'.state =
    Derive(lanStatus'.gcode, lanStatus'.stage, lanStatus'.job.layer)
FullReportHeals == [][FullReportSetsState]_reportVars

\* A partial ams block does not make the units disappear (mqtt_client.py, "the
\* dashboard's AMS disappeared"), nor does a lost connection.
KeepsUnits == lanStatus.units # "none" => lanStatus'.units # "none"
AmsNeverVanishes == [][KeepsUnits]_reportVars
=============================================================================
