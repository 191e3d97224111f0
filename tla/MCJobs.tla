------------------------------- MODULE MCJobs -------------------------------
(* Small instances of the jobs that print on a LAN printer, and of what they   *)
(* rely on: the calls of the slicer, the mapping of filaments, the upload, the *)
(* status of the printers, their registry, and the installation of the cloud   *)
(* plugin.  The modules share no state, so a behaviour exercises the part it   *)
(* starts with.                                                                *)
EXTENDS MCSliceJobs

CONSTANTS Requests, Files, Machines, Picks, Slots, Trays, Filaments, TypeOf,
          UploadIds, FileName, Chunks,
          Gcodes, Stages, Forms, Serials, Ips, Codes, MaxWaiting, SavesFail,
          Versions, MaxFetches, MaxStarts

\* A transfer has some chunks, possibly none; slots and trays are numbered; a
\* machine has a name.
ASSUME UploadAssumption == Chunks \in Nat
ASSUME MappingAssumption == Slots \subseteq Nat /\ IsFiniteSet(Slots) /\ Trays \subseteq Nat
ASSUME SlicerAssumption == "" \notin Machines

VARIABLES part,
  authored, slicerStore, slicing, hasStream, posted,
  slotOf, wanted, unknown, trays, chosen, origin, mapping, print, emptied,
  upload, tracked, aged, thread, cache, commanded, shared,
  lanStatus, cloudStatus, lanUp, lanFresh,
  mode, file, configs, lanClients, relays, cameras, fileReady, announced, waiting, account,
  active, staging, pinned, installer, fetched, fetchCount, startCount, cdnFailed

slicerVars == <<authored, slicerStore, slicing, hasStream, posted>>
mappingVars == <<slotOf, wanted, unknown, trays, chosen, origin, mapping, print, emptied>>
uploadVars == <<upload, tracked, aged, thread, cache, commanded, shared>>
reportVars == <<lanStatus, cloudStatus, lanUp, lanFresh>>
registryVars == <<mode, file, configs, lanClients, relays, cameras, fileReady, announced, waiting, account>>
installVars == <<active, staging, pinned, installer, fetched, fetchCount, startCount, cdnFailed>>
suiteVars == <<part, vars, slicerVars, mappingVars, uploadVars, reportVars, registryVars, installVars>>

\* The values of FileName and TypeOf in the run: uploads of one name; petg is of
\* another type than the other two.
OneName == [u \in UploadIds |-> "f"]
TwoTypes == [f \in Filaments |-> IF f = "petg" THEN "PETG" ELSE "PLA"]

C == INSTANCE SlicerCalls WITH Filaments <- Picks
M == INSTANCE FilamentMapping
U == INSTANCE Uploads
S == INSTANCE PrinterReports
R == INSTANCE PrinterRegistry
I == INSTANCE PluginInstall

\* A part that is not exercised is off.
Off(variable) == variable = "off"

SuiteInit ==
  /\ part \in {"jobs", "slicer", "mapping", "upload", "reports", "registry", "install"}
  /\ Init
  /\ IF part = "slicer" THEN C!Init
     ELSE Off(authored) /\ Off(slicerStore) /\ Off(slicing) /\ Off(hasStream) /\ Off(posted)
  /\ IF part = "mapping" THEN M!Init
     ELSE /\ Off(slotOf) /\ Off(wanted) /\ Off(unknown) /\ Off(trays) /\ Off(chosen)
          /\ Off(origin) /\ Off(mapping) /\ Off(print) /\ Off(emptied)
  /\ IF part = "upload" THEN U!Init
     ELSE /\ Off(upload) /\ Off(tracked) /\ Off(aged) /\ Off(thread) /\ Off(cache)
          /\ Off(commanded) /\ Off(shared)
  /\ IF part = "reports" THEN S!Init
     ELSE Off(lanStatus) /\ Off(cloudStatus) /\ Off(lanUp) /\ Off(lanFresh)
  /\ IF part = "registry" THEN R!Init
     ELSE /\ Off(mode) /\ Off(file) /\ Off(configs) /\ Off(lanClients) /\ Off(relays) /\ Off(cameras)
          /\ Off(fileReady) /\ Off(announced) /\ Off(waiting) /\ Off(account)
  /\ IF part = "install" THEN I!Init
     ELSE /\ Off(active) /\ Off(staging) /\ Off(pinned) /\ Off(installer) /\ Off(fetched)
          /\ Off(fetchCount) /\ Off(startCount) /\ Off(cdnFailed)

SuiteNext ==
  /\ UNCHANGED part
  /\ IF part = "jobs" THEN Next ELSE UNCHANGED vars
  /\ IF part = "slicer" THEN C!Next ELSE UNCHANGED slicerVars
  /\ IF part = "mapping" THEN M!Next ELSE UNCHANGED mappingVars
  /\ IF part = "upload" THEN U!Next ELSE UNCHANGED uploadVars
  /\ IF part = "reports" THEN S!Next ELSE UNCHANGED reportVars
  /\ IF part = "registry" THEN R!Next ELSE UNCHANGED registryVars
  /\ IF part = "install" THEN I!Next ELSE UNCHANGED installVars

SuiteSpec == SuiteInit /\ [][SuiteNext]_suiteVars

\* Every step of the jobs is one of the lifecycle's, or changes no job's status
\* (SliceJobs!ImplementsLifecycle, which the run with two workers checks as it is).
StepsImplementLifecycle ==
  [][part = "jobs" => Lifecycle!Next \/ UNCHANGED [j \in Jobs |-> JobStatus(j)]]_vars

\* What a request asks of the slicer reaches it: picks, the centering of a project
\* made for another machine, and its token, unless another request for the same
\* file deletes that (slicer_client.py:174, main.py:3012-3019).
RequestsKeepTheirs ==
  part = "slicer" => C!RetargetsAreCentered /\ C!PicksStay /\ C!LostOnlyToAnother

\* The array sent to the printer has the selected tray for each slot
\* (filament_selection.py:126-133).
SlotsGetTheirTrays == part = "mapping" => M!SlotsGetTheirTrays

\* A print is sent with trays that the printer shows when it is sent, but for a
\* spool taken away during its own upload, and what the gateway matched is printed
\* from a tray that suits it, in projects without gaps (main.py:2305-2335,
\* print_file and _print_finished_job).
PrintsFromItsTrays == [][part = "mapping" => M!SendsShownTrays /\ M!HitsItsFilament]_mappingVars

\* What the tracker says of an upload is true: a cancellation before the last
\* chunk keeps the print from starting, what failed was not told to the printer,
\* and an upload is found as long as it runs (upload_tracker.py:46-131).
TrackerTellsTheTruth ==
  part = "upload" => U!CancelInTime /\ U!FailedWasNotSent /\ U!RunningIsTracked

\* The printer is told to print the whole file of one upload (ftp_client.py).
PrintsWholeFile == [][part = "upload" => U!SendsWholeFile]_uploadVars

\* The status makes one consistent picture of the reports: LAN and cloud derive
\* the same, a printer that is paused or stuck says why, any other one says
\* nothing, and one at rest shows no job at 0 % (cloud_printer.py, handle_event;
\* mqtt_client.py:369-386).
StatusIsRight == part = "reports" => S!SamePicture /\ S!ErrorIsExplained /\ S!NoGhostJob

\* A report sets right what it reports and takes away nothing else: the full
\* report after a connection sets the state, a partial ams block keeps the units
\* (mqtt_client.py, parse_print_report and parse_ams_report).
ReportsHeal == [][part = "reports" => S!FullReportSetsState /\ S!KeepsUnits]_reportVars

\* Every configured printer has one client, made for its present address and
\* code, and these are the printers a restart would find (printer_service.py,
\* sync_printers; main.py:598, config_store.py).
RegistryAgrees == part = "registry" => R!ClientsFollowConfigs /\ R!FileIsRegistry

\* Account discovery keeps printers and addresses (cloud/discovery.py).
DiscoveryKeepsAddresses == [][part = "registry" => R!MergeKeepsAddresses]_registryVars

\* What the plugin host loads is one download, whole, and a gateway starts without
\* the plugin only for a cause of this start (plugin_downloader.py; main.py,
\* _start_cloud).
InstallIsSound == part = "install" => I!LoadedIsOneDownload /\ I!DegradedForCause
=============================================================================
