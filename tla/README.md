# Bambu Gateway: a TLA+ development

Bambu Gateway (`src/app`, Python, FastAPI on one asyncio loop) lets a browser
or a phone slice models and print them on Bambu Lab printers, over the LAN
(MQTT and FTPS) or through Bambu's cloud plugin (a C++ host process spoken to
over JSON lines).  This directory holds TLA+ models of its concurrent core,
the TLC runs that check them on small instances, and TLAPS proofs for every
value of the constants.

1. [Inventory](#1-inventory)
2. [The modules and the code](#2-the-modules-and-the-code)
3. [The runs](#3-the-runs)
4. [What the code does not keep](#4-what-the-code-does-not-keep)
5. [The proofs](#5-the-proofs)
6. [What is not modelled](#6-what-is-not-modelled)
7. [Plan](#7-plan)

## 1. Inventory

| component | state | operations | hard parts | correct when | module |
|---|---|---|---|---|---|
| Slice jobs (`slice_jobs.py`, handlers in `main.py`) | records in memory and in `slice_jobs.json`, input and output blobs, a queue, cancel events | submit, cancel, delete, clear, print, workers, recovery, stop | workers, requests and upload threads interleave; kills between two writes; cancellations race uploads | one worker per job; records refer to existing blobs; every job settles | `SliceJobs`, `SliceJobLifecycle` |
| Slicer client (`slicer_client.py`, its callers in `main.py`) | the slicer's tokens, what each request holds, the cached stream support | parse, prepare, slice, resolve filaments, centering | equal files share a token; a decision taken before the project is rewritten is used after | picks and centering reach the slicer; no token is lost but to another request | `SlicerCalls` |
| Filament mapping (`filament_selection.py`, `print_file`) | selections, cached trays, `ams_mapping` | select, match, validate, build the array | positions are not slots; trays change between the job, its print and the end of its upload | each slot gets the tray selected for it, of those shown | `FilamentMapping` |
| Print submission (`printer_service.submit_print`, `cloud/submit.py`, `cloud/cloud_printer.py`) | one in-flight slot per cloud printer | upload, send the print command, progress frames | failure half way, time-outs, late frames | a submission ends with the verdict of its own job | `SliceJobs` (as part of a job), `CloudPrint` (frames) |
| Uploads (`upload_tracker.py`, `_background_submit`, `ftp_client.py`) | uploads with status, the file on the printer | create, advance, cancel, fail, complete, expire, chunks | status overwritten by late writers; a cancellation between a chunk and its callback | a timely cancellation keeps the print from starting; what is printed is whole | `Uploads` |
| Plugin host RPC (`cloud/plugin_host.py`) | request ids, pending futures, reader task | call, read loop, stop | late answers, reader death, cancelled callers | whoever waits is heard, and every call ends | `PluginHost` |
| Cloud session (`cloud/session.py`, `auth.py`, `auth_routes.py`, `profile_store.py`) | the plugin's account and connection, subscriptions, the profile | login, logout, status, connect, subscribe, restart | overlapping requests, time-outs of calls the host still takes, lost connections | the account shown is the plugin's; connected means live | `CloudSession` |
| Plugin download (`cloud/plugin_downloader.py`) | `staging/`, `active/`, the manifest | check, fetch, validate, swap | kills between any two file operations, damage, upgrades, a failing CDN | what is loaded is one complete download | `PluginInstall` |
| Event pump and event queue (`cloud/event_pump.py`, C++ `event_queue.hpp`, `plugin_loader.cpp`) | bounded queue, print worker | push, poll, dispatch | dropped events, late polls, unstamped frames | a verdict is not lost without a cause | `CloudPrint` |
| Camera proxy (`camera_proxy.py`) | viewers, upstream task, drain timer | subscribe, drain, reconnect, stop | a viewer arrives while the drain runs | one connection, viewers served, it ends at last | `CameraProxy` |
| LAN MQTT client (`mqtt_client.py`) | paho client, status, idle timer, leases | start, stop, lease, callbacks | three kinds of threads; check-then-act around the lock | no open link is forgotten, none closes under a lease | `PrinterLink` |
| Status reports (`mqtt_client.py`, `cloud/cloud_printer.py`, `preparation_stages.py`) | `PrinterStatus`, the raw `gcode_state` | merge of partial reports, state derivation, AMS | fields come in different reports, or are missed | LAN and cloud show the same; errors and jobs fit the state | `PrinterReports` |
| Commands (`printer_service.py`, `set_ams_filament`, `_run_control_command`) | last acknowledgement per command, optimistic speed and its hold | publish, retry, await, hold | acknowledgements of other writers, lost answers, retries | an answer belongs to its command; the status settles | `PrinterCommands` |
| Print event broker (`print_tracking.py`) | accumulated report, snapshot, sources, sequence, subscribers | update, register, enrich, subscribe, lease transfer | job boundaries in partial reports; delayed metadata; delivery outside the lock | a snapshot is of the print it shows; the newest arrives; leases follow subscribers | `PrintSnapshots`, `SnapshotDelivery`, `PrinterLink` (leases) |
| Notifications (`notification_hub.py`, `device_store.py`) | fingerprints, 30 s window, devices, activities | detect, filter, dispatch, register | two filters in a row, repeated transitions, changing tokens | first transitions are sent, once; activities end with their print | `Notifications` |
| Printer registry (`printer_service.sync_printers`, `ssdp.py`, `cloud/discovery.py`, `config_store.py`) | `printers.json`, configurations, LAN and cloud clients, camera proxies | settings, sync, SSDP, discovery, start | several writers load, modify and save; failing and cut-off writes | one client per printer, for its address; the file is the registry | `PrinterRegistry` |

How they interact.  All asyncio code runs in one loop: handlers, slice workers,
the camera proxies, the event pump and the plugin host's reader task.  Upload
threads (FTPS), one network thread per MQTT client, idle timers, executor
threads and the hub's thread run beside it.  `printer_service` calls down into
the MQTT clients and the cloud printers; an MQTT client calls back the hub
(status changes) and the broker (print reports) in its network thread; the
event pump calls the cloud printers.  The slice workers and print requests
share `submit_print`; what they submit was sliced by the calls of `SlicerCalls`,
carries the array of `FilamentMapping`, is registered with the broker, and
comes back as the reports that the broker, the hub and the dashboard read.
SSDP, discovery and the settings endpoints meet in `sync_printers`.

`PROJECT.json` lists every component with its status, and every hazard of the
code, at its line, with the properties that would catch it.

## 2. The modules and the code

`map` in `PROJECT.json` names the lines behind every definition.  In all
modules an action is what runs without interruption: in the event loop the
segment from one await that really suspends to the next, in a thread what it
does under one acquisition of a lock or in one call of a library.

**`SliceJobs`** - `SliceJobStore`, `SliceJobManager` and the handlers of
`/api/slice-jobs`, `/api/print` and `/api/print-sessions`.  A job record is one
Python object shared by all tasks: `obj[j]` is that object, `stored` the keys
of the store's dict, `disk[j]` the record in `slice_jobs.json` (every flush
rewrites the whole file, so it also saves what other tasks changed in memory
only), `input` and `output` the blobs on disk.  `queue` and `cancelEv` are the
manager's queue and cancel events.  A worker task or request is at `pc[s]` with
a job and, when it submits a print, at `sub[s]` of the submission: for a LAN
printer connect, chunks, uploaded, print command; for a cloud printer the slot,
the plugin's upload, the terminal frame.  `Crash` may cut a segment that writes
several files; `Shutdown` puts the pills behind the queued jobs; `Boot`,
`RecoverJob` and `StartWorkers` are a start.  Modelling assumptions: a job id is
used once (uuid4); the one second that DELETE waits is enough for a worker to
see the cancel event while it slices, not to end an upload (a network wait in
another thread).  The slicer's stream is over when the worker is woken, not when it
ends (`ended`), and a cancellation that came in between wins; closing the stream
never suspends, so it is no step of its own.  Progress percentages, thumbnails and
log parsing are left out, and so is a LAN link that is lost right before the print
command, where `publish` returns in silence (`Uploads` has it).

**`SliceJobLifecycle`** - what the jobs' users may rely on: the status machine
of `SliceJobStatus`.  `SliceJobs!ImplementsLifecycle` is the refinement: the
life of a job is the status of its object while the store or a task has it, of
its record on disk while the process is down.

**`PluginHost`** - `PluginHost.call`, the reader task and `stop()`.  `fut[r]` is
the future of request `r`, `pending` the dict `_pending`.  `Timeout` cancels the
future as `wait_for`'s timer does; the task resumes in `Expire`, and between
the two the answer may come.  `ReadAnswer` raises out of the reader when it
meets a cancelled future, as `set_result` does.  A line that is not JSON, which the
reader skips, is left out: the host keeps its channel free of other output.

**`CloudPrint`** - above those calls: `submit_print` with its slot and inbox, the
host's serial request loop, the single print worker of `plugin_loader.cpp`, the
bounded queue of `event_queue.hpp`, and the pump.  A frame is its job, its
stage, and whether it carries a `dev_id`; any other event is a `Report` that only
takes room.  That a frame belongs to a job is history: the code routes by
`dev_id`, and so does `Route`.

**`CameraProxy`** - tasks are numbered; `up[t]` and `drain[t]` say where each
upstream and each drain task is, `upTask` and `drTask` are the two attributes.
A cancelled task learns of it at its next step, and one that has a connection
open closes it first; the drain swallows its own cancellation while it awaits
the upstream.  `stop()` is a process of its own with a step per await.

**`PrinterLink`** - `BambuMQTTClient`'s connection on demand (`start`,
`ensure_connected`, `stop`, idle timer, leases), the broker's leases
(`subscribe`, `register_source`) and the replacement of a client in
`sync_printers`, which blocks the loop.  Threads are the executor jobs of the
streams, users of the printer, the event loop, one network thread per paho
client, and one timer thread per link.  A client that leaves cancels its stream's
task, so that the await of either executor job, the one that takes the lease or the
one that gives it back, may be given up: `Abandon`, `DropRelease`.  Assumptions: `connect`, `loop_start` and
the timer are one step; n leases are given back in one step; a timer's thread
ends before the next timer (20 s later) fires; partial status reports are not
distinguished.

**`Notifications`** - reports with some of the fields of a status are merged into
it as the parser does (`Heard`, `Told`), and the change becomes events
(`detect_events`) in the network thread; the hub's thread takes them from a queue
through two filters (fingerprint per printer and type; 30 s window) and pushes
alerts, starts, updates and ends of Live Activities, one push a step, while phones
register, change tokens and drop activities.  `Fingerprint` has the three cases of
`_job_fingerprint`: the start time (the number of the print), else the file, else
nothing where the status has no job.  The state may come before the start time of a
new print, or without any; progress may stay at 0 % to the end, which takes the job
away; a printer may go on after an error.  The window's expiry is a choice: any
entries may be old when the filter is asked.  A file stands for its name and its
number of layers.  The 10 s progress ticks and the slice-job notifications are left
out.

**`SlicerCalls`** - what one print asks of the slicer.  A content is a file and
the machine written in it; the slicer's store is the set of contents it holds a
token for, since equal bytes share one.  `parse_3mf` uploads and deletes its
token; a job's preparation uploads the source again, decides about centering on
the original, has it rewritten for the target (`Prepare`) and downloads that; the
worker uploads what was prepared, resolves filaments, and posts.  Every call may
fail.  `shared` marks a request that met another one for the same file, `blind`
one whose inspection failed.

**`FilamentMapping`** - positions of a project's filaments, the slots their G-code
names, and the trays a printer shows.  `Select` and `AutoMatch` choose,
`TraysChange` is the user.  `BeginUpload` validates again and builds the array, the
upload takes its time in another thread or in the plugin, and `SendPrint` sends the
array as it was built; `emptied` remembers the trays whose spool went meanwhile.

**`Uploads`** - upload state, registry and executor thread of each background
upload.  A chunk is on the wire before it is counted; `Advance` counts it and is
where a cancellation is noticed.  `cache` is the file on the printer.  `Command` may
send nothing: `publish` returns in silence where the link is gone.

**`PrinterReports`** - one printer reached by LAN and by cloud.  `Apply` is the
parser that both clients share; LAN connections get lost, and a full report
follows each.

**`PrinterRegistry`** - `printers.json`, the registry's list, the clients made from
it, SSDP announcements on their way, and a discovery's answer while it waits for
the slicer.  `Sync` is `sync_printers`, and every writer goes through `Change`:
save, then sync, without an await.  A write may fail or be cut off.

**`PrinterCommands`** - requests that publish a tray assignment or a speed, a relay
and answers that may be lost, the single slot per command name in
`_command_acks`, and the speed that is shown at once and held.

**`CloudSession`** - the account, connection and subscriptions inside the plugin,
and the tasks that call it.  Calls are served in order and answered in order;
a task that gives up does not take its call back.  `TaskSees` is what a task does
with an answer: one disjunct for each place it can be at and each answer it can
get there, so that no two are enabled at once.  The plugin is a current one:
`session.py:77-80` goes on at once with an older one that cannot tell whether it is
connected, and then nothing is known of the subscription.  A selection that
times out (`session.py:135`) is one that the host refuses.

**`PluginInstall`** - `ensure_active` as a sequence of single file operations, with
`Killed` between any two, `Damage` and `Upgrade` between starts.

**`PrintSnapshots`** - the printer with its prints and partial reports, and the
broker that accumulates them: job keys, boundaries, sources of submissions,
and the metadata fetched for cloud prints, whose answers come late.  A command
that starts a print is repeated by the printer among its reports: while the print
runs (`Report`), and, for the gateway's own, before it does (`CommandIsRepeated`).
One number stands for `task_id`, `subtask_id` and `gcode_start_time`.
**`SnapshotDelivery`** is the way of a finished snapshot to a subscriber: built
under the lock, fanned out after it, by three threads.

**`MC*`** give the specifications small constants.  Four of them are suites:
`MCJobs`, `MCPrints`, `MCAnswers` and `MCPrinterLink` put several small components
in one run.  Their variable `part` is chosen by the initial state and never
changes; the components share no variable, a component that is not exercised is
"off" (or rests), and a property of one component is guarded by its `part`.  The
run is therefore the union of the components' own runs, with state spaces that
add up instead of multiplying; nothing is composed that interacts in the code.
What a component is parameterised by (`FileName`, `TypeOf` and `Picks` in `MCJobs`,
say) is a constant of the suite, too, so that the theorems are about every value.
**`*_proofs`** hold the theorems of section 5, next to the module they are about:
`SliceJobs_proofs` and `SliceJobsOutcome_proofs`, `MCJobs_proofs`, `MCAnswers_proofs`,
`CameraProxy_proofs`, `CloudPrint_proofs`, `MCPrinterLink_proofs`, `MCPrints_proofs`.

A property that runs check is often a named conjunction (`SentRightly` is
`HandedWasSliced` and `CancelledWasNotSent`); its conjuncts are stated and
explained one by one in their module.  Operators marked "Mutant" are not part of
a specification: each is a definition as a plausible bug would have it (a
dropped guard, a missing reset, a swapped order), and `mutants` in `PROJECT.json`
says which property TLC finds violated with it.  Every property of a passing run
has one.

## 3. The runs

| run | instance | shows | states |
|---|---|---|---|
| `jobs` | jobs: 2, 1 worker, 1 request, a LAN printer, 1 restart | `TypeOK`, `RecordHasBlobs`, `NoOrphanBlobs`, `NoJobIsForgotten`, `SentRightly`, `StepsImplementLifecycle` | 1.3M in all |
| | slicer: 2 requests for 1 file, 2 machines | `RequestsKeepTheirs` | |
| | mapping: slots 0-2, an AMS tray and the external spool, 3 filaments of 2 types | `SlotsGetTheirTrays`, `PrintsFromItsTrays` | |
| | upload: 2 uploads of one name, 2 chunks | `TrackerTellsTheTruth`, `PrintsWholeFile` | |
| | reports: 3 G-code states, 2 stages, partial reports of one field | `StatusIsRight`, `ReportsHeal` | |
| | registry: 2 printers, 2 addresses, writes that fail | `RegistryAgrees`, `DiscoveryKeepsAddresses` | |
| | install: 2 versions, 2 downloads, 3 starts | `InstallIsSound` | |
| `slice_jobs_workers` | 2 jobs, 2 workers, 1 request, a cloud printer, unreadable blobs | `OneOwner`, and the refinement `ImplementsLifecycle` | 62k |
| `slice_jobs_live` | 2 jobs, 2 workers, a LAN printer, 1 restart, fair | `JobsSettle`, `StopEnds` | 72k |
| `answers` | host: 2 tasks, 3 calls; commands: 2 requests, 2 sends, 2 attempts; fair | `PendingIsExact`, `CallsEnd`; `AnswersAreOwn`, `ShownSettles` | 342k |
| `cloud_print_frames` | 2 printers, 2 submissions, queue of 2, polls of 1, 1 time-out, fair | `SubmissionsApart`, `VerdictOnItsWay`, `SubmissionsEnd` | 452k |
| `camera_viewers` | 2 viewers, 3 subscriptions, 3 frames, queue of 2, fair | `NewestFramesWait`, `UpstreamIsOwned`, `ViewersServed`, `EndsAtLast` | 252k |
| `printer_link_leases` | link: 2 links, 2 paho clients, 2 streams, 1 use or lost connection; session: 2 requests, 2 accounts, 2 devices, 1 lost connection, 1 restart | `IdleTimerFits`, `LoopsAreOwned`, `LeasesMatch`; `SessionIsAsShown` | 2.2M |
| `prints` | events: 1 printer, 1 file, 2 prints, 3 changes, reports of 4 forms with and without start time, 2 lost connections, no phone | `EachTransitionOnce` | 1.9M in all |
| | push: the same with reports of 2 forms, no lost connection, 1 phone, 2 tokens | `NoActivityOutlivesItsPrint`, `FreshTokensSurvive` (and `EachTransitionOnce`) | |
| | prints, metadata: 2 prints, 2 submissions, 2 names, 4 reports of 6 forms; with metadata 2 reports of 2 forms and 1 fetch | `SnapshotIsOfThisPrint` | |
| | delivery: 3 threads, 6 snapshots, a queue of 3 | `NewestArrives` | |
| `slice_jobs_resurrect`, `slice_jobs_busy`, `camera_starved`, `plugin_host_cancelled` | see section 4 | one violated property each | |

Why the bounds are enough.  Two jobs and two workers (or a worker and a request)
meet in every way this code lets two actors meet: they share a queue, a file or
a printer, and no guard counts beyond two.  One restart suffices for
recovery, which depends on what is on disk only; what a second restart would
find is a record that was recovered, terminal or queued, as the first may find
it.  Three subscriptions let a viewer arrive while the drain of an
earlier one closes and another come after it.  A queue of two, filled by the
frames of one submission and any other event, overflows.  Two links are one
replacement; with two paho clients both the check-then-create race and a
reconnection after idling happen.  Two prints of one file and two lost
connections let a state be reported twice for one print and once for the next, and
let the second be mistaken for the first; three changes start a print, end it and
start another.  The forms of `StatusForms` have everything, everything but the start
time, the start time without the state, and the state alone, which is how a state
comes before its job.  Phones need fewer: of what they are told, only what the
filters let through matters.

Two requests for one file are what shares a token; two machines let a file be
made for the target or for another.  Three slots of which a project uses some
give every gap, before, between and after.  Two chunks have a first one, after
which a cancellation is in time, and a last one.  One upload is enough for a spool to
be taken away, and to be put back.  The reports' instance keeps the
states that `determine_state` tells apart by their order of precedence, and
reports of single fields, because two fields at once are two such reports; the
full report after a connection has all of them.  Three starts are a first
installation, one that was killed, and one that finds what is left.  Two prints
are a boundary; four reports are two for each, with fields that outlive the
first.  The forms of reports are the initial one, with the id, and those with one
field that a boundary must tell apart, and the print command with the id and with a
file's name in its place; where metadata is fetched two forms do,
one that has the id and one that has not.  A mailbox of three is the least in which the newest snapshot is safe
from three threads that are late with one each (`QueueLimitAssumption`; the code
has 32): with a shorter one, or with more producers, it is not.

Deadlock checking is off where an instance stops when its bounds are used up or
its processes have stopped (`stop()` returned, no job left).

**Fairness.**  Tasks of the event loop are weakly fair: the loop runs whatever is
ready.  `SliceJobs` adds strong fairness of `SlicerEnds`: a stream may send
progress for a long time but ends (the HTTP client has a time-out); and that the
supervisor restarts a gateway that went down.  The fairness is strong because a
progress event has to be taken first, so that a stream's end is not enabled all the
time until it comes.  `CameraProxy` assumes that connecting, closing, the grace period and the retry delay end; viewers, the camera and the caller of
`stop()` owe nothing.  `PluginHost` assumes that the host's loop answers (its
loop catches errors) and that `stop()` kills a host that does not exit; no call
is assumed to time out.  For the commands of `MCAnswers` the deadline of a hold
passes, messages that wait arrive, the printer reports again and again and does
not ignore for ever what reaches it (its answer, though, may be lost every
time); no request need be made.  `CloudPrint` assumes that the plugin's `start_print`
returns; again no time-out need fire.  The other modules
state no liveness.

**Conditions in properties.**  Some properties name the condition under which
they hold as a history variable, because the code breaks them otherwise, in a
way that is described in section 4: `raced` in `CameraProxy`; `overtaken`,
`crossed` and `abandoned` in `PrinterLink`; `lost` and `strayed` in `CloudPrint`;
`shared` and `blind` in `SlicerCalls`; `shared` in `Uploads`; `emptied` in
`FilamentMapping`; `strayed` and `missed` in `PrintSnapshots`; `blurred` and
`endings` in `Notifications`; `brokenOff` in `CloudSession`; projects without gaps in
`HitsItsFilament`; an intact file in `FileIsRegistry`.
Each of these situations is reached in its run, so the properties also say that
nothing else breaks them.  `CancelledWasNotSent` and `ActiveIsOwned` hold where
their run puts them: LAN targets, and readable blobs.  The `prints` run ends a
behaviour where the broker loses track of a submission (`Followed` is no longer true):
a submission met a busy printer, got lost or was overtaken by another submission or
another slicer's print (`strayed`), its repeated command was taken for the start of a job (`strayed`), or a print ended
that no report told of by id (`missed`).  What follows then is described below,
and nothing is claimed of it.

## 4. What the code does not keep

Four runs show a statement of the documentation or of a comment violated:

- `slice_jobs_resurrect` / `DeletedStaysDeleted` - DELETE is documented as
  "cancel (if active) + delete record + blobs".  It waits one second and deletes
  whatever the worker does; one whose upload thread has not met the cancel flag by
  then goes on, ends with an unconditional `upsert`, and the record is back without
  its blobs.
- `slice_jobs_busy` / `BusyPrinterIsLeftAlone` - `_is_printer_idle` tests
  `gcode_state`, an attribute `PrinterStatus` does not have, so that every online
  printer counts as idle and a job is uploaded to a printing one.
- `camera_starved` / `EveryViewerServed` - a viewer that arrives while the drain
  awaits its cancelled upstream finds the task not done, starts none, and the
  drain then resets `_upstream_task`.
- `plugin_host_cancelled` / `CallsAreIndependent` - the answer to a call whose
  task was cancelled meets a cancelled future; `set_result` raises, the reader
  ends, and every later call fails although the host lives.

Met while modelling and kept as conditions or notes, without a run of their own:

- Slice jobs: a LAN print request records the job as printed before its upload
  begins; a restart enqueues a session created with `slice=false`; recovery
  fails a job but keeps its output blob, which stays printable; a cancellation
  during a cloud upload is accepted and has no effect.
- Camera: the drain that swallowed its cancellation resets `_upstream_task` over
  a task that a new viewer started meanwhile, so that a second connection may be
  opened beside it (`raced`).
- Cloud: when the plugin throws, `plugin_loader.cpp:798-804` makes up an error
  frame without `dev_id`, which goes to the first client with a submission
  (`strayed`); the full event queue drops its oldest event (`lost`), although
  `event_queue.hpp:19` calls that safe.
- Printer link: an idle timer that has fired closes a link that was leased
  meanwhile, although leases are there so that "the normal UI-driven idle timer
  cannot disconnect it" (`mqtt_client.py:637`); `start()` tests `_client` under
  the lock and creates one outside it, and `stop()` may take a client that is
  still connecting: either leaks a network loop (`overtaken`); `stop()` reports
  offline after a new client connected; a stream cancelled while it takes its
  lease never gives it back, and one cancelled before an executor thread has taken up
  its release does not either (`print_tracking.py:516-521`), which is how a stream
  normally ends (`main.py:836-847`): the link then stays open (`abandoned`).  One that registers after its link
  was replaced gives back the wrong link's lease (`crossed`); a failed `connect`
  leaves `_client` set until the idle timer runs.
- Slicer: two requests for the same file share its token, and the one whose
  parse ends first deletes it under the other (`shared`); the first probe for
  streaming counts for the life of the process, also if it was a network error.
- Filaments: the automatic match keys its choices by the authored slot
  (`main.py:2318`), and `build_ams_mapping` reads them by position, so that trays
  get mixed up in projects whose slots have gaps.  Trays are validated before the
  upload and not after it: a spool taken away meanwhile is printed from (`emptied`).
- Uploads: two background uploads of one file name overlap on the printer
  (`shared`); a cancellation after the last chunk is shown although the print
  starts, and `complete` then overwrites it; an upload counts as completed although
  its print command was not sent, because the link was gone (`mqtt_client.py:787-797`).
- Registry: the announced address of an unknown serial is remembered before
  `_on_ssdp_found` looks for it, so that it is lost for a printer added later; in
  the cloud, camera proxies outlive their printer and its address; a failing
  save leaves `printers.json` cut off.
- Commands: a tray that already had the wanted filament confirms a command
  that was lost; whether the printer took it cannot be told then.
- Session: a login broken off after `change_user` leaves the old profile
  (`brokenOff`); a printer added while a login's handshake runs stays silent
  (`main.py:2790`); after a login by paste no keepalive task is started.
- Plugin: a manifest that is not text raises past every repair, at every start.
- Broker: a submission that met a busy printer waits, and its file and mapping are
  offered for the next print that fits, although `src/README.md:190` promises the
  file of the active job.  So it is with one that got lost, and with one that was
  printed but failed before a report showed it active with its id:
  `_pending_source` stays (`print_tracking.py:303-313`), and the next print, of another
  name, adopts it (`print_tracking.py:412-436`).  The gateway's own `project_file`, which
  the printer repeats with "0" for ids, is taken for the start of a job when the old
  print's name came back after `register_source`: what the old print reports from then
  on without its id is shown as the new one's.  A job whose id is not yet known gets
  a key from its name, and keeps it; the next print of that name has the same one, so
  that metadata fetched for the first may be attached to the second, although
  `enrich_job` says that "job-key validation prevents a delayed cloud response from
  contaminating a replacement print" (`print_tracking.py:329`).  So may metadata of a
  file submitted twice; `UsageOfThisPrint` claims the rest.
- Notifications, what tells prints apart: a print that is cancelled or ends at 0 %
  has no job and so no fingerprint, and every reconnection more than 30 s later sends
  "Print cancelled" again, against the comment at `notification_hub.py:33-37`.  Prints
  of one file without `gcode_start_time` have one fingerprint: the second's start and
  finish are swallowed, and its Live Activity never ends.  A state that is reported
  before the new start time carries the old print's fingerprint: the start of the new
  print is then swallowed.  A fingerprint by name between two by start time lets a
  transition pass twice (`blurred`).  A second pause or resume of one print is swallowed,
  too.
- Notifications, other: nobody calls the hub when a connection is lost, so the offline
  alert that `src/README.md` and `src/docs/APNS.md` promise is never produced; an end
  that came while the link was down, with another print begun since, is never seen
  and leaves its Live Activity; a print that goes on after an error has lost its
  activity; `remove_activity` goes by phone and printer and also removes an activity
  registered meanwhile; events queued at `stop()` are lost.

## 5. The proofs

Every safety property that a passing run checks is also a theorem: it holds for
every number of jobs, workers, viewers, threads, files, reports and restarts that
the constants can name.  The
theorems follow one scheme: an inductive invariant, the conjunction of named
parts; a lemma that the initial states satisfy it; a lemma per action, or per group of
actions, that a step keeps it; and a last step that combines them.  Properties
of steps follow from the same invariant.  What follows says for each component
what had to be added to the property, since that is what the code relies on.

**A suite's theorem.**  The components of a suite share no variable.  A component's
invariant is proved of its own `Init` and `Next`; `SuiteSpec` is then a behaviour of
one component, and `part = "x" => Inv` follows, since a step of the suite is a step
of that component or leaves its variables alone.

### Slice jobs

`SliceJobs_proofs`, under `SliceJobsAssumption` (the special values are not jobs or
printers, the two kinds of printers and of processes are disjoint, the set of
workers is finite):

- `TypeCorrect`: `TypeOK` is inductive because it says, in `ProcsOK`, what a worker
  or request holds at each place: without that, a worker that finishes an upload
  could have no job and `Upsert` would leave the type.
- `BlobsCorrect`: `RecordHasBlobs` is about records on disk, but a flush writes the
  objects in memory, and a worker's late `upsert` brings back an object whose
  record was deleted.  `BlobInv` therefore says of both that they are backed by
  blobs unless the job was deleted (`BlobsKept`), that every stored job and every
  job someone works on has an object (`ObjectsExist`), and that nobody works while
  the process is down or recovering (`NobodyWorks`), so that `Boot` may replace the
  objects.
- `OwnerCorrect`: a job enters the queue by `Submit`, which takes a fresh id, and by
  `RecoverJob`, which visits a job once.  `OwnerInv` adds to `BlobInv` that what has a
  record or is queued was submitted (`RecordsKnown`, `QueueKnown`), that the queue
  has no job twice, that workers hold different jobs that are not queued
  (`WorkersApart`), and that a job still to be recovered is not queued.

`SliceJobsOutcome_proofs`, on top of `OwnerInv`.  `StageInv` adds that the status of a
job fits who has it (`StagesFit`: a queued job is "queued", a worker's is "slicing" or
"uploading", a request uploads a job that is finished) and that the file on disk is
the dict of the process that runs (`DiskIsStore`).

- `LifecycleImplemented`: the refinement of `SliceJobLifecycle`.  One lemma per kind
  of step names the edge of the abstract machine it maps to, or shows that no
  status changes.  `Boot` changes none, and `Crash` and `Exit` at most forget jobs that
  were deleted, which a task still had or whose deletion was cut off: the abstract status moves from the object to the
  record on disk and back, and `DiskIsStore` says that the two are the same.
  `LifeInv` adds that what is left to be recovered is
  in the store.  `StepsCorrect` in `MCJobs_proofs` is its step half, in the suite.
- `NoOrphans`: until the first kill a blob belongs to a stored record, and an output
  blob to one that says it has an output (`BlobsOwned`).
- `HandedCorrect`: what was sent to any printer had its output blob first
  (`SlicedFirst`: who uploads has sliced, a record says "printed" only with an output).
- `SentCorrect`, with `CloudPrinters = {}`: a job that was sent is never recorded as
  cancelled (`SentIsKnown`: a worker that still uploads such a job has its submission
  behind it).  With a cloud printer the code does not keep this: a request or worker
  awaits the plugin, and a cancellation meanwhile is recorded although the plugin prints.
- `ForgottenCorrect`, with `~ReadMayFail`: `FateInv` combines `PillInv` (the pills are
  behind all jobs, and one for each worker still at work, so that no worker ends
  while a job is queued) with `Unforgotten` (a stored job in flight has a worker or is
  about to be recovered, one that is "queued" and not a session is in the queue).  A blob
  that cannot be read makes a worker leave the job as it is (`slice_jobs.py`), so
  the assumption is needed.

### What a print job relies on (`MCJobs_proofs`)

- `RequestsCorrect`: `SlicerInv` says what a request knows at each phase
  (`RequestFits`), that its token is in the store unless another one shared it
  (`TokenFits`), and that two requests under way for one file have both noticed
  (`shared`).  Assumes that "" is not a machine.
- `MappingCorrect`, `TraysCorrect`: the array reaches to the greatest slot and has what
  each position selects (`MappingIsBuilt`), because positions are ordered by slot.
  While it is uploaded, each of its trays is shown or was emptied since the upload began.
  Slots and trays are numbers, the slots a finite set.
- `TrackerCorrect`, `WholeFileCorrect`: `UploadInv` ties how far an upload is counted to
  where its thread is (`ThreadFits`), stops the count of a cancelled one
  (`CancelStops`), and says of an upload with a file of its own that the file has
  exactly the chunks that went out (`FilesApart`).
- `StatusCorrect`, `ReportsHealCorrect`: one report keeps type and fit of both statuses
  (`ReportApplied`); a full one makes them equal whatever was shown
  (`FullApplied`), a partial one keeps them equal.
- `RegistryCorrect`, `DiscoveryCorrect`: every writer goes through `Change`, and
  `ChangeKeepsRegistry` is proved once for any new list; nothing waits while the
  gateway is down.
- `InstallCorrect`: `AttemptFits` says what an attempt has in `staging/` at each step, and
  `SoundManifest` that a manifest which can be read, in either directory,
  describes a pair of files of one download: a kill between two renames therefore
  leaves either no manifest or one that finds the missing or foreign file.

### Whoever waits for an answer (`MCAnswers_proofs`)

- `HostCorrect`: ids are given out once (`IdsAreOwn`), and what is registered was not
  answered (`PendingIsUnanswered`).
- `AnswersCorrect`: a publication is on its way once and was not taken before
  (`OnTheirWay`); an acknowledgement, on the wire or in the slot of its command,
  tells whether the printer took its own publication (`AnswersTell`); a request
  waits for, or ended with, one that was made (`RequestsKnow`).

### Camera, cloud prints

- `CameraProxy_proofs`, for `CameraInv`: tasks are created one after the other
  (`InOrder`), unless `raced` the proxy's `_upstream_task` is the only one that has not
  ended (`OnlyUpTask`), an uncancelled one serves whoever watches (`UpTaskServes`), a
  cancelled one is awaited by a drain (`TasksAreKnown`), and `stop()` knows what it
  waits for (`StopKnows`).  Theorems `UpstreamCorrect`, `FramesCorrect`, `ViewersCorrect`.
- `CloudPrint_proofs`, for `CloudInv`: what host, worker and plugin know of a
  submission (`HostKnows`), that the verdict of a job is in one queue at a time and on
  the way to its own printer (`VerdictsKnown`), that one that is done has used up a
  verdict (`DoneKnown`), that later submissions for a printer were refused while one
  runs (`LaterAreRefused`), and that one which listens will hear (`AcceptedAreHeard`).
  Theorems `SubmissionsCorrect`, `VerdictCorrect`.

### Connections (`MCPrinterLink_proofs`)

- The LAN link: `TimerCorrect`, `LoopsCorrect`, `LeasesCorrect` from `LinkInv`.  A thread's
  place says what it has at hand (`Place`), a paho client that is not yet connected
  has one opener, which made it (`OpenersApart`), and, unless `overtaken`, made it for
  the link that has it (`OpensOwn`).  Leases are counted with those that the event
  loop has yet to take for the registered streams of a new client (`Owed`,
  `LeasesCount`); they are at least the subscribers that hold one, whatever was
  abandoned.  Assumes that the kinds of threads are apart, that there is a link,
  and finitely many streams.
- The cloud session: `SessionCorrect` from `SessionInv`.  A task has one call or one
  answer under way (`Fits`).  The account changes when the host takes a call, the
  profile only when the answer of a later call is seen: `AccountKept` therefore looks
  along the logins in between, in the order in which their answers and calls will be
  seen, and says that the last of them is of the account in use; a logout that was
  not yet seen was followed by one.  `Subscriptions` says how far a login has come with
  its printers, and that the connection is up unless it was lost since.

### What is told of a print (`MCPrints_proofs`)

- `NewestCorrect`: at most two threads are late with an older snapshot, since there are
  three and one made the newest; so the newest has at most two behind it, counting
  those to come (`NewestWaits`), and a full queue of three or more drops an older one
  first.  `QueueLimitAssumption`: the code has 32.
- `TransitionsCorrect`, `ActivitiesCorrect`, `TokensCorrect` from `PushInv`.  Start times
  only go up: a status has none that is later than its printer's (`StartsKnown`), what
  was detected and what is queued come in their order (`DetectedFits`, `QueueOrdered`),
  and none that waits is earlier than what the fingerprint filter last let through
  (`QueueFits`).  So what that filter drops was dispatched
  (`FiredFits`), what the window drops was dispatched (`PassedFits`), and a transition that
  passes again was followed by one that passed by the name of a file.  An end that was
  detected after an activity was registered, of its print, waits in the queue, or
  the hub is about to end the activity (`EndsAreComing`).  Of the constants it assumes
  `MaxTokens # 0`, that is, a phone has a token to give.

- `SnapshotCorrect` from `SnapInv`.  Merged report, key, sources and answers on their
  way each lag behind the printer in their own way, and agree only once it has told
  of its print: reported its id with an active state (`told`).  The invariant is claimed
  as long as submissions and prints are followed (`Followed`, section 3).  `ToldFits` and `ReportFits`: the fields merged are of
  the running print whenever the id does not say otherwise (`MayRun`), even while
  nothing shows it, because the next report may only add the id.  `KeyFits`: a job
  with the printer's id has it yet, or its print is over and the next one not
  told of (`Stays`).  `PendingFits`: the source that waits is one of four ways
  behind its print (`SourceWaits`).  Where the job has no key yet, no source is
  known but that of an earlier submission of the same name (`Unclaimed`).  The command
  that is repeated before its print changes only the name and the mapping, to the
  submission's (`SameJob`, `RepeatLeaves`).  `AnswersFit`: calls, fetches and answers asked for
  by a printer's key have its id; those asked for by a submission's key fit while
  there was one submission only.  `ShownFits` ties the snapshot to all this, and
  `SnapBounds` reads the property off.  `PrinterTells`, `UpdateIs` and `KeyOfReport` say
  what a report does, and the other lemmas about reports cite these three only.

  `FormsAssumption` is about the printer, since the code only receives what it
  sends: an id comes with the state or the print command.  With reports of an
  id alone, `update` sees no boundary (neither active nor a command) and merges the new
  id into the old print's fields; TLC finds that when the assumption is dropped.
  `BoundsAssumption` only says that `MaxPrints` is a number.

### What is only model-checked

- Liveness (`JobsSettle`, `StopEnds`, `CallsEnd`, `ShownSettles`, `SubmissionsEnd`,
  `EndsAtLast`): it rests on fairness, that is on `ENABLED`, for which the prover has
  no rules.

No module uses a recursive operator, and no theorem needs induction over data: the
one fact of that kind, that a set of numbers has a least (the tray that
`AutoMatch` takes), is the library's well-foundedness of the naturals.

## 6. What is not modelled

- Pure conversions: task metadata, print parameters, names of stages and error
  codes, `FrameParser`, G-code and 3MF parsing.  When metadata arrives is part of
  `PrintSnapshots`; what a frame is, of `CameraProxy`.
- Thin I/O: the APNs client with its token signing, FTPS downloads and TLS.
- The rest of the HTTP API: validation, response building, previews and STL
  drafts, which keep no state that two requests share; the read-only endpoints.
- The C++ host's `dlopen`, symbol tables and trampolines: bindings to a
  closed-source library.  Its request loop is part of `PluginHost`, its queue and
  print worker of `CloudPrint`.
- The Web UI, whose state follows the API.
- Identities in detail: every print of `PrintSnapshots` has an id, and the "0" ids in
  the gateway's own command (`mqtt_client.py:971-974`) are none, as in `update`.
  Repeated, they overwrite a known `task_id` and `subtask_id` (`_merge`), but not a
  `gcode_start_time`; in the model a known id stays.  A start time
  that the printer gives as "0" is a fingerprint like any other (`"start:0"`), the same
  for all prints; `Notifications` has that case only as prints of one file.
- Of modelled components: progress ticks and slice notifications of the hub, the
  file of the device store, the keepalive task, `stop_async`, temperatures and
  lights, the plugin's local link (which nothing calls), device certificates.

Two hazards are listed without a property: a kill between the print command
and the last flush of a slice job (`slice_jobs.py:914`), which the code cannot
tell from a kill before it; and the missing offline event of section 4.

## 7. Plan

Done: all components whose state two actors share are modelled, and all their
safety properties are theorems.

Left: prints that have no id of their own, which the broker tells apart by name
and state alone; the lemmas on which a proof of
`SubmissionsEnd` and `CallsEnd` would rest, as steps (what leads on is never undone),
so that only the use of fairness stays with TLC.
