----------------------------- MODULE CloudPrint -----------------------------
(***************************************************************************)
(* A print through the Bambu cloud plugin: CloudPrinterClient.submit_print *)
(* (app/cloud/cloud_printer.py), the plugin host's single print worker     *)
(* (plugin_loader.cpp), its bounded queue of events (event_queue.hpp) and  *)
(* the EventPump (app/cloud/event_pump.py) that polls the queue and hands  *)
(* every frame to the client of its printer.  The host serves one request  *)
(* at a time, in order; PluginHost models the calls themselves, so here a  *)
(* call is answered or times out.                                          *)
(***************************************************************************)
EXTENDS Naturals, Sequences, FiniteSets, SequencesExt

CONSTANTS
  Printers,     \* the cloud printers
  MaxSubs,      \* bound on submissions
  MaxQueued,    \* kMaxQueued
  MaxDrain,     \* kMaxDrain
  MaxProgress,  \* bound on progress frames under way
  MaxTimeouts   \* bound on calls and waits that time out

ASSUME CloudPrintAssumption ==
  /\ MaxSubs \in Nat
  /\ MaxQueued \in Nat \ {0}
  /\ MaxDrain \in Nat \ {0}
  /\ MaxProgress \in Nat
  /\ MaxTimeouts \in Nat

Subs == 1..MaxSubs
None == 0

(* A frame of the plugin: the submission whose job it is about, its stage, *)
(* and whether it carries that job's dev_id.  A report is any other event. *)
Stages == {"progress", "finished", "error"}
Frames == [job : Subs, stage : Stages, stamped : BOOLEAN]
Report == [job |-> None, stage |-> "report", stamped |-> TRUE]
Poll == 0                  \* the request of the pump's current poll
LatePoll == MaxSubs + 1    \* that of a poll that timed out

VARIABLES
  sub,       \* where each submission is, and how it ended
  dev,       \* its printer
  rc,        \* the host's answer to its start_print
  slot,      \* slot[p]: the submission that owns p's _progress
  inbox,     \* the frames in that queue
  requests,  \* requests the host has not served
  worker,    \* the submission in print_in_flight_'s worker thread
  wpc,       \* where that thread is
  events,    \* the event queue
  pump,      \* where the pump is
  batch,     \* events it has received and not dispatched
  finished,  \* history: submissions whose job the plugin finished
  lost,      \* history: submissions whose terminal frame was dropped
  strayed,   \* history: submissions whose terminal frame reached another one
  timeouts   \* timeouts so far

clients == <<sub, dev, slot, inbox>>
host == <<requests, worker, wpc, events>>
pumping == <<pump, batch>>
history == <<finished, lost, strayed, timeouts>>
vars == <<clients, rc, host, pumping, history>>

Ended == {"done", "error", "refused", "raised"}

TypeOK ==
  /\ sub \in [Subs -> {"none", "calling", "listening"} \cup Ended]
  /\ dev \in [Subs -> Printers \cup {None}]
  /\ rc \in [Subs -> {"none", "ok", "busy"}]
  /\ slot \in [Printers -> Subs \cup {None}]
  /\ inbox \in [Printers -> Seq(Frames)]
  /\ requests \in Seq({Poll, LatePoll} \cup Subs)
  /\ worker \in Subs \cup {None}
  /\ wpc \in {"idle", "printing", "reported", "returned"}
  /\ events \in Seq(Frames \cup {Report})
  /\ Len(events) <= MaxQueued
  /\ pump \in {"polling", "dispatching"}
  /\ batch \in Seq(Frames \cup {Report})
  /\ Len(batch) <= MaxDrain
  /\ finished \subseteq Subs
  /\ lost \subseteq Subs
  /\ strayed \subseteq Subs
  /\ timeouts \in 0..MaxTimeouts

Init ==
  /\ sub = [s \in Subs |-> "none"]
  /\ dev = [s \in Subs |-> None]
  /\ rc = [s \in Subs |-> "none"]
  /\ slot = [p \in Printers |-> None]
  /\ inbox = [p \in Printers |-> <<>>]
  /\ requests = <<>>
  /\ worker = None
  /\ wpc = "idle"
  /\ events = <<>>
  /\ pump = "dispatching"
  /\ batch = <<>>
  /\ finished = {}
  /\ lost = {}
  /\ strayed = {}
  /\ timeouts = 0

Terminal(f) == f.stage \in {"finished", "error"}
TerminalJobs(frames) == {f.job : f \in {g \in ToSet(frames) : Terminal(g)}}

-----------------------------------------------------------------------------
(* submit_print.                                                           *)

\* A printer whose slot is taken refuses (PRINT_IN_FLIGHT_CODE); nothing
\* suspends between that test and the request to the host.
Submit(s, p) ==
  /\ s = 1 + Cardinality({t \in Subs : sub[t] # "none"})
  /\ dev' = [dev EXCEPT ![s] = p]
  /\ IF slot[p] # None
     THEN /\ sub' = [sub EXCEPT ![s] = "refused"]
          /\ UNCHANGED <<slot, inbox, requests>>
     ELSE /\ sub' = [sub EXCEPT ![s] = "calling"]
          /\ slot' = [slot EXCEPT ![p] = s]
          /\ inbox' = [inbox EXCEPT ![p] = <<>>]
          /\ requests' = Append(requests, s)
  /\ UNCHANGED <<rc, worker, wpc, events, pumping, history>>

\* The submission ends: the finally clause gives up the queue.
Finish(s, how) ==
  /\ sub' = [sub EXCEPT ![s] = how]
  /\ slot' = [slot EXCEPT ![dev[s]] = None]
  /\ inbox' = [inbox EXCEPT ![dev[s]] = <<>>]

\* The answer to start_print.
Answered(s) ==
  /\ sub[s] = "calling"
  /\ \/ /\ rc[s] = "ok"
        /\ sub' = [sub EXCEPT ![s] = "listening"]
        /\ UNCHANGED <<slot, inbox>>
     \/ /\ rc[s] = "busy"
        /\ Finish(s, "error")
  /\ UNCHANGED <<dev, rc, host, pumping, history>>

\* The call times out after 60 s; the request stays with the host.
CallTimeout(s) ==
  /\ sub[s] = "calling"
  /\ timeouts < MaxTimeouts
  /\ timeouts' = timeouts + 1
  /\ Finish(s, "raised")
  /\ UNCHANGED <<dev, rc, host, pumping, finished, lost, strayed>>

\* The next frame of the queue.
Listen(s) ==
  LET p == dev[s] IN
  /\ sub[s] = "listening"
  /\ inbox[p] # <<>>
  /\ \/ /\ Head(inbox[p]).stage = "progress"
        /\ inbox' = [inbox EXCEPT ![p] = Tail(inbox[p])]
        /\ UNCHANGED <<sub, slot>>
     \/ /\ Head(inbox[p]).stage = "finished"
        /\ Finish(s, "done")
     \/ /\ Head(inbox[p]).stage = "error"
        /\ Finish(s, "error")
  /\ UNCHANGED <<dev, rc, host, pumping, history>>

\* No frame came for progress_timeout.
ListenTimeout(s) ==
  /\ sub[s] = "listening"
  /\ inbox[dev[s]] = <<>>
  /\ timeouts < MaxTimeouts
  /\ timeouts' = timeouts + 1
  /\ Finish(s, "error")
  /\ UNCHANGED <<dev, rc, host, pumping, finished, lost, strayed>>

-----------------------------------------------------------------------------
(* The host: its requests, the print worker and the event queue.           *)

\* Dropping the oldest event when the queue is full.
Push(f) ==
  IF Len(events) < MaxQueued
  THEN /\ events' = Append(events, f)
       /\ UNCHANGED lost
  ELSE /\ events' = Append(Tail(events), f)
       /\ lost' = lost \cup TerminalJobs(<<Head(events)>>)

\* start_print spawns the worker, or answers -98 while one is in flight.
ServeStart ==
  /\ requests # <<>>
  /\ Head(requests) \in Subs
  /\ requests' = Tail(requests)
  /\ IF worker = None
     THEN /\ worker' = Head(requests)
          /\ wpc' = "printing"
          /\ rc' = [rc EXCEPT ![Head(requests)] = "ok"]
     ELSE /\ rc' = [rc EXCEPT ![Head(requests)] = "busy"]
          /\ UNCHANGED <<worker, wpc>>
  /\ UNCHANGED <<clients, events, pumping, history>>

\* The answer to a poll that timed out is dropped, with the events in it.
ServePoll ==
  /\ requests # <<>>
  /\ Head(requests) \in {Poll, LatePoll}
  /\ requests' = Tail(requests)
  /\ LET n == IF Len(events) < MaxDrain THEN Len(events) ELSE MaxDrain
         drained == SubSeq(events, 1, n)
     IN /\ events' = SubSeq(events, n + 1, Len(events))
        /\ IF Head(requests) = Poll
           THEN /\ batch' = drained
                /\ pump' = "dispatching"
                /\ UNCHANGED lost
           ELSE /\ lost' = lost \cup TerminalJobs(drained)
                /\ UNCHANGED pumping
  /\ UNCHANGED <<clients, rc, worker, wpc, finished, strayed, timeouts>>

Frame(stage) == [job |-> worker, stage |-> stage, stamped |-> TRUE]

UnderWay ==
  Len(SelectSeq(events \o batch \o inbox[dev[worker]], LAMBDA f : f.stage = "progress"))

\* The plugin's update callback: progress, or one terminal stage.
PluginReports(stage) ==
  /\ wpc = "printing"
  /\ stage = "progress" => UnderWay < MaxProgress
  /\ Push(Frame(stage))
  /\ wpc' = IF stage = "progress" THEN wpc ELSE "reported"
  /\ finished' = IF stage = "finished" THEN finished \cup {worker} ELSE finished
  /\ UNCHANGED <<clients, rc, requests, worker, pumping, strayed, timeouts>>

\* Mutant: an error code the plugin returns is only logged.
PluginReturnsSilently ==
  /\ wpc \in {"printing", "reported"}
  /\ wpc' = "returned"
  /\ UNCHANGED <<clients, rc, requests, worker, events, pumping, history>>

\* The plugin returns: 0 after a terminal stage, or an error code, for which
\* the worker makes up a frame, whether or not a stage was reported.
PluginReturns ==
  /\ \/ /\ wpc = "reported"
        /\ UNCHANGED <<events, lost>>
     \/ /\ wpc \in {"printing", "reported"}
        /\ worker \notin finished
        /\ Push(Frame("error"))
  /\ wpc' = "returned"
  /\ UNCHANGED <<clients, rc, requests, worker, pumping, finished, strayed, timeouts>>

\* The plugin throws: the made-up frame has no dev_id.
PluginThrows ==
  /\ wpc = "printing"
  /\ Push([Frame("error") EXCEPT !.stamped = FALSE])
  /\ wpc' = "returned"
  /\ UNCHANGED <<clients, rc, requests, worker, pumping, finished, strayed, timeouts>>

WorkerEnds ==
  /\ wpc = "returned"
  /\ worker' = None
  /\ wpc' = "idle"
  /\ UNCHANGED <<clients, rc, requests, events, pumping, history>>

\* Any other event of the plugin, such as a printer's periodic report.  It only
\* matters for the frames it pushes out: bounded to a queue that holds one.
OtherEvent ==
  /\ \E f \in ToSet(events) : Terminal(f)
  /\ Push(Report)
  /\ UNCHANGED <<clients, rc, requests, worker, wpc, pumping, finished, strayed, timeouts>>

-----------------------------------------------------------------------------
(* The event pump.                                                         *)

\* The batch is worked off, and the sleep between polls over.
PumpPoll ==
  /\ pump = "dispatching"
  /\ batch = <<>>
  /\ pump' = "polling"
  /\ requests' = Append(requests, Poll)
  /\ UNCHANGED <<clients, rc, worker, wpc, events, batch, history>>

\* Mutant: a poll that fails ends the pump.
PumpTimeoutFinal ==
  /\ timeouts < MaxTimeouts
  /\ timeouts' = timeouts + 1
  /\ pump = "polling"
  /\ requests' = [i \in DOMAIN requests |->
                    IF requests[i] = Poll THEN LatePoll ELSE requests[i]]
  /\ UNCHANGED <<clients, rc, worker, wpc, events, pumping, finished, lost, strayed>>

\* The poll times out in the host's input, or as its answer arrives.
PumpTimeout ==
  /\ timeouts < MaxTimeouts
  /\ timeouts' = timeouts + 1
  /\ pump = "polling"
  /\ pump' = "dispatching"
  /\ requests' = [i \in DOMAIN requests |->
                    IF requests[i] = Poll THEN LatePoll ELSE requests[i]]
  /\ UNCHANGED <<clients, rc, worker, wpc, events, batch, finished, lost, strayed>>

\* Mutant: a frame goes to whichever printer has a submission.
RouteGuessing(f) == {p \in Printers : slot[p] # None}

\* The clients a frame may go to: its printer's, or, without a dev_id, the
\* first in the registry with a submission.
Route(f) ==
  IF f.stamped THEN {dev[f.job]} \cap {p \in Printers : slot[p] # None}
  ELSE {p \in Printers : slot[p] # None}

\* One event of the batch, handed to its handler.
Dispatch ==
  /\ batch # <<>>
  /\ batch' = Tail(batch)
  /\ LET f == Head(batch) IN
       IF f = Report \/ Route(f) = {}
       THEN UNCHANGED <<inbox, strayed>>
       ELSE \E p \in Route(f) :
              /\ inbox' = [inbox EXCEPT ![p] = Append(inbox[p], f)]
              /\ strayed' = IF Terminal(f) /\ slot[p] # f.job
                            THEN strayed \cup {f.job} ELSE strayed
  /\ UNCHANGED <<sub, dev, slot, rc, host, pump, finished, lost, timeouts>>

-----------------------------------------------------------------------------

SubmissionStep(s) == Answered(s) \/ Listen(s)
Serve == ServeStart \/ ServePoll
PumpStep == PumpPoll \/ Dispatch
WorkerStep == PluginReturns \/ PluginThrows \/ WorkerEnds

Next ==
  \/ \E s \in Subs : \E p \in Printers : Submit(s, p)
  \/ \E s \in Subs : SubmissionStep(s) \/ CallTimeout(s) \/ ListenTimeout(s)
  \/ Serve \/ WorkerStep \/ OtherEvent
  \/ \E stage \in Stages : PluginReports(stage)
  \/ PumpStep \/ PumpTimeout

Spec == Init /\ [][Next]_vars

(* The loop resumes tasks, the pump polls for ever, the host serves its    *)
(* requests and the plugin's start_print returns.  No timeout need fire.   *)
Fairness ==
  /\ \A s \in Subs : WF_vars(SubmissionStep(s))
  /\ WF_vars(Serve) /\ WF_vars(PumpStep)
  /\ WF_vars(WorkerStep \/ PluginReports("finished"))

FairSpec == Spec /\ Fairness

-----------------------------------------------------------------------------

Active(s) == sub[s] \in {"calling", "listening"}

\* One submission at a time owns a printer's queue of frames, the one that
\* runs, and whoever is refused disturbs neither.
SlotIsExclusive ==
  /\ \A p \in Printers : slot[p] # None => Active(slot[p]) /\ dev[slot[p]] = p
  /\ \A s \in Subs : Active(s) => slot[dev[s]] = s

\* A submission that listens will hear how its job ended: the job still runs,
\* or its terminal frame is on its way, unless the event queue overflowed, a
\* poll timed out or a frame without dev_id went to another printer.
VerdictOnItsWay ==
  \A s \in Subs \ (lost \cup strayed) : sub[s] = "listening" =>
    \/ worker = s /\ wpc = "printing"
    \/ s \in TerminalJobs(events \o batch \o inbox[dev[s]])

\* "Returns None when the job reached the printer": a submission only ends as
\* done if the plugin finished its own job, provided no earlier submission to
\* that printer was given up while its job went on.
DoneIsPrinted ==
  \A s \in Subs : sub[s] = "done" =>
    s \in finished \/ \E t \in 1..s - 1 : dev[t] = dev[s] /\ sub[t] \in {"raised", "error"}

\* Submissions do not take the slot, the frames or the verdict of another
\* (cloud_printer.py, submit_print).
SubmissionsApart == TypeOK /\ SlotIsExclusive /\ DoneIsPrinted

\* Without any time-out of its own a submission ends, unless its verdict was
\* dropped or went astray.
SubmissionsEnd ==
  \A s \in Subs : Active(s) ~> (sub[s] \in Ended \/ s \in lost \cup strayed)
=============================================================================
