--------------------------- MODULE Notifications ---------------------------
(***************************************************************************)
(* Notifications (app/notification_hub.py, app/device_store.py): status    *)
(* reports of the printers become events in the network threads; one hub   *)
(* thread filters the events and pushes them to the registered phones,     *)
(* which register, change their tokens and start Live Activities           *)
(* meanwhile.                                                              *)
(*                                                                         *)
(* Prints are numbered in the order the printer runs them; the number      *)
(* stands for gcode_start_time where a report has one, and a file for its  *)
(* name and its number of layers.  Time is left out: any entries of the    *)
(* 30 s filter may be old when it is asked.  Progress ticks are left out.  *)
(***************************************************************************)
EXTENDS Naturals, Sequences, FiniteSets

CONSTANTS
  Printers,
  Devices,     \* phones
  Files,       \* what prints are called
  StatusForms, \* the reports a printer sends, as sets of fields
  MaxJobs,     \* bound on prints of a printer
  MaxChanges,  \* bound on what the printers do
  MaxDrops,    \* bound on lost connections
  MaxQueue,    \* bound on events that wait when a report arrives
  MaxTokens    \* bound on tokens of a phone and on Live Activities

Unnamed == ""      \* a job whose file was not reported
Absent == "no job"

\* A phone has a token from the start.
ASSUME NotificationsAssumption ==
  /\ Files \cap {Unnamed, Absent} = {}
  /\ {MaxJobs, MaxChanges, MaxDrops, MaxQueue, MaxTokens} \subseteq Nat
  /\ MaxTokens # 0

Active == {"preparing", "printing", "paused"}
Ended == {"finished", "cancelled", "error"}
States == Active \cup Ended \cup {"idle", "offline"}

Transitions == {"started", "paused", "resumed", "finished", "cancelled", "failed"}
Terminals == {"finished", "cancelled", "failed"}
Types == Transitions \cup {"offline", "hms"}
Alerts == Types \ {"started", "resumed"}
Updates == {"paused", "resumed", "offline"}

\* status.job, where start 0 is a start time that was not reported and begun is
\* progress above 0 %; NoJob is None.
Job == [known : BOOLEAN, start : 0..MaxJobs, file : Files \cup {Unnamed}, begun : BOOLEAN]
NoJob == [known |-> FALSE, start |-> 0, file |-> Unnamed, begun |-> FALSE]

\* What prints are told apart by: the start time, or else the file; without a job
\* there is nothing.
Prints == [start : 1..MaxJobs, file : {Unnamed}]
     \cup [start : {0}, file : Files \cup {Unnamed, Absent}]
Nothing == [start |-> 0, file |-> Absent]

\* _job_fingerprint
Fingerprint(job) ==
  IF ~job.known THEN Nothing
  ELSE [start |-> job.start, file |-> IF job.start = 0 THEN job.file ELSE Unnamed]

Event == [type : Types, printer : Printers, print : Prints]
NoEvent == [type |-> "none"]
Tokens == 0..MaxTokens     \* 0 is no token

VARIABLES
  printer,   \* what each printer does
  status,    \* the gateway's status of it
  seen,      \* _seen_printers
  queue,     \* events for the hub thread
  fired,     \* _last_fired_fingerprint
  recent,    \* _dedupe: the events of the last 30 seconds
  hub,       \* the event being dispatched, the phase, and who is to be pushed
  device,    \* the tokens of each registered phone
  activity,  \* the registered Live Activities
  phone,     \* the token the push service accepts for each phone
  issued,    \* activity tokens issued so far
  changes,   \* bounded: what the printers did so far
  drops,     \* bounded: connections lost so far
  detected,  \* history: transitions that were queued
  passed,    \* history: transitions that were dispatched
  twice,     \* history: transitions that were dispatched twice
  blurred,   \* history: transitions that passed by the name of a file
  endings    \* history: for each activity, the ends its print had yet to have when
             \* it was registered

world == <<printer, phone, changes>>
store == <<device, activity>>
filters == <<fired, recent>>
history == <<detected, passed, twice, blurred, endings>>
vars == <<world, status, seen, queue, filters, hub, store, issued, drops,
          history>>

TypeOK ==
  /\ printer \in [Printers -> [state : States \ {"offline"}, print : 0..MaxJobs,
                              file : Files \cup {Unnamed}, begun : BOOLEAN, alarm : BOOLEAN]]
  /\ status \in [Printers -> [online : BOOLEAN, state : States, job : Job, alarm : BOOLEAN]]
  /\ seen \subseteq Printers
  /\ queue \in Seq(Event)
  /\ fired \in [Printers -> [Transitions -> Prints]]
  /\ recent \subseteq Event
  /\ hub.phase \in {"idle", "alerts", "starts", "ends", "updates"}
  /\ hub.event \in Event \cup {NoEvent}
  /\ hub.todo \subseteq Devices \X (Tokens \ {0})
  /\ device \in [Devices -> [known : BOOLEAN, alert : Tokens, start : Tokens]]
  /\ activity \in [Devices -> [Printers -> Tokens]]
  /\ phone \in [Devices -> Tokens]
  /\ issued \in Tokens
  /\ changes \in 0..MaxChanges
  /\ drops \in 0..MaxDrops
  /\ detected \cup passed \cup twice \cup blurred \subseteq Event
  /\ endings \in [Tokens -> SUBSET Event]
  /\ \A d \in Devices : ~device[d].known =>
       /\ device[d] = [known |-> FALSE, alert |-> 0, start |-> 0]
       /\ activity[d] = [p \in Printers |-> 0]

Idle == [phase |-> "idle", event |-> NoEvent, todo |-> {}]

Init ==
  /\ printer = [p \in Printers |->
                 [state |-> "idle", print |-> 0, file |-> Unnamed, begun |-> FALSE, alarm |-> FALSE]]
  /\ status = [p \in Printers |->
                [online |-> FALSE, state |-> "offline", job |-> NoJob, alarm |-> FALSE]]
  /\ seen = {}
  /\ queue = <<>>
  /\ fired = [p \in Printers |-> [t \in Transitions |-> Nothing]]
  /\ recent = {}
  /\ hub = Idle
  /\ device = [d \in Devices |-> [known |-> FALSE, alert |-> 0, start |-> 0]]
  /\ activity = [d \in Devices |-> [p \in Printers |-> 0]]
  /\ phone = [d \in Devices |-> 1]
  /\ issued = 0
  /\ changes = 0
  /\ drops = 0
  /\ detected = {}
  /\ passed = {}
  /\ twice = {}
  /\ blurred = {}
  /\ endings = [a \in Tokens |-> {}]

-----------------------------------------------------------------------------
(* The printer and its status.                                             *)

Does(p, now) ==
  /\ changes < MaxChanges
  /\ changes' = changes + 1
  /\ printer' = [printer EXCEPT ![p] = now]
  /\ UNCHANGED <<phone, status, seen, queue, filters, hub, store, issued, drops, history>>

\* Prints start, go on and end; progress may be at 0 % until the end.  One that shows
\* an error may go on too, and so may one that is idle to the gateway because its stage
\* has no category.  A warning comes up during a print and is gone with the next one.
PrinterStep(p) ==
  LET now == printer[p] IN
  \/ /\ now.state \notin Active
     /\ now.print < MaxJobs
     /\ \E s \in {"preparing", "printing"}, f \in Files :
          Does(p, [state |-> s, print |-> now.print + 1, file |-> f, begun |-> FALSE, alarm |-> FALSE])
  \/ /\ now.print # 0
     /\ now.state \in Active \cup {"error", "idle"}
     /\ \E s \in (Active \cup Ended \cup {"idle"}) \ {now.state}, begun \in {now.begun, TRUE} :
          /\ s = "idle" => ~begun
          /\ Does(p, [now EXCEPT !.state = s, !.begun = begun])
  \/ /\ now.state \in Active
     /\ ~now.alarm
     /\ Does(p, [now EXCEPT !.alarm = TRUE])

\* The job as a report with these fields leaves it: each field is kept until it
\* comes again, in a job that the first of them makes.
Heard(p, form) ==
  LET job == status[p].job
      now == printer[p]
  IN IF form \cap {"start", "file", "progress"} = {} THEN job
     ELSE [known |-> TRUE,
           start |-> IF "start" \in form THEN now.print ELSE job.start,
           file  |-> IF "file" \in form THEN now.file ELSE job.file,
           begun |-> IF "progress" \in form THEN now.begun ELSE job.begun]

\* apply_print_payload: a printer that is not printing has no job at 0 %.
Told(p, form) ==
  LET prev == status[p]
      state == IF "state" \in form THEN printer[p].state ELSE prev.state
      job == Heard(p, form)
  IN [online |-> prev.online,
      state  |-> state,
      job    |-> IF state \in {"idle", "finished", "cancelled"} /\ ~job.begun THEN NoJob ELSE job,
      alarm  |-> IF "hms" \in form THEN printer[p].alarm ELSE prev.alarm]

\* _state_transition_event
Transition(prev, new) ==
  CASE new = "printing" -> IF prev = "paused" THEN "resumed" ELSE "started"
    [] new = "paused" /\ prev = "printing" -> "paused"
    [] new = "finished" -> "finished"
    [] new = "cancelled" -> "cancelled"
    [] new = "error" -> "failed"
    [] OTHER -> "none"

\* The events of a change of status, in the order of detect_events.
Detect(p, prev, new) ==
  LET event(t) == [type |-> t, printer |-> p, print |-> Fingerprint(new.job)]
      changed == Transition(prev.state, new.state)
  IN (IF prev.state # new.state /\ changed # "none" THEN <<event(changed)>> ELSE <<>>)
  \o (IF prev.online /\ ~new.online /\ prev.state \in Active THEN <<event("offline")>> ELSE <<>>)
  \o (IF new.alarm /\ ~prev.alarm THEN <<event("hms")>> ELSE <<>>)

\* A report arrives: the status takes what it has, and the hub hears of the status
\* before and after.  The first report of a printer is only remembered.
Report(p, form) ==
  LET prev == status[p]
      new == Told(p, form)
      events == IF p \in seen THEN Detect(p, prev, new) ELSE <<>>
  IN /\ prev.online
     /\ Len(queue) < MaxQueue
     /\ p \notin seen \/ new # prev
     /\ status' = [status EXCEPT ![p] = new]
     /\ seen' = seen \cup {p}
     /\ queue' = queue \o events
     /\ detected' = detected \cup
          {events[i] : i \in {j \in DOMAIN events : events[j].type \in Transitions}}
     /\ UNCHANGED <<world, filters, hub, store, issued, drops, passed, twice, blurred, endings>>

Connect(p) ==
  /\ ~status[p].online
  /\ status' = [status EXCEPT ![p].online = TRUE]
  /\ UNCHANGED <<world, seen, queue, filters, hub, store, issued, drops, history>>

\* The connection is lost or idles out; nobody calls the hub.
Disconnect(p) ==
  /\ status[p].online
  /\ drops < MaxDrops
  /\ drops' = drops + 1
  /\ status' = [status EXCEPT ![p].online = FALSE, ![p].state = "offline"]
  /\ UNCHANGED <<world, seen, queue, filters, hub, store, issued, history>>

-----------------------------------------------------------------------------
(* The hub thread.                                                         *)

\* Mutant: prints are not compared.
DuplicateNever(e) == FALSE

\* _is_fingerprint_duplicate
Duplicate(e) ==
  e.type \in Transitions /\ e.print # Nothing /\ fired[e.printer][e.type] = e.print

\* Mutant: the key is the event's type alone.
KeyOfType(e) == [e EXCEPT !.print = Nothing]

\* The key of an event in _dedupe: a warning has its code, the rest their print.
Key(e) == IF e.type = "hms" THEN [e EXCEPT !.print = Nothing] ELSE e

\* The event passes, unless the entries of the last 30 seconds that are left
\* hold its key.
Pass(e, kept) ==
  /\ recent' = kept \cup {Key(e)}
  /\ IF Key(e) \in kept
     THEN UNCHANGED <<hub, passed, twice, blurred>>
     ELSE /\ hub' = [phase |-> "alerts", event |-> e,
                     todo |-> IF e.type \in Alerts
                              THEN {<<d, device[d].alert>> : d \in {x \in Devices : device[x].alert # 0}}
                              ELSE {}]
          /\ IF e.type \in Transitions
             THEN /\ passed' = passed \cup {e}
                  /\ twice' = twice \cup ({e} \cap passed)
                  /\ blurred' = IF e.print # Nothing /\ e.print.start = 0 THEN blurred \cup {e} ELSE blurred
             ELSE UNCHANGED <<passed, twice, blurred>>

\* Two filters: the first records the print, if there is one, even if the second
\* drops the event.  The second forgets old entries when it is asked.
Take ==
  LET e == Head(queue) IN
  /\ hub.phase = "idle"
  /\ queue # <<>>
  /\ queue' = Tail(queue)
  /\ IF Duplicate(e)
     THEN UNCHANGED <<filters, hub, passed, twice, blurred>>
     ELSE /\ fired' = IF e.type \in Transitions /\ e.print # Nothing
                      THEN [fired EXCEPT ![e.printer][e.type] = e.print] ELSE fired
          /\ \E kept \in SUBSET recent : Pass(e, kept)
  /\ UNCHANGED <<world, status, seen, store, issued, drops, detected, endings>>

\* The phones with an activity of printer p.
WithActivity(p) == {d \in Devices : activity[d][p] # 0}

\* After the alerts: a Live Activity starts on the phones that have none, or
\* those there are end or show the change.
Second(e) ==
  LET pushes(phase, todo) == [phase |-> phase, event |-> e, todo |-> todo]
      activities == {<<d, activity[d][e.printer]>> : d \in WithActivity(e.printer)}
  IN CASE e.type = "started" ->
            pushes("starts", {<<d, device[d].start>> : d \in
                     {x \in Devices : device[x].start # 0} \ WithActivity(e.printer)})
       [] e.type \in Terminals -> pushes("ends", activities)
       [] e.type \in Updates -> pushes("updates", activities)
       [] OTHER -> Idle

Turn ==
  LET e == hub.event IN
  /\ hub.phase = "alerts"
  /\ hub.todo = {}
  /\ hub' = IF Second(e).todo = {} THEN Idle ELSE Second(e)
  /\ UNCHANGED <<world, status, seen, queue, filters, store, issued, drops, history>>

\* One push is made; the handler ends with the last one.
Pushed(x) ==
  LET left == hub.todo \ {x} IN
  hub' = IF left = {} /\ hub.phase # "alerts" THEN Idle ELSE [hub EXCEPT !.todo = left]

\* Mutant: whatever token the phone has now.
InvalidateDevice(d, tok) ==
  device' = [device EXCEPT ![d].alert = 0, ![d].start = 0]

\* invalidate_token: the tokens that equal the rejected one.
Invalidate(d, tok) ==
  device' = [device EXCEPT ![d].alert = IF @ = tok THEN 0 ELSE @,
                           ![d].start = IF @ = tok THEN 0 ELSE @]

\* An alert or a start is pushed; a token that is no longer the phone's is
\* rejected and forgotten.
PushToPhone ==
  /\ hub.phase \in {"alerts", "starts"}
  /\ \E x \in hub.todo :
       /\ Pushed(x)
       /\ IF x[2] = phone[x[1]] THEN UNCHANGED device ELSE Invalidate(x[1], x[2])
  /\ UNCHANGED <<world, status, seen, queue, filters, activity, issued, drops, history>>

\* A change is shown; the push service may reject an activity's token.
PushUpdate ==
  /\ hub.phase = "updates"
  /\ \E x \in hub.todo :
       /\ Pushed(x)
       /\ \/ UNCHANGED activity
          \/ activity' = [activity EXCEPT ![x[1]][hub.event.printer] = IF @ = x[2] THEN 0 ELSE @]
  /\ UNCHANGED <<world, status, seen, queue, filters, device, issued, drops, history>>

\* Mutant: the activity stays registered.
PushEndOnly ==
  /\ hub.phase = "ends"
  /\ \E x \in hub.todo : Pushed(x)
  /\ UNCHANGED <<world, status, seen, queue, filters, store, issued, drops, history>>

\* An activity is ended and removed: whichever the phone has for the printer now.
PushEnd ==
  /\ hub.phase = "ends"
  /\ \E x \in hub.todo :
       /\ Pushed(x)
       /\ activity' = [activity EXCEPT ![x[1]][hub.event.printer] = 0]
  /\ UNCHANGED <<world, status, seen, queue, filters, device, issued, drops, history>>

-----------------------------------------------------------------------------
(* Phones.                                                                 *)

\* The push service gives the phone a new token.
Rotate(d) ==
  /\ phone[d] < MaxTokens
  /\ phone' = [phone EXCEPT ![d] = @ + 1]
  /\ UNCHANGED <<printer, changes, status, seen, queue, filters, hub, store, issued,
                 drops, history>>

Register(d) ==
  /\ device' = [device EXCEPT ![d] = [known |-> TRUE, alert |-> phone[d], start |-> phone[d]]]
  /\ UNCHANGED <<world, status, seen, queue, filters, hub, activity, issued, drops, history>>

Unregister(d) ==
  /\ device[d].known
  /\ device' = [device EXCEPT ![d] = [known |-> FALSE, alert |-> 0, start |-> 0]]
  /\ activity' = [activity EXCEPT ![d] = [p \in Printers |-> 0]]
  /\ UNCHANGED <<world, status, seen, queue, filters, hub, issued, drops, history>>

\* The ends of a print, as the gateway tells it apart.
Ends(p, print) == {[type |-> t, printer |-> p, print |-> print] : t \in Terminals}

\* A phone that shows a Live Activity registers it, in place of an older one.
RegisterActivity(d, p) ==
  /\ device[d].known
  /\ issued < MaxTokens
  /\ issued' = issued + 1
  /\ activity' = [activity EXCEPT ![d][p] = issued']
  /\ endings' = [endings EXCEPT ![issued'] = Ends(p, Fingerprint(status[p].job)) \ detected]
  /\ UNCHANGED <<world, status, seen, queue, filters, hub, device, drops,
                 detected, passed, twice, blurred>>

UnregisterActivity(d, p) ==
  /\ activity[d][p] # 0
  /\ activity' = [activity EXCEPT ![d][p] = 0]
  /\ UNCHANGED <<world, status, seen, queue, filters, hub, device, issued, drops, history>>

-----------------------------------------------------------------------------

HubStep == Take \/ Turn \/ PushToPhone \/ PushUpdate \/ PushEnd

OtherStep ==
  \/ \E p \in Printers : PrinterStep(p) \/ Connect(p) \/ Disconnect(p)
  \/ HubStep
  \/ \E d \in Devices : Rotate(d) \/ Register(d) \/ Unregister(d)
  \/ \E d \in Devices, p \in Printers : RegisterActivity(d, p) \/ UnregisterActivity(d, p)

Next == OtherStep \/ \E p \in Printers, form \in StatusForms : Report(p, form)

Spec == Init /\ [][Next]_vars

-----------------------------------------------------------------------------

\* The first time a print, as it is told apart by, starts, pauses, resumes or ends
\* under the eyes of the gateway, the event is dispatched or still waits: the two
\* filters swallow repetitions only, whatever reconnections and expiries come in
\* between.  Prints of one file that are reported without start times are the same.
FirstIsDispatched ==
  \A e \in detected \ passed : \E i \in 1..Len(queue) : queue[i] = e

\* No transition of a print with a start time is dispatched twice, although every
\* reconnection shows the print's state to the hub as if it had just changed; unless
\* the same kind of transition was dispatched by the name of a file.
NothingTwice ==
  \A e \in twice : e.print.start = 0 \/ \E b \in blurred : b.type = e.type /\ b.printer = e.printer

\* A transition is dispatched when it is seen first and then no more
\* (notification_hub.py:129-142, 270-311).
EachTransitionOnce == TypeOK /\ FirstIsDispatched /\ NothingTwice

\* A token the push service still accepts is never dropped because it rejected
\* an older one, although phones register anew between a push and its answer.
FreshTokensSurvive ==
  [][\A d \in Devices :
       device[d].known /\ device'[d].known /\ device[d].alert = phone[d]
         => device'[d].alert = phone[d]]_vars

\* When the hub has nothing to do, no activity outlives a print whose end the gateway
\* was told of: one that came after the activity was registered, of the print that
\* the status had then, and is the first of its kind for the print as it is told apart
\* by.  An end that came while the printer was not connected, and the second print of
\* a file without start times, end no activity.
NoActivityOutlivesItsPrint ==
  hub.phase = "idle" /\ queue = <<>> =>
    \A d \in Devices, p \in Printers :
      activity[d][p] # 0 => endings[activity[d][p]] \cap detected = {}
=============================================================================
