---------------------------- MODULE CameraProxy ----------------------------
(***************************************************************************)
(* CameraProxy (app/camera_proxy.py): one upstream connection to a         *)
(* printer's camera, fanned out to the viewers.  Everything runs in the    *)
(* event loop, so a segment between two awaits is one action; what         *)
(* interleaves are the viewers' generators, the upstream task, the drain   *)
(* task that ends it some seconds after the last viewer has left, and      *)
(* stop().  A task that is cancelled only learns of it at its next step.   *)
(* Tasks are numbered in the order of their creation, 0 is Python's None.  *)
(***************************************************************************)
EXTENDS Naturals, Sequences, FiniteSets

CONSTANTS
  Viewers,      \* HTTP requests that may watch, each perhaps several times
  QueueSize,    \* queue_maxsize
  MaxSubs,      \* bound on subscriptions, and so on tasks
  MaxFrames     \* bound on frames

ASSUME CameraAssumption ==
  /\ QueueSize \in Nat \ {0}
  /\ MaxSubs \in Nat
  /\ MaxFrames \in Nat

None == 0
Tasks == 1..MaxSubs

VARIABLES
  viewers,   \* _subscribers
  queue,     \* the queue of each viewer; a frame is its number
  latest,    \* _latest_frame
  state,     \* _state
  up,        \* where each upstream task is
  upCancel,  \* upstream tasks that were cancelled
  upTask,    \* _upstream_task
  drain,     \* where each drain task is
  drCancel,  \* drain tasks that were cancelled
  drTask,    \* _drain_task
  target,    \* the upstream task a drain task awaits
  stop,      \* where stop() is
  waits,     \* the task stop() awaits
  subs,      \* subscriptions so far
  raced      \* history: a viewer arrived while a drain awaited its upstream

fanout == <<viewers, queue, latest, subs, raced>>
upstream == <<up, upCancel, upTask>>
drains == <<drain, drCancel, drTask, target>>
stopper == <<stop, waits>>
vars == <<fanout, state, upstream, drains, stopper>>

UpPhase == {"none", "new", "connecting", "open", "closing", "retry", "done"}
DrainPhase == {"none", "new", "sleep", "await", "done"}
StopPhase == {"no", "drain", "upstream", "yield", "drain2", "stopped"}

TypeOK ==
  /\ viewers \subseteq Viewers
  /\ queue \in [Viewers -> Seq(1..MaxFrames)]
  /\ \A v \in Viewers : Len(queue[v]) <= QueueSize
  /\ latest \in 0..MaxFrames
  /\ state \in {"idle", "connecting", "streaming", "failed"}
  /\ up \in [Tasks -> UpPhase]
  /\ upCancel \subseteq Tasks
  /\ upTask \in Tasks \cup {None}
  /\ drain \in [Tasks -> DrainPhase]
  /\ drCancel \subseteq Tasks
  /\ drTask \in Tasks \cup {None}
  /\ target \in [Tasks -> Tasks \cup {None}]
  /\ stop \in StopPhase
  /\ waits \in Tasks \cup {None}
  /\ subs \in 0..MaxSubs
  /\ raced \in BOOLEAN

Init ==
  /\ viewers = {}
  /\ queue = [v \in Viewers |-> <<>>]
  /\ latest = 0
  /\ state = "idle"
  /\ up = [t \in Tasks |-> "none"]
  /\ upCancel = {}
  /\ upTask = None
  /\ drain = [t \in Tasks |-> "none"]
  /\ drCancel = {}
  /\ drTask = None
  /\ target = [t \in Tasks |-> None]
  /\ stop = "no"
  /\ waits = None
  /\ subs = 0
  /\ raced = FALSE

Stopped == stop # "no"
Fresh(task) == 1 + Cardinality({t \in Tasks : task[t] # "none"})
Pending(task, t) == t # None /\ task[t] # "done"

-----------------------------------------------------------------------------
(* Viewers.                                                                *)

\* Mutant: an upstream task is started whether or not one is running.
EnsureUpstreamAlways ==
  IF Stopped
  THEN UNCHANGED <<up, upTask>>
  ELSE /\ up' = [up EXCEPT ![Fresh(up)] = "new"]
       /\ upTask' = Fresh(up)

EnsureUpstream ==
  IF Stopped \/ Pending(up, upTask)
  THEN UNCHANGED <<up, upTask>>
  ELSE /\ up' = [up EXCEPT ![Fresh(up)] = "new"]
       /\ upTask' = Fresh(up)

\* A drain that awaits its upstream swallows the cancellation.
CancelDrain ==
  /\ drCancel' = IF Pending(drain, drTask) THEN drCancel \cup {drTask} ELSE drCancel
  /\ drTask' = None

Subscribe(v) ==
  /\ v \notin viewers
  /\ subs < MaxSubs
  /\ subs' = subs + 1
  /\ viewers' = viewers \cup {v}
  /\ CancelDrain
  /\ EnsureUpstream
  /\ queue' = [queue EXCEPT ![v] = IF latest = 0 THEN <<>> ELSE <<latest>>]
  /\ raced' = (raced \/ \E d \in Tasks : drain[d] = "await")
  /\ UNCHANGED <<latest, state, upCancel, drain, target, stopper>>

TakeFrame(v) ==
  /\ v \in viewers
  /\ queue[v] # <<>>
  /\ queue' = [queue EXCEPT ![v] = Tail(queue[v])]
  /\ UNCHANGED <<viewers, latest, subs, raced, state, upstream, drains, stopper>>

\* Mutant: a drain is scheduled only when none was scheduled before.
ScheduleDrainOnce ==
  IF Pending(up, upTask) /\ \A d \in Tasks : drain[d] = "none"
  THEN /\ drain' = [drain EXCEPT ![Fresh(drain)] = "new"]
       /\ drTask' = Fresh(drain)
  ELSE UNCHANGED <<drain, drTask>>

ScheduleDrain ==
  IF Pending(up, upTask) /\ ~Pending(drain, drTask)
  THEN /\ drain' = [drain EXCEPT ![Fresh(drain)] = "new"]
       /\ drTask' = Fresh(drain)
  ELSE UNCHANGED <<drain, drTask>>

\* The generator is closed: the finally clause of subscribe.
Unsubscribe(v) ==
  /\ v \in viewers
  /\ viewers' = viewers \ {v}
  /\ queue' = [queue EXCEPT ![v] = <<>>]
  /\ IF viewers' = {} THEN ScheduleDrain ELSE UNCHANGED <<drain, drTask>>
  /\ UNCHANGED <<latest, subs, raced, state, upstream, drCancel, target, stopper>>

-----------------------------------------------------------------------------
(* The upstream task.                                                      *)

\* Mutant: a slow viewer keeps its old frames and misses the new one.
PublishKeepingOld(frame) ==
  /\ latest' = frame
  /\ queue' = [v \in Viewers |->
       IF v \in viewers /\ Len(queue[v]) < QueueSize
       THEN Append(queue[v], frame) ELSE queue[v]]

\* A full queue loses its oldest frame.
Publish(frame) ==
  /\ latest' = frame
  /\ queue' = [v \in Viewers |->
       IF v \notin viewers THEN queue[v]
       ELSE Append(IF Len(queue[v]) = QueueSize THEN Tail(queue[v]) ELSE queue[v], frame)]

\* The head of the retry loop: at the task's start and after the delay.
UpConnecting(t) ==
  /\ up[t] \in {"new", "retry"}
  /\ t \notin upCancel
  /\ IF Stopped
     THEN /\ up' = [up EXCEPT ![t] = "done"]
          /\ UNCHANGED state
     ELSE /\ up' = [up EXCEPT ![t] = "connecting"]
          /\ state' = "connecting"
  /\ UNCHANGED <<fanout, upCancel, upTask, drains, stopper>>

UpOpen(t) ==
  /\ up[t] = "connecting"
  /\ t \notin upCancel
  /\ up' = [up EXCEPT ![t] = "open"]
  /\ UNCHANGED <<fanout, state, upCancel, upTask, drains, stopper>>

UpFrame(t) ==
  /\ up[t] = "open"
  /\ t \notin upCancel
  /\ latest < MaxFrames
  /\ Publish(latest + 1)
  /\ state' = "streaming"
  /\ UNCHANGED <<viewers, subs, raced, upstream, drains, stopper>>

\* The stream ends or fails: the finally clause closes the connection.
UpBreaks(t) ==
  /\ up[t] = "open"
  /\ t \notin upCancel
  /\ up' = [up EXCEPT ![t] = "closing"]
  /\ UNCHANGED <<fanout, state, upCancel, upTask, drains, stopper>>

\* Mutant: an upstream that failed is not tried again.
UpFailedForGood(t) ==
  /\ up[t] \in {"connecting", "closing"}
  /\ t \notin upCancel
  /\ state' = "failed"
  /\ up' = [up EXCEPT ![t] = "done"]
  /\ UNCHANGED <<fanout, upCancel, upTask, drains, stopper>>

\* Connecting failed, or the failed connection is closed.
UpFailed(t) ==
  /\ up[t] \in {"connecting", "closing"}
  /\ t \notin upCancel
  /\ state' = "failed"
  /\ up' = [up EXCEPT ![t] = IF Stopped \/ viewers = {} THEN "done" ELSE "retry"]
  /\ UNCHANGED <<fanout, upCancel, upTask, drains, stopper>>

\* The cancellation arrives; an open connection is closed first.
UpCancelled(t) ==
  /\ t \in upCancel
  /\ up[t] # "done"
  /\ up' = [up EXCEPT ![t] = IF up[t] = "open" THEN "closing" ELSE "done"]
  /\ UNCHANGED <<fanout, state, upCancel, upTask, drains, stopper>>

-----------------------------------------------------------------------------
(* The drain task.                                                         *)

DrainSleep(d) ==
  /\ drain[d] = "new"
  /\ d \notin drCancel
  /\ drain' = [drain EXCEPT ![d] = "sleep"]
  /\ UNCHANGED <<fanout, state, upstream, drCancel, drTask, target, stopper>>

\* Cancelled before its first step or in its sleep.
DrainCancelled(d) ==
  /\ drain[d] \in {"new", "sleep"}
  /\ d \in drCancel
  /\ drain' = [drain EXCEPT ![d] = "done"]
  /\ UNCHANGED <<fanout, state, upstream, drCancel, drTask, target, stopper>>

\* The grace period is over.
DrainExpire(d) ==
  /\ drain[d] = "sleep"
  /\ d \notin drCancel
  /\ \/ /\ viewers # {}
        /\ drain' = [drain EXCEPT ![d] = "done"]
        /\ UNCHANGED <<state, upCancel, upTask, target>>
     \/ /\ viewers = {}
        /\ Pending(up, upTask)
        /\ upCancel' = upCancel \cup {upTask}
        /\ target' = [target EXCEPT ![d] = upTask]
        /\ drain' = [drain EXCEPT ![d] = "await"]
        /\ UNCHANGED <<state, upTask>>
     \/ /\ viewers = {}
        /\ ~Pending(up, upTask)
        /\ upTask' = None
        /\ state' = "idle"
        /\ drain' = [drain EXCEPT ![d] = "done"]
        /\ UNCHANGED <<upCancel, target>>
  /\ UNCHANGED <<fanout, up, drCancel, drTask, stopper>>

\* The awaited upstream has ended; a cancellation of the drain is swallowed.
DrainEnds(d) ==
  /\ drain[d] = "await"
  /\ up[target[d]] = "done"
  /\ drain' = [drain EXCEPT ![d] = "done"]
  /\ upTask' = None
  /\ state' = "idle"
  /\ UNCHANGED <<fanout, up, upCancel, drCancel, drTask, target, stopper>>

-----------------------------------------------------------------------------
(* stop().                                                                 *)

\* Cancel the drain and wait for it at stop's phase p, or go on with Then.
StopDrain(p, Then) ==
  IF Pending(drain, drTask)
  THEN /\ CancelDrain
       /\ stop' = p
       /\ waits' = drTask
       /\ UNCHANGED <<upCancel, upTask>>
  ELSE /\ CancelDrain
       /\ Then

StopUpstream ==
  IF Pending(up, upTask)
  THEN /\ upCancel' = upCancel \cup {upTask}
       /\ waits' = upTask
       /\ stop' = "upstream"
       /\ UNCHANGED upTask
  ELSE /\ upTask' = None
       /\ waits' = None
       /\ stop' = "yield"
       /\ UNCHANGED upCancel

StopBegin ==
  /\ stop = "no"
  /\ StopDrain("drain", StopUpstream)
  /\ UNCHANGED <<fanout, state, up, drain, target>>

StopDrained ==
  /\ stop = "drain"
  /\ drain[waits] = "done"
  /\ StopUpstream
  /\ UNCHANGED <<fanout, state, up, drains>>

StopUpstreamEnded ==
  /\ stop = "upstream"
  /\ up[waits] = "done"
  /\ upTask' = None
  /\ waits' = None
  /\ stop' = "yield"
  /\ UNCHANGED <<fanout, state, up, upCancel, drains>>

\* After one turn of the loop, the drain a leaving viewer may have scheduled.
StopYield ==
  /\ stop = "yield"
  /\ StopDrain("drain2", stop' = "stopped" /\ UNCHANGED <<waits, upCancel, upTask>>)
  /\ UNCHANGED <<fanout, state, up, drain, target>>

StopEnds ==
  /\ stop = "drain2"
  /\ drain[waits] = "done"
  /\ stop' = "stopped"
  /\ waits' = None
  /\ UNCHANGED <<fanout, state, upstream, drains>>

-----------------------------------------------------------------------------

UpstreamStep(t) == UpConnecting(t) \/ UpOpen(t) \/ UpFailed(t) \/ UpCancelled(t)
DrainStep(d) == DrainSleep(d) \/ DrainCancelled(d) \/ DrainExpire(d) \/ DrainEnds(d)
StopStep == StopDrained \/ StopUpstreamEnded \/ StopYield \/ StopEnds

Next ==
  \/ \E v \in Viewers : Subscribe(v) \/ TakeFrame(v) \/ Unsubscribe(v)
  \/ \E t \in Tasks : UpstreamStep(t) \/ UpFrame(t) \/ UpBreaks(t)
  \/ \E d \in Tasks : DrainStep(d)
  \/ StopBegin
  \/ StopStep

Spec == Init /\ [][Next]_vars

(* The loop runs every ready task, connecting and closing end or fail, and *)
(* the grace period and the retry delay pass.  Viewers, the camera and the *)
(* caller of stop() owe nothing.                                           *)
Fairness ==
  /\ \A t \in Tasks : WF_vars(UpstreamStep(t)) /\ WF_vars(DrainStep(t))
  /\ WF_vars(StopStep)

FairSpec == Spec /\ Fairness

-----------------------------------------------------------------------------

Connected(t) == up[t] \in {"connecting", "open"}
Ended(t) == up[t] \in {"none", "done"}

\* A viewer that falls behind loses old frames, never new ones: what waits for
\* it are the newest frames in their order.
NewestFramesWait ==
  \A v \in viewers : \A i \in 1..Len(queue[v]) :
    queue[v][i] = latest - Len(queue[v]) + i

\* As long as no viewer arrives while a drain closes the upstream, the printer
\* sees one connection at a time, however viewers, drains, retries and stop()
\* interleave.
OneConnection ==
  raced \/ \A s, t \in Tasks : Connected(s) /\ Connected(t) => s = t

\* Under the same condition nobody watches without an upstream task that
\* connects, streams or will retry.
ViewersServed ==
  raced \/ Stopped \/ viewers = {} \/ \E t \in Tasks : ~Ended(t) /\ t \notin upCancel

\* Under the same condition, when stop() returns no upstream task is left.
StopLeavesNothing ==
  stop = "stopped" /\ ~raced => \A t \in Tasks : Ended(t)

\* The upstream connection ends once the viewers have left for good.
DrainsAtLast ==
  [](~raced) => (<>[](viewers = {}) => <>[](\A t \in Tasks : Ended(t)))

\* stop() returns, whatever drains and upstreams it meets.
StopReturns == (stop # "no") ~> (stop = "stopped")

\* Connections have an owner who will end them (camera_proxy.py:149-252).
UpstreamIsOwned == TypeOK /\ OneConnection /\ StopLeavesNothing

\* Connections and stop() come to an end (camera_proxy.py:166-252).
EndsAtLast == DrainsAtLast /\ StopReturns

(* What the comments say and the code does not do.                         *)

\* "New subscribers then create a fresh upstream task via _ensure_upstream":
\* a viewer of a running proxy has an upstream task.
EveryViewerServed ==
  Stopped \/ viewers = {} \/ \E t \in Tasks : ~Ended(t)
          \/ \E d \in Tasks : drain[d] = "await"
=============================================================================
