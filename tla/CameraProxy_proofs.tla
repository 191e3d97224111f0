------------------------- MODULE CameraProxy_proofs -------------------------
(***************************************************************************)
(* What CameraProxy (app/camera_proxy.py) promises its viewers and the     *)
(* printer, for any number of viewers, subscriptions and frames.  Tasks    *)
(* are created one after the other; as long as no viewer arrives while a   *)
(* drain waits for its upstream task, the proxy's _upstream_task is the    *)
(* only one that can still hold a connection.                              *)
(***************************************************************************)
EXTENDS CameraProxy, FiniteSetTheorems, TLAPS

Created(task) == {t \in Tasks : task[t] # "none"}

\* Tasks are numbered as they are created: one upstream task for a subscription
\* at most, and one drain task for a viewer that has left.
InOrder ==
  /\ IsFiniteSet(viewers)
  /\ \E n \in 0..subs : Created(up) = 1..n
  /\ \E n \in Nat : Created(drain) = 1..n /\ n + Cardinality(viewers) <= subs

\* What the task variables name exists, and was cancelled for a reason.
TasksAreKnown ==
  /\ upCancel \subseteq Created(up)
  /\ upTask # None => upTask \in Created(up)
  /\ stop = "no" => \A t \in upCancel : ~Ended(t) =>
       \E d \in Tasks : drain[d] = "await" /\ target[d] = t

\* The proxy's own upstream task is the only one that has not ended.
OnlyUpTask ==
  ~raced => /\ \A t \in Tasks : ~Ended(t) => t = upTask
            /\ \A d \in Tasks : drain[d] = "await" => upTask \in {target[d], None}

\* What stop() waits for, and what it has got rid of.
StopKnows ==
  /\ stop = "upstream" => waits \in Tasks /\ upTask \in {waits, None}
  /\ stop \in {"yield", "drain2", "stopped"} => upTask = None

\* Whoever watches is served by the proxy's own upstream task.
UpTaskServes ==
  ~raced /\ ~Stopped /\ viewers # {} =>
    upTask \in Tasks /\ ~Ended(upTask) /\ upTask \notin upCancel

CameraInv ==
  TypeOK /\ NewestFramesWait /\ InOrder /\ TasksAreKnown /\ OnlyUpTask /\ StopKnows /\ UpTaskServes

LEMMA FreshTask ==
  ASSUME NEW task, NEW n \in Nat, Created(task) = 1..n, n < MaxSubs
  PROVE  Fresh(task) = n + 1 /\ n + 1 \in Tasks /\ task[n + 1] = "none"
<1>1. Cardinality(1..n) = n
  BY FS_Interval
<1>2. n + 1 \in Tasks /\ n + 1 \notin 1..n
  BY CameraAssumption DEF Tasks
<1>3. {t \in Tasks : task[t] # "none"} = 1..n
  BY DEF Created
<1>4. Fresh(task) = 1 + n
  BY <1>1, <1>3, Zenon DEF Fresh
<1>5. task[n + 1] = "none"
  BY <1>2, <1>3
<1> QED BY <1>2, <1>4, <1>5

LEMMA OneMoreTask ==
  ASSUME NEW Phases, NEW task \in [Tasks -> Phases], NEW n \in Nat, Created(task) = 1..n,
         n < MaxSubs, NEW phase, phase # "none"
  PROVE  Created([task EXCEPT ![n + 1] = phase]) = 1..(n + 1)
BY FreshTask DEF Created

LEMMA CameraInit == Init => CameraInv
<1> SUFFICES ASSUME Init PROVE CameraInv
  OBVIOUS
<1>1. TypeOK
  <2>1. \A v \in Viewers : queue[v] \in Seq(1..MaxFrames) /\ Len(queue[v]) <= QueueSize
    BY CameraAssumption DEF Init
  <2>2. queue \in [Viewers -> Seq(1..MaxFrames)]
    BY DEF Init
  <2>3. /\ latest \in 0..MaxFrames /\ subs \in 0..MaxSubs
        /\ state \in {"idle", "connecting", "streaming", "failed"}
        /\ up \in [Tasks -> UpPhase] /\ drain \in [Tasks -> DrainPhase]
        /\ target \in [Tasks -> Tasks \cup {None}] /\ stop \in StopPhase
    BY CameraAssumption DEF Init, None, UpPhase, DrainPhase, StopPhase
  <2> QED BY <2>1, <2>2, <2>3 DEF Init, TypeOK
<1>2. NewestFramesWait /\ TasksAreKnown /\ OnlyUpTask /\ StopKnows /\ UpTaskServes
  BY DEF Init, NewestFramesWait, TasksAreKnown, OnlyUpTask, StopKnows, UpTaskServes, Ended, Stopped, None
<1>3. Created(up) = 1..0 /\ Created(drain) = 1..0
  BY DEF Init, Created
<1>4. IsFiniteSet(viewers) /\ Cardinality(viewers) = 0
  BY FS_EmptySet DEF Init
<1>5. InOrder
  <2>1. 0 \in 0..subs /\ 0 \in Nat /\ 0 + Cardinality(viewers) <= subs
    BY <1>4 DEF Init
  <2> QED BY <1>3, <1>4, <2>1 DEF InOrder
<1> QED BY <1>1, <1>2, <1>5 DEF CameraInv

-----------------------------------------------------------------------------
(* The viewers and their queues.                                           *)

\* What the code's helpers do to the tasks: a new upstream task when there is
\* none that runs, a new drain task when there is one to end.
LEMMA EnsuredUpstream ==
  ASSUME CameraInv, EnsureUpstream, subs < MaxSubs
  PROVE  /\ up' \in [Tasks -> UpPhase] /\ upTask' \in Tasks \cup {None}
         /\ \E n \in 0..(subs + 1) : Created(up') = 1..n
         /\ \/ up' = up /\ upTask' = upTask /\ (Stopped \/ Pending(up, upTask))
            \/ /\ upTask' \in Tasks /\ up[upTask'] = "none" /\ up' = [up EXCEPT ![upTask'] = "new"]
               /\ ~Stopped /\ ~Pending(up, upTask)
<1>0. up \in [Tasks -> UpPhase] /\ upTask \in Tasks \cup {None} /\ subs \in Nat
  BY CameraAssumption DEF CameraInv, TypeOK
<1>1. PICK n \in 0..subs : Created(up) = 1..n
  BY DEF CameraInv, InOrder
<1>2. n \in Nat /\ n < MaxSubs /\ n \in 0..(subs + 1) /\ n + 1 \in 0..(subs + 1)
  BY <1>0, <1>1, CameraAssumption
<1>3. Fresh(up) = n + 1 /\ n + 1 \in Tasks /\ up[n + 1] = "none"
  BY <1>1, <1>2, FreshTask
<1>4. Created([up EXCEPT ![n + 1] = "new"]) = 1..(n + 1)
  BY <1>0, <1>1, <1>2, OneMoreTask
<1>5. CASE Stopped \/ Pending(up, upTask)
  <2>1. up' = up /\ upTask' = upTask
    BY <1>5 DEF EnsureUpstream
  <2> QED BY <1>0, <1>1, <1>2, <1>5, <2>1
<1>6. CASE ~(Stopped \/ Pending(up, upTask))
  <2>1. up' = [up EXCEPT ![n + 1] = "new"] /\ upTask' = n + 1
    BY <1>3, <1>6 DEF EnsureUpstream
  <2> QED BY <1>0, <1>2, <1>3, <1>4, <1>6, <2>1 DEF UpPhase
<1> QED BY <1>5, <1>6

LEMMA ScheduledDrain ==
  ASSUME CameraInv, NEW v \in Viewers, Unsubscribe(v)
  PROVE  /\ drain' \in [Tasks -> DrainPhase] /\ drTask' \in Tasks \cup {None}
         /\ IsFiniteSet(viewers')
         /\ \E n \in Nat : Created(drain') = 1..n /\ n + Cardinality(viewers') <= subs
         /\ \A d \in Tasks : drain'[d] = drain[d] \/ (drain[d] = "none" /\ drain'[d] = "new")
<1>0. /\ drain \in [Tasks -> DrainPhase] /\ drTask \in Tasks \cup {None}
      /\ subs \in Nat /\ subs <= MaxSubs
  BY CameraAssumption DEF CameraInv, TypeOK
<1>1. PICK n \in Nat : Created(drain) = 1..n /\ n + Cardinality(viewers) <= subs
  BY DEF CameraInv, InOrder
<1>2. IsFiniteSet(viewers) /\ v \in viewers /\ viewers' = viewers \ {v}
  BY DEF CameraInv, InOrder, Unsubscribe
<1>3. /\ IsFiniteSet(viewers') /\ Cardinality(viewers') = Cardinality(viewers) - 1
      /\ Cardinality(viewers) \in Nat /\ Cardinality(viewers') \in Nat
  BY <1>2, FS_RemoveElement, FS_CardinalityType
<1>4. n < MaxSubs /\ n + Cardinality(viewers') <= subs /\ n + 1 + Cardinality(viewers') <= subs
  BY <1>0, <1>1, <1>3, CameraAssumption
<1>5. Fresh(drain) = n + 1 /\ n + 1 \in Tasks /\ drain[n + 1] = "none"
  BY <1>1, <1>4, FreshTask
<1>6. Created([drain EXCEPT ![n + 1] = "new"]) = 1..(n + 1)
  BY <1>0, <1>1, <1>4, OneMoreTask
<1>7. CASE drain' = drain /\ drTask' = drTask
  BY <1>0, <1>1, <1>3, <1>4, <1>7
<1>8. CASE drain' = [drain EXCEPT ![Fresh(drain)] = "new"] /\ drTask' = Fresh(drain)
  <2>1. drain' = [drain EXCEPT ![n + 1] = "new"] /\ drTask' = n + 1
    BY <1>5, <1>8
  <2> QED BY <1>0, <1>3, <1>4, <1>5, <1>6, <2>1 DEF DrainPhase
<1> QED BY <1>7, <1>8 DEF Unsubscribe, ScheduleDrain

Newest(q, frame) == \A i \in 1..Len(q) : q[i] = frame - Len(q) + i

\* Neither taking the oldest frame nor adding the next one leaves a gap.
LEMMA TailIsNewest ==
  ASSUME NEW S, NEW q \in Seq(S), q # <<>>, NEW frame \in Nat, Newest(q, frame)
  PROVE  Tail(q) \in Seq(S) /\ Len(Tail(q)) = Len(q) - 1 /\ Newest(Tail(q), frame)
<1>1. Len(q) \in Nat /\ Len(q) # 0 /\ Tail(q) \in Seq(S) /\ Len(Tail(q)) = Len(q) - 1
  OBVIOUS
<1>2. ASSUME NEW i \in 1..Len(Tail(q))
      PROVE  Tail(q)[i] = frame - Len(Tail(q)) + i
  <2>1. Tail(q)[i] = q[i + 1] /\ i + 1 \in 1..Len(q)
    BY <1>1
  <2>2. q[i + 1] = frame - Len(q) + (i + 1)
    BY <2>1 DEF Newest
  <2> QED BY <1>1, <2>1, <2>2
<1> QED BY <1>1, <1>2 DEF Newest

LEMMA AppendIsNewest ==
  ASSUME NEW S, NEW q \in Seq(S), NEW frame \in Nat, frame + 1 \in S, Newest(q, frame)
  PROVE  /\ Append(q, frame + 1) \in Seq(S) /\ Len(Append(q, frame + 1)) = Len(q) + 1
         /\ Newest(Append(q, frame + 1), frame + 1)
<1>1. /\ Len(q) \in Nat /\ Append(q, frame + 1) \in Seq(S)
      /\ Len(Append(q, frame + 1)) = Len(q) + 1
  OBVIOUS
<1>2. ASSUME NEW i \in 1..(Len(q) + 1)
      PROVE  Append(q, frame + 1)[i] = frame + 1 - (Len(q) + 1) + i
  <2>1. CASE i = Len(q) + 1
    BY <1>1, <2>1
  <2>2. CASE i \in 1..Len(q)
    <3>1. Append(q, frame + 1)[i] = q[i] /\ q[i] = frame - Len(q) + i
      BY <1>1, <2>2 DEF Newest
    <3> QED BY <1>1, <3>1
  <2> QED BY <1>1, <2>1, <2>2
<1> QED BY <1>1, <1>2 DEF Newest

QueueType ==
  /\ queue \in [Viewers -> Seq(1..MaxFrames)] /\ latest \in 0..MaxFrames
  /\ \A v \in Viewers : Len(queue[v]) <= QueueSize

\* The newest frames wait for every viewer, whatever the upstream publishes.
LEMMA QueuesHold ==
  ASSUME CameraInv, Next
  PROVE  QueueType' /\ NewestFramesWait'
<1>0. /\ queue \in [Viewers -> Seq(1..MaxFrames)] /\ latest \in 0..MaxFrames
      /\ MaxFrames \in Nat /\ QueueSize \in Nat \ {0} /\ viewers \subseteq Viewers
  BY CameraAssumption DEF CameraInv, TypeOK
<1>1. \A v \in Viewers : Len(queue[v]) <= QueueSize
  BY DEF CameraInv, TypeOK
<1>2. \A v \in viewers : Newest(queue[v], latest)
  BY DEF CameraInv, NewestFramesWait, Newest
<1>3. ASSUME NEW v \in Viewers, NEW q \in Seq(1..MaxFrames), Len(q) <= QueueSize,
             v \in viewers' => Newest(q, latest),
             queue' = [queue EXCEPT ![v] = q], latest' = latest, viewers' \subseteq viewers \cup {v}
      PROVE  QueueType' /\ NewestFramesWait'
  <2>1. QueueType'
    BY <1>0, <1>1, <1>3 DEF QueueType
  <2>2. ASSUME NEW u \in viewers'
        PROVE  Newest(queue'[u], latest')
    <3>1. CASE u = v
      <4>1. queue'[u] = q
        BY <1>0, <1>3, <3>1
      <4> QED BY <1>3, <2>2, <3>1, <4>1
    <3>2. CASE u # v
      <4>1. u \in viewers /\ u \in Viewers
        BY <1>0, <1>3, <3>2
      <4>2. queue'[u] = queue[u]
        BY <1>0, <1>3, <3>2, <4>1
      <4> QED BY <1>2, <1>3, <2>2, <4>1, <4>2
    <3> QED BY <3>1, <3>2
  <2> QED BY <2>1, <2>2 DEF NewestFramesWait, Newest
<1>4. ASSUME NEW v \in Viewers, Subscribe(v)
      PROVE  QueueType' /\ NewestFramesWait'
  <2>1. PICK q : /\ q = IF latest = 0 THEN <<>> ELSE <<latest>>
                 /\ queue' = [queue EXCEPT ![v] = q]
    BY <1>4 DEF Subscribe
  <2>2. q \in Seq(1..MaxFrames) /\ Len(q) <= QueueSize /\ Newest(q, latest)
    <3>1. CASE latest = 0
      BY <1>0, <2>1, <3>1 DEF Newest
    <3>2. CASE latest # 0
      <4>1. q = <<latest>> /\ latest \in 1..MaxFrames
        BY <1>0, <2>1, <3>2
      <4>2. Len(q) = 1 /\ q[1] = latest /\ q \in Seq(1..MaxFrames)
        BY <4>1
      <4> QED BY <1>0, <4>1, <4>2 DEF Newest
    <3> QED BY <3>1, <3>2
  <2>3. latest' = latest /\ viewers' = viewers \cup {v}
    BY <1>4 DEF Subscribe
  <2> QED BY <1>3, <2>1, <2>2, <2>3
<1>5. ASSUME NEW v \in Viewers, TakeFrame(v)
      PROVE  QueueType' /\ NewestFramesWait'
  <2>1. v \in viewers /\ queue[v] # <<>> /\ queue[v] \in Seq(1..MaxFrames)
        /\ queue' = [queue EXCEPT ![v] = Tail(queue[v])] /\ latest' = latest /\ viewers' = viewers
    BY <1>0, <1>5 DEF TakeFrame
  <2>2. /\ Tail(queue[v]) \in Seq(1..MaxFrames) /\ Len(Tail(queue[v])) = Len(queue[v]) - 1
        /\ Newest(Tail(queue[v]), latest)
    BY <1>0, <1>2, <2>1, TailIsNewest
  <2>3. Len(Tail(queue[v])) <= QueueSize
    BY <1>0, <1>1, <2>1, <2>2
  <2> QED BY <1>3, <2>1, <2>2, <2>3
<1>6. ASSUME NEW v \in Viewers, Unsubscribe(v)
      PROVE  QueueType' /\ NewestFramesWait'
  <2>1. queue' = [queue EXCEPT ![v] = <<>>] /\ latest' = latest /\ viewers' \subseteq viewers \cup {v}
    BY <1>6 DEF Unsubscribe
  <2>2. <<>> \in Seq(1..MaxFrames) /\ Len(<<>>) <= QueueSize /\ Newest(<<>>, latest)
    BY <1>0 DEF Newest
  <2> QED BY <1>3, <2>1, <2>2
<1>7. ASSUME NEW t \in Tasks, UpFrame(t)
      PROVE  QueueType' /\ NewestFramesWait'
  <2>1. /\ latest < MaxFrames /\ latest' = latest + 1 /\ viewers' = viewers
        /\ queue' = [v \in Viewers |->
             IF v \notin viewers THEN queue[v]
             ELSE Append(IF Len(queue[v]) = QueueSize THEN Tail(queue[v]) ELSE queue[v], latest + 1)]
    BY <1>7 DEF UpFrame, Publish
  <2>2. latest' \in 0..MaxFrames /\ latest + 1 \in 1..MaxFrames
    BY <1>0, <2>1
  <2>3. ASSUME NEW v \in viewers
        PROVE  /\ queue'[v] \in Seq(1..MaxFrames) /\ Len(queue'[v]) <= QueueSize
               /\ Newest(queue'[v], latest')
    <3>1. PICK q : q = IF Len(queue[v]) = QueueSize THEN Tail(queue[v]) ELSE queue[v]
      OBVIOUS
    <3>2. queue'[v] = Append(q, latest + 1) /\ queue[v] \in Seq(1..MaxFrames) /\ Len(queue[v]) <= QueueSize
      BY <1>0, <1>1, <2>1, <2>3, <3>1
    <3>3. q \in Seq(1..MaxFrames) /\ Len(q) < QueueSize /\ Newest(q, latest)
      <4>1. CASE Len(queue[v]) # QueueSize
        <5>1. q = queue[v]
          BY <3>1, <4>1
        <5> QED BY <1>0, <1>2, <2>3, <3>2, <4>1, <5>1
      <4>2. CASE Len(queue[v]) = QueueSize
        <5>1. queue[v] # <<>> /\ q = Tail(queue[v])
          BY <1>0, <3>1, <3>2, <4>2
        <5>2. latest \in Nat /\ Newest(queue[v], latest)
          BY <1>0, <1>2, <2>3
        <5>3. q \in Seq(1..MaxFrames) /\ Len(q) = Len(queue[v]) - 1 /\ Newest(q, latest)
          BY <3>2, <5>1, <5>2, TailIsNewest
        <5> QED BY <1>0, <4>2, <5>3
      <4> QED BY <4>1, <4>2
    <3>4. /\ queue'[v] \in Seq(1..MaxFrames) /\ Len(queue'[v]) = Len(q) + 1
          /\ Newest(queue'[v], latest + 1)
      BY <1>0, <2>2, <3>2, <3>3, AppendIsNewest
    <3> QED BY <1>0, <2>1, <3>3, <3>4
  <2>4. \A v \in Viewers \ viewers : queue'[v] = queue[v]
    BY <2>1
  <2>5. QueueType'
    BY <1>0, <1>1, <2>1, <2>2, <2>3, <2>4 DEF QueueType
  <2> QED BY <2>1, <2>3, <2>5 DEF NewestFramesWait, Newest
<1>8. CASE UNCHANGED <<viewers, queue, latest>>
  BY <1>0, <1>1, <1>2, <1>8 DEF QueueType, NewestFramesWait, Newest
<1>9. ASSUME NEW t \in Tasks, UpstreamStep(t) \/ UpBreaks(t) \/ DrainStep(t)
      PROVE  UNCHANGED <<viewers, queue, latest>>
  BY <1>9 DEF UpstreamStep, DrainStep, UpConnecting, UpOpen, UpFailed, UpCancelled, UpBreaks,
              DrainSleep, DrainCancelled, DrainExpire, DrainEnds, fanout
<1>10. StopBegin \/ StopStep => UNCHANGED <<viewers, queue, latest>>
  BY DEF StopBegin, StopStep, StopDrained, StopUpstreamEnded, StopYield, StopEnds, fanout
<1> QED BY <1>4, <1>5, <1>6, <1>7, <1>8, <1>9, <1>10 DEF Next

-----------------------------------------------------------------------------
(* The tasks.                                                              *)

OtherTypes ==
  /\ viewers \subseteq Viewers /\ state \in {"idle", "connecting", "streaming", "failed"}
  /\ up \in [Tasks -> UpPhase] /\ upCancel \subseteq Tasks /\ upTask \in Tasks \cup {None}
  /\ drain \in [Tasks -> DrainPhase] /\ drCancel \subseteq Tasks /\ drTask \in Tasks \cup {None}
  /\ target \in [Tasks -> Tasks \cup {None}]
  /\ stop \in StopPhase /\ waits \in Tasks \cup {None} /\ subs \in 0..MaxSubs /\ raced \in BOOLEAN

\* A task that goes on does not change which tasks there are.
LEMMA SameCreated ==
  ASSUME NEW Phases, NEW task \in [Tasks -> Phases], NEW t \in Created(task), NEW phase, phase # "none"
  PROVE  Created([task EXCEPT ![t] = phase]) = Created(task)
BY DEF Created

LEMMA TypesHold ==
  ASSUME CameraInv, Next
  PROVE  OtherTypes' /\ InOrder'
<1>0. OtherTypes /\ InOrder /\ TasksAreKnown /\ MaxSubs \in Nat
  BY CameraAssumption DEF CameraInv, TypeOK, OtherTypes
<1>1. ASSUME NEW v \in Viewers, Subscribe(v)
      PROVE  OtherTypes' /\ InOrder'
  <2>1. /\ v \notin viewers /\ subs < MaxSubs /\ subs' = subs + 1 /\ viewers' = viewers \cup {v}
        /\ EnsureUpstream /\ drCancel' \in {drCancel, drCancel \cup {drTask}} /\ drTask' = None
        /\ Pending(drain, drTask) \/ drCancel' = drCancel
        /\ raced' \in BOOLEAN /\ UNCHANGED <<state, upCancel, drain, target, stop, waits>>
    BY <1>1 DEF Subscribe, CancelDrain, stopper
  <2>2. /\ up' \in [Tasks -> UpPhase] /\ upTask' \in Tasks \cup {None}
        /\ \E n \in 0..(subs + 1) : Created(up') = 1..n
    BY <2>1, EnsuredUpstream
  <2>3. drCancel' \subseteq Tasks
    BY <1>0, <2>1 DEF Pending, OtherTypes
  <2>4. IsFiniteSet(viewers') /\ Cardinality(viewers') = Cardinality(viewers) + 1
        /\ Cardinality(viewers) \in Nat
    BY <1>0, <2>1, FS_AddElement, FS_CardinalityType DEF InOrder
  <2>5. OtherTypes'
    BY <1>0, <2>1, <2>2, <2>3 DEF OtherTypes
  <2>6. \E n \in Nat : Created(drain') = 1..n /\ n + Cardinality(viewers') <= subs'
    <3>1. PICK n \in Nat : Created(drain) = 1..n /\ n + Cardinality(viewers) <= subs
      BY <1>0 DEF InOrder
    <3>2. n + Cardinality(viewers') <= subs'
      BY <1>0, <2>1, <2>4, <3>1 DEF OtherTypes
    <3> QED BY <2>1, <3>1, <3>2
  <2> QED BY <2>1, <2>2, <2>4, <2>5, <2>6 DEF InOrder
<1>2. ASSUME NEW v \in Viewers, Unsubscribe(v)
      PROVE  OtherTypes' /\ InOrder'
  <2>1. /\ viewers' = viewers \ {v}
        /\ UNCHANGED <<subs, raced, state, up, upCancel, upTask, drCancel, target, stop, waits>>
    BY <1>2 DEF Unsubscribe, upstream, stopper
  <2>2. /\ drain' \in [Tasks -> DrainPhase] /\ drTask' \in Tasks \cup {None} /\ IsFiniteSet(viewers')
        /\ \E n \in Nat : Created(drain') = 1..n /\ n + Cardinality(viewers') <= subs
    BY <1>2, ScheduledDrain
  <2> QED BY <1>0, <2>1, <2>2 DEF OtherTypes, InOrder
<1>3. ASSUME UNCHANGED <<viewers, subs>>, Created(up') = Created(up), Created(drain') = Created(drain)
      PROVE  InOrder'
  BY <1>0, <1>3 DEF InOrder
<1>4. ASSUME NEW t \in Tasks, UpstreamStep(t) \/ UpFrame(t) \/ UpBreaks(t)
      PROVE  OtherTypes' /\ InOrder'
  <2>1. /\ up' = up \/ (t \in Created(up) /\ \E phase \in UpPhase \ {"none"} : up' = [up EXCEPT ![t] = phase])
        /\ state' \in {state, "connecting", "streaming", "failed"}
        /\ UNCHANGED <<viewers, subs, raced, upCancel, upTask, drains, stopper>>
    BY <1>0, <1>4 DEF UpstreamStep, UpConnecting, UpOpen, UpFailed, UpCancelled, UpFrame, UpBreaks,
                      fanout, upstream, Created, UpPhase, TasksAreKnown
  <2>2. up' \in [Tasks -> UpPhase] /\ Created(up') = Created(up)
    BY <1>0, <2>1, SameCreated DEF OtherTypes
  <2> QED BY <1>0, <1>3, <2>1, <2>2 DEF OtherTypes, drains, stopper
<1>5. ASSUME NEW d \in Tasks, DrainStep(d)
      PROVE  OtherTypes' /\ InOrder'
  <2>1. /\ d \in Created(drain) /\ \E phase \in DrainPhase \ {"none"} : drain' = [drain EXCEPT ![d] = phase]
        /\ state' \in {state, "idle"} /\ upTask' \in {upTask, None}
        /\ UNCHANGED <<fanout, up, drCancel, drTask, stopper>>
    BY <1>5 DEF DrainStep, DrainSleep, DrainCancelled, DrainExpire, DrainEnds, Created, DrainPhase, upstream
  <2>2. upCancel' \subseteq Tasks /\ target' \in [Tasks -> Tasks \cup {None}]
    BY <1>0, <1>5 DEF DrainStep, DrainSleep, DrainCancelled, DrainExpire, DrainEnds, upstream, Pending, OtherTypes
  <2>3. drain' \in [Tasks -> DrainPhase] /\ Created(drain') = Created(drain)
    BY <1>0, <2>1, SameCreated DEF OtherTypes
  <2> QED BY <1>0, <1>3, <2>1, <2>2, <2>3 DEF OtherTypes, fanout, stopper
<1>6. CASE StopBegin \/ StopStep
  <2>1. /\ stop' \in StopPhase /\ waits' \in Tasks \cup {None} /\ upCancel' \subseteq Tasks
        /\ upTask' \in {upTask, None} /\ drCancel' \subseteq Tasks /\ drTask' \in {drTask, None}
        /\ UNCHANGED <<fanout, state, up, drain, target>>
    BY <1>0, <1>6 DEF StopBegin, StopStep, StopDrained, StopUpstreamEnded, StopYield, StopEnds, StopDrain,
                      StopUpstream, CancelDrain, Pending, upstream, drains, StopPhase, OtherTypes
  <2> QED BY <1>0, <1>3, <2>1 DEF OtherTypes, fanout
<1>7. ASSUME NEW v \in Viewers, TakeFrame(v)
      PROVE  OtherTypes' /\ InOrder'
  BY <1>0, <1>3, <1>7 DEF TakeFrame, OtherTypes, upstream, drains, stopper
<1> QED BY <1>1, <1>2, <1>4, <1>5, <1>6, <1>7 DEF Next

\* Who owns the upstream connection stays known; one step per kind of action.
LEMMA TasksHold ==
  ASSUME CameraInv, Next
  PROVE  TasksAreKnown' /\ OnlyUpTask' /\ StopKnows' /\ UpTaskServes'
<1>0. OtherTypes /\ TasksAreKnown /\ OnlyUpTask /\ StopKnows /\ UpTaskServes /\ None \notin Tasks
  BY CameraAssumption DEF CameraInv, TypeOK, OtherTypes, None, Tasks
<1>1. ASSUME NEW v \in Viewers, Subscribe(v)
      PROVE  TasksAreKnown' /\ OnlyUpTask' /\ StopKnows' /\ UpTaskServes'
  <2>1. /\ EnsureUpstream /\ subs < MaxSubs /\ raced' = (raced \/ \E d \in Tasks : drain[d] = "await")
        /\ UNCHANGED <<upCancel, drain, target, stop, waits>>
    BY <1>1 DEF Subscribe, stopper
  <2>2. \/ up' = up /\ upTask' = upTask /\ (Stopped \/ Pending(up, upTask))
        \/ /\ upTask' \in Tasks /\ up[upTask'] = "none" /\ up' = [up EXCEPT ![upTask'] = "new"]
           /\ ~Stopped /\ ~Pending(up, upTask)
    BY <2>1, EnsuredUpstream
  <2>3. TasksAreKnown'
    BY <1>0, <2>1, <2>2 DEF TasksAreKnown, OtherTypes, Created, Ended
  <2>4. OnlyUpTask'
    BY <1>0, <2>1, <2>2 DEF OnlyUpTask, OtherTypes, Ended, Pending
  <2>5. StopKnows'
    BY <1>0, <2>1, <2>2 DEF StopKnows, Stopped
  <2>6. UpTaskServes'
    <3> SUFFICES ASSUME ~raced', stop = "no"
                 PROVE  upTask' \in Tasks /\ ~Ended(upTask)' /\ upTask' \notin upCancel'
      BY <2>1 DEF UpTaskServes, Stopped
    <3>1. CASE up' = up /\ upTask' = upTask /\ (Stopped \/ Pending(up, upTask))
      <4>1. upTask \in Created(up) /\ up[upTask] # "done"
        BY <1>0, <3>1 DEF Pending, Stopped, TasksAreKnown
      <4>2. upTask \in Tasks /\ ~Ended(upTask)
        BY <4>1 DEF Created, Ended
      <4>3. upTask \notin upCancel
        BY <1>0, <2>1, <4>2 DEF TasksAreKnown
      <4> QED BY <2>1, <3>1, <4>2, <4>3 DEF Ended
    <3>2. CASE upTask' \in Tasks /\ up[upTask'] = "none" /\ up' = [up EXCEPT ![upTask'] = "new"]
      BY <1>0, <2>1, <3>2 DEF OtherTypes, Ended, TasksAreKnown, Created
    <3> QED BY <2>2, <3>1, <3>2
  <2> QED BY <2>3, <2>4, <2>5, <2>6
<1>2. ASSUME NEW v \in Viewers, Unsubscribe(v)
      PROVE  TasksAreKnown' /\ OnlyUpTask' /\ StopKnows' /\ UpTaskServes'
  <2>1. \A d \in Tasks : drain'[d] = drain[d] \/ (drain[d] = "none" /\ drain'[d] = "new")
    BY <1>2, ScheduledDrain
  <2>2. \A d \in Tasks : drain'[d] = "await" <=> drain[d] = "await"
    BY <2>1
  <2>3. viewers' \subseteq viewers /\ UNCHANGED <<raced, up, upCancel, upTask, target, stop, waits>>
    BY <1>2 DEF Unsubscribe, upstream, stopper
  <2> QED
    BY <1>0, <2>2, <2>3 DEF TasksAreKnown, OnlyUpTask, StopKnows, UpTaskServes, Created, Ended, Stopped
<1>3. ASSUME NEW t \in Tasks, UpstreamStep(t) \/ UpFrame(t) \/ UpBreaks(t)
      PROVE  TasksAreKnown' /\ OnlyUpTask' /\ StopKnows' /\ UpTaskServes'
  <2>1. /\ up' = up \/ (t \in Created(up) /\ up[t] # "done" /\ \E phase \in UpPhase \ {"none"} :
                          /\ up' = [up EXCEPT ![t] = phase]
                          /\ phase = "done" => Stopped \/ viewers = {} \/ t \in upCancel)
        /\ UNCHANGED <<viewers, subs, raced, upCancel, upTask, drains, stopper>>
    BY <1>0, <1>3 DEF UpstreamStep, UpConnecting, UpOpen, UpFailed, UpCancelled, UpFrame, UpBreaks,
                      fanout, upstream, Created, UpPhase, TasksAreKnown
  <2>2. /\ \A s \in Tasks : /\ up'[s] = "none" <=> up[s] = "none"
                            /\ Ended(s) => up'[s] = up[s]
        /\ up'[t] = "done" /\ up[t] # "done" => Stopped \/ viewers = {} \/ t \in upCancel
        /\ \A s \in Tasks \ {t} : up'[s] = up[s]
    BY <1>0, <2>1 DEF OtherTypes, Created, Ended
  <2>3. \A s \in Tasks : Ended(s) => Ended(s)'
    BY <2>2 DEF Ended
  <2>4. TasksAreKnown'
    BY <1>0, <2>1, <2>2, <2>3 DEF TasksAreKnown, drains, stopper, Created, Ended
  <2>5. OnlyUpTask' /\ StopKnows'
    BY <1>0, <2>1, <2>3 DEF OnlyUpTask, StopKnows, drains, stopper, Ended
  <2>6. UpTaskServes'
    BY <1>0, <2>1, <2>2 DEF UpTaskServes, stopper, Stopped, Ended
  <2> QED BY <2>4, <2>5, <2>6
<1>4. ASSUME NEW d \in Tasks, DrainStep(d)
      PROVE  TasksAreKnown' /\ OnlyUpTask' /\ StopKnows' /\ UpTaskServes'
  <2>1. /\ d \in Tasks /\ UNCHANGED <<fanout, up, drCancel, drTask, stopper>>
        /\ drain' = [drain EXCEPT ![d] = drain'[d]]
    BY <1>0, <1>4 DEF DrainStep, DrainSleep, DrainCancelled, DrainExpire, DrainEnds, upstream, OtherTypes
  <2>2. CASE drain[d] # "await" /\ drain'[d] # "await" /\ UNCHANGED <<upCancel, target>>
             /\ (upTask' = upTask \/ (upTask' = None /\ ~Pending(up, upTask) /\ viewers = {}))
    <3>1. \A e \in Tasks : drain'[e] = "await" <=> drain[e] = "await"
      BY <1>0, <2>1, <2>2 DEF OtherTypes
    <3>2. TasksAreKnown'
      BY <1>0, <2>1, <2>2, <3>1 DEF TasksAreKnown, stopper, Created, Ended
    <3>3. OnlyUpTask'
      BY <1>0, <2>1, <2>2, <3>1 DEF OnlyUpTask, fanout, Ended, Pending
    <3>4. StopKnows' /\ UpTaskServes'
      BY <1>0, <2>1, <2>2 DEF StopKnows, UpTaskServes, fanout, stopper, Stopped, Ended
    <3> QED BY <3>2, <3>3, <3>4
  <2>3. CASE /\ drain[d] = "sleep" /\ drain'[d] = "await" /\ viewers = {} /\ Pending(up, upTask)
             /\ upCancel' = upCancel \cup {upTask} /\ target' = [target EXCEPT ![d] = upTask]
             /\ upTask' = upTask
    <3>1. upTask \in Created(up) /\ upTask \in Tasks
      BY <1>0, <2>3 DEF Pending, TasksAreKnown, Created
    <3>2. /\ \A e \in Tasks \ {d} : drain'[e] = drain[e] /\ target'[e] = target[e]
          /\ target'[d] = upTask
      BY <1>0, <2>1, <2>3 DEF OtherTypes
    <3>3. TasksAreKnown'
      <4>1. upCancel' \subseteq Created(up') /\ (upTask' # None => upTask' \in Created(up'))
        BY <1>0, <2>1, <2>3, <3>1 DEF TasksAreKnown
      <4>2. ASSUME stop' = "no", NEW t \in upCancel', ~Ended(t)'
            PROVE  \E e \in Tasks : drain'[e] = "await" /\ target'[e] = t
        <5>1. CASE t = upTask
          BY <2>3, <3>2, <5>1
        <5>2. CASE t # upTask
          <6>1. PICK e \in Tasks : drain[e] = "await" /\ target[e] = t
            BY <1>0, <2>1, <2>3, <4>2, <5>2 DEF TasksAreKnown, stopper, Ended
          <6>2. e # d
            BY <2>3, <6>1
          <6> QED BY <3>2, <6>1, <6>2
        <5> QED BY <5>1, <5>2
      <4> QED BY <4>1, <4>2 DEF TasksAreKnown
    <3>4. OnlyUpTask'
      BY <1>0, <2>1, <2>3, <3>2 DEF OnlyUpTask, fanout, Ended
    <3>5. StopKnows' /\ UpTaskServes'
      BY <1>0, <2>1, <2>3 DEF StopKnows, UpTaskServes, fanout, stopper
    <3> QED BY <3>3, <3>4, <3>5
  <2>4. CASE DrainEnds(d)
    <3>1. /\ drain[d] = "await" /\ up[target[d]] = "done" /\ upTask' = None
          /\ UNCHANGED <<upCancel, target>> /\ \A e \in Tasks \ {d} : drain'[e] = drain[e]
          /\ drain'[d] = "done"
      BY <1>0, <2>4 DEF DrainEnds, OtherTypes
    <3>2. TasksAreKnown'
      <4>1. ASSUME stop' = "no", NEW t \in upCancel', ~Ended(t)'
            PROVE  \E e \in Tasks : drain'[e] = "await" /\ target'[e] = t
        <5>1. PICK e \in Tasks : drain[e] = "await" /\ target[e] = t
          BY <1>0, <2>1, <3>1, <4>1 DEF TasksAreKnown, stopper, Ended
        <5>2. e # d
          BY <2>1, <3>1, <4>1, <5>1 DEF Ended
        <5> QED BY <3>1, <5>1, <5>2
      <4> QED BY <1>0, <2>1, <3>1, <4>1 DEF TasksAreKnown
    <3>3. ~raced => \A t \in Tasks : Ended(t)
      BY <1>0, <3>1 DEF OnlyUpTask, Ended
    <3>4. OnlyUpTask'
      BY <2>1, <3>1, <3>3, <1>0 DEF OnlyUpTask, fanout, Ended
    <3>5. UpTaskServes'
      BY <1>0, <2>1, <3>3 DEF UpTaskServes, fanout, stopper, Stopped
    <3>6. StopKnows'
      BY <1>0, <2>1, <3>1 DEF StopKnows, stopper
    <3> QED BY <3>2, <3>4, <3>5, <3>6
  <2> QED
    BY <1>0, <1>4, <2>2, <2>3, <2>4
       DEF DrainStep, DrainSleep, DrainCancelled, DrainExpire, upstream, OtherTypes
<1>5. CASE StopBegin \/ StopStep
  <2>1. /\ stop' # "no" /\ UNCHANGED <<viewers, raced, up, drain, target>>
        /\ upCancel \subseteq upCancel' /\ upCancel' \subseteq Created(up)
        /\ \/ upTask' = upTask
           \/ upTask' = None /\ (~Pending(up, upTask) \/ (stop = "upstream" /\ up[waits] = "done"))
    BY <1>0, <1>5 DEF StopBegin, StopStep, StopDrained, StopUpstreamEnded, StopYield, StopEnds, StopDrain,
                      StopUpstream, Pending, TasksAreKnown, fanout, upstream, drains
  <2>2. TasksAreKnown'
    BY <1>0, <2>1 DEF TasksAreKnown
  <2>3. OnlyUpTask'
    BY <1>0, <2>1 DEF OnlyUpTask, StopKnows, Ended, Pending
  <2>4. UpTaskServes'
    BY <2>1 DEF UpTaskServes, Stopped
  <2>5. StopKnows'
    BY <1>0, <1>5 DEF StopBegin, StopStep, StopDrained, StopUpstreamEnded, StopYield, StopEnds, StopDrain,
                      StopUpstream, Pending, StopKnows, OtherTypes, fanout, upstream, drains
  <2> QED BY <2>2, <2>3, <2>4, <2>5
<1>6. ASSUME NEW v \in Viewers, TakeFrame(v)
      PROVE  TasksAreKnown' /\ OnlyUpTask' /\ StopKnows' /\ UpTaskServes'
  BY <1>0, <1>6 DEF TakeFrame, TasksAreKnown, OnlyUpTask, StopKnows, UpTaskServes, upstream, drains,
                    stopper, Created, Ended, Stopped
<1> QED BY <1>1, <1>2, <1>3, <1>4, <1>5, <1>6 DEF Next

-----------------------------------------------------------------------------

LEMMA CameraNext == CameraInv /\ [Next]_vars => CameraInv'
<1> SUFFICES ASSUME CameraInv, [Next]_vars PROVE CameraInv'
  OBVIOUS
<1>1. CASE Next
  <2>1. QueueType' /\ NewestFramesWait' /\ OtherTypes' /\ InOrder'
        /\ TasksAreKnown' /\ OnlyUpTask' /\ StopKnows' /\ UpTaskServes'
    BY <1>1, QueuesHold, TypesHold, TasksHold
  <2> QED BY <2>1 DEF CameraInv, TypeOK, QueueType, OtherTypes
<1>2. CASE UNCHANGED vars
  <2>1. UNCHANGED <<viewers, queue, latest, subs, raced, state, up, upCancel, upTask, drain, drCancel,
                    drTask, target, stop, waits>>
    BY <1>2 DEF vars, fanout, upstream, drains, stopper
  <2>2. TypeOK'
    BY <2>1 DEF CameraInv, TypeOK
  <2>3. NewestFramesWait'
    BY <2>1 DEF CameraInv, NewestFramesWait
  <2>4. InOrder'
    BY <2>1 DEF CameraInv, InOrder, Created
  <2>5. TasksAreKnown' /\ OnlyUpTask' /\ StopKnows' /\ UpTaskServes'
    BY <2>1 DEF CameraInv, TasksAreKnown, OnlyUpTask, StopKnows, UpTaskServes, Created, Ended, Stopped
  <2> QED BY <2>2, <2>3, <2>4, <2>5 DEF CameraInv
<1> QED BY <1>1, <1>2

\* The printer's connection has one owner, who ends it (camera_proxy.py:149-252):
\* there is one connection at a time and none is left when stop() returns,
\* however many viewers come and go, unless one arrives while a drain waits.
THEOREM UpstreamCorrect == Spec => []UpstreamIsOwned
<1>1. CameraInv => UpstreamIsOwned
  <2> SUFFICES ASSUME CameraInv PROVE OneConnection /\ StopLeavesNothing
    BY DEF CameraInv, UpstreamIsOwned
  <2>1. OnlyUpTask /\ StopKnows /\ None \notin Tasks
    BY CameraAssumption DEF CameraInv, None, Tasks
  <2>2. OneConnection
    BY <2>1 DEF OneConnection, OnlyUpTask, Connected, Ended
  <2>3. StopLeavesNothing
    BY <2>1 DEF StopLeavesNothing, OnlyUpTask, StopKnows
  <2> QED BY <2>2, <2>3
<1> QED BY <1>1, CameraInit, CameraNext, PTL DEF Spec

\* A viewer that falls behind loses old frames, never new ones (_publish).
THEOREM FramesCorrect == Spec => []NewestFramesWait
<1>1. CameraInv => NewestFramesWait
  BY DEF CameraInv
<1> QED BY <1>1, CameraInit, CameraNext, PTL DEF Spec

\* Under the same condition nobody watches without an upstream task that
\* connects, streams or will retry (_ensure_upstream, _drain_after).
THEOREM ViewersCorrect == Spec => []ViewersServed
<1>1. CameraInv => ViewersServed
  BY DEF CameraInv, ViewersServed, UpTaskServes
<1> QED BY <1>1, CameraInit, CameraNext, PTL DEF Spec
=============================================================================
