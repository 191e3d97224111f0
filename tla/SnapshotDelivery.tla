-------------------------- MODULE SnapshotDelivery --------------------------
(* How print_tracking.PrintEventBroker delivers its snapshots to a subscriber: *)
(* each is built and numbered under the lock, and handed to the event loop     *)
(* after it, by the thread that built it.  PrintSnapshots says what they hold. *)
EXTENDS Naturals, Sequences

CONSTANTS QueueLimit, \* max_queue_size: 3 at least, since three threads may each
                      \* be late with a snapshot (32 in the code)
          MaxSequence

VARIABLES
  sequence,    \* _sequence, the number of _snapshot
  handing,     \* thread -> the snapshot it built and has not fanned out, or 0
  deliveries,  \* calls of _enqueue_latest scheduled in the loop
  subscribed, mailbox,    \* the subscriber and its queue
  newestSeen              \* the newest snapshot the stream sent

deliveryVars == <<sequence, handing, deliveries, subscribed, mailbox, newestSeen>>

\* A LAN printer's reports come in its MQTT thread and its prints in an upload
\* thread; all else comes in the loop.
Threads == {"mqtt", "upload", "loop"}

Init ==
  /\ sequence = 0 /\ handing = [t \in Threads |-> 0] /\ deliveries = <<>>
  /\ subscribed = FALSE /\ mailbox = <<>> /\ newestSeen = 0

\* update, register_source, enrich_job, set_printer_file_available: a new
\* snapshot, under the lock.
BuildSnapshot(t) ==
  /\ sequence < MaxSequence /\ handing[t] = 0
  /\ sequence' = sequence + 1
  /\ handing' = [handing EXCEPT ![t] = sequence']
  /\ UNCHANGED <<deliveries, subscribed, mailbox, newestSeen>>

\* _fan_out, without the lock.
FanOut(t) ==
  /\ handing[t] # 0
  /\ deliveries' = IF subscribed THEN Append(deliveries, handing[t]) ELSE deliveries
  /\ handing' = [handing EXCEPT ![t] = 0]
  /\ UNCHANGED <<sequence, subscribed, mailbox, newestSeen>>

\* The loop runs the next callback or task when it is not in a method above.
LoopIsFree == handing["loop"] = 0

\* Mutant: a full queue refuses the newer snapshot.
EnqueueLatestBug(q, s) == IF Len(q) >= QueueLimit THEN q ELSE Append(q, s)
\* _enqueue_latest: a full queue loses its oldest snapshot.
EnqueueLatest(q, s) == Append(IF Len(q) >= QueueLimit THEN Tail(q) ELSE q, s)

Deliver ==
  /\ LoopIsFree /\ deliveries # <<>>
  /\ deliveries' = Tail(deliveries)
  /\ mailbox' = EnqueueLatest(mailbox, Head(deliveries))
  /\ UNCHANGED <<sequence, handing, subscribed, newestSeen>>

\* subscribe: the queue starts with the snapshot of that moment.
Subscribe ==
  /\ LoopIsFree /\ ~subscribed
  /\ subscribed' = TRUE /\ mailbox' = <<sequence>>
  /\ UNCHANGED <<sequence, handing, deliveries, newestSeen>>

\* printer_print_events: the stream sends the next snapshot of the queue.
SendSnapshot ==
  /\ LoopIsFree /\ mailbox # <<>>
  /\ mailbox' = Tail(mailbox)
  /\ newestSeen' = IF Head(mailbox) > newestSeen THEN Head(mailbox) ELSE newestSeen
  /\ UNCHANGED <<sequence, handing, deliveries, subscribed>>

Next == \/ \E t \in Threads : BuildSnapshot(t) \/ FanOut(t)
        \/ Deliver \/ Subscribe \/ SendSnapshot

Spec == Init /\ [][Next]_deliveryVars

\* When nothing is on its way, the newest snapshot has reached the subscriber
\* (print_tracking.py:523-539), although threads overtake each other between the
\* lock and the loop and a full queue loses snapshots.
NewestArrives ==
  subscribed /\ deliveries = <<>> /\ (\A t \in Threads : handing[t] = 0) =>
    sequence \in {newestSeen} \cup {mailbox[i] : i \in 1..Len(mailbox)}
=============================================================================
