------------------------------ MODULE MCPrints ------------------------------
(* Small instances of what is told of a print: the snapshot of it, the         *)
(* delivery of snapshots to a subscriber, and the notifications.  The modules  *)
(* share no state, so a behaviour exercises the part it starts with.           *)
EXTENDS Notifications

CONSTANTS Names, Forms, MaxPrints, MaxSubmissions, MaxReports, MaxCalls, QueueLimit, MaxSequence,
  PushForms, MaxPushChanges,  \* the reports and the printers' doings where there are phones
  MetaForms, MaxMetaReports   \* the reports where metadata is fetched

VARIABLES part,
  raw, shown, sources, usage, pendingSource, activeKey, fileReachable, cloudHost, metaCalls,
  fetches, metaDone, metaFailed, printing, originOf, submitted, submissions, strayed, missed, reports,
  sequence, handing, deliveries, subscribed, mailbox, newestSeen

snapshotVars == <<raw, shown, sources, usage, pendingSource, activeKey, fileReachable, cloudHost,
  metaCalls, fetches, metaDone, metaFailed, printing, originOf, submitted, submissions, strayed, missed, reports>>
deliveryVars == <<sequence, handing, deliveries, subscribed, mailbox, newestSeen>>
suiteVars == <<part, vars, snapshotVars, deliveryVars>>

Pushes == {"events", "push"}
Snapshots == {"prints", "metadata"}

\* Three threads may each be late with a snapshot.
ASSUME QueueLimitAssumption == QueueLimit \in Nat /\ QueueLimit >= 3

ASSUME BoundsAssumption == MaxPrints \in Nat

ASSUME PushFormsAssumption == PushForms \subseteq StatusForms

\* An id comes with the state or with the print command: update takes no notice of it
\* otherwise.
ASSUME FormsAssumption ==
  \A form \in Forms \cup MetaForms : "id" \in form => "st" \in form \/ "cmd" \in form

S == INSTANCE PrintSnapshots
D == INSTANCE SnapshotDelivery

\* A part that is not exercised is off.
Off(variable) == variable = "off"

SuiteInit ==
  /\ part \in Pushes \cup Snapshots \cup {"delivery"}
  /\ Init
  /\ IF part \in Snapshots THEN S!Init /\ cloudHost = (part = "metadata") /\ ~(cloudHost /\ fileReachable)
     ELSE /\ Off(raw) /\ Off(shown) /\ Off(sources) /\ Off(usage) /\ Off(pendingSource)
          /\ Off(activeKey) /\ Off(fileReachable) /\ Off(cloudHost) /\ Off(metaCalls)
          /\ Off(fetches) /\ Off(metaDone) /\ Off(metaFailed) /\ Off(printing) /\ Off(originOf)
          /\ Off(submitted) /\ Off(submissions) /\ Off(strayed) /\ Off(missed) /\ Off(reports)
  /\ IF part = "delivery" THEN D!Init
     ELSE /\ Off(sequence) /\ Off(handing) /\ Off(deliveries) /\ Off(subscribed) /\ Off(mailbox)
          /\ Off(newestSeen)

\* Nothing is claimed of a snapshot that is not followed, and its behaviour ends there.
\* With metadata there are fewer reports, and no file on the printer.
SnapshotNext ==
  /\ S!Followed
  /\ \/ part = "prints" /\ S!Next
     \/ /\ part = "metadata" /\ (S!OtherStep \/ \E form \in MetaForms : S!Report(form))
        /\ ~fileReachable' /\ reports' <= MaxMetaReports

\* Many events and no phones, or phones and few events.
PushNext ==
  \/ part = "events" /\ Next /\ UNCHANGED <<store, phone>>
  \/ /\ part = "push" /\ (OtherStep \/ \E p \in Printers, form \in PushForms : Report(p, form))
     /\ changes' <= MaxPushChanges /\ drops' = 0

SuiteNext ==
  /\ UNCHANGED part
  /\ IF part \in Pushes THEN PushNext ELSE UNCHANGED vars
  /\ IF part \in Snapshots THEN SnapshotNext ELSE UNCHANGED snapshotVars
  /\ IF part = "delivery" THEN D!Next ELSE UNCHANGED deliveryVars

SuiteSpec == SuiteInit /\ [][SuiteNext]_suiteVars

\* Layer, mapping, file and usage are those of the print shown, whatever comes
\* late (print_tracking.py, update and _attach; main.py, current_job_file).
SnapshotIsOfThisPrint ==
  part \in Snapshots => S!FieldsOfThisPrint /\ S!SourceOfThisPrint /\ S!UsageOfThisPrint

\* When nothing is on its way the newest snapshot has reached the subscriber
\* (print_tracking.py:523-539).
NewestArrives == part = "delivery" => D!NewestArrives
=============================================================================
