------------------------- MODULE SliceJobLifecycle -------------------------
(***************************************************************************)
(* What the slice-job subsystem promises of each job, whatever the number  *)
(* of workers, requests, uploads and restarts behind it: the status        *)
(* machine of SliceJobStatus (app/slice_jobs.py), one status change of one *)
(* job at a time, terminal jobs never active again.                        *)
(***************************************************************************)
CONSTANT Jobs
VARIABLE life   \* life[j]: the status of job j, "absent" without a record

Settled == {"ready", "failed", "cancelled"}

Init == life = [j \in Jobs |-> "absent"]

Move(j, from, to) ==
  /\ life[j] \in from
  /\ life' = [life EXCEPT ![j] = to]

Create(j) == Move(j, {"absent"}, "queued")
CancelQueued(j) == Move(j, {"queued"}, "cancelled")
Slice(j) == Move(j, {"queued"}, "slicing")
Upload(j) == Move(j, {"slicing"}, "uploading")
Settle(j) == \E outcome \in Settled : Move(j, {"slicing", "uploading"}, outcome)

\* A reprint makes a settled job ready again, never active.
Reprint(j) == Move(j, Settled, "ready")

\* Deleted jobs, or jobs whose last task ended after their deletion.
Forget(S) == life' = [j \in Jobs |-> IF j \in S THEN "absent" ELSE life[j]]

Next ==
  \/ \E j \in Jobs : \/ Create(j)
                     \/ CancelQueued(j)
                     \/ Slice(j)
                     \/ Upload(j)
                     \/ Settle(j)
                     \/ Reprint(j)
  \/ \E S \in SUBSET Jobs : Forget(S)

Spec == Init /\ [][Next]_life
=============================================================================
