----------------------------- MODULE PluginHost -----------------------------
(***************************************************************************)
(* PluginHost (app/cloud/plugin_host.py): requests to the C++ host of the  *)
(* Bambu plugin over its stdin, one JSON line each, and the reader task    *)
(* that hands every answer on stdout to the future of the call with its    *)
(* id.  The host answers in the order of the requests.  Callers are tasks  *)
(* of the gateway; a call may time out, and its task may be cancelled.     *)
(***************************************************************************)
EXTENDS Naturals, Sequences, FiniteSets

CONSTANTS
  Callers,   \* tasks that call the host
  MaxCalls   \* bound on calls, and so on request ids

ASSUME PluginHostAssumption == MaxCalls \in Nat

Ids == 1..MaxCalls

VARIABLES
  caller,    \* where the call of each task is
  rid,       \* the request id of the call each task makes or made last
  fut,       \* the future of each request
  pending,   \* ids in _pending
  nextId,    \* _next_id
  stdin,     \* requests the host has not taken
  stdout,    \* answers the reader has not taken
  proc,      \* the host process; "reaped" once returncode is set
  reader,    \* whether _reader_task runs or is done
  stop,      \* where stop() is; _closed from its first step on
  unreadable,\* history: the stream broke, or a line exceeded the limit
  abandoned  \* history: ids whose calling task was cancelled

calls == <<caller, rid, nextId>>
futures == <<fut, pending>>
pipes == <<stdin, stdout>>
vars == <<calls, futures, pipes, proc, reader, stop, unreadable, abandoned>>

TypeOK ==
  /\ caller \in [Callers -> {"idle", "writing", "waiting", "expired"}]
  /\ rid \in [Callers -> 0..MaxCalls]
  /\ fut \in [Ids -> {"none", "open", "answered", "failed", "cancelled"}]
  /\ pending \subseteq Ids
  /\ nextId \in 0..MaxCalls
  /\ stdin \in Seq(Ids)
  /\ stdout \in Seq(Ids)
  /\ proc \in {"running", "exited", "reaped"}
  /\ reader \in {"running", "done"}
  /\ stop \in {"no", "process", "reader", "stopped"}
  /\ unreadable \in BOOLEAN
  /\ abandoned \subseteq Ids

Init ==
  /\ caller = [c \in Callers |-> "idle"]
  /\ rid = [c \in Callers |-> 0]
  /\ fut = [r \in Ids |-> "none"]
  /\ pending = {}
  /\ nextId = 0
  /\ stdin = <<>>
  /\ stdout = <<>>
  /\ proc = "running"
  /\ reader = "running"
  /\ stop = "no"
  /\ unreadable = FALSE
  /\ abandoned = {}

Goto(c, where) == caller' = [caller EXCEPT ![c] = where]

-----------------------------------------------------------------------------
(* Calls.                                                                  *)

\* Mutant: the reader may be gone when a call registers its future.
CallUnguarded(c) ==
  /\ caller[c] = "idle"
  /\ nextId < MaxCalls
  /\ stop = "no"
  /\ proc # "reaped"
  /\ nextId' = nextId + 1
  /\ rid' = [rid EXCEPT ![c] = nextId']
  /\ fut' = [fut EXCEPT ![nextId'] = "open"]
  /\ pending' = pending \cup {nextId'}
  /\ stdin' = Append(stdin, nextId')
  /\ Goto(c, "waiting")
  /\ UNCHANGED <<stdout, proc, reader, stop, unreadable, abandoned>>

\* Nothing suspends before drain(), which does when the pipe is full or broken.
Call(c) ==
  /\ caller[c] = "idle"
  /\ nextId < MaxCalls
  /\ stop = "no"
  /\ proc # "reaped"
  /\ reader = "running"
  /\ nextId' = nextId + 1
  /\ rid' = [rid EXCEPT ![c] = nextId']
  /\ fut' = [fut EXCEPT ![nextId'] = "open"]
  /\ pending' = pending \cup {nextId'}
  /\ stdin' = Append(stdin, nextId')
  /\ \E where \in {"writing", "waiting"} : Goto(c, where)
  /\ UNCHANGED <<stdout, proc, reader, stop, unreadable, abandoned>>

Written(c) ==
  /\ caller[c] = "writing"
  /\ Goto(c, "waiting")
  /\ UNCHANGED <<rid, nextId, futures, pipes, proc, reader, stop, unreadable, abandoned>>

\* drain() raises: the host's stdin is closed.
BrokenPipe(c) ==
  /\ caller[c] = "writing"
  /\ proc # "running"
  /\ pending' = pending \ {rid[c]}
  /\ Goto(c, "idle")
  /\ UNCHANGED <<rid, nextId, fut, pipes, proc, reader, stop, unreadable, abandoned>>

\* The call returns its result or raises its error.
Return(c) ==
  /\ caller[c] = "waiting"
  /\ fut[rid[c]] \in {"answered", "failed"}
  /\ Goto(c, "idle")
  /\ UNCHANGED <<rid, nextId, futures, pipes, proc, reader, stop, unreadable, abandoned>>

\* wait_for's timer cancels the future; the task only resumes at its next step.
Timeout(c) ==
  /\ caller[c] = "waiting"
  /\ fut' = IF fut[rid[c]] = "open" THEN [fut EXCEPT ![rid[c]] = "cancelled"] ELSE fut
  /\ Goto(c, "expired")
  /\ UNCHANGED <<rid, nextId, pending, pipes, proc, reader, stop, unreadable, abandoned>>

Expire(c) ==
  /\ caller[c] = "expired"
  /\ pending' = pending \ {rid[c]}
  /\ Goto(c, "idle")
  /\ UNCHANGED <<rid, nextId, fut, pipes, proc, reader, stop, unreadable, abandoned>>

\* The task that calls is cancelled: nothing unregisters the call.
CancelCaller(c) ==
  /\ caller[c] \in {"writing", "waiting"}
  /\ fut' = IF caller[c] = "waiting" /\ fut[rid[c]] = "open"
            THEN [fut EXCEPT ![rid[c]] = "cancelled"] ELSE fut
  /\ abandoned' = abandoned \cup {rid[c]}
  /\ Goto(c, "idle")
  /\ UNCHANGED <<rid, nextId, pending, pipes, proc, reader, stop, unreadable>>

-----------------------------------------------------------------------------
(* The host process, and the reader task.                                  *)

HostAnswers ==
  /\ proc = "running"
  /\ stdin # <<>>
  /\ stdin' = Tail(stdin)
  /\ stdout' = Append(stdout, Head(stdin))
  /\ UNCHANGED <<calls, futures, proc, reader, stop, unreadable, abandoned>>

\* The host dies, ends at the end of its input, or is killed by stop().
HostExits ==
  /\ proc = "running"
  /\ proc' = "exited"
  /\ UNCHANGED <<calls, futures, pipes, reader, stop, unreadable, abandoned>>

HostReaped ==
  /\ proc = "exited"
  /\ proc' = "reaped"
  /\ UNCHANGED <<calls, futures, pipes, reader, stop, unreadable, abandoned>>

\* Mutant: the reader's end forgets the calls that wait.
FailAllForgetting(waiting) ==
  /\ fut' = fut
  /\ pending' = {}

FailAll(waiting) ==
  /\ fut' = [r \in Ids |-> IF r \in waiting /\ fut[r] = "open" THEN "failed" ELSE fut[r]]
  /\ pending' = {}

\* One answer; setting the result of a cancelled future raises, and ends the
\* reader.  A line that is not JSON is skipped; the host writes no answer like that.
ReadAnswer ==
  /\ reader = "running"
  /\ stop # "reader"
  /\ stdout # <<>>
  /\ stdout' = Tail(stdout)
  /\ LET r == Head(stdout) IN
       IF r \in pending /\ fut[r] = "cancelled"
       THEN /\ reader' = "done"
            /\ FailAll(pending \ {r})
       ELSE /\ pending' = pending \ {r}
            /\ fut' = IF r \in pending THEN [fut EXCEPT ![r] = "answered"] ELSE fut
            /\ UNCHANGED reader
  /\ UNCHANGED <<calls, stdin, proc, stop, unreadable, abandoned>>

\* The end of the stream, a cancellation by stop(), or an error.
ReaderEnds ==
  /\ reader = "running"
  /\ \/ /\ proc # "running"
        /\ stdout = <<>>
        /\ UNCHANGED unreadable
     \/ /\ stop = "reader"
        /\ UNCHANGED unreadable
     \/ /\ stop # "reader"
        /\ stdout # <<>>
        /\ unreadable' = TRUE
  /\ reader' = "done"
  /\ FailAll(pending)
  /\ UNCHANGED <<calls, pipes, proc, stop, abandoned>>

-----------------------------------------------------------------------------
(* stop().                                                                 *)

StopBegin ==
  /\ stop = "no"
  /\ stop' = IF proc = "reaped" THEN "reader" ELSE "process"
  /\ UNCHANGED <<calls, futures, pipes, proc, reader, unreadable, abandoned>>

\* The process has ended, or was killed: cancel the reader.
StopProcess ==
  /\ stop = "process"
  /\ proc = "reaped"
  /\ stop' = "reader"
  /\ UNCHANGED <<calls, futures, pipes, proc, reader, unreadable, abandoned>>

StopReader ==
  /\ stop = "reader"
  /\ reader = "done"
  /\ FailAll(pending)
  /\ stop' = "stopped"
  /\ UNCHANGED <<calls, pipes, proc, reader, unreadable, abandoned>>

-----------------------------------------------------------------------------

CallerStep(c) == Written(c) \/ BrokenPipe(c) \/ Return(c) \/ Expire(c)
StopStep == StopProcess \/ StopReader

Next ==
  \/ \E c \in Callers : Call(c) \/ Timeout(c) \/ CancelCaller(c) \/ CallerStep(c)
  \/ HostAnswers \/ HostExits \/ HostReaped
  \/ ReadAnswer \/ ReaderEnds
  \/ StopBegin \/ StopStep

Spec == Init /\ [][Next]_vars

(* The loop resumes tasks whose future is done and reaps the host, the     *)
(* host's loop answers every request, with an error if need be, and stop() *)
(* kills a host that does not exit.  No timeout need ever fire.            *)
Fairness ==
  /\ \A c \in Callers : WF_vars(CallerStep(c))
  /\ WF_vars(HostAnswers) /\ WF_vars(HostReaped)
  /\ WF_vars(stop = "process" /\ HostExits)
  /\ WF_vars(ReadAnswer \/ ReaderEnds)
  /\ WF_vars(StopStep)

FairSpec == Spec /\ Fairness

-----------------------------------------------------------------------------

Open(c) == caller[c] \in {"writing", "waiting"} /\ fut[rid[c]] = "open"

\* Whoever waits can still be answered: its call is registered and the reader
\* lives, whatever the host, the other calls and stop() do meanwhile ("without
\* this guard the future below would never resolve").
WaitersAreHeard ==
  \A c \in Callers : Open(c) => rid[c] \in pending /\ reader = "running"

\* A call that came to its own end, by an answer, an error or its time-out,
\* leaves nothing registered; only a cancelled task does.
NothingLeftBehind ==
  \A r \in pending \ abandoned : \E c \in Callers : rid[c] = r /\ caller[c] # "idle"

\* The calls that are registered are the ones that wait (plugin_host.py, call
\* and _read_loop).
PendingIsExact == TypeOK /\ WaitersAreHeard /\ NothingLeftBehind

\* Every call ends even if no time-out fires: an answer, the host's death, an
\* unreadable stream and stop() all reach the tasks that wait.
CallsEnd == \A c \in Callers : Open(c) ~> ~Open(c)

(* What the documentation says and the code does not do.                   *)

\* "Concurrent call()s are safe": the reader only ends with the host, with
\* stop() or with an unreadable stream, not because of another call.
CallsAreIndependent ==
  reader = "done" => proc # "running" \/ stop # "no" \/ unreadable
=============================================================================
