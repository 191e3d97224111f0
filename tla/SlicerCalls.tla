----------------------------- MODULE SlicerCalls -----------------------------
(* What the gateway asks of the external slicer for one print: parse_3mf, the   *)
(* preparation of a slice job (create_slice_job, create_print_session), and the *)
(* slice itself (SlicerClient.slice and slice_stream), by requests that run at  *)
(* the same time.  The slicer keeps uploads under tokens that stand for their   *)
(* bytes ("sha256-deduped", slicer_client.py:174), so equal files share one.    *)
EXTENDS Naturals, FiniteSets

CONSTANTS Requests, Files, Machines,
          Filaments  \* positions of a project's filaments

VARIABLES
  authored,  \* Files -> the machine it was made for, or "none"
  slicerStore, \* contents the slicer holds a token for
  slicing,   \* Requests -> the handler's locals
  hasStream, \* SlicerClient._has_stream: unknown, yes, no
  posted     \* slice bodies the slicer was sent

slicerVars == <<authored, slicerStore, slicing, hasStream, posted>>

NoRequest == [phase |-> "new", kind |-> "slice", file |-> "", target |-> "", picks |-> {},
              content |-> <<>>, center |-> "undecided", ids |-> <<>>, blind |-> FALSE, shared |-> FALSE]

\* The content of a request's file: as it came, or prepared for a machine.
Original(r) == <<slicing[r].file, authored[slicing[r].file]>>
Prepared(r) == <<slicing[r].file, slicing[r].target>>

Init ==
  /\ authored \in [Files -> Machines \cup {"none"}]
  /\ slicerStore = {} /\ hasStream = "unknown" /\ posted = {}
  /\ slicing = [r \in Requests |-> NoRequest]

Over == {"done", "failed"}
Moves(r, from, to) == slicing[r].phase = from /\ slicing' = [slicing EXCEPT ![r].phase = to]

Ends(r, phase) == slicing' = [slicing EXCEPT ![r] = [NoRequest EXCEPT !.phase = phase]]

\* A 3MF arrives: to be sliced in the request (print_file, print_file_stream), or
\* prepared for a job and sliced by a worker.
Arrive(r) ==
  /\ slicing[r].phase = "new"
  /\ \E f \in Files, m \in Machines, k \in {"slice", "job"}, picks \in SUBSET Filaments :
       LET here == {q \in Requests : slicing[q].file = f /\ slicing[q].phase \notin Over}
       IN slicing' = [q \in Requests |->
            IF q = r THEN [NoRequest EXCEPT !.phase = "parse", !.kind = k, !.file = f, !.target = m,
                                            !.picks = picks, !.shared = here # {}]
            ELSE IF q \in here THEN [slicing[q] EXCEPT !.shared = TRUE] ELSE slicing[q]]
  /\ UNCHANGED <<authored, slicerStore, hasStream, posted>>

\* upload_3mf, with its token.
Upload(r, from, to, content) ==
  /\ Moves(r, from, to) /\ slicerStore' = slicerStore \cup {content}
  /\ UNCHANGED <<authored, hasStream, posted>>

\* parse_3mf_via_slicer: upload, inspect, and delete the token whatever happened.
ParseUpload(r) == Upload(r, "parse", "parsing", Original(r))
ParseDelete(r) ==
  /\ Moves(r, "parsing", "parsed") /\ slicerStore' = slicerStore \ {Original(r)}
  /\ UNCHANGED <<authored, hasStream, posted>>

\* The source of a job is uploaded once more.
SourceUpload(r) ==
  /\ slicing[r].kind = "job"
  /\ Upload(r, "parsed", "source", Original(r))
SourceReady(r) == /\ Moves(r, "source", "decide") /\ UNCHANGED <<authored, slicerStore, hasStream, posted>>

\* _machine_display_name: a machine's name, or nothing after three attempts.
MachineNames(m) == {m, ""}
\* should_auto_center_for_machine on a content that can be inspected: not without
\* an authored machine; rather so if the target's name is not to be had.
Centers(content, target) == {content[2] # "none" /\ content[2] # name : name \in MachineNames(target)}
\* The decision; when the inspection does not get through, it is taken blindly.
Decided(q, content, target) ==
  {[q EXCEPT !.center = c] : c \in Centers(content, target)}
    \cup {[q EXCEPT !.center = FALSE, !.blind = TRUE]}

\* Mutant: the decision of a job is made on what prepare made of it.
DecideOnBug(r) == Prepared(r)
DecideOn(r) == Original(r)
Decide(r) ==
  /\ slicing[r].phase = "decide" /\ Original(r) \in slicerStore
  /\ \E q \in Decided(slicing[r], DecideOn(r), slicing[r].target) :
       slicing' = [slicing EXCEPT ![r] = [q EXCEPT !.phase = "prepare"]]
  /\ UNCHANGED <<authored, slicerStore, hasStream, posted>>

\* prepare_3mf_token writes the target machine into the project, and its bytes
\* are downloaded: what the worker slices.
Prepare(r) ==
  LET q == slicing[r] IN
  /\ q.phase = "prepare" /\ Original(r) \in slicerStore
  /\ slicing' = [slicing EXCEPT ![r].phase = "queued", ![r].content = Prepared(r)]
  /\ slicerStore' = slicerStore \cup {Prepared(r)}
  /\ UNCHANGED <<authored, hasStream, posted>>

\* _check_stream_support: the first answer counts for the life of the process, an
\* error as "no"; both ways lead to the same body.
Probe ==
  /\ hasStream = "unknown" /\ hasStream' \in {"yes", "no"}
  /\ \E r \in Requests : slicing[r].phase \in {"parsed", "queued"}
  /\ UNCHANGED <<authored, slicerStore, slicing, posted>>

\* slice_stream waits for the probe; slice, for print_file, does not.
Probed(r) == slicing[r].kind = "job" => hasStream # "unknown"
\* slice, _slice_stream_real: upload ...
SliceContent(r) == IF slicing[r].kind = "job" THEN slicing[r].content ELSE Original(r)
SliceUpload(r) ==
  /\ Probed(r)
  /\ Upload(r, IF slicing[r].kind = "job" THEN "queued" ELSE "parsed", "uploaded", SliceContent(r))

\* _resolve_carryover_filaments: the target's variant, or as authored if the
\* resolver has none or does not answer.
CarriedOver == {"variant", "authored"}
\* _normalize_filament_selection: a pick stays as it is.
Resolved(r, p, answer) == IF p \in slicing[r].picks THEN "pick" ELSE answer

\* ... inspect and build the body: the decision that was handed in, or one on
\* this token ...
BuildBody(r) ==
  /\ slicing[r].phase = "uploaded" /\ SliceContent(r) \in slicerStore
  /\ \E answer \in CarriedOver,
        q \in IF slicing[r].kind = "job" THEN {slicing[r]}
              ELSE Decided(slicing[r], SliceContent(r), slicing[r].target) :
       slicing' = [slicing EXCEPT ![r] = [q EXCEPT !.phase = "built",
                     !.ids = [p \in Filaments |-> Resolved(r, p, answer)]]]
  /\ UNCHANGED <<authored, slicerStore, hasStream, posted>>

\* ... and post it; the slicer opens the token and slices.
Post(r) ==
  LET q == slicing[r] IN
  /\ Moves(r, "built", "sliced") /\ SliceContent(r) \in slicerStore
  /\ posted' = posted \cup {[file |-> q.file, target |-> q.target, center |-> q.center,
                             blind |-> q.blind, ids |-> q.ids, picks |-> q.picks]}
  /\ UNCHANGED <<authored, slicerStore, hasStream>>

\* _inflate_v2_result, _download_3mf: the output has a token of its own.
FetchOutput(r) == slicing[r].phase = "sliced" /\ Ends(r, "done")
               /\ UNCHANGED <<authored, slicerStore, hasStream, posted>>

\* Any call may fail.  parse_3mf deletes its token then too.
Fail(r) ==
  /\ slicing[r].phase \notin Over \cup {"new", "queued", "parsing"}
  /\ Ends(r, "failed")
  /\ UNCHANGED <<authored, slicerStore, hasStream, posted>>
ParseFails(r) ==
  /\ slicing[r].phase = "parsing" /\ Ends(r, "failed")
  /\ slicerStore' \in {slicerStore, slicerStore \ {Original(r)}}
  /\ UNCHANGED <<authored, hasStream, posted>>

\* The content a request has been given a token for, and still needs.
NeedsToken(r) == slicing[r].phase \in {"decide", "prepare", "uploaded", "built"}
Needed(r) == IF slicing[r].phase \in {"decide", "prepare"} THEN Original(r) ELSE SliceContent(r)

Next == \/ Probe
        \/ \E r \in Requests :
             \/ Arrive(r) \/ ParseUpload(r) \/ ParseDelete(r) \/ SourceUpload(r) \/ SourceReady(r)
             \/ Decide(r) \/ Prepare(r) \/ SliceUpload(r) \/ BuildBody(r) \/ Post(r) \/ FetchOutput(r)
             \/ Fail(r) \/ ParseFails(r)
Spec == Init /\ [][Next]_slicerVars

\* A project that was made for another machine is centered on the bed when it is
\* sliced, though by then it has been rewritten to the target (main.py:3012-3019,
\* slicer_client.py:376-381), unless the slicer could not be reached to look at it;
\* one without a machine keeps its placement.
RetargetsAreCentered ==
  \A s \in posted : IF authored[s.file] = "none" THEN ~s.center
                    ELSE authored[s.file] # s.target /\ ~s.blind => s.center

\* A user's pick reaches the slicer as it is, on every way (slicer_client.py,
\* "the user's explicit pick wins over the resolver").
PicksStay == \A s \in posted : \A p \in s.picks : s.ids[p] = "pick"

\* A request loses the token it works with only to another request for the same
\* file: its own parse has deleted it before.
LostOnlyToAnother ==
  \A r \in Requests : NeedsToken(r) /\ Needed(r) \notin slicerStore => slicing[r].shared
=============================================================================
