------------------------------ MODULE Uploads ------------------------------
(* Uploads of prints to LAN printers in the background: upload_tracker, the    *)
(* endpoints that poll and cancel, and the executor thread of main's           *)
(* _background_submit with the FTPS transfer of ftp_client.  All uploads here  *)
(* go to one printer; FileName[u] is the file they write in its /cache.        *)
EXTENDS Naturals, FiniteSets

CONSTANTS UploadIds, FileName, Chunks

VARIABLES
  upload,    \* UploadState: status, chunks counted in bytes_sent,
             \* cancelled, and (a history) how many had been counted then
  tracked,   \* the uploads the tracker's registry has
  aged,      \* those created more than EXPIRY_SECONDS ago
  thread,    \* where the executor thread of each upload is
  cache,     \* file on the printer: whose bytes, how many, and closed or not
  commanded, \* uploads whose print command was sent
  shared     \* files that a second upload wrote before the first was printed

uploadVars == <<upload, tracked, aged, thread, cache, commanded, shared>>

Transferring == {"connected", "storing", "sent", "stored"}

Init ==
  /\ upload = [u \in UploadIds |-> [status |-> "none", sent |-> 0,
                                    cancelled |-> FALSE, cancelledAt |-> 0]]
  /\ tracked = {} /\ aged = {} /\ commanded = {} /\ shared = {}
  /\ thread = [u \in UploadIds |-> "none"]
  /\ cache = [f \in {FileName[u] : u \in UploadIds} |-> [by |-> {}, size |-> 0, whole |-> FALSE]]

\* _cleanup: the age is counted from the creation, not from the end.
Expired == {u \in tracked \cap aged : upload[u].status # "uploading"}

\* print_file, LAN part: the printer answers, and the upload starts.
Create(u) ==
  /\ thread[u] = "none"
  /\ tracked' = (tracked \ Expired) \cup {u}
  /\ upload' = [upload EXCEPT ![u].status = "uploading"]
  /\ thread' = [thread EXCEPT ![u] = "queued"]
  /\ UNCHANGED <<aged, cache, commanded, shared>>

Ages(u) == /\ u \in tracked /\ aged' = aged \cup {u}
           /\ UNCHANGED <<upload, tracked, thread, cache, commanded, shared>>

Moves(u, from, to) == thread[u] = from /\ thread' = [thread EXCEPT ![u] = to]

\* submit_print and upload_file up to the login and the directory.
Connect(u) ==
  /\ Moves(u, "queued", "connected")
  /\ UNCHANGED <<upload, tracked, aged, cache, commanded, shared>>

\* STOR opens the file, whoever else writes or wrote one of that name.
Store(u) ==
  LET f == FileName[u]
      others == {v \in UploadIds \ {u} : FileName[v] = f /\ thread[v] \in Transferring \ {"connected"}}
  IN /\ Moves(u, "connected", "storing")
     /\ cache' = [cache EXCEPT ![f] = [by |-> {u}, size |-> 0, whole |-> Chunks = 0]]
     /\ shared' = IF others = {} THEN shared ELSE shared \cup {f}
     /\ UNCHANGED <<upload, tracked, aged, commanded>>

\* storbinary: a chunk goes out before its callback counts it.
SendChunk(u) ==
  LET f == FileName[u] IN
  /\ upload[u].sent < Chunks /\ Moves(u, "storing", "sent")
  /\ cache' = [cache EXCEPT ![f] = [by |-> @.by \cup {u}, size |-> @.size + 1,
                                    whole |-> @.by = {u} /\ @.size + 1 = Chunks]]
  /\ UNCHANGED <<upload, tracked, aged, commanded, shared>>

\* Mutant: a cancellation is looked for only before the upload.
CancelSeenBug(u) == upload[u].cancelled /\ upload[u].sent = 0
CancelSeen(u) == upload[u].cancelled

\* advance, after a chunk: a cancelled upload raises and the thread ends.
Advance(u) ==
  /\ IF CancelSeen(u)
     THEN Moves(u, "sent", "ended") /\ UNCHANGED upload
     ELSE /\ Moves(u, "sent", "storing")
          /\ upload' = [upload EXCEPT ![u].sent = @ + 1]
  /\ UNCHANGED <<tracked, aged, cache, commanded, shared>>

\* Mutant: the file is closed after the last chunk but one.
StoredBug(u) ==
  /\ upload[u].sent + 1 >= Chunks /\ Moves(u, "storing", "stored")
  /\ UNCHANGED <<upload, tracked, aged, cache, commanded, shared>>
\* The printer acknowledges the file.
Stored(u) ==
  /\ upload[u].sent = Chunks /\ Moves(u, "storing", "stored")
  /\ UNCHANGED <<upload, tracked, aged, cache, commanded, shared>>

\* send_print_command; the thread does not look for a cancellation any more.  publish
\* sends nothing where the connection is gone, and does not say so.
Command(u) ==
  /\ Moves(u, "stored", "commanded") /\ commanded' \in {commanded, commanded \cup {u}}
  /\ UNCHANGED <<upload, tracked, aged, cache, shared>>

\* complete, whatever the status was.
Complete(u) ==
  /\ Moves(u, "commanded", "ended")
  /\ upload' = [upload EXCEPT ![u].status = "completed"]
  /\ UNCHANGED <<tracked, aged, cache, commanded, shared>>

\* The network fails anywhere up to the print command.
Breakable == {"queued"} \cup Transferring
Fails(u) ==
  /\ thread[u] \in Breakable /\ Moves(u, thread[u], "ended")
  /\ upload' = [upload EXCEPT ![u].status = "failed"]
  /\ UNCHANGED <<tracked, aged, cache, commanded, shared>>

\* cancel_upload: at any time, also when the upload is over.
Cancel(u) ==
  /\ u \in tracked
  /\ upload' = [upload EXCEPT ![u].cancelled = TRUE, ![u].status = "cancelled",
        ![u].cancelledAt = IF upload[u].cancelled THEN @ ELSE upload[u].sent]
  /\ UNCHANGED <<tracked, aged, thread, cache, commanded, shared>>

Next == \E u \in UploadIds :
  \/ Create(u) \/ Ages(u) \/ Connect(u) \/ Store(u) \/ SendChunk(u) \/ Advance(u)
  \/ Stored(u) \/ Command(u) \/ Complete(u) \/ Fails(u) \/ Cancel(u)

Spec == Init /\ [][Next]_uploadVars

\* A cancellation that comes before the last chunk is counted keeps the print
\* from starting (upload_tracker.py:46-50): the window between a chunk on the
\* wire and its callback is closed.
CancelInTime ==
  \A u \in commanded : upload[u].cancelled => upload[u].cancelledAt = Chunks

\* What is reported as failed was not told to the printer: it can be repeated.
FailedWasNotSent == \A u \in UploadIds : upload[u].status = "failed" => u \notin commanded

\* The printer is told to print bytes that one upload wrote, all of them, unless
\* two uploads of one file name overlapped: nothing keeps them apart.
SendsWholeFile ==
  \A u \in commanded' \ commanded :
    FileName[u] \in shared \/ cache[FileName[u]] = [by |-> {u}, size |-> Chunks, whole |-> TRUE]
PrintsWholeFile == [][SendsWholeFile]_uploadVars

\* Whoever polls finds an upload as long as it runs, however long that takes.
RunningIsTracked ==
  \A u \in UploadIds :
    thread[u] \notin {"none", "ended"} /\ ~upload[u].cancelled => u \in tracked
=============================================================================
