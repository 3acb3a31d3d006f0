-------------------------- MODULE FileTransferInv ---------------------------
(***************************************************************************)
(* Why FileTransfer keeps its promises: an inductive invariant that implies *)
(* Durable, WipedStaysWiped and, of a step, HandedInOrder and the steps of  *)
(* Custody.  Its groups are proved where they are needed: the places of     *)
(* handlers, queue and stores in FileTransfer_proofs, blobs, reports and     *)
(* Unwritten in _custody, the rows, the jobs at risk and the whole of it in  *)
(* _rows.                                                                   *)
(***************************************************************************)
EXTENDS FileTransfer

Deleting    == {"delete_queue", "delete_list", "delete_blobs", "delete_row"}
Downloading == {"download_mark", "download_queue"}
Completing  == {"complete_job", "complete_blob", "complete_status"}
WithJob     == {"get", "write", "list", "push", "unlink", "unlist",
                "report", "report_wait"}
Storing     == {"get", "write", "list"}
HoldingFile == {"read", "path", "blob", "job"}

\* What a handler holds at each place exists.
HandlerWf(h) ==
  /\ h.pc \in Deleting \cup Downloading \cup {"edit_write"} => h.file \in FileId
  /\ h.pc \in {"delete_queue", "beat_write"} \cup Downloading => h.rel \in FileId
  /\ h.pc \in Completing \cup {"fetch_take"} => h.job \in 1..Len(jobs)
  /\ h.pc = "complete_blob" => h.ok /\ h.job \in StoreJobs
HandlersWf == \A t \in Thread : HandlerWf(threads[t])

UploadWf ==
  /\ up.pc # "idle" => used["upload"] >= 1
  /\ up.pc \in HoldingFile => up.file \in FileId /\ up.file < nextFile

\* The agent works on the job it was handed last, and by the job's type.
AgentWf ==
  /\ last <= Len(jobs)
  /\ agent.pc \in WithJob => agent.job = last /\ last >= 1
  /\ agent.pc \in {"get", "write", "list"} => jobs[last].type = "store_file"
  /\ agent.pc = "push" => jobs[last].type = "collect_file"
  /\ agent.pc \in {"unlink", "unlist"} => jobs[last].type = "delete_file"

\* Jobs are taken from the front of the queue, also by handlers whose caller
\* has gone; the agent's own handler brings it a job it has not seen; a report
\* under way is about a job the agent is not storing.
HandedFirst == \A i \in 1..last : jobs[i].status # "queued"
TakenInOrder ==
  \A t \in Thread : threads[t].pc = "fetch_take" =>
    /\ \A i \in 1..Len(jobs) : i < threads[t].job => jobs[i].status # "queued"
    /\ agent.slot = t => last < threads[t].job
ReportsBehind ==
  \A t \in Thread : threads[t].pc \in Completing =>
    /\ threads[t].job <= last
    /\ agent.pc \in Storing => threads[t].job # last
QueueOrder == HandedFirst /\ TakenInOrder /\ ReportsBehind

\* An upload has a temporary file, a row and a path of its own.
StoreWf(j) ==
  /\ jobs[j].rel = jobs[j].file
  /\ jobs[j].rel < nextFile
  /\ \E n \in 1..used["upload"] : jobs[j].temp = <<"upload", n>>
  /\ up.pc # "idle" => jobs[j].temp # UploadTemp
  /\ up.pc \in HoldingFile => jobs[j].rel # up.file
StoresDistinct ==
  /\ \A j \in StoreJobs : StoreWf(j)
  /\ \A i, j \in StoreJobs : i # j => /\ jobs[i].rel # jobs[j].rel
                                      /\ jobs[i].temp # jobs[j].temp

\* The blob of an upload belongs to its row; a consumed one has lost its file.
BlobWf(b) ==
  /\ b.temp[1] = "upload" => b.temp[2] <= used["upload"]
  /\ b.status = "consumed" => b.temp[1] = "upload" /\ b.temp \notin temps
  /\ \A j \in StoreJobs : jobs[j].temp = b.temp => jobs[j].rel = b.file
  /\ (up.pc # "idle" /\ b.temp = UploadTemp) => up.pc = "job" /\ b.file = up.file
BlobsWf == \A b \in blobs : BlobWf(b)

\* A deletion only ever unlinks temporary files of its own file.
TempsOfFile(h) ==
  \A x \in h.temps :
    /\ x[1] = "upload" => x[2] <= used["upload"]
    /\ \A j \in StoreJobs : jobs[j].temp = x => jobs[j].rel = h.file
    /\ (up.pc # "idle" /\ x = UploadTemp) => up.pc = "job" /\ up.file = h.file
DeletionWf(h) ==
  /\ h.pc \in Deleting => h.file \in asked
  /\ h.pc = "delete_queue" => h.rel \in asked
  /\ h.pc = "delete_blobs" => TempsOfFile(h)
DeletesWf == \A t \in Thread : DeletionWf(threads[t])

DeletesAsked == \A k \in DeleteJobs : jobs[k].rel \in asked

Ready(x) == x \in temps /\ \E b \in blobs : b.temp = x /\ b.status = "ready"

\* The upload handler's bytes are safe until its job has them.
UploadHeld ==
  /\ up.pc \in {"insert", "read", "path", "blob"} => UploadTemp \in temps
  /\ up.pc = "job" => up.file \in asked \/ Ready(UploadTemp)

\* A store_file job reported as done has all of its bytes on the node.
StoredWhole(j) == jobs[j].rel \in asked \/ disk[jobs[j].rel] = "full"
ReportsTrue ==
  /\ agent.pc = "write" => disk[jobs[last].rel] = "partial"
  /\ agent.pc = "list" => disk[jobs[last].rel] = "full"
  /\ (agent.pc = "report" /\ agent.ok /\ last \in StoreJobs) => StoredWhole(last)
  /\ \A t \in Thread :
       (/\ threads[t].pc \in {"complete_job", "complete_blob"}
        /\ threads[t].ok /\ threads[t].job \in StoreJobs)
         => StoredWhole(threads[t].job)

\* A path holds no complete file before its job has been handed out and run.
Unwritten ==
  /\ \A f \in FileId : f >= nextFile => disk[f] # "full"
  /\ up.pc \in HoldingFile => disk[up.file] # "full"
  /\ \A j \in StoreJobs :
       (j > last \/ (j = last /\ agent.pc = "get")) => disk[jobs[j].rel] # "full"

WipedWf == \A k \in wiped : k <= last /\ k \in DeleteJobs

-----------------------------------------------------------------------------
(* Rows and their paths *)

\* Ids are given out once.
RowsKnown ==
  /\ \A f \in FileId : f >= nextFile => files[f] = NoRow
  /\ \A t \in Thread : threads[t].file < nextFile
  /\ \A j \in 1..Len(jobs) : jobs[j].file < nextFile

\* Nobody but the upload handler has seen its row with a path.
UploadUnseen ==
  up.pc \in {"read", "path"} =>
    /\ files[up.file].rel = 0
    /\ files[up.file].status \in {"pending_upload", "absent"} \/ up.file \in edited
    /\ up.pc = "path" => up.status = "pending_upload" \/ up.file \in edited
    /\ \A t \in Thread : threads[t].file = up.file => threads[t].rel = 0
    /\ \A j \in 1..Len(jobs) : jobs[j].file # up.file

\* A row keeps its path while it is there, but for edits.
FitsRow(f, r) == files[f].rel = r \/ ~Present(f) \/ f \in edited
PathHolding == {"delete_queue", "beat_write"} \cup Downloading
PathsFit ==
  /\ \A t \in Thread : (threads[t].pc \in PathHolding /\ threads[t].file # 0) =>
                           FitsRow(threads[t].file, threads[t].rel)
  /\ \A j \in 1..Len(jobs) : FitsRow(jobs[j].file, jobs[j].rel)
  /\ up.pc \in {"blob", "job"} => FitsRow(up.file, up.file)

\* An edit writes the path of the row or none.
Editing(t) == threads[t].pc = "edit_write" /\ threads[t].rel # 0
EditsFit ==
  \A t \in Thread : Editing(t) =>
    /\ files[threads[t].file].rel \in {0, threads[t].rel}
    /\ \A u \in Thread : (Editing(u) /\ threads[u].file = threads[t].file) =>
                              threads[u].rel = threads[t].rel

\* What the node has of a file that nobody asks to delete, it keeps: all of it, or
\* a part if a transfer has broken off or an agent has died.
Broken == used["break"] + used["crash"] > 0
Kept(r) == r \in asked \/ disk[r] = "full" \/ (disk[r] = "partial" /\ Broken)
PartsWritten ==
  \A r \in FileId : (disk[r] = "partial" /\ ~Broken) =>
                         agent.pc = "write" /\ r = jobs[last].rel
ListsKept ==
  \A t \in Thread : /\ \A r \in threads[t].todo : Kept(r)
                    /\ threads[t].pc = "beat_write" => Kept(threads[t].rel)
ResultKept(j) == jobs[j].type # "delete_file" => Kept(jobs[j].rel)
ResultsKept ==
  /\ (agent.pc = "report" /\ agent.ok) => ResultKept(last)
  /\ \A t \in Thread : (threads[t].pc \in Completing /\ threads[t].ok) =>
                           ResultKept(threads[t].job)
RowsKept ==
  \A f \in FileId : (files[f].status = "active" /\ Untouched(f)) => Kept(files[f].rel)

RowInv == /\ RowsKnown /\ UploadUnseen /\ PathsFit /\ EditsFit
          /\ PartsWritten /\ ListsKept /\ ResultsKept /\ RowsKept

-----------------------------------------------------------------------------
(* One row for each path *)

\* Heartbeats report paths that store jobs have written.
Known == {jobs[j].rel : j \in StoreJobs}
PathsKnown ==
  /\ \A r \in FileId : disk[r] # "none" => r \in Known
  /\ \A t \in Thread : /\ threads[t].todo \subseteq Known
                       /\ threads[t].pc = "beat_write" => threads[t].rel \in Known

\* No heartbeat has outlived its timeout or its agent, so there is one at a time,
\* which inserts a row for a path that has none.
Alone == used["lost"] + used["crash"] = 0
BeatAlone ==
  Alone => \A t \in Thread : threads[t].pc \in {"beat_read", "beat_write"} =>
                                 agent.slot = t /\ agent.pc = "beat_wait"
PathsOwned ==
  \A f \in FileId \ edited : (Present(f) /\ files[f].rel # 0) =>
                                  files[f].rel = f \/ files[f].rel \in Known
NewRows ==
  Alone => \A t \in Thread : (threads[t].pc = "beat_write" /\ threads[t].file = 0) =>
                                 RowsOf(threads[t].rel) \subseteq edited

OneRowInv == PathsKnown /\ BeatAlone /\ PathsOwned /\ NewRows /\ OneRowPerPath

-----------------------------------------------------------------------------
(* Jobs at risk of being stranded *)

\* The agent waits for the handler of its request, and has a job while it works.
AgentAwaits ==
  /\ agent.pc = "beat_wait" =>
       agent.slot \in Thread /\ threads[agent.slot].pc \in {"beat_read", "beat_write"}
  /\ agent.pc = "fetch_wait" =>
       agent.slot \in Thread /\ threads[agent.slot].pc \in {"fetch_select", "fetch_take"}
  /\ agent.pc = "report_wait" =>
       /\ agent.slot \in Thread /\ threads[agent.slot].pc \in Completing
       /\ threads[agent.slot].job = agent.job
  /\ agent.pc \notin {"beat_wait", "fetch_wait", "report_wait"} => agent.slot = NoThread
  /\ agent.pc \notin WithJob => agent.job = 0

\* A job that is in progress but neither run nor still to be reported by the
\* agent, and a handler that will take a job for nobody.
Reported == agent.pc = "report_wait" /\ threads[agent.slot].pc # "complete_job"
Abandoned == {j \in 1..Len(jobs) : jobs[j].status = "in_progress" /\ (agent.job # j \/ Reported)}
Orphans == {t \in Thread : threads[t].pc \in {"fetch_select", "fetch_take"} /\ agent.slot # t}
AtRisk == ({"job"} \X Abandoned) \cup ({"thread"} \X Orphans)

FaultsSoFar == used["lost"] + used["break"] + used["crash"] + used["tear"] + used["restart"]
RiskByFaults == IsFiniteSet(AtRisk) /\ Cardinality(AtRisk) <= FaultsSoFar

RiskInv == AgentAwaits /\ RiskByFaults

-----------------------------------------------------------------------------
IInv ==
  /\ TypeOK
  /\ HandlersWf /\ UploadWf /\ AgentWf
  /\ QueueOrder
  /\ StoresDistinct /\ BlobsWf
  /\ DeletesWf /\ DeletesAsked
  /\ UploadHeld /\ ReportsTrue
  /\ Unwritten /\ WipedWf
  /\ Durable /\ WipedStaysWiped
  /\ RowInv /\ OneRowInv /\ RiskInv
=============================================================================
