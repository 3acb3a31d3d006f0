---------------------------- MODULE FileTransfer ----------------------------
(***************************************************************************)
(* How a file travels between the users, the central server and one        *)
(* storage agent: the upload endpoint, the job queue, the agent's polling   *)
(* loop, the heartbeat that rebuilds file rows from the agent's list, the   *)
(* completion of jobs, and the delete, download and update endpoints.       *)
(*                                                                         *)
(* Every repository method opens its own SQLite connection and commits      *)
(* before it returns, so a handler is a sequence of atomic repository       *)
(* calls and any two handlers interleave between them.  Plain "def"         *)
(* handlers run on the threads of a pool; the two "async def" handlers      *)
(* (upload, upload-result) run on the one event loop, without an await      *)
(* once the request body has been read, so they never interleave with each  *)
(* other.  One node with one volume is enough: a job is fetched by node and *)
(* a path is looked up by node and volume, so nodes share nothing here.     *)
(*                                                                         *)
(* A storage_rel_path contains the id of the row the upload created, so a   *)
(* path is modelled by that id; 0 is SQL NULL (and "no id" everywhere).     *)
(***************************************************************************)
EXTENDS Integers, Sequences, FiniteSets

CONSTANTS
  Thread,     \* the pool threads that run the server's "def" handlers
  NoThread,   \* the agent waits for no handler
  MaxFile,    \* bound on the rows ever inserted into files
  MaxJob,     \* bound on the rows ever inserted into agent_jobs
  Limit       \* how many times each kind of request and of fault happens

Kind == {"create", "upload", "delete", "download", "edit",
         "lost", "break", "crash", "tear", "restart"}

ASSUME ThreadAssumption == NoThread \notin Thread
ASSUME BoundAssumption ==
  /\ MaxFile \in Nat
  /\ MaxJob \in Nat
  /\ Limit \in [Kind -> Nat]

FileId == 1..MaxFile
JobId  == 1..MaxJob
Path   == 0..MaxFile

\* Temporary files of the server: one per upload request, one per collect job.
TempName == ({"upload"} \X (1..Limit["upload"])) \cup ({"download"} \X JobId)
NoTemp == <<"none", 0>>

VARIABLES
  files,     \* table files: id -> row; a missing row has status "absent"
  nextFile,  \* its AUTOINCREMENT counter
  jobs,      \* table agent_jobs, in id order
  blobs,     \* table transfer_blobs
  temps,     \* the temporary files on the server's disk
  up,        \* the upload handler on the event loop
  threads,   \* the handlers on the pool
  agent,     \* the agent's loop
  disk,      \* the bytes under each path of the agent's volume
  meta,      \* the paths listed in .volume_meta.json
  mounted,   \* .volume_meta.json still holds its mount_path
  used       \* how many requests and faults have happened

\* Observations that the program does not keep.
VARIABLES
  last,      \* the highest job id handed to the agent
  wiped,     \* the delete_file jobs whose bytes the agent has unlinked
  asked,     \* ids and paths some delete request was made for
  edited,    \* the rows a PUT /files has written
  removed    \* the paths whose delete_file call removed the row

server  == <<files, nextFile, jobs, blobs, temps>>
volume  == <<disk, meta, mounted>>
history == <<last, wiped, asked, edited, removed>>
vars == <<server, up, threads, agent, volume, used, history>>

-----------------------------------------------------------------------------
(* Data *)

FileStatus == {"pending_upload", "active", "pending_download",
               "archived", "deleted", "error"}
Row == [status : FileStatus \cup {"absent"}, rel : Path]
NoRow == [status |-> "absent", rel |-> 0]

JobType == {"store_file", "collect_file", "delete_file"}
JobStatus == {"queued", "in_progress", "done", "failed"}
Job == [type : JobType, file : FileId, rel : FileId,
        temp : TempName \cup {NoTemp}, proxied : BOOLEAN, status : JobStatus]

Blob == [temp : TempName, file : FileId, status : {"ready", "consumed"}]

\* A handler: where it is and what it holds from the rows it has read.
HandlerPc == {"idle", "delete_queue", "delete_list", "delete_blobs", "delete_row",
              "download_mark", "download_queue", "edit_write", "beat_read",
              "beat_write", "fetch_select", "fetch_take", "complete_job",
              "complete_blob", "complete_status"}
Handler == [pc : HandlerPc, file : 0..MaxFile, rel : Path,
            status : FileStatus \cup {"absent"}, todo : SUBSET FileId,
            temps : SUBSET TempName, job : 0..MaxJob, ok : BOOLEAN]
Idle == [pc |-> "idle", file |-> 0, rel |-> 0, status |-> "absent",
         todo |-> {}, temps |-> {}, job |-> 0, ok |-> FALSE]

UploadPc == {"idle", "insert", "read", "path", "blob", "job"}
Upload == [pc : UploadPc, file : 0..MaxFile, status : FileStatus \cup {"absent"}]
NoUpload == [pc |-> "idle", file |-> 0, status |-> "absent"]

AgentPc == {"beat", "beat_wait", "fetch", "fetch_wait", "get", "write",
            "list", "push", "unlink", "unlist", "report", "report_wait"}
Agent == [pc : AgentPc, slot : Thread \cup {NoThread}, job : 0..MaxJob, ok : BOOLEAN]
AgentStart == [pc |-> "beat", slot |-> NoThread, job |-> 0, ok |-> FALSE]

TypeOK ==
  /\ files \in [FileId -> Row]
  /\ nextFile \in 1..(MaxFile + 1)
  /\ jobs \in Seq(Job) /\ Len(jobs) <= MaxJob
  /\ blobs \subseteq Blob
  /\ temps \subseteq TempName
  /\ up \in Upload
  /\ threads \in [Thread -> Handler]
  /\ agent \in Agent
  /\ disk \in [FileId -> {"none", "partial", "full"}]
  /\ meta \subseteq FileId
  /\ mounted \in BOOLEAN
  /\ used \in [Kind -> Nat] /\ \A k \in Kind : used[k] <= Limit[k]
  /\ last \in 0..MaxJob
  /\ wiped \subseteq JobId
  /\ asked \subseteq FileId
  /\ edited \subseteq FileId
  /\ removed \subseteq FileId

Init ==
  /\ files = [f \in FileId |-> NoRow]
  /\ nextFile = 1
  /\ jobs = <<>>
  /\ blobs = {} /\ temps = {}
  /\ up = NoUpload
  /\ threads = [t \in Thread |-> Idle]
  /\ agent = AgentStart
  /\ disk = [r \in FileId |-> "none"]
  /\ meta = {} /\ mounted = TRUE
  /\ used = [k \in Kind |-> 0]
  /\ last = 0
  /\ wiped = {} /\ asked = {} /\ edited = {} /\ removed = {}

-----------------------------------------------------------------------------
(* The repositories *)

Present(f) == files[f].status # "absent"

(* Plausible bugs in what follows; the runs tell each of them from the code. *)

\* request_download_from_agent forgets to check storage_rel_path.
Stored_AnyPath(f) == Present(f)
\* update forgets to merge the old status.
WithRow_Active(f, status, rel) ==
  IF Present(f) THEN [files EXCEPT ![f] = [status |-> "active", rel |-> rel]]
                ELSE files
\* update does not write the path.
WithRow_NoPath(f, status, rel) ==
  IF Present(f) THEN [files EXCEPT ![f] = [status |-> status, rel |-> 0]] ELSE files
\* set_status leaves an upload that is under way alone.
WithStatus_NotPending(f, status) ==
  IF Present(f) /\ files[f].status # "pending_upload"
  THEN [files EXCEPT ![f].status = status] ELSE files
\* get_by_storage finds active rows only.
GetByStorage_Active(r, f) ==
  LET found == {g \in FileId : files[g] = [status |-> "active", rel |-> r]} IN
  IF found = {} THEN f = 0 ELSE f \in found /\ \A g \in found : g <= f
\* delete_for_file and list_for_file without their WHERE.
BlobsOf_All(f) == blobs
\* fetch_next_for_node also takes jobs that are in progress ...
Queued_Any == {j \in 1..Len(jobs) : jobs[j].status \in {"queued", "in_progress"}}
\* ... or orders by id descending.
NextQueued_Last(j) ==
  /\ j \in 1..Len(jobs) /\ jobs[j].status = "queued"
  /\ \A k \in 1..Len(jobs) : jobs[k].status = "queued" => k <= j

(* The code. *)

\* The row has bytes on a node.
Stored(f) == Present(f) /\ files[f].rel # 0

\* FileRepository.create and the INSERT of upsert_from_agent.
InsertRow(status, rel) ==
  /\ nextFile <= MaxFile
  /\ files' = [files EXCEPT ![nextFile] = [status |-> status, rel |-> rel]]
  /\ nextFile' = nextFile + 1

\* FileRepository.set_status: an UPDATE of no row changes nothing.
WithStatus(f, status) ==
  IF Present(f) THEN [files EXCEPT ![f].status = status] ELSE files

\* The UPDATE of FileRepository.update.
WithRow(f, status, rel) ==
  IF Present(f) THEN [files EXCEPT ![f] = [status |-> status, rel |-> rel]]
                ELSE files

\* FileRepository.get_by_storage: the newest row f of the path, or 0.
RowsOf(r) == {f \in FileId : Present(f) /\ files[f].rel = r}
GetByStorage(r, f) ==
  /\ \A g \in RowsOf(r) : g <= f
  /\ IF RowsOf(r) = {} THEN f = 0 ELSE f \in RowsOf(r)

\* AgentJobRepository.create.
QueueJob(type, file, rel, temp, proxied) ==
  /\ Len(jobs) < MaxJob
  /\ jobs' = Append(jobs, [type |-> type, file |-> file, rel |-> rel,
                           temp |-> temp, proxied |-> proxied,
                           status |-> "queued"])

WithJobStatus(j, status) == [jobs EXCEPT ![j].status = status]

\* The SELECT of AgentJobRepository.fetch_next_for_node.
Queued == {j \in 1..Len(jobs) : jobs[j].status = "queued"}
NextQueued(j) == j \in Queued /\ \A k \in Queued : j <= k

BlobsOf(f) == {b \in blobs : b.file = f}

Spend(kind) ==
  /\ used[kind] < Limit[kind]
  /\ used' = [used EXCEPT ![kind] = @ + 1]

Goto(t, handler) == threads' = [threads EXCEPT ![t] = handler]
Done(t) == Goto(t, Idle)
IsIdle(t) == threads[t].pc = "idle"

-----------------------------------------------------------------------------
(* POST /files and POST /files/upload *)

\* FileService.create_file: a row without bytes, active from the start.
CreateRecord ==
  /\ Spend("create")
  /\ InsertRow("active", 0)
  /\ UNCHANGED <<jobs, blobs, temps, up, threads, agent, volume, history>>

\* The body is written to a temporary file before anything is checked.
UploadReceive ==
  /\ up.pc = "idle"
  /\ Spend("upload")
  /\ temps' = temps \cup {<<"upload", used'["upload"]>>}
  /\ up' = [NoUpload EXCEPT !.pc = "insert"]
  /\ UNCHANGED <<files, nextFile, jobs, blobs, threads, agent, volume, history>>

\* No permission, no quota, no volume, or a node that is not an agent.
UploadRefuse ==
  /\ up.pc = "insert"
  /\ up' = NoUpload
  /\ UNCHANGED <<server, threads, agent, volume, used, history>>

UploadInsert ==
  /\ up.pc = "insert"
  /\ InsertRow("pending_upload", 0)
  /\ up' = [up EXCEPT !.pc = "read", !.file = nextFile]
  /\ UNCHANGED <<jobs, blobs, temps, threads, agent, volume, used, history>>

\* files.update reads the row (gone: the handler fails), then writes it back
\* with the path filled in.
UploadRead ==
  /\ up.pc = "read"
  /\ up' = IF Present(up.file)
           THEN [up EXCEPT !.pc = "path", !.status = files[up.file].status]
           ELSE NoUpload
  /\ UNCHANGED <<server, threads, agent, volume, used, history>>

UploadPath ==
  /\ up.pc = "path"
  /\ files' = WithRow(up.file, up.status, up.file)
  /\ up' = [up EXCEPT !.pc = "blob", !.status = "absent"]
  /\ UNCHANGED <<nextFile, jobs, blobs, temps, threads, agent, volume, used, history>>

UploadTemp == <<"upload", used["upload"]>>

\* The foreign key on file_id fails if the row was deleted meanwhile.
UploadBlob ==
  /\ up.pc = "blob"
  /\ IF Present(up.file)
       THEN /\ blobs' = blobs \cup {[temp |-> UploadTemp, file |-> up.file,
                                     status |-> "ready"]}
            /\ up' = [up EXCEPT !.pc = "job"]
       ELSE up' = NoUpload /\ UNCHANGED blobs
  /\ UNCHANGED <<files, nextFile, jobs, temps, threads, agent, volume, used, history>>

UploadJob ==
  /\ up.pc = "job"
  /\ QueueJob("store_file", up.file, up.file, UploadTemp, FALSE)
  /\ up' = NoUpload
  /\ UNCHANGED <<files, nextFile, blobs, temps, threads, agent, volume, used, history>>

UploadStep == \/ UploadRefuse \/ UploadInsert \/ UploadRead
              \/ UploadPath \/ UploadBlob \/ UploadJob

-----------------------------------------------------------------------------
(* DELETE /files/{id} *)

DeleteRead(t, f) ==
  /\ IsIdle(t) /\ Present(f)
  /\ Spend("delete")
  /\ Goto(t, [Idle EXCEPT !.pc = IF Stored(f) THEN "delete_queue" ELSE "delete_list",
                          !.file = f, !.rel = files[f].rel])
  /\ asked' = asked \cup ({f, files[f].rel} \ {0})
  /\ UNCHANGED <<server, up, agent, volume, last, wiped, edited, removed>>

\* The job that erases the bytes is queued before anything is deleted.
DeleteQueueJob(t) ==
  LET h == threads[t] IN
  /\ h.pc = "delete_queue"
  /\ QueueJob("delete_file", h.file, h.rel, NoTemp, FALSE)
  /\ Goto(t, [h EXCEPT !.pc = "delete_list"])
  /\ UNCHANGED <<files, nextFile, blobs, temps, up, agent, volume, used, history>>

DeleteListBlobs(t) ==
  LET h == threads[t] IN
  /\ h.pc = "delete_list"
  /\ Goto(t, [h EXCEPT !.pc = "delete_blobs",
                       !.temps = {b.temp : b \in BlobsOf(h.file)}])
  /\ UNCHANGED <<server, up, agent, volume, used, history>>

\* The rows go first, then the files of the rows listed before.
DeleteBlobs(t) ==
  LET h == threads[t] IN
  /\ h.pc = "delete_blobs"
  /\ blobs' = blobs \ BlobsOf(h.file)
  /\ temps' = temps \ h.temps
  /\ Goto(t, [h EXCEPT !.pc = "delete_row", !.temps = {}])
  /\ UNCHANGED <<files, nextFile, jobs, up, agent, volume, used, history>>

\* The foreign key of transfer_blobs fails the DELETE (and the request) if a
\* blob of the file was created since.
DeleteRow(t) ==
  LET h == threads[t] IN
  /\ h.pc = "delete_row"
  /\ IF Present(h.file) /\ BlobsOf(h.file) = {}
       THEN /\ files' = [files EXCEPT ![h.file] = NoRow]
            /\ removed' = removed \cup ({h.rel} \ {0})
       ELSE UNCHANGED <<files, removed>>
  /\ Done(t)
  /\ UNCHANGED <<nextFile, jobs, blobs, temps, up, agent, volume, used,
                 last, wiped, asked, edited>>

-----------------------------------------------------------------------------
(* POST /files/{id}/prepare-download, GET /files/{id}/download (proxied),  *)
(* PUT /files/{id}                                                         *)

DownloadRead(t, f, proxied) ==
  /\ IsIdle(t) /\ Stored(f)
  /\ Spend("download")
  /\ Goto(t, [Idle EXCEPT !.pc = "download_mark", !.file = f,
                          !.rel = files[f].rel, !.ok = proxied])
  /\ UNCHANGED <<server, up, agent, volume, history>>

DownloadMark(t) ==
  LET h == threads[t] IN
  /\ h.pc = "download_mark"
  /\ files' = WithStatus(h.file, "pending_download")
  /\ Goto(t, [h EXCEPT !.pc = "download_queue"])
  /\ UNCHANGED <<nextFile, jobs, blobs, temps, up, agent, volume, used, history>>

DownloadQueueJob(t) ==
  LET h == threads[t] IN
  /\ h.pc = "download_queue"
  /\ QueueJob("collect_file", h.file, h.rel, NoTemp, h.ok)
  /\ Done(t)
  /\ UNCHANGED <<files, nextFile, blobs, temps, up, agent, volume, used, history>>

\* FileRepository.update reads the row, merges the payload, writes it back:
\* the status is the old one unless the payload has one.
EditRead(t, f, status) ==
  /\ IsIdle(t) /\ Present(f)
  /\ Spend("edit")
  /\ Goto(t, [Idle EXCEPT !.pc = "edit_write", !.file = f,
                          !.rel = files[f].rel, !.status = status])
  /\ UNCHANGED <<server, up, agent, volume, history>>

EditWrite(t) ==
  LET h == threads[t] IN
  /\ h.pc = "edit_write"
  /\ files' = WithRow(h.file, h.status, h.rel)
  /\ edited' = edited \cup {h.file}
  /\ Done(t)
  /\ UNCHANGED <<nextFile, jobs, blobs, temps, up, agent, volume, used,
                 last, wiped, asked, removed>>

-----------------------------------------------------------------------------
(* The agent's loop: heartbeat, fetch one job, run it, report it *)

\* The agent still waits for handler t: it goes on at pc.
Respond(t, pc) ==
  agent' = IF agent.slot = t THEN [AgentStart EXCEPT !.pc = pc] ELSE agent

\* _refresh_volume_meta drops the entries whose file is missing.
Listed == {r \in meta : disk[r] # "none"}

SendHeartbeat(t) ==
  /\ agent.pc = "beat" /\ IsIdle(t)
  /\ meta' = Listed
  /\ agent' = [agent EXCEPT !.pc = "beat_wait", !.slot = t]
  /\ Goto(t, [Idle EXCEPT !.pc = "beat_read",
                          !.todo = IF mounted THEN Listed ELSE {}])
  /\ UNCHANGED <<server, up, disk, mounted, used, history>>

\* One item of the list at a time (in any order): find its row ...
BeatRead(t) ==
  LET h == threads[t] IN
  /\ h.pc = "beat_read"
  /\ \/ /\ h.todo = {}
        /\ Done(t) /\ Respond(t, "fetch")
     \/ /\ \E r \in h.todo, f \in 0..MaxFile :
             /\ GetByStorage(r, f)
             /\ Goto(t, [h EXCEPT !.pc = "beat_write", !.rel = r, !.file = f,
                                 !.todo = @ \ {r}])
        /\ UNCHANGED agent
  /\ UNCHANGED <<server, up, volume, used, history>>

\* ... then, in another connection, make it active or insert it.  A row
\* deleted in between fails the rest of the heartbeat (dict(None)).
BeatWrite(t) ==
  LET h == threads[t]
      next == [Idle EXCEPT !.pc = "beat_read", !.todo = h.todo] IN
  /\ h.pc = "beat_write"
  /\ \/ /\ h.file = 0
        /\ InsertRow("active", h.rel)
        /\ Goto(t, next) /\ UNCHANGED agent
     \/ /\ h.file # 0 /\ Present(h.file)
        /\ files' = WithStatus(h.file, "active")
        /\ Goto(t, next) /\ UNCHANGED <<nextFile, agent>>
     \/ /\ h.file # 0 /\ ~Present(h.file)
        /\ Done(t) /\ Respond(t, "fetch")
        /\ UNCHANGED <<files, nextFile>>
  /\ UNCHANGED <<jobs, blobs, temps, up, volume, used, history>>

SendFetch(t) ==
  /\ agent.pc = "fetch" /\ IsIdle(t)
  /\ agent' = [agent EXCEPT !.pc = "fetch_wait", !.slot = t]
  /\ Goto(t, [Idle EXCEPT !.pc = "fetch_select"])
  /\ UNCHANGED <<server, up, volume, used, history>>

FetchSelect(t) ==
  /\ threads[t].pc = "fetch_select"
  /\ \/ /\ Queued = {}
        /\ Done(t) /\ Respond(t, "beat")
     \/ /\ \E j \in 1..Len(jobs) :
             /\ NextQueued(j)
             /\ Goto(t, [Idle EXCEPT !.pc = "fetch_take", !.job = j])
        /\ UNCHANGED agent
  /\ UNCHANGED <<server, up, volume, used, history>>

FirstStep(type) == CASE type = "store_file"   -> "get"
                     [] type = "collect_file" -> "push"
                     [] type = "delete_file"  -> "unlink"

FetchTake(t) ==
  LET j == threads[t].job IN
  /\ threads[t].pc = "fetch_take"
  /\ jobs' = WithJobStatus(j, "in_progress")
  /\ Done(t)
  /\ IF agent.slot = t
       THEN /\ agent' = [agent EXCEPT !.pc = FirstStep(jobs[j].type),
                                     !.slot = NoThread, !.job = j]
            /\ last' = j
       ELSE UNCHANGED <<agent, last>>
  /\ UNCHANGED <<files, nextFile, blobs, temps, up, volume, used,
                 wiped, asked, edited, removed>>

CurrentJob == jobs[agent.job]

\* Plausible bugs: a failure is reported as a success, or not at all.
Report_Done(ok) == agent' = [agent EXCEPT !.pc = "report", !.ok = TRUE]
Report_Swallow(ok) ==
  agent' = IF ok THEN [agent EXCEPT !.pc = "report", !.ok = TRUE] ELSE AgentStart

Report(ok) == agent' = [agent EXCEPT !.pc = "report", !.ok = ok]
Loop == agent' = AgentStart
AgentOnly == UNCHANGED <<server, up, threads, used, asked, edited, removed>>

\* _handle_store_file asks for the blob.  No row (404) or no file (500) ends
\* the job with ok = false; otherwise the target is opened, hence truncated.
GetBlob ==
  /\ agent.pc = "get"
  /\ IF CurrentJob.temp \in {b.temp : b \in blobs} \cap temps
       THEN /\ disk' = [disk EXCEPT ![CurrentJob.rel] = "partial"]
            /\ agent' = [agent EXCEPT !.pc = "write"]
       ELSE Report(FALSE) /\ UNCHANGED disk
  /\ UNCHANGED <<meta, mounted, last, wiped>> /\ AgentOnly

WriteBlob ==
  /\ agent.pc = "write"
  /\ disk' = [disk EXCEPT ![CurrentJob.rel] = "full"]
  /\ agent' = [agent EXCEPT !.pc = "list"]
  /\ UNCHANGED <<meta, mounted, last, wiped>> /\ AgentOnly

\* _upsert_volume_file_meta and the refreshes around it.
ListFile ==
  /\ agent.pc = "list"
  /\ meta' = Listed \cup {CurrentJob.rel}
  /\ Report(TRUE)
  /\ UNCHANGED <<disk, mounted, last, wiped>> /\ AgentOnly

\* _handle_collect_file and upload-result, which runs on the event loop.  The
\* foreign key refuses a blob of a deleted file, after its file was written.
DownloadTemp == <<"download", agent.job>>
StoreResult ==
  /\ temps' = temps \cup {DownloadTemp}
  /\ blobs' = IF Present(CurrentJob.file)
              THEN blobs \cup {[temp |-> DownloadTemp, file |-> CurrentJob.file,
                                status |-> "ready"]}
              ELSE blobs

PushFile ==
  /\ agent.pc = "push"
  /\ \/ /\ disk[CurrentJob.rel] = "none"
        /\ Report(FALSE) /\ UNCHANGED <<blobs, temps>>
     \/ /\ disk[CurrentJob.rel] # "none" /\ CurrentJob.proxied
        /\ Report(TRUE) /\ UNCHANGED <<blobs, temps>>
     \/ /\ disk[CurrentJob.rel] # "none" /\ ~CurrentJob.proxied
        /\ up.pc = "idle"
        /\ StoreResult
        /\ Report(Present(CurrentJob.file))
  /\ UNCHANGED <<files, nextFile, jobs, up, threads, volume, used, history>>

\* _handle_delete_file.
UnlinkFile ==
  /\ agent.pc = "unlink"
  /\ disk' = [disk EXCEPT ![CurrentJob.rel] = "none"]
  /\ wiped' = wiped \cup {agent.job}
  /\ agent' = [agent EXCEPT !.pc = "unlist"]
  /\ UNCHANGED <<meta, mounted, last>> /\ AgentOnly

UnlistFile ==
  /\ agent.pc = "unlist"
  /\ meta' = Listed \ {CurrentJob.rel}
  /\ Report(TRUE)
  /\ UNCHANGED <<disk, mounted, last, wiped>> /\ AgentOnly

SendReport(t) ==
  /\ agent.pc = "report" /\ IsIdle(t)
  /\ agent' = [agent EXCEPT !.pc = "report_wait", !.slot = t]
  /\ Goto(t, [Idle EXCEPT !.pc = "complete_job", !.job = agent.job, !.ok = agent.ok])
  /\ UNCHANGED <<server, up, volume, used, history>>

\* FileService.mark_job_result: the job, then the blob it carried, then the
\* row.  Nothing checks that the job is still in progress.
CompleteJob(t) ==
  LET h == threads[t] IN
  /\ h.pc = "complete_job"
  /\ jobs' = WithJobStatus(h.job, IF h.ok THEN "done" ELSE "failed")
  /\ Goto(t, [h EXCEPT !.pc = IF h.ok /\ jobs[h.job].type = "store_file"
                              THEN "complete_blob" ELSE "complete_status"])
  /\ UNCHANGED <<files, nextFile, blobs, temps, up, agent, volume, used, history>>

Consumed(temp) ==
  {IF b.temp = temp THEN [b EXCEPT !.status = "consumed"] ELSE b : b \in blobs}

\* The file to unlink: none if the row of the blob is gone.
\* A plausible bug: the blob is looked up as a ready one after it was consumed.
FileOf_Ready(temp) == {temp} \cap {b.temp : b \in {c \in blobs' : c.status = "ready"}}
FileOf(temp) == {temp} \cap {b.temp : b \in blobs}

\* blobs.consume and the unlink of its file.
CompleteBlob(t) ==
  LET h == threads[t]
      temp == jobs[h.job].temp IN
  /\ h.pc = "complete_blob"
  /\ blobs' = Consumed(temp)
  /\ temps' = temps \ FileOf(temp)
  /\ Goto(t, [h EXCEPT !.pc = "complete_status"])
  /\ UNCHANGED <<files, nextFile, jobs, up, agent, volume, used, history>>

CompleteStatus(t) ==
  LET h == threads[t]
      job == jobs[h.job] IN
  /\ h.pc = "complete_status"
  /\ files' = IF ~h.ok THEN WithStatus(job.file, "error")
              ELSE IF job.type = "delete_file" THEN files
              ELSE WithStatus(job.file, "active")
  /\ Done(t) /\ Respond(t, "beat")
  /\ UNCHANGED <<nextFile, jobs, blobs, temps, up, volume, used, history>>

AgentStep ==
  \/ \E t \in Thread : SendHeartbeat(t) \/ SendFetch(t) \/ SendReport(t)
  \/ GetBlob \/ WriteBlob \/ ListFile \/ PushFile \/ UnlinkFile \/ UnlistFile

HandlerStep(t) ==
  \/ DeleteQueueJob(t) \/ DeleteListBlobs(t) \/ DeleteBlobs(t) \/ DeleteRow(t)
  \/ DownloadMark(t) \/ DownloadQueueJob(t) \/ EditWrite(t)
  \/ BeatRead(t) \/ BeatWrite(t) \/ FetchSelect(t) \/ FetchTake(t)
  \/ CompleteJob(t) \/ CompleteBlob(t) \/ CompleteStatus(t)

UserRequest ==
  \/ CreateRecord \/ UploadReceive
  \/ \E t \in Thread, f \in FileId :
       \/ DeleteRead(t, f)
       \/ \E proxied \in BOOLEAN : DownloadRead(t, f, proxied)
       \/ \E s \in {files[f].status, "active", "archived", "deleted"} :
            EditRead(t, f, s)

-----------------------------------------------------------------------------
(* Faults *)

\* A timeout or a lost answer: requests raises, the loop starts over, and the
\* handler on the server goes on unobserved.
AgentTimeout ==
  /\ agent.pc \in {"beat_wait", "fetch_wait", "report_wait"}
  /\ Spend("lost")
  /\ Loop
  /\ UNCHANGED <<server, up, threads, volume, history>>

\* The request never reaches the server.
RequestLost ==
  /\ agent.pc \in {"fetch", "get", "push", "report"}
  /\ Spend("lost")
  /\ Loop
  /\ UNCHANGED <<server, up, threads, volume, history>>

\* The collected file reaches the server and the answer is lost.
ResultLost ==
  /\ agent.pc = "push" /\ up.pc = "idle"
  /\ disk[CurrentJob.rel] # "none" /\ ~CurrentJob.proxied
  /\ Spend("lost")
  /\ StoreResult /\ Loop
  /\ UNCHANGED <<files, nextFile, jobs, up, threads, volume, history>>

\* The blob is refused (a status of 400 or more) or its stream breaks off;
\* an unlink raises an OSError.
TransferRefused ==
  /\ agent.pc \in {"get", "push", "unlink"}
  /\ Spend("break")
  /\ Report(FALSE)
  /\ UNCHANGED <<server, up, threads, volume, history>>

StreamBroken ==
  /\ agent.pc = "write"
  /\ Spend("break")
  /\ Loop
  /\ UNCHANGED <<server, up, threads, volume, history>>

\* The agent's process dies and the service manager restarts it.
AgentCrash ==
  /\ Spend("crash")
  /\ Loop
  /\ UNCHANGED <<server, up, threads, volume, history>>

\* It dies inside write_text, which truncates first: the next refresh reads
\* no JSON and writes the file back without mount_path and without files.
MetaTorn ==
  /\ agent.pc \in {"beat", "list", "unlist"}
  /\ Spend("tear")
  /\ Loop
  /\ meta' = {} /\ mounted' = FALSE
  /\ UNCHANGED <<server, up, threads, disk, history>>

\* The server restarts: its handlers are gone, its tables and files are not.
ServerRestart ==
  /\ Spend("restart")
  /\ up' = NoUpload
  /\ threads' = [t \in Thread |-> Idle]
  /\ IF agent.slot = NoThread THEN UNCHANGED agent ELSE Loop
  /\ UNCHANGED <<server, volume, history>>

Fault == \/ AgentTimeout \/ RequestLost \/ ResultLost \/ TransferRefused
         \/ StreamBroken \/ AgentCrash \/ MetaTorn \/ ServerRestart

-----------------------------------------------------------------------------
Next ==
  \/ UserRequest \/ UploadStep \/ AgentStep \/ Fault
  \/ \E t \in Thread : HandlerStep(t)

Spec == Init /\ [][Next]_vars

\* The pool serves its threads, the event loop its handlers, and the agent's
\* loop never ends (every exception is caught).  Users and faults owe nothing.
Fairness ==
  /\ WF_vars(AgentStep)
  /\ WF_vars(UploadStep)
  /\ \A t \in Thread : WF_vars(HandlerStep(t))

FairSpec == Spec /\ Fairness

-----------------------------------------------------------------------------
(* Safety *)

StoreJobs == {j \in 1..Len(jobs) : jobs[j].type = "store_file"}
DeleteJobs == {j \in 1..Len(jobs) : jobs[j].type = "delete_file"}

\* The server still has the bytes of store job j, where the agent can get them.
HeldByServer(j) ==
  /\ jobs[j].temp \in temps
  /\ \E b \in blobs : b.temp = jobs[j].temp /\ b.status = "ready"

\* No accepted upload loses its bytes: until somebody asks to delete the file,
\* the temporary file of the server or the node's volume holds all of it,
\* whatever answers, handlers and processes die on the way.  (The server
\* unlinks its copy in mark_job_result; the node may still be writing its own.)
Durable ==
  \A j \in StoreJobs :
    jobs[j].rel \notin asked => HeldByServer(j) \/ disk[jobs[j].rel] = "full"

\* Rows whose status the program alone decides.
Untouched(f) == /\ files[f].rel # 0
                /\ {f, files[f].rel} \cap (asked \cup edited) = {}

\* A file shown as active has a file on the node: the status is set by the
\* completion of a job and by heartbeats, which may both be late.
ActiveOnNode ==
  \A f \in FileId : (files[f].status = "active" /\ Untouched(f)) =>
                       disk[files[f].rel] # "none"

\* While no transfer breaks off and no agent dies, an active file is whole.
ActiveIsWhole ==
  used["break"] + used["crash"] = 0 =>
    \A f \in FileId : (files[f].status = "active" /\ Untouched(f)) =>
                         disk[files[f].rel] = "full"

\* Once the agent has run a delete_file job queued after the store_file job of
\* its path, no late, repeated or reordered job brings the bytes back.
WipedStaysWiped ==
  \A k \in DeleteJobs, j \in StoreJobs :
    (k \in wiped /\ j < k /\ jobs[j].rel = jobs[k].rel) =>
      disk[jobs[k].rel] = "none"

\* The heartbeat rebuilds rows by path and never makes a second one, as long as
\* no heartbeat outlives its timeout or its agent: readers see each stored file
\* once.  (Two edits of a row, one that has read it without its path and one with
\* it, can take the path away and bring it back after a heartbeat.)
OneRowPerPath ==
  used["lost"] + used["crash"] = 0 => \A f, g \in FileId \ edited :
    (Present(f) /\ Present(g) /\ files[f].rel = files[g].rel /\ files[f].rel # 0)
      => f = g

\* The agent is handed jobs in the order they were queued, each one at most
\* once, and none is left behind in the queue by a later one.
HandedInOrder ==
  [][last' # last => /\ last' > last
                     /\ \A j \in 1..last' : jobs'[j].status # "queued"]_vars

\* A job that is in progress and in nobody's hands will never be finished
\* (nothing puts it back into the queue): every one of them is the work of a
\* fault of its own.
InHand(j) == \/ agent.job = j
             \/ \E t \in Thread : threads[t].job = j
Stranded == {j \in 1..Len(jobs) : jobs[j].status = "in_progress" /\ ~InHand(j)}
StrandedByFaults ==
  Cardinality(Stranded) <=
    used["lost"] + used["break"] + used["crash"] + used["tear"] + used["restart"]

\* What DELETE /files/{id} answers and audits: once the row was removed, the
\* agent has erased the bytes and nothing is under way, the file is gone.
Quiet == /\ up.pc = "idle" /\ \A t \in Thread : IsIdle(t)
         /\ Queued = {} /\ agent.pc = "beat"
DeletedStaysDeleted ==
  Quiet => \A k \in wiped : jobs[k].rel \in removed =>
                               RowsOf(jobs[k].rel) = {}

\* A row never goes back, from a path to another or none or from active to
\* pending, however transfers, heartbeats, completions and faults interleave;
\* but for an edit that has read the row before its upload wrote the path, or
\* before its file was stored, and for the upload that has read it before an edit
\* (FileRepository.update writes every column back).
OnlyStaleEditsTurnBack ==
  [][\A f \in FileId : Present(f) /\ files'[f].status # "absent" =>
       \/ /\ files'[f].rel = files[f].rel \/ files[f].rel = 0
          /\ files[f].status = "active" => files'[f].status # "pending_upload"
       \/ \E t \in Thread :
            /\ threads[t].pc = "edit_write" /\ threads[t].file = f
            /\ threads[t].rel = 0 \/ threads[t].status = "pending_upload"
       \/ up.pc = "path" /\ up.file = f /\ f \in edited]_vars

-----------------------------------------------------------------------------
(* Liveness *)

InTable(j) == j \in 1..Len(jobs)

\* An answer was lost or the server restarted: from then on jobs may be stranded.
Faulted == used["lost"] + used["restart"] > 0

IsFinished(j) == InTable(j) /\ jobs[j].status \in {"done", "failed"}

\* Without faults, every job that was queued is run and reported.
JobsFinish == \A j \in JobId : InTable(j) ~> (IsFinished(j) \/ Faulted)

\* Without faults, once the upload of a file is accepted and nobody deletes or
\* edits it, the server drops its copy and the row becomes active.
UploadSettles ==
  \A j \in JobId :
    (j \in StoreJobs) ~>
      \/ Faulted
      \/ /\ InTable(j)
         /\ \/ jobs[j].rel \in asked \cup edited
            \/ /\ jobs[j].temp \notin temps
               /\ files[jobs[j].rel].status = "active"

\* Answers may be lost and the server may restart: the heartbeats still make
\* every listed file active again and again.
ListedBecomesActive ==
  \A r \in FileId :
    (r \in meta) ~> \/ r \in asked \cup edited
                    \/ \E f \in RowsOf(r) : files[f].status = "active"

\* Without faults, a deletion requested after the upload was accepted empties
\* the path on the node for good and takes it off the agent's list.
DeletionErases ==
  \A j, k \in JobId :
    (/\ j \in StoreJobs /\ k \in DeleteJobs /\ j < k
     /\ jobs[j].rel = jobs[k].rel)
      ~> [](Faulted \/ (InTable(k) /\ disk[jobs[k].rel] = "none" /\ jobs[k].rel \notin meta))

-----------------------------------------------------------------------------
(* The promise kept: see Custody. *)

Promise == INSTANCE Custody WITH
  File    <- FileId,
  central <- {jobs[j].rel : j \in {i \in StoreJobs : HeldByServer(i)}},
  node    <- {r \in FileId : disk[r] = "full"}

\* Every step of the transfer is a step of Custody or none.
KeepsCustody == Promise!Spec
=============================================================================
