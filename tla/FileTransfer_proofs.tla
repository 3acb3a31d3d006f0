------------------------ MODULE FileTransfer_proofs -------------------------
(***************************************************************************)
(* Proofs about FileTransfer for every value of its constants: types and    *)
(* places of handlers, then the promises about the queue and the stores.     *)
(***************************************************************************)
EXTENDS FileTransferInv, TLAPS, SequenceTheorems

-----------------------------------------------------------------------------
(* What a step does to the table of jobs *)

\* Changing the status of a job changes nothing else.
LEMMA JobStatusOnly ==
  ASSUME jobs \in Seq(Job), NEW j \in 1..Len(jobs), NEW status \in JobStatus,
         jobs' = WithJobStatus(j, status)
  PROVE  /\ jobs' \in Seq(Job)
         /\ Len(jobs') = Len(jobs)
         /\ \A i \in 1..Len(jobs) :
              /\ jobs'[i].type = jobs[i].type
              /\ jobs'[i].file = jobs[i].file
              /\ jobs'[i].rel = jobs[i].rel
              /\ jobs'[i].temp = jobs[i].temp
              /\ jobs'[i].proxied = jobs[i].proxied
              /\ jobs'[i].status = IF i = j THEN status ELSE jobs[i].status
<1> DEFINE job == [jobs[j] EXCEPT !.status = status]
<1>1. \A i \in 1..Len(jobs) : jobs[i] \in Job
  BY ElementOfSeq
<1>2. job \in Job
  BY <1>1 DEF Job
<1>3. jobs' = [jobs EXCEPT ![j] = job]
  BY DEF WithJobStatus
<1>4. /\ job.type = jobs[j].type /\ job.file = jobs[j].file
      /\ job.rel = jobs[j].rel /\ job.temp = jobs[j].temp
      /\ job.proxied = jobs[j].proxied /\ job.status = status
  BY <1>1 DEF Job
<1> HIDE DEF job
<1>5. /\ jobs' \in Seq(Job)
      /\ Len(jobs') = Len(jobs)
      /\ \A i \in 1..Len(jobs) : jobs'[i] = IF i = j THEN job ELSE jobs[i]
  BY <1>2, <1>3, ExceptSeq
<1> QED
  BY <1>4, <1>5

\* The five steps that write agent_jobs.
LEMMA UploadJobAppends ==
  ASSUME TypeOK, UploadWf, UploadJob
  PROVE  /\ jobs' \in Seq(Job)
         /\ Len(jobs') = Len(jobs) + 1 /\ Len(jobs') <= MaxJob
         /\ \A i \in 1..Len(jobs) : jobs'[i] = jobs[i]
         /\ jobs'[Len(jobs) + 1].type = "store_file"
         /\ jobs'[Len(jobs) + 1].file = up.file
         /\ jobs'[Len(jobs) + 1].rel = up.file
         /\ jobs'[Len(jobs) + 1].temp = UploadTemp
<1> DEFINE job == 
       [type |-> "store_file", file |-> up.file, rel |-> up.file,
        temp |-> UploadTemp, proxied |-> FALSE, status |-> "queued"]
<1>1. job \in Job
  <2>1. UploadTemp \in TempName
    BY BoundAssumption
       DEF UploadTemp, TempName, TypeOK, UploadWf, UploadJob, Kind
  <2>2. up.file \in FileId
    BY DEF UploadWf, UploadJob, HoldingFile
  <2> QED
    BY <2>1, <2>2 DEF Job, JobType, JobStatus
<1>2. /\ jobs' = Append(jobs, job) /\ Len(jobs) < MaxJob
      /\ jobs \in Seq(Job) /\ Len(jobs) \in Nat /\ MaxJob \in Nat
  BY BoundAssumption, LenProperties DEF UploadJob, QueueJob, TypeOK
<1> HIDE DEF job
<1>3. /\ jobs' \in Seq(Job)
      /\ Len(jobs') = Len(jobs) + 1
      /\ \A i \in 1..Len(jobs) : jobs'[i] = jobs[i]
      /\ jobs'[Len(jobs) + 1] = job
  BY <1>1, <1>2, AppendProperties
<1> QED
  BY <1>2, <1>3 DEF job

LEMMA DeleteQueueJobAppends ==
  ASSUME TypeOK, HandlersWf, NEW t \in Thread, DeleteQueueJob(t)
  PROVE  /\ jobs' \in Seq(Job)
         /\ Len(jobs') = Len(jobs) + 1 /\ Len(jobs') <= MaxJob
         /\ \A i \in 1..Len(jobs) : jobs'[i] = jobs[i]
         /\ jobs'[Len(jobs) + 1].type = "delete_file"
         /\ jobs'[Len(jobs) + 1].file = threads[t].file
         /\ jobs'[Len(jobs) + 1].rel = threads[t].rel
         /\ jobs'[Len(jobs) + 1].temp = NoTemp
<1> DEFINE job == 
       [type |-> "delete_file", file |-> threads[t].file,
        rel |-> threads[t].rel, temp |-> NoTemp, proxied |-> FALSE,
        status |-> "queued"]
<1>1. job \in Job
  BY DEF HandlersWf, HandlerWf, DeleteQueueJob, Deleting, Downloading, Job, JobType, JobStatus
<1>2. /\ jobs' = Append(jobs, job) /\ Len(jobs) < MaxJob
      /\ jobs \in Seq(Job) /\ Len(jobs) \in Nat /\ MaxJob \in Nat
  BY BoundAssumption, LenProperties DEF DeleteQueueJob, QueueJob, TypeOK
<1> HIDE DEF job
<1>3. /\ jobs' \in Seq(Job)
      /\ Len(jobs') = Len(jobs) + 1
      /\ \A i \in 1..Len(jobs) : jobs'[i] = jobs[i]
      /\ jobs'[Len(jobs) + 1] = job
  BY <1>1, <1>2, AppendProperties
<1> QED
  BY <1>2, <1>3 DEF job

LEMMA DownloadQueueJobAppends ==
  ASSUME TypeOK, HandlersWf, NEW t \in Thread, DownloadQueueJob(t)
  PROVE  /\ jobs' \in Seq(Job)
         /\ Len(jobs') = Len(jobs) + 1 /\ Len(jobs') <= MaxJob
         /\ \A i \in 1..Len(jobs) : jobs'[i] = jobs[i]
         /\ jobs'[Len(jobs) + 1].type = "collect_file"
         /\ jobs'[Len(jobs) + 1].file = threads[t].file
         /\ jobs'[Len(jobs) + 1].rel = threads[t].rel
         /\ jobs'[Len(jobs) + 1].temp = NoTemp
<1> DEFINE job == 
       [type |-> "collect_file", file |-> threads[t].file,
        rel |-> threads[t].rel, temp |-> NoTemp,
        proxied |-> threads[t].ok, status |-> "queued"]
<1>1. job \in Job
  BY DEF HandlersWf, HandlerWf, Downloading, DownloadQueueJob, TypeOK, Handler, Job, JobType, JobStatus
<1>2. /\ jobs' = Append(jobs, job) /\ Len(jobs) < MaxJob
      /\ jobs \in Seq(Job) /\ Len(jobs) \in Nat /\ MaxJob \in Nat
  BY BoundAssumption, LenProperties DEF DownloadQueueJob, QueueJob, TypeOK
<1> HIDE DEF job
<1>3. /\ jobs' \in Seq(Job)
      /\ Len(jobs') = Len(jobs) + 1
      /\ \A i \in 1..Len(jobs) : jobs'[i] = jobs[i]
      /\ jobs'[Len(jobs) + 1] = job
  BY <1>1, <1>2, AppendProperties
<1> QED
  BY <1>2, <1>3 DEF job

LEMMA FetchTakeMarks ==
  ASSUME TypeOK, HandlersWf, NEW t \in Thread, FetchTake(t)
  PROVE  /\ jobs' \in Seq(Job)
         /\ Len(jobs') = Len(jobs)
         /\ \A i \in 1..Len(jobs) :
              /\ jobs'[i].type = jobs[i].type
              /\ jobs'[i].file = jobs[i].file
              /\ jobs'[i].rel = jobs[i].rel
              /\ jobs'[i].temp = jobs[i].temp
              /\ jobs'[i].proxied = jobs[i].proxied
              /\ jobs'[i].status = IF i = threads[t].job THEN "in_progress"
                                                         ELSE jobs[i].status
<1>1. threads[t].job \in 1..Len(jobs) /\ jobs \in Seq(Job)
  BY DEF HandlersWf, HandlerWf, FetchTake, TypeOK
<1>2. jobs' = WithJobStatus(threads[t].job, "in_progress")
  BY DEF FetchTake
<1>3. "in_progress" \in JobStatus
  BY DEF JobStatus
<1> QED
  BY <1>1, <1>2, <1>3, JobStatusOnly

LEMMA CompleteJobMarks ==
  ASSUME TypeOK, HandlersWf, NEW t \in Thread, CompleteJob(t)
  PROVE  /\ jobs' \in Seq(Job)
         /\ Len(jobs') = Len(jobs)
         /\ \A i \in 1..Len(jobs) :
              /\ jobs'[i].type = jobs[i].type
              /\ jobs'[i].file = jobs[i].file
              /\ jobs'[i].rel = jobs[i].rel
              /\ jobs'[i].temp = jobs[i].temp
              /\ jobs'[i].proxied = jobs[i].proxied
              /\ i # threads[t].job => jobs'[i].status = jobs[i].status
              /\ jobs'[threads[t].job].status \in {"done", "failed"}
<1>1. threads[t].job \in 1..Len(jobs) /\ jobs \in Seq(Job)
  BY DEF HandlersWf, HandlerWf, CompleteJob, TypeOK, Completing
<1> DEFINE status == IF threads[t].ok THEN "done" ELSE "failed"
<1>2. jobs' = WithJobStatus(threads[t].job, status)
  BY DEF CompleteJob
<1>3. status \in JobStatus /\ status \in {"done", "failed"}
  BY DEF JobStatus
<1> HIDE DEF status
<1> QED
  BY <1>1, <1>2, <1>3, JobStatusOnly

\* Nobody else writes the table.
LEMMA JobWriters ==
  ASSUME [Next]_vars
  PROVE  \/ UNCHANGED jobs
         \/ UploadJob
         \/ \E t \in Thread : \/ DeleteQueueJob(t) \/ DownloadQueueJob(t)
                              \/ FetchTake(t) \/ CompleteJob(t)
  BY DEF Next, vars, server, UserRequest, CreateRecord, UploadReceive, DeleteRead,
         DownloadRead, EditRead, UploadStep, UploadRefuse, UploadInsert, UploadRead,
         UploadPath, UploadBlob, AgentStep, SendHeartbeat, SendFetch, SendReport,
         GetBlob, WriteBlob, ListFile, PushFile, UnlinkFile, UnlistFile, AgentOnly,
         HandlerStep, DeleteListBlobs, DeleteBlobs, DeleteRow, DownloadMark,
         EditWrite, BeatRead, BeatWrite, FetchSelect, CompleteBlob, CompleteStatus,
         Fault, AgentTimeout, RequestLost, ResultLost, TransferRefused,
         StreamBroken, AgentCrash, MetaTorn, ServerRestart, InsertRow, StoreResult

\* Whatever happens, jobs keep their content and never return to the queue.
LEMMA JobsOnlyGrow ==
  ASSUME TypeOK, HandlersWf, UploadWf, [Next]_vars
  PROVE  /\ jobs' \in Seq(Job)
         /\ Len(jobs') \in Nat /\ Len(jobs') >= Len(jobs) /\ Len(jobs') <= MaxJob
         /\ \A i \in 1..Len(jobs) :
              /\ jobs'[i].type = jobs[i].type
              /\ jobs'[i].file = jobs[i].file
              /\ jobs'[i].rel = jobs[i].rel
              /\ jobs'[i].temp = jobs[i].temp
              /\ jobs'[i].proxied = jobs[i].proxied
              /\ jobs[i].status # "queued" => jobs'[i].status # "queued"
<1>1. /\ jobs \in Seq(Job) /\ Len(jobs) \in Nat /\ Len(jobs) <= MaxJob
      /\ MaxJob \in Nat
  BY BoundAssumption, LenProperties DEF TypeOK
<1>2. CASE UploadJob
  BY <1>1, <1>2, UploadJobAppends
<1>3. CASE \E t \in Thread : DeleteQueueJob(t)
  <2> PICK t \in Thread : DeleteQueueJob(t)
    BY <1>3
  <2>1. /\ jobs' \in Seq(Job)
        /\ Len(jobs') = Len(jobs) + 1 /\ Len(jobs') <= MaxJob
        /\ \A i \in 1..Len(jobs) : jobs'[i] = jobs[i]
    BY DeleteQueueJobAppends
  <2> QED
    BY <1>1, <2>1
<1>4. CASE \E t \in Thread : DownloadQueueJob(t)
  <2> PICK t \in Thread : DownloadQueueJob(t)
    BY <1>4
  <2>1. /\ jobs' \in Seq(Job)
        /\ Len(jobs') = Len(jobs) + 1 /\ Len(jobs') <= MaxJob
        /\ \A i \in 1..Len(jobs) : jobs'[i] = jobs[i]
    BY DownloadQueueJobAppends
  <2> QED
    BY <1>1, <2>1
<1>5. CASE \E t \in Thread : FetchTake(t)
  BY <1>1, <1>5, FetchTakeMarks
<1>6. CASE \E t \in Thread : CompleteJob(t)
  <2> PICK t \in Thread : CompleteJob(t)
    BY <1>6
  <2>1. \A i \in 1..Len(jobs) :
          jobs[i].status # "queued" => jobs'[i].status # "queued"
    BY <1>1, CompleteJobMarks
  <2> QED
    BY <1>1, <2>1, CompleteJobMarks
<1>7. CASE UNCHANGED jobs
  BY <1>1, <1>7
<1> QED
  BY <1>2, <1>3, <1>4, <1>5, <1>6, <1>7, JobWriters

-----------------------------------------------------------------------------
(* Types *)

\* The values that handlers, the upload handler and the agent start from.
LEMMA StartTypes ==
  /\ Idle \in Handler
  /\ NoUpload \in Upload
  /\ AgentStart \in Agent
  BY BoundAssumption
     DEF Handler, HandlerPc, Idle, Path, Upload, NoUpload, UploadPc, Agent,
         AgentStart, AgentPc

LEMMA TypeInit == Init => TypeOK
<1> SUFFICES ASSUME Init PROVE TypeOK
  OBVIOUS
<1>1. jobs \in Seq(Job) /\ Len(jobs) <= MaxJob
  BY BoundAssumption, EmptySeq DEF Init
<1>2. files \in [FileId -> Row]
  BY BoundAssumption DEF Init, Row, NoRow, Path
<1>3. used \in [Kind -> Nat] /\ \A k \in Kind : used[k] <= Limit[k]
  BY BoundAssumption DEF Init
<1> QED
  BY <1>1, <1>2, <1>3, StartTypes, BoundAssumption DEF Init, TypeOK

\* Everything TypeOK says of the variables other than jobs.
TypeRest ==
  /\ files \in [FileId -> Row]
  /\ nextFile \in 1..(MaxFile + 1)
  /\ blobs \subseteq Blob
  /\ temps \subseteq TempName
  /\ up \in Upload
  /\ threads \in [Thread -> Handler]
  /\ agent \in Agent
  /\ disk \in [FileId -> {"none", "partial", "full"}]
  /\ meta \subseteq FileId
  /\ mounted \in BOOLEAN
  /\ used \in [Kind -> Nat] /\ \A k \in Kind : used[k] <= Limit[k]
  /\ last \in 0..MaxJob
  /\ wiped \subseteq JobId
  /\ asked \subseteq FileId
  /\ edited \subseteq FileId
  /\ removed \subseteq FileId

\* Spending from a budget keeps it within its limit.
LEMMA SpendTyped ==
  ASSUME NEW kind \in Kind, TypeRest, Spend(kind)
  PROVE  /\ used' \in [Kind -> Nat]
         /\ \A k \in Kind : used'[k] <= Limit[k]
         /\ used'[kind] = used[kind] + 1
         /\ \A k \in Kind : k # kind => used'[k] = used[k]
<1>1. /\ used \in [Kind -> Nat] /\ Limit \in [Kind -> Nat]
      /\ \A k \in Kind : used[k] <= Limit[k]
  BY BoundAssumption DEF TypeRest
<1>2. used[kind] < Limit[kind] /\ used' = [used EXCEPT ![kind] = used[kind] + 1]
  BY DEF Spend
<1>3. /\ used' \in [Kind -> Nat]
      /\ used'[kind] = used[kind] + 1
      /\ \A k \in Kind : k # kind => used'[k] = used[k]
  BY <1>1, <1>2
<1>4. used[kind] + 1 <= Limit[kind]
  <2>1. used[kind] \in Nat /\ Limit[kind] \in Nat
    BY <1>1
  <2> QED
    BY <1>2, <2>1
<1> QED
  BY <1>1, <1>3, <1>4

LEMMA InsertRowTyped ==
  ASSUME TypeRest, NEW status \in FileStatus, NEW rel \in Path,
         InsertRow(status, rel)
  PROVE  /\ files' \in [FileId -> Row]
         /\ nextFile' \in 1..(MaxFile + 1)
         /\ nextFile \in FileId /\ nextFile' = nextFile + 1
  BY BoundAssumption DEF InsertRow, TypeRest, Row, FileId

LEMMA SetStatusTyped ==
  ASSUME TypeRest, NEW f \in FileId, NEW status \in FileStatus
  PROVE  WithStatus(f, status) \in [FileId -> Row]
  BY DEF WithStatus, TypeRest, Row

LEMMA SetRowTyped ==
  ASSUME TypeRest, NEW f \in FileId, NEW status \in FileStatus \cup {"absent"},
         NEW rel \in Path
  PROVE  WithRow(f, status, rel) \in [FileId -> Row]
  BY DEF WithRow, TypeRest, Row

LEMMA UserRequestTyped == ASSUME TypeRest, UserRequest PROVE TypeRest'
<1>1. CASE CreateRecord
  <2>1. InsertRow("active", 0) /\ Spend("create") /\ 0 \in Path
    BY <1>1, BoundAssumption DEF CreateRecord, Path
  <2>2. "active" \in FileStatus /\ "create" \in Kind
    BY DEF FileStatus, Kind
  <2> QED
    BY <1>1, <2>1, <2>2, InsertRowTyped, SpendTyped
       DEF CreateRecord, TypeRest, volume, history
<1>2. CASE UploadReceive
  <2>1. Spend("upload") /\ "upload" \in Kind
    BY <1>2 DEF UploadReceive, Kind
  <2>2. used'["upload"] \in 1..Limit["upload"]
    BY <2>1, SpendTyped, BoundAssumption DEF TypeRest
  <2>3. <<"upload", used'["upload"]>> \in TempName
    BY <2>2 DEF TempName
  <2>4. up' \in Upload
    BY <1>2, StartTypes DEF UploadReceive, Upload, UploadPc
  <2> QED
    BY <1>2, <2>1, <2>3, <2>4, SpendTyped DEF UploadReceive, TypeRest, volume, history
<1>3. ASSUME NEW t \in Thread, NEW f \in FileId, DeleteRead(t, f)
      PROVE  TypeRest'
  <2>1. Spend("delete") /\ "delete" \in Kind
    BY <1>3 DEF DeleteRead, Kind
  <2>2. files[f].rel \in Path /\ f \in 0..MaxFile
    BY DEF TypeRest, Row, FileId
  <2>3. threads' \in [Thread -> Handler]
    BY <1>3, <2>2, StartTypes DEF DeleteRead, Goto, TypeRest, Handler, HandlerPc
  <2>4. asked' \subseteq FileId
    BY <1>3, <2>2, BoundAssumption DEF DeleteRead, TypeRest, FileId, Path
  <2> QED
    BY <1>3, <2>1, <2>3, <2>4, SpendTyped DEF DeleteRead, TypeRest, server, volume
<1>4. ASSUME NEW t \in Thread, NEW f \in FileId, NEW proxied \in BOOLEAN,
             DownloadRead(t, f, proxied)
      PROVE  TypeRest'
  <2>1. Spend("download") /\ "download" \in Kind
    BY <1>4 DEF DownloadRead, Kind
  <2>2. files[f].rel \in Path /\ f \in 0..MaxFile
    BY DEF TypeRest, Row, FileId
  <2>3. threads' \in [Thread -> Handler]
    BY <1>4, <2>2, StartTypes DEF DownloadRead, Goto, TypeRest, Handler, HandlerPc
  <2> QED
    BY <1>4, <2>1, <2>3, SpendTyped DEF DownloadRead, TypeRest, server, volume, history
<1>5. ASSUME NEW t \in Thread, NEW f \in FileId,
             NEW s \in {files[f].status, "active", "archived", "deleted"},
             EditRead(t, f, s)
      PROVE  TypeRest'
  <2>1. Spend("edit") /\ "edit" \in Kind
    BY <1>5 DEF EditRead, Kind
  <2>2. /\ files[f].rel \in Path /\ f \in 0..MaxFile
        /\ s \in FileStatus \cup {"absent"}
    BY DEF TypeRest, Row, FileId, FileStatus
  <2>3. threads' \in [Thread -> Handler]
    BY <1>5, <2>2, StartTypes DEF EditRead, Goto, TypeRest, Handler, HandlerPc
  <2> QED
    BY <1>5, <2>1, <2>3, SpendTyped DEF EditRead, TypeRest, server, volume, history
<1> QED
  BY <1>1, <1>2, <1>3, <1>4, <1>5 DEF UserRequest

LEMMA UploadStepTyped == ASSUME TypeRest, UploadWf, UploadStep PROVE TypeRest'
<1>1. UploadTemp \in TempName \/ up.pc = "idle"
  BY BoundAssumption DEF UploadTemp, TempName, TypeRest, UploadWf, Kind
<1>2. CASE UploadRefuse
  BY <1>2, StartTypes DEF UploadRefuse, TypeRest, server, volume, history
<1>3. CASE UploadInsert
  <2>1. /\ InsertRow("pending_upload", 0) /\ 0 \in Path
        /\ "pending_upload" \in FileStatus
    BY <1>3, BoundAssumption DEF UploadInsert, Path, FileStatus
  <2>2. nextFile \in 0..MaxFile
    BY <2>1, InsertRowTyped DEF FileId
  <2>3. up' \in Upload
    BY <1>3, <2>2 DEF UploadInsert, TypeRest, Upload, UploadPc
  <2> QED
    BY <1>3, <2>1, <2>3, InsertRowTyped DEF UploadInsert, TypeRest, volume, history
<1>4. CASE UploadRead
  <2>1. up.file \in FileId
    BY <1>4 DEF UploadRead, UploadWf, HoldingFile
  <2>2. files[up.file].status \in FileStatus \cup {"absent"}
    BY <2>1 DEF TypeRest, Row
  <2>3. up' \in Upload
    BY <1>4, <2>2, StartTypes DEF UploadRead, TypeRest, Upload, UploadPc
  <2> QED
    BY <1>4, <2>3 DEF UploadRead, TypeRest, server, volume, history
<1>5. CASE UploadPath
  <2>1. up.file \in FileId /\ up.file \in Path
    BY <1>5 DEF UploadPath, UploadWf, HoldingFile, FileId, Path
  <2>2. up' \in Upload /\ up.status \in FileStatus \cup {"absent"}
    BY <1>5 DEF UploadPath, TypeRest, Upload, UploadPc
  <2> QED
    BY <1>5, <2>1, <2>2, SetRowTyped DEF UploadPath, TypeRest, volume, history
<1>6. CASE UploadBlob
  <2>1. up.file \in FileId
    BY <1>6 DEF UploadBlob, UploadWf, HoldingFile
  <2>2. up' \in Upload
    BY <1>6, StartTypes DEF UploadBlob, TypeRest, Upload, UploadPc
  <2>3. blobs' \subseteq Blob
    BY <1>1, <1>6, <2>1 DEF UploadBlob, TypeRest, Blob
  <2> QED
    BY <1>6, <2>2, <2>3 DEF UploadBlob, TypeRest, volume, history
<1>7. CASE UploadJob
  BY <1>7, StartTypes DEF UploadJob, TypeRest, volume, history
<1> QED
  BY <1>2, <1>3, <1>4, <1>5, <1>6, <1>7 DEF UploadStep

\* The jobs that the agent and the handlers hold are in the table.
JobsTyped == /\ Len(jobs) \in Nat /\ Len(jobs) <= MaxJob
             /\ \A j \in 1..Len(jobs) : jobs[j] \in Job

LEMMA HandlerStepTyped ==
  ASSUME TypeRest, JobsTyped, HandlersWf, NEW t \in Thread, HandlerStep(t)
  PROVE  TypeRest'
<1>1. threads[t] \in Handler /\ threads \in [Thread -> Handler]
  BY DEF TypeRest
<1>2. /\ "active" \in FileStatus /\ "error" \in FileStatus
      /\ MaxFile \in Nat /\ MaxJob \in Nat
  BY BoundAssumption DEF FileStatus
<1>3. ASSUME NEW pc \in AgentPc, Respond(t, pc)
      PROVE  agent' \in Agent
  BY <1>3, StartTypes DEF Respond, TypeRest, Agent
<1>4. Done(t) => threads' \in [Thread -> Handler]
  BY <1>1, StartTypes DEF Done, Goto
<1>5. CASE DeleteQueueJob(t)
  BY <1>1, <1>5
     DEF DeleteQueueJob, Goto, TypeRest, Handler, HandlerPc, volume, history
<1>6. CASE DeleteListBlobs(t)
  <2>1. {b.temp : b \in BlobsOf(threads[t].file)} \subseteq TempName
    BY DEF BlobsOf, TypeRest, Blob
  <2>2. threads' \in [Thread -> Handler]
    BY <1>1, <1>6, <2>1 DEF DeleteListBlobs, Goto, Handler, HandlerPc
  <2> QED
    BY <1>6, <2>2 DEF DeleteListBlobs, TypeRest, server, volume, history
<1>7. CASE DeleteBlobs(t)
  <2>1. [threads[t] EXCEPT !.pc = "delete_row", !.temps = {}] \in Handler
    BY <1>1 DEF Handler, HandlerPc
  <2>2. threads' \in [Thread -> Handler]
    BY <1>1, <1>7, <2>1 DEF DeleteBlobs, Goto
  <2> QED
    BY <1>7, <2>2 DEF DeleteBlobs, TypeRest, volume, history
<1>8. CASE DeleteRow(t)
  <2>1. threads[t].file \in FileId /\ threads[t].rel \in Path
    BY <1>1, <1>8 DEF DeleteRow, HandlersWf, HandlerWf, Deleting, Downloading, Handler
  <2>2. NoRow \in Row
    BY <1>2 DEF Row, NoRow, Path
  <2>3. {threads[t].rel} \ {0} \subseteq FileId
    BY <1>2, <2>1 DEF Path, FileId
  <2>4. files' \in [FileId -> Row]
    BY <1>8, <2>1, <2>2 DEF DeleteRow, TypeRest
  <2>5. removed' \subseteq FileId
    BY <1>8, <2>3 DEF DeleteRow, TypeRest
  <2> QED
    BY <1>4, <1>8, <2>4, <2>5 DEF DeleteRow, TypeRest, volume
<1>9. CASE DownloadMark(t) \/ DownloadQueueJob(t)
  <2>1. CASE DownloadMark(t)
    <3>1. threads[t].file \in FileId /\ "pending_download" \in FileStatus
      BY <2>1 DEF DownloadMark, HandlersWf, HandlerWf, Downloading, FileStatus
    <3>2. [threads[t] EXCEPT !.pc = "download_queue"] \in Handler
      BY <1>1 DEF Handler, HandlerPc
    <3>3. threads' \in [Thread -> Handler]
      BY <1>1, <2>1, <3>2 DEF DownloadMark, Goto
    <3> QED
      BY <2>1, <3>1, <3>3, SetStatusTyped DEF DownloadMark, TypeRest, volume, history
  <2>2. CASE DownloadQueueJob(t)
    BY <1>4, <2>2 DEF DownloadQueueJob, TypeRest, volume, history
  <2> QED
    BY <1>9, <2>1, <2>2
<1>10. CASE EditWrite(t)
  <2>1. /\ threads[t].file \in FileId /\ threads[t].rel \in Path
        /\ threads[t].status \in FileStatus \cup {"absent"}
    BY <1>1, <1>10 DEF EditWrite, HandlersWf, HandlerWf, Handler
  <2> QED
    BY <1>4, <1>10, <2>1, SetRowTyped DEF EditWrite, TypeRest, volume
<1>11. CASE BeatRead(t)
  <2>1. "fetch" \in AgentPc
    BY DEF AgentPc
  <2>2. ASSUME NEW r \in threads[t].todo, NEW f \in 0..MaxFile,
               Goto(t, [threads[t] EXCEPT !.pc = "beat_write", !.rel = r,
                                          !.file = f, !.todo = @ \ {r}])
        PROVE  threads' \in [Thread -> Handler]
    <3>1. r \in Path /\ threads[t].todo \ {r} \in SUBSET FileId
      BY <1>1, <1>2, <2>2 DEF Handler, FileId, Path
    <3>2. [threads[t] EXCEPT !.pc = "beat_write", !.rel = r, !.file = f,
                             !.todo = @ \ {r}] \in Handler
      BY <1>1, <3>1 DEF Handler, HandlerPc
    <3> QED
      BY <1>1, <2>2, <3>2 DEF Goto
  <2>3. threads' \in [Thread -> Handler] /\ agent' \in Agent
    BY <1>3, <1>4, <1>11, <2>1, <2>2 DEF BeatRead, TypeRest
  <2> QED
    BY <1>11, <2>3 DEF BeatRead, TypeRest, server, volume, history
<1>12. CASE BeatWrite(t)
  <2>1. threads[t].todo \subseteq FileId /\ threads[t].rel \in Path
    BY <1>1 DEF Handler
  <2>2. [Idle EXCEPT !.pc = "beat_read", !.todo = threads[t].todo] \in Handler
    BY <2>1, StartTypes DEF Handler, HandlerPc
  <2>3. /\ threads' \in [Thread -> Handler]
        /\ agent' \in Agent
    BY <1>1, <1>3, <1>4, <1>12, <2>2 DEF BeatWrite, Goto, TypeRest, AgentPc
  <2>4. threads[t].file # 0 => threads[t].file \in FileId
    BY <1>1, <1>2 DEF Handler, FileId
  <2>5. files' \in [FileId -> Row] /\ nextFile' \in 1..(MaxFile + 1)
    BY <1>2, <1>12, <2>1, <2>4, InsertRowTyped, SetStatusTyped
       DEF BeatWrite, TypeRest
  <2> QED
    BY <1>12, <2>3, <2>5 DEF BeatWrite, TypeRest, volume, history
<1>13. CASE FetchSelect(t)
  <2>1. "beat" \in AgentPc
    BY DEF AgentPc
  <2>2. ASSUME NEW j \in 1..Len(jobs),
               Goto(t, [Idle EXCEPT !.pc = "fetch_take", !.job = j])
        PROVE  threads' \in [Thread -> Handler]
    <3>1. j \in 0..MaxJob
      BY <1>2 DEF JobsTyped
    <3> QED
      BY <1>1, <2>2, <3>1, StartTypes DEF Goto, Handler, HandlerPc
  <2>3. threads' \in [Thread -> Handler] /\ agent' \in Agent
    BY <1>3, <1>4, <1>13, <2>1, <2>2 DEF FetchSelect, TypeRest
  <2> QED
    BY <1>13, <2>3 DEF FetchSelect, TypeRest, server, volume, history
<1>14. CASE FetchTake(t)
  <2>1. threads[t].job \in 1..Len(jobs) /\ threads[t].job \in 0..MaxJob
    BY <1>2, <1>14 DEF FetchTake, HandlersWf, HandlerWf, JobsTyped
  <2>2. jobs[threads[t].job].type \in JobType
    BY <2>1 DEF JobsTyped, Job
  <2>3. FirstStep(jobs[threads[t].job].type) \in AgentPc
    BY <2>2 DEF FirstStep, JobType, AgentPc
  <2>4. agent' \in Agent /\ last' \in 0..MaxJob
    BY <1>14, <2>1, <2>3 DEF FetchTake, TypeRest, Agent
  <2> QED
    BY <1>4, <1>14, <2>4 DEF FetchTake, TypeRest, volume
<1>15. CASE CompleteJob(t)
  BY <1>1, <1>15 DEF CompleteJob, Goto, TypeRest, Handler, HandlerPc, volume, history
<1>16. CASE CompleteBlob(t)
  <2>1. Consumed(jobs[threads[t].job].temp) \subseteq Blob
    BY DEF Consumed, TypeRest, Blob
  <2>2. threads' \in [Thread -> Handler]
    BY <1>1, <1>16 DEF CompleteBlob, Goto, Handler, HandlerPc
  <2> QED
    BY <1>16, <2>1, <2>2 DEF CompleteBlob, TypeRest, volume, history
<1>17. CASE CompleteStatus(t)
  <2>1. jobs[threads[t].job].file \in FileId
    BY <1>17 DEF CompleteStatus, HandlersWf, HandlerWf, Completing, JobsTyped, Job
  <2>2. files' \in [FileId -> Row]
    BY <1>2, <1>17, <2>1, SetStatusTyped DEF CompleteStatus, TypeRest
  <2>3. agent' \in Agent
    BY <1>3, <1>17 DEF CompleteStatus, AgentPc
  <2> QED
    BY <1>4, <1>17, <2>2, <2>3 DEF CompleteStatus, TypeRest, volume, history
<1> QED
  BY <1>5, <1>6, <1>7, <1>8, <1>9, <1>10, <1>11, <1>12, <1>13, <1>14, <1>15, <1>16,
     <1>17 DEF HandlerStep

\* The agent alone, with or without the answer of upload-result.
LEMMA AgentAloneTyped ==
  ASSUME TypeRest, JobsTyped, AgentWf,
         \/ GetBlob \/ WriteBlob \/ ListFile \/ UnlinkFile \/ UnlistFile
         \/ PushFile \/ ResultLost
  PROVE  TypeRest'
<1>1. agent.job \in 1..Len(jobs) /\ agent.job \in JobId
  <2>1. agent.pc \in WithJob
    BY DEF GetBlob, WriteBlob, ListFile, UnlinkFile, UnlistFile, PushFile,
           ResultLost, WithJob
  <2>2. agent.job = last /\ last >= 1 /\ last <= Len(jobs)
    BY <2>1 DEF AgentWf
  <2> QED
    BY <2>2, BoundAssumption DEF JobsTyped, TypeRest, JobId
<1>2. CurrentJob.rel \in FileId /\ CurrentJob.file \in FileId
  BY <1>1 DEF CurrentJob, JobsTyped, Job
<1>3. \A ok \in BOOLEAN : Report(ok) => agent' \in Agent
  BY DEF Report, TypeRest, Agent, AgentPc
<1>4. CASE GetBlob \/ WriteBlob
  <2>1. agent' \in Agent
    <3>1. GetBlob => agent' \in Agent
      BY <1>3 DEF GetBlob, TypeRest, Agent, AgentPc
    <3>2. WriteBlob => agent' \in Agent
      BY DEF WriteBlob, TypeRest, Agent, AgentPc
    <3> QED BY <1>4, <3>1, <3>2
  <2>2. CASE GetBlob
    BY <1>2, <2>1, <2>2 DEF GetBlob, AgentOnly, TypeRest, server
  <2>3. CASE WriteBlob
    BY <1>2, <2>1, <2>3 DEF WriteBlob, AgentOnly, TypeRest, server
  <2> QED BY <1>4, <2>2, <2>3
<1>5. CASE ListFile \/ UnlistFile
  BY <1>2, <1>3, <1>5 DEF ListFile, UnlistFile, Listed, AgentOnly, TypeRest, server
<1>6. CASE UnlinkFile
  <2>1. agent' \in Agent
    BY <1>6 DEF UnlinkFile, TypeRest, Agent, AgentPc
  <2> QED
    BY <1>1, <1>2, <1>6, <2>1 DEF UnlinkFile, AgentOnly, TypeRest, server
<1>7. CASE PushFile \/ ResultLost
  <2>1. DownloadTemp \in TempName
    BY <1>1 DEF DownloadTemp, TempName
  <2>2. StoreResult => temps' \subseteq TempName /\ blobs' \subseteq Blob
    BY <1>2, <2>1 DEF StoreResult, TypeRest, Blob
  <2>3. CASE PushFile
    BY <1>3, <2>2, <2>3
       DEF PushFile, Present, TypeRest, volume, history
  <2>4. CASE ResultLost
    BY <2>2, <2>4, StartTypes, SpendTyped
       DEF ResultLost, Loop, Kind, TypeRest, volume, history
  <2> QED
    BY <1>7, <2>3, <2>4
<1> QED
  BY <1>4, <1>5, <1>6, <1>7

LEMMA SendTyped ==
  ASSUME TypeRest, JobsTyped, NEW t \in Thread,
         SendHeartbeat(t) \/ SendFetch(t) \/ SendReport(t)
  PROVE  TypeRest'
<1>1. agent \in Agent /\ t \in Thread \cup {NoThread}
  BY DEF TypeRest
<1>2. CASE SendHeartbeat(t)
  <2>1. Listed \subseteq FileId
    BY DEF Listed, TypeRest
  <2>2. threads' \in [Thread -> Handler] /\ agent' \in Agent
    BY <1>1, <1>2, <2>1, StartTypes
       DEF SendHeartbeat, Goto, TypeRest, Handler, HandlerPc, Agent, AgentPc
  <2> QED
    BY <1>2, <2>1, <2>2 DEF SendHeartbeat, TypeRest, server, history
<1>3. CASE SendFetch(t)
  <2>1. threads' \in [Thread -> Handler] /\ agent' \in Agent
    BY <1>1, <1>3, StartTypes
       DEF SendFetch, Goto, TypeRest, Handler, HandlerPc, Agent, AgentPc
  <2> QED
    BY <1>3, <2>1 DEF SendFetch, TypeRest, server, volume, history
<1>4. CASE SendReport(t)
  <2>1. threads' \in [Thread -> Handler] /\ agent' \in Agent
    BY <1>1, <1>4, StartTypes
       DEF SendReport, Goto, TypeRest, Handler, HandlerPc, Agent, AgentPc
  <2> QED
    BY <1>4, <2>1 DEF SendReport, TypeRest, server, volume, history
<1> QED
  BY <1>2, <1>3, <1>4

LEMMA FaultTyped ==
  ASSUME TypeRest, JobsTyped, AgentWf, Fault
  PROVE  TypeRest'
<1>1. \A kind \in Kind : Spend(kind) => /\ used' \in [Kind -> Nat]
                                       /\ \A k \in Kind : used'[k] <= Limit[k]
  BY SpendTyped
<1>2. Loop => agent' \in Agent
  BY StartTypes DEF Loop
<1>3. CASE ResultLost
  BY <1>3, AgentAloneTyped
<1>4. CASE TransferRefused
  <2>1. agent' \in Agent
    BY <1>4 DEF TransferRefused, Report, TypeRest, Agent, AgentPc
  <2> QED
    BY <1>1, <1>4, <2>1 DEF TransferRefused, Kind, TypeRest, server, volume, history
<1>5. CASE AgentTimeout \/ RequestLost \/ StreamBroken \/ AgentCrash
  BY <1>1, <1>2, <1>5
     DEF AgentTimeout, RequestLost, StreamBroken, AgentCrash, Kind, TypeRest,
         server, volume, history
<1>6. CASE MetaTorn
  BY <1>1, <1>2, <1>6 DEF MetaTorn, Kind, TypeRest, server, history
<1>7. CASE ServerRestart
  <2>1. agent' \in Agent
    BY <1>2, <1>7 DEF ServerRestart, TypeRest
  <2>2. threads' \in [Thread -> Handler] /\ up' \in Upload
    BY <1>7, StartTypes DEF ServerRestart
  <2> QED
    BY <1>1, <1>7, <2>1, <2>2 DEF ServerRestart, Kind, TypeRest, server, volume, history
<1> QED
  BY <1>3, <1>4, <1>5, <1>6, <1>7 DEF Fault

LEMMA TypeStep ==
  ASSUME TypeOK, HandlersWf, UploadWf, AgentWf, [Next]_vars
  PROVE  TypeOK'
<1>1. jobs' \in Seq(Job) /\ Len(jobs') <= MaxJob
  BY JobsOnlyGrow
<1>2. TypeRest /\ JobsTyped
  BY LenProperties, ElementOfSeq DEF TypeOK, TypeRest, JobsTyped
<1>3. TypeRest'
  <2>1. CASE UNCHANGED vars
    BY <1>2, <2>1 DEF vars, server, volume, history, TypeRest
  <2> QED
    BY <1>2, <2>1, UserRequestTyped, UploadStepTyped, HandlerStepTyped,
       AgentAloneTyped, SendTyped, FaultTyped DEF Next, AgentStep
<1> QED
  BY <1>1, <1>3 DEF TypeOK, TypeRest
-----------------------------------------------------------------------------
(* Places: what handlers, the upload handler and the agent hold exists *)

\* The facts about jobs that survive every step, in terms of sets.
LEMMA JobSetsGrow ==
  ASSUME TypeOK, HandlersWf, UploadWf, [Next]_vars
  PROVE  /\ 1..Len(jobs) \subseteq 1..Len(jobs')
         /\ StoreJobs \subseteq StoreJobs'
         /\ DeleteJobs \subseteq DeleteJobs'
         /\ StoreJobs' \cap 1..Len(jobs) = StoreJobs
         /\ DeleteJobs' \cap 1..Len(jobs) = DeleteJobs
<1>1. Len(jobs) \in Nat
  BY LenProperties DEF TypeOK
<1>2. 1..Len(jobs) \subseteq 1..Len(jobs')
  BY <1>1, JobsOnlyGrow
<1> QED
  BY <1>2, JobsOnlyGrow DEF StoreJobs, DeleteJobs

LEMMA HandlersWfStep ==
  ASSUME TypeOK, HandlersWf, UploadWf, AgentWf, [Next]_vars
  PROVE  HandlersWf'
<1>1. /\ 1..Len(jobs) \subseteq 1..Len(jobs') /\ StoreJobs \subseteq StoreJobs'
      /\ threads \in [Thread -> Handler]
  BY JobSetsGrow DEF TypeOK
<1>2. ASSUME NEW t \in Thread, threads'[t] = threads[t]
      PROVE  HandlerWf(threads[t])'
  BY <1>1, <1>2 DEF HandlersWf, HandlerWf
<1>3. ASSUME NEW t \in Thread, NEW h, Goto(t, h),
             threads'[t] = h => HandlerWf(threads[t])'
      PROVE  HandlersWf'
  BY <1>1, <1>2, <1>3 DEF Goto, HandlersWf
<1>4. ASSUME NEW t \in Thread, Done(t) PROVE HandlersWf'
  BY <1>3, <1>4 DEF Done, Idle, HandlerWf, Deleting, Downloading, Completing
<1>5. ASSUME NEW t \in Thread, NEW f \in FileId, DeleteRead(t, f)
      PROVE  HandlersWf'
  <2>1. Stored(f) => files[f].rel \in FileId
    BY BoundAssumption DEF Stored, TypeOK, Row, Path, FileId
  <2>2. ASSUME NEW rel, NEW pc \in {"delete_queue", "delete_list"},
               Goto(t, [Idle EXCEPT !.pc = pc, !.file = f, !.rel = rel]),
               pc = "delete_queue" => rel \in FileId
        PROVE  HandlersWf'
    BY <1>3, <2>2 DEF Idle, HandlerWf, Deleting, Downloading, Completing
  <2> QED
    BY <1>5, <2>1, <2>2 DEF DeleteRead
<1>6. ASSUME NEW t \in Thread, NEW f \in FileId, NEW proxied \in BOOLEAN,
             DownloadRead(t, f, proxied)
      PROVE  HandlersWf'
  <2>1. files[f].rel \in FileId
    BY <1>6, BoundAssumption DEF DownloadRead, Stored, TypeOK, Row, Path, FileId
  <2> QED
    BY <1>3, <1>6, <2>1 DEF DownloadRead, Idle, HandlerWf, Deleting, Downloading, Completing
<1>7. ASSUME NEW t \in Thread, NEW f \in FileId, NEW s, EditRead(t, f, s)
      PROVE  HandlersWf'
  BY <1>3, <1>7 DEF EditRead, Idle, HandlerWf, Deleting, Downloading, Completing
<1>8. ASSUME NEW t \in Thread, HandlerStep(t) PROVE HandlersWf'
  <2>1. threads[t] \in Handler /\ HandlerWf(threads[t])
    BY <1>1 DEF HandlersWf
  <2>2. CASE DeleteQueueJob(t) \/ DeleteListBlobs(t) \/ DeleteBlobs(t)
             \/ DownloadMark(t)
    BY <1>3, <2>1, <2>2
       DEF DownloadMark, DeleteQueueJob, DeleteListBlobs, DeleteBlobs, Handler, HandlerWf,
           Deleting, Downloading, Completing
  <2>3. CASE DeleteRow(t) \/ DownloadQueueJob(t) \/ EditWrite(t) \/ FetchTake(t)
             \/ CompleteStatus(t)
    BY <1>4, <2>3 DEF DeleteRow, DownloadQueueJob, EditWrite, FetchTake, CompleteStatus
  <2>4. CASE BeatRead(t)
    <3>1. ASSUME NEW r \in threads[t].todo, NEW f \in 0..MaxFile,
                 Goto(t, [threads[t] EXCEPT !.pc = "beat_write", !.rel = r,
                                            !.file = f, !.todo = @ \ {r}])
          PROVE  HandlersWf'
      BY <1>3, <2>1, <3>1 DEF Handler, HandlerWf, Deleting, Downloading, Completing
    <3> QED
      BY <1>4, <2>4, <3>1 DEF BeatRead
  <2>5. CASE BeatWrite(t)
    BY <1>3, <1>4, <2>5 DEF BeatWrite, Idle, HandlerWf, Deleting, Downloading, Completing
  <2>6. CASE FetchSelect(t)
    <3>1. ASSUME NEW j \in 1..Len(jobs),
                 Goto(t, [Idle EXCEPT !.pc = "fetch_take", !.job = j])
          PROVE  HandlersWf'
      BY <1>1, <1>3, <3>1 DEF Idle, HandlerWf, Deleting, Downloading, Completing
    <3> QED
      BY <1>4, <2>6, <3>1 DEF FetchSelect
  <2>7. CASE CompleteJob(t)
    <3>1. threads[t].job \in 1..Len(jobs)
      BY <2>1, <2>7 DEF CompleteJob, HandlerWf, Completing
    <3>2. jobs[threads[t].job].type = "store_file" => threads[t].job \in StoreJobs
      BY <3>1 DEF StoreJobs
    <3> QED
      BY <1>1, <1>3, <2>1, <2>7, <3>1, <3>2
         DEF CompleteJob, Handler, HandlerWf, Deleting, Downloading, Completing
  <2>8. CASE CompleteBlob(t)
    <3>1. threads[t].job \in 1..Len(jobs)
      BY <2>1, <2>8 DEF CompleteBlob, HandlerWf, Completing
    <3> QED
      BY <1>1, <1>3, <2>1, <2>8, <3>1
         DEF CompleteBlob, Handler, HandlerWf, Deleting, Downloading, Completing
  <2> QED
    BY <1>8, <2>2, <2>3, <2>4, <2>5, <2>6, <2>7, <2>8 DEF HandlerStep
<1>9. ASSUME NEW t \in Thread, SendHeartbeat(t) \/ SendFetch(t) \/ SendReport(t)
      PROVE  HandlersWf'
  <2>1. CASE SendHeartbeat(t) \/ SendFetch(t)
    <3>1. SendHeartbeat(t) => HandlersWf'
      <4>1. ASSUME NEW s, Goto(t, [Idle EXCEPT !.pc = "beat_read", !.todo = s])
            PROVE  HandlersWf'
        BY <1>3, <4>1 DEF Idle, HandlerWf, Deleting, Downloading, Completing
      <4> QED BY <4>1 DEF SendHeartbeat
    <3>2. SendFetch(t) => HandlersWf'
      BY <1>3 DEF SendFetch, Idle, HandlerWf, Deleting, Downloading, Completing
    <3> QED BY <2>1, <3>1, <3>2
  <2>2. CASE SendReport(t)
    <3>1. agent.job \in 1..Len(jobs')
      <4>1. agent.job = last /\ last >= 1 /\ last <= Len(jobs)
        BY <2>2 DEF SendReport, AgentWf, WithJob
      <4>2. last \in 1..Len(jobs)
        BY <4>1, BoundAssumption, LenProperties DEF TypeOK
      <4> QED
        BY <1>1, <4>1, <4>2
    <3> QED
      BY <1>3, <2>2, <3>1 DEF SendReport, Idle, HandlerWf, Deleting, Downloading, Completing
  <2> QED
    BY <1>9, <2>1, <2>2
<1>10. CASE ServerRestart
  BY <1>10 DEF ServerRestart, HandlersWf, HandlerWf, Idle, Deleting, Downloading, Completing
<1>11. CASE UNCHANGED threads
  BY <1>2, <1>11 DEF HandlersWf
<1> QED
  BY <1>5, <1>6, <1>7, <1>8, <1>9, <1>10, <1>11
     DEF Next, vars, server, UserRequest, CreateRecord, UploadReceive, UploadStep,
         UploadRefuse, UploadInsert, UploadRead, UploadPath, UploadBlob, UploadJob,
         AgentStep, GetBlob, WriteBlob, ListFile, PushFile, UnlinkFile, UnlistFile,
         AgentOnly, Fault, AgentTimeout, RequestLost, ResultLost, TransferRefused,
         StreamBroken, AgentCrash, MetaTorn

LEMMA UploadWfStep ==
  ASSUME TypeOK, HandlersWf, UploadWf, AgentWf, [Next]_vars
  PROVE  UploadWf'
<1>1. /\ up \in Upload /\ nextFile \in Nat /\ MaxFile \in Nat
      /\ used \in [Kind -> Nat] /\ "upload" \in Kind
  BY BoundAssumption DEF TypeOK, Kind
<1>2. CASE UploadReceive
  <2>1. used'["upload"] >= 1
    <3>1. used'["upload"] = used["upload"] + 1 /\ used["upload"] \in Nat
      BY <1>1, <1>2 DEF UploadReceive, Spend
    <3> QED
      BY <3>1
  <2>2. up'.pc = "insert"
    BY <1>2 DEF UploadReceive, NoUpload
  <2> QED
    BY <2>1, <2>2 DEF UploadWf, HoldingFile
<1>3. CASE UploadInsert
  <2>1. /\ up'.pc = "read" /\ up'.file = nextFile /\ nextFile <= MaxFile
        /\ nextFile' = nextFile + 1 /\ UNCHANGED used /\ up.pc # "idle"
    BY <1>1, <1>3 DEF UploadInsert, InsertRow, Upload
  <2>2. nextFile \in FileId
    BY <2>1, <1>1 DEF TypeOK, FileId
  <2>3. nextFile < nextFile'
    BY <1>1, <2>1
  <2> QED
    BY <2>1, <2>2, <2>3 DEF UploadWf
<1>4. CASE UploadRefuse \/ UploadRead \/ UploadPath \/ UploadBlob \/ UploadJob
           \/ ServerRestart
  <2>1. NoUpload.pc = "idle"
    BY DEF NoUpload
  <2>2. UNCHANGED nextFile /\ (UNCHANGED used \/ up'.pc = "idle")
    <3>1. CASE UploadRefuse \/ UploadJob \/ ServerRestart
      BY <2>1, <3>1 DEF UploadRefuse, UploadJob, ServerRestart, server
    <3>2. CASE UploadRead \/ UploadPath \/ UploadBlob
      BY <3>2 DEF UploadRead, UploadPath, UploadBlob, server
    <3> QED
      BY <1>4, <3>1, <3>2
  <2>3. \/ up'.pc = "idle"
        \/ up.pc \in HoldingFile /\ up'.file = up.file
    <3>1. CASE UploadRefuse \/ UploadJob \/ ServerRestart
      BY <2>1, <3>1 DEF UploadRefuse, UploadJob, ServerRestart
    <3>2. CASE UploadRead
      BY <1>1, <2>1, <3>2 DEF UploadRead, Upload, HoldingFile
    <3>3. CASE UploadPath \/ UploadBlob
      BY <1>1, <2>1, <3>3 DEF UploadPath, UploadBlob, Upload, HoldingFile
    <3> QED
      BY <1>4, <3>1, <3>2, <3>3
  <2> QED
    BY <2>2, <2>3 DEF UploadWf, HoldingFile
<1>5. CASE /\ UNCHANGED up /\ nextFile' >= nextFile /\ nextFile' \in Nat
           /\ used'["upload"] >= used["upload"]
  <2>1. used'["upload"] \in Nat
    BY <1>1, TypeStep DEF TypeOK
  <2>2. up.pc # "idle" => used'["upload"] >= 1
    BY <1>1, <1>5, <2>1 DEF UploadWf
  <2>3. up.pc \in HoldingFile => up.file < nextFile'
    BY <1>1, <1>5, BoundAssumption DEF UploadWf, FileId
  <2> QED
    BY <1>5, <2>2, <2>3 DEF UploadWf
<1>6. ASSUME NEW kind \in Kind, Spend(kind) PROVE used'["upload"] >= used["upload"]
  BY <1>1, <1>6 DEF Spend
<1>7. /\ UNCHANGED nextFile => nextFile' >= nextFile /\ nextFile' \in Nat
      /\ UNCHANGED used => used'["upload"] >= used["upload"]
      /\ nextFile' = nextFile + 1 => nextFile' >= nextFile /\ nextFile' \in Nat
  BY <1>1
<1>8. ASSUME UNCHANGED up,
             UNCHANGED nextFile \/ nextFile' = nextFile + 1,
             UNCHANGED used \/ \E kind \in Kind : Spend(kind)
      PROVE  UploadWf'
  BY <1>5, <1>6, <1>7, <1>8
<1>9. CASE CreateRecord \/ (\E t \in Thread : BeatWrite(t)) \/ UNCHANGED vars
  BY <1>8, <1>9 DEF CreateRecord, BeatWrite, InsertRow, Kind, vars, server
<1>10. ASSUME UserRequest, ~CreateRecord, ~UploadReceive PROVE UploadWf'
  BY <1>8, <1>10 DEF UserRequest, DeleteRead, DownloadRead, EditRead, Kind, server
<1>11. CASE AgentStep
  BY <1>8, <1>11
     DEF AgentStep, SendHeartbeat, SendFetch, SendReport, GetBlob, WriteBlob,
         ListFile, PushFile, UnlinkFile, UnlistFile, AgentOnly, server
<1>12. ASSUME NEW t \in Thread, HandlerStep(t), ~BeatWrite(t) PROVE UploadWf'
  BY <1>8, <1>12
     DEF HandlerStep, DeleteQueueJob, DeleteListBlobs, DeleteBlobs, DeleteRow,
         DownloadMark, DownloadQueueJob, EditWrite, BeatRead, FetchSelect, FetchTake,
         CompleteJob, CompleteBlob, CompleteStatus, server
<1>13. ASSUME Fault, ~ServerRestart PROVE UploadWf'
  BY <1>8, <1>13
     DEF Fault, AgentTimeout, RequestLost, ResultLost, TransferRefused,
         StreamBroken, AgentCrash, MetaTorn, Kind, server
<1> QED
  BY <1>2, <1>3, <1>4, <1>9, <1>10, <1>11, <1>12, <1>13 DEF Next, UploadStep

LEMMA AgentWfStep ==
  ASSUME TypeOK, HandlersWf, UploadWf, AgentWf, [Next]_vars
  PROVE  AgentWf'
<1>1. /\ Len(jobs) \in Nat /\ Len(jobs') \in Nat /\ Len(jobs) <= Len(jobs')
      /\ last \in Nat /\ agent \in Agent /\ last <= Len(jobs)
      /\ \A i \in 1..Len(jobs) : jobs'[i].type = jobs[i].type
  BY JobsOnlyGrow, LenProperties, BoundAssumption DEF TypeOK, AgentWf
<1>2. last >= 1 => last \in 1..Len(jobs)
  BY <1>1
<1>3. CASE UNCHANGED <<agent, last>>
  BY <1>1, <1>2, <1>3 DEF AgentWf, WithJob
<1>4. ASSUME UNCHANGED last, agent'.pc \notin WithJob PROVE AgentWf'
  BY <1>1, <1>4 DEF AgentWf, WithJob
<1>5. ASSUME UNCHANGED last, Loop PROVE AgentWf'
  BY <1>4, <1>5 DEF Loop, AgentStart, WithJob
<1>6. ASSUME NEW t \in Thread, NEW pc \in {"fetch", "beat"}, UNCHANGED last,
             Respond(t, pc)
      PROVE  AgentWf'
  BY <1>3, <1>4, <1>6 DEF Respond, AgentStart, WithJob
<1>7. CASE \E ok \in BOOLEAN : Report(ok) /\ UNCHANGED last /\ agent.pc \in WithJob
  BY <1>1, <1>7 DEF Report, Agent, AgentWf, WithJob
<1>8. ASSUME NEW t \in Thread, HandlerStep(t) PROVE AgentWf'
  <2>1. CASE FetchTake(t)
    <3>1. /\ threads[t].job \in 1..Len(jobs)
          /\ jobs[threads[t].job] \in Job
      BY <2>1, ElementOfSeq DEF FetchTake, HandlersWf, HandlerWf, TypeOK
    <3>2. CASE agent.slot = t
      <4>1. /\ last' = threads[t].job /\ agent'.job = last'
            /\ agent'.pc = FirstStep(jobs[last'].type)
        BY <1>1, <2>1, <3>2 DEF FetchTake, Agent
      <4>2. /\ last' <= Len(jobs') /\ last' >= 1
            /\ jobs'[last'].type = jobs[last'].type
            /\ jobs[last'].type \in JobType
        BY <1>1, <3>1, <4>1 DEF Job
      <4> QED
        BY <4>1, <4>2 DEF AgentWf, WithJob, FirstStep, JobType
    <3>3. CASE agent.slot # t
      BY <1>3, <2>1, <3>3 DEF FetchTake
    <3> QED
      BY <3>2, <3>3
  <2>2. CASE BeatRead(t) \/ BeatWrite(t) \/ FetchSelect(t) \/ CompleteStatus(t)
    BY <1>3, <1>6, <2>2 DEF BeatRead, BeatWrite, FetchSelect, CompleteStatus, history
  <2> QED
    BY <1>3, <1>8, <2>1, <2>2
       DEF HandlerStep, DeleteQueueJob, DeleteListBlobs, DeleteBlobs, DeleteRow,
           DownloadMark, DownloadQueueJob, EditWrite, CompleteJob, CompleteBlob, history
<1>9. CASE \E t \in Thread : SendHeartbeat(t) \/ SendFetch(t)
  BY <1>1, <1>4, <1>9 DEF SendHeartbeat, SendFetch, history, Agent, WithJob
<1>10. CASE \E t \in Thread : SendReport(t)
  BY <1>1, <1>10 DEF SendReport, history, Agent, AgentWf, WithJob
<1>11. CASE GetBlob \/ WriteBlob \/ ListFile \/ PushFile \/ UnlinkFile \/ UnlistFile
  <2>1. CASE GetBlob \/ ListFile \/ PushFile \/ UnlistFile
    <3>1. ASSUME agent.pc = "get", agent' = [agent EXCEPT !.pc = "write"],
                 UNCHANGED last
          PROVE  AgentWf'
      BY <1>1, <1>2, <3>1 DEF Agent, AgentWf, WithJob
    <3> QED
      BY <1>7, <2>1, <3>1
         DEF GetBlob, ListFile, PushFile, UnlistFile, WithJob, Present, history
  <2>2. CASE WriteBlob \/ UnlinkFile
    BY <1>1, <1>2, <2>2 DEF WriteBlob, UnlinkFile, Agent, AgentWf, WithJob
  <2> QED
    BY <1>11, <2>1, <2>2
<1>12. CASE TransferRefused
  BY <1>7, <1>12 DEF TransferRefused, WithJob, history
<1>13. ASSUME Fault, ~TransferRefused PROVE AgentWf'
  BY <1>3, <1>5, <1>13
     DEF Fault, AgentTimeout, RequestLost, ResultLost, StreamBroken, AgentCrash,
         MetaTorn, ServerRestart, history
<1>14. CASE UserRequest \/ UploadStep \/ UNCHANGED vars
  BY <1>3, <1>14
     DEF UserRequest, CreateRecord, UploadReceive, DeleteRead, DownloadRead,
         EditRead, UploadStep, UploadRefuse, UploadInsert, UploadRead, UploadPath,
         UploadBlob, UploadJob, vars, history
<1> QED
  BY <1>8, <1>9, <1>10, <1>11, <1>12, <1>13, <1>14 DEF Next, AgentStep

-----------------------------------------------------------------------------
(* Type correctness *)

\* The types alone are not inductive: a handler that held a job id outside
\* the table would write outside the table.
WfInv == TypeOK /\ HandlersWf /\ UploadWf /\ AgentWf

LEMMA WfInit == Init => WfInv
  BY TypeInit, EmptySeq, LenProperties
     DEF Init, WfInv, HandlersWf, HandlerWf, UploadWf, AgentWf, Idle, NoUpload,
         AgentStart, Deleting, Downloading, Completing, HoldingFile, WithJob

LEMMA WfStep == WfInv /\ [Next]_vars => WfInv'
  BY TypeStep, HandlersWfStep, UploadWfStep, AgentWfStep DEF WfInv

\* Every handler, the upload handler and the agent stay within the tables, the
\* paths and the budgets, whatever the number of threads, files and jobs.
THEOREM TypeCorrect == Spec => []TypeOK
<1>1. Spec => []WfInv
  BY WfInit, WfStep, PTL DEF Spec
<1>2. WfInv => TypeOK
  BY DEF WfInv
<1> QED
  BY <1>1, <1>2, PTL

-----------------------------------------------------------------------------
(* Effects: which step changes what *)

\* Only an upload adds a store_file job.
LEMMA NewStoreJob ==
  ASSUME WfInv, [Next]_vars, NEW j \in StoreJobs', j \notin StoreJobs
  PROVE  /\ UploadJob
         /\ j = Len(jobs) + 1 /\ Len(jobs') = Len(jobs) + 1
         /\ jobs'[j].file = up.file /\ jobs'[j].rel = up.file
         /\ jobs'[j].temp = UploadTemp
<1>1. /\ Len(jobs) \in Nat /\ TypeOK /\ HandlersWf /\ UploadWf
      /\ \A i \in 1..Len(jobs) : jobs'[i].type = jobs[i].type
  BY JobsOnlyGrow, LenProperties DEF WfInv, TypeOK
<1>2. j \in 1..Len(jobs') /\ jobs'[j].type = "store_file" /\ j \notin 1..Len(jobs)
  BY <1>1 DEF StoreJobs
<1>3. CASE UploadJob
  BY <1>1, <1>2, <1>3, UploadJobAppends
<1>4. ASSUME NEW t \in Thread, DeleteQueueJob(t) PROVE FALSE
  <2>1. Len(jobs') = Len(jobs) + 1 /\ jobs'[Len(jobs) + 1].type = "delete_file"
    BY <1>1, <1>4, DeleteQueueJobAppends
  <2> QED
    BY <1>1, <1>2, <2>1
<1>5. ASSUME NEW t \in Thread, DownloadQueueJob(t) PROVE FALSE
  <2>1. Len(jobs') = Len(jobs) + 1 /\ jobs'[Len(jobs) + 1].type = "collect_file"
    BY <1>1, <1>5, DownloadQueueJobAppends
  <2> QED
    BY <1>1, <1>2, <2>1
<1>6. ASSUME NEW t \in Thread, FetchTake(t) PROVE FALSE
  <2>1. Len(jobs') = Len(jobs)
    BY <1>1, <1>6, FetchTakeMarks
  <2> QED
    BY <1>2, <2>1
<1>7. ASSUME NEW t \in Thread, CompleteJob(t) PROVE FALSE
  <2>1. Len(jobs') = Len(jobs)
    BY <1>1, <1>7, CompleteJobMarks
  <2> QED
    BY <1>2, <2>1
<1> QED
  BY <1>2, <1>3, <1>4, <1>5, <1>6, <1>7, JobWriters

\* Only a deletion adds a delete_file job.
LEMMA NewDeleteJob ==
  ASSUME WfInv, [Next]_vars, NEW k \in DeleteJobs', k \notin DeleteJobs
  PROVE  /\ k = Len(jobs) + 1
         /\ \E t \in Thread : DeleteQueueJob(t) /\ jobs'[k].rel = threads[t].rel
<1>1. /\ Len(jobs) \in Nat /\ TypeOK /\ HandlersWf /\ UploadWf
      /\ \A i \in 1..Len(jobs) : jobs'[i].type = jobs[i].type
  BY JobsOnlyGrow, LenProperties DEF WfInv, TypeOK
<1>2. k \in 1..Len(jobs') /\ jobs'[k].type = "delete_file" /\ k \notin 1..Len(jobs)
  BY <1>1 DEF DeleteJobs
<1>3. CASE UploadJob
  BY <1>1, <1>2, <1>3, UploadJobAppends
<1>4. ASSUME NEW t \in Thread, DeleteQueueJob(t)
      PROVE  k = Len(jobs) + 1 /\ jobs'[k].rel = threads[t].rel
  <2>1. /\ Len(jobs') = Len(jobs) + 1
        /\ jobs'[Len(jobs) + 1].rel = threads[t].rel
    BY <1>1, <1>4, DeleteQueueJobAppends
  <2> QED
    BY <1>1, <1>2, <2>1
<1>5. ASSUME NEW t \in Thread, DownloadQueueJob(t) PROVE FALSE
  <2>1. Len(jobs') = Len(jobs) + 1 /\ jobs'[Len(jobs) + 1].type = "collect_file"
    BY <1>1, <1>5, DownloadQueueJobAppends
  <2> QED
    BY <1>1, <1>2, <2>1
<1>6. ASSUME NEW t \in Thread, FetchTake(t) PROVE FALSE
  <2>1. Len(jobs') = Len(jobs)
    BY <1>1, <1>6, FetchTakeMarks
  <2> QED
    BY <1>2, <2>1
<1>7. ASSUME NEW t \in Thread, CompleteJob(t) PROVE FALSE
  <2>1. Len(jobs') = Len(jobs)
    BY <1>1, <1>7, CompleteJobMarks
  <2> QED
    BY <1>2, <2>1
<1> QED
  BY <1>2, <1>3, <1>4, <1>5, <1>6, <1>7, JobWriters

\* Bytes on the volume change by the agent's work on its job.
LEMMA DiskEffect ==
  ASSUME WfInv, [Next]_vars, NEW r \in FileId, disk'[r] # disk[r]
  PROVE  /\ agent.job = last /\ last \in 1..Len(jobs) /\ r = jobs[last].rel
         /\ \/ /\ GetBlob /\ disk'[r] = "partial" /\ agent'.pc = "write"
               /\ jobs[last].temp \in {b.temp : b \in blobs} \cap temps
            \/ WriteBlob /\ disk'[r] = "full"
            \/ UnlinkFile /\ disk'[r] = "none"
<1>1. GetBlob \/ WriteBlob \/ UnlinkFile
  BY DEF Next, vars, volume, UserRequest, CreateRecord, UploadReceive, DeleteRead,
         DownloadRead, EditRead, UploadStep, UploadRefuse, UploadInsert,
         UploadRead, UploadPath, UploadBlob, UploadJob, AgentStep, SendHeartbeat,
         SendFetch, SendReport, ListFile, PushFile, UnlistFile, HandlerStep,
         DeleteQueueJob, DeleteListBlobs, DeleteBlobs, DeleteRow, DownloadMark,
         DownloadQueueJob, EditWrite, BeatRead, BeatWrite, FetchSelect, FetchTake,
         CompleteJob, CompleteBlob, CompleteStatus, Fault, AgentTimeout,
         RequestLost, ResultLost, TransferRefused, StreamBroken, AgentCrash,
         MetaTorn, ServerRestart
<1>2. agent.job = last /\ last \in 1..Len(jobs)
  <2>1. agent.pc \in WithJob
    BY <1>1 DEF GetBlob, WriteBlob, UnlinkFile, WithJob
  <2>2. agent.job = last /\ last >= 1 /\ last <= Len(jobs)
    BY <2>1 DEF WfInv, AgentWf
  <2> QED
    BY <2>2, BoundAssumption, LenProperties DEF WfInv, TypeOK
<1>3. agent \in Agent /\ disk \in [FileId -> {"none", "partial", "full"}]
  BY DEF WfInv, TypeOK
<1>4. CASE GetBlob
  <2>1. CurrentJob.temp \in {b.temp : b \in blobs} \cap temps
    BY <1>3, <1>4 DEF GetBlob
  <2> QED
    BY <1>2, <1>3, <1>4, <2>1 DEF GetBlob, CurrentJob, Agent
<1>5. CASE WriteBlob \/ UnlinkFile
  BY <1>2, <1>3, <1>5 DEF WriteBlob, UnlinkFile, CurrentJob
<1> QED
  BY <1>1, <1>4, <1>5

\* A job is handed out by the handler the agent waits for.
LEMMA LastEffect ==
  ASSUME WfInv, [Next]_vars, last' # last
  PROVE  \E t \in Thread : /\ FetchTake(t) /\ agent.slot = t
                           /\ last' = threads[t].job
                           /\ last' \in 1..Len(jobs)
<1>1. \E t \in Thread : FetchTake(t)
  BY DEF Next, vars, history, UserRequest, CreateRecord, UploadReceive, DeleteRead,
         DownloadRead, EditRead, UploadStep, UploadRefuse, UploadInsert,
         UploadRead, UploadPath, UploadBlob, UploadJob, AgentStep, SendHeartbeat,
         SendFetch, SendReport, GetBlob, WriteBlob, ListFile, PushFile, UnlinkFile,
         UnlistFile, HandlerStep, DeleteQueueJob, DeleteListBlobs, DeleteBlobs,
         DeleteRow, DownloadMark, DownloadQueueJob, EditWrite, BeatRead, BeatWrite,
         FetchSelect, CompleteJob, CompleteBlob, CompleteStatus, Fault,
         AgentTimeout, RequestLost, ResultLost, TransferRefused, StreamBroken,
         AgentCrash, MetaTorn, ServerRestart
<1>2. PICK t \in Thread : FetchTake(t)
  BY <1>1
<1>3. agent.slot = t /\ last' = threads[t].job
  BY <1>2 DEF FetchTake
<1>4. threads[t].job \in 1..Len(jobs)
  BY <1>2 DEF FetchTake, WfInv, HandlersWf, HandlerWf
<1> QED
  BY <1>2, <1>3, <1>4

\* Temporary files disappear with a deletion or with a completed upload.
LEMMA TempsEffect ==
  ASSUME [Next]_vars, NEW x \in temps, x \notin temps'
  PROVE  \E t \in Thread :
           \/ DeleteBlobs(t) /\ x \in threads[t].temps
           \/ CompleteBlob(t) /\ x = jobs[threads[t].job].temp
<1>1. \E t \in Thread : DeleteBlobs(t) \/ CompleteBlob(t)
  BY DEF Next, vars, server, UserRequest, CreateRecord, UploadReceive, DeleteRead,
         DownloadRead, EditRead, UploadStep, UploadRefuse, UploadInsert,
         UploadRead, UploadPath, UploadBlob, UploadJob, AgentStep, SendHeartbeat,
         SendFetch, SendReport, GetBlob, WriteBlob, ListFile, PushFile, UnlinkFile,
         UnlistFile, AgentOnly, HandlerStep, DeleteQueueJob, DeleteListBlobs,
         DeleteRow, DownloadMark, DownloadQueueJob, EditWrite, BeatRead, BeatWrite,
         FetchSelect, FetchTake, CompleteJob, CompleteStatus, Fault,
         AgentTimeout, RequestLost, ResultLost, TransferRefused, StreamBroken,
         AgentCrash, MetaTorn, ServerRestart, StoreResult
<1> QED
  BY <1>1 DEF DeleteBlobs, CompleteBlob, FileOf

\* A handler moves by a request that takes its thread, by its own step, by a
\* request of the agent, or it ends with a restart.
LEMMA ThreadEffect ==
  ASSUME WfInv, [Next]_vars, NEW t \in Thread, threads'[t] # threads[t]
  PROVE  \/ threads'[t] = Idle
         \/ \E f \in FileId : \/ DeleteRead(t, f)
                              \/ \E proxied \in BOOLEAN : DownloadRead(t, f, proxied)
                              \/ \E s : EditRead(t, f, s)
         \/ HandlerStep(t)
         \/ SendHeartbeat(t) \/ SendFetch(t) \/ SendReport(t)
<1>1. threads \in [Thread -> Handler]
  BY DEF WfInv, TypeOK
<1>2. ASSUME NEW u \in Thread, NEW h, Goto(u, h) PROVE t = u
  BY <1>1, <1>2 DEF Goto
<1>3. ASSUME NEW u \in Thread, HandlerStep(u) PROVE t = u
  BY <1>2, <1>3
     DEF HandlerStep, DeleteQueueJob, DeleteListBlobs, DeleteBlobs, DeleteRow,
         DownloadMark, DownloadQueueJob, EditWrite, BeatRead, BeatWrite,
         FetchSelect, FetchTake, CompleteJob, CompleteBlob, CompleteStatus, Done
<1>4. ASSUME NEW u \in Thread, SendHeartbeat(u) \/ SendFetch(u) \/ SendReport(u)
      PROVE  t = u
  BY <1>2, <1>4 DEF SendHeartbeat, SendFetch, SendReport
<1>5. ASSUME NEW u \in Thread, NEW f \in FileId,
             \/ DeleteRead(u, f)
             \/ \E proxied \in BOOLEAN : DownloadRead(u, f, proxied)
             \/ \E s : EditRead(u, f, s)
      PROVE  t = u
  BY <1>2, <1>5 DEF DeleteRead, DownloadRead, EditRead
<1>6. CASE UserRequest
  BY <1>5, <1>6 DEF UserRequest, CreateRecord, UploadReceive
<1>7. CASE UploadStep \/ UNCHANGED vars
  BY <1>7 DEF UploadStep, UploadRefuse, UploadInsert, UploadRead, UploadPath,
              UploadBlob, UploadJob, vars
<1>8. CASE AgentStep
  BY <1>4, <1>8 DEF AgentStep, GetBlob, WriteBlob, ListFile, PushFile, UnlinkFile,
                    UnlistFile, AgentOnly
<1>9. CASE Fault
  BY <1>9 DEF Fault, AgentTimeout, RequestLost, ResultLost, TransferRefused,
              StreamBroken, AgentCrash, MetaTorn, ServerRestart
<1> QED
  BY <1>3, <1>6, <1>7, <1>8, <1>9 DEF Next

\* The agent waits for a handler it has called itself, and starts to store a
\* file when that handler brings it the job.
LEMMA AgentEffect ==
  ASSUME WfInv, [Next]_vars
  PROVE  /\ \A t \in Thread : agent'.slot = t =>
              \/ agent.slot = t /\ UNCHANGED last
              \/ SendHeartbeat(t) \/ SendFetch(t) \/ SendReport(t)
         /\ agent'.pc \in Storing =>
              \/ agent.pc \in Storing /\ UNCHANGED last
              \/ \E t \in Thread : FetchTake(t) /\ agent.slot = t
<1> DEFINE Goal ==
       /\ \A t \in Thread : agent'.slot = t =>
            \/ agent.slot = t /\ UNCHANGED last
            \/ SendHeartbeat(t) \/ SendFetch(t) \/ SendReport(t)
       /\ agent'.pc \in Storing =>
            \/ agent.pc \in Storing /\ UNCHANGED last
            \/ \E t \in Thread : FetchTake(t) /\ agent.slot = t
<1>1. agent \in Agent
  BY DEF WfInv, TypeOK
<1>2. CASE UNCHANGED <<agent, last>>
  BY <1>2
<1>3. ASSUME agent'.slot = NoThread, agent'.pc \notin Storing PROVE Goal
  BY <1>3, ThreadAssumption
<1>4. CASE Loop
  BY <1>3, <1>4 DEF Loop, AgentStart, Storing
<1>5. ASSUME NEW t \in Thread, NEW pc \in {"fetch", "beat"}, UNCHANGED last,
             Respond(t, pc)
      PROVE  Goal
  <2>1. CASE agent.slot = t
    <3>1. agent'.slot = NoThread /\ agent'.pc \notin Storing
      BY <1>5, <2>1 DEF Respond, AgentStart, Storing
    <3> QED
      BY <1>3, <3>1
  <2>2. CASE agent.slot # t
    BY <1>2, <1>5, <2>2 DEF Respond
  <2> QED
    BY <2>1, <2>2
<1>6. ASSUME NEW ok, Report(ok), UNCHANGED last PROVE Goal
  BY <1>1, <1>6 DEF Report, Agent, Storing
<1>7. ASSUME NEW t \in Thread, HandlerStep(t) PROVE Goal
  <2>1. CASE FetchTake(t)
    <3>1. CASE agent.slot = t
      <4>1. agent'.slot = NoThread
        BY <1>1, <2>1, <3>1 DEF FetchTake, Agent
      <4> QED
        BY <2>1, <3>1, <4>1, ThreadAssumption
    <3>2. CASE agent.slot # t
      BY <1>2, <2>1, <3>2 DEF FetchTake
    <3> QED
      BY <3>1, <3>2
  <2>2. CASE BeatRead(t) \/ BeatWrite(t) \/ FetchSelect(t) \/ CompleteStatus(t)
    <3>1. UNCHANGED last
      BY <2>2 DEF BeatRead, BeatWrite, FetchSelect, CompleteStatus, history
    <3>2. \/ UNCHANGED agent
          \/ \E pc \in {"fetch", "beat"} : Respond(t, pc)
      BY <2>2 DEF BeatRead, BeatWrite, FetchSelect, CompleteStatus
    <3> QED
      BY <1>2, <1>5, <3>1, <3>2
  <2>3. CASE ~FetchTake(t) /\ ~BeatRead(t) /\ ~BeatWrite(t) /\ ~FetchSelect(t)
             /\ ~CompleteStatus(t)
    BY <1>2, <1>7, <2>3
       DEF HandlerStep, DeleteQueueJob, DeleteListBlobs, DeleteBlobs, DeleteRow,
           DownloadMark, DownloadQueueJob, EditWrite, CompleteJob, CompleteBlob,
           history
  <2> QED
    BY <2>1, <2>2, <2>3
<1>8. ASSUME NEW t \in Thread, SendHeartbeat(t) \/ SendFetch(t) \/ SendReport(t)
      PROVE  Goal
  <2>1. agent'.slot = t /\ agent'.pc \notin Storing
    BY <1>1, <1>8 DEF SendHeartbeat, SendFetch, SendReport, Agent, Storing
  <2> QED
    BY <1>8, <2>1
<1>9. CASE GetBlob \/ WriteBlob \/ UnlinkFile
  <2>1. UNCHANGED last
    BY <1>9 DEF GetBlob, WriteBlob, UnlinkFile
  <2>2. CASE GetBlob
    <3>1. ASSUME agent' = [agent EXCEPT !.pc = "write"] PROVE Goal
      BY <1>1, <2>1, <2>2, <3>1 DEF GetBlob, Agent, Storing
    <3> QED
      BY <1>6, <2>1, <2>2, <3>1 DEF GetBlob
  <2>3. CASE WriteBlob \/ UnlinkFile
    BY <1>1, <2>1, <2>3 DEF WriteBlob, UnlinkFile, Agent, Storing
  <2> QED
    BY <1>9, <2>2, <2>3
<1>10. CASE ListFile \/ UnlistFile \/ PushFile \/ TransferRefused
  BY <1>6, <1>10 DEF ListFile, UnlistFile, PushFile, TransferRefused, history
<1>11. CASE Fault
  BY <1>2, <1>4, <1>10, <1>11
     DEF Fault, AgentTimeout, RequestLost, ResultLost, StreamBroken, AgentCrash,
         MetaTorn, ServerRestart, history
<1>12. CASE UserRequest \/ UploadStep \/ UNCHANGED vars
  BY <1>2, <1>12
     DEF UserRequest, CreateRecord, UploadReceive, DeleteRead, DownloadRead,
         EditRead, UploadStep, UploadRefuse, UploadInsert, UploadRead, UploadPath,
         UploadBlob, UploadJob, vars, history
<1>13. CASE AgentStep
  BY <1>8, <1>9, <1>10, <1>13 DEF AgentStep
<1>14. Goal
  BY <1>7, <1>11, <1>12, <1>13 DEF Next
<1> QED
  BY <1>14 DEF Goal

-----------------------------------------------------------------------------
(* The queue *)

\* The agent's own fetch brings a job above all it has seen.
LEMMA LastGrows ==
  ASSUME WfInv, TakenInOrder, [Next]_vars
  PROVE  /\ last \in Nat /\ last' \in Nat /\ last' >= last
         /\ last' # last => \E t \in Thread :
              /\ FetchTake(t) /\ agent.slot = t
              /\ last' = threads[t].job /\ last < last' /\ last' \in 1..Len(jobs)
<1>1. last \in Nat
  BY BoundAssumption DEF WfInv, TypeOK
<1>2. CASE last' # last
  <2>1. PICK t \in Thread : /\ FetchTake(t) /\ agent.slot = t
                            /\ last' = threads[t].job /\ last' \in 1..Len(jobs)
    BY <1>2, LastEffect
  <2>2. last < threads[t].job
    BY <2>1 DEF TakenInOrder, FetchTake
  <2>3. Len(jobs) \in Nat
    BY LenProperties DEF WfInv, TypeOK
  <2> QED
    BY <1>1, <2>1, <2>2, <2>3
<1> QED
  BY <1>1, <1>2

LEMMA HandedFirstStep ==
  ASSUME WfInv, QueueOrder, [Next]_vars
  PROVE  HandedFirst'
<1>1. /\ Len(jobs) \in Nat /\ last \in Nat /\ last <= Len(jobs)
      /\ \A i \in 1..Len(jobs) : jobs[i].status # "queued" => jobs'[i].status # "queued"
  BY JobsOnlyGrow, LenProperties, BoundAssumption DEF WfInv, TypeOK, AgentWf
<1>2. CASE last' = last
  BY <1>1, <1>2 DEF QueueOrder, HandedFirst
<1>3. CASE last' # last
  <2>1. PICK t \in Thread : /\ FetchTake(t)
                            /\ last' = threads[t].job /\ last' \in 1..Len(jobs)
    BY <1>3, LastEffect
  <2>2. \A i \in 1..Len(jobs) : i < last' => jobs[i].status # "queued"
    BY <2>1 DEF QueueOrder, TakenInOrder, FetchTake
  <2>3. jobs'[last'].status = "in_progress"
    BY <2>1, FetchTakeMarks DEF WfInv
  <2>4. ASSUME NEW i \in 1..last' PROVE jobs'[i].status # "queued"
    <3>1. i \in 1..Len(jobs) /\ (i < last' \/ i = last')
      BY <1>1, <2>1
    <3> QED
      BY <1>1, <2>2, <2>3, <3>1
  <2> QED
    BY <2>4 DEF HandedFirst
<1> QED
  BY <1>2, <1>3

LEMMA TakenInOrderStep ==
  ASSUME WfInv, QueueOrder, [Next]_vars
  PROVE  TakenInOrder'
<1>1. /\ Len(jobs) \in Nat /\ last \in Nat /\ last <= Len(jobs)
      /\ \A i \in 1..Len(jobs) : jobs[i].status # "queued" => jobs'[i].status # "queued"
  BY JobsOnlyGrow, LenProperties, BoundAssumption DEF WfInv, TypeOK, AgentWf
<1> SUFFICES ASSUME NEW t \in Thread, threads'[t].pc = "fetch_take"
             PROVE  /\ \A i \in 1..Len(jobs') : i < threads'[t].job =>
                         jobs'[i].status # "queued"
                    /\ agent'.slot = t => last' < threads'[t].job
  BY DEF TakenInOrder
<1>2. CASE threads'[t] = threads[t]
  <2>1. /\ \A i \in 1..Len(jobs) : i < threads[t].job => jobs[i].status # "queued"
        /\ agent.slot = t => last < threads[t].job
    BY <1>2 DEF QueueOrder, TakenInOrder
  <2>2. threads[t].job \in 1..Len(jobs)
    BY <1>2 DEF WfInv, HandlersWf, HandlerWf
  <2>3. ASSUME NEW i \in 1..Len(jobs'), i < threads[t].job
        PROVE  jobs'[i].status # "queued"
    <3>1. i \in 1..Len(jobs)
      BY <1>1, <2>2, <2>3
    <3> QED
      BY <1>1, <2>1, <2>3, <3>1
  <2>4. ASSUME agent'.slot = t PROVE agent.slot = t /\ last' = last
    <3>1. ~SendHeartbeat(t) /\ ~SendFetch(t) /\ ~SendReport(t)
      BY <1>2 DEF SendHeartbeat, SendFetch, SendReport, IsIdle
    <3> QED
      BY <2>4, <3>1, AgentEffect
  <2> QED
    BY <1>2, <2>1, <2>3, <2>4
<1>3. CASE threads'[t] # threads[t]
  <2>1. FetchSelect(t)
    <3>1. threads \in [Thread -> Handler]
      BY DEF WfInv, TypeOK
    <3>2. Idle.pc # "fetch_take"
      BY DEF Idle
    <3>3. ASSUME NEW h, Goto(t, h) PROVE threads'[t] = h
      BY <3>1, <3>3 DEF Goto
    <3>4. ASSUME NEW f \in FileId,
                 \/ DeleteRead(t, f)
                 \/ \E proxied \in BOOLEAN : DownloadRead(t, f, proxied)
                 \/ \E s : EditRead(t, f, s)
          PROVE  FALSE
      BY <3>3, <3>4 DEF DeleteRead, DownloadRead, EditRead, Idle
    <3>5. ~SendHeartbeat(t) /\ ~SendFetch(t) /\ ~SendReport(t)
      BY <3>3 DEF SendHeartbeat, SendFetch, SendReport, Idle
    <3>6. threads[t] \in Handler
      BY <3>1
    <3>7. HandlerStep(t)
      BY <1>3, <3>2, <3>4, <3>5, ThreadEffect
    <3>8. ~DeleteQueueJob(t) /\ ~DeleteListBlobs(t) /\ ~DeleteBlobs(t) /\ ~DownloadMark(t)
          /\ ~CompleteJob(t) /\ ~CompleteBlob(t)
      BY <3>3, <3>6 DEF DeleteQueueJob, DeleteListBlobs, DeleteBlobs, DownloadMark,
                        CompleteJob, CompleteBlob, Handler
    <3>9. ~DeleteRow(t) /\ ~DownloadQueueJob(t) /\ ~EditWrite(t) /\ ~FetchTake(t)
          /\ ~CompleteStatus(t)
      BY <3>2, <3>3 DEF DeleteRow, DownloadQueueJob, EditWrite, FetchTake,
                        CompleteStatus, Done
    <3>10. ~BeatRead(t)
      BY <3>2, <3>3, <3>6 DEF BeatRead, Done, Handler
    <3>11. ~BeatWrite(t)
      BY <3>2, <3>3 DEF BeatWrite, Done, Idle
    <3> QED
      BY <3>7, <3>8, <3>9, <3>10, <3>11 DEF HandlerStep
  <2>2. UNCHANGED <<jobs, last>>
    BY <2>1 DEF FetchSelect, server, history
  <2>3. UNCHANGED agent /\ NextQueued(threads'[t].job)
    <3>1. threads \in [Thread -> Handler]
      BY DEF WfInv, TypeOK
    <3>2. ~Done(t)
      BY <3>1 DEF Done, Goto, Idle
    <3>3. PICK j \in 1..Len(jobs) :
            NextQueued(j) /\ Goto(t, [Idle EXCEPT !.pc = "fetch_take", !.job = j])
      BY <2>1, <3>2 DEF FetchSelect
    <3>4. threads'[t].job = j
      BY <3>1, <3>3 DEF Goto, Idle
    <3> QED
      BY <2>1, <3>2, <3>3, <3>4 DEF FetchSelect
  <2> DEFINE j == threads'[t].job
  <2>4. /\ j \in 1..Len(jobs) /\ jobs[j].status = "queued"
        /\ \A k \in 1..Len(jobs) : jobs[k].status = "queued" => j <= k
    BY <2>3 DEF NextQueued, Queued
  <2> HIDE DEF j
  <2>5. ASSUME NEW i \in 1..Len(jobs), i < j PROVE jobs[i].status # "queued"
    BY <1>1, <2>4, <2>5
  <2>6. last < j
    BY <1>1, <2>4 DEF QueueOrder, HandedFirst
  <2> QED
    BY <2>2, <2>5, <2>6 DEF j
<1> QED
  BY <1>2, <1>3

LEMMA ReportsBehindStep ==
  ASSUME WfInv, QueueOrder, [Next]_vars
  PROVE  ReportsBehind'
<1>1. /\ last \in Nat /\ last' \in Nat /\ last' >= last
      /\ last' # last => last < last'
  BY LastGrows DEF QueueOrder
<1> SUFFICES ASSUME NEW t \in Thread, threads'[t].pc \in Completing
             PROVE  /\ threads'[t].job <= last'
                    /\ agent'.pc \in Storing => threads'[t].job # last'
  BY DEF ReportsBehind
<1>2. /\ threads'[t].job \in Nat /\ threads'[t].job <= last
      /\ agent'.pc \in Storing =>
           \/ agent.pc \in Storing => threads'[t].job # last
           \/ last' # last
  <2>1. threads \in [Thread -> Handler] /\ threads[t] \in Handler
    BY DEF WfInv, TypeOK
  <2>2. ASSUME threads[t].pc \in Completing, threads'[t].job = threads[t].job
        PROVE  /\ threads'[t].job \in Nat /\ threads'[t].job <= last
               /\ agent.pc \in Storing => threads'[t].job # last
    BY <2>1, <2>2, BoundAssumption DEF QueueOrder, ReportsBehind, Handler
  <2>3. CASE threads'[t] = threads[t]
    BY <2>2, <2>3
  <2>4. CASE threads'[t] # threads[t]
    <3>1. ASSUME NEW h, Goto(t, h) PROVE threads'[t] = h
      BY <2>1, <3>1 DEF Goto
    <3>2. Idle.pc \notin Completing
      BY DEF Idle, Completing
    <3>3. ASSUME NEW f \in FileId,
                 \/ DeleteRead(t, f)
                 \/ \E proxied \in BOOLEAN : DownloadRead(t, f, proxied)
                 \/ \E s : EditRead(t, f, s)
          PROVE  FALSE
      <4>1. ~DeleteRead(t, f)
        BY <3>1 DEF DeleteRead, Idle, Completing
      <4>2. ~ \E proxied \in BOOLEAN : DownloadRead(t, f, proxied)
        BY <3>1 DEF DownloadRead, Idle, Completing
      <4>3. ~ \E s : EditRead(t, f, s)
        BY <3>1 DEF EditRead, Idle, Completing
      <4> QED BY <3>3, <4>1, <4>2, <4>3
    <3>4. ~SendHeartbeat(t) /\ ~SendFetch(t)
      <4>1. ~SendHeartbeat(t)
        BY <3>1 DEF SendHeartbeat, Idle, Completing
      <4>2. ~SendFetch(t)
        BY <3>1 DEF SendFetch, Idle, Completing
      <4> QED BY <4>1, <4>2
    <3>5. CASE SendReport(t)
      <4>1. threads'[t].job = agent.job
        BY <3>1, <3>5 DEF SendReport, Idle
      <4>2. agent.job = last
        BY <3>5 DEF SendReport, WfInv, AgentWf, WithJob
      <4>3. agent'.pc \notin Storing
        BY <3>5 DEF SendReport, WfInv, TypeOK, Agent, Storing
      <4> QED
        BY <1>1, <4>1, <4>2, <4>3
    <3>6. CASE CompleteJob(t) \/ CompleteBlob(t)
      <4>1. threads'[t].job = threads[t].job /\ threads[t].pc \in Completing
        BY <2>1, <3>6 DEF CompleteJob, CompleteBlob, Goto, Handler, Completing
      <4> QED
        BY <2>2, <4>1
    <3>7. CASE HandlerStep(t) /\ ~CompleteJob(t) /\ ~CompleteBlob(t)
      <4>1. ~DeleteQueueJob(t) /\ ~DeleteListBlobs(t) /\ ~DeleteBlobs(t) /\ ~DownloadMark(t)
        BY <2>1, <3>1 DEF DeleteQueueJob, DeleteListBlobs, DeleteBlobs,
                          DownloadMark, Handler, Completing
      <4>2. ~DeleteRow(t) /\ ~DownloadQueueJob(t) /\ ~EditWrite(t) /\ ~FetchTake(t)
            /\ ~CompleteStatus(t)
        BY <3>1, <3>2 DEF DeleteRow, DownloadQueueJob, EditWrite, FetchTake,
                          CompleteStatus, Done
      <4>3. ~BeatRead(t)
        BY <2>1, <3>1, <3>2 DEF BeatRead, Done, Handler, Completing
      <4>4. ~BeatWrite(t) /\ ~FetchSelect(t)
        BY <3>1, <3>2 DEF BeatWrite, FetchSelect, Done, Idle, Completing
      <4> QED
        BY <3>7, <4>1, <4>2, <4>3, <4>4 DEF HandlerStep
    <3> QED
      BY <2>4, <3>2, <3>3, <3>4, <3>5, <3>6, <3>7, ThreadEffect
  <2> QED
    BY <2>3, <2>4
<1>3. ASSUME agent'.pc \in Storing PROVE agent.pc \in Storing \/ last' # last
  <2>1. ASSUME NEW u \in Thread, FetchTake(u), agent.slot = u PROVE last' # last
    <3>1. last < threads[u].job /\ last' = threads[u].job
      BY <2>1 DEF FetchTake, QueueOrder, TakenInOrder
    <3> QED
      BY <1>1, <3>1
  <2> QED
    BY <1>3, <2>1, AgentEffect
<1> QED
  BY <1>1, <1>2, <1>3

\* The agent is handed jobs in the order they were queued, each one at most
\* once, and none is left behind in the queue by a later one.
LEMMA QueueOrderStep ==
  ASSUME WfInv, QueueOrder, [Next]_vars
  PROVE  QueueOrder'
  BY HandedFirstStep, TakenInOrderStep, ReportsBehindStep DEF QueueOrder

LEMMA QueueOrderInit == Init => QueueOrder
  BY DEF Init, QueueOrder, HandedFirst, TakenInOrder, ReportsBehind, Idle, Completing

\* The agent gets the jobs of its node in the order they were queued, whatever
\* answers it misses and whatever handlers go on without it (fetch_next_for_node).
THEOREM InOrder == Spec => HandedInOrder
<1> DEFINE J == WfInv /\ QueueOrder
           A == last' # last => last' > last
                  /\ \A j \in 1..last' : jobs'[j].status # "queued"
<1>1. Init => J
  BY WfInit, QueueOrderInit
<1>2. J /\ [Next]_vars => J'
  BY WfStep, QueueOrderStep
<1>3. J /\ [Next]_vars => [A]_vars
  <2> SUFFICES ASSUME J, [Next]_vars PROVE A
    OBVIOUS
  <2>1. last' \in Nat /\ last \in Nat /\ (last' # last => last' > last)
    BY LastGrows DEF QueueOrder
  <2>2. HandedFirst'
    BY HandedFirstStep
  <2> QED
    BY <2>1, <2>2 DEF HandedFirst
<1> HIDE DEF J
<1> QED
  BY <1>1, <1>2, <1>3, PTL DEF Spec, HandedInOrder

-----------------------------------------------------------------------------
(* Uploads *)

\* Counters grow; an upload that is under way keeps its row and its file.
LEMMA UploadEffect ==
  ASSUME WfInv, [Next]_vars
  PROVE  /\ nextFile \in Nat /\ nextFile' \in Nat /\ nextFile' >= nextFile
         /\ used["upload"] \in Nat /\ used'["upload"] \in Nat
         /\ used'["upload"] >= used["upload"]
         /\ \/ up'.pc = "idle"
            \/ UploadReceive /\ up'.pc = "insert"
               /\ used'["upload"] = used["upload"] + 1
            \/ /\ up.pc # "idle" /\ used'["upload"] = used["upload"]
               /\ \/ UNCHANGED up
                  \/ UploadInsert /\ up'.pc = "read" /\ up'.file = nextFile
                     /\ nextFile' = nextFile + 1
                  \/ /\ UploadRead \/ UploadPath \/ UploadBlob
                     /\ up.pc \in HoldingFile /\ up'.pc \in HoldingFile
                     /\ up'.file = up.file
<1> DEFINE Goal ==
       \/ up'.pc = "idle"
       \/ UploadReceive /\ up'.pc = "insert" /\ used'["upload"] = used["upload"] + 1
       \/ /\ up.pc # "idle" /\ used'["upload"] = used["upload"]
          /\ \/ UNCHANGED up
             \/ UploadInsert /\ up'.pc = "read" /\ up'.file = nextFile
                /\ nextFile' = nextFile + 1
             \/ /\ UploadRead \/ UploadPath \/ UploadBlob
                /\ up.pc \in HoldingFile /\ up'.pc \in HoldingFile
                /\ up'.file = up.file
       Counted == /\ UNCHANGED nextFile \/ nextFile' = nextFile + 1
                  /\ \/ used'["upload"] = used["upload"]
                     \/ used'["upload"] = used["upload"] + 1
<1>1. /\ up \in Upload /\ nextFile \in Nat /\ used \in [Kind -> Nat]
      /\ "upload" \in Kind /\ NoUpload.pc = "idle"
  BY BoundAssumption DEF WfInv, TypeOK, Kind, NoUpload
<1>2. ASSUME NEW kind \in Kind, Spend(kind)
      PROVE  IF kind = "upload" THEN used'["upload"] = used["upload"] + 1
                                ELSE used'["upload"] = used["upload"]
  BY <1>1, <1>2 DEF Spend
<1> SUFFICES Goal /\ Counted
  <2>1. used["upload"] \in Nat
    BY <1>1
  <2> QED
    BY <1>1, <2>1
<1> DEFINE Same == /\ UNCHANGED up /\ used'["upload"] = used["upload"]
                   /\ UNCHANGED nextFile \/ nextFile' = nextFile + 1
<1>3. ASSUME Same PROVE Goal /\ Counted
  BY <1>3
<1>4. CASE UploadReceive
  <2>1. used'["upload"] = used["upload"] + 1
    BY <1>1, <1>2, <1>4 DEF UploadReceive
  <2>2. up'.pc = "insert" /\ UNCHANGED nextFile
    BY <1>4 DEF UploadReceive, NoUpload
  <2> QED
    BY <1>4, <2>1, <2>2
<1>5. CASE UploadStep
  <2>1. CASE UploadInsert
    <3>1. /\ up.pc # "idle" /\ UNCHANGED used
          /\ up'.pc = "read" /\ up'.file = nextFile /\ nextFile' = nextFile + 1
      BY <1>1, <2>1 DEF UploadInsert, InsertRow, Upload
    <3> QED
      BY <2>1, <3>1
  <2>2. CASE UploadRefuse \/ UploadJob
    <3>1. up'.pc = "idle" /\ UNCHANGED <<nextFile, used>>
      BY <1>1, <2>2 DEF UploadRefuse, UploadJob, server
    <3> QED
      BY <3>1
  <2>3. CASE UploadRead \/ UploadPath \/ UploadBlob
    <3>1. UNCHANGED <<nextFile, used>> /\ up.pc \in HoldingFile
      BY <2>3 DEF UploadRead, UploadPath, UploadBlob, server, HoldingFile
    <3>2. up.pc # "idle"
      BY <3>1 DEF HoldingFile
    <3>3. \/ up'.pc = "idle"
          \/ up'.pc \in HoldingFile /\ up'.file = up.file
      <4>1. CASE UploadRead
        BY <1>1, <4>1 DEF UploadRead, Upload, HoldingFile
      <4>2. CASE UploadPath
        BY <1>1, <4>2 DEF UploadPath, Upload, HoldingFile
      <4>3. CASE UploadBlob
        BY <1>1, <4>3 DEF UploadBlob, Upload, HoldingFile
      <4> QED
        BY <2>3, <4>1, <4>2, <4>3
    <3> QED
      BY <2>3, <3>1, <3>2, <3>3
  <2> QED
    BY <1>5, <2>1, <2>2, <2>3 DEF UploadStep
<1> HIDE DEF Goal, Counted
<1>6. CASE CreateRecord
  <2>1. used'["upload"] = used["upload"]
    BY <1>2, <1>6 DEF CreateRecord, Kind
  <2> QED
    BY <1>3, <1>6, <2>1 DEF CreateRecord, InsertRow
<1>7. ASSUME UserRequest, ~CreateRecord, ~UploadReceive PROVE Goal /\ Counted
  <2>1. used'["upload"] = used["upload"]
    BY <1>2, <1>7 DEF UserRequest, DeleteRead, DownloadRead, EditRead, Kind
  <2> QED
    BY <1>3, <1>7, <2>1 DEF UserRequest, DeleteRead, DownloadRead, EditRead, server
<1>8. CASE AgentStep \/ UNCHANGED vars
  BY <1>3, <1>8
     DEF AgentStep, SendHeartbeat, SendFetch, SendReport, GetBlob, WriteBlob,
         ListFile, PushFile, UnlinkFile, UnlistFile, AgentOnly, server, vars
<1>9. ASSUME NEW t \in Thread, HandlerStep(t) PROVE Goal /\ Counted
  BY <1>3, <1>9
     DEF HandlerStep, DeleteQueueJob, DeleteListBlobs, DeleteBlobs, DeleteRow,
         DownloadMark, DownloadQueueJob, EditWrite, BeatRead, BeatWrite, FetchSelect,
         FetchTake, CompleteJob, CompleteBlob, CompleteStatus, server, InsertRow
<1>10. CASE Fault
  <2>1. used'["upload"] = used["upload"]
    BY <1>2, <1>10 DEF Fault, AgentTimeout, RequestLost, ResultLost, TransferRefused,
                       StreamBroken, AgentCrash, MetaTorn, ServerRestart, Kind
  <2>2. CASE ServerRestart
    <3>1. up'.pc = "idle" /\ UNCHANGED nextFile
      BY <1>1, <2>2 DEF ServerRestart, server
    <3> QED
      BY <2>1, <3>1 DEF Goal, Counted
  <2>3. CASE ~ServerRestart
    <3>1. UNCHANGED <<up, nextFile>>
      BY <1>10, <2>3 DEF Fault, AgentTimeout, RequestLost, ResultLost,
                         TransferRefused, StreamBroken, AgentCrash, MetaTorn, server
    <3> QED
      BY <1>3, <2>1, <3>1
  <2> QED
    BY <2>2, <2>3
<1>11. CASE UserRequest
  BY <1>4, <1>6, <1>7, <1>11
<1> QED
  BY <1>5, <1>8, <1>9, <1>10, <1>11 DEF Next

\* Two uploads share neither a path nor a temporary file.
LEMMA StoresDistinctStep ==
  ASSUME WfInv, StoresDistinct, [Next]_vars
  PROVE  StoresDistinct'
<1>1. /\ nextFile \in Nat /\ nextFile' \in Nat /\ nextFile' >= nextFile
      /\ used["upload"] \in Nat /\ used'["upload"] \in Nat
      /\ used'["upload"] >= used["upload"]
  BY UploadEffect
<1>2. ASSUME NEW j \in StoreJobs
      PROVE  /\ j \in 1..Len(jobs) /\ StoreWf(j)'
             /\ jobs'[j].rel = jobs[j].rel /\ jobs'[j].temp = jobs[j].temp
  <2>1. j \in 1..Len(jobs) /\ jobs[j] \in Job
    BY ElementOfSeq DEF StoreJobs, WfInv, TypeOK
  <2>2. /\ jobs'[j].rel = jobs[j].rel /\ jobs'[j].temp = jobs[j].temp
        /\ jobs'[j].file = jobs[j].file
    BY <2>1, JobsOnlyGrow DEF WfInv
  <2>3. StoreWf(j) /\ jobs[j].rel \in Nat
    BY <2>1, BoundAssumption DEF StoresDistinct, Job, FileId
  <2>4. jobs[j].rel < nextFile'
    BY <1>1, <2>3 DEF StoreWf
  <2>5. PICK n \in 1..used["upload"] : jobs[j].temp = <<"upload", n>>
    BY <2>3 DEF StoreWf
  <2>6. n \in 1..used'["upload"]
    BY <1>1
  <2>7. up'.pc # "idle" => jobs[j].temp # <<"upload", used'["upload"]>>
    <3>1. CASE UploadReceive /\ used'["upload"] = used["upload"] + 1
      BY <1>1, <2>5, <3>1
    <3>2. CASE up.pc # "idle" /\ used'["upload"] = used["upload"]
      BY <2>3, <3>2 DEF StoreWf, UploadTemp
    <3> QED
      BY <3>1, <3>2, UploadEffect
  <2>8. up'.pc \in HoldingFile => jobs[j].rel # up'.file
    <3>1. CASE up'.file = nextFile
      BY <1>1, <2>3, <3>1 DEF StoreWf
    <3>2. CASE UNCHANGED up
      BY <2>3, <3>2 DEF StoreWf
    <3>3. CASE up.pc \in HoldingFile /\ up'.file = up.file
      BY <2>3, <3>3 DEF StoreWf
    <3> QED
      BY <3>1, <3>2, <3>3, UploadEffect DEF HoldingFile
  <2>9. StoreWf(j)'
    BY <2>2, <2>3, <2>4, <2>5, <2>6, <2>7, <2>8 DEF StoreWf, UploadTemp
  <2> QED
    BY <2>1, <2>2, <2>9
<1>3. ASSUME NEW j \in StoreJobs', j \notin StoreJobs
      PROVE  /\ StoreWf(j)' /\ j = Len(jobs) + 1 /\ up.pc = "job"
             /\ jobs'[j].rel = up.file /\ jobs'[j].temp = UploadTemp
  <2>1. /\ UploadJob /\ j = Len(jobs) + 1
        /\ jobs'[j].file = up.file /\ jobs'[j].rel = up.file
        /\ jobs'[j].temp = UploadTemp
    BY <1>3, NewStoreJob
  <2>2. up.pc = "job" /\ UNCHANGED <<nextFile, used>> /\ up'.pc = "idle"
    BY <2>1 DEF UploadJob, NoUpload
  <2>3. up.file < nextFile /\ used["upload"] >= 1
    BY <2>2 DEF WfInv, UploadWf, HoldingFile
  <2>4. used'["upload"] \in 1..used'["upload"]
    BY <1>1, <2>2, <2>3
  <2> QED
    BY <2>1, <2>2, <2>3, <2>4 DEF StoreWf, UploadTemp, HoldingFile
<1>4. ASSUME NEW i \in StoreJobs, NEW j \in StoreJobs', j \notin StoreJobs
      PROVE  jobs'[i].rel # jobs'[j].rel /\ jobs'[i].temp # jobs'[j].temp
  <2>1. /\ up.pc = "job" /\ jobs'[j].rel = up.file /\ jobs'[j].temp = UploadTemp
    BY <1>3, <1>4
  <2>2. jobs[i].rel # up.file /\ jobs[i].temp # UploadTemp
    BY <2>1 DEF StoresDistinct, StoreWf, HoldingFile
  <2> QED
    BY <1>2, <2>1, <2>2
<1>5. \A j \in StoreJobs' : StoreWf(j)'
  BY <1>2, <1>3
<1>6. ASSUME NEW i \in StoreJobs', NEW j \in StoreJobs', i # j
      PROVE  jobs'[i].rel # jobs'[j].rel /\ jobs'[i].temp # jobs'[j].temp
  <2>1. CASE i \in StoreJobs /\ j \in StoreJobs
    BY <1>2, <1>6, <2>1 DEF StoresDistinct
  <2>2. CASE i \notin StoreJobs /\ j \notin StoreJobs
    BY <1>3, <1>6, <2>2
  <2>3. CASE i \in StoreJobs /\ j \notin StoreJobs
    BY <1>4, <2>3
  <2>4. CASE i \notin StoreJobs /\ j \in StoreJobs
    BY <1>4, <2>4
  <2> QED
    BY <2>1, <2>2, <2>3, <2>4
<1> QED
  BY <1>5, <1>6 DEF StoresDistinct

LEMMA StoresDistinctInit == Init => StoresDistinct
  BY EmptySeq DEF Init, StoresDistinct, StoreJobs

-----------------------------------------------------------------------------
(* Erased bytes *)

LEMMA JobTyped == ASSUME WfInv, NEW j \in 1..Len(jobs) PROVE jobs[j] \in Job
  BY ElementOfSeq DEF WfInv, TypeOK

LEMMA WipedEffect ==
  ASSUME WfInv, [Next]_vars, NEW k \in wiped', k \notin wiped
  PROVE  /\ UnlinkFile /\ k = last /\ k \in 1..Len(jobs) /\ k \in DeleteJobs
         /\ disk'[jobs[k].rel] = "none"
<1>1. UnlinkFile
  BY DEF Next, vars, history, UserRequest, CreateRecord, UploadReceive, DeleteRead,
         DownloadRead, EditRead, UploadStep, UploadRefuse, UploadInsert, UploadRead,
         UploadPath, UploadBlob, UploadJob, AgentStep, SendHeartbeat, SendFetch,
         SendReport, GetBlob, WriteBlob, ListFile, PushFile, UnlistFile, AgentOnly,
         HandlerStep, DeleteQueueJob, DeleteListBlobs, DeleteBlobs, DeleteRow,
         DownloadMark, DownloadQueueJob, EditWrite, BeatRead, BeatWrite, FetchSelect,
         FetchTake, CompleteJob, CompleteBlob, CompleteStatus, Fault, AgentTimeout,
         RequestLost, ResultLost, TransferRefused, StreamBroken, AgentCrash,
         MetaTorn, ServerRestart
<1>2. k = agent.job /\ agent.pc = "unlink"
  BY <1>1 DEF UnlinkFile
<1>3. k = last /\ last >= 1 /\ last <= Len(jobs) /\ jobs[last].type = "delete_file"
  BY <1>2 DEF WfInv, AgentWf, WithJob
<1>4. k \in 1..Len(jobs)
  BY <1>3, LenProperties, BoundAssumption DEF WfInv, TypeOK
<1>5. disk \in [FileId -> {"none", "partial", "full"}] /\ jobs[k].rel \in FileId
  BY <1>4, JobTyped DEF WfInv, TypeOK, Job
<1>6. disk'[jobs[k].rel] = "none"
  BY <1>1, <1>2, <1>5 DEF UnlinkFile, CurrentJob
<1> QED
  BY <1>1, <1>3, <1>4, <1>6 DEF DeleteJobs

LEMMA WipedWfStep ==
  ASSUME WfInv, QueueOrder, WipedWf, [Next]_vars
  PROVE  WipedWf'
<1> SUFFICES ASSUME NEW k \in wiped' PROVE k <= last' /\ k \in DeleteJobs'
  BY DEF WipedWf
<1>1. last \in Nat /\ last' \in Nat /\ last' >= last /\ DeleteJobs \subseteq DeleteJobs'
  BY LastGrows, JobSetsGrow DEF QueueOrder, WfInv
<1>2. k <= last /\ k \in DeleteJobs
  BY <1>1, WipedEffect DEF WipedWf
<1>3. k \in Nat
  BY <1>2 DEF DeleteJobs
<1> QED
  BY <1>1, <1>2, <1>3

LEMMA WipedStaysStep ==
  ASSUME WfInv, QueueOrder, StoresDistinct, WipedWf, WipedStaysWiped, [Next]_vars
  PROVE  WipedStaysWiped'
<1> SUFFICES ASSUME NEW k \in DeleteJobs', NEW j \in StoreJobs',
                    k \in wiped', j < k, jobs'[j].rel = jobs'[k].rel
             PROVE  disk'[jobs'[k].rel] = "none"
  BY DEF WipedStaysWiped
<1>1. /\ Len(jobs) \in Nat /\ last \in Nat /\ last <= Len(jobs)
      /\ \A i \in 1..Len(jobs) : jobs'[i].rel = jobs[i].rel
      /\ StoreJobs' \cap 1..Len(jobs) = StoreJobs
  BY JobsOnlyGrow, JobSetsGrow, LenProperties, BoundAssumption
     DEF WfInv, TypeOK, AgentWf
<1>2. CASE k \notin wiped
  BY <1>1, <1>2, WipedEffect
<1>3. CASE k \in wiped
  <2>1. k \in DeleteJobs /\ k <= last /\ k \in 1..Len(jobs)
    BY <1>3 DEF WipedWf, DeleteJobs
  <2>2. j \in 1..Len(jobs) /\ j \in StoreJobs /\ j < last
    <3>1. j \in Nat /\ j >= 1 /\ k \in Nat
      BY <2>1 DEF StoreJobs
    <3>2. j \in 1..Len(jobs) /\ j < last
      BY <1>1, <2>1, <3>1
    <3> QED
      BY <1>1, <3>2
  <2>3. jobs[j].rel = jobs[k].rel /\ jobs[k].rel \in FileId
    BY <1>1, <2>1, <2>2, JobTyped DEF Job
  <2>4. disk[jobs[k].rel] = "none"
    BY <1>3, <2>1, <2>2, <2>3 DEF WipedStaysWiped
  <2>5. ASSUME disk'[jobs[k].rel] # disk[jobs[k].rel]
        PROVE  disk'[jobs[k].rel] = "none"
    <3>1. ASSUME GetBlob \/ WriteBlob, last \in 1..Len(jobs),
                 jobs[last].rel = jobs[j].rel
          PROVE  FALSE
      <4>1. jobs[last].type = "store_file"
        BY <3>1 DEF GetBlob, WriteBlob, WfInv, AgentWf
      <4>2. last \in StoreJobs
        BY <3>1, <4>1 DEF StoreJobs
      <4> QED
        BY <2>2, <3>1, <4>2 DEF StoresDistinct
    <3> QED
      BY <2>3, <2>5, <3>1, DiskEffect
  <2> QED
    BY <1>1, <2>1, <2>4, <2>5
<1> QED
  BY <1>2, <1>3

\* Once the agent has erased a file, no store job that is late, repeated or out
\* of order writes it again.
THEOREM WipedForGood == Spec => []WipedStaysWiped
<1> DEFINE J == WfInv /\ QueueOrder /\ StoresDistinct /\ WipedWf /\ WipedStaysWiped
<1>1. Init => J
  <2>1. Init => WipedWf /\ WipedStaysWiped
    BY DEF Init, WipedWf, WipedStaysWiped
  <2> QED
    BY <2>1, WfInit, QueueOrderInit, StoresDistinctInit
<1>2. J /\ [Next]_vars => J'
  BY WfStep, QueueOrderStep, StoresDistinctStep, WipedWfStep, WipedStaysStep
<1>3. J => WipedStaysWiped
  OBVIOUS
<1> HIDE DEF J
<1> QED
  BY <1>1, <1>2, <1>3, PTL DEF Spec
=============================================================================
