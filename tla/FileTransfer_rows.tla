-------------------------- MODULE FileTransfer_rows --------------------------
(***************************************************************************)
(* Proofs about the rows that readers see: an active row has its bytes on   *)
(* the node, a path has one row, a row turns back only by a stale edit; and  *)
(* that every stranded job costs a fault of its own.                        *)
(***************************************************************************)
EXTENDS FileTransfer_custody, FiniteSetTheorems

-----------------------------------------------------------------------------
(* Effects *)

LEMMA EditedGrows == ASSUME [Next]_vars PROVE edited \subseteq edited'
  BY DEF Next, vars, history, UserRequest, CreateRecord, UploadReceive, DeleteRead,
         DownloadRead, EditRead, UploadStep, UploadRefuse, UploadInsert, UploadRead,
         UploadPath, UploadBlob, UploadJob, AgentStep, SendHeartbeat, SendFetch,
         SendReport, GetBlob, WriteBlob, ListFile, PushFile, UnlinkFile, UnlistFile,
         AgentOnly, HandlerStep, DeleteQueueJob, DeleteListBlobs, DeleteBlobs,
         DeleteRow, DownloadMark, DownloadQueueJob, EditWrite, BeatRead, BeatWrite,
         FetchSelect, FetchTake, CompleteJob, CompleteBlob, CompleteStatus, Fault,
         AgentTimeout, RequestLost, ResultLost, TransferRefused, StreamBroken,
         AgentCrash, MetaTorn, ServerRestart

\* Which steps write the table of files.
LEMMA RowWriters ==
  ASSUME [Next]_vars
  PROVE  \/ UNCHANGED <<files, nextFile>>
         \/ CreateRecord \/ UploadInsert \/ UploadPath
         \/ \E t \in Thread : \/ DeleteRow(t) \/ DownloadMark(t) \/ EditWrite(t)
                              \/ BeatWrite(t) \/ CompleteStatus(t)
  BY DEF Next, vars, server, UserRequest, UploadReceive, DeleteRead, DownloadRead,
         EditRead, UploadStep, UploadRefuse, UploadRead, UploadBlob, UploadJob,
         AgentStep, SendHeartbeat, SendFetch, SendReport, GetBlob, WriteBlob,
         ListFile, PushFile, UnlinkFile, UnlistFile, AgentOnly, HandlerStep,
         DeleteQueueJob, DeleteListBlobs, DeleteBlobs, DownloadQueueJob, BeatRead,
         FetchSelect, FetchTake, CompleteJob, CompleteBlob, Fault, AgentTimeout,
         RequestLost, ResultLost, TransferRefused, StreamBroken, AgentCrash,
         MetaTorn, ServerRestart

\* A row that is there from now on.
Inserts(f) ==
  /\ f = nextFile /\ nextFile' = nextFile + 1
  /\ \/ CreateRecord /\ files'[f] = [status |-> "active", rel |-> 0]
     \/ UploadInsert /\ files'[f] = [status |-> "pending_upload", rel |-> 0]
     \/ \E t \in Thread : /\ BeatWrite(t) /\ threads[t].file = 0
                          /\ files'[f] = [status |-> "active", rel |-> threads[t].rel]
\* A row that gets another status.
Marks(f) ==
  /\ Present(f) /\ files'[f].rel = files[f].rel /\ nextFile' = nextFile
  /\ \E t \in Thread :
       \/ /\ DownloadMark(t) /\ f = threads[t].file
          /\ files'[f].status = "pending_download"
       \/ BeatWrite(t) /\ f = threads[t].file /\ files'[f].status = "active"
       \/ /\ CompleteStatus(t) /\ f = jobs[threads[t].job].file
          /\ \/ files'[f].status = "error"
             \/ /\ files'[f].status = "active" /\ threads[t].ok
                /\ jobs[threads[t].job].type # "delete_file"
\* A row that is written whole.
Writes(f) ==
  /\ nextFile' = nextFile
  /\ \/ UploadPath /\ f = up.file /\ files'[f] = [status |-> up.status, rel |-> up.file]
     \/ \E t \in Thread :
          /\ EditWrite(t) /\ f = threads[t].file
          /\ files'[f] = [status |-> threads[t].status, rel |-> threads[t].rel]
          /\ edited' = edited \cup {f}
Drops(f) == nextFile' = nextFile /\ files'[f] = NoRow

LEMMA RowEffect ==
  ASSUME WfInv, [Next]_vars
  PROVE  /\ nextFile' >= nextFile
         /\ \A f \in FileId : \/ files'[f] = files[f]
                              \/ Inserts(f) \/ Marks(f) \/ (Present(f) /\ Writes(f)) \/ Drops(f)
<1>0. /\ files \in [FileId -> Row] /\ nextFile \in Nat /\ up \in Upload
      /\ threads \in [Thread -> Handler]
  BY BoundAssumption DEF WfInv, TypeOK
<1> DEFINE Goal ==
      /\ nextFile' >= nextFile
      /\ \A f \in FileId : \/ files'[f] = files[f]
                           \/ Inserts(f) \/ Marks(f) \/ (Present(f) /\ Writes(f)) \/ Drops(f)
<1>1. ASSUME NEW status, NEW rel, InsertRow(status, rel)
      PROVE  /\ nextFile' = nextFile + 1
             /\ \A f \in FileId : \/ files'[f] = files[f]
                                  \/ f = nextFile /\ files'[f] = [status |-> status, rel |-> rel]
  BY <1>0, <1>1 DEF InsertRow
<1>2. ASSUME NEW g \in FileId, NEW status, files' = WithStatus(g, status)
      PROVE  \A f \in FileId : \/ files'[f] = files[f]
                               \/ /\ f = g /\ Present(f) /\ files'[f].status = status
                                  /\ files'[f].rel = files[f].rel
  BY <1>0, <1>2 DEF WithStatus, Row
<1>3. ASSUME NEW g, NEW status, NEW rel, files' = WithRow(g, status, rel)
      PROVE  \A f \in FileId : \/ files'[f] = files[f]
                               \/ /\ f = g /\ Present(f)
                                  /\ files'[f] = [status |-> status, rel |-> rel]
  BY <1>0, <1>3 DEF WithRow
<1>4. CASE UNCHANGED <<files, nextFile>>
  BY <1>0, <1>4
<1>5. CASE CreateRecord \/ UploadInsert
  <2>1. CASE CreateRecord
    <3>1. InsertRow("active", 0)
      BY <2>1 DEF CreateRecord
    <3>2. \A f \in FileId : files'[f] = files[f] \/ Inserts(f)
      BY <1>1, <2>1, <3>1 DEF Inserts
    <3>3. nextFile' = nextFile + 1
      BY <1>1, <3>1
    <3> QED BY <1>0, <3>2, <3>3
  <2>2. CASE UploadInsert
    <3>1. InsertRow("pending_upload", 0)
      BY <2>2 DEF UploadInsert
    <3>2. \A f \in FileId : files'[f] = files[f] \/ Inserts(f)
      BY <1>1, <2>2, <3>1 DEF Inserts
    <3>3. nextFile' = nextFile + 1
      BY <1>1, <3>1
    <3> QED BY <1>0, <3>2, <3>3
  <2> QED BY <1>5, <2>1, <2>2
<1>6. CASE UploadPath
  BY <1>0, <1>3, <1>6 DEF UploadPath, Writes
<1>7. ASSUME NEW t \in Thread, DeleteRow(t)
      PROVE  Goal
  BY <1>0, <1>7 DEF DeleteRow, Drops
<1>8. ASSUME NEW t \in Thread, EditWrite(t)
      PROVE  Goal
  <2>1. /\ files' = WithRow(threads[t].file, threads[t].status, threads[t].rel)
        /\ nextFile' = nextFile /\ edited' = edited \cup {threads[t].file}
    BY <1>8 DEF EditWrite
  <2>2. \A f \in FileId : files'[f] = files[f] \/ (Present(f) /\ Writes(f))
    <3> SUFFICES ASSUME NEW f \in FileId, files'[f] # files[f]
                 PROVE  Present(f) /\ Writes(f)
      OBVIOUS
    <3>1. /\ f = threads[t].file /\ Present(f)
          /\ files'[f] = [status |-> threads[t].status, rel |-> threads[t].rel]
      BY <1>3, <2>1
    <3> QED BY <1>8, <2>1, <3>1, Zenon DEF Writes
  <2> QED BY <1>0, <2>1, <2>2
<1>9. ASSUME NEW t \in Thread, DownloadMark(t)
      PROVE  Goal
  <2>1. threads[t].file \in FileId
    BY <1>9 DEF WfInv, HandlersWf, HandlerWf, DownloadMark, Downloading
  <2>2. files' = WithStatus(threads[t].file, "pending_download") /\ nextFile' = nextFile
    BY <1>9 DEF DownloadMark
  <2>3. \A f \in FileId : files'[f] = files[f] \/ Marks(f)
    BY <1>2, <1>9, <2>1, <2>2 DEF Marks
  <2> QED BY <1>0, <2>2, <2>3
<1>10. ASSUME NEW t \in Thread, BeatWrite(t)
       PROVE  Goal
  <2>1. CASE threads[t].file = 0
    <3>1. InsertRow("active", threads[t].rel)
      BY <1>10, <2>1 DEF BeatWrite
    <3>2. \A f \in FileId : files'[f] = files[f] \/ Inserts(f)
      <4>1. \A f \in FileId :
              \/ files'[f] = files[f]
              \/ /\ f = nextFile
                 /\ files'[f] = [status |-> "active", rel |-> threads[t].rel]
        BY <1>1, <3>1
      <4>2. nextFile' = nextFile + 1
        BY <1>1, <3>1
      <4> QED BY <1>10, <2>1, <4>1, <4>2 DEF Inserts
    <3>3. nextFile' = nextFile + 1
      BY <1>1, <3>1
    <3> QED BY <1>0, <3>2, <3>3
  <2>2. CASE threads[t].file # 0 /\ Present(threads[t].file)
    <3>1. threads[t].file \in FileId
      BY <1>0, <2>2, BoundAssumption DEF Handler, FileId
    <3>2. files' = WithStatus(threads[t].file, "active") /\ nextFile' = nextFile
      BY <1>10, <2>2 DEF BeatWrite
    <3>3. \A f \in FileId : files'[f] = files[f] \/ Marks(f)
      BY <1>2, <1>10, <3>1, <3>2 DEF Marks
    <3> QED BY <1>0, <3>2, <3>3
  <2>3. CASE threads[t].file # 0 /\ ~Present(threads[t].file)
    BY <1>4, <1>10, <2>3 DEF BeatWrite
  <2> QED BY <2>1, <2>2, <2>3
<1>11. ASSUME NEW t \in Thread, CompleteStatus(t)
       PROVE  Goal
  <2>1. threads[t].job \in 1..Len(jobs)
    BY <1>11 DEF WfInv, HandlersWf, HandlerWf, CompleteStatus, Completing
  <2>2. jobs[threads[t].job].file \in FileId
    BY <2>1, JobTyped DEF Job
  <2>3. /\ nextFile' = nextFile
        /\ \/ files' = WithStatus(jobs[threads[t].job].file, "error")
           \/ files' = files
           \/ /\ threads[t].ok /\ jobs[threads[t].job].type # "delete_file"
              /\ files' = WithStatus(jobs[threads[t].job].file, "active")
    BY <1>11 DEF CompleteStatus
  <2>4. \A f \in FileId : files'[f] = files[f] \/ Marks(f)
    BY <1>2, <1>11, <2>2, <2>3 DEF Marks
  <2> QED BY <1>0, <2>3, <2>4
<1> QED BY <1>4, <1>5, <1>6, <1>7, <1>8, <1>9, <1>10, <1>11, RowWriters

\* What a handler holds of a row it keeps, gives up or has just read.
LEMMA ThreadRowEffect ==
  ASSUME WfInv, [Next]_vars, NEW t \in Thread
  PROVE  \/ /\ threads'[t].file = threads[t].file /\ threads'[t].rel = threads[t].rel
            /\ threads'[t].pc \in PathHolding => threads[t].pc \in PathHolding
            /\ threads'[t].pc = "edit_write" => threads[t].pc = "edit_write"
         \/ threads'[t].file = 0
         \/ /\ threads'[t].file \in FileId /\ Present(threads'[t].file)
            /\ threads'[t].rel = files[threads'[t].file].rel
            /\ UNCHANGED <<files, nextFile>>
<1>0. /\ threads \in [Thread -> Handler] /\ threads[t] \in Handler /\ Idle \in Handler
      /\ Idle.file = 0
  BY StartTypes DEF WfInv, TypeOK, Idle
<1> DEFINE Goal ==
     \/ /\ threads'[t].file = threads[t].file /\ threads'[t].rel = threads[t].rel
        /\ threads'[t].pc \in PathHolding => threads[t].pc \in PathHolding
        /\ threads'[t].pc = "edit_write" => threads[t].pc = "edit_write"
     \/ threads'[t].file = 0
     \/ /\ threads'[t].file \in FileId /\ Present(threads'[t].file)
        /\ threads'[t].rel = files[threads'[t].file].rel
        /\ UNCHANGED <<files, nextFile>>
<1>1. CASE threads'[t] = threads[t]
  BY <1>1
<1>2. CASE threads'[t] = Idle
  BY <1>0, <1>2
<1>3. ASSUME NEW f \in FileId, DeleteRead(t, f)
      PROVE  Goal
  BY <1>0, <1>3 DEF DeleteRead, Goto, Idle, server
<1>4. ASSUME NEW f \in FileId, NEW proxied \in BOOLEAN, DownloadRead(t, f, proxied)
      PROVE  Goal
  BY <1>0, <1>4 DEF DownloadRead, Goto, Idle, server, Stored
<1>5. ASSUME NEW f \in FileId, NEW s, EditRead(t, f, s)
      PROVE  Goal
  BY <1>0, <1>5 DEF EditRead, Goto, Idle, server
<1>6. CASE HandlerStep(t)
  <2>1. CASE DeleteQueueJob(t) \/ DeleteListBlobs(t) \/ DeleteBlobs(t) \/ DownloadMark(t)
             \/ CompleteJob(t) \/ CompleteBlob(t)
    <3>1. ASSUME NEW pc \in HandlerPc, Goto(t, [threads[t] EXCEPT !.pc = pc])
          PROVE  /\ threads'[t].file = threads[t].file /\ threads'[t].rel = threads[t].rel
                 /\ threads'[t].pc = pc
      BY <1>0, <3>1 DEF Goto, Handler
    <3>2. ASSUME NEW pc \in HandlerPc, NEW held,
                 Goto(t, [threads[t] EXCEPT !.pc = pc, !.temps = held])
          PROVE  /\ threads'[t].file = threads[t].file /\ threads'[t].rel = threads[t].rel
                 /\ threads'[t].pc = pc
      BY <1>0, <3>2 DEF Goto, Handler
    <3> QED
      BY <2>1, <3>1, <3>2 DEF DeleteQueueJob, DeleteListBlobs, DeleteBlobs, DownloadMark,
                              CompleteJob, CompleteBlob, PathHolding, Downloading, HandlerPc
  <2>2. CASE DeleteRow(t) \/ DownloadQueueJob(t) \/ EditWrite(t) \/ FetchTake(t) \/ CompleteStatus(t)
    BY <1>0, <2>2 DEF DeleteRow, DownloadQueueJob, EditWrite, FetchTake, CompleteStatus, Done, Goto
  <2>3. CASE BeatRead(t)
    <3>1. ASSUME NEW r \in threads[t].todo, NEW f \in 0..MaxFile, GetByStorage(r, f),
                 Goto(t, [threads[t] EXCEPT !.pc = "beat_write", !.rel = r, !.file = f,
                                            !.todo = @ \ {r}])
          PROVE  Goal
      <4>1. threads'[t].file = f /\ threads'[t].rel = r
        BY <1>0, <3>1 DEF Goto, Handler
      <4>2. CASE f # 0
        <5>1. f \in RowsOf(r)
          BY <3>1, <4>2 DEF GetByStorage
        <5>2. UNCHANGED <<files, nextFile>>
          BY <2>3 DEF BeatRead, server
        <5> QED BY <4>1, <5>1, <5>2 DEF RowsOf
      <4> QED BY <4>1, <4>2
    <3> QED BY <1>0, <2>3, <3>1 DEF BeatRead, Done, Goto
  <2>4. CASE BeatWrite(t)
    BY <1>0, <2>4 DEF BeatWrite, Done, Goto, Idle
  <2>5. CASE FetchSelect(t)
    BY <1>0, <2>5 DEF FetchSelect, Done, Goto, Idle
  <2> QED BY <1>6, <2>1, <2>2, <2>3, <2>4, <2>5 DEF HandlerStep
<1>7. CASE SendHeartbeat(t) \/ SendFetch(t) \/ SendReport(t)
  <2>1. SendHeartbeat(t) => threads'[t].file = 0
    BY <1>0 DEF SendHeartbeat, Goto, Idle
  <2>2. SendFetch(t) => threads'[t].file = 0
    BY <1>0 DEF SendFetch, Goto, Idle
  <2>3. SendReport(t) => threads'[t].file = 0
    BY <1>0 DEF SendReport, Goto, Idle
  <2> QED BY <1>7, <2>1, <2>2, <2>3
<1> QED BY <1>1, <1>2, <1>3, <1>4, <1>5, <1>6, <1>7, ThreadEffect

\* A job is about the row of the upload or the one its handler has read.
LEMMA NewJob ==
  ASSUME WfInv, [Next]_vars, NEW j \in 1..Len(jobs'), j \notin 1..Len(jobs)
  PROVE  \/ UploadJob /\ jobs'[j].file = up.file /\ jobs'[j].rel = up.file
         \/ \E t \in Thread : /\ threads[t].pc \in PathHolding /\ threads[t].file \in FileId
                              /\ jobs'[j].file = threads[t].file
                              /\ jobs'[j].rel = threads[t].rel
                              /\ UNCHANGED <<files, nextFile, up>>
<1>1. Len(jobs) \in Nat
  BY LenProperties DEF WfInv, TypeOK
<1>2. Len(jobs') # Len(jobs)
  BY <1>1
<1>3. CASE UploadJob
  <2>1. j = Len(jobs) + 1
    BY <1>1, <1>3, UploadJobAppends DEF WfInv
  <2> QED BY <1>3, <2>1, UploadJobAppends DEF WfInv
<1>4. ASSUME NEW t \in Thread, DeleteQueueJob(t)
      PROVE  /\ threads[t].pc \in PathHolding /\ threads[t].file \in FileId
             /\ jobs'[j].file = threads[t].file /\ jobs'[j].rel = threads[t].rel
             /\ UNCHANGED <<files, nextFile, up>>
  <2>1. j = Len(jobs) + 1
    BY <1>1, <1>4, DeleteQueueJobAppends DEF WfInv
  <2>2. /\ threads[t].pc = "delete_queue" /\ UNCHANGED <<files, nextFile, up>>
        /\ threads[t].file \in FileId
    BY <1>4 DEF DeleteQueueJob, WfInv, HandlersWf, HandlerWf, Deleting
  <2> QED BY <1>4, <2>1, <2>2, DeleteQueueJobAppends DEF WfInv, PathHolding
<1>5. ASSUME NEW t \in Thread, DownloadQueueJob(t)
      PROVE  /\ threads[t].pc \in PathHolding /\ threads[t].file \in FileId
             /\ jobs'[j].file = threads[t].file /\ jobs'[j].rel = threads[t].rel
             /\ UNCHANGED <<files, nextFile, up>>
  <2>1. j = Len(jobs) + 1
    BY <1>1, <1>5, DownloadQueueJobAppends DEF WfInv
  <2>2. /\ threads[t].pc = "download_queue" /\ UNCHANGED <<files, nextFile, up>>
        /\ threads[t].file \in FileId
    BY <1>5 DEF DownloadQueueJob, WfInv, HandlersWf, HandlerWf, Downloading
  <2> QED BY <1>5, <2>1, <2>2, DownloadQueueJobAppends DEF WfInv, PathHolding, Downloading
<1>6. ASSUME NEW t \in Thread, FetchTake(t) \/ CompleteJob(t)
      PROVE  FALSE
  BY <1>2, <1>6, FetchTakeMarks, CompleteJobMarks DEF WfInv
<1> QED BY <1>2, <1>3, <1>4, <1>5, <1>6, JobWriters

-----------------------------------------------------------------------------
(* Rows and their paths *)

\* The numbers of rows.
LEMMA RowTypes ==
  ASSUME WfInv
  PROVE  /\ nextFile \in Nat /\ nextFile >= 1 /\ FileId \subseteq Nat /\ 0 \notin FileId
         /\ files \in [FileId -> Row] /\ NoRow.status = "absent" /\ NoRow.rel = 0
         /\ threads \in [Thread -> Handler] /\ Len(jobs) \in Nat
         /\ \A j \in 1..Len(jobs) : jobs[j] \in Job
<1>1. nextFile \in Nat /\ nextFile >= 1 /\ FileId \subseteq Nat /\ 0 \notin FileId
  BY BoundAssumption DEF WfInv, TypeOK, FileId
<1>2. Len(jobs) \in Nat
  BY LenProperties DEF WfInv, TypeOK
<1> QED BY <1>1, <1>2, JobTyped DEF NoRow, WfInv, TypeOK

LEMMA RowsKnownStep ==
  ASSUME WfInv, RowsKnown, [Next]_vars
  PROVE  RowsKnown'
<1>0. nextFile' \in Nat /\ nextFile' >= 1 /\ nextFile' >= nextFile
  BY WfStep, RowTypes, RowEffect DEF WfInv, TypeOK
<1>1. ASSUME NEW f \in FileId, f >= nextFile'
      PROVE  files'[f] = NoRow
  <2>1. f >= nextFile /\ f \in Nat /\ files[f] = NoRow
    BY <1>0, <1>1, RowTypes DEF RowsKnown
  <2>2. ~ Present(f)
    BY <2>1, RowTypes DEF Present
  <2>3. ~ Inserts(f)
    BY <1>0, <1>1, RowTypes DEF Inserts
  <2> QED BY <2>1, <2>2, <2>3, RowEffect DEF Marks, Drops
<1>2. ASSUME NEW t \in Thread
      PROVE  threads'[t].file < nextFile'
  <2>1. threads[t].file < nextFile /\ threads[t].file \in Nat
    BY RowTypes, BoundAssumption DEF RowsKnown, Handler
  <2>2. \A f \in FileId : Present(f) => f < nextFile
    BY RowTypes DEF RowsKnown, Present
  <2> QED BY <1>0, <2>1, <2>2, RowTypes, ThreadRowEffect
<1>3. ASSUME NEW j \in 1..Len(jobs')
      PROVE  jobs'[j].file < nextFile'
  <2>1. CASE j \in 1..Len(jobs)
    <3>1. jobs[j].file < nextFile /\ jobs'[j].file = jobs[j].file /\ jobs[j].file \in Nat
      BY <2>1, JobsOnlyGrow, RowTypes DEF WfInv, RowsKnown, Job
    <3> QED BY <1>0, <3>1, RowTypes
  <2>2. CASE j \notin 1..Len(jobs)
    <3>1. CASE UploadJob
      <4>1. up.file < nextFile /\ up.file \in Nat
        BY <3>1, RowTypes DEF UploadJob, WfInv, UploadWf, HoldingFile
      <4>2. jobs'[j].file = up.file
        <5>1. Len(jobs') = Len(jobs) + 1 /\ jobs'[Len(jobs) + 1].file = up.file
          BY <3>1, UploadJobAppends DEF WfInv
        <5>2. j = Len(jobs) + 1
          BY <2>2, <5>1, RowTypes
        <5> QED BY <5>1, <5>2
      <4> QED BY <1>0, <4>1, <4>2, RowTypes
    <3>2. CASE ~ UploadJob
      <4>1. PICK t \in Thread : threads[t].file \in FileId /\ jobs'[j].file = threads[t].file
        BY <2>2, <3>2, NewJob
      <4>2. threads[t].file < nextFile
        BY DEF RowsKnown
      <4> QED BY <1>0, <4>1, <4>2, RowTypes
    <3> QED BY <3>1, <3>2
  <2> QED BY <2>1, <2>2
<1> QED BY <1>1, <1>2, <1>3 DEF RowsKnown

\* A handler of a path holds one.
LEMMA HoldersHavePath ==
  ASSUME WfInv, NEW t \in Thread, threads[t].pc \in PathHolding
  PROVE  threads[t].rel \in FileId /\ threads[t].rel # 0
  BY RowTypes DEF WfInv, HandlersWf, HandlerWf, PathHolding, Downloading

\* The row of an upload that is under way.
LEMMA UploadMoves ==
  ASSUME WfInv, [Next]_vars, up'.pc \in {"read", "path"}
  PROVE  \/ UploadInsert /\ up'.pc = "read" /\ up'.file = nextFile
         \/ UploadRead /\ up'.pc = "path" /\ up'.file = up.file /\ up.pc = "read"
            /\ Present(up.file) /\ up'.status = files[up.file].status
         \/ UNCHANGED up
<1>1. up \in Upload
  BY DEF WfInv, TypeOK
<1>2. CASE UploadReceive \/ UploadPath \/ UploadBlob
  <2>1. UploadReceive => up'.pc = "insert"
    BY DEF UploadReceive, NoUpload
  <2>2. UploadPath => up'.pc = "blob"
    BY <1>1 DEF UploadPath, Upload
  <2>3. UploadBlob => up'.pc \in {"job", "idle"}
    BY <1>1 DEF UploadBlob, Upload, NoUpload
  <2> QED BY <1>2, <2>1, <2>2, <2>3
<1>3. CASE UploadRead
  BY <1>1, <1>3 DEF UploadRead, NoUpload, Upload
<1>4. CASE UploadInsert
  BY <1>1, <1>4 DEF UploadInsert, Upload
<1>5. CASE UNCHANGED up
  BY <1>5
<1> QED
  BY <1>2, <1>3, <1>4, <1>5, UploadEffect DEF HoldingFile

LEMMA UploadUnseenStep ==
  ASSUME WfInv, RowsKnown, UploadUnseen, [Next]_vars
  PROVE  UploadUnseen'
<1> SUFFICES ASSUME up'.pc \in {"read", "path"}
             PROVE  /\ files'[up'.file].rel = 0
                    /\ files'[up'.file].status \in {"pending_upload", "absent"} \/ up'.file \in edited'
                    /\ up'.pc = "path" => up'.status = "pending_upload" \/ up'.file \in edited'
                    /\ \A t \in Thread : threads'[t].file = up'.file => threads'[t].rel = 0
                    /\ \A j \in 1..Len(jobs') : jobs'[j].file # up'.file
  BY DEF UploadUnseen
<1>0. edited \subseteq edited' /\ up \in Upload
  BY EditedGrows DEF WfInv, TypeOK
<1>1. CASE UploadInsert
  <2>1. /\ up'.file = nextFile /\ up'.pc = "read" /\ nextFile \in FileId
        /\ files' = [files EXCEPT ![nextFile] = [status |-> "pending_upload", rel |-> 0]]
        /\ threads' = threads /\ jobs' = jobs
    <3>1. nextFile \in FileId
      BY <1>1, BoundAssumption DEF UploadInsert, InsertRow, WfInv, TypeOK, FileId
    <3> QED BY <1>0, <1>1, <3>1 DEF UploadInsert, InsertRow, Upload
  <2>2. \A t \in Thread : threads[t].file # nextFile
    BY RowTypes DEF RowsKnown
  <2>3. \A j \in 1..Len(jobs) : jobs[j].file # nextFile
    BY RowTypes DEF RowsKnown
  <2>4. files'[nextFile] = [status |-> "pending_upload", rel |-> 0]
    BY <2>1, RowTypes
  <2> QED BY <2>1, <2>2, <2>3, <2>4
<1>2. CASE UploadRead
  <2>1. /\ up'.pc = "path" /\ up'.file = up.file /\ up.pc = "read"
        /\ Present(up.file) /\ up'.status = files[up.file].status
    <3>1. ~ UploadInsert /\ up' # up
      <4>1. up.pc = "read" /\ up'.pc # "read"
        BY <1>0, <1>2 DEF UploadRead, NoUpload, Upload
      <4> QED BY <4>1 DEF UploadInsert
    <3> QED BY <3>1, UploadMoves
  <2>2. UNCHANGED <<files, threads, jobs, edited>>
    BY <1>2 DEF UploadRead, server, history
  <2> QED BY <2>1, <2>2 DEF UploadUnseen, Present
<1>3. CASE UNCHANGED up
  <2> DEFINE f == up.file
  <2>1. /\ up.pc \in {"read", "path"} /\ f \in FileId /\ f < nextFile /\ f # 0
        /\ files[f].rel = 0
        /\ files[f].status \in {"pending_upload", "absent"} \/ f \in edited
        /\ up.pc = "path" => up.status = "pending_upload" \/ f \in edited
        /\ \A t \in Thread : threads[t].file = f => threads[t].rel = 0
        /\ \A j \in 1..Len(jobs) : jobs[j].file # f
    BY <1>3, RowTypes DEF UploadUnseen, WfInv, UploadWf, HoldingFile
  <2> HIDE DEF f
  <2>2. \A t \in Thread : threads'[t].file = f => threads'[t].rel = 0
    BY <2>1, ThreadRowEffect
  <2>3. ASSUME NEW j \in 1..Len(jobs')
        PROVE  jobs'[j].file # f
    <3>1. CASE j \in 1..Len(jobs)
      BY <2>1, <3>1, JobsOnlyGrow DEF WfInv
    <3>2. CASE j \notin 1..Len(jobs)
      <4>1. ~ UploadJob
        BY <2>1 DEF UploadJob
      <4>2. PICK t \in Thread : threads[t].pc \in PathHolding /\ jobs'[j].file = threads[t].file
        BY <3>2, <4>1, NewJob
      <4> QED BY <2>1, <4>2, HoldersHavePath
    <3> QED BY <3>1, <3>2
  <2>4. /\ files'[f].rel = 0
        /\ files'[f].status \in {"pending_upload", "absent"} \/ f \in edited'
    <3>1. CASE files'[f] = files[f]
      BY <1>0, <2>1, <3>1
    <3>2. CASE Inserts(f)
      BY <2>1, <3>2, RowTypes DEF Inserts
    <3>3. CASE Marks(f)
      <4>1. PICK t \in Thread :
              \/ DownloadMark(t) /\ f = threads[t].file
              \/ BeatWrite(t) /\ f = threads[t].file
              \/ CompleteStatus(t) /\ f = jobs[threads[t].job].file
        BY <3>3 DEF Marks
      <4>2. CASE threads[t].pc \in PathHolding /\ f = threads[t].file
        BY <2>1, <4>2, HoldersHavePath
      <4>3. CASE CompleteStatus(t) /\ f = jobs[threads[t].job].file
        <5>1. threads[t].job \in 1..Len(jobs)
          BY <4>3 DEF WfInv, HandlersWf, HandlerWf, CompleteStatus, Completing
        <5> QED BY <2>1, <4>3, <5>1
      <4> QED BY <4>1, <4>2, <4>3 DEF DownloadMark, BeatWrite, PathHolding, Downloading
    <3>4. CASE Writes(f)
      <4>1. ~ UploadPath
        <5>1. UploadPath => up.pc = "path" /\ up'.pc = "blob"
          BY <1>0 DEF UploadPath, Upload
        <5> QED BY <1>3, <5>1
      <4>2. PICK t \in Thread :
              /\ EditWrite(t) /\ f = threads[t].file
              /\ files'[f] = [status |-> threads[t].status, rel |-> threads[t].rel]
              /\ edited' = edited \cup {f}
        BY <3>4, <4>1 DEF Writes
      <4> QED BY <2>1, <4>2
    <3>5. CASE Drops(f)
      BY <3>5, RowTypes DEF Drops
    <3> QED BY <2>1, <3>1, <3>2, <3>3, <3>4, <3>5, RowEffect
  <2>5. up' = up /\ f = up.file
    BY <1>3 DEF f
  <2> QED BY <1>0, <2>1, <2>2, <2>3, <2>4, <2>5
<1> QED BY <1>1, <1>2, <1>3, UploadMoves

\* Only the upload of a row and edits change the path of a row that is there.
LEMMA FitsKept ==
  ASSUME WfInv, RowsKnown, [Next]_vars, NEW f \in FileId, NEW r, f < nextFile,
         FitsRow(f, r), ~ (UploadPath /\ f = up.file)
  PROVE  files'[f].rel = r \/ files'[f].status = "absent" \/ f \in edited'
<1>1. \/ files[f].rel = r \/ files[f].status = "absent" \/ f \in edited
  BY DEF FitsRow, Present
<1>2. edited \subseteq edited'
  BY EditedGrows
<1>3. CASE files'[f] = files[f]
  BY <1>1, <1>2, <1>3
<1>4. CASE Inserts(f)
  BY <1>4, RowTypes DEF Inserts
<1>5. CASE Marks(f)
  BY <1>1, <1>2, <1>5 DEF Marks, Present
<1>6. CASE Writes(f)
  BY <1>6 DEF Writes
<1>7. CASE Drops(f)
  BY <1>7, RowTypes DEF Drops
<1> QED BY <1>3, <1>4, <1>5, <1>6, <1>7, RowEffect

LEMMA PathsFitStep ==
  ASSUME WfInv, RowsKnown, UploadUnseen, PathsFit, [Next]_vars
  PROVE  PathsFit'
<1>0. edited \subseteq edited' /\ up \in Upload
  BY EditedGrows DEF WfInv, TypeOK
<1>1. ASSUME NEW t \in Thread, threads'[t].pc \in PathHolding, threads'[t].file # 0
      PROVE  FitsRow(threads[t].file, threads[t].rel)'
  <2> DEFINE f == threads[t].file
             r == threads[t].rel
  <2>1. CASE threads[t].pc \in PathHolding /\ threads'[t].file = f /\ threads'[t].rel = r
    <3>1. f \in FileId /\ f < nextFile /\ FitsRow(f, r)
      BY <1>1, <2>1, RowTypes, BoundAssumption DEF RowsKnown, PathsFit, Handler, FileId
    <3>2. ~ (UploadPath /\ f = up.file)
      BY <2>1, HoldersHavePath DEF UploadPath, UploadUnseen
    <3>3. files'[f].rel = r \/ files'[f].status = "absent" \/ f \in edited'
      BY <3>1, <3>2, FitsKept
    <3> QED BY <2>1, <3>3 DEF FitsRow, Present
  <2>2. CASE /\ threads'[t].rel = files[threads'[t].file].rel /\ UNCHANGED <<files, nextFile>>
    BY <2>2 DEF FitsRow
  <2> QED BY <1>1, <2>1, <2>2, ThreadRowEffect
<1>2. ASSUME NEW j \in 1..Len(jobs')
      PROVE  FitsRow(jobs[j].file, jobs[j].rel)'
  <2>1. CASE j \in 1..Len(jobs)
    <3>1. jobs'[j].file = jobs[j].file /\ jobs'[j].rel = jobs[j].rel
      BY <2>1, JobsOnlyGrow DEF WfInv
    <3>2. /\ jobs[j].file \in FileId /\ jobs[j].file < nextFile
          /\ FitsRow(jobs[j].file, jobs[j].rel)
      BY <2>1, RowTypes DEF RowsKnown, PathsFit, Job
    <3>3. ~ (UploadPath /\ jobs[j].file = up.file)
      BY <2>1 DEF UploadPath, UploadUnseen
    <3>4. \/ files'[jobs[j].file].rel = jobs[j].rel
          \/ files'[jobs[j].file].status = "absent" \/ jobs[j].file \in edited'
      BY <3>2, <3>3, FitsKept
    <3> QED BY <3>1, <3>4 DEF FitsRow, Present
  <2>2. CASE j \notin 1..Len(jobs)
    <3>1. CASE UploadJob
      <4>1. Len(jobs') = Len(jobs) + 1 /\ j = Len(jobs) + 1
        BY <2>2, <3>1, UploadJobAppends, RowTypes DEF WfInv
      <4>2. jobs'[j].file = up.file /\ jobs'[j].rel = up.file
        BY <3>1, <4>1, UploadJobAppends DEF WfInv
      <4>3. files' = files /\ FitsRow(up.file, up.file)
        BY <3>1 DEF UploadJob, PathsFit
      <4> QED BY <1>0, <4>2, <4>3 DEF FitsRow, Present
    <3>2. CASE ~ UploadJob
      <4>1. PICK t \in Thread : /\ threads[t].pc \in PathHolding /\ threads[t].file \in FileId
                                /\ jobs'[j].file = threads[t].file
                                /\ jobs'[j].rel = threads[t].rel
                                /\ files' = files
        BY <2>2, <3>2, NewJob
      <4>2. FitsRow(threads[t].file, threads[t].rel)
        BY <4>1, RowTypes DEF PathsFit
      <4> QED BY <1>0, <4>1, <4>2 DEF FitsRow, Present
    <3> QED BY <3>1, <3>2
  <2> QED BY <2>1, <2>2
<1>3. ASSUME up'.pc \in {"blob", "job"}
      PROVE  FitsRow(up.file, up.file)'
  <2>1. CASE UploadPath
    <3>1. up.file \in FileId /\ up'.file = up.file /\ files' = WithRow(up.file, up.status, up.file)
      BY <1>0, <2>1 DEF UploadPath, Upload, WfInv, UploadWf, HoldingFile
    <3> QED BY <3>1, RowTypes DEF WithRow, FitsRow, Present
  <2>2. CASE UploadBlob
    <3>1. up.pc = "blob" /\ up'.file = up.file /\ files' = files
      BY <1>0, <1>3, <2>2 DEF UploadBlob, Upload, NoUpload
    <3> QED BY <1>0, <3>1 DEF FitsRow, Present, PathsFit
  <2>3. CASE UNCHANGED up
    <3>1. ~ UploadPath
      BY <1>0, <2>3 DEF UploadPath, Upload
    <3>2. up.file \in FileId /\ up.file < nextFile /\ FitsRow(up.file, up.file)
      BY <1>3, <2>3 DEF WfInv, UploadWf, HoldingFile, PathsFit
    <3>3. files'[up.file].rel = up.file \/ files'[up.file].status = "absent" \/ up.file \in edited'
      BY <3>1, <3>2, FitsKept
    <3> QED BY <2>3, <3>3 DEF FitsRow, Present
  <2>4. UploadReceive => up'.pc = "insert"
    BY DEF UploadReceive, NoUpload
  <2>5. UploadInsert => up'.pc = "read"
    BY <1>0 DEF UploadInsert, Upload
  <2>6. UploadRead => up'.pc \in {"path", "idle"}
    BY <1>0 DEF UploadRead, Upload, NoUpload
  <2> QED BY <1>3, <2>1, <2>2, <2>3, <2>4, <2>5, <2>6, UploadEffect
<1> QED BY <1>1, <1>2, <1>3 DEF PathsFit

LEMMA EditsFitStep ==
  ASSUME WfInv, RowsKnown, UploadUnseen, EditsFit, [Next]_vars
  PROVE  EditsFit'
\* An edit that goes on, or one that has just read its row.
<1>1. ASSUME NEW t \in Thread, Editing(t)'
      PROVE  /\ threads'[t].file \in FileId
             /\ \/ /\ Editing(t) /\ threads'[t].file = threads[t].file
                   /\ threads'[t].rel = threads[t].rel
                \/ /\ threads'[t].rel = files[threads'[t].file].rel /\ files' = files
  <2>1. threads'[t].file \in FileId
    BY <1>1, WfStep DEF WfInv, HandlersWf, HandlerWf, Editing
  <2> QED BY <1>1, <2>1, RowTypes, ThreadRowEffect DEF Editing
<1>2. ASSUME NEW t \in Thread, Editing(t)'
      PROVE  files'[threads'[t].file].rel \in {0, threads'[t].rel}
  <2>1. CASE threads'[t].rel = files[threads'[t].file].rel /\ files' = files
    BY <2>1
  <2>2. CASE /\ Editing(t) /\ threads'[t].file = threads[t].file
             /\ threads'[t].rel = threads[t].rel
    <3> DEFINE f == threads[t].file
               r == threads[t].rel
    <3>1. f \in FileId /\ f < nextFile /\ files[f].rel \in {0, r} /\ r # 0
      BY <1>1, <1>2, <2>2 DEF RowsKnown, EditsFit, Editing
    <3>2. CASE files'[f] = files[f] \/ Marks(f)
      BY <2>2, <3>1, <3>2 DEF Marks
    <3>3. CASE Inserts(f)
      BY <3>1, <3>3, RowTypes DEF Inserts
    <3>4. CASE Drops(f)
      BY <2>2, <3>4, RowTypes DEF Drops
    <3>5. CASE Writes(f)
      <4>1. ~ (UploadPath /\ f = up.file)
        BY <3>1 DEF UploadPath, UploadUnseen
      <4>2. PICK u \in Thread :
              /\ EditWrite(u) /\ f = threads[u].file
              /\ files'[f] = [status |-> threads[u].status, rel |-> threads[u].rel]
        BY <3>5, <4>1 DEF Writes
      <4>3. threads[u].rel \in {0, r}
        BY <2>2, <4>2 DEF EditWrite, EditsFit, Editing
      <4> QED BY <2>2, <4>2, <4>3
    <3> QED BY <3>1, <3>2, <3>3, <3>4, <3>5, RowEffect
  <2> QED BY <1>1, <1>2, <2>1, <2>2
<1>3. ASSUME NEW t \in Thread, NEW u \in Thread, Editing(t)', Editing(u)',
             threads'[u].file = threads'[t].file
      PROVE  threads'[u].rel = threads'[t].rel
  <2> DEFINE Goes(v) == /\ Editing(v) /\ threads'[v].file = threads[v].file
                        /\ threads'[v].rel = threads[v].rel
             Reads(v) == threads'[v].rel = files[threads'[v].file].rel /\ files' = files
  <2>1. threads'[t].rel # 0 /\ threads'[u].rel # 0
    BY <1>3 DEF Editing
  <2>2. CASE Goes(t) /\ Goes(u)
    BY <1>3, <2>2 DEF EditsFit
  <2>3. CASE Reads(t)
    BY <1>2, <1>3, <2>1, <2>3
  <2>4. CASE Reads(u)
    BY <1>2, <1>3, <2>1, <2>4
  <2>5. (Goes(t) \/ Reads(t)) /\ (Goes(u) \/ Reads(u))
    BY <1>1, <1>3
  <2> HIDE DEF Goes, Reads
  <2> QED BY <2>2, <2>3, <2>4, <2>5
<1> QED BY <1>2, <1>3 DEF EditsFit

-----------------------------------------------------------------------------
(* The agent and the handler it waits for *)

Beating  == {"beat_read", "beat_write"}
Fetching == {"fetch_select", "fetch_take"}
Awaiting == {"beat_wait", "fetch_wait", "report_wait"}

\* The agent a and the handlers h fit together.
Awaits(a, h) ==
  /\ a.pc = "beat_wait" => a.slot \in Thread /\ h[a.slot].pc \in Beating
  /\ a.pc = "fetch_wait" => a.slot \in Thread /\ h[a.slot].pc \in Fetching
  /\ a.pc = "report_wait" =>
       a.slot \in Thread /\ h[a.slot].pc \in Completing /\ h[a.slot].job = a.job
  /\ a.pc \notin Awaiting => a.slot = NoThread
  /\ a.pc \notin WithJob => a.job = 0

LEMMA AgentAwaitsStep ==
  ASSUME WfInv, AgentAwaits, [Next]_vars
  PROVE  AgentAwaits'
<1>0. /\ agent \in Agent /\ threads \in [Thread -> Handler] /\ Awaits(agent, threads)
      /\ threads' \in [Thread -> Handler]
  BY WfStep DEF WfInv, TypeOK, AgentAwaits, Awaits, Beating, Fetching, Awaiting
<1> SUFFICES Awaits(agent', threads')
  BY DEF AgentAwaits, Awaits, Beating, Fetching, Awaiting
<1>1. CASE Loop
  BY <1>1 DEF Loop, AgentStart, Awaits, Awaiting, WithJob
\* The handler of another request moves.
<1>2. ASSUME NEW t \in Thread, NEW h, Goto(t, h), agent' = agent, agent.slot # t
      PROVE  Awaits(agent', threads')
  <2>1. agent.slot \in Thread => threads'[agent.slot] = threads[agent.slot]
    BY <1>0, <1>2 DEF Goto
  <2> QED BY <1>0, <1>2, <2>1 DEF Awaits
\* A handler that is none of the three kinds is not awaited.
<1>3. ASSUME NEW t \in Thread, agent.slot = t
      PROVE  threads[t].pc \in Beating \cup Fetching \cup Completing
  BY <1>0, <1>3, ThreadAssumption DEF Awaits, Awaiting
<1>4. ASSUME NEW t \in Thread, NEW pc \in {"fetch", "beat"}, NEW h, Goto(t, h), Respond(t, pc)
      PROVE  Awaits(agent', threads')
  <2>1. CASE agent.slot = t
    BY <1>4, <2>1 DEF Respond, AgentStart, Awaits, Awaiting, WithJob
  <2> QED BY <1>2, <1>4, <2>1 DEF Respond
\* A step of the awaited handler.
<1>5. ASSUME NEW t \in Thread, NEW h, Goto(t, h), agent' = agent,
             /\ threads[t].pc \in Beating => h.pc \in Beating
             /\ threads[t].pc \in Fetching => h.pc \in Fetching
             /\ threads[t].pc \in Completing => h.pc \in Completing /\ h.job = threads[t].job
      PROVE  Awaits(agent', threads')
  <2>1. CASE agent.slot = t
    <3>1. threads'[t] = h
      BY <1>0, <1>5 DEF Goto
    <3> QED BY <1>0, <1>5, <2>1, <3>1 DEF Awaits
  <2> QED BY <1>2, <1>5, <2>1
<1>6. ASSUME NEW t \in Thread, HandlerStep(t)
      PROVE  Awaits(agent', threads')
  <2>1. CASE \/ DeleteQueueJob(t) \/ DeleteListBlobs(t) \/ DeleteBlobs(t) \/ DeleteRow(t)
             \/ DownloadMark(t) \/ DownloadQueueJob(t) \/ EditWrite(t)
    <3>1. threads[t].pc \notin Beating \cup Fetching \cup Completing
      BY <2>1 DEF DeleteQueueJob, DeleteListBlobs, DeleteBlobs, DeleteRow, DownloadMark,
                  DownloadQueueJob, EditWrite, Beating, Fetching, Completing
    <3>2. agent' = agent /\ \E h : Goto(t, h)
      BY <2>1 DEF DeleteQueueJob, DeleteListBlobs, DeleteBlobs, DeleteRow, DownloadMark,
                  DownloadQueueJob, EditWrite, Done
    <3> QED BY <1>2, <1>3, <3>1, <3>2
  <2>2. CASE BeatRead(t)
    <3>1. \/ Done(t) /\ Respond(t, "fetch")
          \/ \E r, f : /\ agent' = agent
                       /\ Goto(t, [threads[t] EXCEPT !.pc = "beat_write", !.rel = r, !.file = f,
                                                     !.todo = @ \ {r}])
      BY <2>2 DEF BeatRead
    <3>2. threads[t].pc = "beat_read" /\ threads[t] \in Handler
      BY <1>0, <2>2 DEF BeatRead
    <3>3. ASSUME NEW r, NEW f
          PROVE  [threads[t] EXCEPT !.pc = "beat_write", !.rel = r, !.file = f,
                                    !.todo = @ \ {r}].pc = "beat_write"
      BY <3>2 DEF Handler
    <3> QED BY <1>4, <1>5, <3>1, <3>2, <3>3 DEF Done, Beating, Fetching, Completing
  <2>3. CASE BeatWrite(t)
    <3>1. \/ Done(t) /\ Respond(t, "fetch")
          \/ /\ agent' = agent
             /\ Goto(t, [Idle EXCEPT !.pc = "beat_read", !.todo = threads[t].todo])
      BY <2>3 DEF BeatWrite
    <3>2. threads[t].pc = "beat_write"
      BY <2>3 DEF BeatWrite
    <3>3. [Idle EXCEPT !.pc = "beat_read", !.todo = threads[t].todo].pc = "beat_read"
      BY DEF Idle
    <3> QED BY <1>4, <1>5, <3>1, <3>2, <3>3 DEF Done, Beating, Fetching, Completing
  <2>4. CASE FetchSelect(t)
    <3>1. \/ Done(t) /\ Respond(t, "beat")
          \/ \E j : agent' = agent /\ Goto(t, [Idle EXCEPT !.pc = "fetch_take", !.job = j])
      BY <2>4 DEF FetchSelect
    <3>2. threads[t].pc = "fetch_select"
      BY <2>4 DEF FetchSelect
    <3>3. ASSUME NEW j PROVE [Idle EXCEPT !.pc = "fetch_take", !.job = j].pc = "fetch_take"
      BY DEF Idle
    <3> QED BY <1>4, <1>5, <3>1, <3>2, <3>3 DEF Done, Beating, Fetching, Completing
  <2>5. CASE FetchTake(t)
    <3>1. CASE agent.slot = t
      <4>1. threads[t].job \in 1..Len(jobs) /\ jobs[threads[t].job] \in Job
        BY <2>5, JobTyped DEF FetchTake, WfInv, HandlersWf, HandlerWf
      <4>2. /\ agent'.pc = FirstStep(jobs[threads[t].job].type)
            /\ agent'.slot = NoThread /\ agent'.job = threads[t].job
        BY <1>0, <2>5, <3>1 DEF FetchTake, Agent
      <4>3. agent'.pc \in {"get", "push", "unlink"}
        BY <4>1, <4>2 DEF FirstStep, Job, JobType
      <4> QED BY <4>2, <4>3 DEF Awaits, Awaiting, WithJob
    <3> QED BY <1>2, <2>5, <3>1 DEF FetchTake, Done
  <2>6. CASE CompleteJob(t) \/ CompleteBlob(t)
    <3>1. /\ agent' = agent /\ threads[t].pc \in Completing
          /\ \E pc \in Completing : Goto(t, [threads[t] EXCEPT !.pc = pc])
      BY <2>6 DEF CompleteJob, CompleteBlob, Completing
    <3>2. ASSUME NEW pc
          PROVE  [threads[t] EXCEPT !.pc = pc].pc = pc /\ [threads[t] EXCEPT !.pc = pc].job = threads[t].job
      BY <1>0 DEF Handler
    <3> QED BY <1>5, <3>1, <3>2 DEF Beating, Fetching, Completing
  <2>7. CASE CompleteStatus(t)
    BY <1>4, <2>7 DEF CompleteStatus, Done
  <2> QED BY <1>6, <2>1, <2>2, <2>3, <2>4, <2>5, <2>6, <2>7 DEF HandlerStep
<1>7. ASSUME NEW t \in Thread, SendHeartbeat(t) \/ SendFetch(t) \/ SendReport(t)
      PROVE  Awaits(agent', threads')
  <2>1. CASE SendHeartbeat(t)
    <3>1. /\ agent' = [agent EXCEPT !.pc = "beat_wait", !.slot = t] /\ agent.job = 0
          /\ threads'[t].pc = "beat_read"
      BY <1>0, <2>1 DEF SendHeartbeat, Goto, Idle, Awaits, WithJob
    <3> QED BY <1>0, <3>1 DEF Agent, Awaits, Awaiting, Beating
  <2>2. CASE SendFetch(t)
    <3>1. /\ agent' = [agent EXCEPT !.pc = "fetch_wait", !.slot = t] /\ agent.job = 0
          /\ threads'[t].pc = "fetch_select"
      BY <1>0, <2>2 DEF SendFetch, Goto, Idle, Awaits, WithJob
    <3> QED BY <1>0, <3>1 DEF Agent, Awaits, Awaiting, Fetching
  <2>3. CASE SendReport(t)
    <3>1. /\ agent' = [agent EXCEPT !.pc = "report_wait", !.slot = t]
          /\ threads'[t].pc = "complete_job" /\ threads'[t].job = agent.job
      BY <1>0, <2>3 DEF SendReport, Goto, Idle
    <3> QED BY <1>0, <3>1 DEF Agent, Awaits, Awaiting, Completing, WithJob
  <2> QED BY <1>7, <2>1, <2>2, <2>3
\* The agent works on.
<1>8. ASSUME NEW pc \in WithJob \ Awaiting, agent.pc \in WithJob \ Awaiting, threads' = threads,
             agent' = [agent EXCEPT !.pc = pc] \/ \E ok : agent' = [agent EXCEPT !.pc = pc, !.ok = ok]
      PROVE  Awaits(agent', threads')
  <2>1. agent'.pc = pc /\ agent'.slot = agent.slot /\ agent'.job = agent.job
    BY <1>0, <1>8 DEF Agent
  <2> QED BY <1>0, <1>8, <2>1 DEF Awaits, Awaiting
<1>9. CASE GetBlob \/ WriteBlob \/ ListFile \/ PushFile \/ UnlinkFile \/ UnlistFile \/ TransferRefused
  <2>1. threads' = threads /\ agent.pc \in WithJob \ Awaiting
    BY <1>9 DEF GetBlob, WriteBlob, ListFile, PushFile, UnlinkFile, UnlistFile, TransferRefused,
                AgentOnly, WithJob, Awaiting
  <2>2. \E pc \in WithJob \ Awaiting :
          agent' = [agent EXCEPT !.pc = pc] \/ \E ok : agent' = [agent EXCEPT !.pc = pc, !.ok = ok]
    BY <1>9 DEF GetBlob, WriteBlob, ListFile, PushFile, UnlinkFile, UnlistFile, TransferRefused,
                Report, WithJob, Awaiting
  <2> QED BY <1>8, <2>1, <2>2
<1>10. CASE ServerRestart
  <2>1. CASE agent.slot = NoThread
    <3>1. agent' = agent
      BY <1>10, <2>1 DEF ServerRestart
    <3>2. agent.pc \notin Awaiting
      BY <1>0, <2>1, ThreadAssumption DEF Awaits, Awaiting
    <3> QED BY <1>0, <3>1, <3>2 DEF Awaits, Awaiting
  <2> QED BY <1>1, <1>10, <2>1 DEF ServerRestart
<1>11. CASE Fault /\ ~ServerRestart /\ ~TransferRefused
  BY <1>1, <1>11 DEF Fault, AgentTimeout, RequestLost, ResultLost, StreamBroken, AgentCrash, MetaTorn
<1>12. ASSUME NEW t \in Thread, NEW f \in FileId,
              \/ DeleteRead(t, f)
              \/ \E proxied \in BOOLEAN : DownloadRead(t, f, proxied)
              \/ \E s : EditRead(t, f, s)
       PROVE  Awaits(agent', threads')
  <2>1. agent' = agent /\ threads[t].pc = "idle" /\ \E h : Goto(t, h)
    BY <1>12 DEF DeleteRead, DownloadRead, EditRead, IsIdle
  <2> QED BY <1>2, <1>3, <2>1 DEF Beating, Fetching, Completing
<1>13. CASE UploadStep \/ CreateRecord \/ UploadReceive \/ UNCHANGED vars
  <2>1. agent' = agent /\ threads' = threads
    BY <1>13 DEF UploadStep, UploadRefuse, UploadInsert, UploadRead, UploadPath, UploadBlob,
                 UploadJob, CreateRecord, UploadReceive, vars
  <2> QED BY <1>0, <2>1
<1> QED
  BY <1>6, <1>7, <1>9, <1>10, <1>11, <1>12, <1>13 DEF Next, UserRequest, AgentStep, Fault

-----------------------------------------------------------------------------
(* What the node keeps *)

LEMMA UsedGrows ==
  ASSUME WfInv, [Next]_vars
  PROVE  \A k \in Kind : used[k] \in Nat /\ used'[k] \in Nat /\ used'[k] >= used[k]
<1>1. used \in [Kind -> Nat] /\ used' \in [Kind -> Nat]
  BY WfStep DEF WfInv, TypeOK
<1>2. ASSUME NEW kind \in Kind, Spend(kind)
      PROVE  \A k \in Kind : used'[k] >= used[k]
  BY <1>1, <1>2 DEF Spend
<1>3. UNCHANGED used \/ \E kind \in Kind : Spend(kind)
  BY DEF Next, vars, history, UserRequest, CreateRecord, UploadReceive, DeleteRead,
         DownloadRead, EditRead, UploadStep, UploadRefuse, UploadInsert, UploadRead,
         UploadPath, UploadBlob, UploadJob, AgentStep, SendHeartbeat, SendFetch,
         SendReport, GetBlob, WriteBlob, ListFile, PushFile, UnlinkFile, UnlistFile,
         AgentOnly, HandlerStep, DeleteQueueJob, DeleteListBlobs, DeleteBlobs,
         DeleteRow, DownloadMark, DownloadQueueJob, EditWrite, BeatRead, BeatWrite,
         FetchSelect, FetchTake, CompleteJob, CompleteBlob, CompleteStatus, Fault,
         AgentTimeout, RequestLost, ResultLost, TransferRefused, StreamBroken,
         AgentCrash, MetaTorn, ServerRestart, Kind
<1> QED BY <1>1, <1>2, <1>3

LEMMA BrokenStays ==
  ASSUME WfInv, [Next]_vars, Broken
  PROVE  Broken'
  BY UsedGrows DEF Broken, Kind

\* The job the agent is at.
LEMMA AtLast ==
  ASSUME WfInv, agent.pc \in WithJob
  PROVE  agent.job = last /\ last \in 1..Len(jobs) /\ CurrentJob = jobs[last] /\ jobs[last] \in Job
<1>1. agent.job = last /\ last >= 1 /\ last <= Len(jobs)
  BY DEF WfInv, AgentWf
<1>2. last \in Nat
  BY BoundAssumption DEF WfInv, TypeOK
<1> QED BY <1>1, <1>2, RowTypes DEF CurrentJob

\* Bytes disappear, or are written over, for no file that is kept.
LEMMA KeptStays ==
  ASSUME WfInv, StoresDistinct, DeletesAsked, Unwritten, [Next]_vars,
         NEW r \in FileId, Kept(r)
  PROVE  r \in asked' \/ disk'[r] = "full" \/ (disk'[r] = "partial" /\ Broken')
<1>1. asked \subseteq asked'
  BY AskedGrows
<1>2. CASE disk'[r] = disk[r]
  BY <1>1, <1>2, BrokenStays DEF Kept
<1>3. CASE disk'[r] # disk[r]
  <2>1. /\ last \in 1..Len(jobs) /\ r = jobs[last].rel
        /\ GetBlob \/ (WriteBlob /\ disk'[r] = "full") \/ UnlinkFile
        /\ GetBlob => disk'[r] = "partial"
    BY <1>3, DiskEffect DEF GetBlob, WriteBlob, UnlinkFile
  <2>2. CASE GetBlob
    <3>1. last \in StoreJobs /\ disk[r] # "full"
      BY <2>1, <2>2 DEF GetBlob, WfInv, AgentWf, StoreJobs, Unwritten
    <3> QED BY <1>1, <2>1, <2>2, <3>1, BrokenStays DEF Kept
  <2>3. CASE UnlinkFile
    <3>1. last \in DeleteJobs
      BY <2>1, <2>3 DEF UnlinkFile, WfInv, AgentWf, DeleteJobs
    <3> QED BY <1>1, <2>1, <3>1 DEF DeletesAsked
  <2> QED BY <2>1, <2>2, <2>3
<1> QED BY <1>2, <1>3

\* A transfer ends by itself or breaks off.
LEMMA WritingEnds ==
  ASSUME WfInv, AgentAwaits, [Next]_vars, agent.pc = "write"
  PROVE  UNCHANGED <<agent, last>> \/ WriteBlob \/ Broken'
<1>0. agent.slot = NoThread /\ \A t \in Thread : agent.slot # t
  BY ThreadAssumption DEF AgentAwaits
<1>1. used \in [Kind -> Nat] /\ used' \in [Kind -> Nat]
  BY WfStep DEF WfInv, TypeOK
<1>2. CASE Spend("break") \/ Spend("crash")
  <2>1. used'["break"] + used'["crash"] > 0
    <3>1. /\ "break" \in Kind /\ "crash" \in Kind
      BY DEF Kind
    <3>2. used'["break"] > 0 \/ used'["crash"] > 0
      BY <1>1, <1>2, <3>1 DEF Spend
    <3> QED BY <1>1, <3>1, <3>2
  <2> QED BY <2>1 DEF Broken
<1>3. ASSUME NEW t \in Thread, HandlerStep(t)
      PROVE  UNCHANGED <<agent, last>>
  BY <1>0, <1>3 DEF HandlerStep, DeleteQueueJob, DeleteListBlobs, DeleteBlobs, DeleteRow,
         DownloadMark, DownloadQueueJob, EditWrite, BeatRead, BeatWrite, FetchSelect, FetchTake,
         CompleteJob, CompleteBlob, CompleteStatus, Respond, history
<1>4. CASE UserRequest \/ UploadStep \/ UNCHANGED vars
  BY <1>4 DEF UserRequest, CreateRecord, UploadReceive, DeleteRead, DownloadRead, EditRead,
         UploadStep, UploadRefuse, UploadInsert, UploadRead, UploadPath, UploadBlob, UploadJob,
         vars, history
<1>5. CASE AgentStep
  BY <1>5 DEF AgentStep, SendHeartbeat, SendFetch, SendReport, GetBlob, ListFile, PushFile,
         UnlinkFile, UnlistFile
<1>6. CASE Fault
  BY <1>0, <1>2, <1>6 DEF Fault, AgentTimeout, RequestLost, ResultLost, TransferRefused,
         StreamBroken, AgentCrash, MetaTorn, ServerRestart, history
<1> QED BY <1>3, <1>4, <1>5, <1>6 DEF Next

LEMMA PartsWrittenStep ==
  ASSUME WfInv, AgentAwaits, PartsWritten, [Next]_vars
  PROVE  PartsWritten'
<1> SUFFICES ASSUME NEW r \in FileId, disk'[r] = "partial", ~ Broken'
             PROVE  agent'.pc = "write" /\ r = jobs'[last'].rel
  BY DEF PartsWritten
<1>0. agent \in Agent /\ disk \in [FileId -> {"none", "partial", "full"}]
  BY DEF WfInv, TypeOK
<1>1. CASE disk'[r] # disk[r]
  <2>1. /\ GetBlob /\ last \in 1..Len(jobs) /\ r = jobs[last].rel /\ agent'.pc = "write"
    BY <1>1, DiskEffect
  <2>2. last' = last /\ jobs' = jobs
    BY <2>1 DEF GetBlob, AgentOnly, server
  <2> QED BY <2>1, <2>2
<1>2. CASE disk'[r] = disk[r]
  <2>1. agent.pc = "write" /\ r = jobs[last].rel
    BY <1>2, BrokenStays DEF PartsWritten
  <2>2. last \in 1..Len(jobs) /\ CurrentJob = jobs[last]
    BY <2>1, AtLast DEF WithJob
  <2>3. ~ WriteBlob
    BY <1>0, <1>2, <2>1, <2>2 DEF WriteBlob
  <2>4. UNCHANGED <<agent, last>>
    BY <2>1, <2>3, WritingEnds
  <2>5. jobs'[last].rel = jobs[last].rel
    BY <2>2, JobsOnlyGrow DEF WfInv
  <2> QED BY <2>1, <2>4, <2>5
<1> QED BY <1>1, <1>2

\* What a heartbeat still has to report, it was given by the agent.
LEMMA TodoEffect ==
  ASSUME WfInv, [Next]_vars, NEW t \in Thread
  PROVE  \/ /\ SendHeartbeat(t) /\ threads'[t].pc = "beat_read" /\ threads'[t].rel = 0
            /\ threads'[t].todo \subseteq Listed /\ UNCHANGED <<disk, jobs, used, asked>>
         \/ /\ threads'[t].todo \subseteq threads[t].todo
            /\ threads'[t].pc = "beat_write" =>
                 \/ threads[t].pc = "beat_write" /\ threads'[t].rel = threads[t].rel
                    /\ threads'[t].file = threads[t].file
                 \/ /\ threads'[t].rel \in threads[t].todo /\ BeatRead(t)
                    /\ GetByStorage(threads'[t].rel, threads'[t].file)
<1>0. threads \in [Thread -> Handler] /\ threads[t] \in Handler /\ Idle.todo = {} /\ Idle.pc = "idle"
  BY DEF WfInv, TypeOK, Idle
<1> DEFINE Goal ==
     /\ threads'[t].todo \subseteq threads[t].todo
     /\ threads'[t].pc = "beat_write" =>
          \/ threads[t].pc = "beat_write" /\ threads'[t].rel = threads[t].rel
             /\ threads'[t].file = threads[t].file
          \/ /\ threads'[t].rel \in threads[t].todo /\ BeatRead(t)
             /\ GetByStorage(threads'[t].rel, threads'[t].file)
<1>1. CASE threads'[t] = threads[t]
  BY <1>1
<1>2. CASE threads'[t] = Idle
  BY <1>0, <1>2
<1>3. ASSUME NEW f \in FileId,
             \/ DeleteRead(t, f)
             \/ \E proxied \in BOOLEAN : DownloadRead(t, f, proxied)
             \/ \E s : EditRead(t, f, s)
      PROVE  Goal
  <2>1. DeleteRead(t, f) => threads'[t].todo = {} /\ threads'[t].pc # "beat_write"
    BY <1>0 DEF DeleteRead, Goto, Idle
  <2>2. \A proxied \in BOOLEAN :
          DownloadRead(t, f, proxied) => threads'[t].todo = {} /\ threads'[t].pc # "beat_write"
    BY <1>0 DEF DownloadRead, Goto, Idle
  <2>3. \A s : EditRead(t, f, s) => threads'[t].todo = {} /\ threads'[t].pc # "beat_write"
    BY <1>0 DEF EditRead, Goto, Idle
  <2>4. threads'[t].todo = {} /\ threads'[t].pc # "beat_write"
    BY <1>3, <2>1, <2>2, <2>3
  <2> QED BY <2>4
<1>4. CASE HandlerStep(t)
  <2>1. CASE DeleteQueueJob(t) \/ DeleteListBlobs(t) \/ DeleteBlobs(t) \/ DownloadMark(t)
             \/ CompleteJob(t) \/ CompleteBlob(t)
    <3>1. ASSUME NEW pc \in HandlerPc \ {"beat_write"}, Goto(t, [threads[t] EXCEPT !.pc = pc])
          PROVE  Goal
      BY <1>0, <3>1 DEF Goto, Handler
    <3>2. ASSUME NEW pc \in HandlerPc \ {"beat_write"}, NEW held,
                 Goto(t, [threads[t] EXCEPT !.pc = pc, !.temps = held])
          PROVE  Goal
      BY <1>0, <3>2 DEF Goto, Handler
    <3> QED
      BY <2>1, <3>1, <3>2 DEF DeleteQueueJob, DeleteListBlobs, DeleteBlobs, DownloadMark,
                              CompleteJob, CompleteBlob, HandlerPc
  <2>2. CASE DeleteRow(t) \/ DownloadQueueJob(t) \/ EditWrite(t) \/ FetchTake(t) \/ CompleteStatus(t)
    BY <1>0, <1>2, <2>2 DEF DeleteRow, DownloadQueueJob, EditWrite, FetchTake, CompleteStatus, Done, Goto
  <2>3. CASE BeatRead(t)
    <3>1. ASSUME NEW r \in threads[t].todo, NEW f \in 0..MaxFile, GetByStorage(r, f),
                 Goto(t, [threads[t] EXCEPT !.pc = "beat_write", !.rel = r, !.file = f,
                                            !.todo = @ \ {r}])
          PROVE  Goal
      <4>1. threads'[t].file = f /\ threads'[t].rel = r /\ threads'[t].todo = threads[t].todo \ {r}
        BY <1>0, <3>1 DEF Goto, Handler
      <4> QED BY <2>3, <3>1, <4>1
    <3> QED BY <1>0, <1>2, <2>3, <3>1 DEF BeatRead, Done, Goto
  <2>4. CASE BeatWrite(t)
    BY <1>0, <2>4 DEF BeatWrite, Done, Goto, Idle
  <2>5. CASE FetchSelect(t)
    BY <1>0, <2>5 DEF FetchSelect, Done, Goto, Idle
  <2> QED BY <1>4, <2>1, <2>2, <2>3, <2>4, <2>5 DEF HandlerStep
<1>5. CASE SendFetch(t) \/ SendReport(t)
  <2>1. SendFetch(t) => threads'[t].todo = {} /\ threads'[t].pc # "beat_write"
    BY <1>0 DEF SendFetch, Goto, Idle
  <2>2. SendReport(t) => threads'[t].todo = {} /\ threads'[t].pc # "beat_write"
    BY <1>0 DEF SendReport, Goto, Idle
  <2> QED BY <1>5, <2>1, <2>2
<1>6. CASE SendHeartbeat(t)
  BY <1>0, <1>6 DEF SendHeartbeat, Goto, Idle, server, history
<1> QED BY <1>1, <1>2, <1>3, <1>4, <1>5, <1>6, ThreadEffect

\* The result of a job comes from the agent.
LEMMA ReportEffect ==
  ASSUME WfInv, [Next]_vars, NEW t \in Thread, threads'[t].pc \in Completing
  PROVE  \/ /\ threads[t].pc \in Completing
            /\ threads'[t].job = threads[t].job /\ threads'[t].ok = threads[t].ok
         \/ /\ SendReport(t) /\ agent.pc = "report"
            /\ threads'[t].job = agent.job /\ threads'[t].ok = agent.ok
<1>0. threads \in [Thread -> Handler] /\ threads[t] \in Handler /\ Idle.pc = "idle"
  BY DEF WfInv, TypeOK, Idle
<1> DEFINE Goal ==
     /\ threads[t].pc \in Completing
     /\ threads'[t].job = threads[t].job /\ threads'[t].ok = threads[t].ok
<1>1. CASE threads'[t] = threads[t]
  BY <1>1
<1>2. CASE threads'[t] = Idle
  BY <1>0, <1>2 DEF Completing
<1>3. ASSUME NEW f \in FileId,
             \/ DeleteRead(t, f)
             \/ \E proxied \in BOOLEAN : DownloadRead(t, f, proxied)
             \/ \E s : EditRead(t, f, s)
      PROVE  FALSE
  <2>1. DeleteRead(t, f) => threads'[t].pc \in {"delete_queue", "delete_list"}
    BY <1>0 DEF DeleteRead, Goto, Idle
  <2>2. \A proxied \in BOOLEAN : DownloadRead(t, f, proxied) => threads'[t].pc = "download_mark"
    BY <1>0 DEF DownloadRead, Goto, Idle
  <2>3. \A s : EditRead(t, f, s) => threads'[t].pc = "edit_write"
    BY <1>0 DEF EditRead, Goto, Idle
  <2> QED BY <1>3, <2>1, <2>2, <2>3 DEF Completing
<1>4. CASE HandlerStep(t)
  <2>1. ASSUME NEW pc \in HandlerPc, Goto(t, [threads[t] EXCEPT !.pc = pc])
        PROVE  threads'[t].pc = pc /\ threads'[t].job = threads[t].job /\ threads'[t].ok = threads[t].ok
    BY <1>0, <2>1 DEF Goto, Handler
  <2>2. CASE CompleteJob(t) \/ CompleteBlob(t)
    BY <2>1, <2>2 DEF CompleteJob, CompleteBlob, Completing, HandlerPc
  <2>3. CASE DeleteQueueJob(t) \/ DownloadMark(t)
    BY <2>1, <2>3 DEF DeleteQueueJob, DownloadMark, Completing, HandlerPc
  <2>4. CASE DeleteListBlobs(t) \/ DeleteBlobs(t)
    <3>1. threads'[t].pc \in {"delete_blobs", "delete_row"}
      BY <1>0, <2>4 DEF DeleteListBlobs, DeleteBlobs, Goto, Handler
    <3> QED BY <3>1 DEF Completing
  <2>5. CASE DeleteRow(t) \/ DownloadQueueJob(t) \/ EditWrite(t) \/ FetchTake(t) \/ CompleteStatus(t)
    BY <1>0, <1>2, <2>5 DEF DeleteRow, DownloadQueueJob, EditWrite, FetchTake, CompleteStatus, Done, Goto
  <2>6. CASE BeatRead(t)
    <3>1. ASSUME NEW r, NEW f, Goto(t, [threads[t] EXCEPT !.pc = "beat_write", !.rel = r, !.file = f,
                                                          !.todo = @ \ {r}])
          PROVE  threads'[t].pc = "beat_write"
      BY <1>0, <3>1 DEF Goto, Handler
    <3> QED BY <1>0, <1>2, <2>6, <3>1 DEF BeatRead, Done, Goto, Completing
  <2>7. CASE BeatWrite(t)
    BY <1>0, <2>7 DEF BeatWrite, Done, Goto, Idle, Completing
  <2>8. CASE FetchSelect(t)
    BY <1>0, <2>8 DEF FetchSelect, Done, Goto, Idle, Completing
  <2> QED BY <1>4, <2>2, <2>3, <2>4, <2>5, <2>6, <2>7, <2>8 DEF HandlerStep
<1>5. CASE SendHeartbeat(t) \/ SendFetch(t)
  <2>1. SendHeartbeat(t) => threads'[t].pc = "beat_read"
    BY <1>0 DEF SendHeartbeat, Goto, Idle
  <2>2. SendFetch(t) => threads'[t].pc = "fetch_select"
    BY <1>0 DEF SendFetch, Goto, Idle
  <2> QED BY <1>5, <2>1, <2>2 DEF Completing
<1>6. CASE SendReport(t)
  BY <1>0, <1>6 DEF SendReport, Goto, Idle
<1> QED BY <1>1, <1>2, <1>3, <1>4, <1>5, <1>6, ThreadEffect

LEMMA ListsKeptStep ==
  ASSUME Safe, PartsWritten, ListsKept, [Next]_vars
  PROVE  ListsKept'
<1>0. WfInv /\ threads \in [Thread -> Handler] /\ threads' \in [Thread -> Handler]
      /\ disk \in [FileId -> {"none", "partial", "full"}]
  BY WfStep DEF Safe, WfInv, TypeOK
<1> SUFFICES ASSUME NEW t \in Thread
             PROVE  /\ \A r \in threads'[t].todo : Kept(r)'
                    /\ threads'[t].pc = "beat_write" => Kept(threads[t].rel)'
  BY DEF ListsKept
<1>1. ASSUME NEW r \in FileId, Kept(r) PROVE Kept(r)'
  BY <1>0, <1>1, KeptStays DEF Safe, Kept
<1>2. threads[t].todo \subseteq FileId /\ threads'[t].todo \subseteq FileId
  BY <1>0 DEF Handler
<1>3. CASE /\ SendHeartbeat(t) /\ threads'[t].pc = "beat_read"
           /\ threads'[t].todo \subseteq Listed /\ UNCHANGED <<disk, jobs, used, asked>>
  <2>1. agent.pc = "beat"
    BY <1>3 DEF SendHeartbeat
  <2>2. \A r \in threads'[t].todo : Kept(r)
    BY <1>0, <1>2, <1>3, <2>1 DEF Listed, PartsWritten, Kept
  <2> QED BY <1>1, <1>2, <1>3, <2>2
<1>4. CASE /\ threads'[t].todo \subseteq threads[t].todo
           /\ threads'[t].pc = "beat_write" =>
                \/ threads[t].pc = "beat_write" /\ threads'[t].rel = threads[t].rel
                \/ threads'[t].rel \in threads[t].todo
  <2>1. ASSUME NEW r \in threads'[t].todo
        PROVE  Kept(r)'
    <3>1. r \in FileId /\ Kept(r)
      BY <1>2, <1>4, <2>1 DEF ListsKept
    <3> QED BY <1>1, <3>1
  <2>2. ASSUME threads'[t].pc = "beat_write"
        PROVE  Kept(threads[t].rel)'
    <3>1. threads'[t].rel \in FileId
      <4>1. HandlersWf'
        BY <1>0, WfStep DEF WfInv
      <4> QED BY <2>2, <4>1 DEF HandlersWf, HandlerWf
    <3>2. Kept(threads'[t].rel)
      BY <1>4, <2>2 DEF ListsKept
    <3> QED BY <1>1, <3>1, <3>2
  <2> QED BY <2>1, <2>2
<1> QED BY <1>0, <1>3, <1>4, TodoEffect

LEMMA ResultsKeptStep ==
  ASSUME Safe, PartsWritten, ResultsKept, [Next]_vars
  PROVE  ResultsKept'
<1>0. WfInv /\ agent \in Agent /\ disk \in [FileId -> {"none", "partial", "full"}]
  BY DEF Safe, WfInv, TypeOK
\* A result that is true stays true.
<1>1. ASSUME NEW j \in 1..Len(jobs), ResultKept(j)
      PROVE  jobs'[j].type # "delete_file" => Kept(jobs[j].rel)'
  <2>1. jobs'[j].type = jobs[j].type /\ jobs'[j].rel = jobs[j].rel /\ jobs[j].rel \in FileId
    BY <1>0, JobsOnlyGrow, RowTypes DEF WfInv, Job
  <2>2. ASSUME Kept(jobs[j].rel)
        PROVE  \/ jobs[j].rel \in asked' \/ disk'[jobs[j].rel] = "full"
               \/ disk'[jobs[j].rel] = "partial" /\ Broken'
    BY <1>0, <2>1, <2>2, KeptStays DEF Safe
  <2> QED BY <1>1, <2>1, <2>2 DEF ResultKept, Kept
<1>2. ASSUME agent'.pc = "report", agent'.ok
      PROVE  ResultKept(last)'
  <2>1. CASE UNCHANGED <<agent, last>>
    <3>1. last \in 1..Len(jobs) /\ ResultKept(last)
      BY <1>0, <1>2, <2>1, AtLast DEF WithJob, ResultsKept
    <3> QED BY <1>1, <2>1, <3>1 DEF ResultKept
  <2>2. CASE ListFile
    <3>1. /\ agent.pc = "list" /\ UNCHANGED <<disk, jobs, last>> /\ disk[jobs[last].rel] = "full"
      BY <2>2 DEF ListFile, AgentOnly, server, Safe, ReportsTrue
    <3> QED BY <3>1 DEF ResultKept, Kept
  <2>3. CASE PushFile
    <3>1. /\ agent.pc = "push" /\ UNCHANGED <<disk, jobs, last, used, asked>>
          /\ disk[CurrentJob.rel] # "none"
      BY <1>0, <1>2, <2>3 DEF PushFile, Report, Agent, volume, history
    <3>2. CurrentJob = jobs[last] /\ jobs[last].rel \in FileId
      BY <1>0, <3>1, AtLast DEF WithJob, Job
    <3>3. Kept(jobs[last].rel)
      BY <1>0, <3>1, <3>2 DEF PartsWritten, Kept
    <3> QED BY <3>1, <3>3 DEF ResultKept, Kept, Broken
  <2>4. CASE UnlistFile
    BY <1>0, <2>4 DEF UnlistFile, AgentOnly, server, WfInv, AgentWf, ResultKept
  <2>5. agent'.pc \notin Elsewhere \cup {"get", "push", "unlink", "write", "list", "unlist"}
    BY <1>2 DEF Elsewhere
  <2> QED BY <1>0, <1>2, <2>1, <2>2, <2>3, <2>4, <2>5, AgentMoves
<1>3. ASSUME NEW t \in Thread, threads'[t].pc \in Completing, threads'[t].ok
      PROVE  ResultKept(threads[t].job)'
  <2>1. CASE /\ threads[t].pc \in Completing
             /\ threads'[t].job = threads[t].job /\ threads'[t].ok = threads[t].ok
    <3>1. threads[t].job \in 1..Len(jobs) /\ ResultKept(threads[t].job)
      BY <1>0, <1>3, <2>1 DEF WfInv, HandlersWf, HandlerWf, ResultsKept
    <3> QED BY <1>1, <2>1, <3>1 DEF ResultKept
  <2>2. CASE /\ agent.pc = "report" /\ threads'[t].job = agent.job /\ threads'[t].ok = agent.ok
    <3>1. last \in 1..Len(jobs) /\ agent.job = last /\ ResultKept(last)
      BY <1>0, <1>3, <2>2, AtLast DEF WithJob, ResultsKept
    <3> QED BY <1>1, <2>2, <3>1 DEF ResultKept
  <2> QED BY <1>0, <1>3, <2>1, <2>2, ReportEffect
<1> QED BY <1>2, <1>3 DEF ResultsKept

LEMMA RowsKeptStep ==
  ASSUME Safe, RowInv, [Next]_vars
  PROVE  RowsKept'
<1>0. WfInv /\ files \in [FileId -> Row] /\ edited \subseteq edited' /\ asked \subseteq asked'
      /\ RowsKnown /\ UploadUnseen /\ PathsFit /\ ListsKept /\ ResultsKept /\ RowsKept
  BY EditedGrows, AskedGrows DEF Safe, WfInv, TypeOK, RowInv
<1>1. ASSUME NEW r \in FileId, Kept(r) PROVE Kept(r)'
  BY <1>0, <1>1, KeptStays DEF Safe, Kept
<1> SUFFICES ASSUME NEW f \in FileId, files'[f].status = "active", Untouched(f)'
             PROVE  Kept(files[f].rel)'
  BY DEF RowsKept
<1>2. /\ files'[f].rel # 0 /\ f \notin edited' /\ f \notin edited /\ f \notin asked
      /\ files'[f].rel \notin asked /\ files'[f].rel \notin edited /\ files'[f].rel \in FileId
  <2>1. files' \in [FileId -> Row]
    BY <1>0, WfStep DEF WfInv, TypeOK
  <2>2. files'[f].rel # 0
    BY DEF Untouched
  <2>3. files'[f].rel \in FileId
    BY <2>1, <2>2, BoundAssumption DEF Row, Path, FileId
  <2> QED BY <1>0, <2>2, <2>3 DEF Untouched
<1>3. CASE files'[f] = files[f]
  <2>1. Untouched(f)
    BY <1>2, <1>3 DEF Untouched
  <2> QED BY <1>0, <1>1, <1>2, <1>3, <2>1 DEF RowsKept
<1>4. CASE Inserts(f)
  <2>1. PICK t \in Thread : BeatWrite(t) /\ files'[f].rel = threads[t].rel
    <3>1. files'[f] # [status |-> "active", rel |-> 0]
      BY <1>2
    <3>2. files'[f] # [status |-> "pending_upload", rel |-> 0]
      BY <1>2
    <3>3. \E t \in Thread : BeatWrite(t) /\ files'[f] = [status |-> "active", rel |-> threads[t].rel]
      BY <1>4, <3>1, <3>2, Zenon DEF Inserts
    <3> QED BY <3>3
  <2>2. threads[t].pc = "beat_write"
    BY <2>1 DEF BeatWrite
  <2>3. Kept(threads[t].rel)
    BY <1>0, <2>2 DEF ListsKept
  <2> QED BY <1>1, <1>2, <2>1, <2>3
<1>5. CASE Marks(f)
  <2>1. PICK t \in Thread :
          \/ BeatWrite(t) /\ f = threads[t].file
          \/ /\ CompleteStatus(t) /\ f = jobs[threads[t].job].file
             /\ threads[t].ok /\ jobs[threads[t].job].type # "delete_file"
    BY <1>5 DEF Marks
  <2>2. Present(f) /\ files'[f].rel = files[f].rel
    BY <1>5 DEF Marks
  <2>3. CASE BeatWrite(t) /\ f = threads[t].file
    <3>0. threads[t].pc = "beat_write" /\ threads[t].file # 0
      BY <2>3, <1>0, RowTypes DEF BeatWrite
    <3>1. FitsRow(f, threads[t].rel) /\ Kept(threads[t].rel)
      BY <1>0, <2>3, <3>0 DEF ListsKept, PathsFit, PathHolding
    <3>2. files[f].rel = threads[t].rel
      BY <1>2, <2>2, <3>1 DEF FitsRow
    <3> QED BY <1>1, <1>2, <2>2, <3>1, <3>2
  <2>4. CASE /\ CompleteStatus(t) /\ f = jobs[threads[t].job].file
             /\ threads[t].ok /\ jobs[threads[t].job].type # "delete_file"
    <3>1. threads[t].pc \in Completing /\ threads[t].job \in 1..Len(jobs)
      BY <1>0, <2>4 DEF CompleteStatus, WfInv, HandlersWf, HandlerWf, Completing
    <3>2. FitsRow(f, jobs[threads[t].job].rel) /\ Kept(jobs[threads[t].job].rel)
      BY <1>0, <2>4, <3>1 DEF ResultsKept, ResultKept, PathsFit
    <3>3. files[f].rel = jobs[threads[t].job].rel
      BY <1>2, <2>2, <3>2 DEF FitsRow
    <3> QED BY <1>1, <1>2, <2>2, <3>2, <3>3
  <2> QED BY <2>1, <2>3, <2>4
<1>6. CASE Writes(f)
  <2>1. UploadPath /\ f = up.file /\ files'[f].status = up.status
    <3>1. \A t \in Thread : edited' # edited \cup {f}
      BY <1>2
    <3>2. UploadPath /\ f = up.file /\ files'[f] = [status |-> up.status, rel |-> up.file]
      BY <1>6, <3>1, Zenon DEF Writes
    <3> QED BY <3>2
  <2>2. up.status = "pending_upload"
    BY <1>0, <1>2, <2>1 DEF UploadPath, UploadUnseen
  <2> QED BY <2>1, <2>2
<1>7. CASE Drops(f)
  BY <1>0, <1>7, RowTypes DEF Drops
<1> QED BY <1>0, <1>3, <1>4, <1>5, <1>6, <1>7, RowEffect

LEMMA RowInvStep ==
  ASSUME Safe, AgentAwaits, RowInv, [Next]_vars
  PROVE  RowInv'
<1>1. WfInv
  BY DEF Safe
<1>2. /\ RowsKnown /\ UploadUnseen /\ PathsFit /\ EditsFit
      /\ PartsWritten /\ ListsKept /\ ResultsKept
  BY DEF RowInv
<1>3. RowsKnown' /\ UploadUnseen' /\ PathsFit' /\ EditsFit'
  BY <1>1, <1>2, RowsKnownStep, UploadUnseenStep, PathsFitStep, EditsFitStep
<1>4. PartsWritten' /\ ListsKept' /\ ResultsKept' /\ RowsKept'
  BY <1>1, <1>2, PartsWrittenStep, ListsKeptStep, ResultsKeptStep, RowsKeptStep
<1> QED
  BY <1>3, <1>4 DEF RowInv

LEMMA RowInvInit == Init => RowInv /\ AgentAwaits
<1> SUFFICES ASSUME Init PROVE RowInv /\ AgentAwaits
  OBVIOUS
<1>1. Len(jobs) = 0 /\ 1..Len(jobs) = {}
  BY EmptySeq DEF Init
<1>2. RowsKnown /\ UploadUnseen /\ PathsFit /\ EditsFit
  BY <1>1 DEF Init, RowsKnown, UploadUnseen, PathsFit, PathHolding, Downloading, EditsFit,
              Editing, Idle, NoUpload
<1>3. PartsWritten /\ ListsKept /\ ResultsKept /\ RowsKept
  BY <1>1 DEF Init, PartsWritten, ListsKept, ResultsKept, RowsKept, Completing, Idle,
              AgentStart, NoRow
<1>4. AgentAwaits
  BY DEF Init, AgentAwaits, AgentStart, WithJob
<1> QED
  BY <1>2, <1>3, <1>4 DEF RowInv

LEMMA RowsInvariant == Spec => [](Safe /\ AgentAwaits /\ RowInv)
<1> DEFINE J == Safe /\ AgentAwaits /\ RowInv
<1>1. Init => J
  BY SafeInit, RowInvInit
<1>2. J /\ [Next]_vars => J'
  BY SafeStep, AgentAwaitsStep, RowInvStep DEF Safe
<1> HIDE DEF J
<1>3. Spec => []J
  BY <1>1, <1>2, PTL DEF Spec
<1> QED
  BY <1>3 DEF J

\* A row that readers see as active, and that nobody deletes or edits, has bytes on
\* its node, however late completions and heartbeats are.
THEOREM ActiveHasBytes == Spec => []ActiveOnNode
<1>1. Safe /\ RowInv => ActiveOnNode
  <2> SUFFICES ASSUME Safe, RowInv, NEW f \in FileId, files[f].status = "active", Untouched(f)
               PROVE  disk[files[f].rel] # "none"
    BY DEF ActiveOnNode
  <2>1. Kept(files[f].rel) /\ files[f].rel \notin asked
    BY DEF RowInv, RowsKept, Untouched
  <2> QED
    BY <2>1 DEF Kept
<1> QED
  BY <1>1, RowsInvariant, PTL

\* It has all of them, as long as no transfer breaks off and no agent dies.
THEOREM ActiveHasAll == Spec => []ActiveIsWhole
<1>1. Safe /\ RowInv => ActiveIsWhole
  <2> SUFFICES ASSUME Safe, RowInv, used["break"] + used["crash"] = 0,
                      NEW f \in FileId, files[f].status = "active", Untouched(f)
               PROVE  disk[files[f].rel] = "full"
    BY DEF ActiveIsWhole
  <2>1. Kept(files[f].rel) /\ files[f].rel \notin asked
    BY DEF RowInv, RowsKept, Untouched
  <2>2. ~ Broken
    BY DEF Broken
  <2> QED
    BY <2>1, <2>2 DEF Kept
<1> QED
  BY <1>1, RowsInvariant, PTL

\* A row changes its path or goes back to pending only when FileRepository.update
\* writes back what it has read before.
THEOREM RowsTurnBack == Spec => OnlyStaleEditsTurnBack
<1> DEFINE J == Safe /\ AgentAwaits /\ RowInv
           Back(f) ==
             Present(f) /\ files'[f].status # "absent" =>
               \/ /\ files'[f].rel = files[f].rel \/ files[f].rel = 0
                  /\ files[f].status = "active" => files'[f].status # "pending_upload"
               \/ \E t \in Thread :
                    /\ threads[t].pc = "edit_write" /\ threads[t].file = f
                    /\ threads[t].rel = 0 \/ threads[t].status = "pending_upload"
               \/ up.pc = "path" /\ up.file = f /\ f \in edited
<1>1. ASSUME J, [Next]_vars, NEW f \in FileId PROVE Back(f)
  <2> SUFFICES ASSUME Present(f), files'[f].status # "absent"
               PROVE  \/ /\ files'[f].rel = files[f].rel \/ files[f].rel = 0
                         /\ files[f].status = "active" => files'[f].status # "pending_upload"
                      \/ \E t \in Thread :
                           /\ threads[t].pc = "edit_write" /\ threads[t].file = f
                           /\ threads[t].rel = 0 \/ threads[t].status = "pending_upload"
                      \/ up.pc = "path" /\ up.file = f /\ f \in edited
    OBVIOUS
  <2>0. WfInv /\ RowsKnown /\ UploadUnseen /\ EditsFit
    BY <1>1 DEF Safe, RowInv
  <2>1. CASE files'[f] = files[f]
    BY <2>1
  <2>2. CASE Inserts(f)
    BY <2>0, <2>2, RowTypes DEF Inserts, RowsKnown, Present
  <2>3. CASE Marks(f)
    BY <2>3 DEF Marks
  <2>4. CASE Writes(f)
    <3>1. CASE UploadPath /\ f = up.file /\ files'[f] = [status |-> up.status, rel |-> up.file]
      BY <2>0, <3>1 DEF UploadPath, UploadUnseen, Present
    <3>2. ASSUME NEW t \in Thread, EditWrite(t), f = threads[t].file,
                 files'[f] = [status |-> threads[t].status, rel |-> threads[t].rel]
          PROVE  \/ files'[f].rel = files[f].rel \/ files[f].rel = 0
                 \/ threads[t].rel = 0
      BY <2>0, <3>2 DEF EditWrite, EditsFit, Editing
    <3>3. ASSUME NEW t \in Thread, EditWrite(t), f = threads[t].file,
                 files'[f] = [status |-> threads[t].status, rel |-> threads[t].rel]
          PROVE  /\ threads[t].pc = "edit_write"
                 /\ files'[f].status = threads[t].status
      BY <3>3 DEF EditWrite
    <3> QED BY <2>4, <3>1, <3>2, <3>3 DEF Writes
  <2>5. CASE Drops(f)
    BY <2>0, <2>5, RowTypes DEF Drops
  <2> QED BY <1>1, <2>0, <2>1, <2>2, <2>3, <2>4, <2>5, RowEffect
<1>2. J /\ [Next]_vars => [\A f \in FileId : Back(f)]_vars
  BY <1>1
<1>3. Spec => []J
  BY RowsInvariant DEF J
<1> HIDE DEF J, Back
<1>4. Spec => [][\A f \in FileId : Back(f)]_vars
  BY <1>2, <1>3, PTL DEF Spec
<1> QED
  BY <1>4 DEF OnlyStaleEditsTurnBack, Back

-----------------------------------------------------------------------------
(* One row for each path *)

LEMMA KnownGrows ==
  ASSUME WfInv, [Next]_vars
  PROVE  Known \subseteq Known'
<1>1. \A j \in StoreJobs : j \in StoreJobs' /\ jobs'[j].rel = jobs[j].rel
  BY JobsOnlyGrow, JobSetsGrow DEF WfInv, StoreJobs
<1> QED BY <1>1 DEF Known

LEMMA PathsKnownStep ==
  ASSUME WfInv, PathsKnown, [Next]_vars
  PROVE  PathsKnown'
<1>0. Known \subseteq Known' /\ meta \subseteq FileId
  BY KnownGrows DEF WfInv, TypeOK
<1>1. ASSUME NEW r \in FileId, disk'[r] # "none"
      PROVE  r \in Known'
  <2>1. CASE disk'[r] = disk[r]
    BY <1>0, <1>1, <2>1 DEF PathsKnown
  <2>2. CASE disk'[r] # disk[r]
    <3>1. last \in 1..Len(jobs) /\ r = jobs[last].rel /\ (GetBlob \/ WriteBlob)
      BY <1>1, <2>2, DiskEffect
    <3>2. last \in StoreJobs
      BY <3>1 DEF GetBlob, WriteBlob, WfInv, AgentWf, StoreJobs
    <3> QED BY <1>0, <3>1, <3>2 DEF Known
  <2> QED BY <2>1, <2>2
<1>2. Listed \subseteq Known
  BY <1>0 DEF Listed, PathsKnown
<1>3. ASSUME NEW t \in Thread
      PROVE  /\ threads'[t].todo \subseteq Known'
             /\ threads'[t].pc = "beat_write" => threads'[t].rel \in Known'
  <2>1. /\ threads[t].todo \subseteq Known
        /\ threads[t].pc = "beat_write" => threads[t].rel \in Known
    BY DEF PathsKnown
  <2> QED BY <1>0, <1>2, <2>1, TodoEffect
<1> QED BY <1>1, <1>3 DEF PathsKnown

LEMMA BeatMoves ==
  ASSUME WfInv, [Next]_vars, NEW t \in Thread, threads'[t].pc \in Beating
  PROVE  SendHeartbeat(t) \/ threads[t].pc \in Beating
<1>0. threads \in [Thread -> Handler] /\ threads[t] \in Handler /\ Idle.pc = "idle"
  BY DEF WfInv, TypeOK, Idle
<1>1. CASE threads'[t] = threads[t]
  BY <1>1
<1>2. CASE threads'[t] = Idle
  BY <1>0, <1>2 DEF Beating
<1>3. ASSUME NEW f \in FileId,
             \/ DeleteRead(t, f)
             \/ \E proxied \in BOOLEAN : DownloadRead(t, f, proxied)
             \/ \E s : EditRead(t, f, s)
      PROVE  FALSE
  <2>1. DeleteRead(t, f) => threads'[t].pc \in {"delete_queue", "delete_list"}
    BY <1>0 DEF DeleteRead, Goto, Idle
  <2>2. \A proxied \in BOOLEAN : DownloadRead(t, f, proxied) => threads'[t].pc = "download_mark"
    BY <1>0 DEF DownloadRead, Goto, Idle
  <2>3. \A s : EditRead(t, f, s) => threads'[t].pc = "edit_write"
    BY <1>0 DEF EditRead, Goto, Idle
  <2> QED BY <1>3, <2>1, <2>2, <2>3 DEF Beating
<1>4. CASE HandlerStep(t)
  <2>1. CASE DeleteQueueJob(t) \/ DeleteListBlobs(t) \/ DeleteBlobs(t) \/ DownloadMark(t)
             \/ CompleteJob(t) \/ CompleteBlob(t)
    <3>1. ASSUME NEW pc \in HandlerPc, Goto(t, [threads[t] EXCEPT !.pc = pc])
          PROVE  threads'[t].pc = pc
      BY <1>0, <3>1 DEF Goto, Handler
    <3>2. ASSUME NEW pc \in HandlerPc, NEW held,
                 Goto(t, [threads[t] EXCEPT !.pc = pc, !.temps = held])
          PROVE  threads'[t].pc = pc
      BY <1>0, <3>2 DEF Goto, Handler
    <3> QED
      BY <2>1, <3>1, <3>2 DEF DeleteQueueJob, DeleteListBlobs, DeleteBlobs, DownloadMark,
                              CompleteJob, CompleteBlob, Beating, HandlerPc
  <2>2. CASE DeleteRow(t) \/ DownloadQueueJob(t) \/ EditWrite(t) \/ FetchTake(t) \/ CompleteStatus(t)
    BY <1>0, <1>2, <2>2 DEF DeleteRow, DownloadQueueJob, EditWrite, FetchTake, CompleteStatus, Done, Goto
  <2>3. CASE BeatRead(t) \/ BeatWrite(t)
    BY <2>3 DEF BeatRead, BeatWrite, Beating
  <2>4. CASE FetchSelect(t)
    BY <1>0, <2>4 DEF FetchSelect, Done, Goto, Idle, Beating
  <2> QED BY <1>4, <2>1, <2>2, <2>3, <2>4 DEF HandlerStep
<1>5. CASE SendFetch(t) \/ SendReport(t)
  BY <1>0, <1>5 DEF SendFetch, SendReport, Goto, Idle, Beating
<1> QED BY <1>1, <1>2, <1>3, <1>4, <1>5, ThreadEffect

\* The agent leaves a heartbeat with its answer, by a fault, or not yet.
LEMMA BeatLeft ==
  ASSUME WfInv, AgentAwaits, [Next]_vars, NEW t \in Thread,
         agent.pc = "beat_wait", agent.slot = t, threads'[t].pc # "idle", Alone'
  PROVE  agent' = agent
<1>0. /\ threads \in [Thread -> Handler] /\ Idle.pc = "idle" /\ threads[t].pc \in Beating
      /\ used \in [Kind -> Nat] /\ used' \in [Kind -> Nat]
  BY WfStep DEF WfInv, TypeOK, Idle, AgentAwaits, Beating
<1>1. ~ Done(t)
  BY <1>0 DEF Done, Goto
<1>2. ~ Spend("lost") /\ ~ Spend("crash")
  <2>1. "lost" \in Kind /\ "crash" \in Kind
    BY DEF Kind
  <2> QED BY <1>0, <2>1 DEF Spend, Alone
<1>3. ASSUME NEW u \in Thread, HandlerStep(u)
      PROVE  agent' = agent
  <2>1. CASE u = t
    BY <1>0, <1>1, <1>3, <2>1 DEF HandlerStep, DeleteQueueJob, DeleteListBlobs, DeleteBlobs,
           DeleteRow, DownloadMark, DownloadQueueJob, EditWrite, BeatRead, BeatWrite, FetchSelect,
           FetchTake, CompleteJob, CompleteBlob, CompleteStatus, Beating
  <2>2. CASE u # t
    BY <1>3, <2>2 DEF HandlerStep, DeleteQueueJob, DeleteListBlobs, DeleteBlobs,
           DeleteRow, DownloadMark, DownloadQueueJob, EditWrite, BeatRead, BeatWrite, FetchSelect,
           FetchTake, CompleteJob, CompleteBlob, CompleteStatus, Respond
  <2> QED BY <2>1, <2>2
<1>4. CASE UserRequest \/ UploadStep \/ UNCHANGED vars
  BY <1>4 DEF UserRequest, CreateRecord, UploadReceive, DeleteRead, DownloadRead, EditRead,
         UploadStep, UploadRefuse, UploadInsert, UploadRead, UploadPath, UploadBlob, UploadJob, vars
<1>5. CASE AgentStep
  BY <1>5 DEF AgentStep, SendHeartbeat, SendFetch, SendReport, GetBlob, WriteBlob, ListFile, PushFile,
         UnlinkFile, UnlistFile
<1>6. CASE Fault
  <2>1. ServerRestart => threads'[t] = Idle
    BY DEF ServerRestart
  <2> QED
    BY <1>0, <1>2, <1>6, <2>1 DEF Fault, AgentTimeout, RequestLost, ResultLost, TransferRefused,
         StreamBroken, AgentCrash, MetaTorn
<1> QED BY <1>3, <1>4, <1>5, <1>6 DEF Next

LEMMA AloneBefore == ASSUME WfInv, [Next]_vars, Alone' PROVE Alone
  BY UsedGrows DEF Alone, Kind

LEMMA BeatAloneStep ==
  ASSUME WfInv, AgentAwaits, BeatAlone, [Next]_vars
  PROVE  BeatAlone'
<1> SUFFICES ASSUME Alone', NEW t \in Thread, threads'[t].pc \in Beating
             PROVE  agent'.slot = t /\ agent'.pc = "beat_wait"
  BY DEF BeatAlone, Beating
<1>1. CASE SendHeartbeat(t)
  BY <1>1 DEF SendHeartbeat, WfInv, TypeOK, Agent
<1>2. CASE threads[t].pc \in Beating
  <2>1. agent.slot = t /\ agent.pc = "beat_wait"
    BY <1>2, AloneBefore DEF BeatAlone, Beating
  <2>2. threads'[t].pc # "idle"
    BY DEF Beating
  <2> QED BY <2>1, <2>2, BeatLeft
<1> QED BY <1>1, <1>2, BeatMoves

\* A row that is not edited has its path still, or gets it from a heartbeat or from
\* its upload.
LEMMA PathGained ==
  ASSUME WfInv, [Next]_vars, NEW f \in FileId, f \notin edited',
         files'[f].status # "absent", files'[f].rel # 0
  PROVE  \/ Present(f) /\ files'[f].rel = files[f].rel
         \/ \E t \in Thread : /\ BeatWrite(t) /\ threads[t].file = 0
                              /\ f = nextFile /\ nextFile' = nextFile + 1
                              /\ files'[f].rel = threads[t].rel
         \/ UploadPath /\ f = up.file /\ nextFile' = nextFile /\ files'[f].rel = up.file
<1>1. CASE files'[f] = files[f]
  BY <1>1 DEF Present
<1>2. CASE Inserts(f)
  <2>1. files'[f] # [status |-> "active", rel |-> 0]
    OBVIOUS
  <2>2. files'[f] # [status |-> "pending_upload", rel |-> 0]
    OBVIOUS
  <2>3. PICK t \in Thread : /\ BeatWrite(t) /\ threads[t].file = 0
                            /\ files'[f] = [status |-> "active", rel |-> threads[t].rel]
    BY <1>2, <2>1, <2>2, Zenon DEF Inserts
  <2>4. files'[f].rel = threads[t].rel
    BY <2>3
  <2> QED BY <1>2, <2>3, <2>4 DEF Inserts
<1>3. CASE Marks(f)
  BY <1>3 DEF Marks
<1>4. CASE Writes(f)
  <2>1. \A t \in Thread : edited' # edited \cup {f}
    OBVIOUS
  <2>2. UploadPath /\ f = up.file /\ files'[f] = [status |-> up.status, rel |-> up.file]
    BY <1>4, <2>1, Zenon DEF Writes
  <2>3. files'[f].rel = up.file
    BY <2>2
  <2> QED BY <1>4, <2>2, <2>3 DEF Writes
<1>5. CASE Drops(f)
  BY <1>5, RowTypes DEF Drops
<1> QED BY <1>1, <1>2, <1>3, <1>4, <1>5, RowEffect

LEMMA PathsOwnedStep ==
  ASSUME WfInv, PathsKnown, PathsOwned, [Next]_vars
  PROVE  PathsOwned'
<1> SUFFICES ASSUME NEW f \in FileId, f \notin edited', files'[f].status # "absent",
                    files'[f].rel # 0
             PROVE  files'[f].rel = f \/ files'[f].rel \in Known'
  BY DEF PathsOwned, Present
<1>1. edited \subseteq edited' /\ Known \subseteq Known'
  BY EditedGrows, KnownGrows
<1>2. CASE Present(f) /\ files'[f].rel = files[f].rel
  BY <1>1, <1>2 DEF PathsOwned
<1>3. ASSUME NEW t \in Thread, BeatWrite(t), files'[f].rel = threads[t].rel
      PROVE  files'[f].rel \in Known'
  BY <1>1, <1>3 DEF BeatWrite, PathsKnown
<1> QED BY <1>2, <1>3, PathGained

\* An upload's path is not known before its job is queued.
LEMMA UploadPathUnknown ==
  ASSUME StoresDistinct, UploadPath
  PROVE  up.file \notin Known
  BY DEF StoresDistinct, StoreWf, UploadPath, HoldingFile, Known

LEMMA NewRowsStep ==
  ASSUME WfInv, StoresDistinct, PathsKnown, BeatAlone, NewRows, [Next]_vars
  PROVE  NewRows'
<1> SUFFICES ASSUME Alone', NEW t \in Thread, threads'[t].pc = "beat_write",
                    threads'[t].file = 0, NEW f \in FileId, f \notin edited',
                    files'[f].status # "absent", files'[f].rel = threads'[t].rel
             PROVE  FALSE
  BY DEF NewRows, RowsOf, Present
<1>0. threads'[t].rel \in FileId /\ threads'[t].rel # 0 /\ Alone /\ edited \subseteq edited'
  <2>1. HandlersWf'
    BY WfStep DEF WfInv
  <2> QED BY <2>1, RowTypes, AloneBefore, EditedGrows DEF HandlersWf, HandlerWf
<1>1. CASE BeatRead(t) /\ GetByStorage(threads'[t].rel, threads'[t].file)
  <2>1. UNCHANGED files
    BY <1>1 DEF BeatRead, server
  <2>2. RowsOf(threads'[t].rel) = {}
    BY <1>1, RowTypes DEF GetByStorage, RowsOf
  <2> QED BY <2>1, <2>2 DEF RowsOf, Present
<1>2. CASE threads[t].pc = "beat_write" /\ threads'[t].rel = threads[t].rel
           /\ threads'[t].file = threads[t].file
  <2>1. threads[t].rel \in Known /\ RowsOf(threads[t].rel) \subseteq edited
    BY <1>0, <1>2 DEF PathsKnown, NewRows
  <2>2. CASE Present(f) /\ files'[f].rel = files[f].rel
    BY <1>0, <1>2, <2>1, <2>2 DEF RowsOf
  <2>3. ASSUME NEW u \in Thread, BeatWrite(u) PROVE FALSE
    <3>1. threads[u].pc = "beat_write"
      BY <2>3 DEF BeatWrite
    <3>2. u = t
      BY <1>0, <1>2, <3>1 DEF BeatAlone
    <3>3. threads'[t].pc \in {"beat_read", "idle"}
      <4>1. Done(t) \/ Goto(t, [Idle EXCEPT !.pc = "beat_read", !.todo = threads[t].todo])
        BY <2>3, <3>2 DEF BeatWrite
      <4>2. threads \in [Thread -> Handler]
        BY RowTypes
      <4>3. CASE Done(t)
        BY <4>2, <4>3 DEF Done, Goto, Idle
      <4>4. CASE Goto(t, [Idle EXCEPT !.pc = "beat_read", !.todo = threads[t].todo])
        BY <4>2, <4>4 DEF Goto, Idle
      <4> QED BY <4>1, <4>3, <4>4
    <3> QED BY <3>3
  <2>4. CASE UploadPath /\ files'[f].rel = up.file
    BY <1>2, <2>1, <2>4, UploadPathUnknown
  <2> QED BY <1>0, <2>2, <2>3, <2>4, PathGained
<1>3. CASE SendHeartbeat(t) /\ threads'[t].pc = "beat_read"
  BY <1>3
<1> QED BY <1>1, <1>2, <1>3, TodoEffect

LEMMA OneRowStep ==
  ASSUME WfInv, StoresDistinct, PathsOwned, NewRows, OneRowPerPath, [Next]_vars
  PROVE  OneRowPerPath'
<1> SUFFICES ASSUME Alone', NEW f \in FileId, NEW g \in FileId, f \notin edited', g \notin edited',
                    files'[f].status # "absent", files'[g].status # "absent",
                    files'[f].rel = files'[g].rel, files'[f].rel # 0
             PROVE  f = g
  BY DEF OneRowPerPath, Present, Alone
<1>0. Alone /\ f \notin edited /\ g \notin edited /\ nextFile' \in Nat /\ nextFile \in Nat
  BY AloneBefore, EditedGrows, RowTypes, WfStep DEF WfInv, TypeOK
<1> DEFINE Old(h) == Present(h) /\ files'[h].rel = files[h].rel
           Beats(h) == \E t \in Thread : /\ BeatWrite(t) /\ threads[t].file = 0
                                         /\ h = nextFile /\ nextFile' = nextFile + 1
                                         /\ files'[h].rel = threads[t].rel
           Uploads(h) == UploadPath /\ h = up.file /\ nextFile' = nextFile /\ files'[h].rel = up.file
<1>1. CASE Old(f) /\ Old(g)
  BY <1>0, <1>1 DEF OneRowPerPath, Alone
<1>2. ASSUME NEW h \in FileId \ edited, NEW k \in FileId \ edited, Beats(h), Old(k),
             files'[h].rel = files'[k].rel
      PROVE  FALSE
  <2>1. PICK t \in Thread : /\ BeatWrite(t) /\ threads[t].file = 0
                            /\ files'[h].rel = threads[t].rel
    BY <1>2
  <2>2. RowsOf(threads[t].rel) \subseteq edited
    BY <1>0, <2>1 DEF NewRows, BeatWrite
  <2> QED BY <1>2, <2>1, <2>2 DEF RowsOf
<1>3. ASSUME NEW h \in FileId \ edited, NEW k \in FileId \ edited, Uploads(h), Old(k),
             files'[h].rel = files'[k].rel, files'[h].rel # 0
      PROVE  h = k
  BY <1>3, UploadPathUnknown DEF PathsOwned
<1>4. (Old(f) \/ Beats(f) \/ Uploads(f)) /\ (Old(g) \/ Beats(g) \/ Uploads(g))
  BY PathGained
<1>5. ASSUME NEW h, NEW k, Beats(h), Uploads(k) PROVE FALSE
  BY <1>0, <1>5
<1>6. ASSUME NEW h, NEW k, Beats(h), Beats(k) PROVE h = k
  BY <1>6
<1>7. ASSUME NEW h, NEW k, Uploads(h), Uploads(k) PROVE h = k
  BY <1>7
<1>8. f \in FileId \ edited /\ g \in FileId \ edited
  BY <1>0
<1> HIDE DEF Old, Beats, Uploads
<1>9. CASE Old(f)
  BY <1>1, <1>2, <1>3, <1>4, <1>8, <1>9
<1>10. CASE Beats(f)
  BY <1>2, <1>4, <1>5, <1>6, <1>8, <1>10
<1>11. CASE Uploads(f)
  BY <1>3, <1>4, <1>5, <1>7, <1>8, <1>11
<1> QED BY <1>4, <1>9, <1>10, <1>11

LEMMA OneRowInvStep ==
  ASSUME Safe, AgentAwaits, OneRowInv, [Next]_vars
  PROVE  OneRowInv'
<1>1. /\ WfInv /\ StoresDistinct
      /\ PathsKnown /\ BeatAlone /\ PathsOwned /\ NewRows /\ OneRowPerPath
  BY DEF Safe, OneRowInv
<1>2. PathsKnown' /\ BeatAlone' /\ PathsOwned' /\ NewRows' /\ OneRowPerPath'
  BY <1>1, PathsKnownStep, BeatAloneStep, PathsOwnedStep, NewRowsStep, OneRowStep
<1> QED BY <1>2 DEF OneRowInv

LEMMA OneRowInvInit == Init => OneRowInv
  BY DEF Init, OneRowInv, PathsKnown, BeatAlone, PathsOwned, NewRows, OneRowPerPath,
         Present, NoRow, Idle

LEMMA OneRowInvariant == Spec => [](Safe /\ AgentAwaits /\ OneRowInv)
<1> DEFINE J == Safe /\ AgentAwaits /\ OneRowInv
<1>1. Init => J
  BY SafeInit, RowInvInit, OneRowInvInit
<1>2. J /\ [Next]_vars => J'
  BY SafeStep, AgentAwaitsStep, OneRowInvStep DEF Safe
<1> HIDE DEF J
<1>3. Spec => []J
  BY <1>1, <1>2, PTL DEF Spec
<1> QED
  BY <1>3 DEF J

\* As long as no heartbeat outlives its timeout or its agent, heartbeats and uploads
\* give no path a second row that nobody has edited.
THEOREM OneRow == Spec => []OneRowPerPath
<1>1. OneRowInv => OneRowPerPath
  BY DEF OneRowInv
<1> QED
  BY <1>1, OneRowInvariant, PTL

-----------------------------------------------------------------------------
(* Jobs at risk *)

FaultKind == {"lost", "break", "crash", "tear", "restart"}

LEMMA FaultsGrow ==
  ASSUME WfInv, [Next]_vars
  PROVE  FaultsSoFar \in Nat /\ FaultsSoFar' \in Nat /\ FaultsSoFar' >= FaultsSoFar
<1>1. \A k \in FaultKind : used[k] \in Nat /\ used'[k] \in Nat /\ used'[k] >= used[k]
  BY UsedGrows DEF FaultKind, Kind
<1> QED BY <1>1 DEF FaultsSoFar, FaultKind

LEMMA FaultCounted ==
  ASSUME WfInv, NEW kind \in FaultKind, Spend(kind)
  PROVE  FaultsSoFar' = FaultsSoFar + 1
<1>1. \A k \in FaultKind : used[k] \in Nat /\ used'[k] = IF k = kind THEN used[k] + 1 ELSE used[k]
  BY DEF Spend, FaultKind, Kind, WfInv, TypeOK
<1>2. /\ used["lost"] \in Nat /\ used'["lost"] = IF kind = "lost" THEN used["lost"] + 1 ELSE used["lost"]
      /\ used["break"] \in Nat /\ used'["break"] = IF kind = "break" THEN used["break"] + 1 ELSE used["break"]
      /\ used["crash"] \in Nat /\ used'["crash"] = IF kind = "crash" THEN used["crash"] + 1 ELSE used["crash"]
      /\ used["tear"] \in Nat /\ used'["tear"] = IF kind = "tear" THEN used["tear"] + 1 ELSE used["tear"]
      /\ used["restart"] \in Nat
      /\ used'["restart"] = IF kind = "restart" THEN used["restart"] + 1 ELSE used["restart"]
  BY <1>1 DEF FaultKind
<1>3. CASE kind = "lost"
  BY <1>2, <1>3 DEF FaultsSoFar
<1>4. CASE kind = "break"
  BY <1>2, <1>4 DEF FaultsSoFar
<1>5. CASE kind = "crash"
  BY <1>2, <1>5 DEF FaultsSoFar
<1>6. CASE kind = "tear"
  BY <1>2, <1>6 DEF FaultsSoFar
<1>7. CASE kind = "restart"
  BY <1>2, <1>7 DEF FaultsSoFar
<1> QED BY <1>3, <1>4, <1>5, <1>6, <1>7 DEF FaultKind

InProgress(j) == j \in 1..Len(jobs) /\ jobs[j].status = "in_progress"

\* A step that takes no job, keeps the agent at its own and no handler away from
\* it, puts nothing at risk.
LEMMA SafeMove ==
  ASSUME \A j : InProgress(j)' => InProgress(j),
         \A j : (InProgress(j)' /\ agent.job = j /\ ~ Reported) => agent'.job = j /\ ~ Reported',
         Orphans' \subseteq Orphans
  PROVE  AtRisk' \subseteq AtRisk
<1>1. ASSUME NEW j \in Abandoned' PROVE j \in Abandoned
  <2>1. InProgress(j)' /\ (agent'.job # j \/ Reported')
    BY DEF Abandoned, InProgress
  <2> QED BY <2>1 DEF Abandoned, InProgress
<1> QED BY <1>1 DEF AtRisk

\* The agent starts over.
LEMMA LoopRisk ==
  ASSUME WfInv, AgentAwaits, Loop, jobs' = jobs,
         \A t \in Thread : threads'[t].pc \in Fetching => threads[t].pc \in Fetching
  PROVE  \E x : AtRisk' \subseteq AtRisk \cup {x}
<1>0. agent'.job = 0 /\ agent'.slot = NoThread /\ agent'.pc = "beat" /\ ~ Reported'
  BY DEF Loop, AgentStart, Reported
<1>1. ASSUME NEW j \in Abandoned', j \notin Abandoned
      PROVE  agent.job = j /\ agent.pc \in WithJob
  <2>1. agent.job = j /\ j # 0
    BY <1>0, <1>1, RowTypes DEF Abandoned
  <2> QED BY <2>1 DEF AgentAwaits
<1>2. ASSUME NEW t \in Orphans', t \notin Orphans
      PROVE  agent.pc = "fetch_wait" /\ t = agent.slot
  <2>1. t \in Thread /\ threads[t].pc \in Fetching /\ agent.slot = t
    BY <1>0, <1>2 DEF Orphans, Fetching
  <2> QED BY <2>1, ThreadAssumption DEF AgentAwaits, Fetching, Completing
<1>3. CASE agent.pc = "fetch_wait"
  <2>1. Abandoned' \subseteq Abandoned
    BY <1>1, <1>3 DEF WithJob
  <2>2. Orphans' \subseteq Orphans \cup {agent.slot}
    BY <1>2
  <2>3. AtRisk' \subseteq AtRisk \cup {<<"thread", agent.slot>>}
    BY <2>1, <2>2 DEF AtRisk
  <2> QED BY <2>3
<1>4. CASE agent.pc # "fetch_wait"
  <2>1. Abandoned' \subseteq Abandoned \cup {agent.job}
    BY <1>1
  <2>2. Orphans' \subseteq Orphans
    BY <1>2, <1>4
  <2>3. AtRisk' \subseteq AtRisk \cup {<<"job", agent.job>>}
    BY <2>1, <2>2 DEF AtRisk
  <2> QED BY <2>3
<1> QED BY <1>3, <1>4

\* A job is in progress only once a handler has taken it.
LEMMA InProgressBefore ==
  ASSUME WfInv,
         \/ UNCHANGED jobs \/ UploadJob
         \/ \E t \in Thread : DeleteQueueJob(t) \/ DownloadQueueJob(t) \/ CompleteJob(t)
  PROVE  \A j : InProgress(j)' => InProgress(j)
<1> SUFFICES ASSUME NEW j, InProgress(j)' PROVE InProgress(j)
  OBVIOUS
<1>0. Len(jobs) \in Nat
  BY RowTypes
<1>1. CASE UNCHANGED jobs
  BY <1>1 DEF InProgress
<1>2. CASE UploadJob
  <2>1. QueueJob("store_file", up.file, up.file, UploadTemp, FALSE)
    BY <1>2 DEF UploadJob
  <2>2. Len(jobs') = Len(jobs) + 1 /\ jobs'[Len(jobs) + 1].status = "queued"
        /\ \A i \in 1..Len(jobs) : jobs'[i] = jobs[i]
    BY <1>2, <2>1, UploadJobAppends DEF QueueJob, WfInv, TypeOK
  <2> QED BY <1>0, <2>2 DEF InProgress
<1>3. ASSUME NEW t \in Thread, DeleteQueueJob(t) PROVE InProgress(j)
  <2>1. QueueJob("delete_file", threads[t].file, threads[t].rel, NoTemp, FALSE)
    BY <1>3 DEF DeleteQueueJob
  <2>2. Len(jobs') = Len(jobs) + 1 /\ jobs'[Len(jobs) + 1].status = "queued"
        /\ \A i \in 1..Len(jobs) : jobs'[i] = jobs[i]
    BY <1>3, <2>1, DeleteQueueJobAppends DEF QueueJob, WfInv, TypeOK
  <2> QED BY <1>0, <2>2 DEF InProgress
<1>4. ASSUME NEW t \in Thread, DownloadQueueJob(t) PROVE InProgress(j)
  <2>1. QueueJob("collect_file", threads[t].file, threads[t].rel, NoTemp, threads[t].ok)
    BY <1>4 DEF DownloadQueueJob
  <2>2. Len(jobs') = Len(jobs) + 1 /\ jobs'[Len(jobs) + 1].status = "queued"
        /\ \A i \in 1..Len(jobs) : jobs'[i] = jobs[i]
    BY <1>4, <2>1, DownloadQueueJobAppends DEF QueueJob, WfInv, TypeOK
  <2> QED BY <1>0, <2>2 DEF InProgress
<1>5. ASSUME NEW t \in Thread, CompleteJob(t) PROVE InProgress(j)
  <2>1. /\ Len(jobs') = Len(jobs)
        /\ \A i \in 1..Len(jobs) : i # threads[t].job => jobs'[i].status = jobs[i].status
        /\ jobs'[threads[t].job].status \in {"done", "failed"}
    <3>1. threads[t].job \in 1..Len(jobs)
      BY <1>5 DEF CompleteJob, WfInv, HandlersWf, HandlerWf, Completing
    <3> QED BY <1>5, <3>1, CompleteJobMarks DEF WfInv
  <2>2. j # threads[t].job
    BY <2>1 DEF InProgress
  <2> QED BY <2>1, <2>2 DEF InProgress
<1> QED BY <1>1, <1>2, <1>3, <1>4, <1>5

\* A handler moves: one that the agent does not wait for, or one that it waits for
\* without a job at risk.
LEMMA GotoRisk ==
  ASSUME WfInv, AgentAwaits, NEW t \in Thread, NEW h, Goto(t, h),
         \A j : InProgress(j)' => InProgress(j),
         \/ /\ agent' = agent /\ agent.slot # t
            /\ h.pc \in Fetching => threads[t].pc \in Fetching
         \/ /\ agent.slot = t
            /\ h.pc \in Fetching => agent'.slot = t
            /\ agent.job = 0 \/ Reported \/ \A j : InProgress(j)' => j # agent.job
  PROVE  AtRisk' \subseteq AtRisk
<1>0. threads \in [Thread -> Handler] /\ threads'[t] = h
      /\ \A u \in Thread : u # t => threads'[u] = threads[u]
  BY RowTypes DEF Goto
<1>1. CASE /\ agent' = agent /\ agent.slot # t
           /\ h.pc \in Fetching => threads[t].pc \in Fetching
  <2>1. Orphans' \subseteq Orphans
    BY <1>0, <1>1 DEF Orphans, Fetching
  <2>2. Reported' = Reported
    BY <1>0, <1>1 DEF Reported, AgentAwaits
  <2> QED BY <1>1, <2>1, <2>2, SafeMove
<1>2. CASE /\ agent.slot = t
           /\ h.pc \in Fetching => agent'.slot = t
           /\ agent.job = 0 \/ Reported \/ \A j : InProgress(j)' => j # agent.job
  <2>1. Orphans' \subseteq Orphans
    BY <1>0, <1>2 DEF Orphans, Fetching
  <2>2. \A j : InProgress(j)' => j # 0
    BY RowTypes DEF InProgress
  <2> QED BY <1>2, <2>1, <2>2, SafeMove
<1> QED BY <1>1, <1>2

\* The agent waits for a handler of its kind.
LEMMA AwaitedBy ==
  ASSUME WfInv, AgentAwaits, NEW t \in Thread, agent.slot = t
  PROVE  /\ threads[t].pc \in Beating => agent.pc = "beat_wait" /\ agent.job = 0
         /\ threads[t].pc \in Fetching => agent.pc = "fetch_wait" /\ agent.job = 0
         /\ threads[t].pc \in Completing => agent.pc = "report_wait" /\ agent.job = threads[t].job
         /\ threads[t].pc \in Beating \cup Fetching \cup Completing
<1>1. agent.pc \in {"beat_wait", "fetch_wait", "report_wait"}
  BY ThreadAssumption DEF AgentAwaits
<1> QED BY <1>1 DEF AgentAwaits, Beating, Fetching, Completing, WithJob

LEMMA RespondRisk ==
  ASSUME WfInv, AgentAwaits, NEW t \in Thread, NEW pc, Done(t), Respond(t, pc), UNCHANGED jobs,
         threads[t].pc # "complete_job"
  PROVE  AtRisk' \subseteq AtRisk
<1>1. \A j : InProgress(j)' => InProgress(j)
  BY DEF InProgress
<1>2. Idle.pc \notin Fetching
  BY DEF Idle, Fetching
<1>3. CASE agent.slot = t
  <2>1. agent.job = 0 \/ Reported
    BY <1>3, AwaitedBy DEF Reported
  <2> QED BY <1>1, <1>2, <1>3, <2>1, GotoRisk DEF Done
<1>4. CASE agent.slot # t
  BY <1>1, <1>2, <1>4, GotoRisk DEF Done, Respond
<1> QED BY <1>3, <1>4

\* An orphan takes a job: one risk for another.
LEMMA FetchTakeRisk ==
  ASSUME WfInv, AgentAwaits, NEW t \in Thread, FetchTake(t)
  PROVE  \/ AtRisk' \subseteq AtRisk
         \/ \E x \in AtRisk : \E y : AtRisk' \subseteq (AtRisk \ {x}) \cup {y}
<1>0. /\ threads \in [Thread -> Handler] /\ threads[t].pc = "fetch_take" /\ threads'[t] = Idle
      /\ \A u \in Thread : u # t => threads'[u] = threads[u]
      /\ Idle.pc \notin Fetching
  BY RowTypes DEF FetchTake, Done, Goto, Idle, Fetching
<1>1. \A j : InProgress(j)' => InProgress(j) \/ j = threads[t].job
  BY FetchTakeMarks DEF WfInv, InProgress
<1>2. CASE agent.slot = t
  <2>1. agent.job = 0
    BY <1>0, <1>2, AwaitedBy DEF Fetching
  <2>2. threads[t].job \in 1..Len(jobs) /\ jobs[threads[t].job] \in Job
    BY <1>0, RowTypes DEF WfInv, HandlersWf, HandlerWf
  <2>3. /\ agent'.pc = FirstStep(jobs[threads[t].job].type)
        /\ agent'.slot = NoThread /\ agent'.job = threads[t].job
    BY <1>2 DEF FetchTake, WfInv, TypeOK, Agent
  <2>4. agent'.pc # "report_wait"
    BY <2>2, <2>3 DEF FirstStep, Job, JobType
  <2>5. Abandoned' \subseteq Abandoned
    <3> SUFFICES ASSUME NEW j \in Abandoned' PROVE j \in Abandoned
      OBVIOUS
    <3>1. InProgress(j)' /\ j # threads[t].job
      BY <2>3, <2>4 DEF Abandoned, InProgress, Reported
    <3>2. InProgress(j) /\ j # 0
      BY <1>1, <3>1 DEF InProgress
    <3> QED BY <2>1, <3>2 DEF Abandoned, InProgress
  <2>6. Orphans' \subseteq Orphans
    BY <1>0, <1>2 DEF Orphans, Fetching
  <2> QED BY <2>5, <2>6 DEF AtRisk
<1>3. CASE agent.slot # t
  <2>1. agent' = agent
    BY <1>3 DEF FetchTake
  <2>2. Reported' = Reported
    BY <1>0, <1>3, <2>1 DEF Reported, AgentAwaits
  <2>3. Abandoned' \subseteq Abandoned \cup {threads[t].job}
    BY <1>1, <2>1, <2>2 DEF Abandoned, InProgress
  <2>4. t \in Orphans /\ Orphans' \subseteq Orphans \ {t}
    BY <1>0, <1>3, <2>1 DEF Orphans, Fetching
  <2>5. AtRisk' \subseteq (AtRisk \ {<<"thread", t>>}) \cup {<<"job", threads[t].job>>}
    BY <2>3, <2>4 DEF AtRisk
  <2>6. <<"thread", t>> \in AtRisk
    BY <2>4 DEF AtRisk
  <2> QED BY <2>5, <2>6
<1> QED BY <1>2, <1>3

LEMMA HandlerRisk ==
  ASSUME WfInv, AgentAwaits, NEW t \in Thread, HandlerStep(t)
  PROVE  \/ AtRisk' \subseteq AtRisk
         \/ \E x \in AtRisk : \E y : AtRisk' \subseteq (AtRisk \ {x}) \cup {y}
<1>0. threads \in [Thread -> Handler] /\ threads[t] \in Handler
  BY RowTypes
<1>1. CASE \/ DeleteQueueJob(t) \/ DeleteListBlobs(t) \/ DeleteBlobs(t) \/ DeleteRow(t)
           \/ DownloadMark(t) \/ DownloadQueueJob(t) \/ EditWrite(t)
  <2>1. threads[t].pc \notin Beating \cup Fetching \cup Completing
    BY <1>1 DEF DeleteQueueJob, DeleteListBlobs, DeleteBlobs, DeleteRow, DownloadMark,
                DownloadQueueJob, EditWrite, Beating, Fetching, Completing
  <2>2. agent.slot # t
    BY <2>1, AwaitedBy
  <2>3. agent' = agent /\ (UNCHANGED jobs \/ DeleteQueueJob(t) \/ DownloadQueueJob(t))
    BY <1>1 DEF DeleteQueueJob, DeleteListBlobs, DeleteBlobs, DeleteRow, DownloadMark,
                DownloadQueueJob, EditWrite, server
  <2>4. \A j : InProgress(j)' => InProgress(j)
    BY <2>3, InProgressBefore
  <2>5. \/ Done(t)
        \/ \E pc \in HandlerPc \ Fetching : Goto(t, [threads[t] EXCEPT !.pc = pc])
        \/ \E pc \in HandlerPc \ Fetching : \E held :
             Goto(t, [threads[t] EXCEPT !.pc = pc, !.temps = held])
    BY <1>1 DEF DeleteQueueJob, DeleteListBlobs, DeleteBlobs, DeleteRow, DownloadMark,
                DownloadQueueJob, EditWrite, HandlerPc, Fetching
  <2>6. \E h : Goto(t, h) /\ h.pc \notin Fetching
    <3>1. CASE Done(t)
      BY <3>1 DEF Done, Idle, Fetching
    <3>2. ASSUME NEW pc \in HandlerPc \ Fetching, Goto(t, [threads[t] EXCEPT !.pc = pc])
          PROVE  \E h : Goto(t, h) /\ h.pc \notin Fetching
      <4>1. [threads[t] EXCEPT !.pc = pc].pc = pc
        BY <1>0 DEF Handler
      <4> QED BY <3>2, <4>1
    <3>3. ASSUME NEW pc \in HandlerPc \ Fetching, NEW held,
                 Goto(t, [threads[t] EXCEPT !.pc = pc, !.temps = held])
          PROVE  \E h : Goto(t, h) /\ h.pc \notin Fetching
      <4>1. [threads[t] EXCEPT !.pc = pc, !.temps = held].pc = pc
        BY <1>0 DEF Handler
      <4> QED BY <3>3, <4>1
    <3> QED BY <2>5, <3>1, <3>2, <3>3
  <2> QED BY <2>2, <2>3, <2>4, <2>6, GotoRisk
<1>2. CASE BeatRead(t)
  <2>1. UNCHANGED jobs /\ threads[t].pc = "beat_read"
    BY <1>2 DEF BeatRead, server
  <2>2. CASE Done(t) /\ Respond(t, "fetch")
    BY <2>1, <2>2, RespondRisk
  <2>3. ASSUME NEW r, NEW f, agent' = agent,
               Goto(t, [threads[t] EXCEPT !.pc = "beat_write", !.rel = r, !.file = f, !.todo = @ \ {r}])
        PROVE  AtRisk' \subseteq AtRisk
    <3>1. [threads[t] EXCEPT !.pc = "beat_write", !.rel = r, !.file = f, !.todo = @ \ {r}].pc
            \notin Fetching
      BY <1>0 DEF Handler, Fetching
    <3>2. agent.slot = t => agent.job = 0
      BY <2>1, AwaitedBy DEF Beating
    <3> QED BY <2>1, <2>3, <3>1, <3>2, InProgressBefore, GotoRisk
  <2> QED BY <1>2, <2>2, <2>3 DEF BeatRead
<1>3. CASE BeatWrite(t)
  <2>1. UNCHANGED jobs /\ threads[t].pc = "beat_write"
    BY <1>3 DEF BeatWrite
  <2>2. CASE Done(t) /\ Respond(t, "fetch")
    BY <2>1, <2>2, RespondRisk
  <2>3. CASE agent' = agent /\ Goto(t, [Idle EXCEPT !.pc = "beat_read", !.todo = threads[t].todo])
    <3>1. [Idle EXCEPT !.pc = "beat_read", !.todo = threads[t].todo].pc \notin Fetching
      BY DEF Idle, Fetching
    <3>2. agent.slot = t => agent.job = 0
      BY <2>1, AwaitedBy DEF Beating
    <3> QED BY <2>1, <2>3, <3>1, <3>2, InProgressBefore, GotoRisk
  <2> QED BY <1>3, <2>2, <2>3 DEF BeatWrite
<1>4. CASE FetchSelect(t)
  <2>1. UNCHANGED jobs /\ threads[t].pc = "fetch_select"
    BY <1>4 DEF FetchSelect, server
  <2>2. CASE Done(t) /\ Respond(t, "beat")
    BY <2>1, <2>2, RespondRisk
  <2>3. ASSUME NEW j, agent' = agent, Goto(t, [Idle EXCEPT !.pc = "fetch_take", !.job = j])
        PROVE  AtRisk' \subseteq AtRisk
    <3>1. agent.slot = t => agent.job = 0 /\ agent'.slot = t
      BY <2>1, <2>3, AwaitedBy DEF Fetching
    <3>2. threads[t].pc \in Fetching
      BY <2>1 DEF Fetching
    <3> QED BY <2>1, <2>3, <3>1, <3>2, InProgressBefore, GotoRisk
  <2> QED BY <1>4, <2>2, <2>3 DEF FetchSelect
<1>5. CASE FetchTake(t)
  BY <1>5, FetchTakeRisk
<1>6. CASE CompleteJob(t) \/ CompleteBlob(t)
  <2>1. /\ agent' = agent /\ threads[t].pc \in Completing
        /\ (UNCHANGED jobs /\ threads[t].pc = "complete_blob") \/ CompleteJob(t)
    BY <1>6 DEF CompleteJob, CompleteBlob, Completing
  <2>2. \A j : InProgress(j)' => InProgress(j)
    BY <2>1, InProgressBefore
  <2>3. PICK pc \in HandlerPc \ Fetching : Goto(t, [threads[t] EXCEPT !.pc = pc])
    BY <1>6 DEF CompleteJob, CompleteBlob, HandlerPc, Fetching
  <2>4. [threads[t] EXCEPT !.pc = pc].pc \notin Fetching
    BY <1>0, <2>3 DEF Handler
  <2>5. ASSUME agent.slot = t
        PROVE  Reported \/ \A j : InProgress(j)' => j # agent.job
    <3>1. agent.pc = "report_wait" /\ agent.job = threads[t].job
      BY <2>1, <2>5, AwaitedBy
    <3>2. CASE threads[t].pc = "complete_blob"
      BY <2>5, <3>1, <3>2 DEF Reported
    <3>3. CASE CompleteJob(t)
      <4>1. threads[t].job \in 1..Len(jobs)
        BY <2>1 DEF WfInv, HandlersWf, HandlerWf
      <4>2. jobs'[threads[t].job].status \in {"done", "failed"}
        BY <3>3, <4>1, CompleteJobMarks DEF WfInv
      <4> QED BY <2>1, <3>1, <4>2 DEF InProgress
    <3> QED BY <2>1, <3>2, <3>3
  <2> QED BY <2>1, <2>2, <2>3, <2>4, <2>5, GotoRisk
<1>7. CASE CompleteStatus(t)
  <2>1. UNCHANGED jobs /\ threads[t].pc # "complete_job" /\ Done(t) /\ Respond(t, "beat")
    BY <1>7 DEF CompleteStatus
  <2> QED BY <2>1, RespondRisk
<1> QED BY <1>1, <1>2, <1>3, <1>4, <1>5, <1>6, <1>7 DEF HandlerStep

LEMMA AgentRisk ==
  ASSUME WfInv, AgentAwaits, AgentStep
  PROVE  AtRisk' \subseteq AtRisk
<1>0. agent \in Agent /\ threads \in [Thread -> Handler]
  BY DEF WfInv, TypeOK
<1>1. CASE GetBlob \/ WriteBlob \/ ListFile \/ PushFile \/ UnlinkFile \/ UnlistFile
  <2>1. UNCHANGED <<jobs, threads>>
    BY <1>1 DEF GetBlob, WriteBlob, ListFile, PushFile, UnlinkFile, UnlistFile, AgentOnly, server
  <2>2. agent'.job = agent.job /\ agent'.slot = agent.slot /\ agent'.pc # "report_wait"
    BY <1>0, <1>1 DEF GetBlob, WriteBlob, ListFile, PushFile, UnlinkFile, UnlistFile, Report, Agent
  <2>3. Orphans' \subseteq Orphans
    BY <2>1, <2>2 DEF Orphans
  <2>4. ~ Reported'
    BY <2>2 DEF Reported
  <2> QED BY <2>1, <2>2, <2>3, <2>4, InProgressBefore, SafeMove
<1>2. ASSUME NEW t \in Thread, SendHeartbeat(t) \/ SendFetch(t) \/ SendReport(t)
      PROVE  AtRisk' \subseteq AtRisk
  <2>1. UNCHANGED jobs
    BY <1>2 DEF SendHeartbeat, SendFetch, SendReport, server
  <2>2. agent.slot = NoThread /\ agent'.job = agent.job /\ agent'.slot = t
    BY <1>0, <1>2 DEF SendHeartbeat, SendFetch, SendReport, AgentAwaits, Agent
  <2>3. \A u \in Thread : u # t => threads'[u] = threads[u]
    BY <1>0, <1>2 DEF SendHeartbeat, SendFetch, SendReport, Goto
  <2>4. Orphans' \subseteq Orphans
    BY <2>2, <2>3, ThreadAssumption DEF Orphans
  <2>5. ~ Reported'
    <3>1. CASE SendReport(t)
      <4>1. threads'[t].pc = "complete_job"
        BY <1>0, <3>1 DEF SendReport, Goto, Idle
      <4> QED BY <2>2, <4>1 DEF Reported
    <3>2. CASE SendHeartbeat(t) \/ SendFetch(t)
      BY <1>0, <3>2 DEF SendHeartbeat, SendFetch, Reported, Agent
    <3> QED BY <1>2, <3>1, <3>2
  <2> QED BY <2>1, <2>2, <2>4, <2>5, InProgressBefore, SafeMove
<1> QED BY <1>1, <1>2 DEF AgentStep

LEMMA RequestRisk ==
  ASSUME WfInv, AgentAwaits, UserRequest \/ UploadStep \/ UNCHANGED vars
  PROVE  AtRisk' \subseteq AtRisk
<1>0. threads \in [Thread -> Handler]
  BY DEF WfInv, TypeOK
<1>1. CASE CreateRecord \/ UploadReceive \/ UploadStep \/ UNCHANGED vars
  <2>1. UNCHANGED <<agent, threads>> /\ (UNCHANGED jobs \/ UploadJob)
    BY <1>1 DEF CreateRecord, UploadReceive, UploadStep, UploadRefuse, UploadInsert, UploadRead,
                UploadPath, UploadBlob, UploadJob, vars, server
  <2>2. Orphans' = Orphans /\ Reported' = Reported
    BY <2>1 DEF Orphans, Reported
  <2> QED BY <2>1, <2>2, InProgressBefore, SafeMove
<1>2. ASSUME NEW t \in Thread, NEW f \in FileId,
             \/ DeleteRead(t, f)
             \/ \E proxied \in BOOLEAN : DownloadRead(t, f, proxied)
             \/ \E s : EditRead(t, f, s)
      PROVE  AtRisk' \subseteq AtRisk
  <2>1. UNCHANGED <<agent, jobs>> /\ threads[t].pc = "idle" /\ \E h : Goto(t, h)
    BY <1>2 DEF DeleteRead, DownloadRead, EditRead, server, IsIdle
  <2>2. threads'[t].pc \notin Fetching
    <3>1. DeleteRead(t, f) => threads'[t].pc \in {"delete_queue", "delete_list"}
      BY <1>0 DEF DeleteRead, Goto, Idle
    <3>2. \A proxied \in BOOLEAN : DownloadRead(t, f, proxied) => threads'[t].pc = "download_mark"
      BY <1>0 DEF DownloadRead, Goto, Idle
    <3>3. \A s : EditRead(t, f, s) => threads'[t].pc = "edit_write"
      BY <1>0 DEF EditRead, Goto, Idle
    <3> QED BY <1>2, <3>1, <3>2, <3>3 DEF Fetching
  <2>3. PICK h : Goto(t, h) /\ h.pc \notin Fetching
    BY <1>0, <2>1, <2>2 DEF Goto
  <2>4. agent.slot # t
    BY <2>1, AwaitedBy DEF Beating, Fetching, Completing
  <2> QED BY <2>1, <2>3, <2>4, InProgressBefore, GotoRisk
<1> QED BY <1>1, <1>2 DEF UserRequest

\* A fault puts at most one more thing at risk.
LEMMA FaultRisk ==
  ASSUME WfInv, AgentAwaits, Fault
  PROVE  FaultsSoFar' = FaultsSoFar + 1 /\ \E x : AtRisk' \subseteq AtRisk \cup {x}
<1>0. agent \in Agent /\ threads \in [Thread -> Handler] /\ Idle.pc \notin Fetching
  BY DEF WfInv, TypeOK, Idle, Fetching
<1>1. FaultsSoFar' = FaultsSoFar + 1
  <2>1. \E kind \in FaultKind : Spend(kind)
    BY DEF Fault, AgentTimeout, RequestLost, ResultLost, TransferRefused, StreamBroken,
           AgentCrash, MetaTorn, ServerRestart, FaultKind
  <2> QED BY <2>1, FaultCounted
<1>2. CASE AgentTimeout \/ RequestLost \/ ResultLost \/ StreamBroken \/ AgentCrash \/ MetaTorn
  <2>1. Loop /\ UNCHANGED <<jobs, threads>>
    BY <1>2 DEF AgentTimeout, RequestLost, ResultLost, StreamBroken, AgentCrash, MetaTorn, server
  <2> QED BY <1>1, <2>1, LoopRisk
<1>3. CASE TransferRefused
  <2>1. /\ UNCHANGED <<jobs, threads>> /\ agent'.job = agent.job /\ agent'.slot = agent.slot
        /\ agent'.pc = "report"
    BY <1>0, <1>3 DEF TransferRefused, server, Report, Agent
  <2>2. Orphans' \subseteq Orphans /\ ~ Reported'
    BY <2>1 DEF Orphans, Reported
  <2>3. AtRisk' \subseteq AtRisk
    BY <2>1, <2>2, InProgressBefore, SafeMove
  <2> QED BY <1>1, <2>3
<1>4. CASE ServerRestart
  <2>1. UNCHANGED jobs /\ \A t \in Thread : threads'[t].pc \notin Fetching
    BY <1>0, <1>4 DEF ServerRestart, server
  <2>2. CASE agent.slot = NoThread
    <3>1. UNCHANGED agent /\ agent.pc # "report_wait"
      BY <1>4, <2>2, ThreadAssumption DEF ServerRestart, AgentAwaits
    <3>2. Orphans' \subseteq Orphans /\ ~ Reported'
      BY <2>1, <3>1 DEF Orphans, Reported, Fetching
    <3>3. AtRisk' \subseteq AtRisk
      BY <2>1, <3>1, <3>2, InProgressBefore, SafeMove
    <3> QED BY <1>1, <3>3
  <2>3. CASE agent.slot # NoThread
    <3>1. Loop
      BY <1>4, <2>3 DEF ServerRestart
    <3> QED BY <1>1, <2>1, <3>1, LoopRisk
  <2> QED BY <2>2, <2>3
<1> QED BY <1>2, <1>3, <1>4 DEF Fault

LEMMA RiskStep ==
  ASSUME WfInv, AgentAwaits, RiskByFaults, [Next]_vars
  PROVE  RiskByFaults'
<1>0. /\ FaultsSoFar \in Nat /\ FaultsSoFar' \in Nat /\ FaultsSoFar' >= FaultsSoFar
      /\ IsFiniteSet(AtRisk) /\ Cardinality(AtRisk) <= FaultsSoFar
      /\ Cardinality(AtRisk) \in Nat
  BY FaultsGrow, FS_CardinalityType DEF RiskByFaults
<1>1. ASSUME NEW S, IsFiniteSet(S), Cardinality(S) <= FaultsSoFar', AtRisk' \subseteq S
      PROVE  RiskByFaults'
  <2>1. IsFiniteSet(AtRisk') /\ Cardinality(AtRisk') <= Cardinality(S)
    BY <1>1, FS_Subset
  <2>2. Cardinality(AtRisk') \in Nat /\ Cardinality(S) \in Nat
    BY <1>1, <2>1, FS_CardinalityType
  <2> QED BY <1>0, <1>1, <2>1, <2>2 DEF RiskByFaults
<1>2. CASE AtRisk' \subseteq AtRisk
  <2>1. Cardinality(AtRisk) <= FaultsSoFar'
    BY <1>0
  <2> QED BY <1>0, <1>1, <1>2, <2>1
<1>3. ASSUME NEW x, FaultsSoFar' = FaultsSoFar + 1, AtRisk' \subseteq AtRisk \cup {x}
      PROVE  RiskByFaults'
  <2>1. IsFiniteSet(AtRisk \cup {x}) /\ Cardinality(AtRisk \cup {x}) <= Cardinality(AtRisk) + 1
    BY <1>0, FS_AddElement
  <2>2. Cardinality(AtRisk \cup {x}) \in Nat
    BY <2>1, FS_CardinalityType
  <2>3. Cardinality(AtRisk \cup {x}) <= FaultsSoFar'
    BY <1>0, <1>3, <2>1, <2>2
  <2> QED BY <1>1, <1>3, <2>1, <2>3
<1>4. ASSUME NEW x \in AtRisk, NEW y, AtRisk' \subseteq (AtRisk \ {x}) \cup {y}
      PROVE  RiskByFaults'
  <2> DEFINE S == AtRisk \ {x}
  <2>1. IsFiniteSet(S) /\ Cardinality(S) = Cardinality(AtRisk) - 1
    BY <1>0, FS_RemoveElement
  <2>2. Cardinality(S) \in Nat
    BY <2>1, FS_CardinalityType
  <2> HIDE DEF S
  <2>3. IsFiniteSet(S \cup {y}) /\ Cardinality(S \cup {y}) <= Cardinality(S) + 1
    BY <2>1, <2>2, FS_AddElement
  <2>4. Cardinality(S \cup {y}) \in Nat
    BY <2>3, FS_CardinalityType
  <2>5. Cardinality(S \cup {y}) <= FaultsSoFar'
    BY <1>0, <2>1, <2>2, <2>3, <2>4
  <2>6. AtRisk' \subseteq S \cup {y}
    BY <1>4 DEF S
  <2> QED BY <1>1, <2>3, <2>5, <2>6
<1>5. ASSUME NEW t \in Thread, HandlerStep(t)
      PROVE  RiskByFaults'
  BY <1>2, <1>4, <1>5, HandlerRisk
<1>6. CASE AgentStep
  BY <1>2, <1>6, AgentRisk
<1>7. CASE UserRequest \/ UploadStep \/ UNCHANGED vars
  BY <1>2, <1>7, RequestRisk
<1>8. CASE Fault
  BY <1>3, <1>8, FaultRisk
<1> QED BY <1>5, <1>6, <1>7, <1>8 DEF Next

LEMMA RiskInvInit == Init => RiskInv
<1> SUFFICES ASSUME Init PROVE RiskInv
  OBVIOUS
<1>1. 1..Len(jobs) = {}
  BY EmptySeq DEF Init
<1>2. Abandoned = {} /\ Orphans = {}
  BY <1>1 DEF Init, Abandoned, Orphans, Idle
<1>3. AtRisk = {}
  BY <1>2 DEF AtRisk
<1>4. FaultsSoFar = 0
  BY DEF Init, FaultsSoFar, Kind
<1> QED BY <1>3, <1>4, FS_EmptySet, RowInvInit DEF RiskInv, RiskByFaults

LEMMA RiskInvStep == ASSUME Safe, RiskInv, [Next]_vars PROVE RiskInv'
  BY AgentAwaitsStep, RiskStep DEF Safe, RiskInv

\* A job that is in progress and in nobody's hands is the work of a fault of its own.
THEOREM StrandedCosts == Spec => []StrandedByFaults
<1> DEFINE J == Safe /\ RiskInv
<1>1. Init => J
  BY SafeInit, RiskInvInit
<1>2. J /\ [Next]_vars => J'
  BY SafeStep, RiskInvStep
<1>3. J => StrandedByFaults
  <2> SUFFICES ASSUME Safe, RiskInv PROVE StrandedByFaults
    OBVIOUS
  <2> DEFINE tag == [j \in Stranded |-> <<"job", j>>]
  <2>1. \A j \in Stranded : tag[j] \in AtRisk
    BY DEF Stranded, InHand, AtRisk, Abandoned
  <2>2. tag \in Injection(Stranded, AtRisk)
    BY <2>1 DEF Injection, IsInjective
  <2>3. IsFiniteSet(AtRisk) /\ Cardinality(AtRisk) <= FaultsSoFar
    BY DEF RiskInv, RiskByFaults
  <2>4. IsFiniteSet(Stranded) /\ Cardinality(Stranded) <= Cardinality(AtRisk)
    BY <2>2, <2>3, FS_Injection
  <2>5. Cardinality(Stranded) \in Nat /\ Cardinality(AtRisk) \in Nat
    BY <2>3, <2>4, FS_CardinalityType
  <2>6. FaultsSoFar \in Nat
    <3>1. used \in [Kind -> Nat]
      BY DEF Safe, WfInv, TypeOK
    <3> QED BY <3>1 DEF FaultsSoFar, Kind
  <2> QED BY <2>3, <2>4, <2>5, <2>6 DEF StrandedByFaults, FaultsSoFar
<1> QED
  BY <1>1, <1>2, <1>3, PTL DEF Spec

-----------------------------------------------------------------------------
\* The inductive invariant of FileTransferInv: each of its groups holds in every
\* state that the transfer can reach.
THEOREM Inductive == Spec => []IInv
<1> DEFINE J == /\ Safe /\ WipedWf /\ WipedStaysWiped
                /\ RowInv /\ OneRowInv /\ RiskInv
<1>1. Init => J
  <2>1. Init => WipedWf /\ WipedStaysWiped
    BY DEF Init, WipedWf, WipedStaysWiped
  <2> QED
    BY <2>1, SafeInit, RowInvInit, OneRowInvInit, RiskInvInit
<1>2. J /\ [Next]_vars => J'
  <2> SUFFICES ASSUME J, [Next]_vars PROVE J'
    OBVIOUS
  <2>1. AgentAwaits /\ WfInv /\ QueueOrder
    BY DEF RiskInv, Safe
  <2>2. Safe' /\ RowInv' /\ OneRowInv' /\ RiskInv'
    BY <2>1, SafeStep, RowInvStep, OneRowInvStep, RiskInvStep
  <2>3. WipedWf' /\ WipedStaysWiped'
    BY WipedWfStep, WipedStaysStep DEF Safe
  <2> QED BY <2>2, <2>3
<1>3. J => IInv
  BY DEF Safe, WfInv, IInv
<1> HIDE DEF J
<1> QED
  BY <1>1, <1>2, <1>3, PTL DEF Spec
=============================================================================
