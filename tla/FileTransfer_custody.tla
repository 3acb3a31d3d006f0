------------------------- MODULE FileTransfer_custody -------------------------
(***************************************************************************)
(* Proofs about the bytes of an upload: where they are at each moment from   *)
(* its request to its arrival on the node, so that none is lost (Durable),   *)
(* and that every step of the handlers, the agent and the faults is one step *)
(* of Custody or none.                                                       *)
(***************************************************************************)
EXTENDS FileTransfer_proofs

-----------------------------------------------------------------------------
(* Effects *)

LEMMA AskedGrows == ASSUME [Next]_vars PROVE asked \subseteq asked'
  BY DEF Next, vars, history, UserRequest, CreateRecord, UploadReceive, DeleteRead,
         DownloadRead, EditRead, UploadStep, UploadRefuse, UploadInsert, UploadRead,
         UploadPath, UploadBlob, UploadJob, AgentStep, SendHeartbeat, SendFetch,
         SendReport, GetBlob, WriteBlob, ListFile, PushFile, UnlinkFile, UnlistFile,
         AgentOnly, HandlerStep, DeleteQueueJob, DeleteListBlobs, DeleteBlobs,
         DeleteRow, DownloadMark, DownloadQueueJob, EditWrite, BeatRead, BeatWrite,
         FetchSelect, FetchTake, CompleteJob, CompleteBlob, CompleteStatus, Fault,
         AgentTimeout, RequestLost, ResultLost, TransferRefused, StreamBroken,
         AgentCrash, MetaTorn, ServerRestart

\* Which steps write the blobs or the temporary files.
LEMMA BlobWriters ==
  ASSUME [Next]_vars
  PROVE  \/ UNCHANGED <<blobs, temps>>
         \/ UploadReceive \/ UploadBlob
         \/ (PushFile \/ ResultLost) /\ StoreResult
         \/ \E t \in Thread : DeleteBlobs(t) \/ CompleteBlob(t)
  BY DEF Next, vars, server, UserRequest, CreateRecord, DeleteRead,
         DownloadRead, EditRead, UploadStep, UploadRefuse, UploadInsert, UploadRead,
         UploadPath, UploadJob, AgentStep, SendHeartbeat, SendFetch, SendReport,
         GetBlob, WriteBlob, ListFile, PushFile, UnlinkFile, UnlistFile, AgentOnly,
         HandlerStep, DeleteQueueJob, DeleteListBlobs, DeleteRow, DownloadMark,
         DownloadQueueJob, EditWrite, BeatRead, BeatWrite, FetchSelect, FetchTake,
         CompleteJob, CompleteStatus, Fault, AgentTimeout, RequestLost, ResultLost,
         TransferRefused, StreamBroken, AgentCrash, MetaTorn, ServerRestart

LEMMA NewTemps ==
  ASSUME [Next]_vars, NEW x \in temps', x \notin temps
  PROVE  \/ UploadReceive /\ x = <<"upload", used'["upload"]>>
         \/ x = DownloadTemp
<1>1. CASE UploadReceive
  BY <1>1 DEF UploadReceive
<1>2. CASE StoreResult
  BY <1>2 DEF StoreResult
<1>3. CASE UploadBlob
  BY <1>3 DEF UploadBlob
<1>4. ASSUME NEW t \in Thread, DeleteBlobs(t) \/ CompleteBlob(t) PROVE FALSE
  BY <1>4 DEF DeleteBlobs, CompleteBlob
<1> QED
  BY <1>1, <1>2, <1>3, <1>4, BlobWriters

\* Where a blob row comes from.
LEMMA NewBlobs ==
  ASSUME [Next]_vars, NEW b \in blobs', b \notin blobs
  PROVE  \/ /\ UploadBlob /\ up'.pc = "job" /\ b.temp = UploadTemp
            /\ b.file = up.file /\ b.status = "ready"
         \/ /\ StoreResult /\ b.temp = DownloadTemp /\ b.status = "ready"
         \/ \E t \in Thread, c \in blobs :
              /\ CompleteBlob(t) /\ c.temp = jobs[threads[t].job].temp
              /\ b = [c EXCEPT !.status = "consumed"]
<1>1. CASE UploadBlob
  <2>1. b = [temp |-> UploadTemp, file |-> up.file, status |-> "ready"]
        /\ up' = [up EXCEPT !.pc = "job"]
    BY <1>1 DEF UploadBlob
  <2> QED
    BY <1>1, <2>1
<1>2. CASE StoreResult
  <2>1. b = [temp |-> DownloadTemp, file |-> CurrentJob.file, status |-> "ready"]
    BY <1>2 DEF StoreResult
  <2> QED
    BY <1>2, <2>1
<1>3. ASSUME NEW t \in Thread, CompleteBlob(t)
      PROVE  \E c \in blobs : /\ c.temp = jobs[threads[t].job].temp
                              /\ b = [c EXCEPT !.status = "consumed"]
  <2>1. b \in Consumed(jobs[threads[t].job].temp)
    BY <1>3 DEF CompleteBlob
  <2> QED
    BY <2>1 DEF Consumed
<1>4. ASSUME NEW t \in Thread, DeleteBlobs(t) PROVE FALSE
  BY <1>4 DEF DeleteBlobs
<1>5. ~UploadReceive
  BY DEF UploadReceive
<1> QED
  BY <1>1, <1>2, <1>3, <1>4, <1>5, BlobWriters


\* The server gives up a copy in a deletion or when the upload is completed.
LEMMA ReadyKept ==
  ASSUME [Next]_vars, NEW x, Ready(x), ~Ready(x)'
  PROVE  \E t \in Thread :
           \/ DeleteBlobs(t) /\ (\/ x \in threads[t].temps
                                 \/ \E b \in blobs : b.temp = x /\ b.file = threads[t].file)
           \/ CompleteBlob(t) /\ x = jobs[threads[t].job].temp
<1>1. PICK b \in blobs : b.temp = x /\ b.status = "ready"
  BY DEF Ready
<1>2. x \in temps /\ (x \notin temps' \/ b \notin blobs')
  BY <1>1 DEF Ready
<1>3. CASE x \notin temps'
  BY <1>2, <1>3, TempsEffect
<1>4. CASE b \notin blobs'
  <2>1. PICK t \in Thread : DeleteBlobs(t) \/ CompleteBlob(t)
    BY <1>4, BlobWriters DEF UploadReceive, UploadBlob, StoreResult
  <2>2. CASE DeleteBlobs(t)
    BY <1>1, <1>4, <2>2 DEF DeleteBlobs, BlobsOf
  <2>3. CASE CompleteBlob(t)
    <3>1. b \notin Consumed(jobs[threads[t].job].temp)
      BY <1>4, <2>3 DEF CompleteBlob
    <3>2. b.temp = jobs[threads[t].job].temp
      BY <3>1 DEF Consumed
    <3> QED
      BY <1>1, <2>3, <3>2
  <2> QED
    BY <2>1, <2>2, <2>3
<1> QED
  BY <1>2, <1>3, <1>4

\* Names of temporary files.
LEMMA TempNames ==
  /\ \A x \in TempName : /\ x[1] = "upload" \/ x[1] = "download"
                         /\ x[1] = "upload" => x = <<"upload", x[2]>> /\ x[2] \in Nat
  /\ \A n : <<"upload", n>>[1] = "upload" /\ <<"upload", n>>[2] = n
  /\ DownloadTemp[1] = "download"
<1>1. Limit["upload"] \in Nat
  BY BoundAssumption DEF Kind
<1> QED
  BY <1>1 DEF TempName, DownloadTemp

-----------------------------------------------------------------------------
(* Deletions *)

LEMMA DeletesAskedStep ==
  ASSUME WfInv, DeletesWf, DeletesAsked, [Next]_vars
  PROVE  DeletesAsked'
<1> SUFFICES ASSUME NEW k \in DeleteJobs' PROVE jobs'[k].rel \in asked'
  BY DEF DeletesAsked
<1>1. CASE k \in DeleteJobs
  <2>1. jobs'[k].rel = jobs[k].rel
    BY <1>1, JobsOnlyGrow DEF WfInv, DeleteJobs
  <2> QED
    BY <1>1, <2>1, AskedGrows DEF DeletesAsked
<1>2. CASE k \notin DeleteJobs
  <2>1. PICK t \in Thread : DeleteQueueJob(t) /\ jobs'[k].rel = threads[t].rel
    BY <1>2, NewDeleteJob
  <2>2. threads[t].rel \in asked
    BY <2>1 DEF DeleteQueueJob, DeletesWf, DeletionWf
  <2> QED
    BY <2>1, <2>2, AskedGrows
<1> QED
  BY <1>1, <1>2

\* A set of temporary files stays one of its file when other uploads go on.
LEMMA TempsOfFileStep ==
  ASSUME WfInv, [Next]_vars, NEW h \in Handler, TempsOfFile(h)
  PROVE  TempsOfFile(h)'
<1>1. SUFFICES ASSUME NEW x \in h.temps
               PROVE  /\ x[1] = "upload" => x[2] <= used'["upload"]
                      /\ \A j \in StoreJobs' : jobs'[j].temp = x => jobs'[j].rel = h.file
                      /\ (up'.pc # "idle" /\ x = UploadTemp') =>
                            up'.pc = "job" /\ up'.file = h.file
  BY DEF TempsOfFile
<1>2. /\ used["upload"] \in Nat /\ used'["upload"] \in Nat
      /\ used'["upload"] >= used["upload"]
  BY UploadEffect
<1>3. x \in TempName
  BY DEF Handler
<1>4. /\ x[1] = "upload" => x[2] \in Nat /\ x[2] <= used["upload"]
      /\ \A j \in StoreJobs : jobs[j].temp = x => jobs[j].rel = h.file
      /\ (up.pc # "idle" /\ x = UploadTemp) => up.pc = "job" /\ up.file = h.file
  BY <1>3, TempNames DEF TempsOfFile
<1>5. x[1] = "upload" => x[2] <= used'["upload"]
  BY <1>2, <1>4
<1>6. ASSUME NEW j \in StoreJobs', jobs'[j].temp = x PROVE jobs'[j].rel = h.file
  <2>1. CASE j \in StoreJobs
    <3>1. jobs'[j].rel = jobs[j].rel /\ jobs'[j].temp = jobs[j].temp
      BY <2>1, JobsOnlyGrow DEF WfInv, StoreJobs
    <3> QED
      BY <1>4, <1>6, <2>1, <3>1
  <2>2. CASE j \notin StoreJobs
    <3>1. UploadJob /\ jobs'[j].rel = up.file /\ jobs'[j].temp = UploadTemp
      BY <2>2, NewStoreJob
    <3>2. up.pc # "idle"
      BY <3>1 DEF UploadJob
    <3> QED
      BY <1>4, <1>6, <3>1, <3>2
  <2> QED
    BY <2>1, <2>2
<1>7. ASSUME up'.pc # "idle", x = UploadTemp' PROVE up'.pc = "job" /\ up'.file = h.file
  <2>1. x = <<"upload", used'["upload"]>>
    BY <1>7 DEF UploadTemp
  <2>2. x[1] = "upload" /\ x[2] = used'["upload"]
    BY <2>1, TempNames
  <2>3. used'["upload"] <= used["upload"]
    BY <1>4, <2>2
  <2>4. up.pc # "idle" /\ used'["upload"] = used["upload"]
    BY <1>2, <1>7, <2>3, UploadEffect
  <2>5. up.pc = "job" /\ up.file = h.file
    BY <1>4, <2>1, <2>4 DEF UploadTemp
  <2>6. ~UploadReceive /\ ~UploadInsert /\ ~UploadRead /\ ~UploadPath /\ ~UploadBlob
    BY <2>5 DEF UploadReceive, UploadInsert, UploadRead, UploadPath, UploadBlob
  <2> QED
    BY <1>7, <2>5, <2>6, UploadEffect
<1> QED
  BY <1>5, <1>6, <1>7


LEMMA DeletesWfStep ==
  ASSUME WfInv, BlobsWf, DeletesWf, [Next]_vars
  PROVE  DeletesWf'
<1> SUFFICES ASSUME NEW t \in Thread PROVE DeletionWf(threads[t])'
  BY DEF DeletesWf
<1>1. threads \in [Thread -> Handler] /\ threads[t] \in Handler /\ threads'[t] \in Handler
  BY TypeStep DEF WfInv, TypeOK
<1>2. DeletionWf(threads[t])
  BY DEF DeletesWf
<1>3. CASE threads'[t].pc \notin Deleting
  BY <1>3 DEF DeletionWf, Deleting
<1>4. CASE threads'[t] = threads[t]
  BY <1>1, <1>2, <1>4, AskedGrows, TempsOfFileStep DEF DeletionWf
<1>5. ASSUME NEW h, Goto(t, h) PROVE threads'[t] = h
  BY <1>1, <1>5 DEF Goto
<1>6. ASSUME NEW f \in FileId, DeleteRead(t, f) PROVE DeletionWf(threads[t])'
  <2>1. /\ threads'[t].pc \in {"delete_queue", "delete_list"}
        /\ threads'[t].file = f /\ threads'[t].rel = files[f].rel
        /\ threads'[t].pc = "delete_queue" => files[f].rel # 0
    BY <1>5, <1>6 DEF DeleteRead, Idle, Stored
  <2>2. f # 0 /\ asked' = asked \cup ({f, files[f].rel} \ {0})
    BY <1>6 DEF DeleteRead, FileId
  <2>3. f \in asked' /\ (files[f].rel # 0 => files[f].rel \in asked')
    BY <2>2
  <2> QED
    BY <2>1, <2>3 DEF DeletionWf
<1>7. CASE DeleteQueueJob(t) \/ DeleteListBlobs(t) \/ DeleteBlobs(t)
  <2>1. /\ threads'[t].file = threads[t].file /\ threads[t].pc \in Deleting
        /\ threads'[t].pc \in {"delete_list", "delete_blobs", "delete_row"}
        /\ threads'[t].pc = "delete_blobs" => DeleteListBlobs(t)
    BY <1>1, <1>5, <1>7 DEF DeleteQueueJob, DeleteListBlobs, DeleteBlobs, Handler, Deleting
  <2>2. threads'[t].file \in asked'
    BY <1>2, <2>1, AskedGrows DEF DeletionWf
  <2>3. ASSUME DeleteListBlobs(t) PROVE TempsOfFile(threads[t])'
    <3>1. threads'[t].temps = {b.temp : b \in BlobsOf(threads[t].file)}
      BY <1>1, <1>5, <2>3 DEF DeleteListBlobs, Handler
    <3>2. UNCHANGED <<jobs, used, up>>
      BY <2>3 DEF DeleteListBlobs, server
    <3>3. ASSUME NEW x \in threads'[t].temps
          PROVE  /\ x[1] = "upload" => x[2] <= used["upload"]
                 /\ \A j \in StoreJobs : jobs[j].temp = x => jobs[j].rel = threads[t].file
                 /\ (up.pc # "idle" /\ x = UploadTemp) =>
                       up.pc = "job" /\ up.file = threads[t].file
      <4>1. PICK b \in blobs : b.temp = x /\ b.file = threads[t].file
        BY <3>1, <3>3 DEF BlobsOf
      <4> QED
        BY <4>1 DEF BlobsWf, BlobWf
    <3>4. StoreJobs' = StoreJobs /\ UploadTemp' = UploadTemp
      BY <3>2 DEF StoreJobs, UploadTemp
    <3>5. threads'[t].file = threads[t].file
      BY <2>1
    <3> QED
      BY <3>2, <3>3, <3>4, <3>5 DEF TempsOfFile
  <2> QED
    BY <2>1, <2>2, <2>3 DEF DeletionWf
<1>8. ASSUME threads'[t] # threads[t], threads'[t].pc \in Deleting,
             \A f \in FileId : ~DeleteRead(t, f),
             ~DeleteQueueJob(t), ~DeleteListBlobs(t), ~DeleteBlobs(t)
      PROVE  FALSE
  <2>1. threads'[t] # Idle
    BY <1>8 DEF Idle, Deleting
  <2>2. ASSUME NEW f \in FileId,
               \/ \E proxied \in BOOLEAN : DownloadRead(t, f, proxied)
               \/ \E s : EditRead(t, f, s)
        PROVE  FALSE
    BY <1>5, <1>8, <2>2 DEF DownloadRead, EditRead, Idle, Deleting
  <2>3. ~SendHeartbeat(t) /\ ~SendFetch(t) /\ ~SendReport(t)
    <3>1. ASSUME SendHeartbeat(t) \/ SendFetch(t) \/ SendReport(t)
          PROVE  threads'[t].pc \in {"beat_read", "fetch_select", "complete_job"}
      BY <1>5, <3>1 DEF SendHeartbeat, SendFetch, SendReport, Idle
    <3> QED
      BY <1>8, <3>1 DEF Deleting
  <2>4. HandlerStep(t)
    BY <1>8, <2>1, <2>2, <2>3, ThreadEffect
  <2>5. ~DownloadMark(t) /\ ~CompleteJob(t) /\ ~CompleteBlob(t)
    BY <1>1, <1>5, <1>8 DEF DownloadMark, CompleteJob, CompleteBlob, Handler, Deleting
  <2>6. ~DeleteRow(t) /\ ~DownloadQueueJob(t) /\ ~EditWrite(t) /\ ~FetchTake(t)
        /\ ~CompleteStatus(t)
    BY <1>5, <2>1 DEF DeleteRow, DownloadQueueJob, EditWrite, FetchTake,
                      CompleteStatus, Done
  <2>7. ~BeatRead(t)
    BY <1>1, <1>5, <1>8, <2>1 DEF BeatRead, Done, Handler, Deleting
  <2>8. ~BeatWrite(t) /\ ~FetchSelect(t)
    BY <1>5, <1>8, <2>1 DEF BeatWrite, FetchSelect, Done, Idle, Deleting
  <2> QED
    BY <1>8, <2>4, <2>5, <2>6, <2>7, <2>8 DEF HandlerStep
<1> QED
  BY <1>3, <1>4, <1>6, <1>7, <1>8

-----------------------------------------------------------------------------
(* Blobs *)

LEMMA BlobsWfStep ==
  ASSUME WfInv, StoresDistinct, BlobsWf, [Next]_vars
  PROVE  BlobsWf'
<1> SUFFICES ASSUME NEW b \in blobs' PROVE BlobWf(b)'
  BY DEF BlobsWf
<1>1. /\ used["upload"] \in Nat /\ used'["upload"] \in Nat
      /\ used'["upload"] >= used["upload"]
      /\ blobs \subseteq Blob /\ blobs' \subseteq Blob
  BY UploadEffect, TypeStep DEF WfInv, TypeOK
<1>2. b.temp \in TempName
  BY <1>1 DEF Blob
<1>3. \A j \in StoreJobs : \E n \in 1..used["upload"] : jobs[j].temp = <<"upload", n>>
  BY DEF StoresDistinct, StoreWf
<1>4. \A j \in StoreJobs : jobs'[j].rel = jobs[j].rel /\ jobs'[j].temp = jobs[j].temp
  BY JobsOnlyGrow DEF WfInv, StoreJobs
<1>5. CASE b \in blobs
  <2>1. BlobWf(b)
    BY <1>5 DEF BlobsWf
  <2>2. b.temp[1] = "upload" => b.temp[2] \in Nat /\ b.temp[2] <= used["upload"]
    BY <1>2, <2>1, TempNames DEF BlobWf
  <2>3. b.temp[1] = "upload" => b.temp[2] <= used'["upload"]
    BY <1>1, <2>2
  <2>4. ASSUME b.temp = <<"upload", used'["upload"]>>
        PROVE  used'["upload"] = used["upload"]
    <3>1. b.temp[1] = "upload" /\ b.temp[2] = used'["upload"]
      BY <2>4, TempNames
    <3> QED
      BY <1>1, <2>2, <3>1
  <2>5. ASSUME b.status = "consumed" PROVE b.temp[1] = "upload" /\ b.temp \notin temps'
    <3>1. b.temp[1] = "upload" /\ b.temp \notin temps
      BY <2>1, <2>5 DEF BlobWf
    <3>2. ~(UploadReceive /\ b.temp = <<"upload", used'["upload"]>>)
      <4>1. ASSUME UploadReceive PROVE used'["upload"] = used["upload"] + 1
        <5>1. used \in [Kind -> Nat] /\ "upload" \in Kind
          BY DEF WfInv, TypeOK, Kind
        <5> QED
          BY <4>1, <5>1 DEF UploadReceive, Spend
      <4> QED
        BY <1>1, <2>4, <4>1
    <3>3. b.temp # DownloadTemp
      BY <3>1, TempNames
    <3> QED
      BY <3>1, <3>2, <3>3, NewTemps
  <2>6. ASSUME NEW j \in StoreJobs', jobs'[j].temp = b.temp PROVE jobs'[j].rel = b.file
    <3>1. CASE j \in StoreJobs
      BY <1>4, <2>1, <2>6, <3>1 DEF BlobWf
    <3>2. CASE j \notin StoreJobs
      <4>1. UploadJob /\ jobs'[j].rel = up.file /\ jobs'[j].temp = UploadTemp
        BY <3>2, NewStoreJob
      <4>2. up.pc # "idle"
        BY <4>1 DEF UploadJob
      <4> QED
        BY <2>1, <2>6, <4>1, <4>2 DEF BlobWf
    <3> QED
      BY <3>1, <3>2
  <2>7. ASSUME up'.pc # "idle", b.temp = UploadTemp'
        PROVE  up'.pc = "job" /\ b.file = up'.file
    <3>1. b.temp = <<"upload", used'["upload"]>>
      BY <2>7 DEF UploadTemp
    <3>2. up.pc # "idle" /\ used'["upload"] = used["upload"]
      BY <1>1, <2>4, <2>7, <3>1, UploadEffect
    <3>3. up.pc = "job" /\ b.file = up.file
      BY <2>1, <3>1, <3>2 DEF BlobWf, UploadTemp
    <3>4. ~UploadReceive /\ ~UploadInsert /\ ~UploadRead /\ ~UploadPath /\ ~UploadBlob
      BY <3>3 DEF UploadReceive, UploadInsert, UploadRead, UploadPath, UploadBlob
    <3> QED
      BY <2>7, <3>3, <3>4, UploadEffect
  <2> QED
    BY <2>3, <2>5, <2>6, <2>7 DEF BlobWf
<1>6. CASE b \notin blobs
  <2>1. CASE /\ UploadBlob /\ up'.pc = "job" /\ b.temp = UploadTemp
             /\ b.file = up.file /\ b.status = "ready"
    <3>1. UNCHANGED <<jobs, used>> /\ up.pc # "idle"
      BY <2>1 DEF UploadBlob
    <3>2. b.temp[2] = used["upload"]
      BY <2>1, TempNames DEF UploadTemp
    <3>3. StoreJobs' = StoreJobs
      BY <3>1 DEF StoreJobs
    <3>4. \A j \in StoreJobs : jobs[j].temp # b.temp
      BY <2>1, <3>1 DEF StoresDistinct, StoreWf
    <3>5. b.file = up'.file
      <4>1. ~UploadReceive /\ ~UploadInsert
        BY <2>1 DEF UploadBlob, UploadReceive, UploadInsert
      <4> QED
        BY <2>1, <4>1, UploadEffect
    <3>6. used["upload"] <= used["upload"]
      BY <1>1
    <3> QED
      BY <2>1, <3>1, <3>2, <3>3, <3>4, <3>5, <3>6 DEF BlobWf
  <2>2. CASE b.temp = DownloadTemp /\ b.status = "ready"
    <3>1. b.temp[1] = "download"
      BY <2>2, TempNames
    <3>2. \A j \in StoreJobs' : jobs'[j].temp[1] = "upload"
      BY StoresDistinctStep, TempNames DEF StoresDistinct, StoreWf
    <3>3. UploadTemp'[1] = "upload"
      BY TempNames DEF UploadTemp
    <3> QED
      BY <2>2, <3>1, <3>2, <3>3 DEF BlobWf
  <2>3. ASSUME NEW t \in Thread, NEW c \in blobs, CompleteBlob(t),
               c.temp = jobs[threads[t].job].temp,
               b = [c EXCEPT !.status = "consumed"]
        PROVE  BlobWf(b)'
    <3>1. b.temp = c.temp /\ b.file = c.file /\ BlobWf(c)
      BY <1>1, <2>3 DEF Blob, BlobsWf
    <3>2. UNCHANGED <<jobs, used, up>>
      BY <2>3 DEF CompleteBlob
    <3>3. threads[t].job \in StoreJobs
      BY <2>3 DEF CompleteBlob, WfInv, HandlersWf, HandlerWf
    <3>4. b.temp[1] = "upload"
      BY <1>3, <2>3, <3>1, <3>3, TempNames
    <3>5. b.temp \notin temps'
      BY <2>3, <3>1 DEF CompleteBlob, FileOf
    <3>6. StoreJobs' = StoreJobs /\ UploadTemp' = UploadTemp
      BY <3>2 DEF StoreJobs, UploadTemp
    <3> QED
      BY <3>1, <3>2, <3>4, <3>5, <3>6 DEF BlobWf
  <2> QED
    BY <1>6, <2>1, <2>2, <2>3, NewBlobs
<1> QED
  BY <1>5, <1>6


-----------------------------------------------------------------------------
(* The agent's steps *)

Elsewhere == {"beat", "beat_wait", "fetch", "fetch_wait", "report_wait"}

\* The agent goes from one place of a job to the next, or leaves the job.
LEMMA AgentMoves ==
  ASSUME WfInv, [Next]_vars
  PROVE  \/ UNCHANGED <<agent, last>>
         \/ agent'.pc \in Elsewhere
         \/ /\ \E t \in Thread : FetchTake(t) /\ agent.slot = t
            /\ agent'.pc \in {"get", "push", "unlink"}
         \/ GetBlob /\ agent'.pc = "write"
         \/ WriteBlob /\ agent'.pc = "list"
         \/ UnlinkFile /\ agent'.pc = "unlist"
         \/ (ListFile \/ PushFile \/ UnlistFile) /\ agent'.pc = "report"
         \/ agent'.pc = "report" /\ ~agent'.ok
<1> DEFINE Goal ==
         \/ UNCHANGED <<agent, last>>
         \/ agent'.pc \in Elsewhere
         \/ /\ \E t \in Thread : FetchTake(t) /\ agent.slot = t
            /\ agent'.pc \in {"get", "push", "unlink"}
         \/ GetBlob /\ agent'.pc = "write"
         \/ WriteBlob /\ agent'.pc = "list"
         \/ UnlinkFile /\ agent'.pc = "unlist"
         \/ (ListFile \/ PushFile \/ UnlistFile) /\ agent'.pc = "report"
         \/ agent'.pc = "report" /\ ~agent'.ok
<1> SUFFICES Goal
  OBVIOUS
<1>1. agent \in Agent
  BY DEF WfInv, TypeOK
<1>2. ASSUME UNCHANGED <<agent, last>> PROVE Goal
  BY <1>2
<1>3. ASSUME Loop PROVE Goal
  <2>1. agent'.pc \in Elsewhere
    BY <1>3 DEF Loop, AgentStart, Elsewhere
  <2> QED
    BY <2>1
<1>4. ASSUME NEW ok, Report(ok) PROVE agent'.pc = "report" /\ agent'.ok = ok
  BY <1>1, <1>4 DEF Report, Agent
<1>5. ASSUME NEW t \in Thread, NEW pc \in {"fetch", "beat"}, UNCHANGED last,
             Respond(t, pc)
      PROVE  Goal
  <2>1. agent' = agent \/ agent'.pc \in Elsewhere
    BY <1>5 DEF Respond, AgentStart, Elsewhere
  <2> QED
    BY <1>5, <2>1
<1>6. ASSUME NEW t \in Thread, HandlerStep(t) PROVE Goal
  <2>1. CASE FetchTake(t)
    <3>1. CASE agent.slot = t
      <4>1. agent'.pc = FirstStep(jobs[threads[t].job].type)
        BY <1>1, <2>1, <3>1 DEF FetchTake, Agent
      <4>2. jobs[threads[t].job] \in Job
        BY <2>1, JobTyped DEF FetchTake, WfInv, HandlersWf, HandlerWf
      <4>3. agent'.pc \in {"get", "push", "unlink"}
        BY <4>1, <4>2 DEF FirstStep, Job, JobType
      <4> QED
        BY <2>1, <3>1, <4>3
    <3>2. CASE agent.slot # t
      BY <1>2, <2>1, <3>2 DEF FetchTake
    <3> QED
      BY <3>1, <3>2
  <2>2. CASE BeatRead(t) \/ BeatWrite(t) \/ FetchSelect(t) \/ CompleteStatus(t)
    <3>1. UNCHANGED last
      BY <2>2 DEF BeatRead, BeatWrite, FetchSelect, CompleteStatus, history
    <3>2. \/ UNCHANGED agent
          \/ \E pc \in {"fetch", "beat"} : Respond(t, pc)
      BY <2>2 DEF BeatRead, BeatWrite, FetchSelect, CompleteStatus
    <3> QED
      BY <1>2, <1>5, <3>1, <3>2
  <2>3. CASE ~FetchTake(t) /\ ~BeatRead(t) /\ ~BeatWrite(t) /\ ~FetchSelect(t)
             /\ ~CompleteStatus(t)
    <3>1. UNCHANGED <<agent, last>>
      BY <1>6, <2>3
         DEF HandlerStep, DeleteQueueJob, DeleteListBlobs, DeleteBlobs, DeleteRow,
             DownloadMark, DownloadQueueJob, EditWrite, CompleteJob, CompleteBlob,
             history
    <3> QED
      BY <1>2, <3>1
  <2> QED
    BY <2>1, <2>2, <2>3
<1>7. ASSUME NEW t \in Thread, SendHeartbeat(t) \/ SendFetch(t) \/ SendReport(t)
      PROVE  Goal
  <2>1. agent'.pc \in Elsewhere
    BY <1>1, <1>7 DEF SendHeartbeat, SendFetch, SendReport, Agent, Elsewhere
  <2> QED
    BY <2>1
<1>8. CASE GetBlob
  <2>1. agent'.pc = "write" \/ Report(FALSE)
    BY <1>1, <1>8 DEF GetBlob, Agent
  <2>2. agent'.pc = "write" \/ (agent'.pc = "report" /\ ~agent'.ok)
    BY <1>4, <2>1
  <2> QED
    BY <1>8, <2>2
<1>9. CASE WriteBlob \/ UnlinkFile
  <2>1. /\ WriteBlob => agent'.pc = "list"
        /\ UnlinkFile => agent'.pc = "unlist"
    BY <1>1 DEF WriteBlob, UnlinkFile, Agent
  <2> QED
    BY <1>9, <2>1
<1>10. CASE ListFile \/ PushFile \/ UnlistFile
  <2>1. agent'.pc = "report"
    BY <1>4, <1>10 DEF ListFile, PushFile, UnlistFile
  <2> QED
    BY <1>10, <2>1
<1>11. CASE TransferRefused
  <2>1. agent'.pc = "report" /\ ~agent'.ok
    BY <1>4, <1>11 DEF TransferRefused
  <2> QED
    BY <2>1
<1> HIDE DEF Goal
<1>12. CASE Fault
  BY <1>2, <1>3, <1>11, <1>12
     DEF Fault, AgentTimeout, RequestLost, ResultLost, StreamBroken, AgentCrash,
         MetaTorn, ServerRestart, history
<1>13. CASE UserRequest \/ UploadStep \/ UNCHANGED vars
  BY <1>2, <1>13
     DEF UserRequest, CreateRecord, UploadReceive, DeleteRead, DownloadRead,
         EditRead, UploadStep, UploadRefuse, UploadInsert, UploadRead, UploadPath,
         UploadBlob, UploadJob, vars, history
<1>14. CASE AgentStep
  BY <1>7, <1>8, <1>9, <1>10, <1>14 DEF AgentStep
<1> QED
  BY <1>6, <1>12, <1>13, <1>14 DEF Next

\* A whole file stays whole while its own job does not start over.
LEMMA StoredKept ==
  ASSUME WfInv, StoresDistinct, DeletesAsked, [Next]_vars,
         NEW j \in StoreJobs, StoredWhole(j), ~(GetBlob /\ last = j)
  PROVE  StoredWhole(j)'
<1>1. /\ j \in 1..Len(jobs) /\ jobs[j] \in Job
      /\ jobs'[j].rel = jobs[j].rel
  BY JobTyped, JobsOnlyGrow DEF StoreJobs, WfInv
<1>2. jobs[j].rel \in FileId
  BY <1>1 DEF Job
<1>3. CASE jobs[j].rel \in asked
  BY <1>1, <1>3, AskedGrows DEF StoredWhole
<1>4. CASE disk'[jobs[j].rel] = disk[jobs[j].rel]
  BY <1>1, <1>3, <1>4 DEF StoredWhole
<1>5. CASE disk'[jobs[j].rel] # disk[jobs[j].rel]
  <2>1. /\ last \in 1..Len(jobs) /\ jobs[last].rel = jobs[j].rel
        /\ GetBlob \/ (WriteBlob /\ disk'[jobs[j].rel] = "full") \/ UnlinkFile
    BY <1>2, <1>5, DiskEffect
  <2>2. CASE GetBlob
    <3>1. last \in StoreJobs
      BY <2>1, <2>2 DEF GetBlob, WfInv, AgentWf, StoreJobs
    <3> QED
      BY <2>1, <2>2, <3>1 DEF StoresDistinct
  <2>3. CASE WriteBlob
    <3>1. disk'[jobs[j].rel] = "full"
      BY <2>1, <2>3 DEF GetBlob, WriteBlob, UnlinkFile
    <3> QED
      BY <1>1, <3>1 DEF StoredWhole
  <2>4. CASE UnlinkFile
    <3>1. last \in DeleteJobs
      BY <2>1, <2>4 DEF UnlinkFile, WfInv, AgentWf, DeleteJobs
    <3> QED
      BY <1>3, <2>1, <3>1 DEF DeletesAsked
  <2> QED
    BY <2>1, <2>2, <2>3, <2>4
<1> QED
  BY <1>4, <1>5


-----------------------------------------------------------------------------
(* From the request to the node *)

LEMMA UploadHeldStep ==
  ASSUME WfInv, StoresDistinct, BlobsWf, DeletesWf, UploadHeld, [Next]_vars
  PROVE  UploadHeld'
<1>0. up \in Upload
  BY DEF WfInv, TypeOK
<1>1. ASSUME up'.pc \in {"insert", "read", "path", "blob"} PROVE UploadTemp' \in temps'
  <2>1. CASE UploadReceive
    BY <2>1 DEF UploadReceive, UploadTemp
  <2>2. CASE ~UploadReceive
    <3>1. up.pc # "idle" /\ used'["upload"] = used["upload"]
      BY <1>1, <2>2, UploadEffect
    <3>2. UploadTemp' = UploadTemp
      BY <3>1 DEF UploadTemp
    <3>3. up.pc \in {"insert", "read", "path", "blob"}
      <4>1. ASSUME UploadInsert \/ UploadRead \/ UploadPath \/ UploadBlob
            PROVE  up.pc \in {"insert", "read", "path", "blob"}
        BY <4>1 DEF UploadInsert, UploadRead, UploadPath, UploadBlob
      <4> QED
        BY <1>1, <2>2, <4>1, UploadEffect
    <3>4. UploadTemp \in temps
      BY <3>3 DEF UploadHeld
    <3>5. ASSUME NEW t \in Thread, DeleteBlobs(t), UploadTemp \in threads[t].temps
          PROVE  FALSE
      <4>1. TempsOfFile(threads[t])
        BY <3>5 DEF DeleteBlobs, DeletesWf, DeletionWf
      <4> QED
        BY <3>3, <3>5, <4>1 DEF TempsOfFile
    <3>6. ASSUME NEW t \in Thread, CompleteBlob(t),
                 UploadTemp = jobs[threads[t].job].temp
          PROVE  FALSE
      <4>1. threads[t].job \in StoreJobs
        BY <3>6 DEF CompleteBlob, WfInv, HandlersWf, HandlerWf
      <4> QED
        BY <3>1, <3>6, <4>1 DEF StoresDistinct, StoreWf
    <3> QED
      BY <3>2, <3>4, <3>5, <3>6, TempsEffect
  <2> QED
    BY <2>1, <2>2
<1>2. ASSUME up'.pc = "job" PROVE up'.file \in asked' \/ Ready(UploadTemp)'
  <2>1. ~UploadReceive /\ ~UploadInsert
    BY <1>0, <1>2 DEF UploadReceive, UploadInsert, NoUpload, Upload
  <2>2. /\ up.pc # "idle" /\ used'["upload"] = used["upload"]
        /\ UploadTemp' = UploadTemp
    BY <1>2, <2>1, UploadEffect DEF UploadTemp
  <2>3. CASE UploadBlob
    <3>1. /\ UploadTemp \in temps /\ UNCHANGED temps
          /\ \E b \in blobs' : b.temp = UploadTemp /\ b.status = "ready"
      <4>1. UploadTemp \in temps /\ UNCHANGED temps
        BY <2>3 DEF UploadBlob, UploadHeld
      <4>2. Present(up.file)
        BY <1>2, <2>3 DEF UploadBlob, NoUpload
      <4>3. [temp |-> UploadTemp, file |-> up.file, status |-> "ready"] \in blobs'
        BY <2>3, <4>2 DEF UploadBlob
      <4> QED
        BY <4>1, <4>3
    <3> QED
      BY <2>2, <3>1 DEF Ready
  <2>4. CASE ~UploadBlob
    <3>1. UNCHANGED up
      <4>1. ASSUME UploadRead PROVE up'.pc \in {"path", "idle"}
        BY <1>0, <4>1 DEF UploadRead, NoUpload, Upload
      <4>2. ASSUME UploadPath PROVE up'.pc = "blob"
        BY <1>0, <4>2 DEF UploadPath, Upload
      <4> QED
        BY <1>2, <2>1, <2>4, <4>1, <4>2, UploadEffect
    <3>2. CASE up.file \in asked
      BY <3>1, <3>2, AskedGrows
    <3>3. CASE Ready(UploadTemp)
      <4>1. ASSUME NEW t \in Thread, DeleteBlobs(t),
                   \/ UploadTemp \in threads[t].temps
                   \/ \E b \in blobs : b.temp = UploadTemp /\ b.file = threads[t].file
            PROVE  up.file \in asked
        <5>1. TempsOfFile(threads[t]) /\ threads[t].file \in asked
          BY <4>1 DEF DeleteBlobs, DeletesWf, DeletionWf, Deleting
        <5>2. up.file = threads[t].file
          BY <2>2, <4>1, <5>1 DEF TempsOfFile, BlobsWf, BlobWf
        <5> QED
          BY <5>1, <5>2
      <4>2. ASSUME NEW t \in Thread, CompleteBlob(t),
                   UploadTemp = jobs[threads[t].job].temp
            PROVE  FALSE
        <5>1. threads[t].job \in StoreJobs
          BY <4>2 DEF CompleteBlob, WfInv, HandlersWf, HandlerWf
        <5> QED
          BY <2>2, <4>2, <5>1 DEF StoresDistinct, StoreWf
      <4>3. CASE Ready(UploadTemp)'
        BY <4>3
      <4>4. CASE ~Ready(UploadTemp)'
        <5>1. PICK x : x = UploadTemp
          OBVIOUS
        <5>2. Ready(x) /\ ~Ready(x)'
          BY <2>2, <3>3, <4>4, <5>1 DEF Ready
        <5>3. up.file \in asked
          BY <4>1, <4>2, <5>1, <5>2, ReadyKept
        <5> QED
          BY <3>1, <5>3, AskedGrows
      <4> QED
        BY <4>3, <4>4
    <3>4. up.file \in asked \/ Ready(UploadTemp)
      BY <1>2, <3>1 DEF UploadHeld
    <3> QED
      BY <3>2, <3>3, <3>4
  <2> QED
    BY <2>3, <2>4
<1> QED
  BY <1>1, <1>2 DEF UploadHeld


LEMMA ReportsTrueStep ==
  ASSUME WfInv, QueueOrder, StoresDistinct, DeletesAsked, ReportsTrue, [Next]_vars
  PROVE  ReportsTrue'
<1>1. /\ agent \in Agent /\ threads \in [Thread -> Handler]
      /\ disk \in [FileId -> {"none", "partial", "full"}]
      /\ last \in Nat /\ last <= Len(jobs) /\ Len(jobs) \in Nat
  BY LenProperties, BoundAssumption DEF WfInv, TypeOK, AgentWf
<1>2. ASSUME NEW pc \in {"write", "list"}, agent.pc = pc, agent'.pc = pc
      PROVE  UNCHANGED last /\ disk'[jobs'[last'].rel] = disk[jobs[last].rel]
  <2>1. ~GetBlob /\ ~UnlinkFile /\ (WriteBlob => agent'.pc = "list" /\ agent.pc = "write")
    BY <1>1, <1>2 DEF GetBlob, WriteBlob, UnlinkFile, Agent
  <2>2. UNCHANGED <<agent, last>>
    BY <1>2, <2>1, AgentMoves DEF Elsewhere
  <2>3. /\ last \in 1..Len(jobs) /\ jobs[last] \in Job /\ jobs'[last].rel = jobs[last].rel
    <3>1. last \in 1..Len(jobs)
      BY <1>1, <1>2 DEF WfInv, AgentWf, WithJob
    <3> QED
      BY <3>1, JobTyped, JobsOnlyGrow DEF WfInv
  <2>4. jobs[last].rel \in FileId
    BY <2>3 DEF Job
  <2>5. disk'[jobs[last].rel] = disk[jobs[last].rel]
    BY <1>2, <2>1, <2>4, DiskEffect
  <2> QED
    BY <2>2, <2>3, <2>5
<1>3. ASSUME GetBlob \/ WriteBlob
      PROVE  /\ UNCHANGED <<jobs, last>> /\ jobs[last].rel \in FileId
             /\ CurrentJob.rel = jobs[last].rel
  <2>1. agent.job = last /\ last >= 1
    BY <1>3 DEF GetBlob, WriteBlob, WfInv, AgentWf, WithJob
  <2>2. last \in 1..Len(jobs)
    BY <1>1, <2>1
  <2>3. jobs[last].rel \in FileId
    BY <2>2, JobTyped DEF Job
  <2> QED
    BY <1>3, <2>1, <2>3 DEF GetBlob, WriteBlob, AgentOnly, server, CurrentJob
<1>4. ASSUME agent'.pc = "write" PROVE disk'[jobs'[last'].rel] = "partial"
  <2>1. CASE GetBlob
    <3>1. agent' # [agent EXCEPT !.pc = "report", !.ok = FALSE]
      BY <1>1, <1>4 DEF Agent
    <3>2. disk' = [disk EXCEPT ![CurrentJob.rel] = "partial"]
      BY <2>1, <3>1 DEF GetBlob, Report
    <3> QED
      BY <1>1, <1>3, <2>1, <3>2
  <2>2. CASE UNCHANGED <<agent, last>>
    BY <1>2, <1>4, <2>2 DEF ReportsTrue
  <2> QED
    BY <1>4, <2>1, <2>2, AgentMoves DEF Elsewhere
<1>5. ASSUME agent'.pc = "list" PROVE disk'[jobs'[last'].rel] = "full"
  <2>1. CASE WriteBlob
    BY <1>1, <1>3, <2>1 DEF WriteBlob
  <2>2. CASE UNCHANGED <<agent, last>>
    BY <1>2, <1>5, <2>2 DEF ReportsTrue
  <2> QED
    BY <1>5, <2>1, <2>2, AgentMoves DEF Elsewhere
<1>6. ASSUME agent'.pc = "report", agent'.ok, last' \in StoreJobs'
      PROVE  StoredWhole(last)'
  <2>1. CASE UNCHANGED <<agent, last>>
    <3>1. last \in StoreJobs
      <4>1. last \in 1..Len(jobs)
        BY <1>1, <1>6, <2>1 DEF WfInv, AgentWf, WithJob
      <4> QED
        BY <1>6, <2>1, <4>1, JobSetsGrow DEF WfInv
    <3>2. StoredWhole(last) /\ ~GetBlob
      BY <1>6, <2>1, <3>1 DEF ReportsTrue, GetBlob
    <3>3. PICK j \in StoreJobs : j = last
      BY <3>1
    <3>4. StoredWhole(j)'
      BY <3>2, <3>3, StoredKept
    <3> QED
      BY <2>1, <3>3, <3>4 DEF StoredWhole
  <2>2. CASE ListFile
    <3>1. UNCHANGED <<jobs, last, disk>>
      BY <2>2 DEF ListFile, AgentOnly, server
    <3>2. disk[jobs[last].rel] = "full"
      BY <2>2 DEF ListFile, ReportsTrue
    <3> QED
      BY <3>1, <3>2 DEF StoredWhole
  <2>3. CASE PushFile \/ UnlistFile
    <3>1. UNCHANGED <<jobs, last>>
      BY <2>3 DEF PushFile, UnlistFile, AgentOnly, server, history
    <3>2. jobs[last].type # "store_file"
      BY <2>3 DEF PushFile, UnlistFile, WfInv, AgentWf
    <3> QED
      BY <1>6, <3>1, <3>2 DEF StoreJobs
  <2> QED
    BY <1>6, <2>1, <2>2, <2>3, AgentMoves DEF Elsewhere
<1>7. ASSUME NEW t \in Thread, threads'[t].pc \in {"complete_job", "complete_blob"},
             threads'[t].ok, threads'[t].job \in StoreJobs'
      PROVE  StoredWhole(threads[t].job)'
  <2>1. ASSUME NEW j \in StoreJobs, j = threads'[t].job, StoredWhole(j),
               ~(GetBlob /\ last = j)
        PROVE  StoredWhole(threads[t].job)'
    <3>1. StoredWhole(j)'
      BY <2>1, StoredKept
    <3> QED
      BY <2>1, <3>1 DEF StoredWhole
  <2>2. ASSUME threads[t].pc \in {"complete_job", "complete_blob"}, threads[t].ok,
               threads'[t].job = threads[t].job
        PROVE  StoredWhole(threads[t].job)'
    <3>1. threads[t].job \in 1..Len(jobs)
      BY <2>2 DEF WfInv, HandlersWf, HandlerWf, Completing
    <3>2. threads[t].job \in StoreJobs
      BY <1>7, <2>2, <3>1, JobSetsGrow DEF WfInv
    <3>3. StoredWhole(threads[t].job)
      BY <2>2, <3>2 DEF ReportsTrue
    <3>4. ~(GetBlob /\ last = threads[t].job)
      BY <2>2 DEF QueueOrder, ReportsBehind, Completing, Storing, GetBlob
    <3> QED
      BY <2>1, <2>2, <3>2, <3>3, <3>4
  <2>3. CASE threads'[t] = threads[t]
    BY <1>7, <2>2, <2>3
  <2>4. ASSUME NEW h, Goto(t, h) PROVE threads'[t] = h
    BY <1>1, <2>4 DEF Goto
  <2>5. CASE SendReport(t)
    <3>1. threads'[t].job = agent.job /\ threads'[t].ok = agent.ok
      BY <2>4, <2>5 DEF SendReport, Idle
    <3>2. agent.pc = "report" /\ UNCHANGED jobs /\ agent.job = last
      BY <2>5 DEF SendReport, server, WfInv, AgentWf, WithJob
    <3>3. last \in StoreJobs
      BY <1>7, <3>1, <3>2 DEF StoreJobs
    <3>4. StoredWhole(last) /\ ~GetBlob
      BY <1>7, <3>1, <3>2, <3>3 DEF ReportsTrue, GetBlob
    <3> QED
      BY <2>1, <3>1, <3>2, <3>3, <3>4
  <2>6. CASE CompleteJob(t)
    <3>1. /\ threads'[t].job = threads[t].job /\ threads'[t].ok = threads[t].ok
          /\ threads[t].pc = "complete_job"
      BY <1>1, <2>4, <2>6 DEF CompleteJob, Handler
    <3> QED
      BY <1>7, <2>2, <3>1
  <2>7. CASE CompleteBlob(t)
    <3>1. threads'[t].pc = "complete_status"
      BY <1>1, <2>4, <2>7 DEF CompleteBlob, Handler
    <3> QED
      BY <1>7, <3>1
  <2>8. ASSUME threads'[t] # threads[t], ~SendReport(t), ~CompleteJob(t), ~CompleteBlob(t)
        PROVE  FALSE
    <3>1. threads'[t] # Idle
      BY <1>7 DEF Idle
    <3>2. ASSUME NEW f \in FileId,
                 \/ DeleteRead(t, f)
                 \/ \E proxied \in BOOLEAN : DownloadRead(t, f, proxied)
                 \/ \E s : EditRead(t, f, s)
          PROVE  threads'[t].pc \in {"delete_queue", "delete_list", "download_mark",
                                     "edit_write"}
      BY <2>4, <3>2 DEF DeleteRead, DownloadRead, EditRead, Idle
    <3>3. ASSUME SendHeartbeat(t) \/ SendFetch(t)
          PROVE  threads'[t].pc \in {"beat_read", "fetch_select"}
      BY <2>4, <3>3 DEF SendHeartbeat, SendFetch, Idle
    <3>4. HandlerStep(t)
      BY <1>7, <2>8, <3>1, <3>2, <3>3, ThreadEffect
    <3>5. ASSUME DeleteQueueJob(t) \/ DeleteListBlobs(t) \/ DeleteBlobs(t) \/ DownloadMark(t)
          PROVE  threads'[t].pc \in {"delete_list", "delete_blobs", "delete_row",
                                     "download_queue"}
      BY <1>1, <2>4, <3>5 DEF DeleteQueueJob, DeleteListBlobs, DeleteBlobs,
                              DownloadMark, Handler
    <3>6. ~DeleteRow(t) /\ ~DownloadQueueJob(t) /\ ~EditWrite(t) /\ ~FetchTake(t)
          /\ ~CompleteStatus(t)
      BY <2>4, <3>1 DEF DeleteRow, DownloadQueueJob, EditWrite, FetchTake,
                        CompleteStatus, Done
    <3>7. ~BeatRead(t)
      BY <1>1, <1>7, <2>4, <3>1 DEF BeatRead, Done, Handler
    <3>8. ~BeatWrite(t) /\ ~FetchSelect(t)
      BY <1>7, <2>4, <3>1 DEF BeatWrite, FetchSelect, Done, Idle
    <3> QED
      BY <1>7, <2>8, <3>4, <3>5, <3>6, <3>7, <3>8 DEF HandlerStep
  <2> QED
    BY <2>3, <2>5, <2>6, <2>7, <2>8
<1> QED
  BY <1>4, <1>5, <1>6, <1>7 DEF ReportsTrue


LEMMA DurableStep ==
  ASSUME WfInv, QueueOrder, StoresDistinct, BlobsWf, DeletesWf, DeletesAsked,
         UploadHeld, ReportsTrue, Durable, [Next]_vars
  PROVE  Durable'
<1> SUFFICES ASSUME NEW j \in StoreJobs', jobs'[j].rel \notin asked'
             PROVE  HeldByServer(j)' \/ disk'[jobs'[j].rel] = "full"
  BY DEF Durable
<1>1. CASE j \notin StoreJobs
  <2>1. UploadJob /\ jobs'[j].rel = up.file /\ jobs'[j].temp = UploadTemp
    BY <1>1, NewStoreJob
  <2>2. up.pc = "job" /\ UNCHANGED <<blobs, temps, used>>
    BY <2>1 DEF UploadJob
  <2>3. Ready(UploadTemp)
    BY <2>1, <2>2, AskedGrows DEF UploadHeld
  <2> QED
    BY <2>1, <2>2, <2>3 DEF Ready, HeldByServer
<1>2. CASE j \in StoreJobs
  <2>1. /\ j \in 1..Len(jobs) /\ jobs[j] \in Job
        /\ jobs'[j].rel = jobs[j].rel /\ jobs'[j].temp = jobs[j].temp
    BY <1>2, JobTyped, JobsOnlyGrow DEF StoreJobs, WfInv
  <2>2. jobs[j].rel \in FileId /\ jobs[j].rel \notin asked
    BY <2>1, AskedGrows DEF Job
  <2>3. CASE disk[jobs[j].rel] = "full"
    <3>1. CASE ~(GetBlob /\ last = j)
      <4>1. StoredWhole(j)
        BY <2>3 DEF StoredWhole
      <4> QED
        BY <1>2, <3>1, <4>1, StoredKept DEF StoredWhole
    <3>2. CASE GetBlob /\ last = j /\ disk'[jobs[j].rel] # "full"
      <4>1. jobs[j].temp \in {b.temp : b \in blobs} \cap temps
        BY <2>2, <2>3, <3>2, DiskEffect DEF WriteBlob, UnlinkFile, GetBlob
      <4>2. PICK b \in blobs : b.temp = jobs[j].temp
        BY <4>1
      <4>3. b.status = "ready"
        <5>1. b.status \in {"ready", "consumed"}
          BY DEF WfInv, TypeOK, Blob
        <5> QED
          BY <4>1, <4>2, <5>1 DEF BlobsWf, BlobWf
      <4>4. UNCHANGED <<blobs, temps>>
        BY <3>2 DEF GetBlob, AgentOnly, server
      <4> QED
        BY <2>1, <4>1, <4>2, <4>3, <4>4 DEF HeldByServer
    <3> QED
      BY <2>1, <3>1, <3>2
  <2>4. CASE HeldByServer(j)
    <3>1. PICK x : x = jobs[j].temp
      OBVIOUS
    <3>2. Ready(x)
      BY <2>4, <3>1 DEF HeldByServer, Ready
    <3>3. CASE Ready(x)'
      BY <2>1, <3>1, <3>3 DEF HeldByServer, Ready
    <3>4. CASE ~Ready(x)'
      <4>1. ASSUME NEW t \in Thread, DeleteBlobs(t),
                   \/ x \in threads[t].temps
                   \/ \E b \in blobs : b.temp = x /\ b.file = threads[t].file
            PROVE  FALSE
        <5>1. TempsOfFile(threads[t]) /\ threads[t].file \in asked
          BY <4>1 DEF DeleteBlobs, DeletesWf, DeletionWf, Deleting
        <5>2. jobs[j].rel = threads[t].file
          BY <1>2, <3>1, <4>1, <5>1 DEF TempsOfFile, BlobsWf, BlobWf
        <5> QED
          BY <2>2, <5>1, <5>2
      <4>2. ASSUME NEW t \in Thread, CompleteBlob(t), x = jobs[threads[t].job].temp
            PROVE  disk'[jobs[j].rel] = "full"
        <5>1. threads[t].job \in StoreJobs /\ threads[t].ok
          BY <4>2 DEF CompleteBlob, WfInv, HandlersWf, HandlerWf
        <5>2. threads[t].job = j
          BY <1>2, <3>1, <4>2, <5>1 DEF StoresDistinct
        <5>3. StoredWhole(j)
          BY <4>2, <5>1, <5>2 DEF ReportsTrue, CompleteBlob
        <5>4. UNCHANGED disk
          BY <4>2 DEF CompleteBlob, volume
        <5> QED
          BY <2>2, <5>3, <5>4 DEF StoredWhole
      <4> QED
        BY <2>1, <3>2, <3>4, <4>1, <4>2, ReadyKept
    <3> QED
      BY <3>3, <3>4
  <2> QED
    BY <1>2, <2>2, <2>3, <2>4 DEF Durable
<1> QED
  BY <1>1, <1>2

\* No accepted upload loses its bytes before somebody asks to delete the file:
\* for any number of users, handlers, files and faults (upload_file,
\* mark_job_result, delete_file, _handle_store_file).
THEOREM Durability == Spec => []Durable
<1> DEFINE J == /\ WfInv /\ QueueOrder /\ StoresDistinct /\ BlobsWf /\ DeletesWf
                /\ DeletesAsked /\ UploadHeld /\ ReportsTrue /\ Durable
<1>1. Init => J
  <2> SUFFICES ASSUME Init PROVE J
    OBVIOUS
  <2>1. BlobsWf /\ UploadHeld
    BY DEF Init, BlobsWf, UploadHeld, NoUpload
  <2>2. DeletesWf
    BY DEF Init, DeletesWf, DeletionWf, Idle, Deleting
  <2>3. StoreJobs = {} /\ DeleteJobs = {}
    BY EmptySeq DEF Init, StoreJobs, DeleteJobs
  <2>4. DeletesAsked /\ Durable
    BY <2>3 DEF DeletesAsked, Durable
  <2>5. ReportsTrue
    BY DEF Init, ReportsTrue, AgentStart, Idle
  <2> QED
    BY <2>1, <2>2, <2>4, <2>5, WfInit, QueueOrderInit, StoresDistinctInit
<1>2. J /\ [Next]_vars => J'
  BY WfStep, QueueOrderStep, StoresDistinctStep, BlobsWfStep, DeletesWfStep,
     DeletesAskedStep, UploadHeldStep, ReportsTrueStep, DurableStep
<1>3. J => Durable
  OBVIOUS
<1> HIDE DEF J
<1> QED
  BY <1>1, <1>2, <1>3, PTL DEF Spec

-----------------------------------------------------------------------------
(* A path is whole on the node only after its own job has been run *)

LEMMA UnwrittenStep ==
  ASSUME WfInv, QueueOrder, StoresDistinct, Unwritten, [Next]_vars
  PROVE  Unwritten'
<1>1. /\ last \in Nat /\ last' \in Nat /\ last' >= last
      /\ last' # last => last < last'
      /\ nextFile \in Nat /\ nextFile' \in Nat /\ nextFile' >= nextFile
  BY LastGrows, UploadEffect DEF QueueOrder
<1>2. ASSUME NEW f \in FileId, disk[f] # "full", disk'[f] = "full"
      PROVE  /\ WriteBlob /\ last \in StoreJobs /\ f = jobs[last].rel /\ f < nextFile
             /\ up.pc \in HoldingFile => f # up.file
  <2>1. WriteBlob /\ last \in 1..Len(jobs) /\ f = jobs[last].rel
    BY <1>2, DiskEffect
  <2>2. last \in StoreJobs
    BY <2>1 DEF WriteBlob, WfInv, AgentWf, StoreJobs
  <2> QED
    BY <2>1, <2>2 DEF StoresDistinct, StoreWf
<1>3. ASSUME NEW f \in FileId, f >= nextFile' PROVE disk'[f] # "full"
  <2>1. f \in Nat /\ f >= nextFile /\ ~(f < nextFile)
    BY <1>1, <1>3 DEF FileId
  <2> QED
    BY <1>2, <2>1 DEF Unwritten
<1>4. ASSUME up'.pc \in HoldingFile PROVE disk'[up'.file] # "full"
  <2>1. up'.file \in FileId
    BY <1>4, UploadWfStep DEF WfInv, UploadWf
  <2>2. CASE up'.file = nextFile
    <3>1. disk[up'.file] # "full" /\ ~(up'.file < nextFile)
      BY <1>1, <2>1, <2>2 DEF Unwritten
    <3> QED
      BY <1>2, <2>1, <3>1
  <2>3. CASE up.pc \in HoldingFile /\ up'.file = up.file
    BY <1>2, <2>1, <2>3 DEF Unwritten
  <2>4. \/ up'.file = nextFile
        \/ up.pc \in HoldingFile /\ up'.file = up.file
    BY <1>4, UploadEffect DEF HoldingFile
  <2> QED
    BY <2>2, <2>3, <2>4
<1>5. ASSUME NEW j \in StoreJobs', j > last' \/ (j = last' /\ agent'.pc = "get")
      PROVE  disk'[jobs'[j].rel] # "full"
  <2>1. CASE j \notin StoreJobs
    <3>1. UploadJob /\ jobs'[j].rel = up.file
      BY <2>1, NewStoreJob
    <3>2. up.pc \in HoldingFile
      BY <3>1 DEF UploadJob, HoldingFile
    <3>3. up.file \in FileId /\ disk[up.file] # "full"
      BY <3>2 DEF WfInv, UploadWf, Unwritten
    <3> QED
      BY <1>2, <3>1, <3>2, <3>3
  <2>2. CASE j \in StoreJobs
    <3>1. /\ j \in 1..Len(jobs) /\ jobs[j] \in Job /\ jobs'[j].rel = jobs[j].rel
      BY <2>2, JobTyped, JobsOnlyGrow DEF StoreJobs, WfInv
    <3>2. jobs[j].rel \in FileId /\ j \in Nat
      BY <3>1 DEF Job
    <3>3. j > last \/ (j = last /\ agent.pc = "get")
      <4>1. CASE last' # last
        BY <1>1, <1>5, <3>2, <4>1
      <4>2. CASE last' = last
        <5>1. ASSUME agent'.pc = "get" PROVE UNCHANGED <<agent, last>> \/ last' # last
          <6>1. ASSUME NEW t \in Thread, FetchTake(t), agent.slot = t PROVE last' # last
            <7>1. last < threads[t].job /\ last' = threads[t].job
              BY <6>1 DEF FetchTake, QueueOrder, TakenInOrder
            <7> QED
              BY <1>1, <7>1
          <6> QED
            BY <5>1, <6>1, AgentMoves DEF Elsewhere
        <5> QED
          BY <1>5, <4>2, <5>1
      <4> QED
        BY <4>1, <4>2
    <3>4. disk[jobs[j].rel] # "full"
      BY <2>2, <3>3 DEF Unwritten
    <3>5. ASSUME WriteBlob, last \in StoreJobs, jobs[j].rel = jobs[last].rel PROVE FALSE
      <4>1. j = last
        BY <2>2, <3>5 DEF StoresDistinct
      <4>2. ~(j > last)
        BY <1>1, <4>1
      <4> QED
        BY <3>3, <3>5, <4>1, <4>2 DEF WriteBlob
    <3> QED
      BY <1>2, <3>1, <3>2, <3>4, <3>5
  <2> QED
    BY <2>1, <2>2
<1> QED
  BY <1>3, <1>4, <1>5 DEF Unwritten

-----------------------------------------------------------------------------
(* What the server holds *)

\* The server never gets a copy back.
LEMMA HeldEffect ==
  ASSUME WfInv, StoresDistinct, [Next]_vars, NEW j \in StoreJobs, HeldByServer(j)'
  PROVE  HeldByServer(j)
<1>1. jobs'[j].temp = jobs[j].temp
  BY JobsOnlyGrow DEF WfInv, StoreJobs
<1>2. PICK n \in 1..used["upload"] : jobs[j].temp = <<"upload", n>>
  BY DEF StoresDistinct, StoreWf
<1>3. jobs[j].temp[1] = "upload" /\ jobs[j].temp[2] = n /\ jobs[j].temp # DownloadTemp
  BY <1>2, TempNames
<1>4. jobs[j].temp \in temps
  <2>1. ASSUME UploadReceive, jobs[j].temp = <<"upload", used'["upload"]>> PROVE FALSE
    <3>1. used["upload"] \in Nat /\ used'["upload"] = used["upload"] + 1
      <4>1. used \in [Kind -> Nat] /\ "upload" \in Kind
        BY DEF WfInv, TypeOK, Kind
      <4> QED
        BY <2>1, <4>1 DEF UploadReceive, Spend
    <3>2. n = used'["upload"]
      BY <1>3, <2>1, TempNames
    <3> QED
      BY <3>1, <3>2
  <2> QED
    BY <1>1, <1>3, <2>1, NewTemps DEF HeldByServer
<1>5. PICK b \in blobs' : b.temp = jobs[j].temp /\ b.status = "ready"
  BY <1>1 DEF HeldByServer
<1>6. b \in blobs
  <2>1. ~(UploadBlob /\ b.temp = UploadTemp)
    BY <1>5 DEF UploadBlob, StoresDistinct, StoreWf
  <2>2. ASSUME NEW c \in blobs, b = [c EXCEPT !.status = "consumed"] PROVE FALSE
    <3>1. c \in Blob
      BY DEF WfInv, TypeOK
    <3> QED
      BY <1>5, <2>2, <3>1 DEF Blob
  <2> QED
    BY <1>3, <1>5, <2>1, <2>2, NewBlobs
<1> QED
  BY <1>4, <1>5, <1>6 DEF HeldByServer

Central == {jobs[j].rel : j \in {i \in StoreJobs : HeldByServer(i)}}
Node == {r \in FileId : disk[r] = "full"}

LEMMA CentralShrinks ==
  ASSUME WfInv, StoresDistinct, ~UploadJob, [Next]_vars
  PROVE  /\ StoreJobs' = StoreJobs
         /\ Central' \subseteq Central
<1>1. StoreJobs' = StoreJobs
  BY NewStoreJob, JobSetsGrow DEF WfInv
<1>2. ASSUME NEW r \in Central' PROVE r \in Central
  <2>1. PICK j \in StoreJobs' : HeldByServer(j)' /\ r = jobs'[j].rel
    BY DEF Central
  <2>2. j \in StoreJobs /\ jobs'[j].rel = jobs[j].rel
    BY <1>1, <2>1, JobsOnlyGrow DEF WfInv, StoreJobs
  <2>3. HeldByServer(j)
    BY <2>1, <2>2, HeldEffect
  <2> QED
    BY <2>1, <2>2, <2>3 DEF Central
<1> QED
  BY <1>1, <1>2

\* A deletion drops the copy of its own file, a completion that of its job.
LEMMA CentralKept ==
  ASSUME WfInv, StoresDistinct, BlobsWf, DeletesWf, [Next]_vars,
         NEW r \in Central, r \notin Central'
  PROVE  \E t \in Thread :
           \/ DeleteBlobs(t) /\ r = threads[t].file
           \/ /\ CompleteBlob(t) /\ threads[t].job \in StoreJobs
              /\ r = jobs[threads[t].job].rel
<1>1. PICK j \in StoreJobs : HeldByServer(j) /\ r = jobs[j].rel
  BY DEF Central
<1>2. /\ j \in StoreJobs' /\ jobs'[j].rel = jobs[j].rel
      /\ jobs'[j].temp = jobs[j].temp
  BY JobSetsGrow, JobsOnlyGrow DEF WfInv, StoreJobs
<1>3. ~HeldByServer(j)'
  BY <1>1, <1>2 DEF Central
<1>4. PICK x : x = jobs[j].temp
  OBVIOUS
<1>5. Ready(x) /\ ~Ready(x)'
  BY <1>1, <1>2, <1>3, <1>4 DEF HeldByServer, Ready
<1>6. ASSUME NEW t \in Thread, DeleteBlobs(t),
             \/ x \in threads[t].temps
             \/ \E b \in blobs : b.temp = x /\ b.file = threads[t].file
      PROVE  r = threads[t].file
  <2>1. TempsOfFile(threads[t])
    BY <1>6 DEF DeleteBlobs, DeletesWf, DeletionWf
  <2> QED
    BY <1>1, <1>4, <1>6, <2>1 DEF TempsOfFile, BlobsWf, BlobWf
<1>7. ASSUME NEW t \in Thread, CompleteBlob(t), x = jobs[threads[t].job].temp
      PROVE  threads[t].job \in StoreJobs /\ r = jobs[threads[t].job].rel
  <2>1. threads[t].job \in StoreJobs
    BY <1>7 DEF CompleteBlob, WfInv, HandlersWf, HandlerWf
  <2>2. threads[t].job = j
    BY <1>4, <1>7, <2>1 DEF StoresDistinct
  <2> QED
    BY <1>1, <2>1, <2>2
<1> QED
  BY <1>5, <1>6, <1>7, ReadyKept

-----------------------------------------------------------------------------
(* The refinement *)

Safe == /\ WfInv /\ QueueOrder /\ StoresDistinct /\ BlobsWf /\ DeletesWf
        /\ DeletesAsked /\ UploadHeld /\ ReportsTrue /\ Unwritten /\ Durable

LEMMA SafeInit == Init => Safe
<1> SUFFICES ASSUME Init PROVE Safe
  OBVIOUS
<1>1. BlobsWf /\ UploadHeld
  BY DEF Init, BlobsWf, UploadHeld, NoUpload
<1>2. DeletesWf
  BY DEF Init, DeletesWf, DeletionWf, Idle, Deleting
<1>3. StoreJobs = {} /\ DeleteJobs = {}
  BY EmptySeq DEF Init, StoreJobs, DeleteJobs
<1>4. DeletesAsked /\ Durable
  BY <1>3 DEF DeletesAsked, Durable
<1>5. ReportsTrue
  BY DEF Init, ReportsTrue, AgentStart, Idle
<1>6. Unwritten
  BY <1>3 DEF Init, Unwritten, NoUpload, HoldingFile
<1> QED
  BY <1>1, <1>2, <1>4, <1>5, <1>6, WfInit, QueueOrderInit, StoresDistinctInit DEF Safe

LEMMA SafeStep == ASSUME Safe, [Next]_vars PROVE Safe'
  BY WfStep, QueueOrderStep, StoresDistinctStep, BlobsWfStep, DeletesWfStep,
     DeletesAskedStep, UploadHeldStep, ReportsTrueStep, UnwrittenStep, DurableStep
     DEF Safe

LEMMA AtWork ==
  ASSUME Safe, agent.pc \in WithJob
  PROVE  CurrentJob = jobs[last] /\ last \in 1..Len(jobs)
<1>1. agent.job = last /\ last >= 1 /\ last <= Len(jobs)
  BY DEF Safe, WfInv, AgentWf
<1>2. last \in Nat /\ Len(jobs) \in Nat
  BY BoundAssumption, LenProperties DEF Safe, WfInv, TypeOK
<1> QED
  BY <1>1, <1>2 DEF CurrentJob

\* What a step does to the node's copies.
LEMMA NodeStep ==
  ASSUME Safe, [Next]_vars
  PROVE  \/ Node' = Node
         \/ \E r \in FileId : WriteBlob /\ r \in Central \cup asked /\ Node' = Node \cup {r}
         \/ \E r \in FileId : UnlinkFile /\ r \in asked /\ Node' = Node \ {r}
<1>1. \A r \in FileId : disk'[r] # disk[r] =>
        /\ agent.job = last /\ last \in 1..Len(jobs) /\ r = jobs[last].rel
        /\ GetBlob \/ WriteBlob \/ UnlinkFile
  BY DiskEffect DEF Safe
<1>2. CASE GetBlob
  <2>1. ASSUME NEW r \in FileId, disk'[r] # disk[r]
        PROVE  disk[r] # "full" /\ disk'[r] # "full"
    <3>1. /\ agent.pc = "get" /\ last \in StoreJobs /\ r = jobs[last].rel
          /\ ~WriteBlob /\ ~UnlinkFile
      BY <1>1, <1>2, <2>1 DEF GetBlob, WriteBlob, UnlinkFile, Safe, WfInv, AgentWf, StoreJobs
    <3>2. disk'[r] = "partial"
      BY <2>1, <3>1, DiskEffect DEF Safe
    <3> QED
      BY <3>1, <3>2 DEF Safe, Unwritten
  <2> QED
    BY <2>1 DEF Node
<1>3. CASE WriteBlob
  <2>1. agent.pc = "write" /\ last \in StoreJobs /\ CurrentJob = jobs[last]
    BY <1>3, AtWork DEF WriteBlob, Safe, WfInv, AgentWf, WithJob, StoreJobs
  <2>2. jobs[last] \in Job
    BY <2>1, JobTyped DEF Safe, WfInv, StoreJobs
  <2>3. PICK r : r = jobs[last].rel
    OBVIOUS
  <2>4. r \in FileId /\ disk' = [disk EXCEPT ![r] = "full"]
    BY <1>3, <2>1, <2>2, <2>3 DEF WriteBlob, Job
  <2>5. Node' = Node \cup {r}
    <3>1. disk \in [FileId -> {"none", "partial", "full"}]
      BY DEF Safe, WfInv, TypeOK
    <3> QED
      BY <2>4, <3>1 DEF Node
  <2>6. r \in Central \cup asked
    <3>1. disk[r] # "full"
      BY <2>1, <2>3 DEF Safe, ReportsTrue
    <3> QED
      BY <2>1, <2>3, <3>1 DEF Safe, Durable, Central
  <2> QED
    BY <1>3, <2>4, <2>5, <2>6
<1>4. CASE UnlinkFile
  <2>1. last \in DeleteJobs /\ CurrentJob = jobs[last]
    BY <1>4, AtWork DEF UnlinkFile, Safe, WfInv, AgentWf, WithJob, DeleteJobs
  <2>2. jobs[last] \in Job
    BY <2>1, JobTyped DEF Safe, WfInv, DeleteJobs
  <2>3. PICK r : r = jobs[last].rel
    OBVIOUS
  <2>4. r \in FileId /\ disk' = [disk EXCEPT ![r] = "none"]
    BY <1>4, <2>1, <2>2, <2>3 DEF UnlinkFile, Job
  <2>5. Node' = Node \ {r}
    <3>1. disk \in [FileId -> {"none", "partial", "full"}]
      BY DEF Safe, WfInv, TypeOK
    <3> QED
      BY <2>4, <3>1 DEF Node
  <2>6. r \in asked
    BY <2>1, <2>3 DEF Safe, DeletesAsked
  <2> QED
    BY <1>4, <2>4, <2>5, <2>6
<1>5. CASE ~GetBlob /\ ~WriteBlob /\ ~UnlinkFile
  BY <1>1, <1>5 DEF Node
<1> QED
  BY <1>2, <1>3, <1>4, <1>5

\* Handler t is about to take the server's copy of r away.
Erases(t, r) ==
  \/ DeleteBlobs(t) /\ r = threads[t].file
  \/ CompleteBlob(t) /\ threads[t].job \in StoreJobs /\ r = jobs[threads[t].job].rel

LEMMA ErasesMoves ==
  ASSUME Safe, NEW t \in Thread, NEW r, Erases(t, r)
  PROVE  threads'[t].pc # threads[t].pc
<1>0. threads \in [Thread -> Handler]
  BY DEF Safe, WfInv, TypeOK
<1>1. ASSUME NEW h, Goto(t, h) PROVE threads'[t] = h
  BY <1>0, <1>1 DEF Goto
<1>2. threads[t] \in Handler
  BY <1>0
<1>3. CASE DeleteBlobs(t)
  BY <1>1, <1>2, <1>3 DEF DeleteBlobs, Handler
<1>4. CASE CompleteBlob(t)
  BY <1>1, <1>2, <1>4 DEF CompleteBlob, Handler
<1> QED
  BY <1>3, <1>4 DEF Erases

LEMMA OneErases ==
  ASSUME Safe, NEW t \in Thread, NEW u \in Thread, NEW r, NEW s,
         Erases(t, r), Erases(u, s)
  PROVE  r = s
<1>1. threads \in [Thread -> Handler]
  BY DEF Safe, WfInv, TypeOK
<1>2. ASSUME NEW v \in Thread, NEW x, Erases(v, x)
      PROVE  \A w \in Thread : w # v => threads'[w] = threads[w]
  BY <1>1, <1>2 DEF Erases, DeleteBlobs, CompleteBlob, Goto
<1>3. threads'[t].pc # threads[t].pc
  BY ErasesMoves
<1>4. t = u
  BY <1>2, <1>3
<1> QED
  BY <1>4 DEF Erases, DeleteBlobs, CompleteBlob

\* What a step does to the server's copies.
LEMMA CentralStep ==
  ASSUME Safe, [Next]_vars
  PROVE  \/ Central' = Central
         \/ \E r \in FileId : UploadJob /\ Central' = Central \cup {r}
         \/ \E r \in FileId, t \in Thread :
              /\ \/ DeleteBlobs(t) /\ r \in asked
                 \/ CompleteBlob(t) /\ r \in Node \cup asked
              /\ Central' = Central \ {r}
<1>1. CASE UploadJob
  <2>1. up.file \in FileId
    BY <1>1 DEF UploadJob, HoldingFile, Safe, WfInv, UploadWf
  <2>2. Central \subseteq Central'
    <3>1. UNCHANGED threads
      BY <1>1 DEF UploadJob
    <3>2. \A t \in Thread : \A r : ~Erases(t, r)
      <4>1. \A t \in Thread : \A r : Erases(t, r) => threads'[t].pc # threads[t].pc
        BY ErasesMoves DEF Safe
      <4> QED
        BY <3>1, <4>1
    <3> QED
      BY <3>2, CentralKept DEF Safe, Erases
  <2>3. ASSUME NEW r \in Central', r \notin Central PROVE r = up.file
    <3>1. PICK j \in StoreJobs' : HeldByServer(j)' /\ r = jobs'[j].rel
      BY <2>3 DEF Central
    <3>2. CASE j \in StoreJobs
      <4>1. HeldByServer(j) /\ jobs'[j].rel = jobs[j].rel
        BY <3>1, <3>2, HeldEffect, JobsOnlyGrow DEF Safe, WfInv, StoreJobs
      <4> QED
        BY <2>3, <3>1, <3>2, <4>1 DEF Central
    <3>3. CASE j \notin StoreJobs
      BY <3>1, <3>3, NewStoreJob DEF Safe
    <3> QED
      BY <3>2, <3>3
  <2>4. Central' = Central \/ Central' = Central \cup {up.file}
    BY <2>2, <2>3
  <2> QED
    BY <1>1, <2>1, <2>4
<1>2. CASE ~UploadJob /\ Central' # Central
  <2>1. PICK r \in Central : r \notin Central'
    <3>1. Central' \subseteq Central
      BY <1>2, CentralShrinks DEF Safe
    <3> QED
      BY <1>2, <3>1
  <2>2. PICK t \in Thread : Erases(t, r)
    BY <2>1, CentralKept DEF Safe, Erases
  <2>3. ASSUME NEW s \in Central, s \notin Central' PROVE s = r
    <3>1. PICK u \in Thread : Erases(u, s)
      BY <2>3, CentralKept DEF Safe, Erases
    <3> QED
      BY <2>2, <3>1, OneErases DEF Safe
  <2>4. Central' = Central \ {r}
    BY <1>2, <2>1, <2>3, CentralShrinks DEF Safe
  <2>5. r \in FileId
    <3>1. PICK j \in StoreJobs : r = jobs[j].rel
      BY <2>1 DEF Central
    <3>2. jobs[j] \in Job
      BY JobTyped DEF Safe, WfInv, StoreJobs
    <3> QED
      BY <3>1, <3>2 DEF Job
  <2>6. DeleteBlobs(t) => r \in asked
    <3>1. ASSUME DeleteBlobs(t) PROVE r = threads[t].file
      BY <2>2, <3>1 DEF Erases, DeleteBlobs, CompleteBlob
    <3> QED
      BY <3>1 DEF DeleteBlobs, Safe, DeletesWf, DeletionWf, Deleting
  <2>7. CompleteBlob(t) => r \in Node \cup asked
    <3>1. ASSUME CompleteBlob(t) PROVE threads[t].job \in StoreJobs /\ r = jobs[threads[t].job].rel
      BY <2>2, <3>1 DEF Erases, DeleteBlobs, CompleteBlob
    <3>2. ASSUME CompleteBlob(t) PROVE StoredWhole(threads[t].job)
      BY <3>1, <3>2 DEF CompleteBlob, Safe, ReportsTrue, WfInv, HandlersWf, HandlerWf
    <3> QED
      BY <2>5, <3>1, <3>2 DEF StoredWhole, Node
  <2> QED
    BY <2>2, <2>4, <2>5, <2>6, <2>7 DEF Erases
<1> QED
  BY <1>1, <1>2

LEMMA AskedStep ==
  ASSUME Safe, [Next]_vars, asked' # asked
  PROVE  /\ UNCHANGED <<Central, Node>>
         /\ \E S \in SUBSET FileId : asked' = asked \cup S
<1>1. PICK t \in Thread, f \in FileId : DeleteRead(t, f)
  BY DEF Next, vars, history, UserRequest, CreateRecord, UploadReceive,
         DownloadRead, EditRead, UploadStep, UploadRefuse, UploadInsert, UploadRead,
         UploadPath, UploadBlob, UploadJob, AgentStep, SendHeartbeat, SendFetch,
         SendReport, GetBlob, WriteBlob, ListFile, PushFile, UnlinkFile, UnlistFile,
         AgentOnly, HandlerStep, DeleteQueueJob, DeleteListBlobs, DeleteBlobs,
         DeleteRow, DownloadMark, DownloadQueueJob, EditWrite, BeatRead, BeatWrite,
         FetchSelect, FetchTake, CompleteJob, CompleteBlob, CompleteStatus, Fault,
         AgentTimeout, RequestLost, ResultLost, TransferRefused, StreamBroken,
         AgentCrash, MetaTorn, ServerRestart
<1>2. UNCHANGED <<jobs, blobs, temps, disk>> /\ asked' = asked \cup ({f, files[f].rel} \ {0})
  BY <1>1 DEF DeleteRead, server, volume
<1>3. UNCHANGED <<Central, Node>>
  BY <1>2 DEF Central, Node, StoreJobs, HeldByServer
<1>4. {f, files[f].rel} \ {0} \subseteq FileId
  BY <1>1 DEF Safe, WfInv, TypeOK, Row, Path, FileId
<1> QED
  BY <1>2, <1>3, <1>4

LEMMA CustodyStep ==
  ASSUME Safe, [Next]_vars
  PROVE  [Promise!Next]_(Promise!vars)
<1>1. CASE asked' # asked
  BY <1>1, AskedStep DEF Promise!Next, Promise!Ask, Promise!vars, Central, Node
<1>2. ASSUME asked' = asked, NEW r \in FileId,
             WriteBlob, r \in Central \cup asked, Node' = Node \cup {r}
      PROVE  Promise!Next
  <2>1. UNCHANGED <<jobs, blobs, temps>>
    BY <1>2 DEF WriteBlob, AgentOnly, server
  <2>2. Central' = Central
    BY <2>1 DEF Central, StoreJobs, HeldByServer
  <2> QED
    BY <1>2, <2>2 DEF Promise!Next, Promise!Store, Central, Node
<1>3. ASSUME asked' = asked, NEW r \in FileId,
             UnlinkFile, r \in asked, Node' = Node \ {r}
      PROVE  Promise!Next
  <2>1. UNCHANGED <<jobs, blobs, temps>>
    BY <1>3 DEF UnlinkFile, AgentOnly, server
  <2>2. Central' = Central
    BY <2>1 DEF Central, StoreJobs, HeldByServer
  <2> QED
    BY <1>3, <2>2 DEF Promise!Next, Promise!EraseNode, Central, Node
<1>4. ASSUME asked' = asked, Node' = Node PROVE [Promise!Next]_(Promise!vars)
  <2>1. CASE Central' = Central
    BY <1>4, <2>1 DEF Promise!vars, Central, Node
  <2>2. ASSUME NEW r \in FileId, Central' = Central \cup {r} PROVE Promise!Next
    BY <1>4, <2>2 DEF Promise!Next, Promise!Accept, Central, Node
  <2>3. ASSUME NEW r \in FileId, r \in Node \cup asked, Central' = Central \ {r}
        PROVE  Promise!Next
    BY <1>4, <2>3 DEF Promise!Next, Promise!Release, Central, Node
  <2> QED
    BY <2>1, <2>2, <2>3, CentralStep
<1> QED
  BY <1>1, <1>2, <1>3, <1>4, NodeStep

\* The transfer keeps the promise of Custody: for any number of users, handlers,
\* files and faults, the server drops the bytes of an upload only once the node
\* has all of them or somebody has asked to delete the file (upload_file,
\* mark_job_result, delete_file, run).
THEOREM Refinement == Spec => KeepsCustody
<1>1. Init => Promise!Init
  <2> SUFFICES ASSUME Init PROVE Promise!Init
    OBVIOUS
  <2>1. StoreJobs = {}
    BY EmptySeq DEF Init, StoreJobs
  <2> QED
    BY <2>1 DEF Init, Promise!Init
<1>2. Safe /\ [Next]_vars => Safe'
  BY SafeStep
<1>3. Safe /\ [Next]_vars => [Promise!Next]_(Promise!vars)
  BY CustodyStep
<1> QED
  BY <1>1, <1>2, <1>3, SafeInit, PTL DEF Spec, KeepsCustody, Promise!Spec
=============================================================================
