------------------------- MODULE DownloadProxy_proofs -------------------------
(***************************************************************************)
(* For any downloads, pools, file lengths and faults: what a client gets is *)
(* a beginning of the file, all of it if its stream ends with the end mark,  *)
(* and a stream that gives up waiting has a fault or a full pool to blame.   *)
(***************************************************************************)
EXTENDS DownloadProxy, FiniteSetTheorems, SequenceTheorems, TLAPS
-----------------------------------------------------------------------------
(* The inductive invariant *)

Live(d)    == stream[d].pc \in {"open", "want", "get", "send"}
Queued(d)  == \E i \in 1..Len(jobs) : jobs[i] = d
Pushing(d) == agent.pc = "push" /\ Working(d)

\* The chunks that the stream of d has taken.
Got(d) == Len(received[d]) + IF stream[d].pc = "send" THEN 1 ELSE 0

\* Nothing has been sent for d.
Fresh(d) ==
  /\ queue[d] = <<>> /\ d \notin done
  /\ sender[d] = NoSender
  /\ received[d] = <<>> /\ stream[d].pc # "send"

\* A download has one job, which the agent takes once.
JobsOnce ==
  /\ \A i, j \in 1..Len(jobs) : jobs[i] = jobs[j] => i = j
  /\ \A d \in Download :
       /\ stream[d].pc \in {"idle", "open"} => Fresh(d) /\ ~ Queued(d) /\ ~ Working(d)
       /\ Queued(d) => Fresh(d) /\ ~ Working(d)
       /\ Pushing(d) => Fresh(d)

\* The agent waits for the handler it has sent the file to.
AgentWaits ==
  /\ agent.pc # "fetch" => \E d \in Download : Working(d)
  /\ agent.pc = "send" => \A d \in Download : Working(d) => sender[d].pc # "idle"

\* A handler puts nothing after an end mark.
SendersFit ==
  \A d \in Download :
    /\ sender[d].pc # "idle" => d \notin done
    /\ sender[d].pc = "put" => sender[d].next \in Chunk

\* The queue holds what comes after the chunks taken.
InOrder(d) ==
  \A i \in 1..Len(queue[d]) :
    /\ queue[d][i] \in Chunk => queue[d][i] = Got(d) + i
    /\ queue[d][i] = End => \/ Got(d) + i = Chunks + 1
                            \/ i > 1 /\ queue[d][i - 1] = Error
    /\ d \notin done => queue[d][i] \in Chunk

\* The last item of a queue that is done is a mark.
Marked(d) == queue[d] # <<>> /\ queue[d][Len(queue[d])] \notin Chunk

\* The job of a download is somewhere, or will not send the file.
Placed(d) == Queued(d) \/ Pushing(d) \/ sender[d].pc # "idle" \/ d \in done \/ d \in dropped

QueueFits(d) ==
  /\ d \in sessions
  /\ stream[d].pc = "send" => stream[d].item = Got(d) /\ Got(d) \in Chunk
  /\ InOrder(d)
  /\ sender[d].pc # "idle" => sender[d].next = Got(d) + Len(queue[d]) + 1
  /\ d \in done => Marked(d)
  /\ stream[d].pc # "open" => Placed(d)

QueuesFit == \A d \in Download : Live(d) => QueueFits(d)

\* What the clients have.
Beginnings ==
  \A d \in Download :
    /\ \A i \in 1..Len(received[d]) : received[d][i] = i
    /\ ending[d] = "end" => stream[d].pc = "ended" /\ Len(received[d]) = Chunks

PoolHolds == IsFiniteSet(Holding) /\ Cardinality(Holding) <= pool

DInv ==
  TypeOK /\ JobsOnce /\ AgentWaits /\ SendersFit /\ QueuesFit /\ Beginnings /\ PoolHolds

-----------------------------------------------------------------------------
(* Type correctness *)

\* The numbers of a file.
LEMMA Numbers ==
  /\ Chunks \in Nat /\ Chunk \subseteq Item /\ Item \subseteq Int
  /\ End \in Item /\ Error \in Item /\ End \notin Chunk /\ Error \notin Chunk /\ End # Error
  /\ Loop.pc = "fetch" /\ Loop.job = {} /\ NoSender \in Sender /\ NoSender.pc = "idle"
  /\ NoSender.next = 1 /\ NoStream \in Stream /\ NoStream.pc = "idle"
<1>1. /\ Chunks \in Nat /\ Chunk \subseteq Item /\ Item \subseteq Int
      /\ End \in Item /\ Error \in Item /\ End \notin Chunk /\ Error \notin Chunk /\ End # Error
  BY ChunksAssumption DEF Chunk, Item, End, Error
<1>2. /\ NoSender.pc = "idle" /\ NoSender.next = 1 /\ Loop.pc = "fetch" /\ Loop.job = {}
  BY DEF NoSender, Loop
<1>3. 1 \in 1..(Chunks + 1)
  BY <1>1
<1>4. NoSender \in Sender
  BY <1>3 DEF NoSender, Sender, SenderPc
<1>5. NoStream \in Stream /\ NoStream.pc = "idle"
  BY DEF NoStream, Stream, StreamPc
<1> QED BY <1>1, <1>2, <1>4, <1>5
 
\* Queues hold chunks and marks.
LEMMA QueueType ==
  ASSUME TypeOK, [Next]_vars
  PROVE  queue' \in [Download -> Seq(Item)]
<1>0. queue \in [Download -> Seq(Item)]
  BY DEF TypeOK
<1>1. ASSUME NEW d \in Download, NEW q \in Seq(Item), queue' = [queue EXCEPT ![d] = q]
      PROVE  queue' \in [Download -> Seq(Item)]
  BY <1>0, <1>1
<1>2. ASSUME NEW d \in Download, TakeChunk(d) \/ TakeMark(d)
      PROVE  queue' \in [Download -> Seq(Item)]
  <2>1. queue[d] # <<>> /\ queue' = [queue EXCEPT ![d] = Tail(queue[d])]
    BY <1>0, <1>2 DEF TakeChunk, TakeMark
  <2>2. Tail(queue[d]) \in Seq(Item)
    BY <1>0, <2>1, HeadTailProperties
  <2> QED BY <1>1, <2>1, <2>2
<1>3. ASSUME NEW d \in Download, PutChunk(d)
      PROVE  queue' \in [Download -> Seq(Item)]
  <2>1. sender[d].next \in Item
    BY Numbers DEF TypeOK, Sender, Item, Chunk, End
  <2>2. Append(queue[d], sender[d].next) \in Seq(Item)
    BY <1>0, <2>1, AppendProperties
  <2> QED BY <1>0, <1>1, <1>3, <2>2 DEF PutChunk
<1>4. ASSUME NEW d \in Download, EndUpload(d) \/ ReadFails(d)
      PROVE  queue' \in [Download -> Seq(Item)]
  <2>1. <<End>> \in Seq(Item) /\ <<Error, End>> \in Seq(Item)
    BY Numbers
  <2>2. PICK items \in Seq(Item) : Finish(d, items)
    BY <1>4, <2>1 DEF EndUpload, ReadFails
  <2>3. queue[d] \o items \in Seq(Item)
    BY <1>0, ConcatProperties
  <2> QED BY <1>0, <1>1, <2>2, <2>3 DEF Finish, Finished
<1>5. CASE UNCHANGED queue
  BY <1>0, <1>5
<1> QED
  BY <1>2, <1>3, <1>4, <1>5
     DEF Next, Step, vars, moving, broker, history, Request, StreamStep, SenderStep, OpenSession,
         AcceptRequest, RefuseRequest, AwaitItem, SendChunk, Leave, DropStream, FetchJob,
         FetchTimeout, LateFetch, PushFile, ReadChunk, ReportJob, IdleTimeout, SlowTransfer,
         PushFails, AgentLost, ServerRestart

\* A stream has a state and at most one item.
LEMMA StreamType ==
  ASSUME TypeOK, [Next]_vars
  PROVE  stream' \in [Download -> Stream]
<1>0. stream \in [Download -> Stream] /\ queue \in [Download -> Seq(Item)]
  BY DEF TypeOK
<1>1. ASSUME NEW d \in Download, NEW pc \in StreamPc, Move(d, pc)
      PROVE  stream' \in [Download -> Stream]
  BY <1>0, <1>1 DEF Move, Stream
<1>2. ASSUME NEW d \in Download,
             \/ OpenSession(d) \/ Request(d) \/ AwaitItem(d)
             \/ TakeMark(d) \/ IdleTimeout(d) \/ SlowTransfer(d)
      PROVE  stream' \in [Download -> Stream]
  <2>1. \E pc \in StreamPc : Move(d, pc)
    BY <1>2 DEF OpenSession, Request, AcceptRequest, RefuseRequest, AwaitItem, TakeMark, IdleTimeout,
                SlowTransfer, EndStream, StreamPc
  <2> QED BY <1>1, <2>1
<1>3. ASSUME NEW d \in Download, TakeChunk(d)
      PROVE  stream' \in [Download -> Stream]
  <2>1. Head(queue[d]) \in Item
    BY <1>0, <1>3, HeadTailProperties DEF TakeChunk
  <2> QED BY <1>0, <1>3, <2>1 DEF TakeChunk, Stream, StreamPc
<1>4. ASSUME NEW d \in Download, SendChunk(d) \/ Leave(d) \/ DropStream(d)
      PROVE  stream' \in [Download -> Stream]
  <2>1. stream[d] \in Stream /\ TRUE \in BOOLEAN
    BY <1>0
  <2>2. \/ stream' = [stream EXCEPT ![d] = [stream[d] EXCEPT !.gone = TRUE]]
        \/ \E pc \in {"want", "left"} :
             stream' = [stream EXCEPT ![d] = [stream[d] EXCEPT !.pc = pc, !.item = 0]]
    BY <1>0, <1>4 DEF SendChunk, Leave, DropStream
  <2>3. [stream[d] EXCEPT !.gone = TRUE] \in Stream
    BY <2>1 DEF Stream
  <2>4. \A pc \in {"want", "left"} : [stream[d] EXCEPT !.pc = pc, !.item = 0] \in Stream
    BY <2>1 DEF Stream, StreamPc
  <2> QED BY <1>0, <2>2, <2>3, <2>4
<1>5. CASE ServerRestart
  <2>1. [pc |-> "left", item |-> 0, gone |-> TRUE] \in Stream
    BY DEF Stream, StreamPc
  <2> QED BY <1>0, <1>5, <2>1 DEF ServerRestart
<1>6. CASE UNCHANGED stream
  BY <1>0, <1>6
<1> QED
  BY <1>2, <1>3, <1>4, <1>5, <1>6
     DEF Next, Step, vars, moving, StreamStep, SenderStep, FetchJob, FetchTimeout, LateFetch,
         PushFile, ReadChunk, PutChunk, EndUpload, ReportJob, PushFails, ReadFails, AgentLost

\* A handler counts the chunks of one file.
LEMMA SenderType ==
  ASSUME DInv, [Next]_vars
  PROVE  sender' \in [Download -> Sender]
<1>0. sender \in [Download -> Sender]
  BY DEF DInv, TypeOK
<1>1. ASSUME NEW d \in Download, NEW s \in Sender, sender' = [sender EXCEPT ![d] = s]
      PROVE  sender' \in [Download -> Sender]
  BY <1>0, <1>1
<1>2. ASSUME NEW d \in Download, PushFile(d)
      PROVE  sender' \in [Download -> Sender]
  <2>1. [pc |-> "read", next |-> 1] \in Sender
    BY Numbers DEF Sender, SenderPc, NoSender
  <2> QED BY <1>1, <1>2, <2>1 DEF PushFile
<1>3. ASSUME NEW d \in Download, ReadChunk(d)
      PROVE  sender' \in [Download -> Sender]
  BY <1>0, <1>3 DEF ReadChunk, Sender, SenderPc
<1>4. ASSUME NEW d \in Download, PutChunk(d)
      PROVE  sender' \in [Download -> Sender]
  <2> DEFINE n == sender[d].next + 1
  <2>1. sender[d].next \in Chunk
    BY <1>4 DEF PutChunk, DInv, SendersFit
  <2>2. n \in 1..(Chunks + 1)
    BY <2>1, Numbers DEF Chunk
  <2>3. sender' = [sender EXCEPT ![d] = [pc |-> "read", next |-> n]]
    BY <1>0, <1>4 DEF PutChunk
  <2> HIDE DEF n
  <2>4. [pc |-> "read", next |-> n] \in Sender
    BY <2>2 DEF Sender, SenderPc
  <2> QED BY <1>1, <2>3, <2>4
<1>5. ASSUME NEW d \in Download, EndUpload(d) \/ ReadFails(d)
      PROVE  sender' \in [Download -> Sender]
  <2>1. sender' = [sender EXCEPT ![d] = NoSender]
    BY <1>5 DEF EndUpload, ReadFails, Return
  <2> QED BY <1>1, <2>1, Numbers
<1>6. CASE ServerRestart
  BY <1>6, Numbers DEF ServerRestart
<1>7. CASE UNCHANGED sender
  BY <1>0, <1>7
<1> QED
  BY <1>2, <1>3, <1>4, <1>5, <1>6, <1>7
     DEF Next, Step, vars, moving, Request, StreamStep, SenderStep, OpenSession, AcceptRequest,
         RefuseRequest, AwaitItem, TakeChunk, TakeMark, EndStream, SendChunk, Leave, DropStream,
         FetchJob, FetchTimeout, LateFetch, ReportJob, IdleTimeout, SlowTransfer, PushFails, AgentLost

\* What happens to the jobs and the agent.
LEMMA JobsType ==
  ASSUME TypeOK, [Next]_vars
  PROVE  /\ jobs' \in Seq(Download) /\ dropped' \subseteq Download
         /\ agent' \in [pc : AgentPc, job : SUBSET Download]
<1>0. /\ jobs \in Seq(Download) /\ dropped \subseteq Download
      /\ agent \in [pc : AgentPc, job : SUBSET Download]
  BY DEF TypeOK
<1>1. jobs' \in Seq(Download)
  <2>1. ASSUME NEW d \in Download, AcceptRequest(d)
        PROVE  jobs' \in Seq(Download)
    BY <1>0, <2>1 DEF AcceptRequest
  <2>2. CASE FetchJob \/ LateFetch
    <3>1. jobs # <<>> => Tail(jobs) \in Seq(Download)
      BY <1>0, HeadTailProperties
    <3> QED BY <1>0, <2>2, <3>1 DEF FetchJob, LateFetch
  <2>3. CASE UNCHANGED jobs
    BY <1>0, <2>3
  <2> QED
    BY <2>1, <2>2, <2>3
       DEF Next, Step, vars, moving, Request, StreamStep, SenderStep, OpenSession, RefuseRequest,
           AwaitItem, TakeChunk, TakeMark, EndStream, SendChunk, Leave, DropStream, FetchTimeout,
           PushFile, ReadChunk, PutChunk, EndUpload, ReportJob, IdleTimeout, SlowTransfer,
           PushFails, ReadFails, AgentLost, ServerRestart
<1>2. dropped' \subseteq Download
  <2>1. ASSUME NEW d \in Download, SlowTransfer(d) \/ PushFails(d)
        PROVE  dropped' \subseteq Download
    BY <1>0, <2>1 DEF SlowTransfer, PushFails
  <2>2. CASE LateFetch
    <3>1. jobs # <<>> => Head(jobs) \in Download
      BY <1>0, HeadTailProperties
    <3> QED BY <1>0, <2>2, <3>1 DEF LateFetch
  <2>3. CASE AgentLost
    BY <1>0, <2>3 DEF AgentLost
  <2>4. CASE UNCHANGED dropped
    BY <1>0, <2>4
  <2> QED
    BY <2>1, <2>2, <2>3, <2>4
       DEF Next, Step, vars, moving, history, Request, StreamStep, SenderStep, OpenSession,
           AcceptRequest, RefuseRequest, AwaitItem, TakeChunk, TakeMark, EndStream, SendChunk,
           Leave, DropStream, FetchJob, FetchTimeout, PushFile, ReadChunk, PutChunk, EndUpload,
           ReportJob, IdleTimeout, ReadFails, ServerRestart
<1>3. agent' \in [pc : AgentPc, job : SUBSET Download]
  <2>1. \A pc \in AgentPc : [agent EXCEPT !.pc = pc] \in [pc : AgentPc, job : SUBSET Download]
    BY <1>0
  <2>2. CASE FetchJob
    <3>1. Head(jobs) \in Download
      BY <1>0, <2>2, HeadTailProperties DEF FetchJob
    <3>2. agent' = [pc |-> "push", job |-> {Head(jobs)}]
      BY <2>2 DEF FetchJob
    <3> QED BY <3>1, <3>2 DEF AgentPc
  <2>3. ASSUME NEW d \in Download, PushFile(d) \/ PushFails(d) \/ EndUpload(d) \/ ReadFails(d)
        PROVE  agent' \in [pc : AgentPc, job : SUBSET Download]
    <3>1. \/ agent' = agent \/ agent' = [agent EXCEPT !.pc = "send"]
          \/ agent' = [agent EXCEPT !.pc = "report"]
      BY <2>3 DEF PushFile, PushFails, EndUpload, ReadFails, Return
    <3> QED BY <1>0, <2>1, <3>1 DEF AgentPc
  <2>4. CASE ReportJob \/ AgentLost
    BY <2>4 DEF ReportJob, AgentLost, Loop, AgentPc
  <2>5. CASE ServerRestart
    BY <1>0, <2>1, <2>5 DEF ServerRestart, AgentPc
  <2>6. CASE UNCHANGED agent
    BY <1>0, <2>6
  <2> QED
    BY <2>2, <2>3, <2>4, <2>5, <2>6
       DEF Next, Step, vars, moving, Request, StreamStep, SenderStep, OpenSession, AcceptRequest,
           RefuseRequest, AwaitItem, TakeChunk, TakeMark, EndStream, SendChunk, Leave, DropStream,
           FetchTimeout, LateFetch, ReadChunk, PutChunk, IdleTimeout, SlowTransfer
<1> QED BY <1>1, <1>2, <1>3

\* What the clients have is chunks, and endings have a name.
LEMMA HistoryType ==
  ASSUME DInv, [Next]_vars
  PROVE  /\ received' \in [Download -> Seq(Chunk)]
         /\ ending' \in [Download -> {"none", "end", "error", "timeout"}]
<1>0. /\ received \in [Download -> Seq(Chunk)]
      /\ ending \in [Download -> {"none", "end", "error", "timeout"}]
  BY DEF DInv, TypeOK
<1>1. ASSUME NEW d \in Download, TakeMark(d) \/ IdleTimeout(d) \/ SlowTransfer(d)
      PROVE  /\ received' = received
             /\ ending' \in [Download -> {"none", "end", "error", "timeout"}]
  BY <1>0, <1>1 DEF TakeMark, IdleTimeout, SlowTransfer, EndStream
<1>2. ASSUME NEW d \in Download, SendChunk(d), stream[d].item \in Chunk
      PROVE  received' \in [Download -> Seq(Chunk)] /\ ending' = ending
  <2>1. Append(received[d], stream[d].item) \in Seq(Chunk)
    BY <1>0, <1>2, AppendProperties
  <2> QED BY <1>0, <1>2, <2>1 DEF SendChunk
<1>3. CASE UNCHANGED <<received, ending>>
  BY <1>0, <1>3
<1>4. ASSUME NEW d \in Download, SendChunk(d)
      PROVE  stream[d].item \in Chunk
  BY <1>4 DEF SendChunk, DInv, QueuesFit, QueueFits, Live
<1>5. \/ \E d \in Download : TakeMark(d) \/ IdleTimeout(d) \/ SlowTransfer(d) \/ SendChunk(d)
      \/ UNCHANGED <<received, ending>>
  BY DEF Next, Step, vars, moving, history, Request, StreamStep, SenderStep, OpenSession,
         AcceptRequest, RefuseRequest, AwaitItem, TakeChunk, Leave, DropStream, FetchJob,
         FetchTimeout, LateFetch, PushFile, ReadChunk, PutChunk, EndUpload, ReportJob,
         PushFails, ReadFails, AgentLost, ServerRestart
<1> QED BY <1>0, <1>1, <1>2, <1>3, <1>4, <1>5

\* Sessions, counters and the pool.
LEMMA RestType ==
  ASSUME TypeOK, [Next]_vars
  PROVE  /\ sessions' \subseteq Download /\ done' \subseteq Download
         /\ late' \in 0..MaxLate /\ faults' \in 0..Faults /\ pool' \in Pools
<1>0. /\ sessions \subseteq Download /\ done \subseteq Download
      /\ late \in 0..MaxLate /\ faults \in 0..Faults /\ pool \in Pools
  BY DEF TypeOK
<1>1. sessions' \subseteq Download /\ done' \subseteq Download
  BY <1>0
     DEF Next, Step, vars, moving, broker, Request, StreamStep, SenderStep, OpenSession,
         AcceptRequest, RefuseRequest, AwaitItem, TakeChunk, TakeMark, EndStream, SendChunk, Leave,
         DropStream, FetchJob, FetchTimeout, LateFetch, PushFile, ReadChunk, PutChunk, EndUpload,
         Finish, Finished, ReportJob, IdleTimeout, SlowTransfer, PushFails, ReadFails, AgentLost,
         ServerRestart
<1>2. late' \in 0..MaxLate
  <2>1. CASE FetchTimeout
    BY <1>0, <2>1, FaultAssumption DEF FetchTimeout
  <2>2. CASE LateFetch
    BY <1>0, <2>2, FaultAssumption DEF LateFetch
  <2>3. CASE late' \in {0, late}
    BY <1>0, <2>3, FaultAssumption
  <2> QED
    BY <2>1, <2>2, <2>3
       DEF Next, Step, vars, moving, Request, StreamStep, SenderStep, OpenSession,
           AcceptRequest, RefuseRequest, AwaitItem, TakeChunk, TakeMark, EndStream, SendChunk,
           Leave, DropStream, FetchJob, PushFile, ReadChunk, PutChunk, EndUpload, ReportJob,
           IdleTimeout, SlowTransfer, PushFails, ReadFails, AgentLost, ServerRestart
<1>3. faults' \in 0..Faults
  <2>1. CASE Spend
    BY <1>0, <2>1, FaultAssumption DEF Spend
  <2>2. CASE UNCHANGED faults
    BY <1>0, <2>2
  <2> QED
    BY <2>1, <2>2
       DEF Next, Step, vars, moving, Request, StreamStep, SenderStep, OpenSession,
           AcceptRequest, RefuseRequest, AwaitItem, TakeChunk, TakeMark, SendChunk, Leave,
           DropStream, FetchJob, FetchTimeout, LateFetch, PushFile, ReadChunk, PutChunk, EndUpload,
           ReportJob, IdleTimeout, SlowTransfer, PushFails, ReadFails, AgentLost, ServerRestart
<1>4. pool' \in Pools
  BY <1>0 DEF Next, vars
<1> QED BY <1>1, <1>2, <1>3, <1>4

\* TypeOK as a whole.
LEMMA TypeStays ==
  ASSUME DInv, [Next]_vars
  PROVE  TypeOK'
<1>1. TypeOK
  BY DEF DInv
<1> QED
  BY <1>1, QueueType, StreamType, SenderType, JobsType, HistoryType, RestType DEF TypeOK

-----------------------------------------------------------------------------
(* One job, one handler *)

\* A step that queues and takes no job.
LEMMA JobsFrame ==
  ASSUME JobsOnce, jobs' = jobs,
         \A d \in Download :
           /\ Working(d)' => Working(d)
           /\ Pushing(d)' => Pushing(d)
           /\ stream'[d].pc \in {"idle", "open"} => stream[d].pc \in {"idle", "open"}
           /\ Queued(d) \/ Pushing(d)' \/ stream'[d].pc \in {"idle", "open"} => (Fresh(d) => Fresh(d)')
  PROVE  JobsOnce'
<1>1. \A d \in Download : Queued(d)' <=> Queued(d)
  BY DEF Queued
<1> QED BY <1>1 DEF JobsOnce

\* What is fresh stays so while its sender, its queue and what its client has do.
LEMMA FreshStays ==
  ASSUME NEW d \in Download, Fresh(d), sender'[d] = sender[d], queue'[d] = queue[d],
         d \notin done', received' = received, stream'[d].pc # "send"
  PROVE  Fresh(d)'
BY DEF Fresh

\* The queue of jobs without its head.
LEMMA RestOfJobs ==
  ASSUME TypeOK, JobsOnce, jobs # <<>>, jobs' = Tail(jobs)
  PROVE  /\ Head(jobs) \in Download /\ Queued(Head(jobs))
         /\ \A i, j \in 1..Len(jobs') : jobs'[i] = jobs'[j] => i = j
         /\ \A d \in Download : Queued(d)' <=> Queued(d) /\ d # Head(jobs)
<1>1. jobs \in Seq(Download) /\ Len(jobs) \in Nat
  BY DEF TypeOK
<1>2. /\ Head(jobs) \in Download /\ Len(jobs') = Len(jobs) - 1 /\ Head(jobs) = jobs[1]
      /\ \A i \in 1..Len(jobs') : jobs'[i] = jobs[i + 1]
  BY <1>1, HeadTailProperties
<1>3. Len(jobs) > 0
  BY <1>1, <1>2, EmptySeq
<1>4. \A i, j \in 1..Len(jobs) : jobs[i] = jobs[j] => i = j
  BY DEF JobsOnce
<1>5. Queued(Head(jobs))
  BY <1>1, <1>2, <1>3 DEF Queued
<1>6. \A i, j \in 1..Len(jobs') : jobs'[i] = jobs'[j] => i = j
  <2> TAKE i, j \in 1..Len(jobs')
  <2> HAVE jobs'[i] = jobs'[j]
  <2>1. i + 1 \in 1..Len(jobs) /\ j + 1 \in 1..Len(jobs) /\ jobs[i + 1] = jobs[j + 1]
    BY <1>1, <1>2
  <2> QED BY <1>4, <2>1
<1>7. ASSUME NEW d \in Download
      PROVE  Queued(d)' <=> Queued(d) /\ d # Head(jobs)
  <2>1. ASSUME NEW i \in 1..Len(jobs'), jobs'[i] = d
        PROVE  Queued(d) /\ d # Head(jobs)
    <3>1. i + 1 \in 1..Len(jobs) /\ 1 \in 1..Len(jobs) /\ jobs[i + 1] = d /\ i + 1 # 1
      BY <1>1, <1>2, <1>3, <2>1
    <3> QED BY <1>2, <1>4, <3>1 DEF Queued
  <2>2. ASSUME NEW i \in 1..Len(jobs), jobs[i] = d, d # Head(jobs)
        PROVE  Queued(d)'
    <3>1. i # 1
      BY <1>2, <2>2
    <3>2. i - 1 \in 1..Len(jobs') /\ (i - 1) + 1 = i
      BY <1>1, <1>2, <3>1
    <3>3. jobs'[i - 1] = d
      BY <1>2, <2>2, <3>2
    <3> QED BY <3>2, <3>3 DEF Queued
  <2> QED BY <2>1, <2>2 DEF Queued
<1> QED BY <1>2, <1>5, <1>6, <1>7

\* The job of a new download is none of those in the queue.
LEMMA NewJob ==
  ASSUME TypeOK, JobsOnce, NEW e \in Download, ~ Queued(e), jobs' = Append(jobs, e)
  PROVE  /\ \A i, j \in 1..Len(jobs') : jobs'[i] = jobs'[j] => i = j
         /\ \A d \in Download : Queued(d)' <=> Queued(d) \/ d = e
<1>1. jobs \in Seq(Download) /\ Len(jobs) \in Nat
  BY DEF TypeOK
<1>2. /\ Len(jobs') = Len(jobs) + 1 /\ jobs'[Len(jobs) + 1] = e
      /\ \A i \in 1..Len(jobs) : jobs'[i] = jobs[i]
  BY <1>1, AppendProperties
<1>3. \A i \in 1..Len(jobs) : jobs[i] # e
  BY DEF Queued
<1>4. \A i \in 1..Len(jobs') : i \in 1..Len(jobs) \/ i = Len(jobs) + 1
  BY <1>1, <1>2
<1>5. 1..Len(jobs) \subseteq 1..Len(jobs') /\ Len(jobs) + 1 \in 1..Len(jobs')
  BY <1>1, <1>2
<1>6. \A i, j \in 1..Len(jobs) : jobs[i] = jobs[j] => i = j
  BY DEF JobsOnce
<1>7. \A i, j \in 1..Len(jobs') : jobs'[i] = jobs'[j] => i = j
  BY <1>2, <1>3, <1>4, <1>6
<1>8. \A d \in Download : Queued(d)' <=> Queued(d) \/ d = e
  BY <1>2, <1>4, <1>5 DEF Queued
<1> QED BY <1>7, <1>8

\* Requests and streams.
LEMMA JobsStream ==
  ASSUME DInv, NEW e \in Download,
         \/ OpenSession(e) \/ RefuseRequest(e) \/ AwaitItem(e) \/ TakeChunk(e) \/ TakeMark(e)
         \/ SendChunk(e) \/ Leave(e) \/ DropStream(e) \/ IdleTimeout(e) \/ SlowTransfer(e)
  PROVE  JobsOnce'
<1>0. JobsOnce /\ stream \in [Download -> Stream] /\ queue \in [Download -> Seq(Item)]
  BY DEF DInv, TypeOK
<1>1. /\ jobs' = jobs /\ agent' = agent /\ sender' = sender /\ done' = done
      /\ \A d \in Download : d # e => stream'[d] = stream[d] /\ queue'[d] = queue[d] /\ received'[d] = received[d]
  <2>1. CASE OpenSession(e) \/ RefuseRequest(e) \/ AwaitItem(e)
    BY <1>0, <2>1 DEF OpenSession, RefuseRequest, AwaitItem, Move, broker, history
  <2>5. CASE Leave(e)
    <3>1. \E s : stream' = [stream EXCEPT ![e] = s]
      BY <1>0, <2>5 DEF Leave
    <3> QED BY <1>0, <2>5, <3>1 DEF Leave, broker, history
  <2>6. CASE DropStream(e)
    <3>1. \E s : stream' = [stream EXCEPT ![e] = s]
      BY <1>0, <2>6 DEF DropStream
    <3> QED BY <1>0, <2>6, <3>1 DEF DropStream, broker, history
  <2>2. CASE TakeChunk(e)
    <3>1. \E s : stream' = [stream EXCEPT ![e] = s]
      BY <1>0, <2>2 DEF TakeChunk
    <3> QED BY <1>0, <2>2, <3>1 DEF TakeChunk, history
  <2>7. CASE SendChunk(e)
    <3>1. \E s : stream' = [stream EXCEPT ![e] = s]
      BY <1>0, <2>7 DEF SendChunk
    <3> QED BY <1>0, <2>7, <3>1 DEF SendChunk, broker
  <2>3. CASE TakeMark(e)
    BY <1>0, <2>3 DEF TakeMark, EndStream, Move
  <2>4. CASE IdleTimeout(e) \/ SlowTransfer(e)
    BY <1>0, <2>4 DEF IdleTimeout, SlowTransfer, EndStream, Move
  <2> QED BY <2>1, <2>2, <2>3, <2>4, <2>5, <2>6, <2>7
<1>2. /\ stream'[e].pc \in {"idle", "open"} => stream[e].pc \in {"idle", "open"}
      /\ Fresh(e) => Fresh(e)'
  <2>1. CASE OpenSession(e) \/ RefuseRequest(e) \/ AwaitItem(e)
    BY <1>0, <1>1, <2>1 DEF OpenSession, RefuseRequest, AwaitItem, Move, broker, history, Fresh, Stream
  <2>2. CASE TakeChunk(e)
    BY <1>0, <2>2 DEF TakeChunk, Fresh, Stream
  <2>3. CASE TakeMark(e)
    BY <1>0, <2>3 DEF TakeMark, EndStream, Move, Fresh, Stream
  <2>4. CASE SendChunk(e)
    BY <1>0, <2>4 DEF SendChunk, Fresh, Stream
  <2>5. CASE Leave(e) \/ DropStream(e)
    BY <1>0, <1>1, <2>5 DEF Leave, DropStream, broker, history, Fresh, Stream
  <2>6. CASE IdleTimeout(e) \/ SlowTransfer(e)
    BY <1>0, <1>1, <2>6 DEF IdleTimeout, SlowTransfer, EndStream, Move, Fresh, Stream
  <2> QED BY <2>1, <2>2, <2>3, <2>4, <2>5, <2>6
<1>3. \A d \in Download : Fresh(d) => Fresh(d)'
  BY <1>1, <1>2 DEF Fresh
<1>4. \A d \in Download : (Working(d)' <=> Working(d)) /\ (Pushing(d)' <=> Pushing(d))
  BY <1>1 DEF Working, Pushing
<1> QED BY <1>0, <1>1, <1>2, <1>3, <1>4, JobsFrame

\* The handlers.
LEMMA JobsSender ==
  ASSUME DInv, NEW e \in Download,
         PushFile(e) \/ ReadChunk(e) \/ PutChunk(e) \/ EndUpload(e) \/ ReadFails(e) \/ PushFails(e)
  PROVE  JobsOnce'
<1>0. /\ JobsOnce /\ sender \in [Download -> Sender] /\ queue \in [Download -> Seq(Item)]
      /\ agent \in [pc : AgentPc, job : SUBSET Download]
  BY DEF DInv, TypeOK
<1>1. /\ jobs' = jobs /\ stream' = stream /\ received' = received
      /\ \A d \in Download : d # e => /\ sender'[d] = sender[d] /\ queue'[d] = queue[d]
                                      /\ d \in done' => d \in done
  BY <1>0 DEF PushFile, ReadChunk, PutChunk, EndUpload, ReadFails, PushFails, Finish, Finished, Return,
              broker, history
<1>2. /\ agent'.job = agent.job /\ (agent'.pc = "push" => agent.pc = "push" /\ agent' = agent)
  BY <1>0 DEF PushFile, ReadChunk, PutChunk, EndUpload, ReadFails, PushFails, Return
<1>3. \A d \in Download : (Working(d)' => Working(d)) /\ (Pushing(d)' => Pushing(d))
  BY <1>2 DEF Working, Pushing
<1>4. \A d \in Download : d # e /\ Fresh(d) => Fresh(d)'
  BY <1>1 DEF Fresh
<1>5. CASE PushFile(e)
  <2>1. Working(e) /\ ~ Pushing(e)'
    BY <1>0, <1>5 DEF PushFile, Pushing
  <2>2. ~ Queued(e) /\ stream[e].pc \notin {"idle", "open"}
    BY <1>0, <2>1 DEF JobsOnce
  <2> QED BY <1>0, <1>1, <1>3, <1>4, <2>1, <2>2, JobsFrame
<1>6. CASE PushFails(e)
  <2>1. Fresh(e) => Fresh(e)'
    BY <1>1, <1>6 DEF PushFails, Fresh, broker
  <2> QED BY <1>0, <1>1, <1>3, <1>4, <2>1, JobsFrame
<1>7. CASE ReadChunk(e) \/ PutChunk(e) \/ EndUpload(e) \/ ReadFails(e)
  <2>1. ~ Fresh(e)
    BY <1>7, Numbers DEF ReadChunk, PutChunk, EndUpload, ReadFails, CanRead, Fresh
  <2> QED BY <1>0, <1>1, <1>3, <1>4, <2>1, JobsFrame
<1> QED BY <1>5, <1>6, <1>7

\* JobsOnce as a whole.
LEMMA JobsStay ==
  ASSUME DInv, [Next]_vars
  PROVE  JobsOnce'
<1>0. TypeOK /\ JobsOnce /\ stream \in [Download -> Stream] /\ agent \in [pc : AgentPc, job : SUBSET Download]
  BY DEF DInv, TypeOK
<1>1. ASSUME NEW e \in Download, AcceptRequest(e)
      PROVE  JobsOnce'
  <2>1. /\ Fresh(e) /\ ~ Queued(e) /\ ~ Working(e) /\ jobs' = Append(jobs, e)
        /\ agent' = agent /\ stream' = [stream EXCEPT ![e].pc = "want"]
        /\ UNCHANGED <<queue, done, sender, received>>
    BY <1>0, <1>1 DEF AcceptRequest, Move, JobsOnce, broker, history
  <2>2. /\ \A i, j \in 1..Len(jobs') : jobs'[i] = jobs'[j] => i = j
        /\ \A d \in Download : Queued(d)' <=> Queued(d) \/ d = e
    BY <1>0, <2>1, NewJob
  <2>3. \A d \in Download : /\ (Fresh(d) => Fresh(d)') /\ (Working(d)' <=> Working(d))
                            /\ (Pushing(d)' <=> Pushing(d))
                            /\ stream'[d].pc \in {"idle", "open"} => d # e /\ stream'[d].pc = stream[d].pc
    BY <1>0, <2>1 DEF Fresh, Working, Pushing, Stream
  <2> QED BY <1>0, <2>1, <2>2, <2>3 DEF JobsOnce
<1>2. CASE FetchJob \/ (LateFetch /\ jobs # <<>>)
  <2>1. /\ jobs # <<>> /\ jobs' = Tail(jobs)
        /\ UNCHANGED <<queue, done, sender, received, stream>>
    BY <1>2 DEF FetchJob, LateFetch, broker, history
  <2>2. /\ Head(jobs) \in Download /\ Queued(Head(jobs))
        /\ \A i, j \in 1..Len(jobs') : jobs'[i] = jobs'[j] => i = j
        /\ \A d \in Download : Queued(d)' <=> Queued(d) /\ d # Head(jobs)
    BY <1>0, <2>1, RestOfJobs
  <2>3. \A d \in Download : (Fresh(d) <=> Fresh(d)')
    BY <2>1 DEF Fresh
  <2>4. \/ agent' = agent
        \/ agent' = [pc |-> "push", job |-> {Head(jobs)}]
    BY <1>2 DEF FetchJob, LateFetch
  <2>5. \A d \in Download : /\ Working(d)' => Working(d) \/ d = Head(jobs)
                            /\ Pushing(d)' => Pushing(d) \/ d = Head(jobs)
    BY <2>4 DEF Working, Pushing
  <2>6. \A d \in Download : stream'[d].pc = stream[d].pc
    BY <2>1
  <2> QED BY <1>0, <2>2, <2>3, <2>5, <2>6 DEF JobsOnce
<1>3. CASE FetchTimeout \/ (LateFetch /\ jobs = <<>>) \/ ReportJob \/ AgentLost \/ UNCHANGED vars
  <2>1. /\ UNCHANGED <<jobs, queue, done, sender, received, stream>>
        /\ agent' = agent \/ agent' = Loop
    BY <1>3 DEF FetchTimeout, LateFetch, ReportJob, AgentLost, vars, moving, broker, history
  <2>2. \A d \in Download : (Working(d)' => Working(d)) /\ (Pushing(d)' => Pushing(d))
    BY <2>1, Numbers DEF Working, Pushing
  <2>3. \A d \in Download : (Fresh(d) => Fresh(d)') /\ stream'[d].pc = stream[d].pc
    BY <2>1 DEF Fresh
  <2> QED BY <1>0, <2>1, <2>2, <2>3, JobsFrame
<1>4. CASE ServerRestart
  <2>1. /\ UNCHANGED <<jobs, queue, done, received>>
        /\ agent'.job = agent.job /\ (agent'.pc = "push" => agent.pc = "push")
        /\ \A d \in Download : /\ sender'[d] = NoSender
                               /\ stream'[d].pc \notin {"open", "send"}
                               /\ stream'[d].pc = "idle" => stream[d].pc = "idle"
    BY <1>0, <1>4 DEF ServerRestart, history
  <2>2. \A d \in Download : (Working(d)' => Working(d)) /\ (Pushing(d)' => Pushing(d))
    BY <2>1 DEF Working, Pushing
  <2>3. \A d \in Download : (Fresh(d) => Fresh(d)')
    BY <2>1 DEF Fresh
  <2> QED BY <1>0, <2>1, <2>2, <2>3, JobsFrame
<1>5. ASSUME NEW e \in Download,
             \/ OpenSession(e) \/ RefuseRequest(e) \/ AwaitItem(e) \/ StreamStep(e)
             \/ Leave(e) \/ IdleTimeout(e) \/ SlowTransfer(e)
      PROVE  JobsOnce'
  BY <1>5, JobsStream DEF StreamStep
<1>6. ASSUME NEW e \in Download, PushFile(e) \/ SenderStep(e) \/ ReadFails(e) \/ PushFails(e)
      PROVE  JobsOnce'
  BY <1>6, JobsSender DEF SenderStep
<1>7. CASE LateFetch
  BY <1>2, <1>3, <1>7
<1>8. ASSUME NEW e \in Download,
             \/ OpenSession(e) \/ Request(e) \/ Leave(e)
             \/ AwaitItem(e) \/ StreamStep(e) \/ IdleTimeout(e)
             \/ PushFile(e) \/ SenderStep(e)
             \/ PushFails(e) \/ ReadFails(e) \/ SlowTransfer(e)
      PROVE  JobsOnce'
  BY <1>1, <1>5, <1>6, <1>8 DEF Request
<1>9. Step \/ UNCHANGED vars
  BY DEF Next
<1>10. CASE Step
  BY <1>2, <1>3, <1>4, <1>7, <1>8, <1>10 DEF Step
<1> QED BY <1>3, <1>9, <1>10

\* The agent has one job and waits for one handler.
LEMMA AgentStays ==
  ASSUME DInv, [Next]_vars
  PROVE  AgentWaits'
<1>0. /\ AgentWaits /\ sender \in [Download -> Sender] /\ jobs \in Seq(Download)
      /\ agent \in [pc : AgentPc, job : SUBSET Download]
  BY DEF DInv, TypeOK
<1>1. CASE FetchJob
  <2>1. Head(jobs) \in Download /\ agent' = [pc |-> "push", job |-> {Head(jobs)}]
    BY <1>0, <1>1, HeadTailProperties DEF FetchJob
  <2> QED BY <2>1 DEF AgentWaits, Working
<1>2. CASE ReportJob \/ AgentLost
  BY <1>2, Numbers DEF ReportJob, AgentLost, AgentWaits
<1>3. ASSUME NEW e \in Download, PushFile(e)
      PROVE  AgentWaits'
  <2>1. /\ agent'.pc = "send" /\ agent'.job = agent.job /\ agent.job = {e} /\ sender'[e].pc = "read"
    BY <1>0, <1>3 DEF PushFile, Working
  <2> QED BY <2>1 DEF AgentWaits, Working
<1>4. ASSUME NEW e \in Download, PushFails(e)
      PROVE  AgentWaits'
  BY <1>0, <1>4 DEF PushFails, AgentWaits, Working
<1>5. ASSUME NEW e \in Download, ReadChunk(e) \/ PutChunk(e)
      PROVE  AgentWaits'
  <2>1. agent' = agent /\ \A d \in Download : sender[d].pc # "idle" => sender'[d].pc # "idle"
    BY <1>0, <1>5 DEF ReadChunk, PutChunk, Sender
  <2> QED BY <1>0, <2>1 DEF AgentWaits, Working
<1>6. ASSUME NEW e \in Download, EndUpload(e) \/ ReadFails(e)
      PROVE  AgentWaits'
  <2>1. /\ \A d \in Download : d # e => sender'[d] = sender[d]
        /\ agent'.job = agent.job
        /\ agent'.pc # "fetch" => agent.pc # "fetch"
        /\ agent'.pc = "send" => agent.pc = "send" /\ ~ Working(e)
    BY <1>0, <1>6 DEF EndUpload, ReadFails, Return
  <2> QED BY <1>0, <2>1 DEF AgentWaits, Working
<1>7. CASE ServerRestart
  <2>1. /\ agent'.pc # "send" /\ agent'.job = agent.job /\ (agent'.pc # "fetch" => agent.pc # "fetch")
    BY <1>0, <1>7 DEF ServerRestart
  <2> QED BY <1>0, <2>1 DEF AgentWaits, Working
<1>8. CASE UNCHANGED <<agent, sender>>
  BY <1>0, <1>8 DEF AgentWaits, Working
<1> QED
  BY <1>1, <1>2, <1>3, <1>4, <1>5, <1>6, <1>7, <1>8
     DEF Next, Step, vars, moving, Request, StreamStep, SenderStep, OpenSession, AcceptRequest,
         RefuseRequest, AwaitItem, TakeChunk, TakeMark, EndStream, SendChunk, Leave, DropStream,
         FetchTimeout, LateFetch, IdleTimeout, SlowTransfer

\* A handler works on a session that is not done.
LEMMA SendersStay ==
  ASSUME DInv, [Next]_vars
  PROVE  SendersFit'
<1>0. /\ SendersFit /\ JobsOnce /\ sender \in [Download -> Sender] /\ Chunks \in Nat
      /\ done \subseteq Download
  BY Numbers DEF DInv, TypeOK
<1>1. ASSUME NEW e \in Download, PushFile(e)
      PROVE  SendersFit'
  <2>1. Fresh(e)
    BY <1>0, <1>1 DEF PushFile, JobsOnce, Pushing
  <2> QED BY <1>0, <1>1, <2>1 DEF PushFile, SendersFit, Fresh, broker
<1>2. ASSUME NEW e \in Download, ReadChunk(e)
      PROVE  SendersFit'
  <2>1. sender[e].next \in Chunk
    BY <1>0, <1>2 DEF ReadChunk, Rest, Chunk, Sender
  <2>2. done' = done /\ sender' = [sender EXCEPT ![e].pc = "put"] /\ sender[e].pc # "idle"
    BY <1>2 DEF ReadChunk, CanRead, broker
  <2> QED BY <1>0, <2>1, <2>2 DEF SendersFit, Sender
<1>3. ASSUME NEW e \in Download, PutChunk(e)
      PROVE  SendersFit'
  BY <1>0, <1>3 DEF PutChunk, SendersFit
<1>4. ASSUME NEW e \in Download, EndUpload(e) \/ ReadFails(e)
      PROVE  SendersFit'
  <2>1. /\ \A d \in Download : d # e => sender'[d] = sender[d] /\ (d \in done' => d \in done)
        /\ sender'[e].pc = "idle"
    BY <1>0, <1>4, Numbers DEF EndUpload, ReadFails, Return, Finish, Finished
  <2> QED BY <1>0, <2>1 DEF SendersFit
<1>5. CASE ServerRestart
  BY <1>5, Numbers DEF ServerRestart, SendersFit
<1>6. CASE UNCHANGED <<sender, done>>
  BY <1>0, <1>6 DEF SendersFit
<1> QED
  BY <1>1, <1>2, <1>3, <1>4, <1>5, <1>6
     DEF Next, Step, vars, moving, broker, Request, StreamStep, SenderStep, OpenSession, AcceptRequest,
         RefuseRequest, AwaitItem, TakeChunk, TakeMark, EndStream, SendChunk, Leave, DropStream,
         FetchJob, FetchTimeout, LateFetch, ReportJob, IdleTimeout, SlowTransfer, PushFails, AgentLost

\* A thread is taken only where one is free.
LEMMA PoolStays ==
  ASSUME DInv, [Next]_vars
  PROVE  PoolHolds'
<1>0. PoolHolds /\ stream \in [Download -> Stream] /\ pool \in Nat /\ pool' = pool
  BY PoolAssumption DEF DInv, TypeOK, Next, vars
<1>1. ASSUME NEW e \in Download, OpenSession(e) \/ AwaitItem(e)
      PROVE  PoolHolds'
  <2>1. Holding' \subseteq Holding \cup {e} /\ Cardinality(Holding) < pool
    BY <1>0, <1>1 DEF OpenSession, AwaitItem, Move, Holding, ThreadFree, Stream
  <2>2. IsFiniteSet(Holding \cup {e}) /\ Cardinality(Holding \cup {e}) <= Cardinality(Holding) + 1
    BY <1>0, FS_AddElement, FS_CardinalityType DEF PoolHolds
  <2>3. IsFiniteSet(Holding') /\ Cardinality(Holding') <= Cardinality(Holding \cup {e})
    BY <2>1, <2>2, FS_Subset
  <2>4. Cardinality(Holding) \in Nat /\ Cardinality(Holding \cup {e}) \in Nat /\ Cardinality(Holding') \in Nat
    BY <1>0, <2>2, <2>3, FS_CardinalityType DEF PoolHolds
  <2> QED BY <1>0, <2>1, <2>2, <2>3, <2>4 DEF PoolHolds
<1>2. CASE Holding' \subseteq Holding
  <2>1. IsFiniteSet(Holding') /\ Cardinality(Holding') <= Cardinality(Holding)
    BY <1>0, <1>2, FS_Subset DEF PoolHolds
  <2>2. Cardinality(Holding) \in Nat /\ Cardinality(Holding') \in Nat
    BY <1>0, <2>1, FS_CardinalityType DEF PoolHolds
  <2> QED BY <1>0, <2>1, <2>2 DEF PoolHolds
<1>3. ASSUME NEW e \in Download,
             \/ Request(e) \/ Leave(e) \/ StreamStep(e) \/ IdleTimeout(e) \/ SlowTransfer(e)
      PROVE  Holding' \subseteq Holding
  <2>1. \A d \in Download : stream'[d].pc \in {"open", "get"} => stream[d].pc \in {"open", "get"}
    <3>1. CASE Request(e)
      BY <1>0, <3>1 DEF Request, AcceptRequest, RefuseRequest, Move, Stream
    <3>2. CASE Leave(e)
      <4>1. \A d \in Download : stream'[d].pc = stream[d].pc
        BY <1>0, <3>2 DEF Leave, Stream
      <4> QED BY <4>1
    <3>3. CASE TakeMark(e) \/ IdleTimeout(e) \/ SlowTransfer(e)
      BY <1>0, <3>3 DEF TakeMark, IdleTimeout, SlowTransfer, EndStream, Move, Stream
    <3>4. CASE TakeChunk(e) \/ SendChunk(e) \/ DropStream(e)
      <4>1. \E s : stream' = [stream EXCEPT ![e] = s] /\ s.pc \in {"want", "send", "left"}
        BY <1>0, <3>4 DEF TakeChunk, SendChunk, DropStream, Stream
      <4> QED BY <1>0, <4>1
    <3> QED BY <1>3, <3>1, <3>2, <3>3, <3>4 DEF StreamStep
  <2> QED BY <2>1 DEF Holding
<1>4. CASE ServerRestart \/ UNCHANGED stream
  <2>1. \A d \in Download : stream'[d].pc \in {"open", "get"} => stream[d].pc \in {"open", "get"}
    BY <1>0, <1>4 DEF ServerRestart
  <2>2. Holding' \subseteq Holding
    BY <2>1 DEF Holding
  <2> QED BY <1>2, <2>2
<1> QED
  BY <1>1, <1>2, <1>3, <1>4
     DEF Next, Step, vars, moving, SenderStep, FetchJob, FetchTimeout, LateFetch, PushFile,
         ReadChunk, PutChunk, EndUpload, ReportJob, PushFails, ReadFails, AgentLost

\* What a client has got only grows by the chunk after it.
LEMMA BeginningsStay ==
  ASSUME DInv, [Next]_vars
  PROVE  Beginnings'
<1>0. /\ Beginnings /\ QueuesFit /\ stream \in [Download -> Stream] /\ Chunks \in Nat
      /\ received \in [Download -> Seq(Chunk)] /\ queue \in [Download -> Seq(Item)]
      /\ ending \in [Download -> {"none", "end", "error", "timeout"}]
  BY Numbers DEF DInv, TypeOK
<1>1. ASSUME NEW e \in Download, SendChunk(e)
      PROVE  Beginnings'
  <2>1. stream[e].pc = "send" /\ stream[e].item = Len(received[e]) + 1 /\ stream[e].item \in Chunk
    BY <1>0, <1>1 DEF SendChunk, QueuesFit, QueueFits, Live, Got
  <2>2. /\ received' = [received EXCEPT ![e] = Append(received[e], stream[e].item)]
        /\ ending' = ending
        /\ \A d \in Download : d # e => stream'[d] = stream[d]
    BY <1>0, <1>1 DEF SendChunk
  <2>3. \A i \in 1..Len(received'[e]) : received'[e][i] = i
    <3>1. received[e] \in Seq(Chunk) /\ received'[e] = Append(received[e], stream[e].item)
      BY <1>0, <2>2
    <3>2. /\ Len(received'[e]) = Len(received[e]) + 1 /\ Len(received[e]) \in Nat
          /\ received'[e][Len(received[e]) + 1] = stream[e].item
          /\ \A i \in 1..Len(received[e]) : received'[e][i] = received[e][i]
      BY <2>1, <3>1, AppendProperties, LenProperties
    <3>3. \A i \in 1..Len(received[e]) : received[e][i] = i
      BY <1>0 DEF Beginnings
    <3> QED BY <2>1, <3>2, <3>3
  <2>4. ending[e] # "end"
    BY <1>0, <2>1 DEF Beginnings
  <2> QED BY <1>0, <2>2, <2>3, <2>4 DEF Beginnings
<1>2. ASSUME NEW e \in Download, TakeMark(e) \/ IdleTimeout(e) \/ SlowTransfer(e)
      PROVE  Beginnings'
  <2>1. /\ received' = received /\ stream'[e].pc = "ended"
        /\ \A d \in Download : d # e => stream'[d] = stream[d] /\ ending'[d] = ending[d]
    BY <1>0, <1>2 DEF TakeMark, IdleTimeout, SlowTransfer, EndStream, Move, Stream
  <2>2. ASSUME ending'[e] = "end"
        PROVE  Len(received[e]) = Chunks
    <3>1. TakeMark(e) /\ queue[e] # <<>> /\ Head(queue[e]) = End /\ stream[e].pc = "get"
      BY <1>0, <1>2, <2>2 DEF TakeMark, IdleTimeout, SlowTransfer, EndStream
    <3>2. 1 \in 1..Len(queue[e]) /\ queue[e][1] = End
      BY <1>0, <3>1, EmptySeq
    <3>3. Got(e) + 1 = Chunks + 1 /\ Got(e) = Len(received[e]) + 0
      BY <1>0, <3>1, <3>2 DEF QueuesFit, QueueFits, Live, InOrder, Got
    <3> QED BY <1>0, <3>3, LenProperties
  <2> QED BY <1>0, <2>1, <2>2 DEF Beginnings
<1>3. ASSUME received' = received, ending' = ending,
             \A d \in Download : stream[d].pc = "ended" => stream'[d].pc = "ended"
      PROVE  Beginnings'
  BY <1>0, <1>3 DEF Beginnings
<1>4. ASSUME NEW e \in Download,
             OpenSession(e) \/ Request(e) \/ AwaitItem(e) \/ Leave(e) \/ TakeChunk(e) \/ DropStream(e)
      PROVE  Beginnings'
  <2>1. received' = received /\ ending' = ending /\ \E s : stream' = [stream EXCEPT ![e] = s]
    <3>1. CASE OpenSession(e) \/ Request(e) \/ AwaitItem(e)
      BY <1>0, <3>1 DEF OpenSession, Request, AcceptRequest, RefuseRequest, AwaitItem, Move, history
    <3>2. CASE Leave(e) \/ TakeChunk(e) \/ DropStream(e)
      BY <1>0, <3>2 DEF Leave, TakeChunk, DropStream, history
    <3> QED BY <1>4, <3>1, <3>2
  <2>2. stream[e].pc # "ended"
    BY <1>4 DEF OpenSession, Request, AcceptRequest, RefuseRequest, AwaitItem, Leave, TakeChunk, DropStream
  <2> QED BY <1>0, <1>3, <2>1, <2>2
<1>5. CASE ServerRestart
  BY <1>0, <1>3, <1>5 DEF ServerRestart, history
<1>6. CASE UNCHANGED <<stream, received, ending>>
  BY <1>3, <1>6
<1> QED
  BY <1>1, <1>2, <1>4, <1>5, <1>6
     DEF Next, Step, vars, moving, history, StreamStep, SenderStep, FetchJob, FetchTimeout, LateFetch,
         PushFile, ReadChunk, PutChunk, EndUpload, ReportJob, PushFails, ReadFails, AgentLost

-----------------------------------------------------------------------------
(* The queues *)

\* A step that leaves the queue of a download and what was taken from it.
LEMMA QueueKept ==
  ASSUME NEW d \in Download, Live(d) => QueueFits(d), Live(d)' => Live(d),
         queue'[d] = queue[d], Got(d)' = Got(d),
         d \in sessions => d \in sessions', d \in done' <=> d \in done,
         sender'[d].pc # "idle" => sender[d].pc # "idle" /\ sender'[d].next = sender[d].next,
         stream'[d].pc = "send" => stream[d].pc = "send" /\ stream'[d].item = stream[d].item,
         Live(d)' /\ stream'[d].pc # "open" => Placed(d)'
  PROVE  Live(d)' => QueueFits(d)'
<1> SUFFICES ASSUME Live(d)' PROVE QueueFits(d)'
  OBVIOUS
<1>1. QueueFits(d)
  OBVIOUS
<1>2. InOrder(d)'
  BY <1>1 DEF QueueFits, InOrder
<1>3. Marked(d)' <=> Marked(d)
  BY DEF Marked
<1> QED BY <1>1, <1>2, <1>3 DEF QueueFits

\* The step of one download leaves the others' queues.
LEMMA QueueElsewhere ==
  ASSUME DInv, NEW d \in Download, stream'[d] = stream[d], queue'[d] = queue[d],
         sender'[d] = sender[d], received'[d] = received[d],
         d \in sessions => d \in sessions', d \in done' <=> d \in done,
         Placed(d) => Placed(d)'
  PROVE  Live(d)' => QueueFits(d)'
<1>1. Live(d) => QueueFits(d)
  BY DEF DInv, QueuesFit
<1>2. (Live(d)' => Live(d)) /\ Got(d)' = Got(d)
  BY DEF Live, Got
<1>3. Live(d)' /\ stream'[d].pc # "open" => Placed(d)'
  BY <1>1, <1>2 DEF QueueFits
<1> QED BY <1>1, <1>2, <1>3, QueueKept

\* Where the job of a download is while neither the jobs nor the agent move.
LEMMA PlaceKept ==
  ASSUME NEW d \in Download, jobs' = jobs, agent' = agent,
         d \in done => d \in done', d \in dropped => d \in dropped',
         sender[d].pc # "idle" => sender'[d].pc # "idle" \/ d \in done'
  PROVE  Placed(d) => Placed(d)'
BY DEF Placed, Queued, Pushing, Working

\* What leaving, sending and dropping do to a stream.
LEMMA StreamMoves ==
  ASSUME TypeOK, NEW e \in Download
  PROVE  /\ Leave(e) => \E s : /\ stream' = [stream EXCEPT ![e] = s]
                               /\ s.pc = stream[e].pc /\ s.item = stream[e].item
         /\ SendChunk(e) => \E s : stream' = [stream EXCEPT ![e] = s] /\ s.pc = "want"
         /\ DropStream(e) => \E s : stream' = [stream EXCEPT ![e] = s] /\ s.pc = "left"
<1>0. stream \in [Download -> Stream] /\ stream[e] \in Stream
  BY DEF TypeOK
<1> DEFINE s1 == [stream[e] EXCEPT !.gone = TRUE]
           s2(pc) == [stream[e] EXCEPT !.pc = pc, !.item = 0]
<1>1. s1.pc = stream[e].pc /\ s1.item = stream[e].item
  BY <1>0 DEF Stream
<1>2. s2("want").pc = "want" /\ s2("left").pc = "left"
  BY <1>0 DEF Stream
<1>3. /\ Leave(e) => stream' = [stream EXCEPT ![e] = s1]
      /\ SendChunk(e) => stream' = [stream EXCEPT ![e] = s2("want")]
      /\ DropStream(e) => stream' = [stream EXCEPT ![e] = s2("left")]
  BY <1>0 DEF Leave, SendChunk, DropStream
<1> HIDE DEF s1, s2
<1> QED BY <1>1, <1>2, <1>3

\* A new request: nothing is in the queue.
LEMMA QueueRequest ==
  ASSUME DInv, NEW e \in Download, OpenSession(e) \/ Request(e) \/ AwaitItem(e) \/ Leave(e)
  PROVE  QueuesFit'
<1>0. /\ QueuesFit /\ JobsOnce /\ TypeOK /\ stream \in [Download -> Stream]
      /\ received \in [Download -> Seq(Chunk)]
  BY DEF DInv, TypeOK
<1>1. /\ UNCHANGED <<queue, done, sender, agent, received, dropped>>
      /\ sessions \subseteq sessions'
      /\ \A d \in Download : d # e => stream'[d] = stream[d]
      /\ stream'[e].item = stream[e].item
  <2>1. CASE OpenSession(e) \/ Request(e) \/ AwaitItem(e)
    BY <1>0, <2>1 DEF OpenSession, Request, AcceptRequest, RefuseRequest, AwaitItem, Move, broker, history,
                      Stream
  <2>2. CASE Leave(e)
    <3>1. \E s : stream' = [stream EXCEPT ![e] = s] /\ s.item = stream[e].item
      BY <1>0, <2>2, StreamMoves
    <3> QED BY <1>0, <2>2, <3>1 DEF Leave, broker, history
  <2> QED BY <2>1, <2>2
<1>2. \A d \in Download : Queued(d) => Queued(d)'
  <2>1. CASE AcceptRequest(e)
    <3>1. ~ Queued(e) /\ jobs' = Append(jobs, e)
      BY <1>0, <2>1 DEF AcceptRequest, JobsOnce
    <3> QED BY <1>0, <3>1, NewJob
  <2>2. jobs' = jobs => \A d \in Download : Queued(d) => Queued(d)'
    BY DEF Queued
  <2> QED BY <2>1, <2>2 DEF OpenSession, Request, RefuseRequest, AwaitItem, Leave
<1>3. \A d \in Download : Placed(d) => Placed(d)'
  BY <1>1, <1>2 DEF Placed, Pushing, Working
<1>4. \A d \in Download : d # e => (Live(d)' => QueueFits(d)')
  BY <1>1, <1>3, QueueElsewhere
<1>5. Live(e)' => QueueFits(e)'
  <2>1. CASE OpenSession(e)
    <3>1. /\ Fresh(e) /\ queue'[e] = <<>> /\ e \notin done' /\ sender'[e] = NoSender
          /\ stream'[e].pc = "open" /\ e \in sessions'
      BY <1>0, <1>1, <2>1 DEF OpenSession, JobsOnce, Fresh, Move, Stream
    <3>2. InOrder(e)'
      BY <3>1, EmptySeq DEF InOrder
    <3> QED BY <3>1, <3>2, Numbers DEF QueueFits
  <2>2. CASE AcceptRequest(e)
    <3>1. /\ stream[e].pc = "open" /\ stream'[e].pc = "want" /\ ~ Queued(e) /\ jobs' = Append(jobs, e)
      BY <1>0, <2>2 DEF AcceptRequest, Move, Stream, JobsOnce
    <3>2. Queued(e)'
      BY <1>0, <3>1, NewJob
    <3>3. Placed(e)' /\ Live(e) /\ Got(e)' = Got(e)
      BY <1>1, <3>1, <3>2 DEF Placed, Live, Got
    <3> QED BY <1>0, <1>1, <3>1, <3>3, QueueKept DEF QueuesFit
  <2>3. CASE RefuseRequest(e)
    BY <1>0, <2>3 DEF RefuseRequest, Move, Live, Stream
  <2>4. CASE AwaitItem(e) \/ Leave(e)
    <3>1. \/ stream'[e].pc = stream[e].pc /\ stream[e].pc # "open"
          \/ stream'[e].pc = "get" /\ stream[e].pc = "want"
      <4>1. CASE AwaitItem(e)
        BY <1>0, <4>1 DEF AwaitItem, Move, Stream
      <4>2. CASE Leave(e)
        <5>1. \E s : stream' = [stream EXCEPT ![e] = s] /\ s.pc = stream[e].pc
          BY <1>0, <4>2, StreamMoves
        <5> QED BY <1>0, <4>2, <5>1 DEF Leave
      <4> QED BY <2>4, <4>1, <4>2
    <3>2. (Live(e)' => Live(e)) /\ Got(e)' = Got(e) /\ (Live(e) => QueueFits(e))
      BY <1>0, <1>1, <3>1 DEF Live, Got, QueuesFit
    <3>3. Live(e)' /\ stream'[e].pc # "open" => Placed(e)'
      BY <1>3, <3>1, <3>2 DEF QueueFits
    <3> QED BY <1>1, <3>1, <3>2, <3>3, QueueKept
  <2> QED BY <2>1, <2>2, <2>3, <2>4 DEF Request
<1> QED BY <1>4, <1>5 DEF QueuesFit

\* The stream takes the head of its queue, sends it, or ends.
LEMMA QueueStream ==
  ASSUME DInv, NEW e \in Download,
         StreamStep(e) \/ IdleTimeout(e) \/ SlowTransfer(e)
  PROVE  QueuesFit'
<1>0. /\ QueuesFit /\ JobsOnce /\ TypeOK /\ stream \in [Download -> Stream] /\ Chunks \in Nat
      /\ received \in [Download -> Seq(Chunk)] /\ queue \in [Download -> Seq(Item)]
  BY Numbers DEF DInv, TypeOK
<1>1. /\ UNCHANGED <<done, sender, jobs, agent>> /\ dropped \subseteq dropped'
      /\ \A d \in Download :
           d # e => /\ stream'[d] = stream[d] /\ queue'[d] = queue[d] /\ received'[d] = received[d]
                    /\ d \in sessions => d \in sessions'
  <2>1. CASE TakeMark(e) \/ IdleTimeout(e) \/ SlowTransfer(e)
    BY <1>0, <2>1 DEF TakeMark, IdleTimeout, SlowTransfer, EndStream, Move
  <2>2. CASE TakeChunk(e) \/ SendChunk(e) \/ DropStream(e)
    <3>1. \E s : stream' = [stream EXCEPT ![e] = s]
      BY <1>0, <2>2 DEF TakeChunk, SendChunk, DropStream
    <3>2. /\ UNCHANGED <<sessions, done, sender, jobs, agent, dropped>>
          /\ \A d \in Download : d # e => queue'[d] = queue[d] /\ received'[d] = received[d]
      BY <1>0, <2>2 DEF TakeChunk, SendChunk, DropStream, broker, history
    <3> QED BY <1>0, <3>1, <3>2
  <2> QED BY <2>1, <2>2 DEF StreamStep
<1>2. \A d \in Download : Placed(d) => Placed(d)'
  BY <1>1, PlaceKept
<1>3. \A d \in Download : d # e => (Live(d)' => QueueFits(d)')
  BY <1>1, <1>2, QueueElsewhere
<1>4. Live(e)' => QueueFits(e)'
  <2>1. CASE TakeMark(e) \/ IdleTimeout(e) \/ SlowTransfer(e)
    BY <1>0, <2>1 DEF TakeMark, IdleTimeout, SlowTransfer, EndStream, Move, Live, Stream
  <2>2. CASE DropStream(e)
    <3>1. \E s : stream' = [stream EXCEPT ![e] = s] /\ s.pc = "left"
      BY <1>0, <2>2, StreamMoves
    <3> QED BY <1>0, <3>1 DEF Live
  <2>3. CASE SendChunk(e)
    <3>1. \E s : stream' = [stream EXCEPT ![e] = s] /\ s.pc = "want"
      BY <1>0, <2>3, StreamMoves
    <3>2. stream[e].pc = "send" /\ stream'[e].pc = "want" /\ queue' = queue /\ sessions' = sessions
      BY <1>0, <2>3, <3>1 DEF SendChunk, broker
    <3>3. QueueFits(e)
      BY <1>0, <3>2 DEF QueuesFit, Live
    <3>4. stream[e].item \in Chunk /\ received'[e] = Append(received[e], stream[e].item)
      BY <1>0, <2>3, <3>2, <3>3 DEF SendChunk, QueueFits
    <3>5. Len(received'[e]) = Len(received[e]) + 1 /\ Len(received[e]) \in Nat
      BY <1>0, <3>4, AppendProperties, LenProperties
    <3>6. Got(e)' = Got(e) /\ Live(e) /\ Placed(e)
      BY <3>2, <3>3, <3>5 DEF Got, Live, QueueFits
    <3> QED BY <1>1, <1>2, <3>2, <3>3, <3>6, QueueKept
  <2>4. CASE TakeChunk(e)
    <3>1. /\ stream[e].pc = "get" /\ queue[e] # <<>> /\ Head(queue[e]) \in Chunk
          /\ sessions' = sessions /\ received' = received
      BY <2>4 DEF TakeChunk, history
    <3>2. queue'[e] = Tail(queue[e]) /\ stream'[e].pc = "send" /\ stream'[e].item = Head(queue[e])
      BY <1>0, <2>4 DEF TakeChunk, Stream
    <3>3. /\ Len(queue[e]) \in Nat /\ Len(queue[e]) > 0 /\ Len(queue'[e]) = Len(queue[e]) - 1
          /\ Head(queue[e]) = queue[e][1] /\ \A i \in 1..Len(queue'[e]) : queue'[e][i] = queue[e][i + 1]
      BY <1>0, <3>1, <3>2, HeadTailProperties, EmptySeq, LenProperties
    <3>4. QueueFits(e) /\ InOrder(e)
      BY <1>0, <3>1 DEF QueuesFit, Live, QueueFits
    <3>5. Len(received[e]) \in Nat
      BY <1>0, LenProperties
    <3>6. Got(e)' = Got(e) + 1 /\ Got(e) \in Nat
      BY <3>1, <3>2, <3>5 DEF Got
    <3>7. stream'[e].item = Got(e)' /\ Got(e)' \in Chunk
      BY <3>1, <3>2, <3>3, <3>4, <3>6 DEF InOrder
    <3>8. InOrder(e)'
      <4> SUFFICES ASSUME NEW i \in 1..Len(queue'[e])
                   PROVE  /\ queue'[e][i] \in Chunk => queue'[e][i] = Got(e)' + i
                          /\ queue'[e][i] = End => \/ Got(e)' + i = Chunks + 1
                                                   \/ i > 1 /\ queue'[e][i - 1] = Error
                          /\ e \notin done' => queue'[e][i] \in Chunk
        BY DEF InOrder
      <4>1. i + 1 \in 1..Len(queue[e]) /\ queue'[e][i] = queue[e][i + 1] /\ i \in Nat
        BY <3>3
      <4>2. /\ queue[e][i + 1] \in Chunk => queue[e][i + 1] = Got(e) + (i + 1)
            /\ queue[e][i + 1] = End => \/ Got(e) + (i + 1) = Chunks + 1
                                        \/ i + 1 > 1 /\ queue[e][(i + 1) - 1] = Error
            /\ e \notin done => queue[e][i + 1] \in Chunk
        BY <3>4, <4>1 DEF InOrder
      <4>3. queue[e][(i + 1) - 1] = Error => i > 1 /\ queue'[e][i - 1] = Error
        <5>1. (i + 1) - 1 = i
          BY <4>1
        <5>2. queue[e][i] = Error => i # 1
          BY <3>1, <3>3, Numbers
        <5>3. i # 1 => i - 1 \in 1..Len(queue'[e]) /\ (i - 1) + 1 = i
          BY <3>3, <4>1
        <5>4. i # 1 => queue'[e][i - 1] = queue[e][i]
          BY <3>3, <5>3
        <5> QED BY <4>1, <5>1, <5>2, <5>4
      <4>4. Got(e)' + i = Got(e) + (i + 1)
        BY <3>6, <4>1
      <4>5. queue'[e][i] \in Chunk => queue'[e][i] = Got(e)' + i
        BY <4>1, <4>2, <4>4
      <4>6. e \notin done' => queue'[e][i] \in Chunk
        BY <1>1, <4>1, <4>2
      <4>7. queue'[e][i] = End => \/ Got(e)' + i = Chunks + 1
                                  \/ i > 1 /\ queue'[e][i - 1] = Error
        BY <4>1, <4>2, <4>3, <4>4
      <4> QED BY <4>5, <4>6, <4>7
    <3>9. e \in done' => Marked(e)'
      <4> SUFFICES ASSUME e \in done PROVE Marked(e)'
        BY <1>1
      <4>1. queue[e][Len(queue[e])] \notin Chunk
        BY <3>4 DEF QueueFits, Marked
      <4>2. Len(queue[e]) # 1
        <5>1. queue[e][1] \in Chunk
          BY <3>1, <3>3
        <5> QED BY <4>1, <5>1
      <4>3. Len(queue'[e]) \in 1..Len(queue'[e]) /\ Len(queue'[e]) + 1 = Len(queue[e])
        <5> DEFINE m == Len(queue[e])
                   n == Len(queue'[e])
        <5>1. m \in Nat /\ m > 0 /\ m # 1 /\ n = m - 1
          BY <3>3, <4>2
        <5> HIDE DEF m, n
        <5>2. n \in 1..n /\ n + 1 = m
          BY <5>1
        <5> QED BY <5>2 DEF m, n
      <4>4. queue'[e][Len(queue'[e])] = queue[e][Len(queue[e])]
        BY <3>3, <4>3
      <4>5. queue'[e] # <<>>
        BY <4>3, EmptySeq
      <4> QED BY <4>1, <4>4, <4>5 DEF Marked
    <3>10. sender'[e].pc # "idle" => sender'[e].next = Got(e)' + Len(queue'[e]) + 1
      BY <1>1, <3>3, <3>4, <3>6 DEF QueueFits
    <3>11. Placed(e)'
      BY <1>2, <3>1, <3>4 DEF QueueFits
    <3> QED BY <3>1, <3>4, <3>7, <3>8, <3>9, <3>10, <3>11 DEF QueueFits
  <2> QED BY <2>1, <2>2, <2>3, <2>4 DEF StreamStep
<1> QED BY <1>3, <1>4 DEF QueuesFit

\* fail and complete: a mark, and all of the file before an end mark alone.
LEMMA QueueFinished ==
  ASSUME DInv, NEW e \in Download, QueueFits(e), e \notin done, NEW items \in Seq(Item),
         \/ items = <<End>> /\ Got(e) + Len(queue[e]) = Chunks
         \/ items = <<Error, End>>,
         Finished(e, items), sender'[e] = NoSender, stream' = stream, received' = received,
         sessions' = sessions
  PROVE  QueueFits(e)'
<1>0. /\ queue \in [Download -> Seq(Item)] /\ received \in [Download -> Seq(Chunk)]
      /\ queue[e] \in Seq(Item) /\ Len(queue[e]) \in Nat /\ Len(received[e]) \in Nat /\ Chunks \in Nat
  BY Numbers, LenProperties DEF DInv, TypeOK
<1> DEFINE q == queue[e]
           n == Len(queue[e])
<1>1. queue'[e] = q \o items /\ e \in done'
  BY <1>0 DEF Finished
<1>2. /\ Len(items) \in {1, 2} /\ items[Len(items)] = End
      /\ Len(items) = 2 => items[1] = Error
      /\ Len(items) = 1 => Got(e) + n = Chunks
  <2>1. CASE items = <<End>> /\ Got(e) + n = Chunks
    BY <2>1
  <2>2. CASE items = <<Error, End>>
    BY <2>2
  <2> QED BY <2>1, <2>2
<1>3. /\ Len(q \o items) = n + Len(items)
      /\ \A i \in 1..(n + Len(items)) : (q \o items)[i] = IF i <= n THEN q[i] ELSE items[i - n]
  BY <1>0, ConcatProperties
<1>4. Got(e)' = Got(e) /\ Got(e) \in Nat
  BY <1>0 DEF Got
<1>5. \A i \in 1..n : q[i] \in Chunk /\ q[i] = Got(e) + i
  BY DEF QueueFits, InOrder
<1>6. InOrder(e)'
  <2> SUFFICES ASSUME NEW i \in 1..(n + Len(items))
               PROVE  /\ queue'[e][i] \in Chunk => queue'[e][i] = Got(e) + i
                      /\ queue'[e][i] = End => \/ Got(e) + i = Chunks + 1
                                               \/ i > 1 /\ queue'[e][i - 1] = Error
    BY <1>1, <1>3, <1>4 DEF InOrder
  <2>1. CASE i <= n
    <3>1. queue'[e][i] = q[i] /\ i \in 1..n
      BY <1>0, <1>1, <1>3, <2>1
    <3> QED BY <1>5, <3>1, Numbers
  <2>2. CASE i = n + 1
    <3>1. queue'[e][i] = items[1]
      BY <1>0, <1>1, <1>3, <2>2
    <3>2. Len(items) = 1 => Got(e) + i = Chunks + 1
      BY <1>0, <1>2, <1>4, <2>2
    <3>3. items[1] = Error \/ (items[1] = End /\ Len(items) = 1)
      BY <1>2
    <3> QED BY <3>1, <3>2, <3>3, Numbers
  <2>3. CASE i = n + 2 /\ Len(items) = 2
    <3>1. queue'[e][i] = items[2]
      BY <1>0, <1>1, <1>3, <2>3
    <3>2. n + 1 \in 1..(n + Len(items)) /\ i - 1 = n + 1 /\ i > 1 /\ (n + 1) - n = 1
      BY <1>0, <2>3
    <3>3. queue'[e][i - 1] = items[1]
      BY <1>0, <1>1, <1>3, <3>2
    <3> QED BY <1>2, <2>3, <3>1, <3>2, <3>3, Numbers
  <2>4. i <= n \/ i = n + 1 \/ (i = n + 2 /\ Len(items) = 2)
    <3>1. CASE Len(items) = 1
      BY <1>0, <3>1
    <3>2. CASE Len(items) = 2
      BY <1>0, <3>2
    <3> QED BY <1>2, <3>1, <3>2
  <2> QED BY <2>1, <2>2, <2>3, <2>4
<1>7. Marked(e)'
  <2>1. n + Len(items) \in 1..(n + Len(items)) /\ (n + Len(items)) - n = Len(items) /\ ~ (n + Len(items) <= n)
    <3>1. CASE Len(items) = 1
      BY <1>0, <3>1
    <3>2. CASE Len(items) = 2
      BY <1>0, <3>2
    <3> QED BY <1>2, <3>1, <3>2
  <2>2. queue'[e][Len(queue'[e])] = End
    BY <1>1, <1>2, <1>3, <2>1
  <2>3. queue'[e] # <<>>
    <3>1. Len(queue'[e]) > 0
      BY <1>1, <1>3, <2>1
    <3> QED BY <3>1, EmptySeq
  <2> QED BY <2>2, <2>3, Numbers DEF Marked
<1>8. Placed(e)'
  BY <1>1 DEF Placed
<1> QED BY <1>1, <1>4, <1>6, <1>7, <1>8, Numbers DEF QueueFits

\* The handlers put what comes next.
LEMMA QueueSender ==
  ASSUME DInv, NEW e \in Download,
         PushFile(e) \/ SenderStep(e) \/ PushFails(e) \/ ReadFails(e)
  PROVE  QueuesFit'
<1>0. /\ QueuesFit /\ JobsOnce /\ SendersFit /\ sender \in [Download -> Sender] /\ Chunks \in Nat
      /\ received \in [Download -> Seq(Chunk)] /\ queue \in [Download -> Seq(Item)]
      /\ done \subseteq Download /\ agent \in [pc : AgentPc, job : SUBSET Download]
  BY Numbers DEF DInv, TypeOK
<1>1. /\ UNCHANGED <<sessions, stream, jobs, received>> /\ dropped \subseteq dropped'
      /\ \A d \in Download :
           d # e => queue'[d] = queue[d] /\ sender'[d] = sender[d] /\ (d \in done' <=> d \in done)
  BY <1>0 DEF PushFile, SenderStep, ReadChunk, PutChunk, EndUpload, PushFails, ReadFails, Finish,
              Finished, Return, broker, history
<1>2. ASSUME NEW d \in Download, d # e PROVE Placed(d) => Placed(d)'
  <2>1. Pushing(d) => Pushing(d)'
    BY <1>0, <1>2 DEF PushFile, SenderStep, ReadChunk, PutChunk, EndUpload, PushFails, ReadFails, Return,
                      Pushing, Working
  <2>2. Queued(d) <=> Queued(d)'
    BY <1>1 DEF Queued
  <2> QED BY <1>1, <1>2, <2>1, <2>2 DEF Placed
<1>3. \A d \in Download : d # e => (Live(d)' => QueueFits(d)')
  BY <1>1, <1>2, QueueElsewhere
<1>4. (Live(e)' <=> Live(e)) /\ (Live(e) => QueueFits(e)) /\ Got(e)' = Got(e)
  BY <1>0, <1>1 DEF Live, QueuesFit, Got
<1>5. ASSUME Live(e) PROVE QueueFits(e)'
  <2>0. QueueFits(e) /\ Len(queue[e]) \in Nat /\ Len(received[e]) \in Nat /\ queue[e] \in Seq(Item)
    BY <1>0, <1>4, <1>5, LenProperties
  <2>6. Got(e) \in Nat
    <3> DEFINE l == Len(received[e])
    <3>1. l \in Nat
      BY <2>0
    <3> HIDE DEF l
    <3>2. l + 0 \in Nat /\ l + 1 \in Nat
      BY <3>1
    <3> QED BY <3>2 DEF Got, l
  <2>1. CASE PushFile(e)
    <3>1. Fresh(e) /\ queue' = queue /\ done' = done /\ sender'[e] = [pc |-> "read", next |-> 1]
      BY <1>0, <2>1 DEF PushFile, JobsOnce, Pushing, broker
    <3>2. Got(e) = 0 /\ Len(queue[e]) = 0
      BY <3>1 DEF Fresh, Got
    <3>3. Placed(e)' /\ InOrder(e)' /\ e \notin done'
      BY <1>4, <2>0, <3>1 DEF Placed, QueueFits, InOrder, Fresh
    <3> QED BY <1>1, <1>4, <2>0, <3>1, <3>2, <3>3 DEF QueueFits
  <2>2. CASE PushFails(e)
    <3>1. queue' = queue /\ sender' = sender /\ done' = done /\ e \in dropped'
      BY <2>2 DEF PushFails, broker
    <3>2. Placed(e)' /\ stream'[e] = stream[e]
      BY <1>1, <3>1 DEF Placed
    <3> QED BY <1>1, <1>4, <1>5, <3>1, <3>2, QueueKept
  <2>3. CASE ReadChunk(e)
    <3>1. /\ sender[e].pc = "read" /\ queue' = queue /\ done' = done
          /\ sender'[e].pc = "put" /\ sender'[e].next = sender[e].next
      BY <1>0, <2>3 DEF ReadChunk, CanRead, broker, Sender
    <3>2. Placed(e)' /\ stream'[e] = stream[e]
      BY <1>1, <3>1 DEF Placed
    <3> QED BY <1>1, <1>4, <1>5, <3>1, <3>2, QueueKept
  <2>4. CASE PutChunk(e)
    <3> DEFINE x == sender[e].next
               n == Len(queue[e])
    <3>1. /\ sender[e].pc = "put" /\ queue'[e] = Append(queue[e], x) /\ done' = done
          /\ sender'[e].pc = "read" /\ sender'[e].next = x + 1
      BY <1>0, <2>4 DEF PutChunk
    <3>2. x \in Chunk /\ e \notin done /\ x = Got(e) + n + 1 /\ x \in Item
      BY <1>0, <2>0, <3>1, Numbers DEF SendersFit, QueueFits
    <3>3. Len(queue'[e]) = n + 1 /\ queue'[e][n + 1] = x /\ \A i \in 1..n : queue'[e][i] = queue[e][i]
      BY <2>0, <3>1, <3>2, AppendProperties
    <3>4. \A i \in 1..n : queue[e][i] \in Chunk /\ queue[e][i] = Got(e) + i
      BY <2>0, <3>2 DEF QueueFits, InOrder
    <3>6. \A i \in 1..(n + 1) : queue'[e][i] \in Chunk /\ queue'[e][i] = Got(e) + i
      <4> TAKE i \in 1..(n + 1)
      <4>1. i \in 1..n \/ i = n + 1
        BY <2>0
      <4>2. x = Got(e) + (n + 1)
        BY <2>0, <2>6, <3>2
      <4> QED BY <3>2, <3>3, <3>4, <4>1, <4>2
    <3>7. InOrder(e)'
      BY <1>4, <3>1, <3>2, <3>3, <3>6, Numbers DEF InOrder
    <3>8. sender'[e].next = Got(e)' + Len(queue'[e]) + 1
      BY <1>4, <2>0, <3>1, <2>6, <3>2, <3>3
    <3>9. Placed(e)' /\ e \notin done'
      BY <3>1, <3>2 DEF Placed
    <3> QED BY <1>1, <1>4, <2>0, <3>7, <3>8, <3>9 DEF QueueFits
  <2>5. CASE EndUpload(e) \/ ReadFails(e)
    <3>1. sender[e].pc = "read" /\ sender'[e] = NoSender
      BY <1>0, <2>5 DEF EndUpload, ReadFails, CanRead, Return
    <3>2. e \in sessions /\ e \notin done /\ sender[e].next = Got(e) + Len(queue[e]) + 1
      BY <1>0, <2>0, <3>1 DEF SendersFit, QueueFits
    <3>3. CASE EndUpload(e)
      <4>1. Finished(e, <<End>>) /\ ~ Rest(e)
        BY <3>2, <3>3 DEF EndUpload, IsOpen, Finish
      <4>2. sender[e].next \in 1..(Chunks + 1)
        BY <1>0 DEF Sender
      <4>3. Got(e) + Len(queue[e]) = Chunks
        <5> DEFINE g == Got(e)
                   l == Len(queue[e])
                   x == sender[e].next
        <5>1. g \in Nat /\ l \in Nat /\ x \in 1..(Chunks + 1) /\ ~ (x <= Chunks) /\ x = g + l + 1
          BY <2>0, <2>6, <3>2, <4>1, <4>2 DEF Rest
        <5> HIDE DEF g, l, x
        <5>2. g + l = Chunks
          BY <1>0, <5>1
        <5> QED BY <5>2 DEF g, l
      <4>4. <<End>> \in Seq(Item)
        BY Numbers
      <4> QED BY <1>1, <2>0, <3>1, <3>2, <4>1, <4>3, <4>4, QueueFinished
    <3>4. CASE ReadFails(e)
      <4>1. Finished(e, <<Error, End>>)
        BY <3>2, <3>4 DEF ReadFails, IsOpen, Finish
      <4>2. <<Error, End>> \in Seq(Item)
        BY Numbers
      <4> QED BY <1>1, <2>0, <3>1, <3>2, <4>1, <4>2, QueueFinished
    <3> QED BY <2>5, <3>3, <3>4
  <2> QED BY <2>1, <2>2, <2>3, <2>4, <2>5 DEF SenderStep
<1> QED BY <1>3, <1>4, <1>5 DEF QueuesFit

\* QueuesFit as a whole.
LEMMA QueuesStay ==
  ASSUME DInv, [Next]_vars
  PROVE  QueuesFit'
<1>0. /\ QueuesFit /\ JobsOnce /\ TypeOK /\ AgentWaits /\ agent \in [pc : AgentPc, job : SUBSET Download]
  BY DEF DInv, TypeOK
<1>1. ASSUME UNCHANGED <<sessions, queue, done, stream, sender, received>>,
             \A d \in Download : Placed(d) => Placed(d)'
      PROVE  QueuesFit'
  BY <1>1, QueueElsewhere DEF QueuesFit
<1>2. CASE FetchJob
  <2>1. /\ jobs # <<>> /\ jobs' = Tail(jobs) /\ agent.pc = "fetch"
        /\ agent' = [pc |-> "push", job |-> {Head(jobs)}]
        /\ UNCHANGED <<sessions, queue, done, stream, sender, received, dropped>>
    BY <1>2 DEF FetchJob, broker, history
  <2>2. \A d \in Download : Queued(d) => Queued(d)' \/ Pushing(d)'
    BY <1>0, <2>1, RestOfJobs DEF Pushing, Working
  <2>3. \A d \in Download : ~ Pushing(d)
    BY <2>1 DEF Pushing
  <2> QED BY <1>1, <2>1, <2>2, <2>3 DEF Placed
<1>3. CASE LateFetch
  <2>1. /\ agent' = agent /\ UNCHANGED <<sessions, queue, done, stream, sender, received>>
        /\ \/ jobs' = jobs /\ dropped' = dropped
           \/ jobs # <<>> /\ jobs' = Tail(jobs) /\ dropped' = dropped \cup {Head(jobs)}
    BY <1>3 DEF LateFetch, broker
  <2>2. \A d \in Download : /\ Queued(d) => Queued(d)' \/ d \in dropped'
                            /\ Pushing(d) => Pushing(d)'
                            /\ d \in dropped => d \in dropped'
    <3>1. CASE jobs' = jobs /\ dropped' = dropped
      BY <2>1, <3>1 DEF Queued, Pushing, Working
    <3>2. CASE jobs # <<>> /\ jobs' = Tail(jobs) /\ dropped' = dropped \cup {Head(jobs)}
      BY <1>0, <2>1, <3>2, RestOfJobs DEF Pushing, Working
    <3> QED BY <2>1, <3>1, <3>2
  <2> QED BY <1>1, <2>1, <2>2 DEF Placed
<1>4. CASE FetchTimeout \/ ReportJob \/ AgentLost \/ UNCHANGED vars
  <2>1. /\ jobs' = jobs /\ UNCHANGED <<sessions, queue, done, stream, sender, received>>
        /\ dropped \subseteq dropped'
        /\ agent' = agent \/ agent.pc # "push" \/ agent.job \subseteq dropped'
    BY <1>4 DEF FetchTimeout, ReportJob, AgentLost, vars, moving, broker, history
  <2>2. \A d \in Download : /\ Queued(d) => Queued(d)'
                            /\ Pushing(d) => Pushing(d)' \/ d \in dropped'
    BY <2>1 DEF Queued, Pushing, Working
  <2> QED BY <1>1, <2>1, <2>2 DEF Placed
<1>5. CASE ServerRestart
  <2>1. \A d \in Download : ~ Live(d)'
    BY <1>5 DEF ServerRestart, Live
  <2> QED BY <2>1 DEF QueuesFit
<1>6. ASSUME NEW e \in Download,
             \/ OpenSession(e) \/ Request(e) \/ Leave(e)
             \/ AwaitItem(e) \/ StreamStep(e) \/ IdleTimeout(e)
             \/ PushFile(e) \/ SenderStep(e)
             \/ PushFails(e) \/ ReadFails(e) \/ SlowTransfer(e)
      PROVE  QueuesFit'
  BY <1>6, QueueRequest, QueueStream, QueueSender
<1>7. Step \/ UNCHANGED vars
  BY DEF Next
<1> QED BY <1>2, <1>3, <1>4, <1>5, <1>6, <1>7 DEF Step

-----------------------------------------------------------------------------
(* The theorems *)

\* All of it, from the start.
LEMMA Start ==
  ASSUME Init
  PROVE  DInv
<1>1. TypeOK
  <2>1. <<>> \in Seq(Item) /\ <<>> \in Seq(Download) /\ <<>> \in Seq(Chunk)
    BY EmptySeq
  <2>2. [pc |-> "fetch", job |-> {}] \in [pc : AgentPc, job : SUBSET Download]
    BY DEF AgentPc
  <2> QED BY <2>1, <2>2, Numbers, FaultAssumption DEF Init, TypeOK
<1>2. \A d \in Download : stream[d].pc = "idle" /\ ~ Queued(d) /\ ~ Working(d) /\ Fresh(d) /\ ~ Live(d)
  BY Numbers DEF Init, Queued, Working, Fresh, Live
<1>3. JobsOnce
  BY <1>2, EmptySeq DEF Init, JobsOnce, Pushing
<1>4. AgentWaits /\ SendersFit /\ QueuesFit
  BY <1>2, Numbers DEF Init, AgentWaits, SendersFit, QueuesFit, Fresh
<1>5. Beginnings
  BY DEF Init, Beginnings
<1>6. PoolHolds
  <2>1. Holding = {}
    BY <1>2 DEF Holding
  <2>2. pool \in Nat
    BY PoolAssumption DEF Init
  <2> QED BY <2>1, <2>2, FS_EmptySet DEF PoolHolds
<1> QED BY <1>1, <1>3, <1>4, <1>5, <1>6 DEF DInv

\* DInv is an invariant.
LEMMA Invariance == Spec => []DInv
<1>1. Init => DInv
  BY Start
<1>2. DInv /\ [Next]_vars => DInv'
  BY TypeStays, JobsStay, AgentStays, SendersStay, QueuesStay, BeginningsStay, PoolStays DEF DInv
<1> QED BY <1>1, <1>2, PTL DEF Spec

\* The broker, the streams and the agent stay of their types: no handler counts
\* beyond the chunks of its file.
THEOREM ProxyTyped == Spec => []TypeOK
<1>1. DInv => TypeOK
  BY DEF DInv
<1> QED BY <1>1, Invariance, PTL

\* push, complete and the stream: what a client gets is a beginning of the file
\* in order, and all of it if the stream ended with the end mark.
THEOREM EndIsWhole == Spec => []EndMeansWhole
<1>1. ASSUME DInv PROVE EndMeansWhole
  <2> SUFFICES ASSUME NEW d \in Download
               PROVE  /\ received[d] = SubSeq(Whole, 1, Len(received[d]))
                      /\ ending[d] = "end" => received[d] = Whole
    BY DEF EndMeansWhole
  <2> DEFINE n == Len(received[d])
  <2>1. /\ received[d] \in Seq(Chunk) /\ n \in Nat /\ Chunks \in Nat
        /\ \A i \in 1..n : received[d][i] \in Chunk /\ received[d][i] = i
        /\ ending[d] = "end" => n = Chunks
    BY <1>1, Numbers, LenProperties, ElementOfSeq DEF DInv, TypeOK, Beginnings
  <2>2. n \in 0..Chunks
    <3>1. n = 0 \/ n \in 1..n
      BY <2>1
    <3>2. n \in 1..n => n \in Chunk
      BY <2>1
    <3> QED BY <2>1, <3>1, <3>2 DEF Chunk
  <2>3. Whole \in Seq(Chunk) /\ Len(Whole) = Chunks /\ \A i \in 1..n : i \in Chunk /\ Whole[i] = i
    BY <2>1, <2>2 DEF Whole, Chunk
  <2> HIDE DEF n
  <2>4. /\ SubSeq(Whole, 1, n) \in Seq(Chunk) /\ Len(SubSeq(Whole, 1, n)) = n
        /\ \A i \in 1..n : SubSeq(Whole, 1, n)[i] = Whole[i]
    <3>1. n - 1 + 1 = n /\ (1 <= n => n - 1 + 1 = n) /\ (~(1 <= n) => n = 0) /\ \A i \in 1..n : 1 + i - 1 = i
      BY <2>2
    <3>2. \A i \in 1..n : Whole[i] \in Chunk
      BY <2>3
    <3> QED BY <2>2, <3>1, <3>2, SubSeqProperties
  <2>5. received[d] = SubSeq(Whole, 1, n)
    BY <2>1, <2>3, <2>4, SeqEqual DEF n
  <2>6. ending[d] = "end" => received[d] = Whole
    BY <2>1, <2>3, SeqEqual DEF n
  <2> QED BY <2>5, <2>6 DEF n
<1> QED BY <1>1, Invariance, PTL

\* stream's timeout of 120 s: no job and no end mark is forgotten while a thread
\* of the pool could serve it.
THEOREM TimeoutsHaveCauses == Spec => TimeoutsExplained
<1>1. ASSUME DInv, [Next]_vars, NEW d \in Download, ending'[d] = "timeout", ending[d] # "timeout",
             d \notin dropped'
      PROVE  Cardinality(Holding) = pool /\ \A e \in Holding : stream[e].pc = "get"
  <2>0. ending \in [Download -> {"none", "end", "error", "timeout"}]
    BY <1>1 DEF DInv, TypeOK
  <2>1. IdleTimeout(d)
    <3>1. PICK e \in Download : TakeMark(e) \/ IdleTimeout(e) \/ SlowTransfer(e)
      <4>1. ending' # ending
        BY <1>1
      <4> QED
        BY <1>1, <4>1
           DEF Next, Step, vars, moving, history, Request, StreamStep, SenderStep, OpenSession,
               AcceptRequest, RefuseRequest, AwaitItem, TakeChunk, SendChunk, Leave, DropStream,
               FetchJob, FetchTimeout, LateFetch, PushFile, ReadChunk, PutChunk, EndUpload, ReportJob,
               PushFails, ReadFails, AgentLost, ServerRestart
    <3>2. \/ TakeMark(e) /\ ending'[e] # "timeout"
          \/ IdleTimeout(e) \/ (SlowTransfer(e) /\ e \in dropped')
      BY <2>0, <3>1 DEF TakeMark, EndStream, SlowTransfer
    <3>3. e = d
      BY <1>1, <2>0, <3>1 DEF TakeMark, IdleTimeout, SlowTransfer, EndStream
    <3> QED BY <1>1, <3>2, <3>3
  <2>2. Stalled /\ queue[d] = <<>> /\ stream[d].pc = "get" /\ dropped' = dropped
    BY <2>1 DEF IdleTimeout, EndStream
  <2>3. \A e \in Holding : stream[e].pc = "get"
    BY <2>2 DEF Stalled, Holding
  <2>4. ~ ThreadFree
    <3> SUFFICES ASSUME ThreadFree PROVE FALSE
      OBVIOUS
    <3>1. Placed(d) /\ d \notin dropped /\ (d \in done => queue[d] # <<>>)
      BY <1>1, <2>2 DEF DInv, QueuesFit, QueueFits, Live, Marked
    <3>2. \A e \in Download : sender[e].pc = "idle"
      BY <1>1, <2>2 DEF Stalled, CanRead, DInv, TypeOK, Sender, SenderPc
    <3>3. ~ Pushing(d)
      BY <2>2 DEF Stalled, Pushing
    <3>4. Queued(d)
      BY <2>2, <3>1, <3>2, <3>3 DEF Placed
    <3>5. jobs # <<>>
      BY <3>4, EmptySeq DEF Queued
    <3>6. agent.pc = "send"
      BY <1>1, <2>2, <3>5 DEF Stalled, DInv, TypeOK, AgentPc
    <3> QED BY <1>1, <3>2, <3>6 DEF DInv, AgentWaits
  <2>5. Cardinality(Holding) \in Nat /\ pool \in Nat /\ Cardinality(Holding) <= pool
    BY <1>1, PoolAssumption, FS_CardinalityType DEF DInv, TypeOK, PoolHolds
  <2> QED BY <2>3, <2>4, <2>5 DEF ThreadFree
<1>2. DInv /\ [Next]_vars =>
        [\A d \in Download :
           (ending'[d] = "timeout" /\ ending[d] # "timeout") =>
             \/ d \in dropped'
             \/ /\ Cardinality(Holding) = pool
                /\ \A e \in Holding : stream[e].pc = "get"]_vars
  BY <1>1
<1> QED BY <1>2, Invariance, PTL DEF Spec, TimeoutsExplained
=============================================================================
