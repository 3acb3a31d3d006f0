---------------------------- MODULE DownloadProxy ----------------------------
(***************************************************************************)
(* Proxied downloads: GET /files/{id}/download and the private links open a *)
(* session in the broker, queue a collect_file job and stream whatever the  *)
(* agent's upload-result pushes into the session's queue.                   *)
(*                                                                         *)
(* The broker's lock covers one access of its dictionary; the session found *)
(* is used after the lock is released.  "def" handlers and every next() of  *)
(* a stream run on the threads of one pool, and a stream keeps its thread   *)
(* while it waits for an item; the agent's own requests need threads of the *)
(* same pool.  A token is a fresh uuid4, so a token and its download are    *)
(* the same thing here, and a file is Chunks chunks of 1 MiB.               *)
(***************************************************************************)
EXTENDS Integers, Sequences, FiniteSets

CONSTANTS
  Download,  \* the requests users make
  Pools,     \* how many threads the server's pool may have
  Chunks,    \* chunks of a file
  MaxLate,   \* bound on fetch handlers that outlive their request at one time
  Faults     \* how many faults happen

ASSUME PoolAssumption == Pools \subseteq Nat \ {0}
ASSUME ChunksAssumption == Chunks \in Nat
ASSUME FaultAssumption == MaxLate \in Nat /\ Faults \in Nat

Chunk == 1..Chunks
End == Chunks + 1      \* None in the queue
Error == Chunks + 2    \* ("error", message) in the queue
Item == Chunk \cup {End, Error}

VARIABLES
  sessions,  \* the tokens in the broker's dictionary
  queue,     \* the queue of each session
  done,      \* the sessions nothing more is put into
  stream,    \* the handler and the response of each download
  sender,    \* the upload-result handler of each download
  jobs,      \* the queued collect_file jobs, in order
  agent,     \* the agent's loop
  late,      \* fetch handlers whose agent has given up waiting
  faults,    \* the faults that have happened
  pool       \* the threads of the server's pool

\* Observations that the program does not keep.
VARIABLES
  received,  \* the chunks each client has got
  ending,    \* why each stream ended
  dropped    \* the downloads whose job will not (or no longer) send the file

broker  == <<sessions, queue, done>>
history == <<received, ending, dropped>>
moving == <<broker, stream, sender, jobs, agent, late, faults, history>>
vars == <<moving, pool>>

StreamPc == {"idle", "open", "want", "get", "send", "ended", "refused", "left"}
Stream == [pc : StreamPc, item : Item \cup {0}, gone : BOOLEAN]
NoStream == [pc |-> "idle", item |-> 0, gone |-> FALSE]

SenderPc == {"idle", "read", "put"}
Sender == [pc : SenderPc, next : 1..(Chunks + 1)]
NoSender == [pc |-> "idle", next |-> 1]

AgentPc == {"fetch", "push", "send", "report"}

TypeOK ==
  /\ sessions \subseteq Download
  /\ queue \in [Download -> Seq(Item)]
  /\ done \subseteq Download
  /\ stream \in [Download -> Stream]
  /\ sender \in [Download -> Sender]
  /\ jobs \in Seq(Download)
  /\ agent \in [pc : AgentPc, job : SUBSET Download]
  /\ late \in 0..MaxLate
  /\ faults \in 0..Faults /\ pool \in Pools
  /\ received \in [Download -> Seq(Chunk)]
  /\ ending \in [Download -> {"none", "end", "error", "timeout"}]
  /\ dropped \subseteq Download

Init ==
  /\ sessions = {} /\ done = {}
  /\ queue = [d \in Download |-> <<>>]
  /\ stream = [d \in Download |-> NoStream]
  /\ sender = [d \in Download |-> NoSender]
  /\ jobs = <<>>
  /\ agent = [pc |-> "fetch", job |-> {}]
  /\ late = 0 /\ faults = 0 /\ pool \in Pools
  /\ received = [d \in Download |-> <<>>]
  /\ ending = [d \in Download |-> "none"]
  /\ dropped = {}

-----------------------------------------------------------------------------
(* The pool *)

\* A request keeps its thread until it has returned, a stream while it waits.
Holding == {d \in Download : stream[d].pc \in {"open", "get"}}
ThreadFree == Cardinality(Holding) < pool

Move(d, pc) == stream' = [stream EXCEPT ![d].pc = pc]

-----------------------------------------------------------------------------
(* Plausible bugs in what follows; the runs tell each of them from the code. *)

\* complete forgets the None that ends the stream.
Finished_NoMark(d, items) == done' = done \cup {d} /\ UNCHANGED queue
\* The loop over the body stops one chunk early or late.
Rest_OneShort(d) == sender[d].next < Chunks
Rest_OneMore(d) == sender[d].next <= Chunks + 1
\* stream leaves without pop.
EndStream_Keep(d, why) ==
  /\ stream[d].pc = "get"
  /\ Move(d, "ended")
  /\ ending' = [ending EXCEPT ![d] = why]
  /\ UNCHANGED <<sessions, done, sender, jobs, agent, late, received>>

-----------------------------------------------------------------------------
(* The broker *)

\* push, fail and complete do nothing for a session that is gone or done.
IsOpen(d) == d \in sessions /\ d \notin done

\* fail and complete: nothing follows these items.
Finished(d, items) ==
  /\ done' = done \cup {d}
  /\ queue' = [queue EXCEPT ![d] = @ \o items]

Finish(d, items) ==
  IF IsOpen(d) THEN Finished(d, items) ELSE UNCHANGED <<done, queue>>

-----------------------------------------------------------------------------
(* GET /files/{id}/download *)

OpenSession(d) ==
  /\ stream[d].pc = "idle" /\ ThreadFree
  /\ sessions' = sessions \cup {d}
  /\ Move(d, "open")
  /\ UNCHANGED <<queue, done, sender, jobs, agent, late, faults, history>>

\* request_download_from_agent queues the job, or raises (no such row, no right,
\* not on an agent's node): then nobody streams the session.
AcceptRequest(d) ==
  /\ stream[d].pc = "open"
  /\ jobs' = Append(jobs, d)
  /\ Move(d, "want")
  /\ UNCHANGED <<broker, sender, agent, late, faults, history>>

RefuseRequest(d) ==
  /\ stream[d].pc = "open"
  /\ Move(d, "refused")
  /\ UNCHANGED <<broker, sender, jobs, agent, late, faults, history>>

\* stream() is a generator that the server advances on a thread of the pool.
AwaitItem(d) ==
  /\ stream[d].pc = "want" /\ ~stream[d].gone /\ ThreadFree
  /\ Move(d, "get")
  /\ UNCHANGED <<broker, sender, jobs, agent, late, faults, history>>

TakeChunk(d) ==
  /\ stream[d].pc = "get" /\ queue[d] # <<>> /\ Head(queue[d]) \in Chunk
  /\ queue' = [queue EXCEPT ![d] = Tail(@)]
  /\ stream' = [stream EXCEPT ![d].pc = "send", ![d].item = Head(queue[d])]
  /\ UNCHANGED <<sessions, done, sender, jobs, agent, late, faults, history>>

EndStream(d, why) ==
  /\ stream[d].pc = "get"
  /\ Move(d, "ended")
  /\ sessions' = sessions \ {d}
  /\ ending' = [ending EXCEPT ![d] = why]
  /\ UNCHANGED <<done, sender, jobs, agent, late, received>>

TakeMark(d) ==
  /\ queue[d] # <<>> /\ Head(queue[d]) \notin Chunk
  /\ queue' = [queue EXCEPT ![d] = Tail(@)]
  /\ EndStream(d, IF Head(queue[d]) = End THEN "end" ELSE "error")
  /\ UNCHANGED <<faults, dropped>>

SendChunk(d) ==
  /\ stream[d].pc = "send" /\ ~stream[d].gone
  /\ received' = [received EXCEPT ![d] = Append(@, stream[d].item)]
  /\ stream' = [stream EXCEPT ![d].pc = "want", ![d].item = 0]
  /\ UNCHANGED <<broker, sender, jobs, agent, late, faults, ending, dropped>>

\* The client disconnects.  A thread that waits for an item goes on waiting;
\* a generator that is dropped between two items never reaches its pop.
Leave(d) ==
  /\ stream[d].pc \in {"want", "get", "send"} /\ ~stream[d].gone
  /\ stream' = [stream EXCEPT ![d].gone = TRUE]
  /\ UNCHANGED <<broker, sender, jobs, agent, late, faults, history>>

DropStream(d) ==
  /\ stream[d].pc \in {"want", "send"} /\ stream[d].gone
  /\ stream' = [stream EXCEPT ![d].pc = "left", ![d].item = 0]
  /\ UNCHANGED <<broker, sender, jobs, agent, late, faults, history>>

-----------------------------------------------------------------------------
(* The agent's loop and POST /jobs/{id}/upload-result *)

Working(d) == agent.job = {d}
Loop == [pc |-> "fetch", job |-> {}]

FetchJob ==
  /\ agent.pc = "fetch" /\ ThreadFree /\ jobs # <<>>
  /\ agent' = [pc |-> "push", job |-> {Head(jobs)}]
  /\ jobs' = Tail(jobs)
  /\ UNCHANGED <<broker, stream, sender, late, faults, history>>

\* The request times out in the pool's waiting line; its handler runs later and
\* takes a job for nobody.
FetchTimeout ==
  /\ agent.pc = "fetch" /\ ~ThreadFree /\ late < MaxLate
  /\ late' = late + 1
  /\ UNCHANGED <<broker, stream, sender, jobs, agent, faults, history>>

LateFetch ==
  /\ late > 0 /\ ThreadFree
  /\ late' = late - 1
  /\ IF jobs = <<>> THEN UNCHANGED <<jobs, dropped>>
     ELSE jobs' = Tail(jobs) /\ dropped' = dropped \cup {Head(jobs)}
  /\ UNCHANGED <<broker, stream, sender, agent, faults, received, ending>>

PushFile(d) ==
  /\ agent.pc = "push" /\ Working(d)
  /\ agent' = [agent EXCEPT !.pc = "send"]
  /\ sender' = [sender EXCEPT ![d] = [pc |-> "read", next |-> 1]]
  /\ UNCHANGED <<broker, stream, jobs, late, faults, history>>

\* A body larger than one chunk lies in a spooled file, read on a thread.
CanRead(d) == sender[d].pc = "read" /\ (Chunks > 1 => ThreadFree)
Rest(d) == sender[d].next <= Chunks

\* push finds the session ...
ReadChunk(d) ==
  /\ CanRead(d) /\ Rest(d) /\ IsOpen(d)
  /\ sender' = [sender EXCEPT ![d].pc = "put"]
  /\ UNCHANGED <<broker, stream, jobs, agent, late, faults, history>>

\* ... and puts the chunk into it, even if it has been popped since.
PutChunk(d) ==
  /\ sender[d].pc = "put"
  /\ queue' = [queue EXCEPT ![d] = Append(@, sender[d].next)]
  /\ sender' = [sender EXCEPT ![d] = [pc |-> "read", next |-> @.next + 1]]
  /\ UNCHANGED <<sessions, done, stream, jobs, agent, late, faults, history>>

Return(d) ==
  /\ sender' = [sender EXCEPT ![d] = NoSender]
  /\ agent' = IF agent.pc = "send" /\ Working(d)
              THEN [agent EXCEPT !.pc = "report"] ELSE agent

\* The end of the body, or a push that found no session: complete.
EndUpload(d) ==
  /\ CanRead(d) /\ ~(Rest(d) /\ IsOpen(d))
  /\ Finish(d, <<End>>)
  /\ Return(d)
  /\ UNCHANGED <<sessions, stream, jobs, late, faults, history>>

\* complete_job: it tells the broker nothing.
ReportJob ==
  /\ agent.pc = "report" /\ ThreadFree
  /\ agent' = Loop
  /\ UNCHANGED <<broker, stream, sender, jobs, late, faults, history>>

-----------------------------------------------------------------------------
(* Timeouts and faults *)

\* Nothing moves but users and their clients: every handler, stream and agent
\* that has work waits for an item or for a thread.
Stalled ==
  /\ \A d \in Download :
       /\ stream[d].pc # "open" /\ sender[d].pc # "put"
       /\ ~(stream[d].pc = "get" /\ queue[d] # <<>>)
  /\ agent.pc # "push"
  /\ ThreadFree =>
       /\ \A d \in Download : ~CanRead(d) /\ (stream[d].pc = "want" => stream[d].gone)
       /\ agent.pc # "report" /\ (agent.pc = "fetch" => jobs = <<>>)

\* 120 s are longer than anything that does not wait itself.
IdleTimeout(d) ==
  /\ Stalled /\ queue[d] = <<>>
  /\ EndStream(d, "timeout")
  /\ UNCHANGED <<queue, faults, dropped>>

Spend == faults < Faults /\ faults' = faults + 1

\* ... except a transfer from the node that takes longer: the handler of
\* upload-result starts only when the whole body has arrived.
SlowTransfer(d) ==
  /\ Spend
  /\ queue[d] = <<>>
  /\ EndStream(d, "timeout")
  /\ dropped' = dropped \cup {d}
  /\ UNCHANGED queue

\* The node has no such file, or the upload is refused.
PushFails(d) ==
  /\ agent.pc = "push" /\ Working(d)
  /\ Spend
  /\ agent' = [agent EXCEPT !.pc = "report"]
  /\ dropped' = dropped \cup {d}
  /\ UNCHANGED <<broker, stream, sender, jobs, late, received, ending>>

\* The agent dies or gives up waiting; an upload that has arrived goes on.
AgentLost ==
  /\ agent.pc \in {"push", "send", "report"}
  /\ Spend
  /\ agent' = Loop
  /\ dropped' = IF agent.pc = "push" THEN dropped \cup agent.job ELSE dropped
  /\ UNCHANGED <<broker, stream, sender, jobs, late, received, ending>>

\* Reading the body raises: fail.
ReadFails(d) ==
  /\ CanRead(d)
  /\ Spend
  /\ Finish(d, <<Error, End>>)
  /\ Return(d)
  /\ UNCHANGED <<sessions, stream, jobs, late, history>>

\* The broker lives in memory, the jobs in the database.
ServerRestart ==
  /\ Spend
  /\ sessions' = {} /\ late' = 0
  /\ stream' = [d \in Download |->
                  IF stream[d].pc \in {"open", "want", "get", "send"}
                  THEN [pc |-> "left", item |-> 0, gone |-> TRUE] ELSE stream[d]]
  /\ sender' = [d \in Download |-> NoSender]
  /\ agent' = IF agent.pc = "send" THEN [agent EXCEPT !.pc = "report"] ELSE agent
  /\ UNCHANGED <<queue, done, jobs, history>>

-----------------------------------------------------------------------------
Request(d) == AcceptRequest(d) \/ RefuseRequest(d)
StreamStep(d) == TakeChunk(d) \/ TakeMark(d) \/ SendChunk(d) \/ DropStream(d)
SenderStep(d) == ReadChunk(d) \/ PutChunk(d) \/ EndUpload(d)

Step ==
  \/ \E d \in Download :
       \/ OpenSession(d) \/ Request(d) \/ Leave(d)
       \/ AwaitItem(d) \/ StreamStep(d) \/ IdleTimeout(d)
       \/ PushFile(d) \/ SenderStep(d)
       \/ PushFails(d) \/ ReadFails(d) \/ SlowTransfer(d)
  \/ FetchJob \/ FetchTimeout \/ LateFetch \/ ReportJob
  \/ AgentLost \/ ServerRestart

Next == Step /\ UNCHANGED pool

Spec == Init /\ [][Next]_vars

\* The pool serves its waiting line in order, hence strong fairness for those
\* who need a thread; users and faults owe nothing, timers do go off.
Fairness ==
  /\ \A d \in Download :
       /\ WF_moving(Request(d)) /\ WF_moving(StreamStep(d)) /\ WF_moving(IdleTimeout(d))
       /\ SF_moving(AwaitItem(d)) /\ SF_moving(SenderStep(d)) /\ WF_moving(PushFile(d))
  /\ SF_moving(FetchJob) /\ SF_moving(LateFetch) /\ SF_moving(ReportJob)

FairSpec == Spec /\ Fairness

-----------------------------------------------------------------------------
(* Properties *)

Whole == [i \in Chunk |-> i]

\* What a client gets is a beginning of the file in order, and all of it if the
\* stream ended with the end mark, although the agent's upload, the stream's
\* timeout and the removal of the session race for the queue.
EndMeansWhole ==
  \A d \in Download :
    /\ received[d] = SubSeq(Whole, 1, Len(received[d]))
    /\ ending[d] = "end" => received[d] = Whole

\* A stream gives up waiting only if its job cannot send the file any more, or
\* if every thread of the pool waits for an item of its own, so that the agent
\* cannot be served: no job and no end mark is forgotten.
TimeoutsExplained ==
  [][\A d \in Download :
       (ending'[d] = "timeout" /\ ending[d] # "timeout") =>
         \/ d \in dropped'
         \/ /\ Cardinality(Holding) = pool
            /\ \A e \in Holding : stream[e].pc = "get"]_vars

\* Every session is released in the end, also when all threads wait, unless its
\* request was refused or its client left.
SessionsReleased ==
  \A d \in Download :
    d \in sessions ~> \/ d \notin sessions
                      \/ stream[d].pc = "refused" \/ stream[d].gone

\* With more threads than downloads, every accepted download that its client
\* waits for arrives whole, unless a fault befalls one.
DownloadsArrive ==
  \A d \in Download :
    stream[d].pc = "want" /\ pool > Cardinality(Download) ~>
      \/ ending[d] = "end" /\ received[d] = Whole
      \/ stream[d].gone \/ faults > 0
=============================================================================
