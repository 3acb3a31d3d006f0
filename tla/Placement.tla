------------------------------ MODULE Placement ------------------------------
(***************************************************************************)
(* Where a new file goes, and the accounts that decide it: the limit of the *)
(* resource, the quotas of the volumes, what the agents report, and the     *)
(* rows of the files table.                                                 *)
(*                                                                         *)
(* A request reads the accounts one after the other, each in a connection   *)
(* of its own, and inserts its row at the end: nothing is reserved between. *)
(* Uploads run on the event loop and do not await after their body has been *)
(* read, so they never overlap; records (POST /files) run on threads.       *)
(*                                                                         *)
(* One resource; every node runs an agent.  A file is asked for once, and   *)
(* its name stands for the id and the path of its rows: where a heartbeat   *)
(* gives a file whose row has lost its path a second row, this is the row   *)
(* that stays.  One edit and one deletion of a file at a time.  A handler   *)
(* may stop after any of its steps, a job may be lost, fail or break off.   *)
(* The agent waits for the answer to its heartbeat: FileTransfer has the    *)
(* handlers it has given up on, and what a crash does to its metadata.      *)
(***************************************************************************)
EXTENDS Integers, Sequences, FiniteSets, FiniteSetsExt

CONSTANTS
  Upload,    \* files that users upload
  Record,    \* file records without bytes
  Size,      \* bytes of an upload, megabytes of a record
  MB,        \* bytes of a megabyte
  Node, Volume,
  Home,      \* the node of each volume
  Quota,     \* quota_bytes of each volume
  Priority,  \* storage_priority of each node
  StoreAll,  \* the nodes with store_all_data
  Id,        \* the id of each volume
  Setting,   \* the installations to look at
  MaxJobs    \* a bound: no deletion begins behind so many jobs of a node

File == Upload \cup Record

ASSUME FileAssumption ==
  /\ Upload \cap Record = {} /\ IsFiniteSet(File) /\ Size \in [File -> Nat \ {0}]
  /\ MB \in Nat \ {0}
ASSUME VolumeAssumption ==
  /\ Home \in [Volume -> Node] /\ Quota \in [Volume -> Nat \ {0}]
  /\ Priority \in [Node -> Nat] /\ Id \in [Volume -> Nat]
  /\ StoreAll \subseteq Node
ASSUME BoundAssumption == MaxJobs \in Nat

\* limit: size_limit_mb of the resource, 0 for none; pinned: the nodes assigned
\* to it; volumes: those there are; files: those users send; edits: those they
\* edit; faulty: those whose handlers and jobs may fail for no reason the model
\* knows; unstable: the volumes and nodes that are switched off and on.
ASSUME SettingAssumption ==
  Setting \subseteq [limit : Nat, pinned : SUBSET Node, volumes : SUBSET Volume,
                    files : SUBSET File, edits : SUBSET File, faulty : SUBSET File,
                    unstable : SUBSET (Node \cup Volume)]

VARIABLES
  setting,   \* the installation: it is chosen once
  volumes,   \* the rows of the volumes table
  offered,   \* the volumes with is_active
  up,        \* the active nodes with a recent heartbeat
  reported,  \* used_bytes of each volume
  rows,      \* the row of each file
  place,     \* the volume of each file's row
  path,      \* the files whose row has its storage_rel_path
  blobs,     \* the files with a blob for the agent
  request,   \* the handler that creates each file
  editing,   \* the edit of each file, with the path it has read or without
  deleting,  \* what the deletion of each file does next
  removing,  \* the volumes whose deletion has found no file
  work,      \* the queued jobs of each node, in order
  agent,     \* what each agent does next
  stored,    \* the files on each volume, in part or whole
  partial    \* the files stored in part

\* Observations that the program does not keep.
VARIABLES
  edited,    \* files whose row somebody has edited
  deleted,   \* files somebody has begun to delete
  spared     \* uploads that a deletion has not erased: it began before their
             \* request had returned, found no path, or lost its job

admin == <<volumes, offered, up, removing>>
table == <<rows, place, path, blobs>>
users == <<request, editing, deleting>>
disk  == <<work, agent, stored, partial>>
seen  == <<edited, deleted, spared>>
vars  == <<setting, admin, reported, table, users, disk, seen>>

\* A row counts unless its status is "deleted".
RowState == {"none", "counted", "uncounted"}
Returned == {"refused", "failed", "done"}
RequestPc ==
  {"idle", "volumes", "used", "choose", "insert", "path", "blob", "queue"} \cup Returned
Job == [op : {"store", "erase"}, file : Upload, on : Volume]

TypeOK ==
  /\ setting \in Setting
  /\ volumes \subseteq Volume /\ offered \subseteq Volume /\ removing \subseteq Volume
  /\ up \subseteq Node
  /\ reported \in [Volume -> Nat]
  /\ rows \in [File -> RowState]
  /\ place \in [File -> SUBSET Volume] /\ \A f \in File : Cardinality(place[f]) <= 1
  /\ path \subseteq Upload /\ blobs \subseteq Upload
  /\ request \in [File -> [pc : RequestPc, among : SUBSET Volume, free : [Volume -> Nat]]]
  /\ editing \in [File -> {"no", "bare", "path"}]
  /\ deleting \in [File -> {"no", "blobs", "row"}]
  /\ work \in [Node -> Seq(Job)]
  /\ agent \in [Node -> {"used", "rows", "job"}]
  /\ stored \in [Volume -> SUBSET Upload] /\ partial \subseteq Upload
  /\ edited \subseteq File /\ deleted \subseteq File /\ spared \subseteq Upload

NoRequest == [pc |-> "idle", among |-> {}, free |-> [v \in Volume |-> 0]]

Init ==
  /\ setting \in Setting
  /\ volumes = setting.volumes /\ offered = volumes /\ up = Node /\ removing = {}
  /\ reported = [v \in Volume |-> 0]
  /\ rows = [f \in File |-> "none"]
  /\ place = [f \in File |-> {}] /\ path = {} /\ blobs = {}
  /\ request = [f \in File |-> NoRequest]
  /\ editing = [f \in File |-> "no"] /\ deleting = [f \in File |-> "no"]
  /\ work = [n \in Node |-> <<>>]
  /\ agent = [n \in Node |-> "used"]
  /\ stored = [v \in Volume |-> {}] /\ partial = {}
  /\ edited = {} /\ deleted = {} /\ spared = {}

-----------------------------------------------------------------------------
(* Accounts *)

Larger(a, b) == IF a > b THEN a ELSE b

\* Megabytes are rounded up, and a record gives its own.
Megabytes(f) == IF f \in Record THEN Size[f] ELSE (Size[f] + MB - 1) \div MB
Needed(f) == IF f \in Record THEN Size[f] * MB ELSE Size[f]

SumOf(weight, files) == MapThenSumSet(LAMBDA f : weight[f], files)
MbOf(files) == SumOf([f \in File |-> Megabytes(f)], files)
BytesOf(files) == SumOf(Size, files)

Counted == {f \in File : rows[f] = "counted"}
CountedOn(v) == {f \in Counted : place[f] = {v}}

-----------------------------------------------------------------------------
(* Plausible bugs in what follows; the runs tell each of them from the code. *)

\* The upload handler is a plain "def" and runs on the threads.
LoopFree_Always(f) == TRUE
\* Megabytes are rounded down.
Megabytes_Down(f) == IF f \in Record THEN Size[f] ELSE Size[f] \div MB
\* A volume may have less than no room.
Room_Signed(v, used) == Quota[v] - Larger(used, MbOf(CountedOn(v)) * MB)
\* Only what the agent has reported counts.
Room_Reported(v, used) == Larger(0, Quota[v] - used)
\* The connection does not enforce foreign keys.
Unreferenced_Any(v) == TRUE

-----------------------------------------------------------------------------
(* POST /files and POST /files/upload *)

Step(f, pc) == request' = [request EXCEPT ![f].pc = pc]

\* The event loop runs one upload at a time.
LoopFree(f) ==
  f \in Upload => \A g \in Upload : request[g].pc \in Returned \cup {"idle"}

\* _check_resource_quota
CheckLimit(f) ==
  /\ f \in setting.files /\ request[f].pc = "idle" /\ LoopFree(f)
  /\ Step(f, IF setting.limit > 0 /\ MbOf(Counted) + Megabytes(f) > setting.limit
             THEN "refused" ELSE "volumes")
  /\ UNCHANGED <<admin, reported, table, editing, deleting, disk, seen>>

\* The resource's own nodes, else the nodes that store all data, active or
\* not, else every node.
AllowedNodes ==
  CASE setting.pinned # {} -> setting.pinned
    [] setting.pinned = {} /\ StoreAll # {} -> StoreAll
    [] OTHER -> Node

\* The nodes of the resource, the nodes, then list_volumes: free holds what the
\* agents reported as used.
ReadVolumes(f) ==
  /\ request[f].pc = "volumes"
  /\ request' = [request EXCEPT ![f] =
       [pc |-> "used", free |-> reported,
        among |-> {v \in volumes \cap offered : Home[v] \in AllowedNodes}]]
  /\ UNCHANGED <<admin, reported, table, editing, deleting, disk, seen>>

\* The larger of the two accounts counts.
Room(v, used) == Larger(0, Quota[v] - Larger(used, MbOf(CountedOn(v)) * MB))

\* used_size_bytes_by_volumes
ReadUsed(f) ==
  /\ request[f].pc = "used"
  /\ request' = [request EXCEPT ![f].pc = "choose", ![f].free = [v \in Volume |-> Room(v, @[v])]]
  /\ UNCHANGED <<admin, reported, table, editing, deleting, disk, seen>>

Candidates(f) == {v \in request[f].among : Home[v] \in up}
Fits(f, v) == request[f].free[v] >= Needed(f)

\* By priority, then by free space, then in the order of the table.
Before(f, v, w) ==
  LET rank(x) == Priority[Home[x]]
      free == request[f].free
  IN \/ rank(v) > rank(w)
     \/ rank(v) = rank(w) /\ free[v] > free[w]
     \/ rank(v) = rank(w) /\ free[v] = free[w] /\ Id[v] < Id[w]

ChooseVolume(f) ==
  /\ request[f].pc = "choose"
  /\ \E v \in Candidates(f) :
       /\ Fits(f, v)
       /\ \A w \in Candidates(f) \ {v} : Fits(f, w) => Before(f, v, w)
       /\ request' = [request EXCEPT ![f] =
            [pc |-> "insert", among |-> {v}, free |-> NoRequest.free]]
  /\ UNCHANGED <<admin, reported, table, editing, deleting, disk, seen>>

RefuseFile(f) ==
  /\ request[f].pc = "choose"
  /\ \A v \in Candidates(f) : ~Fits(f, v)
  /\ request' = [request EXCEPT ![f] = [NoRequest EXCEPT !.pc = "refused"]]
  /\ UNCHANGED <<admin, reported, table, editing, deleting, disk, seen>>

\* The foreign key refuses the row of a volume that is gone.
InsertRow(f) ==
  /\ request[f].pc = "insert" /\ request[f].among \subseteq volumes
  /\ rows' = [rows EXCEPT ![f] = "counted"]
  /\ place' = [place EXCEPT ![f] = request[f].among]
  /\ Step(f, IF f \in Upload THEN "path" ELSE "done")
  /\ UNCHANGED <<admin, reported, path, blobs, editing, deleting, disk, seen>>

\* FileRepository.update: the status goes back as it was read, which is as the
\* row was inserted or as an edit has left it since.
WritePath(f) ==
  /\ request[f].pc = "path" /\ rows[f] # "none"
  /\ path' = path \cup {f}
  /\ \E s \in {rows[f], "counted"} : rows' = [rows EXCEPT ![f] = s]
  /\ Step(f, "blob")
  /\ UNCHANGED <<admin, reported, place, blobs, editing, deleting, disk, seen>>

\* The blob refers to the row.
CreateBlob(f) ==
  /\ request[f].pc = "blob" /\ rows[f] # "none"
  /\ blobs' = blobs \cup {f}
  /\ Step(f, "queue")
  /\ UNCHANGED <<admin, reported, rows, place, path, editing, deleting, disk, seen>>

Enqueue(v, job) == work' = [work EXCEPT ![Home[v]] = Append(@, job)]

\* For the volume that was chosen, whatever has become of the row.
QueueStore(f) ==
  /\ request[f].pc = "queue"
  /\ \E v \in request[f].among : Enqueue(v, [op |-> "store", file |-> f, on |-> v])
  /\ Step(f, "done")
  /\ UNCHANGED <<admin, reported, table, editing, deleting, agent, stored, partial, seen>>

\* What it writes refers to a row that is gone, the database is locked, or the
\* server stops.
FailRequest(f) ==
  /\ \/ f \in setting.faulty /\ request[f].pc \notin Returned \cup {"idle"}
     \/ request[f].pc = "insert" /\ ~ (request[f].among \subseteq volumes)
     \/ request[f].pc \in {"path", "blob"} /\ rows[f] = "none"
  /\ Step(f, IF request[f].pc \in {"path", "blob", "queue"} THEN "failed" ELSE "refused")
  /\ UNCHANGED <<admin, reported, table, editing, deleting, disk, seen>>

-----------------------------------------------------------------------------
(* PUT /files/{id}: the row is read, and then every column written back *)

ReadEdit(f) ==
  /\ f \in setting.edits /\ rows[f] # "none" /\ editing[f] = "no"
  /\ editing' = [editing EXCEPT ![f] = IF f \in path THEN "path" ELSE "bare"]
  /\ UNCHANGED <<admin, reported, table, request, deleting, disk, seen>>

\* The status is a new one, or the one that was read.
WriteEdit(f) ==
  /\ editing[f] # "no"
  /\ editing' = [editing EXCEPT ![f] = "no"]
  /\ \E s \in {"counted", "uncounted"} : rows' = [rows EXCEPT ![f] = s]
  /\ path' = IF editing[f] = "path" THEN path \cup {f} ELSE path \ {f}
  /\ edited' = edited \cup {f}
  /\ UNCHANGED <<admin, reported, place, blobs, request, deleting, disk, deleted, spared>>

-----------------------------------------------------------------------------
(* DELETE /files/{id} *)

Erase(f) ==
  IF f \in path
  THEN \E v \in place[f] : /\ Len(work[Home[v]]) < MaxJobs
                           /\ Enqueue(v, [op |-> "erase", file |-> f, on |-> v])
  ELSE UNCHANGED work

DeleteFile(f) ==
  /\ rows[f] # "none" /\ deleting[f] = "no"
  /\ Erase(f)
  /\ deleting' = [deleting EXCEPT ![f] = "blobs"]
  /\ deleted' = deleted \cup {f}
  /\ spared' = IF f \in path /\ request[f].pc \in Returned
               THEN spared ELSE spared \cup ({f} \cap Upload)
  /\ UNCHANGED <<admin, reported, table, request, editing, agent, stored, partial, edited>>

DropBlobs(f) ==
  /\ deleting[f] = "blobs"
  /\ deleting' = [deleting EXCEPT ![f] = "row"]
  /\ blobs' = blobs \ {f}
  /\ UNCHANGED <<admin, reported, rows, place, path, request, editing, disk, seen>>

\* A blob that was created since refers to the row and keeps it.
DeleteRow(f) ==
  /\ deleting[f] = "row" /\ f \notin blobs
  /\ deleting' = [deleting EXCEPT ![f] = "no"]
  /\ editing' = [editing EXCEPT ![f] = "no"]
  /\ rows' = [rows EXCEPT ![f] = "none"]
  /\ place' = [place EXCEPT ![f] = {}]
  /\ path' = path \ {f}
  /\ UNCHANGED <<admin, reported, blobs, request, disk, seen>>

FailDelete(f) ==
  /\ \/ f \in setting.faulty /\ deleting[f] # "no"
     \/ deleting[f] = "row" /\ f \in blobs
  /\ deleting' = [deleting EXCEPT ![f] = "no"]
  /\ UNCHANGED <<admin, reported, table, request, editing, disk, seen>>

-----------------------------------------------------------------------------
(* Nodes and volumes *)

ChangeVolume(v) ==
  /\ v \in volumes \cap setting.unstable
  /\ offered' = IF v \in offered THEN offered \ {v} ELSE offered \cup {v}
  /\ UNCHANGED <<volumes, up, removing, reported, table, users, disk, seen>>

\* is_active is changed, or heartbeats stop and come back.
ChangeNode(n) ==
  /\ n \in setting.unstable
  /\ up' = IF n \in up THEN up \ {n} ELSE up \cup {n}
  /\ UNCHANGED <<volumes, offered, removing, reported, table, users, disk, seen>>

Unreferenced(v) == \A f \in File : v \notin place[f]

RemoveVolume(v) ==
  /\ v \in volumes /\ \A f \in File : v \notin place[f]   \* list_files
  /\ removing' = removing \cup {v}
  /\ UNCHANGED <<volumes, offered, up, reported, table, users, disk, seen>>

\* The foreign key of files refuses while a row refers to the volume.
RemoveRow(v) ==
  /\ v \in removing
  /\ removing' = removing \ {v}
  /\ volumes' = IF Unreferenced(v) THEN volumes \ {v} ELSE volumes
  /\ UNCHANGED <<offered, up, reported, table, users, disk, seen>>

-----------------------------------------------------------------------------
(* The agent: a heartbeat, then one job *)

Mounted(n) == {v \in volumes : Home[v] = n}
Turn(n, what) == agent' = [agent EXCEPT ![n] = what]

\* sync_used_space_for_node.  Of a file in part little may be there.
BeatUsed(n) ==
  /\ agent[n] = "used"
  /\ reported' = [v \in Volume |-> IF v \in Mounted(n) THEN BytesOf(stored[v] \ partial)
                                   ELSE reported[v]]
  /\ Turn(n, "rows")
  /\ UNCHANGED <<admin, table, users, work, stored, partial, seen>>

\* sync_from_agent_volume_meta: what is listed on a volume is in the table,
\* active.  A row is found by its path; a file without one gets a row that no
\* edit and no deletion has seen.
BeatRows(n) ==
  /\ agent[n] = "rows"
  /\ LET found == UNION {stored[v] : v \in Mounted(n)} \ partial
         new == found \ path
     IN /\ rows' = [f \in File |-> IF f \in found THEN "counted" ELSE rows[f]]
        /\ place' = [f \in File |-> IF f \in found
                                    THEN {v \in Mounted(n) : f \in stored[v]} ELSE place[f]]
        /\ path' = path \cup found
        /\ editing' = [f \in File |-> IF f \in new THEN "no" ELSE editing[f]]
        /\ deleting' = [f \in File |-> IF f \in new THEN "no" ELSE deleting[f]]
  /\ Turn(n, "job")
  /\ UNCHANGED <<admin, reported, blobs, request, work, stored, partial, seen>>

\* There is no job, or the heartbeat or the fetch fails.
NextLoop(n) ==
  /\ agent[n] \in {"rows", "job"}
  /\ Turn(n, "used")
  /\ UNCHANGED <<admin, reported, table, users, work, stored, partial, seen>>

TakeJob(n) ==
  /\ agent[n] = "job" /\ work[n] # <<>>
  /\ work' = [work EXCEPT ![n] = Tail(@)]
  /\ Turn(n, "used")
  /\ UNCHANGED <<admin, reported, place, path, blobs, users, edited, deleted>>

\* mark_job_result: the row, if it is still there, becomes active or "error".
Mark(f) == rows' = [rows EXCEPT ![f] = IF @ = "none" THEN @ ELSE "counted"]

StoreFile(n) ==
  LET job == Head(work[n]) f == job.file
  IN /\ TakeJob(n) /\ job.op = "store" /\ f \in blobs
     /\ stored' = [stored EXCEPT ![job.on] = @ \cup {f}]
     /\ Mark(f)
     /\ UNCHANGED <<partial, spared>>

\* The transfer breaks off, or the report of a whole one is lost.
BreakStore(n) ==
  LET job == Head(work[n]) f == job.file
  IN /\ TakeJob(n) /\ job.op = "store" /\ f \in blobs \cap setting.faulty
     /\ stored' = [stored EXCEPT ![job.on] = @ \cup {f}]
     /\ partial' \in {partial, partial \cup {f}}
     /\ UNCHANGED <<rows, spared>>

UnlinkFile(n) ==
  LET job == Head(work[n]) f == job.file
  IN /\ TakeJob(n) /\ job.op = "erase"
     /\ stored' = [stored EXCEPT ![job.on] = @ \ {f}]
     /\ partial' = partial \ {f}
     /\ UNCHANGED <<rows, spared>>

\* The job is lost with the answer to its fetch or with the agent, or it fails:
\* the blob is gone, the file cannot be unlinked.  A report names the row by its
\* id, which may be gone.
FailJob(n) ==
  LET job == Head(work[n]) f == job.file
  IN /\ TakeJob(n)
     /\ f \in setting.faulty \/ (job.op = "store" /\ f \notin blobs)
     /\ Mark(f) \/ UNCHANGED rows
     /\ spared' = IF job.op = "erase" THEN spared \cup {f} ELSE spared
     /\ UNCHANGED <<stored, partial>>

-----------------------------------------------------------------------------
RequestStep(f) ==
  \/ CheckLimit(f) \/ ReadVolumes(f) \/ ReadUsed(f) \/ ChooseVolume(f) \/ RefuseFile(f)
  \/ InsertRow(f) \/ WritePath(f) \/ CreateBlob(f) \/ QueueStore(f) \/ FailRequest(f)
UserStep(f) ==
  \/ ReadEdit(f) \/ WriteEdit(f)
  \/ DeleteFile(f) \/ DropBlobs(f) \/ DeleteRow(f) \/ FailDelete(f)
JobStep(n) == StoreFile(n) \/ BreakStore(n) \/ UnlinkFile(n) \/ FailJob(n)

Next ==
  /\ \/ \E f \in File : RequestStep(f) \/ UserStep(f)
     \/ \E v \in Volume : ChangeVolume(v) \/ RemoveVolume(v) \/ RemoveRow(v)
     \/ \E n \in Node : \/ ChangeNode(n) \/ BeatUsed(n) \/ BeatRows(n) \/ NextLoop(n)
                        \/ JobStep(n)
  /\ UNCHANGED setting

Spec == Init /\ [][Next]_vars

-----------------------------------------------------------------------------
(* Properties *)

Touched == edited \cup deleted

\* No check reserves what it has found free, and still uploads alone never
\* exceed the limit of their resource: each counts all the others whose rows
\* nobody has edited or deleted.
UploadsWithinLimit ==
  setting.limit > 0 => MbOf((Counted \cap Upload) \ Touched) <= setting.limit

\* The bytes on a volume never exceed its quota, although rows go before bytes
\* and the agents' reports are old: the jobs of a node are run in order.  Only a
\* row whose status is edited to "deleted", and a file that its deletion has
\* spared, give their space away too early.
DiskFits == \A v \in Volume : BytesOf(stored[v] \ (edited \cup spared)) <= Quota[v]

\* A volume is removed only when every byte on it, or on its way, has the job
\* that erases it queued behind it, but for the files their deletion has spared.
Queued(v) == work[Home[v]]
Arriving(v) ==
  {Queued(v)[i].file : i \in {j \in DOMAIN Queued(v) :
                                Queued(v)[j].op = "store" /\ Queued(v)[j].on = v}}
ErasedLast(v, f) ==
  \E i \in DOMAIN Queued(v) :
    /\ Queued(v)[i] = [op |-> "erase", file |-> f, on |-> v]
    /\ \A j \in DOMAIN Queued(v) :
         Queued(v)[j] = [op |-> "store", file |-> f, on |-> v] => j < i

RemovedVolumesDrain ==
  \A v \in Volume \ volumes : \A f \in (stored[v] \cup Arriving(v)) \ spared : ErasedLast(v, f)

\* report/lr2_report_data.md: first the nodes with store_all_data, then the
\* common pool of active nodes.  A file of a resource without nodes of its own
\* is refused only if no active volume of an active node has room for it.
RefusedOnlyWhenFull ==
  [][\A f \in File : RefuseFile(f) /\ setting.pinned = {} =>
       \A v \in volumes \cap offered :
         Home[v] \in up => Larger(reported[v], MbOf(CountedOn(v)) * MB) + Needed(f) > Quota[v]]_vars
=============================================================================
