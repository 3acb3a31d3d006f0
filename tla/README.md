# Formal models of kp_web

`kp_web` (CoStor) is a file storage service: a FastAPI control server with a
SQLite database (`src/app`), storage agents on the nodes that poll the server
(`src/agent`), and a Flask front end that calls the server's API
(`src/frontend`). This directory holds TLA+ models of the server and the agent,
configurations that check them with TLC, and proofs checked by TLAPS.

## 1. The system

| Part | State | Operations | What makes it correct |
|---|---|---|---|
| File transfer (`app/services.py` FileService, `app/repositories.py`, `app/routers/files.py`, `app/routers/agent_control.py`) | tables `files`, `agent_jobs`, `transfer_blobs`; temporary files in `TEMP_DIR` | upload, delete, prepare-download, download, update; fetch, blob download, upload-result, complete, heartbeat sync | no accepted upload loses its bytes; jobs are handed out in order, once; deleted bytes stay deleted; `active` rows have their bytes |
| Storage agent (`agent/main.py`) | bytes on the volume, `.volume_meta.json`, token and node id files | heartbeat, fetch, store/collect/delete/provision job, report, registration | does what it reports; survives crashes and lost answers |
| Download proxy (`app/download_proxy.py`) | one queue per download token, in memory | open, push, complete, fail, stream | a download that ends normally has every byte, in order; sessions are released |
| Placement and quotas (`PlacementService`, `_check_resource_quota`) | `nodes`, `volumes`, `resource_nodes`, sizes in `files` | choose a volume, check a resource's quota | the chosen volume is allowed, alive and has room; the most preferred one wins |
| Access control (`AccessService`, `ACLService`, `PermissionRepository`, `seed.py`) | `groups_acl`, `user_groups`, `group_permissions`, `resources`, `resource_folders` | create and delete groups, bind, unbind, grant, deny, revoke, check | a denial in force is never missed, a right in force never lost; administrators stay in their scope; a deletion does not drop members it has not looked for |
| Agent registration (`NodeRepository.upsert_agent_node`, `_register_if_needed`) | the row of a node; the agent's key and state files | register, register again after a crash; create, edit, delete a node | an agent in its loop is known, has keys that fit, and is the node it was |
| Users and life cycle (`UserLifecycleService`, `routers/auth.py`, `routers/admin.py`) | `users`, personal resources and groups, their files, the archive's settings | register, rename, archive, delete | a user has a whole space, a deleted one leaves none; what a deletion erases is archived before |
| Share links (`/files/{id}/share`, `/private/...`) | `share_enabled`, `share_uuid` | enable, disable, download | see section 7 |
| Nodes and volumes (`NodeService`, `ProvisioningService`) | `nodes`, `volumes` | create, update, delete, provision | a volume with files is not removed |
| Audit, authentication, dashboard, seed, SSH connectors, OpenPGP helpers, front end | `audit_logs`, none, none, ... | | see section 7 |

### How the parts run and interact

* Every repository method opens its own SQLite connection and commits before it
  returns (`db.get_conn`). No handler holds a transaction across two repository
  calls, so any two handlers interleave between any two calls.
* `def` handlers run on a pool of threads; `async def` handlers (upload,
  upload-result) run on the one event loop and do not await once the body has
  been read, so they do not interleave with each other.
* The agent is one loop: heartbeat, fetch one job, run it, report it, sleep. It
  waits for answers with timeouts of 8, 10, 30, 10 and 600 s; every exception is
  caught and starts the loop over. **Nothing puts a job that is `in_progress`
  back into the queue.**
* The heartbeat carries the agent's list of files; the server makes every listed
  row `active` and inserts a row for a path it does not know.

### What is hard to test here

`PROJECT.json` lists the hazards, each at its line. The main ones: a heartbeat
that races a deletion; a fetch whose answer is lost; a completion that arrives
late; a store interrupted half-way and then reported by a heartbeat; a read-modify-write
of a row that another handler changed; quotas checked long before the row is
inserted; downloads whose proxy session nobody drains; a permission checked by three
reads while the tree, the members and the rules change; an agent that crashes between
two of its files, or whose abandoned registration goes on beside the next; a user who is
registered, renamed and deleted by requests of a dozen transactions each.

## 2. Plan

Done:

1. `FileTransfer`, the core, with `Custody` as its abstract specification, checked;
   every safety property, the inductive invariant and the refinement proved.
2. `DownloadProxy`: the broker, the streaming response and the agent's upload on one
   pool of threads, checked; its safety properties proved.
3. `Placement`: the limit of a resource, the accounts of the volumes, the choice of a
   volume and the removal of one, checked; its safety properties proved.
4. `AccessControl`: every request that checks or changes rights, as the reads and
   writes it is, checked; its safety properties proved.
5. `Registration`: the agent's files, the row of its node and the handlers between
   them, checked; every safety property proved.
6. `UserLifecycle`: registration, renaming, archiving and deletion as sequences of
   transactions, checked; its safety properties proved.

Left, in this order:

7. Blocking users and changing their roles while their requests are under way.

Modules with theorems avoid RECURSIVE operators; every bound is a constant with a
named assumption.

## 3. Modules and the code

### FileTransfer (with Custody, FileTransferInv)

| State | In the code |
|---|---|
| `files`, `nextFile`, `jobs`, `blobs` | the tables `files` (status and `storage_rel_path`), `agent_jobs`, `transfer_blobs` |
| `temps` | the temporary files of uploads and of collected files in `TEMP_DIR` |
| `up` | the one upload handler the event loop can be in |
| `threads` | the `def` handlers on the pool: where each is and what it holds from the rows it has read |
| `agent` | the agent's loop: which request or step it is at, its job, the handler it waits for |
| `disk`, `meta`, `mounted` | the bytes on the volume, the files listed in `.volume_meta.json`, and whether that file still has its `mount_path` |
| `used` | how many requests and faults of each kind have happened (a bound) |
| `last`, `wiped`, `asked`, `edited`, `removed` | observations, which no action reads |

Every repository call is one action, because it commits before it returns; every
handler is the sequence of its calls, so `POST /files/upload` is `UploadReceive`,
`UploadInsert`, `UploadRead`, `UploadPath`, `UploadBlob`, `UploadJob`, and `DELETE
/files/{id}` is `DeleteRead`, `DeleteQueueJob`, `DeleteListBlobs`, `DeleteBlobs`,
`DeleteRow`. Read-modify-write methods (`FileRepository.update`,
`upsert_from_agent`, `fetch_next_for_node`) are two actions. `delete_file`'s foreign
key on `transfer_blobs` and the `IS NULL` case of `storage_rel_path` (0) are kept.

The agent's requests name the thread that serves them. `AgentTimeout` frees the agent
and leaves the handler running: that is how late and repeated answers arise. The
faults are lost requests and answers, refused and broken transfers, a crash of the
agent (also in the middle of rewriting its list) and a restart of the server.

A path contains the id of its row, so it is modelled by that id. One node with one
volume is modelled: jobs are fetched by node and paths looked up by node and volume.

`Custody` says what the transfer promises about bytes: the server holds an accepted
upload until the node has all of it; nobody drops the last copy of a file unless
its deletion was requested. `FileTransfer!Promise` maps it: `central` are the files
whose store job's temporary file is there with a `ready` blob, `node` those whose
path is complete on the volume.

### DownloadProxy (with DownloadProxy_proofs)

`sessions`, `queue`, `done` are the broker; `stream` is the handler of the download and
then its generator; `sender` the agent's request as `upload-result` serves it; `jobs`
and `agent` the part of the job queue that matters here. The broker's lock covers one
access of its dictionary, so `push` is two actions (`ReadChunk` finds the session,
`PutChunk` puts into it), and `pop` can come between them. `def` handlers, every
`next()` of the generator, and the reading of a body larger than 1 MiB need one of the
`pool` threads (an initial choice from `Pools`); a stream that waits keeps its thread
(`Holding`). `IdleTimeout`, the 120 s of `queue.get`, can go off only when nothing that
does not itself wait could move (`Stalled`), or because a transfer takes longer
(`SlowTransfer`, a fault). `FetchTimeout` and `LateFetch` are the agent's fetch that
times out while it waits for a thread, and its handler, which later takes a job for
nobody.

### Placement (with Placement_proofs)

`rows`, `place` and `path` are the rows of `files` (whether their status counts, their
volume, whether they have a `storage_rel_path`), `blobs` the uploads that wait for an
agent, `reported` the volumes' `used_bytes`, `stored` the disks, `partial` what was stored
in part, `work` the queued jobs of a node. A request is `CheckLimit` (the account of the resource), `ReadVolumes`
(the nodes and volumes with what agents have reported), `ReadUsed` (the account of the
rows), `ChooseVolume` or `RefuseFile`, `InsertRow`, and for an upload `WritePath`,
`CreateBlob` and `QueueStore`: nothing is reserved in between, and `FailRequest` stops at
any of them. `LoopFree` is the event loop, on which no two uploads overlap. An edit reads
the row (`ReadEdit`) and writes every column back (`WriteEdit`), so an edit that began
before `WritePath` takes the path away. A deletion may come at any time: `DeleteFile`
queues the erase job if the row has its path, `DropBlobs` and `DeleteRow` follow, and
`FailDelete` is the foreign key of a blob created since, or a server that stops. An agent
alternates `BeatUsed`, `BeatRows` and one job, and skips what fails (`NextLoop`). The job
is done (`StoreFile`, `UnlinkFile`), breaks off (`BreakStore`) or is lost or fails
(`FailJob`), and nobody queues it again. `spared` records the files that a deletion does
not erase: it found no path, came before the upload had returned, or its job was lost or
failed. `choose_volume` sorts by priority, free
space and (the sort is stable) id, and takes the first that fits: `Before`. An
installation (which volumes and files there are, the limit, what is switched off and on)
is an initial choice from `Setting`.

### AccessControl (with AccessControl_proofs)

`parent` is `groups_acl`, `members` is `user_groups`, `rules` is `group_permissions` with
the position of a rule as its AUTOINCREMENT id, `resources`, `erased` and `folders` are
the rows of resources and of their folders. A handler goes through the steps of `Route`:
`ReadMembers` and `ReadAncestors` (once for each group of the user) are
`_effective_group_ids`, `ReadRules` is the rest of `has_permission`, `CheckExists`,
`CheckScope` and `CountMembers` what the operation looks at in addition, and `Write` its
one transaction. `CascadeGroup` is what the foreign keys do when a group goes: its
children become roots, its members and rules go. `Granted` keeps that a NULL
`resource_id` conflicts with nothing. `Restart` drops the handlers and runs the seed from
its start, one `SeedGrant` after the other. `seen` is an observation: which rules have
been in force for the asker since the request began.

### Registration (with Registration_proofs)

`disk` holds the agent's five files (its two keys, the server's key, the token, the node
id), `agent` the process from its start to its loop, `row` the row of its name, `handler`
the requests on the server. Keys, tokens and ids are numbers in the order they were made.
`MakeKeys`, `WritePublic`, `ReadState`, `SendRegister` and `SaveAnswer` (once for each file
of `Saved`) are `run` up to the loop; `LookUp`, then `Insert` or `Merge` and `Update`,
then `Reread` are `upsert_agent_node` and the end of `register`. `EditNode` reads the row
and leaves its `Update` to the same handler; `Merged` is `NodeRepository.update`, which
writes every column of the row it has read. `CreateNode` and `EditNode` may bring an
`agent_public_key` with them (`Given`): none, any that the agent has made, or one that is
not the agent's (`Foreign`, which also stands for an empty text); no request of an
administrator has a token. A file is opened for writing, so a `Crash` may leave it empty
(`Torn`). A handler that has written the row keeps only what it needs to read it again
(`Rereading`). `clashed` observes that an `Update` has written over what it had not read,
`typed` that the key in the row is one an administrator gave.

### UserLifecycle (with UserLifecycle_proofs)

`users`, `space`, `group` are the tables of accounts, personal resources and personal
groups, `row` the table `files`, `blob`, `collects` and `deletes` the transfers and jobs an
archive and a deletion make, `node` the files the node has and reports. A registration is
`check`, `insert`, `resource`, `group`, `bind` and four grants; a deletion reads the user,
the settings and the space, lists the files, collects and packs them, uploads the
archive, then erases what the user owns and what others have in the space, file by file,
and drops the space and the user: each a transaction. Between any two of them another request, the
agent or a restart may come. Initial users, settings and budgets are a choice from
`Setting`.

## 4. Runs

| Run | What it asks | Distinct states |
|---|---|---|
| `ft_network` | A lost or late answer and a restart of the server during an upload, a deletion and a download: `TypeOK`, the inductive invariant `IInv` of the proofs, `OneRowPerPath`, `ActiveIsWhole`, `HandedInOrder` | 282 k |
| `ft_faults` | Edits and deletions, also of records without bytes, while a transfer breaks off, the agent dies and its list is torn: `Durable`, `WipedStaysWiped`, `ActiveOnNode`, `StrandedByFaults`, `KeepsCustody`, `OnlyStaleEditsTurnBack` | 982 k |
| `ft_settle` | Everything ends: `JobsFinish`, `UploadSettles`, `DeletionErases`, and, though a report is lost or the server restarts, `ListedBecomesActive` | 32 k |
| `ft_ghost` | *violated*: `DeletedStaysDeleted` | |
| `dp_race` | Two downloads, two threads, two faults: an end mark means the whole file, a timeout has a reason | 148 k |
| `dp_release` | With two threads and with three: `SessionsReleased`, also when all threads wait; with a thread to spare and no fault, `DownloadsArrive` | 56 k |
| `pl_choice` | Two uploads and volumes that come and go, handlers and jobs that fail, an edited file, or a record and a limit: `UploadsWithinLimit`, `DiskFits`, `RemovedVolumesDrain` | 2.5 M |
| `pl_preferred` | *violated*: `RefusedOnlyWhenFull` | |
| `ac_requests` | Three requests and a restart: `DenialHolds`, `RightHolds`, `WalksAgree`, `OutsideUntouched`, `OneRulePerResource` | 83 k |
| `rg_join` | Three faults, two edits, one renewal: `LockedOutByClash`, `KeysFit`, `SameNodeAgain`, and `AgentJoins` under fairness | 1.6 M |
| `rg_rekey` | *violated*: `RekeyedAgentWorks` | |
| `ul_accounts` | Two requests at a time on accounts, with stores, settings, the agent and a restart: `HasSpace`, `GoneLeavesNoSpace`, `ErasedIsArchived` | 1.3 M |

Three disagreements between the code and what the repository says of it:

* `ft_ghost`. The agent sends a heartbeat before it fetches the `delete_file` job. It
  still lists the file, the row is gone, so `upsert_from_agent` inserts a new active
  row; then the bytes are erased and no later step removes the row.
  `routers/files.py` has audited "Deleted file" and answered `deleted`.
* `pl_preferred`. `report/lr2_report_data.md:202-204` describes a fallback, first the
  nodes with `store_all_data`, then the common pool of active nodes. `choose_volume`
  restricts itself to the former whenever there is one, full or inactive.
* `rg_rekey`. `README.md:144-147` renews keys by deleting the key files of the agent and
  of the server and restarting both. `_register_if_needed` returns as soon as the state
  files are there, so the agent sends nobody its new key and has no key of the server's.

Worth knowing, though no document promises otherwise:

* Nothing puts a job that is `in_progress` back into the queue. `StrandedByFaults`
  says that each such job costs a fault, not that there are none.
* A path can get two rows without any fault: an edit that has read a row before its
  upload wrote the path takes the path away, a heartbeat finds no row and inserts one,
  and an edit that has read the first row with its path brings it back.
  `OneRowPerPath` leaves edited rows out.
* `DownloadsArrive` needs a thread more than there are downloads. With as many
  downloads as threads, every stream waits for the agent and the agent for a thread,
  until the timeouts end the downloads, which the clients cannot tell from the end
  of the file. `TimeoutsExplained` allows for exactly that.
* `UploadsWithinLimit` and `DiskFits` hold because uploads run on the event loop
  without an await, and the server is one process (`README.md:18`). As plain `def` handlers they would fail: two overlapping uploads
  would both find the same room. Records (`POST /files`) are `def` handlers, and do
  overshoot the limit when they overlap. Editing a status to `deleted` gives the
  space of a file back while its bytes stay.
* A global grant does not lift an earlier global denial: both rows stay, and a denial
  wins. `OneRulePerResource` is about rules on resources for that reason. A restart
  brings back every rule and membership of the seed that was taken away.
* `LockedOutByClash` names the one way, beside a deletion, to an agent that runs and is
  refused: two requests write the same row, the later one from an older copy of it. An
  agent never notices: it keeps its state files and asks on.
* A crash that empties the agent's node id stops every further start with a
  `ValueError`, one that empties its public key with a refusal of the server. `AgentJoins`
  leaves these two out; an empty token or server key heals by itself.
* `GoneLeavesNoSpace` leaves one overlap out: a deletion of a user whose registration
  has not made the space yet. `ErasedIsArchived` leaves out the files that enter
  the space after the archive has listed it.

### Bounds

* Two threads are two `def` handlers at the same moment, which with the upload
  handler and the agent's own steps is every pairwise race in the code; the proofs
  remove the bound. Each run allows one or two requests of a kind and one fault of
  a kind, so that the fault hits at every point of the requests of its run
  (`ft_network`: upload, deletion, download; `ft_faults`: upload, deletion, edit).
  `MaxFile` leaves room for the rows that heartbeats re-insert, `MaxJob` for each
  request's job; steps that would exceed them are not taken.
* `Chunks = 2` has a chunk that others follow and a last one, and a body that is read
  on a thread; with `Pool = 2` and two downloads the pool is exhausted, with `Pool = 3`
  it is not. `MaxLate = 1`: a second late fetch does
  what the first does. The proofs remove the bounds for the safety properties.
* In `Placement` a megabyte is two bytes, so one of the two uploads is rounded up.
  Volumes hold one upload, or the second only if the first was the smaller.
  The installations are chosen at the start: each has one of the troubles (volumes that
  come and go, failures, edits, a limit with a record), and the files it concerns, since
  all of them at once are out of TLC's reach. `MaxJobs = 2`: a deletion begins behind at
  most one job of the node, often enough for an erase job behind its store job. The
  proofs hold for installations with every trouble and for every bound.
* `MCAccessControl`: an employee, an administrator of group 1 and a super_admin. Three
  groups are a parent, a child and a grandchild; `MaxRule = 7` is the three rules of the
  seed, their repetitions after a restart and what requests add; three requests on two
  threads are a check, a change that it overlaps and a change before it. The proofs
  remove every one of these bounds.
* `RG_join`: with two threads an abandoned registration goes on beside the next one, or
  beside an administrator's edit; three faults lose a file, an answer and the second
  attempt. The proofs remove the bounds for the safety properties.
* `MCUserLifecycle`: four settings, each with the two or three requests that can meet:
  registrations with a rename, a deletion and a removal of the space; two deletions of
  one user; the same with new settings; an archive into the space of another user who is
  deleted too. Four files are two stored ones and two archives. The proofs remove the
  bounds, and hold for every setting in which the names of the users are distinct.

### Fairness

* `FileTransfer`: weak fairness of the agent's loop (it catches every exception and
  never ends), of the event loop's handler and of every thread (the pool runs the
  requests it has). Users and faults owe nothing.
* `DownloadProxy`: in addition strong fairness for those who need a thread, since the
  pool's limiter serves its waiting line in order and a stream gives its thread up
  again and again; the 120 s timer goes off; a client reads on or leaves, and a session
  whose client has left is outside the liveness properties.
* `Registration`: weak fairness of the agent, which systemd starts again whenever it
  ends (`Restart=always`), and of every handler, which the pool runs. Faults are bounded
  and administrators owe nothing.

## 5. Properties that are not obvious

`Durable` is the central one: until somebody asks to delete a file, its accepted upload
is on the server, ready to be fetched, or complete on the node. The server unlinks
its copy in `mark_job_result` on the agent's word, and reports can be late or belong to
an abandoned request, so the word must have been true and stay true. `WipedStaysWiped`
is the other side: no late handler brings bytes back. `HandedInOrder` is what both
rest on: `fetch_next_for_node` selects and updates in two statements, and the handler of
an abandoned fetch still never gives the agent a job twice or out of order.
`OnlyStaleEditsTurnBack`: `FileRepository.update` writes every column of the row it has
read, so a stored file can fall back to `pending`; nothing but such an edit does it.

`DenialHolds` and `RightHolds` compare one decision with the whole time it took: a rule
counts only if it, the group and the membership it reaches the asker by were there from
the request's first step on. The reads come in an order in which the walk up is taken
from a tree that may have lost groups since, so neither is obvious: a child whose parent
is deleted loses what it inherited at a moment that the check may or may not see.
`WalksAgree` and `OutsideUntouched` tie the two walks, up for rights and down for scopes.

`SameNodeAgain` relates what the agent has on its disk to what the server answers after
any number of crashes and abandoned registrations: its volumes and files are rows of
that node, so becoming another one would lose them. `KeysFit` relates three places a key
is kept in, which are written at different times by processes that may die in between.

`ErasedIsArchived` needs the copies of the files to be on the server when the archive is
packed, although another deletion may take a copy, the agent may report a file again, and
new settings may switch the archive on or off between the steps.

## 6. Proofs

TLAPS proves, for every value of the constants that the named assumptions allow
(`ThreadAssumption`: `NoThread` is not a thread, `BoundAssumption`: the bounds are natural
numbers, `AccessAssumption`: the seed's groups and resources are there and nobody asks
to delete them, `RegistrationAssumption`: the bounds are natural numbers,
`PoolAssumption`: a pool has a thread, `ChunksAssumption` and `FaultAssumption`: the
numbers of chunks, late fetches and faults are natural, `FileAssumption`: there are
finitely many files, none of them empty, `VolumeAssumption` and `SettingAssumption`: a
volume has a node and a quota, a limit is a natural number, `UserLifecycleAssumption`: ids
count from 1, and the users a setting starts with have names of their own, as the table's
`UNIQUE` has it):

| Module | Theorem | |
|---|---|---|
| `FileTransfer_proofs` | `TypeCorrect`, `InOrder`, `WipedForGood` | `Spec => []TypeOK`, `HandedInOrder`, `[]WipedStaysWiped` |
| `FileTransfer_custody` | `Durability`, `Refinement` | `Spec => []Durable`, `Spec => KeepsCustody` |
| `FileTransfer_rows` | `ActiveHasBytes`, `ActiveHasAll`, `RowsTurnBack`, `OneRow`, `StrandedCosts`, `Inductive` | `Spec => []ActiveOnNode`, `[]ActiveIsWhole`, `OnlyStaleEditsTurnBack`, `[]OneRowPerPath`, `[]StrandedByFaults`, `[]IInv` |
| `Placement_proofs` | `PlacementTyped`, `LimitHolds`, `DisksFit`, `RemovedDrain` | `Spec => []TypeOK`, `[]UploadsWithinLimit`, `[]DiskFits`, `[]RemovedVolumesDrain` |
| `AccessControl_proofs` | `TypeCorrect`, `DenialsHold`, `RightsHold`, `LastWordStands`, `WalksAgreed`, `OutsidersKeptOut` | `Spec => []TypeOK`, `[]DenialHolds`, `RightHolds`, `[]OneRulePerResource`, `[]WalksAgree`, `[]OutsideUntouched` |
| `Registration_proofs` | `RegistrationTyped`, `LoopStaysKnown`, `KeysOfLoopFit`, `RegistersAsBefore` | `Spec => []TypeOK`, `[]LockedOutByClash`, `[]KeysFit`, `[]SameNodeAgain` |
| `DownloadProxy_proofs` | `ProxyTyped`, `EndIsWhole`, `TimeoutsHaveCauses` | `Spec => []TypeOK`, `[]EndMeansWhole`, `TimeoutsExplained` |
| `UserLifecycle_proofs` | `AccountsTypeCorrect`, `UsersHaveSpace`, `DeletionIsComplete`, `NothingLostUnarchived` | `Spec => []TypeOK`, `[]HasSpace`, `[]GoneLeavesNoSpace`, `ErasedIsArchived` |

### FileTransfer

`IInv` (module `FileTransferInv`) is the inductive invariant, and `ft_network` checks it
with TLC. None of the promises is inductive alone. The argument:

1. *Places* (`HandlersWf`, `UploadWf`, `AgentWf`): what a handler holds exists; the
   agent works on the job it was handed last, by that job's type.
2. *Queue* (`QueueOrder`): every job up to the last handed one has left the queue; a
   fetch about to take a job has everything before it out of the queue, and the
   agent's own fetch brings a newer job; reports are about jobs already handed and
   never about the one the agent is storing. This gives `HandedInOrder`.
3. *Stores* (`StoresDistinct`, `WipedWf`): store jobs have paths and temporary files of
   their own; with the order of the queue, a store never follows the delete that was
   queued behind it. This gives `WipedStaysWiped`.
4. *Deletions and blobs* (`BlobsWf`, `DeletesWf`, `DeletesAsked`): a blob, and what a
   deletion has listed, belongs to the file of its store job, so nothing but a
   requested deletion unlinks the server's copy.
5. *Reports* (`UploadHeld`, `ReportsTrue`): from the end of the transfer to the consumed
   blob, a report of success means the node has all bytes. This gives `Durable`.
6. *Unwritten*: before its job has been run a path holds no complete file, so accepting
   an upload never looks like storing it. This gives the steps of `Custody`.
7. *Rows* (`RowInv`): a row keeps its path but for edits, and no row shows the path of an
   upload that has not written it. Whatever says that a file is there (the agent's list,
   what a heartbeat carries, a report, a handler that completes a job, an active row) says
   so of a path that is `Kept`: complete on the node, a part left by a broken transfer or
   a crash, or asked to be deleted. Nothing un-keeps a path, as the agent writes one only
   while it stores it and erases only what was asked for. This gives `ActiveOnNode`, and
   `ActiveIsWhole` where nothing leaves parts. What an edit and an upload hold of a row
   (`EditsFit`, `UploadUnseen`) gives `OnlyStaleEditsTurnBack`.
8. *One row for each path* (`OneRowInv`): what is on the disk or listed belongs to a store
   job, whose row has the path by then, so a heartbeat finds that row; and as long as no
   heartbeat has been abandoned they come one at a time, so what one has looked up and not
   found is still not there when it inserts (`NewRows`). This gives `OneRowPerPath`.
9. *Jobs at risk* (`RiskInv`): `StrandedByFaults` is not inductive, as a fetch that was
   abandoned strands its job only later. `AtRisk` are the jobs in progress that the agent
   does not work on and the fetch handlers it no longer waits for; a step adds to it only
   together with a fault, or turns an abandoned fetch into the job it takes.
   `AgentAwaits`, which handler the agent waits for, is what keeps the two apart.

The three modules build on each other in the order of the table.

### Placement

`PInv` is `TypeOK`, `JobsAtHome` (a job waits at the node of its volume) and eight parts.
Its idea is `After(v, k)`: what is on a volume once the
first `k` jobs of its node are done, and `Final(v)`, when all are. Both leave the files in
`spared` out: a failing job adds one to `spared` at the moment it departs from `After`.

1. `OneSpot`, `Births`, `StoredFirst`: a file's row, its jobs, its bytes and the volume its
   handler has chosen are one volume; before its row is inserted there is no trace of it;
   until its handler queues the store job there are no bytes, and if there is an erase job
   the file is in `spared`; every other file is stored ahead of its erase job. With them a
   heartbeat puts back only rows of one volume each, which `TypeOK` says.
2. `Rowed`: what will be on a volume has its row there, and nobody is deleting that row:
   a deletion has queued the erase job first, or spared the file. So the account of the
   rows covers `Final`, though rows go before bytes; and a volume without rows has an erase
   job behind everything but what is spared, which gives `RemovedVolumesDrain`.
3. `OneUpload`, `LimitKept`: from its check to its insert no other upload is under way, so
   what it has counted still bounds what uploads own. This gives `UploadsWithinLimit`.
4. `RoomLeft`, `QueueFits`: the room that a request has read is room beside `Final`, and
   only its own `QueueStore` adds to `Final`; running a job never leaves more on a volume
   than `After` foresaw. For `k = 0` this is `DiskFits`.

Sums over files are `MapThenSumSet`, a recursive function on finite sets. The library's
induction theorems cannot be used here, so a fact about sums is proved by the smallest set
for which it fails: the subset ordering of a finite set is well founded, and taking one
element away from that set leads to a contradiction (`SmallestSubset`, `SumRemove`).

### AccessControl

`Shape` is `TypeOK`, the seed's groups (`SeedKept`), the requests (`Asking`) and which
operation can be at which step (`OnRoute`); it is inductive alone. Without it a rule could
name a group that is gone. `Watched` says what a check has in hand: whatever has been in
force all along (`InForce`) is a live rule of a group that is still above a group of the
asker; once the memberships are read, that group is among them; once its ancestors are
read, the group of the rule is among what the check has collected. So at `ReadRules` the
rule is among the rows that decide, and a denial decides against, a permission decides
for unless there is a denial. `LastWordStands` needs only that `Granted` replaces the row
of an equal target.

`WalksAgreed` and `OutsidersKeptOut` rest on `Older`: a group's id is greater than its
parent's, and no id is used twice. The tree may change in no other way than that a new
group comes below one that is there, or that the children of a deleted one become roots
(`TreeSteps`). A walk up is a function that is recursive in the parent; that it exists,
and what it returns, is proved by the least group for which it would be wrong
(`SmallestNumber`, `UpExists`, `UpWalk`). The walk down counts its steps, at most one for
each group; it has met a group after as many steps as the group's id, which `Older` makes
enough (`DownWalk`, `TreeWalksAgree`). The walk up from a group never grows
(`WalksShrink`), so `StaysOut` is inductive: a group that was outside the asker's scope at
his request stays outside, even when it or the scope is deleted, and `can_manage_group`
then lets no request on to its count or its write (`OutOfScope`, `DownStays`).

### Registration

`RInv` is `TypeOK` and four parts, none of which is inductive alone:

1. `FilesInOrder`: the token is written before the node id, a process on its way to
   register has no node id, and only one that waits has a handler.
2. `KeysMatch`: until the keys are renewed, the public key is missing, empty or that of
   the private one, the agent has it from its first request on, a registration carries
   that key, and so does the row unless handlers wrote over each other (`clashed`) or an
   administrator gave the row its key (`typed`). The crash at each file is the hard
   case: an empty file must not count as a key, nor be followed by a second pair. An edit
   without a key writes back the one it has read, which without an overlap is the row's
   (`KeyWritten`).
3. `HandlersFit`: a handler carries the token of the row it has read, or a new one for a
   row without, and updates the row it has read first; a row it reads again has a token,
   unless there was an overlapping write.
4. `TokensFit`: without an overlapping write a row with a token has a key, and without a
   deletion the token on the disk, and that of an agent past its answer, is the row's.

The three properties follow from these in one step each.

### DownloadProxy

`DInv` is `TypeOK` and six parts:

1. `JobsOnce`, `AgentWaits`, `SendersFit`: a download has one job, nothing has been sent
   for it before the agent takes that job, the agent stays with a download until its
   handler has answered, and a handler puts nothing after an end mark. Without them two
   senders could fill one queue.
2. `QueuesFit`: while a session lives, its queue is the piece of the file that follows what
   the stream has taken (`Got`), the next chunk of the sender follows the queue, an end
   mark stands where the file ends or behind an error, and the job is queued, with the
   agent, with the handler, done or dropped (`Placed`).
3. `Beginnings`: a client has a beginning of the file, and all of it after an end mark.
   This is `EndMeansWhole`.
4. `PoolHolds`: the threads held are at most those of the pool. An idle timer that goes
   off finds its queue empty, so by `Placed` its job is somewhere that can move unless
   every thread is held; this gives `TimeoutsExplained`.

### UserLifecycle

`UInv` is `TypeOK` and ten parts. The hard case throughout is another request on the same
user or space between two transactions:

1. `UsersOfRequests`, `FreeIsUnused`, `OneMaker`: a user is made by one registration,
   which finds no space and no group of an earlier one under its id.
2. `SetupsFit`, `NamesFit`: how far that registration is tells which of the space, the
   group, the binding and the grants are there; a path is taken only by a space whose
   user was renamed, as names are taken once. These give `HasSpace`. `TypeOK` itself
   needs them: a row's owner and home exist, so no user leaves rows behind (`Shrink`).
3. `DeletionsFit`, `GoneForGood`: a deletion that has found no space knows that none comes
   later, unless it is one of the observed overlaps (`raced`). These give
   `GoneLeavesNoSpace`, because having no space and nobody who makes one is stable.
4. `ArchiveCovers`, `HeldIsStored`: while an archive is on, every file of the space is
   listed for it, held by a stored archive, or came after the listing. What a deletion
   erases is among these, which gives `ErasedIsArchived`.

Each proof has a step per action, and `Spec => ...` by temporal induction from the
state formulas.

Only model-checked: liveness, which is out of the prover's reach. Every safety and action
property that the passing runs check is stated by one of the theorems above.

## 7. Not modelled

* SSH nodes: file transfers refuse them. Connectors run commands on a remote host.
* Access checks inside the transfer, the placement and the life cycle: a refused
  request changes nothing there.
* Share links: each request writes one row once. Two requests that share one file may
  both answer with a link of which the second stays.
* Provisioning: a job makes the directory and writes a new `.volume_meta.json`. The
  models start with volumes that are provisioned. Updates of quotas.
* Blocking users, roles and passwords; the seed's users. A user who acts is not deleted
  in `UserLifecycle`, and users do not come and go in `AccessControl`.
* A second agent under the same name in `Registration` (no request changes a node's
  name).
* The excuses of `LockedOutByClash` and `KeysFit` are what the code does not prevent: two
  handlers that overlap on a row may take its token back, and a `PUT /nodes/{id}` with
  an `agent_public_key` leaves the server encrypting its jobs for that key although the
  agent, which never registers again, has another.
* `delete_group` counts the members of a group and deletes it in another transaction, so
  a membership bound in between is lost. `AccessControl` has both steps and the loss; no
  property is stated about it, since the code promises nothing beyond the count.
* `OneRowPerPath` says nothing once an answer was lost or the agent has died: two
  heartbeats that overlap can insert two rows for one path.
* In `Placement`, handlers that the agent has given up on and its torn metadata:
  `FileTransfer` has them. A second row of one file, which a heartbeat inserts when the
  first has lost its path, is merged with the first; one edit and one deletion of a file
  at a time.
* `DiskFits` and `RemovedVolumesDrain` say nothing of the files a deletion has spared,
  and `DiskFits` nothing of edited ones, whose status can be set to "deleted" by hand:
  their bytes stay without an account and without a job, and can exceed the quota.
* Authentication: passwords and signed tokens are functions of their input and the
  clock. The audit log and the dashboard: nothing reads them back into a decision.
  Migrations run before the first request. OpenPGP helpers call a library.
  The front end keeps no state.
