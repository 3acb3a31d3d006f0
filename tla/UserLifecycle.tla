---------------------------- MODULE UserLifecycle ----------------------------
(***************************************************************************)
(* The life of an account: registration makes a user, a personal space      *)
(* (a resource), a personal group and four grants, in transactions of their *)
(* own; deletion archives the space if the settings say so, erases the       *)
(* files one by one, and then the space and the user.  Administrators       *)
(* register, rename and delete users, remove spaces and change the           *)
(* settings, users store files, and the agent collects, deletes and reports *)
(* files, between any two of these steps; a restart ends every request.      *)
(*                                                                         *)
(* The administrator who acts is not deleted.  The transfer of an upload is *)
(* FileTransfer's: here its bytes are on the node at once.  Whether an       *)
(* upload finds room and rights is left open.                                *)
(***************************************************************************)
EXTENDS Integers, FiniteSets

CONSTANTS
  Handler,  \* the threads that run the requests of administrators and users
  User,     \* the ids of users, in the order they are given
  Name,     \* the user names
  File,     \* the files and archives that may be stored, in this order
  Setting   \* initial users, initial archive settings and budgets of requests

\* The owner of what no user owns, the resource that is nobody's, and no resource.
Operator == 0
Shared == 0
None == -1

Home == User \cup {Shared}
Archive == [enabled : BOOLEAN, dest : Home \cup {None}]
Budget == {"register", "rename", "delete", "store", "settings", "remove", "relist", "restart"}

\* The names of the users in the table are distinct: users.name is UNIQUE.
ASSUME UserLifecycleAssumption ==
  /\ User \subseteq Nat \ {0} /\ File \subseteq Nat \ {0}
  /\ \A s \in Setting : /\ s.users \subseteq User /\ s.names \in [s.users -> Name]
                        /\ \A u, v \in s.users : s.names[u] = s.names[v] => u = v
                        /\ s.archive \in Archive /\ s.budget \in [Budget -> Nat]

VARIABLES
  users,    \* the table users
  space,    \* the personal resources
  group,    \* the personal groups: whether the user is bound, and the grants
  row,      \* the table files
  blob,     \* the files of which a collected copy is ready on the server
  collects, \* how many collect_file jobs of a file are queued
  deletes,  \* the files with a queued delete_file job
  node,     \* the files whose bytes the node has and reports
  origin,   \* the first row of a file, which the node's metadata repeat
  archive,  \* the settings of the archive
  handler,  \* the requests under way
  budget    \* what is left of the budgets

\* Observations that the program does not keep.
VARIABLES
  holds,     \* what each archive was made of
  renamed,   \* the users who have been renamed
  condemned, \* the users whose files or space are being deleted: no refusal any more
  cut,       \* the users whose registration a restart or a taken path has cut off
  raced,     \* the users whose deletion looked for the space before it was made
  late       \* the files that entered the space after a deletion had listed it

stored == <<row, blob, collects, deletes, node, origin, holds>>
accounts == <<users, space, group>>
seen == <<renamed, condemned, cut, raced, late>>
vars == <<accounts, stored, archive, handler, budget, seen>>

Account == [state : {"free", "here", "gone"}, name : Name \cup {"none"}]
Nobody == [state |-> "free", name |-> "none"]
Group == [state : {"none", "made", "bound"}, grants : 0..4]
NoGroup == [state |-> "none", grants |-> 0]
Row == [owner : User \cup {Operator}, home : Home, path : BOOLEAN]
NoRow == [owner |-> Operator, home |-> None, path |-> FALSE]

RegisterPc == {"check", "insert", "resource", "group", "bind", "grant"}
DeletePc == {"user", "settings", "space", "list", "fetch", "wait", "pack",
             "owned", "others", "clear", "erase", "drop", "end"}
\* has tells whether the user has a space, phase which of its two lists of files a deletion erases; listed and
\* packed are the rows of the archive and the ones it has got.
Request ==
  [pc : RegisterPc \cup DeletePc \cup {"idle", "store"}, user : User \cup {Operator},
   name : Name \cup {"none"}, home : Home, archive : Archive, has : BOOLEAN,
   phase : {"owned", "others"},
   todo : SUBSET File, listed : SUBSET File, packed : SUBSET File, file : File \cup {0}]
NoArchive == [enabled |-> FALSE, dest |-> None]
Idle ==
  [pc |-> "idle", user |-> Operator, name |-> "none", home |-> Shared, archive |-> NoArchive,
   has |-> FALSE, phase |-> "owned", todo |-> {}, listed |-> {}, packed |-> {}, file |-> 0]

Here(name) == {u \in User : users[u].state = "here" /\ users[u].name = name}
Living == {u \in User : users[u].state = "here"}
Spaces == {u \in User : space[u].state = "here"} \cup {Shared}
Unused == {f \in File : origin[f] = NoRow}
Complete == [state |-> "bound", grants |-> 4]

Init ==
  /\ \E s \in Setting :
       LET given == [u \in User |-> IF u \in s.users
                                    THEN [state |-> "here", name |-> s.names[u]]
                                    ELSE Nobody] IN
       /\ users = given /\ space = given
       /\ group = [u \in User |-> IF u \in s.users THEN Complete ELSE NoGroup]
       /\ archive = s.archive /\ budget = s.budget
  /\ row = [f \in File |-> NoRow] /\ origin = row
  /\ blob = {} /\ deletes = {} /\ node = {}
  /\ collects = [f \in File |-> 0]
  /\ handler = [h \in Handler |-> Idle]
  /\ holds = [f \in File |-> {}]
  /\ renamed = {} /\ condemned = {} /\ cut = {} /\ raced = {}
  /\ late = [h \in Handler |-> {}]

Spend(what) == budget[what] > 0 /\ budget' = [budget EXCEPT ![what] = @ - 1]
Goto(h, pc) == handler' = [handler EXCEPT ![h].pc = pc]
Finish(h) == handler' = [handler EXCEPT ![h] = Idle]
\* A request is accepted by a thread that is free.
Accept(h, request, what) ==
  /\ handler[h] = Idle /\ Spend(what)
  /\ handler' = [handler EXCEPT ![h] = request]

-----------------------------------------------------------------------------
(* Plausible bugs; the runs tell each of them from the code. *)

Grants_NoDelete == 3
Deletable_Any(u) == space[u].state = "here"
Whole_Any(r) == TRUE

(* The code. *)

\* view, read, write and delete.
Grants == 4

\* resources.path is UNIQUE; the code of a space, made of the user's id, never
\* collides, since ids are not used again.
TakesPath(u, name) == \E v \in User \ {u} : space[v].state = "here" /\ space[v].name = name

\* Foreign keys keep a space with a file in it, and a user who owns one.
Deletable(u) == space[u].state = "here" /\ \A f \in File : row[f].home # u

\* FileRepository.list_by_owner, list_by_resource.
Owned(u) == {f \in File : row[f] # NoRow /\ row[f].owner = u}
Listed(u) == {f \in File : row[f].home = u}

\* delete_user goes on only with every listed file in the archive.
Whole(r) == r.packed = r.listed

-----------------------------------------------------------------------------
(* Registration *)

Register(h, name) ==
  /\ Accept(h, [Idle EXCEPT !.pc = "check", !.name = name], "register")
  /\ UNCHANGED <<accounts, stored, archive, seen>>

CheckName(h) ==
  /\ handler[h].pc = "check"
  /\ IF Here(handler[h].name) = {} THEN Goto(h, "insert") ELSE Finish(h)
  /\ UNCHANGED <<accounts, stored, archive, budget, seen>>

\* users.name is UNIQUE, and ids are given in ascending order.
InsertUser(h) ==
  LET name == handler[h].name IN
  /\ handler[h].pc = "insert"
  /\ IF Here(name) # {}
     THEN Finish(h) /\ UNCHANGED users
     ELSE \E u \in User :
            /\ users[u].state = "free" /\ \A v \in User : v < u => users[v].state # "free"
            /\ users' = [users EXCEPT ![u] = [state |-> "here", name |-> name]]
            /\ handler' = [handler EXCEPT ![h].pc = "resource", ![h].user = u]
  /\ UNCHANGED <<space, group, stored, archive, budget, seen>>

\* A taken path ends the request: the user stays without a space.  It is no
\* surprise if one of the two users has been renamed or the other is gone.
CreateSpace(h) ==
  LET u == handler[h].user
      name == handler[h].name IN
  /\ handler[h].pc = "resource"
  /\ IF TakesPath(u, name)
     THEN /\ Finish(h) /\ UNCHANGED space
          /\ cut' = IF \E v \in User \ {u} : /\ space[v].state = "here" /\ space[v].name = name
                                             /\ {u, v} \cap renamed # {} \/ v \notin Living
                    THEN cut \cup {u} ELSE cut
     ELSE /\ space' = [space EXCEPT ![u] = [state |-> "here", name |-> name]]
          /\ Goto(h, "group") /\ UNCHANGED cut
  /\ UNCHANGED <<users, group, stored, archive, budget, renamed, condemned, raced, late>>

CreateGroup(h) ==
  /\ handler[h].pc = "group"
  /\ group' = [group EXCEPT ![handler[h].user].state = "made"]
  /\ Goto(h, "bind")
  /\ UNCHANGED <<users, space, stored, archive, budget, seen>>

\* Only a user who is still there can be bound.
BindUser(h) ==
  LET u == handler[h].user IN
  /\ handler[h].pc = "bind"
  /\ IF u \in Living
     THEN group' = [group EXCEPT ![u].state = "bound"] /\ Goto(h, "grant")
     ELSE UNCHANGED group /\ Finish(h)
  /\ UNCHANGED <<users, space, stored, archive, budget, seen>>

\* A grant needs its resource; the last one ends the registration.
GrantNext(h) ==
  LET u == handler[h].user IN
  /\ handler[h].pc = "grant"
  /\ IF space[u].state = "here"
     THEN /\ group' = [group EXCEPT ![u].grants = @ + 1]
          /\ IF group[u].grants + 1 = Grants THEN Finish(h) ELSE UNCHANGED handler
     ELSE UNCHANGED group /\ Finish(h)
  /\ UNCHANGED <<users, space, stored, archive, budget, seen>>

-----------------------------------------------------------------------------
(* Administrators and users *)

\* PUT /auth/users/{id}: the space keeps its path.
Rename(u, name) ==
  /\ u \in Living /\ Here(name) = {} /\ Spend("rename")
  /\ users' = [users EXCEPT ![u].name = name]
  /\ renamed' = renamed \cup {u}
  /\ UNCHANGED <<space, group, stored, archive, handler, condemned, cut, raced, late>>

\* PUT /admin/settings: the destination must exist.
SaveSettings(a) ==
  /\ a # archive /\ a.dest \in Spaces \cup {None} /\ Spend("settings")
  /\ archive' = a
  /\ UNCHANGED <<accounts, stored, handler, seen>>

\* DELETE /acl/resources/{id}, with the grants on it.
Dropped(u) == /\ space' = [space EXCEPT ![u].state = "gone"]
              /\ group' = [group EXCEPT ![u].grants = 0]

RemoveSpace(u) ==
  /\ Deletable(u) /\ Spend("remove")
  /\ Dropped(u)
  /\ condemned' = condemned \cup {u}
  /\ UNCHANGED <<users, stored, archive, handler, renamed, cut, raced, late>>

\* POST /files and /files/upload: the owner has been read, the row comes later.
Store(h, owner, home) ==
  /\ owner \in Living \cup {Operator} /\ home \in Spaces
  /\ Accept(h, [Idle EXCEPT !.pc = "store", !.user = owner, !.home = home], "store")
  /\ UNCHANGED <<accounts, stored, archive, seen>>

\* A new row, whose owner and resource are there.  Deletions of the resource's
\* user that have listed its files do not know of it.
EraseFirst == {"user", "settings", "space", "list"}
Enter(f, r) ==
  /\ row' = [row EXCEPT ![f] = r]
  /\ late' = [h \in Handler |->
       IF handler[h].pc \in DeletePc \ EraseFirst /\ handler[h].user = r.home
       THEN late[h] \cup {f} ELSE late[h]]

NewRow(f, r) ==
  /\ f \in Unused /\ \A g \in Unused : f <= g
  /\ Enter(f, r)
  /\ origin' = [origin EXCEPT ![f] = r]
  /\ node' = IF r.path THEN node \cup {f} ELSE node
  /\ UNCHANGED <<blob, collects, deletes>>

\* POST /files makes a record without bytes, POST /files/upload a file.
StoreFile(h) ==
  LET r == handler[h] IN
  /\ r.pc = "store"
  /\ Finish(h)
  /\ IF r.user \in Living \cup {Operator} /\ r.home \in Spaces
     THEN \E f \in File, path \in BOOLEAN :
            NewRow(f, [owner |-> r.user, home |-> r.home, path |-> path])
     ELSE UNCHANGED <<row, origin, node, blob, collects, deletes, late>>
  /\ UNCHANGED <<accounts, archive, budget, holds, renamed, condemned, cut, raced>>

-----------------------------------------------------------------------------
(* Deletion: the archive *)

Delete(h, u) ==
  /\ users[u].state # "free"
  /\ Accept(h, [Idle EXCEPT !.pc = "user", !.user = u], "delete")
  /\ UNCHANGED <<accounts, stored, archive, seen>>

\* What a step of a deletion leaves alone, if it only reads.
Reads == UNCHANGED <<accounts, stored, archive, budget, renamed, cut>>

ReadUser(h) ==
  /\ handler[h].pc = "user"
  /\ IF handler[h].user \in Living THEN Goto(h, "settings") ELSE Finish(h)
  /\ Reads /\ UNCHANGED <<condemned, raced, late>>

\* get_user_archive_settings: a destination that has gone is none.
ReadSettings(h) ==
  /\ handler[h].pc = "settings"
  /\ handler' = [handler EXCEPT ![h].pc = "space", ![h].archive =
                   [archive EXCEPT !.dest = IF @ \in Spaces THEN @ ELSE None]]
  /\ Reads /\ UNCHANGED <<condemned, raced, late>>

Registering(u) == \E h \in Handler : handler[h].pc \in RegisterPc /\ handler[h].user = u

\* Refused without a destination, or with the space itself for one.
ReadSpace(h) ==
  LET r == handler[h]
      has == space[r.user].state = "here"
      refused == r.archive.enabled /\ (r.archive.dest = None \/ (has /\ r.archive.dest = r.user))
      packs == r.archive.enabled /\ has IN
  /\ r.pc = "space"
  /\ IF refused THEN Finish(h)
     ELSE handler' = [handler EXCEPT ![h].pc = IF packs THEN "list" ELSE "owned", ![h].has = has]
  /\ condemned' = IF refused \/ packs THEN condemned ELSE condemned \cup {r.user}
  /\ raced' = IF ~ has /\ Registering(r.user) THEN raced \cup {r.user} ELSE raced
  /\ late' = [late EXCEPT ![h] = {}]
  /\ Reads

ListFiles(h) ==
  LET rows == Listed(handler[h].user) IN
  /\ handler[h].pc = "list"
  /\ handler' = [handler EXCEPT ![h].pc = "fetch", ![h].todo = rows, ![h].listed = rows]
  /\ late' = [late EXCEPT ![h] = {}]
  /\ Reads /\ UNCHANGED <<condemned, raced>>

\* A file without a copy on the server is asked for from its node; a record has
\* nothing to ask for.
FetchBlob(h) ==
  LET r == handler[h]
      step(pc, f) == handler' = [handler EXCEPT ![h].pc = pc, ![h].file = f, ![h].todo = @ \ {f}] IN
  /\ r.pc = "fetch" /\ r.todo # {}
  /\ \E f \in r.todo :
       \/ f \in blob /\ step("pack", f) /\ UNCHANGED collects
       \/ f \notin blob /\ ~ origin[f].path /\ step("fetch", f) /\ UNCHANGED collects
       \/ /\ f \notin blob /\ origin[f].path /\ step("wait", f)
          /\ collects' = [collects EXCEPT ![f] = @ + 1]
  /\ UNCHANGED <<row, blob, deletes, node, origin, holds>>
  /\ UNCHANGED <<accounts, archive, budget, seen>>

\* The copy arrives, or the deadline passes, whenever that is.
AwaitBlob(h) ==
  LET r == handler[h] IN
  /\ r.pc = "wait"
  /\ \/ r.file \in blob /\ Goto(h, "pack")
     \/ Goto(h, "fetch")
  /\ Reads /\ UNCHANGED <<condemned, raced, late>>

\* The copy goes into the archive and is consumed, unless it has gone meanwhile.
PackBlob(h) ==
  LET f == handler[h].file IN
  /\ handler[h].pc = "pack"
  /\ handler' = [handler EXCEPT ![h].pc = "fetch",
                                ![h].packed = IF f \in blob THEN @ \cup {f} ELSE @]
  /\ blob' = blob \ {f}
  /\ UNCHANGED <<row, collects, deletes, node, origin, holds>>
  /\ UNCHANGED <<accounts, archive, budget, seen>>

\* An incomplete archive, or one that create_uploaded_file refuses, ends the
\* request before anything is deleted.
UploadArchive(h) ==
  LET r == handler[h] IN
  /\ r.pc = "fetch" /\ r.todo = {}
  /\ \/ /\ Finish(h)
        /\ UNCHANGED <<stored, condemned, late>>
     \/ /\ Whole(r) /\ r.archive.dest \in Spaces
        /\ \E a \in File :
             /\ NewRow(a, [owner |-> Operator, home |-> r.archive.dest, path |-> TRUE])
             /\ holds' = [holds EXCEPT ![a] = r.packed]
        /\ Goto(h, "owned")
        /\ condemned' = condemned \cup {r.user}
  /\ UNCHANGED <<accounts, archive, budget, renamed, cut, raced>>

-----------------------------------------------------------------------------
(* Deletion: the files, the space and the user *)

ListOwned(h) ==
  /\ handler[h].pc = "owned"
  /\ handler' = [handler EXCEPT ![h].pc = "clear", ![h].phase = "owned",
                                ![h].todo = Owned(handler[h].user)]
  /\ Reads /\ UNCHANGED <<condemned, raced, late>>

\* Files of others in the space.
ListOthers(h) ==
  LET u == handler[h].user IN
  /\ handler[h].pc = "others"
  /\ handler' = [handler EXCEPT ![h].pc = "clear", ![h].phase = "others",
                                ![h].todo = {f \in Listed(u) : row[f].owner # u}]
  /\ Reads /\ UNCHANGED <<condemned, raced, late>>

FilesErased(h) ==
  LET r == handler[h] IN
  /\ r.pc = "clear" /\ r.todo = {}
  /\ Goto(h, IF ~ r.has THEN "end" ELSE IF r.phase = "owned" THEN "others" ELSE "drop")
  /\ Reads /\ UNCHANGED <<condemned, raced, late>>

\* delete_file up to its last step: the job for the node, and the copies.
ClearFile(h) ==
  /\ handler[h].pc = "clear"
  /\ \E f \in handler[h].todo :
       IF row[f] = NoRow
       THEN handler' = [handler EXCEPT ![h].todo = @ \ {f}] /\ UNCHANGED <<deletes, blob>>
       ELSE /\ handler' = [handler EXCEPT ![h].pc = "erase", ![h].file = f, ![h].todo = @ \ {f}]
            /\ deletes' = IF row[f].path THEN deletes \cup {f} ELSE deletes
            /\ blob' = blob \ {f}
  /\ UNCHANGED <<row, collects, node, origin, holds>>
  /\ UNCHANGED <<accounts, archive, budget, seen>>

\* The row, which a copy that has arrived in between keeps by its foreign key.
EraseRow(h) ==
  LET f == handler[h].file IN
  /\ handler[h].pc = "erase"
  /\ IF f \in blob /\ row[f] # NoRow
     THEN Finish(h) /\ UNCHANGED row
     ELSE row' = [row EXCEPT ![f] = NoRow] /\ Goto(h, "clear")
  /\ UNCHANGED <<blob, collects, deletes, node, origin, holds>>
  /\ UNCHANGED <<accounts, archive, budget, seen>>

DropSpace_GoOn(h) ==
  LET u == handler[h].user IN
  /\ handler[h].pc = "drop" /\ Goto(h, "end")
  /\ IF Deletable(u) THEN Dropped(u) ELSE UNCHANGED <<space, group>>
  /\ UNCHANGED <<users, stored, archive, budget, seen>>

\* A space that files keep, or that has gone already, ends the request.
DropSpace(h) ==
  LET u == handler[h].user IN
  /\ handler[h].pc = "drop"
  /\ IF Deletable(u)
     THEN Dropped(u) /\ Goto(h, "end")
     ELSE UNCHANGED <<space, group>> /\ Finish(h)
  /\ UNCHANGED <<users, stored, archive, budget, seen>>

\* The membership goes with the user, the personal group stays.
DropUser(h) ==
  LET u == handler[h].user IN
  /\ handler[h].pc = "end"
  /\ Finish(h)
  /\ IF u \in Living /\ Owned(u) = {}
     THEN /\ users' = [users EXCEPT ![u].state = "gone"]
          /\ group' = [group EXCEPT ![u].state = IF @ = "bound" THEN "made" ELSE @]
     ELSE UNCHANGED <<users, group>>
  /\ UNCHANGED <<space, stored, archive, budget, seen>>

-----------------------------------------------------------------------------
(* The node and the server's process *)

AgentOnly == UNCHANGED <<accounts, archive, handler>>

\* The copy of a file that has no row any more is refused.
AgentCollect(f) ==
  /\ collects[f] > 0
  /\ collects' = [collects EXCEPT ![f] = @ - 1]
  /\ blob' = IF f \in node /\ row[f] # NoRow THEN blob \cup {f} ELSE blob
  /\ AgentOnly /\ UNCHANGED <<row, deletes, node, origin, holds, budget, seen>>

AgentDelete(f) ==
  /\ f \in deletes
  /\ deletes' = deletes \ {f} /\ node' = node \ {f}
  /\ AgentOnly /\ UNCHANGED <<row, blob, collects, origin, holds, budget, seen>>

\* A heartbeat that lists a file without a row makes one, for the administrator
\* or in the shared resource if the file's user or resource has gone.
Relist(f) ==
  LET o == origin[f] IN
  /\ f \in node /\ row[f] = NoRow /\ Spend("relist")
  /\ Enter(f, [o EXCEPT !.owner = IF @ \in Living THEN @ ELSE Operator,
                        !.home = IF @ \in Spaces THEN @ ELSE Shared])
  /\ AgentOnly /\ UNCHANGED <<blob, collects, deletes, node, origin, holds>>
  /\ UNCHANGED <<renamed, condemned, cut, raced>>

ServerRestart ==
  /\ Spend("restart")
  /\ handler' = [h \in Handler |-> Idle]
  /\ cut' = cut \cup {u \in User : Registering(u)}
  /\ UNCHANGED <<accounts, stored, archive, renamed, condemned, raced, late>>

-----------------------------------------------------------------------------
RegisterStep(h) == CheckName(h) \/ InsertUser(h) \/ CreateSpace(h) \/ CreateGroup(h)
                   \/ BindUser(h) \/ GrantNext(h)
DeleteStep(h) == \/ ReadUser(h) \/ ReadSettings(h) \/ ReadSpace(h) \/ ListFiles(h)
                 \/ FetchBlob(h) \/ AwaitBlob(h) \/ PackBlob(h) \/ UploadArchive(h)
                 \/ ListOwned(h) \/ ListOthers(h) \/ FilesErased(h) \/ ClearFile(h)
                 \/ EraseRow(h) \/ DropSpace(h) \/ DropUser(h)
HandlerStep(h) == RegisterStep(h) \/ DeleteStep(h) \/ StoreFile(h)

Next ==
  \/ \E h \in Handler :
       \/ HandlerStep(h)
       \/ \E name \in Name : Register(h, name)
       \/ \E u \in User : Delete(h, u)
       \/ \E owner \in User \cup {Operator}, home \in Home : Store(h, owner, home)
  \/ \E u \in User : RemoveSpace(u) \/ \E name \in Name : Rename(u, name)
  \/ \E a \in Archive : SaveSettings(a)
  \/ \E f \in File : AgentCollect(f) \/ AgentDelete(f) \/ Relist(f)
  \/ ServerRestart

Spec == Init /\ [][Next]_vars

-----------------------------------------------------------------------------
(* Properties *)

\* Every file has an owner and a resource that are there.
TypeOK ==
  /\ \A f \in File : row[f] = NoRow \/ (row[f].owner \in Living \cup {Operator} /\ row[f].home \in Spaces)
  /\ users \in [User -> Account] /\ space \in [User -> Account] /\ group \in [User -> Group]
  /\ row \in [File -> Row \cup {NoRow}] /\ origin \in [File -> Row \cup {NoRow}]
  /\ blob \subseteq File /\ deletes \subseteq File /\ node \subseteq File
  /\ collects \in [File -> Nat] /\ holds \in [File -> SUBSET File]
  /\ archive \in Archive /\ budget \in [Budget -> Nat]
  /\ handler \in [Handler -> Request]
  /\ renamed \subseteq User /\ condemned \subseteq User /\ cut \subseteq User
  /\ raced \subseteq User /\ late \in [Handler -> SUBSET File]

\* Every user has a usable personal space as soon as the registration ends,
\* and a refused deletion leaves it: only a restart or a space that kept an old
\* name cuts a registration off, and only a deletion past its archive, or an
\* administrator, takes a space away.
HasSpace ==
  \A u \in Living \ (condemned \cup cut) :
    Registering(u) \/ (space[u].state = "here" /\ group[u] = Complete)

\* A deleted user leaves no space behind, and none can be made later, unless
\* the deletion looked for it before the registration had made it.
GoneLeavesNoSpace ==
  \A u \in User : users[u].state = "gone" /\ u \notin raced => space[u].state # "here"

\* With the archive on, a deletion erases a file of the space only if an
\* uploaded archive holds it or it came after the files were listed, whoever
\* owns it, and whatever other deletions and the agent do meanwhile.
ErasedIsArchived ==
  [][\A h \in Handler, f \in File :
       LET r == handler[h] IN
       /\ r.pc = "erase" /\ r.file = f /\ r.archive.enabled
       /\ row[f].home = r.user /\ row'[f] = NoRow
       => f \in late[h] \/ \E a \in File : f \in holds[a]]_vars
=============================================================================
