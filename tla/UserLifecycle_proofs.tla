-------------------------- MODULE UserLifecycle_proofs --------------------------
(***************************************************************************)
(* For any requests at once, any users, names and files: a registered user   *)
(* has a usable space, a deleted one leaves none, and what a deletion erases  *)
(* from a space is in an archive or came too late for it.                     *)
(***************************************************************************)
EXTENDS UserLifecycle, TLAPS
-----------------------------------------------------------------------------
(* The inductive invariant *)

\* What registration does for a user who has been inserted.
Setup == {"resource", "group", "bind", "grant"}
\* A deletion that has looked for the space, and one that erases.
Looked == DeletePc \ {"user", "settings", "space"}
Erasing == {"owned", "others", "clear", "erase", "drop", "end"}
Fetching == {"fetch", "wait", "pack"}

\* The user has no space and is not about to get one.
NoSpace(u) ==
  /\ space[u].state # "here"
  /\ \A h \in Handler : ~ (handler[h].pc = "resource" /\ handler[h].user = u)

\* A request is about a user who has been there, or about none.
UsersOfRequests ==
  \A h \in Handler :
    /\ handler[h].pc \in {"check", "insert"} => handler[h].user = Operator
    /\ handler[h].pc \in Setup \cup DeletePc =>
         handler[h].user \in User /\ users[handler[h].user].state # "free"

OneMaker ==
  \A h, k \in Handler :
    /\ handler[h].pc \in Setup /\ handler[k].pc \in Setup
    /\ handler[h].user = handler[k].user
    => h = k

\* How far the registration of a user has come.
Registered(h, u) ==
  /\ handler[h].pc = "resource" =>
       /\ space[u].state = "free" /\ group[u] = NoGroup
       /\ u \notin renamed => handler[h].name = users[u].name
  /\ handler[h].pc = "group" => group[u] = NoGroup
  /\ handler[h].pc = "bind" => group[u] = [state |-> "made", grants |-> 0]
  /\ handler[h].pc = "grant" => group[u].grants < Grants /\ (u \in Living => group[u].state = "bound")
  /\ handler[h].pc # "resource" => space[u].state = "here" \/ u \in condemned

SetupsFit == \A h \in Handler : handler[h].pc \in Setup => Registered(h, handler[h].user)

FreeIsUnused ==
  \A u \in User : users[u].state = "free" => space[u].state = "free" /\ group[u] = NoGroup

\* Names are taken once; a space has the name of its user, until that changes.
NamesFit ==
  /\ \A u, v \in Living : users[u].name = users[v].name => u = v
  /\ \A u \in User : space[u].state = "here" /\ u \notin renamed => space[u].name = users[u].name

\* A deletion knows whether there is a space that must go with the user.
DeletionsFit ==
  \A h \in Handler :
    LET r == handler[h] IN
    /\ r.pc \in Erasing => r.user \in condemned
    /\ r.pc \in Looked /\ ~ r.has => r.user \in raced \/ NoSpace(r.user)
    /\ r.pc = "end" /\ r.has => NoSpace(r.user)

GoneForGood == \A u \in User : users[u].state = "gone" => u \in raced \/ NoSpace(u)

\* What the archive holds, lists or has come too late for.
ArchiveCovers ==
  \A h \in Handler :
    LET r == handler[h] IN
    r.pc \in DeletePc \ EraseFirst /\ r.archive.enabled =>
      \A f \in File :
        row[f].home = r.user =>
          \/ f \in late[h]
          \/ r.pc \in Fetching /\ f \in r.listed
          \/ \E a \in File : f \in holds[a]

HeldIsStored == \A a \in File : holds[a] # {} => origin[a] # NoRow

UInv ==
  /\ TypeOK /\ UsersOfRequests /\ OneMaker /\ SetupsFit /\ FreeIsUnused /\ NamesFit
  /\ HasSpace /\ DeletionsFit /\ GoneForGood /\ ArchiveCovers /\ HeldIsStored

-----------------------------------------------------------------------------
(* What the steps of a request do to it *)

Pcs == RegisterPc \cup DeletePc \cup {"idle", "store"}

\* Users are numbers from 1, and the request that stands for none.
LEMMA Basics ==
  /\ Operator \notin User /\ None \notin Home /\ User \subseteq Nat /\ NoRow \notin Row
  /\ NoRow.home \notin Home /\ Spaces \subseteq Home /\ Living \subseteq User
  /\ Idle \in Request /\ Idle.pc = "idle" /\ Idle.user = Operator
<1>1. Operator \notin User /\ None \notin Home /\ User \subseteq Nat
  BY UserLifecycleAssumption DEF Operator, None, Home, Shared
<1>2. NoRow.home \notin Home /\ NoRow \notin Row
  BY <1>1 DEF NoRow, Row
<1>3. NoArchive \in Archive
  BY DEF NoArchive, Archive
<1>4. Idle \in Request
  BY <1>3 DEF Idle, Request, Home, Operator
<1> QED BY <1>1, <1>2, <1>4 DEF Idle, Spaces, Living, Home

\* Only the request of h moves.
Moves(h) ==
  /\ handler' \in [Handler -> Request]
  /\ \A k \in Handler : k # h => handler'[k] = handler[k]

\* A step that keeps whom the request is about and what it has found.
Keeps(h) ==
  /\ handler'[h].user = handler[h].user /\ handler'[h].archive = handler[h].archive
  /\ handler'[h].has = handler[h].has /\ handler'[h].listed = handler[h].listed

LEMMA Becomes ==
  ASSUME handler \in [Handler -> Request], NEW h \in Handler, NEW r \in Request,
         handler' = [handler EXCEPT ![h] = r]
  PROVE  Moves(h) /\ handler'[h] = r
BY DEF Moves

LEMMA GotoMoves ==
  ASSUME handler \in [Handler -> Request], NEW h \in Handler, NEW pc \in Pcs, Goto(h, pc)
  PROVE  Moves(h) /\ Keeps(h) /\ handler'[h].pc = pc /\ handler'[h].name = handler[h].name
         /\ handler'[h].packed = handler[h].packed
<1> DEFINE r == [handler[h] EXCEPT !.pc = pc]
<1>1. handler' = [handler EXCEPT ![h] = r] /\ handler[h] \in Request
  BY DEF Goto
<1>2. /\ r \in Request /\ r.pc = pc /\ r.user = handler[h].user /\ r.archive = handler[h].archive
      /\ r.has = handler[h].has /\ r.listed = handler[h].listed /\ r.name = handler[h].name
      /\ r.packed = handler[h].packed
  BY <1>1 DEF Request, Pcs
<1> HIDE DEF r
<1> QED BY <1>1, <1>2, Becomes DEF Keeps

LEMMA FinishMoves ==
  ASSUME handler \in [Handler -> Request], NEW h \in Handler, Finish(h)
  PROVE  Moves(h) /\ handler'[h] = Idle
BY Basics, Becomes DEF Finish

\* The requests as they are accepted.
LEMMA AcceptMoves ==
  ASSUME TypeOK, NEW h \in Handler
  PROVE  /\ \A name \in Name : Register(h, name) =>
              /\ Moves(h) /\ handler[h] = Idle
              /\ handler'[h].pc = "check" /\ handler'[h].user = Operator
         /\ \A u \in User : Delete(h, u) =>
              /\ Moves(h) /\ handler[h] = Idle /\ users[u].state # "free"
              /\ handler'[h].pc = "user" /\ handler'[h].user = u
         /\ \A owner \in User \cup {Operator}, home \in Home : Store(h, owner, home) =>
              /\ Moves(h) /\ handler[h] = Idle /\ handler'[h].pc = "store"
<1>0. handler \in [Handler -> Request]
  BY DEF TypeOK
<1>1. ASSUME NEW name \in Name, Register(h, name)
      PROVE  Moves(h) /\ handler[h] = Idle /\ handler'[h].pc = "check" /\ handler'[h].user = Operator
  <2> DEFINE r == [Idle EXCEPT !.pc = "check", !.name = name]
  <2>1. r \in Request /\ r.pc = "check" /\ r.user = Operator
    BY Basics DEF Request, RegisterPc
  <2>2. handler' = [handler EXCEPT ![h] = r] /\ handler[h] = Idle
    BY <1>1 DEF Register, Accept
  <2> HIDE DEF r
  <2> QED BY <1>0, <2>1, <2>2, Becomes
<1>2. ASSUME NEW u \in User, Delete(h, u)
      PROVE  /\ Moves(h) /\ handler[h] = Idle /\ users[u].state # "free"
             /\ handler'[h].pc = "user" /\ handler'[h].user = u
  <2> DEFINE r == [Idle EXCEPT !.pc = "user", !.user = u]
  <2>1. r \in Request /\ r.pc = "user" /\ r.user = u
    BY Basics DEF Request, DeletePc
  <2>2. handler' = [handler EXCEPT ![h] = r] /\ handler[h] = Idle /\ users[u].state # "free"
    BY <1>2 DEF Delete, Accept
  <2> HIDE DEF r
  <2> QED BY <1>0, <2>1, <2>2, Becomes
<1>3. ASSUME NEW owner \in User \cup {Operator}, NEW home \in Home, Store(h, owner, home)
      PROVE  Moves(h) /\ handler[h] = Idle /\ handler'[h].pc = "store"
  <2> DEFINE r == [Idle EXCEPT !.pc = "store", !.user = owner, !.home = home]
  <2>1. r \in Request /\ r.pc = "store"
    BY Basics DEF Request
  <2>2. handler' = [handler EXCEPT ![h] = r] /\ handler[h] = Idle
    BY <1>3 DEF Store, Accept
  <2> HIDE DEF r
  <2> QED BY <1>0, <2>1, <2>2, Becomes
<1> QED BY <1>1, <1>2, <1>3

\* Registration, step by step.
LEMMA RegisterMoves ==
  ASSUME TypeOK, NEW h \in Handler
  PROVE  /\ CheckName(h) => /\ Moves(h) /\ handler[h].pc = "check"
                            /\ \/ handler'[h] = Idle
                               \/ handler'[h].pc = "insert" /\ handler'[h].user = handler[h].user
         /\ InsertUser(h) =>
              /\ Moves(h) /\ handler[h].pc = "insert"
              /\ \/ handler'[h] = Idle /\ users' = users
                 \/ \E u \in User :
                      /\ users[u].state = "free" /\ Here(handler[h].name) = {}
                      /\ users' = [users EXCEPT ![u] = [state |-> "here", name |-> handler[h].name]]
                      /\ handler'[h].pc = "resource" /\ handler'[h].user = u
                      /\ handler'[h].name = handler[h].name
         /\ CreateSpace(h) =>
              /\ Moves(h) /\ handler[h].pc = "resource"
              /\ \/ handler'[h] = Idle /\ space' = space /\ TakesPath(handler[h].user, handler[h].name)
                 \/ Keeps(h) /\ handler'[h].pc = "group" /\ cut' = cut
         /\ CreateGroup(h) => Moves(h) /\ handler[h].pc = "group" /\ Keeps(h) /\ handler'[h].pc = "bind"
         /\ BindUser(h) =>
              /\ Moves(h) /\ handler[h].pc = "bind"
              /\ \/ handler'[h] = Idle /\ handler[h].user \notin Living /\ group' = group
                 \/ Keeps(h) /\ handler'[h].pc = "grant" /\ handler[h].user \in Living
         /\ GrantNext(h) => /\ Moves(h) /\ handler[h].pc = "grant"
                            /\ handler'[h] = Idle \/ handler' = handler
         /\ StoreFile(h) => Moves(h) /\ handler'[h] = Idle
<1>0. handler \in [Handler -> Request] /\ handler[h] \in Request
  BY DEF TypeOK
<1>1. CheckName(h) => /\ Moves(h) /\ handler[h].pc = "check"
                      /\ \/ handler'[h] = Idle
                         \/ handler'[h].pc = "insert" /\ handler'[h].user = handler[h].user
  BY <1>0, GotoMoves, FinishMoves DEF CheckName, Keeps, Pcs, RegisterPc
<1>2. ASSUME InsertUser(h)
      PROVE  /\ Moves(h) /\ handler[h].pc = "insert"
             /\ \/ handler'[h] = Idle /\ users' = users
                \/ \E u \in User :
                      /\ users[u].state = "free" /\ Here(handler[h].name) = {}
                      /\ users' = [users EXCEPT ![u] = [state |-> "here", name |-> handler[h].name]]
                      /\ handler'[h].pc = "resource" /\ handler'[h].user = u
                      /\ handler'[h].name = handler[h].name
  <2>1. CASE Here(handler[h].name) # {}
    BY <1>0, <1>2, <2>1, FinishMoves DEF InsertUser
  <2>2. CASE Here(handler[h].name) = {}
    <3>1. PICK u \in User :
            /\ users[u].state = "free"
            /\ users' = [users EXCEPT ![u] = [state |-> "here", name |-> handler[h].name]]
            /\ handler' = [handler EXCEPT ![h].pc = "resource", ![h].user = u]
      BY <1>2, <2>2 DEF InsertUser
    <3> DEFINE r == [handler[h] EXCEPT !.pc = "resource", !.user = u]
    <3>2. r \in Request /\ r.pc = "resource" /\ r.user = u /\ r.name = handler[h].name
      BY <1>0 DEF Request, RegisterPc
    <3>3. handler' = [handler EXCEPT ![h] = r]
      BY <1>0, <3>1
    <3> HIDE DEF r
    <3>4. Moves(h) /\ handler'[h] = r
      BY <1>0, <3>2, <3>3, Becomes
    <3> QED BY <1>2, <2>2, <3>1, <3>2, <3>4 DEF InsertUser
  <2> QED BY <2>1, <2>2
<1>3. CreateSpace(h) =>
        /\ Moves(h) /\ handler[h].pc = "resource"
        /\ \/ handler'[h] = Idle /\ space' = space /\ TakesPath(handler[h].user, handler[h].name)
           \/ Keeps(h) /\ handler'[h].pc = "group" /\ cut' = cut
  BY <1>0, GotoMoves, FinishMoves DEF CreateSpace, Pcs, RegisterPc
<1>6. CreateGroup(h) => Moves(h) /\ handler[h].pc = "group" /\ Keeps(h) /\ handler'[h].pc = "bind"
  BY <1>0, GotoMoves DEF CreateGroup, Pcs, RegisterPc
<1>7. BindUser(h) =>
        /\ Moves(h) /\ handler[h].pc = "bind"
        /\ \/ handler'[h] = Idle /\ handler[h].user \notin Living /\ group' = group
           \/ Keeps(h) /\ handler'[h].pc = "grant" /\ handler[h].user \in Living
  BY <1>0, GotoMoves, FinishMoves DEF BindUser, Pcs, RegisterPc
<1>4. GrantNext(h) => /\ Moves(h) /\ handler[h].pc = "grant"
                      /\ handler'[h] = Idle \/ handler' = handler
  BY <1>0, FinishMoves DEF GrantNext, Moves
<1>5. StoreFile(h) => Moves(h) /\ handler'[h] = Idle
  BY <1>0, FinishMoves DEF StoreFile
<1> QED BY <1>1, <1>2, <1>3, <1>4, <1>5, <1>6, <1>7

\* Deletion, up to the list of the files for the archive.
LEMMA ArchiveMoves ==
  ASSUME TypeOK, NEW h \in Handler
  PROVE  /\ ReadUser(h) => /\ Moves(h)
                           /\ handler'[h] = Idle \/ (Keeps(h) /\ handler'[h].pc = "settings")
         /\ ReadSettings(h) => /\ Moves(h) /\ handler'[h].pc = "space"
                               /\ handler'[h].user = handler[h].user
         /\ ReadSpace(h) =>
              /\ Moves(h)
              /\ \/ handler'[h] = Idle /\ condemned' = condemned
                 \/ /\ handler'[h].user = handler[h].user /\ handler'[h].archive = handler[h].archive
                    /\ handler'[h].has <=> space[handler[h].user].state = "here"
                    /\ \/ handler'[h].pc = "list" /\ handler'[h].has /\ condemned' = condemned
                       \/ /\ handler'[h].pc = "owned"
                          /\ condemned' = condemned \cup {handler[h].user}
                          /\ handler[h].archive.enabled => ~ handler'[h].has
         /\ ListFiles(h) => /\ Moves(h) /\ handler'[h].pc = "fetch"
                            /\ handler'[h].user = handler[h].user
                            /\ handler'[h].archive = handler[h].archive
                            /\ handler'[h].has = handler[h].has
                            /\ handler'[h].listed = Listed(handler[h].user)
<1>0. handler \in [Handler -> Request] /\ handler[h] \in Request
  BY DEF TypeOK
<1>1. ReadUser(h) => /\ Moves(h)
                     /\ handler'[h] = Idle \/ (Keeps(h) /\ handler'[h].pc = "settings")
  BY <1>0, GotoMoves, FinishMoves DEF ReadUser, Pcs, DeletePc
<1>2. ASSUME ReadSettings(h)
      PROVE  Moves(h) /\ handler'[h].pc = "space" /\ handler'[h].user = handler[h].user
  <2> DEFINE a == [archive EXCEPT !.dest = IF @ \in Spaces THEN @ ELSE None]
             r == [handler[h] EXCEPT !.pc = "space", !.archive = a]
  <2>1. a \in Archive
    BY DEF TypeOK, Archive
  <2>2. handler' = [handler EXCEPT ![h] = r]
    BY <1>0, <1>2 DEF ReadSettings
  <2> HIDE DEF a
  <2>3. r \in Request /\ r.pc = "space" /\ r.user = handler[h].user
    BY <1>0, <2>1 DEF Request, DeletePc
  <2> HIDE DEF r
  <2> QED BY <1>0, <2>2, <2>3, Becomes
<1>3. ASSUME ReadSpace(h)
      PROVE  /\ Moves(h)
             /\ \/ handler'[h] = Idle /\ condemned' = condemned
                \/ /\ handler'[h].user = handler[h].user /\ handler'[h].archive = handler[h].archive
                   /\ handler'[h].has <=> space[handler[h].user].state = "here"
                   /\ \/ handler'[h].pc = "list" /\ handler'[h].has /\ condemned' = condemned
                      \/ /\ handler'[h].pc = "owned"
                         /\ condemned' = condemned \cup {handler[h].user}
                         /\ handler[h].archive.enabled => ~ handler'[h].has
  <2> DEFINE has == space[handler[h].user].state = "here"
             refused == /\ handler[h].archive.enabled
                        /\ \/ handler[h].archive.dest = None
                           \/ has /\ handler[h].archive.dest = handler[h].user
             packs == handler[h].archive.enabled /\ has
             pc == IF packs THEN "list" ELSE "owned"
             r == [handler[h] EXCEPT !.pc = pc, !.has = has]
  <2>1. CASE refused
    BY <1>0, <1>3, <2>1, FinishMoves DEF ReadSpace
  <2>2. CASE ~ refused
    <3>1. handler' = [handler EXCEPT ![h].pc = pc, ![h].has = has]
      BY <1>3, <2>2 DEF ReadSpace
    <3>2. condemned' = IF packs THEN condemned ELSE condemned \cup {handler[h].user}
      BY <1>3, <2>2 DEF ReadSpace
    <3>3. has \in BOOLEAN /\ pc \in DeletePc
      BY DEF DeletePc
    <3>4. /\ packs => pc = "list" /\ has
          /\ ~ packs => pc = "owned"
          /\ ~ packs /\ handler[h].archive.enabled => ~ has
      OBVIOUS
    <3>5. handler' = [handler EXCEPT ![h] = r]
      BY <1>0, <3>1
    <3> HIDE DEF has, pc, packs
    <3>6. r \in Request
      BY <1>0, <3>3 DEF Request
    <3>7. r.pc = pc /\ r.has = has /\ r.user = handler[h].user /\ r.archive = handler[h].archive
      BY <1>0 DEF Request
    <3> HIDE DEF r
    <3>8. Moves(h) /\ handler'[h] = r
      BY <1>0, <3>5, <3>6, Becomes
    <3>9. handler'[h].has <=> has
      BY <3>7, <3>8
    <3>10. CASE packs
      BY <3>2, <3>4, <3>7, <3>8, <3>9, <3>10 DEF has
    <3>11. CASE ~ packs
      BY <3>2, <3>4, <3>7, <3>8, <3>9, <3>11 DEF has
    <3> QED BY <3>10, <3>11
  <2> QED BY <2>1, <2>2
<1>4. ASSUME ListFiles(h)
      PROVE  /\ Moves(h) /\ handler'[h].pc = "fetch" /\ handler'[h].user = handler[h].user
             /\ handler'[h].archive = handler[h].archive /\ handler'[h].has = handler[h].has
             /\ handler'[h].listed = Listed(handler[h].user)
  <2> DEFINE rows == Listed(handler[h].user)
             r == [handler[h] EXCEPT !.pc = "fetch", !.todo = rows, !.listed = rows]
  <2>1. rows \subseteq File
    BY DEF Listed
  <2>2. handler' = [handler EXCEPT ![h] = r]
    BY <1>0, <1>4 DEF ListFiles
  <2> HIDE DEF rows
  <2>3. /\ r \in Request /\ r.pc = "fetch" /\ r.user = handler[h].user
        /\ r.archive = handler[h].archive /\ r.has = handler[h].has /\ r.listed = rows
    BY <1>0, <2>1 DEF Request, DeletePc
  <2> HIDE DEF r
  <2> QED BY <1>0, <2>2, <2>3, Becomes DEF rows
<1> QED BY <1>1, <1>2, <1>3, <1>4

\* Deletion, from the files' copies to the user.
LEMMA EraseMoves ==
  ASSUME TypeOK, NEW h \in Handler
  PROVE  /\ FetchBlob(h) \/ AwaitBlob(h) \/ PackBlob(h) =>
              /\ Moves(h) /\ Keeps(h)
              /\ handler[h].pc \in Fetching /\ handler'[h].pc \in Fetching
         /\ UploadArchive(h) =>
              /\ Moves(h) /\ handler[h].pc = "fetch"
              /\ handler'[h] = Idle \/ (Keeps(h) /\ handler'[h].pc = "owned")
         /\ ListOwned(h) \/ ListOthers(h) =>
              Moves(h) /\ Keeps(h) /\ handler'[h].pc = "clear"
         /\ ClearFile(h) => Moves(h) /\ Keeps(h) /\ handler'[h].pc \in {"clear", "erase"}
         /\ FilesErased(h) =>
              /\ Moves(h) /\ Keeps(h) /\ handler'[h].pc \in {"others", "drop", "end"}
              /\ handler[h].has => handler'[h].pc # "end"
         /\ EraseRow(h) => /\ Moves(h)
                           /\ handler'[h] = Idle \/ (Keeps(h) /\ handler'[h].pc = "clear")
         /\ DropSpace(h) =>
              /\ Moves(h)
              /\ \/ handler'[h] = Idle /\ UNCHANGED <<space, group>>
                 \/ Keeps(h) /\ handler'[h].pc = "end" /\ Deletable(handler[h].user) /\ Dropped(handler[h].user)
         /\ DropUser(h) => Moves(h) /\ handler'[h] = Idle
<1>0. handler \in [Handler -> Request] /\ handler[h] \in Request
  BY DEF TypeOK
<1>1. ASSUME FetchBlob(h) PROVE Moves(h) /\ Keeps(h) /\ handler'[h].pc \in Fetching
  <2>1. PICK pc \in Fetching, f \in handler[h].todo :
          handler' = [handler EXCEPT ![h].pc = pc, ![h].file = f, ![h].todo = @ \ {f}]
    BY <1>1 DEF FetchBlob, Fetching
  <2> DEFINE r == [handler[h] EXCEPT !.pc = pc, !.file = f, !.todo = @ \ {f}]
  <2>2. handler' = [handler EXCEPT ![h] = r]
    BY <1>0, <2>1
  <2>3. handler[h].todo \subseteq File /\ pc \in DeletePc
    BY <1>0 DEF Request, Fetching, DeletePc
  <2>4. /\ r \in Request /\ r.pc = pc /\ r.user = handler[h].user /\ r.has = handler[h].has
        /\ r.archive = handler[h].archive /\ r.listed = handler[h].listed
    BY <1>0, <2>3 DEF Request
  <2> HIDE DEF r
  <2> QED BY <1>0, <2>2, <2>4, Becomes DEF Keeps
<1>2. AwaitBlob(h) => Moves(h) /\ Keeps(h) /\ handler'[h].pc \in Fetching
  BY <1>0, GotoMoves DEF AwaitBlob, Fetching, Pcs, DeletePc
<1>3. ASSUME PackBlob(h) PROVE Moves(h) /\ Keeps(h) /\ handler'[h].pc \in Fetching
  <2>1. handler[h].packed \subseteq File /\ handler[h].file \in File \cup {0} /\ blob \subseteq File
    BY <1>0 DEF Request, TypeOK
  <2> DEFINE p == IF handler[h].file \in blob THEN handler[h].packed \cup {handler[h].file}
                                              ELSE handler[h].packed
             r == [handler[h] EXCEPT !.pc = "fetch", !.packed = p]
  <2>2. p \subseteq File
    BY <2>1
  <2>3. handler' = [handler EXCEPT ![h] = r]
    BY <1>0, <1>3 DEF PackBlob
  <2> HIDE DEF p
  <2>4. /\ r \in Request /\ r.pc = "fetch" /\ r.user = handler[h].user /\ r.has = handler[h].has
        /\ r.archive = handler[h].archive /\ r.listed = handler[h].listed
    BY <1>0, <2>2 DEF Request, DeletePc
  <2> HIDE DEF r
  <2> QED BY <1>0, <2>3, <2>4, Becomes DEF Keeps, Fetching
<1>4. UploadArchive(h) =>
        /\ Moves(h) /\ handler[h].pc = "fetch"
        /\ handler'[h] = Idle \/ (Keeps(h) /\ handler'[h].pc = "owned")
  BY <1>0, GotoMoves, FinishMoves DEF UploadArchive, Pcs, DeletePc
<1>5. ASSUME ListOwned(h) \/ ListOthers(h)
      PROVE  Moves(h) /\ Keeps(h) /\ handler'[h].pc = "clear"
  <2>1. PICK phase \in {"owned", "others"}, todo \in SUBSET File :
          handler' = [handler EXCEPT ![h].pc = "clear", ![h].phase = phase, ![h].todo = todo]
    <3>1. /\ Owned(handler[h].user) \in SUBSET File
          /\ {f \in Listed(handler[h].user) : row[f].owner # handler[h].user} \in SUBSET File
      BY DEF Owned, Listed
    <3>2. CASE ListOwned(h)
      BY <3>1, <3>2 DEF ListOwned
    <3>3. CASE ListOthers(h)
      BY <3>1, <3>3 DEF ListOthers
    <3> QED BY <1>5, <3>2, <3>3
  <2> DEFINE r == [handler[h] EXCEPT !.pc = "clear", !.phase = phase, !.todo = todo]
  <2>2. handler' = [handler EXCEPT ![h] = r]
    BY <1>0, <2>1
  <2>3. /\ r \in Request /\ r.pc = "clear" /\ r.user = handler[h].user /\ r.has = handler[h].has
        /\ r.archive = handler[h].archive /\ r.listed = handler[h].listed
    BY <1>0 DEF Request, DeletePc
  <2> HIDE DEF r
  <2> QED BY <1>0, <2>2, <2>3, Becomes DEF Keeps
<1>6. ASSUME ClearFile(h) PROVE Moves(h) /\ Keeps(h) /\ handler'[h].pc \in {"clear", "erase"}
  <2>1. PICK f \in handler[h].todo :
          \/ handler' = [handler EXCEPT ![h].todo = @ \ {f}] /\ handler[h].pc = "clear"
          \/ handler' = [handler EXCEPT ![h].pc = "erase", ![h].file = f, ![h].todo = @ \ {f}]
    BY <1>6 DEF ClearFile
  <2> DEFINE r == [handler[h] EXCEPT !.todo = @ \ {f}]
             s == [handler[h] EXCEPT !.pc = "erase", !.file = f, !.todo = @ \ {f}]
  <2>2. \/ handler' = [handler EXCEPT ![h] = r] /\ handler[h].pc = "clear"
        \/ handler' = [handler EXCEPT ![h] = s]
    BY <1>0, <2>1
  <2>3. handler[h].todo \subseteq File
    BY <1>0 DEF Request
  <2>4. /\ r \in Request /\ r.pc = handler[h].pc /\ r.user = handler[h].user /\ r.has = handler[h].has
        /\ r.archive = handler[h].archive /\ r.listed = handler[h].listed
    BY <1>0, <2>3 DEF Request
  <2>5. /\ s \in Request /\ s.pc = "erase" /\ s.user = handler[h].user /\ s.has = handler[h].has
        /\ s.archive = handler[h].archive /\ s.listed = handler[h].listed
    BY <1>0, <2>3 DEF Request, DeletePc
  <2> HIDE DEF r, s
  <2> QED BY <1>0, <2>2, <2>4, <2>5, Becomes DEF Keeps
<1>7. ASSUME FilesErased(h)
      PROVE  /\ Moves(h) /\ Keeps(h) /\ handler'[h].pc \in {"others", "drop", "end"}
             /\ handler[h].has => handler'[h].pc # "end"
  <2>1. PICK pc \in {"others", "drop", "end"} : Goto(h, pc) /\ (handler[h].has => pc # "end")
    <3>1. CASE handler[h].has
      BY <1>7, <3>1 DEF FilesErased
    <3>2. CASE ~ handler[h].has
      BY <1>7, <3>2 DEF FilesErased
    <3> QED BY <3>1, <3>2
  <2> QED BY <1>0, <2>1, GotoMoves DEF Pcs, DeletePc
<1>8. EraseRow(h) => /\ Moves(h)
                     /\ handler'[h] = Idle \/ (Keeps(h) /\ handler'[h].pc = "clear")
  BY <1>0, GotoMoves, FinishMoves DEF EraseRow, Pcs, DeletePc
<1>9. DropSpace(h) =>
        /\ Moves(h)
        /\ \/ handler'[h] = Idle /\ UNCHANGED <<space, group>>
           \/ Keeps(h) /\ handler'[h].pc = "end" /\ Deletable(handler[h].user) /\ Dropped(handler[h].user)
  BY <1>0, GotoMoves, FinishMoves DEF DropSpace, Pcs, DeletePc
<1>10. DropUser(h) => Moves(h) /\ handler'[h] = Idle
  BY <1>0, FinishMoves DEF DropUser
<1>11. FetchBlob(h) \/ AwaitBlob(h) \/ PackBlob(h) => handler[h].pc \in Fetching
  BY DEF FetchBlob, AwaitBlob, PackBlob, Fetching
<1> QED BY <1>1, <1>2, <1>3, <1>4, <1>5, <1>6, <1>7, <1>8, <1>9, <1>10, <1>11

-----------------------------------------------------------------------------
(* Type correctness *)

\* A request stays one.
LEMMA HandlerType ==
  ASSUME TypeOK, [Next]_vars
  PROVE  handler' \in [Handler -> Request]
<1>0. handler \in [Handler -> Request]
  BY DEF TypeOK
<1>1. ASSUME NEW h \in Handler, HandlerStep(h)
      PROVE  handler' \in [Handler -> Request]
  BY <1>1, RegisterMoves, ArchiveMoves, EraseMoves DEF HandlerStep, RegisterStep, DeleteStep, Moves
<1>2. ASSUME NEW h \in Handler,
             \/ \E name \in Name : Register(h, name)
             \/ \E u \in User : Delete(h, u)
             \/ \E owner \in User \cup {Operator}, home \in Home : Store(h, owner, home)
      PROVE  handler' \in [Handler -> Request]
  BY <1>2, AcceptMoves DEF Moves
<1>3. CASE ServerRestart
  BY <1>3, Basics DEF ServerRestart
<1>4. CASE UNCHANGED handler
  BY <1>0, <1>4
<1> QED
  BY <1>1, <1>2, <1>3, <1>4
     DEF Next, vars, RemoveSpace, Rename, SaveSettings, AgentCollect, AgentDelete, Relist, AgentOnly

\* The steps of a request that leave the accounts alone.
LEMMA AccountsKept ==
  ASSUME NEW h \in Handler
  PROVE  /\ CheckName(h) \/ StoreFile(h) => UNCHANGED <<users, space, group, renamed, condemned, cut, raced>>
         /\ \/ ReadUser(h) \/ ReadSettings(h) \/ ListFiles(h) \/ FetchBlob(h) \/ AwaitBlob(h) \/ PackBlob(h)
            \/ ListOwned(h) \/ ListOthers(h) \/ FilesErased(h) \/ ClearFile(h) \/ EraseRow(h)
            => UNCHANGED <<users, space, group, renamed, condemned, cut, raced>>
         /\ ReadSpace(h) \/ UploadArchive(h) => UNCHANGED <<users, space, group, renamed, cut>>
         /\ \A name \in Name : Register(h, name) =>
              UNCHANGED <<users, space, group, renamed, condemned, cut, raced>>
         /\ \A u \in User : Delete(h, u) =>
              UNCHANGED <<users, space, group, renamed, condemned, cut, raced>>
         /\ \A owner \in User \cup {Operator}, home \in Home : Store(h, owner, home) =>
              UNCHANGED <<users, space, group, renamed, condemned, cut, raced>>
<1>1. CheckName(h) \/ StoreFile(h) => UNCHANGED <<users, space, group, renamed, condemned, cut, raced>>
  BY DEF CheckName, StoreFile, accounts, seen
<1>2. ReadUser(h) \/ ReadSettings(h) \/ ListFiles(h) \/ AwaitBlob(h)
      => UNCHANGED <<users, space, group, renamed, condemned, cut, raced>>
  BY DEF ReadUser, ReadSettings, ListFiles, AwaitBlob, Reads, accounts
<1>3. FetchBlob(h) \/ PackBlob(h) \/ ClearFile(h) \/ EraseRow(h)
      => UNCHANGED <<users, space, group, renamed, condemned, cut, raced>>
  BY DEF FetchBlob, PackBlob, ClearFile, EraseRow, accounts, seen
<1>4. ListOwned(h) \/ ListOthers(h) \/ FilesErased(h)
      => UNCHANGED <<users, space, group, renamed, condemned, cut, raced>>
  BY DEF ListOwned, ListOthers, FilesErased, Reads, accounts
<1>5. ReadSpace(h) \/ UploadArchive(h) => UNCHANGED <<users, space, group, renamed, cut>>
  BY DEF ReadSpace, UploadArchive, Reads, accounts
<1>6. \A name \in Name : Register(h, name) =>
        UNCHANGED <<users, space, group, renamed, condemned, cut, raced>>
  BY DEF Register, accounts, seen
<1>7. \A u \in User : Delete(h, u) =>
        UNCHANGED <<users, space, group, renamed, condemned, cut, raced>>
  BY DEF Delete, accounts, seen
<1>8. \A owner \in User \cup {Operator}, home \in Home : Store(h, owner, home) =>
        UNCHANGED <<users, space, group, renamed, condemned, cut, raced>>
  BY DEF Store, accounts, seen
<1> QED BY <1>1, <1>2, <1>3, <1>4, <1>5, <1>6, <1>7, <1>8


\* A step that leaves the accounts alone, and the requests that set them up.
Quiet ==
  /\ UNCHANGED <<users, space, group, renamed, cut>>
  /\ condemned \subseteq condemned' /\ raced \subseteq raced'
  /\ \A h \in Handler : handler'[h] # handler[h] =>
       handler[h].pc \notin Setup /\ handler'[h].pc \notin Setup

AccountStep ==
  \/ \E h \in Handler : \/ InsertUser(h) \/ CreateSpace(h) \/ CreateGroup(h) \/ BindUser(h)
                        \/ GrantNext(h) \/ DropSpace(h) \/ DropUser(h)
  \/ \E u \in User : RemoveSpace(u) \/ \E name \in Name : Rename(u, name)
  \/ ServerRestart

LEMMA QuietMove ==
  ASSUME NEW h \in Handler, Moves(h), handler[h].pc \notin Setup, handler'[h].pc \notin Setup,
         UNCHANGED <<users, space, group, renamed, cut>>,
         condemned \subseteq condemned', raced \subseteq raced'
  PROVE  Quiet
BY DEF Quiet, Moves

LEMMA Cases ==
  ASSUME TypeOK, [Next]_vars
  PROVE  Quiet \/ AccountStep
<1>0. handler \in [Handler -> Request]
  BY DEF TypeOK
<1>a. \A pc \in DeletePc \cup {"check", "insert", "idle", "store"} : pc \notin Setup
  BY DEF DeletePc, Setup
<1>b. Idle.pc \notin Setup /\ Fetching \subseteq DeletePc
  BY Basics, <1>a DEF Fetching, DeletePc
<1>1. ASSUME NEW h \in Handler, CheckName(h) \/ StoreFile(h)
      PROVE  Quiet
  <2>1. handler[h].pc \notin Setup
    BY <1>1, <1>a DEF CheckName, StoreFile
  <2>2. Moves(h) /\ handler'[h].pc \notin Setup
    BY <1>1, <1>a, <1>b, RegisterMoves
  <2>3. UNCHANGED <<users, space, group, renamed, condemned, cut, raced>>
    BY <1>1, AccountsKept
  <2> QED BY <2>1, <2>2, <2>3, QuietMove
<1>2. ASSUME NEW h \in Handler, ReadUser(h) \/ ReadSettings(h) \/ ListFiles(h)
      PROVE  Quiet
  <2>1. handler[h].pc \notin Setup
    BY <1>2, <1>a DEF ReadUser, ReadSettings, ListFiles, DeletePc
  <2>2. Moves(h) /\ handler'[h].pc \notin Setup
    BY <1>2, <1>a, <1>b, ArchiveMoves DEF DeletePc
  <2>3. UNCHANGED <<users, space, group, renamed, condemned, cut, raced>>
    BY <1>2, AccountsKept
  <2> QED BY <2>1, <2>2, <2>3, QuietMove
<1>3. ASSUME NEW h \in Handler, FetchBlob(h) \/ AwaitBlob(h) \/ PackBlob(h)
      PROVE  Quiet
  <2>1. handler[h].pc \notin Setup /\ Moves(h) /\ handler'[h].pc \notin Setup
    BY <1>3, <1>a, <1>b, EraseMoves
  <2>3. UNCHANGED <<users, space, group, renamed, condemned, cut, raced>>
    BY <1>3, AccountsKept
  <2> QED BY <2>1, <2>3, QuietMove
<1>4. ASSUME NEW h \in Handler, ListOwned(h) \/ ListOthers(h) \/ FilesErased(h) \/ ClearFile(h) \/ EraseRow(h)
      PROVE  Quiet
  <2>1. handler[h].pc \in DeletePc
    BY <1>4 DEF ListOwned, ListOthers, FilesErased, ClearFile, EraseRow, DeletePc
  <2>2. Moves(h) /\ handler'[h].pc \notin Setup
    BY <1>4, <1>a, <1>b, EraseMoves DEF DeletePc
  <2>3. UNCHANGED <<users, space, group, renamed, condemned, cut, raced>>
    BY <1>4, AccountsKept
  <2> QED BY <1>a, <2>1, <2>2, <2>3, QuietMove
<1>5. ASSUME NEW h \in Handler, ReadSpace(h)
      PROVE  Quiet
  <2>1. handler[h].pc \in DeletePc
    BY <1>5 DEF ReadSpace, DeletePc
  <2>2. Moves(h) /\ handler'[h].pc \notin Setup
    BY <1>5, <1>a, <1>b, ArchiveMoves DEF DeletePc
  <2>3. condemned \subseteq condemned' /\ raced \subseteq raced'
    BY <1>5 DEF ReadSpace
  <2>4. UNCHANGED <<users, space, group, renamed, cut>>
    BY <1>5, AccountsKept
  <2> QED BY <1>a, <2>1, <2>2, <2>3, <2>4, QuietMove
<1>6. ASSUME NEW h \in Handler, UploadArchive(h)
      PROVE  Quiet
  <2>1. handler[h].pc \in DeletePc
    BY <1>6 DEF UploadArchive, DeletePc
  <2>2. Moves(h) /\ handler'[h].pc \notin Setup
    BY <1>6, <1>a, <1>b, EraseMoves DEF DeletePc
  <2>3. condemned \subseteq condemned' /\ raced \subseteq raced'
    BY <1>6 DEF UploadArchive
  <2>4. UNCHANGED <<users, space, group, renamed, cut>>
    BY <1>6, AccountsKept
  <2> QED BY <1>a, <2>1, <2>2, <2>3, <2>4, QuietMove
<1>7. ASSUME NEW h \in Handler,
             \/ \E name \in Name : Register(h, name)
             \/ \E u \in User : Delete(h, u)
             \/ \E owner \in User \cup {Operator}, home \in Home : Store(h, owner, home)
      PROVE  Quiet
  <2>1. Moves(h) /\ handler[h] = Idle /\ handler'[h].pc \in {"check", "user", "store"}
    BY <1>7, AcceptMoves
  <2>2. UNCHANGED <<users, space, group, renamed, condemned, cut, raced>>
    BY <1>7, AccountsKept
  <2>3. handler'[h].pc \notin Setup
    BY <2>1 DEF Setup
  <2> QED BY <1>b, <2>1, <2>2, <2>3, QuietMove
<1>8. CASE \/ \E a \in Archive : SaveSettings(a)
           \/ \E f \in File : AgentCollect(f) \/ AgentDelete(f) \/ Relist(f)
           \/ UNCHANGED vars
  BY <1>8 DEF Quiet, SaveSettings, AgentCollect, AgentDelete, Relist, AgentOnly, vars, accounts, seen
<1>9. ASSUME NEW h \in Handler, HandlerStep(h)
      PROVE  Quiet \/ AccountStep
  BY <1>1, <1>2, <1>3, <1>4, <1>5, <1>6, <1>9 DEF HandlerStep, RegisterStep, DeleteStep, AccountStep
<1> QED BY <1>7, <1>8, <1>9 DEF Next, AccountStep
\* The tables of users, spaces and groups.
AccountsTyped == users \in [User -> Account] /\ space \in [User -> Account] /\ group \in [User -> Group]

LEMMA AccountsType ==
  ASSUME UInv, [Next]_vars
  PROVE  AccountsTyped'
<1>0. /\ TypeOK /\ UsersOfRequests /\ SetupsFit /\ users \in [User -> Account]
      /\ space \in [User -> Account] /\ group \in [User -> Group]
      /\ handler \in [Handler -> Request]
  BY DEF UInv, TypeOK
<1>1. ASSUME NEW u \in User, NEW a \in Account, UNCHANGED <<space, group>>,
             users' = [users EXCEPT ![u] = a]
      PROVE  AccountsTyped'
  BY <1>0, <1>1 DEF AccountsTyped
<1>2. \A h \in Handler : handler[h].name \in Name \cup {"none"}
  BY <1>0 DEF Request
<1>3. ASSUME NEW h \in Handler, InsertUser(h)
      PROVE  AccountsTyped'
  <2>1. [state |-> "here", name |-> handler[h].name] \in Account
    BY <1>2 DEF Account
  <2> QED BY <1>0, <1>3, <2>1 DEF InsertUser, AccountsTyped
<1>4. ASSUME NEW h \in Handler, CreateSpace(h)
      PROVE  AccountsTyped'
  <2>1. handler[h].user \in User
    BY <1>0, <1>4 DEF CreateSpace, UsersOfRequests, Setup
  <2>2. [state |-> "here", name |-> handler[h].name] \in Account
    BY <1>2 DEF Account
  <2> QED BY <1>0, <1>4, <2>1, <2>2 DEF AccountsTyped, CreateSpace
<1>5. ASSUME NEW h \in Handler, CreateGroup(h) \/ BindUser(h)
      PROVE  AccountsTyped'
  <2>1. handler[h].user \in User
    BY <1>0, <1>5 DEF CreateGroup, BindUser, UsersOfRequests, Setup
  <2>2. \A s \in {"made", "bound"} : [group EXCEPT ![handler[h].user].state = s] \in [User -> Group]
    BY <1>0, <2>1 DEF Group
  <2> QED BY <1>0, <1>5, <2>1, <2>2 DEF AccountsTyped, CreateGroup, BindUser
<1>6. ASSUME NEW h \in Handler, GrantNext(h)
      PROVE  AccountsTyped'
  <2> DEFINE u == handler[h].user
             n == group[u].grants + 1
  <2>1. u \in User /\ group[u].grants < 4 /\ group[u].grants \in 0..4 /\ group[u] \in Group
    BY <1>0, <1>6 DEF GrantNext, UsersOfRequests, Setup, SetupsFit, Registered, Grants, Group
  <2>2. n \in 0..4
    BY <2>1
  <2>3. group' = group \/ group' = [group EXCEPT ![u].grants = n]
    BY <1>6 DEF GrantNext
  <2> HIDE DEF n
  <2>4. [group EXCEPT ![u].grants = n] \in [User -> Group]
    BY <1>0, <2>1, <2>2 DEF Group
  <2> QED BY <1>0, <1>6, <2>3, <2>4 DEF AccountsTyped, GrantNext
<1>7. ASSUME NEW u \in User, Dropped(u), users' = users
      PROVE  AccountsTyped'
  <2>1. 0 \in 0..4
    OBVIOUS
  <2>2. [group EXCEPT ![u].grants = 0] \in [User -> Group]
    BY <1>0, <2>1 DEF Group
  <2>3. [space EXCEPT ![u].state = "gone"] \in [User -> Account]
    BY <1>0 DEF Account
  <2> QED BY <1>0, <1>7, <2>2, <2>3 DEF AccountsTyped, Dropped
<1>8. ASSUME NEW h \in Handler, DropSpace(h)
      PROVE  AccountsTyped'
  <2>1. handler[h].user \in User
    BY <1>0, <1>8 DEF DropSpace, UsersOfRequests, DeletePc
  <2> QED BY <1>0, <1>7, <1>8, <2>1 DEF DropSpace, AccountsTyped
<1>9. ASSUME NEW h \in Handler, DropUser(h)
      PROVE  AccountsTyped'
  <2>1. handler[h].user \in User
    BY <1>0, <1>9 DEF DropUser, UsersOfRequests, DeletePc
  <2>2. [users EXCEPT ![handler[h].user].state = "gone"] \in [User -> Account]
    BY <1>0, <2>1 DEF Account
  <2>3. \A s \in {"none", "made", "bound"} :
          [group EXCEPT ![handler[h].user].state = s] \in [User -> Group]
    BY <1>0, <2>1 DEF Group
  <2>4. group[handler[h].user].state \in {"none", "made", "bound"}
    BY <1>0, <2>1 DEF Group
  <2>5. \/ group' = group
        \/ \E s \in {"none", "made", "bound"} : group' = [group EXCEPT ![handler[h].user].state = s]
    BY <1>0, <1>9, <2>1, <2>4 DEF DropUser
  <2> QED BY <1>0, <1>9, <2>2, <2>3, <2>5 DEF AccountsTyped, DropUser
<1>10. ASSUME NEW u \in User, RemoveSpace(u)
       PROVE  AccountsTyped'
  BY <1>7, <1>10 DEF RemoveSpace
<1>11. ASSUME NEW u \in User, NEW name \in Name, Rename(u, name)
       PROVE  AccountsTyped'
  BY <1>0, <1>11 DEF AccountsTyped, Rename, Account
<1>12. CASE UNCHANGED <<users, space, group>>
  BY <1>0, <1>12 DEF AccountsTyped
<1>13. CASE Quiet
  BY <1>12, <1>13 DEF Quiet
<1>14. CASE ServerRestart
  BY <1>12, <1>14 DEF ServerRestart, accounts
<1> QED BY <1>3, <1>4, <1>5, <1>6, <1>8, <1>9, <1>10, <1>11, <1>13, <1>14, <1>0, Cases DEF AccountStep

-----------------------------------------------------------------------------
(* What the steps do to the files *)

\* A row is written whose owner and resource are there.
Entry(f, r) ==
  /\ r \in Row /\ r.owner \in Living \cup {Operator} /\ r.home \in Spaces
  /\ Enter(f, r) /\ UNCHANGED <<users, space, group>>

\* It is a file's first row, and the node may have got the file.
Fresh(f, r) ==
  /\ origin[f] = NoRow /\ origin' = [origin EXCEPT ![f] = r]
  /\ node' \subseteq node \cup {f} /\ UNCHANGED <<blob, collects, deletes>>

LEMMA NewRowEnters ==
  ASSUME NEW f, NEW r, NewRow(f, r)
  PROVE  Enter(f, r) /\ Fresh(f, r) /\ f \in File
BY DEF NewRow, Fresh, Unused

LEMMA StoreEnters ==
  ASSUME TypeOK, NEW h \in Handler, StoreFile(h)
  PROVE  /\ holds' = holds
         /\ \/ UNCHANGED <<row, origin, node, blob, collects, deletes, late>>
            \/ \E f \in File, r \in Row : Entry(f, r) /\ Fresh(f, r)
<1>1. holds' = holds /\ UNCHANGED <<users, space, group>>
  BY DEF StoreFile, accounts
<1>2. CASE ~ (handler[h].user \in Living \cup {Operator} /\ handler[h].home \in Spaces)
  BY <1>1, <1>2 DEF StoreFile
<1>3. CASE handler[h].user \in Living \cup {Operator} /\ handler[h].home \in Spaces
  <2>1. PICK f \in File, path \in BOOLEAN :
          NewRow(f, [owner |-> handler[h].user, home |-> handler[h].home, path |-> path])
    BY <1>3, Zenon DEF StoreFile
  <2> DEFINE r == [owner |-> handler[h].user, home |-> handler[h].home, path |-> path]
  <2>2. handler[h].user \in User \cup {Operator} /\ handler[h].home \in Home
    BY <1>3, Basics
  <2>3. r \in Row
    BY <2>2, Zenon DEF Row
  <2>4. r.owner = handler[h].user /\ r.home = handler[h].home
    BY Zenon
  <2>5. NewRow(f, r)
    BY <2>1, Zenon
  <2> HIDE DEF r
  <2>6. Enter(f, r) /\ Fresh(f, r)
    BY <2>5, NewRowEnters
  <2> QED BY <1>1, <1>3, <2>3, <2>4, <2>6 DEF Entry
<1> QED BY <1>2, <1>3

LEMMA UploadEnters ==
  ASSUME TypeOK, NEW h \in Handler, UploadArchive(h)
  PROVE  \/ UNCHANGED <<row, origin, node, blob, collects, deletes, late, holds>> /\ handler'[h] = Idle
         \/ /\ Whole(handler[h]) /\ handler'[h].pc = "owned" /\ handler[h].pc = "fetch"
            /\ \E a \in File, r \in Row :
                 /\ Entry(a, r) /\ Fresh(a, r)
                 /\ holds' = [holds EXCEPT ![a] = handler[h].packed]
<1>0. handler \in [Handler -> Request]
  BY DEF TypeOK
<1>1. UNCHANGED <<users, space, group>>
  BY DEF UploadArchive, accounts
<1>2. CASE Finish(h) /\ UNCHANGED <<stored, condemned, late>>
  BY <1>0, <1>2, FinishMoves DEF stored
<1>3. CASE /\ Whole(handler[h]) /\ handler[h].archive.dest \in Spaces
           /\ \E a \in File :
                /\ NewRow(a, [owner |-> Operator, home |-> handler[h].archive.dest, path |-> TRUE])
                /\ holds' = [holds EXCEPT ![a] = handler[h].packed]
           /\ Goto(h, "owned")
  <2>1. PICK a \in File :
          /\ NewRow(a, [owner |-> Operator, home |-> handler[h].archive.dest, path |-> TRUE])
          /\ holds' = [holds EXCEPT ![a] = handler[h].packed]
    BY <1>3
  <2> DEFINE r == [owner |-> Operator, home |-> handler[h].archive.dest, path |-> TRUE]
  <2>2. handler[h].archive.dest \in Home
    BY <1>3, Basics
  <2>3. r \in Row /\ r.owner = Operator /\ r.home = handler[h].archive.dest
    BY <2>2 DEF Row
  <2>4. NewRow(a, r)
    BY <2>1
  <2> HIDE DEF r
  <2>5. Enter(a, r) /\ Fresh(a, r)
    BY <2>4, NewRowEnters
  <2>6. handler'[h].pc = "owned"
    BY <1>0, <1>3, GotoMoves DEF Pcs, DeletePc
  <2>7. handler[h].pc = "fetch"
    BY DEF UploadArchive
  <2>8. Entry(a, r)
    BY <1>1, <1>3, <2>3, <2>5 DEF Entry
  <2> QED BY <1>3, <2>1, <2>3, <2>5, <2>6, <2>7, <2>8
<1> QED BY <1>2, <1>3 DEF UploadArchive

LEMMA RelistEnters ==
  ASSUME TypeOK, NEW f \in File, Relist(f)
  PROVE  /\ \E r \in Row : Entry(f, r)
         /\ UNCHANGED <<blob, collects, deletes, node, origin, holds, handler>>
<1> DEFINE o == origin[f]
           owner == IF o.owner \in Living THEN o.owner ELSE Operator
           home == IF o.home \in Spaces THEN o.home ELSE Shared
           r == [o EXCEPT !.owner = owner, !.home = home]
<1>1. o \in Row \cup {NoRow}
  BY DEF TypeOK
<1>3. owner \in Living \cup {Operator} /\ home \in Spaces
  BY DEF Spaces
<1>4. Enter(f, r)
  BY DEF Relist
<1>5. UNCHANGED <<users, space, group, blob, collects, deletes, node, origin, holds, handler>>
  BY DEF Relist, AgentOnly, accounts
<1> HIDE DEF o, owner, home
<1>6. owner \in User \cup {Operator} /\ home \in Home
  BY <1>3, Basics
<1>7. r \in Row /\ r.owner = owner /\ r.home = home
  <2>1. CASE o \in Row
    BY <1>6, <2>1 DEF Row
  <2>2. CASE o = NoRow
    BY <1>6, <2>2 DEF Row, NoRow
  <2> QED BY <1>1, <2>1, <2>2
<1> HIDE DEF r
<1>8. Entry(f, r)
  BY <1>3, <1>4, <1>5, <1>7 DEF Entry
<1> QED BY <1>5, <1>7, <1>8

LEMMA EraseErases ==
  ASSUME TypeOK, NEW h \in Handler, EraseRow(h)
  PROVE  /\ UNCHANGED <<blob, collects, deletes, node, origin, holds, late, users, space, group>>
         /\ row' = row \/ row' = [row EXCEPT ![handler[h].file] = NoRow]
BY DEF EraseRow, accounts, seen

\* The other steps write no rows.
RowsKept == UNCHANGED <<row, origin, holds>>

LEMMA RowCases ==
  ASSUME TypeOK, [Next]_vars
  PROVE  \/ RowsKept
         \/ \E h \in Handler : StoreFile(h) \/ UploadArchive(h) \/ EraseRow(h)
         \/ \E f \in File : Relist(f)
<1>1. ASSUME NEW h \in Handler, RegisterStep(h)
      PROVE  RowsKept
  BY <1>1 DEF RegisterStep, CheckName, InsertUser, CreateSpace, CreateGroup, BindUser, GrantNext,
              RowsKept, stored
<1>2. ASSUME NEW h \in Handler, ReadUser(h) \/ ReadSettings(h) \/ ReadSpace(h) \/ ListFiles(h)
                                \/ AwaitBlob(h) \/ ListOwned(h) \/ ListOthers(h) \/ FilesErased(h)
      PROVE  RowsKept
  BY <1>2 DEF ReadUser, ReadSettings, ReadSpace, ListFiles, AwaitBlob, ListOwned, ListOthers,
              FilesErased, Reads, RowsKept, stored
<1>3. ASSUME NEW h \in Handler, FetchBlob(h) \/ PackBlob(h) \/ ClearFile(h)
                                \/ DropSpace(h) \/ DropUser(h)
      PROVE  RowsKept
  BY <1>3 DEF FetchBlob, PackBlob, ClearFile, DropSpace, DropUser, RowsKept, stored
<1>4. ASSUME NEW h \in Handler,
             \/ \E name \in Name : Register(h, name)
             \/ \E u \in User : Delete(h, u)
             \/ \E owner \in User \cup {Operator}, home \in Home : Store(h, owner, home)
      PROVE  RowsKept
  BY <1>4 DEF Register, Delete, Store, RowsKept, stored
<1>5. CASE \/ \E u \in User : RemoveSpace(u) \/ \E name \in Name : Rename(u, name)
           \/ \E a \in Archive : SaveSettings(a)
           \/ \E f \in File : AgentCollect(f) \/ AgentDelete(f)
           \/ ServerRestart \/ UNCHANGED vars
  BY <1>5 DEF RemoveSpace, Rename, SaveSettings, AgentCollect, AgentDelete, ServerRestart, vars,
              RowsKept, stored
<1>6. ASSUME NEW h \in Handler, DeleteStep(h), ~ UploadArchive(h), ~ EraseRow(h)
      PROVE  RowsKept
  BY <1>2, <1>3, <1>6 DEF DeleteStep
<1> QED BY <1>1, <1>4, <1>5, <1>6 DEF Next, HandlerStep
\* A user or a space that goes leaves no row.
Shrink ==
  /\ \A u \in User : users[u].state = "here" => users'[u].state = "here" \/ Owned(u) = {}
  /\ \A u \in User : space[u].state = "here" =>
       space'[u].state = "here" \/ \A f \in File : row[f].home # u

LEMMA Shrinks ==
  ASSUME UInv, [Next]_vars
  PROVE  Shrink
<1>0. /\ TypeOK /\ UsersOfRequests /\ users \in [User -> Account] /\ space \in [User -> Account]
      /\ handler \in [Handler -> Request]
  BY DEF UInv, TypeOK
<1>1. ASSUME NEW h \in Handler, InsertUser(h)
      PROVE  Shrink
  BY <1>0, <1>1 DEF InsertUser, Shrink
<1>2. ASSUME NEW h \in Handler, CreateSpace(h)
      PROVE  Shrink
  <2>1. handler[h].user \in User
    BY <1>0, <1>2 DEF CreateSpace, UsersOfRequests, Setup
  <2> QED BY <1>0, <1>2, <2>1 DEF CreateSpace, Shrink
<1>3. ASSUME NEW h \in Handler, CreateGroup(h) \/ BindUser(h) \/ GrantNext(h)
      PROVE  Shrink
  BY <1>0, <1>3 DEF CreateGroup, BindUser, GrantNext, Shrink
<1>4. ASSUME NEW u \in User, Deletable(u), Dropped(u), users' = users
      PROVE  Shrink
  BY <1>0, <1>4 DEF Dropped, Deletable, Shrink
<1>5. ASSUME NEW h \in Handler, DropSpace(h)
      PROVE  Shrink
  <2>1. handler[h].user \in User
    BY <1>0, <1>5 DEF DropSpace, UsersOfRequests, DeletePc
  <2>2. users' = users
    BY <1>5 DEF DropSpace
  <2>3. CASE Deletable(handler[h].user)
    BY <1>4, <1>5, <2>1, <2>2, <2>3 DEF DropSpace
  <2>4. CASE ~ Deletable(handler[h].user)
    BY <1>5, <2>2, <2>4 DEF DropSpace, Shrink
  <2> QED BY <2>3, <2>4
<1>6. ASSUME NEW h \in Handler, DropUser(h)
      PROVE  Shrink
  <2>1. handler[h].user \in User
    BY <1>0, <1>6 DEF DropUser, UsersOfRequests, DeletePc
  <2> QED BY <1>0, <1>6, <2>1 DEF DropUser, Shrink
<1>7. ASSUME NEW u \in User, RemoveSpace(u)
      PROVE  Shrink
  BY <1>4, <1>7 DEF RemoveSpace
<1>8. ASSUME NEW u \in User, NEW name \in Name, Rename(u, name)
      PROVE  Shrink
  BY <1>0, <1>8 DEF Rename, Living, Shrink
<1>9. CASE UNCHANGED <<users, space>>
  BY <1>9 DEF Shrink
<1>10. CASE Quiet
  BY <1>9, <1>10 DEF Quiet
<1>11. CASE ServerRestart
  BY <1>9, <1>11 DEF ServerRestart, accounts
<1> QED BY <1>0, <1>1, <1>2, <1>3, <1>5, <1>6, <1>7, <1>8, <1>10, <1>11, Cases DEF AccountStep

\* Every row still has its user and its space.
RowsFit == \A f \in File : row[f] = NoRow \/ (row[f].owner \in Living \cup {Operator} /\ row[f].home \in Spaces)

LEMMA RowsStayFit ==
  ASSUME UInv, [Next]_vars
  PROVE  RowsFit'
<1>0. RowsFit /\ TypeOK /\ row \in [File -> Row \cup {NoRow}] /\ handler \in [Handler -> Request]
  BY DEF UInv, TypeOK, RowsFit
<1>1. ASSUME row' = row
      PROVE  RowsFit'
  <2> SUFFICES ASSUME NEW f \in File, row[f] # NoRow
               PROVE  row[f].owner \in Living' \cup {Operator} /\ row[f].home \in Spaces'
    BY <1>1 DEF RowsFit
  <2>1. row[f].owner \in Living \cup {Operator} /\ row[f].home \in Spaces
    BY <1>0 DEF RowsFit
  <2>2. row[f].owner \in Living => row[f].owner \in Living'
    BY Shrinks DEF Living, Owned, Shrink
  <2>3. row[f].home \in Spaces'
    BY <2>1, Shrinks DEF Spaces, Shrink
  <2> QED BY <2>1, <2>2, <2>3
<1>2. ASSUME NEW f \in File, NEW r \in Row, Entry(f, r)
      PROVE  RowsFit'
  <2>1. Living' = Living /\ Spaces' = Spaces /\ row' = [row EXCEPT ![f] = r]
    BY <1>2 DEF Entry, Living, Spaces, Enter
  <2> QED BY <1>0, <1>2, <2>1 DEF RowsFit, Entry
<1>3. ASSUME NEW h \in Handler, EraseRow(h)
      PROVE  RowsFit'
  <2>1. CASE row' = row
    BY <1>1, <2>1
  <2>2. CASE row' # row
    <3>1. Living' = Living /\ Spaces' = Spaces /\ row' = [row EXCEPT ![handler[h].file] = NoRow]
      BY <1>0, <1>3, <2>2, EraseErases DEF Living, Spaces
    <3> QED BY <1>0, <3>1 DEF RowsFit
  <2> QED BY <2>1, <2>2
<1>4. ASSUME NEW h \in Handler, StoreFile(h)
      PROVE  RowsFit'
  BY <1>0, <1>1, <1>2, <1>4, StoreEnters
<1>5. ASSUME NEW h \in Handler, UploadArchive(h)
      PROVE  RowsFit'
  BY <1>0, <1>1, <1>2, <1>5, UploadEnters
<1>6. ASSUME NEW f \in File, Relist(f)
      PROVE  RowsFit'
  BY <1>0, <1>2, <1>6, RelistEnters
<1> QED BY <1>0, <1>1, <1>3, <1>4, <1>5, <1>6, RowCases DEF RowsKept

\* The tables of files and of jobs.
RowsTyped ==
  /\ row \in [File -> Row \cup {NoRow}] /\ origin \in [File -> Row \cup {NoRow}]
  /\ holds \in [File -> SUBSET File]

LEMMA StoredType ==
  ASSUME TypeOK, [Next]_vars
  PROVE  RowsTyped'
<1>0. /\ row \in [File -> Row \cup {NoRow}] /\ origin \in [File -> Row \cup {NoRow}]
      /\ holds \in [File -> SUBSET File] /\ handler \in [Handler -> Request]
  BY DEF TypeOK
<1>1. CASE RowsKept
  BY <1>0, <1>1 DEF RowsKept, RowsTyped
<1>2. ASSUME NEW f \in File, NEW r \in Row, Entry(f, r)
      PROVE  row' \in [File -> Row \cup {NoRow}]
  BY <1>0, <1>2 DEF Entry, Enter
<1>3. ASSUME NEW f \in File, NEW r \in Row, Fresh(f, r)
      PROVE  origin' \in [File -> Row \cup {NoRow}]
  BY <1>0, <1>3 DEF Fresh
<1>4. ASSUME NEW h \in Handler, StoreFile(h)
      PROVE  RowsTyped'
  BY <1>0, <1>2, <1>3, <1>4, StoreEnters DEF RowsTyped
<1>5. ASSUME NEW h \in Handler, UploadArchive(h)
      PROVE  RowsTyped'
  <2>1. handler[h].packed \subseteq File
    BY <1>0 DEF Request
  <2> QED BY <1>0, <1>2, <1>3, <1>5, <2>1, UploadEnters DEF RowsTyped
<1>6. ASSUME NEW h \in Handler, EraseRow(h)
      PROVE  RowsTyped'
  BY <1>0, <1>6, EraseErases DEF RowsTyped
<1>7. ASSUME NEW f \in File, Relist(f)
      PROVE  RowsTyped'
  BY <1>0, <1>2, <1>7, RelistEnters DEF RowsTyped
<1> QED BY <1>1, <1>4, <1>5, <1>6, <1>7, RowCases

Jobs == blob \subseteq File /\ deletes \subseteq File /\ node \subseteq File /\ collects \in [File -> Nat]

LEMMA JobsType ==
  ASSUME TypeOK, [Next]_vars
  PROVE  Jobs'
<1>0. Jobs /\ TypeOK /\ handler \in [Handler -> Request]
  BY DEF TypeOK, Jobs
<1>1. ASSUME UNCHANGED <<blob, deletes, node, collects>>
      PROVE  Jobs'
  BY <1>0, <1>1 DEF Jobs
<1>2. ASSUME NEW f \in File, NEW r \in Row, Fresh(f, r)
      PROVE  Jobs'
  BY <1>0, <1>2 DEF Fresh, Jobs
<1>3. ASSUME NEW h \in Handler, StoreFile(h) \/ UploadArchive(h)
      PROVE  Jobs'
  BY <1>0, <1>1, <1>2, <1>3, StoreEnters, UploadEnters
<1>4. ASSUME NEW h \in Handler, FetchBlob(h)
      PROVE  Jobs'
  <2>1. handler[h].todo \subseteq File
    BY <1>0 DEF Request
  <2>2. collects' = collects \/ \E f \in File : collects' = [collects EXCEPT ![f] = @ + 1]
    BY <1>4, <2>1 DEF FetchBlob
  <2> QED BY <1>0, <1>4, <2>2 DEF FetchBlob, Jobs
<1>5. ASSUME NEW h \in Handler, PackBlob(h)
      PROVE  Jobs'
  BY <1>0, <1>5 DEF PackBlob, Jobs
<1>6. ASSUME NEW h \in Handler, ClearFile(h)
      PROVE  Jobs'
  <2>1. handler[h].todo \subseteq File
    BY <1>0 DEF Request
  <2> QED BY <1>0, <1>6, <2>1 DEF ClearFile, Jobs
<1>7. ASSUME NEW f \in File, AgentCollect(f)
      PROVE  Jobs'
  <2>1. collects' \in [File -> Nat]
    BY <1>0, <1>7 DEF AgentCollect, Jobs
  <2> QED BY <1>0, <1>7, <2>1 DEF AgentCollect, Jobs
<1>8. ASSUME NEW f \in File, AgentDelete(f) \/ Relist(f)
      PROVE  Jobs'
  BY <1>0, <1>8 DEF AgentDelete, Relist, Jobs
<1>9. ASSUME NEW h \in Handler, RegisterStep(h)
      PROVE  Jobs'
  BY <1>1, <1>9 DEF RegisterStep, CheckName, InsertUser, CreateSpace, CreateGroup, BindUser, GrantNext,
                    stored
<1>10. ASSUME NEW h \in Handler, ReadUser(h) \/ ReadSettings(h) \/ ReadSpace(h) \/ ListFiles(h)
                                \/ AwaitBlob(h) \/ ListOwned(h) \/ ListOthers(h) \/ FilesErased(h)
       PROVE  Jobs'
  BY <1>1, <1>10 DEF ReadUser, ReadSettings, ReadSpace, ListFiles, AwaitBlob, ListOwned, ListOthers,
                     FilesErased, Reads, stored
<1>11. ASSUME NEW h \in Handler, EraseRow(h) \/ DropSpace(h) \/ DropUser(h)
       PROVE  Jobs'
  BY <1>1, <1>11 DEF EraseRow, DropSpace, DropUser, stored
<1>12. ASSUME NEW h \in Handler, HandlerStep(h)
       PROVE  Jobs'
  BY <1>3, <1>4, <1>5, <1>6, <1>9, <1>10, <1>11, <1>12 DEF HandlerStep, DeleteStep
<1>13. ASSUME NEW h \in Handler,
              \/ \E name \in Name : Register(h, name)
              \/ \E u \in User : Delete(h, u)
              \/ \E owner \in User \cup {Operator}, home \in Home : Store(h, owner, home)
       PROVE  Jobs'
  BY <1>1, <1>13 DEF Register, Delete, Store, stored
<1>14. CASE \/ \E u \in User : RemoveSpace(u) \/ \E name \in Name : Rename(u, name)
            \/ \E a \in Archive : SaveSettings(a)
            \/ ServerRestart \/ UNCHANGED vars
  BY <1>1, <1>14 DEF RemoveSpace, Rename, SaveSettings, ServerRestart, vars, stored
<1> QED BY <1>7, <1>8, <1>12, <1>13, <1>14 DEF Next

Seen == /\ renamed \subseteq User /\ condemned \subseteq User /\ cut \subseteq User /\ raced \subseteq User
        /\ late \in [Handler -> SUBSET File]

LEMMA SeenType ==
  ASSUME UInv, [Next]_vars
  PROVE  Seen'
<1>0. Seen /\ TypeOK /\ UsersOfRequests /\ handler \in [Handler -> Request]
  BY DEF UInv, TypeOK, Seen
<1>1. CASE UNCHANGED seen
  BY <1>0, <1>1 DEF Seen, seen
<1>2. ASSUME NEW f \in File, NEW r \in Row, Entry(f, r)
      PROVE  late' \in [Handler -> SUBSET File]
  BY <1>0, <1>2 DEF Entry, Enter, Seen
<1>3. ASSUME NEW h \in Handler, StoreFile(h)
      PROVE  Seen'
  <2>1. late' \in [Handler -> SUBSET File]
    BY <1>0, <1>2, <1>3, StoreEnters DEF Seen
  <2> QED BY <1>0, <1>3, <2>1, AccountsKept DEF Seen
<1>4. ASSUME NEW h \in Handler, UploadArchive(h)
      PROVE  Seen'
  <2>1. late' \in [Handler -> SUBSET File]
    BY <1>0, <1>2, <1>4, UploadEnters DEF Seen
  <2>2. handler[h].user \in User
    BY <1>0, <1>4 DEF UploadArchive, UsersOfRequests, DeletePc
  <2>3. UNCHANGED <<renamed, cut, raced>> /\ condemned' \subseteq condemned \cup {handler[h].user}
    BY <1>4 DEF UploadArchive
  <2> QED BY <1>0, <2>1, <2>2, <2>3 DEF Seen
<1>5. ASSUME NEW f \in File, Relist(f)
      PROVE  Seen'
  <2>1. late' \in [Handler -> SUBSET File]
    BY <1>0, <1>2, <1>5, RelistEnters
  <2> QED BY <1>0, <1>5, <2>1 DEF Relist, Seen
<1>6. ASSUME NEW h \in Handler, ReadSpace(h)
      PROVE  Seen'
  <2>1. handler[h].user \in User
    BY <1>0, <1>6 DEF ReadSpace, UsersOfRequests, DeletePc
  <2>2. condemned' \subseteq condemned \cup {handler[h].user} /\ raced' \subseteq raced \cup {handler[h].user}
    BY <1>6 DEF ReadSpace
  <2>3. UNCHANGED <<renamed, cut>> /\ late' = [late EXCEPT ![h] = {}]
    BY <1>6 DEF ReadSpace, Reads
  <2> QED BY <1>0, <2>1, <2>2, <2>3 DEF Seen
<1>7. ASSUME NEW h \in Handler, ListFiles(h)
      PROVE  Seen'
  BY <1>0, <1>7 DEF ListFiles, Reads, Seen
<1>8. ASSUME NEW h \in Handler, CreateSpace(h)
      PROVE  Seen'
  <2>1. handler[h].user \in User
    BY <1>0, <1>8 DEF CreateSpace, UsersOfRequests, Setup
  <2>2. cut' = cut \/ cut' = cut \cup {handler[h].user}
    BY <1>8 DEF CreateSpace
  <2> QED BY <1>0, <1>8, <2>1, <2>2 DEF CreateSpace, Seen
<1>9. ASSUME NEW u \in User, RemoveSpace(u) \/ \E name \in Name : Rename(u, name)
      PROVE  Seen'
  BY <1>0, <1>9 DEF RemoveSpace, Rename, Seen
<1>10. CASE ServerRestart
  BY <1>0, <1>10 DEF ServerRestart, Seen
<1>11. ASSUME NEW h \in Handler, CheckName(h) \/ InsertUser(h) \/ CreateGroup(h) \/ BindUser(h) \/ GrantNext(h)
       PROVE  Seen'
  BY <1>1, <1>11 DEF CheckName, InsertUser, CreateGroup, BindUser, GrantNext
<1>12. ASSUME NEW h \in Handler, ReadUser(h) \/ ReadSettings(h) \/ AwaitBlob(h) \/ ListOwned(h)
                                 \/ ListOthers(h) \/ FilesErased(h)
       PROVE  Seen'
  BY <1>1, <1>12 DEF ReadUser, ReadSettings, AwaitBlob, ListOwned, ListOthers, FilesErased, Reads, seen
<1>13. ASSUME NEW h \in Handler, FetchBlob(h) \/ PackBlob(h) \/ ClearFile(h) \/ EraseRow(h) \/ DropSpace(h)
                                 \/ DropUser(h)
       PROVE  Seen'
  BY <1>1, <1>13 DEF FetchBlob, PackBlob, ClearFile, EraseRow, DropSpace, DropUser
<1>14. ASSUME NEW h \in Handler, HandlerStep(h)
       PROVE  Seen'
  BY <1>3, <1>4, <1>6, <1>7, <1>8, <1>11, <1>12, <1>13, <1>14 DEF HandlerStep, RegisterStep, DeleteStep
<1>15. ASSUME NEW h \in Handler,
              \/ \E name \in Name : Register(h, name)
              \/ \E u \in User : Delete(h, u)
              \/ \E owner \in User \cup {Operator}, home \in Home : Store(h, owner, home)
       PROVE  Seen'
  BY <1>1, <1>15 DEF Register, Delete, Store
<1>16. CASE \/ \E a \in Archive : SaveSettings(a)
            \/ \E f \in File : AgentCollect(f) \/ AgentDelete(f)
            \/ UNCHANGED vars
  BY <1>1, <1>16 DEF SaveSettings, AgentCollect, AgentDelete, vars
<1> QED BY <1>5, <1>9, <1>10, <1>14, <1>15, <1>16 DEF Next

Limits == archive \in Archive /\ budget \in [Budget -> Nat]

LEMMA LimitsType ==
  ASSUME TypeOK, [Next]_vars
  PROVE  Limits'
<1>0. Limits
  BY DEF TypeOK, Limits
<1>1. ASSUME NEW what \in Budget, Spend(what), archive' \in Archive
      PROVE  Limits'
  <2>1. budget[what] \in Nat /\ budget[what] > 0
    BY <1>0, <1>1 DEF Limits, Spend
  <2> DEFINE n == budget[what] - 1
  <2>2. n \in Nat
    BY <2>1
  <2>3. budget' = [budget EXCEPT ![what] = n]
    BY <1>1 DEF Spend
  <2> HIDE DEF n
  <2> QED BY <1>0, <1>1, <2>2, <2>3 DEF Limits
<1>2. CASE UNCHANGED <<archive, budget>>
  BY <1>0, <1>2 DEF Limits
<1>3. ASSUME NEW h \in Handler, HandlerStep(h)
      PROVE  UNCHANGED <<archive, budget>>
  <2>1. CASE RegisterStep(h) \/ StoreFile(h)
    BY <2>1 DEF RegisterStep, CheckName, InsertUser, CreateSpace, CreateGroup, BindUser, GrantNext, StoreFile
  <2>2. CASE ReadUser(h) \/ ReadSettings(h) \/ ReadSpace(h) \/ ListFiles(h) \/ AwaitBlob(h)
             \/ ListOwned(h) \/ ListOthers(h) \/ FilesErased(h)
    BY <2>2 DEF ReadUser, ReadSettings, ReadSpace, ListFiles, AwaitBlob, ListOwned, ListOthers,
                FilesErased, Reads
  <2>3. CASE FetchBlob(h) \/ PackBlob(h) \/ UploadArchive(h) \/ ClearFile(h) \/ EraseRow(h)
             \/ DropSpace(h) \/ DropUser(h)
    BY <2>3 DEF FetchBlob, PackBlob, UploadArchive, ClearFile, EraseRow, DropSpace, DropUser
  <2> QED BY <1>3, <2>1, <2>2, <2>3 DEF HandlerStep, DeleteStep
<1>4. ASSUME NEW h \in Handler,
             \/ \E name \in Name : Register(h, name)
             \/ \E u \in User : Delete(h, u)
             \/ \E owner \in User \cup {Operator}, home \in Home : Store(h, owner, home)
      PROVE  Limits'
  BY <1>0, <1>1, <1>4 DEF Register, Delete, Store, Accept, Budget, Limits
<1>5. ASSUME NEW u \in User, RemoveSpace(u) \/ \E name \in Name : Rename(u, name)
      PROVE  Limits'
  BY <1>0, <1>1, <1>5 DEF RemoveSpace, Rename, Budget, Limits
<1>6. ASSUME NEW a \in Archive, SaveSettings(a)
      PROVE  Limits'
  BY <1>1, <1>6 DEF SaveSettings, Budget
<1>7. ASSUME NEW f \in File, Relist(f)
      PROVE  Limits'
  BY <1>0, <1>1, <1>7 DEF Relist, AgentOnly, Budget, Limits
<1>8. CASE ServerRestart
  BY <1>0, <1>1, <1>8 DEF ServerRestart, Budget, Limits
<1>9. CASE (\E f \in File : AgentCollect(f) \/ AgentDelete(f)) \/ UNCHANGED vars
  BY <1>2, <1>9 DEF AgentCollect, AgentDelete, AgentOnly, vars
<1> QED BY <1>2, <1>3, <1>4, <1>5, <1>6, <1>7, <1>8, <1>9 DEF Next

LEMMA TypeStays ==
  ASSUME UInv, [Next]_vars
  PROVE  TypeOK'
<1>1. TypeOK
  BY DEF UInv
<1>2. handler' \in [Handler -> Request] /\ AccountsTyped' /\ RowsTyped' /\ Jobs' /\ Seen' /\ Limits' /\ RowsFit'
  BY <1>1, HandlerType, AccountsType, StoredType, JobsType, SeenType, LimitsType, RowsStayFit
<1> QED BY <1>2 DEF TypeOK, AccountsTyped, RowsTyped, Jobs, Seen, Limits, RowsFit

-----------------------------------------------------------------------------
(* The accounts and their registrations *)

\* A user is inserted for whom nothing is there yet.
Inserted(h, u) ==
  /\ Moves(h) /\ handler[h].pc = "insert"
  /\ users[u].state = "free" /\ Here(handler[h].name) = {}
  /\ users' = [users EXCEPT ![u] = [state |-> "here", name |-> handler[h].name]]
  /\ handler'[h].pc = "resource" /\ handler'[h].user = u /\ handler'[h].name = handler[h].name
  /\ UNCHANGED <<space, group, renamed, condemned, cut, raced>>

\* Nobody starts to set up an account.
SetupsShrink ==
  \A k \in Handler : handler'[k].pc \in Setup =>
    handler[k].pc \in Setup /\ handler'[k].user = handler[k].user

LEMMA InsertCases ==
  ASSUME TypeOK, NEW h \in Handler, InsertUser(h)
  PROVE  Quiet \/ \E u \in User : Inserted(h, u)
<1>1. UNCHANGED <<space, group, renamed, condemned, cut, raced>>
  BY DEF InsertUser, seen
<1>2. CASE handler'[h] = Idle /\ users' = users
  <2>1. Moves(h) /\ handler[h].pc = "insert" /\ handler'[h].pc = "idle"
    BY <1>2, RegisterMoves, Basics
  <2>2. handler[h].pc \notin Setup /\ handler'[h].pc \notin Setup
    BY <2>1 DEF Setup
  <2> QED BY <1>1, <1>2, <2>1, <2>2, QuietMove
<1>3. ASSUME NEW u \in User, users[u].state = "free", Here(handler[h].name) = {},
             users' = [users EXCEPT ![u] = [state |-> "here", name |-> handler[h].name]],
             handler'[h].pc = "resource", handler'[h].user = u, handler'[h].name = handler[h].name
      PROVE  Inserted(h, u)
  BY <1>1, <1>3, RegisterMoves DEF Inserted
<1> QED BY <1>2, <1>3, RegisterMoves

LEMMA Makers ==
  ASSUME TypeOK, [Next]_vars
  PROVE  SetupsShrink \/ \E h \in Handler, u \in User : Inserted(h, u)
<1>0. handler \in [Handler -> Request]
  BY DEF TypeOK
<1>1. CASE Quiet
  BY <1>1 DEF Quiet, SetupsShrink
<1>2. ASSUME NEW h \in Handler, Moves(h),
             handler'[h].pc \notin Setup \/ (handler[h].pc \in Setup /\ handler'[h].user = handler[h].user)
      PROVE  SetupsShrink
  BY <1>2 DEF Moves, SetupsShrink
<1>a. Idle.pc \notin Setup
  BY Basics DEF Setup
<1>3. ASSUME NEW h \in Handler, CreateSpace(h) \/ CreateGroup(h) \/ BindUser(h)
      PROVE  SetupsShrink
  <2>1. Moves(h) /\ handler[h].pc \in Setup /\ (handler'[h] = Idle \/ Keeps(h))
    BY <1>3, RegisterMoves DEF Setup
  <2> QED BY <1>2, <1>a, <2>1 DEF Keeps
<1>4. ASSUME NEW h \in Handler, GrantNext(h)
      PROVE  SetupsShrink
  <2>1. CASE handler'[h] = Idle
    BY <1>2, <1>4, <1>a, <2>1, RegisterMoves
  <2>2. CASE handler' = handler
    BY <2>2 DEF SetupsShrink
  <2> QED BY <1>4, <2>1, <2>2, RegisterMoves
<1>5. ASSUME NEW h \in Handler, DropSpace(h) \/ DropUser(h)
      PROVE  SetupsShrink
  <2>1. Moves(h) /\ (handler'[h] = Idle \/ handler'[h].pc = "end")
    BY <1>5, EraseMoves
  <2>2. handler'[h].pc \notin Setup
    BY <1>a, <2>1 DEF Setup
  <2> QED BY <1>2, <2>1, <2>2
<1>6. ASSUME NEW u \in User, RemoveSpace(u) \/ \E name \in Name : Rename(u, name)
      PROVE  SetupsShrink
  BY <1>6 DEF RemoveSpace, Rename, SetupsShrink
<1>7. CASE ServerRestart
  BY <1>7, <1>a DEF ServerRestart, SetupsShrink
<1> QED BY <1>1, <1>3, <1>4, <1>5, <1>6, <1>7, Cases, InsertCases DEF AccountStep

\* A user's id is not free again.
LEMMA IdsTaken ==
  ASSUME UInv, [Next]_vars, NEW u \in User
  PROVE  users[u].state # "free" => users'[u].state # "free"
<1>0. /\ TypeOK /\ UsersOfRequests /\ users \in [User -> Account]
  BY DEF UInv, TypeOK
<1>1. ASSUME NEW h \in Handler, NEW v \in User, Inserted(h, v)
      PROVE  users[u].state # "free" => users'[u].state # "free"
  BY <1>0, <1>1 DEF Inserted
<1>2. ASSUME NEW h \in Handler, DropUser(h)
      PROVE  users[u].state # "free" => users'[u].state # "free"
  BY <1>0, <1>2 DEF DropUser, Living, Account
<1>3. ASSUME NEW v \in User, NEW name \in Name, Rename(v, name)
      PROVE  users[u].state # "free" => users'[u].state # "free"
  BY <1>0, <1>3 DEF Rename
<1>4. CASE users' = users
  BY <1>4
<1>5. ASSUME NEW h \in Handler, CreateSpace(h) \/ CreateGroup(h) \/ BindUser(h) \/ GrantNext(h) \/ DropSpace(h)
      PROVE  users' = users
  BY <1>5 DEF CreateSpace, CreateGroup, BindUser, GrantNext, DropSpace
<1>6. (\E v \in User : RemoveSpace(v)) \/ ServerRestart \/ Quiet => users' = users
  BY DEF RemoveSpace, ServerRestart, Quiet, accounts
<1> QED BY <1>0, <1>1, <1>2, <1>3, <1>4, <1>5, <1>6, Cases, InsertCases DEF AccountStep

LEMMA OneMakerStays ==
  ASSUME UInv, [Next]_vars
  PROVE  OneMaker'
<1>0. TypeOK /\ OneMaker /\ UsersOfRequests
  BY DEF UInv
<1>1. CASE SetupsShrink
  BY <1>0, <1>1 DEF OneMaker, SetupsShrink
<1>2. ASSUME NEW h \in Handler, NEW u \in User, Inserted(h, u)
      PROVE  OneMaker'
  <2>1. \A k \in Handler : k # h /\ handler'[k].pc \in Setup =>
          handler'[k] = handler[k] /\ handler'[k].user # u
    BY <1>0, <1>2 DEF Inserted, Moves, UsersOfRequests
  <2>2. handler'[h].user = u
    BY <1>2 DEF Inserted
  <2> QED BY <1>0, <2>1, <2>2 DEF OneMaker
<1> QED BY <1>0, <1>1, <1>2, Makers

\* The request that moves is about the same user, or about one who is there.
UserFits(h) ==
  /\ handler[h].pc \in {"check", "insert"} => handler[h].user = Operator
  /\ handler[h].pc \in Setup \cup DeletePc => handler[h].user \in User /\ users[handler[h].user].state # "free"

LEMMA UsersStay ==
  ASSUME UInv, [Next]_vars
  PROVE  UsersOfRequests'
<1>0. /\ TypeOK /\ \A h \in Handler : UserFits(h)
      /\ \A u \in User : users[u].state # "free" => users'[u].state # "free"
  BY IdsTaken DEF UInv, UsersOfRequests, UserFits
<1>a. /\ Idle.pc \notin Setup \cup DeletePc \cup {"check", "insert"}
      /\ \A pc \in Setup \cup DeletePc : pc \notin {"check", "insert"}
      /\ Fetching \subseteq DeletePc
  BY Basics DEF Setup, DeletePc, Fetching
<1>1. ASSUME NEW h \in Handler, Moves(h), UserFits(h)'
      PROVE  UsersOfRequests'
  BY <1>0, <1>1 DEF UsersOfRequests, UserFits, Moves
<1>2. ASSUME NEW h \in Handler, Moves(h),
             \/ handler'[h].pc \notin Setup \cup DeletePc \cup {"check", "insert"}
             \/ /\ handler[h].pc \in Setup \cup DeletePc /\ handler'[h].pc \in Setup \cup DeletePc
                /\ handler'[h].user = handler[h].user
      PROVE  UsersOfRequests'
  BY <1>0, <1>1, <1>2, <1>a DEF UserFits
<1>3. ASSUME NEW h \in Handler, CheckName(h)
      PROVE  UsersOfRequests'
  <2>1. Moves(h) /\ handler[h].user = Operator
    BY <1>0, <1>3, RegisterMoves DEF UserFits
  <2>2. handler'[h] = Idle \/ (handler'[h].pc = "insert" /\ handler'[h].user = Operator)
    BY <1>0, <1>3, <2>1, RegisterMoves
  <2>3. CASE handler'[h] = Idle
    BY <1>2, <1>a, <2>1, <2>3
  <2>4. CASE handler'[h].pc = "insert" /\ handler'[h].user = Operator
    BY <1>1, <2>1, <2>4, <1>a DEF UserFits
  <2> QED BY <2>2, <2>3, <2>4
<1>4. ASSUME NEW h \in Handler, InsertUser(h)
      PROVE  UsersOfRequests'
  <2>1. Moves(h)
    BY <1>0, <1>4, RegisterMoves
  <2>2. CASE handler'[h] = Idle
    BY <1>2, <1>a, <2>1, <2>2
  <2>3. ASSUME NEW u \in User, handler'[h].pc = "resource", handler'[h].user = u,
               users' = [users EXCEPT ![u] = [state |-> "here", name |-> handler[h].name]]
        PROVE  UsersOfRequests'
    <3>1. users'[u].state # "free"
      BY <1>0, <2>3 DEF TypeOK
    <3> QED BY <1>1, <2>1, <2>3, <3>1 DEF UserFits
  <2> QED BY <1>0, <1>4, <2>2, <2>3, RegisterMoves
<1>5. ASSUME NEW h \in Handler, CreateSpace(h) \/ CreateGroup(h) \/ BindUser(h)
      PROVE  UsersOfRequests'
  <2>1. /\ Moves(h) /\ handler[h].pc \in Setup
        /\ \/ handler'[h] = Idle
           \/ handler'[h].user = handler[h].user /\ handler'[h].pc \in Setup
    BY <1>0, <1>5, RegisterMoves DEF Setup, Keeps
  <2> QED BY <1>2, <1>a, <2>1
<1>6. ASSUME NEW h \in Handler, GrantNext(h)
      PROVE  UsersOfRequests'
  <2>1. /\ Moves(h) /\ handler[h].pc \in Setup
        /\ handler'[h] = Idle \/ handler' = handler
    BY <1>0, <1>6, RegisterMoves DEF Setup
  <2> QED BY <1>2, <1>a, <2>1
<1>7. ASSUME NEW h \in Handler, ReadUser(h) \/ ReadSettings(h) \/ ReadSpace(h) \/ ListFiles(h)
      PROVE  UsersOfRequests'
  <2>1. handler[h].pc \in DeletePc
    BY <1>7 DEF ReadUser, ReadSettings, ReadSpace, ListFiles, DeletePc
  <2>2. /\ Moves(h)
        /\ \/ handler'[h] = Idle
           \/ handler'[h].user = handler[h].user /\ handler'[h].pc \in DeletePc
    BY <1>0, <1>7, ArchiveMoves DEF Keeps, DeletePc
  <2> QED BY <1>2, <1>a, <2>1, <2>2
<1>8. ASSUME NEW h \in Handler,
             \/ FetchBlob(h) \/ AwaitBlob(h) \/ PackBlob(h) \/ UploadArchive(h) \/ ListOwned(h)
             \/ ListOthers(h) \/ FilesErased(h) \/ ClearFile(h) \/ EraseRow(h)
      PROVE  UsersOfRequests'
  <2>1. handler[h].pc \in DeletePc
    BY <1>8 DEF FetchBlob, AwaitBlob, PackBlob, UploadArchive, ListOwned, ListOthers, FilesErased,
                ClearFile, EraseRow, DeletePc
  <2>2. /\ Moves(h)
        /\ \/ handler'[h] = Idle
           \/ handler'[h].user = handler[h].user /\ handler'[h].pc \in DeletePc
    BY <1>0, <1>8, EraseMoves DEF Keeps, DeletePc, Fetching
  <2> QED BY <1>2, <1>a, <2>1, <2>2
<1>9. ASSUME NEW h \in Handler, DropSpace(h) \/ DropUser(h)
      PROVE  UsersOfRequests'
  <2>1. handler[h].pc \in DeletePc
    BY <1>9 DEF DropSpace, DropUser, DeletePc
  <2>2. /\ Moves(h)
        /\ \/ handler'[h] = Idle
           \/ handler'[h].user = handler[h].user /\ handler'[h].pc \in DeletePc
    BY <1>0, <1>9, EraseMoves DEF Keeps, DeletePc
  <2> QED BY <1>2, <1>a, <2>1, <2>2
<1>10. ASSUME NEW h \in Handler, StoreFile(h)
       PROVE  UsersOfRequests'
  BY <1>0, <1>2, <1>a, <1>10, RegisterMoves
<1>11. ASSUME NEW h \in Handler, NEW name \in Name, Register(h, name)
       PROVE  UsersOfRequests'
  <2>1. Moves(h) /\ handler'[h].pc = "check" /\ handler'[h].user = Operator
    BY <1>0, <1>11, AcceptMoves
  <2> QED BY <1>1, <1>a, <2>1 DEF UserFits
<1>12. ASSUME NEW h \in Handler, NEW u \in User, Delete(h, u)
       PROVE  UsersOfRequests'
  <2>1. Moves(h) /\ users[u].state # "free" /\ handler'[h].pc = "user" /\ handler'[h].user = u
    BY <1>0, <1>12, AcceptMoves
  <2> QED BY <1>0, <1>1, <2>1 DEF UserFits
<1>13. ASSUME NEW h \in Handler, NEW owner \in User \cup {Operator}, NEW home \in Home, Store(h, owner, home)
       PROVE  UsersOfRequests'
  <2>1. Moves(h) /\ handler'[h].pc = "store"
    BY <1>0, <1>13, AcceptMoves
  <2> QED BY <1>2, <2>1 DEF Setup, DeletePc
<1>14. CASE UNCHANGED handler
  BY <1>0, <1>14 DEF UsersOfRequests, UserFits
<1>15. CASE ServerRestart
  BY <1>15, <1>a DEF ServerRestart, UsersOfRequests
<1>16. ASSUME NEW h \in Handler, HandlerStep(h)
       PROVE  UsersOfRequests'
  BY <1>3, <1>4, <1>5, <1>6, <1>7, <1>8, <1>9, <1>10, <1>16 DEF HandlerStep, RegisterStep, DeleteStep
<1> QED
  BY <1>11, <1>12, <1>13, <1>14, <1>15, <1>16
     DEF Next, vars, RemoveSpace, Rename, SaveSettings, AgentCollect, AgentDelete, Relist, AgentOnly

\* What a user without an account has not got yet, and a space's name.
LEMMA FreeStays ==
  ASSUME UInv, [Next]_vars
  PROVE  FreeIsUnused'
<1>0. /\ TypeOK /\ UsersOfRequests /\ FreeIsUnused
      /\ users \in [User -> Account] /\ space \in [User -> Account] /\ group \in [User -> Group]
      /\ \A u \in User : users'[u].state = "free" => users[u].state = "free"
  BY IdsTaken DEF UInv, TypeOK
<1>1. ASSUME \A u \in User : users[u].state = "free" => space'[u] = space[u] /\ group'[u] = group[u]
      PROVE  FreeIsUnused'
  BY <1>0, <1>1 DEF FreeIsUnused
<1>2. CASE UNCHANGED <<space, group>>
  BY <1>1, <1>2
<1>3. ASSUME NEW h \in Handler, CreateSpace(h) \/ CreateGroup(h) \/ BindUser(h) \/ GrantNext(h)
      PROVE  FreeIsUnused'
  <2>1. handler[h].user \in User /\ users[handler[h].user].state # "free"
    BY <1>0, <1>3 DEF CreateSpace, CreateGroup, BindUser, GrantNext, UsersOfRequests, Setup
  <2>2. CASE CreateSpace(h)
    BY <1>0, <1>1, <2>1, <2>2 DEF CreateSpace
  <2>3. CASE CreateGroup(h) \/ BindUser(h) \/ GrantNext(h)
    BY <1>0, <1>1, <2>1, <2>3 DEF CreateGroup, BindUser, GrantNext
  <2> QED BY <1>3, <2>2, <2>3
<1>4. ASSUME NEW u \in User, Deletable(u), Dropped(u)
      PROVE  FreeIsUnused'
  <2>1. users[u].state # "free"
    BY <1>0, <1>4 DEF Deletable, FreeIsUnused
  <2> QED BY <1>0, <1>1, <1>4, <2>1 DEF Dropped
<1>5. ASSUME NEW h \in Handler, DropSpace(h)
      PROVE  FreeIsUnused'
  <2>1. handler[h].user \in User
    BY <1>0, <1>5 DEF DropSpace, UsersOfRequests, DeletePc
  <2> QED BY <1>0, <1>2, <1>4, <1>5, <2>1, EraseMoves DEF DropSpace
<1>6. ASSUME NEW h \in Handler, DropUser(h)
      PROVE  FreeIsUnused'
  <2>1. CASE UNCHANGED group
    BY <1>2, <1>6, <2>1 DEF DropUser
  <2>2. CASE handler[h].user \in Living
    BY <1>0, <1>1, <1>6, <2>2 DEF DropUser, Living
  <2> QED BY <1>6, <2>1, <2>2 DEF DropUser
<1>7. ASSUME NEW u \in User, RemoveSpace(u)
      PROVE  FreeIsUnused'
  BY <1>4, <1>7 DEF RemoveSpace
<1>8. ASSUME NEW h \in Handler, NEW u \in User, Inserted(h, u)
      PROVE  FreeIsUnused'
  BY <1>2, <1>8 DEF Inserted
<1>9. Quiet \/ ServerRestart \/ (\E u \in User, name \in Name : Rename(u, name)) => UNCHANGED <<space, group>>
  BY DEF Quiet, ServerRestart, Rename, accounts
<1> QED BY <1>0, <1>2, <1>3, <1>5, <1>6, <1>7, <1>8, <1>9, Cases, InsertCases DEF AccountStep

LEMMA NamesStay ==
  ASSUME UInv, [Next]_vars
  PROVE  NamesFit'
<1>0. /\ TypeOK /\ UsersOfRequests /\ SetupsFit /\ FreeIsUnused /\ NamesFit
      /\ users \in [User -> Account] /\ space \in [User -> Account]
  BY DEF UInv, TypeOK
<1>1. ASSUME users' = users, renamed' = renamed,
             \A u \in User : space'[u].state = "here" => space'[u] = space[u]
      PROVE  NamesFit'
  BY <1>0, <1>1 DEF NamesFit, Living
<1>2. ASSUME NEW h \in Handler, NEW u \in User, Inserted(h, u)
      PROVE  NamesFit'
  <2>1. /\ \A v \in User \ {u} : users'[v] = users[v]
        /\ users'[u].state = "here" /\ users'[u].name = handler[h].name
        /\ space' = space /\ renamed' = renamed
    BY <1>0, <1>2 DEF Inserted
  <2>2. \A v \in Living : users[v].name # handler[h].name
    BY <1>2 DEF Inserted, Here, Living
  <2>3. space[u].state # "here"
    BY <1>0, <1>2 DEF Inserted, FreeIsUnused
  <2> QED BY <1>0, <2>1, <2>2, <2>3 DEF NamesFit, Living
<1>3. ASSUME NEW h \in Handler, CreateSpace(h)
      PROVE  NamesFit'
  <2>1. handler[h].user \in User /\ handler[h].pc = "resource"
    BY <1>0, <1>3 DEF CreateSpace, UsersOfRequests, Setup
  <2>2. handler[h].user \notin renamed => handler[h].name = users[handler[h].user].name
    BY <1>0, <2>1 DEF SetupsFit, Registered, Setup
  <2>3. users' = users /\ renamed' = renamed
    BY <1>3 DEF CreateSpace
  <2>4. \/ space' = space
        \/ space' = [space EXCEPT ![handler[h].user] = [state |-> "here", name |-> handler[h].name]]
    BY <1>3 DEF CreateSpace
  <2> QED BY <1>0, <2>1, <2>2, <2>3, <2>4 DEF NamesFit, Living
<1>4. ASSUME NEW u \in User, Dropped(u), users' = users, renamed' = renamed
      PROVE  NamesFit'
  BY <1>0, <1>1, <1>4 DEF Dropped
<1>5. ASSUME NEW h \in Handler, DropSpace(h)
      PROVE  NamesFit'
  <2>1. handler[h].user \in User
    BY <1>0, <1>5 DEF DropSpace, UsersOfRequests, DeletePc
  <2>2. users' = users /\ renamed' = renamed
    BY <1>5 DEF DropSpace, seen
  <2> QED BY <1>0, <1>1, <1>4, <1>5, <2>1, <2>2, EraseMoves
<1>6. ASSUME NEW h \in Handler, DropUser(h)
      PROVE  NamesFit'
  <2>1. space' = space /\ renamed' = renamed
    BY <1>6 DEF DropUser, seen
  <2>2. CASE users' = users
    BY <1>1, <2>1, <2>2
  <2>3. CASE handler[h].user \in Living /\ users' = [users EXCEPT ![handler[h].user].state = "gone"]
    <3>1. /\ \A v \in User : users'[v].name = users[v].name
          /\ Living' \subseteq Living
      BY <1>0, <2>3 DEF Living, Account
    <3> QED BY <1>0, <2>1, <3>1, Basics DEF NamesFit
  <2> QED BY <1>6, <2>2, <2>3 DEF DropUser
<1>7. ASSUME NEW u \in User, RemoveSpace(u)
      PROVE  NamesFit'
  BY <1>4, <1>7 DEF RemoveSpace
<1>8. ASSUME NEW u \in User, NEW name \in Name, Rename(u, name)
      PROVE  NamesFit'
  <2>1. /\ \A v \in User \ {u} : users'[v] = users[v]
        /\ users'[u].state = users[u].state /\ users'[u].name = name
        /\ space' = space /\ renamed' = renamed \cup {u}
    BY <1>0, <1>8 DEF Rename, Account
  <2>2. \A v \in Living : users[v].name # name
    BY <1>8 DEF Rename, Here, Living
  <2> QED BY <1>0, <2>1, <2>2 DEF NamesFit, Living
<1>9. \/ Quiet \/ ServerRestart
      \/ \E h \in Handler : CreateGroup(h) \/ BindUser(h) \/ GrantNext(h)
      => users' = users /\ renamed' = renamed /\ space' = space
  BY DEF Quiet, ServerRestart, CreateGroup, BindUser, GrantNext, accounts, seen
<1> QED BY <1>0, <1>1, <1>2, <1>3, <1>5, <1>6, <1>7, <1>8, <1>9, Cases, InsertCases DEF AccountStep

\* How far registrations have come.
LEMMA SetupsStay ==
  ASSUME UInv, [Next]_vars
  PROVE  SetupsFit'
<1>0. /\ TypeOK /\ UsersOfRequests /\ OneMaker /\ SetupsFit /\ FreeIsUnused /\ DeletionsFit
      /\ users \in [User -> Account] /\ space \in [User -> Account] /\ group \in [User -> Group]
  BY DEF UInv, TypeOK
<1>a. Idle.pc \notin Setup
  BY Basics DEF Setup
<1>b. ASSUME NEW h \in Handler, NEW k \in Handler, k # h, handler[h].pc \in Setup, handler[k].pc \in Setup
      PROVE  handler[k].user # handler[h].user /\ handler[k].user \in User /\ handler[h].user \in User
  BY <1>0, <1>b DEF OneMaker, UsersOfRequests
<1>1. ASSUME NEW k \in Handler, handler'[k] = handler[k], handler[k].pc \in Setup,
             LET u == handler[k].user IN
               users'[u] = users[u] /\ space'[u] = space[u] /\ group'[u] = group[u],
             renamed' = renamed, condemned \subseteq condemned'
      PROVE  Registered(k, handler[k].user)'
  <2>1. handler[k].user \in User /\ Registered(k, handler[k].user)
    BY <1>0, <1>1 DEF SetupsFit, UsersOfRequests
  <2>2. handler[k].user \in Living' <=> handler[k].user \in Living
    BY <1>1, <2>1 DEF Living
  <2> QED BY <1>1, <2>1, <2>2 DEF Registered
<1>2. CASE Quiet
  <2>1. \A k \in Handler : handler'[k].pc \in Setup => handler'[k] = handler[k]
    BY <1>2 DEF Quiet
  <2> QED BY <1>1, <1>2, <2>1 DEF SetupsFit, Quiet
<1>3. ASSUME NEW h \in Handler, NEW u \in User, Inserted(h, u)
      PROVE  SetupsFit'
  <2>1. /\ space[u].state = "free" /\ group[u] = NoGroup
        /\ users'[u].name = handler[h].name
        /\ \A v \in User \ {u} : users'[v] = users[v]
    BY <1>0, <1>3 DEF Inserted, FreeIsUnused
  <2>2. UNCHANGED <<space, group, renamed, condemned>> /\ handler'[h].pc = "resource"
        /\ handler'[h].user = u /\ handler'[h].name = handler[h].name
    BY <1>3 DEF Inserted
  <2>3. Registered(h, u)'
    BY <2>1, <2>2 DEF Registered
  <2>4. ASSUME NEW k \in Handler, k # h, handler'[k].pc \in Setup
        PROVE  Registered(k, handler[k].user)'
    <3>1. handler'[k] = handler[k]
      BY <1>3, <2>4 DEF Inserted, Moves
    <3>2. handler[k].user \in User \ {u}
      BY <1>0, <1>3, <2>4, <3>1 DEF Inserted, UsersOfRequests
    <3> QED BY <1>1, <2>1, <2>2, <2>4, <3>1, <3>2
  <2> QED BY <2>2, <2>3, <2>4 DEF SetupsFit
<1>4. ASSUME NEW h \in Handler, Moves(h), handler[h].pc \in Setup,
             users' = users, renamed' = renamed, condemned' = condemned,
             \A v \in User \ {handler[h].user} : space'[v] = space[v] /\ group'[v] = group[v],
             handler'[h].pc \in Setup => /\ handler'[h].user = handler[h].user
                                         /\ Registered(h, handler[h].user)'
      PROVE  SetupsFit'
  <2>1. ASSUME NEW k \in Handler, k # h, handler'[k].pc \in Setup
        PROVE  Registered(k, handler[k].user)'
    <3>1. handler'[k] = handler[k]
      BY <1>4, <2>1 DEF Moves
    <3>2. handler[k].user \in User \ {handler[h].user}
      BY <1>4, <1>b, <2>1, <3>1
    <3> QED BY <1>1, <1>4, <2>1, <3>1, <3>2
  <2> QED BY <1>4, <2>1 DEF SetupsFit
<1>5. ASSUME NEW h \in Handler, CreateSpace(h)
      PROVE  SetupsFit'
  <2>1. /\ Moves(h) /\ handler[h].pc = "resource" /\ handler[h].pc \in Setup
        /\ handler'[h] = Idle \/ (Keeps(h) /\ handler'[h].pc = "group")
    BY <1>0, <1>5, RegisterMoves DEF Setup
  <2>2. handler[h].user \in User /\ group[handler[h].user] = NoGroup
    BY <1>0, <2>1 DEF UsersOfRequests, SetupsFit, Registered
  <2>3. UNCHANGED <<users, group, renamed, condemned>>
    BY <1>5 DEF CreateSpace
  <2>4. \/ Finish(h) /\ space' = space
        \/ space' = [space EXCEPT ![handler[h].user] = [state |-> "here", name |-> handler[h].name]]
    BY <1>5 DEF CreateSpace
  <2>5. \A v \in User \ {handler[h].user} : space'[v] = space[v]
    BY <1>0, <2>4
  <2>6. handler'[h].pc \in Setup =>
          /\ handler'[h].user = handler[h].user /\ handler'[h].pc = "group"
          /\ space'[handler[h].user].state = "here"
    <3>1. CASE Finish(h)
      BY <1>0, <1>a, <3>1, FinishMoves DEF TypeOK
    <3>2. CASE ~ Finish(h)
      BY <1>0, <1>a, <2>1, <2>2, <2>4, <3>2 DEF Keeps
    <3> QED BY <3>1, <3>2
  <2>7. handler'[h].pc \in Setup => Registered(h, handler[h].user)'
    BY <2>2, <2>3, <2>6 DEF Registered
  <2> QED BY <1>4, <2>1, <2>3, <2>5, <2>6, <2>7
<1>6. ASSUME NEW h \in Handler, CreateGroup(h)
      PROVE  SetupsFit'
  <2>1. Moves(h) /\ handler[h].pc = "group" /\ handler[h].pc \in Setup /\ Keeps(h) /\ handler'[h].pc = "bind"
    BY <1>0, <1>6, RegisterMoves DEF Setup
  <2>2. /\ handler[h].user \in User /\ group[handler[h].user] = NoGroup
        /\ space[handler[h].user].state = "here" \/ handler[h].user \in condemned
    BY <1>0, <2>1 DEF UsersOfRequests, SetupsFit, Registered
  <2>3. UNCHANGED <<users, space, renamed, condemned>>
    BY <1>6 DEF CreateGroup, seen
  <2>4. group' = [group EXCEPT ![handler[h].user].state = "made"]
    BY <1>6 DEF CreateGroup
  <2>5. group'[handler[h].user] = [state |-> "made", grants |-> 0]
    BY <1>0, <2>2, <2>4 DEF NoGroup
  <2>6. Registered(h, handler[h].user)'
    BY <2>1, <2>2, <2>3, <2>5 DEF Registered, Keeps
  <2> QED BY <1>0, <1>4, <2>1, <2>3, <2>4, <2>6 DEF Keeps
<1>7. ASSUME NEW h \in Handler, BindUser(h)
      PROVE  SetupsFit'
  <2>1. /\ Moves(h) /\ handler[h].pc = "bind" /\ handler[h].pc \in Setup
        /\ handler'[h] = Idle \/ (Keeps(h) /\ handler'[h].pc = "grant" /\ handler[h].user \in Living)
    BY <1>0, <1>7, RegisterMoves DEF Setup
  <2>2. /\ handler[h].user \in User /\ group[handler[h].user] = [state |-> "made", grants |-> 0]
        /\ space[handler[h].user].state = "here" \/ handler[h].user \in condemned
    BY <1>0, <2>1 DEF UsersOfRequests, SetupsFit, Registered
  <2>3. UNCHANGED <<users, space, renamed, condemned>>
    BY <1>7 DEF BindUser, seen
  <2>4. \/ group' = group
        \/ group' = [group EXCEPT ![handler[h].user].state = "bound"]
    BY <1>7 DEF BindUser
  <2>5. \A v \in User \ {handler[h].user} : group'[v] = group[v]
    BY <1>0, <2>4
  <2>6. handler'[h].pc \in Setup => Registered(h, handler[h].user)'
    <3> SUFFICES ASSUME handler'[h].pc \in Setup
                 PROVE  Registered(h, handler[h].user)'
      OBVIOUS
    <3>1. handler'[h].pc = "grant" /\ handler[h].user \in Living
      BY <1>a, <2>1
    <3>2. group' = [group EXCEPT ![handler[h].user].state = "bound"]
      BY <1>7, <3>1 DEF BindUser
    <3>3. group'[handler[h].user] = [state |-> "bound", grants |-> 0]
      BY <1>0, <2>2, <3>2
    <3>4. handler'[h].user = handler[h].user
      BY <1>a, <2>1 DEF Keeps
    <3> QED BY <2>2, <2>3, <3>1, <3>3, <3>4 DEF Registered, Grants
  <2> QED BY <1>4, <1>a, <2>1, <2>3, <2>5, <2>6 DEF Keeps
<1>8. ASSUME NEW h \in Handler, GrantNext(h)
      PROVE  SetupsFit'
  <2>1. /\ Moves(h) /\ handler[h].pc = "grant" /\ handler[h].pc \in Setup
        /\ handler'[h] = Idle \/ handler' = handler
    BY <1>0, <1>8, RegisterMoves DEF Setup
  <2>2. /\ handler[h].user \in User
        /\ group[handler[h].user].grants < Grants
        /\ handler[h].user \in Living => group[handler[h].user].state = "bound"
        /\ space[handler[h].user].state = "here" \/ handler[h].user \in condemned
    BY <1>0, <2>1 DEF UsersOfRequests, SetupsFit, Registered
  <2>3. UNCHANGED <<users, space, renamed, condemned>>
    BY <1>8 DEF GrantNext, seen
  <2>4. \/ group' = group
        \/ group' = [group EXCEPT ![handler[h].user].grants = @ + 1]
    BY <1>8 DEF GrantNext
  <2>5. \A v \in User \ {handler[h].user} : group'[v] = group[v]
    BY <1>0, <2>4
  <2>6. handler'[h].pc \in Setup => Registered(h, handler[h].user)'
    <3> SUFFICES ASSUME handler'[h].pc \in Setup
                 PROVE  Registered(h, handler[h].user)'
      OBVIOUS
    <3>1. handler' = handler /\ ~ Finish(h)
      BY <1>0, <1>a, <2>1, FinishMoves DEF TypeOK
    <3>2. /\ group' = [group EXCEPT ![handler[h].user].grants = @ + 1]
          /\ group[handler[h].user].grants + 1 # Grants
      BY <1>8, <3>1 DEF GrantNext
    <3>3. /\ group'[handler[h].user].state = group[handler[h].user].state
          /\ group'[handler[h].user].grants = group[handler[h].user].grants + 1
          /\ group[handler[h].user].grants \in 0..4
      BY <1>0, <2>2, <3>2 DEF Group
    <3>4. group'[handler[h].user].grants < Grants
      BY <2>2, <3>2, <3>3 DEF Grants
    <3>5. handler[h].user \in Living' => handler[h].user \in Living
      BY <2>3 DEF Living
    <3> QED BY <2>1, <2>2, <2>3, <3>1, <3>3, <3>4, <3>5 DEF Registered
  <2> QED BY <1>4, <1>a, <2>1, <2>3, <2>5, <2>6
<1>9. ASSUME NEW u \in User, Deletable(u), Dropped(u), users' = users, renamed' = renamed,
             condemned \subseteq condemned', u \in condemned', SetupsShrink,
             \A k \in Handler : handler'[k].pc \in Setup => handler'[k] = handler[k]
      PROVE  SetupsFit'
  <2> SUFFICES ASSUME NEW k \in Handler, handler'[k].pc \in Setup
               PROVE  Registered(k, handler[k].user)'
    BY DEF SetupsFit
  <2>1. handler'[k] = handler[k] /\ handler[k].pc \in Setup /\ handler[k].user \in User
    BY <1>0, <1>9 DEF UsersOfRequests
  <2>2. Registered(k, handler[k].user)
    BY <1>0, <2>1 DEF SetupsFit
  <2>3. CASE handler[k].user = u
    <3>1. handler[k].pc # "resource"
      BY <1>9, <2>2, <2>3 DEF Registered, Deletable
    <3>2. group'[u] = [group[u] EXCEPT !.grants = 0] /\ group[u] \in Group
      BY <1>0, <1>9 DEF Dropped
    <3>3. group'[u].state = group[u].state /\ group'[u].grants = 0
          /\ (group[u] = NoGroup => group'[u] = NoGroup)
          /\ (group[u] = [state |-> "made", grants |-> 0] => group'[u] = [state |-> "made", grants |-> 0])
      BY <3>2 DEF Group, NoGroup
    <3>4. Living' = Living
      BY <1>9 DEF Living
    <3> QED BY <1>9, <2>1, <2>2, <2>3, <3>1, <3>3, <3>4 DEF Registered, Grants
  <2>4. CASE handler[k].user # u
    <3>1. LET v == handler[k].user IN
            users'[v] = users[v] /\ space'[v] = space[v] /\ group'[v] = group[v]
      BY <1>0, <1>9, <2>1, <2>4 DEF Dropped
    <3> QED BY <1>1, <1>9, <2>1, <3>1
  <2> QED BY <2>3, <2>4
<1>10. ASSUME NEW h \in Handler, DropSpace(h)
       PROVE  SetupsFit'
  <2>1. handler[h].pc = "drop" /\ UNCHANGED <<users, renamed, condemned>>
    BY <1>10 DEF DropSpace, seen
  <2>2. handler[h].user \in User /\ handler[h].user \in condemned
    BY <1>0, <2>1 DEF UsersOfRequests, DeletePc, DeletionsFit, Erasing
  <2>3. Moves(h) /\ handler'[h].pc \notin Setup
    BY <1>0, <1>10, <1>a, EraseMoves DEF Setup
  <2>4. /\ SetupsShrink
        /\ \A k \in Handler : handler'[k].pc \in Setup => handler'[k] = handler[k]
    BY <2>3 DEF Moves, SetupsShrink
  <2>5. CASE UNCHANGED <<space, group>>
    <3>1. \A k \in Handler : handler'[k].pc \in Setup => handler'[k] = handler[k]
      BY <2>4
    <3> QED BY <1>1, <2>1, <2>5, <3>1 DEF SetupsFit
  <2>6. CASE Deletable(handler[h].user) /\ Dropped(handler[h].user)
    BY <1>9, <2>1, <2>2, <2>4, <2>6
  <2> QED BY <1>0, <1>10, <2>5, <2>6, EraseMoves
<1>11. ASSUME NEW u \in User, RemoveSpace(u)
       PROVE  SetupsFit'
  <2>1. /\ Deletable(u) /\ Dropped(u) /\ UNCHANGED <<users, renamed, handler>>
        /\ condemned' = condemned \cup {u}
    BY <1>11 DEF RemoveSpace
  <2>2. SetupsShrink /\ \A k \in Handler : handler'[k].pc \in Setup => handler'[k] = handler[k]
    BY <2>1 DEF SetupsShrink
  <2> QED BY <1>9, <2>1, <2>2
<1>12. ASSUME NEW h \in Handler, DropUser(h)
       PROVE  SetupsFit'
  <2> SUFFICES ASSUME NEW k \in Handler, handler'[k].pc \in Setup
               PROVE  Registered(k, handler[k].user)'
    BY DEF SetupsFit
  <2>1. handler'[k] = handler[k] /\ handler[k].pc \in Setup /\ handler[k].user \in User
    BY <1>0, <1>12, <1>a, EraseMoves DEF Moves, UsersOfRequests
  <2>2. Registered(k, handler[k].user)
    BY <1>0, <2>1 DEF SetupsFit
  <2>3. space' = space /\ renamed' = renamed /\ condemned' = condemned
    BY <1>12 DEF DropUser, seen
  <2>4. CASE users' = users /\ group' = group
    BY <1>1, <2>1, <2>3, <2>4
  <2>5. CASE /\ handler[h].user \in Living
             /\ users' = [users EXCEPT ![handler[h].user].state = "gone"]
             /\ group' = [group EXCEPT ![handler[h].user].state = IF @ = "bound" THEN "made" ELSE @]
    <3>1. CASE handler[k].user # handler[h].user
      <4>1. LET v == handler[k].user IN
              users'[v] = users[v] /\ space'[v] = space[v] /\ group'[v] = group[v]
        BY <1>0, <2>1, <2>3, <2>5, <3>1
      <4> QED BY <1>1, <2>1, <2>3, <4>1
    <3>2. CASE handler[k].user = handler[h].user
      <4>1. users'[handler[k].user].name = users[handler[k].user].name /\ handler[k].user \notin Living'
        BY <1>0, <2>1, <2>5, <3>2 DEF Living, Account
      <4>2. group'[handler[k].user].grants = group[handler[k].user].grants
        BY <1>0, <2>1, <2>5, <3>2 DEF Group
      <4>3. group[handler[k].user].state # "bound" => group'[handler[k].user] = group[handler[k].user]
        BY <1>0, <2>1, <2>5, <3>2 DEF Group
      <4> QED BY <2>1, <2>2, <2>3, <4>1, <4>2, <4>3 DEF Registered, NoGroup
    <3> QED BY <3>1, <3>2
  <2> QED BY <1>12, <2>4, <2>5 DEF DropUser
<1>13. ASSUME NEW u \in User, NEW name \in Name, Rename(u, name)
       PROVE  SetupsFit'
  <2> SUFFICES ASSUME NEW k \in Handler, handler'[k].pc \in Setup
               PROVE  Registered(k, handler[k].user)'
    BY DEF SetupsFit
  <2>1. /\ handler' = handler /\ renamed' = renamed \cup {u} /\ condemned' = condemned
        /\ space' = space /\ group' = group
    BY <1>13 DEF Rename
  <2>2. handler[k].user \in User /\ Registered(k, handler[k].user)
    BY <1>0, <2>1 DEF UsersOfRequests, SetupsFit
  <2>3. /\ \A v \in User \ {u} : users'[v] = users[v]
        /\ users'[u].state = users[u].state
    BY <1>0, <1>13 DEF Rename, Account
  <2>4. Living' = Living
    BY <2>3 DEF Living
  <2> QED BY <2>1, <2>2, <2>3, <2>4 DEF Registered
<1>14. CASE ServerRestart
  BY <1>14, <1>a DEF ServerRestart, SetupsFit
<1> QED BY <1>0, <1>2, <1>3, <1>5, <1>6, <1>7, <1>8, <1>10, <1>11, <1>12, <1>13, <1>14, Cases, InsertCases
        DEF AccountStep

\* Between the first step and the last of a registration the user is being registered.
LEMMA RegisteringIs ==
  ASSUME UsersOfRequests, NEW u \in User
  PROVE  Registering(u) <=> \E h \in Handler : handler[h].pc \in Setup /\ handler[h].user = u
<1>1. \A pc : pc \in RegisterPc <=> pc \in Setup \/ pc \in {"check", "insert"}
  BY DEF RegisterPc, Setup
<1> QED BY <1>1, Basics DEF Registering, UsersOfRequests

Ready(u) == space[u].state = "here" /\ group[u] = Complete

\* A user stays ready, or is being set up.
LEMMA HasSpaceStays ==
  ASSUME UInv, [Next]_vars
  PROVE  HasSpace'
<1>0. /\ TypeOK /\ UsersOfRequests /\ SetupsFit /\ NamesFit /\ HasSpace /\ DeletionsFit /\ OneMaker
      /\ UsersOfRequests'
      /\ users \in [User -> Account] /\ space \in [User -> Account] /\ group \in [User -> Group]
  BY UsersStay DEF UInv, TypeOK
<1>a. Idle.pc \notin Setup /\ Living \subseteq User
  BY Basics DEF Setup
<1>b. \A u \in Living \ (condemned \cup cut) :
        Ready(u) \/ \E h \in Handler : handler[h].pc \in Setup /\ handler[h].user = u
  BY <1>0, <1>a, RegisteringIs DEF HasSpace, Ready
<1>c. ASSUME \A u \in Living' \ (condemned' \cup cut') :
               Ready(u)' \/ \E h \in Handler : handler'[h].pc \in Setup /\ handler'[h].user = u
      PROVE  HasSpace'
  <2> SUFFICES ASSUME NEW u \in Living' \ (condemned' \cup cut')
               PROVE  Registering(u)' \/ Ready(u)'
    BY DEF HasSpace, Ready
  <2>1. u \in User
    BY DEF Living
  <2>2. \A pc \in Setup : pc \in RegisterPc
    BY DEF RegisterPc, Setup
  <2> QED BY <1>c, <2>1, <2>2 DEF Registering
<1>1. CASE Quiet
  <2>1. \A k \in Handler : handler[k].pc \in Setup => handler'[k] = handler[k]
    BY <1>1 DEF Quiet
  <2>2. Living' = Living /\ \A u \in User : Ready(u)' = Ready(u)
    BY <1>1 DEF Quiet, Living, Ready
  <2>3. condemned \subseteq condemned' /\ cut' = cut
    BY <1>1 DEF Quiet
  <2> QED BY <1>a, <1>b, <1>c, <2>1, <2>2, <2>3
<1>2. ASSUME NEW h \in Handler, NEW u \in User, Inserted(h, u)
      PROVE  HasSpace'
  <2>1. /\ handler'[h].pc \in Setup /\ handler'[h].user = u
        /\ \A k \in Handler : handler[k].pc \in Setup => handler'[k] = handler[k]
    BY <1>2 DEF Inserted, Moves, Setup
  <2>2. /\ \A v \in User : Ready(v)' = Ready(v)
        /\ condemned' = condemned /\ cut' = cut
    BY <1>2 DEF Inserted, Ready
  <2>3. Living' \subseteq Living \cup {u}
    BY <1>0, <1>2 DEF Inserted, Living
  <2> QED BY <1>a, <1>b, <1>c, <2>1, <2>2, <2>3
<1>3. ASSUME NEW h \in Handler, Moves(h), handler[h].pc \in Setup,
             users' = users, condemned' = condemned, cut \subseteq cut',
             \A v \in User \ {handler[h].user} : Ready(v)' = Ready(v),
             \/ handler[h].user \notin Living \/ handler[h].user \in condemned \cup cut'
             \/ space'[handler[h].user].state = "here" /\ group'[handler[h].user] = Complete
             \/ handler'[h].pc \in Setup /\ handler'[h].user = handler[h].user
      PROVE  HasSpace'
  <2>1. Living' = Living /\ \A k \in Handler \ {h} : handler'[k] = handler[k]
    BY <1>3 DEF Living, Moves
  <2> SUFFICES ASSUME NEW v \in Living \ (condemned \cup cut')
               PROVE  Ready(v)' \/ \E k \in Handler : handler'[k].pc \in Setup /\ handler'[k].user = v
    BY <1>3, <1>c, <2>1
  <2>2. CASE v = handler[h].user
    BY <1>3, <2>2 DEF Ready
  <2>3. CASE v # handler[h].user
    <3>1. Ready(v)' = Ready(v)
      BY <1>3, <1>a, <2>3
    <3>2. Ready(v) \/ \E k \in Handler : handler[k].pc \in Setup /\ handler[k].user = v
      BY <1>3, <1>b
    <3> QED BY <2>1, <2>3, <3>1, <3>2
  <2> QED BY <2>2, <2>3
<1>4. ASSUME NEW h \in Handler, CreateSpace(h)
      PROVE  HasSpace'
  <2> DEFINE u == handler[h].user
             name == handler[h].name
  <2>1. /\ Moves(h) /\ handler[h].pc = "resource" /\ handler[h].pc \in Setup
        /\ \/ handler'[h] = Idle /\ space' = space /\ TakesPath(u, name)
           \/ Keeps(h) /\ handler'[h].pc = "group" /\ cut' = cut
    BY <1>0, <1>4, RegisterMoves DEF Setup
  <2>2. users' = users /\ condemned' = condemned /\ group' = group /\ u \in User
    BY <1>0, <1>4, <2>1 DEF CreateSpace, UsersOfRequests
  <2>3. cut \subseteq cut' /\ \A v \in User \ {u} : Ready(v)' = Ready(v)
    BY <1>0, <1>4, <2>2 DEF CreateSpace, Ready
  <2>4. ASSUME TakesPath(u, name), u \in Living
        PROVE  u \in cut'
    <3>1. PICK v \in User \ {u} : space[v].state = "here" /\ space[v].name = name
      BY <2>4 DEF TakesPath
    <3>2. u \notin renamed => name = users[u].name
      BY <1>0, <2>1 DEF SetupsFit, Registered
    <3>3. v \notin renamed => space[v].name = users[v].name
      BY <1>0, <3>1 DEF NamesFit
    <3>4. v \in Living /\ u \notin renamed => v \in renamed
      BY <1>0, <2>4, <3>1, <3>2, <3>3 DEF NamesFit
    <3>5. {u, v} \cap renamed # {} \/ v \notin Living
      BY <3>4
    <3> QED BY <1>4, <2>4, <3>1, <3>5 DEF CreateSpace
  <2>5. CASE TakesPath(u, name)
    BY <1>3, <2>1, <2>2, <2>3, <2>4, <2>5
  <2>6. CASE ~ TakesPath(u, name)
    <3>1. handler'[h].pc \in Setup /\ handler'[h].user = u
      BY <2>1, <2>6 DEF Setup, Keeps
    <3> QED BY <1>3, <2>1, <2>2, <2>3, <3>1
  <2> QED BY <2>5, <2>6
<1>5. ASSUME NEW h \in Handler, CreateGroup(h)
      PROVE  HasSpace'
  <2>1. /\ Moves(h) /\ handler[h].pc \in Setup /\ handler'[h].pc \in Setup
        /\ handler'[h].user = handler[h].user
    BY <1>0, <1>5, RegisterMoves DEF Setup, Keeps
  <2>2. users' = users /\ condemned' = condemned /\ cut' = cut /\ space' = space
    BY <1>5 DEF CreateGroup, seen
  <2>3. \A v \in User \ {handler[h].user} : Ready(v)' = Ready(v)
    BY <1>0, <1>5, <2>2 DEF CreateGroup, Ready
  <2> QED BY <1>3, <2>1, <2>2, <2>3
<1>6. ASSUME NEW h \in Handler, BindUser(h)
      PROVE  HasSpace'
  <2>1. /\ Moves(h) /\ handler[h].pc \in Setup
        /\ \/ handler[h].user \notin Living
           \/ handler'[h].user = handler[h].user /\ handler'[h].pc \in Setup
    BY <1>0, <1>6, RegisterMoves DEF Setup, Keeps
  <2>2. users' = users /\ condemned' = condemned /\ cut' = cut /\ space' = space
    BY <1>6 DEF BindUser, seen
  <2>3. \A v \in User \ {handler[h].user} : Ready(v)' = Ready(v)
    BY <1>0, <1>6, <2>2 DEF BindUser, Ready
  <2> QED BY <1>3, <2>1, <2>2, <2>3
<1>7. ASSUME NEW h \in Handler, GrantNext(h)
      PROVE  HasSpace'
  <2> DEFINE u == handler[h].user
  <2>1. /\ Moves(h) /\ handler[h].pc = "grant" /\ handler[h].pc \in Setup
        /\ handler'[h] = Idle \/ handler' = handler
    BY <1>0, <1>7, RegisterMoves DEF Setup
  <2>2. users' = users /\ condemned' = condemned /\ cut' = cut /\ space' = space
    BY <1>7 DEF GrantNext, seen
  <2>3. \A v \in User \ {u} : Ready(v)' = Ready(v)
    BY <1>0, <1>7, <2>2 DEF GrantNext, Ready
  <2>4. /\ u \in User /\ group[u] \in Group
        /\ u \in Living => group[u].state = "bound"
        /\ space[u].state = "here" \/ u \in condemned
    BY <1>0, <2>1 DEF UsersOfRequests, SetupsFit, Registered
  <2>5. CASE space[u].state = "here" /\ group[u].grants + 1 = Grants /\ u \in Living
    <3>1. group' = [group EXCEPT ![u].grants = @ + 1]
      BY <1>7, <2>5 DEF GrantNext
    <3>2. group'[u] = Complete
      BY <1>0, <2>4, <2>5, <3>1 DEF Group, Complete, Grants
    <3>3. space'[u].state = "here"
      BY <2>2, <2>5
    <3> QED BY <1>3, <2>1, <2>2, <2>3, <3>2, <3>3
  <2>6. CASE space[u].state = "here" /\ group[u].grants + 1 # Grants
    <3>1. handler' = handler
      BY <1>7, <2>6 DEF GrantNext
    <3> QED BY <1>3, <2>1, <2>2, <2>3, <3>1
  <2>7. CASE space[u].state # "here" \/ u \notin Living
    BY <1>3, <2>1, <2>2, <2>3, <2>4, <2>7
  <2> QED BY <2>5, <2>6, <2>7
<1>8. ASSUME NEW u \in User, Dropped(u), users' = users, cut' = cut,
             condemned \subseteq condemned', u \in condemned',
             \A k \in Handler : handler[k].pc \in Setup => handler'[k] = handler[k]
      PROVE  HasSpace'
  <2>1. Living' = Living /\ \A v \in User \ {u} : Ready(v)' = Ready(v)
    BY <1>0, <1>8 DEF Living, Dropped, Ready
  <2> QED BY <1>8, <1>a, <1>b, <1>c, <2>1
<1>9. ASSUME NEW h \in Handler, DropSpace(h)
      PROVE  HasSpace'
  <2>1. handler[h].pc = "drop" /\ UNCHANGED <<users, condemned, cut>>
    BY <1>9 DEF DropSpace, seen
  <2>2. handler[h].user \in User /\ handler[h].user \in condemned
    BY <1>0, <2>1 DEF UsersOfRequests, DeletePc, DeletionsFit, Erasing
  <2>3. \A k \in Handler : handler[k].pc \in Setup => handler'[k] = handler[k]
    BY <1>0, <1>9, <2>1, EraseMoves DEF Moves, Setup
  <2>4. CASE UNCHANGED <<space, group>>
    <3>1. Living' = Living /\ \A v \in User : Ready(v)' = Ready(v)
      BY <2>1, <2>4 DEF Living, Ready
    <3> QED BY <1>a, <1>b, <1>c, <2>1, <2>3, <3>1
  <2>5. CASE Dropped(handler[h].user)
    BY <1>8, <2>1, <2>2, <2>3, <2>5
  <2> QED BY <1>0, <1>9, <2>4, <2>5, EraseMoves
<1>10. ASSUME NEW u \in User, RemoveSpace(u)
       PROVE  HasSpace'
  BY <1>8, <1>10 DEF RemoveSpace
<1>11. ASSUME NEW h \in Handler, DropUser(h)
       PROVE  HasSpace'
  <2>1. handler[h].pc = "end" /\ UNCHANGED <<space, condemned, cut>>
    BY <1>11 DEF DropUser, seen
  <2>2. \A k \in Handler : handler[k].pc \in Setup => handler'[k] = handler[k]
    BY <1>0, <1>11, <2>1, EraseMoves DEF Moves, Setup
  <2>3. CASE users' = users /\ group' = group
    <3>1. Living' = Living /\ \A v \in User : Ready(v)' = Ready(v)
      BY <2>1, <2>3 DEF Living, Ready
    <3> QED BY <1>a, <1>b, <1>c, <2>1, <2>2, <3>1
  <2>4. CASE /\ handler[h].user \in Living
             /\ users' = [users EXCEPT ![handler[h].user].state = "gone"]
             /\ group' = [group EXCEPT ![handler[h].user].state = IF @ = "bound" THEN "made" ELSE @]
    <3>1. Living' = Living \ {handler[h].user}
      BY <1>0, <2>4 DEF Living, Account
    <3>2. \A v \in User \ {handler[h].user} : Ready(v)' = Ready(v)
      BY <1>0, <2>1, <2>4 DEF Ready
    <3> QED BY <1>a, <1>b, <1>c, <2>1, <2>2, <3>1, <3>2
  <2> QED BY <1>11, <2>3, <2>4 DEF DropUser
<1>12. ASSUME NEW u \in User, NEW name \in Name, Rename(u, name)
       PROVE  HasSpace'
  <2>1. handler' = handler /\ UNCHANGED <<space, group, condemned, cut>>
    BY <1>12 DEF Rename
  <2>2. Living' = Living /\ \A v \in User : Ready(v)' = Ready(v)
    BY <1>0, <1>12, <2>1 DEF Rename, Living, Account, Ready
  <2> QED BY <1>a, <1>b, <1>c, <2>1, <2>2
<1>13. CASE ServerRestart
  <2>1. UNCHANGED <<users, space, group, condemned>> /\ cut' = cut \cup {u \in User : Registering(u)}
    BY <1>13 DEF ServerRestart, accounts
  <2>2. Living' = Living /\ \A v \in User : Ready(v)' = Ready(v)
    BY <2>1 DEF Living, Ready
  <2>3. \A v \in Living' \ (condemned' \cup cut') : Ready(v)'
    <3> SUFFICES ASSUME NEW v \in Living', v \notin condemned', v \notin cut'
                 PROVE  Ready(v)'
      OBVIOUS
    <3>1. v \in User /\ v \in Living \ (condemned \cup cut) /\ ~ Registering(v)
      BY <1>a, <2>1, <2>2
    <3>2. Ready(v)
      BY <1>0, <3>1 DEF HasSpace, Ready
    <3> QED BY <2>2, <3>1, <3>2
  <2> QED BY <1>c, <2>3
<1> QED BY <1>0, <1>1, <1>2, <1>4, <1>5, <1>6, <1>7, <1>9, <1>10, <1>11, <1>12, <1>13, Cases, InsertCases
        DEF AccountStep

-----------------------------------------------------------------------------
(* Deletions *)

\* The steps that a deletion makes once it has looked for the space.
LookedStep(h) ==
  \/ ListFiles(h) \/ FetchBlob(h) \/ AwaitBlob(h) \/ PackBlob(h) \/ UploadArchive(h) \/ ListOwned(h)
  \/ ListOthers(h) \/ FilesErased(h) \/ ClearFile(h) \/ EraseRow(h) \/ DropSpace(h)

LEMMA LookedSteps ==
  ASSUME TypeOK, [Next]_vars, NEW h \in Handler, handler'[h].pc \in Looked, handler'[h] # handler[h]
  PROVE  ReadSpace(h) \/ LookedStep(h)
<1>a. /\ Looked \cap (Setup \cup {"check", "insert", "user", "settings", "space", "store", "idle"}) = {}
      /\ handler'[h] # Idle
  <2>1. Looked \cap (Setup \cup {"check", "insert", "user", "settings", "space", "store", "idle"}) = {}
    BY DEF Looked, DeletePc, Setup
  <2> QED BY <2>1, Basics
<1>1. ASSUME NEW k \in Handler, Moves(k)
      PROVE  k = h
  BY <1>1 DEF Moves
<1>2. ASSUME NEW k \in Handler, CheckName(k) \/ InsertUser(k) \/ StoreFile(k)
      PROVE  FALSE
  <2>1. Moves(k) /\ (handler'[k] = Idle \/ handler'[k].pc \in {"insert", "resource"})
    BY <1>2, RegisterMoves
  <2> QED BY <1>1, <1>a, <2>1 DEF Setup
<1>3. ASSUME NEW k \in Handler, CreateSpace(k) \/ CreateGroup(k) \/ BindUser(k)
      PROVE  FALSE
  <2>1. Moves(k) /\ (handler'[k] = Idle \/ handler'[k].pc \in Setup)
    BY <1>3, RegisterMoves DEF Setup
  <2> QED BY <1>1, <1>a, <2>1
<1>4. ASSUME NEW k \in Handler, GrantNext(k)
      PROVE  FALSE
  <2>1. Moves(k) /\ (handler'[k] = Idle \/ handler' = handler)
    BY <1>4, RegisterMoves
  <2> QED BY <1>1, <1>a, <2>1
<1>5. ASSUME NEW k \in Handler, ReadUser(k) \/ ReadSettings(k) \/ DropUser(k)
      PROVE  FALSE
  <2>1. Moves(k) /\ (handler'[k] = Idle \/ handler'[k].pc \in {"settings", "space"})
    BY <1>5, ArchiveMoves, EraseMoves
  <2> QED BY <1>1, <1>a, <2>1
<1>6. ASSUME NEW k \in Handler, ReadSpace(k) \/ LookedStep(k)
      PROVE  k = h
  BY <1>1, <1>6, ArchiveMoves, EraseMoves DEF LookedStep
<1>7. ASSUME NEW k \in Handler,
             \/ \E name \in Name : Register(k, name)
             \/ \E u \in User : Delete(k, u)
             \/ \E owner \in User \cup {Operator}, home \in Home : Store(k, owner, home)
      PROVE  FALSE
  <2>1. Moves(k) /\ handler'[k].pc \in {"check", "user", "store"}
    BY <1>7, AcceptMoves
  <2> QED BY <1>1, <1>a, <2>1
<1>8. ~ ServerRestart
  BY <1>a DEF ServerRestart
<1>9. handler' # handler
  OBVIOUS
<1>10. ASSUME NEW k \in Handler, HandlerStep(k)
       PROVE  ReadSpace(h) \/ LookedStep(h)
  BY <1>2, <1>3, <1>4, <1>5, <1>6, <1>10 DEF HandlerStep, RegisterStep, DeleteStep, LookedStep
<1> QED
  BY <1>7, <1>8, <1>9, <1>10
     DEF Next, vars, RemoveSpace, Rename, SaveSettings, AgentCollect, AgentDelete, Relist, AgentOnly

\* What such a step does to its request.
LEMMA LookedMoves ==
  ASSUME TypeOK, NEW h \in Handler, LookedStep(h), handler'[h].pc \in Looked
  PROVE  /\ handler[h].pc \in Looked /\ handler'[h].user = handler[h].user
         /\ handler'[h].has = handler[h].has /\ handler'[h].archive = handler[h].archive
         /\ handler'[h].pc \in Erasing => handler[h].pc \in Erasing \/ UploadArchive(h)
         /\ handler'[h].pc = "end" /\ handler[h].has => DropSpace(h)
         /\ ListFiles(h) \/ Keeps(h)
<1>1. handler'[h] # Idle
  BY Basics DEF Looked, DeletePc
<1>2. CASE ListFiles(h)
  BY <1>2, ArchiveMoves DEF Looked, Erasing, DeletePc, ListFiles
<1>3. CASE FetchBlob(h) \/ AwaitBlob(h) \/ PackBlob(h)
  BY <1>3, EraseMoves DEF Looked, Erasing, DeletePc, Fetching, Keeps
<1>4. CASE UploadArchive(h)
  BY <1>1, <1>4, EraseMoves DEF Looked, DeletePc, Keeps
<1>5. CASE ListOwned(h) \/ ListOthers(h) \/ ClearFile(h)
  <2>1. handler[h].pc \in Erasing /\ handler[h].pc \in Looked
    BY <1>5 DEF ListOwned, ListOthers, ClearFile, Erasing, Looked, DeletePc
  <2>2. Keeps(h) /\ handler'[h].pc # "end"
    BY <1>5, EraseMoves
  <2> QED BY <2>1, <2>2 DEF Keeps
<1>6. CASE FilesErased(h)
  <2>1. handler[h].pc \in Erasing /\ handler[h].pc \in Looked
    BY <1>6 DEF FilesErased, Erasing, Looked, DeletePc
  <2> QED BY <1>6, <2>1, EraseMoves DEF Keeps
<1>7. CASE EraseRow(h)
  <2>1. handler[h].pc \in Erasing /\ handler[h].pc \in Looked
    BY <1>7 DEF EraseRow, Erasing, Looked, DeletePc
  <2> QED BY <1>1, <1>7, <2>1, EraseMoves DEF Keeps
<1>8. CASE DropSpace(h)
  <2>1. handler[h].pc \in Erasing /\ handler[h].pc \in Looked
    BY <1>8 DEF DropSpace, Erasing, Looked, DeletePc
  <2> QED BY <1>1, <1>8, <2>1, EraseMoves DEF Keeps
<1> QED BY <1>2, <1>3, <1>4, <1>5, <1>6, <1>7, <1>8 DEF LookedStep

\* Without a space and without a registration that is about to make one, that stays so.
LEMMA NoSpaceStays ==
  ASSUME UInv, [Next]_vars, NEW u \in User, NoSpace(u), users[u].state # "free"
  PROVE  NoSpace(u)'
<1>0. /\ TypeOK /\ UsersOfRequests /\ space \in [User -> Account]
  BY DEF UInv, TypeOK
<1>1. \A h \in Handler : ~ (handler'[h].pc = "resource" /\ handler'[h].user = u)
  <2>1. ASSUME NEW h \in Handler, NEW v \in User, Inserted(h, v)
        PROVE  \A k \in Handler : ~ (handler'[k].pc = "resource" /\ handler'[k].user = u)
    BY <2>1 DEF Inserted, Moves, NoSpace
  <2>2. ASSUME SetupsShrink, NEW k \in Handler, handler'[k].pc = "resource", handler'[k].user = u
        PROVE  FALSE
    <3>1. CASE Quiet
      BY <2>2, <3>1 DEF Quiet, NoSpace, Setup
    <3>2. ASSUME NEW h \in Handler, Moves(h), h = k => handler'[h].pc # "resource" \/ handler' = handler
          PROVE  FALSE
      BY <2>2, <3>2 DEF Moves, NoSpace
    <3>3. ASSUME NEW h \in Handler, CreateSpace(h) \/ CreateGroup(h) \/ BindUser(h) \/ GrantNext(h)
          PROVE  FALSE
      <4>1. Moves(h) /\ (handler'[h].pc # "resource" \/ handler' = handler)
        BY <1>0, <3>3, RegisterMoves, Basics
      <4> QED BY <3>2, <4>1
    <3>4. ASSUME NEW h \in Handler, DropSpace(h) \/ DropUser(h)
          PROVE  FALSE
      <4>1. Moves(h) /\ handler'[h].pc # "resource"
        BY <1>0, <3>4, EraseMoves, Basics
      <4> QED BY <3>2, <4>1
    <3>5. CASE handler' = handler
      BY <2>2, <3>5 DEF NoSpace
    <3>6. (\E v \in User : RemoveSpace(v) \/ \E name \in Name : Rename(v, name)) => handler' = handler
      BY DEF RemoveSpace, Rename
    <3>7. ~ ServerRestart
      BY <2>2, Basics DEF ServerRestart
    <3>8. ASSUME NEW h \in Handler, NEW v \in User, Inserted(h, v)
          PROVE  FALSE
      BY <2>1, <2>2, <3>8
    <3> QED BY <1>0, <3>1, <3>3, <3>4, <3>5, <3>6, <3>7, <3>8, Cases, InsertCases DEF AccountStep
  <2> QED BY <1>0, <2>1, <2>2, Makers
<1>2. space'[u].state # "here"
  <2>1. CASE space' = space
    BY <2>1 DEF NoSpace
  <2>2. ASSUME NEW h \in Handler, CreateSpace(h)
        PROVE  space'[u].state # "here"
    <3>1. handler[h].user # u
      BY <2>2 DEF CreateSpace, NoSpace
    <3> QED BY <1>0, <2>1, <2>2, <3>1 DEF CreateSpace, NoSpace
  <2>3. ASSUME NEW v \in User, Dropped(v)
        PROVE  space'[u].state # "here"
    BY <1>0, <2>3 DEF Dropped, NoSpace
  <2>4. ASSUME NEW h \in Handler, DropSpace(h)
        PROVE  space'[u].state # "here"
    <3>1. handler[h].user \in User
      BY <1>0, <2>4 DEF DropSpace, UsersOfRequests, DeletePc
    <3> QED BY <1>0, <2>1, <2>3, <2>4, <3>1, EraseMoves
  <2>5. ASSUME NEW v \in User, RemoveSpace(v)
        PROVE  space'[u].state # "here"
    BY <2>3, <2>5 DEF RemoveSpace
  <2>6. ASSUME NEW h \in Handler, InsertUser(h) \/ CreateGroup(h) \/ BindUser(h) \/ GrantNext(h) \/ DropUser(h)
        PROVE  space' = space
    BY <2>6 DEF InsertUser, CreateGroup, BindUser, GrantNext, DropUser
  <2>7. Quiet \/ ServerRestart \/ (\E v \in User, name \in Name : Rename(v, name)) => space' = space
    BY DEF Quiet, ServerRestart, Rename, accounts
  <2> QED BY <1>0, <2>1, <2>2, <2>4, <2>5, <2>6, <2>7, Cases DEF AccountStep
<1> QED BY <1>1, <1>2 DEF NoSpace

\* Nothing lets a user out of what has been observed.
LEMMA SeenGrows ==
  ASSUME TypeOK, [Next]_vars
  PROVE  condemned \subseteq condemned' /\ raced \subseteq raced'
<1>1. Quiet => condemned \subseteq condemned' /\ raced \subseteq raced'
  BY DEF Quiet
<1>2. ASSUME NEW h \in Handler,
             \/ InsertUser(h) \/ CreateSpace(h) \/ CreateGroup(h) \/ BindUser(h)
             \/ GrantNext(h) \/ DropSpace(h) \/ DropUser(h)
      PROVE  UNCHANGED <<condemned, raced>>
  BY <1>2 DEF InsertUser, CreateSpace, CreateGroup, BindUser, GrantNext, DropSpace, DropUser, seen
<1>3. ASSUME NEW u \in User, RemoveSpace(u) \/ \E name \in Name : Rename(u, name)
      PROVE  condemned \subseteq condemned' /\ raced' = raced
  BY <1>3 DEF RemoveSpace, Rename
<1>4. ServerRestart => UNCHANGED <<condemned, raced>>
  BY DEF ServerRestart
<1> QED BY <1>1, <1>2, <1>3, <1>4, Cases DEF AccountStep

LEMMA DeletionsStay ==
  ASSUME UInv, [Next]_vars
  PROVE  DeletionsFit'
<1>0. /\ TypeOK /\ UsersOfRequests /\ SetupsFit /\ DeletionsFit /\ space \in [User -> Account]
      /\ condemned \subseteq condemned' /\ raced \subseteq raced'
  BY SeenGrows DEF UInv, TypeOK
<1> SUFFICES ASSUME NEW h \in Handler
             PROVE  /\ handler'[h].pc \in Erasing => handler'[h].user \in condemned'
                    /\ handler'[h].pc \in Looked /\ ~ handler'[h].has =>
                         handler'[h].user \in raced' \/ NoSpace(handler[h].user)'
                    /\ handler'[h].pc = "end" /\ handler'[h].has => NoSpace(handler[h].user)'
  BY DEF DeletionsFit
<1>a. Erasing \subseteq Looked /\ "end" \in Looked /\ Looked \subseteq DeletePc
  BY DEF Erasing, Looked, DeletePc
<1>1. CASE handler'[h].pc \notin Looked
  BY <1>1, <1>a
<1>2. ASSUME handler[h].pc \in Looked, handler'[h].user = handler[h].user, NoSpace(handler[h].user)
      PROVE  NoSpace(handler[h].user)'
  <2>1. handler[h].user \in User /\ users[handler[h].user].state # "free"
    BY <1>0, <1>2, <1>a DEF UsersOfRequests
  <2>2. PICK u \in User : u = handler[h].user
    BY <2>1
  <2>3. NoSpace(u)'
    BY <1>2, <2>1, <2>2, NoSpaceStays
  <2> QED BY <1>2, <2>2, <2>3
<1>3. CASE handler'[h].pc \in Looked /\ handler'[h] = handler[h]
  BY <1>0, <1>2, <1>3, <1>a DEF DeletionsFit
<1>4. CASE handler'[h].pc \in Looked /\ ReadSpace(h)
  <2> DEFINE v == handler[h].user
  <2>0. PICK u \in User : u = handler[h].user
    BY <1>0, <1>4 DEF ReadSpace, UsersOfRequests, DeletePc
  <2>1. handler'[h] # Idle
    BY <1>4, Basics DEF Looked, DeletePc
  <2>2. /\ Moves(h) /\ handler'[h].user = u /\ handler'[h].pc \in {"list", "owned"}
        /\ handler'[h].has <=> space[u].state = "here"
        /\ handler'[h].pc = "owned" => u \in condemned'
    BY <1>0, <1>4, <2>0, <2>1, ArchiveMoves
  <2>3. handler'[h].pc \notin Erasing \/ u \in condemned'
    BY <2>2 DEF Erasing
  <2>4. ASSUME ~ handler'[h].has, u \notin raced'
        PROVE  NoSpace(u)'
    <3>1. space[u].state # "here" /\ ~ Registering(u)
      BY <1>4, <2>0, <2>2, <2>4 DEF ReadSpace
    <3>2. NoSpace(u)
      BY <3>1 DEF NoSpace, Registering, RegisterPc
    <3>3. users[u].state # "free"
      BY <1>0, <1>4, <2>0 DEF ReadSpace, UsersOfRequests, DeletePc
    <3> QED BY <3>2, <3>3, NoSpaceStays
  <2> QED BY <2>2, <2>3, <2>4
<1>5. CASE handler'[h].pc \in Looked /\ LookedStep(h)
  <2>0. PICK u \in User : u = handler[h].user
    BY <1>0, <1>5, <1>a, LookedMoves DEF UsersOfRequests
  <2>1. /\ handler[h].pc \in Looked /\ handler'[h].user = u /\ handler'[h].has = handler[h].has
        /\ handler'[h].pc \in Erasing => handler[h].pc \in Erasing \/ UploadArchive(h)
        /\ handler'[h].pc = "end" /\ handler[h].has => DropSpace(h)
    BY <1>0, <1>5, <2>0, LookedMoves
  <2>2. ASSUME UploadArchive(h), handler'[h].pc \in Erasing
        PROVE  u \in condemned'
    <3>1. ~ Finish(h)
      BY <1>0, <2>2, FinishMoves, Basics DEF Erasing, TypeOK
    <3> QED BY <2>0, <2>2, <3>1 DEF UploadArchive
  <2>3. ASSUME DropSpace(h), handler'[h].pc = "end"
        PROVE  NoSpace(u)'
    <3>1. Deletable(u) /\ Dropped(u) /\ Moves(h)
      BY <1>0, <2>0, <2>3, EraseMoves, Basics
    <3>2. space[u].state = "here" /\ space'[u].state = "gone"
      BY <1>0, <3>1 DEF Deletable, Dropped
    <3>3. ASSUME NEW k \in Handler, handler'[k].pc = "resource", handler'[k].user = u
          PROVE  FALSE
      <4>1. handler[k].pc = "resource" /\ handler[k].user = u
        BY <2>3, <3>1, <3>3 DEF Moves
      <4> QED BY <1>0, <3>2, <4>1 DEF SetupsFit, Registered, Setup
    <3> QED BY <3>2, <3>3 DEF NoSpace
  <2>4. handler'[h].pc \in Erasing => u \in condemned'
    BY <1>0, <2>0, <2>1, <2>2 DEF DeletionsFit
  <2>5. ~ handler'[h].has => u \in raced' \/ NoSpace(u)'
    <3>1. ~ handler[h].has => u \in raced \/ NoSpace(u)
      BY <1>0, <2>0, <2>1 DEF DeletionsFit
    <3>2. users[u].state # "free"
      BY <1>0, <2>0, <2>1, <1>a DEF UsersOfRequests
    <3> QED BY <1>0, <2>1, <3>1, <3>2, NoSpaceStays
  <2> QED BY <2>1, <2>3, <2>4, <2>5
<1> QED BY <1>0, <1>1, <1>3, <1>4, <1>5, LookedSteps

LEMMA GoneStays ==
  ASSUME UInv, [Next]_vars
  PROVE  GoneForGood'
<1>0. /\ TypeOK /\ UsersOfRequests /\ DeletionsFit /\ GoneForGood /\ users \in [User -> Account]
      /\ raced \subseteq raced'
  BY SeenGrows DEF UInv, TypeOK
<1> SUFFICES ASSUME NEW u \in User, users'[u].state = "gone", u \notin raced'
             PROVE  NoSpace(u)'
  BY DEF GoneForGood
<1>1. CASE users[u].state = "gone"
  BY <1>0, <1>1, NoSpaceStays DEF GoneForGood
<1>2. ASSUME NEW h \in Handler, DropUser(h), users[u].state # "gone"
      PROVE  NoSpace(u)'
  <2>1. handler[h].pc = "end" /\ handler[h].user = u /\ users[u].state # "free"
    BY <1>0, <1>2 DEF DropUser, Living
  <2>2. NoSpace(u)
    BY <1>0, <2>1 DEF DeletionsFit, Looked, DeletePc
  <2> QED BY <2>1, <2>2, NoSpaceStays
<1>3. ASSUME NEW h \in Handler, NEW v \in User, Inserted(h, v)
      PROVE  users[u].state = "gone"
  BY <1>0, <1>3 DEF Inserted
<1>4. ASSUME NEW v \in User, NEW name \in Name, Rename(v, name)
      PROVE  users[u].state = "gone"
  BY <1>0, <1>4 DEF Rename
<1>5. ASSUME NEW h \in Handler, CreateSpace(h) \/ CreateGroup(h) \/ BindUser(h) \/ GrantNext(h) \/ DropSpace(h)
      PROVE  users' = users
  BY <1>5 DEF CreateSpace, CreateGroup, BindUser, GrantNext, DropSpace
<1>6. (\E v \in User : RemoveSpace(v)) \/ ServerRestart \/ Quiet => users' = users
  BY DEF RemoveSpace, ServerRestart, Quiet, accounts
<1> QED BY <1>0, <1>1, <1>2, <1>3, <1>4, <1>5, <1>6, Cases, InsertCases DEF AccountStep

-----------------------------------------------------------------------------
(* Archives *)

\* Past the list of its files, a deletion minds what enters the space.
Minding == DeletePc \ EraseFirst

\* The rows a step writes are the ones that were there, or late.
LEMMA RowsLate ==
  ASSUME UInv, [Next]_vars, NEW h \in Handler, handler[h].pc \in Minding,
         NEW f \in File, row'[f].home = handler[h].user
  PROVE  row[f].home = handler[h].user \/ f \in late'[h]
<1>0. /\ TypeOK /\ UsersOfRequests /\ row \in [File -> Row \cup {NoRow}]
      /\ late \in [Handler -> SUBSET File] /\ handler \in [Handler -> Request]
  BY DEF UInv, TypeOK
<1>1. CASE row' = row
  BY <1>1
<1>2. ASSUME NEW g \in File, NEW r \in Row, Entry(g, r)
      PROVE  row[f].home = handler[h].user \/ f \in late'[h]
  BY <1>0, <1>2 DEF Entry, Enter, Minding
<1>3. ASSUME NEW k \in Handler, EraseRow(k)
      PROVE  row[f].home = handler[h].user
  <2>1. handler[h].user \in Home
    BY <1>0 DEF UsersOfRequests, Minding, Home
  <2>2. row' = [row EXCEPT ![handler[k].file] = NoRow] => row'[f] = row[f] \/ row'[f] = NoRow
    BY <1>0
  <2>3. row'[f] # NoRow
    BY <2>1, Basics
  <2> QED BY <1>0, <1>1, <1>3, <2>2, <2>3, EraseErases
<1>4. ASSUME NEW k \in Handler, StoreFile(k)
      PROVE  row[f].home = handler[h].user \/ f \in late'[h]
  BY <1>0, <1>1, <1>2, <1>4, StoreEnters
<1>5. ASSUME NEW k \in Handler, UploadArchive(k)
      PROVE  row[f].home = handler[h].user \/ f \in late'[h]
  BY <1>0, <1>1, <1>2, <1>5, UploadEnters
<1>6. ASSUME NEW g \in File, Relist(g)
      PROVE  row[f].home = handler[h].user \/ f \in late'[h]
  BY <1>0, <1>2, <1>6, RelistEnters
<1> QED BY <1>0, <1>1, <1>3, <1>4, <1>5, <1>6, RowCases DEF RowsKept

\* What came late stays late, until the deletion looks again.
LEMMA LateStays ==
  ASSUME UInv, [Next]_vars, NEW h \in Handler, ~ ReadSpace(h), ~ ListFiles(h)
  PROVE  late[h] \subseteq late'[h]
<1>0. TypeOK /\ late \in [Handler -> SUBSET File]
  BY DEF UInv, TypeOK
<1>1. CASE late' = late
  BY <1>1
<1>2. ASSUME NEW g \in File, NEW r \in Row, Entry(g, r)
      PROVE  late[h] \subseteq late'[h]
  BY <1>0, <1>2 DEF Entry, Enter
<1>3. ASSUME NEW k \in Handler, StoreFile(k)
      PROVE  late[h] \subseteq late'[h]
  BY <1>0, <1>1, <1>2, <1>3, StoreEnters
<1>4. ASSUME NEW k \in Handler, UploadArchive(k)
      PROVE  late[h] \subseteq late'[h]
  BY <1>0, <1>1, <1>2, <1>4, UploadEnters
<1>5. ASSUME NEW g \in File, Relist(g)
      PROVE  late[h] \subseteq late'[h]
  BY <1>0, <1>2, <1>5, RelistEnters
<1>6. ASSUME NEW k \in Handler, k # h, ReadSpace(k) \/ ListFiles(k)
      PROVE  late[h] \subseteq late'[h]
  BY <1>0, <1>6 DEF ReadSpace, ListFiles
<1>7. ASSUME NEW k \in Handler, RegisterStep(k)
      PROVE  late' = late
  BY <1>7 DEF RegisterStep, CheckName, InsertUser, CreateSpace, CreateGroup, BindUser, GrantNext, seen
<1>8. ASSUME NEW k \in Handler, ReadUser(k) \/ ReadSettings(k) \/ AwaitBlob(k) \/ ListOwned(k)
                                \/ ListOthers(k) \/ FilesErased(k)
      PROVE  late' = late
  BY <1>8 DEF ReadUser, ReadSettings, AwaitBlob, ListOwned, ListOthers, FilesErased
<1>9. ASSUME NEW k \in Handler, FetchBlob(k) \/ PackBlob(k) \/ ClearFile(k) \/ EraseRow(k)
                                \/ DropSpace(k) \/ DropUser(k)
      PROVE  late' = late
  BY <1>9 DEF FetchBlob, PackBlob, ClearFile, EraseRow, DropSpace, DropUser, seen
<1>10. ASSUME NEW k \in Handler, HandlerStep(k)
       PROVE  late[h] \subseteq late'[h]
  BY <1>1, <1>3, <1>4, <1>6, <1>7, <1>8, <1>9, <1>10 DEF HandlerStep, DeleteStep
<1>11. ASSUME NEW k \in Handler,
              \/ \E name \in Name : Register(k, name)
              \/ \E u \in User : Delete(k, u)
              \/ \E owner \in User \cup {Operator}, home \in Home : Store(k, owner, home)
       PROVE  late' = late
  BY <1>11 DEF Register, Delete, Store, seen
<1>12. CASE \/ \E u \in User : RemoveSpace(u) \/ \E name \in Name : Rename(u, name)
            \/ \E a \in Archive : SaveSettings(a)
            \/ \E g \in File : AgentCollect(g) \/ AgentDelete(g)
            \/ ServerRestart \/ UNCHANGED vars
  BY <1>1, <1>12
     DEF RemoveSpace, Rename, SaveSettings, AgentCollect, AgentDelete, ServerRestart, vars, seen
<1> QED BY <1>1, <1>5, <1>10, <1>11, <1>12 DEF Next

\* What an archive is made of is not lost.
LEMMA HeldStays ==
  ASSUME UInv, [Next]_vars
  PROVE  HeldIsStored' /\ \A a \in File : holds[a] \subseteq holds'[a]
<1>0. /\ TypeOK /\ HeldIsStored /\ holds \in [File -> SUBSET File]
      /\ origin \in [File -> Row \cup {NoRow}]
  BY DEF UInv, TypeOK
<1>1. CASE UNCHANGED <<origin, holds>>
  BY <1>0, <1>1 DEF HeldIsStored
<1>2. ASSUME NEW f \in File, NEW r \in Row, Fresh(f, r), holds' = holds
      PROVE  HeldIsStored' /\ \A a \in File : holds[a] \subseteq holds'[a]
  BY <1>0, <1>2, Basics DEF Fresh, HeldIsStored
<1>3. ASSUME NEW f \in File, NEW r \in Row, NEW packed, Fresh(f, r), holds' = [holds EXCEPT ![f] = packed]
      PROVE  HeldIsStored' /\ \A a \in File : holds[a] \subseteq holds'[a]
  <2>1. /\ holds[f] = {} /\ origin'[f] # NoRow
        /\ \A a \in File \ {f} : origin'[a] = origin[a] /\ holds'[a] = holds[a]
    BY <1>0, <1>3, Basics DEF Fresh, HeldIsStored
  <2> QED BY <1>0, <2>1 DEF HeldIsStored
<1>4. ASSUME NEW h \in Handler, StoreFile(h)
      PROVE  HeldIsStored' /\ \A a \in File : holds[a] \subseteq holds'[a]
  BY <1>0, <1>1, <1>2, <1>4, StoreEnters
<1>5. ASSUME NEW h \in Handler, UploadArchive(h)
      PROVE  HeldIsStored' /\ \A a \in File : holds[a] \subseteq holds'[a]
  BY <1>0, <1>1, <1>3, <1>5, UploadEnters
<1>6. ASSUME NEW h \in Handler, EraseRow(h)
      PROVE  UNCHANGED <<origin, holds>>
  BY <1>0, <1>6, EraseErases
<1>7. ASSUME NEW f \in File, Relist(f)
      PROVE  UNCHANGED <<origin, holds>>
  BY <1>0, <1>7, RelistEnters
<1> QED BY <1>0, <1>1, <1>4, <1>5, <1>6, <1>7, RowCases DEF RowsKept

Covered(h, f) ==
  \/ f \in late[h]
  \/ handler[h].pc \in Fetching /\ f \in handler[h].listed
  \/ \E a \in File : f \in holds[a]

\* The step that a deletion makes keeps its files covered, and so do the others' steps.
LEMMA ArchiveStays ==
  ASSUME UInv, [Next]_vars
  PROVE  ArchiveCovers'
<1>0. /\ TypeOK /\ UsersOfRequests /\ ArchiveCovers /\ row \in [File -> Row \cup {NoRow}]
      /\ handler \in [Handler -> Request]
  BY DEF UInv, TypeOK
<1>a. \A a \in File : holds[a] \subseteq holds'[a]
  BY HeldStays
<1> SUFFICES ASSUME NEW h \in Handler, handler'[h].pc \in Minding, handler'[h].archive.enabled,
                    NEW f \in File, row'[f].home = handler'[h].user
             PROVE  Covered(h, f)'
  BY DEF ArchiveCovers, Covered, Minding
<1>b. Minding = Looked \ {"list"} /\ "list" \in Looked /\ Fetching \subseteq Minding
  BY DEF Minding, Looked, EraseFirst, DeletePc, Fetching
<1>1. ASSUME handler[h].pc \in Minding, handler'[h].user = handler[h].user,
             handler'[h].archive = handler[h].archive, ~ ReadSpace(h), ~ ListFiles(h)
      PROVE  \/ f \in late'[h] \/ \E a \in File : f \in holds'[a]
             \/ handler[h].pc \in Fetching /\ f \in handler[h].listed
  <2>1. row[f].home = handler[h].user \/ f \in late'[h]
    BY <1>1, RowsLate
  <2>2. row[f].home = handler[h].user => Covered(h, f)
    BY <1>0, <1>1 DEF ArchiveCovers, Covered, Minding
  <2>3. late[h] \subseteq late'[h]
    BY <1>1, LateStays
  <2> QED BY <1>a, <2>1, <2>2, <2>3 DEF Covered
<1>2. CASE ReadSpace(h)
  <2>1. handler'[h] # Idle
    BY Basics DEF Minding, DeletePc
  <2>2. /\ handler'[h].user = handler[h].user /\ handler'[h].archive = handler[h].archive
        /\ handler'[h].has <=> space[handler[h].user].state = "here"
        /\ handler'[h].pc = "list" \/ (handler[h].archive.enabled => ~ handler'[h].has)
    BY <1>0, <1>2, <2>1, ArchiveMoves
  <2>3. space[handler[h].user].state # "here"
    BY <2>2, <1>b
  <2>4. handler[h].user \in User
    BY <1>0, <1>2 DEF ReadSpace, UsersOfRequests, DeletePc
  <2>5. row' = row
    BY <1>2 DEF ReadSpace, Reads, stored
  <2>6. row[f] # NoRow /\ row[f].home \notin Spaces
    BY <2>2, <2>3, <2>4, <2>5, Basics DEF Spaces, Shared, Home, Operator
  <2> QED BY <1>0, <2>6 DEF TypeOK
<1>3. CASE ListFiles(h)
  <2>1. /\ handler'[h].pc = "fetch" /\ handler'[h].user = handler[h].user
        /\ handler'[h].listed = Listed(handler[h].user)
    BY <1>0, <1>3, ArchiveMoves
  <2>2. row' = row
    BY <1>3 DEF ListFiles, Reads, stored
  <2> QED BY <2>1, <2>2 DEF Listed, Covered, Fetching
<1>4. CASE handler'[h] = handler[h] /\ ~ ReadSpace(h) /\ ~ ListFiles(h)
  BY <1>1, <1>4 DEF Covered
<1>5. CASE LookedStep(h) /\ ~ ReadSpace(h) /\ ~ ListFiles(h)
  <2>1. /\ handler'[h].user = handler[h].user /\ handler'[h].archive = handler[h].archive
        /\ handler[h].pc \in Looked /\ Keeps(h)
    BY <1>0, <1>5, <1>b, LookedMoves
  <2>2. handler[h].pc # "list"
    BY <1>5 DEF LookedStep, FetchBlob, AwaitBlob, PackBlob, UploadArchive, ListOwned, ListOthers,
                FilesErased, ClearFile, EraseRow, DropSpace
  <2>3. handler[h].pc \in Minding
    BY <1>b, <2>1, <2>2
  <2>4. \/ f \in late'[h] \/ \E a \in File : f \in holds'[a]
        \/ handler[h].pc \in Fetching /\ f \in handler[h].listed
    BY <1>1, <1>5, <2>1, <2>3
  <2>5. ASSUME handler[h].pc \in Fetching, f \in handler[h].listed
        PROVE  Covered(h, f)'
    <3>1. CASE FetchBlob(h) \/ AwaitBlob(h) \/ PackBlob(h)
      <4>1. handler'[h].pc \in Fetching /\ handler'[h].listed = handler[h].listed
        BY <1>0, <3>1, EraseMoves DEF Keeps
      <4> QED BY <2>5, <4>1 DEF Covered
    <3>2. CASE UploadArchive(h)
      <4>1. handler'[h] # Idle
        BY Basics DEF Minding, DeletePc
      <4>2. Whole(handler[h]) /\ \E a \in File : holds' = [holds EXCEPT ![a] = handler[h].packed]
        BY <1>0, <3>2, <4>1, UploadEnters
      <4>3. \E a \in File : f \in holds'[a]
        BY <1>0, <2>5, <4>2 DEF Whole, TypeOK
      <4> QED BY <4>3 DEF Covered
    <3>3. ASSUME LookedStep(h), ~ FetchBlob(h), ~ AwaitBlob(h), ~ PackBlob(h), ~ UploadArchive(h), ~ ListFiles(h)
          PROVE  handler[h].pc \notin Fetching
      BY <3>3 DEF LookedStep, ListOwned, ListOthers, FilesErased, ClearFile, EraseRow, DropSpace, Fetching
    <3> QED BY <1>5, <2>5, <3>1, <3>2, <3>3
  <2> QED BY <2>4, <2>5 DEF Covered
<1> QED BY <1>0, <1>2, <1>3, <1>4, <1>5, <1>b, LookedSteps

-----------------------------------------------------------------------------
(* The theorems *)

LEMMA Start ==
  ASSUME Init
  PROVE  UInv
<1>1. PICK s \in Setting :
        LET given == [u \in User |-> IF u \in s.users
                                     THEN [state |-> "here", name |-> s.names[u]]
                                     ELSE Nobody] IN
        /\ users = given /\ space = given
        /\ group = [u \in User |-> IF u \in s.users THEN Complete ELSE NoGroup]
        /\ archive = s.archive /\ budget = s.budget
  BY DEF Init
<1>2. /\ s.users \subseteq User /\ s.names \in [s.users -> Name] /\ s.archive \in Archive
      /\ s.budget \in [Budget -> Nat]
      /\ \A u, v \in s.users : s.names[u] = s.names[v] => u = v
  BY UserLifecycleAssumption
<1>3. /\ row = [f \in File |-> NoRow] /\ origin = row /\ blob = {} /\ deletes = {} /\ node = {}
      /\ collects = [f \in File |-> 0] /\ handler = [h \in Handler |-> Idle]
      /\ holds = [f \in File |-> {}] /\ renamed = {} /\ condemned = {} /\ cut = {} /\ raced = {}
      /\ late = [h \in Handler |-> {}]
  BY DEF Init
<1>4. users \in [User -> Account] /\ space = users
  <2>1. \A u \in s.users : [state |-> "here", name |-> s.names[u]] \in Account
    BY <1>2 DEF Account
  <2>2. Nobody \in Account
    BY DEF Nobody, Account
  <2> QED BY <1>1, <2>1, <2>2
<1>5. group \in [User -> Group]
  <2>1. Complete \in Group /\ NoGroup \in Group
    BY DEF Complete, NoGroup, Group
  <2> QED BY <1>1, <2>1
<1>6. TypeOK
  BY <1>1, <1>2, <1>3, <1>4, <1>5, Basics DEF TypeOK
<1>7. /\ \A h \in Handler : handler[h].pc = "idle"
      /\ Setup \cap {"idle"} = {} /\ DeletePc \cap {"idle"} = {}
  BY <1>3, Basics DEF Setup, DeletePc
<1>8. UsersOfRequests /\ OneMaker /\ SetupsFit /\ ArchiveCovers
  BY <1>7 DEF UsersOfRequests, OneMaker, SetupsFit, ArchiveCovers
<1>9. FreeIsUnused
  BY <1>1, <1>4 DEF FreeIsUnused, Nobody
<1>10. HasSpace
  BY <1>1, <1>4 DEF HasSpace, Living, Nobody
<1>11. GoneForGood
  BY <1>1 DEF GoneForGood, Nobody
<1>12. DeletionsFit
  BY <1>7 DEF DeletionsFit, Looked, Erasing
<1>13. HeldIsStored
  BY <1>3 DEF HeldIsStored
<1>14. \A u \in User : space[u].name = users[u].name
  BY <1>4
<1>15. \A u \in Living : u \in s.users /\ users[u].name = s.names[u]
  BY <1>1 DEF Living, Nobody
<1>16. NamesFit
  BY <1>2, <1>14, <1>15 DEF NamesFit
<1> QED BY <1>6, <1>8, <1>9, <1>10, <1>11, <1>12, <1>13, <1>16 DEF UInv

LEMMA Invariance == Spec => []UInv
<1>1. Init => UInv
  BY Start
<1>2. UInv /\ [Next]_vars => UInv'
  <2> SUFFICES ASSUME UInv, [Next]_vars
               PROVE  UInv'
    OBVIOUS
  <2> QED
    BY TypeStays, UsersStay, OneMakerStays, SetupsStay, FreeStays, NamesStay, HasSpaceStays,
       DeletionsStay, GoneStays, ArchiveStays, HeldStays DEF UInv
<1> QED BY <1>1, <1>2, PTL DEF Spec

\* Whatever the requests do at once, every variable has its type, and every row
\* of the table files has a user and a resource that are there: no deletion of
\* an account leaves a file without them.
THEOREM AccountsTypeCorrect == Spec => []TypeOK
<1>1. UInv => TypeOK
  BY DEF UInv
<1> QED BY <1>1, Invariance, PTL

\* A user whose registration has ended has a personal space and a complete
\* group, unless a restart or a taken path cut the registration off, or
\* somebody deletes the user's files or space.
THEOREM UsersHaveSpace == Spec => []HasSpace
<1>1. UInv => HasSpace
  BY DEF UInv
<1> QED BY <1>1, Invariance, PTL

\* The space of a deleted user is gone and cannot come back, unless the
\* deletion looked for it during the registration.
THEOREM DeletionIsComplete == Spec => []GoneLeavesNoSpace
<1>1. UInv => GoneLeavesNoSpace
  BY DEF UInv, GoneForGood, NoSpace, GoneLeavesNoSpace
<1> QED BY <1>1, Invariance, PTL

\* With the archive on, no step of a deletion erases a file of the space that
\* no archive holds, except one that came after the files were listed.
THEOREM NothingLostUnarchived == Spec => ErasedIsArchived
<1>1. UInv /\ [Next]_vars =>
        [\A h \in Handler, f \in File :
           LET r == handler[h] IN
           /\ r.pc = "erase" /\ r.file = f /\ r.archive.enabled
           /\ row[f].home = r.user /\ row'[f] = NoRow
           => f \in late[h] \/ \E a \in File : f \in holds[a]]_vars
  BY DEF UInv, ArchiveCovers, EraseFirst, DeletePc, Fetching
<1> QED BY <1>1, Invariance, PTL DEF Spec, ErasedIsArchived
=============================================================================
