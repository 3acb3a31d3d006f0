-------------------------- MODULE Registration_proofs --------------------------
(***************************************************************************)
(* For any threads and any number of faults, edits and renewals: the files  *)
(* an agent has when it gets to its loop fit together and fit the server's, *)
(* and its token is lost only to a deletion or an overlapping write.        *)
(***************************************************************************)
EXTENDS Registration, TLAPS

-----------------------------------------------------------------------------
(* Type correctness, one variable after the other *)

\* The records that stand for nothing.
LEMMA Nothings ==
  /\ 0 \in Key /\ Foreign \in Key /\ Nat \subseteq Key
  /\ NoRow \in Row /\ NoAnswer \in Answer /\ Down \in Agent /\ Idle \in Handler
  /\ Down.pc = "down" /\ Down.slot = "none" /\ Idle.pc = "idle" /\ ~ Idle.edit
  /\ Idle.key = 0 /\ Idle.token = 0 /\ Idle.first = NoRow /\ Idle.old = NoRow
  /\ NoRow.id = 0 /\ NoRow.key = 0 /\ NoRow.token = 0
<1>0. 0 \in Key /\ Foreign \in Key /\ Nat \subseteq Key
  BY DEF Key, Foreign
<1>1. NoRow \in Row /\ NoRow.id = 0 /\ NoRow.key = 0 /\ NoRow.token = 0
  BY <1>0 DEF NoRow, Row
<1>2. NoAnswer \in Answer
  BY DEF NoAnswer, Answer
<1>3. Down \in Agent /\ Down.pc = "down" /\ Down.slot = "none"
  BY <1>2 DEF Down, Agent, AgentPc
<1>4. /\ Idle \in Handler /\ Idle.pc = "idle" /\ ~ Idle.edit /\ Idle.key = 0 /\ Idle.token = 0
      /\ Idle.first = NoRow /\ Idle.old = NoRow
  BY <1>0, <1>1 DEF Idle, Handler, HandlerPc
<1> QED BY <1>0, <1>1, <1>2, <1>3, <1>4

\* An administrator gives a key or none.
LEMMA GivenType ==
  ASSUME NEW k \in Given
  PROVE  k \in Key
BY Nothings DEF Given

\* The files hold numbers, or are empty.
LEMMA DiskType ==
  ASSUME TypeOK, [Next]_vars
  PROVE  disk' \in [File -> Nat \cup {Torn}]
<1>0. disk \in [File -> Nat \cup {Torn}] /\ fresh.key \in Nat
  BY DEF TypeOK
<1>1. CASE MakeKeys
  BY <1>0, <1>1 DEF MakeKeys
<1>2. CASE WritePublic
  BY <1>0, <1>2 DEF WritePublic
<1>3. CASE SaveAnswer
  <2>1. /\ agent.got.server \in Nat /\ agent.got.token \in Nat /\ agent.got.node \in Nat
        /\ agent.written \in 0..2
    BY DEF TypeOK, Agent, Answer
  <2>2. agent.got[Saved[agent.written + 1]] \in Nat
    BY <2>1 DEF Saved
  <2> QED BY <1>0, <1>3, <2>2 DEF SaveAnswer
<1>4. CASE Rekey
  BY <1>0, <1>4 DEF Rekey, Missing
<1>5. CASE Crash
  BY <1>0, <1>5 DEF Crash
<1>6. CASE UNCHANGED disk
  BY <1>0, <1>6
<1> QED
  BY <1>1, <1>2, <1>3, <1>4, <1>5, <1>6
     DEF Next, vars, AgentStep, HandlerStep, Start, ReadState, SendRegister, LookUp, Insert, Merge,
         Update, Reread, ServerOnly, CreateNode, EditNode, DeleteNode, AdminStep, Timeout, ServerRestart

\* The row is one.
LEMMA RowType ==
  ASSUME TypeOK, [Next]_vars
  PROVE  row' \in Row
<1>0. row \in Row /\ fresh.node \in Nat /\ handler \in [Thread -> Handler]
  BY DEF TypeOK
<1>1. ASSUME NEW t \in Thread, Insert(t) PROVE row' \in Row
  BY <1>0, <1>1 DEF Insert, Row, Handler
<1>2. ASSUME NEW t \in Thread, Update(t) PROVE row' \in Row
  BY <1>0, <1>2 DEF Update, Merged, Row, Handler
<1>3. CASE CreateNode
  <2>1. PICK k \in Given : row' = [id |-> fresh.node + 1, key |-> k, token |-> 0]
    BY <1>3 DEF CreateNode
  <2>2. k \in Key
    BY GivenType
  <2> QED BY <1>0, <2>1, <2>2 DEF Row
<1>4. CASE DeleteNode
  BY <1>4, Nothings DEF DeleteNode
<1>5. CASE UNCHANGED row
  BY <1>0, <1>5
<1> QED
  BY <1>1, <1>2, <1>3, <1>4, <1>5
     DEF Next, vars, server, AgentStep, AgentOnly, HandlerStep, Start, MakeKeys, WritePublic, ReadState,
         SendRegister, SaveAnswer, LookUp, Merge, Reread, EditNode, Rekey, Crash, Timeout, ServerRestart

\* Only MakeKeys, LookUp, Insert, Reread and CreateNode make numbers.
LEMMA FreshType ==
  ASSUME TypeOK, [Next]_vars
  PROVE  fresh' \in [key : Nat, token : Nat, node : Nat]
<1>0. fresh \in [key : Nat, token : Nat, node : Nat] /\ row \in Row
  BY DEF TypeOK
<1>1. CASE MakeKeys
  BY <1>0, <1>1 DEF MakeKeys
<1>2. ASSUME NEW t \in Thread, LookUp(t) PROVE fresh' \in [key : Nat, token : Nat, node : Nat]
  BY <1>0, <1>2 DEF LookUp, Chosen, Row
<1>3. ASSUME NEW t \in Thread, Insert(t) PROVE fresh' \in [key : Nat, token : Nat, node : Nat]
  BY <1>0, <1>3 DEF Insert
<1>4. ASSUME NEW t \in Thread, Reread(t) PROVE fresh' \in [key : Nat, token : Nat, node : Nat]
  BY <1>0, <1>4 DEF Reread
<1>5. CASE CreateNode
  BY <1>0, <1>5 DEF CreateNode
<1>6. CASE UNCHANGED fresh
  BY <1>0, <1>6
<1> QED
  BY <1>1, <1>2, <1>3, <1>4, <1>5, <1>6
     DEF Next, vars, AgentStep, HandlerStep, Start, WritePublic, ReadState, SendRegister, SaveAnswer,
         Merge, Update, EditNode, DeleteNode, Rekey, Crash, Timeout, ServerRestart

\* What an agent gets from a handler that ends.
LEMMA ReplyType ==
  ASSUME TypeOK, NEW t \in Thread, NEW answer \in Answer, Reply(t, answer)
  PROVE  agent' \in Agent
<1>1. agent \in Agent
  BY DEF TypeOK
<1> QED BY <1>1, Nothings DEF Reply, Agent, AgentPc

\* The process of the agent, one action after the other.
LEMMA AgentType ==
  ASSUME TypeOK, [Next]_vars
  PROVE  agent' \in Agent
<1>0. agent \in Agent /\ row \in Row /\ serverKey \in Nat
  BY DEF TypeOK
<1>1. CASE Start
  BY <1>1, Nothings DEF Start, Agent, AgentPc
<1>2. CASE MakeKeys
  BY <1>0, <1>2 DEF MakeKeys, Agent, AgentPc
<1>3. CASE WritePublic
  BY <1>0, <1>3 DEF WritePublic, Agent, AgentPc
<1>4. CASE ReadState
  <2>1. CASE disk["node"] # Torn /\ Registered
    <3>1. disk["token"] \in Nat /\ disk["node"] \in Nat
      BY <2>1 DEF TypeOK, Registered, File, Torn
    <3>2. agent' = [agent EXCEPT !.pc = "loop", !.got.token = disk["token"], !.got.node = disk["node"]]
      BY <1>4, <2>1 DEF ReadState
    <3> QED BY <1>0, <3>1, <3>2 DEF Agent, AgentPc, Answer
  <2>2. CASE ~ (disk["node"] # Torn /\ Registered)
    BY <1>0, <1>4, <2>2, Nothings DEF ReadState, Agent, AgentPc
  <2> QED BY <2>1, <2>2
<1>5. ASSUME NEW t \in Thread, SendRegister(t) PROVE agent' \in Agent
  BY <1>0, <1>5, Nothings DEF SendRegister, Agent, AgentPc
<1>6. CASE SaveAnswer
  <2>0. agent.written \in 0..2
    BY <1>0 DEF Agent
  <2>1. agent.written # 2 => agent.written + 1 \in 0..2
    BY <2>0
  <2>2. CASE agent.written = 2
    <3>1. agent' = [agent EXCEPT !.pc = "loop", !.written = 0]
      BY <1>6, <2>2 DEF SaveAnswer
    <3>2. [agent EXCEPT !.pc = "loop"] \in Agent
      BY <1>0 DEF Agent, AgentPc
    <3>3. 0 \in 0..2
      OBVIOUS
    <3> QED BY <3>1, <3>2, <3>3 DEF Agent
  <2>3. CASE agent.written # 2
    <3>1. agent' = [agent EXCEPT !.written = agent.written + 1]
      BY <1>6, <2>3 DEF SaveAnswer
    <3> QED BY <1>0, <2>1, <2>3, <3>1 DEF Agent
  <2> QED BY <2>2, <2>3
<1>7. ASSUME NEW t \in Thread, Insert(t) \/ Merge(t) PROVE agent' \in Agent
  BY <1>0, <1>7, ReplyType, Nothings DEF Insert, Merge
<1>8. ASSUME NEW t \in Thread, Reread(t) PROVE agent' \in Agent
  <2>1. [token |-> row.token, node |-> row.id, server |-> serverKey] \in Answer
    BY <1>0 DEF Row, Answer
  <2> QED BY <1>0, <1>8, <2>1, ReplyType, Nothings DEF Reread
<1>9. CASE Rekey \/ Crash \/ Timeout \/ ServerRestart
  BY <1>0, <1>9, Nothings DEF Rekey, Crash, Timeout, ServerRestart
<1>10. CASE UNCHANGED agent
  BY <1>0, <1>10
<1> QED
  BY <1>1, <1>2, <1>3, <1>4, <1>5, <1>6, <1>7, <1>8, <1>9, <1>10
     DEF Next, vars, AgentStep, HandlerStep, LookUp, Update, CreateNode, EditNode, DeleteNode, AdminStep

\* A handler that has written the row keeps what it needs to read it again.
LEMMA RereadingIs ==
  ASSUME NEW first \in Row
  PROVE  /\ Rereading(first) \in Handler
         /\ Rereading(first).pc = "reread" /\ ~ Rereading(first).edit
         /\ Rereading(first).key = 0 /\ Rereading(first).first = first
BY Nothings DEF Rereading, Handler, HandlerPc

\* What a step makes of the handlers: at most one of them changes, or all end.
LEMMA HandlerType ==
  ASSUME TypeOK, [Next]_vars
  PROVE  handler' \in [Thread -> Handler]
<1>0. handler \in [Thread -> Handler] /\ row \in Row /\ disk \in [File -> Nat \cup {Torn}]
      /\ fresh.token \in Nat
  BY DEF TypeOK
<1>1. ASSUME NEW t \in Thread, SendRegister(t) PROVE handler' \in [Thread -> Handler]
  <2>1. CASE disk["public"] > 0
    <3>1. disk["public"] \in Nat
      BY <1>0, <2>1 DEF File, Torn
    <3>2. handler' = [handler EXCEPT ![t] = [Idle EXCEPT !.pc = "lookup", !.key = disk["public"]]]
      BY <1>1, <2>1 DEF SendRegister
    <3>3. [Idle EXCEPT !.pc = "lookup", !.key = disk["public"]] \in Handler
      BY <3>1, Nothings DEF Handler, HandlerPc, Key
    <3> QED BY <1>0, <3>2, <3>3
  <2> QED BY <1>0, <1>1, <2>1 DEF SendRegister
<1>2. ASSUME NEW t \in Thread, LookUp(t) PROVE handler' \in [Thread -> Handler]
  <2>1. Chosen(row) \in Nat
    BY <1>0 DEF Chosen, Row
  <2>2. [handler[t] EXCEPT !.pc = IF row = NoRow THEN "insert" ELSE "merge", !.first = row,
                           !.token = Chosen(row)] \in Handler
    BY <1>0, <2>1 DEF Handler, HandlerPc
  <2> QED BY <1>0, <1>2, <2>2 DEF LookUp
<1>3. ASSUME NEW t \in Thread, End(t) PROVE handler' \in [Thread -> Handler]
  BY <1>0, <1>3, Nothings DEF End
<1>4. ASSUME NEW t \in Thread, Insert(t) PROVE handler' \in [Thread -> Handler]
  <2>1. CASE row = NoRow
    <3>1. row' \in Row
      BY <1>4, RowType DEF Next, HandlerStep
    <3>2. Rereading(row') \in Handler
      BY <3>1, RereadingIs
    <3> QED BY <1>0, <1>4, <2>1, <3>2 DEF Insert
  <2> QED BY <1>3, <1>4, <2>1 DEF Insert
<1>5. ASSUME NEW t \in Thread, Merge(t) PROVE handler' \in [Thread -> Handler]
  <2>1. [handler[t] EXCEPT !.pc = "update", !.old = row] \in Handler
    BY <1>0 DEF Handler, HandlerPc
  <2> QED BY <1>0, <1>3, <1>5, <2>1 DEF Merge
<1>6. ASSUME NEW t \in Thread, Update(t) PROVE handler' \in [Thread -> Handler]
  <2>1. Rereading(handler[t].first) \in Handler
    BY <1>0, RereadingIs DEF Handler
  <2> QED BY <1>0, <1>3, <1>6, <2>1 DEF Update
<1>7. ASSUME NEW t \in Thread, Reread(t) PROVE handler' \in [Thread -> Handler]
  <2> DEFINE n == fresh.token + 1
  <2>1. n \in Nat /\ 0 \in Key
    BY <1>0, Nothings
  <2>2. Reread(t) => End(t) \/ handler' = [handler EXCEPT ![t] =
          [handler[t] EXCEPT !.pc = "merge", !.first = row, !.key = 0, !.token = n]]
    BY <1>0 DEF Reread
  <2> HIDE DEF n
  <2>3. [handler[t] EXCEPT !.pc = "merge", !.first = row, !.key = 0, !.token = n] \in Handler
    BY <1>0, <2>1 DEF Handler, HandlerPc
  <2> QED BY <1>0, <1>3, <1>7, <2>2, <2>3
<1>8. ASSUME NEW t \in Thread, EditNode(t) PROVE handler' \in [Thread -> Handler]
  <2>1. PICK k \in Given : handler' = [handler EXCEPT ![t] =
          [Idle EXCEPT !.pc = "update", !.edit = TRUE, !.key = k, !.first = row, !.old = row]]
    BY <1>8 DEF EditNode
  <2>2. [Idle EXCEPT !.pc = "update", !.edit = TRUE, !.key = k, !.first = row, !.old = row] \in Handler
    BY <1>0, GivenType, Nothings DEF Handler, HandlerPc
  <2> QED BY <1>0, <2>1, <2>2
<1>9. CASE Rekey \/ ServerRestart
  BY <1>9, Nothings DEF Rekey, ServerRestart
<1>10. CASE UNCHANGED handler
  BY <1>0, <1>10
<1> QED
  BY <1>1, <1>2, <1>4, <1>5, <1>6, <1>7, <1>8, <1>9, <1>10
     DEF Next, vars, server, AgentStep, AgentOnly, HandlerStep, Start, MakeKeys, WritePublic, ReadState,
         SaveAnswer, CreateNode, DeleteNode, Crash, Timeout

\* The counters, and what the program does not keep.
LEMMA CountType ==
  ASSUME RegistrationAssumption, TypeOK, [Next]_vars
  PROVE  /\ serverKey' \in Nat
         /\ faults' \in 0..MaxFault /\ edits' \in 0..MaxAdmin /\ rekeys' \in 0..MaxRekey
         /\ clashed' \in BOOLEAN /\ deleted' \in BOOLEAN /\ typed' \in BOOLEAN
<1>0. /\ serverKey \in Nat /\ faults \in 0..MaxFault /\ edits \in 0..MaxAdmin /\ rekeys \in 0..MaxRekey
      /\ clashed \in BOOLEAN /\ deleted \in BOOLEAN /\ typed \in BOOLEAN
  BY DEF TypeOK
<1>1. MaxFault \in Nat /\ MaxAdmin \in Nat /\ MaxRekey \in Nat
  BY DEF RegistrationAssumption
<1>2. CASE UNCHANGED <<serverKey, counts, deleted>> /\ clashed' \in BOOLEAN /\ typed' \in BOOLEAN
  BY <1>0, <1>2 DEF counts
<1>3. CASE AgentStep
  BY <1>0, <1>2, <1>3 DEF AgentStep, AgentOnly, server, Start, MakeKeys, WritePublic, ReadState,
                          SendRegister, SaveAnswer
<1>4. ASSUME NEW t \in Thread, HandlerStep(t)
      PROVE  UNCHANGED <<serverKey, counts, deleted>> /\ clashed' \in BOOLEAN /\ typed' \in BOOLEAN
  <2>1. handler[t].edit \in BOOLEAN
    BY DEF TypeOK, Handler
  <2> QED BY <1>0, <1>4, <2>1 DEF HandlerStep, ServerOnly, LookUp, Insert, Merge, Update, Reread
<1>5. CASE AdminStep /\ deleted' \in BOOLEAN /\ typed' \in BOOLEAN
  <2>1. edits < MaxAdmin /\ edits' = edits + 1 /\ UNCHANGED <<serverKey, faults, rekeys, clashed>>
    BY <1>5 DEF AdminStep
  <2>2. edits' \in 0..MaxAdmin
    BY <1>0, <1>1, <2>1
  <2> QED BY <1>0, <1>5, <2>1, <2>2
<1>6. ASSUME CreateNode \/ DeleteNode \/ \E t \in Thread : EditNode(t)
      PROVE  AdminStep /\ deleted' \in BOOLEAN /\ typed' \in BOOLEAN
  BY <1>0, <1>6 DEF CreateNode, DeleteNode, EditNode
<1>7. CASE Rekey
  <2>1. /\ rekeys < MaxRekey /\ rekeys' = rekeys + 1 /\ serverKey' = serverKey + 1
        /\ UNCHANGED <<faults, edits, clashed, deleted, typed>>
    BY <1>7 DEF Rekey
  <2>2. rekeys' \in 0..MaxRekey /\ serverKey' \in Nat
    BY <1>0, <1>1, <2>1
  <2> QED BY <1>0, <2>1, <2>2
<1>8. CASE Spend /\ UNCHANGED <<serverKey, clashed, deleted, typed>>
  <2>1. faults < MaxFault /\ faults' = faults + 1 /\ UNCHANGED <<edits, rekeys>>
    BY <1>8 DEF Spend
  <2>2. faults' \in 0..MaxFault
    BY <1>0, <1>1, <2>1
  <2> QED BY <1>0, <1>8, <2>1, <2>2
<1>9. ASSUME Crash \/ Timeout \/ ServerRestart
      PROVE  Spend /\ UNCHANGED <<serverKey, clashed, deleted, typed>>
  BY <1>9 DEF Crash, Timeout, ServerRestart, server
<1>10. CASE UNCHANGED vars
  BY <1>0, <1>10 DEF vars, server, counts
<1> QED
  BY <1>2, <1>3, <1>4, <1>5, <1>6, <1>7, <1>8, <1>9, <1>10 DEF Next

\* Every step keeps the types.
LEMMA TypeStep ==
  ASSUME RegistrationAssumption, TypeOK, [Next]_vars
  PROVE  TypeOK'
BY DiskType, AgentType, RowType, HandlerType, FreshType, CountType DEF TypeOK

\* Everything starts with nothing.
LEMMA TypeInit ==
  ASSUME RegistrationAssumption, Init
  PROVE  TypeOK
<1>1. disk \in [File -> Nat \cup {Torn}]
  BY DEF Init, Missing
<1>2. agent \in Agent /\ row \in Row /\ handler \in [Thread -> Handler]
  BY Nothings DEF Init
<1>3. fresh \in [key : Nat, token : Nat, node : Nat] /\ serverKey \in Nat
  BY DEF Init
<1>4. faults \in 0..MaxFault /\ edits \in 0..MaxAdmin /\ rekeys \in 0..MaxRekey
  BY DEF Init, RegistrationAssumption
<1>5. clashed \in BOOLEAN /\ deleted \in BOOLEAN /\ typed \in BOOLEAN
  BY DEF Init
<1> QED BY <1>1, <1>2, <1>3, <1>4, <1>5 DEF TypeOK

-----------------------------------------------------------------------------
(* The inductive invariant *)

\* The agent's own files: the public key is written after the private one, and
\* both are there beyond the first steps; a process without both state files has
\* no node id; only one that waits has a handler.
FilesInOrder ==
  /\ agent.slot # "none" <=> agent.pc = "wait"
  /\ agent.pc # "save" => agent.written = 0
  /\ disk["node"] > 0 => disk["token"] > 0
  /\ agent.pc \in {"register", "wait", "save"} => disk["node"] = Missing
  /\ agent.pc \in {"save", "loop"} => agent.got.token > 0
  /\ agent.pc = "save" => agent.got.node > 0
  /\ agent.pc = "save" /\ agent.written = 2 => disk["token"] > 0
  /\ agent.pc = "loop" => Registered /\ agent.got.node = disk["node"]

\* Until they are renewed, the keys match: those on the disk, the server's, and
\* the copies of the public one that registrations bring and leave in the row.
Published == IF disk["public"] > 0 THEN disk["public"] ELSE 0
KeysMatch ==
  rekeys = 0 =>
    /\ disk["public"] \in {Missing, Torn, fresh.key}
    /\ disk["public"] # Missing => disk["private"] = fresh.key /\ fresh.key > 0
    /\ agent.pc = "public" =>
         disk["private"] = fresh.key /\ fresh.key > 0 /\ disk["public"] = Missing
    /\ agent.pc \in {"state", "register", "wait", "save", "loop"} => disk["public"] # Missing
    /\ agent.pc \in {"wait", "save"} \/ Registered => disk["public"] > 0
    /\ agent.pc = "save" => agent.got.server = serverKey
    /\ agent.pc = "save" /\ agent.written > 0 => disk["server"] = serverKey
    /\ Registered => disk["server"] = serverKey
    /\ clashed \/ typed \/ row.key \in {0, Published}
    /\ \A t \in Thread : handler[t].edit \/ handler[t].key \in {0, Published}

\* What a handler carries.
Fit(h) ==
  /\ h.first.id <= fresh.node
  /\ h.pc \in {"lookup", "insert"} => ~ h.edit /\ h.key # 0
  /\ h.pc \in {"insert", "merge"} => ~ h.edit /\ h.token # 0
  /\ h.pc = "reread" => ~ h.edit
  /\ h.pc = "update" => h.old.id = h.first.id
  /\ h.pc = "update" /\ h.edit => h.old = h.first /\ h.token = 0
  /\ h.pc = "update" /\ ~ h.edit => h.token # 0
  /\ h.pc \in {"merge", "update"} /\ ~ h.edit =>
       clashed \/ (h.key # 0 /\ h.first.token \in {0, h.token})
  /\ h.pc = "reread" /\ row # NoRow /\ row.id = h.first.id => row.token # 0 \/ clashed

HandlersFit ==
  /\ row = NoRow \/ row.id \in 1..fresh.node
  /\ \A t \in Thread : Fit(handler[t])

\* A row with a token has a key, and the agent's token stays the row's, unless
\* a handler has overwritten what it did not read or the node was deleted.
TokensFit ==
  ~ clashed =>
    /\ row.token # 0 => row.key # 0
    /\ ~ deleted => /\ agent.pc \in {"save", "loop"} => Known
                    /\ disk["token"] > 0 => row # NoRow /\ row.token = disk["token"]

RInv == TypeOK /\ FilesInOrder /\ KeysMatch /\ HandlersFit /\ TokensFit

-----------------------------------------------------------------------------
(* The files are in order *)

\* Two numbers, and what the agent's files and its answer are made of.
LEMMA Numbers ==
  ASSUME TypeOK
  PROVE  /\ Missing = 0 /\ Torn = -1
         /\ \A f \in File : disk[f] \in Int
         /\ agent.written \in 0..2
         /\ agent.got.token \in Nat /\ agent.got.node \in Nat /\ agent.got.server \in Nat
<1>1. Missing = 0 /\ Torn = -1
  BY DEF Missing, Torn
<1>2. \A f \in File : disk[f] \in Int
  BY <1>1 DEF TypeOK
<1>3. agent \in Agent
  BY DEF TypeOK
<1>4. agent.written \in 0..2
  BY <1>3 DEF Agent
<1>5. agent.got.token \in Nat /\ agent.got.node \in Nat /\ agent.got.server \in Nat
  BY <1>3 DEF Agent, Answer
<1> QED BY <1>1, <1>2, <1>4, <1>5

\* The file an answer is saved to next.
LEMMA SaveStep ==
  ASSUME TypeOK, SaveAnswer
  PROVE  \/ /\ agent.written = 0
            /\ disk' = [disk EXCEPT !["server"] = agent.got.server]
            /\ agent' = [agent EXCEPT !.written = 1]
         \/ /\ agent.written = 1
            /\ disk' = [disk EXCEPT !["token"] = agent.got.token]
            /\ agent' = [agent EXCEPT !.written = 2]
         \/ /\ agent.written = 2
            /\ disk' = [disk EXCEPT !["node"] = agent.got.node]
            /\ agent' = [agent EXCEPT !.pc = "loop", !.written = 0]
<1>1. agent.written = 0 \/ agent.written = 1 \/ agent.written = 2
  BY Numbers
<1>2. CASE agent.written = 0
  <2>1. Saved[agent.written + 1] = "server"
    BY <1>2 DEF Saved
  <2> QED BY <1>2, <2>1 DEF SaveAnswer
<1>3. CASE agent.written = 1
  <2>1. Saved[agent.written + 1] = "token"
    BY <1>3 DEF Saved
  <2> QED BY <1>3, <2>1 DEF SaveAnswer
<1>4. CASE agent.written = 2
  <2>1. Saved[agent.written + 1] = "node"
    BY <1>4 DEF Saved
  <2> QED BY <1>4, <2>1 DEF SaveAnswer
<1> QED BY <1>1, <1>2, <1>3, <1>4

\* What a crash leaves of the files: one at most is empty, the one the agent
\* was writing.
LEMMA CrashStep ==
  ASSUME TypeOK, Crash
  PROVE  /\ agent' = Down
         /\ \/ disk' = disk
            \/ \E f \in File :
                 /\ disk' = [disk EXCEPT ![f] = Torn]
                 /\ \/ agent.pc = "keys" /\ ~ HaveKeys /\ f = "private"
                    \/ agent.pc = "public" /\ f = "public"
                    \/ agent.pc = "save" /\ f = Saved[agent.written + 1]
<1>1. PICK torn \in {{}, Writing} : disk' = [f \in File |-> IF f \in torn THEN Torn ELSE disk[f]]
  BY DEF Crash
<1>2. disk = [f \in File |-> disk[f]]
  BY DEF TypeOK
<1>3. CASE torn = {}
  BY <1>1, <1>2, <1>3 DEF Crash
<1>4. CASE torn = Writing /\ torn # {}
  <2>1. \/ agent.pc = "keys" /\ ~ HaveKeys /\ torn = {"private"}
        \/ agent.pc = "public" /\ torn = {"public"}
        \/ agent.pc = "save" /\ torn = {Saved[agent.written + 1]}
    BY <1>4 DEF Writing
  <2>2. agent.written + 1 \in 1..3
    BY Numbers
  <2>3. Saved[agent.written + 1] \in File
    BY <2>2 DEF Saved, File
  <2>4. PICK f \in File :
          /\ torn = {f}
          /\ \/ agent.pc = "keys" /\ ~ HaveKeys /\ f = "private"
             \/ agent.pc = "public" /\ f = "public"
             \/ agent.pc = "save" /\ f = Saved[agent.written + 1]
    BY <2>1, <2>3 DEF File
  <2>5. disk' = [disk EXCEPT ![f] = Torn]
    BY <1>1, <1>2, <2>4
  <2> QED BY <2>4, <2>5 DEF Crash
<1> QED BY <1>1, <1>3, <1>4

\* The answers of the server: none to an agent that does not wait.
LEMMA ReplyStep ==
  ASSUME RInv, NEW t \in Thread, NEW answer, Reply(t, answer)
  PROVE  \/ agent' = agent
         \/ agent' = Down
         \/ /\ agent.pc = "wait" /\ answer # NoAnswer
            /\ agent' = [agent EXCEPT !.pc = "save", !.slot = "none", !.got = answer]
<1>1. agent.slot = t => agent.pc = "wait"
  <2>1. t # "none"
    BY RegistrationAssumption DEF RegistrationAssumption
  <2> QED BY <2>1 DEF RInv, FilesInOrder
<1> QED BY <1>1 DEF Reply

\* A step that ends the agent's process, and leaves its state files or empties one
\* while the other is not there.
LEMMA DownInOrder ==
  ASSUME agent' = Down, ~ (disk'["node"] > 0) \/ disk'["token"] > 0
  PROVE  FilesInOrder'
<1>1. agent'.pc = "down" /\ agent'.slot = "none" /\ agent'.written = 0
  BY DEF Down
<1> QED BY <1>1 DEF FilesInOrder

\* Every step keeps the agent's files in order.
LEMMA OrderStep ==
  ASSUME RInv, [Next]_vars
  PROVE  FilesInOrder'
<1>0. /\ TypeOK /\ FilesInOrder /\ disk \in [File -> Nat \cup {Torn}] /\ agent \in Agent
      /\ Missing = 0 /\ Torn = -1
  BY Numbers DEF RInv, TypeOK
<1>1. ASSUME disk' = disk, agent' = agent PROVE FilesInOrder'
  BY <1>0, <1>1 DEF FilesInOrder, Registered
<1>2. ASSUME disk' = disk, agent' = Down PROVE FilesInOrder'
  BY <1>0, <1>2, DownInOrder DEF FilesInOrder
<1>3. CASE Start
  BY <1>0, <1>3 DEF Start, FilesInOrder, Down, AgentOnly, Registered
<1>4. CASE MakeKeys
  <2>1. CASE HaveKeys
    BY <1>0, <1>4, <2>1 DEF MakeKeys, FilesInOrder, Agent, Registered
  <2>2. CASE ~ HaveKeys
    BY <1>0, <1>4, <2>2 DEF MakeKeys, FilesInOrder, Agent, Registered, File
  <2> QED BY <2>1, <2>2
<1>5. CASE WritePublic
  BY <1>0, <1>5 DEF WritePublic, FilesInOrder, Agent, Registered, File
<1>6. CASE ReadState
  <2>1. CASE disk["node"] = Torn
    BY <1>2, <1>6, <2>1 DEF ReadState
  <2>2. CASE Registered
    <3>1. agent' = [agent EXCEPT !.pc = "loop", !.got.token = disk["token"], !.got.node = disk["node"]]
      BY <1>0, <1>6, <2>2 DEF ReadState, Registered
    <3>2. agent'.pc = "loop" /\ agent'.slot = agent.slot /\ agent'.written = agent.written
      BY <1>0, <3>1 DEF Agent
    <3>3. agent'.got.token = disk["token"] /\ agent'.got.node = disk["node"]
      BY <1>0, <3>1 DEF Agent, Answer
    <3> QED BY <1>0, <1>6, <2>2, <3>2, <3>3 DEF ReadState, FilesInOrder, Registered
  <2>3. CASE disk["node"] # Torn /\ ~ Registered
    <3>1. disk["node"] \in Nat
      BY <1>0, <2>3 DEF File
    <3>2. disk["node"] = Missing
      BY <1>0, <2>3, <3>1 DEF Registered, FilesInOrder
    <3> QED BY <1>0, <1>6, <2>3, <3>2 DEF ReadState, FilesInOrder, Agent, Registered
  <2> QED BY <2>1, <2>2, <2>3
<1>7. ASSUME NEW t \in Thread, SendRegister(t) PROVE FilesInOrder'
  <2>1. t # "none"
    BY RegistrationAssumption DEF RegistrationAssumption
  <2>2. CASE disk["public"] > 0
    BY <1>0, <1>7, <2>1, <2>2 DEF SendRegister, FilesInOrder, Agent, Registered
  <2>3. CASE ~ (disk["public"] > 0)
    BY <1>2, <1>7, <2>3 DEF SendRegister
  <2> QED BY <2>2, <2>3
<1>8. CASE SaveAnswer
  <2>1. agent.pc = "save" /\ agent.slot = "none"
    BY <1>0, <1>8 DEF SaveAnswer, FilesInOrder
  <2>2. CASE agent.written = 0 /\ disk' = [disk EXCEPT !["server"] = agent.got.server]
               /\ agent' = [agent EXCEPT !.written = 1]
    BY <1>0, <2>1, <2>2 DEF FilesInOrder, Agent, File
  <2>3. CASE agent.written = 1 /\ disk' = [disk EXCEPT !["token"] = agent.got.token]
               /\ agent' = [agent EXCEPT !.written = 2]
    BY <1>0, <2>1, <2>3 DEF FilesInOrder, Agent, File
  <2>4. CASE agent.written = 2 /\ disk' = [disk EXCEPT !["node"] = agent.got.node]
               /\ agent' = [agent EXCEPT !.pc = "loop", !.written = 0]
    BY <1>0, <2>1, <2>4 DEF FilesInOrder, Agent, File, Registered
  <2> QED BY <1>0, <1>8, SaveStep, <2>2, <2>3, <2>4
<1>9. ASSUME NEW t \in Thread, NEW answer, Reply(t, answer), disk' = disk,
             answer # NoAnswer => answer.token > 0 /\ answer.node > 0
      PROVE  FilesInOrder'
  <2>1. ASSUME agent.pc = "wait", answer # NoAnswer,
               agent' = [agent EXCEPT !.pc = "save", !.slot = "none", !.got = answer]
        PROVE  FilesInOrder'
    BY <1>0, <1>9, <2>1 DEF FilesInOrder, Agent
  <2> QED BY <1>1, <1>2, <1>9, <2>1, ReplyStep
<1>10. ASSUME NEW t \in Thread, HandlerStep(t) PROVE FilesInOrder'
  <2>0. disk' = disk
    BY <1>10 DEF HandlerStep, LookUp, Insert, Merge, Update, Reread, ServerOnly
  <2>1. CASE LookUp(t) \/ Update(t)
    BY <1>1, <2>0, <2>1 DEF LookUp, Update
  <2>2. CASE Insert(t)
    BY <1>1, <1>9, <2>0, <2>2 DEF Insert
  <2>3. CASE Merge(t)
    BY <1>1, <1>9, <2>0, <2>3 DEF Merge
  <2>4. CASE Reread(t)
    <3>1. CASE row # NoRow /\ row.id = handler[t].first.id /\ row.token # 0
      <4>1. row.token > 0 /\ row.id > 0
        <5>1. row \in Row /\ fresh.node \in Nat /\ row.id \in 1..fresh.node
          BY <1>0, <3>1 DEF TypeOK, RInv, HandlersFit
        <5>2. row.token \in Nat
          BY <5>1 DEF Row
        <5> QED BY <3>1, <5>1, <5>2
      <4>2. Reply(t, [token |-> row.token, node |-> row.id, server |-> serverKey])
        BY <2>4, <3>1 DEF Reread
      <4> QED BY <1>9, <2>0, <4>1, <4>2
    <3>2. CASE ~ (row # NoRow /\ row.id = handler[t].first.id)
      BY <1>9, <2>0, <2>4, <3>2 DEF Reread
    <3>3. CASE row # NoRow /\ row.id = handler[t].first.id /\ row.token = 0
      BY <1>1, <2>0, <2>4, <3>3 DEF Reread
    <3> QED BY <3>1, <3>2, <3>3
  <2> QED BY <1>10, <2>1, <2>2, <2>3, <2>4 DEF HandlerStep
<1>11. CASE CreateNode \/ DeleteNode \/ \E t \in Thread : EditNode(t)
  BY <1>1, <1>11 DEF CreateNode, DeleteNode, EditNode, AdminStep
<1>12. CASE Rekey
  BY <1>0, <1>12, DownInOrder DEF Rekey, File, FilesInOrder
<1>13. CASE Crash
  <2>1. agent' = Down
    BY <1>13 DEF Crash
  <2>2. ASSUME NEW f \in File, disk' = [disk EXCEPT ![f] = Torn], f = "token" => disk["node"] = Missing
        PROVE  ~ (disk'["node"] > 0) \/ disk'["token"] > 0
    BY <1>0, <2>2 DEF FilesInOrder, File
  <2>3. agent.pc = "save" => disk["node"] = Missing
    BY <1>0 DEF FilesInOrder
  <2> QED BY <1>0, <1>2, <1>13, <2>1, <2>2, <2>3, CrashStep, DownInOrder
<1>14. CASE Timeout
  BY <1>2, <1>14 DEF Timeout
<1>15. CASE ServerRestart
  BY <1>1, <1>2, <1>15 DEF ServerRestart
<1>16. CASE UNCHANGED vars
  BY <1>1, <1>16 DEF vars
<1> QED
  BY <1>3, <1>4, <1>5, <1>6, <1>7, <1>8, <1>10, <1>11, <1>12, <1>13, <1>14, <1>15, <1>16
     DEF Next, AgentStep

-----------------------------------------------------------------------------
(* What the steps make of the handlers *)

\* Handler t becomes h and the others stay.
Becomes(t, h) == handler' = [handler EXCEPT ![t] = h]

\* EXCEPT, spelled out.
LEMMA BecomesDoes ==
  ASSUME TypeOK, NEW t \in Thread, NEW h, Becomes(t, h)
  PROVE  handler'[t] = h /\ \A u \in Thread : u # t => handler'[u] = handler[u]
<1>1. handler \in [Thread -> Handler]
  BY DEF TypeOK
<1> QED BY <1>1 DEF Becomes

\* What a request brings: the agent's public key, or an edit of the row.
LEMMA RequestDoes ==
  ASSUME TypeOK, NEW t \in Thread
  PROVE  /\ SendRegister(t) /\ disk["public"] > 0 =>
              \E h \in Handler : /\ Becomes(t, h)
                                 /\ h.pc = "lookup" /\ ~ h.edit /\ h.key = disk["public"]
                                 /\ h.first = NoRow /\ h.old = NoRow
         /\ EditNode(t) =>
              \E h \in Handler : /\ Becomes(t, h)
                                 /\ h.pc = "update" /\ h.edit /\ h.token = 0
                                 /\ h.first = row /\ h.old = row
<1>0. disk \in [File -> Nat \cup {Torn}] /\ row \in Row
  BY DEF TypeOK
<1>1. ASSUME SendRegister(t), disk["public"] > 0
      PROVE  \E h \in Handler : /\ Becomes(t, h)
                                /\ h.pc = "lookup" /\ ~ h.edit /\ h.key = disk["public"]
                                /\ h.first = NoRow /\ h.old = NoRow
  <2> DEFINE h == [Idle EXCEPT !.pc = "lookup", !.key = disk["public"]]
  <2>1. disk["public"] \in Nat
    BY <1>0, <1>1 DEF File, Torn
  <2>2. /\ h \in Handler /\ h.pc = "lookup" /\ ~ h.edit /\ h.key = disk["public"]
        /\ h.first = NoRow /\ h.old = NoRow
    BY <2>1, Nothings DEF Handler, HandlerPc, Key
  <2>3. Becomes(t, h)
    BY <1>1 DEF SendRegister, Becomes
  <2> QED BY <2>2, <2>3
<1>2. ASSUME EditNode(t)
      PROVE  \E h \in Handler : /\ Becomes(t, h)
                                /\ h.pc = "update" /\ h.edit /\ h.token = 0
                                /\ h.first = row /\ h.old = row
  <2>1. PICK k \in Given : Becomes(t,
          [Idle EXCEPT !.pc = "update", !.edit = TRUE, !.key = k, !.first = row, !.old = row])
    BY <1>2 DEF EditNode, Becomes
  <2> DEFINE h == [Idle EXCEPT !.pc = "update", !.edit = TRUE, !.key = k, !.first = row, !.old = row]
  <2>2. /\ h \in Handler /\ h.pc = "update" /\ h.edit /\ h.token = 0
        /\ h.first = row /\ h.old = row
    BY <1>0, GivenType, Nothings DEF Handler, HandlerPc
  <2> QED BY <2>1, <2>2
<1> QED BY <1>1, <1>2

\* The first read of the row.
LEMMA LookUpDoes ==
  ASSUME TypeOK, NEW t \in Thread, LookUp(t)
  PROVE  \E h \in Handler :
           /\ Becomes(t, h)
           /\ h.pc = (IF row = NoRow THEN "insert" ELSE "merge") /\ h.edit = handler[t].edit
           /\ h.key = handler[t].key /\ h.token = Chosen(row)
           /\ h.first = row /\ h.old = handler[t].old
<1>0. handler \in [Thread -> Handler] /\ row \in Row /\ fresh.token \in Nat
  BY DEF TypeOK
<1>1. Chosen(row) \in Nat
  BY <1>0 DEF Chosen, Row
<1> DEFINE p == IF row = NoRow THEN "insert" ELSE "merge"
           h == [handler[t] EXCEPT !.pc = p, !.first = row, !.token = Chosen(row)]
<1>2. Becomes(t, h)
  BY <1>0 DEF LookUp, Becomes
<1>3. p \in HandlerPc
  BY DEF HandlerPc
<1> HIDE DEF p
<1>4. /\ h \in Handler /\ h.pc = p /\ h.edit = handler[t].edit /\ h.key = handler[t].key
      /\ h.token = Chosen(row) /\ h.first = row /\ h.old = handler[t].old
  BY <1>0, <1>1, <1>3 DEF Handler
<1> QED BY <1>2, <1>4 DEF p

\* The handlers past their first read.
LEMMA HandlerDoes ==
  ASSUME TypeOK, NEW t \in Thread
  PROVE  /\ Insert(t) /\ row = NoRow =>
              \E h \in Handler : /\ Becomes(t, h) /\ h.pc = "reread" /\ h.first = row'
                                 /\ ~ h.edit /\ h.key = 0
         /\ Merge(t) /\ row # NoRow /\ row.id = handler[t].first.id =>
              \E h \in Handler : /\ Becomes(t, h) /\ h.pc = "update" /\ h.old = row
                                 /\ h.edit = handler[t].edit /\ h.key = handler[t].key
                                 /\ h.token = handler[t].token /\ h.first = handler[t].first
         /\ Update(t) /\ ~ handler[t].edit =>
              \E h \in Handler : /\ Becomes(t, h) /\ h.pc = "reread" /\ ~ h.edit /\ h.key = 0
                                 /\ h.first = handler[t].first
         /\ Reread(t) /\ row # NoRow /\ row.id = handler[t].first.id /\ row.token = 0 =>
              \E h \in Handler : /\ Becomes(t, h) /\ h.pc = "merge" /\ h.old = handler[t].old
                                 /\ h.edit = handler[t].edit /\ h.key = 0
                                 /\ h.token = fresh.token + 1 /\ h.first = row
<1>0. handler \in [Thread -> Handler] /\ row \in Row /\ fresh.token \in Nat
  BY DEF TypeOK
<1>1. ASSUME Insert(t), row = NoRow
      PROVE  \E h \in Handler : /\ Becomes(t, h) /\ h.pc = "reread" /\ h.first = row'
                                /\ ~ h.edit /\ h.key = 0
  <2>1. row' \in Row
    BY <1>1, RowType DEF Next, HandlerStep
  <2>2. Becomes(t, Rereading(row'))
    BY <1>1 DEF Insert, Becomes
  <2> QED BY <2>1, <2>2, RereadingIs
<1>2. ASSUME Merge(t), row # NoRow, row.id = handler[t].first.id
      PROVE  \E h \in Handler : /\ Becomes(t, h) /\ h.pc = "update" /\ h.old = row
                                /\ h.edit = handler[t].edit /\ h.key = handler[t].key
                                /\ h.token = handler[t].token /\ h.first = handler[t].first
  <2> DEFINE h == [handler[t] EXCEPT !.pc = "update", !.old = row]
  <2>2. /\ h \in Handler /\ h.pc = "update" /\ h.old = row /\ h.edit = handler[t].edit
        /\ h.key = handler[t].key /\ h.token = handler[t].token /\ h.first = handler[t].first
    BY <1>0 DEF Handler, HandlerPc
  <2>3. Becomes(t, h)
    BY <1>0, <1>2 DEF Merge, Becomes
  <2> QED BY <2>2, <2>3
<1>3. ASSUME Update(t), ~ handler[t].edit
      PROVE  \E h \in Handler : /\ Becomes(t, h) /\ h.pc = "reread" /\ ~ h.edit /\ h.key = 0
                                /\ h.first = handler[t].first
  <2>1. handler[t].first \in Row
    BY <1>0 DEF Handler
  <2>2. Becomes(t, Rereading(handler[t].first))
    BY <1>3 DEF Update, Becomes
  <2> QED BY <2>1, <2>2, RereadingIs
<1>4. ASSUME Reread(t), row # NoRow, row.id = handler[t].first.id, row.token = 0
      PROVE  \E h \in Handler : /\ Becomes(t, h) /\ h.pc = "merge" /\ h.old = handler[t].old
                                /\ h.edit = handler[t].edit /\ h.key = 0
                                /\ h.token = fresh.token + 1 /\ h.first = row
  <2> DEFINE n == fresh.token + 1
             h == [handler[t] EXCEPT !.pc = "merge", !.first = row, !.key = 0, !.token = n]
  <2>1. n \in Nat /\ 0 \in Key
    BY <1>0, Nothings
  <2>2. Becomes(t, h)
    BY <1>0, <1>4 DEF Reread, Becomes
  <2> HIDE DEF n
  <2>3. /\ h \in Handler /\ h.pc = "merge" /\ h.old = handler[t].old /\ h.edit = handler[t].edit
        /\ h.key = 0 /\ h.token = n /\ h.first = row
    BY <1>0, <2>1 DEF Handler, HandlerPc
  <2> QED BY <2>2, <2>3 DEF n
<1> QED BY <1>1, <1>2, <1>3, <1>4

-----------------------------------------------------------------------------
(* The keys match *)

\* While the agent's keys and the server's stay, so do the copies, unless a
\* step makes one that is neither nothing nor the agent's.
LEMMA KeysStay ==
  ASSUME RInv, rekeys' = 0, rekeys = 0, disk' = disk, UNCHANGED <<serverKey, fresh.key>>,
         /\ agent'.pc # "public"
         /\ agent'.pc \in {"state", "register", "wait", "save", "loop"} => disk["public"] # Missing
         /\ agent'.pc \in {"wait", "save"} => disk["public"] > 0
         /\ agent'.pc = "save" => agent'.got.server = serverKey /\ agent'.written = 0,
         clashed' \/ typed' \/ row'.key \in {0, Published},
         \A t \in Thread : handler'[t].edit \/ handler'[t].key \in {0, Published}
  PROVE  KeysMatch'
<1>1. KeysMatch
  BY DEF RInv
<1>2. Published' = Published /\ (Registered' <=> Registered)
  BY DEF Published, Registered
<1> QED BY <1>1, <1>2 DEF KeysMatch

\* A step of a handler, an administrator or the server that leaves the agent.
LEMMA CopiesStay ==
  ASSUME RInv, rekeys' = 0, rekeys = 0, disk' = disk, UNCHANGED <<serverKey, fresh.key>>,
         agent' = agent \/ agent' = Down,
         clashed' \/ typed' \/ row'.key \in {0, Published},
         \A t \in Thread : handler'[t].edit \/ handler'[t].key \in {0, Published}
  PROVE  KeysMatch'
<1>1. KeysMatch
  BY DEF RInv
<1>2. Published' = Published /\ (Registered' <=> Registered)
  BY DEF Published, Registered
<1>3. CASE agent' = agent
  BY <1>1, <1>2, <1>3 DEF KeysMatch
<1>4. CASE agent' = Down
  BY <1>1, <1>2, <1>4, Nothings DEF KeysMatch
<1> QED BY <1>3, <1>4

\* The copies of the agent's public key that the server has.
LEMMA Copies ==
  ASSUME RInv, rekeys = 0
  PROVE  /\ clashed \/ typed \/ row.key \in {0, Published}
         /\ \A t \in Thread : handler[t].edit \/ handler[t].key \in {0, Published}
  BY DEF RInv, KeysMatch

\* The handler of one thread changes and its copies are as they should be.
LEMMA OneHandler ==
  ASSUME RInv, rekeys = 0, NEW t \in Thread, NEW h,
         Becomes(t, h), h.edit \/ h.key \in {0, Published}
  PROVE  \A u \in Thread : handler'[u].edit \/ handler'[u].key \in {0, Published}
BY BecomesDoes, Copies DEF RInv

\* A handler that ends leaves no copy.
LEMMA EndCopies ==
  ASSUME RInv, rekeys = 0, NEW t \in Thread, End(t)
  PROVE  \A u \in Thread : handler'[u].edit \/ handler'[u].key \in {0, Published}
<1>1. Idle.key \in {0, Published}
  BY Nothings
<1> QED BY <1>1, OneHandler DEF End, Becomes

\* The key in the row after a handler has written it: a registration's, or one
\* that an edit was given.
LEMMA KeyWritten ==
  ASSUME RInv, rekeys = 0, NEW t \in Thread, Update(t)
  PROVE  clashed' \/ typed' \/ row'.key \in {0, Published}
<1> DEFINE g == handler[t]
<1>0. /\ g.pc = "update" /\ g \in Handler /\ g.old \in Row /\ Fit(g)
      /\ row \in Row /\ clashed \in BOOLEAN
  BY DEF Update, RInv, TypeOK, HandlersFit, Handler
<1>1. CASE row # NoRow /\ row.id = g.old.id
  <2>1. /\ row' = Merged(g) /\ clashed' = (clashed \/ row # g.first)
        /\ typed' = IF g.key # 0 THEN g.edit ELSE typed
    BY <1>1 DEF Update
  <2>2. SUFFICES ASSUME ~ clashed', ~ typed' PROVE row'.key \in {0, Published}
    OBVIOUS
  <2>3. ~ clashed /\ row = g.first
    BY <1>0, <2>1, <2>2
  <2>4. CASE g.key # 0
    <3>1. row'.key = g.key
      BY <1>0, <2>1, <2>4 DEF Merged, Row
    <3>2. ~ g.edit
      BY <2>1, <2>2, <2>4
    <3> QED BY <3>1, <3>2, Copies
  <2>5. CASE g.key = 0
    <3>1. g.edit
      BY <1>0, <2>3, <2>5 DEF Fit
    <3>2. row'.key = row.key
      BY <1>0, <2>1, <2>3, <2>5, <3>1 DEF Fit, Merged, Row
    <3>3. ~ typed
      BY <2>1, <2>2, <2>5
    <3> QED BY <2>3, <3>2, <3>3, Copies
  <2> QED BY <2>4, <2>5
<1>2. CASE ~ (row # NoRow /\ row.id = g.old.id)
  BY <1>2, Copies DEF Update
<1> QED BY <1>1, <1>2

\* Every step keeps the keys matched, or renews them.
LEMMA KeysStep ==
  ASSUME RInv, [Next]_vars
  PROVE  KeysMatch'
<1> SUFFICES ASSUME rekeys' = 0 PROVE KeysMatch'
  BY DEF KeysMatch
<1>0. /\ TypeOK /\ FilesInOrder /\ KeysMatch /\ disk \in [File -> Nat \cup {Torn}] /\ agent \in Agent
      /\ handler \in [Thread -> Handler] /\ row \in Row /\ fresh.key \in Nat /\ rekeys \in Nat
      /\ fresh \in [key : Nat, token : Nat, node : Nat]
      /\ Missing = 0 /\ Torn = -1
  BY Numbers, RegistrationAssumption DEF RInv, TypeOK, RegistrationAssumption
<1>1. CASE Start
  BY <1>0, <1>1 DEF Start, KeysMatch, Published, Down, AgentOnly, Registered, server, counts
<1>2. CASE MakeKeys
  <2>0. UNCHANGED <<row, serverKey, handler, rekeys, clashed, typed>>
    BY <1>2 DEF MakeKeys, AgentOnly, server, counts
  <2>1. CASE HaveKeys
    BY <1>0, <1>2, <2>0, <2>1 DEF MakeKeys, HaveKeys, KeysMatch, Published, Agent, Registered
  <2>2. CASE ~ HaveKeys
    <3>1. disk["public"] = Missing
      BY <1>0, <2>0, <2>2 DEF HaveKeys, KeysMatch
    <3>2. /\ disk'["public"] = disk["public"] /\ disk'["private"] = fresh.key + 1
          /\ disk'["token"] = disk["token"] /\ disk'["node"] = disk["node"]
          /\ fresh'.key = fresh.key + 1 /\ agent'.pc = "public"
      BY <1>0, <1>2, <2>2 DEF MakeKeys, File, Agent
    <3>3. Published' = Published /\ ~ Registered /\ ~ Registered'
      BY <1>0, <2>0, <3>1, <3>2 DEF Published, Registered, KeysMatch
    <3> QED BY <1>0, <2>0, <3>1, <3>2, <3>3 DEF KeysMatch
  <2> QED BY <2>1, <2>2
<1>3. CASE WritePublic
  <2>0. UNCHANGED <<row, serverKey, handler, rekeys, fresh, clashed, typed>>
    BY <1>3 DEF WritePublic, AgentOnly, server, counts
  <2>1. disk["private"] = fresh.key /\ fresh.key > 0 /\ disk["public"] = Missing
    BY <1>0, <1>3, <2>0 DEF WritePublic, KeysMatch
  <2>2. /\ disk'["public"] = fresh.key /\ disk'["private"] = disk["private"]
        /\ disk'["token"] = disk["token"] /\ disk'["node"] = disk["node"] /\ agent'.pc = "state"
    BY <1>0, <1>3 DEF WritePublic, File, Agent
  <2>3. Published = 0 /\ ~ Registered /\ ~ Registered'
    BY <1>0, <2>0, <2>1, <2>2 DEF Published, Registered, KeysMatch
  <2> QED BY <1>0, <2>0, <2>1, <2>2, <2>3 DEF KeysMatch
<1>4. CASE ReadState
  <2>0. UNCHANGED <<disk, row, serverKey, handler, rekeys, fresh, clashed, typed>> /\ agent.pc = "state"
    BY <1>4 DEF ReadState, AgentOnly, server, counts
  <2>1. agent'.pc \in {"down", "loop", "register"}
    BY <1>0, <1>4 DEF ReadState, Down, Agent
  <2> QED BY <1>0, <2>0, <2>1, KeysStay, Copies DEF KeysMatch
<1>5. ASSUME NEW t \in Thread, SendRegister(t) PROVE KeysMatch'
  <2>0. UNCHANGED <<disk, row, serverKey, rekeys, fresh, clashed, typed>> /\ agent.pc = "register"
    BY <1>5 DEF SendRegister, counts
  <2>1. CASE disk["public"] > 0
    <3>1. PICK h \in Handler : Becomes(t, h) /\ h.key = disk["public"] /\ h.old = NoRow
      BY <1>0, <1>5, <2>1, RequestDoes
    <3>2. agent'.pc = "wait"
      BY <1>0, <1>5, <2>1 DEF SendRegister, Agent
    <3>3. \A u \in Thread : handler'[u].edit \/ handler'[u].key \in {0, Published}
      <4>1. h.key \in {0, Published}
        BY <2>1, <3>1 DEF Published
      <4> QED BY <2>0, <3>1, <4>1, OneHandler
    <3> QED BY <1>0, <2>0, <2>1, <3>2, <3>3, KeysStay, Copies
  <2>2. CASE ~ (disk["public"] > 0)
    BY <1>5, <2>0, <2>2, CopiesStay, Copies DEF SendRegister
  <2> QED BY <2>1, <2>2
<1>6. CASE SaveAnswer
  <2>0. UNCHANGED <<row, serverKey, handler, rekeys, fresh, clashed, typed>> /\ agent.pc = "save"
    BY <1>6 DEF SaveAnswer, AgentOnly, server, counts
  <2>1. /\ disk["public"] # Missing /\ disk["public"] > 0 /\ disk["private"] = fresh.key
        /\ agent.got.server = serverKey /\ (agent.written > 0 => disk["server"] = serverKey)
    BY <1>0, <2>0 DEF KeysMatch
  <2>2. /\ disk'["public"] = disk["public"] /\ disk'["private"] = disk["private"]
        /\ agent'.pc \in {"save", "loop"} /\ agent'.got = agent.got
        /\ disk'["server"] = serverKey
    <3>1. CASE agent.written = 0 /\ disk' = [disk EXCEPT !["server"] = agent.got.server]
                 /\ agent' = [agent EXCEPT !.written = 1]
      BY <1>0, <2>0, <2>1, <3>1 DEF Agent, File
    <3>2. CASE agent.written = 1 /\ disk' = [disk EXCEPT !["token"] = agent.got.token]
                 /\ agent' = [agent EXCEPT !.written = 2]
      BY <1>0, <2>0, <2>1, <3>2 DEF Agent, File
    <3>3. CASE agent.written = 2 /\ disk' = [disk EXCEPT !["node"] = agent.got.node]
                 /\ agent' = [agent EXCEPT !.pc = "loop", !.written = 0]
      BY <1>0, <2>0, <2>1, <3>3 DEF Agent, File
    <3> QED BY <1>0, <1>6, SaveStep, <3>1, <3>2, <3>3
  <2>3. Published' = Published
    BY <2>2 DEF Published
  <2> QED BY <1>0, <2>0, <2>1, <2>2, <2>3 DEF KeysMatch
<1>7. ASSUME NEW t \in Thread, HandlerStep(t) PROVE KeysMatch'
  <2>0. UNCHANGED <<disk, serverKey, rekeys, fresh.key>> /\ rekeys = 0
    BY <1>0, <1>7 DEF HandlerStep, ServerOnly, counts, LookUp, Insert, Merge, Update, Reread
  <2>1. ASSUME NEW h \in Handler, Becomes(t, h),
               h.key = 0 \/ (h.key = handler[t].key /\ h.edit = handler[t].edit)
        PROVE  \A u \in Thread : handler'[u].edit \/ handler'[u].key \in {0, Published}
    <3>1. h.edit \/ h.key \in {0, Published}
      BY <1>0, <2>0, <2>1, Copies DEF Handler
    <3> QED BY <2>0, <2>1, <3>1, OneHandler
  <2>2. CASE LookUp(t)
    <3>1. UNCHANGED <<agent, row, clashed, typed>>
      BY <2>2 DEF LookUp
    <3> QED BY <1>0, <2>0, <2>1, <2>2, <3>1, LookUpDoes, CopiesStay, Copies
  <2>3. CASE Insert(t)
    <3>1. CASE row = NoRow
      <4>1. row'.key = handler[t].key /\ agent' = agent
        BY <2>3, <3>1 DEF Insert
      <4>2. ~ handler[t].edit
        BY <2>3 DEF Insert, RInv, HandlersFit, Fit
      <4>3. handler[t].key \in {0, Published}
        BY <2>0, <4>2, Copies
      <4> QED BY <1>0, <2>0, <2>1, <2>3, <3>1, <4>1, <4>3, HandlerDoes, CopiesStay
    <3>2. CASE row # NoRow
      <4>1. End(t) /\ Reply(t, NoAnswer) /\ UNCHANGED <<row, clashed, typed>>
        BY <2>3, <3>2 DEF Insert
      <4>2. agent' = agent \/ agent' = Down
        BY <4>1, ReplyStep
      <4> QED BY <2>0, <4>1, <4>2, EndCopies, CopiesStay, Copies
    <3> QED BY <3>1, <3>2
  <2>4. CASE Merge(t)
    <3>0. UNCHANGED <<row, clashed, typed>>
      BY <2>4 DEF Merge
    <3>1. CASE row # NoRow /\ row.id = handler[t].first.id
      <4>1. agent' = agent
        BY <2>4, <3>1 DEF Merge
      <4> QED BY <1>0, <2>0, <2>1, <2>4, <3>0, <3>1, <4>1, HandlerDoes, CopiesStay, Copies
    <3>2. CASE ~ (row # NoRow /\ row.id = handler[t].first.id)
      <4>1. End(t) /\ Reply(t, NoAnswer)
        BY <2>4, <3>2 DEF Merge
      <4>2. agent' = agent \/ agent' = Down
        BY <4>1, ReplyStep
      <4> QED BY <2>0, <3>0, <4>1, <4>2, EndCopies, CopiesStay, Copies
    <3> QED BY <3>1, <3>2
  <2>5. CASE Update(t)
    <3>1. agent' = agent
      BY <2>5 DEF Update
    <3>2. clashed' \/ typed' \/ row'.key \in {0, Published}
      BY <2>0, <2>5, KeyWritten
    <3>3. CASE handler[t].edit
      <4>1. End(t)
        BY <2>5, <3>3 DEF Update
      <4> QED BY <2>0, <3>1, <3>2, <4>1, EndCopies, CopiesStay
    <3>4. CASE ~ handler[t].edit
      BY <1>0, <2>0, <2>1, <2>5, <3>1, <3>2, <3>4, HandlerDoes, CopiesStay
    <3> QED BY <3>3, <3>4
  <2>6. CASE Reread(t)
    <3>0. UNCHANGED <<row, clashed, typed>>
      BY <2>6 DEF Reread
    <3>1. CASE row # NoRow /\ row.id = handler[t].first.id /\ row.token = 0
      <4>1. agent' = agent
        BY <2>6, <3>1 DEF Reread
      <4> QED BY <1>0, <2>0, <2>1, <2>6, <3>0, <3>1, <4>1, HandlerDoes, CopiesStay, Copies
    <3>2. CASE ~ (row # NoRow /\ row.id = handler[t].first.id /\ row.token = 0)
      <4>1. PICK answer : /\ End(t) /\ Reply(t, answer)
                          /\ answer = NoAnswer \/
                             answer = [token |-> row.token, node |-> row.id, server |-> serverKey]
        BY <2>6, <3>2 DEF Reread
      <4>2. CASE agent' = agent \/ agent' = Down
        BY <2>0, <3>0, <4>1, <4>2, EndCopies, CopiesStay, Copies
      <4>3. CASE /\ agent.pc = "wait" /\ answer # NoAnswer
                 /\ agent' = [agent EXCEPT !.pc = "save", !.slot = "none", !.got = answer]
        <5>1. agent'.pc = "save" /\ agent'.got.server = serverKey /\ agent'.written = 0
          BY <1>0, <4>1, <4>3 DEF Agent, FilesInOrder
        <5>2. disk["public"] > 0 /\ disk["public"] # Missing
          BY <1>0, <2>0, <4>3 DEF KeysMatch
        <5> QED BY <2>0, <3>0, <4>1, <5>1, <5>2, EndCopies, KeysStay, Copies
      <4> QED BY <4>1, <4>2, <4>3, ReplyStep
    <3> QED BY <3>1, <3>2
  <2> QED BY <1>7, <2>2, <2>3, <2>4, <2>5, <2>6 DEF HandlerStep
<1>8. ASSUME CreateNode \/ DeleteNode \/ \E t \in Thread : EditNode(t) PROVE KeysMatch'
  <2>0. UNCHANGED <<disk, agent, serverKey, rekeys, fresh.key>> /\ rekeys = 0
    BY <1>0, <1>8 DEF CreateNode, DeleteNode, EditNode, AdminStep
  <2>1. CASE CreateNode \/ DeleteNode
    <3>1. handler' = handler
      BY <2>1 DEF CreateNode, DeleteNode
    <3>2. typed' \/ row'.key = 0
      <4>1. CASE CreateNode
        <5>1. PICK k \in Given : row'.key = k /\ typed' = (k # 0)
          BY <4>1 DEF CreateNode
        <5> QED BY <5>1
      <4>2. CASE DeleteNode
        BY <4>2, Nothings DEF DeleteNode
      <4> QED BY <2>1, <4>1, <4>2
    <3>3. row'.key = 0 => row'.key \in {0, Published}
      OBVIOUS
    <3> QED BY <2>0, <3>1, <3>2, <3>3, CopiesStay, Copies
  <2>2. ASSUME NEW t \in Thread, EditNode(t) PROVE KeysMatch'
    <3>1. UNCHANGED <<row, clashed, typed>>
      BY <2>2 DEF EditNode, AdminStep
    <3>2. PICK h \in Handler : Becomes(t, h) /\ h.edit
      BY <1>0, <2>2, RequestDoes
    <3> QED BY <2>0, <3>1, <3>2, OneHandler, CopiesStay, Copies
  <2> QED BY <1>8, <2>1, <2>2
<1>9. CASE Rekey
  BY <1>0, <1>9 DEF Rekey
<1>10. CASE Crash
  <2>0. UNCHANGED <<row, serverKey, handler, rekeys, fresh, clashed, typed>> /\ agent' = Down
    BY <1>10 DEF Crash, Spend, server
  <2>1. CASE disk' = disk
    BY <2>0, <2>1, CopiesStay, Copies
  <2>2. ASSUME NEW f \in File, disk' = [disk EXCEPT ![f] = Torn],
               \/ agent.pc = "keys" /\ ~ HaveKeys /\ f = "private"
               \/ agent.pc = "public" /\ f = "public"
               \/ agent.pc = "save" /\ f = Saved[agent.written + 1]
        PROVE  KeysMatch'
    <3>1. agent'.pc = "down"
      BY <2>0, Nothings
    <3>2. CASE agent.pc = "keys" /\ ~ HaveKeys /\ f = "private"
      <4>1. disk["public"] = Missing
        BY <1>0, <2>0, <3>2 DEF HaveKeys, KeysMatch
      <4>2. /\ disk'["public"] = disk["public"] /\ disk'["server"] = disk["server"]
            /\ disk'["token"] = disk["token"] /\ disk'["node"] = disk["node"]
        BY <1>0, <2>2, <3>2 DEF File
      <4> QED BY <1>0, <2>0, <3>1, <4>1, <4>2 DEF KeysMatch, Published, Registered
    <3>3. CASE agent.pc = "public" /\ f = "public"
      <4>1. disk["private"] = fresh.key /\ fresh.key > 0 /\ disk["public"] = Missing
        BY <1>0, <2>0, <3>3 DEF KeysMatch
      <4>2. /\ disk'["public"] = Torn /\ disk'["private"] = disk["private"]
            /\ disk'["token"] = disk["token"] /\ disk'["node"] = disk["node"]
        BY <1>0, <2>2, <3>3 DEF File
      <4>3. Published = 0 /\ Published' = 0 /\ ~ Registered /\ ~ Registered'
        BY <1>0, <2>0, <4>1, <4>2 DEF Published, Registered, KeysMatch
      <4> QED BY <1>0, <2>0, <3>1, <4>1, <4>2, <4>3 DEF KeysMatch
    <3>4. CASE agent.pc = "save" /\ f = Saved[agent.written + 1]
      <4>1. f \in {"server", "token", "node"}
        <5>1. agent.written + 1 \in 1..3
          BY <1>0, Numbers
        <5> QED BY <3>4, <5>1 DEF Saved
      <4>2. /\ disk'["public"] = disk["public"] /\ disk'["private"] = disk["private"]
            /\ ~ Registered'
        <5>1. disk["node"] = Missing
          BY <1>0, <3>4 DEF FilesInOrder
        <5> QED BY <1>0, <2>2, <4>1, <5>1 DEF File, Registered
      <4>3. Published' = Published
        BY <4>2 DEF Published
      <4> QED BY <1>0, <2>0, <3>1, <4>2, <4>3 DEF KeysMatch
    <3> QED BY <2>2, <3>2, <3>3, <3>4
  <2> QED BY <1>0, <1>10, <2>1, <2>2, CrashStep
<1>11. CASE Timeout
  <2>0. UNCHANGED <<disk, row, serverKey, handler, rekeys, fresh, clashed, typed>> /\ agent' = Down
    BY <1>11 DEF Timeout, Spend, server
  <2> QED BY <2>0, CopiesStay, Copies
<1>12. CASE ServerRestart
  <2>0. UNCHANGED <<disk, row, serverKey, rekeys, fresh, clashed, typed>> /\ (agent' = agent \/ agent' = Down)
    BY <1>12 DEF ServerRestart, Spend
  <2>1. \A t \in Thread : handler'[t].key = 0
    BY <1>12, Nothings DEF ServerRestart
  <2> QED BY <2>0, <2>1, CopiesStay, Copies
<1>13. CASE UNCHANGED vars
  <2>0. UNCHANGED <<disk, agent, row, serverKey, handler, rekeys, fresh, clashed, typed>>
    BY <1>13 DEF vars, server, counts
  <2> QED BY <2>0, CopiesStay, Copies
<1> QED
  BY <1>1, <1>2, <1>3, <1>4, <1>5, <1>6, <1>7, <1>8, <1>9, <1>10, <1>11, <1>12, <1>13
     DEF Next, AgentStep

-----------------------------------------------------------------------------
(* The handlers fit *)

\* The row and the numbers are integers where they are compared.
LEMMA FitNumbers ==
  ASSUME RInv
  PROVE  /\ row \in Row /\ row.id \in Nat /\ row.key \in Key /\ row.token \in Nat
         /\ row = NoRow \/ row.id \in 1..fresh.node
         /\ fresh.node \in Nat /\ fresh.token \in Nat
         /\ \A t \in Thread : /\ handler[t] \in Handler /\ Fit(handler[t])
                              /\ handler[t].first.id \in Nat
<1>1. row \in Row /\ fresh.node \in Nat /\ fresh.token \in Nat /\ handler \in [Thread -> Handler]
  BY DEF RInv, TypeOK
<1>2. row.id \in Nat /\ row.key \in Key /\ row.token \in Nat
  BY <1>1 DEF Row
<1>3. \A t \in Thread : handler[t] \in Handler /\ handler[t].first.id \in Nat
  BY <1>1 DEF Handler, Row
<1>4. (row = NoRow \/ row.id \in 1..fresh.node) /\ \A t \in Thread : Fit(handler[t])
  BY DEF RInv, HandlersFit
<1> QED BY <1>1, <1>2, <1>3, <1>4

\* A handler stays fit as long as a row it will read again keeps its token.
LEMMA FitStays ==
  ASSUME RInv, NEW t \in Thread,
         clashed => clashed', fresh'.node \in Nat, fresh.node <= fresh'.node,
         \/ row' = row
         \/ clashed'
         \/ row' = NoRow
         \/ row'.id # handler[t].first.id
         \/ row'.token # 0
         \/ row # NoRow /\ row'.id = row.id /\ row'.token = row.token
  PROVE  handler'[t] = handler[t] => Fit(handler[t])' 
<1> SUFFICES ASSUME handler'[t] = handler[t] PROVE Fit(handler[t])'
  OBVIOUS
<1>1. Fit(handler[t]) /\ handler[t].first.id \in Nat /\ fresh.node \in Nat
  BY FitNumbers
<1>2. handler[t].first.id <= fresh'.node
  BY <1>1 DEF Fit
<1> QED BY <1>1, <1>2 DEF Fit

\* Nothing is asked of a handler that has ended.
LEMMA IdleFits ==
  ASSUME fresh'.node \in Nat, NEW t \in Thread, handler'[t] = Idle
  PROVE  Fit(handler[t])'
<1>1. handler'[t].first.id = 0 /\ handler'[t].pc = "idle"
  BY Nothings
<1> QED BY <1>1 DEF Fit

\* Every step keeps the handlers fit.
LEMMA FitStep ==
  ASSUME RInv, [Next]_vars
  PROVE  HandlersFit'
<1>0. /\ TypeOK /\ row \in Row /\ row.id \in Nat /\ row.key \in Key /\ row.token \in Nat
      /\ row = NoRow \/ row.id \in 1..fresh.node
      /\ fresh.node \in Nat /\ fresh.token \in Nat /\ fresh'.node \in Nat
      /\ \A t \in Thread : /\ handler[t] \in Handler /\ Fit(handler[t])
                           /\ handler[t].first.id \in Nat
  BY FitNumbers, FreshType DEF RInv
<1>1. ASSUME UNCHANGED <<row, handler, clashed, fresh.node>> PROVE HandlersFit'
  <2>1. \A t \in Thread : Fit(handler[t])'
    BY <1>0, <1>1, FitStays
  <2> QED BY <1>0, <1>1, <2>1 DEF HandlersFit
<1>2. ASSUME UNCHANGED <<row, clashed, fresh.node>>, handler' = [t \in Thread |-> Idle] PROVE HandlersFit'
  <2>1. \A t \in Thread : Fit(handler[t])'
    BY <1>0, <1>2, IdleFits
  <2> QED BY <1>0, <1>2, <2>1 DEF HandlersFit
<1>3. ASSUME NEW t \in Thread, NEW h, Becomes(t, h), Fit(handler[t])',
             row' = NoRow \/ row'.id \in 1..fresh'.node,
             clashed => clashed', fresh.node <= fresh'.node,
             \A u \in Thread \ {t} : \/ row' = row
                                     \/ clashed'
                                     \/ row' = NoRow
                                     \/ row'.id # handler[u].first.id
                                     \/ row'.token # 0
                                     \/ row # NoRow /\ row'.id = row.id /\ row'.token = row.token
      PROVE  HandlersFit'
  <2>1. ASSUME NEW u \in Thread PROVE Fit(handler[u])'
    <3>1. CASE u = t
      BY <1>3, <3>1
    <3>2. CASE u # t
      <4>1. handler'[u] = handler[u]
        BY <1>0, <1>3, <3>2, BecomesDoes
      <4> QED BY <1>0, <1>3, <3>2, <4>1, FitStays
    <3> QED BY <3>1, <3>2
  <2> QED BY <1>3, <2>1 DEF HandlersFit
<1>4. ASSUME NEW t \in Thread, End(t), UNCHANGED <<row, clashed, fresh.node>> PROVE HandlersFit'
  <2>1. Becomes(t, Idle)
    BY <1>4 DEF End, Becomes
  <2>2. Fit(handler[t])'
    BY <1>0, <2>1, BecomesDoes, IdleFits
  <2> QED BY <1>0, <1>3, <1>4, <2>1, <2>2
<1>5. ASSUME NEW t \in Thread, NEW h \in Handler, Becomes(t, h),
             UNCHANGED <<row, clashed, fresh.node>>, Fit(handler[t])'
      PROVE  HandlersFit'
  BY <1>0, <1>3, <1>5
<1>6. ASSUME Start \/ MakeKeys \/ WritePublic \/ ReadState \/ SaveAnswer PROVE HandlersFit'
  <2>1. UNCHANGED <<row, handler, clashed>>
    BY <1>6 DEF Start, MakeKeys, WritePublic, ReadState, SaveAnswer, AgentOnly, server
  <2>2. fresh \in [key : Nat, token : Nat, node : Nat]
    BY <1>0 DEF TypeOK
  <2>3. fresh'.node = fresh.node
    BY <1>6, <2>2 DEF Start, MakeKeys, WritePublic, ReadState, SaveAnswer
  <2> QED BY <1>1, <2>1, <2>3
<1>7. ASSUME NEW t \in Thread, SendRegister(t) PROVE HandlersFit'
  <2>0. UNCHANGED <<row, clashed, fresh>>
    BY <1>7 DEF SendRegister
  <2>1. CASE disk["public"] > 0
    <3>1. PICK h \in Handler : /\ Becomes(t, h)
                               /\ h.pc = "lookup" /\ ~ h.edit /\ h.key = disk["public"]
                               /\ h.first = NoRow /\ h.old = NoRow
      BY <1>0, <1>7, <2>1, RequestDoes
    <3>2. handler'[t] = h
      BY <1>0, <3>1, BecomesDoes
    <3>3. Fit(handler[t])'
      BY <1>0, <2>1, <3>1, <3>2, Nothings DEF Fit
    <3> QED BY <1>5, <2>0, <3>1, <3>3
  <2>2. CASE ~ (disk["public"] > 0)
    BY <1>1, <1>7, <2>0, <2>2 DEF SendRegister
  <2> QED BY <2>1, <2>2
<1>8. ASSUME NEW t \in Thread, LookUp(t) PROVE HandlersFit'
  <2>0. UNCHANGED <<row, clashed>> /\ handler[t].pc = "lookup"
    BY <1>8 DEF LookUp
  <2>1. fresh \in [key : Nat, token : Nat, node : Nat]
    BY <1>0 DEF TypeOK
  <2>2. fresh'.node = fresh.node
    BY <1>8, <2>1 DEF LookUp
  <2>3. PICK h \in Handler :
          /\ Becomes(t, h)
          /\ h.pc = (IF row = NoRow THEN "insert" ELSE "merge") /\ h.edit = handler[t].edit
          /\ h.key = handler[t].key /\ h.token = Chosen(row)
          /\ h.first = row /\ h.old = handler[t].old
    BY <1>0, <1>8, LookUpDoes
  <2>4. handler'[t] = h
    BY <1>0, <2>3, BecomesDoes
  <2>5. Chosen(row) # 0 /\ row.token \in {0, Chosen(row)}
    BY <1>0 DEF Chosen
  <2>6. row.id <= fresh.node
    BY <1>0, Nothings
  <2>7. Fit(handler[t])'
    BY <1>0, <2>0, <2>2, <2>3, <2>4, <2>5, <2>6 DEF Fit
  <2> QED BY <1>5, <2>0, <2>2, <2>3, <2>7
<1>9. ASSUME NEW t \in Thread, Insert(t) PROVE HandlersFit'
  <2>0. clashed' = clashed /\ handler[t].pc = "insert"
    BY <1>9 DEF Insert
  <2>1. CASE row = NoRow
    <3>1. fresh \in [key : Nat, token : Nat, node : Nat]
      BY <1>0 DEF TypeOK
    <3>2. /\ fresh'.node = fresh.node + 1 /\ row'.id = fresh.node + 1
          /\ row'.token = handler[t].token
      BY <1>9, <2>1, <3>1 DEF Insert
    <3>3. PICK h \in Handler : /\ Becomes(t, h) /\ h.pc = "reread" /\ h.first = row'
                               /\ ~ h.edit /\ h.key = 0
      BY <1>0, <1>9, <2>1, HandlerDoes
    <3>4. handler'[t] = h
      BY <1>0, <3>3, BecomesDoes
    <3>5. ~ handler[t].edit /\ handler[t].token # 0
      BY <1>0, <2>0 DEF Fit
    <3>6. Fit(handler[t])'
      BY <1>0, <3>2, <3>3, <3>4, <3>5 DEF Fit
    <3>7. row'.token # 0 /\ row'.id \in 1..fresh'.node /\ fresh.node <= fresh'.node
      BY <1>0, <3>2, <3>5
    <3> QED BY <1>3, <2>0, <3>3, <3>6, <3>7
  <2>2. CASE row # NoRow
    BY <1>4, <1>9, <2>0, <2>2 DEF Insert
  <2> QED BY <2>1, <2>2
<1>10. ASSUME NEW t \in Thread, Merge(t) PROVE HandlersFit'
  <2>0. UNCHANGED <<row, clashed, fresh>> /\ handler[t].pc = "merge"
    BY <1>10 DEF Merge
  <2>1. CASE row # NoRow /\ row.id = handler[t].first.id
    <3>1. PICK h \in Handler : /\ Becomes(t, h) /\ h.pc = "update" /\ h.old = row
                               /\ h.edit = handler[t].edit /\ h.key = handler[t].key
                               /\ h.token = handler[t].token /\ h.first = handler[t].first
      BY <1>0, <1>10, <2>1, HandlerDoes
    <3>2. handler'[t] = h
      BY <1>0, <3>1, BecomesDoes
    <3>3. Fit(handler[t])'
      BY <1>0, <2>0, <2>1, <3>1, <3>2 DEF Fit
    <3> QED BY <1>5, <2>0, <3>1, <3>3
  <2>2. CASE ~ (row # NoRow /\ row.id = handler[t].first.id)
    BY <1>4, <1>10, <2>0, <2>2 DEF Merge
  <2> QED BY <2>1, <2>2
<1>11. ASSUME NEW t \in Thread, Update(t) PROVE HandlersFit'
  <2> DEFINE g == handler[t]
  <2>0. fresh' = fresh /\ g.pc = "update" /\ g \in Handler /\ g.old \in Row /\ Fit(g)
    BY <1>0, <1>11 DEF Update, Handler
  <2>1. /\ clashed => clashed'
        /\ \/ row' = row
           \/ clashed'
           \/ row'.token # 0
           \/ row # NoRow /\ row'.id = row.id /\ row'.token = row.token
        /\ row' = NoRow \/ row'.id \in 1..fresh'.node
        /\ ~ g.edit /\ row' # NoRow /\ row'.id = g.first.id => row'.token # 0
    <3>1. CASE row # NoRow /\ row.id = g.old.id
      <4>1. row' = Merged(g) /\ clashed' = (clashed \/ row # g.first)
        BY <1>11, <3>1 DEF Update
      <4>2. row'.id = row.id /\ (g.token # 0 => row'.token = g.token)
        BY <2>0, <3>1, <4>1 DEF Merged, Row
      <4>3. CASE g.edit
        <5>1. g.old = g.first /\ row'.token = g.old.token
          BY <2>0, <4>1, <4>3 DEF Fit, Merged, Row
        <5> QED BY <1>0, <2>0, <3>1, <4>1, <4>2, <4>3, <5>1
      <4>4. CASE ~ g.edit
        <5>1. g.token # 0
          BY <2>0, <4>4 DEF Fit
        <5> QED BY <1>0, <2>0, <3>1, <4>1, <4>2, <5>1
      <4> QED BY <4>3, <4>4
    <3>2. CASE ~ (row # NoRow /\ row.id = g.old.id)
      <4>1. UNCHANGED <<row, clashed>>
        BY <1>11, <3>2 DEF Update
      <4> QED BY <1>0, <2>0, <3>2, <4>1 DEF Fit
    <3> QED BY <3>1, <3>2
  <2>2. CASE g.edit
    <3>1. Becomes(t, Idle)
      BY <1>11, <2>2 DEF Update, End, Becomes
    <3>2. Fit(handler[t])'
      BY <1>0, <3>1, BecomesDoes, IdleFits
    <3> QED BY <1>0, <1>3, <2>0, <2>1, <3>1, <3>2
  <2>3. CASE ~ g.edit
    <3>1. PICK h \in Handler : /\ Becomes(t, h) /\ h.pc = "reread" /\ ~ h.edit /\ h.key = 0
                               /\ h.first = handler[t].first
      BY <1>0, <1>11, <2>3, HandlerDoes
    <3>2. handler'[t] = h
      BY <1>0, <3>1, BecomesDoes
    <3>3. Fit(handler[t])'
      BY <2>0, <2>1, <2>3, <3>1, <3>2 DEF Fit
    <3> QED BY <1>0, <1>3, <2>0, <2>1, <3>1, <3>3
  <2> QED BY <2>2, <2>3
<1>12. ASSUME NEW t \in Thread, Reread(t) PROVE HandlersFit'
  <2>0. UNCHANGED <<row, clashed>> /\ handler[t].pc = "reread"
    BY <1>12 DEF Reread
  <2>1. CASE row # NoRow /\ row.id = handler[t].first.id /\ row.token = 0
    <3>1. fresh \in [key : Nat, token : Nat, node : Nat]
      BY <1>0 DEF TypeOK
    <3>2. fresh'.node = fresh.node
      BY <1>12, <2>1, <3>1 DEF Reread
    <3>3. PICK h \in Handler : /\ Becomes(t, h) /\ h.pc = "merge" /\ h.old = handler[t].old
                               /\ h.edit = handler[t].edit /\ h.key = 0
                               /\ h.token = fresh.token + 1 /\ h.first = row
      BY <1>0, <1>12, <2>1, HandlerDoes
    <3>4. handler'[t] = h
      BY <1>0, <3>3, BecomesDoes
    <3>5. clashed /\ ~ handler[t].edit /\ row.id <= fresh.node
      BY <1>0, <2>0, <2>1 DEF Fit
    <3>6. Fit(handler[t])'
      BY <1>0, <2>0, <3>2, <3>3, <3>4, <3>5 DEF Fit
    <3> QED BY <1>5, <2>0, <3>2, <3>3, <3>6
  <2>2. CASE ~ (row # NoRow /\ row.id = handler[t].first.id /\ row.token = 0)
    BY <1>4, <1>12, <2>0, <2>2 DEF Reread
  <2> QED BY <2>1, <2>2
<1>13. CASE CreateNode
  <2>1. fresh \in [key : Nat, token : Nat, node : Nat]
    BY <1>0 DEF TypeOK
  <2>2. /\ fresh'.node = fresh.node + 1 /\ row'.id = fresh.node + 1
        /\ UNCHANGED <<handler, clashed>>
    BY <1>13, <2>1 DEF CreateNode, AdminStep
  <2>3. ASSUME NEW t \in Thread PROVE Fit(handler[t])'
    <3>1. row'.id # handler[t].first.id
      BY <1>0, <2>2 DEF Fit
    <3>2. fresh.node <= fresh'.node
      BY <1>0, <2>2
    <3> QED BY <1>0, <2>2, <3>1, <3>2, FitStays
  <2> QED BY <1>0, <2>2, <2>3 DEF HandlersFit
<1>14. ASSUME NEW t \in Thread, EditNode(t) PROVE HandlersFit'
  <2>0. UNCHANGED <<row, clashed, fresh>>
    BY <1>14 DEF EditNode, AdminStep
  <2>1. PICK h \in Handler : /\ Becomes(t, h)
                             /\ h.pc = "update" /\ h.edit /\ h.token = 0
                             /\ h.first = row /\ h.old = row
    BY <1>0, <1>14, RequestDoes
  <2>2. handler'[t] = h
    BY <1>0, <2>1, BecomesDoes
  <2>3. row.id <= fresh.node
    BY <1>0, Nothings
  <2>4. Fit(handler[t])'
    BY <2>0, <2>1, <2>2, <2>3 DEF Fit
  <2> QED BY <1>5, <2>0, <2>1, <2>4
<1>15. CASE DeleteNode
  <2>0. UNCHANGED <<handler, clashed, fresh>> /\ row' = NoRow
    BY <1>15 DEF DeleteNode, AdminStep
  <2>1. \A t \in Thread : Fit(handler[t])'
    BY <1>0, <2>0, FitStays
  <2> QED BY <2>0, <2>1 DEF HandlersFit
<1>16. CASE Rekey \/ ServerRestart
  BY <1>2, <1>16 DEF Rekey, ServerRestart
<1>17. CASE Crash \/ Timeout \/ UNCHANGED vars
  BY <1>1, <1>17 DEF Crash, Timeout, vars, server
<1> QED
  BY <1>6, <1>7, <1>8, <1>9, <1>10, <1>11, <1>12, <1>13, <1>14, <1>15, <1>16, <1>17
     DEF Next, AgentStep, HandlerStep

-----------------------------------------------------------------------------
(* The tokens fit *)

\* The agent that ends, or stays as it is, while its token and the row stay.
LEMMA TokensStay ==
  ASSUME RInv, row' = row, disk'["token"] = disk["token"] \/ ~ (disk'["token"] > 0),
         clashed => clashed', deleted => deleted',
         \/ agent'.pc \notin {"save", "loop"}
         \/ agent.pc \in {"save", "loop"} /\ agent'.got.token = agent.got.token
         \/ row # NoRow /\ agent'.got.token = row.token
  PROVE  TokensFit'
BY DEF RInv, TokensFit, Known

\* While the agent and its files stay, the row may gain what it lacks.
LEMMA RowGains ==
  ASSUME RInv, UNCHANGED <<disk, agent, deleted>>, clashed => clashed',
         clashed' \/ (row'.token # 0 => row'.key # 0),
         row # NoRow /\ row.token # 0 => clashed' \/ (row' # NoRow /\ row'.token = row.token)
  PROVE  TokensFit'
<1>1. agent.pc \in {"save", "loop"} => agent.got.token > 0
  BY DEF RInv, FilesInOrder
<1>2. TokensFit
  BY DEF RInv
<1> QED BY <1>1, <1>2 DEF TokensFit, Known

\* Every step keeps the tokens fit, or is one of the excuses.
LEMMA TokensStep ==
  ASSUME RInv, [Next]_vars
  PROVE  TokensFit'
<1>0. /\ TypeOK /\ FilesInOrder /\ TokensFit
      /\ disk \in [File -> Nat \cup {Torn}] /\ agent \in Agent
      /\ row \in Row /\ row.id \in Nat /\ row.key \in Key /\ row.token \in Nat
      /\ row = NoRow \/ row.id \in 1..fresh.node
      /\ fresh.node \in Nat
      /\ \A t \in Thread : handler[t] \in Handler /\ Fit(handler[t])
      /\ Missing = 0 /\ Torn = -1
  BY FitNumbers, Numbers DEF RInv, TypeOK
<1>1. ASSUME disk' = disk, UNCHANGED <<row, clashed, deleted>>, agent' = agent \/ agent' = Down
      PROVE  TokensFit'
  <2>1. Down.pc \notin {"save", "loop"}
    BY Nothings
  <2> QED BY <1>1, <2>1, TokensStay
<1>2. ASSUME Start \/ MakeKeys \/ WritePublic PROVE TokensFit'
  <2>1. UNCHANGED <<row, clashed, deleted>>
    BY <1>2 DEF Start, MakeKeys, WritePublic, AgentOnly, server
  <2>2. disk'["token"] = disk["token"]
    BY <1>0, <1>2 DEF Start, MakeKeys, WritePublic, File
  <2>3. agent'.pc \notin {"save", "loop"}
    BY <1>0, <1>2 DEF Start, MakeKeys, WritePublic, Agent, Down
  <2> QED BY <2>1, <2>2, <2>3, TokensStay
<1>3. CASE ReadState
  <2>0. UNCHANGED <<disk, row, clashed, deleted>> /\ agent.pc = "state"
    BY <1>3 DEF ReadState, AgentOnly, server
  <2>1. CASE disk["node"] # Torn /\ Registered
    <3>1. agent' = [agent EXCEPT !.pc = "loop", !.got.token = disk["token"], !.got.node = disk["node"]]
      BY <1>3, <2>1 DEF ReadState
    <3>2. agent'.pc = "loop" /\ agent'.got.token = disk["token"] /\ disk["token"] > 0
      BY <1>0, <2>1, <3>1 DEF Agent, Answer, Registered
    <3> QED BY <1>0, <2>0, <3>2 DEF TokensFit, Known
  <2>2. CASE ~ (disk["node"] # Torn /\ Registered)
    <3>1. agent'.pc \notin {"save", "loop"}
      BY <1>0, <1>3, <2>2 DEF ReadState, Agent, Down
    <3> QED BY <2>0, <3>1, TokensStay
  <2> QED BY <2>1, <2>2
<1>4. ASSUME NEW t \in Thread, SendRegister(t) PROVE TokensFit'
  <2>1. UNCHANGED <<disk, row, clashed, deleted>>
    BY <1>4 DEF SendRegister
  <2>2. agent' = Down \/ agent' = [agent EXCEPT !.pc = "wait", !.slot = t]
    BY <1>4 DEF SendRegister
  <2>3. agent'.pc \notin {"save", "loop"}
    BY <1>0, <2>2, Nothings DEF Agent
  <2> QED BY <2>1, <2>3, TokensStay
<1>5. CASE SaveAnswer
  <2>0. UNCHANGED <<row, clashed, deleted>> /\ agent.pc = "save"
    BY <1>5 DEF SaveAnswer, AgentOnly, server
  <2>1. CASE agent.written = 0 /\ disk' = [disk EXCEPT !["server"] = agent.got.server]
             /\ agent' = [agent EXCEPT !.written = 1]
    <3>1. disk'["token"] = disk["token"] /\ agent'.got.token = agent.got.token
      BY <1>0, <2>1 DEF Agent, File
    <3> QED BY <2>0, <3>1, TokensStay
  <2>2. CASE agent.written = 1 /\ disk' = [disk EXCEPT !["token"] = agent.got.token]
             /\ agent' = [agent EXCEPT !.written = 2]
    <3>1. disk'["token"] = agent.got.token /\ agent'.got.token = agent.got.token
      BY <1>0, <2>2 DEF Agent, File
    <3> QED BY <1>0, <2>0, <3>1 DEF TokensFit, Known
  <2>3. CASE agent.written = 2 /\ disk' = [disk EXCEPT !["node"] = agent.got.node]
             /\ agent' = [agent EXCEPT !.pc = "loop", !.written = 0]
    <3>1. disk'["token"] = disk["token"] /\ agent'.got.token = agent.got.token
      BY <1>0, <2>3 DEF Agent, File
    <3> QED BY <2>0, <3>1, TokensStay
  <2> QED BY <1>0, <1>5, SaveStep, <2>1, <2>2, <2>3
<1>6. ASSUME NEW t \in Thread, LookUp(t) PROVE TokensFit'
  BY <1>1, <1>6 DEF LookUp, ServerOnly
<1>7. ASSUME NEW t \in Thread, Insert(t) PROVE TokensFit'
  <2>0. UNCHANGED <<disk, clashed, deleted>> /\ handler[t].pc = "insert"
    BY <1>7 DEF Insert, ServerOnly
  <2>1. CASE row = NoRow
    <3>1. row'.key = handler[t].key /\ agent' = agent
      BY <1>7, <2>1 DEF Insert
    <3>2. handler[t].key # 0
      BY <1>0, <2>0 DEF Fit
    <3> QED BY <2>0, <2>1, <3>1, <3>2, RowGains
  <2>2. CASE row # NoRow
    <3>1. Reply(t, NoAnswer) /\ row' = row
      BY <1>7, <2>2 DEF Insert
    <3> QED BY <1>1, <2>0, <3>1, ReplyStep
  <2> QED BY <2>1, <2>2
<1>8. ASSUME NEW t \in Thread, Merge(t) PROVE TokensFit'
  <2>0. UNCHANGED <<disk, row, clashed, deleted>>
    BY <1>8 DEF Merge, ServerOnly
  <2>1. agent' = agent \/ Reply(t, NoAnswer)
    BY <1>8 DEF Merge
  <2> QED BY <1>1, <2>0, <2>1, ReplyStep
<1>9. ASSUME NEW t \in Thread, Update(t) PROVE TokensFit'
  <2> DEFINE g == handler[t]
  <2>0. UNCHANGED <<disk, agent, deleted>> /\ g.pc = "update" /\ g \in Handler /\ g.old \in Row /\ Fit(g)
    BY <1>0, <1>9 DEF Update, ServerOnly, Handler
  <2>1. CASE row # NoRow /\ row.id = g.old.id
    <3>1. row' = Merged(g) /\ clashed' = (clashed \/ row # g.first)
      BY <1>9, <2>1 DEF Update
    <3>2. CASE clashed'
      BY <2>0, <3>2, RowGains
    <3>3. CASE ~ clashed'
      <4>1. row = g.first /\ ~ clashed
        BY <3>1, <3>3
      <4>2. CASE g.edit
        <5>1. row'.token = row.token /\ row'.id = row.id /\ (row.key # 0 => row'.key # 0)
          BY <2>0, <3>1, <4>1, <4>2 DEF Fit, Merged, Row
        <5>2. row' # NoRow
          BY <1>0, <2>1, <5>1, Nothings
        <5> QED BY <1>0, <2>0, <4>1, <5>1, <5>2, RowGains DEF TokensFit
      <4>3. CASE ~ g.edit
        <5>1. g.token # 0 /\ g.key # 0 /\ g.first.token \in {0, g.token}
          BY <2>0, <4>1, <4>3 DEF Fit
        <5>2. row'.token = g.token /\ row'.key = g.key /\ row'.id = row.id
          BY <2>0, <2>1, <3>1, <5>1 DEF Merged, Row
        <5>3. row' # NoRow
          BY <5>1, <5>2, Nothings
        <5> QED BY <2>0, <4>1, <5>1, <5>2, <5>3, RowGains
      <4> QED BY <4>2, <4>3
    <3> QED BY <3>2, <3>3
  <2>2. CASE ~ (row # NoRow /\ row.id = g.old.id)
    BY <1>1, <1>9, <2>0, <2>2 DEF Update
  <2> QED BY <2>1, <2>2
<1>10. ASSUME NEW t \in Thread, Reread(t) PROVE TokensFit'
  <2>0. UNCHANGED <<disk, row, clashed, deleted>>
    BY <1>10 DEF Reread, ServerOnly
  <2>1. CASE row # NoRow /\ row.id = handler[t].first.id /\ row.token # 0
    <3>1. Reply(t, [token |-> row.token, node |-> row.id, server |-> serverKey])
      BY <1>10, <2>1 DEF Reread
    <3>2. CASE agent' = agent \/ agent' = Down
      BY <1>1, <2>0, <3>2
    <3>3. CASE agent' = [agent EXCEPT !.pc = "save", !.slot = "none",
                             !.got = [token |-> row.token, node |-> row.id, server |-> serverKey]]
      <4>1. agent'.got.token = row.token
        BY <1>0, <3>3 DEF Agent
      <4> QED BY <2>0, <2>1, <4>1, TokensStay
    <3> QED BY <3>1, <3>2, <3>3, ReplyStep
  <2>2. CASE row # NoRow /\ row.id = handler[t].first.id /\ row.token = 0
    <3>1. agent' = agent
      BY <1>10, <2>2 DEF Reread
    <3> QED BY <1>1, <2>0, <3>1
  <2>3. CASE ~ (row # NoRow /\ row.id = handler[t].first.id)
    <3>1. Reply(t, NoAnswer)
      BY <1>10, <2>3 DEF Reread
    <3> QED BY <1>1, <2>0, <3>1, ReplyStep
  <2> QED BY <2>1, <2>2, <2>3
<1>11. CASE CreateNode
  <2>1. UNCHANGED <<disk, agent, clashed, deleted>> /\ row = NoRow /\ row'.token = 0
    BY <1>11 DEF CreateNode, AdminStep
  <2> QED BY <2>1, RowGains
<1>12. ASSUME NEW t \in Thread, EditNode(t) PROVE TokensFit'
  BY <1>1, <1>12 DEF EditNode, AdminStep
<1>13. CASE DeleteNode
  <2>1. deleted' /\ row' = NoRow
    BY <1>13 DEF DeleteNode
  <2> QED BY <2>1, Nothings DEF TokensFit
<1>14. CASE Rekey
  <2>1. UNCHANGED <<row, clashed, deleted>> /\ agent' = Down
    BY <1>14 DEF Rekey
  <2>2. disk'["token"] = disk["token"]
    BY <1>0, <1>14 DEF Rekey, File
  <2> QED BY <2>1, <2>2, Nothings, TokensStay
<1>15. CASE Crash
  <2>1. UNCHANGED <<row, clashed, deleted>> /\ agent' = Down
    BY <1>15 DEF Crash, server
  <2>2. ASSUME NEW f \in File, disk' = [disk EXCEPT ![f] = Torn]
        PROVE  disk'["token"] = disk["token"] \/ ~ (disk'["token"] > 0)
    BY <1>0, <2>2 DEF File
  <2> QED BY <1>0, <1>15, <2>1, <2>2, CrashStep, Nothings, TokensStay
<1>16. CASE Timeout \/ ServerRestart
  BY <1>1, <1>16 DEF Timeout, ServerRestart, server
<1>17. CASE UNCHANGED vars
  BY <1>1, <1>17 DEF vars, server
<1> QED
  BY <1>2, <1>3, <1>4, <1>5, <1>6, <1>7, <1>8, <1>9, <1>10, <1>11, <1>12, <1>13, <1>14, <1>15,
     <1>16, <1>17 DEF Next, AgentStep, HandlerStep

-----------------------------------------------------------------------------
(* The theorems *)

\* The invariant holds at the start.
LEMMA InvInit ==
  ASSUME Init
  PROVE  RInv
<1>1. TypeOK
  BY TypeInit, RegistrationAssumption
<1>2. agent.pc = "down" /\ agent.slot = "none" /\ agent.written = 0
  BY DEF Init, Down
<1>3. \A f \in File : disk[f] = 0
  BY DEF Init, Missing
<1>4. FilesInOrder
  BY <1>2, <1>3 DEF FilesInOrder, File
<1>5. \A t \in Thread : handler[t] = Idle
  BY DEF Init
<1>6. KeysMatch
  BY <1>2, <1>3, <1>5, Nothings DEF Init, KeysMatch, Published, Registered, File, Missing
<1>7. HandlersFit
  BY <1>5, Nothings DEF Init, HandlersFit, Fit
<1>8. TokensFit
  BY <1>2, <1>3, Nothings DEF Init, TokensFit, File
<1> QED BY <1>1, <1>4, <1>6, <1>7, <1>8 DEF RInv

\* Every step keeps the invariant.
LEMMA InvStep ==
  ASSUME RInv, [Next]_vars
  PROVE  RInv'
BY TypeStep, OrderStep, KeysStep, FitStep, TokensStep, RegistrationAssumption DEF RInv

\* The invariant always holds.
LEMMA Invariance == Spec => []RInv
<1>1. Init => RInv
  BY InvInit
<1>2. RInv /\ [Next]_vars => RInv'
  BY InvStep
<1> QED BY <1>1, <1>2, PTL DEF Spec

\* The files, the agent, the row and the handlers hold what their columns and
\* fields may hold.
THEOREM RegistrationTyped == Spec => []TypeOK
<1>1. RInv => TypeOK
  BY DEF RInv
<1> QED BY <1>1, Invariance, PTL

\* upsert_agent_node and update: an agent in its loop keeps a token the server
\* knows, unless the node was deleted or a handler wrote over what it had not
\* read.
THEOREM LoopStaysKnown == Spec => []LockedOutByClash
<1>1. RInv => LockedOutByClash
  BY DEF RInv, TokensFit, LockedOutByClash
<1> QED BY <1>1, Invariance, PTL

\* ensure_agent_keypair and _write_state: until the keys are renewed, an agent in
\* its loop has one key pair, the server's public key, and its own in its row
\* unless handlers wrote over each other or an administrator gave another.
THEOREM KeysOfLoopFit == Spec => []KeysFit
<1>1. ASSUME RInv PROVE KeysFit
  <2> SUFFICES ASSUME agent.pc = "loop", rekeys = 0
               PROVE  /\ disk["server"] = serverKey
                      /\ disk["private"] = disk["public"]
                      /\ Known => row.key = disk["private"] \/ clashed \/ typed
    BY DEF KeysFit
  <2>1. Registered /\ agent.got.token > 0
    BY <1>1 DEF RInv, FilesInOrder
  <2>2. disk["server"] = serverKey /\ disk["public"] > 0
    BY <1>1, <2>1 DEF RInv, KeysMatch
  <2>3. disk["private"] = disk["public"]
    <3>1. Missing = 0 /\ Torn = -1
      BY <1>1, Numbers DEF RInv
    <3>2. disk["public"] = fresh.key /\ disk["private"] = fresh.key
      BY <1>1, <2>2, <3>1 DEF RInv, KeysMatch
    <3> QED BY <3>2
  <2>4. ASSUME Known, ~ clashed, ~ typed PROVE row.key = disk["private"]
    <3>1. row.key # 0
      BY <1>1, <2>1, <2>4 DEF RInv, TokensFit, Known
    <3>2. row.key \in {0, Published}
      BY <1>1, <2>4, Copies
    <3> QED BY <2>2, <2>3, <3>1, <3>2 DEF Published
  <2> QED BY <2>2, <2>3, <2>4
<1> QED BY <1>1, Invariance, PTL

\* _register_if_needed and upsert_agent_node: an agent that registers again gets
\* the node and the token that it already has on its disk.
THEOREM RegistersAsBefore == Spec => []SameNodeAgain
<1>1. ASSUME RInv PROVE SameNodeAgain
  <2> SUFFICES ASSUME agent.pc \in {"save", "loop"}, ~ deleted
               PROVE  /\ disk["node"] > 0 => agent.got.node = disk["node"]
                      /\ disk["token"] > 0 => agent.got.token = disk["token"] \/ clashed
    BY DEF SameNodeAgain
  <2>1. disk["node"] > 0 => agent.got.node = disk["node"]
    <3>1. CASE agent.pc = "save"
      BY <1>1, <3>1 DEF RInv, FilesInOrder, Missing
    <3>2. CASE agent.pc = "loop"
      BY <1>1, <3>2 DEF RInv, FilesInOrder
    <3> QED BY <3>1, <3>2
  <2>2. disk["token"] > 0 => agent.got.token = disk["token"] \/ clashed
    BY <1>1 DEF RInv, TokensFit, Known
  <2> QED BY <2>1, <2>2
<1> QED BY <1>1, Invariance, PTL
=============================================================================
