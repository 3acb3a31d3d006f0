----------------------------- MODULE Registration -----------------------------
(***************************************************************************)
(* How a storage agent becomes a node: at every start the agent makes its   *)
(* keys unless it has them, reads its two state files, and registers under  *)
(* its name unless both hold something; systemd starts it again whenever it *)
(* ends.  The server looks the name up and updates or inserts the row of    *)
(* the nodes table, in transactions of their own; administrators create,    *)
(* edit and delete the same row meanwhile, and may give it a public key.    *)
(*                                                                         *)
(* Keys, tokens and node ids are numbers in the order they are made.  A     *)
(* text shorter than a buffer is written when its file is closed, so a      *)
(* crash leaves the old file, the new one, or an empty one (Torn).  One     *)
(* agent and the row of its name are modelled.                              *)
(***************************************************************************)
EXTENDS Integers

CONSTANTS
  Thread,    \* the threads that run the handlers of requests
  MaxFault,  \* crashes, timeouts and restarts of the server
  MaxAdmin,  \* creations, edits and deletions by administrators
  MaxRekey   \* how often the keys are renewed

ASSUME RegistrationAssumption ==
  "none" \notin Thread /\ MaxFault \in Nat /\ MaxAdmin \in Nat /\ MaxRekey \in Nat

Missing == 0   \* a file that does not exist, a column that is NULL
Torn == -1     \* an empty file
Foreign == -1  \* a key that is none of the agent's, or an empty text
File == {"private", "public", "server", "token", "node"}

VARIABLES
  disk,      \* the agent's files: two keys of its own, the server's, its state
  agent,     \* the agent's process
  row,       \* the row of the agent's name, or NoRow
  serverKey, \* the server's key pair
  handler,   \* the handlers on the server
  fresh,     \* the numbers of the last key, token and node
  faults, edits, rekeys  \* how many of them there were

\* Observations that the program does not keep.
VARIABLES
  clashed,   \* a handler has overwritten what another wrote after its first read
  deleted,   \* an administrator has deleted the row
  typed      \* the key in the row is one that an administrator gave

server == <<row, serverKey, handler>>
counts == <<faults, edits, rekeys>>
vars == <<disk, agent, server, fresh, counts, clashed, deleted, typed>>

NoRow == [id |-> 0, key |-> 0, token |-> 0]
Key == Nat \cup {Foreign}
Row == [id : Nat, key : Key, token : Nat]

\* written counts the files of an answer that have been written.
AgentPc == {"down", "keys", "public", "state", "register", "wait", "save", "loop"}
Answer == [token : Nat, node : Nat, server : Nat]
Agent == [pc : AgentPc, slot : Thread \cup {"none"}, written : 0..2, got : Answer]
NoAnswer == [token |-> 0, node |-> 0, server |-> 0]
Down == [pc |-> "down", slot |-> "none", written |-> 0, got |-> NoAnswer]

\* first is the row of the first read, old the one UPDATE merges into.
HandlerPc == {"idle", "lookup", "insert", "merge", "update", "reread"}
Handler == [pc : HandlerPc, edit : BOOLEAN, key : Key, token : Nat, first : Row, old : Row]
Idle == [pc |-> "idle", edit |-> FALSE, key |-> 0, token |-> 0, first |-> NoRow, old |-> NoRow]

Init ==
  /\ disk = [f \in File |-> Missing]
  /\ agent = Down
  /\ row = NoRow /\ serverKey = 1
  /\ handler = [t \in Thread |-> Idle]
  /\ fresh = [key |-> 0, token |-> 0, node |-> 0]
  /\ faults = 0 /\ edits = 0 /\ rekeys = 0
  /\ clashed = FALSE /\ deleted = FALSE /\ typed = FALSE

-----------------------------------------------------------------------------
(* Plausible bugs; the runs tell each of them from the code. *)

HaveKeys_Private == disk["private"] # Missing
Saved_StateFirst == <<"token", "node", "server">>
Chosen_Fresh(known) == fresh.token + 1
Registered_Exists == disk["token"] # Missing

(* The code. *)

\* ensure_agent_keypair looks whether the files are there, not what they hold.
HaveKeys == disk["private"] # Missing /\ disk["public"] # Missing

\* _register_if_needed: an empty token file counts as none.
Registered == disk["token"] > 0 /\ disk["node"] > 0

\* The files an answer is saved to, in this order.
Saved == <<"server", "token", "node">>

\* upsert_agent_node keeps the token of the row it has found.
Chosen(known) == IF known.token # 0 THEN known.token ELSE fresh.token + 1

\* NodeRepository.update: the old row under the columns that are given.
Merged(h) ==
  [h.old EXCEPT !.key = IF h.key # 0 THEN h.key ELSE @,
                !.token = IF h.token # 0 THEN h.token ELSE @]

-----------------------------------------------------------------------------
(* The agent starts *)

AgentOnly == UNCHANGED <<server, counts, clashed, deleted, typed>>

Start ==
  /\ agent.pc = "down"
  /\ agent' = [Down EXCEPT !.pc = "keys"]
  /\ AgentOnly /\ UNCHANGED <<disk, fresh>>

MakeKeys ==
  /\ agent.pc = "keys"
  /\ IF HaveKeys
     THEN agent' = [agent EXCEPT !.pc = "state"] /\ UNCHANGED <<disk, fresh>>
     ELSE /\ fresh' = [fresh EXCEPT !.key = @ + 1]
          /\ disk' = [disk EXCEPT !["private"] = fresh.key + 1]
          /\ agent' = [agent EXCEPT !.pc = "public"]
  /\ AgentOnly

WritePublic ==
  /\ agent.pc = "public"
  /\ disk' = [disk EXCEPT !["public"] = fresh.key]
  /\ agent' = [agent EXCEPT !.pc = "state"]
  /\ AgentOnly /\ UNCHANGED fresh

\* An empty node id is no number: the process ends with a ValueError.
ReadState ==
  /\ agent.pc = "state"
  /\ agent' = IF disk["node"] = Torn THEN Down
              ELSE IF Registered
              THEN [agent EXCEPT !.pc = "loop", !.got.token = disk["token"],
                                 !.got.node = disk["node"]]
              ELSE [agent EXCEPT !.pc = "register"]
  /\ AgentOnly /\ UNCHANGED <<disk, fresh>>

\* The server refuses an empty public key, and without the file there is no
\* request: either way the process ends.
SendRegister(t) ==
  /\ agent.pc = "register" /\ handler[t].pc = "idle"
  /\ IF disk["public"] > 0
     THEN /\ handler' = [handler EXCEPT ![t] =
                          [Idle EXCEPT !.pc = "lookup", !.key = disk["public"]]]
          /\ agent' = [agent EXCEPT !.pc = "wait", !.slot = t]
     ELSE agent' = Down /\ UNCHANGED handler
  /\ UNCHANGED <<disk, row, serverKey, fresh, counts, clashed, deleted, typed>>

\* _write_state, after the server's key.
SaveAnswer ==
  /\ agent.pc = "save"
  /\ disk' = [disk EXCEPT ![Saved[agent.written + 1]] = agent.got[Saved[agent.written + 1]]]
  /\ agent' = IF agent.written = 2 THEN [agent EXCEPT !.pc = "loop", !.written = 0]
              ELSE [agent EXCEPT !.written = @ + 1]
  /\ AgentOnly /\ UNCHANGED fresh

-----------------------------------------------------------------------------
(* The server *)

\* The agent that still waits for handler t gets an answer, or an error that
\* ends its process.
Reply(t, answer) ==
  agent' = IF agent.slot # t THEN agent
           ELSE IF answer = NoAnswer THEN Down
           ELSE [agent EXCEPT !.pc = "save", !.slot = "none", !.got = answer]
\* What the handler has written it needs no more.
Rereading(first) == [Idle EXCEPT !.pc = "reread", !.first = first]
End(t) == handler' = [handler EXCEPT ![t] = Idle]
ServerOnly == UNCHANGED <<disk, serverKey, counts, deleted>>

\* get_by_name of upsert_agent_node, and the token it will write.
LookUp(t) ==
  /\ handler[t].pc = "lookup"
  /\ handler' = [handler EXCEPT ![t].pc = IF row = NoRow THEN "insert" ELSE "merge",
                                ![t].first = row, ![t].token = Chosen(row)]
  /\ fresh' = [fresh EXCEPT !.token = IF Chosen(row) > @ THEN Chosen(row) ELSE @]
  /\ ServerOnly /\ UNCHANGED <<agent, row, clashed, typed>>

\* NodeRepository.create; a second row of the name is refused.
Insert(t) ==
  /\ handler[t].pc = "insert"
  /\ IF row = NoRow
     THEN /\ row' = [id |-> fresh.node + 1, key |-> handler[t].key, token |-> handler[t].token]
          /\ fresh' = [fresh EXCEPT !.node = @ + 1]
          /\ handler' = [handler EXCEPT ![t] = Rereading(row')]
          /\ typed' = FALSE
          /\ UNCHANGED agent
     ELSE End(t) /\ Reply(t, NoAnswer) /\ UNCHANGED <<row, fresh, typed>>
  /\ ServerOnly /\ UNCHANGED clashed

\* The get_by_id of NodeRepository.update; without its row the request fails.
Merge(t) ==
  /\ handler[t].pc = "merge"
  /\ IF row # NoRow /\ row.id = handler[t].first.id
     THEN handler' = [handler EXCEPT ![t].pc = "update", ![t].old = row] /\ UNCHANGED agent
     ELSE End(t) /\ Reply(t, NoAnswer)
  /\ ServerOnly /\ UNCHANGED <<row, fresh, clashed, typed>>

\* Its UPDATE, which changes nothing if the row has gone.
Update(t) ==
  LET h == handler[t] IN
  /\ h.pc = "update"
  /\ IF row # NoRow /\ row.id = h.old.id
     THEN /\ row' = Merged(h)
          /\ clashed' = (clashed \/ row # h.first)
          /\ typed' = IF h.key # 0 THEN h.edit ELSE typed
     ELSE UNCHANGED <<row, clashed, typed>>
  /\ IF h.edit THEN End(t) ELSE handler' = [handler EXCEPT ![t] = Rereading(h.first)]
  /\ ServerOnly /\ UNCHANGED <<agent, fresh>>

\* The row is read again for the answer; without a token it gets another one.
Reread(t) ==
  LET there == row # NoRow /\ row.id = handler[t].first.id IN
  /\ handler[t].pc = "reread"
  /\ IF there /\ row.token = 0
     THEN /\ fresh' = [fresh EXCEPT !.token = @ + 1]
          /\ handler' = [handler EXCEPT ![t].pc = "merge", ![t].first = row, ![t].key = 0,
                                        ![t].token = fresh.token + 1]
          /\ UNCHANGED agent
     ELSE /\ End(t)
          /\ Reply(t, IF there THEN [token |-> row.token, node |-> row.id, server |-> serverKey]
                      ELSE NoAnswer)
          /\ UNCHANGED fresh
  /\ ServerOnly /\ UNCHANGED <<row, clashed, typed>>

-----------------------------------------------------------------------------
(* Administrators *)

AdminStep ==
  /\ edits < MaxAdmin
  /\ edits' = edits + 1
  /\ UNCHANGED <<disk, agent, serverKey, faults, rekeys, clashed>>

\* The agent_public_key of a request: none, one the agent has made, or another.
Given == {0, Foreign} \cup 1..fresh.key

\* POST /nodes: a node of connection_type agent, without a token.
CreateNode ==
  /\ row = NoRow
  /\ \E k \in Given : /\ row' = [id |-> fresh.node + 1, key |-> k, token |-> 0]
                      /\ typed' = (k # 0)
  /\ fresh' = [fresh EXCEPT !.node = @ + 1]
  /\ AdminStep /\ UNCHANGED <<handler, deleted>>

\* PUT /nodes/{id}: what is given, a key perhaps, merged into the whole row.
EditNode(t) ==
  /\ row # NoRow /\ handler[t].pc = "idle"
  /\ \E k \in Given :
       handler' = [handler EXCEPT ![t] =
         [Idle EXCEPT !.pc = "update", !.edit = TRUE, !.key = k, !.first = row, !.old = row]]
  /\ AdminStep /\ UNCHANGED <<row, fresh, deleted, typed>>

\* DELETE /nodes/{id}.
DeleteNode ==
  /\ row # NoRow
  /\ row' = NoRow /\ deleted' = TRUE /\ typed' = FALSE
  /\ AdminStep /\ UNCHANGED <<handler, fresh>>

\* README.md: delete the key files of the agent and of the server, and restart
\* both.
Rekey ==
  /\ agent.pc = "loop" /\ rekeys < MaxRekey
  /\ rekeys' = rekeys + 1
  /\ disk' = [disk EXCEPT !["private"] = Missing, !["public"] = Missing, !["server"] = Missing]
  /\ serverKey' = serverKey + 1
  /\ agent' = Down
  /\ handler' = [t \in Thread |-> Idle]
  /\ UNCHANGED <<row, fresh, faults, edits, clashed, deleted, typed>>

-----------------------------------------------------------------------------
(* Faults *)

Spend == faults < MaxFault /\ faults' = faults + 1 /\ UNCHANGED <<edits, rekeys>>

\* The file the agent writes next.
Writing == CASE agent.pc = "keys" -> IF HaveKeys THEN {} ELSE {"private"}
             [] agent.pc = "public" -> {"public"}
             [] agent.pc = "save" -> {Saved[agent.written + 1]}
             [] OTHER -> {}

\* The agent's process dies, perhaps with a file open.
Crash ==
  /\ agent.pc # "down" /\ Spend
  /\ \E torn \in {{}, Writing} : disk' = [f \in File |-> IF f \in torn THEN Torn ELSE disk[f]]
  /\ agent' = Down
  /\ UNCHANGED <<server, fresh, clashed, deleted, typed>>

\* After 10 s without an answer the process ends; the handler goes on.
Timeout ==
  /\ agent.pc = "wait" /\ Spend
  /\ agent' = Down
  /\ UNCHANGED <<disk, server, fresh, clashed, deleted, typed>>

\* The handlers are lost with the server's process.
ServerRestart ==
  /\ Spend
  /\ handler' = [t \in Thread |-> Idle]
  /\ agent' = IF agent.pc = "wait" THEN Down ELSE agent
  /\ UNCHANGED <<disk, row, serverKey, fresh, clashed, deleted, typed>>

-----------------------------------------------------------------------------
AgentStep == \/ Start \/ MakeKeys \/ WritePublic \/ ReadState \/ SaveAnswer
             \/ \E t \in Thread : SendRegister(t)
HandlerStep(t) == LookUp(t) \/ Insert(t) \/ Merge(t) \/ Update(t) \/ Reread(t)

Next == \/ AgentStep \/ \E t \in Thread : HandlerStep(t) \/ EditNode(t)
        \/ CreateNode \/ DeleteNode \/ Rekey
        \/ Crash \/ Timeout \/ ServerRestart

Spec == Init /\ [][Next]_vars

\* systemd starts the agent again, and the pool runs the handlers it has.
FairSpec == Spec /\ WF_vars(AgentStep) /\ \A t \in Thread : WF_vars(HandlerStep(t))

-----------------------------------------------------------------------------
(* Properties *)

TypeOK ==
  /\ disk \in [File -> Nat \cup {Torn}]
  /\ agent \in Agent
  /\ row \in Row /\ serverKey \in Nat
  /\ handler \in [Thread -> Handler]
  /\ fresh \in [key : Nat, token : Nat, node : Nat]
  /\ faults \in 0..MaxFault /\ edits \in 0..MaxAdmin /\ rekeys \in 0..MaxRekey
  /\ clashed \in BOOLEAN /\ deleted \in BOOLEAN /\ typed \in BOOLEAN

Known == row # NoRow /\ row.token = agent.got.token

\* An agent in its loop never registers again, so the token it was given must
\* stay the one of its row: whatever crashes, late handlers and restarts there
\* were, the server forgets it only if somebody deleted the node or a handler
\* wrote over a row that had changed since it read it.
LockedOutByClash == agent.pc = "loop" => Known \/ deleted \/ clashed

\* Whatever files a crash left, an agent in its loop can encrypt what the server
\* reads, and read the jobs the server encrypts for it: with the key it
\* registered, unless handlers wrote over each other, or with whatever key an
\* administrator has given its row since.
KeysFit ==
  agent.pc = "loop" /\ rekeys = 0 =>
    /\ disk["server"] = serverKey
    /\ disk["private"] = disk["public"]
    /\ Known => row.key = disk["private"] \/ clashed \/ typed

\* An agent that lost one of its state files gets the same token and the same
\* node again: its volumes and files are rows of that node.
SameNodeAgain ==
  agent.pc \in {"save", "loop"} /\ ~ deleted =>
    /\ disk["node"] > 0 => agent.got.node = disk["node"]
    /\ disk["token"] > 0 => agent.got.token = disk["token"] \/ clashed

\* Through crashes, timeouts and restarts the agent gets to its loop in the end,
\* unless a crash has emptied its public key or its node id.
AgentJoins ==
  []<>(agent.pc = "loop" \/ disk["public"] = Torn \/ disk["node"] = Torn)

\* README.md says to renew the keys by deleting their files and restarting
\* both sides: an agent in its loop can then read its jobs and report.
RekeyedAgentWorks ==
  agent.pc = "loop" /\ rekeys > 0 /\ ~ deleted /\ ~ clashed /\ ~ typed =>
    row.key = disk["private"] /\ disk["server"] = serverKey
=============================================================================
