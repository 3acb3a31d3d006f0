--------------------------- MODULE AccessControl ---------------------------
(***************************************************************************)
(* Who may do what: the tree of groups, its members, the rules that grant   *)
(* or deny a permission to a group, and the administrators' requests that   *)
(* change them while other requests are being checked.                      *)
(*                                                                         *)
(* A handler is a sequence of repository calls, each of them a transaction  *)
(* of its own: has_permission reads the user's groups, then the table of    *)
(* groups once for each of them, then the rules; can_manage_group reads the *)
(* groups again; only then does the handler write.  The tables may change   *)
(* between any two of these steps.  A restart drops the requests and runs   *)
(* the seed, which binds its members and grants its rules every time.       *)
(*                                                                         *)
(* Groups and rules are known by their AUTOINCREMENT ids, 0 is SQL NULL     *)
(* where a group is expected and Everywhere where a resource is.  Users do  *)
(* not come and go here, and nobody deletes the seed's groups and resources. *)
(***************************************************************************)
EXTENDS Integers, Sequences, TLC

CONSTANTS
  User, Super,         \* the users; those whose admin_level is super_admin
  Scope,               \* admin_scope_group_id of every user, 0 if none
  Resource, Everywhere,\* the resources; resource_id NULL
  Thread,              \* the threads that run handlers
  SeedGroups,          \* the groups of the seed are 1..SeedGroups
  SeedMember,          \* the pairs <<user, group>> the seed binds
  SeedRule,            \* the targets the seed grants, in its order
  SeedResource,        \* the resources of the seed
  Asked,               \* the requests that may arrive
  MaxGroup, MaxRule, MaxRequest, MaxRestart   \* bounds

Group == 1..MaxGroup
GroupOrNull == 0..MaxGroup
Code == {"view", "write", "admin_panel", "manage_groups", "manage_users", "manage_permissions"}
Target == [group : Group, res : Resource \cup {Everywhere}, code : Code]

\* A request: the operation, who asks, and the arguments it uses.
Op == {"ask", "folder", "create", "drop", "bind", "unbind", "grant", "revoke",
       "resource", "erase"}
Request == [op : Op, actor : User, group : GroupOrNull, user : User,
            res : Resource \cup {Everywhere}, code : Code, allow : BOOLEAN,
            rule : 0..MaxRule]

ASSUME AccessAssumption ==
  /\ User # {} /\ Super \subseteq User
  /\ MaxGroup \in Nat /\ MaxRule \in Nat /\ MaxRequest \in Nat /\ MaxRestart \in Nat
  /\ SeedGroups \in GroupOrNull
  /\ Scope \in [User -> GroupOrNull]
  /\ Everywhere \notin Resource
  /\ SeedResource \subseteq Resource
  /\ SeedMember \subseteq User \X (1..SeedGroups)
  /\ SeedRule \in Seq([group : 1..SeedGroups, res : SeedResource \cup {Everywhere}, code : Code])
  /\ Asked \subseteq Request
  /\ \A q \in Asked : /\ q.op = "drop" => q.group > SeedGroups
                      /\ q.op = "resource" => q.res # Everywhere
                      /\ q.op = "erase" => q.res \in Resource \ SeedResource

VARIABLES
  parent,     \* groups_acl: id -> parent_id, or NoGroup without a row
  nextGroup,  \* its AUTOINCREMENT counter
  members,    \* user_groups
  rules,      \* group_permissions in id order; a deleted row has group 0
  resources,  \* the ids of resources
  erased,     \* the resources that were deleted
  folders,    \* the resources that have the one folder path we model
  handler,    \* the handler each thread runs
  seeding,    \* the next rule of the seed; beyond the last one, the server serves
  served, restarts,  \* how many requests and restarts there were
  seen        \* observations for the properties; the program keeps none

tables == <<parent, nextGroup, members, rules, resources, erased, folders>>
vars == <<tables, handler, seeding, served, restarts, seen>>

-----------------------------------------------------------------------------
(* The tables *)

NoGroup == -1
groups == {g \in Group : parent[g] # NoGroup}

Gone == [group |-> 0, res |-> Everywhere, code |-> "view", allow |-> FALSE]
Rule == [group : Group, res : Resource \cup {Everywhere}, code : Code, allow : BOOLEAN]
Live(i) == rules[i].group # 0

DirectGroups(u) == {g \in groups : <<u, g>> \in members}

\* Plausible bugs; the runs tell each of them from the code.
AncestorIds_Self(g) == {g} \cap groups
DescendantIds_Children(g) == {g} \cup {h \in groups : parent[h] = g}
Allowed_AnyAllow(above, code, res) ==
  \E i \in DOMAIN rules : /\ rules[i].group \in above /\ rules[i].allow
                          /\ rules[i].code = code /\ rules[i].res \in {res, Everywhere}
Allowed_NoGlobal(above, code, res) ==
  \E i \in DOMAIN rules : /\ rules[i].group \in above /\ rules[i].allow
                          /\ rules[i].code = code /\ rules[i].res = res
Manages_AnyScope(u, g) == u \in Super \/ (Scope[u] # 0 /\ g # 0)

\* GroupRepository.ancestor_ids: the group and everything above it.
AncestorIds(g) ==
  LET up[h \in Group] == {h} \cup IF parent[h] \in groups THEN up[parent[h]] ELSE {}
  IN  IF g \in groups THEN groups \cap up[g] ELSE {}

\* GroupRepository.descendant_ids: the group, with a row or not, and all below.
DescendantIds(g) ==
  LET down[n \in GroupOrNull] ==
        IF n = 0 THEN {g}
        ELSE down[n - 1] \cup {h \in groups : parent[h] \in down[n - 1]}
  IN  down[MaxGroup]

\* The rows has_permission looks at for a code and a resource.
Matches(i, code, res) == rules[i].code = code /\ rules[i].res \in {res, Everywhere}

\* The loop of has_permission: one matching denial refuses.
Allowed(above, code, res) ==
  LET hits == {i \in DOMAIN rules : rules[i].group \in above /\ Matches(i, code, res)}
  IN  (\E i \in hits : rules[i].allow) /\ (\A i \in hits : rules[i].allow)

\* can_manage_group.
Manages(u, g) == u \in Super \/ (Scope[u] # 0 /\ g \in DescendantIds(Scope[u]))

WithAllow(r, allow) == [group |-> r.group, res |-> r.res, code |-> r.code, allow |-> allow]
Granted_Appended(rs, target, allow) == Append(rs, WithAllow(target, allow))

\* PermissionRepository.grant: in SQLite a NULL conflicts with nothing.
Granted(rs, target, allow) ==
  LET same == {i \in DOMAIN rs : /\ rs[i].group = target.group /\ rs[i].res = target.res
                                 /\ rs[i].code = target.code}
  IN  IF target.res = Everywhere \/ same = {}
      THEN Append(rs, WithAllow(target, allow))
      ELSE [i \in DOMAIN rs |-> IF i \in same THEN WithAllow(rs[i], allow) ELSE rs[i]]

\* A schema without ON DELETE SET NULL.
CascadeGroup_Orphans(g) ==
  /\ parent' = [parent EXCEPT ![g] = NoGroup]
  /\ members' = {m \in members : m[2] # g}
  /\ rules' = [i \in DOMAIN rules |-> IF rules[i].group = g THEN Gone ELSE rules[i]]

\* DELETE FROM groups_acl: children lose their parent, the rest cascades.
CascadeGroup(g) ==
  /\ parent' = [h \in Group |-> IF h = g THEN NoGroup
                                ELSE IF parent[h] = g THEN 0 ELSE parent[h]]
  /\ members' = {m \in members : m[2] # g}
  /\ rules' = [i \in DOMAIN rules |-> IF rules[i].group = g THEN Gone ELSE rules[i]]

-----------------------------------------------------------------------------
(* The handlers *)

\* The steps of an operation once the permission is granted.
Route == [ask      |-> [rules |-> "write"],
          folder   |-> [rules |-> "exists", exists |-> "write"],
          create   |-> [rules |-> "scope", scope |-> "write"],
          drop     |-> [rules |-> "exists", exists |-> "scope", scope |-> "count",
                        count |-> "write"],
          bind     |-> [rules |-> "scope", scope |-> "write"],
          unbind   |-> [rules |-> "scope", scope |-> "write"],
          grant    |-> [rules |-> "scope", scope |-> "write"],
          revoke   |-> [rules |-> "write"],
          resource |-> [rules |-> "write"],
          erase    |-> [rules |-> "write"]]

Needed(q) == CASE q.op = "ask"    -> q.code
               [] q.op = "folder" -> "write"
               [] q.op \in {"create", "drop"} -> "manage_groups"
               [] q.op \in {"bind", "unbind"} -> "manage_users"
               [] OTHER -> "manage_permissions"
NeededOn(q) == IF q.op \in {"ask", "folder"} THEN q.res ELSE Everywhere

Pc == {"idle", "members", "ancestors", "rules", "exists", "scope", "count", "write"}
Handler == [pc : Pc, q : Request, direct : SUBSET Group, todo : SUBSET Group,
            above : SUBSET Group]
NoRequest == [op |-> "ask", actor |-> CHOOSE u \in User : TRUE, group |-> 0,
              user |-> CHOOSE u \in User : TRUE, res |-> Everywhere, code |-> "view",
              allow |-> FALSE, rule |-> 0]
Idle == [pc |-> "idle", q |-> NoRequest, direct |-> {}, todo |-> {}, above |-> {}]

At(t, pc) == handler[t].pc = pc
Go(t, pc) == handler' = [handler EXCEPT ![t].pc = pc]
Finish(t) == handler' = [handler EXCEPT ![t] = Idle]
Onward(t) == Go(t, Route[handler[t].q.op][handler[t].pc])

\* A request arrives; has_permission lets a super_admin pass at once.
Begin(t, q) ==
  /\ At(t, "idle") /\ served < MaxRequest /\ seeding > Len(SeedRule)
  /\ served' = served + 1
  /\ handler' = [handler EXCEPT ![t] =
       [Idle EXCEPT !.q = q,
          !.pc = IF q.actor \in Super THEN Route[q.op]["rules"] ELSE "members"]]
  /\ UNCHANGED <<tables, seeding, restarts>>

\* list_user_group_ids.
ReadMembers(t) ==
  /\ At(t, "members")
  /\ LET mine == DirectGroups(handler[t].q.actor) IN
     handler' = [handler EXCEPT ![t].direct = mine, ![t].todo = mine,
                                ![t].pc = IF mine = {} THEN "rules" ELSE "ancestors"]
  /\ UNCHANGED <<tables, seeding, served, restarts>>

\* ancestor_ids of one of them: each call lists the groups anew.
ReadAncestors(t) ==
  /\ At(t, "ancestors")
  /\ \E g \in handler[t].todo :
       handler' = [handler EXCEPT ![t].todo = @ \ {g},
                                  ![t].above = @ \cup AncestorIds(g),
                                  ![t].pc = IF handler[t].todo = {g} THEN "rules" ELSE @]
  /\ UNCHANGED <<tables, seeding, served, restarts>>

\* list_for_groups and the verdict; a refusal answers 403.
ReadRules(t) ==
  /\ At(t, "rules")
  /\ IF Allowed(handler[t].above, Needed(handler[t].q), NeededOn(handler[t].q))
     THEN Onward(t) ELSE Finish(t)
  /\ UNCHANGED <<tables, seeding, served, restarts>>

\* get_by_id of the group or resource; 404 if there is none.
CheckExists(t) ==
  LET q == handler[t].q IN
  /\ At(t, "exists")
  /\ IF (q.op = "folder" /\ q.res \in resources) \/ (q.op = "drop" /\ q.group \in groups)
     THEN Onward(t) ELSE Finish(t)
  /\ UNCHANGED <<tables, seeding, served, restarts>>

\* can_manage_group; a group without a parent is for super_admins only.
CheckScope(t) ==
  /\ At(t, "scope")
  /\ IF Manages(handler[t].q.actor, handler[t].q.group) THEN Onward(t) ELSE Finish(t)
  /\ UNCHANGED <<tables, seeding, served, restarts>>

\* count_users_in_group.
CountMembers(t) ==
  /\ At(t, "count")
  /\ IF \E m \in members : m[2] = handler[t].q.group THEN Finish(t) ELSE Onward(t)
  /\ UNCHANGED <<tables, seeding, served, restarts>>

-----------------------------------------------------------------------------
(* The writes; a violated foreign key fails the request and changes nothing *)

\* The question a page or a file endpoint asks has been answered with yes.
Answer(q) == q.op = "ask" /\ UNCHANGED tables

CreateFolder(q) ==
  /\ q.op = "folder"
  /\ folders' = folders \cup ({q.res} \cap resources)
  /\ UNCHANGED <<parent, nextGroup, members, rules, resources, erased>>

CreateGroup(q) ==
  /\ q.op = "create" /\ nextGroup <= MaxGroup
  /\ IF q.group \in groups \cup {0}
     THEN parent' = [parent EXCEPT ![nextGroup] = q.group] /\ nextGroup' = nextGroup + 1
     ELSE UNCHANGED <<parent, nextGroup>>
  /\ UNCHANGED <<members, rules, resources, erased, folders>>

DropGroup(q) ==
  /\ q.op = "drop"
  /\ CascadeGroup(q.group)
  /\ UNCHANGED <<nextGroup, resources, erased, folders>>

BindUser(q) ==
  /\ q.op = "bind"
  /\ members' = members \cup ({q.user} \X ({q.group} \cap groups))
  /\ UNCHANGED <<parent, nextGroup, rules, resources, erased, folders>>

UnbindUser(q) ==
  /\ q.op = "unbind"
  /\ members' = members \ {<<q.user, q.group>>}
  /\ UNCHANGED <<parent, nextGroup, rules, resources, erased, folders>>

Grant(q) ==
  /\ q.op = "grant" /\ Len(rules) < MaxRule
  /\ rules' = IF q.group \in groups /\ q.res \in resources \cup {Everywhere}
              THEN Granted(rules, q, q.allow) ELSE rules
  /\ UNCHANGED <<parent, nextGroup, members, resources, erased, folders>>

DeletePermission(q) ==
  /\ q.op = "revoke"
  /\ rules' = [i \in DOMAIN rules |-> IF i = q.rule THEN Gone ELSE rules[i]]
  /\ UNCHANGED <<parent, nextGroup, members, resources, erased, folders>>

CreateResource(q) ==
  /\ q.op = "resource"
  /\ resources' = resources \cup ({q.res} \ erased)
  /\ UNCHANGED <<parent, nextGroup, members, rules, erased, folders>>

\* delete_resource fails while rows of files refer to the resource.
DeleteResource(q) ==
  /\ q.op = "erase"
  /\ \/ /\ resources' = resources \ {q.res}
        /\ erased' = erased \cup {q.res}
        /\ folders' = folders \ {q.res}
        /\ rules' = [i \in DOMAIN rules |-> IF Live(i) /\ rules[i].res = q.res
                                            THEN Gone ELSE rules[i]]
     \/ UNCHANGED <<resources, erased, folders, rules>>
  /\ UNCHANGED <<parent, nextGroup, members>>

Write(t) ==
  /\ At(t, "write")
  /\ LET q == handler[t].q IN
     \/ Answer(q) \/ CreateFolder(q) \/ CreateGroup(q) \/ DropGroup(q) \/ BindUser(q)
     \/ UnbindUser(q) \/ Grant(q) \/ DeletePermission(q) \/ CreateResource(q)
     \/ DeleteResource(q)
  /\ Finish(t)
  /\ UNCHANGED <<seeding, served, restarts>>

\* The server starts again: the handlers are lost, and the seed binds its
\* members again; no request is served before it has granted its rules.
Restart ==
  /\ restarts < MaxRestart /\ seeding > Len(SeedRule)
  /\ Len(rules) + Len(SeedRule) <= MaxRule
  /\ restarts' = restarts + 1
  /\ handler' = [t \in Thread |-> Idle]
  /\ members' = members \cup SeedMember
  /\ seeding' = 1
  /\ UNCHANGED <<parent, nextGroup, rules, resources, erased, folders, served>>

\* One grant of seed_if_empty.
SeedGrant ==
  /\ seeding <= Len(SeedRule) /\ Len(rules) < MaxRule
  /\ rules' = Granted(rules, SeedRule[seeding], TRUE)
  /\ seeding' = seeding + 1
  /\ UNCHANGED <<parent, nextGroup, members, resources, erased, folders, handler,
                 served, restarts>>

-----------------------------------------------------------------------------
(* Observations: what held ever since a request began *)

\* The pairs <<rule, direct group>> that give the asker this verdict now.
Backing(t, verdict) ==
  LET q == handler[t].q IN
  {p \in (DOMAIN rules) \X DirectGroups(q.actor) :
     /\ rules[p[1]].group \in AncestorIds(p[2])
     /\ Matches(p[1], Needed(q), NeededOn(q))
     /\ rules[p[1]].allow = verdict}

\* deny, allow: the pairs in force all along; outside: the group existed and
\* was out of the asker's scope.
NothingSeen == [deny |-> {}, allow |-> {}, outside |-> FALSE]
Outside(t) ==
  LET q == handler[t].q IN
  q.group \in groups /\ q.actor \notin Super /\ Scope[q.actor] \notin AncestorIds(q.group)
Look(t) ==
  IF handler'[t].pc = "idle" THEN NothingSeen
  ELSE IF At(t, "idle")
  THEN [deny |-> Backing(t, FALSE)', allow |-> Backing(t, TRUE)',
        outside |-> Outside(t)']
  ELSE [seen[t] EXCEPT !.deny = @ \cap Backing(t, FALSE)', !.allow = @ \cap Backing(t, TRUE)']

-----------------------------------------------------------------------------
(* The specification *)

Init ==
  /\ parent = [g \in Group |-> IF g <= SeedGroups THEN 0 ELSE NoGroup]
  /\ nextGroup = SeedGroups + 1
  /\ members = SeedMember
  /\ rules = <<>> /\ seeding = 1
  /\ resources = SeedResource /\ erased = {} /\ folders = {}
  /\ handler = [t \in Thread |-> Idle]
  /\ served = 0 /\ restarts = 0
  /\ seen = [t \in Thread |-> NothingSeen]

Step(t) == \/ \E q \in Asked : Begin(t, q)
           \/ ReadMembers(t) \/ ReadAncestors(t) \/ ReadRules(t)
           \/ CheckExists(t) \/ CheckScope(t) \/ CountMembers(t) \/ Write(t)

Next == /\ Restart \/ SeedGrant \/ \E t \in Thread : Step(t)
        /\ seen' = [t \in Thread |-> Look(t)]

Spec == Init /\ [][Next]_vars

-----------------------------------------------------------------------------
(* Properties *)

\* Parents, memberships and rules refer to groups that are there.
TypeOK ==
  /\ \A g \in groups : parent[g] \in groups \cup {0}
  /\ \A m \in members : m[2] \in groups
  /\ \A i \in DOMAIN rules : Live(i) => rules[i].group \in groups
  /\ parent \in [Group -> GroupOrNull \cup {NoGroup}]
  /\ nextGroup \in 1..(MaxGroup + 1)
  /\ members \subseteq User \X Group
  /\ rules \in Seq(Rule \cup {Gone}) /\ Len(rules) <= MaxRule
  /\ resources \subseteq Resource /\ erased \subseteq Resource /\ folders \subseteq Resource
  /\ handler \in [Thread -> Handler]
  /\ seeding \in 1..(Len(SeedRule) + 1)
  /\ served \in 0..MaxRequest /\ restarts \in 0..MaxRestart
  /\ seen \in [Thread -> [deny : SUBSET ((1..MaxRule) \X Group),
                           allow : SUBSET ((1..MaxRule) \X Group),
                           outside : BOOLEAN]]

Decided == {"exists", "scope", "count", "write"}
Scoped == {"create", "drop", "bind", "unbind", "grant"}
Passed(t) == handler[t].pc \in Decided /\ handler[t].q.actor \notin Super

\* A permission is never granted, however the reads of the check interleave
\* with the changes of others, if a denial that binds the asker through one of
\* his groups has been in force since the request began (has_permission).
DenialHolds == \A t \in Thread : Passed(t) => seen[t].deny = {}

\* A permission that an allowing rule has given the asker through one of his
\* groups since the request began is refused only if some group denies it:
\* no interleaving loses a right on the way (has_permission).
RightHolds ==
  [][\A t \in Thread :
       /\ At(t, "rules") /\ handler'[t].pc = "idle" /\ restarts' = restarts
       /\ seen[t].allow # {}
       => \E i \in DOMAIN rules : /\ Live(i) /\ ~ rules[i].allow
                                  /\ Matches(i, Needed(handler[t].q), NeededOn(handler[t].q))]_vars

\* The walk up that gives rights and the walk down that bounds an
\* administrator agree on who is above whom, whatever groups were deleted.
WalksAgree == \A g, h \in groups : h \in AncestorIds(g) <=> g \in DescendantIds(h)

\* A group that was outside an administrator's scope when he asked is not
\* written by his request, even if groups are deleted while it is under way.
OutsideUntouched ==
  \A t \in Thread : At(t, "write") /\ handler[t].q.op \in Scoped => ~ seen[t].outside

\* A rule on a resource is replaced by the next grant for the same target,
\* through requests and restarts alike, so the last word is the only one.
OneRulePerResource ==
  \A i, j \in DOMAIN rules :
    /\ Live(i) /\ Live(j) /\ i # j /\ rules[i].res # Everywhere
    => <<rules[i].group, rules[i].res, rules[i].code>>
         # <<rules[j].group, rules[j].res, rules[j].code>>
=============================================================================
