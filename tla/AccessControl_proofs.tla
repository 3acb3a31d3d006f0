----------------------- MODULE AccessControl_proofs -----------------------
(***************************************************************************)
(* For any users, groups, rules and threads: the tables and the handlers    *)
(* keep their shape, a denial in force is never missed by a check, a right  *)
(* in force is lost only to a denial, rules on resources have one row, the  *)
(* walks through the tree agree, and no request writes outside the scope of *)
(* its asker.                                                               *)
(***************************************************************************)
EXTENDS AccessControl, TLAPS, SequenceTheorems, FiniteSetTheorems

LEMMA GroupFacts ==
  ASSUME AccessAssumption
  PROVE  /\ Group \subseteq Nat /\ 0 \notin Group /\ GroupOrNull = Group \cup {0}
         /\ NoGroup \notin GroupOrNull /\ groups \subseteq Group
  BY DEF AccessAssumption, Group, GroupOrNull, NoGroup, groups

\* A walk up stays among the groups that have a row.
LEMMA AncestorsAreGroups == \A g : AncestorIds(g) \subseteq groups
  BY DEF AncestorIds

\* A rule row keeps its group for as long as it exists.
LEMMA GrantedRules ==
  ASSUME NEW rs \in Seq(Rule \cup {Gone}), NEW target, NEW allow \in BOOLEAN,
         target.group \in Group, target.res \in Resource \cup {Everywhere},
         target.code \in Code
  PROVE  /\ Granted(rs, target, allow) \in Seq(Rule \cup {Gone})
         /\ Len(Granted(rs, target, allow)) <= Len(rs) + 1
         /\ \A i \in DOMAIN rs : /\ i \in DOMAIN Granted(rs, target, allow)
                                 /\ Granted(rs, target, allow)[i].group = rs[i].group
         /\ \A i \in DOMAIN Granted(rs, target, allow) \ DOMAIN rs :
              Granted(rs, target, allow)[i].group = target.group
<1> DEFINE same == {i \in DOMAIN rs : /\ rs[i].group = target.group /\ rs[i].res = target.res
                                      /\ rs[i].code = target.code}
<1>1. CASE target.res = Everywhere \/ same = {}
  <2>1. Granted(rs, target, allow) = Append(rs, WithAllow(target, allow))
    BY <1>1 DEF Granted
  <2>2. WithAllow(target, allow) \in Rule /\ WithAllow(target, allow).group = target.group
    BY DEF Rule, WithAllow
  <2> QED BY <2>1, <2>2
<1>2. CASE ~ (target.res = Everywhere \/ same = {})
  <2>1. Granted(rs, target, allow)
          = [i \in DOMAIN rs |-> IF i \in same THEN WithAllow(rs[i], allow) ELSE rs[i]]
    BY <1>2 DEF Granted
  <2>2. ASSUME NEW i \in DOMAIN rs, i \in same
        PROVE  WithAllow(rs[i], allow).group = rs[i].group /\ WithAllow(rs[i], allow) \in Rule
    BY <2>2 DEF Rule, WithAllow
  <2> HIDE DEF same
  <2>3. /\ DOMAIN Granted(rs, target, allow) = 1..Len(rs)
        /\ \A i \in DOMAIN rs : /\ Granted(rs, target, allow)[i].group = rs[i].group
                                /\ Granted(rs, target, allow)[i] \in Rule \cup {Gone}
    BY <2>1, <2>2
  <2>4. Granted(rs, target, allow) \in Seq(Rule \cup {Gone})
    BY <2>1, <2>2
  <2> QED BY <2>3, <2>4
<1> QED BY <1>1, <1>2

-----------------------------------------------------------------------------
(* The inductive invariant *)

\* Nobody deletes the groups of the seed, since nobody asks for it.
SeedKept == 1..SeedGroups \subseteq groups
Asking == \A t \in Thread : At(t, "idle") \/ handler[t].q \in Asked

\* A handler is only at steps that its operation has.
OnRoute ==
  \A t \in Thread :
    /\ At(t, "exists") => handler[t].q.op \in {"folder", "drop"}
    /\ At(t, "scope") => handler[t].q.op \in Scoped
    /\ At(t, "count") => handler[t].q.op = "drop"

\* What has been in force all along is still, and a check that has read a
\* group it comes from has seen the group of its rule.
InForce(t, p, verdict) ==
  /\ p \in Backing(t, verdict)
  /\ At(t, "ancestors") \/ At(t, "rules") => p[2] \in handler[t].direct
  /\ At(t, "ancestors") /\ p[2] \notin handler[t].todo => rules[p[1]].group \in handler[t].above
  /\ At(t, "rules") => rules[p[1]].group \in handler[t].above
Watched ==
  \A t \in Thread :
    /\ \A p \in seen[t].deny : InForce(t, p, FALSE)
    /\ \A p \in seen[t].allow : InForce(t, p, TRUE)

Shape == TypeOK /\ SeedKept /\ Asking /\ OnRoute

-----------------------------------------------------------------------------
(* What a step does to a handler *)

LEMMA RequestShape ==
  ASSUME AccessAssumption, NEW q \in Asked
  PROVE  /\ q \in Request /\ q.op \in Op /\ q.actor \in User /\ q.group \in GroupOrNull
         /\ q.user \in User /\ q.res \in Resource \cup {Everywhere} /\ q.code \in Code
         /\ q.allow \in BOOLEAN /\ q.rule \in 0..MaxRule
         /\ q.op = "drop" => q.group > SeedGroups
         /\ q.op \in {"resource", "erase"} => q.res \in Resource
  BY DEF AccessAssumption, Request

LEMMA Routes ==
  ASSUME NEW op \in Op
  PROVE  /\ Route[op]["rules"] \in Decided
         /\ Route[op]["rules"] = "exists" => op \in {"folder", "drop"}
         /\ Route[op]["rules"] = "scope" => op \in Scoped
         /\ Route[op]["rules"] # "count"
         /\ op = "drop" => Route[op]["rules"] = "exists"
         /\ op = "folder" => Route[op]["exists"] = "write"
         /\ op \in Scoped \ {"drop"} => Route[op]["scope"] = "write"
         /\ op = "drop" => /\ Route[op]["exists"] = "scope" /\ Route[op]["scope"] = "count"
                           /\ Route[op]["count"] = "write"
  BY DEF Op, Route, Decided, Scoped

\* A check that passes goes on to the next step of the same operation.
LEMMA OnwardStep ==
  ASSUME AccessAssumption, Shape, NEW t \in Thread, Onward(t),
         At(t, "rules") \/ At(t, "exists") \/ At(t, "scope") \/ At(t, "count")
  PROVE  /\ handler' = [handler EXCEPT ![t].pc = handler'[t].pc]
         /\ handler'[t] = [handler[t] EXCEPT !.pc = handler'[t].pc]
         /\ handler'[t].pc \in Decided
         /\ handler'[t].pc = "exists" => handler[t].q.op \in {"folder", "drop"}
         /\ handler'[t].pc = "scope" => handler[t].q.op \in Scoped
         /\ handler'[t].pc = "count" => handler[t].q.op = "drop"
         /\ handler'[t].pc = "write" /\ handler[t].q.op = "drop" => At(t, "count")
<1>1. handler \in [Thread -> Handler] /\ handler[t] \in Handler
  BY DEF Shape, TypeOK
<1>2. handler[t].q \in Asked /\ handler[t].q.op \in Op
  BY RequestShape DEF Shape, Asking, At
<1>3. /\ handler' = [handler EXCEPT ![t].pc = Route[handler[t].q.op][handler[t].pc]]
      /\ handler'[t].pc = Route[handler[t].q.op][handler[t].pc]
  BY <1>1 DEF Onward, Go, Handler
<1>4. /\ handler' = [handler EXCEPT ![t].pc = handler'[t].pc]
      /\ handler'[t] = [handler[t] EXCEPT !.pc = handler'[t].pc]
  BY <1>1, <1>3
<1>5. CASE At(t, "rules")
  BY <1>2, <1>3, <1>4, <1>5, Routes DEF At
<1>6. CASE At(t, "exists")
  <2>1. handler[t].q.op \in {"folder", "drop"}
    BY <1>6 DEF Shape, OnRoute
  <2> QED BY <1>2, <1>3, <1>4, <1>6, <2>1, Routes DEF At, Decided, Scoped
<1>7. CASE At(t, "scope")
  <2>1. handler[t].q.op \in Scoped
    BY <1>7 DEF Shape, OnRoute
  <2> QED BY <1>2, <1>3, <1>4, <1>7, <2>1, Routes DEF At, Decided
<1>8. CASE At(t, "count")
  <2>1. handler[t].q.op = "drop"
    BY <1>8 DEF Shape, OnRoute
  <2> QED BY <1>2, <1>3, <1>4, <1>8, <2>1, Routes DEF At, Decided
<1> QED BY <1>5, <1>6, <1>7, <1>8

-----------------------------------------------------------------------------
(* What a step does to the tables *)

\* TypeOK without the handlers and the observations.
TablesOK ==
  /\ \A g \in groups : parent[g] \in groups \cup {0}
  /\ \A m \in members : m[2] \in groups
  /\ \A i \in DOMAIN rules : Live(i) => rules[i].group \in groups
  /\ parent \in [Group -> GroupOrNull \cup {NoGroup}]
  /\ nextGroup \in 1..(MaxGroup + 1)
  /\ members \subseteq User \X Group
  /\ rules \in Seq(Rule \cup {Gone}) /\ Len(rules) <= MaxRule
  /\ resources \subseteq Resource /\ erased \subseteq Resource /\ folders \subseteq Resource
  /\ SeedKept

RulesKept == \A i \in DOMAIN rules : /\ i \in DOMAIN rules'
                                     /\ rules'[i].group \in {rules[i].group, 0}

\* A target that is granted refers to a group that is there.
LEMMA GrantKeeps ==
  ASSUME AccessAssumption, TablesOK, NEW target, NEW allow \in BOOLEAN,
         target.group \in groups, target.res \in Resource \cup {Everywhere},
         target.code \in Code, Len(rules) < MaxRule,
         rules' = Granted(rules, target, allow),
         UNCHANGED <<parent, nextGroup, members, resources, erased, folders>>
  PROVE  TablesOK' /\ RulesKept
<1>1. target.group \in Group /\ groups' = groups /\ groups \subseteq Group
  BY GroupFacts DEF groups
<1>2. /\ rules' \in Seq(Rule \cup {Gone}) /\ Len(rules') <= Len(rules) + 1
      /\ \A i \in DOMAIN rules : i \in DOMAIN rules' /\ rules'[i].group = rules[i].group
      /\ \A i \in DOMAIN rules' \ DOMAIN rules : rules'[i].group = target.group
  <2>1. rules \in Seq(Rule \cup {Gone})
    BY DEF TablesOK
  <2> QED BY <1>1, <2>1, GrantedRules
<1>3. Len(rules) \in Nat /\ Len(rules') \in Nat /\ MaxRule \in Nat
  BY <1>2 DEF TablesOK, AccessAssumption
<1>4. \A i \in DOMAIN rules' : Live(i)' => rules'[i].group \in groups'
  BY <1>1, <1>2 DEF TablesOK, Live
<1> QED BY <1>1, <1>2, <1>3, <1>4 DEF TablesOK, RulesKept, SeedKept

\* Rules that are deleted leave a gap.
LEMMA RulesGoneKeep ==
  ASSUME TablesOK, NEW gone \in SUBSET Nat,
         rules' = [i \in DOMAIN rules |-> IF i \in gone THEN Gone ELSE rules[i]]
  PROVE  /\ rules' \in Seq(Rule \cup {Gone}) /\ Len(rules') = Len(rules)
         /\ RulesKept
         /\ \A i \in DOMAIN rules' : Live(i)' => i \in DOMAIN rules /\ i \notin gone /\ rules'[i] = rules[i]
<1>1. rules \in Seq(Rule \cup {Gone}) /\ DOMAIN rules = 1..Len(rules) /\ Len(rules) \in Nat
  BY DEF TablesOK
<1>2. \A i \in DOMAIN rules : rules'[i] = IF i \in gone THEN Gone ELSE rules[i]
  OBVIOUS
<1>3. rules' \in Seq(Rule \cup {Gone}) /\ Len(rules') = Len(rules) /\ DOMAIN rules' = DOMAIN rules
  BY <1>1
<1> QED BY <1>1, <1>2, <1>3 DEF RulesKept, Live, Gone

LEMMA DropGroupKeeps ==
  ASSUME AccessAssumption, TablesOK, NEW q \in Asked, DropGroup(q)
  PROVE  TablesOK' /\ RulesKept
<1> DEFINE g == q.group
           gone == {i \in DOMAIN rules : rules[i].group = g}
<1>1. /\ parent' = [h \in Group |-> IF h = g THEN NoGroup
                                    ELSE IF parent[h] = g THEN 0 ELSE parent[h]]
      /\ members' = {m \in members : m[2] # g}
      /\ rules' = [i \in DOMAIN rules |-> IF i \in gone THEN Gone ELSE rules[i]]
      /\ UNCHANGED <<nextGroup, resources, erased, folders>>
  BY DEF DropGroup, CascadeGroup
<1>2. g \in Nat /\ g > SeedGroups /\ SeedGroups \in Nat /\ g # NoGroup /\ 0 # NoGroup
  BY RequestShape DEF DropGroup, GroupOrNull, AccessAssumption, NoGroup
<1>3. groups' = groups \ {g} /\ groups \subseteq Group /\ 0 \notin Group
  BY <1>1, <1>2, GroupFacts DEF groups, TablesOK
<1>4. \A h \in groups' : parent'[h] \in groups' \cup {0}
  BY <1>1, <1>3 DEF TablesOK
<1>5. parent' \in [Group -> GroupOrNull \cup {NoGroup}]
  BY <1>1, GroupFacts DEF TablesOK
<1>6. gone \in SUBSET Nat
  BY DEF TablesOK
<1>7. /\ rules' \in Seq(Rule \cup {Gone}) /\ Len(rules') = Len(rules) /\ RulesKept
      /\ \A i \in DOMAIN rules' : Live(i)' => i \in DOMAIN rules /\ i \notin gone /\ rules'[i] = rules[i]
  <2> HIDE DEF gone
  <2> QED BY <1>1, <1>6, RulesGoneKeep
<1>8. \A i \in DOMAIN rules' : Live(i)' => rules'[i].group \in groups'
  BY <1>3, <1>7 DEF TablesOK, Live
<1>9. SeedKept'
  BY <1>2, <1>3 DEF TablesOK, SeedKept
<1>10. \A m \in members' : m[2] \in groups'
  BY <1>1, <1>3 DEF TablesOK
<1> QED BY <1>1, <1>4, <1>5, <1>7, <1>8, <1>9, <1>10 DEF TablesOK

LEMMA CreateGroupKeeps ==
  ASSUME AccessAssumption, TablesOK, NEW q \in Asked, CreateGroup(q)
  PROVE  TablesOK' /\ RulesKept
<1>1. rules' = rules /\ UNCHANGED <<members, resources, erased, folders>> /\ RulesKept
  BY DEF CreateGroup, RulesKept
<1>2. CASE q.group \in groups \cup {0}
  <2>1. /\ parent' = [parent EXCEPT ![nextGroup] = q.group] /\ nextGroup' = nextGroup + 1
        /\ nextGroup <= MaxGroup
    BY <1>2 DEF CreateGroup
  <2>2. nextGroup \in Group /\ nextGroup' \in 1..(MaxGroup + 1)
    BY <2>1 DEF TablesOK, Group, AccessAssumption
  <2>3. q.group \in GroupOrNull /\ q.group # NoGroup
    BY <1>2, GroupFacts
  <2>4. groups' = groups \cup {nextGroup}
    BY <2>1, <2>2, <2>3 DEF TablesOK, groups
  <2>5. \A h \in groups' : parent'[h] \in groups' \cup {0}
    BY <1>2, <2>1, <2>2, <2>4 DEF TablesOK
  <2> QED BY <1>1, <2>1, <2>2, <2>3, <2>4, <2>5 DEF TablesOK, Live, SeedKept
<1>3. CASE q.group \notin groups \cup {0}
  BY <1>1, <1>3 DEF CreateGroup, TablesOK, Live, groups, SeedKept
<1> QED BY <1>2, <1>3

LEMMA DeleteResourceKeeps ==
  ASSUME AccessAssumption, TablesOK, NEW q \in Asked, DeleteResource(q)
  PROVE  TablesOK' /\ RulesKept
<1>1. CASE UNCHANGED <<resources, erased, folders, rules>>
  BY <1>1 DEF DeleteResource, TablesOK, RulesKept, Live, groups, SeedKept
<1>2. CASE /\ resources' = resources \ {q.res}
           /\ erased' = erased \cup {q.res}
           /\ folders' = folders \ {q.res}
           /\ rules' = [i \in DOMAIN rules |-> IF Live(i) /\ rules[i].res = q.res
                                               THEN Gone ELSE rules[i]]
  <2> DEFINE gone == {i \in DOMAIN rules : Live(i) /\ rules[i].res = q.res}
  <2>1. rules' = [i \in DOMAIN rules |-> IF i \in gone THEN Gone ELSE rules[i]]
    BY <1>2
  <2>2. gone \in SUBSET Nat
    BY DEF TablesOK
  <2>3. /\ rules' \in Seq(Rule \cup {Gone}) /\ Len(rules') = Len(rules) /\ RulesKept
        /\ \A i \in DOMAIN rules' : Live(i)' => i \in DOMAIN rules /\ rules'[i] = rules[i]
    <3> HIDE DEF gone
    <3> QED BY <2>1, <2>2, RulesGoneKeep
  <2>4. UNCHANGED <<parent, nextGroup, members>> /\ groups' = groups
    BY DEF DeleteResource, groups
  <2>5. \A i \in DOMAIN rules' : Live(i)' => rules'[i].group \in groups'
    BY <2>3, <2>4 DEF TablesOK, Live
  <2>6. erased' \subseteq Resource
    <3>1. q.res \in Resource /\ erased \subseteq Resource
      BY RequestShape DEF DeleteResource, TablesOK
    <3> QED BY <1>2, <3>1
  <2> QED BY <1>2, <2>3, <2>4, <2>5, <2>6 DEF TablesOK, SeedKept
<1> QED BY <1>1, <1>2 DEF DeleteResource

LEMMA WriteKeeps ==
  ASSUME AccessAssumption, Shape, NEW t \in Thread, Write(t)
  PROVE  TablesOK' /\ RulesKept
<1> DEFINE q == handler[t].q
<1>1. TablesOK /\ q \in Asked
  BY DEF Shape, TypeOK, TablesOK, Asking, Write, At
<1> USE <1>1
<1>2. /\ q.op \in Op /\ q.group \in GroupOrNull /\ q.user \in User /\ q.code \in Code
      /\ q.res \in Resource \cup {Everywhere} /\ q.allow \in BOOLEAN
      /\ q.op = "resource" => q.res \in Resource
  BY RequestShape
<1> HIDE DEF q
<1>3. CASE Answer(q)
  BY <1>3 DEF Answer, tables, TablesOK, RulesKept, Live, groups, SeedKept
<1>4. CASE CreateFolder(q)
  BY <1>4 DEF CreateFolder, TablesOK, RulesKept, Live, groups, SeedKept
<1>5. CASE CreateGroup(q)
  BY <1>5, CreateGroupKeeps
<1>6. CASE DropGroup(q)
  BY <1>6, DropGroupKeeps
<1>7. CASE BindUser(q)
  BY <1>2, <1>7, GroupFacts DEF BindUser, TablesOK, RulesKept, Live, groups, SeedKept
<1>8. CASE UnbindUser(q)
  BY <1>8 DEF UnbindUser, TablesOK, RulesKept, Live, groups, SeedKept
<1>9. CASE Grant(q)
  <2>1. CASE q.group \in groups /\ q.res \in resources \cup {Everywhere}
    <3>1. /\ Len(rules) < MaxRule /\ rules' = Granted(rules, q, q.allow)
          /\ UNCHANGED <<parent, nextGroup, members, resources, erased, folders>>
      BY <1>9, <2>1 DEF Grant
    <3> QED BY <1>2, <2>1, <3>1, GrantKeeps
  <2>2. CASE ~ (q.group \in groups /\ q.res \in resources \cup {Everywhere})
    BY <1>9, <2>2 DEF Grant, TablesOK, RulesKept, Live, groups, SeedKept
  <2> QED BY <2>1, <2>2
<1>10. CASE DeletePermission(q)
  <2> DEFINE gone == {i \in DOMAIN rules : i = q.rule}
  <2>1. rules' = [i \in DOMAIN rules |-> IF i \in gone THEN Gone ELSE rules[i]]
    BY <1>10 DEF DeletePermission
  <2>2. gone \in SUBSET Nat
    BY DEF TablesOK
  <2>3. /\ rules' \in Seq(Rule \cup {Gone}) /\ Len(rules') = Len(rules) /\ RulesKept
        /\ \A i \in DOMAIN rules' : Live(i)' => i \in DOMAIN rules /\ rules'[i] = rules[i]
    <3> HIDE DEF gone
    <3> QED BY <2>1, <2>2, RulesGoneKeep
  <2>4. UNCHANGED <<parent, nextGroup, members, resources, erased, folders>> /\ groups' = groups
    BY <1>10 DEF DeletePermission, groups
  <2>5. \A i \in DOMAIN rules' : Live(i)' => rules'[i].group \in groups'
    BY <2>3, <2>4 DEF TablesOK, Live
  <2> QED BY <2>3, <2>4, <2>5 DEF TablesOK, SeedKept
<1>11. CASE CreateResource(q)
  BY <1>2, <1>11 DEF CreateResource, TablesOK, RulesKept, Live, groups, SeedKept
<1>12. CASE DeleteResource(q)
  BY <1>12, DeleteResourceKeeps
<1> QED
  BY <1>3, <1>4, <1>5, <1>6, <1>7, <1>8, <1>9, <1>10, <1>11, <1>12 DEF Write, q

\* Whatever happens, the tables keep their shape and the rules their groups.
LEMMA TablesKept ==
  ASSUME AccessAssumption, Shape, Next
  PROVE  TablesOK' /\ RulesKept
<1>1. TablesOK
  BY DEF Shape, TypeOK, TablesOK
<1>2. CASE Restart
  <2>1. UNCHANGED <<parent, nextGroup, rules, resources, erased, folders>>
    BY <1>2 DEF Restart
  <2>2. members' = members \cup SeedMember
    BY <1>2 DEF Restart
  <2>3. \A m \in SeedMember : m \in User \X Group /\ m[2] \in groups
    BY <1>1, GroupFacts DEF AccessAssumption, TablesOK, SeedKept
  <2> QED BY <1>1, <2>1, <2>2, <2>3 DEF TablesOK, RulesKept, Live, groups, SeedKept
<1>3. CASE SeedGrant
  <2> DEFINE target == SeedRule[seeding]
  <2>1. seeding \in 1..Len(SeedRule)
    BY <1>3 DEF SeedGrant, Shape, TypeOK, AccessAssumption
  <2>2. target \in [group : 1..SeedGroups, res : SeedResource \cup {Everywhere}, code : Code]
    <3> DEFINE Seeded == [group : 1..SeedGroups, res : SeedResource \cup {Everywhere}, code : Code]
    <3>1. SeedRule \in Seq(Seeded)
      BY DEF AccessAssumption
    <3> HIDE DEF Seeded
    <3>2. target \in Seeded
      BY <2>1, <3>1
    <3> QED BY <3>2 DEF Seeded
  <2>3. /\ target.group \in groups /\ target.res \in Resource \cup {Everywhere}
        /\ target.code \in Code
    BY <1>1, <2>2 DEF AccessAssumption, TablesOK, SeedKept
  <2>4. /\ Len(rules) < MaxRule /\ rules' = Granted(rules, target, TRUE)
        /\ UNCHANGED <<parent, nextGroup, members, resources, erased, folders>>
    BY <1>3 DEF SeedGrant
  <2> HIDE DEF target
  <2> QED BY <1>1, <2>3, <2>4, GrantKeeps
<1>4. ASSUME NEW t \in Thread, Step(t) PROVE TablesOK' /\ RulesKept
  <2>1. CASE Write(t)
    BY <2>1, WriteKeeps
  <2>2. CASE ~ Write(t)
    <3>1. UNCHANGED tables
      BY <1>4, <2>2 DEF Step, Begin, ReadMembers, ReadAncestors, ReadRules, CheckExists,
                        CheckScope, CountMembers
    <3> QED BY <1>1, <3>1 DEF tables, TablesOK, RulesKept, Live, groups, SeedKept
  <2> QED BY <2>1, <2>2
<1> QED BY <1>2, <1>3, <1>4 DEF Next

\* A state of a handler that fits the operation of its request.
Fits(h) ==
  /\ h \in Handler
  /\ h.pc = "idle" \/ h.q \in Asked
  /\ h.pc = "exists" => h.q.op \in {"folder", "drop"}
  /\ h.pc = "scope" => h.q.op \in Scoped
  /\ h.pc = "count" => h.q.op = "drop"

LEMMA IdleFits ==
  ASSUME AccessAssumption
  PROVE  Idle \in Handler /\ Idle.pc = "idle" /\ Fits(Idle)
<1>1. NoRequest \in Request
  BY DEF NoRequest, Request, Op, Code, GroupOrNull, AccessAssumption
<1> QED BY <1>1 DEF Fits, Idle, Handler, Pc

LEMMA OnwardFits ==
  ASSUME AccessAssumption, Shape, NEW t \in Thread, Onward(t),
         At(t, "rules") \/ At(t, "exists") \/ At(t, "scope") \/ At(t, "count")
  PROVE  \E h : handler' = [handler EXCEPT ![t] = h] /\ Fits(h)
<1>1. handler[t] \in Handler /\ handler[t].q \in Asked
  BY DEF Shape, TypeOK, Asking, At
<1>2. handler'[t] = [handler[t] EXCEPT !.pc = handler'[t].pc] /\ handler'[t].pc \in Pc
  BY OnwardStep DEF Decided, Pc
<1>3. handler'[t] \in Handler /\ handler'[t].q = handler[t].q
  BY <1>1, <1>2 DEF Handler
<1>4. handler' = [handler EXCEPT ![t] = handler'[t]]
  BY OnwardStep DEF Shape, TypeOK
<1>5. Fits(handler'[t])
  <2>1. /\ handler'[t].pc = "exists" => handler[t].q.op \in {"folder", "drop"}
        /\ handler'[t].pc = "scope" => handler[t].q.op \in Scoped
        /\ handler'[t].pc = "count" => handler[t].q.op = "drop"
    BY OnwardStep
  <2> QED BY <1>1, <1>3, <2>1 DEF Fits
<1> QED BY <1>4, <1>5

LEMMA StepFits ==
  ASSUME AccessAssumption, Shape, NEW t \in Thread, Step(t)
  PROVE  \E h : handler' = [handler EXCEPT ![t] = h] /\ Fits(h)
<1>1. /\ handler \in [Thread -> Handler] /\ handler[t] \in Handler
      /\ At(t, "idle") \/ handler[t].q \in Asked
  BY DEF Shape, TypeOK, Asking
<1>2. ASSUME NEW q \in Asked, Begin(t, q)
      PROVE  \E h : handler' = [handler EXCEPT ![t] = h] /\ Fits(h)
  <2> DEFINE pc == IF q.actor \in Super THEN Route[q.op]["rules"] ELSE "members"
             h == [Idle EXCEPT !.q = q, !.pc = pc]
  <2>1. handler' = [handler EXCEPT ![t] = h]
    BY <1>2 DEF Begin
  <2>2. q \in Request /\ q.op \in Op
    BY RequestShape
  <2>3. /\ pc \in Pc /\ pc # "count"
        /\ pc = "exists" => q.op \in {"folder", "drop"}
        /\ pc = "scope" => q.op \in Scoped
    BY <2>2, Routes DEF Pc, Decided
  <2> HIDE DEF pc
  <2>4. h \in Handler /\ h.q = q /\ h.pc = pc
    BY <2>2, <2>3, IdleFits DEF Handler
  <2>5. Fits(h)
    BY <2>3, <2>4 DEF Fits
  <2> QED BY <2>1, <2>5
<1>3. CASE ReadMembers(t)
  <2> DEFINE mine == DirectGroups(handler[t].q.actor)
             h == [handler[t] EXCEPT !.direct = mine, !.todo = mine,
                                     !.pc = IF mine = {} THEN "rules" ELSE "ancestors"]
  <2>1. handler' = [handler EXCEPT ![t] = h]
    BY <1>1, <1>3 DEF ReadMembers
  <2>2. mine \subseteq Group
    BY DEF DirectGroups, groups
  <2> HIDE DEF mine
  <2>3. h \in Handler /\ h.q = handler[t].q /\ h.pc \in {"rules", "ancestors"}
    BY <1>1, <2>2 DEF Handler, Pc
  <2>4. handler[t].q \in Asked
    BY <1>1, <1>3 DEF ReadMembers, At
  <2>5. Fits(h)
    BY <2>3, <2>4 DEF Fits
  <2> QED BY <2>1, <2>5
<1>4. CASE ReadAncestors(t)
  <2>1. PICK g \in handler[t].todo :
          handler' = [handler EXCEPT ![t].todo = @ \ {g},
                                     ![t].above = @ \cup AncestorIds(g),
                                     ![t].pc = IF handler[t].todo = {g} THEN "rules" ELSE @]
    BY <1>4 DEF ReadAncestors
  <2> DEFINE h == [handler[t] EXCEPT !.todo = @ \ {g}, !.above = @ \cup AncestorIds(g),
                                     !.pc = IF handler[t].todo = {g} THEN "rules" ELSE @]
  <2>2. handler' = [handler EXCEPT ![t] = h]
    BY <1>1, <2>1
  <2>3. AncestorIds(g) \subseteq Group
    BY AncestorsAreGroups, GroupFacts
  <2>4. h \in Handler /\ h.q = handler[t].q /\ h.pc \in {"rules", "ancestors"}
    BY <1>1, <1>4, <2>3 DEF Handler, Pc, ReadAncestors, At
  <2>5. handler[t].q \in Asked
    BY <1>1, <1>4 DEF ReadAncestors, At
  <2>6. Fits(h)
    BY <2>4, <2>5 DEF Fits
  <2> QED BY <2>2, <2>6
<1>5. CASE Finish(t)
  BY <1>5, IdleFits DEF Finish
<1>6. CASE /\ At(t, "rules") \/ At(t, "exists") \/ At(t, "scope") \/ At(t, "count")
           /\ Onward(t)
  BY <1>6, OnwardFits
<1>7. CASE ReadRules(t)
  BY <1>5, <1>6, <1>7 DEF ReadRules
<1>8. CASE CheckExists(t)
  BY <1>5, <1>6, <1>8 DEF CheckExists
<1>9. CASE CheckScope(t)
  BY <1>5, <1>6, <1>9 DEF CheckScope
<1>10. CASE CountMembers(t)
  BY <1>5, <1>6, <1>10 DEF CountMembers
<1>11. CASE Write(t)
  BY <1>5, <1>11 DEF Write
<1> QED BY <1>2, <1>3, <1>4, <1>7, <1>8, <1>9, <1>10, <1>11 DEF Step

\* The counters, and who is at which step of which request.
LEMMA HandlersKept ==
  ASSUME AccessAssumption, Shape, NEW t \in Thread, Step(t)
  PROVE  /\ \A s \in Thread \ {t} : handler'[s] = handler[s]
         /\ handler' \in [Thread -> Handler]
         /\ Asking' /\ OnRoute'
         /\ UNCHANGED <<seeding, restarts>> /\ served' \in 0..MaxRequest
<1>1. /\ handler \in [Thread -> Handler] /\ served \in 0..MaxRequest /\ MaxRequest \in Nat
      /\ Asking /\ OnRoute
  BY DEF Shape, TypeOK, AccessAssumption
<1>2. PICK h : handler' = [handler EXCEPT ![t] = h] /\ Fits(h)
  BY StepFits
<1>3. /\ \A s \in Thread \ {t} : handler'[s] = handler[s]
      /\ handler'[t] = h /\ handler' \in [Thread -> Handler]
  BY <1>1, <1>2 DEF Fits
<1>4. Asking' /\ OnRoute'
  BY <1>1, <1>2, <1>3 DEF Asking, OnRoute, At, Fits
<1>5. UNCHANGED <<seeding, restarts>> /\ served' \in 0..MaxRequest
  <2>1. ASSUME NEW q \in Asked, Begin(t, q)
        PROVE  UNCHANGED <<seeding, restarts>> /\ served' \in 0..MaxRequest
    BY <1>1, <2>1 DEF Begin
  <2>2. CASE Write(t)
    BY <1>1, <2>2 DEF Write
  <2>3. ASSUME \/ ReadMembers(t) \/ ReadAncestors(t) \/ ReadRules(t)
               \/ CheckExists(t) \/ CheckScope(t) \/ CountMembers(t)
        PROVE  UNCHANGED <<seeding, restarts>> /\ served' \in 0..MaxRequest
    BY <1>1, <2>3 DEF ReadMembers, ReadAncestors, ReadRules, CheckExists, CheckScope, CountMembers
  <2> QED BY <2>1, <2>2, <2>3 DEF Step
<1> QED BY <1>3, <1>4, <1>5

-----------------------------------------------------------------------------
(* What the observations show *)

\* The observations of a request under way only shrink, and never hold what is
\* not in force.
Observation == [deny : SUBSET ((1..MaxRule) \X Group), allow : SUBSET ((1..MaxRule) \X Group),
                outside : BOOLEAN]

LEMMA LookFacts ==
  ASSUME NEW t \in Thread, seen'[t] = Look(t), seen[t] \in Observation
  PROVE  /\ handler'[t].pc = "idle" => seen'[t] = NothingSeen
         /\ seen'[t].deny \subseteq Backing(t, FALSE)'
         /\ seen'[t].allow \subseteq Backing(t, TRUE)'
         /\ ~ At(t, "idle") => /\ seen'[t].deny \subseteq seen[t].deny
                               /\ seen'[t].allow \subseteq seen[t].allow
<1>1. CASE handler'[t].pc = "idle"
  <2>1. seen'[t] = NothingSeen
    BY <1>1 DEF Look
  <2> QED BY <2>1 DEF NothingSeen
<1>2. CASE handler'[t].pc # "idle" /\ At(t, "idle")
  <2>1. seen'[t].deny = Backing(t, FALSE)' /\ seen'[t].allow = Backing(t, TRUE)'
    BY <1>2 DEF Look
  <2> QED BY <1>2, <2>1
<1>3. CASE handler'[t].pc # "idle" /\ ~ At(t, "idle")
  <2>1. seen'[t] = [seen[t] EXCEPT !.deny = @ \cap Backing(t, FALSE)',
                                   !.allow = @ \cap Backing(t, TRUE)']
    BY <1>3 DEF Look
  <2>2. /\ seen'[t].deny = seen[t].deny \cap Backing(t, FALSE)'
        /\ seen'[t].allow = seen[t].allow \cap Backing(t, TRUE)'
    BY <2>1 DEF Observation
  <2> QED BY <1>3, <2>2
<1> QED BY <1>1, <1>2, <1>3

\* What a pair that backs a verdict stands for.
LEMMA BackingFacts ==
  ASSUME TablesOK, NEW t \in Thread, NEW verdict \in BOOLEAN, NEW p \in Backing(t, verdict)
  PROVE  /\ p[1] \in DOMAIN rules /\ p[2] \in DirectGroups(handler[t].q.actor)
         /\ rules[p[1]].group \in AncestorIds(p[2])
         /\ Matches(p[1], Needed(handler[t].q), NeededOn(handler[t].q))
         /\ rules[p[1]].allow = verdict
  BY DEF Backing

LEMMA BackingNext ==
  ASSUME AccessAssumption, TablesOK', NEW t \in Thread, NEW verdict \in BOOLEAN
  PROVE  /\ Backing(t, verdict)' \subseteq (1..MaxRule) \X Group
         /\ \A p \in Backing(t, verdict)' :
              /\ p[2] \in DirectGroups(handler[t].q.actor)'
              /\ rules'[p[1]].group \in AncestorIds(p[2])'
              /\ rules'[p[1]].group \in Group
<1>1. DOMAIN rules' \subseteq 1..MaxRule
  <2>1. DOMAIN rules' = 1..Len(rules') /\ Len(rules') \in Nat /\ Len(rules') <= MaxRule
    BY DEF TablesOK
  <2> QED BY <2>1 DEF AccessAssumption
<1>2. DirectGroups(handler[t].q.actor)' \subseteq Group
  BY DEF DirectGroups, groups
<1>3. \A p \in Backing(t, verdict)' :
        /\ p \in (DOMAIN rules') \X DirectGroups(handler[t].q.actor)'
        /\ rules'[p[1]].group \in AncestorIds(p[2])'
  BY DEF Backing
<1>4. \A g : AncestorIds(g)' \subseteq Group
  BY DEF AncestorIds, groups
<1> QED BY <1>1, <1>2, <1>3, <1>4

\* A pair that stays in force keeps the group of its rule.
LEMMA GroupStays ==
  ASSUME AccessAssumption, TablesOK, TablesOK', RulesKept, NEW t \in Thread,
         NEW verdict \in BOOLEAN, NEW p \in Backing(t, verdict), p \in Backing(t, verdict)'
  PROVE  rules'[p[1]].group = rules[p[1]].group
<1>1. rules'[p[1]].group \in Group /\ 0 \notin Group
  BY BackingNext, GroupFacts
<1>2. p[1] \in DOMAIN rules
  BY BackingFacts
<1> QED BY <1>1, <1>2 DEF RulesKept

LEMMA InForceKept ==
  ASSUME AccessAssumption, Shape, Next, NEW t \in Thread, NEW verdict \in BOOLEAN, NEW p,
         p \in Backing(t, verdict)', ~ At(t, "idle") => InForce(t, p, verdict),
         handler'[t].pc # "idle"
  PROVE  InForce(t, p, verdict)'
<1>1. TablesOK /\ TablesOK' /\ RulesKept
  BY TablesKept DEF Shape, TypeOK, TablesOK
<1>2. handler \in [Thread -> Handler] /\ handler[t] \in Handler
  BY DEF Shape, TypeOK
<1>3. CASE handler'[t] = handler[t]
  <2>1. InForce(t, p, verdict)
    BY <1>3 DEF At
  <2>2. p \in Backing(t, verdict)
    BY <2>1 DEF InForce
  <2>3. rules'[p[1]].group = rules[p[1]].group
    BY <1>1, <2>2, GroupStays
  <2> QED BY <1>3, <2>1, <2>3 DEF InForce, At
<1>4. CASE Restart
  BY <1>4, IdleFits DEF Restart
<1>5. CASE SeedGrant
  BY <1>3, <1>5 DEF SeedGrant
<1>6. ASSUME NEW s \in Thread, Step(s), s # t PROVE InForce(t, p, verdict)'
  BY <1>3, <1>6, HandlersKept
<1>7. CASE handler'[t].pc \notin {"ancestors", "rules"}
  BY <1>7 DEF InForce, At
<1>8. CASE Step(t)
  <2>1. ASSUME NEW q \in Asked, Begin(t, q) PROVE handler'[t].pc \notin {"ancestors", "rules"}
    <3>1. q.op \in Op
      BY RequestShape
    <3>2. handler'[t].pc = IF q.actor \in Super THEN Route[q.op]["rules"] ELSE "members"
      BY <1>2, <2>1, IdleFits DEF Begin, Handler
    <3> QED BY <3>1, <3>2, Routes DEF Decided
  <2>2. CASE ReadMembers(t)
    <3>1. /\ DirectGroups(handler[t].q.actor)' = DirectGroups(handler[t].q.actor)
          /\ p[2] \in DirectGroups(handler[t].q.actor)
      <4>1. p[2] \in DirectGroups(handler[t].q.actor)'
        BY <1>1, BackingNext
      <4>2. handler'[t].q = handler[t].q
        BY <1>2, <2>2 DEF ReadMembers, Handler
      <4>3. UNCHANGED <<parent, members>>
        BY <2>2 DEF ReadMembers, tables
      <4> QED BY <4>1, <4>2, <4>3 DEF DirectGroups, groups
    <3>2. /\ handler'[t].direct = DirectGroups(handler[t].q.actor)
          /\ handler'[t].todo = handler'[t].direct
          /\ handler'[t].pc = IF handler'[t].direct = {} THEN "rules" ELSE "ancestors"
      BY <1>2, <2>2 DEF ReadMembers, Handler
    <3>3. p[2] \in handler'[t].direct /\ handler'[t].pc = "ancestors" /\ p[2] \in handler'[t].todo
      BY <3>1, <3>2
    <3> QED BY <3>3 DEF InForce, At
  <2>3. CASE ReadAncestors(t)
    <3>1. PICK g \in handler[t].todo :
            handler' = [handler EXCEPT ![t].todo = @ \ {g},
                                       ![t].above = @ \cup AncestorIds(g),
                                       ![t].pc = IF handler[t].todo = {g} THEN "rules" ELSE @]
      BY <2>3 DEF ReadAncestors
    <3>2. /\ handler'[t].todo = handler[t].todo \ {g}
          /\ handler'[t].above = handler[t].above \cup AncestorIds(g)
          /\ handler'[t].pc = IF handler[t].todo = {g} THEN "rules" ELSE handler[t].pc
          /\ handler'[t].direct = handler[t].direct
      BY <1>2, <3>1 DEF Handler
    <3>3. InForce(t, p, verdict) /\ handler[t].pc = "ancestors"
      BY <2>3 DEF ReadAncestors, At
    <3>4. p \in Backing(t, verdict) /\ p[2] \in handler[t].direct
      BY <3>3 DEF InForce, At
    <3>5. rules[p[1]].group \in AncestorIds(p[2]) /\ rules' = rules
      BY <1>1, <2>3, <3>4, BackingFacts DEF ReadAncestors, tables
    <3>6. p[2] \notin handler'[t].todo => rules'[p[1]].group \in handler'[t].above
      <4>1. p[2] \notin handler[t].todo => rules[p[1]].group \in handler[t].above
        BY <3>3 DEF InForce, At
      <4> QED BY <3>2, <3>5, <4>1
    <3>7. handler'[t].pc = "rules" => handler'[t].todo = {}
      BY <3>2, <3>3
    <3> QED BY <3>2, <3>4, <3>6, <3>7 DEF InForce, At
  <2>4. CASE Onward(t) /\ (At(t, "rules") \/ At(t, "exists") \/ At(t, "scope") \/ At(t, "count"))
    <3>1. handler'[t].pc \in Decided
      BY <2>4, OnwardStep
    <3> QED BY <1>7, <3>1 DEF Decided
  <2>5. CASE Finish(t)
    BY <1>2, <2>5, IdleFits DEF Finish
  <2>6. CASE ReadRules(t) \/ CheckExists(t) \/ CheckScope(t) \/ CountMembers(t) \/ Write(t)
    BY <2>4, <2>5, <2>6 DEF ReadRules, CheckExists, CheckScope, CountMembers, Write
  <2> QED BY <1>7, <1>8, <2>1, <2>2, <2>3, <2>6 DEF Step
<1> QED BY <1>4, <1>5, <1>6, <1>8 DEF Next

-----------------------------------------------------------------------------
(* Type correctness *)

LEMMA ObservationNext ==
  ASSUME AccessAssumption, Shape, TablesOK', NEW t \in Thread, seen'[t] = Look(t)
  PROVE  seen'[t] \in Observation
<1>1. /\ seen[t] \in Observation
      /\ Backing(t, FALSE)' \subseteq (1..MaxRule) \X Group
      /\ Backing(t, TRUE)' \subseteq (1..MaxRule) \X Group
  BY BackingNext DEF Shape, TypeOK, Observation
<1>2. Outside(t)' \in BOOLEAN
  BY DEF Outside
<1>3. CASE handler'[t].pc = "idle"
  BY <1>3 DEF Look, NothingSeen, Observation
<1>4. CASE handler'[t].pc # "idle" /\ At(t, "idle")
  <2>1. PICK outside \in BOOLEAN : outside = Outside(t)'
    BY <1>2
  <2>2. seen'[t] = [deny |-> Backing(t, FALSE)', allow |-> Backing(t, TRUE)',
                    outside |-> outside]
    BY <1>4, <2>1, Zenon DEF Look
  <2>3. /\ Backing(t, FALSE)' \in SUBSET ((1..MaxRule) \X Group)
        /\ Backing(t, TRUE)' \in SUBSET ((1..MaxRule) \X Group)
    BY <1>1
  <2>4. ASSUME NEW deny \in SUBSET ((1..MaxRule) \X Group),
               NEW allow \in SUBSET ((1..MaxRule) \X Group)
        PROVE  [deny |-> deny, allow |-> allow, outside |-> outside] \in Observation
    BY DEF Observation
  <2> QED BY <2>2, <2>3, <2>4
<1>5. CASE handler'[t].pc # "idle" /\ ~ At(t, "idle")
  <2>1. seen'[t] = [seen[t] EXCEPT !.deny = @ \cap Backing(t, FALSE)',
                                   !.allow = @ \cap Backing(t, TRUE)']
    BY <1>5 DEF Look
  <2>2. /\ seen[t].deny \cap Backing(t, FALSE)' \in SUBSET ((1..MaxRule) \X Group)
        /\ seen[t].allow \cap Backing(t, TRUE)' \in SUBSET ((1..MaxRule) \X Group)
    BY <1>1
  <2> QED BY <1>1, <2>1, <2>2 DEF Observation
<1> QED BY <1>3, <1>4, <1>5

LEMMA ShapeInit ==
  ASSUME AccessAssumption, Init
  PROVE  Shape
<1>1. groups = 1..SeedGroups
  BY DEF Init, groups, Group, GroupOrNull, NoGroup, AccessAssumption
<1>2. SeedKept
  BY <1>1 DEF SeedKept
<1>3. Asking /\ OnRoute
  BY IdleFits DEF Init, Asking, OnRoute, At
<1>4. TypeOK
  <2>1. parent \in [Group -> GroupOrNull \cup {NoGroup}] /\ nextGroup \in 1..(MaxGroup + 1)
    BY DEF Init, Group, GroupOrNull, AccessAssumption
  <2>2. \A g \in groups : parent[g] \in groups \cup {0}
    BY <1>1 DEF Init, groups, Group
  <2>3. members \subseteq User \X Group /\ \A m \in members : m[2] \in groups
    BY <1>1 DEF Init, AccessAssumption, groups
  <2>4. rules \in Seq(Rule \cup {Gone}) /\ Len(rules) <= MaxRule /\ DOMAIN rules = {}
    BY DEF Init, AccessAssumption
  <2>5. handler \in [Thread -> Handler]
    BY IdleFits DEF Init
  <2>6. seen \in [Thread -> [deny : SUBSET ((1..MaxRule) \X Group),
                             allow : SUBSET ((1..MaxRule) \X Group),
                             outside : BOOLEAN]]
    BY DEF Init, NothingSeen
  <2>7. Len(SeedRule) \in Nat
    BY DEF AccessAssumption
  <2>8. /\ seeding \in 1..(Len(SeedRule) + 1) /\ served \in 0..MaxRequest
        /\ restarts \in 0..MaxRestart
        /\ resources \subseteq Resource /\ erased \subseteq Resource /\ folders \subseteq Resource
    BY <2>7 DEF Init, AccessAssumption
  <2> QED BY <2>1, <2>2, <2>3, <2>4, <2>5, <2>6, <2>8 DEF TypeOK
<1> QED BY <1>2, <1>3, <1>4 DEF Shape

LEMMA ShapeStep ==
  ASSUME AccessAssumption, Shape, [Next]_vars
  PROVE  Shape'
<1>1. CASE UNCHANGED vars
  BY <1>1 DEF vars, tables, Shape, TypeOK, groups, Live, SeedKept, Asking, OnRoute, At
<1>2. CASE Next
  <2>1. TablesOK'
    BY <1>2, TablesKept
  <2>2. seen' \in [Thread -> Observation]
    BY <1>2, <2>1, ObservationNext DEF Next
  <2>3. /\ handler' \in [Thread -> Handler] /\ Asking' /\ OnRoute'
        /\ seeding' \in 1..(Len(SeedRule) + 1) /\ served' \in 0..MaxRequest
        /\ restarts' \in 0..MaxRestart
    <3>1. /\ handler \in [Thread -> Handler] /\ Asking /\ OnRoute
          /\ seeding \in 1..(Len(SeedRule) + 1) /\ served \in 0..MaxRequest
          /\ restarts \in 0..MaxRestart
          /\ Len(SeedRule) \in Nat /\ MaxRestart \in Nat
      BY DEF Shape, TypeOK, AccessAssumption
    <3>2. CASE Restart
      <4>1. \A t \in Thread : handler'[t] = Idle
        BY <3>2 DEF Restart
      <4>2. handler' \in [Thread -> Handler]
        BY <3>2, IdleFits DEF Restart
      <4>3. Asking' /\ OnRoute'
        BY <4>1, IdleFits DEF Asking, OnRoute, At
      <4> QED BY <3>1, <3>2, <4>2, <4>3 DEF Restart
    <3>3. CASE SeedGrant
      BY <3>1, <3>3 DEF SeedGrant, Asking, OnRoute, At
    <3>4. CASE \E t \in Thread : Step(t)
      BY <3>1, <3>4, HandlersKept
    <3> QED BY <1>2, <3>2, <3>3, <3>4 DEF Next
  <2> QED BY <2>1, <2>2, <2>3 DEF Shape, TypeOK, TablesOK, Observation
<1> QED BY <1>1, <1>2


\* Whatever the interleaving, the tables, the handlers and the observations
\* keep their shape: parents, members and rules refer to groups that are there.
THEOREM TypeCorrect == Spec => []TypeOK
<1>1. Init => Shape
  BY AccessAssumption, ShapeInit
<1>2. Shape /\ [Next]_vars => Shape'
  BY AccessAssumption, ShapeStep
<1>3. Shape => TypeOK
  BY DEF Shape
<1> QED BY <1>1, <1>2, <1>3, PTL DEF Spec

-----------------------------------------------------------------------------
(* Checks of permissions *)

LEMMA WatchedInit ==
  ASSUME Init
  PROVE  Watched
  BY DEF Init, Watched, NothingSeen

LEMMA WatchedStep ==
  ASSUME AccessAssumption, Shape, Watched, [Next]_vars
  PROVE  Watched'
<1>1. CASE UNCHANGED vars
  <2>1. \A t \in Thread : \A p, verdict : InForce(t, p, verdict) => InForce(t, p, verdict)'
    BY <1>1 DEF vars, tables, InForce, At, Backing, AncestorIds, DirectGroups, groups, Matches
  <2> QED BY <1>1, <2>1 DEF Watched, vars
<1>2. CASE Next
  <2>1. SUFFICES ASSUME NEW t \in Thread
                 PROVE  /\ \A p \in seen'[t].deny : InForce(t, p, FALSE)'
                        /\ \A p \in seen'[t].allow : InForce(t, p, TRUE)'
    BY DEF Watched
  <2>2. seen'[t] = Look(t) /\ seen[t] \in Observation
    BY <1>2 DEF Next, Shape, TypeOK, Observation
  <2>3. CASE handler'[t].pc = "idle"
    <3>1. seen'[t] = NothingSeen
      BY <2>2, <2>3, LookFacts
    <3> QED BY <3>1 DEF NothingSeen
  <2>4. CASE handler'[t].pc # "idle"
    <3>1. ASSUME NEW p \in seen'[t].deny PROVE InForce(t, p, FALSE)'
      <4>1. p \in Backing(t, FALSE)' /\ (~ At(t, "idle") => InForce(t, p, FALSE))
        BY <2>2, <3>1, LookFacts DEF Watched
      <4> QED BY <1>2, <2>4, <4>1, InForceKept
    <3>2. ASSUME NEW p \in seen'[t].allow PROVE InForce(t, p, TRUE)'
      <4>1. p \in Backing(t, TRUE)' /\ (~ At(t, "idle") => InForce(t, p, TRUE))
        BY <2>2, <3>2, LookFacts DEF Watched
      <4> QED BY <1>2, <2>4, <4>1, InForceKept
    <3> QED BY <3>1, <3>2
  <2> QED BY <2>3, <2>4
<1> QED BY <1>1, <1>2

\* At the verdict, whatever has been in force all along is among the rows read.
LEMMA VerdictSeesAll ==
  ASSUME Shape, Watched, NEW t \in Thread, At(t, "rules")
  PROVE  /\ seen[t].deny # {} => ~ Allowed(handler[t].above, Needed(handler[t].q), NeededOn(handler[t].q))
         /\ seen[t].allow # {} =>
              \E i \in DOMAIN rules : /\ rules[i].group \in handler[t].above /\ rules[i].allow
                                      /\ Matches(i, Needed(handler[t].q), NeededOn(handler[t].q))
<1>1. ASSUME NEW verdict \in BOOLEAN, NEW p, InForce(t, p, verdict)
      PROVE  /\ p[1] \in DOMAIN rules /\ rules[p[1]].group \in handler[t].above
             /\ rules[p[1]].allow = verdict
             /\ Matches(p[1], Needed(handler[t].q), NeededOn(handler[t].q))
  BY <1>1 DEF InForce, Backing
<1>2. \A p \in seen[t].deny : InForce(t, p, FALSE)
  BY DEF Watched
<1>3. \A p \in seen[t].allow : InForce(t, p, TRUE)
  BY DEF Watched
<1>4. ASSUME NEW p \in seen[t].deny
      PROVE  ~ Allowed(handler[t].above, Needed(handler[t].q), NeededOn(handler[t].q))
  <2>1. /\ p[1] \in DOMAIN rules /\ rules[p[1]].group \in handler[t].above
        /\ rules[p[1]].allow = FALSE
        /\ Matches(p[1], Needed(handler[t].q), NeededOn(handler[t].q))
    BY <1>1, <1>2
  <2> QED BY <2>1 DEF Allowed
<1>5. ASSUME NEW p \in seen[t].allow
      PROVE  \E i \in DOMAIN rules : /\ rules[i].group \in handler[t].above /\ rules[i].allow
                                     /\ Matches(i, Needed(handler[t].q), NeededOn(handler[t].q))
  <2>1. /\ p[1] \in DOMAIN rules /\ rules[p[1]].group \in handler[t].above
        /\ rules[p[1]].allow = TRUE
        /\ Matches(p[1], Needed(handler[t].q), NeededOn(handler[t].q))
    BY <1>1, <1>3
  <2> QED BY <2>1
<1> QED BY <1>4, <1>5

LEMMA DenialStep ==
  ASSUME AccessAssumption, Shape, Watched, DenialHolds, [Next]_vars
  PROVE  DenialHolds'
<1>1. CASE UNCHANGED vars
  BY <1>1 DEF vars, DenialHolds, Passed
<1>2. CASE Next
  <2> SUFFICES ASSUME NEW t \in Thread, Passed(t)'
               PROVE  seen'[t].deny = {}
    BY DEF DenialHolds
  <2>1. handler \in [Thread -> Handler] /\ handler[t] \in Handler
    BY DEF Shape, TypeOK
  <2>2. /\ ~ At(t, "idle") => seen'[t].deny \subseteq seen[t].deny
        /\ handler'[t].pc # "idle"
    <3>1. seen'[t] = Look(t) /\ seen[t] \in Observation
      BY <1>2 DEF Next, Shape, TypeOK, Observation
    <3> QED BY <3>1, LookFacts DEF Passed, Decided
  <2>3. CASE Passed(t)
    BY <2>2, <2>3 DEF DenialHolds, Passed, Decided, At
  <2>4. CASE handler'[t] = handler[t]
    BY <2>3, <2>4 DEF Passed
  <2>5. CASE Restart
    BY <2>2, <2>5, IdleFits DEF Restart
  <2>6. CASE SeedGrant
    BY <2>4, <2>6 DEF SeedGrant
  <2>7. ASSUME NEW s \in Thread, Step(s), s # t PROVE seen'[t].deny = {}
    BY <2>4, <2>7, HandlersKept
  <2>8. CASE Step(t)
    <3>1. ASSUME NEW q \in Asked, Begin(t, q) PROVE FALSE
      <4>1. handler'[t].q = q /\ handler'[t].pc = IF q.actor \in Super THEN Route[q.op]["rules"] ELSE "members"
        BY <2>1, <3>1, IdleFits DEF Begin, Handler
      <4> QED BY <4>1 DEF Passed, Decided
    <3>2. CASE ReadMembers(t)
      <4>1. handler'[t].pc \in {"rules", "ancestors"}
        BY <2>1, <3>2 DEF ReadMembers, Handler
      <4> QED BY <4>1 DEF Passed, Decided
    <3>3. CASE ReadAncestors(t)
      <4>1. handler'[t].pc \in {"rules", "ancestors"}
        BY <2>1, <3>3 DEF ReadAncestors, Handler, At
      <4> QED BY <4>1 DEF Passed, Decided
    <3>4. CASE Finish(t)
      BY <2>1, <2>2, <3>4, IdleFits DEF Finish
    <3>5. CASE Onward(t) /\ At(t, "rules")
                /\ Allowed(handler[t].above, Needed(handler[t].q), NeededOn(handler[t].q))
      BY <2>2, <3>5, VerdictSeesAll DEF At
    <3>6. CASE Onward(t) /\ (At(t, "exists") \/ At(t, "scope") \/ At(t, "count"))
      <4>1. handler'[t].q = handler[t].q
        <5>1. handler'[t] = [handler[t] EXCEPT !.pc = handler'[t].pc]
          BY <3>6, OnwardStep
        <5> QED BY <2>1, <5>1 DEF Handler
      <4>2. Passed(t)
        BY <3>6, <4>1 DEF Passed, Decided, At
      <4> QED BY <2>3, <4>2
    <3>7. CASE ReadRules(t)
      BY <3>4, <3>5, <3>7 DEF ReadRules
    <3>8. CASE CheckExists(t) \/ CheckScope(t) \/ CountMembers(t) \/ Write(t)
      BY <3>4, <3>6, <3>8 DEF CheckExists, CheckScope, CountMembers, Write
    <3> QED BY <2>8, <3>1, <3>2, <3>3, <3>7, <3>8 DEF Step
  <2> QED BY <1>2, <2>5, <2>6, <2>7, <2>8 DEF Next
<1> QED BY <1>1, <1>2

\* has_permission never grants against a denial that has been in force since
\* the request began, however its three reads interleave with the others.
THEOREM DenialsHold == Spec => []DenialHolds
<1>1. Init => Shape /\ Watched /\ DenialHolds
  <2>1. Init => DenialHolds
    BY DEF Init, DenialHolds, Passed, NothingSeen
  <2> QED BY <2>1, AccessAssumption, ShapeInit, WatchedInit
<1>2. (Shape /\ Watched /\ DenialHolds) /\ [Next]_vars => (Shape /\ Watched /\ DenialHolds)'
  BY AccessAssumption, ShapeStep, WatchedStep, DenialStep
<1> QED BY <1>1, <1>2, PTL DEF Spec

\* has_permission loses no right on the way: a refusal in spite of a rule in
\* force all along means that another rule denies.
THEOREM RightsHold == Spec => RightHolds
<1> DEFINE Right ==
       \A t \in Thread :
         /\ At(t, "rules") /\ handler'[t].pc = "idle" /\ restarts' = restarts
         /\ seen[t].allow # {}
         => \E i \in DOMAIN rules : /\ Live(i) /\ ~ rules[i].allow
                                    /\ Matches(i, Needed(handler[t].q), NeededOn(handler[t].q))
<1>1. Init => Shape /\ Watched
  BY AccessAssumption, ShapeInit, WatchedInit
<1>2. (Shape /\ Watched) /\ [Next]_vars => (Shape /\ Watched)'
  BY AccessAssumption, ShapeStep, WatchedStep
<1>3. Shape /\ Watched /\ [Next]_vars => [Right]_vars
  <2> SUFFICES ASSUME Shape, Watched, Next, NEW t \in Thread,
                      At(t, "rules"), handler'[t].pc = "idle", restarts' = restarts,
                      seen[t].allow # {}
               PROVE  \E i \in DOMAIN rules :
                        /\ Live(i) /\ ~ rules[i].allow
                        /\ Matches(i, Needed(handler[t].q), NeededOn(handler[t].q))
    OBVIOUS
  <2>1. handler[t] \in Handler /\ handler[t].above \subseteq Group /\ restarts \in Nat
    BY AccessAssumption DEF Shape, TypeOK, Handler
  <2>2. handler'[t] # handler[t]
    BY DEF At
  <2>3. Step(t)
    <3>1. ~ Restart
      BY <2>1 DEF Restart
    <3>2. ~ SeedGrant
      BY <2>2 DEF SeedGrant
    <3>3. \A s \in Thread : Step(s) => s = t
      BY <2>2, AccessAssumption, HandlersKept
    <3> QED BY <3>1, <3>2, <3>3 DEF Next
  <2>4. ReadRules(t)
    BY <2>3 DEF Step, Begin, ReadMembers, ReadAncestors, CheckExists, CheckScope, CountMembers, Write, At
  <2>5. ~ Allowed(handler[t].above, Needed(handler[t].q), NeededOn(handler[t].q))
    <3>1. ASSUME Onward(t) PROVE FALSE
      BY <3>1, AccessAssumption, OnwardStep DEF Decided
    <3> QED BY <2>4, <3>1 DEF ReadRules
  <2>6. PICK i \in DOMAIN rules : /\ rules[i].group \in handler[t].above /\ rules[i].allow
                                  /\ Matches(i, Needed(handler[t].q), NeededOn(handler[t].q))
    BY VerdictSeesAll
  <2>7. PICK j \in DOMAIN rules : /\ rules[j].group \in handler[t].above /\ ~ rules[j].allow
                                  /\ Matches(j, Needed(handler[t].q), NeededOn(handler[t].q))
    BY <2>5, <2>6 DEF Allowed
  <2>8. Live(j)
    BY <2>1, <2>7, AccessAssumption, GroupFacts DEF Live
  <2> QED BY <2>7, <2>8
<1> QED BY <1>1, <1>2, <1>3, PTL DEF Spec, RightHolds

-----------------------------------------------------------------------------
(* Granting twice *)

\* A grant replaces the rule of its target or, for a new target, adds one.
LEMMA GrantedOnce ==
  ASSUME AccessAssumption, TablesOK, OneRulePerResource, NEW target, NEW allow \in BOOLEAN,
         target.group \in Group, target.res \in Resource \cup {Everywhere},
         target.code \in Code, rules' = Granted(rules, target, allow)
  PROVE  OneRulePerResource'
<1> DEFINE same == {i \in DOMAIN rules : /\ rules[i].group = target.group /\ rules[i].res = target.res
                                         /\ rules[i].code = target.code}
<1>1. rules \in Seq(Rule \cup {Gone}) /\ DOMAIN rules = 1..Len(rules) /\ Len(rules) \in Nat
  BY DEF TablesOK
<1>2. CASE target.res = Everywhere \/ same = {}
  <2> DEFINE new == WithAllow(target, allow)
  <2>1. rules' = Append(rules, new)
    BY <1>2 DEF Granted
  <2>2. new.group = target.group /\ new.res = target.res /\ new.code = target.code /\ new \in Rule
    BY DEF WithAllow, Rule
  <2> HIDE DEF new
  <2>3. /\ DOMAIN rules' = 1..(Len(rules) + 1) /\ rules'[Len(rules) + 1] = new
        /\ \A i \in DOMAIN rules : rules'[i] = rules[i]
    BY <1>1, <2>1, <2>2, AppendProperties
  <2>4. \A i \in DOMAIN rules' : i \in DOMAIN rules \/ i = Len(rules) + 1
    BY <1>1, <2>3
  <2> SUFFICES ASSUME NEW i \in DOMAIN rules', NEW j \in DOMAIN rules',
                      Live(i)', Live(j)', i # j, rules'[i].res # Everywhere
               PROVE  <<rules'[i].group, rules'[i].res, rules'[i].code>>
                        # <<rules'[j].group, rules'[j].res, rules'[j].code>>
    BY DEF OneRulePerResource
  <2>5. CASE i \in DOMAIN rules /\ j \in DOMAIN rules
    BY <2>3, <2>5 DEF OneRulePerResource, Live
  <2>6. CASE i = Len(rules) + 1 /\ j \in DOMAIN rules
    BY <1>2, <2>2, <2>3, <2>6
  <2>7. CASE i \in DOMAIN rules /\ j = Len(rules) + 1
    BY <1>2, <2>2, <2>3, <2>7
  <2> QED BY <2>4, <2>5, <2>6, <2>7
<1>3. CASE ~ (target.res = Everywhere \/ same = {})
  <2>1. rules' = [i \in DOMAIN rules |-> IF i \in same THEN WithAllow(rules[i], allow) ELSE rules[i]]
    BY <1>3 DEF Granted
  <2>2. \A i \in DOMAIN rules : /\ rules'[i].group = rules[i].group /\ rules'[i].res = rules[i].res
                                /\ rules'[i].code = rules[i].code
    BY <2>1 DEF WithAllow
  <2>3. DOMAIN rules' = DOMAIN rules
    BY <2>1
  <2> QED BY <2>2, <2>3 DEF OneRulePerResource, Live
<1> QED BY <1>2, <1>3

LEMMA GoneOnce ==
  ASSUME TablesOK, OneRulePerResource, NEW gone \in SUBSET Nat,
         rules' = [i \in DOMAIN rules |-> IF i \in gone THEN Gone ELSE rules[i]]
  PROVE  OneRulePerResource'
<1>1. \A i \in DOMAIN rules' : Live(i)' => i \in DOMAIN rules /\ rules'[i] = rules[i]
  BY RulesGoneKeep
<1> QED BY <1>1 DEF OneRulePerResource, Live

LEMMA OneRuleStep ==
  ASSUME AccessAssumption, Shape, OneRulePerResource, [Next]_vars
  PROVE  OneRulePerResource'
<1>1. CASE rules' = rules
  BY <1>1 DEF OneRulePerResource, Live
<1>2. TablesOK
  BY DEF Shape, TypeOK, TablesOK
<1>3. CASE SeedGrant
  <2> DEFINE target == SeedRule[seeding]
             Seeded == [group : 1..SeedGroups, res : SeedResource \cup {Everywhere}, code : Code]
  <2>1. seeding \in 1..Len(SeedRule)
    BY <1>3 DEF SeedGrant, Shape, TypeOK, AccessAssumption
  <2>2. SeedRule \in Seq(Seeded)
    BY DEF AccessAssumption
  <2>3. target \in Seeded
    <3> HIDE DEF Seeded
    <3> QED BY <2>1, <2>2
  <2>4. /\ target.group \in Group /\ target.res \in Resource \cup {Everywhere}
        /\ target.code \in Code
    BY <2>3, GroupFacts DEF AccessAssumption, GroupOrNull, Group
  <2>5. rules' = Granted(rules, target, TRUE)
    BY <1>3 DEF SeedGrant
  <2> HIDE DEF target
  <2> QED BY <1>2, <2>4, <2>5, GrantedOnce
<1>4. ASSUME NEW t \in Thread, Write(t) PROVE OneRulePerResource'
  <2> DEFINE q == handler[t].q
  <2>1. q \in Asked
    BY <1>4 DEF Shape, Asking, Write, At
  <2>2. /\ q.code \in Code /\ q.res \in Resource \cup {Everywhere} /\ q.allow \in BOOLEAN
    BY <2>1, RequestShape
  <2> HIDE DEF q
  <2>3. CASE Grant(q) /\ rules' # rules
    <3>1. rules' = Granted(rules, q, q.allow) /\ q.group \in Group
      BY <2>3, GroupFacts DEF Grant
    <3> QED BY <1>2, <2>2, <3>1, GrantedOnce
  <2>4. CASE DropGroup(q)
    <3> DEFINE gone == {i \in DOMAIN rules : rules[i].group = q.group}
    <3>1. rules' = [i \in DOMAIN rules |-> IF i \in gone THEN Gone ELSE rules[i]]
      BY <2>4 DEF DropGroup, CascadeGroup
    <3>2. gone \in SUBSET Nat
      BY <1>2 DEF TablesOK
    <3> HIDE DEF gone
    <3> QED BY <1>2, <3>1, <3>2, GoneOnce
  <2>5. CASE DeletePermission(q)
    <3> DEFINE gone == {i \in DOMAIN rules : i = q.rule}
    <3>1. rules' = [i \in DOMAIN rules |-> IF i \in gone THEN Gone ELSE rules[i]]
      BY <2>5 DEF DeletePermission
    <3>2. gone \in SUBSET Nat
      BY <1>2 DEF TablesOK
    <3> HIDE DEF gone
    <3> QED BY <1>2, <3>1, <3>2, GoneOnce
  <2>6. CASE DeleteResource(q) /\ rules' # rules
    <3> DEFINE gone == {i \in DOMAIN rules : Live(i) /\ rules[i].res = q.res}
    <3>1. rules' = [i \in DOMAIN rules |-> IF i \in gone THEN Gone ELSE rules[i]]
      BY <2>6 DEF DeleteResource
    <3>2. gone \in SUBSET Nat
      BY <1>2 DEF TablesOK
    <3> HIDE DEF gone
    <3> QED BY <1>2, <3>1, <3>2, GoneOnce
  <2>7. CASE \/ Answer(q) \/ CreateFolder(q) \/ CreateGroup(q) \/ BindUser(q) \/ UnbindUser(q)
             \/ CreateResource(q)
    BY <1>1, <2>7 DEF Answer, tables, CreateFolder, CreateGroup, BindUser, UnbindUser, CreateResource
  <2> QED BY <1>1, <1>4, <2>3, <2>4, <2>5, <2>6, <2>7 DEF Write, q
<1>5. CASE ~ SeedGrant /\ ~ \E t \in Thread : Write(t)
  BY <1>1, <1>5 DEF Next, vars, tables, Restart, Step, Begin, ReadMembers, ReadAncestors,
                    ReadRules, CheckExists, CheckScope, CountMembers
<1> QED BY <1>3, <1>4, <1>5

\* The last grant for a target on a resource is the only rule in force,
\* through requests, deletions and seeds alike.
THEOREM LastWordStands == Spec => []OneRulePerResource
<1>1. Init => Shape /\ OneRulePerResource
  <2>1. Init => OneRulePerResource
    BY DEF Init, OneRulePerResource
  <2> QED BY <2>1, AccessAssumption, ShapeInit
<1>2. (Shape /\ OneRulePerResource) /\ [Next]_vars => (Shape /\ OneRulePerResource)'
  BY AccessAssumption, ShapeStep, OneRuleStep
<1> QED BY <1>1, <1>2, PTL DEF Spec

-----------------------------------------------------------------------------
(* The walks through the tree.  What a walk returns is proved by the least  *)
(* group for which it would be wrong: a group is younger than its parent.   *)

\* Of some of the numbers up to a limit one is the least.
LEMMA SmallestNumber ==
  ASSUME NEW N \in Nat, NEW W \in SUBSET (0..N), W # {}
  PROVE  \E x \in W : \A y \in W : x <= y
<1> DEFINE Some == {1..k : k \in W}
<1>1. IsFiniteSet(1..N)
  BY FS_Interval
<1>2. IsWellFoundedOn(StrictSubsetOrdering(1..N), SUBSET (1..N))
  BY <1>1, FS_StrictSubsetOrderingWellFounded, FS_FiniteSubsetsOfFinite
<1>3. Some \in SUBSET SUBSET (1..N) /\ Some # {}
  <2>1. \A k \in W : 1..k \subseteq 1..N
    OBVIOUS
  <2> QED BY <2>1
<1>4. PICK s \in Some : \A t \in Some : ~ (<<t, s>> \in StrictSubsetOrdering(1..N))
  <2> HIDE DEF Some
  <2> QED BY <1>2, <1>3, WFMin
<1>5. \A t \in Some : t \subseteq s => t = s
  BY <1>3, <1>4 DEF StrictSubsetOrdering
<1>6. PICK k \in W : s = 1..k
  BY <1>4
<1>7. ASSUME NEW y \in W PROVE k <= y
  <2> SUFFICES ASSUME y < k PROVE FALSE
    OBVIOUS
  <2>1. 1..y \subseteq 1..k /\ k \in 1..k /\ k \notin 1..y
    OBVIOUS
  <2>2. 1..y \in Some
    OBVIOUS
  <2> QED BY <1>5, <1>6, <2>1, <2>2
<1> QED BY <1>7

\* A group is inserted after its parent, and its id is not used again.
Older == \A g \in groups : g < nextGroup /\ parent[g] < g

Tree == TablesOK /\ Older

LEMMA TreeFacts ==
  ASSUME AccessAssumption, Tree
  PROVE  /\ MaxGroup \in Nat /\ groups \subseteq 1..MaxGroup
         /\ \A g \in groups : parent[g] \in groups \cup {0} /\ parent[g] < g
         /\ \A g \in Group : g \notin groups => parent[g] \notin groups
  BY GroupFacts DEF Tree, TablesOK, Older, AccessAssumption, Group, GroupOrNull, groups, NoGroup

Up(n, up) == up = [h \in 1..n |-> {h} \cup IF parent[h] \in groups THEN up[parent[h]] ELSE {}]

LEMMA UpExists ==
  ASSUME AccessAssumption, Tree
  PROVE  \A n \in 0..MaxGroup : \E up : Up(n, up)
<1> DEFINE Wrong == {n \in 0..MaxGroup : ~ \E up : Up(n, up)}
<1> SUFFICES ASSUME Wrong # {} PROVE FALSE
  OBVIOUS
<1>1. MaxGroup \in Nat
  BY TreeFacts
<1>2. PICK n \in Wrong : \A m \in Wrong : n <= m
  <2>1. Wrong \in SUBSET (0..MaxGroup)
    OBVIOUS
  <2> HIDE DEF Wrong
  <2> QED BY <1>1, <2>1, SmallestNumber
<1>3. n \in 0..MaxGroup /\ ~ \E up : Up(n, up)
  BY <1>2
<1>4. CASE n = 0
  <2>1. Up(0, [h \in 1..0 |-> {}])
    BY DEF Up
  <2> QED BY <1>3, <1>4, <2>1
<1>5. CASE n # 0
  <2>1. n - 1 \in 0..MaxGroup /\ n - 1 \notin Wrong
    BY <1>1, <1>2, <1>3, <1>5
  <2>2. PICK u : Up(n - 1, u)
    BY <2>1
  <2> DEFINE above(h) == IF parent[h] \in groups THEN u[parent[h]] ELSE {}
             v == [h \in 1..n |-> IF h = n THEN {n} \cup above(n) ELSE u[h]]
  <2>3. \A h \in 1..(n - 1) : u[h] = {h} \cup above(h)
    BY <2>2 DEF Up
  <2>4. \A h \in 1..n : parent[h] \in groups => parent[h] \in 1..(n - 1)
    <3> SUFFICES ASSUME NEW h \in 1..n, parent[h] \in groups PROVE parent[h] \in 1..(n - 1)
      OBVIOUS
    <3>1. h \in Group /\ h \in groups
      BY <1>1, <1>3, TreeFacts DEF Group
    <3>2. parent[h] < h /\ parent[h] \in 1..MaxGroup
      BY <3>1, TreeFacts
    <3> QED BY <1>1, <1>3, <3>2
  <2>5. \A h \in 1..n : v[h] = {h} \cup IF parent[h] \in groups THEN v[parent[h]] ELSE {}
    <3> TAKE h \in 1..n
    <3>1. h = n \/ h \in 1..(n - 1)
      BY <1>1, <1>3
    <3>2. v[h] = {h} \cup above(h)
      BY <2>3, <3>1
    <3>3. parent[h] \in groups => v[parent[h]] = u[parent[h]]
      <4> SUFFICES ASSUME parent[h] \in groups PROVE v[parent[h]] = u[parent[h]]
        OBVIOUS
      <4>1. parent[h] \in 1..(n - 1)
        BY <2>4
      <4>2. parent[h] \in 1..n /\ parent[h] # n
        BY <1>1, <1>3, <4>1
      <4> QED BY <4>2
    <3> HIDE DEF v
    <3> QED BY <3>2, <3>3
  <2>6. Up(n, v)
    <3>1. v = [h \in 1..n |-> v[h]]
      OBVIOUS
    <3> HIDE DEF v
    <3> QED BY <2>5, <3>1 DEF Up
  <2> QED BY <1>3, <2>6
<1> QED BY <1>4, <1>5

\* The walk up from a group is the group and the walk up from its parent.
UpFacts ==
  /\ \A g \in groups : g \in AncestorIds(g)
  /\ \A g, p \in groups : parent[g] = p => AncestorIds(g) = {g} \cup AncestorIds(p)
  /\ \A g \in groups : parent[g] \notin groups => AncestorIds(g) = {g}
  /\ \A g : g \notin groups => AncestorIds(g) = {}

LEMMA UpWalk == Tree => UpFacts
<1> SUFFICES ASSUME Tree PROVE UpFacts
  OBVIOUS
<1> DEFINE u == CHOOSE up : up = [h \in Group |-> {h} \cup IF parent[h] \in groups
                                                           THEN up[parent[h]] ELSE {}]
<1>1. \A g : AncestorIds(g) = IF g \in groups THEN groups \cap u[g] ELSE {}
  BY DEF AncestorIds
<1>2. u = [h \in Group |-> {h} \cup IF parent[h] \in groups THEN u[parent[h]] ELSE {}]
  <2>1. MaxGroup \in 0..MaxGroup
    BY AccessAssumption, TreeFacts
  <2>2. PICK v : Up(MaxGroup, v)
    BY <2>1, AccessAssumption, UpExists
  <2>3. v = [h \in Group |-> {h} \cup IF parent[h] \in groups THEN v[parent[h]] ELSE {}]
    BY <2>2 DEF Up, Group
  <2> QED BY <2>3
<1> HIDE DEF u
<1>3. ASSUME NEW g \in groups
      PROVE  u[g] = {g} \cup IF parent[g] \in groups THEN u[parent[g]] ELSE {}
  <2>1. g \in Group
    BY AccessAssumption, TreeFacts DEF Group
  <2> QED BY <1>2, <2>1
<1> QED BY <1>1, <1>3 DEF UpFacts

\* One more step of the walk down.
WithChildren(above) == above \cup {h \in groups : parent[h] \in above}

Down(g, n, down) ==
  down = [i \in 0..n |-> IF i = 0 THEN {g} ELSE WithChildren(down[i - 1])]

LEMMA DownExists ==
  ASSUME AccessAssumption, NEW g
  PROVE  \A n \in 0..MaxGroup : \E down : Down(g, n, down)
<1> DEFINE Wrong == {n \in 0..MaxGroup : ~ \E down : Down(g, n, down)}
<1> SUFFICES ASSUME Wrong # {} PROVE FALSE
  OBVIOUS
<1>1. MaxGroup \in Nat
  BY DEF AccessAssumption
<1>2. PICK n \in Wrong : \A m \in Wrong : n <= m
  <2>1. Wrong \in SUBSET (0..MaxGroup)
    OBVIOUS
  <2> HIDE DEF Wrong
  <2> QED BY <1>1, <2>1, SmallestNumber
<1>3. n \in 0..MaxGroup /\ ~ \E down : Down(g, n, down)
  BY <1>2
<1>4. CASE n = 0
  <2> DEFINE v == [i \in 0..0 |-> {g}]
  <2>1. v = [i \in 0..0 |-> IF i = 0 THEN {g} ELSE WithChildren(v[i - 1])]
    OBVIOUS
  <2> HIDE DEF v
  <2>2. Down(g, 0, v)
    BY <2>1 DEF Down
  <2> QED BY <1>3, <1>4, <2>2
<1>5. CASE n # 0
  <2>1. n - 1 \in 0..MaxGroup /\ n - 1 \notin Wrong
    BY <1>1, <1>2, <1>3, <1>5
  <2>2. PICK d : Down(g, n - 1, d)
    BY <2>1
  <2> DEFINE v == [i \in 0..n |-> IF i = n THEN WithChildren(d[n - 1]) ELSE d[i]]
  <2>3. \A i \in 0..(n - 1) : d[i] = IF i = 0 THEN {g} ELSE WithChildren(d[i - 1])
    BY <2>2 DEF Down
  <2>4. \A i \in 0..n : v[i] = IF i = 0 THEN {g} ELSE WithChildren(v[i - 1])
    <3> TAKE i \in 0..n
    <3>1. i = n \/ i \in 0..(n - 1)
      BY <1>1, <1>3
    <3>2. v[i] = IF i = 0 THEN {g} ELSE WithChildren(d[i - 1])
      BY <1>5, <2>3, <3>1
    <3>3. i # 0 => i - 1 \in 0..n /\ i - 1 # n
      BY <1>1, <1>3
    <3>4. i # 0 => v[i - 1] = d[i - 1]
      BY <3>3
    <3> HIDE DEF v
    <3> QED BY <3>2, <3>4
  <2>5. Down(g, n, v)
    <3>1. v = [i \in 0..n |-> v[i]]
      OBVIOUS
    <3> HIDE DEF v
    <3> QED BY <2>4, <3>1 DEF Down
  <2> QED BY <1>3, <2>5
<1> QED BY <1>4, <1>5

\* The walk down from a group goes as many steps as there are groups.
LEMMA DownWalk ==
  ASSUME AccessAssumption, NEW g
  PROVE  \E d : /\ d[0] = {g} /\ DescendantIds(g) = d[MaxGroup]
                /\ \A i \in 1..MaxGroup : d[i] = WithChildren(d[i - 1])
<1> DEFINE Walk(down) == down =
             [n \in GroupOrNull |-> IF n = 0 THEN {g}
                                    ELSE down[n - 1] \cup {h \in groups : parent[h] \in down[n - 1]}]
           d == CHOOSE down : Walk(down)
<1>1. DescendantIds(g) = d[MaxGroup]
  BY DEF DescendantIds
<1>2. MaxGroup \in Nat /\ GroupOrNull = 0..MaxGroup /\ MaxGroup \in 0..MaxGroup
  BY DEF AccessAssumption, GroupOrNull
<1>3. Walk(d)
  <2>1. PICK v : Down(g, MaxGroup, v)
    BY <1>2, DownExists
  <2>2. Walk(v)
    BY <1>2, <2>1 DEF Down, WithChildren
  <2> HIDE DEF Walk
  <2> QED BY <2>2
<1>4. d = [n \in 0..MaxGroup |-> IF n = 0 THEN {g} ELSE WithChildren(d[n - 1])]
  <2> HIDE DEF d
  <2> QED BY <1>2, <1>3 DEF WithChildren
<1> HIDE DEF d
<1>5. d[0] = {g}
  BY <1>2, <1>4
<1>6. ASSUME NEW i \in 1..MaxGroup PROVE d[i] = WithChildren(d[i - 1])
  <2>1. i \in 0..MaxGroup /\ i # 0
    BY <1>2
  <2> QED BY <1>4, <2>1
<1> QED BY <1>1, <1>5, <1>6

\* The walks up and down agree wherever a group is younger than its parent.
LEMMA TreeWalksAgree ==
  ASSUME Tree, NEW g \in groups, NEW h \in groups
  PROVE  h \in AncestorIds(g) <=> g \in DescendantIds(h)
<1>1. MaxGroup \in Nat /\ groups \subseteq 1..MaxGroup
  BY AccessAssumption, TreeFacts
<1>2. PICK d : /\ d[0] = {h} /\ DescendantIds(h) = d[MaxGroup]
               /\ \A i \in 1..MaxGroup : d[i] = WithChildren(d[i - 1])
  BY AccessAssumption, DownWalk
<1>3. UpFacts
  BY UpWalk
<1>4. ASSUME NEW n \in 0..MaxGroup, NEW x \in d[n]
      PROVE  x \in groups /\ h \in AncestorIds(x)
  <2> DEFINE Fine(i) == \A y \in d[i] : y \in groups /\ h \in AncestorIds(y)
             Wrong == {i \in 0..MaxGroup : ~ Fine(i)}
  <2> SUFFICES ASSUME Wrong # {} PROVE FALSE
    BY <1>4
  <2>1. PICK i \in Wrong : \A j \in Wrong : i <= j
    <3>1. Wrong \in SUBSET (0..MaxGroup)
      OBVIOUS
    <3> HIDE DEF Wrong
    <3> QED BY <1>1, <3>1, SmallestNumber
  <2>2. PICK y \in d[i] : ~ (y \in groups /\ h \in AncestorIds(y))
    BY <2>1
  <2>3. CASE i = 0
    BY <1>2, <1>3, <2>2, <2>3 DEF UpFacts
  <2>4. CASE i # 0
    <3>1. i \in 1..MaxGroup /\ i - 1 \in 0..MaxGroup /\ i - 1 \notin Wrong
      BY <1>1, <2>1, <2>4
    <3>2. \A z \in d[i - 1] : z \in groups /\ h \in AncestorIds(z)
      BY <3>1
    <3>3. y \in groups /\ parent[y] \in d[i - 1]
      BY <1>2, <2>2, <3>1, <3>2 DEF WithChildren
    <3> QED BY <1>3, <2>2, <3>2, <3>3 DEF UpFacts
  <2> QED BY <2>3, <2>4
<1>5. ASSUME NEW m \in 0..MaxGroup, NEW n \in 0..MaxGroup, m <= n
      PROVE  d[m] \subseteq d[n]
  <2> DEFINE Wrong == {i \in 0..MaxGroup : m <= i /\ ~ (d[m] \subseteq d[i])}
  <2> SUFFICES ASSUME Wrong # {} PROVE FALSE
    BY <1>5
  <2>1. PICK i \in Wrong : \A j \in Wrong : i <= j
    <3>1. Wrong \in SUBSET (0..MaxGroup)
      OBVIOUS
    <3> HIDE DEF Wrong
    <3> QED BY <1>1, <3>1, SmallestNumber
  <2>2. i # m /\ m <= i /\ ~ (d[m] \subseteq d[i])
    BY <2>1
  <2>3. i \in 1..MaxGroup /\ i - 1 \in 0..MaxGroup /\ m <= i - 1 /\ i - 1 \notin Wrong
    BY <1>1, <2>1, <2>2
  <2>4. d[m] \subseteq d[i - 1]
    BY <2>3
  <2> QED BY <1>2, <2>2, <2>3, <2>4 DEF WithChildren
<1>6. ASSUME NEW x \in groups, h \in AncestorIds(x) PROVE x \in d[x]
  <2> DEFINE Wrong == {i \in groups : h \in AncestorIds(i) /\ i \notin d[i]}
  <2> SUFFICES ASSUME Wrong # {} PROVE FALSE
    BY <1>6
  <2>1. PICK i \in Wrong : \A j \in Wrong : i <= j
    <3>1. Wrong \subseteq groups
      OBVIOUS
    <3> HIDE DEF Wrong
    <3>2. Wrong \in SUBSET (0..MaxGroup)
      BY <1>1, <3>1
    <3> QED BY <1>1, <3>2, SmallestNumber
  <2>2. i \in groups /\ h \in AncestorIds(i) /\ i \notin d[i] /\ i \in 1..MaxGroup
    BY <1>1, <2>1
  <2>3. CASE i = h
    <3>1. 0 \in 0..MaxGroup /\ i \in 0..MaxGroup /\ 0 <= i
      BY <1>1, <2>2
    <3>2. h \in d[i]
      BY <1>2, <1>5, <3>1
    <3> QED BY <2>2, <2>3, <3>2
  <2>4. CASE i # h
    <3> DEFINE p == parent[i]
    <3>1. p \in groups /\ h \in AncestorIds(p)
      <4> HIDE DEF Wrong
      <4>1. CASE p \in groups
        <5>1. AncestorIds(i) = {i} \cup AncestorIds(p)
          BY <1>3, <2>2, <4>1 DEF UpFacts
        <5> QED BY <2>2, <2>4, <4>1, <5>1
      <4>2. CASE p \notin groups
        <5>1. AncestorIds(i) = {i}
          BY <1>3, <2>2, <4>2 DEF UpFacts
        <5> QED BY <2>2, <2>4, <5>1
      <4> QED BY <4>1, <4>2
    <3>2. p < i /\ p \in 1..MaxGroup
      BY <1>1, <2>2, <3>1, AccessAssumption, TreeFacts
    <3>3. p \in d[p]
      <4>1. ~ (i <= p)
        BY <2>2, <3>2
      <4> QED BY <2>1, <3>1, <4>1
    <3>4. p \in 0..MaxGroup /\ i - 1 \in 0..MaxGroup /\ p <= i - 1
      BY <1>1, <2>2, <3>2
    <3>5. p \in d[i - 1]
      BY <1>5, <3>3, <3>4
    <3> QED BY <1>2, <2>2, <3>5 DEF WithChildren
  <2> QED BY <2>3, <2>4
<1>7. h \in AncestorIds(g) => g \in DescendantIds(h)
  <2>1. g \in 0..MaxGroup /\ MaxGroup \in 0..MaxGroup /\ g <= MaxGroup
    BY <1>1
  <2> QED BY <1>2, <1>5, <1>6, <2>1
<1>8. g \in DescendantIds(h) => h \in AncestorIds(g)
  <2>1. MaxGroup \in 0..MaxGroup
    BY <1>1
  <2> QED BY <1>2, <1>4, <2>1
<1> QED BY <1>7, <1>8

\* A walk down meets only groups with a row, but for its start; and from a
\* group without a row it goes nowhere.
LEMMA DownStays ==
  ASSUME Tree, NEW s \in GroupOrNull, s # 0
  PROVE  /\ DescendantIds(s) \subseteq {s} \cup groups
         /\ s \notin groups => DescendantIds(s) = {s}
<1>1. MaxGroup \in Nat /\ groups \subseteq 1..MaxGroup
  BY AccessAssumption, TreeFacts
<1>2. PICK d : /\ d[0] = {s} /\ DescendantIds(s) = d[MaxGroup]
               /\ \A i \in 1..MaxGroup : d[i] = WithChildren(d[i - 1])
  BY AccessAssumption, DownWalk
<1> DEFINE Fine(i) == d[i] \subseteq {s} \cup groups /\ (s \notin groups => d[i] = {s})
           Wrong == {i \in 0..MaxGroup : ~ Fine(i)}
<1>3. Wrong = {}
  <2> SUFFICES ASSUME Wrong # {} PROVE FALSE
    OBVIOUS
  <2>1. PICK i \in Wrong : \A j \in Wrong : i <= j
    <3>1. Wrong \in SUBSET (0..MaxGroup)
      OBVIOUS
    <3> HIDE DEF Wrong
    <3> QED BY <1>1, <3>1, SmallestNumber
  <2>2. i \in 0..MaxGroup /\ ~ Fine(i)
    BY <2>1
  <2>3. CASE i = 0
    BY <1>2, <2>2, <2>3
  <2>4. CASE i # 0
    <3>1. i \in 1..MaxGroup /\ i - 1 \in 0..MaxGroup /\ i - 1 \notin Wrong
      BY <1>1, <2>1, <2>2, <2>4
    <3>2. Fine(i - 1)
      BY <3>1
    <3>3. d[i] = WithChildren(d[i - 1])
      BY <1>2, <3>1
    <3>4. \A x \in groups : parent[x] \in groups \cup {0}
      BY AccessAssumption, TreeFacts
    <3> QED BY <2>2, <3>2, <3>3, <3>4 DEF WithChildren
  <2> QED BY <2>3, <2>4
<1>4. MaxGroup \in 0..MaxGroup
  BY <1>1
<1> QED BY <1>2, <1>3, <1>4

\* Only CreateGroup and DropGroup change the tree: a group is added below one
\* that is there, and children of a deleted one become roots.
LEMMA TreeSteps ==
  ASSUME Shape, [Next]_vars
  PROVE  /\ nextGroup <= nextGroup'
         /\ \A g \in groups' :
              \/ g \in groups /\ parent'[g] \in {parent[g], 0}
              \/ g = nextGroup /\ nextGroup' = nextGroup + 1 /\ parent'[g] \in groups \cup {0}
<1>0. /\ parent \in [Group -> GroupOrNull \cup {NoGroup}] /\ nextGroup \in Nat
      /\ Group \subseteq Nat /\ NoGroup # 0
  BY AccessAssumption, GroupFacts DEF Shape, TypeOK, AccessAssumption, NoGroup
<1>1. CASE UNCHANGED <<parent, nextGroup>>
  BY <1>0, <1>1 DEF groups
<1>2. ASSUME NEW t \in Thread, CreateGroup(handler[t].q), handler[t].q.group \in groups \cup {0}
      PROVE  /\ nextGroup <= nextGroup'
             /\ \A g \in groups' :
                  \/ g \in groups /\ parent'[g] \in {parent[g], 0}
                  \/ g = nextGroup /\ nextGroup' = nextGroup + 1 /\ parent'[g] \in groups \cup {0}
  <2>1. /\ parent' = [parent EXCEPT ![nextGroup] = handler[t].q.group]
        /\ nextGroup' = nextGroup + 1
    BY <1>2 DEF CreateGroup
  <2> QED BY <1>0, <1>2, <2>1 DEF groups
<1>3. ASSUME NEW t \in Thread, DropGroup(handler[t].q)
      PROVE  /\ nextGroup <= nextGroup'
             /\ \A g \in groups' : g \in groups /\ parent'[g] \in {parent[g], 0}
  <2>1. /\ parent' = [h \in Group |-> IF h = handler[t].q.group THEN NoGroup
                                      ELSE IF parent[h] = handler[t].q.group THEN 0 ELSE parent[h]]
        /\ nextGroup' = nextGroup
    BY <1>3 DEF DropGroup, CascadeGroup
  <2>2. ASSUME NEW g \in groups' PROVE g \in groups /\ parent'[g] \in {parent[g], 0}
    <3>1. g \in Group /\ parent'[g] # NoGroup
      BY DEF groups
    <3>2. handler[t].q.group \in GroupOrNull /\ NoGroup \notin GroupOrNull
      <4>1. handler[t] \in Handler
        BY DEF Shape, TypeOK
      <4> QED BY <4>1, AccessAssumption, GroupFacts DEF Handler, Request
    <3> QED BY <2>1, <3>1, <3>2 DEF groups
  <2> QED BY <1>0, <2>1, <2>2
<1>4. ASSUME NEW t \in Thread, Write(t)
      PROVE  \/ UNCHANGED <<parent, nextGroup>>
             \/ CreateGroup(handler[t].q) /\ handler[t].q.group \in groups \cup {0}
             \/ DropGroup(handler[t].q)
  BY <1>4 DEF Write, Answer, tables, CreateFolder, CreateGroup, BindUser, UnbindUser, Grant,
              DeletePermission, CreateResource, DeleteResource
<1>5. ASSUME NEW t \in Thread, Step(t), ~ Write(t) PROVE UNCHANGED <<parent, nextGroup>>
  BY <1>5 DEF Step, Begin, ReadMembers, ReadAncestors, ReadRules, CheckExists, CheckScope,
              CountMembers, tables
<1>6. CASE UNCHANGED vars \/ Restart \/ SeedGrant
  BY <1>1, <1>6 DEF vars, tables, Restart, SeedGrant
<1> QED BY <1>1, <1>2, <1>3, <1>4, <1>5, <1>6 DEF Next

LEMMA TreeNext ==
  ASSUME Shape, Older, [Next]_vars
  PROVE  Tree /\ Tree'
<1>1. Tree /\ nextGroup \in Nat \ {0}
  BY AccessAssumption DEF Shape, TypeOK, TablesOK, Tree, AccessAssumption
<1>2. TablesOK' /\ Shape'
  <2>1. Shape'
    BY AccessAssumption, ShapeStep
  <2> QED BY <2>1 DEF Shape, TypeOK, TablesOK
<1>3. Older'
  <2> SUFFICES ASSUME NEW g \in groups' PROVE g < nextGroup' /\ parent'[g] < g
    BY DEF Older
  <2>1. g \in Nat \ {0} /\ nextGroup' \in Nat /\ parent'[g] \in Int
    <3>1. g \in Group /\ parent'[g] \in GroupOrNull \cup {NoGroup} /\ nextGroup' \in Nat
      BY <1>2, AccessAssumption DEF groups, Shape, TypeOK, AccessAssumption
    <3> QED BY <3>1, AccessAssumption DEF Group, GroupOrNull, NoGroup, AccessAssumption
  <2>2. CASE g \in groups /\ parent'[g] \in {parent[g], 0}
    BY <1>1, <2>1, <2>2, TreeSteps DEF Older
  <2>3. CASE g = nextGroup /\ nextGroup' = nextGroup + 1 /\ parent'[g] \in groups \cup {0}
    BY <1>1, <2>1, <2>3 DEF Older
  <2> QED BY <2>2, <2>3, TreeSteps
<1> QED BY <1>1, <1>2, <1>3 DEF Tree

\* Nothing comes above a group that is there.
LEMMA WalksShrink ==
  ASSUME Shape, Older, [Next]_vars, NEW g \in groups
  PROVE  AncestorIds(g)' \subseteq AncestorIds(g)
<1>1. Tree /\ Tree'
  BY TreeNext
<1>2. UpFacts
  BY <1>1, UpWalk
<1>3. UpFacts'
  BY <1>1, UpWalk, PTL
<1>4. MaxGroup \in Nat /\ groups \subseteq 1..MaxGroup /\ 0 \notin groups'
  BY <1>1, AccessAssumption, TreeFacts, GroupFacts DEF groups
<1> DEFINE Wrong == {i \in groups : ~ (AncestorIds(i)' \subseteq AncestorIds(i))}
<1> SUFFICES ASSUME Wrong # {} PROVE FALSE
  OBVIOUS
<1>5. PICK i \in Wrong : \A j \in Wrong : i <= j
  <2>1. Wrong \subseteq groups
    OBVIOUS
  <2> HIDE DEF Wrong
  <2>2. Wrong \in SUBSET (0..MaxGroup)
    BY <1>4, <2>1
  <2> QED BY <1>4, <2>2, SmallestNumber
<1>6. i \in groups /\ ~ (AncestorIds(i)' \subseteq AncestorIds(i)) /\ i \in 1..MaxGroup
  BY <1>4, <1>5
<1>7. CASE i \notin groups'
  BY <1>3, <1>6, <1>7 DEF UpFacts
<1>8. CASE i \in groups' /\ parent'[i] \notin groups'
  BY <1>2, <1>3, <1>6, <1>8 DEF UpFacts
<1>9. CASE i \in groups' /\ parent'[i] \in groups'
  <2>0. PICK p \in groups' : p = parent'[i]
    BY <1>9
  <2>1. AncestorIds(i)' = {i} \cup AncestorIds(p)'
    BY <1>3, <1>9, <2>0 DEF UpFacts
  <2>2. p = parent[i]
    BY <1>1, <1>4, <1>6, <1>9, <2>0, TreeSteps DEF Tree, Older
  <2>3. p \in groups /\ p < i /\ p \in 1..MaxGroup
    BY <1>1, <1>4, <1>6, <1>9, <2>2, AccessAssumption, TreeFacts
  <2>4. ~ (i <= p)
    BY <1>6, <2>3
  <2>5. AncestorIds(p)' \subseteq AncestorIds(p)
    BY <1>5, <2>3, <2>4
  <2>6. AncestorIds(i) = {i} \cup AncestorIds(p)
    BY <1>2, <1>6, <2>2, <2>3 DEF UpFacts
  <2> QED BY <1>6, <2>1, <2>5, <2>6
<1> QED BY <1>7, <1>8, <1>9

LEMMA OlderInit == Init => Older
<1> SUFFICES ASSUME Init, NEW g \in groups PROVE g < nextGroup /\ parent[g] < g
  BY DEF Older
<1>1. g \in Group /\ g <= SeedGroups /\ parent[g] = 0
  BY DEF Init, groups
<1> QED BY <1>1, AccessAssumption DEF Init, Group, GroupOrNull, AccessAssumption

\* Groups deleted or created between two requests leave the walk up and the
\* walk down in agreement.
THEOREM WalksAgreed == Spec => []WalksAgree
<1>1. Init => Shape /\ Older
  BY AccessAssumption, ShapeInit, OlderInit
<1>2. (Shape /\ Older) /\ [Next]_vars => (Shape /\ Older)'
  BY AccessAssumption, ShapeStep, TreeNext DEF Tree
<1>3. Shape /\ Older => WalksAgree
  BY TreeWalksAgree DEF WalksAgree, Tree, Shape, TypeOK, TablesOK
<1> QED BY <1>1, <1>2, <1>3, PTL DEF Spec

-----------------------------------------------------------------------------
(* Groups outside an administrator's scope *)

\* The group of a request is not, and will not be, in its asker's scope.
OutOf(q) ==
  /\ q.actor \notin Super /\ q.group # Scope[q.actor]
  /\ q.group \in Group /\ q.group < nextGroup
  /\ q.group \in groups => Scope[q.actor] \notin AncestorIds(q.group)

\* A request for such a group does not get past the check of its scope.
StaysOut ==
  \A t \in Thread, q \in Asked :
    /\ handler[t].q = q /\ ~ At(t, "idle") /\ seen[t].outside
    => OutOf(q) /\ (q.op \in Scoped => ~ At(t, "count") /\ ~ At(t, "write"))

AskedOut ==
  \A q \in Asked :
    /\ q.group \in groups /\ q.actor \notin Super
    /\ Scope[q.actor] \notin AncestorIds(q.group)
    => OutOf(q)

LEMMA AskedOutside == Tree => AskedOut
<1> SUFFICES ASSUME Tree, NEW q \in Asked, q.group \in groups, q.actor \notin Super,
                    Scope[q.actor] \notin AncestorIds(q.group)
             PROVE  OutOf(q)
  BY DEF AskedOut
<1>1. q.group \in AncestorIds(q.group)
  BY UpWalk DEF UpFacts
<1>2. q.group \in Group /\ q.group < nextGroup
  BY DEF Tree, Older, groups
<1> QED BY <1>1, <1>2 DEF OutOf

LEMMA OutOfKept ==
  ASSUME Shape, Older, [Next]_vars, NEW q \in Asked, OutOf(q)
  PROVE  OutOf(q)'
<1>1. q.group < nextGroup'
  <2>1. q.group \in Nat /\ nextGroup \in Nat /\ nextGroup' \in Nat
    <3>1. Shape'
      BY AccessAssumption, ShapeStep
    <3>2. nextGroup \in 1..(MaxGroup + 1) /\ nextGroup' \in 1..(MaxGroup + 1) /\ MaxGroup \in Nat
      BY <3>1, AccessAssumption DEF Shape, TypeOK, AccessAssumption
    <3>3. q.group \in Nat
      BY AccessAssumption, GroupFacts DEF OutOf
    <3> QED BY <3>2, <3>3
  <2> QED BY <2>1, TreeSteps DEF OutOf
<1>2. ASSUME q.group \in groups' PROVE Scope[q.actor] \notin AncestorIds(q.group)'
  <2>1. q.group \in groups
    <3>1. q.group # nextGroup
      BY AccessAssumption, GroupFacts DEF OutOf, Shape, TypeOK, AccessAssumption
    <3> QED BY <1>2, <3>1, TreeSteps
  <2> QED BY <2>1, WalksShrink DEF OutOf
<1> QED BY <1>1, <1>2 DEF OutOf

\* can_manage_group refuses a group outside the asker's scope, even if the
\* group or the scope itself has been deleted.
LEMMA OutOfScope ==
  ASSUME Tree, NEW q \in Asked, OutOf(q)
  PROVE  ~ Manages(q.actor, q.group)
<1> DEFINE s == Scope[q.actor]
<1> SUFFICES ASSUME s # 0, q.group \in DescendantIds(s) PROVE FALSE
  BY DEF Manages, OutOf
<1>1. s \in GroupOrNull
  BY AccessAssumption, RequestShape DEF AccessAssumption
<1>2. q.group \in groups /\ s \in groups
  BY <1>1, DownStays DEF OutOf
<1> QED BY <1>2, TreeWalksAgree DEF OutOf

LEMMA ScopedRoutes ==
  ASSUME NEW op \in Scoped
  PROVE  /\ Route[op]["rules"] \in {"exists", "scope"}
         /\ op = "drop" => Route[op]["exists"] = "scope"
  BY DEF Scoped, Route

LEMMA StaysOutStep ==
  ASSUME Shape, Older, StaysOut, [Next]_vars
  PROVE  StaysOut'
<1>1. CASE UNCHANGED vars
  <2> SUFFICES ASSUME NEW t \in Thread, NEW q \in Asked,
                      handler'[t].q = q, handler'[t].pc # "idle", seen'[t].outside
               PROVE  /\ OutOf(q)'
                      /\ q.op \in Scoped => handler'[t].pc # "count" /\ handler'[t].pc # "write"
    BY DEF StaysOut, At
  <2>1. OutOf(q) /\ (q.op \in Scoped => handler[t].pc # "count" /\ handler[t].pc # "write")
    BY <1>1 DEF vars, StaysOut, At
  <2> QED BY <1>1, <2>1, OutOfKept DEF vars
<1>2. CASE Next
  <2> SUFFICES ASSUME NEW t \in Thread, NEW q \in Asked,
                      handler'[t].q = q, handler'[t].pc # "idle", seen'[t].outside
               PROVE  /\ OutOf(q)'
                      /\ q.op \in Scoped => handler'[t].pc # "count" /\ handler'[t].pc # "write"
    BY DEF StaysOut, At
  <2>1. handler \in [Thread -> Handler] /\ handler[t] \in Handler /\ seen[t] \in Observation
    BY DEF Shape, TypeOK, Observation
  <2>2. Tree /\ Tree'
    BY TreeNext
  <2>3. seen'[t] = Look(t)
    BY <1>2 DEF Next
  <2>4. ~ Restart
    BY IdleFits, AccessAssumption DEF Restart
  <2>5. CASE At(t, "idle")
    <3>1. Outside(t)'
      BY <2>3, <2>5 DEF Look
    <3>2. /\ q.group \in groups' /\ q.actor \notin Super
          /\ Scope[q.actor] \notin AncestorIds(q.group)'
      BY <3>1 DEF Outside, AncestorIds
    <3>3. OutOf(q)'
      <4>1. AskedOut'
        BY <2>2, AskedOutside, PTL
      <4> QED BY <3>2, <4>1 DEF AskedOut
    <3>4. Step(t)
      <4>1. \A s \in Thread : Step(s) => s = t
        BY <2>5, AccessAssumption, HandlersKept DEF At
      <4> QED BY <1>2, <2>4, <2>5, <4>1 DEF Next, SeedGrant, At
    <3>5. PICK r \in Asked : Begin(t, r)
      BY <2>5, <3>4 DEF Step, ReadMembers, ReadAncestors, ReadRules, CheckExists, CheckScope,
                        CountMembers, Write, At
    <3>6. handler'[t].q = r /\ handler'[t].pc = IF r.actor \in Super THEN Route[r.op]["rules"] ELSE "members"
      BY <2>1, <3>5, IdleFits, AccessAssumption DEF Begin, Handler
    <3> QED BY <3>2, <3>3, <3>6
  <2>6. CASE ~ At(t, "idle")
    <3>1. seen[t].outside
      BY <2>1, <2>3, <2>6 DEF Look, Observation
    <3>2. ASSUME handler[t].q = q
          PROVE  /\ OutOf(q) /\ OutOf(q)'
                 /\ q.op \in Scoped => handler[t].pc # "count" /\ handler[t].pc # "write"
      <4>1. OutOf(q) /\ (q.op \in Scoped => handler[t].pc # "count" /\ handler[t].pc # "write")
        BY <2>6, <3>1, <3>2 DEF StaysOut, At
      <4> QED BY <4>1, OutOfKept
    <3>3. CASE handler'[t] = handler[t]
      BY <3>2, <3>3
    <3>4. CASE Finish(t)
      BY <2>1, <3>4, IdleFits, AccessAssumption DEF Finish
    <3>5. ASSUME NEW pc, pc \notin {"count", "write"}, handler'[t].q = handler[t].q,
                 handler'[t].pc = pc
          PROVE  /\ OutOf(q)'
                 /\ q.op \in Scoped => handler'[t].pc # "count" /\ handler'[t].pc # "write"
      BY <3>2, <3>5
    <3>6. CASE ReadMembers(t)
      <4>1. handler'[t].pc \in {"rules", "ancestors"} /\ handler'[t].q = handler[t].q
        BY <2>1, <3>6 DEF ReadMembers, Handler
      <4> QED BY <3>5, <4>1
    <3>7. CASE ReadAncestors(t)
      <4>1. handler'[t].pc \in {"rules", "ancestors"} /\ handler'[t].q = handler[t].q
        BY <2>1, <3>7 DEF ReadAncestors, Handler, At
      <4> QED BY <3>5, <4>1
    <3>8. CASE Onward(t) /\ (At(t, "rules") \/ At(t, "exists") \/ At(t, "count"))
      <4>1. /\ handler'[t].q = handler[t].q
            /\ handler'[t].pc = Route[handler[t].q.op][handler[t].pc]
        BY <2>1, <3>8 DEF Onward, Go, Handler
      <4>2. ASSUME q.op \in Scoped, At(t, "rules")
            PROVE  handler'[t].pc # "count" /\ handler'[t].pc # "write"
        BY <4>1, <4>2, ScopedRoutes DEF At
      <4>3. ASSUME q.op \in Scoped, At(t, "exists")
            PROVE  handler'[t].pc # "count" /\ handler'[t].pc # "write"
        <5>1. q.op = "drop"
          BY <4>1, <4>3 DEF Shape, OnRoute, Scoped
        <5> QED BY <4>1, <4>3, <5>1, ScopedRoutes DEF At
      <4>4. ASSUME At(t, "count") PROVE FALSE
        <5>1. q.op \in Scoped
          BY <4>1, <4>4 DEF Shape, OnRoute, Scoped
        <5> QED BY <3>2, <4>1, <4>4, <5>1 DEF At
      <4> QED BY <3>2, <3>8, <4>1, <4>2, <4>3, <4>4
    <3>9. ASSUME CheckScope(t), ~ Finish(t) PROVE FALSE
      <4>1. Onward(t) /\ Manages(handler[t].q.actor, handler[t].q.group)
        BY <3>9 DEF CheckScope
      <4>2. handler'[t].q = handler[t].q
        BY <2>1, <4>1 DEF Onward, Go, Handler
      <4> QED BY <2>2, <3>2, <4>1, <4>2, OutOfScope
    <3>10. CASE Step(t)
      <4>1. ~ \E r \in Asked : Begin(t, r)
        BY <2>6 DEF Begin
      <4>2. CASE ReadRules(t)
        BY <3>4, <3>8, <4>2 DEF ReadRules
      <4>3. CASE CheckExists(t)
        BY <3>4, <3>8, <4>3 DEF CheckExists
      <4>4. CASE CountMembers(t)
        BY <3>4, <3>8, <4>4 DEF CountMembers
      <4>5. CASE Write(t)
        BY <3>4, <4>5 DEF Write
      <4>6. CASE CheckScope(t)
        BY <3>4, <3>9, <4>6
      <4> QED BY <3>6, <3>7, <3>10, <4>1, <4>2, <4>3, <4>4, <4>5, <4>6 DEF Step
    <3>11. ASSUME NEW s \in Thread, Step(s), s # t PROVE handler'[t] = handler[t]
      BY <3>11, AccessAssumption, HandlersKept
    <3>12. SeedGrant => handler'[t] = handler[t]
      BY DEF SeedGrant
    <3> QED BY <1>2, <2>4, <3>3, <3>10, <3>11, <3>12 DEF Next
  <2> QED BY <2>5, <2>6
<1> QED BY <1>1, <1>2

\* No request writes a group that was outside its asker's scope when he asked,
\* whatever becomes of the groups while it is under way.
THEOREM OutsidersKeptOut == Spec => []OutsideUntouched
<1>1. Init => Shape /\ Older /\ StaysOut
  <2>1. Init => StaysOut
    BY IdleFits, AccessAssumption DEF Init, StaysOut, At
  <2> QED BY <2>1, AccessAssumption, ShapeInit, OlderInit
<1>2. (Shape /\ Older /\ StaysOut) /\ [Next]_vars => (Shape /\ Older /\ StaysOut)'
  BY AccessAssumption, ShapeStep, TreeNext, StaysOutStep DEF Tree
<1>3. Shape /\ StaysOut => OutsideUntouched
  <2> SUFFICES ASSUME Shape, StaysOut, NEW t \in Thread, At(t, "write"),
                      handler[t].q.op \in Scoped, seen[t].outside
               PROVE  FALSE
    BY DEF OutsideUntouched
  <2>1. ~ At(t, "idle")
    BY DEF At
  <2>2. handler[t].q \in Asked
    BY <2>1 DEF Shape, Asking, At
  <2> QED BY <2>1, <2>2 DEF StaysOut
<1> QED BY <1>1, <1>2, <1>3, PTL DEF Spec
=============================================================================
