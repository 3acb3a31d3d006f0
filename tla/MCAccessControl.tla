-------------------------- MODULE MCAccessControl --------------------------
(* An employee, an administrator of group 1 and a super_admin.  The seed has *)
(* one group; requests create a second and a third, as roots or below.       *)
EXTENDS AccessControl

CONSTANTS emp, adm, sup, docs, memo

MCScope == [u \in User |-> IF u = adm THEN 1 ELSE 0]
MCSeedMember == {<<emp, 1>>, <<adm, 1>>}
MCSeedRule == << [group |-> 1, res |-> docs, code |-> "view"],
                 [group |-> 1, res |-> Everywhere, code |-> "manage_users"],
                 [group |-> 1, res |-> Everywhere, code |-> "admin_panel"] >>

Query(op, actor) == [NoRequest EXCEPT !.op = op, !.actor = actor]

\* What the three of them ask for.
MCAsked ==
  {[Query("ask", emp) EXCEPT !.res = docs]}
  \cup {[Query(op, u) EXCEPT !.group = g, !.user = emp] :
          op \in {"bind", "unbind"}, u \in {adm, sup}, g \in {1, 2}}
  \cup {[Query("create", sup) EXCEPT !.group = g] : g \in {0, 1, 2}}
  \cup {[Query("drop", sup) EXCEPT !.group = 2]}
  \cup {[Query("grant", sup) EXCEPT !.group = g, !.res = r, !.allow = a] :
          g \in {1, 2}, r \in {docs, Everywhere}, a \in BOOLEAN}
  \cup {[Query("grant", sup) EXCEPT !.group = 1, !.code = "admin_panel"]}
  \cup {[Query("revoke", sup) EXCEPT !.rule = i] : i \in {1, 3}}
  \cup {[Query(op, sup) EXCEPT !.res = memo] : op \in {"resource", "erase", "folder"}}
  \cup {[Query("grant", sup) EXCEPT !.group = 1, !.res = memo, !.allow = TRUE]}

Symmetry == Permutations(Thread)
=============================================================================
