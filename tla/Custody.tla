------------------------------ MODULE Custody -------------------------------
(***************************************************************************)
(* What the transfer of files promises about bytes, without handlers, jobs  *)
(* or messages: the server keeps the bytes of an upload it has accepted     *)
(* until the node has all of them, and nobody drops the last copy of a file *)
(* unless its deletion was requested.                                       *)
(***************************************************************************)
CONSTANT File

VARIABLES
  central,   \* the uploads whose bytes the server holds
  node,      \* the files whose bytes the node holds, complete
  asked      \* the files somebody asked to delete

vars == <<central, node, asked>>

Init == central = {} /\ node = {} /\ asked = {}

Accept(r) ==
  /\ central' = central \cup {r}
  /\ UNCHANGED <<node, asked>>

\* A deletion may overtake a transfer that has begun.
Store(r) ==
  /\ r \in central \cup asked
  /\ node' = node \cup {r}
  /\ UNCHANGED <<central, asked>>

Release(r) ==
  /\ r \in node \cup asked
  /\ central' = central \ {r}
  /\ UNCHANGED <<node, asked>>

Ask(S) ==
  /\ asked' = asked \cup S
  /\ UNCHANGED <<central, node>>

EraseCentral(r) ==
  /\ r \in asked
  /\ central' = central \ {r}
  /\ UNCHANGED <<node, asked>>

EraseNode(r) ==
  /\ r \in asked
  /\ node' = node \ {r}
  /\ UNCHANGED <<central, asked>>

Next ==
  \/ \E r \in File : \/ Accept(r) \/ Store(r) \/ Release(r)
                     \/ EraseCentral(r) \/ EraseNode(r)
  \/ \E S \in SUBSET File : Ask(S)

Spec == Init /\ [][Next]_vars
=============================================================================
