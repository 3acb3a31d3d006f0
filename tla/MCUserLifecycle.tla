--------------------------- MODULE MCUserLifecycle ---------------------------
(* Small instances of UserLifecycle for TLC. *)
EXTENDS UserLifecycle

CONSTANTS ann, bob

NoRequests == [b \in Budget |-> 0]
IntoShared == [enabled |-> TRUE, dest |-> Shared]
Ann == [u \in {1} |-> ann]

Settings ==
  { \* Two registrations, with a rename, a deletion and a restart between them.
    [users |-> {}, names |-> <<>>, archive |-> NoArchive,
     budget |-> [NoRequests EXCEPT !["register"] = 2, !["rename"] = 1, !["delete"] = 1,
                                   !["restart"] = 1, !["remove"] = 1]],
    \* Two deletions of one user while two files are stored.
    [users |-> {1}, names |-> Ann, archive |-> IntoShared,
     budget |-> [NoRequests EXCEPT !["store"] = 2, !["delete"] = 2]],
    \* The same with new settings between them and a file that is reported again.
    [users |-> {1}, names |-> Ann, archive |-> IntoShared,
     budget |-> [NoRequests EXCEPT !["store"] = 1, !["delete"] = 2, !["settings"] = 1,
                                   !["relist"] = 1]],
    \* The archive of one user goes into the space of another who is deleted too.
    [users |-> {1, 2}, names |-> [u \in {1, 2} |-> IF u = 1 THEN ann ELSE bob],
     archive |-> [enabled |-> TRUE, dest |-> 2],
     budget |-> [NoRequests EXCEPT !["store"] = 1, !["delete"] = 2, !["remove"] = 1,
                                   !["relist"] = 1, !["restart"] = 1]] }
==============================================================================
