----------------------------- MODULE MCPlacement -----------------------------
(* Small instances of Placement for TLC. *)
EXTENDS Placement

CONSTANTS a, b, r, v1, v2, v3, n1, n2

\* A megabyte of two bytes: an upload of one and a half megabytes, and one
\* upload and one record of one megabyte.
Sizes == [f \in File |-> IF f = a THEN 3 ELSE IF f = b THEN 2 ELSE 1]
Priorities == [n \in Node |-> IF n = n1 THEN 1 ELSE 0]

\* v1 and v2 hold one upload at a time, v3 the larger one behind the smaller one.
Quotas == [v \in Volume |-> IF v = v3 THEN 5 ELSE 4]
Ids == [v \in Volume |-> IF v = v1 THEN 1 ELSE 2]
AllOnOne == [v \in Volume |-> n1]

\* Two volumes that come and go; a volume, users who edit a file and faults; a
\* resource with a limit and a record beside the uploads, pinned to a node that is
\* left alone.
Plain == [limit |-> 0, pinned |-> {}, volumes |-> {v1}, files |-> {a, b},
          edits |-> {}, faulty |-> {}, unstable |-> {}]
Installations ==
  { [Plain EXCEPT !.volumes = {v1, v2}, !.unstable = {v1}],
    [Plain EXCEPT !.faulty = {a}, !.unstable = {n1}], [Plain EXCEPT !.edits = {a}],
    [Plain EXCEPT !.limit = 2, !.pinned = {n1}, !.volumes = {v3}, !.files = {a, b, r}] }
\* The node that stores all data has no room for the larger upload, another has.
SmallFirst == [v \in Volume |-> IF v = v1 THEN 2 ELSE 6]
Apart == [v \in Volume |-> IF v = v1 THEN n1 ELSE n2]
TwoNodes == { [Plain EXCEPT !.volumes = {v1, v2}, !.files = {a}] }
=============================================================================
