--------------------------- MODULE MCFileTransfer ---------------------------
(* Small instances of FileTransfer for TLC. *)
EXTENDS FileTransferInv, TLC

\* Threads are interchangeable (used in runs without liveness properties).
Symmetry == Permutations(Thread)

\* A budget of zero for every kind but the ones given.
Budget(some) == some @@ [k \in Kind |-> 0]

\* One stored file, deleted and downloaded while an answer is lost and the
\* server restarts.
LimitNetwork == Budget([upload |-> 1, delete |-> 1, download |-> 1,
                        lost |-> 1, restart |-> 1])

\* Records and edits, a transfer that breaks off, an agent that dies, also in the
\* middle of rewriting its list.
LimitFaults == Budget([create |-> 1, upload |-> 1, delete |-> 1, edit |-> 1,
                       break |-> 1, crash |-> 1, tear |-> 1])

\* For the run with liveness properties, and for the one of the finding.
LimitSettle == Budget([upload |-> 1, delete |-> 1, lost |-> 1, restart |-> 1])
LimitGhost == Budget([upload |-> 1, delete |-> 1, download |-> 1])
=============================================================================
