--------------------------- MODULE MCDownloadProxy ---------------------------
(* Small instances of DownloadProxy for TLC. *)
EXTENDS DownloadProxy, TLC

\* Downloads are interchangeable (used in runs without liveness properties).
Symmetry == Permutations(Download)
=============================================================================
