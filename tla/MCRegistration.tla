---------------------------- MODULE MCRegistration ----------------------------
(* Registration for TLC; threads are not interchangeable in liveness checks. *)
EXTENDS Registration
=============================================================================
