---------------------------- MODULE MCWeakJobs ----------------------------
(* Instance of WeakJobs for TLC.                                             *)
EXTENDS WeakJobs
=============================================================================
