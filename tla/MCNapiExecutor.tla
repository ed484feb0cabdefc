--------------------------- MODULE MCNapiExecutor ---------------------------
(***************************************************************************)
(* Model-checking instance of NapiExecutor: three calls of `run`, so that  *)
(* the channel of two fills and a call can find it full.                   *)
(***************************************************************************)
EXTENDS NapiExecutor

CONSTANTS j1, j2, j3

MCJobs == {j1, j2, j3}
=============================================================================
