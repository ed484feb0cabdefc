---------------------------- MODULE MCEventLoop ----------------------------
(***************************************************************************)
(* Model-checking instance of EventLoop: two timers of one or two          *)
(* milliseconds and fuel for a handful of operations.                      *)
(***************************************************************************)
EXTENDS EventLoop
=============================================================================
