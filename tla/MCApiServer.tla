---------------------------- MODULE MCApiServer ----------------------------
(***************************************************************************)
(* Model-checking instance of ApiServer.  Identifier `a` can be reused and *)
(* duplicated, `long` exceeds the identifier bound; the work and the       *)
(* reject partition of the configurations fill within three frames.        *)
(***************************************************************************)
EXTENDS ApiServer

CONSTANTS a, long, none

MCIds == {a, long}
MCLongIds == {long}
=============================================================================
