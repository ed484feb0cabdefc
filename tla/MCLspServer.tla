---------------------------- MODULE MCLspServer ----------------------------
(* Instance of LspServer for TLC.                                           *)
EXTENDS LspServer

CONSTANTS a, b
=============================================================================
