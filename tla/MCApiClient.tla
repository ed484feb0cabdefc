----------------------------- MODULE MCApiClient -----------------------------
(***************************************************************************)
(* Model-checking instance of ApiClient with two calls.                    *)
(***************************************************************************)
EXTENDS ApiClient

CONSTANTS c1, c2

Two == {c1, c2}
=============================================================================
