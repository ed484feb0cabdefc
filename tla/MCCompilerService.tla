------------------------ MODULE MCCompilerService ------------------------
(* Instance of CompilerService for TLC.  One file is edited by clients and  *)
(* changed by other programs; the other one only competes for source ids.   *)
EXTENDS CompilerService

CONSTANTS a, b

MenuValue ==
    {<<"open", a, 1, "async">>, <<"update", a, 2, "async">>, <<"close", a, 0, "sync">>,
     <<"query", a, 0, "async">>, <<"query", a, 0, "sync">>, <<"query", b, 0, "sync">>,
     <<"snapshot", b, 0, "async">>}
===========================================================================
