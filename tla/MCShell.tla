------------------------------- MODULE MCShell -------------------------------
(***************************************************************************)
(* Shell with directories /d and /d/d, files it, d, d/it, and arguments    *)
(* that are relative and absolute, with slashes doubled and at the end,    *)
(* with dots, and empty.                                                   *)
(***************************************************************************)
EXTENDS Shell

Typed ==
  { <<>>, <<".">>, <<"..">>, <<"..", "/", "d">>,
    <<"it">>, <<"d">>, <<"d", "/">>, <<"d", "/", "it">>, <<"d", "/", "/", "d">>,
    <<"/">>, <<"/", "it">>, <<"/", "d">>, <<"/", "/", "d">>,
    <<"/", "d", "/", "d">> }

Directories == { <<"d">>, <<"d", "d">> }
Files == { <<"it">>, <<"d">>, <<"d", "it">> }
OneLong == [p \in {<<"it">>} |-> LongFile]
=============================================================================
