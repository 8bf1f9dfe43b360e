------------------------------- MODULE MCFat32 -------------------------------
(***************************************************************************)
(* Fat32 with a file in the root and a file in a directory.                *)
(***************************************************************************)
EXTENDS Fat32

NestedFiles == {<<"a">>, <<"d", "a">>}
Directories == {<<"d">>}
=============================================================================
