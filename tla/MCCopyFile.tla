------------------------------ MODULE MCCopyFile ------------------------------
(***************************************************************************)
(* Two pulls under one name, or one command alone.  The file is absent,    *)
(* fits the output ConfigMap together with its sentinels, or is longer     *)
(* than that by more than a sentinel.                                      *)
(***************************************************************************)
EXTENDS CopyFile

TwoCommands == {1, 2}
OneCommand == {1}
BothPull == {{1, 2}}
PullOrPush == {{1}, {}}
PullAlone == {{1}}
MCFile == {<<"x">>, <<"x", "y", "x">>}
OneFile == {<<"x">>}
MCPushed == <<"x">>
==============================================================================
