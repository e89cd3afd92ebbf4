------------------------------ MODULE MCCommands ------------------------------
(***************************************************************************)
(* Two people and four commands between them.                              *)
(***************************************************************************)
EXTENDS Commands

CONSTANTS ann, bob, b1, none, nothing

People == {ann, bob}
MCBody == {b1, none}
MCReason == {"", "node-7"}
==============================================================================
