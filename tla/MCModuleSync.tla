---------------------------- MODULE MCModuleSync ----------------------------
(* A small GigaFRoST for model checking ModuleSync.                        *)
EXTENDS ModuleSync

TwoGroups == 0 .. 3

AllBits == {}

SixImages == 1 .. 6

Never == {FALSE}
=============================================================================
