---------------------------- MODULE MCOwnerTurns ----------------------------
(* Instances of OwnerTurns for TLC.                                         *)
EXTENDS OwnerTurns

CONSTANTS m1,      \* a message of the task dialogue
          s1, s2   \* group messages
=============================================================================
