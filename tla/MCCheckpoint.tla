---------------------------- MODULE MCCheckpoint ----------------------------
(* Small instances of Checkpoint for TLC. *)
EXTENDS Checkpoint, TLC

CONSTANTS r0, r1

MCRanks == {r0, r1}
AllModes == {"auto", "disable", "resume_path"}
AutoMode == {"auto"}
=============================================================================
