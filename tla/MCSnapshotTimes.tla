-------------------------- MODULE MCSnapshotTimes ---------------------------
(* Small instances of SnapshotTimes for TLC.                               *)
EXTENDS SnapshotTimes, MCTimeOffService

=============================================================================
