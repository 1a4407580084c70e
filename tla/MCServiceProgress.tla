------------------------- MODULE MCServiceProgress --------------------------
(* Small instances of ServiceProgress for TLC.                             *)
EXTENDS ServiceProgress, MCTimeOffService

=============================================================================
