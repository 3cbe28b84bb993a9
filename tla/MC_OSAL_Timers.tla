--------------------------- MODULE MC_OSAL_Timers ---------------------------
(* Two timers and two records: a timer that was stopped still holds its    *)
(* record, so a start may find the heap empty.                             *)
EXTENDS OSAL_Timers

CONSTANTS A, B, r1, r2
=============================================================================
