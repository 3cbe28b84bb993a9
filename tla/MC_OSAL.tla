------------------------------ MODULE MC_OSAL -------------------------------
(* Small instances of OSAL.  Task 0 takes one message per call, the others *)
(* drain their messages.                                                   *)
EXTENDS OSAL

CONSTANTS m1, m2, m3

MCDrain == 1 .. tasksCnt - 1
MCEvts  == {"E"}
=============================================================================
