----------------------------- MODULE MC_OSAL_Nv -----------------------------
(* Two items, one of them hot and one that may be deleted, in two pages    *)
(* and a reserve: a copy may come from the page that is compacted and from *)
(* the other one, and items stay behind that were interrupted twice.       *)
EXTENDS OSAL_Nv

MCCutErase == {"active", "xfer"}
=============================================================================
