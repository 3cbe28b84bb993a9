------------------------------ MODULE Bindings ------------------------------
(***************************************************************************)
(* What the coordinator and the applications rely on when they bind: a     *)
(* relation between the end points of the device and destinations, one     *)
(* binding per cluster.  An answer tells the truth, a change concerns only *)
(* what it names and is kept over a restart once it was saved; what was    *)
(* given up with a network never comes back.                               *)
(*                                                                         *)
(* A save that the power interrupts may lose bindings and, where one was   *)
(* taken away and made again since the save before, leave it twice: from   *)
(* then on (torn) an unbind may have to be repeated.                       *)
(***************************************************************************)
EXTENDS Naturals

CONSTANTS Binding,
          Devices,
          OfDevice  \* the bindings whose destination is a device

VARIABLES bound,          \* the bindings in use
          kept,           \* those that a restart would find
          saving,         \* they are being written
          due,            \* they will be
          missed,         \* that they should be was forgotten
          torn,
          bindStat        \* the answer this step gives

promise == <<bound, kept, saving, due, missed, torn, bindStat>>

Init == /\ bound = {} /\ kept = {} /\ bindStat = "none"
        /\ saving = FALSE /\ due = FALSE /\ missed = FALSE /\ torn = FALSE

(* A save is asked for, unless there is no memory for its timer.           *)
AskToSave == \/ due' = TRUE /\ missed' = FALSE
             \/ ~due /\ missed' = TRUE /\ UNCHANGED due

Bind(b) ==
  /\ ~saving
  /\ \/ /\ bindStat' = "SUCCESS" /\ bound' = bound \cup {b}
        /\ AskToSave
     \/ /\ bindStat' = "TABLE_FULL" /\ (b \notin bound \/ torn)
        /\ UNCHANGED <<bound, due, missed>>
  /\ UNCHANGED <<kept, saving, torn>>

Unbind(b) ==
  /\ ~saving
  /\ \/ /\ bindStat' = "SUCCESS" /\ b \in bound
        /\ bound' = bound \ {b} \/ (torn /\ bound' = bound)
        /\ AskToSave
     \/ /\ bindStat' = "NO_ENTRY" /\ (b \notin bound \/ torn)
        /\ UNCHANGED <<bound, due, missed>>
  /\ UNCHANGED <<kept, saving, torn>>

Refuse ==
  /\ ~saving /\ bindStat' \in {"NOT_SUPPORTED", "INVALID_EP"}
  /\ UNCHANGED <<bound, kept, saving, due, missed, torn>>

OtherReason == /\ ~saving /\ AskToSave
               /\ bindStat' = "none" /\ UNCHANGED <<bound, kept, saving, torn>>

Depart(d) ==
  /\ ~saving
  /\ bound' = bound \ OfDevice[d]
  /\ AskToSave
  /\ bindStat' = "none" /\ UNCHANGED <<kept, saving, torn>>

BeginSave == /\ due /\ ~saving /\ due' = FALSE /\ saving' = TRUE
             /\ bindStat' = "none" /\ UNCHANGED <<bound, kept, missed, torn>>

Save == /\ saving
        /\ kept' \subseteq kept \cup bound
        /\ saving' = TRUE \/ (saving' = FALSE /\ kept' = bound)
        /\ UNCHANGED <<bound, due, missed, torn, bindStat>>

Restart == /\ bound' = kept /\ UNCHANGED kept
           /\ saving' = FALSE /\ due' = FALSE /\ missed' = FALSE
           /\ UNCHANGED torn \/ (saving /\ torn' = TRUE)
           /\ bindStat' = "none"

Forget == /\ bound' = {} /\ kept' = {} /\ torn' = FALSE
          /\ saving' = FALSE /\ due' = FALSE /\ missed' = FALSE
          /\ bindStat' = "none"

Next == \/ \E b \in Binding : Bind(b) \/ Unbind(b)
        \/ Refuse \/ OtherReason \/ BeginSave \/ Save \/ Restart \/ Forget
        \/ \E d \in Devices : Depart(d)

Spec == Init /\ [][Next]_promise
-----------------------------------------------------------------------------
(* A change that a restart would not find is going to be saved, unless     *)
(* ZDApp_NVUpdate found no memory for its timer (ZDApp.c:2923).            *)
SavedOrDue == kept # bound => due \/ saving \/ missed
=============================================================================
