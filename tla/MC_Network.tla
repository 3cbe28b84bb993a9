----------------------------- MODULE MC_Network -----------------------------
(***************************************************************************)
(* Two parts of the stack that do not touch each other; a behaviour is one *)
(* of the part that part names.                                            *)
(*                                                                         *)
(* The upgrade has two images, of two blocks and of one; the time at which *)
(* the first may be started is known at once, the second may have to wait  *)
(* for it.                                                                 *)
(*                                                                         *)
(* The binding table has two records of two clusters for three             *)
(* destinations: two end points of a device, of which one is bound to up   *)
(* to two clusters, and the group that has the number of that device.  All *)
(* are asked for with any of three clusters.                               *)
(***************************************************************************)
EXTENDS ZclOTA, BindingTable, TLC

CONSTANTS c1, c2, c3

VARIABLE part

MCSize == 1 :> 2 @@ 2 :> 1
MCEndAnswers == 1 :> {Later} @@ 2 :> {Later, Wait}

MCDeviceDsts == {<<1, 1>>, <<1, 2>>}
MCBound ==
  {b \in AllBindings : b.cluster = c1 \/ (b.cluster = c2 /\ b.dst = ToDevice(<<1, 1>>))}

MCInit == part \in {"ota", "binding"} /\ OtaInit /\ BindInit

MCNext ==
  \/ part = "ota" /\ OtaNext /\ UNCHANGED <<part, bindVars>>
  \/ /\ part = "binding" /\ BindNext /\ BoundBy(table') \subseteq MCBound
     /\ UNCHANGED <<part, otaVars>>

\* The fairness of the upgrade asks nothing while it rests.
MCSpec == MCInit /\ [][MCNext]_<<part, otaVars, bindVars>>
          /\ (part = "ota" => OtaFairness)
=============================================================================
