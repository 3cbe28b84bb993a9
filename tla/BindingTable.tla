---------------------------- MODULE BindingTable ----------------------------
(***************************************************************************)
(* The binding table (src/Components/stack/nwk/BindingTable.c), with the   *)
(* requests that change it (ZDObject.c, ZDApp.c) and its copy in           *)
(* non-volatile memory, which is written record by record some time after  *)
(* a change and read at the next start.                                    *)
(*                                                                         *)
(* A record binds an end point of this device and one destination, a       *)
(* device and its end point or a group, for a list of clusters.  Each      *)
(* request names one cluster, so the list is a set.  A device is its index *)
(* in the address manager.                                                 *)
(***************************************************************************)
EXTENDS Naturals, FiniteSets

CONSTANTS gNWK_MAX_BINDING_ENTRIES, gMAX_BINDING_CLUSTER_IDS,   \* 4 and 4
          Endpoints,      \* of this device
          DeviceDsts,     \* pairs of a device and an end point of it
          Groups,         \* their numbers may be those of devices
          Clusters

NV_BIND_EMPTY == 255
DSTGROUPMODE_ADDR == 0
DSTGROUPMODE_GROUP == 1

ASSUME BindingAssumption ==
  /\ gNWK_MAX_BINDING_ENTRIES \in Nat /\ gMAX_BINDING_CLUSTER_IDS \in Nat \ {0}
  /\ NV_BIND_EMPTY \notin Endpoints

VARIABLES table,          \* BindingTable
          nv,             \* ZCD_NV_BINDING_TABLE: the number of records, the records
          saveNext,       \* what BindWriteNV writes next
          saveDue,        \* the timer or the event ZDO_NWK_UPDATE_NV
          bindStat,       \* the answer to the request this step has handled
          saveMissed,     \* history: the timer for a change found no memory
          torn            \* history: what a save that was cut off left is in use

bindVars == <<table, nv, saveNext, saveDue, bindStat, saveMissed, torn>>

Slots == 0 .. gNWK_MAX_BINDING_ENTRIES - 1
Header == gNWK_MAX_BINDING_ENTRIES      \* is written after the records
Idle == gNWK_MAX_BINDING_ENTRIES + 1

(* dstGroupMode says what dstIdx is; the end point of a group is 0.        *)
ToDevice(d) == [dstGroupMode |-> DSTGROUPMODE_ADDR, dstIdx |-> d[1], dstEP |-> d[2]]
ToGroup(g) == [dstGroupMode |-> DSTGROUPMODE_GROUP, dstIdx |-> g, dstEP |-> 0]
Dsts == {ToDevice(d) : d \in DeviceDsts} \cup {ToGroup(g) : g \in Groups}
Devices == {d[1] : d \in DeviceDsts}

Entry(ep, dst, cs) == [srcEP |-> ep, dst |-> dst, clusterIdList |-> cs]
Empty == Entry(NV_BIND_EMPTY, [dstGroupMode |-> 255, dstIdx |-> 65535, dstEP |-> 255], {})
NoEntries == [x \in Slots |-> Empty]

BindInit ==
  /\ table = NoEntries /\ nv = [numRecs |-> 0, recs |-> NoEntries]
  /\ saveNext = Idle /\ saveDue = FALSE /\ bindStat = "none"
  /\ saveMissed = FALSE /\ torn = FALSE
-----------------------------------------------------------------------------
(* The table.                                                              *)

First(S) == CHOOSE x \in S : \A y \in S : x <= y

bindFindExisting(ep, dst) == {x \in Slots : table[x].srcEP = ep /\ table[x].dst = dst}
bindFindEmpty == {x \in Slots : table[x].srcEP = NV_BIND_EMPTY}

(* The cluster is put into the record of the destination, or into a new    *)
(* one.                                                                    *)
bindAddEntry(ep, dst, c) ==
  LET old == bindFindExisting(ep, dst)
      x == First(IF old # {} THEN old ELSE bindFindEmpty)
      cs == table[x].clusterIdList
  IN  IF /\ old \cup bindFindEmpty # {}
         /\ c \in cs \/ Cardinality(cs) < gMAX_BINDING_CLUSTER_IDS
      THEN /\ bindStat' = "SUCCESS"
           /\ table' = [table EXCEPT ![x] = Entry(ep, dst, cs \cup {c})]
      ELSE bindStat' = "TABLE_FULL" /\ UNCHANGED table

(* The list without a cluster; a record that has no cluster left is empty. *)
Without(e, c) ==
  IF e.clusterIdList \subseteq {c} THEN Empty
  ELSE Entry(e.srcEP, e.dst, e.clusterIdList \ {c})

OfDev(dst, d) == dst.dstGroupMode = DSTGROUPMODE_ADDR /\ dst.dstIdx = d

(* All records of a device, whatever its end point; a group of the same    *)
(* number is none of them.                                                 *)
bindRemoveDev(d) ==
  table' = [x \in Slots |-> IF OfDev(table[x].dst, d) THEN Empty ELSE table[x]]

(* The records that send a cluster of an end point, in the order of the    *)
(* table: those who send to all of them ask for their number and then for  *)
(* each.                                                                   *)
Matches(ep, c) == {x \in Slots : table[x].srcEP = ep /\ c \in table[x].clusterIdList}
bindNumReflections(ep, c) == Cardinality(Matches(ep, c))
bindFind(ep, c, skipping) ==
  CHOOSE x \in Matches(ep, c) : Cardinality({y \in Matches(ep, c) : y < x}) = skipping
-----------------------------------------------------------------------------
(* The requests.  All but the loss of power come from the main loop, where *)
(* a save runs to its end.                                                 *)

(* The timer that runs is started again; a new one may find no memory.     *)
(* ZDApp_NwkWriteNVRequest, by which the network layer asks for a save     *)
(* (ZDApp.c:1835), starts the same timer.                                  *)
ZDApp_NVUpdate == \/ saveDue' = TRUE /\ saveMissed' = FALSE
                  \/ ~saveDue /\ UNCHANGED saveDue /\ saveMissed' = TRUE

UpdateIf(changed) == IF changed THEN ZDApp_NVUpdate ELSE UNCHANGED <<saveDue, saveMissed>>

(* The address manager has an index for every device of the table; it may  *)
(* have no room for another.                                               *)
Indexed(dst) ==
  dst.dstGroupMode = DSTGROUPMODE_ADDR =>
    \E x \in Slots : OfDev(table[x].dst, dst.dstIdx)

Bind_req(ep, dst, c) ==
  /\ saveNext = Idle
  /\ \/ bindAddEntry(ep, dst, c)
     \/ ~Indexed(dst) /\ bindStat' = "TABLE_FULL" /\ UNCHANGED table
  /\ UpdateIf(bindStat' = "SUCCESS")
  /\ UNCHANGED <<nv, saveNext, torn>>

Unbind_req(ep, dst, c) ==
  LET x == First(bindFindExisting(ep, dst))
  IN  /\ saveNext = Idle
      /\ IF bindFindExisting(ep, dst) # {} /\ c \in table[x].clusterIdList
         THEN /\ bindStat' = "SUCCESS"
              /\ table' = [table EXCEPT ![x] = Without(@, c)]
         ELSE bindStat' = "NO_ENTRY" /\ UNCHANGED table
      /\ UpdateIf(bindStat' = "SUCCESS")
      /\ UNCHANGED <<nv, saveNext, torn>>

(* A request for another device, to a short address, or with the number of *)
(* an end point out of range.                                              *)
RefusedReq ==
  /\ saveNext = Idle
  /\ bindStat' \in {"NOT_SUPPORTED", "INVALID_EP"}
  /\ UNCHANGED <<table, nv, saveNext, saveDue, saveMissed, torn>>

(* A device has left the network.                                          *)
ZDApp_LeaveUpdate(d) ==
  /\ saveNext = Idle
  /\ bindRemoveDev(d)
  /\ ZDApp_NVUpdate
  /\ bindStat' = "none" /\ UNCHANGED <<nv, saveNext, torn>>

(* Anything else that changes the state of the network.                    *)
ZDApp_NwkStateUpdateCB ==
  /\ saveNext = Idle
  /\ ZDApp_NVUpdate
  /\ bindStat' = "none" /\ UNCHANGED <<table, nv, saveNext, torn>>

ZDApp_SaveNetworkStateEvt ==
  /\ saveNext = Idle /\ saveDue
  /\ saveDue' = FALSE /\ saveNext' = 0
  /\ bindStat' = "none" /\ UNCHANGED <<table, nv, saveMissed, torn>>

Used(recs) == {x \in Slots : recs[x].srcEP # NV_BIND_EMPTY}

(* Mutant: the number of records is written before them.                   *)
BindWriteNV_headerFirst ==
  /\ saveNext # Idle /\ saveNext' = saveNext + 1
  /\ nv' = IF saveNext = 0 THEN [nv EXCEPT !.numRecs = Cardinality(Used(table))]
           ELSE [nv EXCEPT !.recs[saveNext - 1] = table[saveNext - 1]]
  /\ UNCHANGED <<table, saveDue, bindStat, saveMissed, torn>>

(* One record, or at last their number.                                    *)
BindWriteNV ==
  /\ saveNext # Idle /\ saveNext' = saveNext + 1
  /\ nv' = IF saveNext = Header THEN [nv EXCEPT !.numRecs = Cardinality(Used(table))]
           ELSE [nv EXCEPT !.recs[saveNext] = table[saveNext]]
  /\ UNCHANGED <<table, saveDue, bindStat, saveMissed, torn>>

(* The records are read if there were any when they were last written.     *)
BindRestoreFromNV == IF nv.numRecs > 0 THEN nv.recs ELSE NoEntries

(* The power is lost, or the device restarts, at any time.                 *)
Restart ==
  /\ table' = BindRestoreFromNV
  /\ saveNext' = Idle /\ saveDue' = FALSE /\ bindStat' = "none"
  /\ saveMissed' = FALSE
  /\ torn' = (torn \/ (saveNext \in Slots \ {0} /\ nv.numRecs > 0))
  /\ UNCHANGED nv

(* A restart that gives up the network (BindSetDefaultNV).                 *)
RestartNew ==
  /\ table' = NoEntries /\ nv' = [nv EXCEPT !.numRecs = 0]
  /\ saveNext' = Idle /\ saveDue' = FALSE /\ bindStat' = "none"
  /\ saveMissed' = FALSE /\ torn' = FALSE

BindNext ==
  \/ \E ep \in Endpoints, dst \in Dsts, c \in Clusters :
       Bind_req(ep, dst, c) \/ Unbind_req(ep, dst, c)
  \/ \E d \in Devices : ZDApp_LeaveUpdate(d)
  \/ RefusedReq \/ ZDApp_NwkStateUpdateCB
  \/ ZDApp_SaveNetworkStateEvt \/ BindWriteNV
  \/ Restart \/ RestartNew

BindSpec == BindInit /\ [][BindNext]_bindVars
-----------------------------------------------------------------------------
BoundBy(recs) ==
  UNION {{[srcEP |-> recs[x].srcEP, dst |-> recs[x].dst, cluster |-> c] :
             c \in recs[x].clusterIdList} : x \in Slots}
AllBindings == [srcEP : Endpoints, dst : Dsts, cluster : Clusters]

(* The types of the variables.                                             *)
Entries == {Empty} \cup {Entry(ep, dst, cs) : ep \in Endpoints, dst \in Dsts,
                                              cs \in (SUBSET Clusters) \ {{}}}
BindTypeOK ==
  /\ table \in [Slots -> Entries]
  /\ nv \in [numRecs : Nat, recs : [Slots -> Entries]]
  /\ saveNext \in 0 .. Idle /\ saveDue \in BOOLEAN /\ saveMissed \in BOOLEAN
  /\ torn \in BOOLEAN
  /\ bindStat \in {"none", "SUCCESS", "TABLE_FULL", "NO_ENTRY", "NOT_SUPPORTED",
                   "INVALID_EP"}

(* Who sends a cluster to all that are bound to it (bindNumReflections,    *)
(* then bindFind for each, BindingTable.c:657-714) sends it to each of     *)
(* them once, in whatever order bindings came and went.                    *)
ReflectedOnce ==
  ~torn =>
    \A ep \in Endpoints, c \in Clusters :
      LET n == bindNumReflections(ep, c)
          reached == [i \in 0 .. n - 1 |-> table[bindFind(ep, c, i)].dst]
      IN  /\ \A i, j \in 0 .. n - 1 : reached[i] = reached[j] => i = j
          /\ {reached[i] : i \in 0 .. n - 1}
               = {dst \in Dsts : [srcEP |-> ep, dst |-> dst, cluster |-> c]
                                   \in BoundBy(table)}

(* The table and its copy are the relation their users rely on.            *)
Promised == INSTANCE Bindings WITH
  Binding <- AllBindings, OfDevice <- [d \in Devices |-> {b \in AllBindings : OfDev(b.dst, d)}],
  bound <- BoundBy(table), kept <- BoundBy(BindRestoreFromNV),
  saving <- saveNext # Idle, due <- saveDue, missed <- saveMissed

ImplementsBindings == Promised!Spec
=============================================================================
