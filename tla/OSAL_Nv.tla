------------------------------ MODULE OSAL_Nv -------------------------------
(***************************************************************************)
(* The non-volatile memory (OSAL_Nv.c): items in the pages of a flash      *)
(* memory whose words can be written once and whose pages are erased as a  *)
(* whole.  A write makes a new copy of the item; a full page is compacted  *)
(* into the page that is kept in reserve.  The power may be lost between   *)
(* two writes and during an erasure.                                       *)
(*                                                                         *)
(* Abstracted: every item takes one slot of a page, and the value of an    *)
(* item is a member of Vals.  The words of an item's data and its checksum *)
(* are written in one step, since an item without its checksum is treated  *)
(* alike however much of its data is there.  Flash writes do not fail.     *)
(* A page is full in whole slots, so that a compacted page is lost         *)
(* altogether; in bytes a rest too small for the new item may be left.     *)
(***************************************************************************)
EXTENDS Naturals, Sequences, FiniteSets, FiniteSetsExt, Functions

CONSTANTS Ids,          \* the items
          Vals,         \* the values of an item
          None,         \* no value, no request
          HotId,        \* an item whose place is remembered (hotIds)
          Deletable,    \* the items that are deleted
          NPages,       \* OSAL_NV_PAGES_USED
          PageItems,    \* slots of a page
          CutErase      \* what an interrupted erasure can leave of a page

ASSUME PageAssumption == NPages \in Nat \ {0, 1} /\ PageItems \in Nat \ {0}
ASSUME ItemAssumption ==
  /\ HotId \in Ids
  /\ Deletable \subseteq Ids
  /\ None \notin Ids \cup Vals
  /\ None \notin [op : {"init", "write", "delete"}, id : Ids, val : Vals]
ASSUME CutEraseAssumption == CutErase \subseteq {"active", "xfer"}

VARIABLES flash,        \* the pages
          pgRes,        \* the page in reserve, 0 while it is not known
          pgLost,       \* slots of zeroed items, by page
          hot,          \* hotPg and hotOff of HotId, NoItem before it is known
          pc,           \* the next write to the flash
          req,          \* the request that is served
          ret,          \* what the last one returned
          job,          \* locals of osal_nv_write and compactPage
          scan          \* locals of initNV and initPage

vars == <<flash, pgRes, pgLost, hot, pc, req, ret, job, scan>>

Pages == 1 .. NPages

(* A header whose id is zeroed is skipped everywhere; the rest of the item *)
(* does not matter any more.                                               *)
Zeroed == [id |-> None, val |-> None, old |-> FALSE, chk |-> FALSE]
Item(i, v, c) == [id |-> i, val |-> v, old |-> FALSE, chk |-> c]

Erased == [active |-> FALSE, xfer |-> FALSE, items |-> <<>>]

NoItem == <<0, 0>>
NoJob == [skip |-> None, src |-> NoItem, com |-> 0, dst |-> 0, k |-> 1]
NoScan == [pg |-> 1, ix |-> 1, lost |-> 0, pass |-> "mark", old |-> 0]

ItemAt(at) == flash[at[1]].items[at[2]]
Full(p) == Len(flash[p].items) = PageItems
ZeroedIn(p) == Cardinality({k \in DOMAIN flash[p].items : flash[p].items[k] = Zeroed})

Init == /\ flash = [p \in Pages |-> Erased]
        /\ pgRes = 0 /\ pgLost = [p \in Pages |-> 0]
        /\ hot = NoItem
        /\ pc = "pages"
        /\ req = None /\ ret = None
        /\ job = NoJob /\ scan = NoScan
-----------------------------------------------------------------------------
(* Finding an item.                                                        *)
Before(a, b) == a[1] < b[1] \/ (a[1] = b[1] /\ a[2] <= b[2])

(* The first copy that is, or is not, marked as transferred.               *)
FirstCopy(i, old) ==
  LET Copies == {at \in Pages \X (1 .. PageItems) :
                   /\ at[2] \in DOMAIN flash[at[1]].items
                   /\ ItemAt(at).id = i /\ ItemAt(at).old = old}
  IN  IF Copies = {} THEN NoItem
      ELSE CHOOSE a \in Copies : \A b \in Copies : Before(a, b)

(* A transferred copy is the item if there is no newer one.                *)
FindItem(i) == IF FirstCopy(i, FALSE) # NoItem THEN FirstCopy(i, FALSE)
               ELSE FirstCopy(i, TRUE)

(* The search counts the lost slots of the pages it walks to their end.    *)
LostAfterFind(lost, i, old) ==
  LET found == FirstCopy(i, old)
  IN  [p \in Pages |-> IF found = NoItem \/ p < found[1] THEN ZeroedIn(p) ELSE lost[p]]

LostAfterFindItem(i) ==
  IF FirstCopy(i, FALSE) # NoItem THEN LostAfterFind(pgLost, i, FALSE)
  ELSE LostAfterFind(LostAfterFind(pgLost, i, FALSE), i, TRUE)

(* The first page after the reserve that has room for one more item, now   *)
(* or after its compaction, 0 if there is none.                            *)
HasRoom(p, lost) == p # pgRes /\ Len(flash[p].items) - lost[p] < PageItems
PageFor(lost) ==
  LET Turn(p) == (p + NPages - pgRes - 1) % NPages
      Candidates == {p \in Pages : HasRoom(p, lost)}
  IN  IF Candidates = {} THEN 0
      ELSE CHOOSE p \in Candidates : \A q \in Candidates : Turn(p) <= Turn(q)
-----------------------------------------------------------------------------
(* Writes to the flash.                                                    *)
AddItem(f, p, it) == [f EXCEPT ![p].items = Append(@, it)]
MarkXfer(f, at) == [f EXCEPT ![at[1]].items[at[2]].old = TRUE]
ZeroItem(f, at) == [f EXCEPT ![at[1]].items[at[2]] = Zeroed]
setPageUse(f, p) == [f EXCEPT ![p].active = TRUE]
ErasePage(f, p) == [f EXCEPT ![p] = Erased]

(* Mutant: a place that is remembered stays.                               *)
hotItemUpdate_once(at, i) == hot' = IF i = HotId /\ hot = NoItem THEN at ELSE hot
hotItemUpdate(at, i) == hot' = IF i = HotId THEN at ELSE hot
-----------------------------------------------------------------------------
(* A request.                                                              *)
Call ==
  /\ pc = "ready" /\ req = None
  /\ \E r \in [op : {"init", "write"}, id : Ids, val : Vals]
             \cup [op : {"delete"}, id : Deletable, val : Vals] : req' = r
  /\ ret' = None /\ pc' = "find"
  /\ UNCHANGED <<flash, pgRes, pgLost, hot, job, scan>>

Return(status) ==
  /\ ret' = status
  /\ req' = None /\ pc' = "ready" /\ job' = NoJob

(* The supply voltage is too low to write.                                 *)
LowVoltage ==
  /\ pc = "find" /\ req.op # "delete"
  /\ Return("failed")
  /\ UNCHANGED <<flash, pgRes, pgLost, hot, scan>>

(* initItem: choose a page for a new copy; compact a full one first.       *)
InitItem(src, lost) ==
  LET p == PageFor(lost)
      compact == p # 0 /\ Full(p)
  IN  /\ UNCHANGED <<flash, pgRes, hot, scan>>
      /\ IF p = 0 THEN Return("failed")
         ELSE /\ job' = [NoJob EXCEPT !.skip = req.id, !.src = src,
                                      !.com = IF compact THEN p ELSE 0,
                                      !.dst = IF compact THEN pgRes ELSE p]
              /\ pc' = IF ~compact THEN "header"
                       ELSE IF flash[p].xfer THEN "compact" ELSE "xfer"
              /\ UNCHANGED <<req, ret>>

osal_nv_item_init ==
  /\ pc = "find" /\ req.op = "init"
  /\ pgLost' = LostAfterFindItem(req.id)
  /\ LET at == FindItem(req.id)
     IN  IF at = NoItem THEN InitItem(NoItem, pgLost')
         ELSE /\ hotItemUpdate(at, req.id)
              /\ Return("success")
              /\ UNCHANGED <<flash, pgRes, scan>>

osal_nv_write ==
  /\ pc = "find" /\ req.op = "write"
  /\ pgLost' = LostAfterFindItem(req.id)
  /\ LET at == FindItem(req.id)
     IN  IF at = NoItem \/ ItemAt(at).val = req.val
         THEN /\ Return(IF at = NoItem THEN "uninit" ELSE "success")
              /\ UNCHANGED <<flash, pgRes, hot, scan>>
         ELSE InitItem(at, pgLost')

(* That the caller gives another length than the item has is left out.     *)
osal_nv_delete ==
  /\ pc = "find" /\ req.op = "delete"
  /\ pgLost' = LostAfterFindItem(req.id)
  /\ LET at == FindItem(req.id)
     IN  IF at = NoItem THEN Return("uninit")
         ELSE /\ pc' = "zero" /\ job' = [NoJob EXCEPT !.src = at]
              /\ UNCHANGED <<req, ret>>
  /\ UNCHANGED <<flash, pgRes, hot, scan>>

StartCompaction ==
  /\ pc = "xfer"
  /\ flash' = [flash EXCEPT ![job.com].xfer = TRUE]
  /\ pc' = "compact"
  /\ UNCHANGED <<pgRes, pgLost, hot, req, ret, job, scan>>


(* compactPage, one item: mark it, and copy it unless it is the one that   *)
(* is about to be written.                                                 *)
CompactItem ==
  /\ pc = "compact"
  /\ job.k \in DOMAIN flash[job.com].items
  /\ LET at == <<job.com, job.k>>
         it == ItemAt(at)
     IN  IF it # Zeroed /\ it.id # job.skip /\ it.chk
         THEN /\ flash' = AddItem(MarkXfer(flash, at), pgRes, Item(it.id, it.val, TRUE))
              /\ hotItemUpdate(<<pgRes, Len(flash[pgRes].items) + 1>>, it.id)
         ELSE UNCHANGED <<flash, hot>>
  /\ job' = [job EXCEPT !.k = @ + 1]
  /\ UNCHANGED <<pgRes, pgLost, pc, req, ret, scan>>

(* At power-up nothing follows the compaction but the change of pages.     *)
CompactEnd ==
  /\ pc = "compact"
  /\ job.k \notin DOMAIN flash[job.com].items
  /\ pc' = IF req = None THEN "use" ELSE "header"
  /\ UNCHANGED <<flash, pgRes, pgLost, hot, req, ret, job, scan>>

WriteHeader ==
  /\ pc = "header"
  /\ flash' = AddItem(flash, job.dst, Item(req.id, None, FALSE))
  /\ pc' = IF req.op = "init" THEN "data" ELSE "mark"
  /\ UNCHANGED <<pgRes, pgLost, hot, req, ret, job, scan>>

MarkOld ==
  /\ pc = "mark"
  /\ flash' = MarkXfer(flash, job.src)
  /\ pc' = "data"
  /\ UNCHANGED <<pgRes, pgLost, hot, req, ret, job, scan>>

(* Mutant: the source is erased before the target is in use.               *)
WriteData_eraseFirst ==
  /\ pc = "data"
  /\ LET n == Len(flash[job.dst].items)
     IN  /\ flash' = [flash EXCEPT ![job.dst].items[n] = Item(req.id, req.val, TRUE)]
         /\ hotItemUpdate(<<job.dst, n>>, req.id)
  /\ pc' = IF job.com # 0 THEN "erase"
           ELSE IF req.op = "write" THEN "zero" ELSE "return"
  /\ UNCHANGED <<pgRes, pgLost, req, ret, job, scan>>

(* Data and checksum.  The old copy is zeroed last, unless its page is     *)
(* erased after the compaction.                                            *)
WriteData ==
  /\ pc = "data"
  /\ LET n == Len(flash[job.dst].items)
     IN  /\ flash' = [flash EXCEPT ![job.dst].items[n] = Item(req.id, req.val, TRUE)]
         /\ hotItemUpdate(<<job.dst, n>>, req.id)
  /\ pc' = IF job.com # 0 THEN "use"
           ELSE IF req.op = "write" THEN "zero" ELSE "return"
  /\ UNCHANGED <<pgRes, pgLost, req, ret, job, scan>>

(* COMPACT_PAGE_CLEANUP: the target is put in use, then the source erased. *)
UseTarget ==
  /\ pc = "use"
  /\ flash' = setPageUse(flash, pgRes)
  /\ pc' = "erase"
  /\ UNCHANGED <<pgRes, pgLost, hot, req, ret, job, scan>>

(* Mutant: the count of the erased page is kept.                           *)
EraseSource_keepsLost ==
  /\ pc = "erase"
  /\ flash' = ErasePage(flash, job.com)
  /\ pgRes' = job.com
  /\ pc' = CASE req = None -> "scan"
             [] req # None /\ job.src # NoItem /\ job.src[1] # job.com -> "zero"
             [] OTHER -> "return"
  /\ UNCHANGED <<pgLost, hot, req, ret, job, scan>>

EraseSource ==
  /\ pc = "erase"
  /\ flash' = ErasePage(flash, job.com)
  /\ pgLost' = [pgLost EXCEPT ![job.com] = 0]
  /\ pgRes' = job.com
  /\ pc' = CASE req = None -> "scan"
             [] req # None /\ job.src # NoItem /\ job.src[1] # job.com -> "zero"
             [] OTHER -> "return"
  /\ UNCHANGED <<hot, req, ret, job, scan>>

ZeroOld ==
  /\ pc = "zero"
  /\ flash' = ZeroItem(flash, job.src)
  /\ pgLost' = [pgLost EXCEPT ![job.src[1]] = @ + 1]
  /\ pc' = "return"
  /\ UNCHANGED <<pgRes, hot, req, ret, job, scan>>

(* osal_nv_delete looks once more for what it has deleted.                 *)
Outcome == IF req.op = "init" THEN "uninit"
           ELSE IF req.op = "delete" /\ FindItem(req.id) # NoItem THEN "failed"
           ELSE "success"

Finish ==
  /\ pc = "return"
  /\ pgLost' = IF req.op = "delete" THEN LostAfterFindItem(req.id) ELSE pgLost
  /\ Return(Outcome)
  /\ UNCHANGED <<flash, pgRes, hot, scan>>
-----------------------------------------------------------------------------
(* Power-up (initNV).  First the headers of the pages.                     *)
BootPage ==
  /\ pc = "pages" /\ scan.pg \in Pages
  /\ LET p == scan.pg
     IN  /\ pgRes' = IF ~flash[p].active /\ pgRes = 0 THEN p ELSE pgRes
         /\ flash' = IF ~flash[p].active /\ pgRes # 0 THEN setPageUse(flash, p) ELSE flash
         /\ scan' = [scan EXCEPT !.pg = p + 1,
                                 !.old = IF flash[p].active /\ flash[p].xfer THEN p ELSE @]
  /\ UNCHANGED <<pgLost, hot, pc, req, ret, job>>

(* Then an interrupted compaction is repeated or completed, and an         *)
(* interrupted erasure repeated.                                           *)
BootErases == IF pgRes # 0 THEN pgRes ELSE scan.old

BootRepair ==
  /\ pc = "pages" /\ scan.pg \notin Pages
  /\ flash' = IF BootErases = 0 THEN flash ELSE ErasePage(flash, BootErases)
  /\ pgLost' = [p \in Pages |-> IF p = BootErases THEN 0 ELSE pgLost[p]]
  /\ pgRes' = BootErases
  /\ scan' = NoScan
  /\ IF scan.old # 0 /\ pgRes # 0
     THEN /\ pc' = "compact" /\ job' = [NoJob EXCEPT !.com = scan.old]
     ELSE /\ pc' = "scan" /\ UNCHANGED job
  /\ UNCHANGED <<hot, req, ret>>

(* initPage on the items of a page.  The first pass ends at the first      *)
(* transferred copy and is repeated ("dups") to zero transferred copies    *)
(* that have a successor; a last pass ("final") counts again.              *)
AtItem == scan.pg \in Pages /\ scan.ix \in DOMAIN flash[scan.pg].items

(* Mutant: the scan is repeated as it was.                                 *)
NextPass_same == "mark"
NextPass == "dups"

ScanItem ==
  /\ pc = "scan" /\ AtItem
  /\ LET it == ItemAt(<<scan.pg, scan.ix>>)
         before == FirstCopy(it.id, TRUE)
         step == [scan EXCEPT !.ix = @ + 1]
     IN  CASE it = Zeroed ->
                /\ scan' = [step EXCEPT !.lost = @ + 1]
                /\ UNCHANGED <<flash, pgLost>>
           [] it # Zeroed /\ ~it.chk ->
                /\ flash' = ZeroItem(flash, <<scan.pg, scan.ix>>)
                /\ pgLost' = [pgLost EXCEPT ![scan.pg] = @ + 1]
                /\ scan' = [step EXCEPT !.lost = @ + 1]
           [] it.chk /\ scan.pass = "dups" ->
                /\ scan' = step
                /\ IF it.old THEN UNCHANGED <<flash, pgLost>>
                   ELSE LET lost == LostAfterFind(pgLost, it.id, TRUE)
                        IN  IF before = NoItem
                            THEN pgLost' = lost /\ UNCHANGED flash
                            ELSE /\ flash' = ZeroItem(flash, before)
                                 /\ pgLost' = [lost EXCEPT ![before[1]] = @ + 1]
           [] it.chk /\ scan.pass # "dups" ->
                /\ scan' = IF ~it.old THEN step
                           ELSE IF scan.pass = "mark" THEN [NoScan EXCEPT !.pass = NextPass]
                           ELSE [scan EXCEPT !.pg = @ + 1, !.ix = 1, !.lost = 0]
                /\ UNCHANGED <<flash, pgLost>>
  /\ UNCHANGED <<pgRes, hot, pc, req, ret, job>>

ScanPageEnd ==
  /\ pc = "scan" /\ scan.pg \in Pages /\ ~AtItem
  /\ pgLost' = [pgLost EXCEPT ![scan.pg] = scan.lost]
  /\ scan' = [scan EXCEPT !.pg = @ + 1, !.ix = 1, !.lost = 0]
  /\ UNCHANGED <<flash, pgRes, hot, pc, req, ret, job>>

(* Without a reserve the page with the most lost slots becomes it; a page  *)
(* that is lost altogether is preferred.                                   *)
MostLost ==
  LET Empty == {p \in Pages : pgLost[p] = PageItems}
      most == {p \in Pages : \A q \in Pages : pgLost[q] <= pgLost[p]}
  IN  Min(IF Empty # {} THEN Empty ELSE most)

ScanEnd ==
  /\ pc = "scan" /\ scan.pg \notin Pages
  /\ IF scan.pass = "dups"
     THEN /\ scan' = [NoScan EXCEPT !.pass = "final"]
          /\ UNCHANGED <<flash, pgRes, pgLost, pc, job>>
     ELSE /\ scan' = NoScan /\ job' = NoJob /\ pc' = "ready"
          /\ IF pgRes # 0 THEN UNCHANGED <<flash, pgRes, pgLost>>
             ELSE /\ pgRes' = MostLost
                  /\ flash' = ErasePage(flash, MostLost)
                  /\ pgLost' = [pgLost EXCEPT ![MostLost] = 0]
  /\ UNCHANGED <<hot, req, ret>>
-----------------------------------------------------------------------------
(* The power is lost, possibly in the middle of an erasure, and the device *)
(* starts again.  An interrupted erasure leaves a page whose header reads  *)
(* as erased while the rest does not, or the mark of the transfer erased.  *)
ErasedNext ==
  CASE pc = "erase" -> {job.com}
    [] pc = "pages" /\ scan.pg \notin Pages /\ BootErases # 0 -> {BootErases}
    [] pc = "scan" /\ scan.pg \notin Pages /\ scan.pass # "dups" /\ pgRes = 0 -> {MostLost}
    [] OTHER -> {}

Remains(page) == (IF "active" \in CutErase THEN {[page EXCEPT !.active = FALSE, !.xfer = FALSE]} ELSE {})
                 \cup (IF "xfer" \in CutErase THEN {[page EXCEPT !.xfer = FALSE]} ELSE {})

PowerLoss ==
  /\ \/ UNCHANGED flash
     \/ \E p \in ErasedNext : \E rest \in Remains(flash[p]) : flash' = [flash EXCEPT ![p] = rest]
  /\ pgRes' = 0 /\ pgLost' = [p \in Pages |-> 0]
  /\ hot' = NoItem
  /\ pc' = "pages"
  /\ req' = None /\ ret' = None
  /\ job' = NoJob /\ scan' = NoScan

Step == \/ LowVoltage \/ osal_nv_item_init \/ osal_nv_write \/ osal_nv_delete
        \/ StartCompaction \/ CompactItem \/ CompactEnd
        \/ WriteHeader \/ MarkOld \/ WriteData
        \/ UseTarget \/ EraseSource \/ ZeroOld \/ Finish
        \/ BootPage \/ BootRepair \/ ScanItem \/ ScanPageEnd \/ ScanEnd

Next == Call \/ Step \/ PowerLoss

Spec == Init /\ [][Next]_vars /\ WF_vars(Step)
-----------------------------------------------------------------------------
(* The pages whose items are kept by the next power-up: those in use,      *)
(* without one whose compaction was completed.                             *)
Completed(p) == flash[p].xfer /\ \A q \in Pages : flash[q].active
Kept == {p \in Pages : flash[p].active /\ ~Completed(p)}

Copies(i, old) == {it \in UNION {Range(flash[p].items) : p \in Kept} :
                     it.id = i /\ it.chk /\ it.old = old}

(* The value of an item that survives a loss of power now.                 *)
Stored(i) == LET newest == IF Copies(i, FALSE) # {} THEN Copies(i, FALSE) ELSE Copies(i, TRUE)
             IN  IF newest = {} THEN None ELSE (CHOOSE it \in newest : TRUE).val

ItemOK(it) == \/ it = Zeroed
              \/ it \in [id : Ids, val : Vals \cup {None}, old : BOOLEAN, chk : BOOLEAN]

(* The types of the variables; no item is written past the end of a page.  *)
TypeOK ==
  /\ \A p \in Pages : /\ flash[p].active \in BOOLEAN /\ flash[p].xfer \in BOOLEAN
                       /\ Len(flash[p].items) <= PageItems
                       /\ \A k \in DOMAIN flash[p].items : ItemOK(flash[p].items[k])
  /\ pgRes \in 0 .. NPages
  /\ pgLost \in [Pages -> 0 .. PageItems]

(* The lost slots of a page are never overestimated, in use or after a     *)
(* repair: a page chosen for its lost slots has room after its compaction, *)
(* and no item is written past the end (initItem).  They may be            *)
(* underestimated: the last pass of initNV does not finish a page that     *)
(* still holds an old item.                                                *)
RoomCounted ==
  TypeOK /\ (pc = "ready" => \A p \in Pages : pgLost[p] <= ZeroedIn(p))

(* Every read finds what is stored: findItem, which looks at no checksum   *)
(* and walks all pages, finds the copy that a power-up would keep, and the *)
(* remembered place of a hot item is the place of that copy                *)
(* (osal_nv_read).                                                         *)
ReadsStored ==
  pc = "ready" =>
    /\ \A i \in Ids : Stored(i) = IF FindItem(i) = NoItem THEN None ELSE ItemAt(FindItem(i)).val
    /\ hot # NoItem /\ HotId \notin Deletable => hot = FindItem(HotId)

(* After the last loss of power every power-up and every request comes to  *)
(* its end, though initNV walks the pages again after it found an old copy *)
(* and osal_nv_write compacts.                                             *)
ComesToRest == <>[][~PowerLoss]_vars => (pc # "ready" ~> pc = "ready")

(* The steps that are left to a power-up or a request, at most: those of    *)
(* the passes over all pages that may follow (initPage walks three times   *)
(* at most), then one for every write that is still to come.               *)
PassSteps == NPages * (PageItems + 1) + 1
PassLeft == (NPages + 1 - scan.pg) * (PageItems + 1) + 2 - scan.ix
PassesAfter == CASE scan.pass = "mark" -> 2 [] scan.pass = "dups" -> 1 [] scan.pass = "final" -> 0

StepsLeft ==
  LET Walk == 3 * PassSteps
  IN  CASE pc = "ready"   -> 0
        [] pc = "scan"    -> PassesAfter * PassSteps + PassLeft
        [] pc = "return"  -> 1
        [] pc = "zero"    -> 2
        [] pc = "erase"   -> Walk + 1
        [] pc = "use"     -> Walk + 2
        [] pc = "data"    -> Walk + 3
        [] pc = "mark"    -> Walk + 4
        [] pc = "header"  -> Walk + 5
        [] pc = "compact" -> Walk + 6 + PageItems + 1 - job.k
        [] pc = "xfer"    -> Walk + 7 + PageItems
        [] pc = "find"    -> Walk + 8 + PageItems
        [] pc = "pages"   -> Walk + 8 + PageItems + NPages - scan.pg

(* Every step of a power-up or of a request brings it nearer to its end:   *)
(* neither the repeated passes of initNV nor a compaction can go on for    *)
(* ever, whatever the losses of power left in the flash.                   *)
ComesNearer == [][Step => StepsLeft' < StepsLeft /\ StepsLeft' >= 0]_vars

(* The memory implements the map: no loss of power, compaction or repair   *)
(* changes a value, and a request that returned success is stored.         *)
Map == INSTANCE NvMap WITH map <- [i \in Ids |-> Stored(i)]
ImplementsNvMap == Map!Spec
=============================================================================
