--------------------------- MODULE OSAL_Nv_proofs ---------------------------
(***************************************************************************)
(* The non-volatile memory is a map that survives every loss of power, for *)
(* any items and values and any number and size of pages.                  *)
(***************************************************************************)
EXTENDS OSAL_Nv, FiniteSetTheorems, WellFoundedInduction, TLAPS

(***************************************************************************)
(* What the proof sees of a flash memory f.  A slot k of a page p that is  *)
(* written is zeroed, or holds the header of an item whose data is not     *)
(* complete, or a copy of an item i with its value, which may be marked as *)
(* transferred.                                                            *)
(***************************************************************************)
Slots == 1 .. PageItems

Headers == [id : Ids, val : {None}, old : {FALSE}, chk : {FALSE}]
Wholes == [id : Ids, val : Vals, old : BOOLEAN, chk : {TRUE}]
Cells == {Zeroed} \cup Headers \cup Wholes
PageSet == [active : BOOLEAN, xfer : BOOLEAN, items : Seq(Cells)]

Num(f, p) == Len(f[p].items)
Act(f, p) == f[p].active
Xf(f, p) == f[p].xfer

Flashes == {f \in [Pages -> PageSet] :
              \A p \in Pages : Num(f, p) <= PageItems /\ (Xf(f, p) => Act(f, p))}

Zero(f, p, k) == k <= Num(f, p) /\ f[p].items[k] = Zeroed
Torn(f, p, k) == k <= Num(f, p) /\ f[p].items[k] \in Headers
Copy(f, p, k, i) == k <= Num(f, p) /\ f[p].items[k].chk /\ f[p].items[k].id = i
Old(f, p, k) == k <= Num(f, p) /\ f[p].items[k].old
Val(f, p, k) == f[p].items[k].val

(* Of every item there is at most one copy of each kind.                   *)
Paired(f) ==
  \A i \in Ids : \A p, q \in Pages : \A k, l \in Slots :
    /\ Act(f, p) /\ Copy(f, p, k, i)
    /\ Act(f, q) /\ Copy(f, q, l, i)
    /\ Old(f, p, k) <=> Old(f, q, l)
    => p = q /\ k = l

Single(f, i) ==
  \A p, q \in Pages : \A k, l \in Slots :
    /\ Act(f, p) /\ Copy(f, p, k, i)
    /\ Act(f, q) /\ Copy(f, q, l, i)
    => p = q /\ k = l

Absent(f, i) == \A p \in Pages : \A k \in Slots : Act(f, p) => ~Copy(f, p, k, i)
NoTorn(f) == \A p \in Pages : \A k \in Slots : ~Torn(f, p, k)
NoXfer(f) == \A p \in Pages : ~Xf(f, p)

(* The states of the pages that a loss of power can leave behind: nothing  *)
(* is moved; the items of page c are moved into page t; they are, and c is *)
(* to be erased; the same after the mark of c was lost.                    *)
Open(f) ==
  /\ NoXfer(f)
  /\ \E p \in Pages : ~Act(f, p)
  /\ \A p, q \in Pages : ~Act(f, p) /\ ~Act(f, q) /\ p # q => Num(f, p) = 0

Moving(f, c, t) ==
  /\ c \in Pages /\ t \in Pages /\ c # t
  /\ \A p \in Pages : (Act(f, p) <=> p # t) /\ (Xf(f, p) <=> p = c)
  /\ Num(f, c) = PageItems
  /\ \A i \in Ids : Single(f, i)

Superseded(f, c) ==
  /\ Num(f, c) = PageItems
  /\ \A k \in Slots : \A i \in Ids :
       Copy(f, c, k, i) =>
         /\ Old(f, c, k)
         /\ \E q \in Pages : \E l \in Slots : q # c /\ Copy(f, q, l, i) /\ ~Old(f, q, l)

Moved(f, c) ==
  /\ c \in Pages
  /\ \A p \in Pages : Act(f, p) /\ (Xf(f, p) <=> p = c)
  /\ Superseded(f, c)

Stale(f, c) ==
  /\ c \in Pages
  /\ \A p \in Pages : Act(f, p) /\ ~Xf(f, p)
  /\ Superseded(f, c)

Safe(f) == /\ f \in Flashes /\ Paired(f)
           /\ \/ Open(f)
              \/ \E c \in Pages : Moved(f, c) \/ Stale(f, c) \/ \E t \in Pages : Moving(f, c, t)

(* Between two requests, and while nothing is moved: the reserve r is      *)
(* empty and all other pages are in use.                                   *)
Rests(f, r) == /\ r \in Pages /\ Num(f, r) = 0 /\ NoXfer(f)
               /\ \A p \in Pages : Act(f, p) <=> p # r

(* The value of an item, by the copies in the pages that are kept.         *)
KeptPage(f, p) == Act(f, p) /\ ~(Xf(f, p) /\ \A q \in Pages : Act(f, q))
SaysNew(f, i, v) == \E p \in Pages : \E k \in Slots :
  KeptPage(f, p) /\ Copy(f, p, k, i) /\ ~Old(f, p, k) /\ Val(f, p, k) = v
SaysOld(f, i, v) == \E p \in Pages : \E k \in Slots :
  KeptPage(f, p) /\ Copy(f, p, k, i) /\ Old(f, p, k) /\ Val(f, p, k) = v
Values == Vals \cup {None}
Holds(f, i, v) ==
  \/ SaysNew(f, i, v) /\ \A w \in Values : SaysNew(f, i, w) => w = v
  \/ SaysOld(f, i, v) /\ \A w \in Values : ~SaysNew(f, i, w) /\ (SaysOld(f, i, w) => w = v)
  \/ v = None /\ \A w \in Values : ~SaysNew(f, i, w) /\ ~SaysOld(f, i, w)

Requests == [op : {"init", "write"}, id : Ids, val : Vals]
            \cup [op : {"delete"}, id : Deletable, val : Vals]
Jobs == [skip : Ids \cup {None}, src : Nat \X Nat, com : 0 .. NPages, dst : 0 .. NPages, k : Nat]
Scans == [pg : Nat, ix : Nat, lost : Nat, pass : {"mark", "dups", "final"}, old : Nat]

Zeros(f, p) == {k \in Slots : Zero(f, p, k)}
ZerosTo(f, p, n) == {k \in Slots : k < n /\ Zero(f, p, k)}

HotLive == hot # NoItem /\ HotId \notin Deletable
HotOld == Old(flash, hot[1], hot[2])

Base ==
  /\ flash \in Flashes /\ Paired(flash)
  /\ pgRes \in 0 .. NPages
  /\ pgLost \in [Pages -> Nat]
  /\ \A p \in Pages : pgLost[p] <= Cardinality(Zeros(flash, p))
  /\ hot \in Nat \X Nat
  /\ HotLive => hot[1] \in Pages /\ hot[2] \in Slots /\ Copy(flash, hot[1], hot[2], HotId)
  /\ req \in Requests \cup {None}
  /\ job \in Jobs /\ scan \in Scans
  /\ pc \in {"pages", "scan", "ready", "find", "xfer", "compact", "header", "mark", "data",
             "use", "erase", "zero", "return"}

PagesPhase ==
  /\ Safe(flash) /\ req = None /\ job = NoJob /\ hot = NoItem
  /\ scan.pg \in 1 .. NPages + 1
  /\ pgRes < scan.pg /\ (pgRes # 0 => ~Act(flash, pgRes))
  /\ scan.old < scan.pg
  /\ \A p \in Pages : p < scan.pg => (p # pgRes => Act(flash, p)) /\ (Xf(flash, p) <=> p = scan.old)

Seen(p, k) == p < scan.pg \/ (p = scan.pg /\ k < scan.ix)

MarkPass ==
  /\ \A p \in Pages : \A k \in Slots : Seen(p, k) => ~Torn(flash, p, k) /\ ~Old(flash, p, k)
  /\ \A p \in Pages : p < scan.pg => Cardinality(Zeros(flash, p)) <= pgLost[p]
  /\ scan.pg \in Pages => Cardinality(ZerosTo(flash, scan.pg, scan.ix)) <= scan.lost

DupsPass ==
  \A p \in Pages : \A k \in Slots : Seen(p, k) =>
    /\ ~Torn(flash, p, k)
    /\ \A i \in Ids : Copy(flash, p, k, i) /\ ~Old(flash, p, k) => Single(flash, i)

FinalPass ==
  /\ NoTorn(flash) /\ \A i \in Ids : Single(flash, i)
  /\ \A p \in Pages : p < scan.pg /\ (\A k \in Slots : ~Old(flash, p, k)) =>
       Cardinality(Zeros(flash, p)) <= pgLost[p]
  /\ scan.pg \in Pages => Cardinality(ZerosTo(flash, scan.pg, scan.ix)) <= scan.lost

ScanPhase ==
  /\ req = None
  /\ IF pgRes = 0 THEN \E c \in Pages : Stale(flash, c) ELSE Rests(flash, pgRes)
  /\ scan.pg \in 1 .. NPages + 1
  /\ scan.pg \in Pages => scan.ix \in 1 .. Num(flash, scan.pg) + 1
  /\ scan.pg \in Pages => scan.lost <= Cardinality(ZerosTo(flash, scan.pg, scan.ix))
  /\ scan.pass = "mark" => MarkPass
  /\ scan.pass = "dups" => DupsPass
  /\ scan.pass = "final" => FinalPass
  /\ HotLive => ~HotOld

Rest == Rests(flash, pgRes) /\ NoTorn(flash) /\ \A i \in Ids : Single(flash, i)

SrcCopy == /\ job.src[1] \in Pages /\ job.src[2] \in Slots
           /\ Act(flash, job.src[1]) /\ Copy(flash, job.src[1], job.src[2], req.id)
SrcOld == Old(flash, job.src[1], job.src[2])

NewJob ==
  /\ req \in Requests /\ req.op \in {"init", "write"} /\ job.skip = req.id
  /\ req.op = "write" => SrcCopy
  /\ req.op = "init" => job.src = NoItem /\ Absent(flash, req.id)
  /\ IF job.com = 0 THEN job.dst \in Pages /\ job.dst # pgRes
     ELSE job.dst = pgRes /\ pgRes \in Pages /\ \E z \in Slots : Zero(flash, job.com, z)

(* The first n - 1 slots of c are copied into t, except the item skip.     *)
Copied(f, c, t, n, skip) ==
  \A j \in Slots : \A i \in Ids : j < n /\ Copy(f, c, j, i) /\ i # skip =>
    /\ Old(f, c, j)
    /\ \E l \in Slots : Copy(f, t, l, i) /\ Val(f, t, l) = Val(f, c, j)
FromPage(f, c, t, n, skip) ==
  \A l \in Slots : \A i \in Ids : Copy(f, t, l, i) =>
    /\ ~Old(f, t, l)
    /\ i # skip => \E j \in Slots : j < n /\ Copy(f, c, j, i) /\ Val(f, t, l) = Val(f, c, j)
    /\ \A m \in Slots : Copy(f, t, m, i) => m = l
Compacts(n) == /\ Moving(flash, job.com, pgRes)
               /\ Copied(flash, job.com, pgRes, n, job.skip)
               /\ FromPage(flash, job.com, pgRes, n, job.skip)
Without(f, t, i) == \A l \in Slots : ~Copy(f, t, l, i)
AllDone == PageItems + 1

CompactPhase ==
  /\ Compacts(job.k) /\ job.k \in 1 .. AllDone
  /\ Num(flash, pgRes) < job.k
  /\ \A z \in Slots : z < job.k /\ Zero(flash, job.com, z) => Num(flash, pgRes) + 1 < job.k
  /\ HotLive /\ hot[1] = job.com => hot[2] >= job.k \/ HotId = job.skip
  /\ IF req = None THEN job.skip = None /\ (HotLive => hot[1] = pgRes)
     ELSE NewJob /\ NoTorn(flash) /\ Without(flash, pgRes, req.id)

Settled ==
  IF job.com = 0 THEN Rests(flash, pgRes) /\ \A i \in Ids : Single(flash, i)
  ELSE /\ Compacts(AllDone) /\ Without(flash, pgRes, req.id)
       /\ HotLive /\ hot[1] = job.com => HotId = req.id

HeaderPhase == NewJob /\ Settled /\ NoTorn(flash) /\ Num(flash, job.dst) < PageItems

DataPhase ==
  /\ NewJob /\ Settled
  /\ Num(flash, job.dst) > 0 /\ Torn(flash, job.dst, Num(flash, job.dst))
  /\ \A p \in Pages : \A k \in Slots : Torn(flash, p, k) => p = job.dst /\ k = Num(flash, job.dst)
  /\ IF pc = "mark" THEN req.op = "write" ELSE req.op = "write" => SrcOld

UsePhase ==
  /\ Compacts(AllDone)
  /\ HotLive => hot[1] # job.com
  /\ IF req = None THEN job.skip = None /\ (HotLive => hot[1] = pgRes)
     ELSE /\ NewJob /\ NoTorn(flash) /\ (req.op = "write" => SrcOld)
          /\ \E l \in Slots : Copy(flash, pgRes, l, req.id) /\ Val(flash, pgRes, l) = req.val
          /\ HotLive /\ HotId = req.id => ~HotOld

ErasePhase ==
  /\ Moved(flash, job.com)
  /\ HotLive => hot[1] # job.com
  /\ HotLive /\ (req = None \/ req.id = HotId) => ~HotOld
  /\ req # None =>
       /\ req.op \in {"init", "write"} /\ NoTorn(flash)
       /\ SaysNew(flash, req.id, req.val)
       /\ IF req.op = "write" THEN SrcCopy /\ SrcOld
          ELSE job.src = NoItem /\ \A p \in Pages : \A k \in Slots : Copy(flash, p, k, req.id) => ~Old(flash, p, k)
       /\ \A i \in Ids \ {req.id} : \A p, q \in Pages \ {job.com} : \A k, l \in Slots :
            Copy(flash, p, k, i) /\ Copy(flash, q, l, i) => p = q /\ k = l

ZeroPhase ==
  /\ Rests(flash, pgRes) /\ NoTorn(flash)
  /\ req \in Requests /\ SrcCopy
  /\ \A i \in Ids \ {req.id} : Single(flash, i)
  /\ IF req.op = "delete" THEN Single(flash, req.id)
     ELSE req.op = "write" /\ SrcOld /\ SaysNew(flash, req.id, req.val)
  /\ HotLive /\ HotId = req.id => ~HotOld

Wanted == IF req.op = "delete" THEN None ELSE req.val

ReturnPhase == Rest /\ req \in Requests /\ Holds(flash, req.id, Wanted)

IInv ==
  /\ Base
  /\ pc \notin {"pages", "scan"} => scan = NoScan
  /\ pc = "pages" => PagesPhase
  /\ pc = "scan" => ScanPhase
  /\ pc = "ready" => Rest /\ req = None /\ job = NoJob
  /\ pc = "find" => Rest /\ req \in Requests
  /\ pc = "xfer" => Rest /\ NewJob /\ job.com \in Pages \ {pgRes} /\ job.k = 1
                         /\ Num(flash, job.com) = PageItems
  /\ pc = "compact" => CompactPhase
  /\ pc = "header" => HeaderPhase
  /\ pc \in {"mark", "data"} => DataPhase
  /\ pc = "use" => UsePhase
  /\ pc = "erase" => ErasePhase
  /\ pc = "zero" => ZeroPhase
  /\ pc = "return" => ReturnPhase

-----------------------------------------------------------------------------
(* The slots, and what a write does to them.                               *)

LEMMA CellKinds ==
  /\ ~Zeroed.chk /\ ~Zeroed.old /\ Zeroed \notin Headers /\ Zeroed \notin Wholes
  /\ \A c \in Headers : ~c.chk /\ ~c.old /\ c.id \in Ids /\ c # Zeroed
  /\ \A c \in Wholes : c.chk /\ c.id \in Ids /\ c.val \in Vals /\ c # Zeroed /\ c \notin Headers
<1>1. ~Zeroed.chk /\ ~Zeroed.old /\ Zeroed.id = None
  BY DEF Zeroed
<1>2. \A c \in Headers : ~c.chk /\ ~c.old /\ c.id \in Ids
  BY DEF Headers
<1>3. \A c \in Wholes : c.chk /\ c.id \in Ids /\ c.val \in Vals
  BY DEF Wholes
<1> HIDE DEF Zeroed, Headers, Wholes
<1> QED
  BY <1>1, <1>2, <1>3, ItemAssumption

LEMMA Types ==
  ASSUME NEW f \in Flashes, NEW p \in Pages
  PROVE  /\ f \in [Pages -> PageSet]
         /\ f[p].items \in Seq(Cells) /\ f[p].active \in BOOLEAN /\ f[p].xfer \in BOOLEAN
         /\ f[p] = [active |-> f[p].active, xfer |-> f[p].xfer, items |-> f[p].items]
         /\ Num(f, p) \in 0 .. PageItems
         /\ Xf(f, p) => Act(f, p)
         /\ \A k \in Slots : k <= Num(f, p) => f[p].items[k] \in Cells
<1>1. f \in [Pages -> PageSet] /\ Num(f, p) <= PageItems /\ (Xf(f, p) => Act(f, p))
  BY DEF Flashes
<1>2. f[p] \in PageSet
  BY <1>1
<1>3. /\ f[p].items \in Seq(Cells) /\ f[p].active \in BOOLEAN /\ f[p].xfer \in BOOLEAN
      /\ f[p] = [active |-> f[p].active, xfer |-> f[p].xfer, items |-> f[p].items]
  BY <1>2 DEF PageSet
<1>4. Num(f, p) \in 0 .. PageItems
  BY <1>1, <1>3, PageAssumption DEF Num
<1>5. \A k \in Slots : k <= Num(f, p) => f[p].items[k] \in Cells
  BY <1>3 DEF Num, Slots
<1> QED
  BY <1>1, <1>3, <1>4, <1>5

LEMMA Kinds ==
  ASSUME NEW f \in Flashes, NEW p \in Pages, NEW k \in Slots
  PROVE  /\ k <= Num(f, p) <=> Zero(f, p, k) \/ Torn(f, p, k) \/ \E i \in Ids : Copy(f, p, k, i)
         /\ Zero(f, p, k) => ~Torn(f, p, k)
         /\ Old(f, p, k) => \E i \in Ids : Copy(f, p, k, i)
         /\ \A i \in Ids : Copy(f, p, k, i) =>
              /\ ~Zero(f, p, k) /\ ~Torn(f, p, k) /\ Val(f, p, k) \in Vals
              /\ \A j \in Ids : Copy(f, p, k, j) => j = i
<1>1. k <= Num(f, p) => f[p].items[k] \in Cells
  BY Types
<1>2. \A c \in Cells : c = Zeroed \/ c \in Headers \/ c \in Wholes
  BY DEF Cells
<1> HIDE DEF Headers, Wholes, Zeroed, Cells
<1>4. CASE k <= Num(f, p)
  <2> DEFINE c == f[p].items[k]
  <2>1. c = Zeroed \/ c \in Headers \/ c \in Wholes
    BY <1>1, <1>2, <1>4
  <2>2. CASE c = Zeroed
    BY CellKinds, <1>4, <2>2 DEF Zero, Torn, Copy, Old
  <2>3. CASE c \in Headers
    BY CellKinds, <1>4, <2>3 DEF Zero, Torn, Copy, Old
  <2>4. CASE c \in Wholes
    BY CellKinds, <1>4, <2>4 DEF Zero, Torn, Copy, Old, Val
  <2> QED
    BY <2>1, <2>2, <2>3, <2>4
<1>5. CASE ~(k <= Num(f, p))
  BY <1>5 DEF Zero, Torn, Copy, Old
<1> QED
  BY <1>4, <1>5

(* A page whose slots are those of another page.                           *)
SameSlots(f, g, p) ==
  /\ Num(g, p) = Num(f, p)
  /\ \A k \in Slots : /\ Zero(g, p, k) <=> Zero(f, p, k)
                      /\ Torn(g, p, k) <=> Torn(f, p, k)
                      /\ Old(g, p, k) <=> Old(f, p, k)
                      /\ Val(g, p, k) = Val(f, p, k)
                      /\ \A i \in Ids : Copy(g, p, k, i) <=> Copy(f, p, k, i)
SamePage(f, g, p) == SameSlots(f, g, p) /\ (Act(g, p) <=> Act(f, p)) /\ (Xf(g, p) <=> Xf(f, p))

LEMMA ItemsSame ==
  ASSUME NEW f, NEW g, NEW p, g[p].items = f[p].items
  PROVE  SameSlots(f, g, p)
BY DEF SameSlots, Num, Zero, Torn, Old, Val, Copy

LEMMA PageSame ==
  ASSUME NEW f, NEW g, NEW p, g[p] = f[p]
  PROVE  SamePage(f, g, p)
BY ItemsSame DEF SamePage, Act, Xf

(* A new item in a page: its header, or all of it.                         *)
LEMMA Adding ==
  ASSUME NEW f \in Flashes, NEW p \in Pages, NEW it \in Headers \cup Wholes,
         Num(f, p) < PageItems, NEW g, g = AddItem(f, p, it)
  PROVE  /\ g \in Flashes
         /\ \A q \in Pages \ {p} : SamePage(f, g, q)
         /\ Num(g, p) = Num(f, p) + 1
         /\ (Act(g, p) <=> Act(f, p)) /\ (Xf(g, p) <=> Xf(f, p))
         /\ \A k \in Slots :
              /\ Zero(g, p, k) <=> Zero(f, p, k)
              /\ Torn(g, p, k) <=> Torn(f, p, k) \/ (k = Num(g, p) /\ it \in Headers)
              /\ k # Num(g, p) => (Old(g, p, k) <=> Old(f, p, k))
              /\ k <= Num(f, p) => Val(g, p, k) = Val(f, p, k)
              /\ \A i \in Ids : Copy(g, p, k, i) <=> Copy(f, p, k, i) \/ (k = Num(g, p) /\ it.chk /\ it.id = i)
         /\ Num(g, p) \in Slots
         /\ Old(g, p, Num(g, p)) <=> it.old
         /\ Val(g, p, Num(g, p)) = it.val
<1> DEFINE n == Num(f, p)
           page == [f[p] EXCEPT !.items = Append(@, it)]
<1>1. /\ f \in [Pages -> PageSet] /\ f[p].items \in Seq(Cells) /\ n = Len(f[p].items) /\ n \in Nat
      /\ f[p].active \in BOOLEAN /\ f[p].xfer \in BOOLEAN
      /\ f[p] = [active |-> f[p].active, xfer |-> f[p].xfer, items |-> f[p].items]
  BY Types DEF Num
<1>2. g = [f EXCEPT ![p] = page]
  BY DEF AddItem
<1>3. page = [active |-> f[p].active, xfer |-> f[p].xfer, items |-> Append(f[p].items, it)]
  BY <1>1
<1>4. it \in Cells /\ it # Zeroed
  BY CellKinds DEF Cells
<1>5. /\ Append(f[p].items, it) \in Seq(Cells) /\ Len(Append(f[p].items, it)) = n + 1
      /\ Append(f[p].items, it)[n + 1] = it
      /\ \A k \in 1 .. n : Append(f[p].items, it)[k] = f[p].items[k]
  BY <1>1, <1>4
<1>6. page \in PageSet
  BY <1>1, <1>3, <1>5 DEF PageSet
<1>7. g[p] = page /\ \A q \in Pages \ {p} : g[q] = f[q]
  BY <1>1, <1>2
<1>8. g[p].items = Append(f[p].items, it) /\ g[p].active = f[p].active /\ g[p].xfer = f[p].xfer
  BY <1>3, <1>7
<1>9. g \in [Pages -> PageSet]
  BY <1>1, <1>2, <1>6
<1>10. Num(g, p) = n + 1 /\ (Act(g, p) <=> Act(f, p)) /\ (Xf(g, p) <=> Xf(f, p))
  BY <1>5, <1>8 DEF Num, Act, Xf
<1>11. \A q \in Pages \ {p} : SamePage(f, g, q)
  BY <1>7, PageSame
<1>12. g \in Flashes
  <2>1. \A q \in Pages : Num(f, q) <= PageItems /\ (Xf(f, q) => Act(f, q))
    BY Types DEF Flashes
  <2>2. \A q \in Pages : Num(g, q) <= PageItems /\ (Xf(g, q) => Act(g, q))
    BY <1>1, <1>10, <1>11, <2>1, PageAssumption DEF SamePage, SameSlots
  <2> QED
    BY <1>9, <2>2 DEF Flashes
<1>13. n + 1 \in Slots
  BY <1>1, PageAssumption DEF Slots
<1>14. \A k \in Slots : /\ k <= n => g[p].items[k] = f[p].items[k]
                        /\ k = n + 1 => g[p].items[k] = it
                        /\ k <= n + 1 <=> k <= n \/ k = n + 1
                        /\ ~(k <= n /\ k = n + 1)
  BY <1>1, <1>5, <1>8 DEF Slots
<1> HIDE DEF n, page
<1>15. it \in Headers <=> ~it.chk
  BY DEF Headers, Wholes
<1>16. \A k \in Slots :
              /\ Zero(g, p, k) <=> Zero(f, p, k)
              /\ Torn(g, p, k) <=> Torn(f, p, k) \/ (k = Num(g, p) /\ it \in Headers)
              /\ k # Num(g, p) => (Old(g, p, k) <=> Old(f, p, k))
              /\ k <= Num(f, p) => Val(g, p, k) = Val(f, p, k)
              /\ \A i \in Ids : Copy(g, p, k, i) <=> Copy(f, p, k, i) \/ (k = Num(g, p) /\ it.chk /\ it.id = i)
  BY <1>4, <1>10, <1>14 DEF n, Zero, Torn, Old, Val, Copy
<1>17. Old(g, p, Num(g, p)) <=> it.old
  BY <1>10, <1>13, <1>14 DEF Old
<1>18. Val(g, p, Num(g, p)) = it.val
  BY <1>10, <1>13, <1>14 DEF Val
<1> QED
  BY <1>10, <1>11, <1>12, <1>13, <1>16, <1>17, <1>18 DEF n

(* A slot gets a new contents, a page a new header.                        *)
Put(f, p, n, it) == [f EXCEPT ![p].items[n] = it]
PutPage(f, p, pg) == [f EXCEPT ![p] = pg]

LEMMA Replacing ==
  ASSUME NEW f \in Flashes, NEW p \in Pages, NEW n \in Slots, n <= Num(f, p),
         NEW it \in Cells, NEW g, g = Put(f, p, n, it)
  PROVE  /\ g \in Flashes
         /\ \A q \in Pages \ {p} : SamePage(f, g, q)
         /\ Num(g, p) = Num(f, p)
         /\ (Act(g, p) <=> Act(f, p)) /\ (Xf(g, p) <=> Xf(f, p))
         /\ g[p].items[n] = it
         /\ \A k \in Slots \ {n} : k <= Num(f, p) => g[p].items[k] = f[p].items[k]
<1> DEFINE s == f[p].items
           t == [s EXCEPT ![n] = it]
           page == [f[p] EXCEPT !.items = t]
<1>1. /\ f \in [Pages -> PageSet] /\ s \in Seq(Cells) /\ Num(f, p) = Len(s) /\ Num(f, p) \in Nat
      /\ f[p].active \in BOOLEAN /\ f[p].xfer \in BOOLEAN
      /\ f[p] = [active |-> f[p].active, xfer |-> f[p].xfer, items |-> s]
  BY Types DEF Num
<1>2. g = [f EXCEPT ![p] = page]
  BY DEF Put
<1>3. n \in 1 .. Len(s)
  BY <1>1 DEF Slots
<1>4. /\ t \in Seq(Cells) /\ Len(t) = Len(s) /\ t[n] = it
      /\ \A k \in 1 .. Len(s) : k # n => t[k] = s[k]
  BY <1>1, <1>3
<1> HIDE DEF t
<1>5. page = [active |-> f[p].active, xfer |-> f[p].xfer, items |-> t]
  BY <1>1
<1>6. page \in PageSet
  BY <1>1, <1>4, <1>5 DEF PageSet
<1>7. g[p] = page /\ \A q \in Pages \ {p} : g[q] = f[q]
  BY <1>1, <1>2
<1>8. g[p].items = t /\ g[p].active = f[p].active /\ g[p].xfer = f[p].xfer
  BY <1>5, <1>7
<1>9. g \in [Pages -> PageSet]
  BY <1>1, <1>2, <1>6
<1>10. Num(g, p) = Num(f, p) /\ (Act(g, p) <=> Act(f, p)) /\ (Xf(g, p) <=> Xf(f, p))
  BY <1>1, <1>4, <1>8 DEF Num, Act, Xf
<1>11. \A q \in Pages \ {p} : SamePage(f, g, q)
  BY <1>7, PageSame
<1>12. g \in Flashes
  <2>1. \A q \in Pages : Num(f, q) <= PageItems /\ (Xf(f, q) => Act(f, q))
    BY Types DEF Flashes
  <2>2. \A q \in Pages : Num(g, q) <= PageItems /\ (Xf(g, q) => Act(g, q))
    BY <1>10, <1>11, <2>1 DEF SamePage, SameSlots
  <2> QED
    BY <1>9, <2>2 DEF Flashes
<1>13. \A k \in Slots \ {n} : k <= Num(f, p) => g[p].items[k] = f[p].items[k]
  BY <1>1, <1>4, <1>8 DEF Slots
<1> QED
  BY <1>4, <1>8, <1>10, <1>11, <1>12, <1>13

(* The slots besides n after such a change.                                *)
LEMMA OtherSlots ==
  ASSUME NEW f, NEW g, NEW p, NEW k, Num(g, p) = Num(f, p),
         k <= Num(f, p) => g[p].items[k] = f[p].items[k]
  PROVE  /\ Zero(g, p, k) <=> Zero(f, p, k)
         /\ Torn(g, p, k) <=> Torn(f, p, k)
         /\ Old(g, p, k) <=> Old(f, p, k)
         /\ \A i : Copy(g, p, k, i) <=> Copy(f, p, k, i)
         /\ k <= Num(f, p) => Val(g, p, k) = Val(f, p, k)
BY DEF Zero, Torn, Old, Copy, Val

(* The slots of page p but n are as they were.                             *)
SameBut(f, g, p, n) ==
  /\ g \in Flashes
  /\ \A q \in Pages \ {p} : SamePage(f, g, q)
  /\ Num(g, p) = Num(f, p)
  /\ (Act(g, p) <=> Act(f, p)) /\ (Xf(g, p) <=> Xf(f, p))
  /\ \A k \in Slots \ {n} :
       /\ Zero(g, p, k) <=> Zero(f, p, k)
       /\ Torn(g, p, k) <=> Torn(f, p, k)
       /\ Old(g, p, k) <=> Old(f, p, k)
       /\ k <= Num(f, p) => Val(g, p, k) = Val(f, p, k)
       /\ \A i \in Ids : Copy(g, p, k, i) <=> Copy(f, p, k, i)

LEMMA ReplacedSlot ==
  ASSUME NEW f \in Flashes, NEW p \in Pages, NEW n \in Slots, n <= Num(f, p),
         NEW it \in Cells, NEW g, g = Put(f, p, n, it)
  PROVE  SameBut(f, g, p, n) /\ g[p].items[n] = it
<1>1. /\ g \in Flashes
      /\ \A q \in Pages \ {p} : SamePage(f, g, q)
      /\ Num(g, p) = Num(f, p)
      /\ (Act(g, p) <=> Act(f, p)) /\ (Xf(g, p) <=> Xf(f, p))
      /\ g[p].items[n] = it
      /\ \A k \in Slots \ {n} : k <= Num(f, p) => g[p].items[k] = f[p].items[k]
  BY Replacing
<1>2. ASSUME NEW k \in Slots \ {n}
      PROVE  /\ Zero(g, p, k) <=> Zero(f, p, k)
             /\ Torn(g, p, k) <=> Torn(f, p, k)
             /\ Old(g, p, k) <=> Old(f, p, k)
             /\ k <= Num(f, p) => Val(g, p, k) = Val(f, p, k)
             /\ \A i \in Ids : Copy(g, p, k, i) <=> Copy(f, p, k, i)
  <2>1. k <= Num(f, p) => g[p].items[k] = f[p].items[k]
    BY <1>1
  <2> QED
    BY <1>1, <2>1, OtherSlots
<1> QED
  BY <1>1, <1>2 DEF SameBut

LEMMA Zeroing ==
  ASSUME NEW f \in Flashes, NEW p \in Pages, NEW n \in Slots, n <= Num(f, p),
         NEW g, g = ZeroItem(f, <<p, n>>)
  PROVE  /\ SameBut(f, g, p, n)
         /\ Zero(g, p, n) /\ ~Torn(g, p, n) /\ ~Old(g, p, n)
         /\ \A i \in Ids : ~Copy(g, p, n, i)
<1>1. SameBut(f, g, p, n) /\ g[p].items[n] = Zeroed
  <2>1. g = Put(f, p, n, Zeroed) /\ Zeroed \in Cells
    BY DEF ZeroItem, Cells, Put
  <2> QED
    BY <2>1, ReplacedSlot
<1>2. n <= Num(g, p)
  BY <1>1 DEF SameBut
<1> QED
  BY <1>1, <1>2, CellKinds DEF Zero, Torn, Old, Copy

LEMMA Marking ==
  ASSUME NEW f \in Flashes, NEW p \in Pages, NEW n \in Slots, NEW j \in Ids, Copy(f, p, n, j),
         NEW g, g = MarkXfer(f, <<p, n>>)
  PROVE  /\ SameBut(f, g, p, n)
         /\ ~Zero(g, p, n) /\ ~Torn(g, p, n) /\ Old(g, p, n)
         /\ Val(g, p, n) = Val(f, p, n)
         /\ \A i \in Ids : Copy(g, p, n, i) <=> Copy(f, p, n, i)
<1> DEFINE c == f[p].items[n]
           it == [c EXCEPT !.old = TRUE]
<1>1. n <= Num(f, p) /\ c.chk
  BY DEF Copy
<1>2. c \in Wholes
  <2>1. c \in Cells
    BY <1>1, Types
  <2> QED
    BY <1>1, <2>1, CellKinds DEF Cells
<1>3. it \in Wholes /\ it.old /\ it.val = c.val /\ it.id = c.id
  BY <1>2 DEF Wholes
<1>4. g = Put(f, p, n, it)
  BY DEF MarkXfer, Put
<1> HIDE DEF it, c
<1>5. it \in Cells
  BY <1>3 DEF Cells
<1>6. SameBut(f, g, p, n) /\ g[p].items[n] = it
  BY <1>1, <1>4, <1>5, ReplacedSlot
<1>7. n <= Num(g, p)
  BY <1>1, <1>6 DEF SameBut
<1> QED
  BY <1>1, <1>2, <1>3, <1>6, <1>7, CellKinds DEF Zero, Torn, Old, Copy, Val, c

(* The data and the checksum follow the header.                            *)
LEMMA Completing ==
  ASSUME NEW f \in Flashes, NEW p \in Pages, NEW n \in Slots, Torn(f, p, n),
         NEW j \in Ids, NEW v \in Vals, NEW it \in Wholes, ~it.old, it.val = v, it.id = j,
         NEW g, g = Put(f, p, n, it)
  PROVE  /\ SameBut(f, g, p, n)
         /\ ~Zero(g, p, n) /\ ~Torn(g, p, n) /\ ~Old(g, p, n)
         /\ Val(g, p, n) = v
         /\ \A i \in Ids : Copy(g, p, n, i) <=> i = j
<1>1. n <= Num(f, p) /\ it \in Cells
  BY DEF Torn, Cells
<1>3. SameBut(f, g, p, n) /\ g[p].items[n] = it
  BY <1>1, ReplacedSlot
<1>4. n <= Num(g, p)
  BY <1>1, <1>3 DEF SameBut
<1> QED
  BY <1>1, <1>3, <1>4, CellKinds DEF Zero, Torn, Old, Copy, Val

LEMMA Bounded ==
  ASSUME NEW f \in Flashes, NEW p \in Pages
  PROVE  f[p] \in PageSet /\ Len(f[p].items) <= PageItems /\ 0 <= PageItems /\ (f[p].xfer => f[p].active)
<1>1. Num(f, p) \in 0 .. PageItems /\ f \in [Pages -> PageSet] /\ (Xf(f, p) => Act(f, p))
  BY Types
<1> QED
  BY <1>1, PageAssumption DEF Num, Xf, Act

(* Writes to the header of a page, its erasure, and what is left of it     *)
(* when the power fails.                                                   *)
LEMMA HeaderWrite ==
  ASSUME NEW f \in Flashes, NEW p \in Pages, NEW pg \in PageSet, NEW g,
         g = PutPage(f, p, pg), pg.xfer => pg.active, Len(pg.items) <= PageItems
  PROVE  /\ g \in Flashes /\ g[p] = pg
         /\ \A q \in Pages \ {p} : SamePage(f, g, q)
<1>1. f \in [Pages -> PageSet]
  BY Types DEF Flashes
<1>2. g \in [Pages -> PageSet] /\ g[p] = pg /\ \A q \in Pages \ {p} : g[q] = f[q]
  BY <1>1 DEF PutPage
<1>3. \A q \in Pages \ {p} : SamePage(f, g, q)
  BY <1>2, PageSame
<1>4. \A q \in Pages : Num(f, q) <= PageItems /\ (Xf(f, q) => Act(f, q))
  BY Types DEF Flashes
<1>5. \A q \in Pages : Num(g, q) <= PageItems /\ (Xf(g, q) => Act(g, q))
  BY <1>2, <1>3, <1>4 DEF SamePage, SameSlots, Num, Xf, Act
<1> QED
  BY <1>2, <1>3, <1>5 DEF Flashes

LEMMA Activating ==
  ASSUME NEW f \in Flashes, NEW p \in Pages, NEW g, g = setPageUse(f, p)
  PROVE  /\ g \in Flashes /\ \A q \in Pages : SameSlots(f, g, q) /\ (Xf(g, q) <=> Xf(f, q))
         /\ \A q \in Pages : Act(g, q) <=> Act(f, q) \/ q = p
<1> DEFINE pg == [f[p] EXCEPT !.active = TRUE]
<1>1. pg \in PageSet /\ pg.active /\ pg.xfer = f[p].xfer /\ pg.items = f[p].items
  BY Bounded DEF PageSet
<1>2. g = PutPage(f, p, pg)
  BY DEF setPageUse, PutPage
<1> HIDE DEF pg
<1>3. g \in Flashes /\ g[p] = pg /\ \A q \in Pages \ {p} : SamePage(f, g, q)
  BY <1>1, <1>2, Bounded, HeaderWrite
<1>4. SameSlots(f, g, p)
  BY <1>1, <1>3, ItemsSame
<1> QED
  BY <1>1, <1>3, <1>4 DEF SamePage, Act, Xf

setPageXfer(f, p) == [f EXCEPT ![p].xfer = TRUE]

LEMMA StartingXfer ==
  ASSUME NEW f \in Flashes, NEW p \in Pages, Act(f, p), NEW g, g = setPageXfer(f, p)
  PROVE  /\ g \in Flashes /\ \A q \in Pages : SameSlots(f, g, q) /\ (Act(g, q) <=> Act(f, q))
         /\ \A q \in Pages : Xf(g, q) <=> Xf(f, q) \/ q = p
<1> DEFINE pg == [f[p] EXCEPT !.xfer = TRUE]
<1>1. pg \in PageSet /\ pg.xfer /\ pg.active = f[p].active /\ pg.items = f[p].items
  BY Bounded DEF PageSet
<1>2. g = PutPage(f, p, pg)
  BY DEF setPageXfer, PutPage
<1> HIDE DEF pg
<1>3. g \in Flashes /\ g[p] = pg /\ \A q \in Pages \ {p} : SamePage(f, g, q)
  BY <1>1, <1>2, Bounded, HeaderWrite DEF Act
<1>4. SameSlots(f, g, p)
  BY <1>1, <1>3, ItemsSame
<1> QED
  BY <1>1, <1>3, <1>4 DEF SamePage, Act, Xf

LEMMA Erasing ==
  ASSUME NEW f \in Flashes, NEW p \in Pages, NEW g, g = ErasePage(f, p)
  PROVE  /\ g \in Flashes /\ \A q \in Pages \ {p} : SamePage(f, g, q)
         /\ Num(g, p) = 0 /\ ~Act(g, p) /\ ~Xf(g, p)
         /\ \A k \in Slots : /\ ~Zero(g, p, k) /\ ~Torn(g, p, k) /\ ~Old(g, p, k)
                             /\ \A i \in Ids : ~Copy(g, p, k, i)
<1>1. Erased \in PageSet /\ ~Erased.xfer /\ ~Erased.active /\ Len(Erased.items) = 0
  BY DEF Erased, PageSet
<1>2. g = PutPage(f, p, Erased)
  BY DEF ErasePage, PutPage
<1> HIDE DEF Erased
<1>3. g \in Flashes /\ g[p] = Erased /\ \A q \in Pages \ {p} : SamePage(f, g, q)
  <2>1. Len(Erased.items) <= PageItems
    BY <1>1, Bounded
  <2> QED
    BY <1>1, <1>2, <2>1, HeaderWrite
<1>4. Num(g, p) = 0 /\ ~Act(g, p) /\ ~Xf(g, p)
  BY <1>1, <1>3 DEF Num, Act, Xf
<1>5. \A k \in Slots : ~(k <= Num(g, p))
  BY <1>4 DEF Slots
<1>6. \A k \in Slots : /\ ~Zero(g, p, k) /\ ~Torn(g, p, k) /\ ~Old(g, p, k)
                       /\ \A i \in Ids : ~Copy(g, p, k, i)
  BY <1>5 DEF Zero, Torn, Old, Copy
<1> QED
  BY <1>3, <1>4, <1>6

LEMMA Cutting ==
  ASSUME NEW f \in Flashes, NEW p \in Pages, NEW rest \in Remains(f[p]),
         NEW g, g = PutPage(f, p, rest)
  PROVE  /\ g \in Flashes /\ \A q \in Pages : SameSlots(f, g, q)
         /\ \A q \in Pages : Xf(g, q) <=> Xf(f, q) /\ q # p
         /\ \A q \in Pages \ {p} : Act(g, q) <=> Act(f, q)
         /\ Act(g, p) => Act(f, p)
<1>1. \/ rest = [f[p] EXCEPT !.active = FALSE, !.xfer = FALSE]
      \/ rest = [f[p] EXCEPT !.xfer = FALSE]
  BY DEF Remains
<1>2. rest \in PageSet /\ ~rest.xfer /\ rest.items = f[p].items /\ (rest.active => f[p].active)
  <2>1. f[p] \in PageSet
    BY Bounded
  <2>2. CASE rest = [f[p] EXCEPT !.active = FALSE, !.xfer = FALSE]
    BY <2>1, <2>2 DEF PageSet
  <2>3. CASE rest = [f[p] EXCEPT !.xfer = FALSE]
    BY <2>1, <2>3 DEF PageSet
  <2> QED
    BY <1>1, <2>2, <2>3
<1>3. Len(rest.items) <= PageItems /\ (rest.xfer => rest.active)
  BY <1>2, Bounded
<1>4. g \in Flashes /\ g[p] = rest /\ \A q \in Pages \ {p} : SamePage(f, g, q)
  BY <1>2, <1>3, HeaderWrite
<1>5. SameSlots(f, g, p)
  BY <1>2, <1>4, ItemsSame
<1> QED
  BY <1>2, <1>4, <1>5 DEF SamePage, Act, Xf

-----------------------------------------------------------------------------
(* The value of an item.                                                   *)

CopiesOf(f, i, b) ==
  {it \in UNION {Range(f[p].items) : p \in {q \in Pages : KeptPage(f, q)}} :
     it.id = i /\ it.chk /\ it.old = b}
TheValue(S) == IF S = {} THEN None ELSE (CHOOSE it \in S : TRUE).val
ValueOf(f, i) == TheValue(IF CopiesOf(f, i, FALSE) # {} THEN CopiesOf(f, i, FALSE)
                          ELSE CopiesOf(f, i, TRUE))

LEMMA StoredValue == ASSUME NEW i PROVE Stored(i) = ValueOf(flash, i)
<1>1. Kept = {q \in Pages : KeptPage(flash, q)}
  BY DEF Kept, Completed, KeptPage, Act, Xf
<1>2. Copies(i, FALSE) = CopiesOf(flash, i, FALSE) /\ Copies(i, TRUE) = CopiesOf(flash, i, TRUE)
  BY <1>1 DEF Copies, CopiesOf
<1>3. Stored(i) = TheValue(IF Copies(i, FALSE) # {} THEN Copies(i, FALSE) ELSE Copies(i, TRUE))
  BY DEF Stored, TheValue
<1> QED
  BY <1>2, <1>3 DEF ValueOf

LEMMA StoredValueNext == ASSUME NEW i PROVE Stored(i)' = ValueOf(flash', i)
<1>1. Kept' = {q \in Pages : KeptPage(flash', q)}
  BY DEF Kept, Completed, KeptPage, Act, Xf
<1>2. /\ Copies(i, FALSE)' = CopiesOf(flash', i, FALSE)
      /\ Copies(i, TRUE)' = CopiesOf(flash', i, TRUE)
  BY <1>1 DEF Copies, CopiesOf
<1>3. Stored(i)' = TheValue(IF Copies(i, FALSE)' # {} THEN Copies(i, FALSE)' ELSE Copies(i, TRUE)')
  BY DEF Stored, TheValue
<1> QED
  BY <1>2, <1>3 DEF ValueOf

LEMMA CopiesSay ==
  ASSUME NEW f \in Flashes, NEW i \in Ids
  PROVE  /\ \A it \in CopiesOf(f, i, FALSE) : SaysNew(f, i, it.val)
         /\ \A it \in CopiesOf(f, i, TRUE) : SaysOld(f, i, it.val)
         /\ \A v : SaysNew(f, i, v) => CopiesOf(f, i, FALSE) # {}
         /\ \A v : SaysOld(f, i, v) => CopiesOf(f, i, TRUE) # {}
<1>1. ASSUME NEW b \in BOOLEAN, NEW it \in CopiesOf(f, i, b)
      PROVE  \E p \in Pages : \E k \in Slots :
               KeptPage(f, p) /\ Copy(f, p, k, i) /\ (Old(f, p, k) <=> b) /\ Val(f, p, k) = it.val
  <2>1. PICK p \in Pages : KeptPage(f, p) /\ it \in Range(f[p].items)
    BY <1>1 DEF CopiesOf
  <2>2. PICK k \in DOMAIN f[p].items : it = f[p].items[k]
    BY <2>1 DEF Range
  <2>3. k \in Slots /\ k <= Num(f, p)
    <3>1. f[p].items \in Seq(Cells) /\ Num(f, p) \in 0 .. PageItems
      BY Types
    <3>2. DOMAIN f[p].items = 1 .. Num(f, p)
      BY <3>1 DEF Num
    <3> QED
      BY <2>2, <3>1, <3>2, PageAssumption DEF Slots
  <2>4. it.id = i /\ it.chk /\ it.old = b
    BY <1>1 DEF CopiesOf
  <2>5. Copy(f, p, k, i) /\ Val(f, p, k) = it.val
    BY <2>2, <2>3, <2>4 DEF Copy, Val
  <2>6. Old(f, p, k) <=> b
    BY <2>2, <2>3, <2>4 DEF Old
  <2> QED
    BY <2>1, <2>3, <2>5, <2>6
<1>2. ASSUME NEW b \in BOOLEAN, NEW p \in Pages, NEW k \in Slots,
             KeptPage(f, p), Copy(f, p, k, i), Old(f, p, k) <=> b
      PROVE  f[p].items[k] \in CopiesOf(f, i, b)
  <2> DEFINE it == f[p].items[k]
  <2>1. k <= Num(f, p) /\ it.chk /\ it.id = i
    BY <1>2 DEF Copy
  <2>2. it \in Cells
    BY <2>1, Types
  <2>3. it \in Wholes
    BY <2>1, <2>2, CellKinds DEF Cells
  <2>4. it.old \in BOOLEAN
    BY <2>3 DEF Wholes
  <2>5. it.old = b
    BY <1>2, <2>1, <2>4 DEF Old
  <2>6. it \in Range(f[p].items)
    <3>1. f[p].items \in Seq(Cells) /\ Num(f, p) \in 0 .. PageItems
      BY Types
    <3>2. k \in DOMAIN f[p].items
      BY <2>1, <3>1 DEF Num, Slots
    <3> QED
      BY <3>2 DEF Range
  <2> HIDE DEF it
  <2>7. it \in CopiesOf(f, i, b)
    BY <1>2, <2>1, <2>5, <2>6 DEF CopiesOf
  <2> QED
    BY <2>7 DEF it
<1>3. /\ \A it \in CopiesOf(f, i, FALSE) : SaysNew(f, i, it.val)
      /\ \A it \in CopiesOf(f, i, TRUE) : SaysOld(f, i, it.val)
  <2>1. ASSUME NEW it \in CopiesOf(f, i, FALSE) PROVE SaysNew(f, i, it.val)
    BY <1>1, <2>1 DEF SaysNew
  <2>2. ASSUME NEW it \in CopiesOf(f, i, TRUE) PROVE SaysOld(f, i, it.val)
    BY <1>1, <2>2 DEF SaysOld
  <2> QED
    BY <2>1, <2>2
<1>4. /\ \A v : SaysNew(f, i, v) => CopiesOf(f, i, FALSE) # {}
      /\ \A v : SaysOld(f, i, v) => CopiesOf(f, i, TRUE) # {}
  <2>1. ASSUME NEW v, SaysNew(f, i, v) PROVE CopiesOf(f, i, FALSE) # {}
    BY <1>2, <2>1 DEF SaysNew
  <2>2. ASSUME NEW v, SaysOld(f, i, v) PROVE CopiesOf(f, i, TRUE) # {}
    BY <1>2, <2>2 DEF SaysOld
  <2> QED
    BY <2>1, <2>2
<1> QED
  BY <1>3, <1>4

LEMMA SaidInValues ==
  ASSUME NEW f \in Flashes, NEW i \in Ids, NEW v, SaysNew(f, i, v) \/ SaysOld(f, i, v)
  PROVE  v \in Vals /\ v \in Values /\ v # None
<1>1. v \in Vals
  BY Kinds DEF SaysNew, SaysOld
<1> QED
  BY <1>1, ItemAssumption DEF Values

LEMMA HoldsValue ==
  ASSUME NEW f \in Flashes, NEW i \in Ids, NEW v, Holds(f, i, v)
  PROVE  ValueOf(f, i) = v
<1>1. CASE SaysNew(f, i, v) /\ \A w \in Values : SaysNew(f, i, w) => w = v
  <2>1. CopiesOf(f, i, FALSE) # {}
    BY <1>1, CopiesSay
  <2>2. \A it \in CopiesOf(f, i, FALSE) : it.val = v
    BY <1>1, CopiesSay, SaidInValues
  <2> QED
    BY <2>1, <2>2 DEF ValueOf, TheValue
<1>2. CASE SaysOld(f, i, v) /\ \A w \in Values : ~SaysNew(f, i, w) /\ (SaysOld(f, i, w) => w = v)
  <2>1. CopiesOf(f, i, TRUE) # {}
    BY <1>2, CopiesSay
  <2>2. CopiesOf(f, i, FALSE) = {}
    BY <1>2, CopiesSay, SaidInValues
  <2>3. \A it \in CopiesOf(f, i, TRUE) : it.val = v
    BY <1>2, CopiesSay, SaidInValues
  <2> QED
    BY <2>1, <2>2, <2>3 DEF ValueOf, TheValue
<1>3. CASE v = None /\ \A w \in Values : ~SaysNew(f, i, w) /\ ~SaysOld(f, i, w)
  <2>1. CopiesOf(f, i, TRUE) = {} /\ CopiesOf(f, i, FALSE) = {}
    BY <1>3, CopiesSay, SaidInValues
  <2> QED
    BY <1>3, <2>1 DEF ValueOf, TheValue
<1> QED
  BY <1>1, <1>2, <1>3 DEF Holds

(* With one copy of each kind every item has a value.                      *)
LEMMA HasValue ==
  ASSUME NEW f \in Flashes, NEW i \in Ids, Paired(f)
  PROVE  /\ \E v \in Values : Holds(f, i, v)
         /\ \A v, w : SaysNew(f, i, v) /\ SaysNew(f, i, w) => v = w
         /\ \A v, w : SaysOld(f, i, v) /\ SaysOld(f, i, w) => v = w
<1>1. ASSUME NEW v, NEW w, SaysNew(f, i, v), SaysNew(f, i, w) PROVE v = w
  BY <1>1 DEF SaysNew, Paired, KeptPage
<1>2. ASSUME NEW v, NEW w, SaysOld(f, i, v), SaysOld(f, i, w) PROVE v = w
  BY <1>2 DEF SaysOld, Paired, KeptPage
<1>3. CASE \E v : SaysNew(f, i, v)
  <2>1. PICK v : SaysNew(f, i, v)
    BY <1>3
  <2>2. v \in Values
    BY <2>1, SaidInValues
  <2>3. Holds(f, i, v)
    BY <1>1, <2>1 DEF Holds
  <2> QED
    BY <1>1, <1>2, <2>2, <2>3
<1>4. CASE (\A v : ~SaysNew(f, i, v)) /\ \E v : SaysOld(f, i, v)
  BY <1>2, <1>4, SaidInValues DEF Holds
<1>5. CASE (\A v : ~SaysNew(f, i, v)) /\ \A v : ~SaysOld(f, i, v)
  BY <1>5 DEF Holds, Values
<1> QED
  BY <1>1, <1>2, <1>3, <1>4, <1>5

-----------------------------------------------------------------------------
(* Counting the zeroed slots.                                              *)

LEMMA SlotsFinite == /\ IsFiniteSet(Slots) /\ Cardinality(Slots) = PageItems
                     /\ PageItems \in Nat /\ PageItems > 0
BY FS_Interval, PageAssumption DEF Slots

LEMMA CountOf ==
  ASSUME NEW S \in SUBSET Slots
  PROVE  /\ IsFiniteSet(S) /\ Cardinality(S) \in 0 .. PageItems
         /\ Cardinality(S) = PageItems => S = Slots
         /\ Cardinality(S) = 0 <=> S = {}
         /\ \A n \in Slots : /\ n \notin S => Cardinality(S \cup {n}) = Cardinality(S) + 1
                             /\ Cardinality(S) <= Cardinality(S \cup {n})
         /\ \A T \in SUBSET S : Cardinality(T) <= Cardinality(S)
<1>1. IsFiniteSet(S) /\ Cardinality(S) <= Cardinality(Slots) /\ Cardinality(S) \in Nat
  BY SlotsFinite, FS_Subset, FS_CardinalityType
<1>2. Cardinality(S) = Cardinality(Slots) => S = Slots
  BY SlotsFinite, FS_Subset
<1>3. Cardinality(S) = 0 <=> S = {}
  BY <1>1, FS_EmptySet
<1>4. \A n \in Slots : n \notin S => Cardinality(S \cup {n}) = Cardinality(S) + 1
  BY <1>1, FS_AddElement
<1>5. \A n \in Slots : n \in S => S \cup {n} = S
  OBVIOUS
<1>6. \A n \in Slots : Cardinality(S) <= Cardinality(S \cup {n})
  BY <1>1, <1>4, <1>5
<1>7. \A T \in SUBSET S : Cardinality(T) <= Cardinality(S)
  BY <1>1, FS_Subset
<1> QED
  BY <1>1, <1>2, <1>3, <1>4, <1>6, <1>7, SlotsFinite

LEMMA ZerosCount ==
  ASSUME NEW f, NEW p, NEW n
  PROVE  /\ Zeros(f, p) \in SUBSET Slots /\ ZerosTo(f, p, n) \in SUBSET Slots
         /\ Cardinality(Zeros(f, p)) \in 0 .. PageItems
         /\ Cardinality(ZerosTo(f, p, n)) \in 0 .. PageItems
<1>1. Zeros(f, p) \in SUBSET Slots /\ ZerosTo(f, p, n) \in SUBSET Slots
  BY DEF Zeros, ZerosTo
<1> QED
  BY <1>1, CountOf

LEMMA ZerosSame ==
  ASSUME NEW f, NEW g, NEW p, \A k \in Slots : Zero(g, p, k) <=> Zero(f, p, k)
  PROVE  Zeros(g, p) = Zeros(f, p) /\ \A n : ZerosTo(g, p, n) = ZerosTo(f, p, n)
BY DEF Zeros, ZerosTo

LEMMA OneMoreZero ==
  ASSUME NEW f, NEW g, NEW p, NEW n \in Slots, Zero(g, p, n), ~Zero(f, p, n),
         \A k \in Slots \ {n} : Zero(g, p, k) <=> Zero(f, p, k)
  PROVE  /\ Cardinality(Zeros(g, p)) = Cardinality(Zeros(f, p)) + 1
         /\ ZerosTo(g, p, n) = ZerosTo(f, p, n)
         /\ \A m : Cardinality(ZerosTo(f, p, m)) <= Cardinality(ZerosTo(g, p, m))
<1>1. Zeros(g, p) = Zeros(f, p) \cup {n} /\ n \notin Zeros(f, p)
  BY DEF Zeros
<1>2. Zeros(f, p) \in SUBSET Slots
  BY ZerosCount
<1>3. ZerosTo(g, p, n) = ZerosTo(f, p, n)
  <2>1. \A k \in Slots : k < n => k # n
    BY DEF Slots
  <2> QED
    BY <2>1 DEF ZerosTo
<1>4. ASSUME NEW m PROVE Cardinality(ZerosTo(f, p, m)) <= Cardinality(ZerosTo(g, p, m))
  <2>1. ZerosTo(f, p, m) \in SUBSET ZerosTo(g, p, m) /\ ZerosTo(g, p, m) \in SUBSET Slots
    BY DEF ZerosTo
  <2> QED
    BY <2>1, CountOf
<1> QED
  BY <1>1, <1>2, <1>3, <1>4, CountOf

LEMMA ZerosStep ==
  ASSUME NEW f, NEW p, NEW n \in Slots
  PROVE  /\ Zero(f, p, n) => Cardinality(ZerosTo(f, p, n + 1)) = Cardinality(ZerosTo(f, p, n)) + 1
         /\ ~Zero(f, p, n) => ZerosTo(f, p, n + 1) = ZerosTo(f, p, n)
<1>1. \A k \in Slots : /\ k < n + 1 <=> k < n \/ k = n
                       /\ ~(n < n)
  BY DEF Slots
<1>2. CASE Zero(f, p, n)
  <2>1. ZerosTo(f, p, n + 1) = ZerosTo(f, p, n) \cup {n} /\ n \notin ZerosTo(f, p, n)
    BY <1>1, <1>2 DEF ZerosTo
  <2>2. ZerosTo(f, p, n) \in SUBSET Slots
    BY ZerosCount
  <2> QED
    BY <1>2, <2>1, <2>2, CountOf
<1>3. CASE ~Zero(f, p, n)
  <2>1. ZerosTo(f, p, n + 1) = ZerosTo(f, p, n)
    BY <1>1, <1>3 DEF ZerosTo
  <2> QED
    BY <1>3, <2>1
<1> QED
  BY <1>2, <1>3

LEMMA ZerosEnds ==
  ASSUME NEW f \in Flashes, NEW p \in Pages
  PROVE  ZerosTo(f, p, 1) = {} /\ ZerosTo(f, p, Num(f, p) + 1) = Zeros(f, p)
<1>1. Num(f, p) \in 0 .. PageItems
  BY Types
<1>2. \A k \in Slots : ~(k < 1) /\ (Zero(f, p, k) => k < Num(f, p) + 1)
  BY <1>1, PageAssumption DEF Slots, Zero
<1> QED
  BY <1>2 DEF Zeros, ZerosTo

LEMMA ZeroedInCount ==
  ASSUME flash \in Flashes, NEW p \in Pages
  PROVE  ZeroedIn(p) = Cardinality(Zeros(flash, p))
<1>1. flash[p].items \in Seq(Cells) /\ Num(flash, p) \in 0 .. PageItems
  BY Types
<1>2. DOMAIN flash[p].items = {k \in Slots : k <= Num(flash, p)}
  <2>1. DOMAIN flash[p].items = 1 .. Num(flash, p)
    BY <1>1 DEF Num
  <2> QED
    BY <1>1, <2>1, PageAssumption DEF Slots
<1>3. {k \in DOMAIN flash[p].items : flash[p].items[k] = Zeroed} = Zeros(flash, p)
  BY <1>2 DEF Zeros, Zero
<1> QED
  BY <1>3 DEF ZeroedIn

(* Every set of numbers that is not empty has a least one.                 *)
LEMMA Least ==
  ASSUME NEW S \in SUBSET Nat, S # {}
  PROVE  \E x \in S : \A y \in S : x <= y
<1> DEFINE Lows == {0 .. t : t \in S}
<1>1. Lows \subseteq FiniteSubsetsOf(Nat) /\ Lows # {}
  <2>1. \A t \in S : 0 .. t \in FiniteSubsetsOf(Nat)
    BY FS_Interval DEF FiniteSubsetsOf
  <2> QED
    BY <2>1
<1>2. PICK U \in Lows : \A V \in Lows : ~(<<V, U>> \in StrictSubsetOrdering(Nat))
  <2> HIDE DEF Lows
  <2> QED
    BY <1>1, WFMin, FS_StrictSubsetOrderingWellFounded
<1>3. PICK x \in S : U = 0 .. x
  OBVIOUS
<1>4. ASSUME NEW y \in S, y < x PROVE FALSE
  <2>1. <<0 .. y, 0 .. x>> \in StrictSubsetOrdering(Nat)
    BY <1>4 DEF StrictSubsetOrdering
  <2> QED
    BY <1>2, <1>3, <2>1
<1> QED
  BY <1>4

-----------------------------------------------------------------------------
(* Finding an item, and a page for it.                                     *)

(* The search sees the items of all pages, whether in use or not.          *)
Match(i, b, p, k) == k <= Num(flash, p) /\ flash[p].items[k].id = i /\ flash[p].items[k].old = b
Filled(f) == \A p \in Pages : Act(f, p) \/ Num(f, p) = 0

LEMMA MatchKinds ==
  ASSUME flash \in Flashes, Filled(flash), NEW i \in Ids, NEW b \in BOOLEAN, b \/ NoTorn(flash),
         NEW p \in Pages, NEW k \in Slots
  PROVE  Match(i, b, p, k) <=> Act(flash, p) /\ Copy(flash, p, k, i) /\ (Old(flash, p, k) <=> b)
<1> DEFINE c == flash[p].items[k]
<1>1. CASE k <= Num(flash, p)
  <2>1. c \in Cells /\ (c = Zeroed \/ c \in Headers \/ c \in Wholes)
    BY <1>1, Types DEF Cells
  <2>2. Act(flash, p)
    BY <1>1, PageAssumption DEF Filled, Slots
  <2>3. CASE c = Zeroed
    <3>1. c.id = None /\ ~c.chk /\ None # i
      BY <2>3, ItemAssumption DEF Zeroed
    <3> QED
      BY <1>1, <3>1 DEF Match, Copy
  <2>4. CASE c \in Headers
    <3>1. ~c.chk /\ c.old = FALSE
      BY <2>4 DEF Headers
    <3>2. Torn(flash, p, k)
      BY <1>1, <2>4 DEF Torn
    <3>3. b
      BY <3>2 DEF NoTorn
    <3> QED
      BY <1>1, <3>1, <3>3 DEF Match, Copy
  <2>5. CASE c \in Wholes
    <3>1. c.chk /\ c.old \in BOOLEAN
      BY <2>5 DEF Wholes
    <3> HIDE DEF c
    <3>2. Match(i, b, p, k) <=> c.id = i /\ c.old = b
      BY <1>1 DEF Match, c
    <3>3. Copy(flash, p, k, i) <=> c.id = i
      BY <1>1, <3>1 DEF Copy, c
    <3>4. Old(flash, p, k) <=> c.old
      BY <1>1 DEF Old, c
    <3> QED
      BY <2>2, <3>1, <3>2, <3>3, <3>4
  <2> QED
    BY <2>1, <2>3, <2>4, <2>5
<1>2. CASE ~(k <= Num(flash, p))
  BY <1>2 DEF Match, Copy
<1> QED
  BY <1>1, <1>2

LEMMA FirstMatch ==
  ASSUME flash \in Flashes, NEW i \in Ids, NEW b \in BOOLEAN
  PROVE  /\ (\A p \in Pages : \A k \in Slots : ~Match(i, b, p, k)) => FirstCopy(i, b) = NoItem
         /\ \A p \in Pages : \A k \in Slots :
              /\ Match(i, b, p, k)
              /\ \A q \in Pages : \A l \in Slots : Match(i, b, q, l) => q = p /\ l = k
              => FirstCopy(i, b) = <<p, k>>
<1> DEFINE M == {at \in Pages \X (1 .. PageItems) :
                   /\ at[2] \in DOMAIN flash[at[1]].items
                   /\ ItemAt(at).id = i /\ ItemAt(at).old = b}
<1>1. FirstCopy(i, b) = IF M = {} THEN NoItem
                        ELSE CHOOSE x \in M : \A y \in M : Before(x, y)
  BY DEF FirstCopy
<1>2. ASSUME NEW p \in Pages, NEW k \in Slots
      PROVE  <<p, k>> \in M <=> Match(i, b, p, k)
  <2>1. flash[p].items \in Seq(Cells) /\ Num(flash, p) \in 0 .. PageItems
    BY Types
  <2>2. k \in DOMAIN flash[p].items <=> k <= Num(flash, p)
    BY <2>1, PageAssumption DEF Num, Slots
  <2> QED
    BY <2>2 DEF Match, ItemAt, Slots
<1>3. \A at \in M : at = <<at[1], at[2]>> /\ at[1] \in Pages /\ at[2] \in Slots
  BY DEF Slots
<1> HIDE DEF M
<1>4. ASSUME \A p \in Pages : \A k \in Slots : ~Match(i, b, p, k)
      PROVE  FirstCopy(i, b) = NoItem
  <2>1. M = {}
    BY <1>2, <1>3, <1>4
  <2> QED
    BY <1>1, <2>1
<1>5. ASSUME NEW p \in Pages, NEW k \in Slots, Match(i, b, p, k),
             \A q \in Pages : \A l \in Slots : Match(i, b, q, l) => q = p /\ l = k
      PROVE  FirstCopy(i, b) = <<p, k>>
  <2>1. M = {<<p, k>>}
    BY <1>2, <1>3, <1>5
  <2>2. Before(<<p, k>>, <<p, k>>)
    BY PageAssumption DEF Before, Slots
  <2>3. \E x \in M : \A y \in M : Before(x, y)
    BY <2>1, <2>2
  <2> DEFINE first == CHOOSE x \in M : \A y \in M : Before(x, y)
  <2>4. first \in M
    BY <2>3
  <2>5. FirstCopy(i, b) = IF M = {} THEN NoItem ELSE first
    BY <1>1
  <2> HIDE DEF first
  <2> QED
    BY <2>1, <2>4, <2>5
<1> QED
  BY <1>4, <1>5

(* While nothing is moved the copy with a mark is found, if there is one.  *)
LEMMA Found ==
  ASSUME flash \in Flashes, Paired(flash), Filled(flash), NEW i \in Ids, NEW b \in BOOLEAN,
         b \/ NoTorn(flash)
  PROVE  /\ FirstCopy(i, b) = NoItem <=>
              \A p \in Pages : \A k \in Slots :
                ~(Act(flash, p) /\ Copy(flash, p, k, i) /\ (Old(flash, p, k) <=> b))
         /\ \A p \in Pages : \A k \in Slots :
              Act(flash, p) /\ Copy(flash, p, k, i) /\ (Old(flash, p, k) <=> b)
                => FirstCopy(i, b) = <<p, k>>
<1> DEFINE Is(p, k) == Act(flash, p) /\ Copy(flash, p, k, i) /\ (Old(flash, p, k) <=> b)
<1>1. \A p \in Pages : \A k \in Slots : Match(i, b, p, k) <=> Is(p, k)
  BY MatchKinds
<1>2. \A p, q \in Pages : \A k, l \in Slots : Is(p, k) /\ Is(q, l) => q = p /\ l = k
  BY DEF Paired
<1> HIDE DEF Is
<1>3. ASSUME NEW p \in Pages, NEW k \in Slots, Is(p, k)
      PROVE  FirstCopy(i, b) = <<p, k>> /\ FirstCopy(i, b) # NoItem
  <2>1. Match(i, b, p, k) /\ \A q \in Pages : \A l \in Slots : Match(i, b, q, l) => q = p /\ l = k
    BY <1>1, <1>2, <1>3
  <2>2. FirstCopy(i, b) = <<p, k>>
    BY <2>1, FirstMatch
  <2>3. p # 0
    BY PageAssumption DEF Pages
  <2> QED
    BY <2>2, <2>3 DEF NoItem
<1>4. (\A p \in Pages : \A k \in Slots : ~Is(p, k)) => FirstCopy(i, b) = NoItem
  BY <1>1, FirstMatch
<1> QED
  BY <1>3, <1>4 DEF Is

(* Between two requests the place of an item is found, and its value is    *)
(* that of its only copy.                                                  *)
LEMMA FoundItem ==
  ASSUME flash \in Flashes, Paired(flash), NEW r, Rests(flash, r), NoTorn(flash),
         NEW i \in Ids, Single(flash, i)
  PROVE  \/ FindItem(i) = NoItem /\ Absent(flash, i) /\ Stored(i) = None
         \/ \E p \in Pages : \E k \in Slots :
              /\ FindItem(i) = <<p, k>> /\ FindItem(i) # NoItem
              /\ Act(flash, p) /\ Copy(flash, p, k, i)
              /\ Stored(i) = Val(flash, p, k) /\ ItemAt(FindItem(i)).val = Val(flash, p, k)
<1>1. Filled(flash)
  BY DEF Rests, Filled
<1>2. \A p \in Pages : KeptPage(flash, p) <=> Act(flash, p)
  BY DEF Rests, NoXfer, KeptPage
<1>3. CASE Absent(flash, i)
  <2>1. FirstCopy(i, FALSE) = NoItem /\ FirstCopy(i, TRUE) = NoItem
    BY <1>1, <1>3, Found DEF Absent
  <2>2. Holds(flash, i, None)
    BY <1>2, <1>3 DEF Absent, Holds, SaysNew, SaysOld
  <2>3. Stored(i) = None
    BY <2>2, HoldsValue, StoredValue
  <2> QED
    BY <1>3, <2>1, <2>3 DEF FindItem
<1>4. CASE ~Absent(flash, i)
  <2>1. PICK p \in Pages, k \in Slots : Act(flash, p) /\ Copy(flash, p, k, i)
    BY <1>4 DEF Absent
  <2>2. \A q \in Pages : \A l \in Slots : Act(flash, q) /\ Copy(flash, q, l, i) => q = p /\ l = k
    BY <2>1 DEF Single
  <2>3. FindItem(i) = <<p, k>>
    <3>1. CASE Old(flash, p, k)
      <4>1. FirstCopy(i, TRUE) = <<p, k>> /\ FirstCopy(i, FALSE) = NoItem
        BY <1>1, <2>1, <2>2, <3>1, Found
      <4> QED
        BY <4>1 DEF FindItem
    <3>2. CASE ~Old(flash, p, k)
      <4>1. FirstCopy(i, FALSE) = <<p, k>> /\ FirstCopy(i, FALSE) # NoItem
        BY <1>1, <2>1, <2>2, <3>2, Found
      <4> QED
        BY <4>1 DEF FindItem
    <3> QED
      BY <3>1, <3>2
  <2>4. <<p, k>> # NoItem
    BY PageAssumption DEF NoItem, Pages
  <2>5. Holds(flash, i, Val(flash, p, k))
    BY <1>2, <2>1, <2>2 DEF Holds, SaysNew, SaysOld
  <2>6. Stored(i) = Val(flash, p, k)
    BY <2>5, HoldsValue, StoredValue
  <2>7. ItemAt(<<p, k>>).val = Val(flash, p, k)
    BY DEF ItemAt, Val
  <2> QED
    BY <2>1, <2>3, <2>4, <2>6, <2>7
<1> QED
  BY <1>3, <1>4

(* What a search counts is there.                                          *)
Counted(lost) == lost \in [Pages -> Nat] /\ \A p \in Pages : lost[p] <= Cardinality(Zeros(flash, p))

LEMMA CountedFind ==
  ASSUME flash \in Flashes, NEW lost, Counted(lost), NEW i, NEW b
  PROVE  Counted(LostAfterFind(lost, i, b))
<1>1. \A p \in Pages : ZeroedIn(p) = Cardinality(Zeros(flash, p)) /\ ZeroedIn(p) \in Nat
  <2>1. \A p \in Pages : Cardinality(Zeros(flash, p)) \in 0 .. PageItems
    BY ZerosCount
  <2>2. \A p \in Pages : ZeroedIn(p) = Cardinality(Zeros(flash, p))
    BY ZeroedInCount
  <2> QED
    BY <2>1, <2>2
<1> DEFINE found == FirstCopy(i, b)
           found2(p) == found = NoItem \/ p < found[1]
<1>2. LostAfterFind(lost, i, b) = [p \in Pages |-> IF found2(p) THEN ZeroedIn(p) ELSE lost[p]]
  BY DEF LostAfterFind
<1> HIDE DEF found2
<1> QED
  BY <1>1, <1>2 DEF Counted

LEMMA CountedFindItem ==
  ASSUME flash \in Flashes, Counted(pgLost), NEW i
  PROVE  Counted(LostAfterFindItem(i))
<1>1. \A lost : Counted(lost) => Counted(LostAfterFind(lost, i, FALSE)) /\ Counted(LostAfterFind(lost, i, TRUE))
  BY CountedFind
<1> QED
  BY <1>1 DEF LostAfterFindItem

(* A page that is chosen has room: a slot that is free or a zeroed one.    *)
LEMMA ChosenPage ==
  ASSUME flash \in Flashes, pgRes \in Pages, NEW lost, Counted(lost), NEW p, p = PageFor(lost), p # 0
  PROVE  /\ p \in Pages /\ p # pgRes
         /\ Full(p) <=> Num(flash, p) = PageItems
         /\ Num(flash, p) = PageItems => \E z \in Slots : Zero(flash, p, z)
<1> DEFINE Turn(q) == (q + NPages - pgRes - 1) % NPages
           Candidates == {q \in Pages : HasRoom(q, lost)}
<1>1. p = IF Candidates = {} THEN 0
          ELSE CHOOSE q \in Candidates : \A s \in Candidates : Turn(q) <= Turn(s)
  BY DEF PageFor
<1>2. \A q \in Pages : Turn(q) \in Nat
  <2>1. \A q \in Pages : q + NPages - pgRes - 1 \in Nat
    BY PageAssumption DEF Pages
  <2> QED
    BY <2>1, PageAssumption
<1>3. Candidates # {}
  BY <1>1
<1> HIDE DEF Turn
<1>4. \E q \in Candidates : \A s \in Candidates : Turn(q) <= Turn(s)
  <2> DEFINE S == {Turn(q) : q \in Candidates}
  <2>1. S \in SUBSET Nat /\ S # {}
    BY <1>2, <1>3
  <2>2. PICK x \in S : \A y \in S : x <= y
    <3> HIDE DEF S
    <3> QED
      BY <2>1, Least
  <2> QED
    BY <2>2
<1> DEFINE first == CHOOSE q \in Candidates : \A s \in Candidates : Turn(q) <= Turn(s)
<1>5. first \in Candidates
  BY <1>4
<1>6. p = first
  BY <1>1, <1>3
<1> HIDE DEF first
<1>7. p \in Pages /\ HasRoom(p, lost)
  BY <1>5, <1>6
<1>8. Num(flash, p) \in 0 .. PageItems /\ Len(flash[p].items) = Num(flash, p)
  BY <1>7, Types DEF Num
<1>9. p # pgRes /\ Num(flash, p) - lost[p] < PageItems
  BY <1>7, <1>8 DEF HasRoom
<1>10. ASSUME Num(flash, p) = PageItems PROVE \E z \in Slots : Zero(flash, p, z)
  <2>1. lost[p] \in Nat /\ lost[p] # 0
    BY <1>7, <1>9, <1>10, PageAssumption DEF Counted
  <2>2. Cardinality(Zeros(flash, p)) # 0
    <3>1. lost[p] <= Cardinality(Zeros(flash, p)) /\ Cardinality(Zeros(flash, p)) \in 0 .. PageItems
      BY <1>7, ZerosCount DEF Counted
    <3> QED
      BY <2>1, <3>1
  <2>3. Zeros(flash, p) # {}
    BY <2>2, FS_EmptySet
  <2> QED
    BY <2>3 DEF Zeros
<1>11. Full(p) <=> Num(flash, p) = PageItems
  BY DEF Full, Num
<1> QED
  BY <1>7, <1>9, <1>10, <1>11

(* Without a reserve a page that is lost altogether is erased, if there is *)
(* one.                                                                    *)
LEMMA LostPage ==
  ASSUME flash \in Flashes, Counted(pgLost), NEW c \in Pages, PageItems <= pgLost[c]
  PROVE  MostLost \in Pages /\ \A k \in Slots : Zero(flash, MostLost, k)
<1> DEFINE Empty == {p \in Pages : pgLost[p] = PageItems}
           most == {p \in Pages : \A q \in Pages : pgLost[q] <= pgLost[p]}
<1>1. \A p \in Pages : pgLost[p] \in Nat /\ pgLost[p] <= PageItems
  <2>1. \A p \in Pages : Cardinality(Zeros(flash, p)) \in 0 .. PageItems
    BY ZerosCount
  <2> QED
    BY <2>1, PageAssumption DEF Counted
<1>2. Empty # {} /\ Empty \in SUBSET Nat
  BY <1>1, PageAssumption DEF Pages
<1>3. MostLost = Min(Empty)
  BY <1>2 DEF MostLost
<1> DEFINE m == Min(Empty)
<1>4. m \in Empty
  <2>1. \E x \in Empty : \A y \in Empty : x <= y
    <3> HIDE DEF Empty
    <3> QED
      BY <1>2, Least
  <2>2. m = CHOOSE x \in Empty : \A y \in Empty : x <= y
    BY DEF Min
  <2> QED
    BY <2>1, <2>2
<1> HIDE DEF m
<1>5. m \in Pages /\ pgLost[m] = PageItems
  BY <1>4
<1>6. Zeros(flash, m) = Slots
  <2>1. Cardinality(Zeros(flash, m)) = PageItems
    <3>1. Cardinality(Zeros(flash, m)) \in 0 .. PageItems
      BY ZerosCount
    <3> QED
      BY <1>5, <3>1 DEF Counted
  <2>2. Zeros(flash, m) \in SUBSET Slots
    BY ZerosCount
  <2> QED
    BY <2>1, <2>2, CountOf
<1> QED
  BY <1>3, <1>5, <1>6 DEF Zeros, m

-----------------------------------------------------------------------------
(* What keeps the value of an item.                                        *)

KeptCopy(f, p, k, i) == KeptPage(f, p) /\ Copy(f, p, k, i)
Keeps(f, g, i) == \A v \in Values : Holds(f, i, v) => Holds(g, i, v)

(* The same copies are kept.                                               *)
LEMMA KeepsSame ==
  ASSUME NEW f, NEW g, NEW i \in Ids,
         \A p \in Pages : \A k \in Slots :
           /\ KeptCopy(g, p, k, i) <=> KeptCopy(f, p, k, i)
           /\ KeptCopy(f, p, k, i) => (Old(g, p, k) <=> Old(f, p, k)) /\ Val(g, p, k) = Val(f, p, k)
  PROVE  Keeps(f, g, i)
<1>1. \A v : (SaysNew(g, i, v) <=> SaysNew(f, i, v)) /\ (SaysOld(g, i, v) <=> SaysOld(f, i, v))
  BY DEF SaysNew, SaysOld, KeptCopy
<1> QED
  BY <1>1 DEF Keeps, Holds

(* The value of the only copy that is kept, or the only one of these that  *)
(* is not marked.                                                          *)
LEMMA OnlyCopy ==
  ASSUME NEW f, NEW i \in Ids, NEW p \in Pages, NEW k \in Slots, KeptCopy(f, p, k, i),
         \A q \in Pages : \A l \in Slots : KeptCopy(f, q, l, i) => q = p /\ l = k
  PROVE  Holds(f, i, Val(f, p, k))
BY DEF Holds, SaysNew, SaysOld, KeptCopy

LEMMA NewCopy ==
  ASSUME NEW f, NEW i \in Ids, NEW p \in Pages, NEW k \in Slots, KeptCopy(f, p, k, i), ~Old(f, p, k),
         \A q \in Pages : \A l \in Slots : KeptCopy(f, q, l, i) /\ ~Old(f, q, l) => q = p /\ l = k
  PROVE  Holds(f, i, Val(f, p, k))
BY DEF Holds, SaysNew, KeptCopy

LEMMA NoCopy ==
  ASSUME NEW f, NEW i \in Ids, \A p \in Pages : \A k \in Slots : ~KeptCopy(f, p, k, i)
  PROVE  Holds(f, i, None)
BY DEF Holds, SaysNew, SaysOld, KeptCopy

LEMMA HoldsOne ==
  ASSUME NEW f \in Flashes, NEW i \in Ids, NEW v, NEW w, Holds(f, i, v), Holds(f, i, w)
  PROVE  v = w
<1>1. ValueOf(f, i) = v /\ ValueOf(f, i) = w
  BY HoldsValue
<1> QED
  BY <1>1

(* The only copy is marked.                                                *)
LEMMA KeepsMarked ==
  ASSUME NEW f \in Flashes, NEW g, NEW i \in Ids,
         \A p \in Pages : \A k \in Slots :
           /\ KeptCopy(g, p, k, i) <=> KeptCopy(f, p, k, i)
           /\ KeptCopy(f, p, k, i) => Val(g, p, k) = Val(f, p, k),
         \A p, q \in Pages : \A k, l \in Slots :
           KeptCopy(f, p, k, i) /\ KeptCopy(f, q, l, i) => p = q /\ k = l
  PROVE  Keeps(f, g, i)
<1>1. CASE \A p \in Pages : \A k \in Slots : ~KeptCopy(f, p, k, i)
  BY <1>1, KeepsSame
<1>2. CASE \E p \in Pages : \E k \in Slots : KeptCopy(f, p, k, i)
  <2>1. PICK p \in Pages, k \in Slots : KeptCopy(f, p, k, i)
    BY <1>2
  <2>2. Holds(f, i, Val(f, p, k))
    BY <2>1, OnlyCopy
  <2>3. Holds(g, i, Val(g, p, k)) /\ Val(g, p, k) = Val(f, p, k)
    BY <2>1, OnlyCopy
  <2> QED
    BY <2>2, <2>3, HoldsOne DEF Keeps
<1> QED
  BY <1>1, <1>2

(* Marked copies come or go where there is a newer one.                    *)
LEMMA KeepsNew ==
  ASSUME NEW f \in Flashes, NEW g, NEW i \in Ids, NEW p \in Pages, NEW k \in Slots,
         KeptCopy(f, p, k, i), ~Old(f, p, k),
         \A q \in Pages : \A l \in Slots :
           /\ KeptCopy(g, q, l, i) /\ ~Old(g, q, l) <=> KeptCopy(f, q, l, i) /\ ~Old(f, q, l)
           /\ KeptCopy(g, q, l, i) /\ ~Old(g, q, l) => Val(g, q, l) = Val(f, q, l)
  PROVE  Keeps(f, g, i)
<1>1. \A v : SaysNew(g, i, v) <=> SaysNew(f, i, v)
  BY DEF SaysNew, KeptCopy
<1>2. SaysNew(f, i, Val(f, p, k))
  BY DEF SaysNew, KeptCopy
<1>3. Val(f, p, k) \in Values
  BY <1>2, SaidInValues
<1> QED
  BY <1>1, <1>2, <1>3 DEF Keeps, Holds

LEMMA Unchanged ==
  ASSUME flash \in Flashes, flash' \in Flashes, Paired(flash), NEW i \in Ids, Keeps(flash, flash', i)
  PROVE  Stored(i)' = Stored(i)
<1>1. PICK v \in Values : Holds(flash, i, v)
  BY HasValue
<1>2. Holds(flash', i, v)
  BY <1>1 DEF Keeps
<1>3. ValueOf(flash, i) = v /\ ValueOf(flash', i) = v
  BY <1>1, <1>2, HoldsValue
<1> QED
  BY <1>3, StoredValue, StoredValueNext

(* Copies that stay where they are, with their marks.                      *)
Fewer(f, g) ==
  \A p \in Pages : \A k \in Slots : \A i \in Ids :
    Act(g, p) /\ Copy(g, p, k, i) => /\ Act(f, p) /\ Copy(f, p, k, i)
                                     /\ Old(g, p, k) <=> Old(f, p, k)

LEMMA FewerPaired ==
  ASSUME NEW f, NEW g, Fewer(f, g)
  PROVE  /\ Paired(f) => Paired(g)
         /\ \A i \in Ids : /\ Single(f, i) => Single(g, i)
                           /\ Absent(f, i) => Absent(g, i)
<1>1. Paired(f) => Paired(g)
  BY DEF Fewer, Paired
<1>2. \A i \in Ids : Single(f, i) => Single(g, i)
  BY DEF Fewer, Single
<1>3. \A i \in Ids : Absent(f, i) => Absent(g, i)
  BY DEF Fewer, Absent
<1> QED
  BY <1>1, <1>2, <1>3

-----------------------------------------------------------------------------
(* The steps of a request that write nothing.                              *)

SameValues == \A i \in Ids : Stored(i)' = Stored(i)

LEMMA SameFlash == ASSUME flash' = flash PROVE SameValues
BY StoredValue, StoredValueNext DEF SameValues

LEMMA BaseCounted == Base => Counted(pgLost)
BY DEF Base, Counted

LEMMA CallStep == ASSUME IInv, Call PROVE IInv' /\ SameValues
<1>1. Base /\ Rest
  BY DEF IInv, Call
<1>2. /\ pc = "ready" /\ pc' = "find" /\ req' \in Requests
      /\ UNCHANGED <<flash, pgRes, pgLost, hot, job, scan>>
  BY DEF Call, Requests
<1>3. Base'
  BY <1>1, <1>2 DEF Base, HotLive
<1>4. Rest'
  BY <1>1, <1>2 DEF Rest
<1> QED
  BY <1>2, <1>3, <1>4, SameFlash DEF IInv

LEMMA NoJobIn == NoJob \in Jobs /\ NoJob.com = 0 /\ NoJob.k = 1 /\ NoJob.src = NoItem /\ NoJob.skip = None
BY PageAssumption DEF NoJob, Jobs, NoItem

(* A request that returns.                                                 *)
LEMMA ReturnStep ==
  ASSUME IInv, Rest, pc \in {"find", "return"}, NEW status, Return(status), UNCHANGED <<flash, pgRes, scan>>,
         Counted(pgLost)', hot' \in Nat \X Nat,
         (HotLive => hot[1] \in Pages /\ hot[2] \in Slots /\ Copy(flash, hot[1], hot[2], HotId))'
  PROVE  IInv' /\ SameValues
<1>1. Base
  BY DEF IInv
<1>2. pc' = "ready" /\ req' = None /\ job' = NoJob
  BY DEF Return
<1>3. Base'
  BY <1>1, <1>2, NoJobIn DEF Base, Counted
<1>4. Rest'
  BY DEF Rest
<1> QED
  BY <1>2, <1>3, <1>4, SameFlash DEF IInv

LEMMA LowVoltageStep == ASSUME IInv, LowVoltage PROVE IInv' /\ SameValues
<1>1. pc = "find" /\ Base /\ Rest
  BY DEF IInv, LowVoltage
<1>2. Return("failed") /\ UNCHANGED <<flash, pgRes, pgLost, hot, scan>>
  BY DEF LowVoltage
<1>3. Counted(pgLost)'
  BY <1>1, <1>2, BaseCounted DEF Counted
<1>4. hot' \in Nat \X Nat
      /\ (HotLive => hot[1] \in Pages /\ hot[2] \in Slots /\ Copy(flash, hot[1], hot[2], HotId))'
  BY <1>1, <1>2 DEF Base, HotLive
<1> QED
  BY <1>1, <1>2, <1>3, <1>4, ReturnStep

LEMMA FinishStep == ASSUME IInv, Finish PROVE IInv' /\ SameValues
<1>1. pc = "return" /\ Base /\ Rest /\ flash \in Flashes
  BY DEF IInv, Finish, ReturnPhase, Base
<1>2. /\ Return(Outcome) /\ UNCHANGED <<flash, pgRes, hot, scan>>
      /\ pgLost' = IF req.op = "delete" THEN LostAfterFindItem(req.id) ELSE pgLost
  BY DEF Finish
<1>3. Counted(pgLost)'
  <2>1. Counted(pgLost) /\ Counted(LostAfterFindItem(req.id))
    BY <1>1, BaseCounted, CountedFindItem
  <2>2. Counted(pgLost')
    BY <1>2, <2>1
  <2> QED
    BY <1>2, <2>2 DEF Counted
<1>4. hot' \in Nat \X Nat
      /\ (HotLive => hot[1] \in Pages /\ hot[2] \in Slots /\ Copy(flash, hot[1], hot[2], HotId))'
  BY <1>1, <1>2 DEF Base, HotLive
<1>5. \E status : Return(status)
  BY <1>2
<1> QED
  BY <1>1, <1>2, <1>3, <1>4, <1>5, ReturnStep

(* What a request finds.                                                   *)
LEMMA FindsItem ==
  ASSUME IInv, pc = "find"
  PROVE  /\ req \in Requests /\ req.id \in Ids /\ req.val \in Vals /\ req # None
         /\ \/ FindItem(req.id) = NoItem /\ Absent(flash, req.id) /\ Stored(req.id) = None
            \/ \E p \in Pages : \E k \in Slots :
                 /\ FindItem(req.id) = <<p, k>> /\ FindItem(req.id) # NoItem
                 /\ Act(flash, p) /\ Copy(flash, p, k, req.id)
                 /\ Stored(req.id) = Val(flash, p, k)
                 /\ ItemAt(FindItem(req.id)).val = Val(flash, p, k)
<1>1. Base /\ Rest /\ req \in Requests
  BY DEF IInv
<1>2. req.id \in Ids /\ req.val \in Vals
  BY <1>1, ItemAssumption DEF Requests
<1>3. req # None
  <2>1. req \in [op : {"init", "write", "delete"}, id : Ids, val : Vals]
    BY <1>1, ItemAssumption DEF Requests
  <2> QED
    BY <2>1, ItemAssumption
<1>4. flash \in Flashes /\ Paired(flash) /\ Rests(flash, pgRes) /\ NoTorn(flash) /\ Single(flash, req.id)
  BY <1>1, <1>2 DEF Base, Rest
<1> QED
  BY <1>1, <1>2, <1>3, <1>4, FoundItem

LEMMA FindCounts ==
  ASSUME IInv, pc = "find", pgLost' = LostAfterFindItem(req.id), UNCHANGED <<flash, pgRes>>
  PROVE  Counted(pgLost') /\ Counted(pgLost)'
<1>1. Counted(pgLost) /\ flash \in Flashes
  BY BaseCounted DEF IInv, Base
<1>2. Counted(LostAfterFindItem(req.id))
  BY <1>1, CountedFindItem
<1>3. Counted(pgLost')
  BY <1>2
<1> QED
  BY <1>3 DEF Counted

(* A place for the new copy is chosen.                                     *)
LEMMA InitItemStep ==
  ASSUME IInv, pc = "find", req.op \in {"init", "write"}, NEW src \in Nat \X Nat,
         req.op = "write" => /\ src[1] \in Pages /\ src[2] \in Slots
                             /\ Act(flash, src[1]) /\ Copy(flash, src[1], src[2], req.id),
         req.op = "init" => src = NoItem /\ Absent(flash, req.id),
         pgLost' = LostAfterFindItem(req.id), InitItem(src, pgLost')
  PROVE  IInv' /\ SameValues
<1> DEFINE p == PageFor(pgLost')
           compact == p # 0 /\ Full(p)
<1>1. UNCHANGED <<flash, pgRes, hot, scan>>
  BY DEF InitItem
<1>2. Base /\ Rest /\ req \in Requests /\ req.id \in Ids /\ req # None
  BY FindsItem DEF IInv
<1>3. Counted(pgLost') /\ Counted(pgLost)'
  BY <1>1, FindCounts
<1>4. hot' \in Nat \X Nat
      /\ (HotLive => hot[1] \in Pages /\ hot[2] \in Slots /\ Copy(flash, hot[1], hot[2], HotId))'
  BY <1>1, <1>2 DEF Base, HotLive
<1>5. CASE p = 0
  <2>1. Return("failed")
    BY <1>5 DEF InitItem
  <2> QED
    BY <1>1, <1>2, <1>3, <1>4, <2>1, ReturnStep
<1>6. CASE p # 0
  <2>1. flash \in Flashes /\ Rests(flash, pgRes) /\ pgRes \in Pages
    BY <1>2 DEF Base, Rest, Rests
  <2>2. /\ p \in Pages /\ p # pgRes
        /\ Full(p) <=> Num(flash, p) = PageItems
        /\ Num(flash, p) = PageItems => \E z \in Slots : Zero(flash, p, z)
    BY <1>3, <1>6, <2>1, ChosenPage
  <2>3. ~flash[p].xfer
    BY <2>1, <2>2 DEF Rests, NoXfer, Xf
  <2>4. /\ job' = [NoJob EXCEPT !.skip = req.id, !.src = src,
                                !.com = IF compact THEN p ELSE 0,
                                !.dst = IF compact THEN pgRes ELSE p]
        /\ pc' = IF ~compact THEN "header" ELSE IF flash[p].xfer THEN "compact" ELSE "xfer"
        /\ UNCHANGED <<req, ret>>
    BY <1>6 DEF InitItem
  <2>5. job' = [skip |-> req.id, src |-> src, com |-> IF compact THEN p ELSE 0,
                dst |-> IF compact THEN pgRes ELSE p, k |-> 1]
    BY <2>4 DEF NoJob
  <2> HIDE DEF p
  <2>6. job' \in Jobs
    <3>1. p \in 0 .. NPages /\ pgRes \in 0 .. NPages /\ 0 \in 0 .. NPages
      BY <2>1, <2>2, PageAssumption DEF Pages
    <3> QED
      BY <1>2, <2>5, <3>1 DEF Jobs
  <2>7. Base'
    <3>1. pc' \in {"header", "xfer"}
      BY <2>3, <2>4
    <3> QED
      BY <1>1, <1>2, <1>3, <1>4, <2>4, <2>6, <3>1 DEF Base, Counted
  <2>8. Rest'
    BY <1>1, <1>2 DEF Rest
  <2>9. CASE ~compact
    <3>1. job'.com = 0 /\ job'.dst = p /\ job'.src = src /\ job'.skip = req.id
      BY <2>5, <2>9
    <3>2. NewJob'
      BY <1>1, <1>2, <2>2, <2>4, <3>1 DEF NewJob, SrcCopy
    <3>3. Settled'
      BY <2>8, <3>1 DEF Settled, Rest
    <3>4. Num(flash, p) < PageItems
      <4>1. Num(flash, p) \in 0 .. PageItems
        BY <2>1, <2>2, Types
      <4> QED
        BY <1>6, <2>2, <2>9, <4>1, PageAssumption
    <3>5. HeaderPhase'
      BY <1>1, <2>8, <3>1, <3>2, <3>3, <3>4 DEF HeaderPhase, Rest
    <3>6. pc' = "header"
      BY <2>4, <2>9
    <3> QED
      BY <1>1, <2>7, <3>5, <3>6, SameFlash DEF IInv
  <2>10. CASE compact
    <3>1. job'.com = p /\ job'.dst = pgRes /\ job'.src = src /\ job'.skip = req.id /\ job'.k = 1
      BY <2>5, <2>10
    <3>2. p # 0
      BY <1>6
    <3>3. NewJob'
      BY <1>1, <1>2, <2>1, <2>2, <2>4, <2>10, <3>1, <3>2 DEF NewJob, SrcCopy
    <3>4. pc' = "xfer"
      BY <2>3, <2>4, <2>10
    <3>5. (job.com \in Pages \ {pgRes} /\ Num(flash, job.com) = PageItems)'
      BY <1>1, <2>2, <2>10, <3>1
    <3> QED
      BY <1>1, <2>7, <2>8, <3>1, <3>3, <3>4, <3>5, SameFlash DEF IInv
  <2> QED
    BY <2>9, <2>10
<1> QED
  BY <1>5, <1>6

LEMMA osal_nv_item_initStep == ASSUME IInv, osal_nv_item_init PROVE IInv' /\ SameValues
<1>1. pc = "find" /\ req.op = "init" /\ pgLost' = LostAfterFindItem(req.id)
  BY DEF osal_nv_item_init
<1>2. Base /\ Rest
  BY <1>1 DEF IInv
<1>3. CASE FindItem(req.id) = NoItem
  <2>1. InitItem(NoItem, pgLost')
    BY <1>3 DEF osal_nv_item_init
  <2>2. Absent(flash, req.id)
    BY <1>1, <1>3, FindsItem
  <2>3. NoItem \in Nat \X Nat
    BY DEF NoItem
  <2> QED
    BY <1>1, <2>1, <2>2, <2>3, InitItemStep
<1>4. CASE FindItem(req.id) # NoItem
  <2>1. PICK p \in Pages, k \in Slots : FindItem(req.id) = <<p, k>> /\ Copy(flash, p, k, req.id)
    BY <1>1, <1>4, FindsItem
  <2>2. /\ hot' = IF req.id = HotId THEN <<p, k>> ELSE hot
        /\ Return("success") /\ UNCHANGED <<flash, pgRes, scan>>
    BY <1>4, <2>1 DEF osal_nv_item_init, hotItemUpdate
  <2>3. Counted(pgLost)'
    BY <1>1, <2>2, FindCounts
  <2>4. p \in Nat /\ k \in Nat
    BY PageAssumption DEF Pages, Slots
  <2>5. hot' \in Nat \X Nat
        /\ (HotLive => hot[1] \in Pages /\ hot[2] \in Slots /\ Copy(flash, hot[1], hot[2], HotId))'
    BY <1>2, <2>1, <2>2, <2>4 DEF Base, HotLive
  <2> QED
    BY <1>1, <1>2, <2>2, <2>3, <2>5, ReturnStep
<1> QED
  BY <1>3, <1>4

LEMMA osal_nv_writeStep == ASSUME IInv, osal_nv_write PROVE IInv' /\ SameValues
<1>1. pc = "find" /\ req.op = "write" /\ pgLost' = LostAfterFindItem(req.id)
  BY DEF osal_nv_write
<1>2. Base /\ Rest
  BY <1>1 DEF IInv
<1> DEFINE at == FindItem(req.id)
           none == at = NoItem \/ ItemAt(at).val = req.val
           status == IF at = NoItem THEN "uninit" ELSE "success"
<1>3. CASE none
  <2>1. Return(status) /\ UNCHANGED <<flash, pgRes, hot, scan>>
    BY <1>3 DEF osal_nv_write
  <2>2. Return("uninit") \/ Return("success")
    BY <2>1
  <2>3. Counted(pgLost)'
    BY <1>1, <2>1, FindCounts
  <2>4. hot' \in Nat \X Nat
        /\ (HotLive => hot[1] \in Pages /\ hot[2] \in Slots /\ Copy(flash, hot[1], hot[2], HotId))'
    BY <1>2, <2>1 DEF Base, HotLive
  <2> QED
    BY <1>1, <1>2, <2>1, <2>2, <2>3, <2>4, ReturnStep
<1>4. CASE ~none
  <2>1. PICK p \in Pages, k \in Slots :
          at = <<p, k>> /\ Act(flash, p) /\ Copy(flash, p, k, req.id)
    BY <1>1, <1>4, FindsItem
  <2>2. InitItem(<<p, k>>, pgLost')
    BY <1>4, <2>1 DEF osal_nv_write
  <2>3. <<p, k>> \in Nat \X Nat
    BY PageAssumption DEF Pages, Slots
  <2> QED
    BY <1>1, <2>1, <2>2, <2>3, InitItemStep
<1> QED
  BY <1>3, <1>4

LEMMA osal_nv_deleteStep == ASSUME IInv, osal_nv_delete PROVE IInv' /\ SameValues
<1>1. /\ pc = "find" /\ req.op = "delete" /\ pgLost' = LostAfterFindItem(req.id)
      /\ UNCHANGED <<flash, pgRes, hot, scan>>
  BY DEF osal_nv_delete
<1>2. Base /\ Rest
  BY <1>1 DEF IInv
<1>3. Counted(pgLost)'
  BY <1>1, FindCounts
<1>4. hot' \in Nat \X Nat
      /\ (HotLive => hot[1] \in Pages /\ hot[2] \in Slots /\ Copy(flash, hot[1], hot[2], HotId))'
  BY <1>1, <1>2 DEF Base, HotLive
<1>5. CASE FindItem(req.id) = NoItem
  <2>1. Return("uninit")
    BY <1>5 DEF osal_nv_delete
  <2> QED
    BY <1>1, <1>2, <1>3, <1>4, <2>1, ReturnStep
<1>6. CASE FindItem(req.id) # NoItem
  <2>1. PICK p \in Pages, k \in Slots :
          FindItem(req.id) = <<p, k>> /\ Act(flash, p) /\ Copy(flash, p, k, req.id)
    BY <1>1, <1>6, FindsItem
  <2>2. pc' = "zero" /\ job' = [NoJob EXCEPT !.src = <<p, k>>] /\ UNCHANGED <<req, ret>>
    BY <1>6, <2>1 DEF osal_nv_delete
  <2>3. job'.src = <<p, k>> /\ job' \in Jobs
    <3>1. p \in Nat /\ k \in Nat
      BY PageAssumption DEF Pages, Slots
    <3> QED
      BY <2>2, <3>1, NoJobIn DEF Jobs
  <2>4. Base'
    BY <1>1, <1>2, <1>3, <1>4, <2>2, <2>3 DEF Base, Counted
  <2>5. req \in Requests /\ req.id \in Ids /\ req.id \in Deletable
    <3>1. req \in Requests /\ req.id \in Ids
      BY <1>1, FindsItem
    <3> QED
      BY <1>1, <3>1 DEF Requests
  <2>6. SrcCopy'
    BY <1>1, <2>1, <2>2, <2>3 DEF SrcCopy
  <2>7. (HotLive /\ HotId = req.id => ~HotOld)'
    BY <1>1, <2>2, <2>5 DEF HotLive
  <2>8. ZeroPhase'
    BY <1>1, <1>2, <2>2, <2>5, <2>6, <2>7 DEF ZeroPhase, Rest
  <2> QED
    BY <1>1, <2>2, <2>4, <2>8, SameFlash DEF IInv
<1> QED
  BY <1>5, <1>6

-----------------------------------------------------------------------------
(* The compaction of a page.                                               *)

SameLive(f, g) == \A p \in Pages : SameSlots(f, g, p) /\ (Act(g, p) <=> Act(f, p))

LEMMA LiveSame ==
  ASSUME NEW f, NEW g, SameLive(f, g)
  PROVE  /\ Paired(f) => Paired(g)
         /\ \A i \in Ids : /\ Single(f, i) => Single(g, i)
                           /\ Absent(f, i) => Absent(g, i)
         /\ NoTorn(f) => NoTorn(g)
         /\ \A p \in Pages : Zeros(g, p) = Zeros(f, p) /\ \A n : ZerosTo(g, p, n) = ZerosTo(f, p, n)
<1>1. Fewer(f, g)
  BY DEF Fewer, SameLive, SameSlots
<1>2. NoTorn(f) => NoTorn(g)
  BY DEF NoTorn, SameLive, SameSlots
<1>3. ASSUME NEW p \in Pages
      PROVE  Zeros(g, p) = Zeros(f, p) /\ \A n : ZerosTo(g, p, n) = ZerosTo(f, p, n)
  <2>1. \A k \in Slots : Zero(g, p, k) <=> Zero(f, p, k)
    BY DEF SameLive, SameSlots
  <2> QED
    BY <2>1, ZerosSame
<1> QED
  BY <1>1, <1>2, <1>3, FewerPaired

LEMMA CountedMore ==
  ASSUME Counted(pgLost), pgLost' = pgLost,
         \A p \in Pages : Cardinality(Zeros(flash, p)) <= Cardinality(Zeros(flash', p))
  PROVE  Counted(pgLost)'
<1>1. \A p \in Pages : Cardinality(Zeros(flash, p)) \in 0 .. PageItems
                       /\ Cardinality(Zeros(flash', p)) \in 0 .. PageItems
  BY ZerosCount
<1> QED
  BY <1>1 DEF Counted

LEMMA StartCompactionStep == ASSUME IInv, StartCompaction PROVE IInv' /\ SameValues
<1> DEFINE c == job.com
<1>1. /\ pc = "xfer" /\ Base /\ Rest /\ NewJob /\ c \in Pages \ {pgRes} /\ job.k = 1
      /\ Num(flash, c) = PageItems
  BY DEF IInv, StartCompaction
<1>2. /\ flash' = [flash EXCEPT ![c].xfer = TRUE] /\ pc' = "compact"
      /\ UNCHANGED <<pgRes, pgLost, hot, req, ret, job, scan>>
  BY DEF StartCompaction
<1>3. /\ flash \in Flashes /\ Paired(flash) /\ Rests(flash, pgRes) /\ NoTorn(flash)
      /\ \A i \in Ids : Single(flash, i)
      /\ pgRes \in Pages /\ Num(flash, pgRes) = 0
      /\ \A p \in Pages : (Act(flash, p) <=> p # pgRes) /\ ~Xf(flash, p)
  BY <1>1 DEF Base, Rest, Rests, NoXfer
<1> HIDE DEF c
<1>4. /\ flash' \in Flashes
      /\ \A q \in Pages : SameSlots(flash, flash', q) /\ (Act(flash', q) <=> Act(flash, q))
      /\ \A q \in Pages : Xf(flash', q) <=> Xf(flash, q) \/ q = c
  <2>1. c \in Pages /\ Act(flash, c) /\ flash' = setPageXfer(flash, c)
    BY <1>1, <1>2, <1>3 DEF setPageXfer
  <2> QED
    BY <1>3, <2>1, StartingXfer
<1>5. SameLive(flash, flash')
  BY <1>4 DEF SameLive
<1>6. /\ Paired(flash') /\ NoTorn(flash') /\ \A i \in Ids : Single(flash', i)
      /\ \A i \in Ids : Absent(flash, i) => Absent(flash', i)
      /\ \A p \in Pages : Zeros(flash', p) = Zeros(flash, p)
  BY <1>3, <1>5, LiveSame
<1>7. Base'
  <2>1. (HotLive => hot[1] \in Pages /\ hot[2] \in Slots /\ Copy(flash, hot[1], hot[2], HotId))'
    BY <1>1, <1>2, <1>4, ItemAssumption DEF Base, HotLive, SameSlots
  <2>2. \A p \in Pages : pgLost'[p] <= Cardinality(Zeros(flash', p))
    BY <1>1, <1>2, <1>6 DEF Base
  <2> QED
    BY <1>1, <1>2, <1>4, <1>6, <2>1, <2>2 DEF Base
<1>8. \A l \in Slots : ~(l <= 0) /\ ~(l < 1)
  BY DEF Slots
<1>9. \A l \in Slots : \A i \in Ids : ~Copy(flash', pgRes, l, i)
  BY <1>3, <1>4, <1>8 DEF Copy, SameSlots
<1>10. Compacts(job.k)'
  <2>1. Moving(flash', c, pgRes)
    BY <1>1, <1>3, <1>4, <1>6 DEF Moving, SameSlots
  <2>2. Copied(flash', c, pgRes, 1, job.skip)
    BY <1>8 DEF Copied
  <2>3. FromPage(flash', c, pgRes, 1, job.skip)
    BY <1>9 DEF FromPage
  <2> QED
    BY <1>1, <1>2, <2>1, <2>2, <2>3 DEF Compacts, c
<1>11. NewJob'
  <2>1. req.id \in Ids
    BY <1>1, ItemAssumption DEF NewJob, Requests
  <2>2. c # 0 /\ c \in Pages
    BY <1>1, PageAssumption DEF Pages
  <2>3. SrcCopy => SrcCopy'
    BY <1>2, <1>4, <2>1 DEF SrcCopy, SameSlots
  <2>4. \E z \in Slots : Zero(flash', c, z)
    BY <1>1, <1>4, <2>2 DEF NewJob, SameSlots, c
  <2> QED
    BY <1>1, <1>2, <1>6, <2>1, <2>2, <2>3, <2>4 DEF NewJob, c
<1>12. CompactPhase'
  <2>1. (HotLive /\ hot[1] = job.com => hot[2] >= job.k)'
    BY <1>1, <1>2, <1>7 DEF Base, HotLive, Slots
  <2>2. req # None /\ req.id \in Ids
    BY <1>1, ItemAssumption DEF NewJob, Requests
  <2>3. Num(flash', pgRes) = 0
    BY <1>3, <1>4 DEF SameSlots
  <2>4. Without(flash', pgRes, req.id)
    BY <1>9, <2>2 DEF Without
  <2> QED
    BY <1>1, <1>2, <1>6, <1>8, <1>10, <1>11, <2>1, <2>2, <2>3, <2>4, PageAssumption
    DEF CompactPhase, AllDone
<1>13. SameValues
  <2>1. \A p \in Pages : KeptPage(flash, p) <=> KeptPage(flash', p)
    BY <1>3, <1>4 DEF KeptPage
  <2>2. \A i \in Ids : Keeps(flash, flash', i)
    <3> TAKE i \in Ids
    <3>1. \A p \in Pages : \A k \in Slots :
            /\ KeptCopy(flash', p, k, i) <=> KeptCopy(flash, p, k, i)
            /\ (Old(flash', p, k) <=> Old(flash, p, k)) /\ Val(flash', p, k) = Val(flash, p, k)
      BY <1>4, <2>1 DEF KeptCopy, SameSlots
    <3> QED
      BY <3>1, KeepsSame
  <2> QED
    BY <1>3, <1>4, <2>2, Unchanged DEF SameValues
<1> QED
  BY <1>1, <1>2, <1>7, <1>12, <1>13 DEF IInv

LEMMA SinglePaired == ASSUME NEW f, \A i \in Ids : Single(f, i) PROVE Paired(f)
BY DEF Single, Paired

(* An item of page c is marked, and copied into page t.                    *)
Transferred(f, g, c, t, k, i, n) ==
  /\ g \in Flashes /\ n \in Slots /\ Num(g, t) = n
  /\ \A q \in Pages \ {t} : Num(g, q) = Num(f, q)
  /\ \A q \in Pages : (Act(g, q) <=> Act(f, q)) /\ (Xf(g, q) <=> Xf(f, q))
  /\ \A q \in Pages : \A l \in Slots :
       /\ Zero(g, q, l) <=> Zero(f, q, l)
       /\ Torn(g, q, l) <=> Torn(f, q, l)
       /\ ~(q = t /\ l = n) => (Old(g, q, l) <=> Old(f, q, l) \/ (q = c /\ l = k))
       /\ \A j \in Ids : /\ Copy(g, q, l, j) <=> Copy(f, q, l, j) \/ (q = t /\ l = n /\ j = i)
                         /\ Copy(f, q, l, j) => Val(g, q, l) = Val(f, q, l)
  /\ ~Old(g, t, n) /\ Val(g, t, n) = Val(f, c, k)
  /\ \A j \in Ids : ~Copy(f, t, n, j)

LEMMA Transferring ==
  ASSUME NEW f \in Flashes, NEW c \in Pages, NEW t \in Pages, c # t, NEW k \in Slots,
         NEW i \in Ids, Copy(f, c, k, i), Num(f, t) < PageItems,
         NEW n, n = Num(f, t) + 1,
         NEW m, m = MarkXfer(f, <<c, k>>),
         NEW it \in Wholes, ~it.old, it.id = i, it.val = Val(f, c, k),
         NEW g, g = AddItem(m, t, it)
  PROVE  Transferred(f, g, c, t, k, i, n)
<1>1. /\ SameBut(f, m, c, k)
      /\ ~Zero(m, c, k) /\ ~Torn(m, c, k) /\ Old(m, c, k)
      /\ Val(m, c, k) = Val(f, c, k)
      /\ \A j \in Ids : Copy(m, c, k, j) <=> Copy(f, c, k, j)
  BY Marking
<1>2. m \in Flashes /\ SamePage(f, m, t) /\ Num(m, t) = Num(f, t) /\ Num(m, t) < PageItems
  BY <1>1 DEF SameBut, SamePage, SameSlots
<1>3. it.chk /\ it \notin Headers /\ it \in Headers \cup Wholes
  BY CellKinds
<1>6. /\ g \in Flashes
      /\ \A q \in Pages \ {t} : SamePage(m, g, q)
      /\ Num(g, t) = Num(m, t) + 1
      /\ (Act(g, t) <=> Act(m, t)) /\ (Xf(g, t) <=> Xf(m, t))
      /\ \A l \in Slots :
           /\ Zero(g, t, l) <=> Zero(m, t, l)
           /\ Torn(g, t, l) <=> Torn(m, t, l) \/ (l = Num(g, t) /\ it \in Headers)
           /\ l # Num(g, t) => (Old(g, t, l) <=> Old(m, t, l))
           /\ l <= Num(m, t) => Val(g, t, l) = Val(m, t, l)
           /\ \A j \in Ids : Copy(g, t, l, j) <=> Copy(m, t, l, j) \/ (l = Num(g, t) /\ it.chk /\ it.id = j)
      /\ Num(g, t) \in Slots
      /\ Old(g, t, Num(g, t)) <=> it.old
      /\ Val(g, t, Num(g, t)) = it.val
  BY <1>2, <1>3, Adding
<1>7. Num(g, t) = n
  BY <1>2, <1>6
<1>8. \A j \in Ids : ~Copy(f, t, n, j)
  <2>1. Num(f, t) \in 0 .. PageItems
    BY Types
  <2>2. ~(n <= Num(f, t))
    BY <2>1, PageAssumption
  <2> QED
    BY <2>2 DEF Copy
<1>9. ASSUME NEW l \in Slots
      PROVE  /\ Zero(g, t, l) <=> Zero(f, t, l)
             /\ Torn(g, t, l) <=> Torn(f, t, l)
             /\ l # n => (Old(g, t, l) <=> Old(f, t, l))
             /\ \A j \in Ids : /\ Copy(g, t, l, j) <=> Copy(f, t, l, j) \/ (l = n /\ j = i)
                               /\ Copy(f, t, l, j) => Val(g, t, l) = Val(f, t, l)
  <2>1. \A j \in Ids : Copy(f, t, l, j) => l <= Num(m, t)
    BY <1>2 DEF Copy
  <2> QED
    BY <1>2, <1>3, <1>6, <1>7, <2>1 DEF SamePage, SameSlots
<1>10. ASSUME NEW l \in Slots
       PROVE  /\ Zero(g, c, l) <=> Zero(f, c, l)
              /\ Torn(g, c, l) <=> Torn(f, c, l)
              /\ Old(g, c, l) <=> Old(f, c, l) \/ l = k
              /\ \A j \in Ids : /\ Copy(g, c, l, j) <=> Copy(f, c, l, j)
                                /\ Copy(f, c, l, j) => Val(g, c, l) = Val(f, c, l)
  <2>1. SamePage(m, g, c)
    BY <1>6
  <2>2. CASE l = k
    <3>1. ~Zero(f, c, k) /\ ~Torn(f, c, k)
      BY Kinds
    <3> QED
      BY <1>1, <2>1, <2>2, <3>1 DEF SamePage, SameSlots
  <2>3. CASE l # k
    <3>1. \A j \in Ids : Copy(f, c, l, j) => l <= Num(f, c)
      BY DEF Copy
    <3> QED
      BY <1>1, <2>1, <2>3, <3>1 DEF SamePage, SameSlots, SameBut
  <2> QED
    BY <2>2, <2>3
<1>11. \A q \in Pages \ {c, t} : SamePage(f, g, q)
  BY <1>1, <1>6 DEF SameBut, SamePage, SameSlots
<1>12. \A q \in Pages \ {t} : Num(g, q) = Num(f, q)
  <2>1. Num(g, c) = Num(f, c)
    <3>1. Num(m, c) = Num(f, c)
      BY <1>1 DEF SameBut
    <3>2. SamePage(m, g, c)
      BY <1>6
    <3> QED
      BY <3>1, <3>2 DEF SamePage, SameSlots
  <2> QED
    BY <1>11, <2>1 DEF SamePage, SameSlots
<1>13. \A q \in Pages : (Act(g, q) <=> Act(f, q)) /\ (Xf(g, q) <=> Xf(f, q))
  BY <1>1, <1>6 DEF SameBut, SamePage
<1>14. ASSUME NEW q \in Pages, NEW l \in Slots
       PROVE  /\ Zero(g, q, l) <=> Zero(f, q, l)
              /\ Torn(g, q, l) <=> Torn(f, q, l)
              /\ ~(q = t /\ l = n) => (Old(g, q, l) <=> Old(f, q, l) \/ (q = c /\ l = k))
              /\ \A j \in Ids : /\ Copy(g, q, l, j) <=> Copy(f, q, l, j) \/ (q = t /\ l = n /\ j = i)
                                /\ Copy(f, q, l, j) => Val(g, q, l) = Val(f, q, l)
  <2>1. CASE q = t
    BY <1>9, <2>1
  <2>2. CASE q = c
    BY <1>10, <2>2
  <2>3. CASE q \notin {c, t}
    BY <1>11, <2>3 DEF SamePage, SameSlots
  <2> QED
    BY <2>1, <2>2, <2>3
<1> QED
  BY <1>3, <1>6, <1>7, <1>8, <1>12, <1>13, <1>14 DEF Transferred

LEMMA TransferKeeps ==
  ASSUME NEW f \in Flashes, NEW g, NEW c, NEW t, NEW k \in Slots, NEW skip, NEW n,
         NEW i \in Ids, i # skip, Copy(f, c, k, i),
         Moving(f, c, t), Copied(f, c, t, k, skip), FromPage(f, c, t, k, skip),
         Transferred(f, g, c, t, k, i, n)
  PROVE  /\ Moving(g, c, t) /\ Copied(g, c, t, k + 1, skip) /\ FromPage(g, c, t, k + 1, skip)
         /\ \A j \in Ids : Keeps(f, g, j)
         /\ \A j \in Ids : /\ Absent(f, j) => Absent(g, j)
                           /\ j # i /\ Without(f, t, j) => Without(g, t, j)
         /\ NoTorn(f) => NoTorn(g)
         /\ \A p \in Pages : Zeros(g, p) = Zeros(f, p)
<1>1. /\ c \in Pages /\ t \in Pages /\ c # t /\ \A j \in Ids : Single(f, j)
      /\ \A p \in Pages : (Act(f, p) <=> p # t) /\ (Xf(f, p) <=> p = c)
      /\ Num(f, c) = PageItems
  BY DEF Moving
<1>2. /\ g \in Flashes /\ n \in Slots
      /\ \A q \in Pages \ {t} : Num(g, q) = Num(f, q)
      /\ \A q \in Pages : (Act(g, q) <=> Act(f, q)) /\ (Xf(g, q) <=> Xf(f, q))
      /\ ~Old(g, t, n) /\ Val(g, t, n) = Val(f, c, k)
      /\ \A j \in Ids : ~Copy(f, t, n, j)
  BY DEF Transferred
<1>3. \A q \in Pages : \A l \in Slots :
        /\ Zero(g, q, l) <=> Zero(f, q, l)
        /\ Torn(g, q, l) <=> Torn(f, q, l)
        /\ ~(q = t /\ l = n) => (Old(g, q, l) <=> Old(f, q, l) \/ (q = c /\ l = k))
        /\ \A j \in Ids : /\ Copy(g, q, l, j) <=> Copy(f, q, l, j) \/ (q = t /\ l = n /\ j = i)
                          /\ Copy(f, q, l, j) => Val(g, q, l) = Val(f, q, l)
  BY DEF Transferred
<1>4. \A p \in Pages : \A l \in Slots : \A j \in Ids :
        Act(g, p) /\ Copy(g, p, l, j) <=> Act(f, p) /\ Copy(f, p, l, j)
  BY <1>1, <1>2, <1>3
<1>5. \A j \in Ids : Single(g, j)
  BY <1>1, <1>4 DEF Single
<1>6. Moving(g, c, t)
  BY <1>1, <1>2, <1>5 DEF Moving
<1>7. \A j \in Slots : j < k + 1 <=> j < k \/ j = k
  BY DEF Slots
<1>8. Act(f, c) /\ \A j \in Slots : j # k => ~Copy(f, c, j, i)
  BY <1>1 DEF Single
<1>9. Copied(g, c, t, k + 1, skip)
  <2> SUFFICES ASSUME NEW j \in Slots, NEW h \in Ids, j < k + 1, Copy(g, c, j, h), h # skip
               PROVE  /\ Old(g, c, j)
                      /\ \E l \in Slots : Copy(g, t, l, h) /\ Val(g, t, l) = Val(g, c, j)
    BY DEF Copied
  <2>1. Copy(f, c, j, h)
    BY <1>1, <1>3
  <2>2. CASE j < k
    <3>1. Old(f, c, j) /\ \E l \in Slots : Copy(f, t, l, h) /\ Val(f, t, l) = Val(f, c, j)
      BY <2>1, <2>2 DEF Copied
    <3> QED
      BY <1>1, <1>3, <2>1, <3>1
  <2>3. CASE j = k
    <3>1. h = i
      BY <1>1, <2>1, <2>3, Kinds
    <3>2. Old(g, c, j) /\ Val(g, c, j) = Val(f, c, k) /\ Copy(g, t, n, i)
      BY <1>1, <1>2, <1>3, <2>1, <2>3
    <3> QED
      BY <1>2, <3>1, <3>2
  <2> QED
    BY <1>7, <2>2, <2>3
<1>10. FromPage(g, c, t, k + 1, skip)
  <2> SUFFICES ASSUME NEW l \in Slots, NEW h \in Ids, Copy(g, t, l, h)
               PROVE  /\ ~Old(g, t, l)
                      /\ h # skip => \E j \in Slots : j < k + 1 /\ Copy(g, c, j, h) /\ Val(g, t, l) = Val(g, c, j)
                      /\ \A m \in Slots : Copy(g, t, m, h) => m = l
    BY DEF FromPage
  <2>1. \A m \in Slots : ~Copy(f, t, m, i)
    <3>1. ASSUME NEW m \in Slots, Copy(f, t, m, i) PROVE FALSE
      <4>1. PICK j \in Slots : j < k /\ Copy(f, c, j, i)
        BY <3>1 DEF FromPage
      <4> QED
        BY <1>8, <4>1 DEF Slots
    <3> QED
      BY <3>1
  <2>2. CASE l = n
    <3>1. h = i /\ \A m \in Slots : Copy(g, t, m, h) => m = l
      BY <1>1, <1>2, <1>3, <2>1, <2>2
    <3>2. k < k + 1 /\ Copy(g, c, k, i) /\ Val(g, c, k) = Val(f, c, k)
      BY <1>1, <1>3, <1>7
    <3> QED
      BY <1>2, <2>2, <3>1, <3>2
  <2>3. CASE l # n
    <3>1. Copy(f, t, l, h) /\ h # i /\ Val(g, t, l) = Val(f, t, l)
      BY <1>1, <1>3, <2>1, <2>3
    <3>2. /\ ~Old(f, t, l)
          /\ h # skip => \E j \in Slots : j < k /\ Copy(f, c, j, h) /\ Val(f, t, l) = Val(f, c, j)
          /\ \A m \in Slots : Copy(f, t, m, h) => m = l
      BY <3>1 DEF FromPage
    <3>3. ~Old(g, t, l)
      BY <1>1, <1>3, <2>3, <3>2
    <3>4. h # skip => \E j \in Slots : j < k + 1 /\ Copy(g, c, j, h) /\ Val(g, t, l) = Val(g, c, j)
      BY <1>1, <1>3, <1>7, <3>1, <3>2
    <3>5. \A m \in Slots : Copy(g, t, m, h) => m = l
      BY <1>1, <1>3, <3>1, <3>2
    <3> QED
      BY <3>3, <3>4, <3>5
  <2> QED
    BY <2>2, <2>3
<1>11. ASSUME NEW j \in Ids PROVE Keeps(f, g, j)
  <2>1. \A p \in Pages : (KeptPage(f, p) <=> Act(f, p)) /\ (KeptPage(g, p) <=> Act(g, p))
    BY <1>1, <1>2 DEF KeptPage
  <2>2. \A p \in Pages : \A l \in Slots :
          /\ KeptCopy(g, p, l, j) <=> KeptCopy(f, p, l, j)
          /\ KeptCopy(f, p, l, j) => Val(g, p, l) = Val(f, p, l)
    BY <1>3, <1>4, <2>1 DEF KeptCopy
  <2>3. \A p, q \in Pages : \A l, m \in Slots :
          KeptCopy(f, p, l, j) /\ KeptCopy(f, q, m, j) => p = q /\ l = m
    BY <1>1, <2>1 DEF KeptCopy, Single
  <2> QED
    BY <2>2, <2>3, KeepsMarked
<1>12. \A j \in Ids : /\ Absent(f, j) => Absent(g, j)
                      /\ j # i /\ Without(f, t, j) => Without(g, t, j)
  BY <1>1, <1>3, <1>4 DEF Absent, Without
<1>13. NoTorn(f) => NoTorn(g)
  BY <1>3 DEF NoTorn
<1>14. \A p \in Pages : Zeros(g, p) = Zeros(f, p)
  BY <1>3, ZerosSame
<1> QED
  BY <1>6, <1>9, <1>10, <1>11, <1>12, <1>13, <1>14

LEMMA AtSlot ==
  ASSUME flash \in Flashes, NEW c \in Pages, NEW k \in 1 .. AllDone
  PROVE  /\ k \in DOMAIN flash[c].items <=> k \in Slots /\ k <= Num(flash, c)
         /\ Num(flash, c) = PageItems /\ k \notin DOMAIN flash[c].items => k = AllDone
<1>1. flash[c].items \in Seq(Cells) /\ Num(flash, c) \in 0 .. PageItems
  BY Types
<1>2. DOMAIN flash[c].items = 1 .. Num(flash, c)
  BY <1>1 DEF Num
<1> QED
  BY <1>1, <1>2, PageAssumption DEF Slots, AllDone

LEMMA CompactItemStep == ASSUME IInv, CompactItem PROVE IInv' /\ SameValues
<1> DEFINE c == job.com
           k == job.k
           t == pgRes
           it == ItemAt(<<c, k>>)
           moves == it # Zeroed /\ it.id # job.skip /\ it.chk
           n == Num(flash, t) + 1
<1>1. /\ pc = "compact" /\ Base /\ CompactPhase /\ k \in DOMAIN flash[c].items
      /\ job' = [job EXCEPT !.k = @ + 1]
      /\ UNCHANGED <<pgRes, pgLost, pc, req, ret, scan>>
  BY DEF IInv, CompactItem
<1>2. /\ Moving(flash, c, t) /\ Copied(flash, c, t, k, job.skip)
      /\ FromPage(flash, c, t, k, job.skip)
      /\ c \in Pages /\ t \in Pages /\ c # t /\ Num(flash, c) = PageItems
      /\ flash \in Flashes /\ Paired(flash) /\ k \in 1 .. AllDone
      /\ Num(flash, t) < k
  BY <1>1 DEF CompactPhase, Compacts, Moving, Base
<1>3. k \in Slots /\ k <= Num(flash, c)
  BY <1>1, <1>2, AtSlot
<1>4. /\ job' \in Jobs /\ job'.k = k + 1 /\ job'.com = c /\ job'.skip = job.skip
      /\ job'.src = job.src /\ job'.dst = job.dst
  BY <1>1 DEF Base, Jobs
<1>5. k + 1 \in 1 .. AllDone /\ Num(flash, t) \in Nat /\ k < k + 1 /\ Num(flash, t) < k + 1
  <2>1. Num(flash, t) \in 0 .. PageItems
    BY <1>2, Types
  <2> QED
    BY <1>2, <1>3, <2>1, PageAssumption DEF Slots, AllDone
<1>6. \A j \in Slots : j < k + 1 <=> j < k \/ j = k
  BY <1>3 DEF Slots
<1>7. /\ \A z \in Slots : z < k /\ Zero(flash, c, z) => n < k
      /\ HotLive /\ hot[1] = c => hot[2] >= k \/ HotId = job.skip
      /\ IF req = None THEN job.skip = None /\ (HotLive => hot[1] = t)
         ELSE NewJob /\ NoTorn(flash) /\ Without(flash, t, req.id)
  BY <1>1 DEF CompactPhase
<1>8. it.chk /\ it.id \in Ids <=> \E i \in Ids : Copy(flash, c, k, i)
  BY <1>3 DEF Copy, ItemAt
<1>9. it = Zeroed <=> Zero(flash, c, k)
  BY <1>3 DEF Zero, ItemAt
<1>10. \A i \in Ids : Copy(flash, c, k, i) <=> it.chk /\ it.id = i
  BY <1>3 DEF Copy, ItemAt
<1>11. SrcCopy' <=> (Act(flash', job.src[1]) /\ Copy(flash', job.src[1], job.src[2], req.id)
                     /\ job.src[1] \in Pages /\ job.src[2] \in Slots)
  BY <1>1, <1>4 DEF SrcCopy
<1>12. CASE moves
  <2>1. it \in Wholes /\ it.id \in Ids /\ it.val = Val(flash, c, k)
    <3>1. it \in Cells
      BY <1>2, <1>3, Types DEF ItemAt
    <3>2. it \notin Headers
      BY <1>12, CellKinds
    <3>3. it \in Wholes
      BY <1>12, <3>1, <3>2 DEF Cells
    <3> QED
      BY <3>3, CellKinds DEF ItemAt, Val
  <2> DEFINE i == it.id
             new == Item(i, it.val, TRUE)
             mid == MarkXfer(flash, <<c, k>>)
  <2>2. Copy(flash, c, k, i) /\ i \in Ids /\ i # job.skip
    BY <1>10, <1>12, <2>1
  <2>3. new \in Wholes /\ ~new.old /\ new.id = i /\ new.val = Val(flash, c, k)
    BY <2>1, <2>2, Kinds, <1>2, <1>3 DEF Item, Wholes
  <2>4. flash' = AddItem(mid, t, new) /\ hot' = IF i = HotId THEN <<t, n>> ELSE hot
    BY <1>1, <1>12 DEF CompactItem, hotItemUpdate, Num
  <2>5. Num(flash, t) < PageItems
    BY <1>2, <1>3, <1>5, PageAssumption DEF Slots
  <2> HIDE DEF i, new, mid, it
  <2>6. Transferred(flash, flash', c, t, k, i, n)
    <3> DEFINE f == mid
    <3>1. f = MarkXfer(flash, <<c, k>>)
      BY DEF mid
    <3>2. flash' = AddItem(f, t, new)
      BY <2>4
    <3> HIDE DEF f, n, c, k, t
    <3>3. n = Num(flash, t) + 1
      BY DEF n
    <3> QED
      BY <1>2, <1>3, <2>2, <2>3, <2>5, <3>1, <3>2, <3>3, Transferring
  <2>7. /\ Moving(flash', c, t) /\ Copied(flash', c, t, k + 1, job.skip)
        /\ FromPage(flash', c, t, k + 1, job.skip)
        /\ \A j \in Ids : Keeps(flash, flash', j)
        /\ \A j \in Ids : /\ Absent(flash, j) => Absent(flash', j)
                          /\ j # i /\ Without(flash, t, j) => Without(flash', t, j)
        /\ NoTorn(flash) => NoTorn(flash')
        /\ \A p \in Pages : Zeros(flash', p) = Zeros(flash, p)
    <3> HIDE DEF c, k, t, n
    <3> QED
      BY <1>2, <1>3, <2>2, <2>6, TransferKeeps
  <2>8. /\ flash' \in Flashes /\ n \in Slots /\ Num(flash', t) = n
        /\ \A q \in Pages \ {t} : Num(flash', q) = Num(flash, q)
        /\ \A q \in Pages : (Act(flash', q) <=> Act(flash, q)) /\ (Xf(flash', q) <=> Xf(flash, q))
    BY <2>6 DEF Transferred
  <2>9. \A q \in Pages : \A l \in Slots :
          /\ Zero(flash', q, l) <=> Zero(flash, q, l)
          /\ \A j \in Ids : Copy(flash', q, l, j) <=> Copy(flash, q, l, j) \/ (q = t /\ l = n /\ j = i)
    BY <2>6 DEF Transferred
  <2>10. Paired(flash') /\ \A j \in Ids : Single(flash', j)
    BY <2>7, SinglePaired DEF Moving
  <2>11. hot' \in Nat \X Nat
         /\ (HotLive' => hot'[1] \in Pages /\ hot'[2] \in Slots /\ Copy(flash', hot'[1], hot'[2], HotId))
    <3>1. CASE i = HotId
      <4>1. hot' = <<t, n>> /\ Copy(flash', t, n, HotId) /\ t \in Nat /\ n \in Nat
        BY <1>2, <2>2, <2>4, <2>8, <2>9, <3>1, PageAssumption DEF Pages, Slots
      <4> QED
        BY <1>2, <2>8, <4>1
    <3>2. CASE i # HotId
      <4>1. hot' = hot
        BY <2>4, <3>2
      <4> QED
        BY <1>1, <2>9, <4>1, ItemAssumption DEF Base, HotLive
    <3> QED
      BY <3>1, <3>2
  <2>12. Base'
    <3>1. \A p \in Pages : pgLost'[p] <= Cardinality(Zeros(flash', p))
      BY <1>1, <2>7 DEF Base
    <3> QED
      BY <1>1, <1>4, <2>8, <2>10, <2>11, <3>1 DEF Base
  <2>13. Compacts(job.k)'
    BY <1>1, <1>4, <2>7 DEF Compacts
  <2>14. n < k + 1 /\ ~Zero(flash, c, k) /\ \A z \in Slots : z < k + 1 /\ Zero(flash', c, z) => n + 1 < k + 1
    <3>1. ~Zero(flash, c, k)
      BY <1>9, <1>12 DEF it
    <3>2. n \in Nat /\ n < k + 1
      BY <1>2, <1>3, <1>5 DEF Slots
    <3>3. n < k => n + 1 < k + 1
      BY <1>3, <3>2 DEF Slots
    <3> QED
      BY <1>2, <1>6, <1>7, <2>9, <3>1, <3>2, <3>3
  <2>15. HotLive' /\ hot'[1] = c => hot'[2] >= k + 1 \/ HotId = job.skip
    <3> SUFFICES ASSUME HotLive', hot'[1] = c PROVE hot'[2] >= k + 1 \/ HotId = job.skip
      OBVIOUS
    <3>1. i # HotId
      BY <1>2, <2>4
    <3>2. hot' = hot
      BY <2>4, <3>1
    <3>3. HotLive /\ hot[1] = c
      BY <3>2 DEF HotLive
    <3>4. hot[2] \in Slots /\ Copy(flash, c, hot[2], HotId)
      BY <1>1, <3>3 DEF Base
    <3>5. hot[2] # k
      BY <1>2, <1>3, <2>2, <3>1, <3>4, Kinds, ItemAssumption
    <3>6. hot[2] >= k => hot[2] >= k + 1
      BY <1>3, <3>4, <3>5 DEF Slots
    <3> QED
      BY <1>7, <3>2, <3>3, <3>6
  <2>16. req = None => job.skip = None /\ (HotLive' => hot'[1] = t)
    <3>1. HotLive' /\ i # HotId => HotLive /\ hot' = hot
      BY <2>4 DEF HotLive
    <3>2. i = HotId => hot'[1] = t
      BY <2>4
    <3> QED
      BY <1>7, <3>1, <3>2
  <2>17. ASSUME req # None
         PROVE  NewJob' /\ NoTorn(flash') /\ Without(flash', t, req.id)
    <3>1. NewJob /\ NoTorn(flash) /\ Without(flash, t, req.id) /\ req.id \in Ids /\ req.id # i
      BY <1>7, <2>2, <2>17, ItemAssumption DEF NewJob, Requests
    <3>2. SrcCopy => SrcCopy'
      BY <1>11, <2>8, <2>9, <3>1 DEF SrcCopy
    <3>3. Absent(flash, req.id) => Absent(flash', req.id)
      BY <2>7, <3>1
    <3>4. \E z \in Slots : Zero(flash', c, z)
      BY <1>2, <2>9, <3>1, PageAssumption DEF NewJob, Pages
    <3>5. c # 0
      BY <1>2, PageAssumption DEF Pages
    <3>6. NewJob'
      BY <1>1, <1>4, <3>1, <3>2, <3>3, <3>4, <3>5 DEF NewJob
    <3> QED
      BY <2>7, <3>1, <3>6
  <2>18. CompactPhase'
    BY <1>1, <1>4, <1>5, <2>8, <2>13, <2>14, <2>15, <2>16, <2>17 DEF CompactPhase
  <2>19. SameValues
    BY <1>2, <2>7, <2>8, Unchanged DEF SameValues
  <2> QED
    BY <1>1, <2>12, <2>18, <2>19 DEF IInv
<1>13. CASE ~moves
  <2>1. UNCHANGED <<flash, hot>>
    BY <1>1, <1>13 DEF CompactItem
  <2>2. \A i \in Ids : Copy(flash, c, k, i) => i = job.skip
    BY <1>10, <1>13, <1>2, <1>3, <1>9, Kinds
  <2> HIDE DEF it
  <2>3. Copied(flash, c, t, k + 1, job.skip) /\ FromPage(flash, c, t, k + 1, job.skip)
    <3>1. Copied(flash, c, t, k + 1, job.skip)
      BY <1>2, <1>6, <2>2 DEF Copied
    <3>2. FromPage(flash, c, t, k + 1, job.skip)
      BY <1>2, <1>6 DEF FromPage
    <3> QED
      BY <3>1, <3>2
  <2>4. Compacts(job.k)'
    BY <1>1, <1>2, <1>4, <2>1, <2>3 DEF Compacts
  <2>5. Base'
    BY <1>1, <1>4, <2>1 DEF Base, HotLive
  <2>6. \A z \in Slots : z < k + 1 /\ Zero(flash, c, z) => n < k + 1
    <3>1. n \in Nat /\ n < k + 1
      BY <1>2, <1>3, <1>5 DEF Slots
    <3> QED
      BY <3>1
  <2>7. HotLive /\ hot[1] = c => hot[2] >= k + 1 \/ HotId = job.skip
    <3> SUFFICES ASSUME HotLive, hot[1] = c, HotId # job.skip PROVE hot[2] >= k + 1
      OBVIOUS
    <3>1. hot[2] \in Slots /\ Copy(flash, c, hot[2], HotId) /\ hot[2] >= k
      BY <1>1, <1>7 DEF Base
    <3>2. hot[2] # k
      BY <2>2, <3>1, ItemAssumption
    <3> QED
      BY <1>3, <3>1, <3>2 DEF Slots
  <2>8. NewJob => NewJob'
    BY <1>1, <1>4, <1>11, <2>1 DEF NewJob, SrcCopy
  <2>9. CompactPhase'
    BY <1>1, <1>4, <1>5, <1>7, <2>1, <2>4, <2>6, <2>7, <2>8 DEF CompactPhase, HotLive
  <2> QED
    BY <1>1, <2>1, <2>5, <2>9, SameFlash DEF IInv
<1> QED
  BY <1>12, <1>13

LEMMA CompactEndStep == ASSUME IInv, CompactEnd PROVE IInv' /\ SameValues
<1> DEFINE c == job.com
           t == pgRes
<1>1. /\ pc = "compact" /\ Base /\ CompactPhase /\ job.k \notin DOMAIN flash[c].items
      /\ pc' = (IF req = None THEN "use" ELSE "header")
      /\ UNCHANGED <<flash, pgRes, pgLost, hot, req, ret, job, scan>>
  BY DEF IInv, CompactEnd
<1>2. /\ Compacts(job.k) /\ c \in Pages /\ t \in Pages /\ c # t /\ Num(flash, c) = PageItems
      /\ flash \in Flashes /\ job.k \in 1 .. AllDone
  BY <1>1 DEF CompactPhase, Compacts, Moving, Base
<1>3. job.k = AllDone
  BY <1>1, <1>2, AtSlot
<1>4. /\ \A z \in Slots : z < job.k /\ Zero(flash, c, z) => Num(flash, t) + 1 < job.k
      /\ HotLive /\ hot[1] = c => hot[2] >= job.k \/ HotId = job.skip
      /\ IF req = None THEN job.skip = None /\ (HotLive => hot[1] = t)
         ELSE NewJob /\ NoTorn(flash) /\ Without(flash, t, req.id)
  BY <1>1 DEF CompactPhase
<1>5. Base'
  BY <1>1 DEF Base, HotLive
<1>6. NewJob => NewJob'
  BY <1>1 DEF NewJob, SrcCopy
<1>7. Compacts(AllDone)'
  BY <1>1, <1>2, <1>3 DEF Compacts, AllDone
<1>8. CASE req = None
  <2>1. UsePhase'
    BY <1>1, <1>2, <1>4, <1>7, <1>8 DEF UsePhase, HotLive
  <2> QED
    BY <1>1, <1>5, <1>8, <2>1, SameFlash DEF IInv
<1>9. CASE req # None
  <2>1. NewJob /\ NoTorn(flash) /\ Without(flash, t, req.id) /\ job.skip = req.id
    BY <1>4, <1>9 DEF NewJob
  <2>2. c # 0
    BY <1>2, PageAssumption DEF Pages
  <2>3. HotLive /\ hot[1] = c => HotId = req.id
    <3> SUFFICES ASSUME HotLive, hot[1] = c PROVE HotId = req.id
      OBVIOUS
    <3>1. hot[2] \in Slots
      BY <1>1 DEF Base
    <3>2. ~(hot[2] >= job.k)
      BY <1>3, <3>1, PageAssumption DEF Slots, AllDone
    <3> QED
      BY <1>4, <2>1, <3>2
  <2>4. Settled'
    BY <1>1, <1>7, <2>1, <2>2, <2>3 DEF Settled, HotLive
  <2>5. Num(flash, job.dst) < PageItems
    <3>1. job.dst = t /\ \E z \in Slots : Zero(flash, c, z)
      BY <2>1, <2>2 DEF NewJob
    <3>2. \A z \in Slots : z < job.k
      BY <1>3, PageAssumption DEF Slots, AllDone
    <3>3. Num(flash, t) + 1 < job.k /\ Num(flash, t) \in 0 .. PageItems
      BY <1>2, <1>4, <3>1, <3>2, Types
    <3> QED
      BY <1>3, <3>1, <3>3, PageAssumption DEF AllDone
  <2>6. HeaderPhase'
    BY <1>1, <1>6, <2>1, <2>4, <2>5 DEF HeaderPhase
  <2> QED
    BY <1>1, <1>5, <1>9, <2>6, SameFlash DEF IInv
<1> QED
  BY <1>8, <1>9

-----------------------------------------------------------------------------
(* The new copy of an item.                                                *)

(* The copies and the headers of the pages stay as they are.               *)
SameCopies(f, g) ==
  \A p \in Pages :
    /\ (Act(g, p) <=> Act(f, p)) /\ (Xf(g, p) <=> Xf(f, p))
    /\ \A k \in Slots :
         /\ Old(g, p, k) <=> Old(f, p, k)
         /\ \A i \in Ids : /\ Copy(g, p, k, i) <=> Copy(f, p, k, i)
                           /\ Copy(f, p, k, i) => Val(g, p, k) = Val(f, p, k)

LEMMA CopiesSame ==
  ASSUME NEW f, NEW g, SameCopies(f, g)
  PROVE  /\ Paired(f) => Paired(g)
         /\ \A i \in Ids : /\ Single(f, i) => Single(g, i)
                           /\ Absent(f, i) => Absent(g, i)
                           /\ Keeps(f, g, i)
                           /\ \A v : SaysNew(f, i, v) => SaysNew(g, i, v)
                           /\ \A t \in Pages : Without(f, t, i) => Without(g, t, i)
         /\ NoXfer(f) => NoXfer(g)
         /\ \A c, t : Moving(f, c, t) /\ Num(g, c) = Num(f, c) => Moving(g, c, t)
         /\ \A c \in Pages : \A t \in Pages : \A n, skip :
              /\ Copied(f, c, t, n, skip) => Copied(g, c, t, n, skip)
              /\ FromPage(f, c, t, n, skip) => FromPage(g, c, t, n, skip)
<1>1. Fewer(f, g)
  BY DEF Fewer, SameCopies
<1>2. Paired(f) => Paired(g)
  BY <1>1, FewerPaired
<1>3. ASSUME NEW i \in Ids
      PROVE  (Single(f, i) => Single(g, i)) /\ (Absent(f, i) => Absent(g, i))
  BY <1>1, FewerPaired
<1>4. \A p \in Pages : KeptPage(g, p) <=> KeptPage(f, p)
  BY DEF KeptPage, SameCopies
<1>5. ASSUME NEW i \in Ids PROVE Keeps(f, g, i)
  <2>1. \A p \in Pages : \A k \in Slots :
           /\ KeptCopy(g, p, k, i) <=> KeptCopy(f, p, k, i)
           /\ KeptCopy(f, p, k, i) => (Old(g, p, k) <=> Old(f, p, k)) /\ Val(g, p, k) = Val(f, p, k)
    BY <1>4 DEF KeptCopy, SameCopies
  <2> QED
    BY <2>1, KeepsSame
<1>6. ASSUME NEW i \in Ids, NEW v, SaysNew(f, i, v) PROVE SaysNew(g, i, v)
  <2>1. PICK p \in Pages, k \in Slots : KeptPage(f, p) /\ Copy(f, p, k, i) /\ ~Old(f, p, k) /\ Val(f, p, k) = v
    BY <1>6 DEF SaysNew
  <2>2. KeptPage(g, p) /\ Copy(g, p, k, i) /\ ~Old(g, p, k) /\ Val(g, p, k) = v
    BY <1>4, <2>1 DEF SameCopies
  <2> QED
    BY <2>2 DEF SaysNew
<1>7. ASSUME NEW i \in Ids, NEW t \in Pages, Without(f, t, i) PROVE Without(g, t, i)
  BY <1>7 DEF Without, SameCopies
<1>8. NoXfer(f) => NoXfer(g)
  BY DEF NoXfer, SameCopies
<1>9. ASSUME NEW c, NEW t, Moving(f, c, t), Num(g, c) = Num(f, c) PROVE Moving(g, c, t)
  <2>1. \A p \in Pages : (Act(g, p) <=> Act(f, p)) /\ (Xf(g, p) <=> Xf(f, p))
    BY DEF SameCopies
  <2> QED
    BY <1>3, <1>9, <2>1 DEF Moving
<1>10. ASSUME NEW c \in Pages, NEW t \in Pages, NEW n, NEW skip, Copied(f, c, t, n, skip)
       PROVE  Copied(g, c, t, n, skip)
  <2> SUFFICES ASSUME NEW j \in Slots, NEW h \in Ids, j < n, Copy(g, c, j, h), h # skip
               PROVE  /\ Old(g, c, j)
                      /\ \E l \in Slots : Copy(g, t, l, h) /\ Val(g, t, l) = Val(g, c, j)
    BY DEF Copied
  <2>1. Copy(f, c, j, h)
    BY DEF SameCopies
  <2>2. Old(f, c, j) /\ \E l \in Slots : Copy(f, t, l, h) /\ Val(f, t, l) = Val(f, c, j)
    BY <1>10, <2>1 DEF Copied
  <2> QED
    BY <2>1, <2>2 DEF SameCopies
<1>11. ASSUME NEW c \in Pages, NEW t \in Pages, NEW n, NEW skip, FromPage(f, c, t, n, skip)
       PROVE  FromPage(g, c, t, n, skip)
  <2> SUFFICES ASSUME NEW l \in Slots, NEW h \in Ids, Copy(g, t, l, h)
               PROVE  /\ ~Old(g, t, l)
                      /\ h # skip => \E j \in Slots : j < n /\ Copy(g, c, j, h) /\ Val(g, t, l) = Val(g, c, j)
                      /\ \A m \in Slots : Copy(g, t, m, h) => m = l
    BY DEF FromPage
  <2>1. Copy(f, t, l, h) /\ Val(g, t, l) = Val(f, t, l)
    BY DEF SameCopies
  <2>2. /\ ~Old(f, t, l)
        /\ h # skip => \E j \in Slots : j < n /\ Copy(f, c, j, h) /\ Val(f, t, l) = Val(f, c, j)
        /\ \A m \in Slots : Copy(f, t, m, h) => m = l
    BY <1>11, <2>1 DEF FromPage
  <2>3. ~Old(g, t, l) /\ \A m \in Slots : Copy(g, t, m, h) => m = l
    BY <2>2 DEF SameCopies
  <2>4. h # skip => \E j \in Slots : j < n /\ Copy(g, c, j, h) /\ Val(g, t, l) = Val(g, c, j)
    BY <2>1, <2>2 DEF SameCopies
  <2> QED
    BY <2>3, <2>4
<1> QED
  BY <1>2, <1>3, <1>5, <1>6, <1>7, <1>8, <1>9, <1>10, <1>11

(* The header of a new item is written.                                    *)
LEMMA HeaderAdded ==
  ASSUME NEW f \in Flashes, NEW p \in Pages, NEW it \in Headers, Num(f, p) < PageItems,
         NEW g, g = AddItem(f, p, it)
  PROVE  /\ g \in Flashes /\ SameCopies(f, g)
         /\ Num(g, p) = Num(f, p) + 1 /\ Num(g, p) \in Slots
         /\ \A q \in Pages \ {p} : Num(g, q) = Num(f, q)
         /\ \A q \in Pages : \A k \in Slots :
              /\ Zero(g, q, k) <=> Zero(f, q, k)
              /\ Torn(g, q, k) <=> Torn(f, q, k) \/ (q = p /\ k = Num(g, p))
<1>1. it \in Headers \cup Wholes /\ ~it.chk /\ ~it.old
  BY CellKinds
<1>2. /\ g \in Flashes
      /\ \A q \in Pages \ {p} : SamePage(f, g, q)
      /\ Num(g, p) = Num(f, p) + 1
      /\ (Act(g, p) <=> Act(f, p)) /\ (Xf(g, p) <=> Xf(f, p))
      /\ \A k \in Slots :
           /\ Zero(g, p, k) <=> Zero(f, p, k)
           /\ Torn(g, p, k) <=> Torn(f, p, k) \/ (k = Num(g, p) /\ it \in Headers)
           /\ k # Num(g, p) => (Old(g, p, k) <=> Old(f, p, k))
           /\ k <= Num(f, p) => Val(g, p, k) = Val(f, p, k)
           /\ \A i \in Ids : Copy(g, p, k, i) <=> Copy(f, p, k, i) \/ (k = Num(g, p) /\ it.chk /\ it.id = i)
      /\ Num(g, p) \in Slots
      /\ Old(g, p, Num(g, p)) <=> it.old
  BY <1>1, Adding
<1>3. ~Old(f, p, Num(g, p))
  <2>1. Num(f, p) \in 0 .. PageItems
    BY Types
  <2>2. ~(Num(g, p) <= Num(f, p))
    BY <1>2, <2>1, PageAssumption
  <2> QED
    BY <2>2 DEF Old
<1>4. \A k \in Slots : \A i \in Ids : Copy(f, p, k, i) => k <= Num(f, p)
  BY DEF Copy
<1>5. SameCopies(f, g)
  <2> SUFFICES ASSUME NEW q \in Pages
               PROVE  /\ (Act(g, q) <=> Act(f, q)) /\ (Xf(g, q) <=> Xf(f, q))
                      /\ \A k \in Slots :
                           /\ Old(g, q, k) <=> Old(f, q, k)
                           /\ \A i \in Ids : /\ Copy(g, q, k, i) <=> Copy(f, q, k, i)
                                             /\ Copy(f, q, k, i) => Val(g, q, k) = Val(f, q, k)
    BY DEF SameCopies
  <2>1. CASE q = p
    BY <1>1, <1>2, <1>3, <1>4, <2>1
  <2>2. CASE q # p
    BY <1>2, <2>2 DEF SamePage, SameSlots
  <2> QED
    BY <2>1, <2>2
<1>6. \A q \in Pages \ {p} : Num(g, q) = Num(f, q)
  BY <1>2 DEF SamePage, SameSlots
<1>7. ASSUME NEW q \in Pages, NEW k \in Slots
      PROVE  /\ Zero(g, q, k) <=> Zero(f, q, k)
             /\ Torn(g, q, k) <=> Torn(f, q, k) \/ (q = p /\ k = Num(g, p))
  <2>1. CASE q = p
    BY <1>2, <2>1
  <2>2. CASE q # p
    BY <1>2, <2>2 DEF SamePage, SameSlots
  <2> QED
    BY <2>1, <2>2
<1> QED
  BY <1>2, <1>5, <1>6, <1>7

(* The place of a hot item stays its place.                                *)
LEMMA HotStays ==
  ASSUME Base, hot' = hot, \A p \in Pages : \A k \in Slots : Copy(flash, p, k, HotId) => Copy(flash', p, k, HotId)
  PROVE  /\ hot' \in Nat \X Nat /\ (HotLive' <=> HotLive)
         /\ HotLive' => hot'[1] \in Pages /\ hot'[2] \in Slots /\ Copy(flash', hot'[1], hot'[2], HotId)
BY DEF Base, HotLive

(* The page of a new item, and where its old copy is.                      *)
LEMMA NewPlace ==
  ASSUME Base, NewJob, Settled
  PROVE  /\ req \in Requests /\ req.op \in {"init", "write"} /\ req # None
         /\ req.id \in Ids /\ req.val \in Vals
         /\ job.dst \in Pages /\ job.src[1] \in Nat /\ job.src[2] \in Nat
         /\ job.src = <<job.src[1], job.src[2]>>
         /\ job.com = 0 => /\ Act(flash, job.dst) /\ job.dst # pgRes /\ pgRes \in Pages
                           /\ Rests(flash, pgRes)
         /\ job.com # 0 => /\ job.dst = pgRes /\ job.com \in Pages /\ job.com # pgRes
                           /\ ~Act(flash, job.dst) /\ Moving(flash, job.com, pgRes)
         /\ \A i \in Ids : Single(flash, i)
<1>1. req \in Requests /\ req.op \in {"init", "write"} /\ req.id \in Ids /\ req.val \in Vals
  BY ItemAssumption DEF NewJob, Requests
<1>2. req # None
  BY <1>1, ItemAssumption DEF Requests
<1>3. job.src \in Nat \X Nat
  BY DEF Base, Jobs
<1>4. CASE job.com = 0
  <2>1. Rests(flash, pgRes) /\ job.dst \in Pages /\ job.dst # pgRes /\ \A i \in Ids : Single(flash, i)
    BY <1>4 DEF NewJob, Settled
  <2> QED
    BY <1>1, <1>2, <1>3, <1>4, <2>1 DEF Rests
<1>5. CASE job.com # 0
  <2>1. Moving(flash, job.com, pgRes) /\ job.dst = pgRes
    BY <1>5 DEF NewJob, Settled, Compacts
  <2> QED
    BY <1>1, <1>2, <1>3, <1>5, <2>1 DEF Moving
<1> QED
  BY <1>4, <1>5

LEMMA WriteHeaderStep == ASSUME IInv, WriteHeader PROVE IInv' /\ SameValues
<1> DEFINE p == job.dst
           it == Item(req.id, None, FALSE)
<1>1. /\ pc = "header" /\ Base /\ HeaderPhase
      /\ flash' = AddItem(flash, p, it)
      /\ pc' = (IF req.op = "init" THEN "data" ELSE "mark")
      /\ UNCHANGED <<pgRes, pgLost, hot, req, ret, job, scan>>
  BY DEF IInv, WriteHeader
<1>2. NewJob /\ Settled /\ NoTorn(flash) /\ Num(flash, p) < PageItems
  BY <1>1 DEF HeaderPhase
<1>3. /\ req \in Requests /\ req.op \in {"init", "write"} /\ req # None
      /\ req.id \in Ids /\ req.val \in Vals
      /\ p \in Pages
      /\ job.com = 0 => p # pgRes /\ pgRes \in Pages /\ Rests(flash, pgRes)
      /\ job.com # 0 => p = pgRes /\ job.com \in Pages /\ job.com # pgRes
      /\ \A i \in Ids : Single(flash, i)
  BY <1>1, <1>2, NewPlace
<1>4. it \in Headers
  BY <1>3 DEF Item, Headers
<1>5. flash \in Flashes /\ Paired(flash)
  BY <1>1 DEF Base
<1> HIDE DEF p, it
<1>6. /\ flash' \in Flashes /\ SameCopies(flash, flash')
      /\ Num(flash', p) = Num(flash, p) + 1 /\ Num(flash', p) \in Slots
      /\ \A q \in Pages \ {p} : Num(flash', q) = Num(flash, q)
      /\ \A q \in Pages : \A k \in Slots :
           /\ Zero(flash', q, k) <=> Zero(flash, q, k)
           /\ Torn(flash', q, k) <=> Torn(flash, q, k) \/ (q = p /\ k = Num(flash', p))
  BY <1>1, <1>2, <1>3, <1>4, <1>5, HeaderAdded
<1>7. /\ Paired(flash')
      /\ \A i \in Ids : /\ Single(flash', i)
                        /\ Absent(flash, i) => Absent(flash', i)
                        /\ Keeps(flash, flash', i)
                        /\ \A t \in Pages : Without(flash, t, i) => Without(flash', t, i)
  BY <1>3, <1>5, <1>6, CopiesSame
<1>8. \A q \in Pages : Zeros(flash', q) = Zeros(flash, q)
  BY <1>6, ZerosSame
<1>9. \A q \in Pages : \A k \in Slots : \A i \in Ids : Copy(flash', q, k, i) <=> Copy(flash, q, k, i)
  BY <1>6 DEF SameCopies
<1>10. Base'
  <2>1. /\ hot' \in Nat \X Nat
        /\ HotLive' => hot'[1] \in Pages /\ hot'[2] \in Slots /\ Copy(flash', hot'[1], hot'[2], HotId)
    BY <1>1, <1>9, HotStays, ItemAssumption
  <2>2. \A q \in Pages : pgLost'[q] <= Cardinality(Zeros(flash', q))
    BY <1>1, <1>8 DEF Base
  <2>3. pc' \in {"data", "mark"}
    BY <1>1
  <2> QED
    BY <1>1, <1>6, <1>7, <2>1, <2>2, <2>3 DEF Base
<1>11. SrcCopy <=> SrcCopy'
  BY <1>1, <1>3, <1>6, <1>9 DEF SrcCopy, SameCopies
<1>12. NewJob'
  <2>1. job.com # 0 => ((\E z \in Slots : Zero(flash', job.com, z)) <=> \E z \in Slots : Zero(flash, job.com, z))
    BY <1>3, <1>6
  <2> QED
    BY <1>1, <1>2, <1>3, <1>7, <1>11, <2>1 DEF NewJob
<1>13. Settled'
  <2>1. CASE job.com = 0
    <3>1. Rests(flash', pgRes)
      <4>1. Num(flash', pgRes) = 0
        BY <1>3, <1>6, <2>1 DEF Rests
      <4>2. NoXfer(flash') /\ \A q \in Pages : Act(flash', q) <=> q # pgRes
        BY <1>3, <1>6, <2>1 DEF Rests, NoXfer, SameCopies
      <4> QED
        BY <1>3, <2>1, <4>1, <4>2 DEF Rests
    <3> QED
      BY <1>1, <1>7, <2>1, <3>1 DEF Settled
  <2>2. CASE job.com # 0
    <3>1. /\ Moving(flash, job.com, pgRes) /\ Copied(flash, job.com, pgRes, AllDone, job.skip)
          /\ FromPage(flash, job.com, pgRes, AllDone, job.skip)
          /\ Without(flash, pgRes, req.id)
          /\ HotLive /\ hot[1] = job.com => HotId = req.id
      BY <1>2, <2>2 DEF Settled, Compacts
    <3>2. pgRes \in Pages /\ job.com \in Pages /\ Num(flash', job.com) = Num(flash, job.com)
      BY <1>3, <1>6, <2>2
    <3>3. /\ Moving(flash', job.com, pgRes) /\ Copied(flash', job.com, pgRes, AllDone, job.skip)
          /\ FromPage(flash', job.com, pgRes, AllDone, job.skip)
      BY <1>6, <3>1, <3>2, CopiesSame
    <3> QED
      BY <1>1, <1>3, <1>7, <2>2, <3>1, <3>2, <3>3 DEF Settled, Compacts, HotLive, AllDone
  <2> QED
    BY <2>1, <2>2
<1>14. DataPhase'
  <2>1. Num(flash', p) > 0 /\ Torn(flash', p, Num(flash', p))
    BY <1>3, <1>6, PageAssumption DEF Slots
  <2>2. \A q \in Pages : \A k \in Slots : Torn(flash', q, k) => q = p /\ k = Num(flash', p)
    BY <1>2, <1>6 DEF NoTorn
  <2>3. IF pc' = "mark" THEN req'.op = "write" ELSE req'.op # "write"
    BY <1>1, <1>3
  <2> QED
    BY <1>1, <1>12, <1>13, <2>1, <2>2, <2>3 DEF DataPhase, p
<1>15. SameValues
  BY <1>5, <1>6, <1>7, Unchanged DEF SameValues
<1> QED
  BY <1>1, <1>10, <1>14, <1>15 DEF IInv

(* The old copy is marked before the new one is complete.                  *)
LEMMA MarkOldStep == ASSUME IInv, MarkOld PROVE IInv' /\ SameValues
<1> DEFINE s == job.src[1]
           n == job.src[2]
           i == req.id
<1>1. /\ pc = "mark" /\ Base /\ DataPhase
      /\ flash' = MarkXfer(flash, job.src) /\ pc' = "data"
      /\ UNCHANGED <<pgRes, pgLost, hot, req, ret, job, scan>>
  BY DEF IInv, MarkOld
<1>2. /\ NewJob /\ Settled /\ req.op = "write" /\ SrcCopy
      /\ Num(flash, job.dst) > 0 /\ Torn(flash, job.dst, Num(flash, job.dst))
      /\ \A p \in Pages : \A k \in Slots : Torn(flash, p, k) => p = job.dst /\ k = Num(flash, job.dst)
  BY <1>1 DEF DataPhase, NewJob
<1>3. /\ req \in Requests /\ i \in Ids /\ job.dst \in Pages
      /\ job.src = <<s, n>>
      /\ job.com = 0 => Rests(flash, pgRes)
      /\ job.com # 0 => job.com \in Pages /\ job.com # pgRes /\ Moving(flash, job.com, pgRes)
      /\ \A j \in Ids : Single(flash, j)
  BY <1>1, <1>2, NewPlace
<1>4. s \in Pages /\ n \in Slots /\ Act(flash, s) /\ Copy(flash, s, n, i)
  BY <1>2 DEF SrcCopy
<1>5. flash \in Flashes /\ Paired(flash)
  BY <1>1 DEF Base
<1>6. flash' = MarkXfer(flash, <<s, n>>)
  BY <1>1, <1>3
<1> HIDE DEF s, n, i
<1>7. /\ SameBut(flash, flash', s, n)
      /\ ~Zero(flash', s, n) /\ ~Torn(flash', s, n) /\ Old(flash', s, n)
      /\ Val(flash', s, n) = Val(flash, s, n)
      /\ \A j \in Ids : Copy(flash', s, n, j) <=> Copy(flash, s, n, j)
  BY <1>3, <1>4, <1>5, <1>6, Marking
<1>8. /\ flash' \in Flashes
      /\ \A p \in Pages : Num(flash', p) = Num(flash, p)
      /\ \A p \in Pages : (Act(flash', p) <=> Act(flash, p)) /\ (Xf(flash', p) <=> Xf(flash, p))
  BY <1>7 DEF SameBut, SamePage, SameSlots
<1>9. ASSUME NEW p \in Pages, NEW k \in Slots
      PROVE  /\ Zero(flash', p, k) <=> Zero(flash, p, k)
             /\ Torn(flash', p, k) <=> Torn(flash, p, k)
             /\ Old(flash, p, k) => Old(flash', p, k)
             /\ p # s => (Old(flash', p, k) <=> Old(flash, p, k))
             /\ \A j \in Ids : /\ Copy(flash', p, k, j) <=> Copy(flash, p, k, j)
                               /\ Copy(flash, p, k, j) => Val(flash', p, k) = Val(flash, p, k)
  <2>1. CASE p # s
    BY <1>7, <2>1 DEF SameBut, SamePage, SameSlots
  <2>2. CASE p = s /\ k # n
    <3>1. \A j \in Ids : Copy(flash, s, k, j) => k <= Num(flash, s)
      BY DEF Copy
    <3> QED
      BY <1>7, <2>2, <3>1 DEF SameBut
  <2>3. CASE p = s /\ k = n
    <3>1. ~Zero(flash, s, n) /\ ~Torn(flash, s, n)
      BY <1>3, <1>4, <1>5, Kinds
    <3> QED
      BY <1>7, <2>3, <3>1
  <2> QED
    BY <2>1, <2>2, <2>3
<1>10. \A j \in Ids : /\ Single(flash', j)
                      /\ Absent(flash, j) => Absent(flash', j)
                      /\ \A t \in Pages : Without(flash, t, j) => Without(flash', t, j)
  BY <1>3, <1>8, <1>9 DEF Single, Absent, Without
<1>11. \A q \in Pages : Zeros(flash', q) = Zeros(flash, q)
  BY <1>9, ZerosSame
<1>12. Base'
  <2>1. /\ hot' \in Nat \X Nat
        /\ HotLive' => hot'[1] \in Pages /\ hot'[2] \in Slots /\ Copy(flash', hot'[1], hot'[2], HotId)
    BY <1>1, <1>9, HotStays, ItemAssumption
  <2>2. \A q \in Pages : pgLost'[q] <= Cardinality(Zeros(flash', q))
    BY <1>1, <1>11 DEF Base
  <2>3. Paired(flash')
    BY <1>10, SinglePaired
  <2> QED
    BY <1>1, <1>8, <2>1, <2>2, <2>3 DEF Base
<1>13. SrcCopy' /\ SrcOld'
  <2>1. job'.src[1] = s /\ job'.src[2] = n /\ req'.id = i
    BY <1>1 DEF s, n, i
  <2>2. Act(flash', s) /\ Copy(flash', s, n, i)
    BY <1>3, <1>4, <1>7, <1>8
  <2> QED
    BY <1>4, <1>7, <2>1, <2>2 DEF SrcCopy, SrcOld
<1>14. NewJob'
  <2>1. job.com # 0 => ((\E z \in Slots : Zero(flash', job.com, z)) <=> \E z \in Slots : Zero(flash, job.com, z))
    BY <1>3, <1>9
  <2> QED
    BY <1>1, <1>2, <1>3, <1>13, <2>1 DEF NewJob, i
<1>15. Settled'
  <2>1. CASE job.com = 0
    <3>1. Rests(flash', pgRes)
      BY <1>3, <1>8, <2>1 DEF Rests, NoXfer
    <3> QED
      BY <1>1, <1>10, <2>1, <3>1 DEF Settled
  <2>2. CASE job.com # 0
    <3> DEFINE c == job.com
               t == pgRes
    <3>1. /\ Moving(flash, c, t) /\ Copied(flash, c, t, AllDone, job.skip)
          /\ FromPage(flash, c, t, AllDone, job.skip)
          /\ Without(flash, t, req.id) /\ job.skip = i
          /\ HotLive /\ hot[1] = job.com => HotId = req.id
      BY <1>2, <2>2 DEF Settled, Compacts, NewJob, i
    <3>2. c \in Pages /\ t \in Pages /\ s # t
      BY <1>4, <3>1 DEF Moving
    <3>3. Moving(flash', c, t)
      BY <1>8, <1>10, <3>1 DEF Moving
    <3> HIDE DEF c, t
    <3>4. Copied(flash', c, t, AllDone, job.skip)
      <4> SUFFICES ASSUME NEW j \in Slots, NEW h \in Ids, j < AllDone, Copy(flash', c, j, h), h # job.skip
                   PROVE  /\ Old(flash', c, j)
                          /\ \E l \in Slots : Copy(flash', t, l, h) /\ Val(flash', t, l) = Val(flash', c, j)
        BY DEF Copied
      <4>1. Copy(flash, c, j, h)
        BY <1>9, <3>2
      <4>2. Old(flash, c, j) /\ \E l \in Slots : Copy(flash, t, l, h) /\ Val(flash, t, l) = Val(flash, c, j)
        BY <3>1, <4>1 DEF Copied
      <4> QED
        BY <1>9, <3>2, <4>1, <4>2
    <3>5. FromPage(flash', c, t, AllDone, job.skip)
      <4> SUFFICES ASSUME NEW l \in Slots, NEW h \in Ids, Copy(flash', t, l, h)
                   PROVE  /\ ~Old(flash', t, l)
                          /\ h # job.skip => \E j \in Slots : j < AllDone /\ Copy(flash', c, j, h)
                                                              /\ Val(flash', t, l) = Val(flash', c, j)
                          /\ \A m \in Slots : Copy(flash', t, m, h) => m = l
        BY DEF FromPage
      <4>1. Copy(flash, t, l, h) /\ Val(flash', t, l) = Val(flash, t, l)
        BY <1>9, <3>2
      <4>2. /\ ~Old(flash, t, l)
            /\ h # job.skip => \E j \in Slots : j < AllDone /\ Copy(flash, c, j, h) /\ Val(flash, t, l) = Val(flash, c, j)
            /\ \A m \in Slots : Copy(flash, t, m, h) => m = l
        BY <3>1, <4>1 DEF FromPage
      <4>3. ~Old(flash', t, l) /\ \A m \in Slots : Copy(flash', t, m, h) => m = l
        BY <1>9, <3>2, <4>2
      <4>4. h # job.skip => \E j \in Slots : j < AllDone /\ Copy(flash', c, j, h) /\ Val(flash', t, l) = Val(flash', c, j)
        BY <1>9, <3>2, <4>1, <4>2
      <4> QED
        BY <4>3, <4>4
    <3>6. Without(flash', t, req.id)
      BY <1>3, <1>10, <3>1, <3>2 DEF i
    <3> QED
      BY <1>1, <1>3, <2>2, <3>1, <3>3, <3>4, <3>5, <3>6 DEF Settled, Compacts, HotLive, AllDone, c, t
  <2> QED
    BY <2>1, <2>2
<1>16. DataPhase'
  <2>1. \A p \in Pages : \A k \in Slots : Torn(flash', p, k) => p = job.dst /\ k = Num(flash', job.dst)
    BY <1>2, <1>3, <1>8, <1>9
  <2>2. Num(flash, job.dst) \in Slots
    <3>1. Num(flash, job.dst) \in 0 .. PageItems
      BY <1>3, <1>5, Types
    <3> QED
      BY <1>2, <3>1, PageAssumption DEF Slots
  <2>3. Num(flash', job.dst) > 0 /\ Torn(flash', job.dst, Num(flash', job.dst))
    BY <1>2, <1>3, <1>8, <1>9, <2>2
  <2> QED
    BY <1>1, <1>13, <1>14, <1>15, <2>1, <2>3 DEF DataPhase
<1>17. SameValues
  <2>1. \A p \in Pages : KeptPage(flash', p) <=> KeptPage(flash, p)
    BY <1>8 DEF KeptPage
  <2>2. ASSUME NEW j \in Ids PROVE Keeps(flash, flash', j)
    <3>1. \A p \in Pages : \A k \in Slots :
            /\ KeptCopy(flash', p, k, j) <=> KeptCopy(flash, p, k, j)
            /\ KeptCopy(flash, p, k, j) => Val(flash', p, k) = Val(flash, p, k)
      BY <1>9, <2>1 DEF KeptCopy
    <3>2. \A p, q \in Pages : \A k, l \in Slots :
            KeptCopy(flash, p, k, j) /\ KeptCopy(flash, q, l, j) => p = q /\ k = l
      BY <1>3 DEF KeptCopy, KeptPage, Single
    <3> QED
      BY <1>5, <3>1, <3>2, KeepsMarked
  <2> QED
    BY <1>5, <1>8, <2>2, Unchanged DEF SameValues
<1> QED
  BY <1>1, <1>12, <1>16, <1>17 DEF IInv

(* The step at which a request takes effect.                               *)
Takes ==
  /\ \A j \in Ids : Stored(j)' = IF j = req.id THEN Wanted ELSE Stored(j)
  /\ req.op = "init" => Stored(req.id) = None
  /\ req.op = "write" => Stored(req.id) # None

LEMMA HoldsStored ==
  ASSUME flash \in Flashes, flash' \in Flashes, NEW i \in Ids, NEW v
  PROVE  /\ Holds(flash, i, v) => Stored(i) = v
         /\ Holds(flash', i, v) => Stored(i)' = v
<1>1. Holds(flash, i, v) => ValueOf(flash, i) = v
  BY HoldsValue
<1>2. Holds(flash', i, v) => ValueOf(flash', i) = v
  BY HoldsValue
<1> QED
  BY <1>1, <1>2, StoredValue, StoredValueNext

(* The item is not there before it is made; it is there before it is       *)
(* written or deleted.                                                     *)
LEMMA StoredBefore ==
  ASSUME flash \in Flashes, NEW i \in Ids
  PROVE  /\ Absent(flash, i) => Stored(i) = None
         /\ \A p \in Pages : \A k \in Slots : KeptCopy(flash, p, k, i) /\ Single(flash, i) => Stored(i) # None
<1>1. \A v : Holds(flash, i, v) => Stored(i) = v
  <2>1. ASSUME NEW v, Holds(flash, i, v) PROVE Stored(i) = v
    BY <2>1, HoldsValue, StoredValue
  <2> QED
    BY <2>1
<1>2. ASSUME Absent(flash, i) PROVE Stored(i) = None
  <2>1. \A p \in Pages : \A k \in Slots : ~KeptCopy(flash, p, k, i)
    BY <1>2 DEF Absent, KeptCopy, KeptPage
  <2> QED
    BY <1>1, <2>1, NoCopy
<1>3. ASSUME NEW p \in Pages, NEW k \in Slots, KeptCopy(flash, p, k, i), Single(flash, i)
      PROVE  Stored(i) # None
  <2>1. \A q \in Pages : \A l \in Slots : KeptCopy(flash, q, l, i) => q = p /\ l = k
    BY <1>3 DEF KeptCopy, KeptPage, Single
  <2>2. Stored(i) = Val(flash, p, k)
    BY <1>1, <1>3, <2>1, OnlyCopy
  <2>3. Val(flash, p, k) \in Vals
    BY <1>3, Kinds DEF KeptCopy
  <2> QED
    BY <2>2, <2>3, ItemAssumption
<1> QED
  BY <1>2, <1>3

(* The copy of item i in slot n of page p is complete.                     *)
Written(f, g, p, n, i, v) ==
  /\ g \in Flashes
  /\ \A q \in Pages : /\ Num(g, q) = Num(f, q)
                      /\ (Act(g, q) <=> Act(f, q)) /\ (Xf(g, q) <=> Xf(f, q))
  /\ \A q \in Pages : \A k \in Slots :
       /\ Zero(g, q, k) <=> Zero(f, q, k)
       /\ Torn(g, q, k) <=> Torn(f, q, k) /\ ~(q = p /\ k = n)
       /\ Old(g, q, k) <=> Old(f, q, k)
       /\ \A j \in Ids : /\ Copy(g, q, k, j) <=> Copy(f, q, k, j) \/ (q = p /\ k = n /\ j = i)
                         /\ Copy(f, q, k, j) => Val(g, q, k) = Val(f, q, k)
  /\ Val(g, p, n) = v
  /\ ~Old(f, p, n) /\ \A j \in Ids : ~Copy(f, p, n, j)

LEMMA Writing ==
  ASSUME NEW f \in Flashes, NEW p \in Pages, NEW n \in Slots, Torn(f, p, n),
         NEW i \in Ids, NEW v \in Vals, NEW it \in Wholes, ~it.old, it.val = v, it.id = i,
         NEW g, g = Put(f, p, n, it)
  PROVE  Written(f, g, p, n, i, v)
<1>1. /\ SameBut(f, g, p, n)
      /\ ~Zero(g, p, n) /\ ~Torn(g, p, n) /\ ~Old(g, p, n)
      /\ Val(g, p, n) = v
      /\ \A j \in Ids : Copy(g, p, n, j) <=> j = i
  BY Completing
<1>2. ~Zero(f, p, n) /\ ~Old(f, p, n) /\ \A j \in Ids : ~Copy(f, p, n, j)
  BY Kinds
<1>3. /\ g \in Flashes
      /\ \A q \in Pages : /\ Num(g, q) = Num(f, q)
                          /\ (Act(g, q) <=> Act(f, q)) /\ (Xf(g, q) <=> Xf(f, q))
  BY <1>1 DEF SameBut, SamePage, SameSlots
<1>4. ASSUME NEW q \in Pages, NEW k \in Slots
      PROVE  /\ Zero(g, q, k) <=> Zero(f, q, k)
             /\ Torn(g, q, k) <=> Torn(f, q, k) /\ ~(q = p /\ k = n)
             /\ Old(g, q, k) <=> Old(f, q, k)
             /\ \A j \in Ids : /\ Copy(g, q, k, j) <=> Copy(f, q, k, j) \/ (q = p /\ k = n /\ j = i)
                               /\ Copy(f, q, k, j) => Val(g, q, k) = Val(f, q, k)
  <2>1. CASE q # p
    BY <1>1, <2>1 DEF SameBut, SamePage, SameSlots
  <2>2. CASE q = p /\ k # n
    <3>1. \A j \in Ids : Copy(f, p, k, j) => k <= Num(f, p)
      BY DEF Copy
    <3> QED
      BY <1>1, <2>2, <3>1 DEF SameBut
  <2>3. CASE q = p /\ k = n
    BY <1>1, <1>2, <2>3
  <2> QED
    BY <2>1, <2>2, <2>3
<1> QED
  BY <1>1, <1>2, <1>3, <1>4 DEF Written

LEMMA WriteDataStep ==
  ASSUME IInv, WriteData
  PROVE  IInv' /\ (job.com # 0 => SameValues) /\ (job.com = 0 => Takes)
<1> DEFINE p == job.dst
           n == Num(flash, p)
           i == req.id
           v == req.val
           it == Item(i, v, TRUE)
<1>1. /\ pc = "data" /\ Base /\ DataPhase
      /\ flash' = Put(flash, p, n, it)
      /\ hot' = IF i = HotId THEN <<p, n>> ELSE hot
      /\ pc' = IF job.com # 0 THEN "use"
               ELSE IF req.op = "write" THEN "zero" ELSE "return"
      /\ UNCHANGED <<pgRes, pgLost, req, ret, job, scan>>
  BY DEF IInv, WriteData, Put, Num, hotItemUpdate
<1>2. /\ NewJob /\ Settled /\ n > 0 /\ Torn(flash, p, n)
      /\ \A q \in Pages : \A k \in Slots : Torn(flash, q, k) => q = p /\ k = n
      /\ req.op = "write" => SrcOld
  BY <1>1 DEF DataPhase
<1>3. /\ req \in Requests /\ req.op \in {"init", "write"} /\ req # None
      /\ i \in Ids /\ v \in Vals /\ p \in Pages
      /\ job.com = 0 => Act(flash, p) /\ p # pgRes /\ pgRes \in Pages /\ Rests(flash, pgRes)
      /\ job.com # 0 => /\ p = pgRes /\ job.com \in Pages /\ job.com # pgRes /\ ~Act(flash, p)
                        /\ Moving(flash, job.com, pgRes)
      /\ \A j \in Ids : Single(flash, j)
  BY <1>1, <1>2, NewPlace
<1>4. flash \in Flashes /\ Paired(flash) /\ n \in Slots
  <2>1. flash \in Flashes /\ Paired(flash)
    BY <1>1 DEF Base
  <2>2. n \in 0 .. PageItems
    BY <1>3, <2>1, Types
  <2> QED
    BY <1>2, <2>1, <2>2, PageAssumption DEF Slots
<1>5. it \in Wholes /\ ~it.old /\ it.val = v /\ it.id = i
  BY <1>3 DEF Item, Wholes
<1> HIDE DEF p, n, i, v, it
<1>6. Written(flash, flash', p, n, i, v)
  BY <1>1, <1>2, <1>3, <1>4, <1>5, Writing
<1>7. /\ flash' \in Flashes
      /\ \A q \in Pages : /\ Num(flash', q) = Num(flash, q)
                          /\ (Act(flash', q) <=> Act(flash, q)) /\ (Xf(flash', q) <=> Xf(flash, q))
      /\ Val(flash', p, n) = v
      /\ ~Old(flash, p, n) /\ \A j \in Ids : ~Copy(flash, p, n, j)
  BY <1>6 DEF Written
<1>8. \A q \in Pages : \A k \in Slots :
        /\ Zero(flash', q, k) <=> Zero(flash, q, k)
        /\ Torn(flash', q, k) <=> Torn(flash, q, k) /\ ~(q = p /\ k = n)
        /\ Old(flash', q, k) <=> Old(flash, q, k)
        /\ \A j \in Ids : /\ Copy(flash', q, k, j) <=> Copy(flash, q, k, j) \/ (q = p /\ k = n /\ j = i)
                          /\ Copy(flash, q, k, j) => Val(flash', q, k) = Val(flash, q, k)
  BY <1>6 DEF Written
<1>9. NoTorn(flash')
  BY <1>2, <1>8 DEF NoTorn
<1>10. Copy(flash', p, n, i) /\ ~Old(flash', p, n)
  BY <1>3, <1>4, <1>7, <1>8
<1>11. \A j \in Ids \ {i} : Single(flash', j)
  BY <1>3, <1>7, <1>8 DEF Single
<1>12. \A j \in Ids \ {i} : \A q \in Pages : \A k \in Slots : Copy(flash', q, k, j) <=> Copy(flash, q, k, j)
  BY <1>8
<1>13. req.op = "write" => /\ job.src[1] \in Pages /\ job.src[2] \in Slots
                           /\ Act(flash, job.src[1]) /\ Copy(flash, job.src[1], job.src[2], i)
                           /\ Old(flash, job.src[1], job.src[2])
  BY <1>2 DEF NewJob, SrcCopy, SrcOld, i
<1>14. \A q \in Pages : \A k \in Slots : Act(flash, q) /\ Copy(flash, q, k, i) => Old(flash, q, k)
  <2>1. CASE req.op = "init"
    BY <1>2, <2>1 DEF NewJob, Absent, i
  <2>2. CASE req.op = "write"
    BY <1>3, <1>13, <2>2 DEF Single
  <2> QED
    BY <1>3, <2>1, <2>2
<1>15. Paired(flash')
  <2> SUFFICES ASSUME NEW j \in Ids, NEW q \in Pages, NEW r \in Pages, NEW k \in Slots, NEW l \in Slots,
                      Act(flash', q), Copy(flash', q, k, j), Act(flash', r), Copy(flash', r, l, j),
                      Old(flash', q, k) <=> Old(flash', r, l)
               PROVE  q = r /\ k = l
    BY DEF Paired
  <2>1. CASE j # i
    BY <1>11, <2>1 DEF Single
  <2>2. CASE j = i
    <3>1. \A s \in Pages : \A m \in Slots :
            Act(flash', s) /\ Copy(flash', s, m, i) =>
              \/ s = p /\ m = n /\ ~Old(flash', s, m)
              \/ Act(flash, s) /\ Copy(flash, s, m, i) /\ Old(flash', s, m)
      BY <1>3, <1>7, <1>8, <1>14
    <3> QED
      BY <1>3, <2>2, <3>1 DEF Single
  <2> QED
    BY <2>1, <2>2
<1>16. \A q \in Pages : Zeros(flash', q) = Zeros(flash, q)
  BY <1>8, ZerosSame
<1>17. hot' \in Nat \X Nat
       /\ (HotLive' => hot'[1] \in Pages /\ hot'[2] \in Slots /\ Copy(flash', hot'[1], hot'[2], HotId))
  <2>1. CASE i = HotId
    <3>1. hot' = <<p, n>> /\ p \in Nat /\ n \in Nat
      BY <1>1, <1>3, <1>4, <2>1, PageAssumption DEF Pages, Slots
    <3> QED
      BY <1>3, <1>4, <1>10, <2>1, <3>1
  <2>2. CASE i # HotId
    BY <1>1, <1>8, <2>2, HotStays, ItemAssumption
  <2> QED
    BY <2>1, <2>2
<1>18. Base'
  <2>1. \A q \in Pages : pgLost'[q] <= Cardinality(Zeros(flash', q))
    BY <1>1, <1>16 DEF Base
  <2>2. pc' \in {"use", "zero", "return"}
    BY <1>1
  <2> QED
    BY <1>1, <1>7, <1>15, <1>17, <2>1, <2>2 DEF Base
<1>19. SrcCopy => SrcCopy'
  BY <1>1, <1>3, <1>7, <1>8 DEF SrcCopy, i
<1>20. (SrcCopy /\ SrcOld) => SrcOld'
  BY <1>1, <1>8 DEF SrcCopy, SrcOld
<1>21. HotLive' /\ HotId = i => ~HotOld'
  BY <1>1, <1>10 DEF HotOld
<1>22. \A q \in Pages : KeptPage(flash', q) <=> KeptPage(flash, q)
  BY <1>7 DEF KeptPage
<1>23. \A j \in Ids \ {i} : Keeps(flash, flash', j)
  <2> TAKE j \in Ids \ {i}
  <2>1. \A q \in Pages : \A k \in Slots :
           /\ KeptCopy(flash', q, k, j) <=> KeptCopy(flash, q, k, j)
           /\ KeptCopy(flash, q, k, j) => (Old(flash', q, k) <=> Old(flash, q, k)) /\ Val(flash', q, k) = Val(flash, q, k)
    BY <1>8, <1>12, <1>22 DEF KeptCopy
  <2> QED
    BY <2>1, KeepsSame
<1>24. \A j \in Ids \ {i} : Stored(j)' = Stored(j)
  BY <1>4, <1>7, <1>23, Unchanged
<1>25. CASE job.com # 0
  <2> DEFINE c == job.com
             t == pgRes
  <2>1. /\ Moving(flash, c, t) /\ Copied(flash, c, t, AllDone, job.skip)
        /\ FromPage(flash, c, t, AllDone, job.skip)
        /\ Without(flash, t, i) /\ job.skip = i
        /\ HotLive /\ hot[1] = c => HotId = i
    BY <1>2, <1>25 DEF Settled, Compacts, NewJob, i
  <2>2. /\ c \in Pages /\ t \in Pages /\ c # t /\ p = t /\ ~Act(flash, t)
        /\ \A q \in Pages : (Act(flash, q) <=> q # t) /\ (Xf(flash, q) <=> q = c)
        /\ Num(flash, c) = PageItems
    BY <1>3, <1>25, <2>1 DEF Moving
  <2>3. \A q \in Pages : Act(flash', q) => \A k \in Slots : \A j \in Ids :
          Copy(flash', q, k, j) <=> Copy(flash, q, k, j)
    BY <1>7, <1>8, <2>2
  <2>4. \A j \in Ids : Single(flash', j)
    BY <1>3, <1>7, <2>3 DEF Single
  <2> HIDE DEF c, t
  <2>5. Moving(flash', c, t)
    BY <1>7, <2>2, <2>4 DEF Moving
  <2>6. Copied(flash', c, t, AllDone, job.skip)
    <3> SUFFICES ASSUME NEW j \in Slots, NEW h \in Ids, j < AllDone, Copy(flash', c, j, h), h # job.skip
                 PROVE  /\ Old(flash', c, j)
                        /\ \E l \in Slots : Copy(flash', t, l, h) /\ Val(flash', t, l) = Val(flash', c, j)
      BY DEF Copied
    <3>1. Copy(flash, c, j, h)
      BY <1>8, <2>2
    <3>2. Old(flash, c, j) /\ \E l \in Slots : Copy(flash, t, l, h) /\ Val(flash, t, l) = Val(flash, c, j)
      BY <2>1, <3>1 DEF Copied
    <3> QED
      BY <1>8, <2>2, <3>1, <3>2
  <2>7. FromPage(flash', c, t, AllDone, job.skip)
    <3> SUFFICES ASSUME NEW l \in Slots, NEW h \in Ids, Copy(flash', t, l, h)
                 PROVE  /\ ~Old(flash', t, l)
                        /\ h # job.skip => \E j \in Slots : j < AllDone /\ Copy(flash', c, j, h)
                                                            /\ Val(flash', t, l) = Val(flash', c, j)
                        /\ \A m \in Slots : Copy(flash', t, m, h) => m = l
      BY DEF FromPage
    <3>1. CASE h = i
      <4>1. \A m \in Slots : Copy(flash', t, m, i) => m = n
        BY <1>3, <1>8, <2>1, <2>2 DEF Without
      <4> QED
        BY <1>10, <2>1, <2>2, <3>1, <4>1
    <3>2. CASE h # i
      <4>1. Copy(flash, t, l, h) /\ Val(flash', t, l) = Val(flash, t, l)
        BY <1>8, <2>2, <3>2
      <4>2. /\ ~Old(flash, t, l)
            /\ h # job.skip => \E j \in Slots : j < AllDone /\ Copy(flash, c, j, h) /\ Val(flash, t, l) = Val(flash, c, j)
            /\ \A m \in Slots : Copy(flash, t, m, h) => m = l
        BY <2>1, <4>1 DEF FromPage
      <4>3. ~Old(flash', t, l) /\ \A m \in Slots : Copy(flash', t, m, h) => m = l
        BY <1>8, <2>2, <3>2, <4>2
      <4>4. h # job.skip => \E j \in Slots : j < AllDone /\ Copy(flash', c, j, h) /\ Val(flash', t, l) = Val(flash', c, j)
        BY <1>8, <2>2, <4>1, <4>2
      <4> QED
        BY <4>3, <4>4
    <3> QED
      BY <3>1, <3>2
  <2>8. HotLive' => hot'[1] # c
    <3>1. CASE i = HotId
      BY <1>1, <2>2, <3>1
    <3>2. CASE i # HotId
      BY <1>1, <2>1, <3>2 DEF HotLive
    <3> QED
      BY <3>1, <3>2
  <2>9. NewJob'
    <3>1. (\E z \in Slots : Zero(flash', c, z)) <=> \E z \in Slots : Zero(flash, c, z)
      BY <1>8, <2>2
    <3>2. Absent(flash, i) => Absent(flash', i)
      BY <1>3, <1>7, <2>3 DEF Absent
    <3> QED
      BY <1>1, <1>2, <1>19, <1>25, <3>1, <3>2 DEF NewJob, c, i
  <2>10. UsePhase'
    <3>1. \E l \in Slots : Copy(flash', t, l, i) /\ Val(flash', t, l) = v
      BY <1>4, <1>7, <1>10, <2>2
    <3>2. req.op = "write" => SrcOld'
      BY <1>2, <1>20 DEF NewJob
    <3>3. Compacts(AllDone)'
      BY <1>1, <2>5, <2>6, <2>7 DEF Compacts, c, t, AllDone
    <3> QED
      BY <1>1, <1>3, <1>9, <1>21, <2>8, <2>9, <3>1, <3>2, <3>3 DEF UsePhase, c, t, i, v
  <2>11. Keeps(flash, flash', i)
    <3>1. \A q \in Pages : KeptPage(flash, q) => Act(flash', q)
      BY <1>7 DEF KeptPage
    <3>2. \A q \in Pages : \A k \in Slots :
           /\ KeptCopy(flash', q, k, i) <=> KeptCopy(flash, q, k, i)
           /\ KeptCopy(flash, q, k, i) => (Old(flash', q, k) <=> Old(flash, q, k)) /\ Val(flash', q, k) = Val(flash, q, k)
      BY <1>3, <1>8, <1>22, <2>3, <3>1 DEF KeptCopy
    <3> QED
      BY <1>3, <3>2, KeepsSame
  <2>12. SameValues
    BY <1>3, <1>4, <1>7, <1>23, <2>11, Unchanged DEF SameValues
  <2>13. pc' = "use"
    BY <1>1, <1>25
  <2> QED
    BY <1>1, <1>18, <1>25, <2>10, <2>12, <2>13 DEF IInv
<1>26. CASE job.com = 0
  <2>1. Rests(flash', pgRes)
    BY <1>3, <1>7, <1>26 DEF Rests, NoXfer
  <2>2. KeptPage(flash', p) /\ KeptCopy(flash', p, n, i)
    BY <1>3, <1>7, <1>10, <1>26, <2>1 DEF Rests, NoXfer, KeptPage, KeptCopy
  <2>3. Holds(flash', i, v)
    <3>1. \A q \in Pages : \A k \in Slots : KeptCopy(flash', q, k, i) /\ ~Old(flash', q, k) => q = p /\ k = n
      BY <1>3, <1>7, <1>8, <1>14 DEF KeptCopy, KeptPage
    <3> QED
      BY <1>3, <1>4, <1>7, <1>10, <2>2, <3>1, NewCopy
  <2>4. SaysNew(flash', i, v)
    BY <1>3, <1>4, <1>7, <1>10, <2>2 DEF SaysNew, KeptCopy
  <2>5. Takes
    <3>1. ASSUME NEW j \in Ids PROVE Stored(j)' = IF j = i THEN v ELSE Stored(j)
      <4>1. CASE j = i
        <5>1. Holds(flash', j, v)
          BY <2>3, <4>1
        <5> QED
          BY <1>4, <1>7, <4>1, <5>1, HoldsStored
      <4>2. CASE j # i
        BY <1>24, <4>2
      <4> QED
        BY <4>1, <4>2
    <3>2. CASE req.op = "init"
      <4>1. Absent(flash, i)
        BY <1>2, <3>2 DEF NewJob, i
      <4>2. Stored(i) = None
        BY <1>3, <1>4, <4>1, StoredBefore
      <4> QED
        BY <3>1, <3>2, <4>2 DEF Takes, Wanted, i, v
    <3>3. CASE req.op = "write"
      <4>1. KeptCopy(flash, job.src[1], job.src[2], i)
        BY <1>3, <1>13, <1>26, <3>3 DEF KeptCopy, KeptPage, Rests, NoXfer
      <4>2. Stored(i) # None
        BY <1>3, <1>4, <1>13, <3>3, <4>1, StoredBefore
      <4> QED
        BY <3>1, <3>3, <4>2 DEF Takes, Wanted, i, v
    <3> QED
      BY <1>3, <3>2, <3>3
  <2>6. CASE req.op = "write"
    <3>1. SrcCopy /\ SrcOld
      BY <1>2, <2>6 DEF NewJob
    <3>2. ZeroPhase'
      BY <1>1, <1>3, <1>9, <1>11, <1>19, <1>20, <1>21, <2>1, <2>4, <2>6, <3>1 DEF ZeroPhase, i, v
    <3>3. pc' = "zero"
      BY <1>1, <1>26, <2>6
    <3> QED
      BY <1>1, <1>18, <1>26, <2>5, <3>2, <3>3 DEF IInv
  <2>7. CASE req.op = "init"
    <3>1. Absent(flash, i)
      BY <1>2, <2>7 DEF NewJob, i
    <3>2. Single(flash', i)
      BY <1>3, <1>7, <1>8, <3>1 DEF Single, Absent
    <3>3. \A j \in Ids : Single(flash', j)
      BY <1>11, <3>2
    <3>4. ReturnPhase'
      BY <1>1, <1>3, <1>9, <2>1, <2>3, <2>7, <3>3 DEF ReturnPhase, Rest, Wanted, i, v
    <3>5. pc' = "return"
      BY <1>1, <1>26, <2>7
    <3> QED
      BY <1>1, <1>18, <1>26, <2>5, <3>4, <3>5 DEF IInv
  <2> QED
    BY <1>3, <2>6, <2>7
<1> QED
  BY <1>25, <1>26

(* The target of a compaction is in use; the new item takes effect.        *)
LEMMA UseTargetStep ==
  ASSUME IInv, UseTarget
  PROVE  IInv' /\ (req = None => SameValues) /\ (req # None => Takes)
<1> DEFINE c == job.com
           t == pgRes
           i == req.id
           v == req.val
<1>1. /\ pc = "use" /\ Base /\ UsePhase
      /\ flash' = setPageUse(flash, t) /\ pc' = "erase"
      /\ UNCHANGED <<pgRes, pgLost, hot, req, ret, job, scan>>
  BY DEF IInv, UseTarget
<1>2. /\ Moving(flash, c, t) /\ Copied(flash, c, t, AllDone, job.skip)
      /\ FromPage(flash, c, t, AllDone, job.skip)
      /\ HotLive => hot[1] # c
      /\ req = None => job.skip = None /\ (HotLive => hot[1] = t)
      /\ req # None => /\ NewJob /\ NoTorn(flash) /\ (req.op = "write" => SrcOld)
                       /\ \E l \in Slots : Copy(flash, t, l, i) /\ Val(flash, t, l) = v
                       /\ HotLive /\ HotId = i => ~HotOld
  BY <1>1 DEF UsePhase, Compacts
<1>3. /\ c \in Pages /\ t \in Pages /\ c # t
      /\ \A p \in Pages : (Act(flash, p) <=> p # t) /\ (Xf(flash, p) <=> p = c)
      /\ Num(flash, c) = PageItems
      /\ \A j \in Ids : Single(flash, j)
  BY <1>2 DEF Moving
<1>4. flash \in Flashes /\ Paired(flash)
  BY <1>1 DEF Base
<1>5. req # None => /\ req \in Requests /\ req.op \in {"init", "write"}
                    /\ i \in Ids /\ v \in Vals /\ job.skip = i
  BY <1>2, ItemAssumption DEF NewJob, Requests
<1> HIDE DEF c, t, i, v
<1>6. /\ flash' \in Flashes
      /\ \A q \in Pages : SameSlots(flash, flash', q) /\ (Xf(flash', q) <=> Xf(flash, q))
      /\ \A q \in Pages : Act(flash', q) <=> Act(flash, q) \/ q = t
  BY <1>1, <1>3, <1>4, Activating
<1>7. /\ \A q \in Pages : Act(flash', q) /\ (Xf(flash', q) <=> q = c) /\ Num(flash', q) = Num(flash, q)
      /\ \A q \in Pages : \A k \in Slots :
           /\ Zero(flash', q, k) <=> Zero(flash, q, k)
           /\ Torn(flash', q, k) <=> Torn(flash, q, k)
           /\ Old(flash', q, k) <=> Old(flash, q, k)
           /\ Val(flash', q, k) = Val(flash, q, k)
           /\ \A j \in Ids : Copy(flash', q, k, j) <=> Copy(flash, q, k, j)
  BY <1>3, <1>6 DEF SameSlots
<1>8. \A l \in Slots : \A j \in Ids : Copy(flash, t, l, j) =>
        /\ ~Old(flash, t, l)
        /\ \A m \in Slots : Copy(flash, t, m, j) => m = l
        /\ j # job.skip => \E k \in Slots : Copy(flash, c, k, j) /\ Val(flash, t, l) = Val(flash, c, k)
  BY <1>2 DEF FromPage
<1>9. \A k \in Slots : \A j \in Ids : Copy(flash, c, k, j) /\ j # job.skip =>
        /\ Old(flash, c, k)
        /\ \E l \in Slots : Copy(flash, t, l, j) /\ Val(flash, t, l) = Val(flash, c, k)
  <2>1. \A k \in Slots : k < AllDone
    BY PageAssumption DEF Slots, AllDone
  <2> QED
    BY <1>2, <2>1 DEF Copied
<1>10. \A j \in Ids : j = job.skip => req # None /\ j = i
  BY <1>2, <1>5, ItemAssumption
(* The copies of the new item that were there are marked.                  *)
<1>11. ASSUME req # None, NEW q \in Pages \ {t}, NEW k \in Slots, Copy(flash, q, k, i)
       PROVE  req.op = "write" /\ Old(flash, q, k) /\ q = job.src[1] /\ k = job.src[2]
  <2>1. Act(flash, q) /\ i \in Ids
    BY <1>3, <1>5, <1>11
  <2>2. req.op = "write"
    BY <1>2, <1>5, <1>11, <2>1 DEF NewJob, Absent, i
  <2>3. SrcCopy /\ SrcOld
    BY <1>2, <1>11, <2>2 DEF NewJob
  <2>4. job.src[1] = q /\ job.src[2] = k
    BY <1>3, <1>11, <2>1, <2>3 DEF SrcCopy, Single, i
  <2> QED
    BY <2>2, <2>3, <2>4 DEF SrcOld
<1>12. \A j \in Ids : \A k, l \in Slots : \A q \in Pages \ {c, t} :
         j # job.skip /\ Copy(flash, t, l, j) => ~Copy(flash, q, k, j)
  BY <1>3, <1>8 DEF Single
<1>13. ASSUME NEW j \in Ids, NEW q \in Pages \ {t}, NEW k \in Slots, NEW l \in Slots,
              Copy(flash, t, l, j), Copy(flash, q, k, j)
       PROVE  Old(flash, q, k) /\ ~Old(flash, t, l)
  <2>1. CASE j = job.skip
    BY <1>8, <1>10, <1>11, <1>13, <2>1
  <2>2. CASE j # job.skip
    <3>1. q = c
      BY <1>12, <1>13, <2>2
    <3> QED
      BY <1>8, <1>9, <1>13, <2>2, <3>1
  <2> QED
    BY <2>1, <2>2
<1>14. Paired(flash')
  <2> SUFFICES ASSUME NEW j \in Ids, NEW q \in Pages, NEW r \in Pages, NEW k \in Slots, NEW l \in Slots,
                      Copy(flash, q, k, j), Copy(flash, r, l, j), Old(flash, q, k) <=> Old(flash, r, l)
               PROVE  q = r /\ k = l
    BY <1>7 DEF Paired
  <2>1. CASE q = t /\ r = t
    BY <1>8, <2>1
  <2>2. CASE q = t /\ r # t
    BY <1>13, <2>2
  <2>3. CASE q # t /\ r = t
    BY <1>13, <2>3
  <2>4. CASE q # t /\ r # t
    BY <1>3, <2>4 DEF Single
  <2> QED
    BY <2>1, <2>2, <2>3, <2>4
<1>15. Moved(flash', c)
  <2>1. ASSUME NEW k \in Slots, NEW j \in Ids, Copy(flash, c, k, j)
        PROVE  Old(flash, c, k) /\ \E l \in Slots : Copy(flash, t, l, j) /\ ~Old(flash, t, l)
    <3>1. CASE j = job.skip
      <4>1. req # None /\ j = i /\ \E l \in Slots : Copy(flash, t, l, i)
        BY <1>2, <1>10, <3>1
      <4> QED
        BY <1>3, <1>8, <1>11, <2>1, <4>1
    <3>2. CASE j # job.skip
      BY <1>8, <1>9, <2>1, <3>2
    <3> QED
      BY <3>1, <3>2
  <2>2. Superseded(flash', c)
    BY <1>3, <1>7, <2>1 DEF Superseded
  <2> QED
    BY <1>3, <1>7, <2>2 DEF Moved
<1>16. Base'
  <2>1. /\ hot' \in Nat \X Nat
        /\ HotLive' => hot'[1] \in Pages /\ hot'[2] \in Slots /\ Copy(flash', hot'[1], hot'[2], HotId)
    BY <1>1, <1>7, HotStays, ItemAssumption
  <2>2. \A q \in Pages : Zeros(flash', q) = Zeros(flash, q)
    BY <1>7, ZerosSame
  <2>3. \A q \in Pages : pgLost'[q] <= Cardinality(Zeros(flash', q))
    BY <1>1, <2>2 DEF Base
  <2> QED
    BY <1>1, <1>6, <1>14, <2>1, <2>3 DEF Base
<1>17. HotLive' => HotLive /\ hot' = hot /\ hot[1] \in Pages /\ hot[2] \in Slots /\ Copy(flash, hot[1], hot[2], HotId)
  BY <1>1 DEF Base, HotLive
<1>18. HotLive' /\ (req = None \/ req.id = HotId) => ~HotOld'
  <2>1. HotLive' /\ req = None => ~Old(flash, hot[1], hot[2])
    BY <1>2, <1>8, <1>17, ItemAssumption
  <2>2. HotLive' /\ req.id = HotId /\ req # None => ~Old(flash, hot[1], hot[2])
    BY <1>2, <1>17 DEF HotOld, i
  <2> QED
    BY <1>7, <1>17, <2>1, <2>2 DEF HotOld
<1>19. \A q \in Pages : (KeptPage(flash, q) <=> q # t) /\ (KeptPage(flash', q) <=> q # c)
  BY <1>3, <1>7 DEF KeptPage
<1>20. ASSUME req # None PROVE SaysNew(flash', i, v) /\ Holds(flash', i, v)
  <2>1. PICK l \in Slots : Copy(flash, t, l, i) /\ Val(flash, t, l) = v
    BY <1>2, <1>20
  <2>2. KeptCopy(flash', t, l, i) /\ ~Old(flash', t, l) /\ Val(flash', t, l) = v
    BY <1>3, <1>5, <1>7, <1>8, <1>19, <1>20, <2>1 DEF KeptCopy
  <2>3. \A q \in Pages : \A k \in Slots : KeptCopy(flash', q, k, i) /\ ~Old(flash', q, k) => q = t /\ k = l
    <3>1. ASSUME NEW q \in Pages, NEW k \in Slots, Copy(flash, q, k, i), ~Old(flash, q, k)
          PROVE  q = t /\ k = l
      <4>1. q = t
        BY <1>11, <1>20, <3>1
      <4> QED
        BY <1>5, <1>8, <1>20, <2>1, <3>1, <4>1
    <3> QED
      BY <1>5, <1>7, <1>20, <3>1 DEF KeptCopy
  <2>4. Holds(flash', i, Val(flash', t, l))
    BY <1>3, <1>5, <1>20, <2>2, <2>3, NewCopy
  <2> QED
    BY <1>3, <2>2, <2>4 DEF SaysNew, KeptCopy
<1>21. ErasePhase'
  <2>1. ASSUME req # None
        PROVE  /\ NoTorn(flash')
               /\ IF req.op = "write" THEN SrcCopy' /\ SrcOld'
                  ELSE /\ job.src = NoItem
                       /\ \A p \in Pages : \A k \in Slots : Copy(flash', p, k, i) => ~Old(flash', p, k)
               /\ \A j \in Ids \ {i} : \A p, q \in Pages \ {c} : \A k, l \in Slots :
                    Copy(flash', p, k, j) /\ Copy(flash', q, l, j) => p = q /\ k = l
    <3>1. NoTorn(flash')
      BY <1>2, <1>7, <2>1 DEF NoTorn
    <3>2. ASSUME req.op = "write" PROVE SrcCopy' /\ SrcOld'
      <4>1. SrcCopy /\ SrcOld
        BY <1>2, <2>1, <3>2 DEF NewJob
      <4>2. SrcCopy'
        BY <1>1, <1>5, <1>7, <2>1, <4>1 DEF SrcCopy, i
      <4>3. SrcOld'
        BY <1>1, <1>7, <4>1 DEF SrcCopy, SrcOld
      <4> QED
        BY <4>2, <4>3
    <3>3. ASSUME req.op # "write"
          PROVE  /\ job.src = NoItem
                 /\ \A p \in Pages : \A k \in Slots : Copy(flash', p, k, i) => ~Old(flash', p, k)
      <4>1. job.src = NoItem
        BY <1>2, <1>5, <2>1, <3>3 DEF NewJob
      <4>2. \A p \in Pages : \A k \in Slots : Copy(flash, p, k, i) => p = t
        BY <1>11, <2>1, <3>3
      <4> QED
        BY <1>5, <1>7, <1>8, <2>1, <3>3, <4>1, <4>2
    <3>4. ASSUME NEW j \in Ids \ {i}, NEW p \in Pages \ {c}, NEW q \in Pages \ {c}, NEW k \in Slots, NEW l \in Slots,
                 Copy(flash, p, k, j), Copy(flash, q, l, j)
          PROVE  p = q /\ k = l
      <4>1. j # job.skip
        BY <1>5, <2>1
      <4>2. CASE p = t /\ q = t
        BY <1>8, <3>4, <4>2
      <4>3. CASE p # t /\ q # t
        BY <1>3, <3>4, <4>3 DEF Single
      <4>4. CASE (p = t /\ q # t) \/ (p # t /\ q = t)
        BY <1>12, <3>4, <4>1, <4>4
      <4> QED
        BY <4>2, <4>3, <4>4
    <3> QED
      BY <1>7, <3>1, <3>2, <3>3, <3>4
  <2>2. /\ job'.com = c /\ req' = req /\ job' = job /\ req'.id = i /\ req'.val = v
    BY <1>1 DEF c, i, v
  <2>3. HotLive' => hot'[1] # c
    BY <1>1, <1>2, <1>17
  <2> QED
    BY <1>5, <1>15, <1>18, <1>20, <2>1, <2>2, <2>3 DEF ErasePhase
<1>22. ASSUME NEW j \in Ids, j # job.skip PROVE Keeps(flash, flash', j)
  <2>1. CASE \E k \in Slots : Copy(flash, c, k, j)
    <3>1. PICK k \in Slots : Copy(flash, c, k, j)
      BY <2>1
    <3>2. PICK l \in Slots : Copy(flash, t, l, j) /\ Val(flash, t, l) = Val(flash, c, k)
      BY <1>9, <1>22, <3>1
    <3>3. KeptCopy(flash, c, k, j) /\ \A q \in Pages : \A m \in Slots : KeptCopy(flash, q, m, j) => q = c /\ m = k
      BY <1>3, <1>19, <3>1 DEF KeptCopy, Single
    <3>4. Holds(flash, j, Val(flash, c, k))
      BY <1>3, <3>3, OnlyCopy
    <3>5. KeptCopy(flash', t, l, j) /\ \A q \in Pages : \A m \in Slots : KeptCopy(flash', q, m, j) => q = t /\ m = l
      BY <1>3, <1>7, <1>8, <1>12, <1>19, <1>22, <3>2 DEF KeptCopy
    <3>6. Holds(flash', j, Val(flash', t, l)) /\ Val(flash', t, l) = Val(flash, c, k)
      BY <1>3, <1>7, <3>2, <3>5, OnlyCopy
    <3> QED
      BY <1>4, <3>4, <3>6, HoldsOne DEF Keeps
  <2>2. CASE \A k \in Slots : ~Copy(flash, c, k, j)
    <3>1. \A l \in Slots : ~Copy(flash, t, l, j)
      BY <1>8, <1>22, <2>2
    <3>2. \A q \in Pages : \A k \in Slots :
            /\ KeptCopy(flash', q, k, j) <=> KeptCopy(flash, q, k, j)
            /\ KeptCopy(flash, q, k, j) => (Old(flash', q, k) <=> Old(flash, q, k)) /\ Val(flash', q, k) = Val(flash, q, k)
      BY <1>7, <1>19, <2>2, <3>1 DEF KeptCopy
    <3> QED
      BY <3>2, KeepsSame
  <2> QED
    BY <2>1, <2>2
<1>23. \A j \in Ids : j # job.skip => Stored(j)' = Stored(j)
  BY <1>4, <1>6, <1>22, Unchanged
<1>24. req = None => SameValues
  BY <1>10, <1>23 DEF SameValues
<1>25. ASSUME req # None PROVE Takes
  <2>1. ASSUME NEW j \in Ids PROVE Stored(j)' = IF j = i THEN v ELSE Stored(j)
    <3>1. CASE j = i
      <4>1. Holds(flash', j, v)
        BY <1>20, <1>25, <3>1
      <4> QED
        BY <1>4, <1>6, <3>1, <4>1, HoldsStored
    <3>2. CASE j # i
      BY <1>5, <1>23, <1>25, <3>2
    <3> QED
      BY <3>1, <3>2
  <2>2. CASE req.op = "init"
    <3>1. Absent(flash, i)
      BY <1>2, <1>25, <2>2 DEF NewJob, i
    <3>2. Stored(i) = None
      BY <1>4, <1>5, <1>25, <3>1, StoredBefore
    <3> QED
      BY <2>1, <2>2, <3>2 DEF Takes, Wanted, i, v
  <2>3. CASE req.op = "write"
    <3>1. SrcCopy
      BY <1>2, <1>25, <2>3 DEF NewJob
    <3>2. job.src[1] \in Pages /\ job.src[2] \in Slots /\ KeptCopy(flash, job.src[1], job.src[2], i)
      BY <1>3, <1>19, <3>1 DEF SrcCopy, KeptCopy, i
    <3>3. Stored(i) # None
      BY <1>3, <1>4, <1>5, <1>25, <3>2, StoredBefore
    <3> QED
      BY <2>1, <2>3, <3>3 DEF Takes, Wanted, i, v
  <2> QED
    BY <1>5, <1>25, <2>2, <2>3
<1> QED
  BY <1>1, <1>16, <1>21, <1>24, <1>25 DEF IInv

(* The scan of the pages begins.                                           *)
LEMMA ScanBegins ==
  ASSUME flash' \in Flashes, scan' = NoScan, req' = None, HotLive' => ~HotOld',
         IF pgRes' = 0 THEN \E c \in Pages : Stale(flash', c) ELSE Rests(flash', pgRes')
  PROVE  ScanPhase'
<1>1. /\ scan'.pg = 1 /\ scan'.ix = 1 /\ scan'.lost = 0 /\ scan'.pass = "mark" /\ 1 \in Pages
      /\ 1 \in 1 .. NPages + 1
  BY PageAssumption DEF NoScan, Pages
<1>2. ZerosTo(flash', 1, 1) = {} /\ Cardinality(ZerosTo(flash', 1, 1)) = 0
  BY <1>1, ZerosEnds, FS_EmptySet
<1>3. \A p \in Pages : ~(p < 1)
  BY PageAssumption DEF Pages
<1>4. \A p \in Pages : \A k \in Slots : ~Seen(p, k)'
  BY <1>1, PageAssumption DEF Seen, Pages, Slots
<1>5. MarkPass'
  BY <1>1, <1>2, <1>3, <1>4 DEF MarkPass
<1>6. Num(flash', 1) \in 0 .. PageItems
  BY <1>1, Types
<1>7. 1 \in 1 .. Num(flash', 1) + 1
  BY <1>6, PageAssumption
<1> QED
  BY <1>1, <1>2, <1>5, <1>7 DEF ScanPhase

LEMMA EraseSourceStep == ASSUME IInv, EraseSource PROVE IInv' /\ SameValues
<1> DEFINE c == job.com
           i == req.id
           v == req.val
<1>1. /\ pc = "erase" /\ Base /\ ErasePhase /\ scan = NoScan
      /\ flash' = ErasePage(flash, c)
      /\ pgLost' = [pgLost EXCEPT ![c] = 0]
      /\ pgRes' = c
      /\ pc' = CASE req = None -> "scan"
                 [] req # None /\ job.src # NoItem /\ job.src[1] # c -> "zero"
                 [] OTHER -> "return"
      /\ UNCHANGED <<hot, req, ret, job, scan>>
  BY DEF IInv, EraseSource
<1>2. /\ Moved(flash, c)
      /\ HotLive => hot[1] # c
      /\ HotLive /\ (req = None \/ i = HotId) => ~HotOld
      /\ req # None =>
           /\ req.op \in {"init", "write"} /\ NoTorn(flash)
           /\ SaysNew(flash, i, v)
           /\ req.op = "write" => SrcCopy /\ SrcOld
           /\ req.op # "write" => /\ job.src = NoItem
                                  /\ \A p \in Pages : \A k \in Slots : Copy(flash, p, k, i) => ~Old(flash, p, k)
           /\ \A j \in Ids \ {i} : \A p, q \in Pages \ {c} : \A k, l \in Slots :
                Copy(flash, p, k, j) /\ Copy(flash, q, l, j) => p = q /\ k = l
  BY <1>1 DEF ErasePhase
<1>3. c \in Pages /\ \A p \in Pages : Act(flash, p) /\ (Xf(flash, p) <=> p = c)
  BY <1>2 DEF Moved
<1>4. flash \in Flashes /\ Paired(flash) /\ req \in Requests \cup {None}
  BY <1>1 DEF Base
<1>5. req # None => req \in Requests /\ i \in Ids /\ v \in Vals
  BY <1>4, ItemAssumption DEF Requests
<1> HIDE DEF c, i, v
<1>6. /\ flash' \in Flashes /\ \A q \in Pages \ {c} : SamePage(flash, flash', q)
      /\ Num(flash', c) = 0 /\ ~Act(flash', c) /\ ~Xf(flash', c)
      /\ \A k \in Slots : /\ ~Zero(flash', c, k) /\ ~Torn(flash', c, k) /\ ~Old(flash', c, k)
                          /\ \A j \in Ids : ~Copy(flash', c, k, j)
  BY <1>1, <1>3, <1>4, Erasing
<1>7. /\ \A q \in Pages : (Act(flash', q) <=> q # c) /\ ~Xf(flash', q)
      /\ \A q \in Pages \ {c} : \A k \in Slots :
           /\ Zero(flash', q, k) <=> Zero(flash, q, k)
           /\ Torn(flash', q, k) <=> Torn(flash, q, k)
           /\ Old(flash', q, k) <=> Old(flash, q, k)
           /\ Val(flash', q, k) = Val(flash, q, k)
           /\ \A j \in Ids : Copy(flash', q, k, j) <=> Copy(flash, q, k, j)
  BY <1>3, <1>6 DEF SamePage, SameSlots
<1>8. Rests(flash', c)
  BY <1>3, <1>6, <1>7 DEF Rests, NoXfer
<1>9. Paired(flash')
  <2>1. Fewer(flash, flash')
    BY <1>3, <1>6, <1>7 DEF Fewer
  <2> QED
    BY <1>4, <2>1, FewerPaired
<1>10. HotLive' => HotLive /\ hot' = hot /\ hot[1] \in Pages \ {c} /\ hot[2] \in Slots /\ Copy(flash, hot[1], hot[2], HotId)
  BY <1>1, <1>2 DEF Base, HotLive
<1>11. c \in 0 .. NPages /\ c # 0
  BY <1>3, PageAssumption DEF Pages
<1>12. Base'
  <2>1. hot' \in Nat \X Nat
        /\ (HotLive' => hot'[1] \in Pages /\ hot'[2] \in Slots /\ Copy(flash', hot'[1], hot'[2], HotId))
    BY <1>1, <1>7, <1>10, ItemAssumption DEF Base
  <2>2. pgLost' \in [Pages -> Nat] /\ \A q \in Pages : pgLost'[q] <= Cardinality(Zeros(flash', q))
    <3>1. \A q \in Pages \ {c} : Zeros(flash', q) = Zeros(flash, q)
      BY <1>7, ZerosSame
    <3>2. Cardinality(Zeros(flash', c)) \in 0 .. PageItems
      BY ZerosCount
    <3> QED
      BY <1>1, <1>3, <3>1, <3>2, PageAssumption DEF Base
  <2>3. pc' \in {"scan", "zero", "return"}
    BY <1>1
  <2> QED
    BY <1>1, <1>6, <1>9, <1>11, <2>1, <2>2, <2>3 DEF Base
<1>13. HotLive' /\ (req = None \/ i = HotId) => ~HotOld'
  BY <1>2, <1>7, <1>10 DEF HotOld
<1>14. \A q \in Pages : (KeptPage(flash, q) <=> q # c) /\ (KeptPage(flash', q) <=> q # c)
  BY <1>3, <1>7 DEF KeptPage
<1>15. \A j \in Ids : \A q \in Pages : \A k \in Slots :
         /\ KeptCopy(flash', q, k, j) <=> KeptCopy(flash, q, k, j)
         /\ KeptCopy(flash, q, k, j) => (Old(flash', q, k) <=> Old(flash, q, k)) /\ Val(flash', q, k) = Val(flash, q, k)
  BY <1>7, <1>14 DEF KeptCopy
<1>16. SameValues
  <2>1. \A j \in Ids : Keeps(flash, flash', j)
    BY <1>15, KeepsSame
  <2> QED
    BY <1>4, <1>6, <2>1, Unchanged DEF SameValues
<1>17. CASE req = None
  <2>1. ScanPhase'
    BY <1>1, <1>6, <1>8, <1>11, <1>13, <1>17, ScanBegins
  <2>2. pc' = "scan"
    BY <1>1, <1>17
  <2> QED
    BY <1>12, <1>16, <2>1, <2>2 DEF IInv
<1>18. CASE req # None
  <2>1. NoTorn(flash')
    BY <1>2, <1>6, <1>7, <1>18 DEF NoTorn
  <2>2. \A j \in Ids \ {i} : Single(flash', j)
    BY <1>2, <1>7, <1>18 DEF Single
  <2>3. /\ SaysNew(flash', i, v)
        /\ \E p \in Pages \ {c} : \E k \in Slots : KeptCopy(flash', p, k, i) /\ ~Old(flash', p, k) /\ Val(flash', p, k) = v
    BY <1>2, <1>5, <1>14, <1>15, <1>18 DEF SaysNew, KeptCopy
  <2>4. CASE job.src # NoItem /\ job.src[1] # c
    <3>1. req.op = "write" /\ SrcCopy /\ SrcOld
      BY <1>2, <1>18, <2>4
    <3>2. SrcCopy'
      BY <1>1, <1>5, <1>7, <1>18, <2>4, <3>1 DEF SrcCopy, i
    <3>3. SrcOld'
      BY <1>1, <1>7, <2>4, <3>1 DEF SrcCopy, SrcOld
    <3>4. ZeroPhase'
      BY <1>1, <1>5, <1>8, <1>13, <1>18, <2>1, <2>2, <2>3, <3>1, <3>2, <3>3 DEF ZeroPhase, i, v
    <3>5. pc' = "zero"
      BY <1>1, <1>18, <2>4
    <3> QED
      BY <1>1, <1>12, <1>16, <3>4, <3>5 DEF IInv
  <2>5. CASE ~(job.src # NoItem /\ job.src[1] # c)
    <3>1. \A p \in Pages \ {c} : \A k \in Slots : Copy(flash, p, k, i) => ~Old(flash, p, k)
      <4>1. CASE req.op # "write"
        BY <1>2, <1>18, <4>1
      <4>2. CASE req.op = "write"
        <5>1. SrcCopy /\ SrcOld
          BY <1>2, <1>18, <4>2
        <5>2. job.src # NoItem
          BY <5>1, PageAssumption DEF SrcCopy, NoItem, Pages
        <5>3. job.src[1] = c
          BY <2>5, <5>2
        <5> QED
          BY <1>3, <1>4, <1>5, <1>18, <5>1, <5>3 DEF SrcCopy, SrcOld, Paired, i
      <4> QED
        BY <4>1, <4>2
    <3>2. Single(flash', i)
      BY <1>5, <1>7, <1>9, <1>18, <3>1 DEF Single, Paired
    <3>3. Holds(flash', i, v)
      <4>1. PICK p \in Pages \ {c}, k \in Slots : KeptCopy(flash', p, k, i) /\ ~Old(flash', p, k) /\ Val(flash', p, k) = v
        BY <2>3
      <4>2. \A q \in Pages : \A l \in Slots : KeptCopy(flash', q, l, i) => q = p /\ l = k
        BY <1>5, <1>18, <3>2, <4>1 DEF Single, KeptCopy, KeptPage
      <4> QED
        BY <1>5, <1>18, <4>1, <4>2, OnlyCopy
    <3>4. Rest'
      BY <1>1, <1>8, <2>1, <2>2, <3>2 DEF Rest
    <3>5. ReturnPhase'
      <4>1. req.op # "delete"
        BY <1>2, <1>18
      <4> QED
        BY <1>1, <1>5, <1>18, <3>3, <3>4, <4>1 DEF ReturnPhase, Wanted, i, v
    <3>6. pc' = "return"
      BY <1>1, <1>18, <2>5
    <3> QED
      BY <1>1, <1>12, <1>16, <3>5, <3>6 DEF IInv
  <2> QED
    BY <2>4, <2>5
<1> QED
  BY <1>17, <1>18

(* A zeroed slot leaves all other slots and pages as they are.             *)
ZeroedAt(f, g, p, n) ==
  /\ g \in Flashes
  /\ \A q \in Pages : /\ Num(g, q) = Num(f, q)
                      /\ (Act(g, q) <=> Act(f, q)) /\ (Xf(g, q) <=> Xf(f, q))
  /\ \A q \in Pages : \A k \in Slots :
       /\ Zero(g, q, k) <=> Zero(f, q, k) \/ (q = p /\ k = n)
       /\ Torn(g, q, k) <=> Torn(f, q, k) /\ ~(q = p /\ k = n)
       /\ Old(g, q, k) <=> Old(f, q, k) /\ ~(q = p /\ k = n)
       /\ \A j \in Ids : /\ Copy(g, q, k, j) <=> Copy(f, q, k, j) /\ ~(q = p /\ k = n)
                         /\ Copy(g, q, k, j) => Val(g, q, k) = Val(f, q, k)

LEMMA ZeroedSlot ==
  ASSUME NEW f \in Flashes, NEW p \in Pages, NEW n \in Slots, n <= Num(f, p),
         NEW g, g = ZeroItem(f, <<p, n>>)
  PROVE  ZeroedAt(f, g, p, n)
<1>1. /\ SameBut(f, g, p, n)
      /\ Zero(g, p, n) /\ ~Torn(g, p, n) /\ ~Old(g, p, n)
      /\ \A i \in Ids : ~Copy(g, p, n, i)
  BY Zeroing
<1>2. \A q \in Pages \ {p} : SamePage(f, g, q)
  BY <1>1 DEF SameBut
<1>3. ASSUME NEW q \in Pages
      PROVE  Num(g, q) = Num(f, q) /\ (Act(g, q) <=> Act(f, q)) /\ (Xf(g, q) <=> Xf(f, q))
  BY <1>1, <1>2 DEF SameBut, SamePage, SameSlots
<1>4. ASSUME NEW q \in Pages, NEW k \in Slots
      PROVE  /\ Zero(g, q, k) <=> Zero(f, q, k) \/ (q = p /\ k = n)
             /\ Torn(g, q, k) <=> Torn(f, q, k) /\ ~(q = p /\ k = n)
             /\ Old(g, q, k) <=> Old(f, q, k) /\ ~(q = p /\ k = n)
             /\ \A j \in Ids : /\ Copy(g, q, k, j) <=> Copy(f, q, k, j) /\ ~(q = p /\ k = n)
                               /\ Copy(g, q, k, j) => Val(g, q, k) = Val(f, q, k)
  <2>1. CASE q # p
    BY <1>2, <2>1 DEF SamePage, SameSlots
  <2>2. CASE q = p /\ k = n
    BY <1>1, <2>2
  <2>3. CASE q = p /\ k # n
    <3>1. /\ Zero(g, p, k) <=> Zero(f, p, k)
          /\ Torn(g, p, k) <=> Torn(f, p, k)
          /\ Old(g, p, k) <=> Old(f, p, k)
          /\ k <= Num(f, p) => Val(g, p, k) = Val(f, p, k)
          /\ \A i \in Ids : Copy(g, p, k, i) <=> Copy(f, p, k, i)
      BY <1>1, <2>3 DEF SameBut
    <3>2. \A j \in Ids : Copy(f, p, k, j) => k <= Num(f, p)
      BY DEF Copy
    <3> QED
      BY <2>3, <3>1, <3>2
  <2> QED
    BY <2>1, <2>2, <2>3
<1> QED
  BY <1>1, <1>3, <1>4 DEF ZeroedAt, SameBut

(* It keeps what is said of all slots.                                     *)
LEMMA ZeroedKeeps ==
  ASSUME NEW f, NEW g, NEW p \in Pages, NEW n \in Slots, ~Zero(f, p, n), ZeroedAt(f, g, p, n)
  PROVE  /\ Paired(f) => Paired(g)
         /\ \A i \in Ids : /\ Single(f, i) => Single(g, i)
                           /\ Absent(f, i) => Absent(g, i)
         /\ NoTorn(f) => NoTorn(g)
         /\ \A r : Rests(f, r) => Rests(g, r)
         /\ \A q \in Pages : KeptPage(g, q) <=> KeptPage(f, q)
         /\ \A i \in Ids : ~Copy(f, p, n, i) => Keeps(f, g, i)
         /\ Cardinality(Zeros(g, p)) = Cardinality(Zeros(f, p)) + 1
         /\ \A q \in Pages \ {p} : Zeros(g, q) = Zeros(f, q) /\ \A m : ZerosTo(g, q, m) = ZerosTo(f, q, m)
         /\ ZerosTo(g, p, n) = ZerosTo(f, p, n)
         /\ \A m : Cardinality(ZerosTo(f, p, m)) <= Cardinality(ZerosTo(g, p, m))
<1>1. /\ \A q \in Pages : /\ Num(g, q) = Num(f, q)
                          /\ (Act(g, q) <=> Act(f, q)) /\ (Xf(g, q) <=> Xf(f, q))
      /\ \A q \in Pages : \A k \in Slots :
           /\ Zero(g, q, k) <=> Zero(f, q, k) \/ (q = p /\ k = n)
           /\ Torn(g, q, k) <=> Torn(f, q, k) /\ ~(q = p /\ k = n)
           /\ Old(g, q, k) <=> Old(f, q, k) /\ ~(q = p /\ k = n)
           /\ \A j \in Ids : /\ Copy(g, q, k, j) <=> Copy(f, q, k, j) /\ ~(q = p /\ k = n)
                             /\ Copy(g, q, k, j) => Val(g, q, k) = Val(f, q, k)
  BY DEF ZeroedAt
<1>2. Fewer(f, g)
  BY <1>1 DEF Fewer
<1>3. NoTorn(f) => NoTorn(g)
  BY <1>1 DEF NoTorn
<1>4. \A r : Rests(f, r) => Rests(g, r)
  BY <1>1 DEF Rests, NoXfer
<1>5. \A q \in Pages : KeptPage(g, q) <=> KeptPage(f, q)
  BY <1>1 DEF KeptPage
<1>6. ASSUME NEW i \in Ids, ~Copy(f, p, n, i) PROVE Keeps(f, g, i)
  <2>1. \A q \in Pages : \A k \in Slots :
          /\ KeptCopy(g, q, k, i) <=> KeptCopy(f, q, k, i)
          /\ KeptCopy(f, q, k, i) => (Old(g, q, k) <=> Old(f, q, k)) /\ Val(g, q, k) = Val(f, q, k)
    BY <1>1, <1>5, <1>6 DEF KeptCopy
  <2> QED
    BY <2>1, KeepsSame
<1>7. \A q \in Pages \ {p} : Zeros(g, q) = Zeros(f, q) /\ \A m : ZerosTo(g, q, m) = ZerosTo(f, q, m)
  BY <1>1, ZerosSame
<1>8. Zero(g, p, n) /\ \A k \in Slots \ {n} : Zero(g, p, k) <=> Zero(f, p, k)
  BY <1>1
<1>9. /\ Cardinality(Zeros(g, p)) = Cardinality(Zeros(f, p)) + 1
      /\ ZerosTo(g, p, n) = ZerosTo(f, p, n)
      /\ \A m : Cardinality(ZerosTo(f, p, m)) <= Cardinality(ZerosTo(g, p, m))
  BY <1>8, OneMoreZero
<1> QED
  BY <1>2, <1>3, <1>4, <1>5, <1>6, <1>7, <1>9, FewerPaired

(* The count of a page grows with a slot that is zeroed.                   *)
LEMMA CountedZero ==
  ASSUME Base, NEW p \in Pages, NEW n \in Slots, ~Zero(flash, p, n), ZeroedAt(flash, flash', p, n),
         NEW lost, Counted(lost), pgLost' = [lost EXCEPT ![p] = @ + 1]
  PROVE  pgLost' \in [Pages -> Nat] /\ \A q \in Pages : pgLost'[q] <= Cardinality(Zeros(flash', q))
<1>1. /\ Cardinality(Zeros(flash', p)) = Cardinality(Zeros(flash, p)) + 1
      /\ \A q \in Pages \ {p} : Zeros(flash', q) = Zeros(flash, q)
  BY ZeroedKeeps
<1>2. lost \in [Pages -> Nat] /\ \A q \in Pages : lost[q] <= Cardinality(Zeros(flash, q))
  BY DEF Counted
<1>3. pgLost' \in [Pages -> Nat]
  BY <1>2
<1>4. Cardinality(Zeros(flash, p)) \in Nat /\ lost[p] \in Nat
  <2>1. Cardinality(Zeros(flash, p)) \in 0 .. PageItems
    BY ZerosCount
  <2> QED
    BY <1>2, <2>1
<1>5. pgLost'[p] <= Cardinality(Zeros(flash', p))
  BY <1>1, <1>2, <1>4
<1>6. \A q \in Pages \ {p} : pgLost'[q] <= Cardinality(Zeros(flash', q))
  BY <1>1, <1>2
<1> QED
  BY <1>3, <1>5, <1>6

(* A deletion takes effect; a write already has.                           *)
LEMMA ZeroOldStep ==
  ASSUME IInv, ZeroOld
  PROVE  IInv' /\ (req.op # "delete" => SameValues) /\ (req.op = "delete" => Takes)
<1> DEFINE s == job.src[1]
           n == job.src[2]
           i == req.id
<1>1. /\ pc = "zero" /\ Base /\ ZeroPhase
      /\ flash' = ZeroItem(flash, job.src)
      /\ pgLost' = [pgLost EXCEPT ![s] = @ + 1]
      /\ pc' = "return"
      /\ UNCHANGED <<pgRes, hot, req, ret, job, scan>>
  BY DEF IInv, ZeroOld
<1>2. /\ Rests(flash, pgRes) /\ NoTorn(flash) /\ req \in Requests
      /\ s \in Pages /\ n \in Slots /\ Act(flash, s) /\ Copy(flash, s, n, i)
      /\ \A j \in Ids \ {i} : Single(flash, j)
      /\ req.op = "delete" => Single(flash, i)
      /\ req.op # "delete" => /\ req.op = "write" /\ Old(flash, s, n)
                              /\ SaysNew(flash, i, req.val)
      /\ HotLive /\ HotId = i => ~HotOld
  BY <1>1 DEF ZeroPhase, SrcCopy, SrcOld
<1>3. /\ flash \in Flashes /\ Paired(flash) /\ Counted(pgLost) /\ req \in Requests /\ req # None
      /\ i \in Ids /\ req.val \in Vals /\ (req.op = "delete" => i \in Deletable)
      /\ job.src = <<s, n>>
  <2>1. job.src \in Nat \X Nat
    BY <1>1 DEF Base, Jobs
  <2> QED
    BY <1>1, <1>2, <2>1, BaseCounted, ItemAssumption DEF Base, Requests
<1>4. HotLive => hot[1] \in Pages /\ hot[2] \in Slots /\ Copy(flash, hot[1], hot[2], HotId)
  BY <1>1 DEF Base
<1> HIDE DEF s, n, i
<1>5. n <= Num(flash, s) /\ ~Zero(flash, s, n)
  BY <1>2, <1>3, Kinds DEF Copy
<1>6. ZeroedAt(flash, flash', s, n)
  BY <1>1, <1>2, <1>3, <1>5, ZeroedSlot
<1>7. /\ flash' \in Flashes
      /\ \A q \in Pages : \A k \in Slots :
           /\ Old(flash', q, k) <=> Old(flash, q, k) /\ ~(q = s /\ k = n)
           /\ \A j \in Ids : /\ Copy(flash', q, k, j) <=> Copy(flash, q, k, j) /\ ~(q = s /\ k = n)
                             /\ Copy(flash', q, k, j) => Val(flash', q, k) = Val(flash, q, k)
  BY <1>6 DEF ZeroedAt
<1>8. /\ Paired(flash') /\ NoTorn(flash') /\ Rests(flash', pgRes)
      /\ \A j \in Ids \ {i} : Single(flash', j)
      /\ \A q \in Pages : KeptPage(flash', q) <=> KeptPage(flash, q)
      /\ \A j \in Ids : ~Copy(flash, s, n, j) => Keeps(flash, flash', j)
  BY <1>2, <1>3, <1>5, <1>6, ZeroedKeeps
<1>9. \A j \in Ids : Copy(flash, s, n, j) <=> j = i
  BY <1>2, <1>3, Kinds
<1>10. \A p \in Pages : (KeptPage(flash, p) <=> p # pgRes) /\ (Act(flash, p) <=> p # pgRes)
                        /\ (Act(flash', p) <=> p # pgRes)
  BY <1>2, <1>8 DEF KeptPage, Rests, NoXfer
<1>11. Num(flash, pgRes) = 0 /\ Num(flash', pgRes) = 0 /\ pgRes \in Pages
  BY <1>2, <1>8 DEF Rests
<1>12. \A j \in Ids : \A p \in Pages : \A k \in Slots :
         /\ Copy(flash, p, k, j) <=> KeptCopy(flash, p, k, j)
         /\ Copy(flash', p, k, j) <=> KeptCopy(flash', p, k, j)
  <2>1. \A j \in Ids : \A k \in Slots : ~Copy(flash, pgRes, k, j) /\ ~Copy(flash', pgRes, k, j)
    BY <1>11, PageAssumption DEF Copy, Slots
  <2> QED
    BY <1>8, <1>10, <2>1 DEF KeptCopy
<1>13. Base'
  <2>1. pgLost' \in [Pages -> Nat] /\ \A q \in Pages : pgLost'[q] <= Cardinality(Zeros(flash', q))
    BY <1>1, <1>2, <1>3, <1>5, <1>6, CountedZero
  <2>2. HotLive => ~(hot[1] = s /\ hot[2] = n)
    <3>1. CASE HotId = i
      <4>1. req.op # "delete" \/ ~HotLive
        BY <1>3, <3>1 DEF HotLive
      <4> QED
        BY <1>2, <3>1, <4>1 DEF HotOld
    <3>2. CASE HotId # i
      BY <1>4, <1>9, <3>2, ItemAssumption
    <3> QED
      BY <3>1, <3>2
  <2>3. hot' \in Nat \X Nat
        /\ (HotLive' => hot'[1] \in Pages /\ hot'[2] \in Slots /\ Copy(flash', hot'[1], hot'[2], HotId))
    BY <1>1, <1>4, <1>7, <2>2, ItemAssumption DEF Base, HotLive
  <2> QED
    BY <1>1, <1>7, <1>8, <2>1, <2>3 DEF Base
<1>14. \A j \in Ids \ {i} : Stored(j)' = Stored(j)
  BY <1>3, <1>7, <1>8, <1>9, Unchanged
<1>15. ASSUME req.op # "delete"
       PROVE  Single(flash', i) /\ Holds(flash', i, req.val) /\ Keeps(flash, flash', i)
  <2>1. PICK p \in Pages, k \in Slots :
          KeptPage(flash, p) /\ Copy(flash, p, k, i) /\ ~Old(flash, p, k) /\ Val(flash, p, k) = req.val
    BY <1>2, <1>15 DEF SaysNew
  <2>2. Old(flash, s, n)
    BY <1>2, <1>15
  <2>3. ASSUME NEW q \in Pages, NEW l \in Slots, Copy(flash', q, l, i) PROVE q = p /\ l = k
    <3>1. Copy(flash, q, l, i) /\ ~(q = s /\ l = n)
      BY <1>3, <1>7, <2>3
    <3>2. ~Old(flash, q, l)
      BY <1>2, <1>3, <1>10, <1>12, <2>2, <3>1 DEF Paired, KeptCopy
    <3> QED
      BY <1>3, <1>10, <1>12, <2>1, <3>1, <3>2 DEF Paired, KeptCopy
  <2>4. Single(flash', i)
    BY <2>3 DEF Single
  <2>5. ~(p = s /\ k = n)
    BY <2>1, <2>2
  <2>6. KeptCopy(flash', p, k, i) /\ Val(flash', p, k) = req.val /\ ~Old(flash', p, k)
    BY <1>3, <1>7, <1>8, <2>1, <2>5 DEF KeptCopy
  <2>7. \A q \in Pages : \A l \in Slots : KeptCopy(flash', q, l, i) => q = p /\ l = k
    BY <2>3 DEF KeptCopy
  <2>8. Holds(flash', i, Val(flash', p, k))
    BY <1>3, <2>6, <2>7, OnlyCopy
  <2>9. Keeps(flash, flash', i)
    <3>1. \A q \in Pages : \A l \in Slots :
            /\ KeptCopy(flash', q, l, i) /\ ~Old(flash', q, l) <=> KeptCopy(flash, q, l, i) /\ ~Old(flash, q, l)
            /\ KeptCopy(flash', q, l, i) /\ ~Old(flash', q, l) => Val(flash', q, l) = Val(flash, q, l)
      BY <1>3, <1>7, <1>8, <2>2 DEF KeptCopy
    <3>2. KeptCopy(flash, p, k, i)
      BY <2>1 DEF KeptCopy
    <3> QED
      BY <1>3, <2>1, <3>1, <3>2, KeepsNew
  <2> QED
    BY <2>4, <2>6, <2>8, <2>9
<1>16. ASSUME req.op = "delete"
       PROVE  Single(flash', i) /\ Holds(flash', i, None)
  <2>1. \A q \in Pages : \A l \in Slots : ~Copy(flash', q, l, i)
    <3>1. ASSUME NEW q \in Pages, NEW l \in Slots, Copy(flash', q, l, i) PROVE FALSE
      <4>1. Copy(flash, q, l, i) /\ ~(q = s /\ l = n)
        BY <1>3, <1>7, <3>1
      <4>2. Act(flash, q)
        BY <1>3, <1>10, <1>12, <4>1 DEF KeptCopy
      <4>3. Single(flash, i)
        BY <1>2, <1>16
      <4> QED
        BY <1>2, <4>1, <4>2, <4>3 DEF Single
    <3> QED
      BY <3>1
  <2>2. Single(flash', i)
    BY <2>1 DEF Single
  <2>3. \A q \in Pages : \A l \in Slots : ~KeptCopy(flash', q, l, i)
    BY <2>1 DEF KeptCopy
  <2> QED
    BY <1>3, <2>2, <2>3, NoCopy
<1>17. req.op # "delete" => SameValues
  <2>1. req.op # "delete" => \A j \in Ids : Keeps(flash, flash', j)
    BY <1>3, <1>8, <1>9, <1>15
  <2> QED
    BY <1>3, <1>7, <2>1, Unchanged DEF SameValues
<1>18. ASSUME req.op = "delete" PROVE Takes
  <2>1. \A j \in Ids : j = i => Stored(j)' = None
    BY <1>3, <1>7, <1>16, <1>18, HoldsStored
  <2>2. Wanted = None
    BY <1>18 DEF Wanted
  <2> QED
    BY <1>3, <1>14, <1>18, <2>1, <2>2 DEF Takes, i
<1>19. ReturnPhase'
  <2>1. Single(flash', i)
    BY <1>15, <1>16
  <2>2. Rest'
    BY <1>1, <1>8, <2>1 DEF Rest
  <2>3. Holds(flash', i, Wanted)
    BY <1>15, <1>16 DEF Wanted
  <2>4. Wanted' = Wanted /\ req'.id = i
    BY <1>1 DEF Wanted, i
  <2> QED
    BY <1>1, <1>3, <2>2, <2>3, <2>4 DEF ReturnPhase
<1> QED
  BY <1>1, <1>13, <1>17, <1>18, <1>19 DEF IInv

-----------------------------------------------------------------------------
(* The power-up.                                                           *)

(* A second page that is not in use is empty, and nothing is moved.        *)
LEMMA SecondReserve ==
  ASSUME NEW f \in Flashes, Safe(f), NEW r \in Pages, NEW p \in Pages, r # p, ~Act(f, r), ~Act(f, p),
         NEW g, g = setPageUse(f, p)
  PROVE  /\ g \in Flashes /\ Safe(g) /\ \A i \in Ids : Keeps(f, g, i)
         /\ \A q \in Pages : /\ Act(g, q) <=> Act(f, q) \/ q = p
                             /\ Xf(g, q) <=> Xf(f, q)
                             /\ Zeros(g, q) = Zeros(f, q)
<1>1. /\ g \in Flashes /\ \A q \in Pages : SameSlots(f, g, q) /\ (Xf(g, q) <=> Xf(f, q))
      /\ \A q \in Pages : Act(g, q) <=> Act(f, q) \/ q = p
  BY Activating
<1>2. Open(f)
  <2>1. \A c \in Pages : ~Moved(f, c) /\ ~Stale(f, c)
    BY DEF Moved, Stale
  <2>2. \A c \in Pages : \A t \in Pages : ~Moving(f, c, t)
    BY DEF Moving
  <2> QED
    BY <2>1, <2>2 DEF Safe
<1>3. NoXfer(f) /\ \A q, s \in Pages : ~Act(f, q) /\ ~Act(f, s) /\ q # s => Num(f, q) = 0
  BY <1>2 DEF Open
<1>4. Num(f, p) = 0
  BY <1>3
<1>5. \A q \in Pages : Num(g, q) = Num(f, q)
  BY <1>1 DEF SameSlots
<1>6. \A q \in Pages : \A k \in Slots :
        /\ Old(g, q, k) <=> Old(f, q, k)
        /\ Val(g, q, k) = Val(f, q, k)
        /\ Zero(g, q, k) <=> Zero(f, q, k)
        /\ \A i \in Ids : Copy(g, q, k, i) <=> Copy(f, q, k, i)
  BY <1>1 DEF SameSlots
<1>7. \A i \in Ids : \A k \in Slots : ~Copy(f, p, k, i) /\ ~Copy(g, p, k, i)
  BY <1>4, <1>5, PageAssumption DEF Copy, Slots
<1>8. Open(g)
  BY <1>1, <1>3, <1>5 DEF Open, NoXfer
<1>9. Paired(g)
  <2>1. Fewer(f, g)
    BY <1>1, <1>6, <1>7 DEF Fewer
  <2> QED
    BY <2>1, FewerPaired DEF Safe
<1>10. \A q \in Pages : q # p => (KeptPage(g, q) <=> KeptPage(f, q))
  BY <1>1, <1>3 DEF KeptPage, NoXfer
<1>11. ASSUME NEW i \in Ids PROVE Keeps(f, g, i)
  <2>1. \A q \in Pages : \A k \in Slots :
          /\ KeptCopy(g, q, k, i) <=> KeptCopy(f, q, k, i)
          /\ KeptCopy(f, q, k, i) => (Old(g, q, k) <=> Old(f, q, k)) /\ Val(g, q, k) = Val(f, q, k)
    BY <1>6, <1>7, <1>10 DEF KeptCopy
  <2> QED
    BY <2>1, KeepsSame
<1>12. \A q \in Pages : Zeros(g, q) = Zeros(f, q)
  BY <1>6, ZerosSame
<1> QED
  BY <1>1, <1>8, <1>9, <1>11, <1>12 DEF Safe

LEMMA BootPageStep == ASSUME IInv, BootPage PROVE IInv' /\ SameValues
<1> DEFINE p == scan.pg
<1>1. /\ pc = "pages" /\ p \in Pages /\ Base /\ PagesPhase
      /\ pgRes' = IF ~flash[p].active /\ pgRes = 0 THEN p ELSE pgRes
      /\ flash' = IF ~flash[p].active /\ pgRes # 0 THEN setPageUse(flash, p) ELSE flash
      /\ scan' = [scan EXCEPT !.pg = p + 1,
                              !.old = IF flash[p].active /\ flash[p].xfer THEN p ELSE @]
      /\ UNCHANGED <<pgLost, hot, pc, req, ret, job>>
  BY DEF IInv, BootPage
<1>2. /\ Safe(flash) /\ req = None /\ job = NoJob /\ hot = NoItem
      /\ pgRes < p /\ (pgRes # 0 => ~Act(flash, pgRes))
      /\ scan.old < p
      /\ \A q \in Pages : q < p => (q # pgRes => Act(flash, q)) /\ (Xf(flash, q) <=> q = scan.old)
  BY <1>1 DEF PagesPhase
<1>3. /\ flash \in Flashes /\ scan \in Scans /\ scan.old \in Nat /\ pgRes \in 0 .. NPages
  BY <1>1 DEF Base, Scans
<1>4. p \in 1 .. NPages /\ NPages \in Nat
  BY <1>1, PageAssumption DEF Pages
<1>5. /\ scan' \in Scans /\ scan'.pg = p + 1
      /\ scan'.old = IF Act(flash, p) /\ Xf(flash, p) THEN p ELSE scan.old
  <2> DEFINE last == IF flash[p].active /\ flash[p].xfer THEN p ELSE scan.old
  <2>1. last \in Nat /\ p + 1 \in Nat
    BY <1>3, <1>4
  <2>2. scan' = [scan EXCEPT !.pg = p + 1, !.old = last]
    BY <1>1
  <2>3. last = IF Act(flash, p) /\ Xf(flash, p) THEN p ELSE scan.old
    BY DEF Act, Xf
  <2> HIDE DEF last
  <2>4. scan' \in Scans /\ scan'.pg = p + 1 /\ scan'.old = last
    BY <1>3, <2>1, <2>2 DEF Scans
  <2> QED
    BY <2>3, <2>4
<1>6. pgRes' = IF ~Act(flash, p) /\ pgRes = 0 THEN p ELSE pgRes
  BY <1>1 DEF Act
<1>7. Xf(flash, p) => Act(flash, p)
  BY <1>1, <1>3, Types
<1> HIDE DEF p
<1>8. pgRes # 0 => pgRes \in Pages /\ pgRes # p
  BY <1>2, <1>3, <1>4 DEF Pages
<1>9. /\ flash' \in Flashes /\ Safe(flash') /\ \A i \in Ids : Keeps(flash, flash', i)
      /\ \A q \in Pages : /\ Act(flash', q) <=> Act(flash, q) \/ (q = p /\ ~Act(flash, p) /\ pgRes # 0)
                          /\ Xf(flash', q) <=> Xf(flash, q)
                          /\ Zeros(flash', q) = Zeros(flash, q)
  <2>1. CASE ~Act(flash, p) /\ pgRes # 0
    <3>1. flash' = setPageUse(flash, p)
      BY <1>1, <2>1 DEF Act
    <3> QED
      BY <1>1, <1>2, <1>3, <1>8, <2>1, <3>1, SecondReserve
  <2>2. CASE ~(~Act(flash, p) /\ pgRes # 0)
    <3>1. flash' = flash
      BY <1>1, <2>2 DEF Act
    <3> QED
      BY <1>2, <1>3, <2>2, <3>1 DEF Keeps
  <2> QED
    BY <2>1, <2>2
<1>10. SameValues
  BY <1>2, <1>3, <1>9, Unchanged DEF SameValues, Safe
<1>11. Base'
  <2>1. pgRes' \in 0 .. NPages
    BY <1>3, <1>4, <1>6
  <2>2. hot' \in Nat \X Nat /\ ~HotLive'
    BY <1>1, <1>2 DEF HotLive, Base
  <2>3. pgLost' \in [Pages -> Nat] /\ \A q \in Pages : pgLost'[q] <= Cardinality(Zeros(flash', q))
    BY <1>1, <1>9 DEF Base
  <2> QED
    BY <1>1, <1>5, <1>9, <2>1, <2>2, <2>3 DEF Base, Safe
<1>12. PagesPhase'
  <2>1. scan'.pg \in 1 .. NPages + 1 /\ scan'.old < scan'.pg /\ pgRes' < scan'.pg
    BY <1>2, <1>3, <1>4, <1>5, <1>6
  <2>2. pgRes' # 0 => ~Act(flash', pgRes')
    <3>1. CASE ~Act(flash, p) /\ pgRes = 0
      BY <1>1, <1>6, <1>9, <3>1
    <3>2. CASE ~(~Act(flash, p) /\ pgRes = 0)
      BY <1>2, <1>6, <1>8, <1>9, <3>2
    <3> QED
      BY <3>1, <3>2
  <2>3. ASSUME NEW q \in Pages, q < scan'.pg
        PROVE  (q # pgRes' => Act(flash', q)) /\ (Xf(flash', q) <=> q = scan'.old)
    <3>1. q < p \/ q = p
      BY <1>4, <1>5, <2>3 DEF Pages
    <3>2. CASE q < p
      <4>1. q # p
        BY <1>4, <3>2
      <4>2. q # pgRes => Act(flash, q)
        BY <1>2, <3>2
      <4>3. pgRes = 0 => q # 0
        BY PageAssumption DEF Pages
      <4>4. q # pgRes' => q # pgRes
        BY <1>6, <4>3
      <4>5. Xf(flash, p) => ~Xf(flash, q)
        BY <1>1, <1>2, <4>1 DEF Safe, Open, NoXfer, Moving, Moved, Stale
      <4> QED
        BY <1>2, <1>5, <1>9, <3>2, <4>1, <4>2, <4>4, <4>5
    <3>3. CASE q = p
      <4>1. q # pgRes' => Act(flash, p) \/ pgRes # 0
        BY <1>6, <3>3
      <4>2. q = scan'.old <=> Xf(flash, p)
        BY <1>2, <1>3, <1>4, <1>5, <1>7, <3>3
      <4> QED
        BY <1>1, <1>9, <3>3, <4>1, <4>2
    <3> QED
      BY <3>1, <3>2, <3>3
  <2> QED
    BY <1>1, <1>2, <1>9, <2>1, <2>2, <2>3 DEF PagesPhase
<1> QED
  BY <1>1, <1>10, <1>11, <1>12 DEF IInv

(* A page that is not kept is erased.                                      *)
LEMMA ErasedKeeps ==
  ASSUME NEW f \in Flashes, NEW p \in Pages, ~KeptPage(f, p), NEW g, g = ErasePage(f, p),
         \A q \in Pages \ {p} : KeptPage(g, q) <=> KeptPage(f, q)
  PROVE  /\ g \in Flashes /\ (Paired(f) => Paired(g))
         /\ \A i \in Ids : Keeps(f, g, i) /\ (Single(f, i) => Single(g, i))
         /\ \A q \in Pages \ {p} : SamePage(f, g, q) /\ Zeros(g, q) = Zeros(f, q)
         /\ Num(g, p) = 0 /\ ~Act(g, p) /\ ~Xf(g, p)
         /\ \A k \in Slots : /\ ~Zero(g, p, k) /\ ~Torn(g, p, k) /\ ~Old(g, p, k)
                             /\ \A i \in Ids : ~Copy(g, p, k, i)
<1>1. /\ g \in Flashes /\ \A q \in Pages \ {p} : SamePage(f, g, q)
      /\ Num(g, p) = 0 /\ ~Act(g, p) /\ ~Xf(g, p)
      /\ \A k \in Slots : /\ ~Zero(g, p, k) /\ ~Torn(g, p, k) /\ ~Old(g, p, k)
                          /\ \A i \in Ids : ~Copy(g, p, k, i)
  BY Erasing
<1>2. \A q \in Pages \ {p} :
        /\ Act(g, q) <=> Act(f, q)
        /\ \A k \in Slots :
             /\ Zero(g, q, k) <=> Zero(f, q, k)
             /\ Old(g, q, k) <=> Old(f, q, k)
             /\ Val(g, q, k) = Val(f, q, k)
             /\ \A i \in Ids : Copy(g, q, k, i) <=> Copy(f, q, k, i)
  BY <1>1 DEF SamePage, SameSlots
<1>3. Fewer(f, g)
  BY <1>1, <1>2 DEF Fewer
<1>4. ASSUME NEW i \in Ids PROVE Keeps(f, g, i)
  <2>1. \A q \in Pages : \A k \in Slots :
          /\ KeptCopy(g, q, k, i) <=> KeptCopy(f, q, k, i)
          /\ KeptCopy(f, q, k, i) => (Old(g, q, k) <=> Old(f, q, k)) /\ Val(g, q, k) = Val(f, q, k)
    BY <1>1, <1>2 DEF KeptCopy
  <2> QED
    BY <2>1, KeepsSame
<1>5. \A q \in Pages \ {p} : Zeros(g, q) = Zeros(f, q)
  BY <1>2, ZerosSame
<1> QED
  BY <1>1, <1>3, <1>4, <1>5, FewerPaired

(* What the headers say after all pages have been seen.                    *)
LEMMA Diagnosis ==
  ASSUME Base, PagesPhase, scan.pg \notin Pages
  PROVE  /\ flash \in Flashes /\ Paired(flash) /\ Safe(flash)
         /\ pgRes # 0 => pgRes \in Pages /\ ~Act(flash, pgRes)
         /\ scan.old # 0 => scan.old \in Pages /\ Xf(flash, scan.old)
         /\ \A p \in Pages : (p # pgRes => Act(flash, p)) /\ (Xf(flash, p) <=> p = scan.old)
         /\ pgRes # 0 /\ scan.old # 0 => Moving(flash, scan.old, pgRes)
         /\ pgRes # 0 /\ scan.old = 0 => NoXfer(flash)
         /\ pgRes = 0 /\ scan.old # 0 => Moved(flash, scan.old)
         /\ pgRes = 0 /\ scan.old = 0 => \E c \in Pages : Stale(flash, c)
<1>1. scan.pg = NPages + 1 /\ NPages \in Nat /\ Pages = 1 .. NPages
  BY PageAssumption DEF PagesPhase, Pages
<1>2. /\ Safe(flash)
      /\ pgRes < scan.pg /\ (pgRes # 0 => ~Act(flash, pgRes))
      /\ scan.old < scan.pg
      /\ \A p \in Pages : p < scan.pg => (p # pgRes => Act(flash, p)) /\ (Xf(flash, p) <=> p = scan.old)
  BY DEF PagesPhase
<1>3. pgRes \in Nat /\ scan.old \in Nat
  BY PageAssumption DEF Base, Scans
<1>4. (pgRes # 0 => pgRes \in Pages) /\ (scan.old # 0 => scan.old \in Pages)
  BY <1>1, <1>2, <1>3
<1>5. \A p \in Pages : (p # pgRes => Act(flash, p)) /\ (Xf(flash, p) <=> p = scan.old)
  BY <1>1, <1>2
<1>6. \A p \in Pages : p # 0
  BY <1>1
<1>7. CASE pgRes # 0 /\ scan.old # 0
  <2>1. ~Open(flash) /\ \A c \in Pages : ~Moved(flash, c) /\ ~Stale(flash, c)
    BY <1>2, <1>4, <1>5, <1>7 DEF Open, NoXfer, Moved, Stale
  <2>2. PICK c \in Pages, t \in Pages : Moving(flash, c, t)
    BY <1>2, <2>1 DEF Safe
  <2>3. c = scan.old /\ t = pgRes
    BY <1>2, <1>4, <1>5, <1>7, <2>2 DEF Moving
  <2> QED
    BY <1>2, <1>4, <1>5, <1>7, <2>2, <2>3 DEF Safe
<1>8. CASE pgRes # 0 /\ scan.old = 0
  BY <1>2, <1>4, <1>5, <1>6, <1>8 DEF Safe, NoXfer
<1>9. CASE pgRes = 0 /\ scan.old # 0
  <2>1. \A p \in Pages : Act(flash, p)
    BY <1>5, <1>6, <1>9
  <2>2. ~Open(flash) /\ \A c, t \in Pages : ~Stale(flash, c) /\ ~Moving(flash, c, t)
    BY <1>4, <1>5, <1>9, <2>1 DEF Open, Moving, Stale
  <2>3. PICK c \in Pages : Moved(flash, c)
    BY <1>2, <2>2 DEF Safe
  <2>4. c = scan.old
    BY <1>4, <1>5, <1>9, <2>3 DEF Moved
  <2> QED
    BY <1>2, <1>4, <1>5, <1>9, <2>3, <2>4 DEF Safe
<1>10. CASE pgRes = 0 /\ scan.old = 0
  <2>1. \A p \in Pages : Act(flash, p) /\ ~Xf(flash, p)
    BY <1>5, <1>6, <1>10
  <2>2. ~Open(flash) /\ \A c, t \in Pages : ~Moved(flash, c) /\ ~Moving(flash, c, t)
    BY <2>1 DEF Open, Moving, Moved
  <2>3. PICK c \in Pages : Stale(flash, c)
    BY <1>2, <2>2 DEF Safe
  <2> QED
    BY <1>2, <1>5, <1>10, <2>3 DEF Safe
<1> QED
  BY <1>7, <1>8, <1>9, <1>10

LEMMA NoScanIn == NoScan \in Scans
  BY DEF NoScan, Scans

LEMMA BootRepairStep == ASSUME IInv, BootRepair PROVE IInv' /\ SameValues
<1> DEFINE e == BootErases
           o == scan.old
<1>1. /\ pc = "pages" /\ scan.pg \notin Pages /\ Base /\ PagesPhase
      /\ flash' = IF e = 0 THEN flash ELSE ErasePage(flash, e)
      /\ pgLost' = [p \in Pages |-> IF p = e THEN 0 ELSE pgLost[p]]
      /\ pgRes' = e
      /\ scan' = NoScan
      /\ o # 0 /\ pgRes # 0 => pc' = "compact" /\ job' = [NoJob EXCEPT !.com = o]
      /\ ~(o # 0 /\ pgRes # 0) => pc' = "scan" /\ UNCHANGED job
      /\ UNCHANGED <<hot, req, ret>>
  BY DEF IInv, BootRepair
<1>2. /\ flash \in Flashes /\ Paired(flash) /\ Safe(flash)
      /\ pgRes # 0 => pgRes \in Pages /\ ~Act(flash, pgRes)
      /\ o # 0 => o \in Pages /\ Xf(flash, o)
      /\ \A p \in Pages : (p # pgRes => Act(flash, p)) /\ (Xf(flash, p) <=> p = o)
      /\ pgRes # 0 /\ o # 0 => Moving(flash, o, pgRes)
      /\ pgRes # 0 /\ o = 0 => NoXfer(flash)
      /\ pgRes = 0 /\ o # 0 => Moved(flash, o)
      /\ pgRes = 0 /\ o = 0 => \E c \in Pages : Stale(flash, c)
  BY <1>1, Diagnosis
<1>3. e = IF pgRes # 0 THEN pgRes ELSE o
  BY DEF BootErases
<1>4. req = None /\ job = NoJob /\ hot = NoItem /\ ~HotLive'
  BY <1>1 DEF PagesPhase, HotLive
<1>5. \A p \in Pages : p # 0
  BY PageAssumption DEF Pages
<1> HIDE DEF e, o
<1>6. ASSUME e # 0
      PROVE  /\ e \in Pages /\ flash' = ErasePage(flash, e)
             /\ flash' \in Flashes /\ Paired(flash') /\ SameValues
             /\ \A i \in Ids : Single(flash, i) => Single(flash', i)
             /\ \A q \in Pages \ {e} : SamePage(flash, flash', q) /\ Zeros(flash', q) = Zeros(flash, q)
             /\ Num(flash', e) = 0 /\ ~Act(flash', e) /\ ~Xf(flash', e)
             /\ \A k \in Slots : /\ ~Zero(flash', e, k)
                                 /\ \A i \in Ids : ~Copy(flash', e, k, i)
  <2>1. e \in Pages /\ flash' = ErasePage(flash, e)
    BY <1>1, <1>2, <1>3, <1>6
  <2>2. /\ \A q \in Pages \ {e} : SamePage(flash, flash', q)
        /\ ~Act(flash', e)
    BY <1>2, <2>1, Erasing
  <2>3. \A q \in Pages \ {e} : (Act(flash', q) <=> Act(flash, q)) /\ (Xf(flash', q) <=> Xf(flash, q))
    BY <2>2 DEF SamePage
  <2>4. ~KeptPage(flash, e)
    <3>1. CASE pgRes # 0
      BY <1>2, <1>3, <3>1 DEF KeptPage
    <3>2. CASE pgRes = 0
      BY <1>2, <1>3, <1>5, <1>6, <3>2 DEF KeptPage
    <3> QED
      BY <3>1, <3>2
  <2>5. \A q \in Pages \ {e} : KeptPage(flash', q) <=> KeptPage(flash, q)
    <3>1. CASE pgRes # 0
      BY <1>2, <1>3, <2>1, <2>2, <2>3, <3>1 DEF KeptPage
    <3>2. CASE pgRes = 0
      BY <1>2, <1>3, <2>1, <2>2, <2>3, <3>2 DEF KeptPage
    <3> QED
      BY <3>1, <3>2
  <2>6. /\ flash' \in Flashes /\ Paired(flash')
        /\ \A i \in Ids : Keeps(flash, flash', i) /\ (Single(flash, i) => Single(flash', i))
        /\ \A q \in Pages \ {e} : SamePage(flash, flash', q) /\ Zeros(flash', q) = Zeros(flash, q)
        /\ Num(flash', e) = 0 /\ ~Act(flash', e) /\ ~Xf(flash', e)
        /\ \A k \in Slots : /\ ~Zero(flash', e, k)
                            /\ \A i \in Ids : ~Copy(flash', e, k, i)
    BY <1>2, <2>1, <2>4, <2>5, ErasedKeeps
  <2>7. SameValues
    BY <1>2, <2>6, Unchanged DEF SameValues
  <2> QED
    BY <2>1, <2>6, <2>7
<1>7. e = 0 => pgRes = 0 /\ o = 0 /\ flash' = flash
  BY <1>1, <1>3
<1>8. SameValues /\ flash' \in Flashes /\ Paired(flash')
  BY <1>2, <1>6, <1>7, SameFlash
<1>9. e \in 0 .. NPages /\ o \in 0 .. NPages
  BY <1>2, <1>3, PageAssumption DEF Pages
<1>10. Base'
  <2>1. hot' \in Nat \X Nat /\ req' = None
    BY <1>1, <1>4 DEF Base
  <2>2. pgLost' \in [Pages -> Nat]
    BY <1>1 DEF Base
  <2>3. ASSUME NEW q \in Pages PROVE pgLost'[q] <= Cardinality(Zeros(flash', q))
    <3>1. Cardinality(Zeros(flash', q)) \in 0 .. PageItems
      BY ZerosCount
    <3>2. CASE q = e
      BY <1>1, <3>1, <3>2, PageAssumption
    <3>3. CASE q # e
      <4>1. Zeros(flash', q) = Zeros(flash, q)
        BY <1>6, <1>7, <3>3
      <4> QED
        BY <1>1, <3>3, <4>1 DEF Base
    <3> QED
      BY <3>2, <3>3
  <2>4. job' \in Jobs
    <3>1. [NoJob EXCEPT !.com = o] \in Jobs
      BY <1>9, NoJobIn DEF Jobs
    <3> QED
      BY <1>1, <3>1 DEF Base
  <2>5. scan' \in Scans
    BY <1>1, NoScanIn
  <2>6. pc' \in {"compact", "scan"}
    BY <1>1
  <2> QED
    BY <1>1, <1>4, <1>8, <1>9, <2>1, <2>2, <2>3, <2>4, <2>5, <2>6 DEF Base
(* A compaction is repeated from its beginning.                            *)
<1>11. CASE o # 0 /\ pgRes # 0
  <2>1. e = pgRes /\ e # 0 /\ Moving(flash, o, e) /\ pgRes' = e
    BY <1>1, <1>2, <1>3, <1>11
  <2>2. job' = [NoJob EXCEPT !.com = o] /\ pc' = "compact"
    BY <1>1, <1>11
  <2>3. job'.com = o /\ job'.k = 1 /\ job'.skip = None
    BY <2>2, NoJobIn DEF NoJob
  <2>4. /\ o \in Pages /\ e \in Pages /\ o # e
        /\ \A p \in Pages : (Act(flash, p) <=> p # e) /\ (Xf(flash, p) <=> p = o)
        /\ Num(flash, o) = PageItems
        /\ \A i \in Ids : Single(flash, i)
    BY <2>1 DEF Moving
  <2>5. \A q \in Pages \ {e} : /\ Num(flash', q) = Num(flash, q)
                               /\ (Act(flash', q) <=> Act(flash, q)) /\ (Xf(flash', q) <=> Xf(flash, q))
    BY <1>6, <2>1 DEF SamePage, SameSlots
  <2>6. Moving(flash', o, e)
    BY <1>6, <2>1, <2>4, <2>5 DEF Moving
  <2>7. \A z \in Slots : ~(z < 1)
    BY PageAssumption DEF Slots
  <2>8. Copied(flash', o, e, 1, None) /\ FromPage(flash', o, e, 1, None)
    BY <1>6, <2>1, <2>7 DEF Copied, FromPage
  <2>9. 1 \in 1 .. AllDone
    BY PageAssumption DEF AllDone
  <2>10. Num(flash', e) = 0
    BY <1>6, <2>1
  <2>11. CompactPhase'
    BY <1>1, <1>4, <2>1, <2>3, <2>6, <2>7, <2>8, <2>9, <2>10 DEF CompactPhase, Compacts
  <2> QED
    BY <1>1, <1>8, <1>10, <2>2, <2>11 DEF IInv
<1>12. CASE ~(o # 0 /\ pgRes # 0)
  <2>1. IF pgRes' = 0 THEN \E c \in Pages : Stale(flash', c) ELSE Rests(flash', pgRes')
    <3>1. CASE e = 0
      BY <1>1, <1>2, <1>7, <3>1
    <3>2. CASE e # 0
      <4>1. \A p \in Pages : p # e => Act(flash, p) /\ ~Xf(flash, p)
        BY <1>2, <1>3, <1>5, <1>12
      <4>2. \A p \in Pages \ {e} : Act(flash', p) /\ ~Xf(flash', p)
        BY <1>6, <3>2, <4>1 DEF SamePage
      <4>3. Rests(flash', e)
        BY <1>6, <3>2, <4>2 DEF Rests, NoXfer
      <4> QED
        BY <1>1, <3>2, <4>3
    <3> QED
      BY <3>1, <3>2
  <2>2. ScanPhase'
    BY <1>1, <1>4, <1>8, <2>1, ScanBegins
  <2>3. pc' = "scan"
    BY <1>1, <1>12
  <2> QED
    BY <1>1, <1>8, <1>10, <2>2, <2>3 DEF IInv
<1> QED
  BY <1>11, <1>12

-----------------------------------------------------------------------------
(* The scan.                                                               *)

(* The scan is at a slot that is written.                                  *)
LEMMA ScanAt ==
  ASSUME IInv, pc = "scan", AtItem
  PROVE  /\ Base /\ ScanPhase
         /\ scan.pg \in Pages /\ scan.ix \in Slots /\ scan.ix <= Num(flash, scan.pg)
         /\ Act(flash, scan.pg) /\ KeptPage(flash, scan.pg)
         /\ NoXfer(flash) /\ Filled(flash)
         /\ scan.ix + 1 \in 1 .. Num(flash, scan.pg) + 1
<1>1. Base /\ ScanPhase
  BY DEF IInv
<1>2. scan.pg \in Pages /\ scan.ix \in DOMAIN flash[scan.pg].items
  BY DEF AtItem
<1>3. flash \in Flashes
  BY <1>1 DEF Base
<1>4. flash[scan.pg].items \in Seq(Cells) /\ Num(flash, scan.pg) \in 0 .. PageItems
  BY <1>2, <1>3, Types
<1>5. scan.ix \in 1 .. Num(flash, scan.pg)
  BY <1>2, <1>4 DEF Num
<1>6. scan.ix \in Slots /\ scan.ix <= Num(flash, scan.pg) /\ scan.ix + 1 \in 1 .. Num(flash, scan.pg) + 1
  BY <1>4, <1>5, PageAssumption DEF Slots
<1>7. NoXfer(flash) /\ Filled(flash) /\ Act(flash, scan.pg)
  <2>1. CASE pgRes = 0
    <3>1. PICK c \in Pages : Stale(flash, c)
      BY <1>1, <2>1 DEF ScanPhase
    <3> QED
      BY <1>2, <3>1 DEF Stale, NoXfer, Filled
  <2>2. CASE pgRes # 0
    <3>1. Rests(flash, pgRes)
      BY <1>1, <2>2 DEF ScanPhase
    <3>2. scan.pg # pgRes
      BY <1>4, <1>5, <3>1 DEF Rests
    <3> QED
      BY <1>2, <3>1, <3>2 DEF Rests, Filled
  <2> QED
    BY <2>1, <2>2
<1>8. KeptPage(flash, scan.pg)
  BY <1>2, <1>7 DEF KeptPage, NoXfer
<1> QED
  BY <1>1, <1>2, <1>6, <1>7, <1>8

(* One more lost slot.                                                     *)
LEMMA OneLost ==
  ASSUME NEW s \in Scans
  PROVE  LET t == [s EXCEPT !.lost = @ + 1]
         IN  t \in Scans /\ t.pg = s.pg /\ t.ix = s.ix /\ t.lost = s.lost + 1 /\ t.pass = s.pass
BY DEF Scans

(* One slot further, which may be a lost one.                              *)
LEMMA OneSlot ==
  ASSUME scan \in Scans, NEW step, step = [scan EXCEPT !.ix = @ + 1],
         NEW more, more = [step EXCEPT !.lost = @ + 1]
  PROVE  /\ step \in Scans /\ step.pg = scan.pg /\ step.ix = scan.ix + 1
         /\ step.lost = scan.lost /\ step.pass = scan.pass
         /\ more \in Scans /\ more.pg = scan.pg /\ more.ix = scan.ix + 1
         /\ more.lost = scan.lost + 1 /\ more.pass = scan.pass
<1>1. step \in Scans /\ step.pg = scan.pg /\ step.ix = scan.ix + 1 /\ step.lost = scan.lost /\ step.pass = scan.pass
  BY DEF Scans
<1>2. more \in Scans /\ more.pg = step.pg /\ more.ix = step.ix /\ more.lost = step.lost + 1 /\ more.pass = step.pass
  BY <1>1, OneLost
<1> QED
  BY <1>1, <1>2

LEMMA OneSeen ==
  ASSUME scan \in Scans, scan.pg \in Pages, scan'.pg = scan.pg, scan'.ix = scan.ix + 1
  PROVE  \A p \in Pages : \A k \in Slots : Seen(p, k)' <=> Seen(p, k) \/ (p = scan.pg /\ k = scan.ix)
<1>1. scan.ix \in Nat
  BY DEF Scans
<1>2. \A p \in Pages : \A k \in Slots : p \in Nat /\ k \in Nat
  BY PageAssumption DEF Pages, Slots
<1> QED
  BY <1>1, <1>2 DEF Seen, Pages

(* The next page.                                                          *)
LEMMA NextPage ==
  ASSUME Base, scan.pg \in Pages, scan' = [scan EXCEPT !.pg = @ + 1, !.ix = 1, !.lost = 0], flash' = flash
  PROVE  /\ scan' \in Scans /\ scan'.pg = scan.pg + 1 /\ scan'.ix = 1 /\ scan'.lost = 0
         /\ scan'.pass = scan.pass /\ scan'.pg \in 1 .. NPages + 1
         /\ scan'.pg \in Pages => /\ scan'.ix \in 1 .. Num(flash', scan'.pg) + 1
                                  /\ Cardinality(ZerosTo(flash', scan'.pg, scan'.ix)) = 0
         /\ \A p \in Pages : p < scan'.pg <=> p < scan.pg \/ p = scan.pg
         /\ \A p \in Pages : \A k \in Slots : Seen(p, k)' => p < scan.pg \/ p = scan.pg
<1>1. scan \in Scans /\ flash' \in Flashes
  BY DEF Base
<1>2. /\ scan' \in Scans /\ scan'.pg = scan.pg + 1 /\ scan'.ix = 1 /\ scan'.lost = 0
      /\ scan'.pass = scan.pass
  <2>1. /\ scan.pg + 1 \in Nat
        /\ scan = [pg |-> scan.pg, ix |-> scan.ix, lost |-> scan.lost, pass |-> scan.pass, old |-> scan.old]
        /\ scan.pass \in {"mark", "dups", "final"} /\ scan.old \in Nat
    BY <1>1 DEF Scans
  <2>2. scan' = [pg |-> scan.pg + 1, ix |-> 1, lost |-> 0, pass |-> scan.pass, old |-> scan.old]
    BY <2>1
  <2> QED
    BY <2>1, <2>2 DEF Scans
<1>3. scan'.pg \in 1 .. NPages + 1 /\ \A p \in Pages : p < scan'.pg <=> p < scan.pg \/ p = scan.pg
  BY <1>2, PageAssumption DEF Pages
<1>4. \A p \in Pages : \A k \in Slots : Seen(p, k)' => p < scan.pg \/ p = scan.pg
  <2>1. \A k \in Slots : ~(k < 1)
    BY PageAssumption DEF Slots
  <2> QED
    BY <1>2, <1>3, <2>1 DEF Seen
<1>5. ASSUME scan'.pg \in Pages
      PROVE  /\ scan'.ix \in 1 .. Num(flash', scan'.pg) + 1
             /\ Cardinality(ZerosTo(flash', scan'.pg, scan'.ix)) = 0
  <2>1. Num(flash', scan'.pg) \in 0 .. PageItems
    BY <1>1, <1>5, Types
  <2>2. ZerosTo(flash', scan'.pg, 1) = {}
    BY <1>1, <1>5, ZerosEnds
  <2>3. 1 \in 1 .. Num(flash', scan'.pg) + 1
    BY <2>1, PageAssumption
  <2> QED
    BY <1>2, <2>2, <2>3, FS_EmptySet
<1> QED
  BY <1>2, <1>3, <1>4, <1>5

LEMMA ScanPageEndStep == ASSUME IInv, ScanPageEnd PROVE IInv' /\ SameValues
<1> DEFINE p == scan.pg
<1>1. /\ pc = "scan" /\ p \in Pages /\ ~AtItem /\ Base /\ ScanPhase
      /\ pgLost' = [pgLost EXCEPT ![p] = scan.lost]
      /\ scan' = [scan EXCEPT !.pg = @ + 1, !.ix = 1, !.lost = 0]
      /\ UNCHANGED <<flash, pgRes, hot, pc, req, ret, job>>
  BY DEF IInv, ScanPageEnd
<1>2. /\ scan' \in Scans /\ scan'.pg = p + 1 /\ scan'.ix = 1 /\ scan'.lost = 0
      /\ scan'.pass = scan.pass /\ scan'.pg \in 1 .. NPages + 1
      /\ scan'.pg \in Pages => /\ scan'.ix \in 1 .. Num(flash', scan'.pg) + 1
                               /\ Cardinality(ZerosTo(flash', scan'.pg, scan'.ix)) = 0
      /\ \A q \in Pages : q < scan'.pg <=> q < p \/ q = p
      /\ \A q \in Pages : \A k \in Slots : Seen(q, k)' => q < p \/ q = p
  BY <1>1, NextPage
<1>3. flash \in Flashes /\ scan \in Scans /\ scan.lost \in Nat /\ scan.ix \in Nat
  BY <1>1 DEF Base, Scans
<1>4. Num(flash, p) \in 0 .. PageItems /\ flash[p].items \in Seq(Cells)
  BY <1>1, <1>3, Types
<1>5. scan.ix = Num(flash, p) + 1
  <2>1. scan.ix \in 1 .. Num(flash, p) + 1
    BY <1>1 DEF ScanPhase
  <2>2. scan.ix \notin 1 .. Num(flash, p)
    BY <1>1, <1>4 DEF AtItem, Num
  <2> QED
    BY <1>4, <2>1, <2>2
<1>6. ZerosTo(flash, p, scan.ix) = Zeros(flash, p)
  BY <1>1, <1>3, <1>5, ZerosEnds
<1>7. scan.lost <= Cardinality(Zeros(flash, p))
  BY <1>1, <1>6 DEF ScanPhase
<1>8. \A k \in Slots : k <= Num(flash, p) => Seen(p, k)
  BY <1>3, <1>4, <1>5 DEF Seen, Slots
<1>9. \A q \in Pages : \A k \in Slots : Seen(q, k)' => Seen(q, k) \/ (q = p /\ ~(k <= Num(flash, p)))
  BY <1>2, <1>8 DEF Seen
<1>10. \A q \in Pages : pgLost'[q] = IF q = p THEN scan.lost ELSE pgLost[q]
  BY <1>1 DEF Base
<1> HIDE DEF p
<1>11. Base'
  <2>1. pgLost' \in [Pages -> Nat] /\ \A q \in Pages : pgLost'[q] <= Cardinality(Zeros(flash', q))
    BY <1>1, <1>3, <1>7, <1>10 DEF Base
  <2>2. hot' \in Nat \X Nat
        /\ (HotLive' => hot'[1] \in Pages /\ hot'[2] \in Slots /\ Copy(flash', hot'[1], hot'[2], HotId))
    BY <1>1 DEF Base, HotLive
  <2> QED
    BY <1>1, <1>2, <2>1, <2>2 DEF Base
<1>12. MarkPass => MarkPass'
  <2> SUFFICES ASSUME MarkPass PROVE MarkPass'
    OBVIOUS
  <2>1. \A q \in Pages : \A k \in Slots : Seen(q, k)' => ~Torn(flash', q, k) /\ ~Old(flash', q, k)
    <3>1. \A k \in Slots : ~(k <= Num(flash, p)) => ~Torn(flash, p, k) /\ ~Old(flash, p, k)
      BY DEF Torn, Old
    <3> QED
      BY <1>1, <1>9, <3>1 DEF MarkPass
  <2>2. \A q \in Pages : q < scan'.pg => Cardinality(Zeros(flash', q)) <= pgLost'[q]
    <3>1. Cardinality(Zeros(flash, p)) <= scan.lost
      BY <1>1, <1>6 DEF MarkPass, p
    <3> QED
      BY <1>1, <1>2, <1>10, <3>1 DEF MarkPass, p
  <2> QED
    BY <1>2, <2>1, <2>2 DEF MarkPass
<1>13. DupsPass => DupsPass'
  <2>1. \A k \in Slots : ~(k <= Num(flash, p)) => ~Torn(flash, p, k) /\ \A i \in Ids : ~Copy(flash, p, k, i)
    BY DEF Torn, Copy
  <2> QED
    BY <1>1, <1>9, <2>1 DEF DupsPass
<1>14. FinalPass => FinalPass'
  <2> SUFFICES ASSUME FinalPass PROVE FinalPass'
    OBVIOUS
  <2>1. \A q \in Pages : q < scan'.pg /\ (\A k \in Slots : ~Old(flash', q, k)) =>
          Cardinality(Zeros(flash', q)) <= pgLost'[q]
    <3>1. Cardinality(Zeros(flash, p)) <= scan.lost
      BY <1>1, <1>6 DEF FinalPass, p
    <3> QED
      BY <1>1, <1>2, <1>10, <3>1 DEF FinalPass, p
  <2>2. NoTorn(flash') /\ \A i \in Ids : Single(flash', i)
    BY <1>1 DEF FinalPass
  <2> QED
    BY <1>2, <2>1, <2>2 DEF FinalPass
<1>15. ScanPhase'
  <2>1. HotLive' => ~HotOld'
    BY <1>1 DEF HotLive, HotOld, ScanPhase
  <2>2. /\ req' = None
        /\ IF pgRes' = 0 THEN \E c \in Pages : Stale(flash', c) ELSE Rests(flash', pgRes')
    BY <1>1 DEF ScanPhase
  <2>3. /\ scan'.pass = "mark" => MarkPass'
        /\ scan'.pass = "dups" => DupsPass'
        /\ scan'.pass = "final" => FinalPass'
    BY <1>1, <1>2, <1>12, <1>13, <1>14 DEF ScanPhase
  <2>4. scan'.pg \in Pages => scan'.lost <= Cardinality(ZerosTo(flash', scan'.pg, scan'.ix))
    BY <1>2
  <2> QED
    BY <1>2, <2>1, <2>2, <2>3, <2>4 DEF ScanPhase
<1> QED
  BY <1>1, <1>11, <1>15, SameFlash DEF IInv

(* A torn item or a transferred copy is zeroed.                            *)
LEMMA ScanZeroes ==
  ASSUME Base, ScanPhase, NEW p \in Pages, NEW n \in Slots, Torn(flash, p, n) \/ Old(flash, p, n),
         ZeroedAt(flash, flash', p, n), UNCHANGED <<pgRes, hot>>
  PROVE  /\ flash' \in Flashes /\ Paired(flash')
         /\ IF pgRes' = 0 THEN \E c \in Pages : Stale(flash', c) ELSE Rests(flash', pgRes')
         /\ hot' \in Nat \X Nat
         /\ HotLive' => hot'[1] \in Pages /\ hot'[2] \in Slots /\ Copy(flash', hot'[1], hot'[2], HotId)
         /\ HotLive' => ~HotOld'
         /\ ~Zero(flash, p, n)
<1>1. flash \in Flashes /\ Paired(flash)
  BY DEF Base
<1>2. ~Zero(flash, p, n)
  BY <1>1, Kinds
<1>3. /\ flash' \in Flashes
      /\ \A q \in Pages : /\ Num(flash', q) = Num(flash, q)
                          /\ (Act(flash', q) <=> Act(flash, q)) /\ (Xf(flash', q) <=> Xf(flash, q))
      /\ \A q \in Pages : \A k \in Slots :
           /\ Old(flash', q, k) <=> Old(flash, q, k) /\ ~(q = p /\ k = n)
           /\ \A j \in Ids : Copy(flash', q, k, j) <=> Copy(flash, q, k, j) /\ ~(q = p /\ k = n)
  BY DEF ZeroedAt
<1>4. Paired(flash') /\ \A r : Rests(flash, r) => Rests(flash', r)
  BY <1>1, <1>2, ZeroedKeeps
<1>5. \A j \in Ids : Copy(flash, p, n, j) => Old(flash, p, n)
  BY <1>1, Kinds
<1>6. ASSUME NEW c \in Pages, Stale(flash, c) PROVE Stale(flash', c)
  <2>1. /\ Num(flash, c) = PageItems
        /\ \A k \in Slots : \A i \in Ids :
             Copy(flash, c, k, i) =>
               /\ Old(flash, c, k)
               /\ \E q \in Pages : \E l \in Slots : q # c /\ Copy(flash, q, l, i) /\ ~Old(flash, q, l)
    BY <1>6 DEF Stale, Superseded
  <2>2. Superseded(flash', c)
    <3>1. ASSUME NEW k \in Slots, NEW i \in Ids, Copy(flash', c, k, i)
          PROVE  /\ Old(flash', c, k)
                 /\ \E q \in Pages : \E l \in Slots : q # c /\ Copy(flash', q, l, i) /\ ~Old(flash', q, l)
      <4>1. Copy(flash, c, k, i) /\ ~(c = p /\ k = n)
        BY <1>3, <3>1
      <4>2. PICK q \in Pages, l \in Slots : q # c /\ Copy(flash, q, l, i) /\ ~Old(flash, q, l)
        BY <2>1, <4>1
      <4>3. ~(q = p /\ l = n)
        BY <1>5, <4>2
      <4> QED
        BY <1>3, <2>1, <4>1, <4>2, <4>3
    <3> QED
      BY <1>3, <2>1, <3>1 DEF Superseded
  <2> QED
    BY <1>3, <1>6, <2>2 DEF Stale
<1>7. IF pgRes' = 0 THEN \E c \in Pages : Stale(flash', c) ELSE Rests(flash', pgRes')
  BY <1>4, <1>6 DEF ScanPhase
<1>8. HotLive' => /\ hot' = hot /\ hot[1] \in Pages /\ hot[2] \in Slots /\ Copy(flash, hot[1], hot[2], HotId)
                  /\ ~Old(flash, hot[1], hot[2])
  BY DEF Base, ScanPhase, HotLive, HotOld
<1>9. HotLive' => ~(hot[1] = p /\ hot[2] = n)
  BY <1>5, <1>8, ItemAssumption
<1>10. HotLive' => hot'[1] \in Pages /\ hot'[2] \in Slots /\ Copy(flash', hot'[1], hot'[2], HotId)
  BY <1>3, <1>8, <1>9, ItemAssumption
<1>11. HotLive' => ~HotOld'
  BY <1>3, <1>8 DEF HotOld
<1> QED
  BY <1>2, <1>3, <1>4, <1>7, <1>10, <1>11 DEF Base

(* Another slot is seen, and the memory stays as it is.                    *)
LEMMA ScanPasses ==
  ASSUME IInv, pc = "scan", AtItem, scan' \in Scans, scan'.pg = scan.pg, scan'.ix = scan.ix + 1,
         scan'.pass = scan.pass, flash' = flash, Counted(pgLost)', UNCHANGED <<pgRes, hot, pc, req, ret, job>>,
         scan.pass # "dups" => pgLost' = pgLost,
         scan'.lost = IF Zero(flash, scan.pg, scan.ix) THEN scan.lost + 1 ELSE scan.lost,
         ~Torn(flash, scan.pg, scan.ix),
         scan.pass = "mark" => ~Old(flash, scan.pg, scan.ix),
         scan.pass = "dups" => \A i \in Ids : Copy(flash, scan.pg, scan.ix, i) /\ ~Old(flash, scan.pg, scan.ix)
                                                => Single(flash, i)
  PROVE  IInv' /\ SameValues
<1> DEFINE p == scan.pg
           n == scan.ix
<1>1. /\ Base /\ ScanPhase /\ p \in Pages /\ n \in Slots /\ n <= Num(flash, p)
      /\ n + 1 \in 1 .. Num(flash, p) + 1
  BY ScanAt
<1>2. scan \in Scans /\ flash \in Flashes /\ scan.lost \in Nat
  BY <1>1 DEF Base, Scans
<1>3. \A q \in Pages : \A k \in Slots : Seen(q, k)' <=> Seen(q, k) \/ (q = p /\ k = n)
  BY <1>1, <1>2, OneSeen
<1>4. /\ Zero(flash, p, n) => Cardinality(ZerosTo(flash, p, n + 1)) = Cardinality(ZerosTo(flash, p, n)) + 1
      /\ ~Zero(flash, p, n) => ZerosTo(flash, p, n + 1) = ZerosTo(flash, p, n)
  BY <1>1, ZerosStep
<1>5. Cardinality(ZerosTo(flash, p, n)) \in Nat
  <2>1. Cardinality(ZerosTo(flash, p, n)) \in 0 .. PageItems
    BY ZerosCount
  <2> QED
    BY <2>1
<1>6. scan.lost <= Cardinality(ZerosTo(flash, p, n))
  BY <1>1 DEF ScanPhase
<1>7. /\ scan'.lost <= Cardinality(ZerosTo(flash, p, n + 1))
      /\ Cardinality(ZerosTo(flash, p, n)) <= scan.lost => Cardinality(ZerosTo(flash, p, n + 1)) <= scan'.lost
  BY <1>2, <1>4, <1>5, <1>6
<1>8. Base'
  <2>1. hot' \in Nat \X Nat
        /\ (HotLive' => hot'[1] \in Pages /\ hot'[2] \in Slots /\ Copy(flash', hot'[1], hot'[2], HotId))
    BY <1>1 DEF Base, HotLive
  <2> QED
    BY <1>1, <2>1 DEF Base, Counted
<1>9. scan.pass = "mark" => MarkPass'
  BY <1>1, <1>3, <1>7 DEF ScanPhase, MarkPass
<1>10. scan.pass = "dups" => DupsPass'
  BY <1>1, <1>3 DEF ScanPhase, DupsPass
<1>11. scan.pass = "final" => FinalPass'
  BY <1>1, <1>3, <1>7 DEF ScanPhase, FinalPass
<1>12. HotLive' => ~HotOld'
  BY <1>1 DEF HotLive, HotOld, ScanPhase
<1>13. ScanPhase'
  BY <1>1, <1>7, <1>9, <1>10, <1>11, <1>12 DEF ScanPhase
<1> QED
  BY <1>1, <1>8, <1>13, SameFlash DEF IInv

(* An item without its checksum is zeroed.                                 *)
LEMMA ScanTorn ==
  ASSUME IInv, pc = "scan", AtItem, Torn(flash, scan.pg, scan.ix),
         flash' = ZeroItem(flash, <<scan.pg, scan.ix>>),
         pgLost' = [pgLost EXCEPT ![scan.pg] = @ + 1],
         scan' \in Scans, scan'.pg = scan.pg, scan'.ix = scan.ix + 1,
         scan'.lost = scan.lost + 1, scan'.pass = scan.pass, UNCHANGED <<pgRes, hot, pc, req, ret, job>>
  PROVE  IInv' /\ SameValues
<1> DEFINE p == scan.pg
           n == scan.ix
<1>1. /\ Base /\ ScanPhase /\ p \in Pages /\ n \in Slots /\ n <= Num(flash, p)
      /\ n + 1 \in 1 .. Num(flash, p) + 1
  BY ScanAt
<1>2. /\ scan \in Scans /\ flash \in Flashes /\ Paired(flash) /\ scan.lost \in Nat /\ Counted(pgLost)
  BY <1>1, BaseCounted DEF Base, Scans
<1>3. \A q \in Pages : \A k \in Slots : Seen(q, k)' <=> Seen(q, k) \/ (q = p /\ k = n)
  BY <1>1, <1>2, OneSeen
<1>4. ZeroedAt(flash, flash', p, n)
  BY <1>1, <1>2, ZeroedSlot
<1>5. /\ flash' \in Flashes /\ Paired(flash')
      /\ IF pgRes' = 0 THEN \E c \in Pages : Stale(flash', c) ELSE Rests(flash', pgRes')
      /\ hot' \in Nat \X Nat
      /\ HotLive' => hot'[1] \in Pages /\ hot'[2] \in Slots /\ Copy(flash', hot'[1], hot'[2], HotId)
      /\ HotLive' => ~HotOld'
      /\ ~Zero(flash, p, n)
  BY <1>1, <1>4, ScanZeroes
<1>6. /\ \A i \in Ids : Single(flash, i) => Single(flash', i)
      /\ \A i \in Ids : ~Copy(flash, p, n, i) => Keeps(flash, flash', i)
      /\ \A q \in Pages \ {p} : Zeros(flash', q) = Zeros(flash, q)
      /\ ZerosTo(flash', p, n) = ZerosTo(flash, p, n)
  <2> HIDE DEF p, n
  <2> QED
    BY <1>1, <1>4, <1>5, ZeroedKeeps
<1>7. \A i \in Ids : ~Copy(flash, p, n, i)
  BY <1>1, <1>2, Kinds
<1>8. SameValues
  BY <1>2, <1>5, <1>6, <1>7, Unchanged DEF SameValues
<1>9. /\ Num(flash', p) = Num(flash, p)
      /\ Zero(flash', p, n) /\ ~Torn(flash', p, n) /\ ~Old(flash', p, n)
      /\ \A q \in Pages : \A k \in Slots :
           /\ Torn(flash', q, k) => Torn(flash, q, k)
           /\ Old(flash', q, k) => Old(flash, q, k)
           /\ \A j \in Ids : Copy(flash', q, k, j) => Copy(flash, q, k, j) /\ ~(q = p /\ k = n)
           /\ ~Old(flash', q, k) => ~Old(flash, q, k) \/ (q = p /\ k = n)
  BY <1>1, <1>4 DEF ZeroedAt
<1>10. Cardinality(ZerosTo(flash', p, n + 1)) = Cardinality(ZerosTo(flash, p, n)) + 1
  BY <1>1, <1>6, <1>9, ZerosStep
<1>11. Cardinality(ZerosTo(flash, p, n)) \in Nat
  <2>1. Cardinality(ZerosTo(flash, p, n)) \in 0 .. PageItems
    BY ZerosCount
  <2> QED
    BY <2>1
<1>12. scan.lost <= Cardinality(ZerosTo(flash, p, n))
  BY <1>1 DEF ScanPhase
<1>13. /\ scan'.lost <= Cardinality(ZerosTo(flash', p, n + 1))
       /\ Cardinality(ZerosTo(flash, p, n)) <= scan.lost => Cardinality(ZerosTo(flash', p, n + 1)) <= scan'.lost
  BY <1>2, <1>10, <1>11, <1>12
<1>14. Base'
  <2>1. pgLost' \in [Pages -> Nat] /\ \A q \in Pages : pgLost'[q] <= Cardinality(Zeros(flash', q))
    BY <1>1, <1>2, <1>4, <1>5, CountedZero
  <2> QED
    BY <1>1, <1>5, <2>1 DEF Base
<1>15. scan.pass = "mark" => MarkPass'
  <2> SUFFICES ASSUME scan.pass = "mark" PROVE MarkPass'
    OBVIOUS
  <2>1. MarkPass
    BY <1>1 DEF ScanPhase
  <2>2. \A q \in Pages : q < p => q # p
    BY <1>1, PageAssumption DEF Pages
  <2>3. \A q \in Pages : q < p => Cardinality(Zeros(flash', q)) <= pgLost'[q]
    BY <1>2, <1>6, <2>1, <2>2 DEF MarkPass, Counted
  <2>4. \A q \in Pages : \A k \in Slots : Seen(q, k)' => ~Torn(flash', q, k) /\ ~Old(flash', q, k)
    BY <1>3, <1>9, <2>1 DEF MarkPass
  <2>5. Cardinality(ZerosTo(flash', p, n + 1)) <= scan'.lost
    BY <1>1, <1>13, <2>1 DEF MarkPass
  <2> QED
    BY <2>3, <2>4, <2>5 DEF MarkPass
<1>16. scan.pass = "dups" => DupsPass'
  BY <1>1, <1>3, <1>6, <1>9 DEF ScanPhase, DupsPass
<1>17. scan.pass # "final"
  BY <1>1 DEF ScanPhase, FinalPass, NoTorn
<1>18. ScanPhase'
  BY <1>1, <1>5, <1>9, <1>13, <1>15, <1>16, <1>17 DEF ScanPhase
<1> QED
  BY <1>8, <1>14, <1>18 DEF IInv

(* A transferred copy that has a successor is zeroed.                      *)
LEMMA ScanSuccessor ==
  ASSUME IInv, pc = "scan", AtItem, scan.pass = "dups", NEW i \in Ids,
         Copy(flash, scan.pg, scan.ix, i), ~Old(flash, scan.pg, scan.ix),
         NEW q \in Pages, NEW l \in Slots, Copy(flash, q, l, i), Old(flash, q, l),
         flash' = ZeroItem(flash, <<q, l>>),
         NEW lost, Counted(lost), pgLost' = [lost EXCEPT ![q] = @ + 1],
         scan' \in Scans, scan'.pg = scan.pg, scan'.ix = scan.ix + 1,
         scan'.lost = scan.lost, scan'.pass = scan.pass, UNCHANGED <<pgRes, hot, pc, req, ret, job>>
  PROVE  IInv' /\ SameValues
<1> DEFINE p == scan.pg
           n == scan.ix
<1>1. /\ Base /\ ScanPhase /\ p \in Pages /\ n \in Slots /\ n <= Num(flash, p)
      /\ n + 1 \in 1 .. Num(flash, p) + 1
      /\ KeptPage(flash, p) /\ Act(flash, p)
  BY ScanAt
<1>2. /\ scan \in Scans /\ flash \in Flashes /\ Paired(flash) /\ scan.lost \in Nat
  BY <1>1 DEF Base, Scans
<1>3. \A r \in Pages : \A k \in Slots : Seen(r, k)' <=> Seen(r, k) \/ (r = p /\ k = n)
  BY <1>1, <1>2, OneSeen
<1>4. DupsPass
  BY <1>1 DEF ScanPhase
<1>5. scan.lost <= Cardinality(ZerosTo(flash, p, n))
  BY <1>1 DEF ScanPhase
<1>6. pc = "scan" /\ Copy(flash, p, n, i) /\ ~Old(flash, p, n) /\ scan'.pg = p /\ scan'.ix = n + 1 /\ scan'.pass = "dups"
  OBVIOUS
<1>7. ZerosTo(flash, p, n + 1) = ZerosTo(flash, p, n)
  <2>1. ~Zero(flash, p, n)
    BY <1>1, <1>2, <1>6, Kinds
  <2> QED
    BY <1>1, <2>1, ZerosStep
<1> HIDE DEF p, n
<1>8. ZeroedAt(flash, flash', q, l)
  <2>1. l <= Num(flash, q)
    BY DEF Copy
  <2> QED
    BY <1>2, <2>1, ZeroedSlot
<1>9. /\ flash' \in Flashes /\ Paired(flash')
      /\ IF pgRes' = 0 THEN \E c \in Pages : Stale(flash', c) ELSE Rests(flash', pgRes')
      /\ hot' \in Nat \X Nat
      /\ HotLive' => hot'[1] \in Pages /\ hot'[2] \in Slots /\ Copy(flash', hot'[1], hot'[2], HotId)
      /\ HotLive' => ~HotOld'
      /\ ~Zero(flash, q, l)
  BY <1>1, <1>8, ScanZeroes
<1>10. /\ \A j \in Ids : Single(flash, j) => Single(flash', j)
       /\ \A j \in Ids : ~Copy(flash, q, l, j) => Keeps(flash, flash', j)
       /\ \A r \in Pages : KeptPage(flash', r) <=> KeptPage(flash, r)
  BY <1>8, <1>9, ZeroedKeeps
<1>11. \A m : Cardinality(ZerosTo(flash, q, m)) <= Cardinality(ZerosTo(flash', q, m))
  BY <1>8, <1>9, ZeroedKeeps
<1>12. \A r \in Pages \ {q} : \A m : ZerosTo(flash', r, m) = ZerosTo(flash, r, m)
  <2>1. \A r \in Pages \ {q} : \A k \in Slots : Zero(flash', r, k) <=> Zero(flash, r, k)
    BY <1>8 DEF ZeroedAt
  <2> QED
    BY <2>1, ZerosSame
<1>13. \A j \in Ids : Copy(flash, q, l, j) <=> j = i
  BY <1>2, Kinds
<1>14. /\ \A r \in Pages : Num(flash', r) = Num(flash, r) /\ (Act(flash', r) <=> Act(flash, r))
       /\ \A r \in Pages : \A k \in Slots :
            /\ Torn(flash', r, k) => Torn(flash, r, k)
            /\ Old(flash', r, k) <=> Old(flash, r, k) /\ ~(r = q /\ k = l)
            /\ \A j \in Ids : /\ Copy(flash', r, k, j) <=> Copy(flash, r, k, j) /\ ~(r = q /\ k = l)
                              /\ Copy(flash', r, k, j) => Val(flash', r, k) = Val(flash, r, k)
  BY <1>8 DEF ZeroedAt
(* The value is that of the new copy.                                      *)
<1>15. Keeps(flash, flash', i)
  <2>1. KeptCopy(flash, p, n, i)
    BY <1>1, <1>6 DEF KeptCopy
  <2>2. \A r \in Pages : \A k \in Slots :
          /\ KeptCopy(flash', r, k, i) /\ ~Old(flash', r, k) <=> KeptCopy(flash, r, k, i) /\ ~Old(flash, r, k)
          /\ KeptCopy(flash', r, k, i) /\ ~Old(flash', r, k) => Val(flash', r, k) = Val(flash, r, k)
    BY <1>10, <1>14 DEF KeptCopy
  <2> QED
    BY <1>1, <1>2, <1>6, <2>1, <2>2, KeepsNew
<1>16. SameValues
  <2>1. \A j \in Ids : Keeps(flash, flash', j)
    BY <1>10, <1>13, <1>15
  <2> QED
    BY <1>2, <1>9, <2>1, Unchanged DEF SameValues
<1>17. Single(flash', i)
  <2>1. \A r \in Pages : \A k \in Slots : Act(flash', r) /\ Copy(flash', r, k, i) => ~Old(flash', r, k)
    <3>1. ASSUME NEW r \in Pages, NEW k \in Slots, Act(flash', r), Copy(flash', r, k, i), Old(flash', r, k)
          PROVE  FALSE
      <4>1. Act(flash, r) /\ Copy(flash, r, k, i) /\ Old(flash, r, k) /\ ~(r = q /\ k = l)
        BY <1>14, <3>1
      <4>2. Act(flash, q)
        <5>1. Num(flash, q) # 0
          BY PageAssumption DEF Copy, Slots
        <5>2. Filled(flash)
          BY ScanAt
        <5> QED
          BY <5>1, <5>2 DEF Filled
      <4> QED
        BY <1>2, <4>1, <4>2 DEF Paired
    <3> QED
      BY <3>1
  <2> QED
    BY <1>9, <2>1 DEF Paired, Single
<1>18. DupsPass'
  <2>1. ASSUME NEW r \in Pages, NEW k \in Slots, Seen(r, k)' PROVE ~Torn(flash', r, k)
    <3>1. CASE Seen(r, k)
      BY <1>4, <1>14, <3>1 DEF DupsPass
    <3>2. CASE r = p /\ k = n
      BY <1>1, <1>2, <1>6, <1>14, <3>2, Kinds
    <3> QED
      BY <1>3, <2>1, <3>1, <3>2
  <2>2. ASSUME NEW r \in Pages, NEW k \in Slots, Seen(r, k)', NEW j \in Ids, Copy(flash', r, k, j), ~Old(flash', r, k)
        PROVE  Single(flash', j)
    <3>1. Copy(flash, r, k, j) /\ ~Old(flash, r, k)
      BY <1>14, <2>2
    <3>2. CASE Seen(r, k)
      BY <1>4, <1>10, <3>1, <3>2 DEF DupsPass
    <3>3. CASE r = p /\ k = n
      <4>1. j = i
        BY <1>1, <1>2, <1>6, <3>1, <3>3, Kinds
      <4> QED
        BY <1>17, <4>1
    <3> QED
      BY <1>3, <2>2, <3>2, <3>3
  <2> QED
    BY <2>1, <2>2 DEF DupsPass
<1>19. Base'
  <2>1. pgLost' \in [Pages -> Nat] /\ \A r \in Pages : pgLost'[r] <= Cardinality(Zeros(flash', r))
    BY <1>1, <1>8, <1>9, CountedZero
  <2> QED
    BY <1>1, <1>9, <2>1 DEF Base
<1>20. scan'.lost <= Cardinality(ZerosTo(flash', p, n + 1))
  <2>1. Cardinality(ZerosTo(flash, p, n + 1)) <= Cardinality(ZerosTo(flash', p, n + 1))
    <3>1. CASE p = q
      BY <1>11, <3>1
    <3>2. CASE p # q
      <4>1. ZerosTo(flash', p, n + 1) = ZerosTo(flash, p, n + 1)
        BY <1>1, <1>12, <3>2
      <4>2. Cardinality(ZerosTo(flash, p, n + 1)) \in 0 .. PageItems
        BY ZerosCount
      <4> QED
        BY <4>1, <4>2, PageAssumption
    <3> QED
      BY <3>1, <3>2
  <2>2. /\ Cardinality(ZerosTo(flash, p, n + 1)) \in 0 .. PageItems
        /\ Cardinality(ZerosTo(flash', p, n + 1)) \in 0 .. PageItems
    BY ZerosCount
  <2> QED
    BY <1>2, <1>5, <1>7, <2>1, <2>2, PageAssumption
<1>21. ScanPhase'
  BY <1>1, <1>6, <1>9, <1>14, <1>18, <1>20 DEF ScanPhase
<1> QED
  BY <1>6, <1>16, <1>19, <1>21 DEF IInv

(* A transferred copy restarts the scan, or ends the last one of its page. *)
LEMMA ScanOld ==
  ASSUME IInv, pc = "scan", AtItem, scan.pass # "dups", Old(flash, scan.pg, scan.ix),
         scan' = IF scan.pass = "mark" THEN [NoScan EXCEPT !.pass = "dups"]
                 ELSE [scan EXCEPT !.pg = @ + 1, !.ix = 1, !.lost = 0],
         UNCHANGED <<flash, pgRes, pgLost, hot, pc, req, ret, job>>
  PROVE  IInv' /\ SameValues
<1>1. /\ Base /\ ScanPhase /\ scan.pg \in Pages /\ scan.ix \in Slots
  BY ScanAt
<1>2. flash \in Flashes /\ scan \in Scans
  BY <1>1 DEF Base
<1>3. /\ hot' \in Nat \X Nat
      /\ (HotLive' => hot'[1] \in Pages /\ hot'[2] \in Slots /\ Copy(flash', hot'[1], hot'[2], HotId))
      /\ (HotLive' => ~HotOld')
  BY <1>1 DEF Base, ScanPhase, HotLive, HotOld
<1>4. /\ req' = None
      /\ IF pgRes' = 0 THEN \E c \in Pages : Stale(flash', c) ELSE Rests(flash', pgRes')
  BY <1>1 DEF ScanPhase
<1>5. CASE scan.pass = "mark"
  <2>1. scan' \in Scans /\ scan'.pg = 1 /\ scan'.ix = 1 /\ scan'.lost = 0 /\ scan'.pass = "dups"
    BY <1>5 DEF NoScan, Scans
  <2>2. 1 \in Pages /\ 1 \in 1 .. NPages + 1 /\ \A q \in Pages : \A k \in Slots : ~(q < 1) /\ ~(k < 1)
    BY PageAssumption DEF Pages, Slots
  <2>3. DupsPass'
    BY <2>1, <2>2 DEF DupsPass, Seen
  <2>4. Num(flash', 1) \in 0 .. PageItems
    BY <1>2, <2>2, Types
  <2>5. 1 \in 1 .. Num(flash', 1) + 1
    BY <2>4, PageAssumption
  <2>6. 0 <= Cardinality(ZerosTo(flash', 1, 1))
    <3>1. Cardinality(ZerosTo(flash', 1, 1)) \in 0 .. PageItems
      BY ZerosCount
    <3> QED
      BY <3>1, PageAssumption
  <2>7. ScanPhase'
    BY <1>3, <1>4, <2>1, <2>2, <2>3, <2>5, <2>6 DEF ScanPhase
  <2>8. Base'
    BY <1>1, <1>3, <2>1 DEF Base
  <2> QED
    BY <2>7, <2>8, SameFlash DEF IInv
<1>6. CASE scan.pass # "mark"
  <2>1. scan.pass = "final" /\ FinalPass
    BY <1>1, <1>2, <1>6 DEF Scans, ScanPhase
  <2>2. /\ scan' \in Scans /\ scan'.pg = scan.pg + 1 /\ scan'.ix = 1 /\ scan'.lost = 0
        /\ scan'.pass = scan.pass /\ scan'.pg \in 1 .. NPages + 1
        /\ scan'.pg \in Pages => /\ scan'.ix \in 1 .. Num(flash', scan'.pg) + 1
                                 /\ Cardinality(ZerosTo(flash', scan'.pg, scan'.ix)) = 0
        /\ \A q \in Pages : q < scan'.pg <=> q < scan.pg \/ q = scan.pg
    BY <1>1, <1>6, NextPage
  <2>3. FinalPass'
    BY <1>1, <2>1, <2>2 DEF FinalPass
  <2>4. ScanPhase'
    BY <1>3, <1>4, <2>1, <2>2, <2>3 DEF ScanPhase
  <2>5. Base'
    BY <1>1, <1>3, <2>2 DEF Base
  <2> QED
    BY <2>4, <2>5, SameFlash DEF IInv
<1> QED
  BY <1>5, <1>6

LEMMA ScanItemStep == ASSUME IInv, ScanItem PROVE IInv' /\ SameValues
<1> DEFINE p == scan.pg
           n == scan.ix
           it == ItemAt(<<p, n>>)
           before == FirstCopy(it.id, TRUE)
           lost == LostAfterFind(pgLost, it.id, TRUE)
           step == [scan EXCEPT !.ix = @ + 1]
           more == [step EXCEPT !.lost = @ + 1]
<1>1. pc = "scan" /\ AtItem /\ UNCHANGED <<pgRes, hot, pc, req, ret, job>>
  BY DEF ScanItem
<1>2. /\ Base /\ ScanPhase /\ p \in Pages /\ n \in Slots /\ n <= Num(flash, p)
      /\ Act(flash, p) /\ Filled(flash)
  BY <1>1, ScanAt
<1>3. flash \in Flashes /\ Paired(flash) /\ scan \in Scans /\ Counted(pgLost)
  BY <1>2, BaseCounted DEF Base
<1>4. /\ step \in Scans /\ step.pg = p /\ step.ix = n + 1
      /\ step.lost = scan.lost /\ step.pass = scan.pass
      /\ more \in Scans /\ more.pg = p /\ more.ix = n + 1
      /\ more.lost = scan.lost + 1 /\ more.pass = scan.pass
  BY <1>3, OneSlot
<1>5. it = flash[p].items[n]
  BY DEF ItemAt
<1>6. /\ it = Zeroed <=> Zero(flash, p, n)
      /\ it.old <=> Old(flash, p, n)
      /\ \A i \in Ids : Copy(flash, p, n, i) <=> it.chk /\ it.id = i
  BY <1>2, <1>5 DEF Zero, Old, Copy
<1>7. it.chk => it # Zeroed /\ it.id \in Ids /\ Copy(flash, p, n, it.id)
  <2>1. it \in Cells
    <3> HIDE DEF it, p, n
    <3>1. \A k \in Slots : k <= Num(flash, p) => flash[p].items[k] \in Cells
      BY <1>2, <1>3, Types
    <3> QED
      BY <1>2, <1>5, <3>1
  <2>2. it.chk => it # Zeroed /\ it.id \in Ids
    <3>1. it = Zeroed \/ it \in Headers \/ it \in Wholes
      BY <2>1 DEF Cells
    <3> HIDE DEF it
    <3> QED
      BY <3>1, CellKinds
  <2> QED
    BY <1>6, <2>2
<1>8. it # Zeroed /\ ~it.chk => Torn(flash, p, n)
  BY <1>2, <1>3, <1>6, Kinds
<1>9. /\ it = Zeroed => scan' = more /\ UNCHANGED <<flash, pgLost>>
      /\ it # Zeroed /\ ~it.chk =>
           /\ flash' = ZeroItem(flash, <<p, n>>)
           /\ pgLost' = [pgLost EXCEPT ![p] = @ + 1]
           /\ scan' = more
      /\ it.chk /\ scan.pass = "dups" =>
           /\ scan' = step
           /\ it.old => UNCHANGED <<flash, pgLost>>
           /\ ~it.old /\ before = NoItem => pgLost' = lost /\ UNCHANGED flash
           /\ ~it.old /\ before # NoItem => /\ flash' = ZeroItem(flash, before)
                                            /\ pgLost' = [lost EXCEPT ![before[1]] = @ + 1]
      /\ it.chk /\ scan.pass # "dups" =>
           /\ ~it.old => scan' = step
           /\ it.old => scan' = IF scan.pass = "mark" THEN [NoScan EXCEPT !.pass = "dups"]
                                ELSE [scan EXCEPT !.pg = @ + 1, !.ix = 1, !.lost = 0]
           /\ UNCHANGED <<flash, pgLost>>
  BY <1>7 DEF ScanItem, NextPass
<1> HIDE DEF step, more, before, lost, it
<1>10. CASE it = Zeroed
  <2>1. Zero(flash, p, n) /\ ~Torn(flash, p, n) /\ ~Old(flash, p, n) /\ \A i \in Ids : ~Copy(flash, p, n, i)
    BY <1>2, <1>3, <1>6, <1>10, Kinds
  <2>2. scan' = more /\ flash' = flash /\ pgLost' = pgLost
    BY <1>9, <1>10
  <2>3. Counted(pgLost)'
    BY <1>3, <2>2 DEF Counted
  <2> QED
    BY <1>1, <1>4, <2>1, <2>2, <2>3, ScanPasses
<1>11. CASE it # Zeroed /\ ~it.chk
  BY <1>1, <1>4, <1>8, <1>9, <1>11, ScanTorn
<1>12. CASE it.chk /\ scan.pass = "dups"
  <2>1. ~Torn(flash, p, n) /\ ~Zero(flash, p, n)
    BY <1>2, <1>3, <1>7, <1>12, Kinds
  <2>2. Counted(lost)
    BY <1>3, CountedFind DEF lost
  <2>3. /\ before = NoItem =>
             \A q \in Pages : \A k \in Slots :
               ~(Act(flash, q) /\ Copy(flash, q, k, it.id) /\ Old(flash, q, k))
        /\ \A q \in Pages : \A k \in Slots :
             Act(flash, q) /\ Copy(flash, q, k, it.id) /\ Old(flash, q, k) => before = <<q, k>>
    BY <1>2, <1>3, <1>7, <1>12, Found, ZenonT(60) DEF before
  <2>4. before # NoItem => \E q \in Pages : \E k \in Slots : 
             Act(flash, q) /\ Copy(flash, q, k, it.id) /\ Old(flash, q, k)
    BY <1>2, <1>3, <1>7, <1>12, Found DEF before
  <2>5. CASE it.old
    <3>1. scan' = step /\ flash' = flash /\ pgLost' = pgLost /\ Old(flash, p, n)
      BY <1>6, <1>9, <1>12, <2>5
    <3>2. Counted(pgLost)'
      BY <1>3, <3>1 DEF Counted
    <3> QED
      BY <1>1, <1>4, <1>12, <2>1, <3>1, <3>2, ScanPasses
  <2>6. CASE ~it.old /\ before = NoItem
    <3>1. scan' = step /\ flash' = flash /\ pgLost' = lost
      BY <1>9, <1>12, <2>6
    <3>2. Counted(pgLost)'
      BY <2>2, <3>1 DEF Counted
    <3>3. \A i \in Ids : Copy(flash, p, n, i) => Single(flash, i)
      <4>1. Single(flash, it.id)
        BY <1>3, <1>7, <1>12, <2>3, <2>6 DEF Single, Paired
      <4> QED
        BY <1>6, <4>1
    <3> QED
      BY <1>1, <1>4, <1>12, <2>1, <3>1, <3>2, <3>3, ScanPasses
  <2>7. CASE ~it.old /\ before # NoItem
    <3>1. PICK q \in Pages, k \in Slots :
            Act(flash, q) /\ Copy(flash, q, k, it.id) /\ Old(flash, q, k)
      BY <2>4, <2>7
    <3>2. before = <<q, k>>
      BY <2>3, <3>1
    <3>3. /\ scan' = step /\ flash' = ZeroItem(flash, <<q, k>>)
          /\ pgLost' = [lost EXCEPT ![q] = @ + 1]
      BY <1>9, <1>12, <2>7, <3>2
    <3>4. ~Old(flash, p, n) /\ Copy(flash, p, n, it.id) /\ it.id \in Ids
      BY <1>6, <1>7, <1>12, <2>7
    <3> QED
      BY <1>1, <1>4, <1>12, <2>2, <3>1, <3>3, <3>4, ScanSuccessor
  <2> QED
    BY <2>5, <2>6, <2>7
<1>13. CASE it.chk /\ scan.pass # "dups"
  <2>1. ~Torn(flash, p, n) /\ ~Zero(flash, p, n)
    BY <1>2, <1>3, <1>7, <1>13, Kinds
  <2>2. flash' = flash /\ pgLost' = pgLost
    BY <1>9, <1>13
  <2>3. CASE it.old
    <3>1. Old(flash, p, n)
      BY <1>6, <2>3
    <3>2. scan' = IF scan.pass = "mark" THEN [NoScan EXCEPT !.pass = "dups"]
                  ELSE [scan EXCEPT !.pg = @ + 1, !.ix = 1, !.lost = 0]
      BY <1>9, <1>13, <2>3
    <3> QED
      BY <1>1, <1>13, <2>2, <3>1, <3>2, ScanOld
  <2>4. CASE ~it.old
    <3>1. scan' = step /\ ~Old(flash, p, n)
      BY <1>6, <1>9, <1>13, <2>4
    <3>2. Counted(pgLost)'
      BY <1>3, <2>2 DEF Counted
    <3> QED
      BY <1>1, <1>4, <1>13, <2>1, <2>2, <3>1, <3>2, ScanPasses
  <2> QED
    BY <2>3, <2>4
<1> QED
  BY <1>7, <1>10, <1>11, <1>12, <1>13

(* At its end no item is torn and each is there once.  Without a reserve a *)
(* page is lost altogether.                                                *)
LEMMA ScanDone ==
  ASSUME Base, ScanPhase, scan.pg \notin Pages
  PROVE  /\ NoTorn(flash) /\ \A i \in Ids : Single(flash, i)
         /\ pgRes = 0 /\ scan.pass # "dups" =>
              /\ \A p \in Pages : Act(flash, p) /\ ~Xf(flash, p)
              /\ MostLost \in Pages /\ \A k \in Slots : Zero(flash, MostLost, k)
<1>1. flash \in Flashes /\ Paired(flash) /\ scan \in Scans /\ Counted(pgLost)
  BY BaseCounted DEF Base
<1>2. \A p \in Pages : p < scan.pg
  BY PageAssumption DEF ScanPhase, Pages
<1>3. \A p \in Pages : \A k \in Slots : Seen(p, k)
  BY <1>2 DEF Seen
<1>4. CASE scan.pass = "dups"
  <2>1. DupsPass
    BY <1>4 DEF ScanPhase
  <2>2. NoTorn(flash)
    BY <1>3, <2>1 DEF DupsPass, NoTorn
  <2>3. ASSUME NEW i \in Ids PROVE Single(flash, i)
    <3>1. CASE \E p \in Pages : \E k \in Slots : Copy(flash, p, k, i) /\ ~Old(flash, p, k)
      BY <1>3, <2>1, <3>1 DEF DupsPass
    <3>2. CASE \A p \in Pages : \A k \in Slots : Copy(flash, p, k, i) => Old(flash, p, k)
      BY <1>1, <3>2 DEF Single, Paired
    <3> QED
      BY <3>1, <3>2
  <2> QED
    BY <1>4, <2>2, <2>3
<1>5. CASE scan.pass # "dups"
  <2>1. NoTorn(flash) /\ \A i \in Ids : Single(flash, i)
    <3>1. CASE scan.pass = "mark"
      <4>1. \A p \in Pages : \A k \in Slots : ~Torn(flash, p, k) /\ ~Old(flash, p, k)
        BY <1>3, <3>1 DEF ScanPhase, MarkPass
      <4>2. \A i \in Ids : Single(flash, i)
        BY <1>1, <4>1 DEF Single, Paired
      <4> QED
        BY <4>1, <4>2 DEF NoTorn
    <3>2. CASE scan.pass = "final"
      BY <3>2 DEF ScanPhase, FinalPass
    <3> QED
      BY <1>1, <1>5, <3>1, <3>2 DEF Scans
  <2>2. ASSUME NEW p \in Pages, \A k \in Slots : ~Old(flash, p, k)
        PROVE  Cardinality(Zeros(flash, p)) <= pgLost[p]
    <3>1. CASE scan.pass = "mark"
      BY <1>2, <3>1 DEF ScanPhase, MarkPass
    <3>2. CASE scan.pass = "final"
      BY <1>2, <2>2, <3>2 DEF ScanPhase, FinalPass
    <3> QED
      BY <1>1, <1>5, <3>1, <3>2 DEF Scans
  <2>3. ASSUME pgRes = 0
        PROVE  /\ \A p \in Pages : Act(flash, p) /\ ~Xf(flash, p)
               /\ MostLost \in Pages /\ \A k \in Slots : Zero(flash, MostLost, k)
    <3>1. PICK c \in Pages : Stale(flash, c)
      BY <2>3 DEF ScanPhase
    <3>2. /\ \A p \in Pages : Act(flash, p) /\ ~Xf(flash, p)
          /\ Num(flash, c) = PageItems
          /\ \A k \in Slots : \A i \in Ids : Copy(flash, c, k, i) =>
               \E q \in Pages : \E l \in Slots : q # c /\ Copy(flash, q, l, i)
      BY <3>1 DEF Stale, Superseded
    <3>3. \A k \in Slots : \A i \in Ids : ~Copy(flash, c, k, i)
      BY <2>1, <3>2 DEF Single
    <3>4. \A k \in Slots : k <= Num(flash, c)
      BY <3>2, PageAssumption DEF Slots
    <3>5. \A k \in Slots : Zero(flash, c, k) /\ ~Old(flash, c, k)
      BY <1>1, <2>1, <3>3, <3>4, Kinds DEF NoTorn
    <3>6. Zeros(flash, c) = Slots
      BY <3>5 DEF Zeros
    <3>7. PageItems <= pgLost[c]
      BY <2>2, <3>5, <3>6, SlotsFinite
    <3> QED
      BY <1>1, <3>2, <3>7, LostPage
  <2> QED
    BY <2>1, <2>3
<1> QED
  BY <1>4, <1>5

(* A page that is lost altogether is erased.                               *)
LEMMA ErasedLost ==
  ASSUME NEW f \in Flashes, NEW p \in Pages, \A k \in Slots : Zero(f, p, k),
         \A q \in Pages : Act(f, q) /\ ~Xf(f, q), NEW g, g = ErasePage(f, p)
  PROVE  /\ g \in Flashes /\ (Paired(f) => Paired(g)) /\ Rests(g, p)
         /\ \A i \in Ids : Keeps(f, g, i) /\ (Single(f, i) => Single(g, i))
         /\ NoTorn(f) => NoTorn(g)
         /\ \A q \in Pages \ {p} : SamePage(f, g, q) /\ Zeros(g, q) = Zeros(f, q)
<1>1. /\ g \in Flashes /\ \A q \in Pages \ {p} : SamePage(f, g, q)
      /\ Num(g, p) = 0 /\ ~Act(g, p) /\ ~Xf(g, p)
      /\ \A k \in Slots : /\ ~Zero(g, p, k) /\ ~Torn(g, p, k) /\ ~Old(g, p, k)
                          /\ \A i \in Ids : ~Copy(g, p, k, i)
  BY Erasing
<1>2. \A q \in Pages \ {p} :
        /\ Act(g, q) <=> Act(f, q)
        /\ Xf(g, q) <=> Xf(f, q)
        /\ \A k \in Slots :
             /\ Zero(g, q, k) <=> Zero(f, q, k)
             /\ Torn(g, q, k) <=> Torn(f, q, k)
             /\ Old(g, q, k) <=> Old(f, q, k)
             /\ Val(g, q, k) = Val(f, q, k)
             /\ \A i \in Ids : Copy(g, q, k, i) <=> Copy(f, q, k, i)
  BY <1>1 DEF SamePage, SameSlots
<1>3. Fewer(f, g)
  BY <1>1, <1>2 DEF Fewer
<1>4. \A k \in Slots : \A i \in Ids : ~Copy(f, p, k, i)
  BY Kinds
<1>5. \A q \in Pages \ {p} : KeptPage(g, q) <=> KeptPage(f, q)
  BY <1>2 DEF KeptPage
<1>6. ASSUME NEW i \in Ids PROVE Keeps(f, g, i)
  <2>1. \A q \in Pages : \A k \in Slots :
          /\ KeptCopy(g, q, k, i) <=> KeptCopy(f, q, k, i)
          /\ KeptCopy(f, q, k, i) => (Old(g, q, k) <=> Old(f, q, k)) /\ Val(g, q, k) = Val(f, q, k)
    BY <1>1, <1>2, <1>4, <1>5 DEF KeptCopy
  <2> QED
    BY <2>1, KeepsSame
<1>7. \A q \in Pages \ {p} : Zeros(g, q) = Zeros(f, q)
  BY <1>2, ZerosSame
<1>8. Rests(g, p)
  BY <1>1, <1>2 DEF Rests, NoXfer
<1>9. NoTorn(f) => NoTorn(g)
  BY <1>1, <1>2 DEF NoTorn
<1> QED
  BY <1>1, <1>3, <1>6, <1>7, <1>8, <1>9, FewerPaired

LEMMA ScanEndStep == ASSUME IInv, ScanEnd PROVE IInv' /\ SameValues
<1>1. /\ pc = "scan" /\ scan.pg \notin Pages /\ Base /\ ScanPhase
      /\ UNCHANGED <<hot, req, ret>>
  BY DEF IInv, ScanEnd
<1>2. /\ NoTorn(flash) /\ \A i \in Ids : Single(flash, i)
      /\ pgRes = 0 /\ scan.pass # "dups" =>
           /\ \A p \in Pages : Act(flash, p) /\ ~Xf(flash, p)
           /\ MostLost \in Pages /\ \A k \in Slots : Zero(flash, MostLost, k)
  BY <1>1, ScanDone
<1>3. flash \in Flashes /\ Paired(flash) /\ req = None
  BY <1>1 DEF Base, ScanPhase
<1>4. CASE scan.pass = "dups"
  <2>1. scan' = [NoScan EXCEPT !.pass = "final"] /\ UNCHANGED <<flash, pgRes, pgLost, pc, job>>
    BY <1>4 DEF ScanEnd
  <2>2. scan' \in Scans /\ scan'.pg = 1 /\ scan'.ix = 1 /\ scan'.lost = 0 /\ scan'.pass = "final"
    BY <2>1 DEF NoScan, Scans
  <2>3. 1 \in Pages /\ 1 \in 1 .. NPages + 1 /\ \A q \in Pages : ~(q < 1)
    BY PageAssumption DEF Pages
  <2>4. Num(flash', 1) \in 0 .. PageItems
    BY <1>3, <2>1, <2>3, Types
  <2>5. 1 \in 1 .. Num(flash', 1) + 1
    BY <2>4, PageAssumption
  <2>6. Cardinality(ZerosTo(flash', 1, 1)) = 0
    BY <1>3, <2>1, <2>3, ZerosEnds, FS_EmptySet
  <2>7. FinalPass'
    BY <1>2, <2>1, <2>2, <2>3, <2>6 DEF FinalPass
  <2>8. HotLive' => ~HotOld'
    BY <1>1, <2>1 DEF ScanPhase, HotLive, HotOld
  <2>9. /\ req' = None
        /\ IF pgRes' = 0 THEN \E c \in Pages : Stale(flash', c) ELSE Rests(flash', pgRes')
    BY <1>1, <2>1 DEF ScanPhase
  <2>10. ScanPhase'
    BY <2>2, <2>3, <2>5, <2>6, <2>7, <2>8, <2>9 DEF ScanPhase
  <2>11. Base'
    <3>1. HotLive' => hot'[1] \in Pages /\ hot'[2] \in Slots /\ Copy(flash', hot'[1], hot'[2], HotId)
      BY <1>1, <2>1 DEF Base, HotLive
    <3> QED
      BY <1>1, <2>1, <2>2, <3>1 DEF Base
  <2> QED
    BY <1>1, <2>1, <2>10, <2>11, SameFlash DEF IInv
<1>5. CASE scan.pass # "dups"
  <2>1. /\ scan' = NoScan /\ job' = NoJob /\ pc' = "ready"
        /\ pgRes # 0 => UNCHANGED <<flash, pgRes, pgLost>>
        /\ pgRes = 0 => /\ pgRes' = MostLost
                        /\ flash' = ErasePage(flash, MostLost)
                        /\ pgLost' = [pgLost EXCEPT ![MostLost] = 0]
    BY <1>5 DEF ScanEnd
  <2>2. CASE pgRes # 0
    <3>1. UNCHANGED <<flash, pgRes, pgLost>>
      BY <2>1, <2>2
    <3>2. Rest'
      BY <1>1, <1>2, <2>2, <3>1 DEF ScanPhase, Rest
    <3>3. Base'
      <4>1. HotLive' => hot'[1] \in Pages /\ hot'[2] \in Slots /\ Copy(flash', hot'[1], hot'[2], HotId)
        BY <1>1, <3>1 DEF Base, HotLive
      <4> QED
        BY <1>1, <2>1, <3>1, <4>1, NoJobIn, NoScanIn DEF Base
    <3> QED
      BY <1>1, <1>3, <2>1, <3>1, <3>2, <3>3, SameFlash DEF IInv
  <2>3. CASE pgRes = 0
    <3> DEFINE m == MostLost
    <3>1. /\ m \in Pages /\ \A k \in Slots : Zero(flash, m, k)
          /\ \A q \in Pages : Act(flash, q) /\ ~Xf(flash, q)
      BY <1>2, <1>5, <2>3
    <3>2. /\ pgRes' = m /\ flash' = ErasePage(flash, m) /\ pgLost' = [pgLost EXCEPT ![m] = 0]
      BY <2>1, <2>3
    <3> HIDE DEF m
    <3>3. /\ flash' \in Flashes /\ Paired(flash') /\ Rests(flash', m)
          /\ \A i \in Ids : Keeps(flash, flash', i) /\ Single(flash', i)
          /\ NoTorn(flash')
          /\ \A q \in Pages \ {m} : SamePage(flash, flash', q) /\ Zeros(flash', q) = Zeros(flash, q)
      BY <1>2, <1>3, <3>1, <3>2, ErasedLost
    <3>4. SameValues
      BY <1>3, <3>3, Unchanged DEF SameValues
    <3>5. Rest'
      BY <3>2, <3>3 DEF Rest
    <3>6. HotLive' => hot'[1] \in Pages /\ hot'[2] \in Slots /\ Copy(flash', hot'[1], hot'[2], HotId)
      <4>1. HotLive' => /\ hot' = hot /\ hot[1] \in Pages /\ hot[2] \in Slots
                        /\ Copy(flash, hot[1], hot[2], HotId)
        BY <1>1 DEF Base, HotLive
      <4>2. HotLive' => hot[1] # m
        BY <1>3, <3>1, <4>1, Kinds, ItemAssumption
      <4> QED
        BY <3>3, <4>1, <4>2, ItemAssumption DEF SamePage, SameSlots
    <3>7. pgLost' \in [Pages -> Nat] /\ \A q \in Pages : pgLost'[q] <= Cardinality(Zeros(flash', q))
      <4>1. Cardinality(Zeros(flash', m)) \in 0 .. PageItems
        BY ZerosCount
      <4> QED
        BY <1>1, <3>1, <3>2, <3>3, <4>1, PageAssumption DEF Base
    <3>8. pgRes' \in 0 .. NPages
      BY <3>1, <3>2, PageAssumption DEF Pages
    <3>9. Base'
      BY <1>1, <2>1, <3>3, <3>6, <3>7, <3>8, NoJobIn, NoScanIn DEF Base
    <3> QED
      BY <1>1, <1>3, <2>1, <3>4, <3>5, <3>9 DEF IInv
  <2> QED
    BY <2>2, <2>3
<1> QED
  BY <1>4, <1>5

-----------------------------------------------------------------------------
(* A loss of power.                                                        *)

LEMMA RestsOpen == ASSUME NEW f, NEW r, Rests(f, r) PROVE Open(f)
  BY DEF Rests, Open

(* It finds the pages in a state from which the power-up can go on.        *)
LEMMA AlwaysSafe == ASSUME IInv PROVE Safe(flash)
<1>1. Base /\ flash \in Flashes /\ Paired(flash)
  BY DEF IInv, Base
<1>2. ASSUME Rests(flash, pgRes) PROVE Safe(flash)
  BY <1>1, <1>2, RestsOpen DEF Safe
<1>3. ASSUME Moving(flash, job.com, pgRes) PROVE Safe(flash)
  BY <1>1, <1>3 DEF Safe, Moving
<1>4. CASE pc = "pages"
  BY <1>4 DEF IInv, PagesPhase
<1>5. CASE pc = "scan"
  <2>1. ScanPhase
    BY <1>5 DEF IInv
  <2> QED
    BY <1>1, <1>2, <2>1 DEF ScanPhase, Safe
<1>6. CASE pc \in {"ready", "find", "xfer"}
  BY <1>2, <1>6 DEF IInv, Rest
<1>7. CASE pc = "compact"
  BY <1>3, <1>7 DEF IInv, CompactPhase, Compacts
<1>8. CASE pc \in {"header", "mark", "data"}
  <2>1. Settled
    BY <1>8 DEF IInv, HeaderPhase, DataPhase
  <2> QED
    BY <1>2, <1>3, <2>1 DEF Settled, Compacts
<1>9. CASE pc = "use"
  BY <1>3, <1>9 DEF IInv, UsePhase, Compacts
<1>10. CASE pc = "erase"
  <2>1. Moved(flash, job.com)
    BY <1>10 DEF IInv, ErasePhase
  <2> QED
    BY <1>1, <2>1 DEF Safe, Moved
<1>11. CASE pc \in {"zero", "return"}
  BY <1>2, <1>11 DEF IInv, ZeroPhase, ReturnPhase, Rest
<1> QED
  BY <1>1, <1>4, <1>5, <1>6, <1>7, <1>8, <1>9, <1>10, <1>11 DEF Base

(* The erasure of a page whose items are moved is cut: its copies may be   *)
(* kept again, but their successors are there.                             *)
LEMMA CutMoved ==
  ASSUME NEW f \in Flashes, Paired(f), NEW c, Moved(f, c), NEW rest \in Remains(f[c]),
         NEW g, g = PutPage(f, c, rest)
  PROVE  Safe(g) /\ \A i \in Ids : Keeps(f, g, i)
<1>1. /\ c \in Pages /\ \A p \in Pages : Act(f, p) /\ (Xf(f, p) <=> p = c)
      /\ Superseded(f, c)
  BY DEF Moved
<1>2. /\ g \in Flashes /\ \A q \in Pages : SameSlots(f, g, q)
      /\ \A q \in Pages : Xf(g, q) <=> Xf(f, q) /\ q # c
      /\ \A q \in Pages \ {c} : Act(g, q) <=> Act(f, q)
  BY <1>1, Cutting
<1>3. /\ \A q \in Pages : Num(g, q) = Num(f, q)
      /\ \A q \in Pages : \A k \in Slots :
           /\ Old(g, q, k) <=> Old(f, q, k)
           /\ Val(g, q, k) = Val(f, q, k)
           /\ \A i \in Ids : Copy(g, q, k, i) <=> Copy(f, q, k, i)
  BY <1>2 DEF SameSlots
<1>4. NoXfer(g) /\ \A q \in Pages \ {c} : Act(g, q)
  BY <1>1, <1>2 DEF NoXfer
<1>5. Paired(g)
  <2>1. Fewer(f, g)
    BY <1>1, <1>3 DEF Fewer
  <2> QED
    BY <2>1, FewerPaired
<1>6. Safe(g)
  <2>1. CASE Act(g, c)
    <3>1. Superseded(g, c)
      BY <1>1, <1>3 DEF Superseded
    <3>2. Stale(g, c)
      BY <1>1, <1>4, <2>1, <3>1 DEF Stale, NoXfer
    <3> QED
      BY <1>1, <1>2, <1>5, <3>2 DEF Safe
  <2>2. CASE ~Act(g, c)
    <3>1. Open(g)
      BY <1>1, <1>4, <2>2 DEF Open
    <3> QED
      BY <1>2, <1>5, <3>1 DEF Safe
  <2> QED
    BY <2>1, <2>2
<1>7. /\ \A q \in Pages : KeptPage(f, q) <=> q # c
      /\ \A q \in Pages \ {c} : KeptPage(g, q)
  BY <1>1, <1>4 DEF KeptPage, NoXfer
<1>8. ASSUME NEW i \in Ids PROVE Keeps(f, g, i)
  <2>1. CASE \E k \in Slots : Copy(f, c, k, i)
    <3>1. PICK q \in Pages, l \in Slots : q # c /\ Copy(f, q, l, i) /\ ~Old(f, q, l)
      BY <1>1, <2>1 DEF Superseded
    <3>2. \A k \in Slots : Copy(f, c, k, i) => Old(f, c, k)
      BY <1>1 DEF Superseded
    <3>3. \A r \in Pages : \A k \in Slots :
            /\ KeptCopy(g, r, k, i) /\ ~Old(g, r, k) <=> KeptCopy(f, r, k, i) /\ ~Old(f, r, k)
            /\ KeptCopy(g, r, k, i) /\ ~Old(g, r, k) => Val(g, r, k) = Val(f, r, k)
      BY <1>3, <1>7, <3>2 DEF KeptCopy
    <3>4. KeptCopy(f, q, l, i)
      BY <1>7, <3>1 DEF KeptCopy
    <3> QED
      BY <3>1, <3>3, <3>4, KeepsNew
  <2>2. CASE \A k \in Slots : ~Copy(f, c, k, i)
    <3>1. \A r \in Pages : \A k \in Slots :
            /\ KeptCopy(g, r, k, i) <=> KeptCopy(f, r, k, i)
            /\ KeptCopy(f, r, k, i) => (Old(g, r, k) <=> Old(f, r, k)) /\ Val(g, r, k) = Val(f, r, k)
      BY <1>3, <1>7, <2>2 DEF KeptCopy
    <3> QED
      BY <3>1, KeepsSame
  <2> QED
    BY <2>1, <2>2
<1> QED
  BY <1>6, <1>8

(* The erasure of the reserve is cut: its header was erased before.        *)
LEMMA CutReserve ==
  ASSUME NEW f \in Flashes, Safe(f), NEW r \in Pages, ~Act(f, r), NEW rest \in Remains(f[r]),
         NEW g, g = PutPage(f, r, rest)
  PROVE  Safe(g) /\ \A i \in Ids : Keeps(f, g, i)
<1>1. /\ g \in Flashes /\ \A q \in Pages : SameSlots(f, g, q)
      /\ \A q \in Pages : Xf(g, q) <=> Xf(f, q) /\ q # r
      /\ \A q \in Pages \ {r} : Act(g, q) <=> Act(f, q)
      /\ Act(g, r) => Act(f, r)
  BY Cutting
<1>2. ~Xf(f, r)
  BY Types
<1>3. /\ \A q \in Pages : Num(g, q) = Num(f, q) /\ (Act(g, q) <=> Act(f, q)) /\ (Xf(g, q) <=> Xf(f, q))
      /\ SameCopies(f, g)
  BY <1>1, <1>2 DEF SameSlots, SameCopies
<1>4. /\ Paired(g) /\ \A i \in Ids : Keeps(f, g, i)
      /\ NoXfer(f) => NoXfer(g)
  BY <1>3, CopiesSame DEF Safe
<1>5. \A c, t : Moving(f, c, t) /\ Num(g, c) = Num(f, c) => Moving(g, c, t)
  BY <1>3, CopiesSame
<1>6. CASE Open(f)
  BY <1>1, <1>3, <1>4, <1>6 DEF Open, Safe
<1>7. CASE ~Open(f)
  <2>1. \A c \in Pages : ~Moved(f, c) /\ ~Stale(f, c)
    BY DEF Moved, Stale
  <2>2. PICK c \in Pages, t \in Pages : Moving(f, c, t)
    BY <1>7, <2>1 DEF Safe
  <2>3. Moving(g, c, t)
    BY <1>3, <1>5, <2>2
  <2> QED
    BY <1>1, <1>4, <2>3 DEF Safe
<1> QED
  BY <1>6, <1>7

(* The erasure of a page that is lost altogether is cut.                   *)
LEMMA CutLost ==
  ASSUME NEW f \in Flashes, Paired(f), NEW c \in Pages, Stale(f, c), NEW p \in Pages,
         \A k \in Slots : Zero(f, p, k), NEW rest \in Remains(f[p]), NEW g, g = PutPage(f, p, rest)
  PROVE  Safe(g) /\ \A i \in Ids : Keeps(f, g, i)
<1>1. /\ \A q \in Pages : Act(f, q) /\ ~Xf(f, q)
      /\ Superseded(f, c)
  BY DEF Stale
<1>2. /\ g \in Flashes /\ \A q \in Pages : SameSlots(f, g, q)
      /\ \A q \in Pages : Xf(g, q) <=> Xf(f, q) /\ q # p
      /\ \A q \in Pages \ {p} : Act(g, q) <=> Act(f, q)
  BY Cutting
<1>3. /\ \A q \in Pages : Num(g, q) = Num(f, q)
      /\ \A q \in Pages : \A k \in Slots :
           /\ Old(g, q, k) <=> Old(f, q, k)
           /\ Val(g, q, k) = Val(f, q, k)
           /\ \A i \in Ids : Copy(g, q, k, i) <=> Copy(f, q, k, i)
  BY <1>2 DEF SameSlots
<1>4. NoXfer(g) /\ \A q \in Pages \ {p} : Act(g, q)
  BY <1>1, <1>2 DEF NoXfer
<1>5. \A k \in Slots : \A i \in Ids : ~Copy(f, p, k, i)
  BY Kinds
<1>6. Paired(g)
  <2>1. Fewer(f, g)
    BY <1>1, <1>3 DEF Fewer
  <2> QED
    BY <2>1, FewerPaired
<1>7. Safe(g)
  <2>1. CASE Act(g, p)
    <3>1. Superseded(g, c)
      BY <1>1, <1>3 DEF Superseded
    <3>2. Stale(g, c)
      BY <1>4, <2>1, <3>1 DEF Stale, NoXfer
    <3> QED
      BY <1>2, <1>6, <3>2 DEF Safe
  <2>2. CASE ~Act(g, p)
    <3>1. Open(g)
      BY <1>4, <2>2 DEF Open
    <3> QED
      BY <1>2, <1>6, <3>1 DEF Safe
  <2> QED
    BY <2>1, <2>2
<1>8. ASSUME NEW i \in Ids PROVE Keeps(f, g, i)
  <2>1. \A q \in Pages : KeptPage(f, q) /\ (q # p => KeptPage(g, q))
    BY <1>1, <1>4 DEF KeptPage, NoXfer
  <2>2. \A q \in Pages : \A k \in Slots :
          /\ KeptCopy(g, q, k, i) <=> KeptCopy(f, q, k, i)
          /\ KeptCopy(f, q, k, i) => (Old(g, q, k) <=> Old(f, q, k)) /\ Val(g, q, k) = Val(f, q, k)
    BY <1>3, <1>5, <2>1 DEF KeptCopy
  <2> QED
    BY <2>2, KeepsSame
<1> QED
  BY <1>7, <1>8

LEMMA PowerLossStep == ASSUME IInv, PowerLoss PROVE IInv' /\ SameValues
<1>1. Base /\ flash \in Flashes /\ Paired(flash)
  BY DEF IInv, Base
<1>2. /\ pgRes' = 0 /\ pgLost' = [p \in Pages |-> 0]
      /\ hot' = NoItem /\ pc' = "pages" /\ req' = None /\ job' = NoJob /\ scan' = NoScan
      /\ \/ flash' = flash
         \/ \E p \in ErasedNext : \E rest \in Remains(flash[p]) : flash' = [flash EXCEPT ![p] = rest]
  BY DEF PowerLoss
<1>3. Safe(flash') /\ \A i \in Ids : Keeps(flash, flash', i)
  <2>1. CASE flash' = flash
    BY <2>1, AlwaysSafe DEF Keeps
  <2>2. CASE \E p \in ErasedNext : \E rest \in Remains(flash[p]) : flash' = [flash EXCEPT ![p] = rest]
    <3>1. PICK p \in ErasedNext : \E rest \in Remains(flash[p]) : flash' = [flash EXCEPT ![p] = rest]
      BY <2>2
    <3>2. PICK rest \in Remains(flash[p]) : flash' = [flash EXCEPT ![p] = rest]
      BY <3>1
    <3>3. flash' = PutPage(flash, p, rest)
      BY <3>2 DEF PutPage
    <3> HIDE <3>2
    <3>4. CASE pc = "erase"
      <4>1. p = job.com
        BY <3>1, <3>4 DEF ErasedNext
      <4>2. Moved(flash, p)
        BY <3>4, <4>1 DEF IInv, ErasePhase
      <4> QED
        BY <1>1, <3>3, <4>2, CutMoved
    <3>5. CASE pc = "pages"
      <4>1. scan.pg \notin Pages /\ BootErases # 0 /\ p = BootErases
        BY <3>1, <3>5 DEF ErasedNext
      <4>2. PagesPhase
        BY <3>5 DEF IInv
      <4>3. /\ Safe(flash)
            /\ pgRes # 0 => pgRes \in Pages /\ ~Act(flash, pgRes)
            /\ pgRes = 0 /\ scan.old # 0 => Moved(flash, scan.old)
        BY <1>1, <4>1, <4>2, Diagnosis
      <4>4. CASE pgRes # 0
        <5>1. p = pgRes
          BY <4>1, <4>4 DEF BootErases
        <5> QED
          BY <1>1, <3>3, <4>3, <4>4, <5>1, CutReserve
      <4>5. CASE pgRes = 0
        <5>1. p = scan.old /\ scan.old # 0
          BY <4>1, <4>5 DEF BootErases
        <5>2. Moved(flash, p)
          BY <4>3, <4>5, <5>1
        <5> QED
          BY <1>1, <3>3, <5>2, CutMoved
      <4> QED
        BY <4>4, <4>5
    <3>6. CASE pc = "scan"
      <4>1. scan.pg \notin Pages /\ scan.pass # "dups" /\ pgRes = 0 /\ p = MostLost
        BY <3>1, <3>6 DEF ErasedNext
      <4>2. ScanPhase
        BY <3>6 DEF IInv
      <4>3. p \in Pages /\ \A k \in Slots : Zero(flash, p, k)
        BY <1>1, <4>1, <4>2, ScanDone
      <4>4. PICK c \in Pages : Stale(flash, c)
        BY <4>1, <4>2 DEF ScanPhase
      <4> QED
        BY <1>1, <3>3, <4>3, <4>4, CutLost
    <3>7. CASE pc \notin {"erase", "pages", "scan"}
      BY <3>1, <3>7 DEF ErasedNext
    <3> QED
      BY <3>4, <3>5, <3>6, <3>7
  <2> QED
    BY <1>2, <2>1, <2>2
<1>4. flash' \in Flashes /\ Paired(flash')
  BY <1>3 DEF Safe
<1>5. SameValues
  BY <1>1, <1>3, <1>4, Unchanged DEF SameValues
<1>6. /\ scan'.pg = 1 /\ scan'.old = 0 /\ 1 \in 1 .. NPages + 1 /\ 0 < 1
      /\ 0 \in 0 .. NPages /\ \A p \in Pages : ~(p < 1)
  BY <1>2, PageAssumption DEF NoScan, Pages
<1>7. PagesPhase'
  BY <1>2, <1>3, <1>6 DEF PagesPhase
<1>8. Base'
  <2>1. \A p \in Pages : 0 <= Cardinality(Zeros(flash', p))
    <3>1. \A p \in Pages : Cardinality(Zeros(flash', p)) \in 0 .. PageItems
      BY ZerosCount
    <3> QED
      BY <3>1, PageAssumption
  <2>2. NoItem \in Nat \X Nat
    BY DEF NoItem
  <2>3. ~HotLive'
    BY <1>2 DEF HotLive
  <2>4. pgLost' \in [Pages -> Nat] /\ \A p \in Pages : pgLost'[p] = 0
    BY <1>2
  <2> QED
    BY <1>2, <1>4, <1>6, <2>1, <2>2, <2>3, <2>4, NoJobIn, NoScanIn DEF Base
<1> QED
  BY <1>2, <1>5, <1>7, <1>8 DEF IInv

-----------------------------------------------------------------------------
(* The invariant.                                                          *)

LEMMA InitInv == Init => IInv /\ \A i \in Ids : Stored(i) = None
<1> SUFFICES ASSUME Init PROVE IInv /\ \A i \in Ids : Stored(i) = None
  OBVIOUS
<1>1. /\ flash = [p \in Pages |-> Erased]
      /\ pgRes = 0 /\ pgLost = [p \in Pages |-> 0]
      /\ hot = NoItem /\ pc = "pages" /\ req = None
      /\ job = NoJob /\ scan = NoScan
  BY DEF Init
<1>2. Erased \in PageSet /\ Len(Erased.items) = 0 /\ ~Erased.active /\ ~Erased.xfer
  <2>1. <<>> \in Seq(Cells)
    OBVIOUS
  <2> QED
    BY <2>1 DEF Erased, PageSet
<1>3. \A p \in Pages : Num(flash, p) = 0 /\ ~Act(flash, p) /\ ~Xf(flash, p)
  BY <1>1, <1>2 DEF Num, Act, Xf
<1>4. flash \in Flashes
  <2>1. flash \in [Pages -> PageSet]
    BY <1>1, <1>2
  <2>2. 0 <= PageItems
    BY PageAssumption
  <2> QED
    BY <1>3, <2>1, <2>2 DEF Flashes
<1>5. 1 \in Pages /\ 1 \in 1 .. NPages + 1 /\ 0 < 1 /\ 0 \in 0 .. NPages /\ \A p \in Pages : ~(p < 1)
  BY PageAssumption DEF Pages
<1>6. Paired(flash)
  BY <1>3 DEF Paired
<1>7. Open(flash)
  BY <1>3, <1>5 DEF Open, NoXfer
<1>8. Safe(flash)
  BY <1>4, <1>6, <1>7 DEF Safe
<1>9. scan.pg = 1 /\ scan.old = 0
  BY <1>1 DEF NoScan
<1>10. PagesPhase
  BY <1>1, <1>5, <1>8, <1>9 DEF PagesPhase
<1>11. Base
  <2>1. \A p \in Pages : 0 <= Cardinality(Zeros(flash, p))
    <3>1. \A p \in Pages : Cardinality(Zeros(flash, p)) \in 0 .. PageItems
      BY ZerosCount
    <3> QED
      BY <3>1, PageAssumption
  <2>2. NoItem \in Nat \X Nat
    BY DEF NoItem
  <2>3. ~HotLive
    BY <1>1 DEF HotLive
  <2>4. pgLost \in [Pages -> Nat] /\ \A p \in Pages : pgLost[p] = 0
    BY <1>1
  <2> QED
    BY <1>1, <1>4, <1>5, <1>6, <2>1, <2>2, <2>3, <2>4, NoJobIn, NoScanIn DEF Base
<1>12. IInv
  BY <1>1, <1>10, <1>11 DEF IInv
<1>13. \A i \in Ids : Stored(i) = None
  <2>1. \A i \in Ids : Absent(flash, i)
    BY <1>3 DEF Absent
  <2> QED
    BY <1>4, <2>1, StoredBefore
<1> QED
  BY <1>12, <1>13

LEMMA StutterStep == ASSUME IInv, UNCHANGED vars PROVE IInv'
<1>1. UNCHANGED <<flash, pgRes, pgLost, hot, pc, req, ret, job, scan>>
  BY DEF vars
<1>2. UNCHANGED <<Base, PagesPhase, ScanPhase, Rest, NewJob, CompactPhase>>
  <2>1. UNCHANGED Base
    BY <1>1 DEF Base, HotLive
  <2>2. UNCHANGED PagesPhase
    BY <1>1 DEF PagesPhase
  <2>3. UNCHANGED ScanPhase
    BY <1>1 DEF ScanPhase, MarkPass, DupsPass, FinalPass, Seen, HotLive, HotOld
  <2>4. UNCHANGED Rest
    BY <1>1 DEF Rest
  <2>5. UNCHANGED NewJob
    BY <1>1 DEF NewJob, SrcCopy
  <2>6. UNCHANGED CompactPhase
    BY <1>1, <2>5 DEF CompactPhase, Compacts, HotLive
  <2> QED
    BY <2>1, <2>2, <2>3, <2>4, <2>5, <2>6
<1>3. UNCHANGED <<HeaderPhase, DataPhase, UsePhase, ErasePhase, ZeroPhase, ReturnPhase>>
  <2>1. UNCHANGED Settled
    BY <1>1 DEF Settled, Compacts, HotLive
  <2>2. UNCHANGED HeaderPhase
    BY <1>1, <1>2, <2>1 DEF HeaderPhase
  <2>3. UNCHANGED DataPhase
    BY <1>1, <1>2, <2>1 DEF DataPhase, SrcOld
  <2>4. UNCHANGED UsePhase
    BY <1>1, <1>2 DEF UsePhase, Compacts, HotLive, HotOld, SrcOld
  <2>5. UNCHANGED ErasePhase
    BY <1>1 DEF ErasePhase, HotLive, HotOld, SrcCopy, SrcOld
  <2>6. UNCHANGED ZeroPhase
    BY <1>1 DEF ZeroPhase, HotLive, HotOld, SrcCopy, SrcOld
  <2>7. UNCHANGED ReturnPhase
    BY <1>1, <1>2 DEF ReturnPhase, Wanted
  <2> QED
    BY <2>2, <2>3, <2>4, <2>5, <2>6, <2>7
<1> QED
  BY <1>1, <1>2, <1>3 DEF IInv

LEMMA Inductive == IInv /\ [Next]_vars => IInv'
<1> SUFFICES ASSUME IInv, [Next]_vars PROVE IInv'
  OBVIOUS
<1>1. CASE Call
  BY <1>1, CallStep
<1>2. CASE LowVoltage
  BY <1>2, LowVoltageStep
<1>3. CASE osal_nv_item_init
  BY <1>3, osal_nv_item_initStep
<1>4. CASE osal_nv_write
  BY <1>4, osal_nv_writeStep
<1>5. CASE osal_nv_delete
  BY <1>5, osal_nv_deleteStep
<1>6. CASE StartCompaction
  BY <1>6, StartCompactionStep
<1>7. CASE CompactItem
  BY <1>7, CompactItemStep
<1>8. CASE CompactEnd
  BY <1>8, CompactEndStep
<1>9. CASE WriteHeader
  BY <1>9, WriteHeaderStep
<1>10. CASE MarkOld
  BY <1>10, MarkOldStep
<1>11. CASE WriteData
  BY <1>11, WriteDataStep
<1>12. CASE UseTarget
  BY <1>12, UseTargetStep
<1>13. CASE EraseSource
  BY <1>13, EraseSourceStep
<1>14. CASE ZeroOld
  BY <1>14, ZeroOldStep
<1>15. CASE Finish
  BY <1>15, FinishStep
<1>16. CASE BootPage
  BY <1>16, BootPageStep
<1>17. CASE BootRepair
  BY <1>17, BootRepairStep
<1>18. CASE ScanItem
  BY <1>18, ScanItemStep
<1>19. CASE ScanPageEnd
  BY <1>19, ScanPageEndStep
<1>20. CASE ScanEnd
  BY <1>20, ScanEndStep
<1>21. CASE PowerLoss
  BY <1>21, PowerLossStep
<1>22. CASE UNCHANGED vars
  BY <1>22, StutterStep
<1> QED
  BY <1>1, <1>2, <1>3, <1>4, <1>5, <1>6, <1>7, <1>8, <1>9, <1>10, <1>11, <1>12, <1>13, <1>14,
     <1>15, <1>16, <1>17, <1>18, <1>19, <1>20, <1>21, <1>22 DEF Next, Step

LEMMA Invariant == Spec => []IInv
  BY InitInv, Inductive, PTL DEF Spec

-----------------------------------------------------------------------------
(* The lost slots of a page are never overestimated, in use or after a     *)
(* repair, and no item is written past the end of a page (initItem,        *)
(* compactPage): for every number and size of pages, in spite of any loss  *)
(* of power.                                                               *)
THEOREM RoomIsCounted == Spec => []RoomCounted
<1>1. IInv => RoomCounted
  <2> SUFFICES ASSUME IInv PROVE RoomCounted
    OBVIOUS
  <2>1. Base /\ flash \in Flashes
    BY DEF IInv, Base
  <2>2. ASSUME NEW p \in Pages
        PROVE  /\ flash[p].active \in BOOLEAN /\ flash[p].xfer \in BOOLEAN
               /\ Len(flash[p].items) <= PageItems
               /\ \A k \in DOMAIN flash[p].items : ItemOK(flash[p].items[k])
    <3>1. /\ flash[p].items \in Seq(Cells) /\ flash[p].active \in BOOLEAN /\ flash[p].xfer \in BOOLEAN
          /\ Num(flash, p) \in 0 .. PageItems
      BY <2>1, Types
    <3>2. \A c \in Cells : ItemOK(c)
      <4>1. \A c \in Headers : c \in [id : Ids, val : Vals \cup {None}, old : BOOLEAN, chk : BOOLEAN]
        BY DEF Headers
      <4>2. \A c \in Wholes : c \in [id : Ids, val : Vals \cup {None}, old : BOOLEAN, chk : BOOLEAN]
        BY DEF Wholes
      <4> HIDE DEF Headers, Wholes
      <4> QED
        BY <4>1, <4>2 DEF Cells, ItemOK
    <3>3. Len(flash[p].items) <= PageItems
      BY <3>1, PageAssumption DEF Num
    <3>4. \A k \in DOMAIN flash[p].items : flash[p].items[k] \in Cells
      BY <3>1
    <3> QED
      BY <3>1, <3>2, <3>3, <3>4
  <2>3. ASSUME NEW p \in Pages
        PROVE  pgLost[p] \in 0 .. PageItems /\ pgLost[p] <= ZeroedIn(p)
    <3>1. pgLost[p] \in Nat /\ pgLost[p] <= Cardinality(Zeros(flash, p))
      BY <2>1 DEF Base
    <3>2. Cardinality(Zeros(flash, p)) \in 0 .. PageItems
      BY ZerosCount
    <3>3. ZeroedIn(p) = Cardinality(Zeros(flash, p))
      BY <2>1, ZeroedInCount
    <3> QED
      BY <3>1, <3>2, <3>3, PageAssumption
  <2>4. pgRes \in 0 .. NPages /\ pgLost \in [Pages -> Nat]
    BY <2>1 DEF Base
  <2>5. pgLost \in [Pages -> 0 .. PageItems]
    BY <2>3, <2>4
  <2> QED
    BY <2>2, <2>3, <2>4, <2>5 DEF RoomCounted, TypeOK
<1> QED
  BY <1>1, Invariant, PTL

(* Every read finds what is stored (findItem, osal_nv_read): the search,   *)
(* which looks at no checksum, and the remembered place of a hot item lead *)
(* to the copy that a power-up would keep.                                 *)
THEOREM ReadsAreStored == Spec => []ReadsStored
<1>1. IInv => ReadsStored
  <2> SUFFICES ASSUME IInv, pc = "ready" PROVE ReadsStored
    BY DEF ReadsStored
  <2>1. Base /\ Rest /\ flash \in Flashes /\ Paired(flash)
    BY DEF IInv, Base
  <2>2. Rests(flash, pgRes) /\ NoTorn(flash) /\ \A i \in Ids : Single(flash, i)
    BY <2>1 DEF Rest
  <2>3. ASSUME NEW i \in Ids
        PROVE  Stored(i) = IF FindItem(i) = NoItem THEN None ELSE ItemAt(FindItem(i)).val
    BY <2>1, <2>2, FoundItem
  <2>4. ASSUME HotLive PROVE hot = FindItem(HotId)
    <3>1. /\ hot[1] \in Pages /\ hot[2] \in Slots /\ Copy(flash, hot[1], hot[2], HotId)
          /\ hot = <<hot[1], hot[2]>>
      BY <2>1, <2>4 DEF Base
    <3>2. Act(flash, hot[1])
      <4>1. Num(flash, hot[1]) # 0
        BY <3>1, PageAssumption DEF Copy, Slots
      <4> QED
        BY <2>2, <3>1, <4>1 DEF Rests
    <3>3. HotId \in Ids /\ Single(flash, HotId) /\ ~Absent(flash, HotId)
      BY <2>2, <3>1, <3>2, ItemAssumption DEF Absent
    <3>4. PICK p \in Pages, k \in Slots :
            FindItem(HotId) = <<p, k>> /\ Act(flash, p) /\ Copy(flash, p, k, HotId)
      BY <2>1, <2>2, <3>3, FoundItem
    <3>5. p = hot[1] /\ k = hot[2]
      BY <3>1, <3>2, <3>3, <3>4 DEF Single
    <3> QED
      BY <3>1, <3>4, <3>5
  <2> QED
    BY <2>3, <2>4 DEF ReadsStored, HotLive
<1> QED
  BY <1>1, Invariant, PTL

-----------------------------------------------------------------------------
(* The refinement of the map.                                              *)

map == [i \in Ids |-> Stored(i)]

LEMMA MapStays == ASSUME SameValues, UNCHANGED <<req, ret>> PROVE UNCHANGED Map!vars
<1>1. [i \in Ids |-> Stored(i)]' = [i \in Ids |-> Stored(i)]
  BY DEF SameValues
<1> QED
  BY <1>1 DEF Map!vars

LEMMA MapTakes == ASSUME Takes, req \in Requests, UNCHANGED <<req, ret>> PROVE Map!TakeEffect
<1>1. req # None /\ req.id \in Ids /\ req.op \in {"init", "write", "delete"}
  BY ItemAssumption DEF Requests
<1>2. /\ \A j \in Ids : Stored(j)' = IF j = req.id THEN Wanted ELSE Stored(j)
      /\ req.op = "init" => Stored(req.id) = None
      /\ req.op = "write" => Stored(req.id) # None
  BY DEF Takes
<1>3. map' = [map EXCEPT ![req.id] = Wanted]
  BY <1>1, <1>2 DEF map
<1>4. map' = Map!Applied(req)
  <2>1. CASE req.op = "init"
    BY <1>1, <1>2, <1>3, <2>1 DEF Map!Applied, Wanted, map
  <2>2. CASE req.op = "write"
    BY <1>1, <1>2, <1>3, <2>2 DEF Map!Applied, Wanted, map
  <2>3. CASE req.op = "delete"
    BY <1>1, <1>2, <1>3, <2>3 DEF Map!Applied, Wanted, map
  <2> QED
    BY <1>1, <2>1, <2>2, <2>3
<1> QED
  BY <1>1, <1>4 DEF Map!TakeEffect, map

(* What a request may answer.                                              *)
LEMMA MapReturns ==
  ASSUME req \in Requests, SameValues, NEW status \in {"success", "uninit", "failed"}, Return(status),
         status = "success" => Stored(req.id) = Wanted \/ (req.op = "init" /\ Stored(req.id) # None),
         status = "uninit" => IF req.op = "init" THEN Stored(req.id) # None ELSE Stored(req.id) = None
  PROVE  Map!Next
<1>1. req # None /\ req.id \in Ids /\ req.op \in {"init", "write", "delete"}
  BY ItemAssumption DEF Requests
<1>2. req.op = "write" => req.val # None
  BY ItemAssumption DEF Requests
<1>3. map' = map
  BY DEF SameValues, map
<1>4. map \in [Ids -> {Stored(i) : i \in Ids}] /\ map[req.id] = Stored(req.id)
  BY <1>1 DEF map
<1>5. req.op = "init" /\ Stored(req.id) # None => map = Map!Applied(req)
  BY <1>4 DEF Map!Applied, map
<1>6. Stored(req.id) = Wanted => map = Map!Applied(req)
  <2>1. CASE req.op = "init"
    BY <1>1, <1>4, <2>1 DEF Map!Applied, Wanted, map
  <2>2. CASE req.op = "write"
    BY <1>1, <1>2, <1>4, <2>2 DEF Map!Applied, Wanted, map
  <2>3. CASE req.op = "delete"
    BY <1>1, <1>4, <2>3 DEF Map!Applied, Wanted, map
  <2> QED
    BY <1>1, <2>1, <2>2, <2>3
<1>7. Map!Answers(status)
  <2>1. CASE status = "success"
    BY <1>5, <1>6, <2>1 DEF Map!Answers, map
  <2>2. CASE status = "uninit"
    BY <1>4, <1>5, <2>2 DEF Map!Answers, map
  <2>3. CASE status = "failed"
    BY <2>3 DEF Map!Answers
  <2> QED
    BY <2>1, <2>2, <2>3
<1>8. Map!Return(status)
  BY <1>1, <1>3, <1>7 DEF Return, Map!Return, map
<1> QED
  BY <1>8 DEF Map!Next

LEMMA MapFinds ==
  ASSUME IInv, osal_nv_item_init \/ osal_nv_write \/ osal_nv_delete, SameValues
  PROVE  Map!Next \/ UNCHANGED Map!vars
<1>1. pc = "find"
  BY DEF osal_nv_item_init, osal_nv_write, osal_nv_delete
<1>2. /\ req \in Requests /\ req.id \in Ids /\ req.val \in Vals /\ req # None
      /\ FindItem(req.id) = NoItem => Stored(req.id) = None
      /\ FindItem(req.id) # NoItem => Stored(req.id) = ItemAt(FindItem(req.id)).val /\ Stored(req.id) # None
  <2>1. /\ req \in Requests /\ req.id \in Ids /\ req.val \in Vals /\ req # None
        /\ \/ FindItem(req.id) = NoItem /\ Absent(flash, req.id) /\ Stored(req.id) = None
           \/ \E p \in Pages : \E k \in Slots :
                /\ FindItem(req.id) = <<p, k>> /\ FindItem(req.id) # NoItem
                /\ Act(flash, p) /\ Copy(flash, p, k, req.id)
                /\ Stored(req.id) = Val(flash, p, k)
                /\ ItemAt(FindItem(req.id)).val = Val(flash, p, k)
    BY <1>1, FindsItem
  <2>2. \A p \in Pages : \A k \in Slots : Copy(flash, p, k, req.id) => Val(flash, p, k) # None
    BY <1>1, <2>1, Kinds, ItemAssumption DEF IInv, Base
  <2> QED
    BY <2>1, <2>2
<1>3. ASSUME NEW src, NEW lost, InitItem(src, lost) PROVE Map!Next \/ UNCHANGED Map!vars
  <2>1. CASE PageFor(lost) = 0
    <3>1. Return("failed")
      BY <1>3, <2>1 DEF InitItem
    <3> QED
      BY <1>2, <3>1, MapReturns
  <2>2. CASE PageFor(lost) # 0
    <3>1. UNCHANGED <<req, ret>>
      BY <1>3, <2>2 DEF InitItem
    <3> QED
      BY <3>1, MapStays
  <2> QED
    BY <2>1, <2>2
<1>4. CASE osal_nv_item_init
  <2>1. CASE FindItem(req.id) = NoItem
    <3>1. InitItem(NoItem, pgLost')
      BY <1>4, <2>1 DEF osal_nv_item_init
    <3> QED
      BY <1>3, <3>1
  <2>2. CASE FindItem(req.id) # NoItem
    <3>1. Return("success") /\ req.op = "init"
      BY <1>4, <2>2 DEF osal_nv_item_init
    <3> QED
      BY <1>2, <2>2, <3>1, MapReturns
  <2> QED
    BY <2>1, <2>2
<1>5. CASE osal_nv_write
  <2>1. CASE FindItem(req.id) = NoItem
    <3>1. Return("uninit") /\ req.op = "write"
      BY <1>5, <2>1 DEF osal_nv_write
    <3> QED
      BY <1>2, <2>1, <3>1, MapReturns
  <2>2. CASE FindItem(req.id) # NoItem /\ ItemAt(FindItem(req.id)).val = req.val
    <3>1. Return("success") /\ req.op = "write"
      BY <1>5, <2>2 DEF osal_nv_write
    <3>2. Stored(req.id) = Wanted
      BY <1>2, <2>2, <3>1 DEF Wanted
    <3> QED
      BY <1>2, <3>1, <3>2, MapReturns
  <2>3. CASE FindItem(req.id) # NoItem /\ ItemAt(FindItem(req.id)).val # req.val
    <3>1. InitItem(FindItem(req.id), pgLost')
      BY <1>5, <2>3 DEF osal_nv_write
    <3> QED
      BY <1>3, <3>1
  <2> QED
    BY <2>1, <2>2, <2>3
<1>6. CASE osal_nv_delete
  <2>1. CASE FindItem(req.id) = NoItem
    <3>1. Return("uninit") /\ req.op = "delete"
      BY <1>6, <2>1 DEF osal_nv_delete
    <3> QED
      BY <1>2, <2>1, <3>1, MapReturns
  <2>2. CASE FindItem(req.id) # NoItem
    <3>1. UNCHANGED <<req, ret>>
      BY <1>6, <2>2 DEF osal_nv_delete
    <3> QED
      BY <3>1, MapStays
  <2> QED
    BY <2>1, <2>2
<1> QED
  BY <1>4, <1>5, <1>6

LEMMA MapFinish ==
  ASSUME IInv, Finish, SameValues
  PROVE  Map!Next
<1>1. pc = "return" /\ ReturnPhase /\ Base
  BY DEF IInv, Finish
<1>2. req \in Requests /\ req.id \in Ids /\ Holds(flash, req.id, Wanted) /\ flash \in Flashes
  BY <1>1, ItemAssumption DEF ReturnPhase, Requests, Base
<1>3. Stored(req.id) = Wanted
  BY <1>1, <1>2, HoldsStored DEF Base, Finish
<1>4. req.op = "init" => Wanted # None
  BY <1>2, ItemAssumption DEF Requests, Wanted
<1>5. Return(Outcome)
  BY DEF Finish
<1>6. CASE Outcome = "uninit"
  <2>1. Return("uninit") /\ req.op = "init"
    BY <1>5, <1>6 DEF Outcome
  <2> QED
    BY <1>2, <1>3, <1>4, <2>1, MapReturns
<1>7. CASE Outcome = "success"
  <2>1. Return("success") /\ req.op # "init"
    BY <1>5, <1>7 DEF Outcome
  <2> QED
    BY <1>2, <1>3, <2>1, MapReturns
<1>8. CASE Outcome = "failed"
  <2>1. Return("failed")
    BY <1>5, <1>8
  <2> QED
    BY <1>2, <1>3, <2>1, MapReturns
<1> QED
  BY <1>6, <1>7, <1>8 DEF Outcome

(* The memory implements the map: a request takes effect at one moment     *)
(* (the write of its data, the use of the page it was compacted into, or   *)
(* the zeroing of the item), a request that returned success has, and no   *)
(* loss of power, compaction or repair changes a value.                    *)
THEOREM MemoryIsMap == Spec => ImplementsNvMap
<1>1. Init => Map!Init
  <2> SUFFICES ASSUME Init PROVE Map!Init
    OBVIOUS
  <2>1. \A i \in Ids : Stored(i) = None
    BY InitInv
  <2> QED
    BY <2>1 DEF Map!Init, Init
<1>2. IInv /\ [Next]_vars => [Map!Next]_(Map!vars)
  <2> SUFFICES ASSUME IInv, [Next]_vars PROVE Map!Next \/ UNCHANGED Map!vars
    OBVIOUS
  <2>1. CASE Call
    <3>1. SameValues
      BY <2>1, CallStep
    <3>2. /\ req = None /\ ret' = None
          /\ \E r \in [op : {"init", "write"}, id : Ids, val : Vals]
                    \cup [op : {"delete"}, id : Deletable, val : Vals] : req' = r
      BY <2>1 DEF Call
    <3>3. req' \in Map!Requests
      BY <3>2, ItemAssumption DEF Map!Requests
    <3>4. Map!Call(req')
      BY <3>1, <3>2 DEF Map!Call, SameValues
    <3> QED
      BY <3>3, <3>4 DEF Map!Next
  <2>2. CASE LowVoltage
    <3>1. SameValues
      BY <2>2, LowVoltageStep
    <3>2. Return("failed") /\ req \in Requests
      BY <2>2 DEF LowVoltage, IInv
    <3> QED
      BY <3>1, <3>2, MapReturns
  <2>3. CASE osal_nv_item_init
    BY <2>3, osal_nv_item_initStep, MapFinds
  <2>4. CASE osal_nv_write
    BY <2>4, osal_nv_writeStep, MapFinds
  <2>5. CASE osal_nv_delete
    BY <2>5, osal_nv_deleteStep, MapFinds
  <2>6. CASE Finish
    BY <2>6, FinishStep, MapFinish
  <2>7. CASE StartCompaction
    BY <2>7, StartCompactionStep, MapStays DEF StartCompaction
  <2>8. CASE CompactItem
    BY <2>8, CompactItemStep, MapStays DEF CompactItem
  <2>9. CASE CompactEnd
    BY <2>9, CompactEndStep, MapStays DEF CompactEnd
  <2>10. CASE WriteHeader
    BY <2>10, WriteHeaderStep, MapStays DEF WriteHeader
  <2>11. CASE MarkOld
    BY <2>11, MarkOldStep, MapStays DEF MarkOld
  <2>12. CASE WriteData
    <3>1. UNCHANGED <<req, ret>> /\ pc = "data"
      BY <2>12 DEF WriteData
    <3>2. req \in Requests
      BY <3>1 DEF IInv, DataPhase, NewJob
    <3>3. (job.com # 0 => SameValues) /\ (job.com = 0 => Takes)
      BY <2>12, WriteDataStep
    <3>4. CASE job.com # 0
      BY <3>1, <3>3, <3>4, MapStays
    <3>5. CASE job.com = 0
      BY <3>1, <3>2, <3>3, <3>5, MapTakes DEF Map!Next
    <3> QED
      BY <3>4, <3>5
  <2>13. CASE UseTarget
    <3>1. UNCHANGED <<req, ret>> /\ pc = "use"
      BY <2>13 DEF UseTarget
    <3>2. req # None => req \in Requests
      BY DEF IInv, Base
    <3>3. (req = None => SameValues) /\ (req # None => Takes)
      BY <2>13, UseTargetStep
    <3>4. CASE req = None
      BY <3>1, <3>3, <3>4, MapStays
    <3>5. CASE req # None
      BY <3>1, <3>2, <3>3, <3>5, MapTakes DEF Map!Next
    <3> QED
      BY <3>4, <3>5
  <2>14. CASE EraseSource
    BY <2>14, EraseSourceStep, MapStays DEF EraseSource
  <2>15. CASE ZeroOld
    <3>1. UNCHANGED <<req, ret>> /\ pc = "zero"
      BY <2>15 DEF ZeroOld
    <3>2. req \in Requests
      BY <3>1 DEF IInv, ZeroPhase
    <3>3. (req.op # "delete" => SameValues) /\ (req.op = "delete" => Takes)
      BY <2>15, ZeroOldStep
    <3>4. CASE req.op # "delete"
      BY <3>1, <3>3, <3>4, MapStays
    <3>5. CASE req.op = "delete"
      BY <3>1, <3>2, <3>3, <3>5, MapTakes DEF Map!Next
    <3> QED
      BY <3>4, <3>5
  <2>16. CASE BootPage
    BY <2>16, BootPageStep, MapStays DEF BootPage
  <2>17. CASE BootRepair
    BY <2>17, BootRepairStep, MapStays DEF BootRepair
  <2>18. CASE ScanItem
    BY <2>18, ScanItemStep, MapStays DEF ScanItem
  <2>19. CASE ScanPageEnd
    BY <2>19, ScanPageEndStep, MapStays DEF ScanPageEnd
  <2>20. CASE ScanEnd
    BY <2>20, ScanEndStep, MapStays DEF ScanEnd
  <2>21. CASE PowerLoss
    <3>1. SameValues
      BY <2>21, PowerLossStep
    <3>2. Map!PowerLoss
      BY <2>21, <3>1 DEF PowerLoss, Map!PowerLoss, SameValues
    <3> QED
      BY <3>2 DEF Map!Next
  <2>22. CASE UNCHANGED vars
    <3>1. flash' = flash /\ UNCHANGED <<req, ret>>
      BY <2>22 DEF vars
    <3> QED
      BY <3>1, SameFlash, MapStays
  <2> QED
    BY <2>1, <2>2, <2>3, <2>4, <2>5, <2>6, <2>7, <2>8, <2>9, <2>10, <2>11, <2>12, <2>13, <2>14,
       <2>15, <2>16, <2>17, <2>18, <2>19, <2>20, <2>21, <2>22 DEF Next, Step
<1> QED
  BY <1>1, <1>2, Invariant, PTL DEF Spec, ImplementsNvMap, Map!Spec
-----------------------------------------------------------------------------
(* The steps that are left.                                                *)

(* The slots of the pages that a pass has not walked yet.                  *)
Beyond(pg) == (NPages + 1 - pg) * AllDone

LEMMA BeyondFacts ==
  ASSUME NEW pg \in 1 .. NPages + 1
  PROVE  /\ Beyond(pg) \in Nat /\ Beyond(pg) <= Beyond(1)
         /\ pg <= NPages => pg + 1 \in 1 .. NPages + 1 /\ Beyond(pg) = Beyond(pg + 1) + AllDone
         /\ pg = NPages + 1 => Beyond(pg) = 0
<1>0. NPages \in Nat /\ PageItems \in Nat /\ AllDone \in Nat /\ AllDone > 0
  BY PageAssumption DEF AllDone
<1> DEFINE r == NPages + 1 - pg
<1>1. r \in Nat /\ r <= NPages
  BY <1>0
<1>2. \A x, y \in Nat : x * y \in Nat
  OBVIOUS
<1>3. \A x \in Nat : (x + 1) * AllDone = x * AllDone + AllDone
  BY <1>0
<1>4. NPages * AllDone = r * AllDone + (NPages - r) * AllDone
  BY <1>0, <1>1
<1>5. Beyond(pg) = r * AllDone
  BY DEF Beyond
<1>6. Beyond(1) = NPages * AllDone
  BY <1>0 DEF Beyond
<1>7. ASSUME pg <= NPages PROVE pg + 1 \in 1 .. NPages + 1 /\ Beyond(pg) = Beyond(pg + 1) + AllDone
  <2> DEFINE q == NPages + 1 - (pg + 1)
  <2>1. q \in Nat /\ r = q + 1
    BY <1>0, <1>7
  <2>2. Beyond(pg + 1) = q * AllDone
    BY DEF Beyond
  <2> HIDE DEF q, r
  <2>3. Beyond(pg) = Beyond(pg + 1) + AllDone
    BY <1>3, <1>5, <2>1, <2>2
  <2> QED
    BY <1>0, <1>7, <2>3
<1>8. ASSUME pg = NPages + 1 PROVE Beyond(pg) = 0
  <2>1. r = 0
    BY <1>0, <1>8
  <2>2. 0 * AllDone = 0
    BY <1>0
  <2> QED
    BY <1>5, <2>1, <2>2
<1>9. (NPages - r) \in Nat
  BY <1>0, <1>1
<1> HIDE DEF r
<1>10. Beyond(pg) \in Nat /\ Beyond(pg) <= Beyond(1)
  <2>1. r * AllDone \in Nat /\ (NPages - r) * AllDone \in Nat
    BY <1>0, <1>1, <1>2, <1>9
  <2> QED
    BY <1>4, <1>5, <1>6, <2>1
<1> QED
  BY <1>7, <1>8, <1>10

(* A pass over all pages, and the way from each place of the program.      *)
Pass == Beyond(1) + 1
Way == 3 * Pass

LEMMA PassFacts ==
  /\ Pass \in Nat /\ Pass >= 1 /\ PassSteps = Pass /\ Way = 3 * Pass
  /\ ScanPhase => scan.pg \in 1 .. NPages + 1 /\ PassLeft = Beyond(scan.pg) + 2 - scan.ix
<1>0. NPages \in Nat /\ PageItems \in Nat
  BY PageAssumption
<1>1. Beyond(1) \in Nat /\ 1 \in 1 .. NPages + 1
  BY <1>0, BeyondFacts
<1>2. Beyond(1) = NPages * (PageItems + 1)
  BY <1>0 DEF Beyond, AllDone
<1> QED
  BY <1>1, <1>2 DEF Pass, PassSteps, Way, ScanPhase, PassLeft, Beyond, AllDone

(* Where a pass may stand, and the steps it leaves.                        *)
Stands(s) == /\ s \in Scans /\ s.pg \in 1 .. NPages + 1 /\ s.ix \in 1 .. AllDone
             /\ s.pg \notin Pages => s.ix = 1

PassRank(s) == (CASE s.pass = "mark" -> 2 [] s.pass = "dups" -> 1 [] s.pass = "final" -> 0) * Pass
               + Beyond(s.pg) + 2 - s.ix

LEMMA PassRankRange ==
  ASSUME NEW s, Stands(s)
  PROVE  /\ PassRank(s) \in Nat /\ 1 <= PassRank(s) /\ PassRank(s) <= Way
         /\ s.pass = "mark" => PassRank(s) > 2 * Pass
         /\ s.pass = "dups" => PassRank(s) > Pass
<1>0. NPages \in Nat /\ PageItems \in Nat /\ AllDone \in Nat /\ AllDone > 0
  BY PageAssumption DEF AllDone
<1>1. /\ s.pg \in 1 .. NPages + 1 /\ s.ix \in 1 .. AllDone /\ s.pass \in {"mark", "dups", "final"}
      /\ s.pg \notin Pages => s.ix = 1
  BY DEF Stands, Scans
<1>2. Beyond(1) \in Nat /\ Pass = Beyond(1) + 1 /\ Way = 3 * Pass
  BY <1>0, BeyondFacts DEF Pass, Way
<1>3. Beyond(s.pg) \in Nat /\ Beyond(s.pg) <= Beyond(1)
  BY <1>1, BeyondFacts
<1>4. s.pg \in Pages => Beyond(s.pg) >= AllDone
  <2> SUFFICES ASSUME s.pg \in Pages PROVE Beyond(s.pg) >= AllDone
    OBVIOUS
  <2>1. s.pg <= NPages
    BY <1>0 DEF Pages
  <2>2. s.pg + 1 \in 1 .. NPages + 1 /\ Beyond(s.pg) = Beyond(s.pg + 1) + AllDone
    BY <1>1, <2>1, BeyondFacts
  <2>3. Beyond(s.pg + 1) \in Nat
    BY <2>2, BeyondFacts
  <2> QED
    BY <1>0, <2>2, <2>3
<1>5. Beyond(s.pg) + 2 - s.ix \in Nat /\ Beyond(s.pg) + 2 - s.ix >= 1 /\ Beyond(s.pg) + 2 - s.ix <= Pass
  BY <1>0, <1>1, <1>2, <1>3, <1>4
<1> DEFINE left == Beyond(s.pg) + 2 - s.ix
<1>6. s.pass = "mark" => PassRank(s) = 2 * Pass + left
  BY <1>1, <1>2, <1>3 DEF PassRank
<1>7. s.pass = "dups" => PassRank(s) = Pass + left
  BY <1>1, <1>2, <1>3 DEF PassRank
<1>8. s.pass = "final" => PassRank(s) = left
  BY <1>1, <1>2, <1>3 DEF PassRank
<1> HIDE DEF left
<1>9. left \in Nat /\ left >= 1 /\ left <= Pass /\ Pass \in Nat
  BY <1>2, <1>5 DEF left
<1> QED
  BY <1>1, <1>2, <1>6, <1>7, <1>8, <1>9

LEMMA RankSum ==
  ASSUME NEW s, Stands(s)
  PROVE  PassRank(s) = (CASE s.pass = "mark" -> 2 [] s.pass = "dups" -> 1 [] s.pass = "final" -> 0) * PassSteps
                       + ((NPages + 1 - s.pg) * (PageItems + 1) + 2 - s.ix)
<1> DEFINE passes == CASE s.pass = "mark" -> 2 [] s.pass = "dups" -> 1 [] s.pass = "final" -> 0
           b == (NPages + 1 - s.pg) * (PageItems + 1)
<1>1. passes \in {0, 1, 2} /\ s.ix \in Nat /\ s.pg \in 1 .. NPages + 1
  BY PageAssumption DEF Stands, Scans, AllDone
<1>2. Pass = PassSteps /\ Pass \in Nat
  BY PassFacts
<1>3. b = Beyond(s.pg) /\ b \in Nat
  BY <1>1, BeyondFacts DEF Beyond, AllDone
<1>4. PassRank(s) = passes * Pass + b + 2 - s.ix
  BY <1>3 DEF PassRank
<1> HIDE DEF passes, b
<1>5. passes * Pass \in Nat
  BY <1>1, <1>2
<1>6. PassRank(s) = passes * PassSteps + (b + 2 - s.ix)
  BY <1>1, <1>2, <1>3, <1>4, <1>5
<1> QED
  BY <1>6 DEF passes, b

LEMMA ScanLeft ==
  /\ Stands(scan) /\ pc = "scan" => StepsLeft = PassRank(scan)
  /\ Stands(scan') /\ pc' = "scan" => StepsLeft' = PassRank(scan')
<1>1. ASSUME Stands(scan), pc = "scan" PROVE StepsLeft = PassRank(scan)
  <2>1. StepsLeft = PassesAfter * PassSteps + PassLeft
    BY <1>1 DEF StepsLeft
  <2> QED
    BY <1>1, <2>1, RankSum DEF PassesAfter, PassLeft
<1>2. ASSUME Stands(scan'), pc' = "scan" PROVE StepsLeft' = PassRank(scan')
  <2>1. StepsLeft' = PassesAfter' * PassSteps + PassLeft'
    BY <1>2 DEF StepsLeft, PassSteps
  <2>2. PassesAfter' = CASE scan'.pass = "mark" -> 2 [] scan'.pass = "dups" -> 1 [] scan'.pass = "final" -> 0
    BY DEF PassesAfter
  <2>3. PassLeft' = (NPages + 1 - scan'.pg) * (PageItems + 1) + 2 - scan'.ix
    BY DEF PassLeft
  <2> QED
    BY <1>2, <2>1, <2>2, <2>3, RankSum
<1> QED
  BY <1>1, <1>2

(* A step of a pass brings it nearer to its end.                           *)
LEMMA PassLowers ==
  ASSUME NEW s, NEW t, Stands(s), Stands(t), t.pass = s.pass,
         \/ t.pg = s.pg /\ t.ix = s.ix + 1
         \/ s.pg \in Pages /\ t.pg = s.pg + 1 /\ t.ix = 1
  PROVE  PassRank(t) < PassRank(s)
<1> DEFINE passes == CASE s.pass = "mark" -> 2 [] s.pass = "dups" -> 1 [] s.pass = "final" -> 0
<1>0. NPages \in Nat /\ PageItems \in Nat /\ AllDone \in Nat /\ AllDone > 0
  BY PageAssumption DEF AllDone
<1>1. passes \in {0, 1, 2} /\ s.ix \in 1 .. AllDone /\ t.ix \in 1 .. AllDone
      /\ s.pg \in 1 .. NPages + 1 /\ t.pg \in 1 .. NPages + 1
  BY DEF Stands, Scans
<1>2. Pass \in Nat /\ Beyond(s.pg) \in Nat /\ Beyond(t.pg) \in Nat
  BY <1>1, PassFacts, BeyondFacts
<1>3. PassRank(s) = passes * Pass + Beyond(s.pg) + 2 - s.ix
      /\ PassRank(t) = passes * Pass + Beyond(t.pg) + 2 - t.ix
  BY DEF PassRank
<1> HIDE DEF passes
<1>4. passes * Pass \in Nat
  BY <1>1, <1>2
<1>5. CASE t.pg = s.pg /\ t.ix = s.ix + 1
  BY <1>1, <1>2, <1>3, <1>4, <1>5
<1>6. CASE s.pg \in Pages /\ t.pg = s.pg + 1 /\ t.ix = 1
  <2>1. s.pg <= NPages
    BY <1>0, <1>6 DEF Pages
  <2>2. Beyond(s.pg) = Beyond(t.pg) + AllDone
    BY <1>1, <1>6, <2>1, BeyondFacts
  <2> QED
    BY <1>0, <1>1, <1>2, <1>3, <1>4, <1>6, <2>2
<1> QED
  BY <1>5, <1>6

(* The walk ends at the start of the page after the last.                  *)
OnStart == pc = "scan" /\ scan.pg \notin Pages => scan.ix = 1

LEMMA ScanStands ==
  /\ IInv /\ OnStart /\ pc = "scan" => Stands(scan)
  /\ IInv' /\ OnStart' /\ pc' = "scan" => Stands(scan')
<1>0. NPages \in Nat /\ PageItems \in Nat /\ Pages = 1 .. NPages /\ AllDone = PageItems + 1
  BY PageAssumption DEF AllDone, Pages
<1>1. ASSUME IInv, OnStart, pc = "scan" PROVE Stands(scan)
  <2>1. /\ scan \in Scans /\ scan.pg \in 1 .. NPages + 1 /\ flash \in Flashes
        /\ scan.pg \in Pages => scan.ix \in 1 .. Num(flash, scan.pg) + 1
        /\ scan.pg \notin Pages => scan.ix = 1
    BY <1>1 DEF IInv, Base, ScanPhase, OnStart
  <2>2. scan.pg \in Pages => Num(flash, scan.pg) \in 0 .. PageItems
    BY <2>1, Types
  <2>3. scan.ix \in 1 .. AllDone
    BY <1>0, <2>1, <2>2
  <2> QED
    BY <2>1, <2>3 DEF Stands
<1>2. ASSUME IInv', OnStart', pc' = "scan" PROVE Stands(scan')
  <2>1. /\ scan' \in Scans /\ scan'.pg \in 1 .. NPages + 1 /\ flash' \in Flashes
        /\ scan'.pg \in Pages => scan'.ix \in 1 .. Num(flash', scan'.pg) + 1
        /\ scan'.pg \notin Pages => scan'.ix = 1
    BY <1>2 DEF IInv, Base, ScanPhase, OnStart
  <2>2. scan'.pg \in Pages => Num(flash', scan'.pg) \in 0 .. PageItems
    BY <2>1, Types
  <2>3. scan'.ix \in 1 .. AllDone
    BY <1>0, <2>1, <2>2
  <2> QED
    BY <2>1, <2>3 DEF Stands
<1> QED
  BY <1>1, <1>2

(* What a pass starts with.                                                *)
LEMMA PassStarts ==
  ASSUME NEW p \in {"mark", "dups", "final"}, NEW s, s = [NoScan EXCEPT !.pass = p]
  PROVE  Stands(s) /\ s.pass = p /\ PassRank(s) \in Nat
         /\ (p = "dups" => PassRank(s) <= 2 * Pass) /\ (p = "final" => PassRank(s) <= Pass)
<1>1. s = [pg |-> 1, ix |-> 1, lost |-> 0, pass |-> p, old |-> 0]
  BY DEF NoScan
<1>2. NPages \in Nat /\ NPages >= 1 /\ AllDone \in Nat /\ AllDone >= 1
  BY PageAssumption DEF AllDone
<1>3. Stands(s) /\ s.pass = p /\ s.pg = 1 /\ s.ix = 1
  <2>1. s \in Scans
    <3>1. NoScan \in Scans
      BY DEF NoScan, Scans
    <3> QED
      BY <3>1 DEF Scans
  <2>2. s.pass = p /\ s.pg = 1 /\ s.ix = 1
    BY <1>1
  <2>3. 1 \in 1 .. NPages + 1 /\ 1 \in 1 .. AllDone
    BY <1>2
  <2> QED
    BY <2>1, <2>2, <2>3 DEF Stands
<1>4. Beyond(1) \in Nat /\ Pass = Beyond(1) + 1
  BY <1>2, BeyondFacts DEF Pass
<1> QED
  BY <1>3, <1>4, PassRankRange DEF PassRank

(* Nearer to the end.                                                      *)
Nearer == OnStart' /\ StepsLeft' < StepsLeft /\ StepsLeft' >= 0

LEMMA ScanItemNearer ==
  ASSUME IInv, IInv', OnStart, ScanItem PROVE Nearer
<1>1. pc = "scan" /\ AtItem /\ pc' = "scan" /\ Stands(scan)
  BY ScanStands DEF ScanItem
<1>2. scan.pg \in Pages /\ Base /\ scan \in Scans
  BY <1>1, ScanAt DEF Base
<1> DEFINE step == [scan EXCEPT !.ix = @ + 1]
           more == [step EXCEPT !.lost = @ + 1]
           next == [scan EXCEPT !.pg = @ + 1, !.ix = 1, !.lost = 0]
<1>3. \/ scan' = step
      \/ scan' = more
      \/ scan' = next
      \/ scan.pass = "mark" /\ scan' = [NoScan EXCEPT !.pass = "dups"]
  BY <1>1 DEF ScanItem, NextPass
<1>4. CASE scan' = step \/ scan' = more
  <2>1. scan'.pg = scan.pg /\ scan'.ix = scan.ix + 1 /\ scan'.pass = scan.pass
    BY <1>2, <1>4, OneSlot, ZenonT(60)
  <2>2. OnStart'
    BY <1>2, <2>1 DEF OnStart
  <2>3. Stands(scan')
    BY <1>1, <2>2, ScanStands
  <2> QED
    BY <1>1, <2>1, <2>2, <2>3, PassLowers, PassRankRange, ScanLeft DEF Nearer
<1>5. CASE scan' = next
  <2>1. /\ scan = [pg |-> scan.pg, ix |-> scan.ix, lost |-> scan.lost, pass |-> scan.pass, old |-> scan.old]
    BY <1>2 DEF Scans
  <2>2. scan' = [pg |-> scan.pg + 1, ix |-> 1, lost |-> 0, pass |-> scan.pass, old |-> scan.old]
    BY <1>5, <2>1
  <2>3. scan'.pg = scan.pg + 1 /\ scan'.ix = 1 /\ scan'.pass = scan.pass
    BY <2>2
  <2>4. OnStart'
    BY <2>3 DEF OnStart
  <2>5. Stands(scan')
    BY <1>1, <2>4, ScanStands
  <2> QED
    BY <1>1, <1>2, <2>3, <2>4, <2>5, PassLowers, PassRankRange, ScanLeft DEF Nearer
<1>6. CASE scan.pass = "mark" /\ scan' = [NoScan EXCEPT !.pass = "dups"]
  <2>1. Stands(scan') /\ PassRank(scan') \in Nat /\ PassRank(scan') <= 2 * Pass
    BY <1>6, PassStarts
  <2>2. PassRank(scan) > 2 * Pass /\ PassRank(scan) \in Nat /\ Pass \in Nat
    BY <1>1, <1>6, PassRankRange, PassFacts
  <2>3. OnStart'
    BY <1>6 DEF OnStart, NoScan
  <2> QED
    BY <1>1, <2>1, <2>2, <2>3, ScanLeft DEF Nearer
<1> QED
  BY <1>3, <1>4, <1>5, <1>6

LEMMA ScanPageEndNearer ==
  ASSUME IInv, IInv', OnStart, ScanPageEnd PROVE Nearer
<1>1. pc = "scan" /\ pc' = "scan" /\ Stands(scan) /\ scan.pg \in Pages
  BY ScanStands DEF ScanPageEnd
<1>2. scan = [pg |-> scan.pg, ix |-> scan.ix, lost |-> scan.lost, pass |-> scan.pass, old |-> scan.old]
  BY <1>1 DEF Stands, Scans
<1>3. scan' = [pg |-> scan.pg + 1, ix |-> 1, lost |-> 0, pass |-> scan.pass, old |-> scan.old]
  BY <1>2 DEF ScanPageEnd
<1>4. scan'.pg = scan.pg + 1 /\ scan'.ix = 1 /\ scan'.pass = scan.pass
  BY <1>3
<1>5. OnStart'
  BY <1>4 DEF OnStart
<1>6. Stands(scan')
  BY <1>1, <1>5, ScanStands
<1> QED
  BY <1>1, <1>4, <1>5, <1>6, PassLowers, PassRankRange, ScanLeft DEF Nearer

LEMMA ScanEndNearer ==
  ASSUME IInv, IInv', OnStart, ScanEnd PROVE Nearer
<1>1. pc = "scan" /\ Stands(scan) /\ StepsLeft = PassRank(scan)
      /\ PassRank(scan) \in Nat /\ PassRank(scan) >= 1
  BY ScanStands, ScanLeft, PassRankRange DEF ScanEnd
<1>2. CASE scan.pass = "dups"
  <2>1. pc' = "scan" /\ scan' = [NoScan EXCEPT !.pass = "final"]
    BY <1>1, <1>2 DEF ScanEnd
  <2>2. Stands(scan') /\ PassRank(scan') \in Nat /\ PassRank(scan') <= Pass
    BY <2>1, PassStarts
  <2>3. PassRank(scan) > Pass /\ Pass \in Nat
    BY <1>1, <1>2, PassRankRange, PassFacts
  <2>4. OnStart'
    BY <2>1 DEF OnStart, NoScan
  <2> QED
    BY <1>1, <2>1, <2>2, <2>3, <2>4, ScanLeft DEF Nearer
<1>3. CASE scan.pass # "dups"
  <2>1. pc' = "ready"
    BY <1>3 DEF ScanEnd
  <2>2. StepsLeft' = 0
    BY <2>1 DEF StepsLeft
  <2> QED
    BY <1>1, <2>1, <2>2 DEF Nearer, OnStart
<1> QED
  BY <1>2, <1>3

(* The places of the program outside the passes, in their order.           *)
LEMMA Places ==
  /\ pc = "ready" => StepsLeft = 0
  /\ pc = "return" => StepsLeft = 1
  /\ pc = "zero" => StepsLeft = 2
  /\ pc = "erase" => StepsLeft = Way + 1
  /\ pc = "use" => StepsLeft = Way + 2
  /\ pc = "data" => StepsLeft = Way + 3
  /\ pc = "mark" => StepsLeft = Way + 4
  /\ pc = "header" => StepsLeft = Way + 5
  /\ pc = "compact" => StepsLeft = Way + 6 + PageItems + 1 - job.k
  /\ pc = "xfer" => StepsLeft = Way + 7 + PageItems
  /\ pc = "find" => StepsLeft = Way + 8 + PageItems
  /\ pc = "pages" => StepsLeft = Way + 8 + PageItems + NPages - scan.pg
<1>1. PassSteps = Pass
  BY PassFacts
<1>2. Way = 3 * PassSteps
  BY <1>1 DEF Way
<1> QED
  BY <1>2 DEF StepsLeft

LEMMA PlacesAfter ==
  /\ pc' = "ready" => StepsLeft' = 0
  /\ pc' = "return" => StepsLeft' = 1
  /\ pc' = "zero" => StepsLeft' = 2
  /\ pc' = "erase" => StepsLeft' = Way + 1
  /\ pc' = "use" => StepsLeft' = Way + 2
  /\ pc' = "data" => StepsLeft' = Way + 3
  /\ pc' = "mark" => StepsLeft' = Way + 4
  /\ pc' = "header" => StepsLeft' = Way + 5
  /\ pc' = "compact" => StepsLeft' = Way + 6 + PageItems + 1 - job'.k
  /\ pc' = "xfer" => StepsLeft' = Way + 7 + PageItems
  /\ pc' = "find" => StepsLeft' = Way + 8 + PageItems
  /\ pc' = "pages" => StepsLeft' = Way + 8 + PageItems + NPages - scan'.pg
<1>1. PassSteps = Pass
  BY PassFacts
<1>2. Way = 3 * PassSteps
  BY <1>1 DEF Way
<1> QED
  BY <1>2 DEF StepsLeft

LEMMA WayFacts == Way \in Nat /\ NPages \in Nat /\ PageItems \in Nat /\ Way >= 3
<1>1. Pass \in Nat /\ Pass >= 1 /\ Way = 3 * Pass
  BY PassFacts
<1> QED
  BY <1>1, PageAssumption

(* Every other step leads on to a later place.                             *)
LEMMA RequestNearer ==
  ASSUME IInv, OnStart,
         \/ LowVoltage \/ osal_nv_item_init \/ osal_nv_write \/ osal_nv_delete
         \/ StartCompaction \/ CompactEnd \/ WriteHeader \/ MarkOld \/ WriteData
         \/ UseTarget \/ ZeroOld \/ Finish
  PROVE  Nearer
<1>0. Way \in Nat /\ NPages \in Nat /\ PageItems \in Nat /\ Way >= 3
  BY WayFacts
<1>1. ASSUME pc = "find", pc' \in {"ready", "zero", "header"} \/ (pc' \in {"compact", "xfer"} /\ job'.k = 1)
      PROVE  Nearer
  BY <1>0, <1>1, Places, PlacesAfter DEF Nearer, OnStart
<1>2. ASSUME LowVoltage \/ osal_nv_delete PROVE Nearer
  <2>1. pc = "find" /\ pc' \in {"ready", "zero"}
    BY <1>2 DEF LowVoltage, osal_nv_delete, Return
  <2> QED
    BY <1>1, <2>1
<1>3. ASSUME osal_nv_item_init \/ osal_nv_write PROVE Nearer
  <2>1. pc = "find"
    BY <1>3 DEF osal_nv_item_init, osal_nv_write
  <2>2. \/ pc' = "ready"
        \/ \E src \in {NoItem, FindItem(req.id)} : InitItem(src, pgLost')
    BY <1>3 DEF osal_nv_item_init, osal_nv_write, Return
  <2>3. ASSUME NEW src, InitItem(src, pgLost')
        PROVE  pc' \in {"ready", "header"} \/ (pc' \in {"compact", "xfer"} /\ job'.k = 1)
    BY <2>3 DEF InitItem, Return, NoJob
  <2> QED
    BY <1>1, <2>1, <2>2, <2>3
<1>4. ASSUME StartCompaction PROVE Nearer
  <2>1. pc = "xfer" /\ pc' = "compact" /\ job' = job /\ job.k = 1
    BY <1>4 DEF StartCompaction, IInv
  <2> QED
    BY <1>0, <2>1, Places, PlacesAfter DEF Nearer, OnStart
<1>5. ASSUME CompactEnd PROVE Nearer
  <2>1. pc = "compact" /\ pc' \in {"use", "header"} /\ job.k \in 1 .. PageItems + 1
    BY <1>5 DEF CompactEnd, IInv, CompactPhase, AllDone
  <2> QED
    BY <1>0, <2>1, Places, PlacesAfter DEF Nearer, OnStart
<1>6. ASSUME WriteHeader PROVE Nearer
  <2>1. pc = "header" /\ pc' \in {"data", "mark"}
    BY <1>6 DEF WriteHeader
  <2> QED
    BY <1>0, <2>1, Places, PlacesAfter DEF Nearer, OnStart
<1>7. ASSUME MarkOld PROVE Nearer
  <2>1. pc = "mark" /\ pc' = "data"
    BY <1>7 DEF MarkOld
  <2> QED
    BY <1>0, <2>1, Places, PlacesAfter DEF Nearer, OnStart
<1>8. ASSUME WriteData PROVE Nearer
  <2>1. pc = "data" /\ pc' \in {"use", "zero", "return"}
    BY <1>8 DEF WriteData
  <2> QED
    BY <1>0, <2>1, Places, PlacesAfter DEF Nearer, OnStart
<1>9. ASSUME UseTarget PROVE Nearer
  <2>1. pc = "use" /\ pc' = "erase"
    BY <1>9 DEF UseTarget
  <2> QED
    BY <1>0, <2>1, Places, PlacesAfter DEF Nearer, OnStart
<1>10. ASSUME ZeroOld PROVE Nearer
  <2>1. pc = "zero" /\ pc' = "return"
    BY <1>10 DEF ZeroOld
  <2> QED
    BY <1>0, <2>1, Places, PlacesAfter DEF Nearer, OnStart
<1>11. ASSUME Finish PROVE Nearer
  <2>1. pc = "return" /\ pc' = "ready"
    BY <1>11 DEF Finish, Return
  <2> QED
    BY <1>0, <2>1, Places, PlacesAfter DEF Nearer, OnStart
<1> QED
  BY <1>2, <1>3, <1>4, <1>5, <1>6, <1>7, <1>8, <1>9, <1>10, <1>11

(* A compaction ends behind the last slot of its page.                     *)
LEMMA CompactItemNearer ==
  ASSUME IInv, CompactItem PROVE Nearer
<1>0. Way \in Nat /\ NPages \in Nat /\ PageItems \in Nat
  BY WayFacts
<1>1. /\ pc = "compact" /\ pc' = "compact" /\ job \in Jobs
      /\ job.k \in DOMAIN flash[job.com].items /\ job' = [job EXCEPT !.k = @ + 1]
      /\ job.com \in Pages /\ flash \in Flashes
  BY DEF CompactItem, IInv, Base, CompactPhase, Compacts, Moving
<1>2. job'.k = job.k + 1
  BY <1>1 DEF Jobs
<1>3. flash[job.com].items \in Seq(Cells) /\ Num(flash, job.com) \in 0 .. PageItems
  BY <1>1, Types
<1>4. job.k \in 1 .. PageItems
  BY <1>0, <1>1, <1>3, SMTT(40) DEF Num
<1> QED
  BY <1>0, <1>1, <1>2, <1>4, Places, PlacesAfter DEF Nearer, OnStart

(* After an erasure the pages are walked, or the request is all but done.  *)
LEMMA EraseSourceNearer ==
  ASSUME IInv, EraseSource PROVE Nearer
<1>0. Way \in Nat /\ Way >= 3
  BY WayFacts
<1>1. pc = "erase" /\ pc' \in {"scan", "zero", "return"} /\ scan' = scan /\ scan = NoScan
  BY DEF EraseSource, IInv
<1>2. CASE pc' = "scan"
  <2>1. scan' = [NoScan EXCEPT !.pass = "mark"]
    BY <1>1 DEF NoScan
  <2>2. Stands(scan')
    BY <2>1, PassStarts
  <2>3. OnStart'
    BY <2>1 DEF OnStart, NoScan
  <2> QED
    BY <1>0, <1>1, <1>2, <2>2, <2>3, PassRankRange, ScanLeft, Places DEF Nearer
<1>3. CASE pc' \in {"zero", "return"}
  BY <1>0, <1>1, <1>3, Places, PlacesAfter DEF Nearer, OnStart
<1> QED
  BY <1>1, <1>2, <1>3

LEMMA BootNearer ==
  ASSUME IInv, BootPage \/ BootRepair PROVE Nearer
<1>0. Way \in Nat /\ NPages \in Nat /\ PageItems \in Nat /\ Way >= 3
  BY WayFacts
<1>1. pc = "pages" /\ scan \in Scans /\ scan.pg \in 1 .. NPages + 1
  BY DEF BootPage, BootRepair, IInv, Base, PagesPhase
<1>2. CASE BootPage
  <2>1. pc' = "pages" /\ scan.pg \in 1 .. NPages /\ scan'.pg = scan.pg + 1
    BY <1>1, <1>2 DEF BootPage, Scans, Pages
  <2> QED
    BY <1>0, <1>1, <2>1, Places, PlacesAfter DEF Nearer, OnStart
<1>3. CASE BootRepair
  <2>1. scan' = [NoScan EXCEPT !.pass = "mark"]
    BY <1>3 DEF BootRepair, NoScan
  <2>2. pc' = "scan" \/ (pc' = "compact" /\ job'.k = 1)
    BY <1>3 DEF BootRepair, NoJob
  <2>3. Stands(scan')
    BY <2>1, PassStarts
  <2>4. OnStart'
    BY <2>1 DEF OnStart, NoScan
  <2>5. CASE pc' = "scan"
    BY <1>0, <1>1, <2>3, <2>4, <2>5, PassRankRange, ScanLeft, Places DEF Nearer
  <2>6. CASE pc' = "compact" /\ job'.k = 1
    BY <1>0, <1>1, <2>4, <2>6, Places, PlacesAfter DEF Nearer
  <2> QED
    BY <2>2, <2>5, <2>6
<1> QED
  BY <1>2, <1>3

LEMMA StepNearer ==
  ASSUME IInv, IInv', OnStart, Step PROVE Nearer
BY RequestNearer, CompactItemNearer, EraseSourceNearer, BootNearer, ScanItemNearer,
   ScanPageEndNearer, ScanEndNearer DEF Step

LEMMA OnStartKept == IInv /\ IInv' /\ OnStart /\ [Next]_vars => OnStart'
<1> SUFFICES ASSUME IInv, IInv', OnStart, [Next]_vars PROVE OnStart'
  OBVIOUS
<1>1. CASE Call
  BY <1>1 DEF Call, OnStart
<1>2. CASE Step
  BY <1>2, StepNearer DEF Nearer
<1>3. CASE PowerLoss
  BY <1>3 DEF PowerLoss, OnStart
<1>4. CASE UNCHANGED vars
  BY <1>4 DEF vars, OnStart
<1> QED
  BY <1>1, <1>2, <1>3, <1>4 DEF Next

(* The way of a power-up or a request is never longer than this.           *)
Longest == 3 * (NPages * (PageItems + 1) + 1) + PageItems + NPages + 8

LEMMA AtMostLongest ==
  ASSUME IInv, OnStart PROVE StepsLeft <= Longest
<1>1. Way \in Nat /\ NPages \in Nat /\ PageItems \in Nat /\ Way >= 3
  BY WayFacts
<1>2. Longest = Way + PageItems + NPages + 8
  BY PassFacts DEF Longest, PassSteps, Way
<1>3. CASE pc = "scan"
  <2>1. Stands(scan)
    BY <1>3, ScanStands
  <2>2. StepsLeft = PassRank(scan)
    BY <1>3, <2>1, ScanLeft
  <2>3. PassRank(scan) \in Nat /\ PassRank(scan) <= Way
    BY <2>1, PassRankRange
  <2> QED
    BY <1>1, <1>2, <2>2, <2>3
<1>4. CASE pc = "compact"
  <2>1. job.k \in 1 .. PageItems + 1
    BY <1>4 DEF IInv, CompactPhase, AllDone
  <2> QED
    BY <1>1, <1>2, <1>4, <2>1, Places
<1>5. CASE pc = "pages"
  <2>1. scan.pg \in 1 .. NPages + 1
    BY <1>5 DEF IInv, PagesPhase
  <2> QED
    BY <1>1, <1>2, <1>5, <2>1, Places
<1>6. CASE pc \in {"ready", "find", "xfer", "header", "mark", "data", "use", "erase", "zero", "return"}
  BY <1>1, <1>2, <1>6, Places
<1> QED
  BY <1>3, <1>4, <1>5, <1>6 DEF IInv, Base

(* initNV and every request come to an end: each of their steps, a         *)
(* repeated pass of initPage, a repair or a compaction included, brings    *)
(* them nearer to it, for every number and size of pages and whatever the  *)
(* losses of power left in the flash.                                      *)
THEOREM StepsComeNearer == Spec => ComesNearer
<1>1. Init => OnStart
  BY DEF Init, OnStart
<1>2. IInv /\ IInv' /\ OnStart /\ [Next]_vars => [Step => StepsLeft' < StepsLeft /\ StepsLeft' >= 0]_vars
  BY StepNearer DEF Nearer
<1> QED
  BY <1>1, <1>2, OnStartKept, Invariant, PTL DEF Spec, ComesNearer

(* No power-up and no request takes more than Longest steps (initNV,       *)
(* osal_nv_write), even one that repairs what a loss of power left.        *)
THEOREM StepsAreBounded == Spec => [](StepsLeft <= Longest)
<1>1. Init => OnStart
  BY DEF Init, OnStart
<1> QED
  BY <1>1, OnStartKept, AtMostLongest, Invariant, PTL DEF Spec
=============================================================================
