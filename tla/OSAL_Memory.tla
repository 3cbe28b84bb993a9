---------------------------- MODULE OSAL_Memory ----------------------------
(***************************************************************************)
(* The heap (OSAL_Memory.c): blocks, each with a header that holds its     *)
(* length and whether it is in use, fill the heap from end to end.  Freed  *)
(* blocks are joined again only by the next allocation that walks over     *)
(* them.  Small blocks are looked for from ff1, the first free block of    *)
(* the front part of the heap, all others behind that part.                *)
(*                                                                         *)
(* Every call runs inside one critical section, so nothing happens between *)
(* two steps of a walk.  The heap is a function from the addresses of the  *)
(* headers that count; a header that was swallowed by a join stays in      *)
(* memory, but no walk may ever meet it again.                             *)
(***************************************************************************)
EXTENDS Naturals, FiniteSets

CONSTANTS HdrSz,        \* OSALMEM_HDRSZ
          MinBlk,       \* OSALMEM_MIN_BLKSZ: what is worth splitting off
          SmallBlk,     \* OSALMEM_SMALL_BLKSZ: the largest small block
          Bucket,       \* OSALMEM_SMALLBLK_BUCKET: length of the front part
          BigSz,        \* OSALMEM_BIGBLK_SZ: length of the rest
          Sizes         \* the sizes that are asked for

(* A free block has room for more than a header.                           *)
ASSUME SizeAssumption ==
  /\ HdrSz \in Nat \ {0} /\ SmallBlk \in Nat
  /\ Bucket \in Nat /\ BigSz \in Nat /\ MinBlk \in Nat
  /\ Bucket > HdrSz /\ BigSz > HdrSz /\ MinBlk > HdrSz
  /\ Sizes \subseteq Nat \ {0}

Barrier == Bucket               \* OSALMEM_SMALLBLK_HDRCNT
BigBlk == Bucket + HdrSz        \* OSALMEM_BIGBLK_IDX
LastBlk == BigBlk + BigSz       \* OSALMEM_LASTBLK_IDX

VARIABLES heap,         \* the headers
          ff1,          \* first free block of the front part
          kicked,       \* osalMemStat
          taken,        \* the blocks that are in the hands of their callers
          memPc, size, hdr, prev, coal     \* locals of osal_mem_alloc

walkVars == <<size, hdr, prev, coal>>
memVars == <<heap, ff1, kicked, taken, memPc, size, hdr, prev, coal>>

Addr == 0 .. LastBlk
Free(n) == [len |-> n, inUse |-> FALSE]
Used(n) == [len |-> n, inUse |-> TRUE]
EndMark == Free(0)

(* The heap with the header h at address a.                                *)
Put(f, a, h) == [x \in DOMAIN f \cup {a} |-> IF x = a THEN h ELSE f[x]]
Drop(f, a) == [x \in DOMAIN f \ {a} |-> f[x]]

(* osal_mem_init.  A used block without data keeps the two parts apart.    *)
MemInit == /\ heap = [a \in {0, Barrier, BigBlk, LastBlk} |->
                     CASE a = 0       -> Free(Bucket)
                       [] a = Barrier -> Used(HdrSz)
                       [] a = BigBlk  -> Free(BigSz)
                       [] a = LastBlk -> EndMark]
        /\ ff1 = 0 /\ kicked = FALSE /\ taken = {}
        /\ memPc = "idle" /\ size = 0 /\ hdr = 0 /\ prev = 0 /\ coal = FALSE
-----------------------------------------------------------------------------
(* osal_mem_alloc.  Until the kick every block is looked for in the front  *)
(* part first.                                                             *)
StartAt(n) == IF ~kicked \/ n <= SmallBlk THEN ff1 ELSE BigBlk

Begin(n, next) ==
  /\ memPc = "idle"
  /\ size' = n + HdrSz /\ hdr' = StartAt(n + HdrSz)
  /\ prev' = 0 /\ coal' = FALSE
  /\ memPc' = next
  /\ UNCHANGED <<heap, ff1, kicked, taken>>

osal_mem_alloc == \E n \in Sizes : Begin(n, "walk")

(* osal_mem_kick asks for one byte to find where the small blocks begin.   *)
osal_mem_kick == ~kicked /\ Begin(1, "kickwalk")

(* One turn of the loop.  A free block is joined to the free block before  *)
(* it until there is enough.                                               *)
Joined == heap[prev].len + heap[hdr].len
Joining == ~heap[hdr].inUse /\ coal
Enough == ~heap[hdr].inUse /\ (IF coal THEN Joined ELSE heap[hdr].len) >= size
NextBlk == hdr + heap[hdr].len

(* Mutant: the joined block keeps its length.                              *)
Join_sameLength == IF Joining THEN Put(Drop(heap, hdr), prev, Free(heap[prev].len)) ELSE heap
Join == IF Joining THEN Put(Drop(heap, hdr), prev, Free(Joined)) ELSE heap

Walking == memPc \in {"walk", "kickwalk"}

WalkOn ==
  /\ Walking /\ ~Enough
  /\ heap[NextBlk] # EndMark
  /\ heap' = Join
  /\ coal' = ~heap[hdr].inUse
  /\ prev' = IF heap[hdr].inUse \/ coal THEN prev ELSE hdr
  /\ hdr' = NextBlk
  /\ UNCHANGED <<ff1, kicked, taken, memPc, size>>

WalkFinds ==
  /\ Walking /\ Enough
  /\ heap' = Join
  /\ hdr' = IF coal THEN prev ELSE hdr
  /\ memPc' = IF memPc = "walk" THEN "found" ELSE "kickfound"
  /\ UNCHANGED <<ff1, kicked, taken, size, prev, coal>>

(* NULL is returned; the joins stay.  A kick that finds nothing stops the  *)
(* program (HAL_ASSERT, OSAL_Memory.c:280).                                *)
WalkFails ==
  /\ memPc = "walk" /\ ~Enough
  /\ heap[NextBlk] = EndMark
  /\ heap' = Join
  /\ memPc' = "failed"
  /\ UNCHANGED <<ff1, kicked, taken, size, hdr, prev, coal>>

(* The block found, split if the rest is worth it.                         *)
Rest == heap[hdr].len - size
Split == Rest >= MinBlk
(* Mutant: the block is not marked as used.                                *)
Allocated_free == IF Split THEN Put(Put(heap, hdr, Free(size)), hdr + size, Free(Rest))
                  ELSE Put(heap, hdr, Used(heap[hdr].len))
Allocated == IF Split THEN Put(Put(heap, hdr, Used(size)), hdr + size, Free(Rest))
             ELSE Put(heap, hdr, Used(heap[hdr].len))

Rests == memPc' = "idle" /\ size' = 0 /\ hdr' = 0 /\ prev' = 0 /\ coal' = FALSE

Allocate ==
  /\ memPc = "found"
  /\ heap' = Allocated
  /\ ff1' = IF kicked /\ ff1 = hdr THEN hdr + heap'[hdr].len ELSE ff1
  /\ taken' = taken \cup {[at |-> hdr, len |-> size]}
  /\ Rests
  /\ UNCHANGED kicked

(* The rest of osal_mem_kick: the block is freed again.                    *)
Kick ==
  /\ memPc = "kickfound"
  /\ heap' = Put(Allocated, hdr, Free(Allocated[hdr].len))
  /\ ff1' = hdr
  /\ kicked' = TRUE
  /\ Rests
  /\ UNCHANGED taken

ReturnNull ==
  /\ memPc = "failed" /\ Rests
  /\ UNCHANGED <<heap, ff1, kicked, taken>>

(* Mutant: ff1 stays behind the block.                                     *)
osal_mem_free_keepsFf1 ==
  /\ memPc = "idle"
  /\ \E b \in taken :
       /\ heap' = Put(heap, b.at, Free(heap[b.at].len))
       /\ taken' = taken \ {b}
  /\ UNCHANGED <<ff1, kicked, memPc, size, hdr, prev, coal>>

osal_mem_free ==
  /\ memPc = "idle"
  /\ \E b \in taken :
       /\ heap' = Put(heap, b.at, Free(heap[b.at].len))
       /\ ff1' = IF ff1 > b.at THEN b.at ELSE ff1
       /\ taken' = taken \ {b}
  /\ UNCHANGED <<kicked, memPc, size, hdr, prev, coal>>

MemNext == \/ osal_mem_alloc \/ osal_mem_kick \/ osal_mem_free
        \/ WalkOn \/ WalkFinds \/ WalkFails
        \/ Allocate \/ Kick \/ ReturnNull

MemSpec == MemInit /\ [][MemNext]_memVars
-----------------------------------------------------------------------------
(* The types of the variables.                                             *)
MemTypeOK ==
  /\ DOMAIN heap \subseteq Addr
  /\ \A a \in DOMAIN heap : heap[a] \in [len : Addr, inUse : BOOLEAN]
  /\ ff1 \in Addr /\ kicked \in BOOLEAN
  /\ memPc \in {"idle", "walk", "kickwalk", "found", "kickfound", "failed"}
  /\ size \in Nat /\ hdr \in Addr /\ prev \in Addr /\ coal \in BOOLEAN

(* The blocks fill the heap: behind every block the next one begins, up to *)
(* the end mark, ff1 is one of them, and the two parts stay apart.         *)
Ends(a) == a + heap[a].len
Tiled ==
  /\ {0, Barrier, BigBlk, LastBlk, ff1} \subseteq DOMAIN heap
  /\ heap[Barrier] = Used(HdrSz) /\ heap[LastBlk] = EndMark
  /\ \A a \in DOMAIN heap \ {LastBlk} :
       /\ a < Ends(a) /\ Ends(a) \in DOMAIN heap
       /\ \A b \in DOMAIN heap : b <= a \/ Ends(a) <= b

(* The blocks in use are those in the hands of a caller, each as long as   *)
(* was asked for, and the barrier: no block is given out twice, shortened, *)
(* or lost.                                                                *)
TakenKept ==
  /\ \A b \in taken : b.at \in DOMAIN heap /\ b.len <= heap[b.at].len
  /\ \A a \in DOMAIN heap :
       heap[a].inUse <=> a = Barrier \/ \E b \in taken : b.at = a
  /\ \A b, c \in taken : b.at = c.at => b = c

(* Both together: what a caller was given is its own, and nothing is lost. *)
BlocksKept == Tiled /\ TakenKept

(* An allocation fails only if no run of free blocks is long enough,       *)
(* however the blocks were freed: nothing that is free is overlooked below *)
(* ff1, and joining while walking is enough.                               *)
FreeRun(a, b) == \A c \in DOMAIN heap : a <= c /\ c < b => ~heap[c].inUse
InReach(a) == size <= SmallBlk \/ ~kicked \/ BigBlk <= a
FailsOnlyWithoutRoom ==
  memPc = "failed" =>
    \A a, b \in DOMAIN heap :
      a < b /\ InReach(a) /\ FreeRun(a, b) => b - a < size
=============================================================================
