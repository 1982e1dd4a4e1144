-------------------------------- MODULE Heap --------------------------------
(***************************************************************************)
(* One memory pool (application/libbase/heap_4.c over mem_managment.c): a  *)
(* list of free blocks in address order, threaded through the blocks'      *)
(* headers, first fit, splitting, and merging with both neighbours when a  *)
(* block comes back.  Addresses and sizes are bytes; the pools of          *)
(* heap_table share no state, so one stands for each.                      *)
(***************************************************************************)
EXTENDS Integers, FiniteSets, FiniteSetsExt

CONSTANTS
  heap_base, configTOTAL_HEAP_SIZE,     \* the pool's entry of heap_table
  xBlockAllocatedBit,                   \* 2^31: the top bit of a size_t
  Requests                              \* the sizes asked for

portBYTE_ALIGNMENT     == 4
xHeapStructSize        == 8
heapMINIMUM_BLOCK_SIZE == 2 * xHeapStructSize

AlignDown(x) == x - (x % portBYTE_ALIGNMENT)
AlignUp(x)   == AlignDown(x + portBYTE_ALIGNMENT - 1)

FirstBlock == AlignUp(heap_base)
pxEnd      == AlignDown(heap_base + configTOTAL_HEAP_SIZE - xHeapStructSize)

\* xStart lies outside of the pool
xStart == -1
NULL   == -2

ASSUME HeapAssumption ==
  /\ heap_base \in Nat /\ configTOTAL_HEAP_SIZE \in Nat /\ xBlockAllocatedBit \in Nat
  /\ FirstBlock < pxEnd
  /\ configTOTAL_HEAP_SIZE <= xBlockAllocatedBit      \* no block has the bit in its size
  /\ Requests \subseteq 0..(2 * xBlockAllocatedBit - 1)

VARIABLES
  xBlockSize,                       \* of each header: xStart, pxEnd and the blocks
  pxNextFreeBlock,                  \* of the same; NULL outside of the list
  asked,                            \* of each allocated block, what its owner asked for
  xFreeBytesRemaining, xMinimumEverFreeBytesRemaining

vars == <<xBlockSize, pxNextFreeBlock, asked, xFreeBytesRemaining, xMinimumEverFreeBytesRemaining>>

Headers   == DOMAIN xBlockSize
Blocks    == Headers \ {xStart, pxEnd}
Allocated == DOMAIN asked             \* the blocks with xBlockAllocatedBit set
Free      == Blocks \ Allocated

TypeOK ==
  /\ Blocks \subseteq {a \in FirstBlock..(pxEnd - 1) : a % portBYTE_ALIGNMENT = 0}
  /\ {xStart, pxEnd} \subseteq Headers
  /\ \A a \in Headers : xBlockSize[a] \in 0..(pxEnd - FirstBlock)
  /\ DOMAIN pxNextFreeBlock = Headers
  /\ \A a \in Headers : pxNextFreeBlock[a] \in Headers \cup {NULL}
  /\ Allocated \subseteq Blocks /\ \A b \in Allocated : asked[b] \in Requests
  /\ {xFreeBytesRemaining, xMinimumEverFreeBytesRemaining} \subseteq 0..(pxEnd - FirstBlock)

\* the state after prvHeapInit, which every entry point calls first
Init ==
  /\ xBlockSize = [a \in {xStart, FirstBlock, pxEnd} |->
                     IF a = FirstBlock THEN pxEnd - FirstBlock ELSE 0]
  /\ pxNextFreeBlock = [a \in {xStart, FirstBlock, pxEnd} |->
                     IF a = xStart THEN FirstBlock ELSE IF a = FirstBlock THEN pxEnd ELSE NULL]
  /\ asked = [b \in {} |-> 0]
  /\ xFreeBytesRemaining = pxEnd - FirstBlock
  /\ xMinimumEverFreeBytesRemaining = pxEnd - FirstBlock

-----------------------------------------------------------------------------
(* The list *)

\* where the walk of prvInsertBlockIntoFreeList stops for a block at b
StopsAt(next, it, b) == next[it] # NULL /\ it < b /\ b <= next[it]

Joins(size, a, b) == a + size[a] = b

\* mutant: the block before is linked to the merged block, itself
Inserted_SelfLink(next, size, it, b) ==
  LET withPrev == Joins(size, it, b)
      at       == IF withPrev THEN it ELSE b
      keep     == DOMAIN size \ (IF withPrev THEN {b} ELSE {})
  IN [size |-> [a \in keep |-> IF a = at /\ withPrev THEN size[a] + size[b] ELSE size[a]],
      next |-> [a \in keep |-> IF a = it THEN at ELSE IF a = at THEN next[it] ELSE next[a]]]

\* the list and the sizes after prvInsertBlockIntoFreeList, given those before, the
\* place it and the block b, which has its size but is not in the list yet
Inserted(next, size, it, b) ==
  LET after    == next[it]
      withPrev == Joins(size, it, b)
      withNext == Joins(size, b, after) /\ after # pxEnd
      at       == IF withPrev THEN it ELSE b
      gone     == (IF withPrev THEN {b} ELSE {}) \cup (IF withNext THEN {after} ELSE {})
      keep     == DOMAIN size \ gone
  IN [size |-> [a \in keep |-> IF a = at
                               THEN size[a] + (IF withPrev THEN size[b] ELSE 0)
                                            + (IF withNext THEN size[after] ELSE 0)
                               ELSE size[a]],
      next |-> [a \in keep |-> IF a = at THEN (IF withNext THEN next[after] ELSE after)
                               ELSE IF a = it THEN at ELSE next[a]]]

-----------------------------------------------------------------------------
(* pvPortMalloc *)

\* mutant: no room for the header
Wanted_NoHeader(w) == AlignUp(w)

\* the block for w bytes
Wanted(w) == AlignUp(w + xHeapStructSize)

Fits(w) == {b \in Free : xBlockSize[b] >= Wanted(w)}

\* mutant: the last bytes are kept back
CanServe_Less(w) == w < xBlockAllocatedBit /\ w > 0 /\ Wanted(w) < xFreeBytesRemaining /\ Fits(w) # {}

CanServe(w) ==
  /\ w < xBlockAllocatedBit /\ w > 0
  /\ Wanted(w) <= xFreeBytesRemaining
  /\ Fits(w) # {}

\* the lists without b, which its user gets
Unlinked(prev, b) == [pxNextFreeBlock EXCEPT ![prev] = pxNextFreeBlock[b], ![b] = NULL]

\* the accounts, when a block of size n leaves the list
Account(n) ==
  /\ xFreeBytesRemaining' = xFreeBytesRemaining - n
  /\ xMinimumEverFreeBytesRemaining' =
       IF xFreeBytesRemaining' < xMinimumEverFreeBytesRemaining
       THEN xFreeBytesRemaining' ELSE xMinimumEverFreeBytesRemaining

Owned(b, w) == asked' = [a \in Allocated \cup {b} |-> IF a = b THEN w ELSE asked[a]]

\* a block that is not worth splitting goes out whole
GrantWhole(b, prev, w) ==
  /\ xBlockSize[b] - Wanted(w) <= heapMINIMUM_BLOCK_SIZE
  /\ pxNextFreeBlock' = Unlinked(prev, b)
  /\ Owned(b, w) /\ Account(xBlockSize[b])
  /\ UNCHANGED xBlockSize

\* mutant: the front keeps the size of the whole block
Cut_Whole(b, n) == [a \in Headers \cup {b + n} |-> IF a = b + n THEN xBlockSize[b] - n ELSE xBlockSize[a]]

\* the sizes when the block at b is cut to n bytes
Cut(b, n) == [a \in Headers \cup {b + n} |-> IF a = b THEN n
                                             ELSE IF a = b + n THEN xBlockSize[b] - n
                                             ELSE xBlockSize[a]]

\* the front of a larger block goes out, the rest goes back into the list
GrantSplit(b, prev, w) ==
  LET rest  == b + Wanted(w)
      next  == [a \in Headers \cup {rest} |-> IF a = rest THEN NULL ELSE Unlinked(prev, b)[a]]
  IN /\ xBlockSize[b] - Wanted(w) > heapMINIMUM_BLOCK_SIZE
     /\ \E it \in Headers \ {b} :
          /\ StopsAt(next, it, rest)
          /\ xBlockSize'      = Inserted(next, Cut(b, Wanted(w)), it, rest).size
          /\ pxNextFreeBlock' = Inserted(next, Cut(b, Wanted(w)), it, rest).next
     /\ Owned(b, w) /\ Account(Wanted(w))

\* the first block of the list that is large enough, and the one before it
pvPortMalloc(w) ==
  /\ CanServe(w)
  /\ \E b \in Fits(w), prev \in Headers :
       /\ \A c \in Fits(w) : b <= c
       /\ pxNextFreeBlock[prev] = b
       /\ GrantWhole(b, prev, w) \/ GrantSplit(b, prev, w)

\* NULL is returned
Refuse(w) == ~CanServe(w) /\ UNCHANGED vars

-----------------------------------------------------------------------------
(* vPortFree, of a block that its owner got and has not freed *)

vPortFree(b) ==
  /\ b \in Allocated /\ pxNextFreeBlock[b] = NULL
  /\ xFreeBytesRemaining' = xFreeBytesRemaining + xBlockSize[b]
  /\ \E it \in Headers :
       /\ StopsAt(pxNextFreeBlock, it, b)
       /\ xBlockSize'      = Inserted(pxNextFreeBlock, xBlockSize, it, b).size
       /\ pxNextFreeBlock' = Inserted(pxNextFreeBlock, xBlockSize, it, b).next
  /\ asked' = [a \in Allocated \ {b} |-> asked[a]]
  /\ UNCHANGED xMinimumEverFreeBytesRemaining

Next ==
  \/ \E w \in Requests : pvPortMalloc(w) \/ Refuse(w)
  \/ \E b \in Allocated : vPortFree(b)

Spec == Init /\ [][Next]_vars

-----------------------------------------------------------------------------
(* Properties *)

(***************************************************************************)
(* The blocks tile the pool: each ends where another one, or pxEnd, begins *)
(* and no two overlap, so no byte is lost or in two blocks after any       *)
(* number of splits and merges.                                            *)
(***************************************************************************)
Tiled ==
  /\ FirstBlock \in Blocks
  /\ \A b \in Blocks : xBlockSize[b] > 0 /\ b + xBlockSize[b] \in Blocks \cup {pxEnd}
  /\ \A a, b \in Blocks : a < b => a + xBlockSize[a] <= b

(***************************************************************************)
(* The list holds the free blocks, in the order of their addresses, and    *)
(* allocated blocks are in no list; two neighbours are never both free,    *)
(* "merged with the block in front it and/or the block behind it"          *)
(* (heap_4.c:127).                                                         *)
(***************************************************************************)
FreeList ==
  /\ \A a \in Headers : pxNextFreeBlock[a] = NULL <=> a \in Allocated \cup {pxEnd}
  /\ \A a \in Free \cup {xStart} :
       /\ pxNextFreeBlock[a] \in Free \cup {pxEnd} /\ a < pxNextFreeBlock[a]
       /\ \A b \in Free : b <= a \/ pxNextFreeBlock[a] <= b
  /\ \A b \in Free : b + xBlockSize[b] \notin Free

(***************************************************************************)
(* xFreeBytesRemaining is what the free blocks hold, and the minimum was   *)
(* never above it.                                                         *)
(***************************************************************************)
Accounting ==
  /\ xFreeBytesRemaining = MapThenSumSet(LAMBDA b : xBlockSize[b], Free)
  /\ xMinimumEverFreeBytesRemaining <= xFreeBytesRemaining

\* n bytes from a on belong to nobody
Unowned(a, n) ==
  /\ FirstBlock <= a /\ a + n <= pxEnd
  /\ \A b \in Allocated : b + xBlockSize[b] <= a \/ a + n <= b

(***************************************************************************)
(* NULL means that there is no room: no stretch of bytes outside of the    *)
(* allocated blocks would hold the request and its header.                 *)
(***************************************************************************)
RefusedOnlyWhenFull ==
  \A w \in Requests \ {0} :
    CanServe(w) \/ \A a \in FirstBlock..pxEnd : ~Unowned(a, Wanted(w))

(***************************************************************************)
(* The pool gives its users what Allocator promises: the bytes asked for,  *)
(* aligned, inside the pool, nobody else's, until they are freed.          *)
(***************************************************************************)
Promise ==
  INSTANCE Allocator WITH
    Bottom    <- FirstBlock,
    Top       <- pxEnd,
    Alignment <- portBYTE_ALIGNMENT,
    Sizes     <- Requests \ {0},
    owned     <- {[at |-> b + xHeapStructSize, size |-> asked[b]] : b \in Allocated}

KeepsPromise == Promise!Spec
=============================================================================
