---------------------------- MODULE Heap_proofs ----------------------------
(***************************************************************************)
(* Proofs about the memory pools: the blocks tile the pool, the list holds *)
(* the free ones in order, and the pool implements Allocator, for pools of *)
(* every size and place and every set of requests.                         *)
(*                                                                         *)
(* The argument is about a pool's shape, the headers' sizes and links,     *)
(* with a set of blocks that are in no list.  Taking a block out of the    *)
(* list, cutting it and putting one into the list keep the shape; the two  *)
(* operations are made of these.                                           *)
(***************************************************************************)
EXTENDS Heap, TLAPS, WellFoundedInduction

BlocksOf(size) == DOMAIN size \ {xStart, pxEnd}

Typed(size, next, out) ==
  /\ {xStart, pxEnd} \subseteq DOMAIN size
  /\ size \in [DOMAIN size -> Int] /\ next \in [DOMAIN size -> Int]
  /\ size[xStart] = 0
  /\ out \subseteq BlocksOf(size)

Tiling(size) ==
  /\ FirstBlock \in BlocksOf(size)
  /\ \A b \in BlocksOf(size) :
       /\ b \in Int /\ FirstBlock <= b /\ b < pxEnd
       /\ size[b] > 0 /\ b + size[b] \in BlocksOf(size) \cup {pxEnd}
  /\ \A a, b \in BlocksOf(size) : a < b => a + size[a] <= b

Linked(size, next, out) ==
  /\ \A a \in DOMAIN size : next[a] = NULL <=> a \in out \cup {pxEnd}
  /\ \A a \in (BlocksOf(size) \ out) \cup {xStart} :
       /\ next[a] \in (BlocksOf(size) \ out) \cup {pxEnd} /\ a < next[a]
       /\ \A b \in BlocksOf(size) \ out : b <= a \/ next[a] <= b

Merged(size, out) == \A b \in BlocksOf(size) \ out : b + size[b] \notin BlocksOf(size) \ out

Shape(size, next, out) ==
  Typed(size, next, out) /\ Tiling(size) /\ Linked(size, next, out) /\ Merged(size, out)

LEMMA Mod4 ==
  ASSUME NEW x \in Int PROVE AlignDown(x) \in Int /\ AlignDown(x) <= x /\ x - 3 <= AlignDown(x) /\ AlignDown(x) % 4 = 0
  BY DEF AlignDown, portBYTE_ALIGNMENT

LEMMA Ends == FirstBlock \in Nat /\ pxEnd \in Nat /\ FirstBlock < pxEnd
<1>1. FirstBlock \in Int /\ pxEnd \in Int
  BY Mod4, HeapAssumption DEF FirstBlock, pxEnd, AlignUp, portBYTE_ALIGNMENT, xHeapStructSize
<1>2. heap_base + portBYTE_ALIGNMENT - 1 - 3 <= FirstBlock
  BY Mod4, HeapAssumption DEF FirstBlock, AlignUp, portBYTE_ALIGNMENT
<1> QED
  BY <1>1, <1>2, HeapAssumption DEF portBYTE_ALIGNMENT

LEMMA Marks == xStart \in Int /\ xStart < FirstBlock /\ xStart < 0 /\ NULL \in Int /\ NULL < xStart /\ xStart # pxEnd
  BY Ends DEF xStart, NULL

-----------------------------------------------------------------------------
(* Putting a block into the list *)

(***************************************************************************)
(* prvInsertBlockIntoFreeList: where the walk stops for a block in no      *)
(* list, inserting it keeps the shape, with the block now in the list, and *)
(* touches no other block outside of it.                                   *)
(***************************************************************************)
LEMMA InsertKeepsShape ==
  ASSUME NEW size, NEW next, NEW out, Shape(size, next, out),
         NEW b \in out, NEW it \in DOMAIN size, StopsAt(next, it, b)
  PROVE  LET r == Inserted(next, size, it, b)
         IN /\ Shape(r.size, r.next, out \ {b})
            /\ \A o \in out \ {b} : o \in DOMAIN r.size /\ r.size[o] = size[o]
<1> DEFINE after    == next[it]
           withPrev == Joins(size, it, b)
           withNext == Joins(size, b, after) /\ after # pxEnd
           at       == IF withPrev THEN it ELSE b
           gone     == (IF withPrev THEN {b} ELSE {}) \cup (IF withNext THEN {after} ELSE {})
           keep     == DOMAIN size \ gone
           S        == Inserted(next, size, it, b).size
           N        == Inserted(next, size, it, b).next
           blocks   == BlocksOf(size)
           free     == blocks \ out
           end      == b + size[b] + (IF withNext THEN size[after] ELSE 0)
<1>1. /\ S = [a \in keep |-> IF a = at
                             THEN size[a] + (IF withPrev THEN size[b] ELSE 0)
                                          + (IF withNext THEN size[after] ELSE 0)
                             ELSE size[a]]
      /\ N = [a \in keep |-> IF a = at THEN (IF withNext THEN next[after] ELSE after)
                             ELSE IF a = it THEN at ELSE next[a]]
  BY DEF Inserted
<1>2. /\ Typed(size, next, out) /\ Tiling(size) /\ Linked(size, next, out) /\ Merged(size, out)
  BY DEF Shape
<1>in. \A x \in blocks : x \in Int /\ FirstBlock <= x /\ x < pxEnd
  BY <1>2 DEF Tiling
<1>3. /\ it \in free \cup {xStart} /\ it < b /\ b <= after
      /\ after \in free \cup {pxEnd} /\ b < after /\ b \in blocks /\ b \in Int /\ after \in Int
      /\ it \in Int
  <2>1. it \in free \cup {xStart} /\ it < b /\ b <= after
    BY <1>2 DEF StopsAt, Linked, Typed, BlocksOf
  <2>2. after \in free \cup {pxEnd} /\ b \in blocks
    BY <1>2, <2>1 DEF Linked, Typed
  <2>3. b \in Int /\ after \in Int /\ it \in Int /\ b < pxEnd
    BY <1>in, <2>1, <2>2, Ends, Marks
  <2> QED
    BY <2>1, <2>2, <2>3
<1>4. withPrev => it # xStart /\ it \in free
  BY <1>2, <1>3, Ends, Marks DEF Joins, Typed, Tiling
<1>5. withNext => after \in free /\ b + size[b] = after
  BY <1>3 DEF Joins
<1>6. \A f \in free : f <= it \/ after <= f
  BY <1>2, <1>3 DEF Linked
<1>7. /\ size[b] \in Int /\ size[b] > 0 /\ size[it] \in Int
      /\ \A a \in blocks : size[a] \in Int
  BY <1>2, <1>3 DEF Typed, Tiling, BlocksOf
<1>8. /\ xStart \notin gone /\ pxEnd \notin gone /\ at \in keep /\ at \in Int /\ at <= b
      /\ xStart # pxEnd
  BY <1>3, <1>4, <1>5, Ends, Marks DEF BlocksOf
<1> HIDE DEF S, N
<1>9. DOMAIN S = keep /\ DOMAIN N = keep /\ BlocksOf(S) = blocks \ gone
  BY <1>1 DEF BlocksOf
<1>10. BlocksOf(S) \ (out \ {b}) = (free \cup {b}) \ gone
  <2>1. \A x \in gone : x = b \/ x \in free
    BY <1>5
  <2> QED
    BY <1>9, <1>3, <2>1
<1>11. /\ \A a \in keep \ {at} : S[a] = size[a]
       /\ at + S[at] = end
  <2>1. \A a \in keep \ {at} : S[a] = size[a]
    BY <1>1
  <2>2. at \in keep
    BY <1>8
  <2>3. CASE withPrev
    <3>1. S[at] = size[it] + size[b] + (IF withNext THEN size[after] ELSE 0)
      BY <1>1, <2>2, <2>3
    <3>2. it + size[it] = b
      BY <2>3 DEF Joins
    <3>3. withNext => size[after] \in Int
      BY <1>5, <1>7
    <3> QED
      BY <2>1, <2>3, <3>1, <3>2, <3>3, <1>3, <1>7
  <2>4. CASE ~withPrev
    <3>1. S[at] = size[b] + 0 + (IF withNext THEN size[after] ELSE 0)
      BY <1>1, <2>2, <2>4
    <3>3. withNext => size[after] \in Int
      BY <1>5, <1>7
    <3> QED
      BY <2>1, <2>4, <3>1, <3>3, <1>3, <1>7
  <2> QED
    BY <2>3, <2>4
<1>12. /\ end \in Int /\ end > b /\ end \in blocks \cup {pxEnd}
       /\ withNext => end = after + size[after] /\ end > after
  <2>1. CASE withNext
    BY <2>1, <1>2, <1>3, <1>5, <1>7, Ends DEF Tiling
  <2>2. CASE ~withNext
    BY <2>2, <1>2, <1>3, <1>7, Ends DEF Tiling
  <2> QED
    BY <2>1, <2>2
<1>13. \A a \in blocks : a > b => a >= b + size[b]
  BY <1>2, <1>3 DEF Tiling
<1>14. \A a \in blocks \ gone : a > b => a >= end
  <2>1. CASE withNext
    BY <2>1, <1>2, <1>3, <1>5, <1>12, <1>13, <1>7 DEF Tiling
  <2>2. CASE ~withNext
    BY <2>2, <1>13, <1>3, <1>7 DEF Tiling
  <2> QED
    BY <2>1, <2>2
<1>15. Typed(S, N, out \ {b})
  <2>1. {xStart, pxEnd} \subseteq keep /\ xStart # at
    BY <1>2, <1>3, <1>4, <1>8, Ends DEF Typed, BlocksOf
  <2>2. \A a \in keep : S[a] \in Int
    <3>1. S[at] \in Int
      BY <1>11, <1>8, <1>1, <1>3, <1>5, <1>7
    <3>2. \A a \in keep \ {at} : S[a] \in Int
      BY <1>2, <1>11 DEF Typed
    <3> QED
      BY <3>1, <3>2
  <2>3. S \in [keep -> Int]
    BY <1>1, <2>2
  <2>4. \A a \in keep : N[a] \in Int
    <3>1. next[after] \in Int \/ ~withNext
      BY <1>2, <1>5 DEF Typed, BlocksOf
    <3> QED
      BY <1>1, <1>2, <1>3, <1>8, <3>1 DEF Typed
  <2>5. N \in [keep -> Int]
    BY <1>1, <2>4
  <2>6. S[xStart] = 0
    BY <1>11, <2>1, <1>2 DEF Typed
  <2>7. out \ {b} \subseteq blocks \ gone
    BY <1>2, <1>5 DEF Typed
  <2> QED
    BY <2>1, <2>3, <2>5, <2>6, <2>7, <1>9 DEF Typed
<1>16. Tiling(S)
  <2>1. FirstBlock \in blocks \ gone
    <3>1. FirstBlock \in blocks /\ FirstBlock <= b
      BY <1>2, <1>3 DEF Tiling
    <3>2. withPrev => FirstBlock <= it
      BY <1>2, <1>4 DEF Tiling
    <3> QED
      BY <3>1, <3>2, <1>3, Ends
  <2>2. ASSUME NEW x \in blocks \ gone
        PROVE  S[x] > 0 /\ x + S[x] \in (blocks \ gone) \cup {pxEnd}
    <3>1. x \in keep /\ x \in Int /\ size[x] \in Int /\ size[x] > 0
      BY <1>2, <1>7 DEF Tiling, BlocksOf
    <3>2. CASE x = at
      <4>1. S[at] \in Int
        BY <1>15, <1>9, <1>8 DEF Typed
      <4>2. end > at
        BY <1>3, <1>8, <1>12
      <4>3. end \notin gone
        BY <1>3, <1>12
      <4> QED
        BY <3>2, <4>1, <4>2, <4>3, <1>8, <1>11, <1>12
    <3>3. CASE x # at
      <4>1. S[x] = size[x] /\ x + size[x] \in blocks \cup {pxEnd}
        BY <3>1, <3>3, <1>11, <1>2 DEF Tiling
      <4>2. withPrev => x + size[x] # b
        <5>1. withPrev => it + size[it] = b /\ it # x /\ it \in blocks
          BY <1>4, <3>3 DEF Joins
        <5>2. withPrev => x + size[x] <= it \/ it + size[it] <= x
          BY <5>1, <1>2, <1>3, <3>1 DEF Tiling
        <5> QED
          BY <5>1, <5>2, <1>3, <3>1
      <4>3. withNext => x + size[x] # after
        <5>1. x # b
          BY <3>3
        <5>2. x < b => x + size[x] <= b
          BY <1>2, <1>3 DEF Tiling
        <5>3. x > b => x >= end
          BY <1>14
        <5> QED
          BY <5>1, <5>2, <5>3, <1>3, <1>12, <3>1
      <4> QED
        BY <3>1, <4>1, <4>2, <4>3
    <3> QED
      BY <3>2, <3>3
  <2>3. ASSUME NEW x \in blocks \ gone, NEW y \in blocks \ gone, x < y
        PROVE  x + S[x] <= y
    <3>1. x \in keep /\ x \in Int /\ y \in Int
      BY <1>2 DEF Tiling, BlocksOf
    <3>2. CASE x = at
      <4>1. withPrev => it + size[it] = b /\ it \in blocks /\ y # b
        BY <1>4 DEF Joins
      <4>2. withPrev => it + size[it] <= y
        BY <4>1, <3>2, <2>3, <1>2 DEF Tiling
      <4>3. y > b
        BY <4>1, <4>2, <3>1, <3>2, <2>3, <1>3
      <4> QED
        BY <4>3, <3>2, <1>11, <1>14
    <3>3. CASE x # at
      BY <3>1, <3>3, <2>3, <1>2, <1>11 DEF Tiling
    <3> QED
      BY <3>2, <3>3
  <2>4. \A x \in blocks \ gone : x \in Int /\ FirstBlock <= x /\ x < pxEnd
    BY <1>2 DEF Tiling
  <2> QED
    BY <2>1, <2>2, <2>3, <2>4, <1>9 DEF Tiling
<1>17. Linked(S, N, out \ {b})
  <2> DEFINE nx == IF withNext THEN next[after] ELSE after
  <2>1. N[at] = nx /\ (it # at => N[it] = at) /\ it \in keep
    <3>1. it \notin gone
      BY <1>3
    <3> QED
      BY <3>1, <1>1, <1>8
  <2>2. \A a \in keep \ {at, it} : N[a] = next[a]
    BY <1>1
  <2>3. /\ nx \in (free \ gone) \cup {pxEnd} /\ nx \in Int /\ at < nx
        /\ \A f \in free \ gone : f <= it \/ nx <= f
    <3>1. CASE withNext
      <4>1. /\ next[after] \in free \cup {pxEnd} /\ after < next[after] /\ next[after] \in Int
            /\ \A f \in free : f <= after \/ next[after] <= f
        <5>1. /\ next[after] \in free \cup {pxEnd} /\ after < next[after]
              /\ \A f \in free : f <= after \/ next[after] <= f
          BY <3>1, <1>2, <1>5 DEF Linked
        <5> QED
          BY <5>1, <1>in, Ends
      <4>2. \A f \in free \ gone : f \in Int /\ f # after
        BY <3>1, <1>in
      <4> QED
        BY <3>1, <4>1, <4>2, <1>3, <1>6, <1>8
    <3>2. CASE ~withNext
      BY <3>2, <1>3, <1>6, <1>8
    <3> QED
      BY <3>1, <3>2
  <2>4. \A f \in (free \cup {b}) \ gone : f <= at \/ nx <= f
    <3>1. it <= at /\ (b \notin gone => b <= at)
      BY <1>3
    <3>2. \A f \in free : f \in Int
      BY <1>2 DEF Tiling
    <3> QED
      BY <2>3, <3>1, <3>2, <1>3, <1>8
  <2>5. it # at => /\ at = b
                   /\ \A f \in (free \cup {b}) \ gone : f <= it \/ at <= f
    <3>1. \A f \in free : f \in Int
      BY <1>2 DEF Tiling
    <3> QED
      BY <3>1, <1>3, <1>6
  <2>6. ASSUME NEW a \in (free \cup {xStart}) \ gone, a # at, a # it
        PROVE  /\ next[a] \in (free \ gone) \cup {pxEnd} /\ a < next[a]
               /\ \A f \in (free \cup {b}) \ gone : f <= a \/ next[a] <= f
    <3>1. /\ next[a] \in free \cup {pxEnd} /\ a < next[a] /\ next[a] \in Int /\ a \in Int
          /\ \A f \in free : f <= a \/ next[a] <= f
      <4>1. /\ next[a] \in free \cup {pxEnd} /\ a < next[a]
            /\ \A f \in free : f <= a \/ next[a] <= f
        BY <1>2 DEF Linked
      <4> QED
        BY <4>1, <1>in, Ends, Marks
    <3>2. next[a] <= it \/ after <= a
      <4>1. CASE it = xStart
        BY <4>1, <2>6, <1>2, <1>6, Ends, Marks DEF Tiling
      <4>2. CASE it # xStart /\ a = xStart
        BY <4>2, <3>1, <1>2, <1>3, Ends, Marks DEF Tiling
      <4>3. CASE it # xStart /\ a # xStart
        BY <4>3, <2>6, <3>1, <1>3, <1>6
      <4> QED
        BY <4>1, <4>2, <4>3
    <3>3. next[a] # after \/ ~withNext
      BY <3>1, <3>2, <1>3
    <3>4. next[a] # b
      BY <3>1, <1>2, <1>3, Ends DEF Tiling
    <3>5. b <= a \/ next[a] <= b
      BY <3>1, <3>2, <1>3
    <3> QED
      BY <3>1, <3>3, <3>4, <3>5
  <2>7. \A a \in keep : N[a] = NULL <=> a \in (out \ {b}) \cup {pxEnd}
    <3>1. nx # NULL /\ at # NULL /\ at \notin out \ {b} /\ at # pxEnd /\ it \notin out /\ it # pxEnd
      <4>1. at \in {it, b} /\ (at # it => at = b)
        OBVIOUS
      <4>2. it \notin out /\ it # pxEnd
        BY <1>2, <1>3, <1>in, Marks DEF Typed, BlocksOf
      <4>3. b # pxEnd /\ b # NULL /\ it # NULL
        BY <1>3, <1>in, Ends, Marks
      <4>4. nx # NULL
        BY <2>3, <1>in, Ends, Marks
      <4> QED
        BY <4>1, <4>2, <4>3, <4>4
    <3>2. \A a \in keep : next[a] = NULL <=> a \in out \cup {pxEnd}
      BY <1>2 DEF Linked
    <3> QED
      BY <2>1, <2>2, <3>1, <3>2
  <2>8. ASSUME NEW a \in ((free \cup {b}) \ gone) \cup {xStart}
        PROVE  /\ N[a] \in ((free \cup {b}) \ gone) \cup {pxEnd} /\ a < N[a]
               /\ \A f \in (free \cup {b}) \ gone : f <= a \/ N[a] <= f
    <3>1. a \in keep
      BY <1>2, <1>3, <1>8 DEF Typed, BlocksOf
    <3>2. CASE a = at
      BY <3>2, <2>1, <2>3, <2>4
    <3>3. CASE a # at /\ a = it
      BY <3>3, <2>1, <2>5, <1>3, <1>8
    <3>4. CASE a # at /\ a # it
      <4>1. a \in (free \cup {xStart}) \ gone
        BY <3>4, <1>8
      <4> QED
        BY <4>1, <3>1, <3>4, <2>2, <2>6
    <3> QED
      BY <3>2, <3>3, <3>4
  <2> QED
    BY <2>7, <2>8, <1>9, <1>10 DEF Linked
<1>18. Merged(S, out \ {b})
  <2>1. ASSUME NEW f \in (free \cup {b}) \ gone PROVE f + S[f] \notin (free \cup {b}) \ gone
    <3>1. f \in keep /\ f \in Int
      BY <1>2, <1>3 DEF BlocksOf, Tiling
    <3>2. CASE f = at
      <4>1. CASE withNext
        <5>1. end = after + size[after] /\ end # b
          BY <4>1, <1>3, <1>12
        <5> QED
          BY <5>1, <3>2, <4>1, <1>2, <1>5, <1>11 DEF Merged
      <4>2. CASE ~withNext
        <5>1. end = b + size[b]
          BY <4>2, <1>3, <1>7
        <5>2. end \in free => end = after
          <6>1. end \in free => after <= end
            BY <1>3, <1>6, <1>12
          <6>2. after \in blocks => end <= after
            BY <5>1, <1>3, <1>13
          <6>3. end \in free => end < pxEnd
            BY <1>2 DEF Tiling
          <6> QED
            BY <6>1, <6>2, <6>3, <1>3, <1>12, Ends
        <5> QED
          BY <5>1, <5>2, <3>2, <4>2, <1>3, <1>11, <1>12, Ends DEF Joins, BlocksOf
      <4> QED
        BY <4>1, <4>2
    <3>3. CASE f # at
      <4>1. f \in free /\ S[f] = size[f] /\ f + size[f] \notin free /\ size[f] \in Int
        BY <3>1, <3>3, <1>2, <1>7, <1>11 DEF Merged
      <4>2. f + size[f] = b => f = it
        <5>1. size[f] > 0
          BY <4>1, <1>2 DEF Tiling
        <5>2. f < b => f <= it
          BY <4>1, <3>1, <1>3, <1>6
        <5>3. f < it => f + size[f] <= it
          BY <4>1, <3>1, <1>2, <1>3, Ends, Marks DEF Tiling
        <5> QED
          BY <5>1, <5>2, <5>3, <3>1, <4>1, <1>3
      <4>3. f = it /\ f + size[f] = b => withPrev
        BY DEF Joins
      <4> QED
        BY <3>3, <4>1, <4>2, <4>3
    <3> QED
      BY <3>2, <3>3
  <2> QED
    BY <2>1, <1>10 DEF Merged
<1>19. \A o \in out \ {b} : o \in keep /\ S[o] = size[o]
  <2>1. \A o \in out \ {b} : o \in keep /\ o # at
    BY <1>2, <1>3, <1>4, <1>5 DEF Typed, BlocksOf
  <2> QED
    BY <2>1, <1>11
<1> QED
  BY <1>9, <1>15, <1>16, <1>17, <1>18, <1>19 DEF Shape, S, N

-----------------------------------------------------------------------------
(* Taking a block out of the list and cutting it *)

(***************************************************************************)
(* pvPortMalloc, line 233: linking the block before a free block to the    *)
(* one after it keeps the shape, with the block in no list.                *)
(***************************************************************************)
LEMMA TakeKeepsShape ==
  ASSUME NEW size, NEW next, NEW out, Shape(size, next, out),
         NEW b \in BlocksOf(size) \ out, NEW prev \in DOMAIN size, next[prev] = b
  PROVE  Shape(size, [next EXCEPT ![prev] = next[b], ![b] = NULL], out \cup {b})
<1> DEFINE N    == [next EXCEPT ![prev] = next[b], ![b] = NULL]
           free == BlocksOf(size) \ out
<1>1. Typed(size, next, out) /\ Tiling(size) /\ Linked(size, next, out) /\ Merged(size, out)
  BY DEF Shape
<1>2. \A x \in BlocksOf(size) : x \in Int /\ FirstBlock <= x /\ x < pxEnd
  BY <1>1 DEF Tiling
<1>3. b # NULL /\ b # pxEnd /\ b # xStart /\ b \in DOMAIN size /\ b \in Int
  BY <1>2, Ends, Marks DEF BlocksOf
<1>4. prev \in free \cup {xStart}
  BY <1>1, <1>3 DEF Linked, BlocksOf
<1>5. prev < b /\ prev # b /\ prev \in Int
  BY <1>1, <1>2, <1>4, Marks DEF Linked
<1>6. /\ next[b] \in free \cup {pxEnd} /\ b < next[b] /\ next[b] \in Int /\ next[b] # NULL
      /\ \A f \in free : f <= b \/ next[b] <= f
  <2>1. /\ next[b] \in free \cup {pxEnd} /\ b < next[b]
        /\ \A f \in free : f <= b \/ next[b] <= f
    BY <1>1 DEF Linked
  <2> QED
    BY <2>1, <1>2, Ends, Marks
<1>7. \A f \in free : f <= prev \/ b <= f
  BY <1>1, <1>4 DEF Linked
<1>8. /\ N \in [DOMAIN size -> Int] /\ N[b] = NULL /\ N[prev] = next[b]
      /\ \A a \in DOMAIN size \ {b, prev} : N[a] = next[a]
  BY <1>1, <1>3, <1>5, <1>6, Marks DEF Typed
<1> HIDE DEF N
<1>9. Typed(size, N, out \cup {b})
  BY <1>1, <1>8 DEF Typed
<1>10. Linked(size, N, out \cup {b})
  <2>1. \A a \in DOMAIN size : N[a] = NULL <=> a \in (out \cup {b}) \cup {pxEnd}
    <3>1. prev \notin out /\ prev # pxEnd
      BY <1>1, <1>3 DEF Linked
    <3> QED
      BY <3>1, <1>1, <1>5, <1>6, <1>8 DEF Linked
  <2>2. ASSUME NEW a \in (free \ {b}) \cup {xStart}
        PROVE  /\ N[a] \in (free \ {b}) \cup {pxEnd} /\ a < N[a]
               /\ \A f \in free \ {b} : f <= a \/ N[a] <= f
    <3>1. CASE a = prev
      <4>1. \A f \in free \ {b} : f <= prev \/ next[b] <= f
        BY <1>2, <1>5, <1>6, <1>7
      <4> QED
        BY <4>1, <3>1, <1>3, <1>5, <1>6, <1>8
    <3>2. CASE a # prev
      <4>1. /\ next[a] \in free \cup {pxEnd} /\ a < next[a]
            /\ \A f \in free : f <= a \/ next[a] <= f
        BY <1>1 DEF Linked
      <4>2. a \in Int /\ next[a] \in Int
        BY <4>1, <1>2, Ends, Marks
      <4>3. next[a] # b
        <5>1. CASE a = xStart
          <6>1. prev \in free
            BY <5>1, <3>2, <1>4
          <6>2. next[a] <= prev
            <7>1. prev <= a \/ next[a] <= prev
              BY <6>1, <4>1
            <7>2. FirstBlock <= prev
              BY <6>1, <1>2
            <7> QED
              BY <7>1, <7>2, <5>1, <1>5, Ends, Marks
          <6> QED
            BY <6>2, <4>2, <1>3, <1>5
        <5>2. CASE a # xStart /\ prev = xStart
          BY <5>2, <4>1, <4>2, <1>2, <1>7, Ends, Marks
        <5>3. CASE a # xStart /\ prev # xStart
          BY <5>3, <3>2, <4>1, <4>2, <1>4, <1>5, <1>7
        <5> QED
          BY <5>1, <5>2, <5>3
      <4>4. N[a] = next[a]
        BY <3>2, <1>1, <1>3, <1>8 DEF Typed, BlocksOf
      <4> QED
        BY <4>1, <4>3, <4>4
    <3> QED
      BY <3>1, <3>2
  <2>3. BlocksOf(size) \ (out \cup {b}) = free \ {b}
    OBVIOUS
  <2> QED
    BY <2>1, <2>2, <2>3 DEF Linked
<1>11. Merged(size, out \cup {b})
  BY <1>1 DEF Merged
<1> QED
  BY <1>1, <1>9, <1>10, <1>11 DEF Shape, N

\* the headers and their links with the block at b cut to n bytes
CutSizes(size, b, n) == [a \in DOMAIN size \cup {b + n} |-> IF a = b THEN n
                           ELSE IF a = b + n THEN size[b] - n ELSE size[a]]
CutLinks(size, next, b, n) == [a \in DOMAIN size \cup {b + n} |-> IF a = b + n THEN NULL ELSE next[a]]

(***************************************************************************)
(* pvPortMalloc, lines 243-249: cutting a block that is in no list keeps   *)
(* the shape, with both parts in no list.                                  *)
(***************************************************************************)
LEMMA CutKeepsShape ==
  ASSUME NEW size, NEW next, NEW out, Shape(size, next, out),
         NEW b \in out, NEW n \in Int, 0 < n, n < size[b]
  PROVE  /\ Shape(CutSizes(size, b, n), CutLinks(size, next, b, n), out \cup {b + n})
         /\ b + n \notin DOMAIN size /\ b + n > b
<1> DEFINE S == CutSizes(size, b, n)
           N == CutLinks(size, next, b, n)
<1>0. /\ S = [a \in DOMAIN size \cup {b + n} |-> IF a = b THEN n
                 ELSE IF a = b + n THEN size[b] - n ELSE size[a]]
      /\ N = [a \in DOMAIN size \cup {b + n} |-> IF a = b + n THEN NULL ELSE next[a]]
  BY DEF CutSizes, CutLinks
<1> HIDE DEF S, N
<1>1. Typed(size, next, out) /\ Tiling(size) /\ Linked(size, next, out) /\ Merged(size, out)
  BY DEF Shape
<1>2. \A x \in BlocksOf(size) : x \in Int /\ FirstBlock <= x /\ x < pxEnd /\ size[x] \in Int
  BY <1>1 DEF Tiling, Typed, BlocksOf
<1>3. b \in BlocksOf(size) /\ b \in Int /\ size[b] \in Int /\ b + size[b] \in BlocksOf(size) \cup {pxEnd}
  BY <1>1, <1>2 DEF Typed, Tiling
<1>4. b + size[b] <= pxEnd
  BY <1>2, <1>3, Ends
<1>5. b + n \notin BlocksOf(size)
  <2>1. b + n \in BlocksOf(size) => b + size[b] <= b + n
    BY <1>1, <1>3 DEF Tiling
  <2> QED
    BY <2>1, <1>3
<1>6. b + n > b /\ b + n < pxEnd /\ FirstBlock <= b + n /\ b + n # xStart /\ b + n \in Int
  BY <1>2, <1>3, <1>4, Ends, Marks
<1>7. b + n \notin DOMAIN size
  BY <1>5, <1>6 DEF BlocksOf
<1>8. BlocksOf(S) = BlocksOf(size) \cup {b + n} /\ DOMAIN S = DOMAIN size \cup {b + n}
  BY <1>0, <1>6 DEF BlocksOf
<1>9. /\ S[b] = n /\ S[b + n] = size[b] - n /\ N[b + n] = NULL
      /\ \A a \in DOMAIN size : N[a] = next[a] /\ (a # b => S[a] = size[a])
  BY <1>0, <1>3, <1>6, <1>7 DEF BlocksOf
<1>10. BlocksOf(S) \ (out \cup {b + n}) = BlocksOf(size) \ out
  BY <1>5, <1>8
<1>11. Typed(S, N, out \cup {b + n})
  <2>1. S \in [DOMAIN S -> Int]
    BY <1>0, <1>1, <1>3, <1>8 DEF Typed
  <2>2. N \in [DOMAIN S -> Int]
    BY <1>0, <1>1, <1>8, Marks DEF Typed
  <2>3. S[xStart] = 0
    BY <1>1, <1>3, <1>9 DEF Typed, BlocksOf
  <2>4. out \cup {b + n} \subseteq BlocksOf(S)
    BY <1>1, <1>8 DEF Typed
  <2> QED
    BY <2>1, <2>2, <2>3, <2>4, <1>1, <1>8 DEF Typed
<1>12. Tiling(S)
  <2>1. ASSUME NEW x \in BlocksOf(S)
        PROVE  /\ x \in Int /\ FirstBlock <= x /\ x < pxEnd
               /\ S[x] > 0 /\ x + S[x] \in BlocksOf(S) \cup {pxEnd}
    <3>1. CASE x = b
      BY <3>1, <1>2, <1>3, <1>8, <1>9
    <3>2. CASE x = b + n
      <4>1. x + S[x] = b + size[b]
        BY <3>2, <1>3, <1>9
      <4> QED
        <5>1. S[x] > 0
          BY <3>2, <1>3, <1>9
        <5> QED
          BY <4>1, <5>1, <3>2, <1>3, <1>6, <1>8
    <3>3. CASE x # b /\ x # b + n
      <4>1. x \in BlocksOf(size) /\ S[x] = size[x]
        BY <3>3, <1>8, <1>9 DEF BlocksOf
      <4> QED
        BY <4>1, <1>1, <1>8 DEF Tiling
    <3> QED
      BY <3>1, <3>2, <3>3
  <2>2. ASSUME NEW x \in BlocksOf(S), NEW y \in BlocksOf(S), x < y
        PROVE  x + S[x] <= y
    <3>1. x \in Int /\ y \in Int
      BY <2>1
    <3>2. \A z \in BlocksOf(size) : z > b => z >= b + size[b]
      BY <1>1, <1>3 DEF Tiling
    <3>3. CASE x = b
      <4>1. y = b + n \/ y >= b + size[b]
        BY <3>2, <3>3, <2>2, <1>8
      <4>2. x + S[x] = b + n
        BY <3>3, <1>9
      <4> QED
        BY <4>1, <4>2, <3>1, <1>3
    <3>4. CASE x = b + n
      <4>1. y > b /\ y # b + n
        BY <3>1, <3>4, <2>2, <1>3, <1>6
      <4>2. y >= b + size[b]
        BY <4>1, <3>2, <1>8
      <4>3. x + S[x] = b + size[b]
        BY <3>4, <1>3, <1>9
      <4> QED
        BY <4>2, <4>3
    <3>5. CASE x # b /\ x # b + n
      <4>1. x \in BlocksOf(size) /\ S[x] = size[x] /\ size[x] \in Int
        BY <3>5, <1>2, <1>8, <1>9 DEF BlocksOf
      <4>2. CASE y = b + n
        <5>1. x < b => x + size[x] <= b
          BY <4>1, <1>1, <1>3 DEF Tiling
        <5>2. x > b => x >= b + size[b]
          BY <3>2, <4>1
        <5> QED
          BY <4>1, <4>2, <5>1, <5>2, <3>1, <3>5, <2>2, <1>3, <1>6
      <4>3. CASE y # b + n
        BY <4>1, <4>3, <2>2, <1>1, <1>8 DEF Tiling
      <4> QED
        BY <4>2, <4>3
    <3> QED
      BY <3>3, <3>4, <3>5
  <2>3. FirstBlock \in BlocksOf(S)
    BY <1>1, <1>8 DEF Tiling
  <2> QED
    BY <2>1, <2>2, <2>3 DEF Tiling
<1>13. Linked(S, N, out \cup {b + n})
  <2>1. \A a \in DOMAIN S : N[a] = NULL <=> a \in (out \cup {b + n}) \cup {pxEnd}
    BY <1>1, <1>7, <1>8, <1>9 DEF Linked
  <2>2. xStart \in DOMAIN size /\ BlocksOf(size) \subseteq DOMAIN size
    BY <1>1 DEF Typed, BlocksOf
  <2> QED
    BY <2>1, <2>2, <1>1, <1>9, <1>10 DEF Linked
<1>14. Merged(S, out \cup {b + n})
  <2>1. \A f \in BlocksOf(size) \ out : S[f] = size[f]
    BY <1>9 DEF BlocksOf
  <2> QED
    BY <2>1, <1>1, <1>10 DEF Merged
<1> QED
  BY <1>6, <1>7, <1>11, <1>12, <1>13, <1>14 DEF Shape, S, N

-----------------------------------------------------------------------------
(* What is free *)

(***************************************************************************)
(* The sum of the free blocks' sizes is a fold, which the provers cannot   *)
(* take apart.  A bound on it is enough: f counts the free bytes below an  *)
(* address, so that the blocks before one of them and it do not exceed     *)
(* those before the next, nor all of them the n bytes below the end.       *)
(***************************************************************************)
Counted(size, out, f, n) ==
  /\ f \in [Int -> Int] /\ f[pxEnd] = n
  /\ \A c \in (BlocksOf(size) \ out) \cup {pxEnd} :
       0 <= f[c] /\ \A a \in BlocksOf(size) \ out : a < c => f[a] + size[a] <= f[c]

LEMMA TakeCounts ==
  ASSUME NEW size, NEW next, NEW out, Shape(size, next, out), NEW n \in Int,
         NEW f, Counted(size, out, f, n), NEW b \in BlocksOf(size) \ out
  PROVE  \E g : Counted(size, out \cup {b}, g, n - size[b])
<1> DEFINE g == [x \in Int |-> IF x > b THEN f[x] - size[b] ELSE f[x]]
           free == BlocksOf(size) \ out
<1>1. /\ \A x \in BlocksOf(size) : x \in Int /\ x < pxEnd /\ size[x] \in Int /\ size[x] > 0
      /\ b \in Int /\ size[b] \in Int /\ b < pxEnd /\ pxEnd \in Int
  BY Ends DEF Shape, Typed, Tiling, BlocksOf
<1>2. f \in [Int -> Int]
  BY DEF Counted
<1>3. g \in [Int -> Int] /\ g[pxEnd] = n - size[b]
  BY <1>1, <1>2 DEF Counted
<1>4. ASSUME NEW a \in free \ {b}
      PROVE  0 <= g[a] /\ \A c \in (free \ {b}) \cup {pxEnd} : a < c => g[a] + size[a] <= g[c]
  <2>1. /\ 0 <= f[a] /\ 0 <= f[b] /\ a \in Int /\ a # b /\ size[a] \in Int /\ f[a] \in Int /\ f[b] \in Int
        /\ a < b => f[a] + size[a] <= f[b]
        /\ b < a => f[b] + size[b] <= f[a]
    BY <1>1, <1>2 DEF Counted
  <2>2. 0 <= g[a]
    BY <2>1, <1>1
  <2>3. ASSUME NEW c \in (free \ {b}) \cup {pxEnd}, a < c PROVE g[a] + size[a] <= g[c]
    <3>1. /\ c \in Int /\ c # b /\ f[c] \in Int /\ f[a] + size[a] <= f[c]
          /\ b < c => f[b] + size[b] <= f[c]
      BY <2>3, <1>1, <1>2 DEF Counted
    <3> QED
      BY <2>1, <2>3, <3>1, <1>1
  <2> QED
    BY <2>2, <2>3
<1>5. BlocksOf(size) \ (out \cup {b}) = free \ {b}
  OBVIOUS
<1>6. 0 <= g[pxEnd]
  <2>1. f[b] + size[b] <= f[pxEnd] /\ 0 <= f[b] /\ f[b] \in Int
    BY <1>1, <1>2 DEF Counted
  <2> QED
    BY <2>1, <1>1, <1>3 DEF Counted
<1> HIDE DEF g
<1>7. Counted(size, out \cup {b}, g, n - size[b])
  BY <1>3, <1>4, <1>5, <1>6 DEF Counted
<1> QED
  BY <1>7

LEMMA CutCounts ==
  ASSUME NEW size, NEW next, NEW out, Shape(size, next, out), NEW b \in out,
         NEW m \in Int, 0 < m, m < size[b], NEW n, NEW f, Counted(size, out, f, n)
  PROVE  Counted(CutSizes(size, b, m), out \cup {b + m}, f, n)
<1> DEFINE S == CutSizes(size, b, m)
<1>1. /\ Shape(S, CutLinks(size, next, b, m), out \cup {b + m}) /\ b + m \notin DOMAIN size
  BY CutKeepsShape
<1>2. BlocksOf(S) \ (out \cup {b + m}) = BlocksOf(size) \ out
  <2>1. b \in DOMAIN size
    BY DEF Shape, Typed, BlocksOf
  <2> QED
    BY <1>1, <2>1 DEF BlocksOf, CutSizes, Shape, Typed
<1>3. \A a \in BlocksOf(size) \ out : S[a] = size[a]
  BY <1>1 DEF CutSizes, BlocksOf
<1> QED
  BY <1>2, <1>3 DEF Counted

LEMMA InsertCounts ==
  ASSUME NEW size, NEW next, NEW out, Shape(size, next, out), NEW n \in Int,
         NEW f, Counted(size, out, f, n),
         NEW b \in out, NEW it \in DOMAIN size, StopsAt(next, it, b)
  PROVE  \E g : Counted(Inserted(next, size, it, b).size, out \ {b}, g, n + size[b])
<1> DEFINE after    == next[it]
           withPrev == Joins(size, it, b)
           withNext == Joins(size, b, after) /\ after # pxEnd
           at       == IF withPrev THEN it ELSE b
           gone     == (IF withPrev THEN {b} ELSE {}) \cup (IF withNext THEN {after} ELSE {})
           S        == Inserted(next, size, it, b).size
           free     == BlocksOf(size) \ out
           g        == [x \in Int |-> IF x > b THEN f[x] + size[b] ELSE IF x = b THEN f[after] ELSE f[x]]
<1>1. S = [a \in DOMAIN size \ gone |-> IF a = at
                             THEN size[a] + (IF withPrev THEN size[b] ELSE 0)
                                          + (IF withNext THEN size[after] ELSE 0)
                             ELSE size[a]]
  BY DEF Inserted
<1>2. /\ \A x \in BlocksOf(size) : x \in Int /\ x < pxEnd /\ size[x] \in Int /\ size[x] > 0
      /\ pxEnd \in Int /\ xStart \in Int
  BY Ends, Marks DEF Shape, Typed, Tiling, BlocksOf
<1>3. /\ it \in free \cup {xStart} /\ it < b /\ after \in free \cup {pxEnd} /\ b <= after /\ b # after
      /\ b \in BlocksOf(size) /\ \A x \in free : x <= it \/ after <= x
  <2>1. it \in free \cup {xStart} /\ it < b /\ b <= after /\ b \in BlocksOf(size)
    BY DEF Shape, Linked, Typed, BlocksOf, StopsAt
  <2>2. after \in free \cup {pxEnd} /\ \A x \in free : x <= it \/ after <= x
    BY <2>1 DEF Shape, Linked
  <2> QED
    BY <2>1, <2>2 DEF BlocksOf
<1>4. withPrev => it \in free
  <2>1. it = xStart => size[it] = 0 /\ it + size[it] = it
    BY <1>2 DEF Shape, Typed
  <2> QED
    BY <1>2, <1>3, <2>1 DEF Joins
<1>5. withNext => after \in free /\ b + size[b] = after
  BY <1>3 DEF Joins
<1>6. BlocksOf(S) \ (out \ {b}) = (free \cup {b}) \ gone
  <2>1. DOMAIN S = DOMAIN size \ gone /\ \A x \in gone : x = b \/ x \in free
    BY <1>1, <1>5
  <2> HIDE DEF S, gone
  <2> QED
    BY <1>3, <2>1 DEF BlocksOf
<1>7. /\ g \in [Int -> Int] /\ g[pxEnd] = n + size[b]
      /\ \A x \in free \cup {b, pxEnd} : x \in Int /\ x <= pxEnd /\ g[x] \in Int
  BY <1>2, <1>3 DEF Counted
<1>8. ASSUME NEW a \in free \cup {b}, NEW c \in (free \cup {b}) \cup {pxEnd}, a < c
      PROVE  g[a] + size[a] <= g[c]
  <2>1. f \in [Int -> Int] /\ f[after] \in Int /\ a \in Int /\ c \in Int /\ size[a] \in Int /\ size[b] \in Int
        /\ b \in Int /\ after \in Int /\ size[b] > 0 /\ it \in Int
    BY <1>2, <1>3 DEF Counted
  <2>2. CASE a # b /\ c # b
    <3>1. f[a] + size[a] <= f[c] /\ f[a] \in Int /\ f[c] \in Int
      BY <2>1, <2>2, <1>8 DEF Counted
    <3> QED
      BY <2>1, <2>2, <3>1, <1>8
  <2>3. CASE a = b
    <3>1. c # b /\ after <= c
      BY <2>1, <2>3, <1>2, <1>3, <1>8
    <3>2. f[after] <= f[c] /\ f[c] \in Int
      <4>1. CASE after = c
        BY <4>1, <2>1
      <4>2. CASE after # c
        <5>1. after \in free /\ after < c /\ c \in free \cup {pxEnd}
          BY <4>2, <3>1, <2>1, <1>2, <1>3
        <5>2. f[after] + size[after] <= f[c] /\ size[after] \in Int /\ size[after] > 0 /\ f[c] \in Int
          BY <5>1, <1>2, <2>1 DEF Counted
        <5> QED
          BY <5>2, <2>1
      <4> QED
        BY <4>1, <4>2
    <3> QED
      BY <3>1, <3>2, <2>1, <2>3, <1>8
  <2>4. CASE c = b
    <3>1. a \in free /\ a < after
      BY <2>1, <2>4, <1>3, <1>8
    <3>2. f[a] + size[a] <= f[after] /\ f[a] \in Int
      BY <3>1, <2>1, <1>3 DEF Counted
    <3> QED
      BY <3>1, <3>2, <2>1, <2>4, <1>8
  <2> QED
    BY <2>2, <2>3, <2>4
<1>9. \A a \in free \cup {b, pxEnd} : 0 <= g[a]
  <2>1. \A a \in free \cup {pxEnd} : 0 <= f[a] /\ f[a] \in Int
    BY <1>2 DEF Counted
  <2>2. size[b] \in Int /\ size[b] > 0 /\ b \in Int /\ b < pxEnd
    BY <1>2, <1>3
  <2> QED
    BY <2>1, <2>2, <1>2, <1>3
<1> HIDE DEF g
<1>10. ASSUME NEW a \in (free \cup {b}) \ gone, NEW c \in ((free \cup {b}) \ gone) \cup {pxEnd}, a < c
       PROVE  g[a] + S[a] <= g[c]
  <2>1. /\ a \in Int /\ c \in Int /\ g[a] \in Int /\ g[c] \in Int /\ size[a] \in Int
        /\ g[b] \in Int /\ size[b] \in Int /\ size[b] > 0 /\ it \in Int /\ b \in Int /\ after \in Int
        /\ g[a] + size[a] <= g[c] /\ a \in DOMAIN size \ gone
    BY <1>2, <1>3, <1>7, <1>8, <1>10 DEF BlocksOf
  <2>2. CASE a # at
    <3>1. S[a] = size[a]
      BY <2>1, <2>2, <1>1
    <3> QED
      BY <2>1, <3>1
  <2>3. CASE a = at
    <3>1. c # b /\ after <= c
      <4>1. c # b
        <5>1. CASE withPrev
          BY <5>1, <1>3, <1>10 DEF BlocksOf
        <5>2. CASE ~withPrev
          BY <5>2, <2>1, <2>3, <1>10
        <5> QED
          BY <5>1, <5>2
      <4>2. c = pxEnd \/ c \in free
        BY <4>1
      <4> QED
        BY <4>1, <4>2, <2>1, <2>3, <1>2, <1>3, <1>10
    <3> DEFINE front == size[at] + (IF withPrev THEN size[b] ELSE 0)
    <3>2. front \in Int /\ (after # pxEnd => g[at] + front <= g[after]) /\ g[at] + front <= g[c]
      <4>1. g[b] + size[b] <= g[c] /\ (after # pxEnd => g[b] + size[b] <= g[after])
        BY <3>1, <2>1, <1>2, <1>3, <1>8
      <4>2. after # pxEnd => g[after] \in Int
        BY <1>3, <1>7
      <4>3. withPrev => g[it] + size[it] <= g[b] /\ size[it] \in Int /\ g[it] \in Int
        BY <1>2, <1>3, <1>4, <1>7, <1>8
      <4>4. CASE withPrev
        BY <4>1, <4>2, <4>3, <4>4, <2>1
      <4>5. CASE ~withPrev
        BY <4>1, <4>2, <4>5, <2>1
      <4> QED
        BY <4>4, <4>5
    <3>3. withNext => g[after] + size[after] <= g[c] /\ g[after] \in Int /\ size[after] \in Int
      <4> SUFFICES ASSUME withNext PROVE g[after] + size[after] <= g[c] /\ g[after] \in Int /\ size[after] \in Int
        OBVIOUS
      <4>1. after \in free /\ after # c
        BY <1>5, <1>2, <1>10
      <4>2. after < c /\ c \in free \cup {b, pxEnd}
        <5>1. c \in free \cup {b, pxEnd}
          BY <1>10
        <5>2. after \in Int /\ c \in Int /\ after <= c /\ after # c
          BY <4>1, <3>1, <2>1
        <5> HIDE DEF after
        <5>3. after < c
          BY <5>2
        <5> QED
          BY <5>1, <5>3
      <4>3. g[after] \in Int /\ size[after] \in Int
        BY <4>1, <1>2, <1>7
      <4> QED
        BY <4>1, <4>2, <4>3, <1>8
    <3>4. S[at] = front + (IF withNext THEN size[after] ELSE 0)
      BY <2>1, <2>3, <1>1
    <3> HIDE DEF front, S, withPrev, at
    <3>5. CASE withNext
      <4>1. S[at] = front + size[after]
        BY <3>4, <3>5
      <4>2. after # pxEnd
        BY <3>5
      <4> HIDE DEF after
      <4> QED
        BY <4>1, <4>2, <3>2, <3>3, <3>5, <2>1, <2>3
    <3>6. CASE ~withNext
      <4>1. S[at] = front
        BY <3>2, <3>4, <3>6
      <4> QED
        BY <4>1, <3>2, <2>1, <2>3
    <3> QED
      BY <3>5, <3>6
  <2> QED
    BY <2>2, <2>3
<1>11. Counted(S, out \ {b}, g, n + size[b])
  <2>1. \A a \in (free \cup {b}) \ gone : 0 <= g[a]
    BY <1>9
  <2>2. 0 <= g[pxEnd]
    BY <1>9
  <2> HIDE DEF S, gone
  <2> QED
    BY <2>1, <2>2, <1>6, <1>7, <1>10 DEF Counted
<1> QED
  BY <1>11

-----------------------------------------------------------------------------
(* The invariant *)

Aligned(size) == \A b \in BlocksOf(size) : b % 4 = 0

Holds == \A b \in Allocated :
  asked[b] \in Requests \ {0} /\ asked[b] + xHeapStructSize <= xBlockSize[b]

HeapInv == Shape(xBlockSize, pxNextFreeBlock, Allocated) /\ Aligned(xBlockSize) /\ Holds

LEMMA WantedFits ==
  ASSUME NEW w \in Requests, w # 0
  PROVE  /\ w \in Nat /\ Wanted(w) \in Int /\ Wanted(w) % 4 = 0
         /\ w + xHeapStructSize <= Wanted(w) /\ 0 < Wanted(w)
<1>1. w \in Nat /\ w > 0
  BY HeapAssumption
<1>2. w + xHeapStructSize + portBYTE_ALIGNMENT - 1 \in Int
  BY <1>1 DEF xHeapStructSize, portBYTE_ALIGNMENT
<1> QED
  BY <1>1, <1>2, Mod4 DEF Wanted, AlignUp, xHeapStructSize, portBYTE_ALIGNMENT

LEMMA Mod4Sum == ASSUME NEW x \in Int, NEW y \in Int, x % 4 = 0, y % 4 = 0 PROVE (x + y) % 4 = 0
  OBVIOUS

LEMMA EndsAligned == FirstBlock % 4 = 0 /\ pxEnd % 4 = 0
  BY Mod4, HeapAssumption DEF FirstBlock, pxEnd, AlignUp, portBYTE_ALIGNMENT, xHeapStructSize

LEMMA HeapInit == Init => HeapInv
<1> SUFFICES ASSUME Init PROVE HeapInv
  OBVIOUS
<1>1. /\ DOMAIN xBlockSize = {xStart, FirstBlock, pxEnd}
      /\ xBlockSize[xStart] = 0 /\ xBlockSize[FirstBlock] = pxEnd - FirstBlock /\ xBlockSize[pxEnd] = 0
      /\ xBlockSize \in [{xStart, FirstBlock, pxEnd} -> Int]
  BY Ends, Marks DEF Init
<1>2. /\ pxNextFreeBlock[xStart] = FirstBlock /\ pxNextFreeBlock[FirstBlock] = pxEnd
      /\ pxNextFreeBlock[pxEnd] = NULL
      /\ pxNextFreeBlock \in [{xStart, FirstBlock, pxEnd} -> Int]
  BY Ends, Marks DEF Init
<1>3. Allocated = {}
  BY DEF Init, Allocated
<1>4. BlocksOf(xBlockSize) = {FirstBlock}
  BY <1>1, Ends, Marks DEF BlocksOf
<1>5. Typed(xBlockSize, pxNextFreeBlock, Allocated)
  BY <1>1, <1>2, <1>3 DEF Typed
<1>6. Tiling(xBlockSize)
  BY <1>1, <1>4, Ends DEF Tiling
<1>7. Linked(xBlockSize, pxNextFreeBlock, Allocated)
  BY <1>1, <1>2, <1>3, <1>4, Ends, Marks DEF Linked
<1>8. Merged(xBlockSize, Allocated)
  BY <1>1, <1>4, Ends DEF Merged
<1>9. Aligned(xBlockSize) /\ Holds
  BY <1>3, <1>4, EndsAligned DEF Aligned, Holds
<1> QED
  BY <1>5, <1>6, <1>7, <1>8, <1>9 DEF HeapInv, Shape

\* what a grant of block b for w bytes does to the rest of the state
Granted(b, w) ==
  /\ Shape(xBlockSize', pxNextFreeBlock', Allocated \cup {b})
  /\ Aligned(xBlockSize') /\ b \notin Allocated
  /\ Wanted(w) <= xBlockSize'[b]
  /\ \A o \in Allocated : xBlockSize'[o] = xBlockSize[o]
  /\ Owned(b, w)

LEMMA WholeIsGranted ==
  ASSUME HeapInv, NEW w \in Requests, w # 0, NEW b \in Fits(w), NEW prev \in Headers,
         pxNextFreeBlock[prev] = b, GrantWhole(b, prev, w)
  PROVE  Granted(b, w)
<1>1. b \in BlocksOf(xBlockSize) \ Allocated /\ Wanted(w) <= xBlockSize[b]
  <2>1. b \in Free /\ xBlockSize[b] >= Wanted(w)
    BY DEF Fits
  <2>2. xBlockSize[b] \in Int
    BY <2>1 DEF HeapInv, Shape, Typed, Free, Blocks, Headers
  <2> QED
    BY <2>1, <2>2, WantedFits DEF Free, Blocks, BlocksOf, Headers
<1>2. Shape(xBlockSize, pxNextFreeBlock', Allocated \cup {b})
  BY <1>1, TakeKeepsShape DEF HeapInv, GrantWhole, Unlinked, Headers
<1> QED
  BY <1>1, <1>2 DEF Granted, GrantWhole, HeapInv

LEMMA SplitIsGranted ==
  ASSUME HeapInv, NEW w \in Requests, w # 0, NEW b \in Fits(w), NEW prev \in Headers,
         pxNextFreeBlock[prev] = b, GrantSplit(b, prev, w)
  PROVE  Granted(b, w)
<1> DEFINE n    == Wanted(w)
           rest == b + n
           U    == Unlinked(prev, b)
           next == [a \in Headers \cup {rest} |-> IF a = rest THEN NULL ELSE U[a]]
           S    == Cut(b, n)
<1>1. /\ b \in BlocksOf(xBlockSize) \ Allocated /\ b \in Int /\ b % 4 = 0
      /\ xBlockSize[b] \in Int /\ n \in Int /\ 0 < n /\ n < xBlockSize[b] /\ n % 4 = 0
  <2>1. b \in BlocksOf(xBlockSize) \ Allocated
    BY DEF Fits, Free, Blocks, BlocksOf, Headers
  <2>2. b \in Int /\ b % 4 = 0 /\ xBlockSize[b] \in Int
    BY <2>1 DEF HeapInv, Shape, Typed, Tiling, Aligned, BlocksOf
  <2>3. n \in Int /\ 0 < n /\ n % 4 = 0
    BY WantedFits
  <2>4. xBlockSize[b] - n > heapMINIMUM_BLOCK_SIZE
    BY DEF GrantSplit
  <2> QED
    BY <2>1, <2>2, <2>3, <2>4 DEF heapMINIMUM_BLOCK_SIZE, xHeapStructSize
<1>2. Shape(xBlockSize, U, Allocated \cup {b})
  BY <1>1, TakeKeepsShape DEF HeapInv, Unlinked, Headers
<1>3. Shape(S, next, (Allocated \cup {b}) \cup {rest}) /\ rest \notin Headers /\ rest > b
  <2>1. S = CutSizes(xBlockSize, b, n)
    BY DEF Cut, CutSizes, Headers
  <2>2. next = CutLinks(xBlockSize, U, b, n)
    BY DEF CutLinks, Headers
  <2>3. b \in Allocated \cup {b}
    OBVIOUS
  <2>4. n \in Int /\ 0 < n /\ n < xBlockSize[b]
    BY <1>1
  <2> HIDE DEF U, S, next, n
  <2>5. /\ Shape(S, next, (Allocated \cup {b}) \cup {b + n})
        /\ b + n \notin DOMAIN xBlockSize /\ b + n > b
    BY <1>2, <2>1, <2>2, <2>3, <2>4, CutKeepsShape
  <2> QED
    BY <2>5 DEF Headers
<1>4. PICK it \in Headers \ {b} :
        /\ StopsAt(next, it, rest)
        /\ xBlockSize'      = Inserted(next, S, it, rest).size
        /\ pxNextFreeBlock' = Inserted(next, S, it, rest).next
  BY DEF GrantSplit
<1>5. DOMAIN S = Headers \cup {rest}
  BY DEF Cut
<1> DEFINE out == (Allocated \cup {b}) \cup {rest}
<1>6. /\ Shape(xBlockSize', pxNextFreeBlock', out \ {rest})
      /\ \A o \in out \ {rest} : xBlockSize'[o] = S[o]
      /\ DOMAIN xBlockSize' \subseteq DOMAIN S
  <2>1. it \in DOMAIN S /\ rest \in out
    BY <1>4, <1>5
  <2>2. DOMAIN Inserted(next, S, it, rest).size \subseteq DOMAIN S
    BY DEF Inserted
  <2> HIDE DEF S, next, out, rest
  <2> QED
    BY <1>3, <1>4, <2>1, <2>2, InsertKeepsShape DEF out
<1>7. out \ {rest} = Allocated \cup {b}
  <2>1. Allocated \subseteq Headers /\ b \in Headers
    BY <1>1 DEF HeapInv, Shape, Typed, BlocksOf, Headers
  <2> QED
    BY <1>3, <2>1
<1>8. Aligned(xBlockSize')
  <2>1. BlocksOf(xBlockSize') \subseteq BlocksOf(xBlockSize) \cup {rest}
    BY <1>5, <1>6 DEF BlocksOf, Headers
  <2>2. rest % 4 = 0
    BY <1>1, Mod4Sum
  <2> QED
    BY <2>1, <2>2 DEF Aligned, HeapInv
<1>9. S[b] = n /\ \A o \in Allocated : S[o] = xBlockSize[o]
  <2>1. \A o \in Allocated : o \in Headers /\ o # b /\ o # rest
    BY <1>1, <1>3 DEF HeapInv, Shape, Typed, BlocksOf, Headers
  <2>2. b \in Headers
    BY <1>1 DEF BlocksOf, Headers
  <2> QED
    BY <2>1, <2>2 DEF Cut
<1>10. b \notin Allocated /\ Owned(b, w)
  BY <1>1 DEF GrantSplit
<1> HIDE DEF S, out, rest, next
<1>11. Wanted(w) <= xBlockSize'[b]
  BY <1>1, <1>6, <1>7, <1>9
<1> QED
  BY <1>6, <1>7, <1>8, <1>9, <1>10, <1>11 DEF Granted

LEMMA MallocGrants ==
  ASSUME HeapInv, NEW w \in Requests, pvPortMalloc(w)
  PROVE  w # 0 /\ \E b : Granted(b, w)
<1>1. w # 0
  BY HeapAssumption DEF pvPortMalloc, CanServe
<1>2. PICK b \in Fits(w), prev \in Headers :
        pxNextFreeBlock[prev] = b /\ (GrantWhole(b, prev, w) \/ GrantSplit(b, prev, w))
  BY DEF pvPortMalloc
<1> QED
  BY <1>1, <1>2, WholeIsGranted, SplitIsGranted

LEMMA GrantKeepsInv ==
  ASSUME HeapInv, NEW w \in Requests, w # 0, NEW b, Granted(b, w)
  PROVE  HeapInv' /\ Allocated' = Allocated \cup {b} /\ asked'[b] = w
         /\ \A o \in Allocated : asked'[o] = asked[o]
<1>1. /\ Allocated' = Allocated \cup {b} /\ asked'[b] = w
      /\ \A o \in Allocated : asked'[o] = asked[o]
  BY DEF Granted, Owned, Allocated
<1>2. Shape(xBlockSize', pxNextFreeBlock', Allocated') /\ Aligned(xBlockSize')
  BY <1>1 DEF Granted
<1>3. xBlockSize'[b] \in Int
  BY <1>1, <1>2 DEF Shape, Typed, BlocksOf
<1>4. asked'[b] + xHeapStructSize <= xBlockSize'[b]
  BY <1>1, <1>3, WantedFits DEF Granted, xHeapStructSize
<1>5. Holds'
  BY <1>1, <1>4 DEF Granted, HeapInv, Holds
<1> QED
  BY <1>1, <1>2, <1>5 DEF HeapInv

LEMMA FreeKeepsInv ==
  ASSUME HeapInv, NEW b \in Allocated, vPortFree(b)
  PROVE  HeapInv' /\ Allocated' = Allocated \ {b}
         /\ \A o \in Allocated \ {b} : asked'[o] = asked[o]
<1>1. PICK it \in Headers :
        /\ StopsAt(pxNextFreeBlock, it, b)
        /\ xBlockSize'      = Inserted(pxNextFreeBlock, xBlockSize, it, b).size
        /\ pxNextFreeBlock' = Inserted(pxNextFreeBlock, xBlockSize, it, b).next
  BY DEF vPortFree
<1>2. /\ Allocated' = Allocated \ {b}
      /\ \A o \in Allocated \ {b} : asked'[o] = asked[o]
  BY DEF vPortFree, Allocated
<1>3. /\ Shape(xBlockSize', pxNextFreeBlock', Allocated \ {b})
      /\ \A o \in Allocated \ {b} : xBlockSize'[o] = xBlockSize[o]
  <2>1. Shape(xBlockSize, pxNextFreeBlock, Allocated) /\ it \in DOMAIN xBlockSize
    BY <1>1 DEF HeapInv, Headers
  <2>2. StopsAt(pxNextFreeBlock, it, b)
    BY <1>1
  <2> DEFINE I == Inserted(pxNextFreeBlock, xBlockSize, it, b)
  <2>3. /\ Shape(I.size, I.next, Allocated \ {b})
        /\ \A o \in Allocated \ {b} : I.size[o] = xBlockSize[o]
    BY <2>1, <2>2, InsertKeepsShape
  <2> QED
    BY <1>1, <2>3
<1>4. DOMAIN xBlockSize' \subseteq DOMAIN xBlockSize
  BY <1>1 DEF Inserted
<1>5. Aligned(xBlockSize')
  BY <1>4 DEF Aligned, HeapInv, BlocksOf
<1>6. Holds'
  BY <1>2, <1>3 DEF HeapInv, Holds
<1> QED
  BY <1>2, <1>3, <1>5, <1>6 DEF HeapInv

LEMMA HeapStep == HeapInv /\ [Next]_vars => HeapInv'
<1> SUFFICES ASSUME HeapInv, [Next]_vars PROVE HeapInv'
  OBVIOUS
<1>1. ASSUME NEW w \in Requests, pvPortMalloc(w) PROVE HeapInv'
  BY <1>1, MallocGrants, GrantKeepsInv
<1>2. ASSUME NEW b \in Allocated, vPortFree(b) PROVE HeapInv'
  BY <1>2, FreeKeepsInv
<1>3. CASE UNCHANGED vars
  BY <1>3 DEF vars, HeapInv, Holds, Allocated
<1> QED
  BY <1>1, <1>2, <1>3 DEF Next, Refuse

THEOREM HeapInvariance == Spec => []HeapInv
  BY HeapInit, HeapStep, PTL DEF Spec

(***************************************************************************)
(* After any number of allocations and releases the blocks tile the pool.  *)
(***************************************************************************)
THEOREM AlwaysTiled == Spec => []Tiled
<1>1. HeapInv => Tiled
  BY DEF HeapInv, Shape, Tiling, Tiled, Blocks, BlocksOf, Headers
<1> QED
  BY <1>1, HeapInvariance, PTL

(***************************************************************************)
(* The list always holds the free blocks, in order, no two of them         *)
(* neighbours.                                                             *)
(***************************************************************************)
THEOREM AlwaysFreeList == Spec => []FreeList
<1>1. HeapInv => FreeList
  BY DEF HeapInv, Shape, Linked, Merged, FreeList, Free, Blocks, BlocksOf, Headers
<1> QED
  BY <1>1, HeapInvariance, PTL

-----------------------------------------------------------------------------
(* A refusal means that there is no room *)

FreeCounted == xFreeBytesRemaining \in Int /\ \E f : Counted(xBlockSize, Allocated, f, xFreeBytesRemaining)

LEMMA CountedInit == Init => FreeCounted
<1> SUFFICES ASSUME Init PROVE FreeCounted
  OBVIOUS
<1> DEFINE f == [x \in Int |-> IF x = pxEnd THEN pxEnd - FirstBlock ELSE 0]
<1>1. BlocksOf(xBlockSize) = {FirstBlock} /\ Allocated = {} /\ xBlockSize[FirstBlock] = pxEnd - FirstBlock
  BY Ends, Marks DEF Init, BlocksOf, Allocated
<1>2. xFreeBytesRemaining = pxEnd - FirstBlock
  BY DEF Init
<1>3. Counted(xBlockSize, Allocated, f, xFreeBytesRemaining)
  BY <1>1, <1>2, Ends DEF Counted
<1> QED
  BY <1>2, <1>3, Ends DEF FreeCounted

LEMMA GrantCounts ==
  ASSUME HeapInv, FreeCounted, NEW w \in Requests, w # 0, NEW b \in Fits(w), NEW prev \in Headers,
         pxNextFreeBlock[prev] = b, GrantWhole(b, prev, w) \/ GrantSplit(b, prev, w)
  PROVE  FreeCounted'
<1>1. PICK f : Counted(xBlockSize, Allocated, f, xFreeBytesRemaining)
  BY DEF FreeCounted
<1>2. /\ b \in BlocksOf(xBlockSize) \ Allocated /\ b \in Int /\ xBlockSize[b] \in Int
      /\ xFreeBytesRemaining \in Int /\ Wanted(w) \in Int /\ 0 < Wanted(w)
  <2>1. b \in BlocksOf(xBlockSize) \ Allocated
    BY DEF Fits, Free, Blocks, BlocksOf, Headers
  <2> QED
    BY <2>1, WantedFits DEF HeapInv, Shape, Typed, Tiling, BlocksOf, FreeCounted
<1>3. PICK g : Counted(xBlockSize, Allocated \cup {b}, g, xFreeBytesRemaining - xBlockSize[b])
  BY <1>1, <1>2, TakeCounts DEF HeapInv
<1>4. Allocated' = Allocated \cup {b}
  BY DEF GrantWhole, GrantSplit, Owned, Allocated
<1>5. CASE GrantWhole(b, prev, w)
  <2>1. xFreeBytesRemaining' = xFreeBytesRemaining - xBlockSize[b] /\ xBlockSize' = xBlockSize
    BY <1>5 DEF GrantWhole, Account
  <2> QED
    BY <2>1, <1>2, <1>3, <1>4 DEF FreeCounted
<1>6. CASE GrantSplit(b, prev, w)
  <2> DEFINE n    == Wanted(w)
             rest == b + n
             U    == Unlinked(prev, b)
             next == [a \in Headers \cup {rest} |-> IF a = rest THEN NULL ELSE U[a]]
             S    == Cut(b, n)
             left == xFreeBytesRemaining - xBlockSize[b]
  <2>1. n < xBlockSize[b]
    BY <1>2, <1>6 DEF GrantSplit, heapMINIMUM_BLOCK_SIZE, xHeapStructSize
  <2>2. Shape(xBlockSize, U, Allocated \cup {b})
    BY <1>2, TakeKeepsShape DEF HeapInv, Unlinked, Headers
  <2>3. S = CutSizes(xBlockSize, b, n) /\ next = CutLinks(xBlockSize, U, b, n)
    BY DEF Cut, CutSizes, CutLinks, Headers
  <2>4. PICK it \in Headers \ {b} :
          StopsAt(next, it, rest) /\ xBlockSize' = Inserted(next, S, it, rest).size
    BY <1>6 DEF GrantSplit
  <2>5. DOMAIN S = Headers \cup {rest} /\ b \in Headers
    BY <1>2 DEF Cut, BlocksOf, Headers
  <2> HIDE DEF U, S, next, n, left
  <2>6. /\ Shape(S, next, (Allocated \cup {b}) \cup {rest})
        /\ rest \notin DOMAIN xBlockSize /\ rest > b
    BY <2>1, <2>2, <2>3, <1>2, CutKeepsShape DEF n
  <2>7. Counted(S, (Allocated \cup {b}) \cup {rest}, g, left)
    BY <2>1, <2>2, <2>3, <1>2, <1>3, CutCounts DEF n, left
  <2>8. left \in Int
    BY <1>2 DEF left
  <2>9. PICK h : Counted(xBlockSize', ((Allocated \cup {b}) \cup {rest}) \ {rest}, h, left + S[rest])
    <3> HIDE DEF rest
    <3> QED
      BY <2>4, <2>5, <2>6, <2>7, <2>8, InsertCounts
  <2>10. ((Allocated \cup {b}) \cup {rest}) \ {rest} = Allocated'
    BY <2>6, <1>2, <1>4 DEF HeapInv, Shape, Typed, BlocksOf
  <2>11. S[rest] = xBlockSize[b] - n
    BY <2>5, <2>6, <1>2 DEF S, Cut
  <2>12. xFreeBytesRemaining' = left + S[rest] /\ xFreeBytesRemaining' \in Int
    BY <2>11, <1>2, <1>6 DEF GrantSplit, Account, left, n
  <2> QED
    BY <2>9, <2>10, <2>12 DEF FreeCounted
<1> QED
  BY <1>5, <1>6

LEMMA FreeCounts ==
  ASSUME HeapInv, FreeCounted, NEW b \in Allocated, vPortFree(b)
  PROVE  FreeCounted'
<1>1. PICK f : Counted(xBlockSize, Allocated, f, xFreeBytesRemaining)
  BY DEF FreeCounted
<1>2. PICK it \in Headers :
        /\ StopsAt(pxNextFreeBlock, it, b)
        /\ xBlockSize' = Inserted(pxNextFreeBlock, xBlockSize, it, b).size
  BY DEF vPortFree
<1>3. xFreeBytesRemaining \in Int /\ Shape(xBlockSize, pxNextFreeBlock, Allocated) /\ it \in DOMAIN xBlockSize
  BY <1>2 DEF FreeCounted, HeapInv, Headers
<1>4. PICK g : Counted(Inserted(pxNextFreeBlock, xBlockSize, it, b).size, Allocated \ {b}, g,
                       xFreeBytesRemaining + xBlockSize[b])
  BY <1>1, <1>2, <1>3, InsertCounts
<1>5. Allocated' = Allocated \ {b}
  BY DEF vPortFree, Allocated
<1>6. xFreeBytesRemaining' = xFreeBytesRemaining + xBlockSize[b] /\ xBlockSize[b] \in Int
  BY <1>3 DEF vPortFree, Shape, Typed, BlocksOf
<1> QED
  BY <1>2, <1>3, <1>4, <1>5, <1>6 DEF FreeCounted

LEMMA CountedStep == HeapInv /\ FreeCounted /\ [Next]_vars => FreeCounted'
<1> SUFFICES ASSUME HeapInv, FreeCounted, [Next]_vars PROVE FreeCounted'
  OBVIOUS
<1>1. ASSUME NEW w \in Requests, pvPortMalloc(w) PROVE FreeCounted'
  <2>1. w # 0
    BY <1>1, HeapAssumption DEF pvPortMalloc, CanServe
  <2>2. PICK b \in Fits(w), prev \in Headers :
          pxNextFreeBlock[prev] = b /\ (GrantWhole(b, prev, w) \/ GrantSplit(b, prev, w))
    BY <1>1 DEF pvPortMalloc
  <2> QED
    BY <2>1, <2>2, GrantCounts
<1>2. ASSUME NEW b \in Allocated, vPortFree(b) PROVE FreeCounted'
  BY <1>2, FreeCounts
<1>3. CASE UNCHANGED vars
  BY <1>3 DEF vars, FreeCounted, Allocated
<1> QED
  BY <1>1, <1>2, <1>3 DEF Next, Refuse

\* every byte of the pool is in a block
LEMMA Covered ==
  ASSUME NEW size, Tiling(size), size \in [DOMAIN size -> Int],
         NEW a \in Int, FirstBlock <= a, a < pxEnd
  PROVE  \E b \in BlocksOf(size) : b <= a /\ a < b + size[b]
<1> DEFINE T == {a - b : b \in {x \in BlocksOf(size) : x <= a}}
<1>1. \A x \in BlocksOf(size) : x \in Int /\ x \in DOMAIN size /\ size[x] \in Int /\ size[x] > 0
  BY DEF Tiling, BlocksOf
<1>2. T \subseteq Nat
  BY <1>1
<1>3. a - FirstBlock \in T
  BY DEF Tiling
<1>4. \E m \in T : \A t \in T : ~(<<t, m>> \in OpToRel(<, Nat))
  <2> HIDE DEF T
  <2> QED
    BY <1>2, <1>3, NatLessThanWellFounded, WFMin
<1>5. PICK m \in T : \A t \in T : m <= t
  <2>1. PICK m \in T : \A t \in T : ~(<<t, m>> \in OpToRel(<, Nat))
    BY <1>4
  <2>2. \A t \in T : ~(t < m)
    <3>1. \A t \in T : t \in Nat /\ m \in Nat
      BY <1>2, <2>1
    <3> HIDE DEF T
    <3> QED
      BY <2>1, <3>1 DEF OpToRel
  <2>3. \A t \in T : t \in Nat /\ m \in Nat
    BY <1>2, <2>1
  <2> HIDE DEF T
  <2>4. \A t \in T : m <= t
    BY <2>2, <2>3
  <2> QED
    BY <2>1, <2>4
<1>6. PICK b \in BlocksOf(size) : b <= a /\ m = a - b
  BY <1>5
<1>7. a < b + size[b]
  <2> SUFFICES ASSUME b + size[b] <= a PROVE FALSE
    BY <1>1, <1>6
  <2>1. b + size[b] \in BlocksOf(size)
    BY <1>1, Ends DEF Tiling
  <2>2. a - (b + size[b]) \in T
    BY <2>1
  <2> QED
    BY <2>2, <1>1, <1>5, <1>6
<1> QED
  BY <1>6, <1>7

(***************************************************************************)
(* pvPortMalloc returns NULL only when no stretch of bytes outside of the  *)
(* allocated blocks would hold the request and its header: a stretch that  *)
(* would lies in one free block, for two are never neighbours, and the     *)
(* count of free bytes, which is looked at first, is at least its size.    *)
(***************************************************************************)
THEOREM RefusesOnlyWhenFull == Spec => []RefusedOnlyWhenFull
<1>1. HeapInv /\ FreeCounted => RefusedOnlyWhenFull
  <2> SUFFICES ASSUME HeapInv, FreeCounted, NEW w \in Requests \ {0},
                      NEW a \in FirstBlock..pxEnd, Unowned(a, Wanted(w))
               PROVE  CanServe(w)
    BY DEF RefusedOnlyWhenFull
  <2> DEFINE n == Wanted(w)
  <2>1. w \in Nat /\ n \in Int /\ 0 < n /\ w + xHeapStructSize <= n
    BY WantedFits
  <2>2. a \in Int /\ FirstBlock <= a /\ a + n <= pxEnd
    BY Ends DEF Unowned
  <2>3. /\ Typed(xBlockSize, pxNextFreeBlock, Allocated) /\ Tiling(xBlockSize)
        /\ Merged(xBlockSize, Allocated)
    BY DEF HeapInv, Shape
  <2>4. /\ \A x \in BlocksOf(xBlockSize) : x \in Int /\ xBlockSize[x] \in Int /\ xBlockSize[x] > 0
        /\ Allocated \subseteq BlocksOf(xBlockSize)
    BY <2>3 DEF Typed, Tiling, BlocksOf
  <2>5. PICK b \in BlocksOf(xBlockSize) : b <= a /\ a < b + xBlockSize[b]
    BY <2>1, <2>2, <2>3, Ends, Covered DEF Typed
  <2>6. \A o \in Allocated : o + xBlockSize[o] <= a \/ a + n <= o
    BY DEF Unowned
  <2> HIDE DEF n
  <2>7. b \notin Allocated
    BY <2>1, <2>2, <2>4, <2>5, <2>6
  <2>8. a + n <= b + xBlockSize[b]
    <3> SUFFICES ASSUME b + xBlockSize[b] < a + n PROVE FALSE
      BY <2>1, <2>2, <2>4, <2>5
    <3>1. b + xBlockSize[b] \in BlocksOf(xBlockSize)
      <4>1. b + xBlockSize[b] # pxEnd
        BY <2>1, <2>2, <2>4, <2>5, Ends
      <4> QED
        BY <4>1, <2>3 DEF Tiling
    <3>2. b + xBlockSize[b] \in Allocated
      BY <3>1, <2>3, <2>5, <2>7 DEF Merged
    <3> DEFINE c == b + xBlockSize[b]
    <3>3. c + xBlockSize[c] <= a \/ a + n <= c
      BY <3>2, <2>6
    <3>4. xBlockSize[c] \in Int /\ xBlockSize[c] > 0 /\ c \in Int
      BY <3>1, <2>4
    <3>5. a < c /\ c < a + n
      BY <2>5
    <3> HIDE DEF c
    <3> QED
      BY <3>3, <3>4, <3>5, <2>1, <2>2
  <2>9. b \in Free /\ n <= xBlockSize[b]
    BY <2>1, <2>2, <2>4, <2>5, <2>7, <2>8 DEF Free, Blocks, BlocksOf, Headers
  <2>10. xBlockSize[b] <= xFreeBytesRemaining /\ b < pxEnd
    <3>1. PICK f : Counted(xBlockSize, Allocated, f, xFreeBytesRemaining)
      BY DEF FreeCounted
    <3>2. b < pxEnd
      BY <2>3 DEF Tiling
    <3>3. /\ f[b] + xBlockSize[b] <= xFreeBytesRemaining /\ 0 <= f[b] /\ f[b] \in Int
          /\ xFreeBytesRemaining \in Int
      BY <3>1, <3>2, <2>4, <2>7, Ends DEF Counted
    <3>4. xBlockSize[b] \in Int
      BY <2>4, <2>5
    <3> QED
      BY <3>2, <3>3, <3>4
  <2>11. n <= xFreeBytesRemaining
    BY <2>1, <2>4, <2>5, <2>9, <2>10 DEF FreeCounted
  <2>12. pxEnd - FirstBlock < xBlockAllocatedBit
    <3>1. /\ heap_base \in Nat /\ configTOTAL_HEAP_SIZE \in Nat
          /\ configTOTAL_HEAP_SIZE <= xBlockAllocatedBit /\ xBlockAllocatedBit \in Nat
      BY HeapAssumption
    <3>2. heap_base <= FirstBlock /\ pxEnd <= heap_base + configTOTAL_HEAP_SIZE - 8
      BY <3>1, Mod4 DEF FirstBlock, pxEnd, AlignUp, portBYTE_ALIGNMENT, xHeapStructSize
    <3> QED
      BY <3>1, <3>2, Ends
  <2>13. w < xBlockAllocatedBit
    BY <2>1, <2>2, <2>12, Ends, HeapAssumption DEF xHeapStructSize
  <2> QED
    BY <2>1, <2>9, <2>11, <2>13 DEF CanServe, Fits, n
<1> QED
  BY <1>1, HeapInvariance, CountedInit, HeapInit, HeapStep, CountedStep, PTL DEF Spec

-----------------------------------------------------------------------------
(* The pool implements Allocator *)

Share(b, w) == [at |-> b + xHeapStructSize, size |-> w]

Shares == {Share(b, asked[b]) : b \in Allocated}

\* the shares of two blocks are apart, and inside the pool
LEMMA RequestsNat == Requests \subseteq Nat
  BY HeapAssumption

SharesAreApart ==
  /\ \A b \in Allocated : /\ b \in Int /\ FirstBlock <= b /\ b % 4 = 0 /\ asked[b] \in Nat
                          /\ b + xHeapStructSize + asked[b] <= pxEnd
  /\ \A b, c \in Allocated : b # c => \/ b + xHeapStructSize + asked[b] <= c
                                      \/ c + xHeapStructSize + asked[c] <= b

LEMMA SharesApart == HeapInv => SharesAreApart
<1> SUFFICES ASSUME HeapInv PROVE SharesAreApart
  OBVIOUS
<1>1. Typed(xBlockSize, pxNextFreeBlock, Allocated) /\ Tiling(xBlockSize)
  BY DEF HeapInv, Shape
<1>2. ASSUME NEW b \in Allocated
      PROVE  /\ b \in BlocksOf(xBlockSize) /\ b \in Int /\ FirstBlock <= b /\ b % 4 = 0
             /\ asked[b] \in Nat /\ xBlockSize[b] \in Int
             /\ b + xHeapStructSize + asked[b] <= b + xBlockSize[b]
             /\ b + xBlockSize[b] <= pxEnd
  <2>1. b \in BlocksOf(xBlockSize) /\ xBlockSize[b] \in Int
    BY <1>1 DEF Typed, BlocksOf
  <2>2. b \in Int /\ FirstBlock <= b /\ b % 4 = 0
    BY <1>1, <2>1 DEF Tiling, HeapInv, Aligned
  <2>3. asked[b] \in Nat /\ asked[b] + xHeapStructSize <= xBlockSize[b]
    <3>1. asked[b] \in Requests /\ asked[b] + xHeapStructSize <= xBlockSize[b]
      BY DEF HeapInv, Holds
    <3> QED
      BY <3>1, RequestsNat
  <2>4. b + xBlockSize[b] <= pxEnd
    BY <1>1, <2>1, Ends DEF Tiling
  <2> QED
    BY <2>1, <2>2, <2>3, <2>4 DEF xHeapStructSize
<1>3. ASSUME NEW b \in Allocated, NEW c \in Allocated, b < c
      PROVE  b + xHeapStructSize + asked[b] <= c
  <2>1. b + xBlockSize[b] <= c
    BY <1>1, <1>2, <1>3 DEF Tiling
  <2> QED
    BY <2>1, <1>2, <1>3 DEF xHeapStructSize
<1>4. \A b \in Allocated : b + xHeapStructSize + asked[b] <= pxEnd
  BY <1>2, Ends DEF xHeapStructSize
<1> QED
  BY <1>2, <1>3, <1>4 DEF SharesAreApart

LEMMA GrantIsGrant ==
  ASSUME HeapInv, NEW w \in Requests, w # 0, NEW b, Granted(b, w)
  PROVE  Promise!Next
<1> DEFINE p == b + xHeapStructSize
<1>1. /\ HeapInv' /\ Allocated' = Allocated \cup {b} /\ asked'[b] = w /\ b \notin Allocated
      /\ \A o \in Allocated : asked'[o] = asked[o]
  BY GrantKeepsInv DEF Granted
<1>2. /\ \A c \in Allocated' : /\ c \in Int /\ FirstBlock <= c /\ c % 4 = 0 /\ asked'[c] \in Nat
                               /\ c + xHeapStructSize + asked'[c] <= pxEnd
      /\ \A c, d \in Allocated' : c # d => \/ c + xHeapStructSize + asked'[c] <= d
                                           \/ d + xHeapStructSize + asked'[d] <= c
  <2>1. SharesAreApart'
    BY <1>1, SharesApart, PTL
  <2> QED
    BY <2>1 DEF SharesAreApart
<1>3. /\ b \in Int /\ FirstBlock <= b /\ b % 4 = 0 /\ w \in Nat /\ p + w <= pxEnd
  BY <1>1, <1>2
<1>4. p \in FirstBlock..pxEnd /\ p % 4 = 0
  BY <1>3, Ends, Mod4Sum DEF xHeapStructSize
<1>5. ASSUME NEW x \in Shares PROVE Promise!Apart(x, Share(b, w))
  <2>1. PICK c \in Allocated : x = Share(c, asked[c])
    BY DEF Shares
  <2>2. c \in Allocated' /\ b \in Allocated' /\ c # b /\ asked'[c] = asked[c]
    BY <1>1
  <2>3. c + xHeapStructSize + asked[c] <= b \/ p + w <= c
    BY <2>2, <1>1, <1>2
  <2>4. c \in Int /\ asked[c] \in Nat
    BY <2>2, <1>2
  <2> QED
    BY <2>1, <2>3, <2>4, <1>3 DEF Share, Promise!Apart, xHeapStructSize
<1>6. Shares' = Shares \cup {Share(b, w)}
  BY <1>1 DEF Shares
<1>7. Promise!Grant(p, w)
  BY <1>3, <1>4, <1>5, <1>6 DEF Promise!Grant, Shares, Share, portBYTE_ALIGNMENT
<1> QED
  BY <1>4, <1>7 DEF Promise!Next

LEMMA FreeIsRelease ==
  ASSUME HeapInv, NEW b \in Allocated, vPortFree(b)
  PROVE  Promise!Next
<1>0. PICK x : x = Share(b, asked[b])
  OBVIOUS
<1>1. Allocated' = Allocated \ {b} /\ \A o \in Allocated \ {b} : asked'[o] = asked[o]
  BY FreeKeepsInv
<1>2. \A c \in Allocated : c # b => Share(c, asked[c]) # x
  BY <1>0, SharesApart DEF SharesAreApart, Share, xHeapStructSize
<1>3. Shares' = Shares \ {x}
  BY <1>0, <1>1, <1>2 DEF Shares
<1>4. x \in Shares
  BY <1>0 DEF Shares
<1>5. Promise!Release(x)
  BY <1>3, <1>4 DEF Promise!Release, Shares, Share
<1>6. x \in {[at |-> c + xHeapStructSize, size |-> asked[c]] : c \in Allocated}
  BY <1>4 DEF Shares, Share
<1> QED
  BY <1>5, <1>6 DEF Promise!Next

(***************************************************************************)
(* heap_4.c keeps the promise of Allocator: whatever the pool's size and   *)
(* place and the sizes asked for, memory that was granted is aligned,      *)
(* inside the pool and nobody else's until it is freed.                    *)
(***************************************************************************)
THEOREM Implements == Spec => KeepsPromise
<1>1. Init => Promise!Init
  BY DEF Init, Promise!Init, Allocated
<1>2. HeapInv /\ [Next]_vars => [Promise!Next]_Shares
  <2> SUFFICES ASSUME HeapInv, [Next]_vars PROVE Promise!Next \/ UNCHANGED Shares
    OBVIOUS
  <2>1. ASSUME NEW w \in Requests, pvPortMalloc(w) PROVE Promise!Next
    BY <2>1, MallocGrants, GrantIsGrant
  <2>2. ASSUME NEW b \in Allocated, vPortFree(b) PROVE Promise!Next
    BY <2>2, FreeIsRelease
  <2>3. CASE UNCHANGED vars
    BY <2>3 DEF vars, Shares, Allocated
  <2> QED
    BY <2>1, <2>2, <2>3 DEF Next, Refuse
<1>3. Shares = {[at |-> b + xHeapStructSize, size |-> asked[b]] : b \in Allocated}
  BY DEF Shares, Share
<1> QED
  BY <1>1, <1>2, <1>3, HeapInvariance, PTL DEF Spec, KeepsPromise, Promise!Spec, Shares, Share
=============================================================================
