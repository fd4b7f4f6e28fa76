------------------------- MODULE Algorithms_proofs -------------------------
(***************************************************************************)
(* Proofs about the two data structures that stand alone: the free list of *)
(* KV-cache blocks (FreeKVCacheBlockQueue) and the text of a request       *)
(* (TextStream).  Each part states the inductive invariant of its          *)
(* component, shows that every action preserves it, and derives the        *)
(* theorems that rest on it.                                               *)
(***************************************************************************)
EXTENDS FreeKVCacheBlockQueue, TextStream, WellFoundedInduction, TLAPS

-----------------------------------------------------------------------------
(* The linked list of free blocks is a queue, for every number of blocks.  *)
(* LinksFollowQueue is inductive together with the types of the links: an  *)
(* operation changes at most the links of the block, of its two neighbours *)
(* and of the two ends, and as no block is in the queue twice, no other    *)
(* place of the queue is disturbed.                                        *)

LinkTypes ==
    /\ prevFreeBlock \in [Block -> Block \cup {None}]
    /\ nextFreeBlock \in [Block -> Block \cup {None}]
    /\ queue \in Seq(Block)

QueueInv == LinkTypes /\ LinksFollowQueue

\* None is not a block.
LEMMA NoneIsNone == None \notin Block
BY NumBlocksAssumption DEF None, Block

\* Only the empty queue has length 0.
LEMMA EmptyQueue == \A s \in Seq(Block) : s = <<>> <=> Len(s) = 0
OBVIOUS

\* The initial list, in the order of the block numbers, is the initial queue.
LEMMA QueueInitInv == QueueInit => QueueInv
<1> SUFFICES ASSUME QueueInit PROVE QueueInv BY Zenon
<1> USE NumBlocksAssumption
<1>1. queue \in Seq(Block) /\ Len(queue) = NumBlocks BY DEF QueueInit, Block
<1>2. \A i \in 1 .. NumBlocks : queue[i] = i - 1 BY Zenon DEF QueueInit
<1>3. LinkTypes BY <1>1 DEF QueueInit, LinkTypes, Block, None
<1>4. NoRepetition BY <1>1, <1>2 DEF NoRepetition
<1>5. \A b \in Block : IsFree(b)
  <2> TAKE b \in Block
  <2>1. b + 1 \in 1 .. Len(queue) /\ queue[b + 1] = b BY <1>1, <1>2 DEF Block
  <2> QED BY <2>1, Zenon DEF IsFree
<1>6. /\ freeListHead = queue[1] /\ freeListTail = queue[Len(queue)]
      /\ numFreeBlocks = Len(queue) /\ queue # <<>>
  <2>1. queue # <<>> BY <1>1, Zenon
  <2>2. freeListHead = 0 /\ freeListTail = NumBlocks - 1 /\ numFreeBlocks = NumBlocks
    BY Zenon DEF QueueInit
  <2>3. queue[1] = 0 /\ queue[NumBlocks] = NumBlocks - 1 BY <1>2
  <2> QED BY <1>1, <2>1, <2>2, <2>3, Zenon
<1>7. \A i \in 1 .. Len(queue) :
        /\ nextFreeBlock[queue[i]] = IF i < Len(queue) THEN queue[i + 1] ELSE None
        /\ prevFreeBlock[queue[i]] = IF i > 1 THEN queue[i - 1] ELSE None
  BY <1>1, <1>2 DEF QueueInit, Block, None
<1> QED BY <1>3, <1>4, <1>5, <1>6, <1>7, Zenon DEF QueueInv, LinksFollowQueue

\* Unlinking the block at place p takes that place out of the queue.
LEMMA UnlinkPlace ==
    ASSUME QueueInv, NEW p \in 1 .. Len(queue), Unlink(queue[p]),
           queue' \in Seq(Block), Len(queue') = Len(queue) - 1,
           \A i \in 1 .. Len(queue) - 1 :
                queue'[i] = IF i < p THEN queue[i] ELSE queue[i + 1]
    PROVE  QueueInv'
<1> DEFINE n == Len(queue)
           b == queue[p]
<1>0. /\ n \in Nat /\ n >= 1 /\ p \in 1 .. n
      /\ \A i \in 1 .. n : queue[i] \in Block
      /\ prevFreeBlock \in [Block -> Block \cup {None}]
      /\ nextFreeBlock \in [Block -> Block \cup {None}]
  BY DEF QueueInv, LinkTypes
<1>1. \A i, j \in 1 .. n : queue[i] = queue[j] => i = j
  BY Zenon DEF QueueInv, LinksFollowQueue, NoRepetition
<1>2. \A i \in 1 .. n : /\ nextFreeBlock[queue[i]] = IF i < n THEN queue[i + 1] ELSE None
                        /\ prevFreeBlock[queue[i]] = IF i > 1 THEN queue[i - 1] ELSE None
  BY Zenon DEF QueueInv, LinksFollowQueue
<1>3. /\ queue' \in Seq(Block) /\ Len(queue') = n - 1
      /\ \A i \in 1 .. n - 1 : queue'[i] = IF i < p THEN queue[i] ELSE queue[i + 1]
  BY <1>0, Zenon
<1>4. /\ numFreeBlocks = n /\ freeListHead = queue[1] /\ freeListTail = queue[n]
  BY <1>0 DEF QueueInv, LinksFollowQueue
<1> HIDE DEF n, b
<1>b. b = queue[p] /\ n = Len(queue) BY Zenon DEF b, n
<1>5. LinkTypes'
  BY <1>0, <1>3, <1>b, Zenon DEF Unlink, LinkTypes
<1>6. NoRepetition'
  <2> SUFFICES ASSUME NEW i \in 1 .. n - 1, NEW j \in 1 .. n - 1, queue'[i] = queue'[j]
               PROVE  i = j
    BY <1>3, Zenon DEF NoRepetition
  <2>1. PICK k \in 1 .. n : queue'[i] = queue[k] /\ k = IF i < p THEN i ELSE i + 1
    BY <1>0, <1>3
  <2>2. PICK l \in 1 .. n : queue'[j] = queue[l] /\ l = IF j < p THEN j ELSE j + 1
    BY <1>0, <1>3
  <2>3. k = l
    BY <1>1, <2>1, <2>2, Zenon
  <2> QED  BY <1>0, <2>1, <2>2, <2>3
<1>7. numFreeBlocks' = Len(queue') BY <1>0, <1>3, <1>4, Zenon DEF Unlink
<1>e. queue' = <<>> <=> n = 1
  <2>1. queue' = <<>> <=> Len(queue') = 0 BY <1>3, EmptyQueue, Zenon
  <2> QED BY <2>1, <1>0, <1>3
<1>8. freeListHead' = IF queue' = <<>> THEN None ELSE queue'[1]
  <2>1. b = queue[1] <=> p = 1 BY <1>0, <1>1, <1>b
  <2>2. freeListHead' = IF p = 1 THEN nextFreeBlock[b] ELSE queue[1]
    BY <2>1, <1>4, <1>b, Zenon DEF Unlink
  <2>3. n # 1 => queue'[1] = IF p = 1 THEN queue[2] ELSE queue[1]
    BY <1>0, <1>3
  <2>4. p = 1 => nextFreeBlock[b] = IF n = 1 THEN None ELSE queue[2]
    BY <1>0, <1>2, <1>b
  <2> QED BY <2>2, <2>3, <2>4, <1>e, <1>0
<1>9. freeListTail' = IF queue' = <<>> THEN None ELSE queue'[Len(queue')]
  <2>1. b = queue[n] <=> p = n BY <1>0, <1>1, <1>b
  <2>2. freeListTail' = IF p = n THEN prevFreeBlock[b] ELSE queue[n]
    BY <2>1, <1>4, <1>b, Zenon DEF Unlink
  <2>3. n # 1 => queue'[n - 1] = IF p = n THEN queue[n - 1] ELSE queue[n]
    BY <1>0, <1>3
  <2>4. p = n => prevFreeBlock[b] = IF n = 1 THEN None ELSE queue[n - 1]
    BY <1>0, <1>2, <1>b
  <2> QED BY <2>2, <2>3, <2>4, <1>e, <1>0, <1>3
<1>10. ASSUME NEW i \in 1 .. n - 1
       PROVE  /\ nextFreeBlock'[queue'[i]] = IF i < n - 1 THEN queue'[i + 1] ELSE None
              /\ prevFreeBlock'[queue'[i]] = IF i > 1 THEN queue'[i - 1] ELSE None
  <2>1. nextFreeBlock'[queue'[i]] =
            IF queue'[i] = prevFreeBlock[b] THEN nextFreeBlock[b] ELSE nextFreeBlock[queue'[i]]
    BY <1>0, <1>1, <1>3, <1>b DEF Unlink
  <2>2. prevFreeBlock'[queue'[i]] =
            IF queue'[i] = nextFreeBlock[b] THEN prevFreeBlock[b] ELSE prevFreeBlock[queue'[i]]
    BY <1>0, <1>1, <1>3, <1>b DEF Unlink
  <2>p. /\ nextFreeBlock[b] = IF p < n THEN queue[p + 1] ELSE None
        /\ prevFreeBlock[b] = IF p > 1 THEN queue[p - 1] ELSE None
    BY <1>0, <1>2, <1>b, Zenon
  <2>3. CASE i < p
    <3>1. queue'[i] = queue[i] /\ i \in 1 .. n BY <2>3, <1>0, <1>3
    <3>2. queue[i] = prevFreeBlock[b] <=> i = p - 1
      BY <2>3, <2>p, <1>0, <1>1, NoneIsNone
    <3>3. queue[i] # nextFreeBlock[b] BY <2>3, <2>p, <1>0, <1>1, NoneIsNone
    <3>4. prevFreeBlock'[queue'[i]] = IF i > 1 THEN queue'[i - 1] ELSE None
      BY <2>2, <2>3, <3>1, <3>3, <1>0, <1>2, <1>3
    <3>5. CASE i = p - 1
      <4>1. nextFreeBlock'[queue'[i]] = IF p < n THEN queue[p + 1] ELSE None
        BY <2>1, <2>p, <3>1, <3>2, <3>5, Zenon
      <4>2. i < n - 1 <=> p < n BY <3>5, <1>0
      <4>3. p < n => queue'[i + 1] = queue[p + 1] BY <3>5, <1>0, <1>3
      <4> QED BY <4>1, <4>2, <4>3, <3>4, Zenon
    <3>6. CASE i # p - 1
      <4>1. nextFreeBlock'[queue'[i]] = queue[i + 1]
        BY <2>1, <2>3, <3>1, <3>2, <3>6, <1>0, <1>2
      <4>2. i < n - 1 /\ queue'[i + 1] = queue[i + 1] BY <2>3, <3>6, <1>0, <1>3
      <4> QED BY <4>1, <4>2, <3>4, Zenon
    <3> QED BY <3>5, <3>6, Zenon
  <2>4. CASE i >= p
    <3>1. queue'[i] = queue[i + 1] /\ i + 1 \in 1 .. n BY <2>4, <1>0, <1>3
    <3>2. queue[i + 1] = nextFreeBlock[b] <=> i = p
      BY <2>4, <2>p, <1>0, <1>1, NoneIsNone
    <3>3. queue[i + 1] # prevFreeBlock[b] BY <2>4, <2>p, <1>0, <1>1, NoneIsNone
    <3>4. nextFreeBlock'[queue'[i]] = IF i < n - 1 THEN queue'[i + 1] ELSE None
      BY <2>1, <2>4, <3>1, <3>3, <1>0, <1>2, <1>3
    <3>5. CASE i = p
      <4>1. prevFreeBlock'[queue'[i]] = IF p > 1 THEN queue[p - 1] ELSE None
        BY <2>2, <2>p, <3>1, <3>2, <3>5, Zenon
      <4>2. p > 1 => queue'[i - 1] = queue[p - 1] BY <3>5, <1>0, <1>3
      <4> QED BY <4>1, <4>2, <3>4, <3>5, Zenon
    <3>6. CASE i # p
      <4>1. prevFreeBlock'[queue'[i]] = queue[i]
        BY <2>2, <2>4, <3>1, <3>2, <3>6, <1>0, <1>2
      <4>2. i > 1 /\ queue'[i - 1] = queue[i] BY <2>4, <3>6, <1>0, <1>3
      <4> QED BY <4>1, <4>2, <3>4, Zenon
    <3> QED BY <3>5, <3>6, Zenon
  <2> QED BY <2>3, <2>4, <1>0
<1>11. ASSUME NEW c \in Block, ~IsFree(c)'
       PROVE  nextFreeBlock'[c] = None /\ prevFreeBlock'[c] = None
  <2>1. CASE c = b BY <2>1, <1>0, <1>b, Zenon DEF Unlink
  <2>2. CASE c # b
    <3>1. ~IsFree(c)
      <4> SUFFICES ASSUME NEW k \in 1 .. n, queue[k] = c PROVE FALSE BY <1>b, <1>0, Zenon DEF IsFree
      <4>1. k # p BY <2>2, <1>b, Zenon
      <4>2. \E j \in 1 .. n - 1 : queue'[j] = c
        <5>1. CASE k < p
          <6>1. k \in 1 .. n - 1 BY <5>1, <1>0
          <6> QED BY <5>1, <6>1, <1>3, Zenon
        <5>2. CASE k > p
          <6>1. k - 1 \in 1 .. n - 1 /\ ~(k - 1 < p) /\ (k - 1) + 1 = k BY <5>2, <1>0
          <6> QED BY <6>1, <1>3, Zenon
        <5>3. k < p \/ k > p BY <4>1, <1>0
        <5> QED BY <5>1, <5>2, <5>3, Zenon
      <4> QED BY <4>2, <1>3, <1>11, Zenon DEF IsFree
    <3>2. nextFreeBlock[c] = None /\ prevFreeBlock[c] = None
      BY <3>1, Zenon DEF QueueInv, LinksFollowQueue
    <3>3. c # prevFreeBlock[b] /\ c # nextFreeBlock[b]
      <4>1. \A k \in 1 .. n : queue[k] # c BY <3>1, <1>b, Zenon DEF IsFree
      <4>2. /\ nextFreeBlock[b] = IF p < n THEN queue[p + 1] ELSE None
            /\ prevFreeBlock[b] = IF p > 1 THEN queue[p - 1] ELSE None
        BY <1>0, <1>2, <1>b, Zenon
      <4>3. c # None BY NoneIsNone, Zenon
      <4> QED BY <4>1, <4>2, <4>3, <1>0
    <3> QED BY <2>2, <3>2, <3>3, <1>b, Zenon DEF Unlink
  <2> QED BY <2>1, <2>2, Zenon
<1>12. \A i \in 1 .. Len(queue') :
          /\ nextFreeBlock'[queue'[i]] = IF i < Len(queue') THEN queue'[i + 1] ELSE None
          /\ prevFreeBlock'[queue'[i]] = IF i > 1 THEN queue'[i - 1] ELSE None
  <2>1. Len(queue') = n - 1 BY <1>3, Zenon
  <2> QED BY <2>1, <1>10, Zenon
<1>13. \A c \in Block : ~IsFree(c)' => nextFreeBlock'[c] = None /\ prevFreeBlock'[c] = None
  BY <1>11, Zenon
<1>14. LinksFollowQueue'
  BY <1>6, <1>7, <1>8, <1>9, <1>12, <1>13, Zenon DEF LinksFollowQueue, Block, None
<1> QED BY <1>5, <1>14, Zenon DEF QueueInv

\* popleft and remove take out the block at its place.
LEMMA RemovalInv ==
    ASSUME QueueInv, PopLeft \/ (\E b \in Block : RemoveBlock(b))
    PROVE  QueueInv'
<1>1. CASE PopLeft
  <2>1. queue # <<>> /\ freeListHead = queue[1]
    BY <1>1, Zenon DEF PopLeft, QueueInv, LinksFollowQueue
  <2>2. 1 \in 1 .. Len(queue) BY <2>1 DEF QueueInv, LinkTypes
  <2>3. /\ queue' \in Seq(Block) /\ Len(queue') = Len(queue) - 1
        /\ \A i \in 1 .. Len(queue) - 1 :
                queue'[i] = IF i < 1 THEN queue[i] ELSE queue[i + 1]
    <3>1. queue \in Seq(Block) /\ queue # <<>> BY <2>1, Zenon DEF QueueInv, LinkTypes
    <3>2. /\ Tail(queue) \in Seq(Block) /\ Len(Tail(queue)) = Len(queue) - 1
          /\ \A i \in 1 .. Len(queue) - 1 : Tail(queue)[i] = queue[i + 1]
      BY <3>1
    <3> QED BY <1>1, <3>2 DEF PopLeft
  <2>4. Unlink(queue[1]) BY <1>1, <2>1, Zenon DEF PopLeft
  <2> QED BY <2>2, <2>3, <2>4, UnlinkPlace, Zenon
<1>2. ASSUME NEW b \in Block, RemoveBlock(b) PROVE QueueInv'
  <2>1. Place(b) \in 1 .. Len(queue) /\ queue[Place(b)] = b
    BY <1>2, Zenon DEF RemoveBlock, IsFree, Place
  <2>2. Unlink(queue[Place(b)]) BY <1>2, <2>1, Zenon DEF RemoveBlock
  <2>3. /\ queue' \in Seq(Block) /\ Len(queue') = Len(queue) - 1
        /\ \A i \in 1 .. Len(queue) - 1 :
                queue'[i] = IF i < Place(b) THEN queue[i] ELSE queue[i + 1]
    <3>1. /\ queue \in Seq(Block) /\ Len(queue) \in Nat \ {0}
          /\ \A i \in 1 .. Len(queue) : queue[i] \in Block
      BY <2>1 DEF QueueInv, LinkTypes
    <3>2. queue' = [i \in 1 .. Len(queue) - 1 |->
                        IF i < Place(b) THEN queue[i] ELSE queue[i + 1]]
      BY <1>2, Zenon DEF RemoveBlock
    <3> QED BY <3>1, <3>2
  <2> QED BY <2>1, <2>2, <2>3, UnlinkPlace, Zenon
<1> QED BY <1>1, <1>2, Zenon

\* append puts the block behind the last one, or makes it the only one.
LEMMA AppendInv ==
    ASSUME QueueInv, NEW b \in Block, AppendBlock(b)
    PROVE  QueueInv'
<1> DEFINE n == Len(queue)
<1>0. /\ n \in Nat /\ \A i \in 1 .. n : queue[i] \in Block
      /\ prevFreeBlock \in [Block -> Block \cup {None}]
      /\ nextFreeBlock \in [Block -> Block \cup {None}]
      /\ queue \in Seq(Block)
  BY DEF QueueInv, LinkTypes
<1>1. /\ \A i, j \in 1 .. n : queue[i] = queue[j] => i = j
      /\ \A i \in 1 .. n : queue[i] # b
      /\ numFreeBlocks = n
  BY Zenon DEF QueueInv, LinksFollowQueue, NoRepetition, AppendBlock, IsFree
<1>2. \A i \in 1 .. n : /\ nextFreeBlock[queue[i]] = IF i < n THEN queue[i + 1] ELSE None
                        /\ prevFreeBlock[queue[i]] = IF i > 1 THEN queue[i - 1] ELSE None
  BY Zenon DEF QueueInv, LinksFollowQueue
<1>3. nextFreeBlock[b] = None /\ prevFreeBlock[b] = None
  BY Zenon DEF QueueInv, LinksFollowQueue, AppendBlock
<1>4. /\ n = 0 => freeListTail = None /\ freeListHead = None
      /\ n # 0 => freeListTail = queue[n] /\ freeListHead = queue[1]
  BY <1>0, EmptyQueue, Zenon DEF QueueInv, LinksFollowQueue
<1>5. /\ Len(queue') = n + 1 /\ queue' \in Seq(Block)
      /\ queue'[n + 1] = b /\ \A i \in 1 .. n : queue'[i] = queue[i]
  BY <1>0 DEF AppendBlock
<1>6. freeListTail' = b /\ numFreeBlocks' = n + 1 /\ queue' # <<>>
  <2>1. queue' # <<>> BY <1>0, <1>5, EmptyQueue
  <2> QED BY <1>1, <2>1, Zenon DEF AppendBlock
<1> HIDE DEF n
<1>7. freeListTail # None <=> n # 0 BY <1>0, <1>4, NoneIsNone
<1>8. freeListHead' = queue'[1]
  <2>1. CASE n = 0 BY <2>1, <1>5, <1>7 DEF AppendBlock
  <2>2. CASE n # 0 BY <2>2, <1>0, <1>4, <1>5, <1>7 DEF AppendBlock
  <2> QED BY <2>1, <2>2, Zenon
<1>9. \A c \in Block : /\ nextFreeBlock'[c] = IF c = b THEN None
                                   ELSE IF n # 0 /\ c = queue[n] THEN b ELSE nextFreeBlock[c]
                      /\ prevFreeBlock'[c] = IF n # 0 /\ c = b THEN queue[n] ELSE prevFreeBlock[c]
  <2>1. CASE n = 0
    BY <2>1, <1>0, <1>7, Zenon DEF AppendBlock
  <2>2. CASE n # 0
    <3>1. freeListTail = queue[n] /\ queue[n] \in Block BY <2>2, <1>0, <1>4
    <3>2. /\ nextFreeBlock' = [nextFreeBlock EXCEPT ![queue[n]] = b, ![b] = None]
          /\ prevFreeBlock' = [prevFreeBlock EXCEPT ![b] = queue[n]]
      BY <2>2, <3>1, <1>7, Zenon DEF AppendBlock
    <3> QED BY <2>2, <3>1, <3>2, <1>0, Zenon
  <2> QED BY <2>1, <2>2, Zenon
<1>10. LinkTypes'
  <2>1. /\ DOMAIN nextFreeBlock' = Block /\ DOMAIN prevFreeBlock' = Block
        /\ nextFreeBlock' \in [Block -> Block \cup {None}]
        /\ prevFreeBlock' \in [Block -> Block \cup {None}]
    <3>1. CASE n = 0 BY <3>1, <1>0, <1>7, Zenon DEF AppendBlock
    <3>2. CASE n # 0
      <4>1. freeListTail \in Block /\ freeListTail # None BY <3>2, <1>0, <1>4, <1>7
      <4> QED BY <4>1, <1>0 DEF AppendBlock
    <3> QED BY <3>1, <3>2, Zenon
  <2> QED BY <2>1, <1>5, Zenon DEF LinkTypes
<1>11. NoRepetition'
  <2> SUFFICES ASSUME NEW i \in 1 .. n + 1, NEW j \in 1 .. n + 1, queue'[i] = queue'[j]
               PROVE  i = j
    BY <1>5, Zenon DEF NoRepetition
  <2> QED BY <1>0, <1>1, <1>5
<1>12. ASSUME NEW i \in 1 .. n + 1
       PROVE  /\ nextFreeBlock'[queue'[i]] = IF i < n + 1 THEN queue'[i + 1] ELSE None
              /\ prevFreeBlock'[queue'[i]] = IF i > 1 THEN queue'[i - 1] ELSE None
  <2>1. CASE i = n + 1
    BY <2>1, <1>0, <1>3, <1>5, <1>9
  <2>2. CASE i # n + 1
    <3>1. i \in 1 .. n /\ queue'[i] = queue[i] /\ queue[i] \in Block /\ queue[i] # b /\ n # 0
      BY <2>2, <1>0, <1>1, <1>5
    <3>2. queue[i] = queue[n] <=> i = n BY <3>1, <1>0, <1>1
    <3>3. nextFreeBlock'[queue'[i]] = queue'[i + 1]
      <4>1. nextFreeBlock'[queue'[i]] = IF i = n THEN b ELSE nextFreeBlock[queue[i]]
        BY <3>1, <3>2, <1>9, Zenon
      <4>2. i # n => nextFreeBlock[queue[i]] = queue[i + 1] BY <3>1, <1>0, <1>2
      <4>3. i # n => queue'[i + 1] = queue[i + 1] BY <3>1, <1>0, <1>5
      <4> QED BY <4>1, <4>2, <4>3, <1>5, Zenon
    <3>4. prevFreeBlock'[queue'[i]] = IF i > 1 THEN queue'[i - 1] ELSE None
      <4>1. prevFreeBlock'[queue'[i]] = prevFreeBlock[queue[i]] BY <3>1, <1>9, Zenon
      <4>2. prevFreeBlock[queue[i]] = IF i > 1 THEN queue[i - 1] ELSE None BY <3>1, <1>2, Zenon
      <4>3. i > 1 => queue'[i - 1] = queue[i - 1] BY <3>1, <1>0, <1>5
      <4> QED BY <4>1, <4>2, <4>3, Zenon
    <3> QED BY <2>2, <3>3, <3>4, <1>0
  <2> QED BY <2>1, <2>2, Zenon
<1>13. ASSUME NEW c \in Block, ~IsFree(c)'
       PROVE  nextFreeBlock'[c] = None /\ prevFreeBlock'[c] = None
  <2>1. \A k \in 1 .. n + 1 : queue'[k] # c BY <1>5, <1>13, Zenon DEF IsFree
  <2>2. c # b /\ \A k \in 1 .. n : queue[k] # c BY <2>1, <1>0, <1>5
  <2>3. ~IsFree(c) BY <2>2, Zenon DEF IsFree, n
  <2>4. nextFreeBlock[c] = None /\ prevFreeBlock[c] = None
    BY <2>3, Zenon DEF QueueInv, LinksFollowQueue
  <2> QED BY <2>2, <2>4, <1>0, <1>9
<1>14. \A i \in 1 .. Len(queue') :
          /\ nextFreeBlock'[queue'[i]] = IF i < Len(queue') THEN queue'[i + 1] ELSE None
          /\ prevFreeBlock'[queue'[i]] = IF i > 1 THEN queue'[i - 1] ELSE None
  <2>1. Len(queue') = n + 1 BY <1>5, Zenon
  <2> QED BY <2>1, <1>12, Zenon
<1>15. /\ numFreeBlocks' = Len(queue')
       /\ freeListHead' = IF queue' = <<>> THEN None ELSE queue'[1]
       /\ freeListTail' = IF queue' = <<>> THEN None ELSE queue'[Len(queue')]
  BY <1>5, <1>6, <1>8, Zenon
<1>16. LinksFollowQueue'
  BY <1>11, <1>13, <1>14, <1>15, Zenon DEF LinksFollowQueue, Block, None
<1> QED BY <1>10, <1>16, Zenon DEF QueueInv

\* popleft, remove and append keep the linked list a queue without
\* repetitions, for every number of blocks and every order of calls.
THEOREM ListKeepsQueue == QueueSpec => []LinksFollowQueue
<1>1. QueueInit => QueueInv BY QueueInitInv, Zenon
<1>2. QueueInv /\ [QueueNext]_freeListVars => QueueInv'
  <2> SUFFICES ASSUME QueueInv, [QueueNext]_freeListVars PROVE QueueInv' BY Zenon
  <2>1. CASE PopLeft BY <2>1, RemovalInv, Zenon
  <2>2. CASE \E b \in Block : RemoveBlock(b) BY <2>2, RemovalInv, Zenon
  <2>3. CASE \E b \in Block : AppendBlock(b) BY <2>3, AppendInv, Zenon
  <2>4. CASE UNCHANGED freeListVars
    BY <2>4, Zenon DEF freeListVars, listVars, QueueInv, LinkTypes, LinksFollowQueue, NoRepetition, IsFree
  <2> QED BY <2>1, <2>2, <2>3, <2>4, Zenon DEF QueueNext
<1>3. QueueInv => LinksFollowQueue BY Zenon DEF QueueInv
<1> QED BY <1>1, <1>2, <1>3, PTL DEF QueueSpec

-----------------------------------------------------------------------------
(* The text of a request.  str.find is described by where a string matches *)
(* (FindLemma), check_stop_strings by the first match that the new token   *)
(* completes (CheckLemma), and the output by how much of the text it shows *)
(* (OutputLemma); StreamInv combines them.                                 *)

\* Texts with the same characters at the same places are the same.
LEMMA EqualLemma ==
    ASSUME NEW S, NEW s \in Seq(S), NEW t \in Seq(S), Len(s) = Len(t),
           \A i \in 1 .. Len(s) : s[i] = t[i]
    PROVE  s = t
OBVIOUS

\* A non-empty set of numbers has a least one.
LEMMA LeastExists ==
    ASSUME NEW T \in SUBSET Nat, T # {}
    PROVE  \E x \in T : \A y \in T : x <= y
<1>1. PICK x \in T : \A y \in T : ~(<<y, x>> \in OpToRel(<, Nat))
  BY NatLessThanWellFounded, WFMin, Zenon
<1>2. \A y \in T : x <= y
  <2> TAKE y \in T
  <2>1. x \in Nat /\ y \in Nat
    BY Zenon
  <2>2. ~(y < x)
    BY <1>1, <2>1, Zenon DEF OpToRel
  <2> QED  BY <2>1, <2>2
<1> QED  BY <1>2, Zenon

\* A bounded non-empty set of numbers has a greatest one.
LEMMA GreatestExists ==
    ASSUME NEW n \in Nat, NEW T \in SUBSET (0 .. n), T # {}
    PROVE  \E x \in T : \A y \in T : x >= y
<1> DEFINE U == {n - x : x \in T}
<1>1. U \in SUBSET Nat
  OBVIOUS
<1>2. U # {}
  <2>1. PICK x \in T : TRUE
    BY Zenon
  <2>2. n - x \in U
    BY <2>1, Zenon
  <2> QED  BY <2>2, Zenon
<1>3. PICK u \in U : \A v \in U : u <= v
  BY <1>1, <1>2, LeastExists, Zenon
<1>4. PICK x \in T : u = n - x
  BY <1>3, Zenon
<1>5. \A y \in T : n - x <= n - y
  BY <1>3, <1>4, Zenon
<1>6. \A y \in T : x >= y
  BY <1>5
<1> QED  BY <1>6, Zenon

\* The stop string `part` is in `text`, after its first k characters.
Match(text, part, k) ==
    /\ k \in Nat /\ k + Len(part) <= Len(text)
    /\ \A m \in 1 .. Len(part) : text[k + m] = part[m]

\* The comparison of str.find, character by character.
LEMMA CompareLemma ==
    ASSUME NEW text \in Seq(Chars), NEW part \in Seq(Chars), NEW k \in Nat,
           k + Len(part) <= Len(text)
    PROVE  SubSeq(text, k + 1, k + Len(part)) = part <=> Match(text, part, k)
<1> DEFINE n == Len(part)
           s == SubSeq(text, k + 1, k + n)
<1>1. /\ n \in Nat /\ s \in Seq(Chars) /\ Len(s) = n
      /\ \A m \in 1 .. n : s[m] = text[k + m]
  OBVIOUS
<1> HIDE DEF s
<1>2. ASSUME s = part PROVE Match(text, part, k)
  BY <1>1, <1>2, Zenon DEF Match
<1>3. ASSUME Match(text, part, k) PROVE s = part
  <2>1. \A m \in 1 .. n : s[m] = part[m]
    BY <1>1, <1>3, Zenon DEF Match
  <2> QED  BY <1>1, <2>1, EqualLemma, Zenon
<1> QED  BY <1>2, <1>3, Zenon DEF s

\* str.find returns the first match from its start on.
LEMMA FindLemma ==
    ASSUME NEW text \in Seq(Chars), NEW part \in Seq(Chars), NEW from \in Nat
    PROVE  LET p == Find(text, part, from)
           IN  \/ /\ p = -1
                  /\ \A k \in Nat : k >= from => ~Match(text, part, k)
               \/ /\ p \in Nat /\ p >= from /\ Match(text, part, p)
                  /\ \A k \in Nat : k >= from /\ k < p => ~Match(text, part, k)
<1> DEFINE at == {k \in from .. Len(text) - Len(part) :
                     SubSeq(text, k + 1, k + Len(part)) = part}
           p == IF at = {} THEN -1 ELSE CHOOSE k \in at : \A j \in at : k <= j
<1>1. \A k \in Nat : k \in at <=> k >= from /\ Match(text, part, k)
  <2> TAKE k \in Nat
  <2>1. CASE k + Len(part) <= Len(text)
    <3>1. SubSeq(text, k + 1, k + Len(part)) = part <=> Match(text, part, k)
      BY <2>1, CompareLemma, Zenon
    <3>2. k \in from .. Len(text) - Len(part) <=> k >= from
      BY <2>1
    <3> QED  BY <3>1, <3>2, Zenon
  <2>2. CASE ~(k + Len(part) <= Len(text))
    BY <2>2 DEF Match
  <2> QED  BY <2>1, <2>2, Zenon
<1>2. at \in SUBSET Nat
  OBVIOUS
<1> HIDE DEF at
<1>3. CASE at = {}
  BY <1>1, <1>3, Zenon DEF Find, at
<1>4. CASE at # {}
  <2>1. \E k \in at : \A j \in at : k <= j
    BY <1>2, <1>4, LeastExists, Zenon
  <2>2. p \in at /\ \A j \in at : p <= j
    BY <1>4, <2>1, Zenon
  <2>3. p = Find(text, part, from)
    BY Zenon DEF Find, at
  <2> HIDE DEF p
  <2>4. p \in Nat /\ p >= from /\ Match(text, part, p)
    BY <1>1, <1>2, <2>2, Zenon
  <2>5. \A k \in Nat : k >= from /\ k < p => ~Match(text, part, k)
    BY <1>1, <2>2, <2>4
  <2> QED  BY <2>3, <2>4, <2>5, Zenon
<1> QED  BY <1>3, <1>4, Zenon

\* A stop string matches in the old text exactly if it matches in the longer
\* one and ends in the old part.
LEMMA MatchInOld ==
    ASSUME NEW old \in Seq(Chars), NEW text \in Seq(Chars), NEW part \in Seq(Chars),
           Len(old) <= Len(text), \A m \in 1 .. Len(old) : text[m] = old[m],
           NEW k \in Nat, k + Len(part) <= Len(old)
    PROVE  Match(text, part, k) <=> Match(old, part, k)
<1>1. \A m \in 1 .. Len(part) : k + m \in 1 .. Len(old)
  OBVIOUS
<1>2. \A m \in 1 .. Len(part) : text[k + m] = old[k + m]
  BY <1>1, Zenon
<1>3. k + Len(part) <= Len(text)
  OBVIOUS
<1> QED  BY <1>2, <1>3, Zenon DEF Match

\* No stop string of the list is in the text.
NoneIn(stops, text) ==
    \A i \in 1 .. Len(stops) : \A k \in Nat : ~Match(text, stops[i], k)

\* A stop string that is in the new text but not in the old one matches where
\* check_stop_strings searches, and ends in the new part.
LEMMA SearchLemma ==
    ASSUME NEW old \in Seq(Chars), NEW text \in Seq(Chars), NEW part \in Seq(Chars),
           Len(old) <= Len(text), \A m \in 1 .. Len(old) : text[m] = old[m],
           \A k \in Nat : ~Match(old, part, k)
    PROVE  LET from == SearchFrom(text, Len(text) - Len(old), part)
           IN  /\ from \in Nat
               /\ \A k \in Nat : Match(text, part, k) =>
                        k >= from /\ k + Len(part) > Len(old)
<1> DEFINE from == SearchFrom(text, Len(text) - Len(old), part)
<1>1. from \in Nat /\ (from = 0 \/ from = Len(old) - Len(part))
  BY DEF SearchFrom
<1> HIDE DEF from
<1>2. \A k \in Nat : Match(text, part, k) => k + Len(part) > Len(old)
  <2> SUFFICES ASSUME NEW k \in Nat, Match(text, part, k), k + Len(part) <= Len(old)
               PROVE  FALSE
    OBVIOUS
  <2>1. Match(old, part, k)
    BY MatchInOld, Zenon
  <2> QED  BY <2>1, Zenon
<1> QED  BY <1>1, <1>2 DEF from

\* The answer c of check_stop_strings is for the i-th stop string after the
\* first p characters, where it ends in the new part; neither it nor one that is
\* listed before it is in the text any earlier.
FoundAt(c, old, text, stops, include, i, p) ==
    /\ Match(text, stops[i], p) /\ p + Len(stops[i]) > Len(old)
    /\ \A k \in Nat : k < p => ~Match(text, stops[i], k)
    /\ \A j \in 1 .. i - 1 : \A k \in Nat : ~Match(text, stops[j], k)
    /\ c = [index |-> i,
            truncateTo |-> IF ~include THEN p
                           ELSE IF p + Len(stops[i]) >= Len(text) THEN -1
                           ELSE p + Len(stops[i])]

\* check_stop_strings on a text whose old part has no stop string: it finds none
\* exactly if there is none, and otherwise the first of the list that is there,
\* where it is there first.
LEMMA CheckLemma ==
    ASSUME NEW old \in Seq(Chars), NEW text \in Seq(Chars),
           NEW stops \in Seq(Seq(Chars)), NEW include \in BOOLEAN,
           Len(old) <= Len(text), \A m \in 1 .. Len(old) : text[m] = old[m],
           NoneIn(stops, old)
    PROVE  LET c == CheckStopStrings(text, Len(text) - Len(old), stops, include)
           IN  \/ c = NoStop /\ NoneIn(stops, text)
               \/ \E i \in 1 .. Len(stops) : \E p \in Nat :
                        FoundAt(c, old, text, stops, include, i, p)
<1> DEFINE new == Len(text) - Len(old)
           Spot(i) == Find(text, stops[i], SearchFrom(text, new, stops[i]))
           found == {i \in 1 .. Len(stops) : Spot(i) # -1}
           first == CHOOSE i \in found : \A j \in found : i <= j
           end == Spot(first) + Len(stops[first])
           c == CheckStopStrings(text, new, stops, include)
<1>1. \A i \in 1 .. Len(stops) :
        \/ /\ Spot(i) = -1
           /\ \A k \in Nat : ~Match(text, stops[i], k)
        \/ /\ Spot(i) \in Nat /\ Match(text, stops[i], Spot(i))
           /\ Spot(i) + Len(stops[i]) > Len(old)
           /\ \A k \in Nat : k < Spot(i) => ~Match(text, stops[i], k)
  <2> TAKE i \in 1 .. Len(stops)
  <2> DEFINE from == SearchFrom(text, new, stops[i])
  <2>1. stops[i] \in Seq(Chars) /\ \A k \in Nat : ~Match(old, stops[i], k)
    BY DEF NoneIn
  <2>2. /\ from \in Nat
        /\ \A k \in Nat : Match(text, stops[i], k) =>
                k >= from /\ k + Len(stops[i]) > Len(old)
    BY <2>1, SearchLemma, Zenon
  <2> HIDE DEF from
  <2> DEFINE p == Find(text, stops[i], from)
  <2>3. \/ /\ p = -1
           /\ \A k \in Nat : k >= from => ~Match(text, stops[i], k)
        \/ /\ p \in Nat /\ p >= from /\ Match(text, stops[i], p)
           /\ \A k \in Nat : k >= from /\ k < p => ~Match(text, stops[i], k)
    BY <2>1, <2>2, FindLemma, Zenon
  <2>4. p = Spot(i)
    BY Zenon DEF from
  <2> HIDE DEF p, Spot
  <2> QED  BY <2>2, <2>3, <2>4, Zenon
<1>2. c = IF new = 0 \/ found = {} THEN NoStop
          ELSE [index |-> first,
                truncateTo |-> IF ~include THEN Spot(first)
                               ELSE IF end >= Len(text) THEN -1 ELSE end]
  BY Zenon DEF CheckStopStrings
<1>3. found \in SUBSET Nat /\ \A i \in found : i \in 1 .. Len(stops) /\ Spot(i) # -1
  OBVIOUS
<1>3a. \A i \in 1 .. Len(stops) : i \notin found => Spot(i) = -1
  BY Zenon
<1> HIDE DEF found, Spot, c
<1>4. CASE new = 0
  <2>1. text = old
    BY <1>4, EqualLemma
  <2> QED  BY <1>2, <1>4, <2>1, Zenon DEF c
<1>5. CASE found = {}
  <2>1. NoneIn(stops, text)
    BY <1>1, <1>3a, <1>5 DEF NoneIn
  <2> QED  BY <1>2, <1>5, <2>1, Zenon DEF c
<1>6. CASE new # 0 /\ found # {}
  <2>1. \E i \in found : \A j \in found : i <= j
    BY <1>3, <1>6, LeastExists, Zenon
  <2>2. first \in found /\ \A j \in found : first <= j
    BY <2>1, Zenon
  <2> HIDE DEF first
  <2>3. first \in 1 .. Len(stops) /\ Spot(first) # -1
    BY <1>3, <2>2, Zenon
  <2>4. /\ Spot(first) \in Nat /\ Match(text, stops[first], Spot(first))
        /\ Spot(first) + Len(stops[first]) > Len(old)
        /\ \A k \in Nat : k < Spot(first) => ~Match(text, stops[first], k)
    BY <1>1, <2>3, Zenon
  <2>5. \A j \in 1 .. first - 1 : \A k \in Nat : ~Match(text, stops[j], k)
    <3> TAKE j \in 1 .. first - 1
    <3>1. j \in 1 .. Len(stops) /\ ~(first <= j)
      BY <2>3
    <3>2. j \notin found
      BY <2>2, <3>1, Zenon
    <3>3. Spot(j) = -1
      BY <1>3a, <3>1, <3>2, Zenon
    <3>4. Spot(j) \notin Nat
      BY <3>3
    <3> QED  BY <1>1, <3>1, <3>4, Zenon
  <2>6. c = [index |-> first,
             truncateTo |-> IF ~include THEN Spot(first)
                            ELSE IF end >= Len(text) THEN -1 ELSE end]
    BY <1>2, <1>6, Zenon
  <2>7. FoundAt(c, old, text, stops, include, first, Spot(first))
    BY <2>4, <2>5, <2>6, Zenon DEF FoundAt
  <2> QED  BY <2>3, <2>4, <2>7, Zenon DEF c
<1> QED  BY <1>4, <1>5, <1>6, Zenon

\* Finitely many numbers have a bound.
LEMMA BoundExists ==
    ASSUME NEW n \in Nat, NEW f \in [1 .. n -> Nat]
    PROVE  \E b \in Nat : \A i \in 1 .. n : f[i] <= b
<1> DEFINE Bounded(m) == \E b \in Nat : \A i \in 1 .. m : f[i] <= b
           T == {m \in Nat : m <= n /\ ~Bounded(m)}
<1>1. SUFFICES ASSUME T # {} PROVE FALSE
  <2>1. n \in T \/ Bounded(n)
    BY n <= n, Zenon
  <2> QED  BY <2>1, Zenon
<1>2. PICK m \in T : \A k \in T : m <= k
  <2>1. T \in SUBSET Nat
    BY Zenon
  <2> QED  BY <1>1, <2>1, LeastExists, Zenon
<1>3. Bounded(0)
  <2>1. 0 \in Nat /\ \A i \in 1 .. 0 : f[i] <= 0
    OBVIOUS
  <2> QED  BY <2>1, Zenon
<1> HIDE DEF Bounded
<1>4. m \in Nat /\ m <= n /\ ~Bounded(m)
  BY <1>2, Zenon
<1>5. m # 0
  BY <1>3, <1>4, Zenon
<1>6. m - 1 \notin T /\ m - 1 \in Nat /\ m - 1 <= n
  BY <1>2, <1>4, <1>5
<1>7. PICK b \in Nat : \A i \in 1 .. m - 1 : f[i] <= b
  <2>1. Bounded(m - 1)
    BY <1>6, Zenon
  <2> QED  BY <2>1, Zenon DEF Bounded
<1>8. f[m] \in Nat
  BY <1>4, <1>5
<1>9. f[m] + b \in Nat /\ \A i \in 1 .. m : f[i] <= f[m] + b
  BY <1>4, <1>7, <1>8
<1>10. Bounded(m)
  BY <1>9, Zenon DEF Bounded
<1> QED  BY <1>4, <1>10, Zenon

\* stop_buffer_length: a character less than the longest stop string that is to
\* be excluded.
LEMMA BufferLemma ==
    ASSUME NEW stops \in Seq(Seq(Chars) \ {<<>>}), NEW include \in BOOLEAN
    PROVE  LET n == StopBufferLength(stops, include)
           IN  /\ n \in Nat
               /\ include => n = 0
               /\ ~include => \A i \in 1 .. Len(stops) : Len(stops[i]) <= n + 1
<1> DEFINE L == {Len(stops[i]) : i \in 1 .. Len(stops)}
           n == StopBufferLength(stops, include)
           most == CHOOSE x \in L : \A i \in 1 .. Len(stops) : x >= Len(stops[i])
<1>1. \A i \in 1 .. Len(stops) : Len(stops[i]) \in Nat /\ Len(stops[i]) >= 1
  <2> TAKE i \in 1 .. Len(stops)
  <2>1. stops[i] \in Seq(Chars) /\ stops[i] # <<>>
    OBVIOUS
  <2> QED  BY <2>1
<1>2. CASE stops # <<>> /\ ~include
  <2>1. PICK b \in Nat : \A i \in 1 .. Len(stops) : Len(stops[i]) <= b
    <3> DEFINE f == [i \in 1 .. Len(stops) |-> Len(stops[i])]
    <3>1. Len(stops) \in Nat /\ f \in [1 .. Len(stops) -> Nat]
      BY <1>1
    <3>2. \E b \in Nat : \A i \in 1 .. Len(stops) : f[i] <= b
      BY <3>1, BoundExists, Zenon
    <3>3. \A i \in 1 .. Len(stops) : f[i] = Len(stops[i])
      BY Zenon
    <3> HIDE DEF f
    <3> QED  BY <3>2, <3>3, Zenon
  <2>2. L \in SUBSET (0 .. b) /\ L # {}
    <3>1. 1 \in 1 .. Len(stops)
      BY <1>2
    <3>2. Len(stops[1]) \in L
      BY <3>1, Zenon
    <3>3. \A i \in 1 .. Len(stops) : Len(stops[i]) \in 0 .. b
      BY <1>1, <2>1
    <3>4. \A x \in L : x \in 0 .. b
      BY <3>3, Zenon
    <3> QED  BY <3>2, <3>4, Zenon
  <2>3. PICK x \in L : \A y \in L : x >= y
    BY <2>2, GreatestExists, Zenon
  <2>4. \E z \in L : \A i \in 1 .. Len(stops) : z >= Len(stops[i])
    BY <2>3, Zenon
  <2>5. most \in L /\ \A i \in 1 .. Len(stops) : most >= Len(stops[i])
    BY <2>4, Zenon
  <2> HIDE DEF most
  <2>6. most \in Nat /\ most >= 1
    BY <1>1, <2>5, Zenon
  <2>7. n = most - 1
    BY <1>2, Zenon DEF StopBufferLength, most
  <2> HIDE DEF n
  <2>8. n \in Nat /\ \A i \in 1 .. Len(stops) : Len(stops[i]) <= n + 1
    BY <1>1, <2>5, <2>6, <2>7
  <2> QED  BY <1>2, <2>8, Zenon DEF n
<1>3. CASE ~(stops # <<>> /\ ~include)
  <2>1. n = 0
    BY <1>3, Zenon DEF StopBufferLength
  <2>2. ~include => stops = <<>>
    BY <1>3, Zenon
  <2> HIDE DEF n
  <2>3. ~include => Len(stops) = 0
    BY <2>2
  <2> QED  BY <2>1, <2>3 DEF n
<1> QED  BY <1>2, <1>3, Zenon

\* s is a beginning of t, character by character.
Starts(s, t) ==
    /\ Len(s) <= Len(t)
    /\ \A m \in 1 .. Len(s) : s[m] = t[m]

\* A beginning of n characters.
LEMMA CutLemma ==
    ASSUME NEW t \in Seq(Chars), NEW n \in Int, n <= Len(t)
    PROVE  /\ SubSeq(t, 1, n) \in Seq(Chars)
           /\ Len(SubSeq(t, 1, n)) = IF n > 0 THEN n ELSE 0
           /\ Starts(SubSeq(t, 1, n), t)
<1>1. CASE n > 0
  BY <1>1 DEF Starts
<1>2. CASE ~(n > 0)
  <2>1. SubSeq(t, 1, n) = <<>>
    BY <1>2
  <2> QED  BY <1>2, <2>1 DEF Starts
<1> QED  BY <1>1, <1>2, Zenon

\* Begins compares character by character.
LEMMA BeginsLemma ==
    ASSUME NEW s \in Seq(Chars), NEW t \in Seq(Chars)
    PROVE  Begins(s, t) <=> Starts(s, t)
<1>1. ASSUME Begins(s, t) PROVE Starts(s, t)
  <2>1. PICK n \in 0 .. Len(t) : s = SubSeq(t, 1, n)
    BY <1>1, Zenon DEF Begins
  <2> QED  BY <2>1, CutLemma
<1>2. ASSUME Starts(s, t) PROVE Begins(s, t)
  <2> DEFINE n == Len(s)
             u == SubSeq(t, 1, n)
  <2>1. n \in 0 .. Len(t)
    BY <1>2 DEF Starts
  <2>2. u \in Seq(Chars) /\ Len(u) = n /\ Starts(u, t)
    BY <2>1, CutLemma
  <2> HIDE DEF u
  <2>3. \A m \in 1 .. n : s[m] = u[m]
    BY <1>2, <2>1, <2>2, Zenon DEF Starts
  <2>4. s = u
    BY <2>2, <2>3, EqualLemma, Zenon
  <2> QED  BY <2>1, <2>4, Zenon DEF Begins, u
<1> QED  BY <1>1, <1>2, Zenon

\* The next delta continues what has been shown.
LEMMA JoinLemma ==
    ASSUME NEW s \in Seq(Chars), NEW t \in Seq(Chars), Starts(s, t),
           NEW n \in Nat, Len(s) < n, n <= Len(t)
    PROVE  LET j == s \o SubSeq(t, Len(s) + 1, n)
           IN  j \in Seq(Chars) /\ Len(j) = n /\ Starts(j, t)
<1> DEFINE u == SubSeq(t, Len(s) + 1, n)
           j == s \o u
<1>1. /\ u \in Seq(Chars) /\ Len(u) = n - Len(s)
      /\ \A m \in 1 .. n - Len(s) : u[m] = t[Len(s) + m]
  BY DEF Starts
<1> HIDE DEF u
<1>2. j \in Seq(Chars) /\ Len(j) = n
  BY <1>1
<1>3. ASSUME NEW m \in 1 .. n PROVE j[m] = t[m]
  <2>1. CASE m <= Len(s)
    <3>1. j[m] = s[m] /\ m \in 1 .. Len(s)
      BY <1>1, <2>1
    <3> QED  BY <3>1, Zenon DEF Starts
  <2>2. CASE m > Len(s)
    <3>1. j[m] = u[m - Len(s)] /\ m - Len(s) \in 1 .. n - Len(s)
      BY <1>1, <2>2
    <3>2. u[m - Len(s)] = t[Len(s) + (m - Len(s))]
      BY <1>1, <3>1, Zenon
    <3> QED  BY <3>1, <3>2
  <2>3. m <= Len(s) \/ m > Len(s)
    OBVIOUS
  <2> QED  BY <2>1, <2>2, <2>3, Zenon
<1> HIDE DEF j
<1>4. Starts(j, t)
  BY <1>2, <1>3, Zenon DEF Starts
<1> QED  BY <1>2, <1>4, Zenon DEF j, u

\* The number of characters to show of a text of n characters.
ToShow(n, hold) == IF n > hold THEN n - hold ELSE 0

\* What a caller has seen after an output.
Seen(out, kind, before) ==
    IF ~out.hasOutput THEN before
    ELSE IF kind = "DELTA" THEN before \o out.text
    ELSE out.text

\* A detokenizer whose offset has moved.
Moved(d, o) == [d EXCEPT !.offset = o]

\* What an output shows: as much of the text as may be, all of it at the end.
Shows(out, d, p, ef, before) ==
    LET seen == Seen(out, p.kind, before)
        finished == ef \/ d.stop # 0
    IN  /\ out.finished = finished
        /\ \E o \in Nat : /\ out.detokenizer = Moved(d, o)
                          /\ p.kind = "DELTA" => o = Len(seen)
        /\ seen \in Seq(Chars) /\ Starts(seen, d.text) /\ Len(before) <= Len(seen)
        /\ Len(seen) = IF finished THEN Len(d.text)
                       ELSE IF p.kind = "FINAL_ONLY" THEN 0
                       ELSE ToShow(Len(d.text), StopBufferLength(p.stops, p.include))

\* What has been shown before is no more than that.
MayShow(kind, text, before, held) ==
    IF kind = "FINAL_ONLY" THEN before = <<>> ELSE Len(before) <= ToShow(Len(text), held)

\* The parts of a detokenizer and of the parameters of a request.
IsDetok(d, text, tokens, offset, stop) ==
    d = [text |-> text, tokens |-> tokens, offset |-> offset, stop |-> stop]
IsParams(p, stops, include, kind) ==
    p = [stops |-> stops, include |-> include, kind |-> kind]

\* A detokenizer after a token, whose caller has seen `before`.
AfterToken(d, p, ef, before) ==
    /\ p.stops \in Seq(Seq(Chars) \ {<<>>}) /\ p.include \in BOOLEAN /\ p.kind \in Kinds
    /\ IsParams(p, p.stops, p.include, p.kind)
    /\ d.text \in Seq(Chars) /\ d.offset \in Nat /\ d.stop \in Nat
    /\ IsDetok(d, d.text, d.tokens, d.offset, d.stop)
    /\ ef \in BOOLEAN /\ before \in Seq(Chars) /\ Starts(before, d.text)
    /\ p.kind = "DELTA" => d.offset = Len(before)
    /\ ~(ef \/ d.stop # 0) =>
          MayShow(p.kind, d.text, before, StopBufferLength(p.stops, p.include))

\* Moving the offset changes nothing else.
LEMMA MovedOffset ==
    ASSUME NEW text, NEW tokens, NEW offset, NEW stop, NEW o, NEW d,
           IsDetok(d, text, tokens, offset, stop)
    PROVE  IsDetok(Moved(d, o), text, tokens, o, stop)
BY DEF Moved, IsDetok

\* The output of update_from_output: as much of the text is shown as may be,
\* and a delta starts where the last one ended.
LEMMA OutputLemma ==
    ASSUME NEW d, NEW p, NEW ef, NEW before, AfterToken(d, p, ef, before)
    PROVE  Shows(DetokenizerOutput(d, ef, p), d, p, ef, before)
<1> DEFINE stops == p.stops
           include == p.include
           kind == p.kind
           text == d.text
           offset == d.offset
           stop == d.stop
           held == StopBufferLength(stops, include)
           fin == ef \/ stop # 0
           b == IF fin THEN 0 ELSE held
           next == NextOutputText(d, b, kind = "DELTA")
           out == DetokenizerOutput(d, ef, p)
           seen == Seen(out, kind, before)
           length == Len(text) - b
<1>0. /\ stops \in Seq(Seq(Chars) \ {<<>>}) /\ include \in BOOLEAN /\ kind \in Kinds
      /\ text \in Seq(Chars) /\ offset \in Nat /\ stop \in Nat
      /\ fin \in BOOLEAN /\ before \in Seq(Chars) /\ Starts(before, text)
      /\ kind = "DELTA" => offset = Len(before)
      /\ ~fin => MayShow(kind, text, before, held)
  BY Zenon DEF AfterToken
<1>1. held \in Nat
  BY <1>0, BufferLemma, Zenon
<1>2. b \in Nat
  BY <1>1, Zenon
<1>3. /\ out.finished = fin
      /\ out.hasOutput = (kind # "FINAL_ONLY" \/ fin)
      /\ out.text = next.text
      /\ out.detokenizer = IF kind # "FINAL_ONLY" \/ fin
                           THEN Moved(d, next.offset) ELSE d
  BY Zenon DEF DetokenizerOutput, Moved
<1>5. d = Moved(d, offset)
  <2>1. IsDetok(d, d.text, d.tokens, d.offset, d.stop)
    BY Zenon DEF AfterToken
  <2> QED  BY ONLY <2>1, Zenon DEF Moved, IsDetok
<1>6. next = IF kind # "DELTA" THEN [text |-> SubSeq(text, 1, length), offset |-> offset]
             ELSE IF offset < length
             THEN [text |-> SubSeq(text, offset + 1, length), offset |-> length]
             ELSE [text |-> <<>>, offset |-> offset]
  BY Zenon DEF NextOutputText
<1> HIDE DEF stops, include, kind, text, offset, stop, held, fin, AfterToken
<1> USE <1>0
<1> HIDE DEF b, next, out
<1>7. length \in Int /\ length <= Len(text)
  BY <1>2
<1> DEFINE aim == IF fin THEN Len(text) ELSE ToShow(Len(text), held)
<1>8. aim = (IF length > 0 THEN length ELSE 0) /\ aim \in Nat
  BY <1>1, <1>2 DEF b, ToShow
<1>9. kind # "FINAL_ONLY" \/ fin => Len(before) <= aim
  BY Zenon DEF Starts, MayShow
<1> HIDE DEF aim
<1> DEFINE Goal == /\ out.finished = fin
                   /\ \E o \in Nat : /\ out.detokenizer = Moved(d, o)
                                     /\ kind = "DELTA" => o = Len(seen)
                   /\ seen \in Seq(Chars) /\ Starts(seen, text) /\ Len(before) <= Len(seen)
                   /\ Len(seen) = IF fin THEN Len(text)
                                  ELSE IF kind = "FINAL_ONLY" THEN 0 ELSE ToShow(Len(text), held)
<1>10. ASSUME ~(kind # "FINAL_ONLY" \/ fin) PROVE Goal
  <2>1. seen = before
    BY <1>3, <1>10, Zenon DEF Seen
  <2>2. before = <<>>
    BY <1>10, Zenon DEF MayShow
  <2>3. out.detokenizer = Moved(d, offset)
    BY <1>3, <1>5, <1>10, Zenon
  <2> HIDE DEF seen
  <2>4. /\ seen \in Seq(Chars) /\ Len(seen) = 0 /\ Starts(seen, text)
        /\ Len(before) <= Len(seen)
    BY <2>1, <2>2 DEF Starts
  <2>5. kind # "DELTA" /\ kind = "FINAL_ONLY" /\ ~fin
    BY <1>10, Zenon
  <2> QED  BY <1>3, <2>3, <2>4, <2>5, Zenon
<1>11. ASSUME (kind # "FINAL_ONLY" \/ fin) /\ kind # "DELTA" PROVE Goal
  <2>1. next.text = SubSeq(text, 1, length) /\ next.offset = offset
    BY <1>6, <1>11, Zenon
  <2>2. seen = SubSeq(text, 1, length)
    BY <1>3, <1>11, <2>1, Zenon DEF Seen
  <2>3. out.detokenizer = Moved(d, offset)
    BY <1>3, <1>11, <2>1, Zenon
  <2> HIDE DEF seen
  <2>4. seen \in Seq(Chars) /\ Starts(seen, text) /\ Len(seen) = aim
    BY <1>7, <1>8, <2>2, CutLemma, Zenon
  <2>5. Len(before) <= Len(seen)
    BY <1>9, <1>11, <2>4, Zenon
  <2> QED  BY <1>3, <1>11, <2>3, <2>4, <2>5, Zenon DEF aim
<1>12. ASSUME kind = "DELTA" PROVE Goal
  <2>0. out.hasOutput /\ offset = Len(before)
    BY <1>3, <1>12, Zenon
  <2>1. seen = before \o next.text
    BY <1>3, <1>12, <2>0, Zenon DEF Seen
  <2>2. out.detokenizer = Moved(d, next.offset)
    BY <1>3, <1>12, Zenon
  <2> HIDE DEF seen
  <2>3. /\ seen \in Seq(Chars) /\ Starts(seen, text) /\ Len(seen) = aim
        /\ next.offset = Len(seen)
    <3>1. CASE offset < length
      <4>1. next.text = SubSeq(text, Len(before) + 1, length) /\ next.offset = length
        BY <1>6, <1>12, <2>0, <3>1, Zenon
      <4>2. length \in Nat /\ Len(before) < length /\ aim = length
        BY <1>7, <1>8, <2>0, <3>1
      <4> QED  BY <1>7, <2>1, <4>1, <4>2, JoinLemma
    <3>2. CASE ~(offset < length)
      <4>1. next.text = <<>> /\ next.offset = offset
        BY <1>6, <1>12, <3>2, Zenon
      <4>2. seen = before
        BY <2>1, <4>1
      <4>3. Len(before) = aim
        BY <1>7, <1>8, <1>9, <1>12, <2>0, <3>2
      <4> QED  BY <2>0, <4>1, <4>2, <4>3, Zenon
    <3> QED  BY <3>1, <3>2, Zenon
  <2>4. Len(before) <= Len(seen) /\ next.offset \in Nat
    BY <1>8, <1>9, <1>12, <2>3, Zenon
  <2> QED  BY <1>3, <1>12, <2>2, <2>3, <2>4, Zenon DEF aim
<1>13. Goal
  BY <1>10, <1>11, <1>12, Zenon
<1> QED  BY <1>13, Zenon DEF Shows, stops, include, kind, text, stop, held, fin, out

\* A stop string is nowhere in the text for str.find exactly if it matches
\* nowhere.
LEMMA OccursLemma ==
    ASSUME NEW text \in Seq(Chars), NEW part \in Seq(Chars)
    PROVE  Occurs(part, text) <=> \E k \in Nat : Match(text, part, k)
<1> DEFINE p == Find(text, part, 0)
<1>1. \/ /\ p = -1
         /\ \A k \in Nat : k >= 0 => ~Match(text, part, k)
      \/ /\ p \in Nat /\ p >= 0 /\ Match(text, part, p)
         /\ \A k \in Nat : k >= 0 /\ k < p => ~Match(text, part, k)
  BY FindLemma, Zenon
<1>2. Occurs(part, text) <=> p # -1
  BY Zenon DEF Occurs
<1> HIDE DEF p
<1> QED  BY <1>1, <1>2

\* What a stop string that was found leaves of the text.
StopEnds(text, stops, i, include) ==
    LET n == Len(text) - Len(stops[i])
    IN  IF include
        THEN /\ n \in Nat /\ Match(text, stops[i], n)
             /\ \A k \in Nat : k < n => ~Match(text, stops[i], k)
        ELSE \A j \in 1 .. i : \A k \in Nat : ~Match(text, stops[j], k)

\* The types of the stream.
StreamTypes ==
    /\ params \in [stops : StopLists, include : BOOLEAN, kind : Kinds]
    /\ detok = [text |-> detok.text, tokens |-> detok.tokens, offset |-> detok.offset,
                stop |-> detok.stop]
    /\ detok.text \in Seq(Chars) /\ detok.offset \in Nat
    /\ detok.stop \in 0 .. Len(params.stops)
    /\ shown \in Seq(Chars) /\ allText \in Seq(Chars) /\ isFinished \in BOOLEAN

\* How much of the text has been shown while the request runs.
ShownLength ==
    IF params.kind = "FINAL_ONLY" THEN 0
    ELSE ToShow(Len(allText), StopBufferLength(params.stops, params.include))

\* The inductive invariant: until a stop string is found the text is that of
\* all tokens and has none, and all of it is shown but what is held back.
StreamInv ==
    /\ StreamTypes
    /\ ~isFinished => /\ detok.stop = 0 /\ Len(shown) = ShownLength
                      /\ params.kind = "DELTA" => detok.offset = Len(shown)
    /\ detok.stop = 0 => detok.text = allText /\ NoneIn(params.stops, allText)
    /\ detok.stop # 0 =>
            StopEnds(detok.text, params.stops, detok.stop, params.include)
    /\ Starts(detok.text, allText) /\ Starts(shown, detok.text)
    /\ isFinished => shown = detok.text

\* The parameters are those of a request.
LEMMA ParamsLemma ==
    ASSUME params \in [stops : StopLists, include : BOOLEAN, kind : Kinds]
    PROVE  /\ params.stops \in Seq(Seq(Chars) \ {<<>>}) /\ params.stops \in Seq(Seq(Chars))
           /\ params.include \in BOOLEAN /\ params.kind \in Kinds
           /\ params = [stops |-> params.stops, include |-> params.include,
                        kind |-> params.kind]
           /\ \A i \in 1 .. Len(params.stops) :
                 params.stops[i] \in Seq(Chars) /\ Len(params.stops[i]) >= 1
<1>1. params.stops \in Seq(Seq(Chars) \ {<<>>})
  BY StreamAssumption, Zenon
<1>2. params.stops \in Seq(Seq(Chars))
  BY <1>1
<1>3. \A i \in 1 .. Len(params.stops) :
        params.stops[i] \in Seq(Chars) /\ params.stops[i] # <<>>
  BY <1>1
<1>4. \A u \in Seq(Chars) : u # <<>> => Len(u) >= 1
  OBVIOUS
<1> QED  BY <1>1, <1>2, <1>3, <1>4, Zenon

\* The invariant holds of a new request.
LEMMA StreamInit == DetokInit => StreamInv
<1> SUFFICES ASSUME DetokInit PROVE StreamInv
  BY Zenon
<1> USE DEF DetokInit
<1>1. /\ detok.text = <<>> /\ detok.offset = 0 /\ detok.stop = 0 /\ shown = <<>>
      /\ allText = <<>> /\ isFinished = FALSE
  BY Zenon DEF NewDetokenizer
<1>2. StreamTypes
  <2>1. Len(params.stops) \in Nat
    BY ParamsLemma
  <2>2. detok = [text |-> detok.text, tokens |-> detok.tokens, offset |-> detok.offset,
                 stop |-> detok.stop]
    BY Zenon DEF NewDetokenizer
  <2>3. /\ detok.text \in Seq(Chars) /\ detok.offset \in Nat
        /\ detok.stop \in 0 .. Len(params.stops)
        /\ shown \in Seq(Chars) /\ allText \in Seq(Chars)
    BY <1>1, <2>1
  <2> HIDE DEF DetokInit
  <2>4. params \in [stops : StopLists, include : BOOLEAN, kind : Kinds]
    BY Zenon DEF DetokInit
  <2> QED  BY <1>1, <2>2, <2>3, <2>4, Zenon DEF StreamTypes
<1>3. NoneIn(params.stops, allText)
  <2> SUFFICES ASSUME NEW i \in 1 .. Len(params.stops), NEW k \in Nat
               PROVE  ~Match(allText, params.stops[i], k)
    BY Zenon DEF NoneIn
  <2>1. Len(params.stops[i]) >= 1 /\ Len(params.stops[i]) \in Nat
    BY ParamsLemma
  <2>2. Len(allText) = 0
    BY <1>1, Zenon
  <2> QED  BY <2>1, <2>2 DEF Match
<1>4. Len(shown) = ShownLength
  <2>1. StopBufferLength(params.stops, params.include) \in Nat
    BY ParamsLemma, BufferLemma, Zenon
  <2> QED  BY <1>1, <2>1 DEF ShownLength, ToShow
<1> QED  BY <1>1, <1>2, <1>3, <1>4 DEF StreamInv, Starts

\* The properties follow.
LEMMA StreamProperties == StreamInv => ShownIsText /\ StopStringEndsText
<1> SUFFICES ASSUME StreamInv PROVE ShownIsText /\ StopStringEndsText
  BY Zenon
<1> DEFINE stops == params.stops
           text == detok.text
           st == detok.stop
<1>0. StreamTypes /\ text \in Seq(Chars) /\ allText \in Seq(Chars) /\ shown \in Seq(Chars)
  BY Zenon DEF StreamInv, StreamTypes
<1>1. st \in 0 .. Len(stops)
  BY Zenon DEF StreamInv, StreamTypes
<1>2. /\ \A i \in 1 .. Len(stops) : stops[i] \in Seq(Chars) /\ Len(stops[i]) >= 1
      /\ params.include \in BOOLEAN
  BY <1>0, ParamsLemma, Zenon DEF StreamTypes
<1>3. ShownIsText
  BY <1>0, BeginsLemma, Zenon DEF StreamInv, ShownIsText
<1>4. ASSUME st = 0, NEW i \in 1 .. Len(stops) PROVE ~Occurs(stops[i], allText)
  <2>1. \A k \in Nat : ~Match(allText, stops[i], k)
    BY <1>4, Zenon DEF StreamInv, NoneIn
  <2> QED  BY <1>0, <1>2, <2>1, OccursLemma, Zenon
<1>5. ASSUME st # 0, ~params.include, NEW i \in 1 .. st PROVE ~Occurs(stops[i], text)
  <2>1. \A k \in Nat : ~Match(text, stops[i], k)
    BY <1>5, Zenon DEF StreamInv, StopEnds
  <2>2. i \in 1 .. Len(stops)
    BY <1>1
  <2> QED  BY <1>0, <1>2, <2>1, <2>2, OccursLemma, Zenon
<1>6. ASSUME st # 0, params.include
      PROVE  /\ Len(stops[st]) <= Len(text)
             /\ Find(text, stops[st], 0) = Len(text) - Len(stops[st])
  <2> DEFINE part == stops[st]
             n == Len(text) - Len(part)
             p == Find(text, part, 0)
  <2>1. part \in Seq(Chars)
    BY <1>1, <1>2, <1>6
  <2>2. /\ n \in Nat /\ Match(text, part, n)
        /\ \A k \in Nat : k < n => ~Match(text, part, k)
    BY <1>6, Zenon DEF StreamInv, StopEnds
  <2>3. \/ /\ p = -1
           /\ \A k \in Nat : k >= 0 => ~Match(text, part, k)
        \/ /\ p \in Nat /\ p >= 0 /\ Match(text, part, p)
           /\ \A k \in Nat : k >= 0 /\ k < p => ~Match(text, part, k)
    BY <1>0, <2>1, FindLemma, Zenon
  <2>4. p = n
    <3> HIDE DEF p, n
    <3> QED  BY <2>2, <2>3
  <2>5. Len(part) <= Len(text)
    <3>1. Len(part) \in Nat /\ Len(text) \in Nat
      BY <1>0, <2>1
    <3> QED  BY <2>2, <3>1
  <2> QED  BY <2>4, <2>5, Zenon
<1>7. StopStringEndsText
  BY <1>4, <1>5, <1>6, Zenon DEF StopStringEndsText
<1> QED  BY <1>3, <1>7, Zenon

\* One token: what is left of the text is a beginning of the old text and the
\* new piece, and no shorter than what has been shown.
LEMMA TokenLemma ==
    ASSUME StreamInv, ~isFinished, NEW piece \in Pieces
    PROVE  LET d == Detokenized(detok, piece, piece, params)
               full == allText \o piece
           IN  /\ full \in Seq(Chars) /\ d.text \in Seq(Chars)
               /\ d = [text |-> d.text, tokens |-> Append(detok.tokens, piece),
                       offset |-> detok.offset, stop |-> d.stop]
               /\ d.stop \in 0 .. Len(params.stops)
               /\ Starts(d.text, full) /\ Starts(shown, d.text)
               /\ d.stop = 0 => d.text = full /\ NoneIn(params.stops, full)
               /\ d.stop # 0 => StopEnds(d.text, params.stops, d.stop, params.include)
               /\ Len(allText) <= Len(full)
<1> DEFINE d == Detokenized(detok, piece, piece, params)
           old == allText
           full == allText \o piece
           stops == params.stops
           include == params.include
           held == StopBufferLength(stops, include)
           c == CheckStopStrings(full, Len(full) - Len(old), stops, include)
<1>0. StreamTypes /\ old \in Seq(Chars) /\ detok.text = old /\ shown \in Seq(Chars)
  BY Zenon DEF StreamInv, StreamTypes
<1>1. piece \in Seq(Chars)
  BY StreamAssumption, Zenon
<1>2. /\ full \in Seq(Chars) /\ Len(full) = Len(old) + Len(piece)
      /\ \A m \in 1 .. Len(old) : full[m] = old[m]
  BY <1>0, <1>1
<1>3. /\ stops \in Seq(Seq(Chars) \ {<<>>}) /\ stops \in Seq(Seq(Chars)) /\ include \in BOOLEAN
      /\ \A i \in 1 .. Len(stops) : stops[i] \in Seq(Chars) /\ Len(stops[i]) >= 1
      /\ params.kind \in Kinds
  BY <1>0, ParamsLemma, Zenon DEF StreamTypes
<1>4. /\ NoneIn(stops, old) /\ Len(shown) = ShownLength /\ Starts(shown, old)
  BY <1>0, Zenon DEF StreamInv
<1>5. /\ Len(old) \in Nat /\ Len(piece) \in Nat /\ Len(old) <= Len(full)
      /\ Len(full) - Len(old) = Len(piece)
  BY <1>0, <1>1, <1>2
<1>6. d = [text |-> IF c.truncateTo = -1 THEN full ELSE SubSeq(full, 1, c.truncateTo),
           tokens |-> Append(detok.tokens, piece), offset |-> detok.offset,
           stop |-> c.index]
  BY <1>0, <1>5, Zenon DEF Detokenized
<1> HIDE DEF d, full, c
<1>7. \/ c = NoStop /\ NoneIn(stops, full)
      \/ \E i \in 1 .. Len(stops) : \E p \in Nat :
            FoundAt(c, old, full, stops, include, i, p)
  <2>1. /\ old \in Seq(Chars) /\ full \in Seq(Chars) /\ stops \in Seq(Seq(Chars))
        /\ include \in BOOLEAN /\ Len(old) <= Len(full)
        /\ \A m \in 1 .. Len(old) : full[m] = old[m]
        /\ NoneIn(stops, old)
    BY <1>0, <1>2, <1>3, <1>4, <1>5, Zenon
  <2> HIDE DEF old, stops, include
  <2> QED  BY <2>1, CheckLemma, Zenon DEF c
<1>8. Starts(shown, full)
  <2>1. \A m \in 1 .. Len(shown) : m \in 1 .. Len(old) /\ shown[m] = old[m]
    BY <1>0, <1>4 DEF Starts
  <2> QED  BY <1>0, <1>2, <1>4, <1>5, <2>1 DEF Starts
<1>9. CASE c = NoStop /\ NoneIn(stops, full)
  <2>1. c.index = 0 /\ c.truncateTo = -1
    BY <1>9, Zenon DEF NoStop
  <2>2. d.text = full /\ d.stop = 0
    BY <1>6, <2>1, Zenon
  <2>3. Starts(full, full)
    BY <1>2 DEF Starts
  <2>4. 0 \in 0 .. Len(stops)
    BY <1>3
  <2>5. d = [text |-> d.text, tokens |-> Append(detok.tokens, piece),
             offset |-> detok.offset, stop |-> d.stop]
    BY <1>6, <2>1, <2>2, Zenon
  <2> HIDE DEF d
  <2> QED  BY <1>2, <1>5, <1>8, <1>9, <2>2, <2>3, <2>4, <2>5, Zenon DEF d, full
<1>10. CASE ~(c = NoStop /\ NoneIn(stops, full))
  <2>0. PICK i \in 1 .. Len(stops), p \in Nat : FoundAt(c, old, full, stops, include, i, p)
    BY <1>7, <1>10, Zenon
  <2>1. /\ Match(full, stops[i], p) /\ p + Len(stops[i]) > Len(old)
        /\ \A k \in Nat : k < p => ~Match(full, stops[i], k)
        /\ \A j \in 1 .. i - 1 : \A k \in Nat : ~Match(full, stops[j], k)
        /\ c = [index |-> i,
                truncateTo |-> IF ~include THEN p
                               ELSE IF p + Len(stops[i]) >= Len(full) THEN -1
                               ELSE p + Len(stops[i])]
    BY <2>0, Zenon DEF FoundAt
  <2> DEFINE l == Len(stops[i])
             e == IF include THEN p + l ELSE p
  <2>2. stops[i] \in Seq(Chars) /\ l \in Nat /\ l >= 1 /\ p + l <= Len(full)
    BY <1>3, <2>1 DEF Match
  <2> HIDE DEF l
  <2>3. e \in Nat /\ e <= Len(full)
    BY <1>2, <2>2
  <2>4. d.stop = i /\ d.text = SubSeq(full, 1, e)
    <3>1. d.stop = i
      BY <1>6, <2>1, Zenon
    <3>2. CASE ~include
      <4>1. c.truncateTo = p /\ p # -1
        BY <2>1, <3>2
      <4> QED  BY <1>6, <3>1, <3>2, <4>1, Zenon
    <3>3. CASE include /\ p + l >= Len(full)
      <4>0. c = [index |-> i, truncateTo |-> -1] /\ e = p + l
        BY <2>1, <3>3, Zenon DEF l
      <4>1. c.truncateTo = -1 /\ e = Len(full)
        <5>1. p + l >= Len(full)
          BY <3>3, Zenon
        <5> HIDE DEF e
        <5> QED  BY <1>2, <2>2, <4>0, <5>1
      <4>2. d.text = full /\ SubSeq(full, 1, Len(full)) = full
        BY <1>2, <1>6, <4>1
      <4> QED  BY <3>1, <4>1, <4>2, Zenon
    <3>4. CASE include /\ ~(p + l >= Len(full))
      <4>0. c = [index |-> i, truncateTo |-> p + l] /\ e = p + l
        BY <2>1, <3>4, Zenon DEF l
      <4>1. c.truncateTo = p + l /\ p + l # -1
        BY <2>2, <4>0
      <4>2. d.text = SubSeq(full, 1, p + l)
        BY <1>6, <4>1, Zenon
      <4> QED  BY <3>1, <4>0, <4>2, Zenon
    <3> QED  BY <1>3, <3>2, <3>3, <3>4, Zenon
  <2>5. d = [text |-> d.text, tokens |-> Append(detok.tokens, piece),
             offset |-> detok.offset, stop |-> d.stop]
    <3> DEFINE t == IF c.truncateTo = -1 THEN full ELSE SubSeq(full, 1, c.truncateTo)
               ts == Append(detok.tokens, piece)
    <3>1. d = [text |-> t, tokens |-> ts, offset |-> detok.offset, stop |-> c.index]
      BY <1>6, Zenon
    <3> HIDE DEF t, ts, d
    <3> QED  BY <3>1, Zenon DEF ts
  <2> DEFINE cut == d.text
  <2> HIDE DEF d
  <2>6. cut \in Seq(Chars) /\ Len(cut) = e /\ Starts(cut, full)
    BY <1>2, <2>3, <2>4, CutLemma
  <2> HIDE DEF cut
  <2>7. Len(shown) <= e
    <3>1. held \in Nat /\ (include => held = 0) /\ (~include => l <= held + 1)
      BY <1>3, BufferLemma, Zenon DEF l
    <3> HIDE DEF held
    <3>2. Len(shown) = IF params.kind = "FINAL_ONLY" THEN 0
                       ELSE IF Len(old) > held THEN Len(old) - held ELSE 0
      BY <1>4, Zenon DEF ShownLength, ToShow, held
    <3>3. p + l > Len(old)
      BY <2>1, Zenon DEF l
    <3> QED  BY <1>3, <1>5, <2>2, <3>1, <3>2, <3>3
  <2>8. Starts(shown, cut)
    BY <1>0, <1>8, <2>6, <2>7 DEF Starts
  <2>9. \A j \in 1 .. Len(stops) : \A k \in Nat :
            Match(cut, stops[j], k) => Match(full, stops[j], k) /\ k + Len(stops[j]) <= e
    <3> TAKE j \in 1 .. Len(stops)
    <3> TAKE k \in Nat
    <3>1. stops[j] \in Seq(Chars)
      BY <1>3, Zenon
    <3>2. ASSUME Match(cut, stops[j], k)
          PROVE  Match(full, stops[j], k) /\ k + Len(stops[j]) <= e
      <4>1. k + Len(stops[j]) <= Len(cut)
        BY <3>2, Zenon DEF Match
      <4>2. Match(full, stops[j], k) <=> Match(cut, stops[j], k)
        BY <1>2, <2>6, <3>1, <4>1, MatchInOld, Zenon DEF Starts
      <4> QED  BY <2>6, <3>2, <4>1, <4>2, Zenon
    <3> QED  BY <3>2, Zenon
  <2>10. StopEnds(cut, stops, i, include)
    <3>1. CASE include
      <4>1. Len(cut) - Len(stops[i]) = p
        BY <2>2, <2>6, <3>1 DEF l
      <4>2. Match(full, stops[i], p) <=> Match(cut, stops[i], p)
        <5>1. p + Len(stops[i]) <= Len(cut)
          BY <2>2, <2>6, <3>1 DEF l
        <5> QED  BY <1>2, <2>2, <2>6, <5>1, MatchInOld, Zenon DEF Starts
      <4>3. \A k \in Nat : k < p => ~Match(cut, stops[i], k)
        BY <2>1, <2>9, Zenon
      <4> QED  BY <2>1, <3>1, <4>1, <4>2, <4>3, Zenon DEF StopEnds
    <3>2. CASE ~include
      <4>1. \A k \in Nat : ~Match(cut, stops[i], k)
        <5> SUFFICES ASSUME NEW k \in Nat, Match(cut, stops[i], k) PROVE FALSE
          BY Zenon
        <5>1. Match(full, stops[i], k) /\ k + l <= p
          BY <2>9, <3>2, Zenon DEF l
        <5> QED  BY <2>1, <2>2, <5>1
      <4>2. \A j \in 1 .. i - 1 : \A k \in Nat : ~Match(cut, stops[j], k)
        BY <2>1, <2>9
      <4>3. \A j \in 1 .. i : j = i \/ j \in 1 .. i - 1
        OBVIOUS
      <4> QED  BY <3>2, <4>1, <4>2, <4>3, Zenon DEF StopEnds
    <3> QED  BY <1>3, <3>1, <3>2, Zenon
  <2>11. i # 0 /\ i \in 0 .. Len(stops)
    OBVIOUS
  <2> QED  BY <1>2, <1>5, <2>4, <2>5, <2>6, <2>8, <2>10, <2>11, Zenon DEF d, cut, full
<1> QED  BY <1>9, <1>10, Zenon

\* One token keeps the invariant, and shows no less than before.
LEMMA StreamStep ==
    ASSUME StreamInv, NEW piece \in Pieces, NEW ef \in BOOLEAN, TakeToken(piece, ef)
    PROVE  StreamInv' /\ Begins(shown, shown')
<1> DEFINE d == Detokenized(detok, piece, piece, params)
           full == allText \o piece
           out == DetokenizerOutput(d, ef, params)
           seen == Seen(out, params.kind, shown)
           held == StopBufferLength(params.stops, params.include)
           text == d.text
           tokens == Append(detok.tokens, piece)
           stop == d.stop
           fin == ef \/ stop # 0
<1>0. /\ StreamTypes /\ ~isFinished /\ shown \in Seq(Chars) /\ allText \in Seq(Chars)
      /\ detok.stop = 0 /\ Len(shown) = ShownLength
      /\ params.kind = "DELTA" => detok.offset = Len(shown)
      /\ params \in [stops : StopLists, include : BOOLEAN, kind : Kinds]
  BY Zenon DEF StreamInv, StreamTypes, TakeToken
<1>1. /\ detok' = out.detokenizer /\ shown' = seen /\ isFinished' = out.finished
      /\ allText' = full /\ params' = params
  BY Zenon DEF TakeToken, Seen
<1>2. /\ full \in Seq(Chars) /\ text \in Seq(Chars)
      /\ d = [text |-> text, tokens |-> tokens, offset |-> detok.offset, stop |-> stop]
      /\ stop \in 0 .. Len(params.stops)
      /\ Starts(text, full) /\ Starts(shown, text)
      /\ stop = 0 => text = full /\ NoneIn(params.stops, full)
      /\ stop # 0 => StopEnds(text, params.stops, stop, params.include)
      /\ Len(allText) <= Len(full)
  BY <1>0, TokenLemma, Zenon
<1>3. held \in Nat
  BY <1>0, ParamsLemma, BufferLemma, Zenon
<1> HIDE DEF d, full, held, text, tokens, stop
<1>4. ~fin => MayShow(params.kind, text, shown, held)
  <2>1. Len(shown) = IF params.kind = "FINAL_ONLY" THEN 0 ELSE ToShow(Len(allText), held)
    BY <1>0, Zenon DEF ShownLength, held
  <2>2. Len(shown) = 0 => shown = <<>>
    BY <1>0
  <2>3. Len(allText) \in Nat /\ Len(full) \in Nat
    BY <1>0, <1>2
  <2>4. ~fin => text = full
    BY <1>2, Zenon
  <2> HIDE DEF fin
  <2>5. ASSUME ~fin, params.kind # "FINAL_ONLY" PROVE Len(shown) <= ToShow(Len(text), held)
    BY <1>2, <1>3, <2>1, <2>3, <2>4, <2>5 DEF ToShow
  <2> QED  BY <2>1, <2>2, <2>5, Zenon DEF MayShow
<1>5. Shows(out, d, params, ef, shown)
  <2>1. /\ params.stops \in Seq(Seq(Chars) \ {<<>>}) /\ params.include \in BOOLEAN
        /\ params.kind \in Kinds
        /\ IsParams(params, params.stops, params.include, params.kind)
    BY <1>0, ParamsLemma, Zenon DEF IsParams
  <2>2. stop \in Nat
    BY <1>2, <2>1
  <2>3. detok.offset \in Nat
    BY <1>0, Zenon DEF StreamTypes
  <2>4. d.tokens = tokens /\ d.offset = detok.offset
    BY <1>2, Zenon
  <2>5. IsDetok(d, d.text, d.tokens, d.offset, d.stop)
    BY <1>2, <2>4, Zenon DEF IsDetok, text, stop
  <2>6. AfterToken(d, params, ef, shown)
    BY <1>0, <1>2, <1>4, <2>1, <2>2, <2>3, <2>4, <2>5, Zenon DEF AfterToken, text, stop, held
  <2> QED  BY <2>6, OutputLemma, Zenon
<1>6. PICK o \in Nat : /\ detok' = Moved(d, o)
                       /\ params.kind = "DELTA" => o = Len(shown')
  BY <1>1, <1>5, Zenon DEF Shows
<1>7. /\ shown' \in Seq(Chars) /\ Starts(shown', text) /\ Len(shown) <= Len(shown')
      /\ isFinished' = fin
      /\ Len(shown') = IF fin THEN Len(text)
                       ELSE IF params.kind = "FINAL_ONLY" THEN 0
                       ELSE ToShow(Len(text), held)
  BY <1>1, <1>5, Zenon DEF Shows, text, stop, held
<1> HIDE DEF out, seen
<1>8. /\ detok' = [text |-> text, tokens |-> tokens, offset |-> o, stop |-> stop]
      /\ detok'.text = text /\ detok'.offset = o /\ detok'.stop = stop
  <2>1. IsDetok(d, text, tokens, detok.offset, stop)
    BY <1>2, Zenon DEF IsDetok
  <2>2. IsDetok(Moved(d, o), text, tokens, o, stop)
    BY ONLY <2>1, MovedOffset, Zenon
  <2>3. detok' = [text |-> text, tokens |-> tokens, offset |-> o, stop |-> stop]
    BY ONLY <1>6, <2>2, Zenon DEF IsDetok
  <2> QED  BY ONLY <2>3, Zenon
<1>9. StreamTypes'
  <2>1. detok' = [text |-> detok'.text, tokens |-> detok'.tokens, offset |-> detok'.offset,
                  stop |-> detok'.stop]
    BY <1>8, Zenon
  <2>2. isFinished' \in BOOLEAN
    BY <1>7, Zenon
  <2> QED  BY <1>0, <1>1, <1>2, <1>6, <1>7, <1>8, <2>1, <2>2, Zenon DEF StreamTypes
<1>10. ASSUME ~isFinished'
       PROVE  /\ detok'.stop = 0 /\ Len(shown') = ShownLength'
              /\ params'.kind = "DELTA" => detok'.offset = Len(shown')
  <2>1. ~ef /\ stop = 0 /\ text = full
    BY <1>2, <1>7, <1>10, Zenon
  <2>2. ShownLength' = IF params.kind = "FINAL_ONLY" THEN 0 ELSE ToShow(Len(full), held)
    BY <1>1, Zenon DEF ShownLength, held
  <2>3. Len(shown') = IF params.kind = "FINAL_ONLY" THEN 0 ELSE ToShow(Len(full), held)
    BY <1>7, <2>1, Zenon
  <2> QED  BY <1>1, <1>6, <1>8, <2>1, <2>2, <2>3, Zenon
<1>11. isFinished' => shown' = detok'.text
  <2>1. SUFFICES ASSUME isFinished' PROVE shown' = text
    BY <1>8, Zenon
  <2>2. Len(shown') = Len(text)
    BY <1>7, <2>1, Zenon
  <2>3. \A m \in 1 .. Len(text) : shown'[m] = text[m]
    BY <1>7, <2>2, Zenon DEF Starts
  <2> QED  BY <1>2, <1>7, <2>2, <2>3, EqualLemma, Zenon
<1>12. StreamInv'
  BY <1>1, <1>2, <1>7, <1>8, <1>9, <1>10, <1>11, Zenon DEF StreamInv
<1>13. Starts(shown, shown')
  <2>1. \A m \in 1 .. Len(shown) : m \in 1 .. Len(shown') /\ shown[m] = text[m]
    BY <1>0, <1>2, <1>7 DEF Starts
  <2> QED  BY <1>0, <1>7, <2>1, Zenon DEF Starts
<1> QED  BY <1>0, <1>7, <1>12, <1>13, BeginsLemma, Zenon

\* A step that changes nothing keeps the invariant.
LEMMA StreamStutter == StreamInv /\ UNCHANGED detokVars => StreamInv'
<1> SUFFICES ASSUME StreamInv, UNCHANGED detokVars PROVE StreamInv'
  BY Zenon
<1>1. /\ params' = params /\ detok' = detok /\ shown' = shown
      /\ isFinished' = isFinished /\ allText' = allText
  BY Zenon DEF detokVars
<1>2. StreamTypes'
  BY <1>1, Zenon DEF StreamInv, StreamTypes
<1>3. ShownLength' = ShownLength
  BY <1>1, Zenon DEF ShownLength
<1> QED  BY <1>1, <1>2, <1>3, Zenon DEF StreamInv

\* While a request runs its text is that of all its tokens and has no stop
\* string, and all of it is shown but what stop_buffer_length holds back;
\* for every list of stop strings and all texts.
THEOREM StreamInvariance == DetokSpec => []StreamInv
<1>1. StreamInv /\ [DetokNext]_detokVars => StreamInv'
  BY StreamStep, StreamStutter, Zenon DEF DetokNext
<1> QED  BY StreamInit, <1>1, PTL DEF DetokSpec

\* What the caller of a request is shown is the beginning of the text its
\* tokens make, and all that is left of it at the end (ShownIsText;
\* update_from_output, _get_next_output_text), for all texts.
THEOREM TextIsShown == DetokSpec => []ShownIsText
BY StreamInvariance, StreamProperties, PTL

\* A request ends with the first token that completes a stop string, and the
\* string is cut off or kept as asked (StopStringEndsText;
\* check_stop_strings), for all texts and lists of stop strings.
THEOREM StopStringsEndText == DetokSpec => []StopStringEndsText
BY StreamInvariance, StreamProperties, PTL

\* Text that has been shown is never taken back (ShownOnlyGrows): what may
\* still become part of a stop string is held back until it cannot.
THEOREM NothingTakenBack == DetokSpec => ShownOnlyGrows
<1>1. StreamInv /\ [DetokNext]_detokVars => [Begins(shown, shown')]_detokVars
  BY StreamStep, Zenon DEF DetokNext
<1> QED  BY StreamInvariance, <1>1, PTL DEF DetokSpec, ShownOnlyGrows
=============================================================================
