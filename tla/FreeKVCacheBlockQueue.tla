----------------------- MODULE FreeKVCacheBlockQueue -----------------------
(***************************************************************************)
(* FreeKVCacheBlockQueue (vllm/v1/core/kv_cache_utils.py): the free blocks *)
(* as a doubly linked list through the blocks themselves, so that a block  *)
(* hit by the prefix cache can leave from the middle.                      *)
(*                                                                         *)
(* The variable queue is not in the code: it is the sequence that the list *)
(* stands for, the freeBlockQueue of KVCacheManager.  Its changes are what *)
(* popleft, remove and append promise; the links are what they do.  The    *)
(* KVCacheManager removes only blocks that are free and appends only       *)
(* blocks that are not (BlockAccounting).                                  *)
(***************************************************************************)
EXTENDS Naturals, Sequences

CONSTANT
    NumBlocks  \* len(blocks)

VARIABLES
    prevFreeBlock,  \* [Block -> Block or None], KVCacheBlock.prev_free_block
    nextFreeBlock,  \* [Block -> Block or None], KVCacheBlock.next_free_block
    freeListHead,   \* free_list_head
    freeListTail,   \* free_list_tail
    numFreeBlocks,  \* num_free_blocks
    queue           \* the blocks in the list, first to last

listVars == <<prevFreeBlock, nextFreeBlock, freeListHead, freeListTail, numFreeBlocks>>

freeListVars == <<listVars, queue>>

\* blocks[0] and blocks[-1] exist.
ASSUME NumBlocksAssumption == NumBlocks \in Nat \ {0}

Block == 0 .. NumBlocks - 1

None == NumBlocks  \* no block has this number

QueueInit ==
    /\ prevFreeBlock = [b \in Block |-> IF b > 0 THEN b - 1 ELSE None]
    /\ nextFreeBlock = [b \in Block |-> IF b < NumBlocks - 1 THEN b + 1 ELSE None]
    /\ freeListHead = 0
    /\ freeListTail = NumBlocks - 1
    /\ numFreeBlocks = NumBlocks
    /\ queue = [i \in 1 .. NumBlocks |-> i - 1]

\* The place of a block in the queue.
Place(b) == CHOOSE i \in 1 .. Len(queue) : queue[i] = b

IsFree(b) == \E i \in 1 .. Len(queue) : queue[i] = b

\* Faulty: the block behind keeps its link to b.
Unlink_OneWay(b) ==
    /\ nextFreeBlock' = [c \in Block |->
            IF c = b THEN None
            ELSE IF c = prevFreeBlock[b] THEN nextFreeBlock[b] ELSE nextFreeBlock[c]]
    /\ prevFreeBlock' = [prevFreeBlock EXCEPT ![b] = None]
    /\ freeListHead' = IF b = freeListHead THEN nextFreeBlock[b] ELSE freeListHead
    /\ freeListTail' = IF b = freeListTail THEN prevFreeBlock[b] ELSE freeListTail
    /\ numFreeBlocks' = numFreeBlocks - 1

\* remove: the neighbours are linked to each other, head and tail step over b,
\* and b forgets its links.
Unlink(b) ==
    /\ nextFreeBlock' = [c \in Block |->
            IF c = b THEN None
            ELSE IF c = prevFreeBlock[b] THEN nextFreeBlock[b] ELSE nextFreeBlock[c]]
    /\ prevFreeBlock' = [c \in Block |->
            IF c = b THEN None
            ELSE IF c = nextFreeBlock[b] THEN prevFreeBlock[b] ELSE prevFreeBlock[c]]
    /\ freeListHead' = IF b = freeListHead THEN nextFreeBlock[b] ELSE freeListHead
    /\ freeListTail' = IF b = freeListTail THEN prevFreeBlock[b] ELSE freeListTail
    /\ numFreeBlocks' = numFreeBlocks - 1

\* remove, of a free block anywhere in the list.
RemoveBlock(b) ==
    /\ IsFree(b)
    /\ Unlink(b)
    /\ queue' = [i \in 1 .. Len(queue) - 1 |->
                    IF i < Place(b) THEN queue[i] ELSE queue[i + 1]]

\* popleft; without a head it raises and nothing changes.
PopLeft ==
    /\ freeListHead # None
    /\ Unlink(freeListHead)
    /\ queue' = Tail(queue)

\* append, of a block that is not free.
AppendBlock(b) ==
    /\ ~IsFree(b)
    /\ IF freeListTail # None
       THEN /\ nextFreeBlock' = [nextFreeBlock EXCEPT ![freeListTail] = b, ![b] = None]
            /\ prevFreeBlock' = [prevFreeBlock EXCEPT ![b] = freeListTail]
            /\ freeListHead' = freeListHead
       ELSE /\ nextFreeBlock' = [nextFreeBlock EXCEPT ![b] = None]
            /\ prevFreeBlock' = prevFreeBlock
            /\ freeListHead' = b
    /\ freeListTail' = b
    /\ numFreeBlocks' = numFreeBlocks + 1
    /\ queue' = Append(queue, b)

QueueNext == PopLeft \/ \E b \in Block : RemoveBlock(b) \/ AppendBlock(b)

QueueSpec == QueueInit /\ [][QueueNext]_freeListVars

----------------------------------------------------------------------------
(* Properties *)

\* The links have their types.
QueueTypeOK ==
    /\ prevFreeBlock \in [Block -> Block \cup {None}]
    /\ nextFreeBlock \in [Block -> Block \cup {None}]
    /\ freeListHead \in Block \cup {None} /\ freeListTail \in Block \cup {None}
    /\ numFreeBlocks \in 0 .. NumBlocks
    /\ queue \in Seq(Block)

NoRepetition == \A i, j \in 1 .. Len(queue) : queue[i] = queue[j] => i = j

\* What the rest of the program sees is a queue, after any mix of allocations,
\* prefix hits and frees: no block is in it twice, the links are its order in
\* both directions and at both ends, the count that admits a request is its
\* length, and a block outside is linked to nothing.
LinksFollowQueue ==
    /\ NoRepetition
    /\ numFreeBlocks = Len(queue)
    /\ freeListHead = IF queue = <<>> THEN None ELSE queue[1]
    /\ freeListTail = IF queue = <<>> THEN None ELSE queue[Len(queue)]
    /\ \A i \in 1 .. Len(queue) :
            /\ nextFreeBlock[queue[i]] = IF i < Len(queue) THEN queue[i + 1] ELSE None
            /\ prevFreeBlock[queue[i]] = IF i > 1 THEN queue[i - 1] ELSE None
    /\ \A b \in Block : ~IsFree(b) => nextFreeBlock[b] = None /\ prevFreeBlock[b] = None

=============================================================================
