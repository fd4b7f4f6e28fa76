--------------------------- MODULE KVCacheManager ---------------------------
(***************************************************************************)
(* KVCacheManager (vllm/v1/core/kv_cache_manager.py): the pool of KV-cache *)
(* blocks, the block table of every request, and the prefix cache that     *)
(* lets requests with a common prefix share full blocks.                   *)
(*                                                                         *)
(* A block hash chains the hashes of all earlier blocks with the block's   *)
(* own tokens.  Assuming no collisions it identifies the whole prefix that *)
(* ends with the block, and is modelled as that prefix.                    *)
(*                                                                         *)
(* cacheOrder lists the blocks of cached_block_hash_to_block in insertion  *)
(* order; the first one with a given hash is the one a lookup returns.     *)
(***************************************************************************)
EXTENDS Request, Queues

CONSTANTS
    NumGpuBlocks,          \* num_gpu_blocks
    BlockSize,             \* block_size
    NumPreallocateTokens,  \* num_preallocate_tokens (64 in the code)
    EnableCaching          \* enable_caching

VARIABLES
    refCnt,          \* [Blocks -> Nat], KVCacheBlock.ref_cnt
    blockHash,       \* [Blocks -> prefix or NoHash], KVCacheBlock.block_hash
    freeBlockQueue,  \* free_block_queue, eviction order
    cacheOrder,      \* cached_block_hash_to_block
    reqToBlocks,     \* [Requests -> Seq(Blocks)], <<>> for an absent key
    numBlockHashes   \* [Requests -> Nat], the length of kv_block_hashes

kvVars == <<refCnt, blockHash, freeBlockQueue, cacheOrder, reqToBlocks, numBlockHashes>>

Blocks == 0 .. NumGpuBlocks - 1

NoHash == <<>>

CDiv(n, m) == (n + m - 1) \div m

MaxNumBlocksPerReq == CDiv(MaxModelLen, BlockSize)

NumPreallocateBlocks == CDiv(NumPreallocateTokens, BlockSize)

\* check_enough_kv_cache_memory wants room for one request of the maximal
\* length, but counts no more than 4096 tokens of it, and
\* num_gpu_blocks_override comes after it: the pool may be smaller.
ASSUME KVAssumption ==
    /\ NumGpuBlocks \in Nat \ {0} /\ BlockSize \in Nat \ {0}
    /\ NumPreallocateTokens \in Nat
    /\ EnableCaching \in BOOLEAN

KVInit ==
    /\ refCnt = [b \in Blocks |-> 0]
    /\ blockHash = [b \in Blocks |-> NoHash]
    /\ freeBlockQueue = [n \in 1 .. NumGpuBlocks |-> n - 1]
    /\ cacheOrder = <<>>
    /\ reqToBlocks = [r \in Requests |-> <<>>]
    /\ numBlockHashes = [r \in Requests |-> 0]

\* The hash of the k-th full block of r (hash_request_tokens for the blocks
\* known when r is first scheduled, _cache_full_blocks for later ones).
HashOf(r, k) == SubSeq(AllTokenIds[r], 1, k * BlockSize)

\* _get_cached_block: the first block entered with the hash.
IsCached(h) == \E n \in DOMAIN cacheOrder : blockHash[cacheOrder[n]] = h

CachedBlock(h) == cacheOrder[Min({n \in DOMAIN cacheOrder : blockHash[cacheOrder[n]] = h})]

\* get_computed_blocks hashes the full blocks of r, which holds n tokens,
\* only when r has no hashes yet: a preempted request keeps its list.
NumHashesOnLookup(r, n) ==
    IF EnableCaching /\ numBlockHashes[r] = 0 THEN n \div BlockSize ELSE numBlockHashes[r]

\* The length of the longest run of leading blocks of r in the prefix cache.
NumCachedPrefix(r, n) ==
    Max({k \in 0 .. NumHashesOnLookup(r, n) : \A j \in 1 .. k : IsCached(HashOf(r, j))})

GetComputedBlocks(r, n) ==
    IF EnableCaching
    THEN [k \in 1 .. NumCachedPrefix(r, n) |-> CachedBlock(HashOf(r, k))]
    ELSE <<>>

\* The effect of get_computed_blocks on the request.
SetBlockHashes(r, n) ==
    /\ numBlockHashes' = [numBlockHashes EXCEPT ![r] = NumHashesOnLookup(r, n)]
    /\ UNCHANGED <<refCnt, blockHash, freeBlockQueue, cacheOrder, reqToBlocks>>

\* Faulty: no block for the last, partly filled one.
NumNewBlocks_Floor(r, c, n, hit) ==
    (c + n) \div BlockSize - Len(reqToBlocks[r]) - Len(hit)

\* The blocks that r, with c computed tokens of which the blocks hit are
\* the new prefix-cache hits, lacks for n more tokens.
NumNewBlocks(r, c, n, hit) ==
    CDiv(c + n, BlockSize) - Len(reqToBlocks[r]) - Len(hit)

\* A hit that nobody uses is an eviction candidate: in the free queue, but
\* not available to this allocation.
Evictable(hit) == {b \in Range(hit) : refCnt[b] = 0}

CanAllocateSlots(r, c, n, hit) ==
    NumNewBlocks(r, c, n, hit) <= Len(freeBlockQueue) - Cardinality(Evictable(hit))

\* Faulty: the hits stay in the free queue.
Untouched_InQueue(hit) == freeBlockQueue

\* _touch takes the hits out of the free queue before blocks are popped.
Untouched(hit) == Only(freeBlockQueue, Blocks \ Range(hit))

\* Faulty: the preallocated blocks are not cut at the model length.
NewBlocks_Uncapped(r, c, n, hit) ==
    LET need == NumNewBlocks(r, c, n, hit)
    IN  IF need <= 0 THEN <<>>
        ELSE SubSeq(Untouched(hit), 1, AtMost(need + NumPreallocateBlocks, Len(Untouched(hit))))

\* _get_new_blocks, with the preallocated ones.
NewBlocks(r, c, n, hit) ==
    LET need == NumNewBlocks(r, c, n, hit)
        held == Len(reqToBlocks[r]) + Len(hit)
    IN  IF need <= 0 THEN <<>>
        ELSE SubSeq(Untouched(hit), 1,
                    AtMost(need + NumPreallocateBlocks,
                           AtMost(Len(Untouched(hit)), MaxNumBlocksPerReq - held)))

\* Faulty: a block that is handed out again keeps its hash.
HashesAfterEviction_Kept(new) == blockHash

\* _maybe_evict_cached_block, for every new block.
HashesAfterEviction(new) ==
    [b \in Blocks |-> IF EnableCaching /\ b \in Range(new) THEN NoHash ELSE blockHash[b]]

\* The places in the block table that the n tokens after the first c fill.
FilledBlocks(c, n) == c \div BlockSize + 1 .. (c + n) \div BlockSize

\* _cache_full_blocks: the places of the block table that the n tokens after
\* the first c fill are entered in the prefix cache, from the first one without
\* a hash on; kept and old are cache and hashes before.  The request remembers
\* the hashes it did not have.
CacheFullBlocks(r, table, c, n, kept, old, hashes) ==
    LET fresh == {k \in FilledBlocks(c, n) : old[table[k]] = NoHash}
    IN  IF EnableCaching /\ fresh # {}
        THEN /\ blockHash' = [b \in Blocks |->
                     IF \E k \in fresh : table[k] = b
                     THEN HashOf(r, CHOOSE k \in fresh : table[k] = b)
                     ELSE old[b]]
             /\ cacheOrder' = kept \o SubSeq(table, Min(fresh), (c + n) \div BlockSize)
             /\ numBlockHashes' = [numBlockHashes EXCEPT
                     ![r] = AtLeast(hashes, (c + n) \div BlockSize)]
        ELSE /\ blockHash' = old
             /\ cacheOrder' = kept
             /\ numBlockHashes' = [numBlockHashes EXCEPT ![r] = hashes]

\* allocate_slots when it succeeds.  c is num_computed_tokens including the
\* hits, hashes the length of kv_block_hashes at the call.  The new blocks
\* lose the hash they may still carry.
AllocateSlots(r, c, n, hit, hashes) ==
    LET new == NewBlocks(r, c, n, hit)
        table == reqToBlocks[r] \o hit \o new
        evicted == HashesAfterEviction(new)
    IN  /\ CanAllocateSlots(r, c, n, hit)
        /\ refCnt' = [b \in Blocks |-> IF b \in Range(hit \o new)
                                       THEN refCnt[b] + 1 ELSE refCnt[b]]
        /\ freeBlockQueue' = SubSeq(Untouched(hit), Len(new) + 1, Len(Untouched(hit)))
        /\ reqToBlocks' = [reqToBlocks EXCEPT ![r] = table]
        /\ CacheFullBlocks(r, table, c, n,
                           Only(cacheOrder, {b \in Blocks : evicted[b] # NoHash}), evicted, hashes)

\* free: the tail of the table goes first to the free queue when caching is
\* on, so that it is evicted first.
Free(r) ==
    LET ordered == IF EnableCaching THEN Reversed(reqToBlocks[r]) ELSE reqToBlocks[r]
    IN  /\ refCnt' = [b \in Blocks |-> IF b \in Range(reqToBlocks[r])
                                       THEN refCnt[b] - 1 ELSE refCnt[b]]
        /\ freeBlockQueue' = freeBlockQueue \o
                             Only(ordered, {b \in Blocks : refCnt[b] = 1})
        /\ reqToBlocks' = [reqToBlocks EXCEPT ![r] = <<>>]
        /\ UNCHANGED <<blockHash, cacheOrder, numBlockHashes>>

\* Faulty: blocks that more than one request uses count as common.
GetNumCommonPrefixBlocks_Shared(r, n) ==
    Max({k \in 0 .. Len(reqToBlocks[r]) : \A j \in 1 .. k : refCnt[reqToBlocks[r][j]] > 1})

\* get_num_common_prefix_blocks, for r one of the n running requests.
GetNumCommonPrefixBlocks(r, n) ==
    Max({k \in 0 .. Len(reqToBlocks[r]) : \A j \in 1 .. k : refCnt[reqToBlocks[r][j]] = n})

\* reset_prefix_cache: only when every block is free.
ResetPrefixCache ==
    /\ Len(freeBlockQueue) = NumGpuBlocks
    /\ blockHash' = [b \in Blocks |-> NoHash]
    /\ cacheOrder' = <<>>
    /\ UNCHANGED <<refCnt, freeBlockQueue, reqToBlocks, numBlockHashes>>

\* The manager's variables have their types; a reference count is never
\* decremented below zero.
KVTypeOK ==
    /\ refCnt \in [Blocks -> Nat]
    /\ DOMAIN blockHash = Blocks
    /\ freeBlockQueue \in Seq(Blocks)
    /\ cacheOrder \in Seq(Blocks)
    /\ reqToBlocks \in [Requests -> Seq(Blocks)]
    /\ numBlockHashes \in [Requests -> Nat]

=============================================================================
