----------------------- MODULE KVCacheManager_proofs ------------------------
(***************************************************************************)
(* Proofs about KVCacheManager: what its operations do to the pool of      *)
(* blocks. KVInv says that a block's reference count is the number of      *)
(* requests that hold it, that the free queue holds the blocks nobody      *)
(* uses, and that a hash stands for the tokens in the block;               *)
(* allocate_slots, free and the lookup of a prefix keep it.                *)
(***************************************************************************)
EXTENDS KVCacheManager, SequenceLemmas

\* The requests whose block table holds b.
Users(b) == {r \in Requests : b \in Range(reqToBlocks[r])}

\* The counts of the manager: no table or queue holds a block twice, ref_cnt
\* counts tables, the free queue holds the blocks nobody uses.
TablesCounted ==
    /\ \A r \in Requests : IsInjective(reqToBlocks[r])
    /\ \A b \in Blocks : refCnt[b] = Cardinality(Users(b))
    /\ IsInjective(freeBlockQueue)
    /\ Range(freeBlockQueue) = {b \in Blocks : refCnt[b] = 0}

\* The hashes of the manager: a block in a table carries no hash or that of its
\* place, two tables share hashed blocks only, and there are none without the
\* prefix cache.
HashesSound ==
    /\ \A r \in Requests : \A k \in 1 .. Len(reqToBlocks[r]) :
            blockHash[reqToBlocks[r][k]] \in {NoHash, HashOf(r, k)}
    /\ \A q, r \in Requests : q # r =>
            \A b \in Range(reqToBlocks[q]) \cap Range(reqToBlocks[r]) : blockHash[b] # NoHash
    /\ ~EnableCaching => \A b \in Blocks : blockHash[b] = NoHash

\* What every operation of the manager preserves.
KVInv == KVTypeOK /\ TablesCounted /\ HashesSound

\* What get_computed_blocks returns: blocks that carry the hashes of the places
\* they are to take in the table of r, which has none yet.
GoodHits(r, hit) ==
    /\ hit \in Seq(Blocks) /\ IsInjective(hit)
    /\ hit # <<>> => reqToBlocks[r] = <<>>
    /\ \A k \in 1 .. Len(hit) : blockHash[hit[k]] = HashOf(r, k)

\* The blocks that n tokens need hold them, the last one not wasted.
LEMMA CDivBounds ==
    ASSUME NEW n \in Nat, NEW b \in Nat \ {0}
    PROVE  CDiv(n, b) \in Nat /\ n <= CDiv(n, b) * b /\ CDiv(n, b) * b < n + b
BY DEF CDiv

\* More tokens need as many blocks or more.
LEMMA CDivMonotone ==
    ASSUME NEW m \in Nat, NEW n \in Nat, NEW b \in Nat \ {0}, m <= n
    PROVE  CDiv(m, b) <= CDiv(n, b)
<1> DEFINE x == CDiv(m, b)
           y == CDiv(n, b)
<1>1. x \in Nat /\ y \in Nat /\ n <= y * b /\ x * b < m + b
  BY CDivBounds, Zenon
<1> HIDE DEF x, y
<1>2. SUFFICES ASSUME y + 1 <= x PROVE FALSE
  BY <1>1 DEF x, y
<1>3. (y + 1) * b <= x * b
  BY <1>1, <1>2
<1>4. (y + 1) * b = y * b + b
  BY <1>1
<1> QED  BY <1>1, <1>3, <1>4

\* A block is filled by the tokens from c to c + n exactly if it ends there.
LEMMA FilledLemma ==
    ASSUME NEW c \in Nat, NEW n \in Nat, NEW k \in Nat
    PROVE  k \in FilledBlocks(c, n) <=> c < k * BlockSize /\ k * BlockSize <= c + n
<1> DEFINE B == BlockSize
           x == c \div B
           y == (c + n) \div B
<1>1. B \in Nat \ {0}
  BY KVAssumption, Zenon
<1> HIDE DEF B
<1>2. x \in Nat /\ x * B <= c /\ c < (x + 1) * B
  BY <1>1
<1>3. y \in Nat /\ y * B <= c + n /\ c + n < (y + 1) * B
  BY <1>1
<1> HIDE DEF x, y
<1>4. k <= x => k * B <= x * B
  BY <1>1, <1>2
<1>5. x + 1 <= k => (x + 1) * B <= k * B
  BY <1>1, <1>2
<1>6. k <= y => k * B <= y * B
  BY <1>1, <1>3
<1>7. y + 1 <= k => (y + 1) * B <= k * B
  BY <1>1, <1>3
<1>8. k * B \in Nat /\ x * B \in Nat /\ y * B \in Nat /\ (x + 1) * B \in Nat /\ (y + 1) * B \in Nat
  BY <1>1, <1>2, <1>3
<1>9. x + 1 <= k <=> c < k * B
  BY <1>2, <1>4, <1>5, <1>8
<1>10. k <= y <=> k * B <= c + n
  BY <1>3, <1>6, <1>7, <1>8
<1> QED  BY <1>2, <1>3, <1>9, <1>10 DEF FilledBlocks, B, x, y

\* Different numbers of blocks have different hashes, none of them NoHash.
LEMMA HashLemma ==
    ASSUME NEW q, NEW r, NEW j \in Nat \ {0}, NEW k \in Nat \ {0}
    PROVE  HashOf(r, k) # NoHash /\ (HashOf(q, j) = HashOf(r, k) => j = k)
<1>1. ASSUME NEW s, NEW l \in Nat PROVE Len(SubSeq(s, 1, l)) = l
  <2> DEFINE S == {s[i] : i \in 1 .. l}
  <2>1. \A i \in 1 .. l : s[i] \in S
    BY Zenon
  <2> HIDE DEF S
  <2>2. Len(SubSeq(s, 1, l)) = IF 1 <= l THEN l - 1 + 1 ELSE 0
    BY <2>1, SliceLemma
  <2> QED  BY <2>2
<1>2. BlockSize \in Nat \ {0} /\ j * BlockSize \in Nat \ {0} /\ k * BlockSize \in Nat \ {0}
  BY KVAssumption
<1>3. Len(HashOf(r, k)) = k * BlockSize /\ Len(HashOf(q, j)) = j * BlockSize
  BY <1>1, <1>2, Zenon DEF HashOf
<1>4. Len(NoHash) = 0
  BY Zenon DEF NoHash
<1>5. j * BlockSize = k * BlockSize => j = k
  BY <1>2
<1> QED  BY <1>2, <1>3, <1>4, <1>5, Zenon

\* A new manager.
LEMMA KVInitInv == KVInit => KVInv
<1> SUFFICES ASSUME KVInit PROVE KVInv
  BY Zenon
<1> USE DEF KVInit
<1>0. NumGpuBlocks \in Nat \ {0}
  BY KVAssumption, Zenon
<1>1. KVTypeOK
  BY <1>0 DEF KVTypeOK, Blocks
<1>2. \A r \in Requests : Range(reqToBlocks[r]) = {} /\ IsInjective(reqToBlocks[r])
  BY DEF Range, IsInjective
<1>3. \A b \in Blocks : Users(b) = {}
  BY <1>2, Zenon DEF Users
<1>4. \A b \in Blocks : refCnt[b] = Cardinality(Users(b))
  BY <1>3, FS_EmptySet, Zenon
<1>5. IsInjective(freeBlockQueue)
  BY <1>0 DEF IsInjective
<1>6. Range(freeBlockQueue) = {b \in Blocks : refCnt[b] = 0}
  <2>1. \A n \in 1 .. NumGpuBlocks : n - 1 \in Blocks
    BY <1>0 DEF Blocks
  <2>2. \A b \in Blocks : b + 1 \in 1 .. NumGpuBlocks /\ (b + 1) - 1 = b
    BY <1>0 DEF Blocks
  <2>3. freeBlockQueue = [n \in 1 .. NumGpuBlocks |-> n - 1]
    BY Zenon
  <2> QED  BY <2>1, <2>2, <2>3 DEF Range
<1>7. TablesCounted
  BY <1>2, <1>4, <1>5, <1>6, Zenon DEF TablesCounted
<1>8. HashesSound
  BY <1>2 DEF HashesSound
<1> QED  BY <1>1, <1>7, <1>8, Zenon DEF KVInv

\* The users of a block are a finite set, and there are some if it is in a table.
LEMMA UsersLemma ==
    ASSUME NEW b
    PROVE  /\ IsFiniteSet(Users(b)) /\ Cardinality(Users(b)) \in Nat
           /\ Cardinality(Users(b)) = 0 <=> Users(b) = {}
<1>1. IsFiniteSet(Requests)
  BY RequestAssumption, Zenon
<1>2. IsFiniteSet(Users(b))
  BY <1>1, FS_Subset, Zenon DEF Users
<1> QED  BY <1>2, FS_CardinalityType, FS_EmptySet, Zenon

\* free: the blocks of r that nobody else uses go to the free queue.
LEMMA FreeInv ==
    ASSUME KVInv, NEW r \in Requests, Free(r)
    PROVE  KVInv'
<1> DEFINE T == reqToBlocks[r]
           ordered == IF EnableCaching THEN Reversed(T) ELSE T
           S == {b \in Blocks : refCnt[b] = 1}
           back == Only(ordered, S)
<1>0. /\ refCnt' = [b \in Blocks |-> IF b \in Range(T) THEN refCnt[b] - 1 ELSE refCnt[b]]
      /\ freeBlockQueue' = freeBlockQueue \o back
      /\ reqToBlocks' = [reqToBlocks EXCEPT ![r] = <<>>]
      /\ blockHash' = blockHash /\ cacheOrder' = cacheOrder
      /\ numBlockHashes' = numBlockHashes
  BY Zenon DEF Free
<1>1. /\ refCnt \in [Blocks -> Nat] /\ freeBlockQueue \in Seq(Blocks)
      /\ reqToBlocks \in [Requests -> Seq(Blocks)] /\ DOMAIN blockHash = Blocks
      /\ IsInjective(freeBlockQueue)
      /\ Range(freeBlockQueue) = {b \in Blocks : refCnt[b] = 0}
  BY Zenon DEF KVInv, KVTypeOK, TablesCounted
<1>2. T \in Seq(Blocks) /\ IsInjective(T)
  BY <1>1, Zenon DEF KVInv, TablesCounted
<1>3. ordered \in Seq(Blocks) /\ IsInjective(ordered) /\ Range(ordered) = Range(T)
  BY <1>2, ReversedLemma, Zenon
<1> HIDE DEF ordered
<1>4. back \in Seq(Blocks) /\ IsInjective(back) /\ Range(back) = Range(T) \cap S
  BY <1>3, OnlyLemma
<1> HIDE DEF back
<1>5. /\ freeBlockQueue' \in Seq(Blocks) /\ IsInjective(freeBlockQueue')
      /\ Range(freeBlockQueue') = Range(freeBlockQueue) \cup Range(back)
  <2>1. Range(freeBlockQueue) \cap Range(back) = {}
    BY <1>1, <1>4
  <2> QED  BY <1>0, <1>1, <1>4, <2>1, ConcatLemma
<1>6. /\ reqToBlocks'[r] = <<>> /\ \A q \in Requests : q # r => reqToBlocks'[q] = reqToBlocks[q]
      /\ reqToBlocks' \in [Requests -> Seq(Blocks)]
      /\ Range(<<>>) = {} /\ IsInjective(<<>>)
  BY <1>0, <1>1 DEF Range, IsInjective
<1>7. \A b : Users(b)' = Users(b) \ {r}
  BY <1>6, Zenon DEF Users
<1>8. \A b \in Blocks :
          /\ refCnt[b] = Cardinality(Users(b))
          /\ b \in Range(T) => refCnt[b] # 0
          /\ refCnt'[b] = Cardinality(Users(b)')
  <2> TAKE b \in Blocks
  <2>1. refCnt[b] = Cardinality(Users(b))
    BY Zenon DEF KVInv, TablesCounted
  <2>2. r \in Users(b) <=> b \in Range(T)
    BY Zenon DEF Users
  <2>3. IsFiniteSet(Users(b)) /\ (Cardinality(Users(b)) = 0 <=> Users(b) = {})
    BY UsersLemma, Zenon
  <2>4. Cardinality(Users(b) \ {r}) =
            IF r \in Users(b) THEN Cardinality(Users(b)) - 1 ELSE Cardinality(Users(b))
    BY <2>3, FS_RemoveElement, Zenon
  <2>5. Users(b)' = Users(b) \ {r}
    BY <1>7, Zenon
  <2>6. refCnt'[b] = IF b \in Range(T) THEN refCnt[b] - 1 ELSE refCnt[b]
    BY <1>0, Zenon
  <2> QED  BY <2>1, <2>2, <2>3, <2>4, <2>5, <2>6, Zenon
<1>9. Range(freeBlockQueue') = {b \in Blocks : refCnt'[b] = 0}
  <2>1. \A b \in Blocks : refCnt'[b] = 0 <=> (refCnt[b] = 0 \/ (b \in Range(T) /\ refCnt[b] = 1))
    BY <1>0, <1>1, <1>8
  <2>2. \A b \in Range(T) : b \in Blocks
    BY <1>2, InjectiveLemma
  <2> QED  BY <1>1, <1>4, <1>5, <2>1, <2>2, Zenon
<1>10. KVTypeOK'
  <2>1. refCnt' \in [Blocks -> Nat]
    BY <1>0, <1>1, <1>8
  <2> QED  BY <1>0, <1>1, <1>5, <1>6, <2>1, Zenon DEF KVInv, KVTypeOK
<1>11. TablesCounted'
  <2>1. \A q \in Requests : IsInjective(reqToBlocks'[q])
    BY <1>6, Zenon DEF KVInv, TablesCounted
  <2> QED  BY <1>5, <1>8, <1>9, <2>1, Zenon DEF TablesCounted
<1>12. HashesSound'
  <2>1. \A q \in Requests : reqToBlocks'[q] # reqToBlocks[q] =>
            reqToBlocks'[q] = <<>> /\ Len(reqToBlocks'[q]) = 0 /\ Range(reqToBlocks'[q]) = {}
    BY <1>6
  <2>2. \A q \in Requests : \A k \in 1 .. Len(reqToBlocks'[q]) :
            blockHash'[reqToBlocks'[q][k]] \in {NoHash, HashOf(q, k)}
    <3> SUFFICES ASSUME NEW q \in Requests, NEW k \in 1 .. Len(reqToBlocks'[q])
                 PROVE  blockHash'[reqToBlocks'[q][k]] \in {NoHash, HashOf(q, k)}
      BY Zenon
    <3>1. reqToBlocks'[q] = reqToBlocks[q]
      BY <2>1
    <3> QED  BY <1>0, <3>1, Zenon DEF KVInv, HashesSound
  <2>3. \A p, q \in Requests : p # q =>
            \A b \in Range(reqToBlocks'[p]) \cap Range(reqToBlocks'[q]) : blockHash'[b] # NoHash
    <3> SUFFICES ASSUME NEW p \in Requests, NEW q \in Requests, p # q,
                        NEW b \in Range(reqToBlocks'[p]) \cap Range(reqToBlocks'[q])
                 PROVE  blockHash'[b] # NoHash
      BY Zenon
    <3>1. reqToBlocks'[p] = reqToBlocks[p] /\ reqToBlocks'[q] = reqToBlocks[q]
      BY <2>1, Zenon
    <3> QED  BY <1>0, <3>1, Zenon DEF KVInv, HashesSound
  <2> QED  BY <1>0, <2>2, <2>3, Zenon DEF KVInv, HashesSound
<1> QED  BY <1>10, <1>11, <1>12, Zenon DEF KVInv
\* The free queue without the hits: as many blocks as can_allocate counts.
LEMMA UntouchedLemma ==
    ASSUME KVInv, NEW hit \in Seq(Blocks), IsInjective(hit)
    PROVE  /\ Untouched(hit) \in Seq(Blocks) /\ IsInjective(Untouched(hit))
           /\ Range(Untouched(hit)) = Range(freeBlockQueue) \ Range(hit)
           /\ Len(Untouched(hit)) = Len(freeBlockQueue) - Cardinality(Evictable(hit))
           /\ Cardinality(Evictable(hit)) \in Nat
<1> DEFINE F == freeBlockQueue
           U == Untouched(hit)
<1>1. /\ F \in Seq(Blocks) /\ IsInjective(F) /\ Range(F) = {b \in Blocks : refCnt[b] = 0}
  BY Zenon DEF KVInv, KVTypeOK, TablesCounted
<1>2. Range(F) \subseteq Blocks /\ Range(hit) \subseteq Blocks
  BY <1>1, InjectiveLemma
<1> HIDE DEF F
<1>3. U = Only(F, Blocks \ Range(hit))
  BY Zenon DEF Untouched, F
<1>4. U \in Seq(Blocks) /\ IsInjective(U) /\ Range(U) = Range(F) \cap (Blocks \ Range(hit))
  BY <1>1, <1>3, OnlyLemma
<1> HIDE DEF U
<1>5. Range(U) = Range(F) \ Range(hit)
  BY <1>2, <1>4, Zenon
<1>6. Evictable(hit) = Range(F) \cap Range(hit)
  BY <1>1, <1>2, Zenon DEF Evictable
<1>7. /\ IsFiniteSet(Range(F)) /\ Cardinality(Range(F)) = Len(F)
      /\ Cardinality(Range(U)) = Len(U)
  BY <1>1, <1>4, CountLemma, Zenon
<1>8. Cardinality(Range(U)) = Cardinality(Range(F)) - Cardinality(Evictable(hit))
  <2>1. Cardinality(Range(F) \ Range(hit)) =
            Cardinality(Range(F)) - Cardinality(Range(F) \cap Range(hit))
    BY <1>7, FS_Difference, Zenon
  <2> QED  BY <1>5, <1>6, <2>1, Zenon
<1>9. Cardinality(Evictable(hit)) \in Nat
  <2>1. Evictable(hit) \in SUBSET Range(F)
    BY <1>6, Zenon
  <2>2. IsFiniteSet(Evictable(hit))
    BY <1>7, <2>1, FS_Subset, Zenon
  <2> QED  BY <2>2, FS_CardinalityType, Zenon
<1> QED  BY <1>4, <1>5, <1>7, <1>8, <1>9, Zenon DEF F, U

\* The new blocks: taken from the head of the free queue, no hit among them,
\* enough for the tokens, and not past the longest table the model runner has.
LEMMA NewBlocksLemma ==
    ASSUME KVInv, NEW r \in Requests, NEW c \in Nat, NEW n \in Nat, NEW hit,
           GoodHits(r, hit), CanAllocateSlots(r, c, n, hit), c + n <= MaxModelLen,
           Len(reqToBlocks[r]) + Len(hit) <= MaxNumBlocksPerReq
    PROVE  LET new == NewBlocks(r, c, n, hit)
               U == Untouched(hit)
               rest == SubSeq(U, Len(new) + 1, Len(U))
               size == Len(reqToBlocks[r]) + Len(hit) + Len(new)
           IN  /\ new \in Seq(Blocks) /\ IsInjective(new)
               /\ rest \in Seq(Blocks) /\ IsInjective(rest)
               /\ Range(new) \subseteq Range(freeBlockQueue) \ Range(hit)
               /\ Range(rest) = Range(freeBlockQueue) \ (Range(hit) \cup Range(new))
               /\ size <= MaxNumBlocksPerReq
               /\ c + n <= size * BlockSize
<1> DEFINE new == NewBlocks(r, c, n, hit)
           U == Untouched(hit)
           need == NumNewBlocks(r, c, n, hit)
           held == Len(reqToBlocks[r]) + Len(hit)
           cap == MaxNumBlocksPerReq
           all == CDiv(c + n, BlockSize)
           want == need + NumPreallocateBlocks
           m == IF need <= 0 THEN 0 ELSE AtMost(want, AtMost(Len(U), cap - held))
<1>1. /\ U \in Seq(Blocks) /\ IsInjective(U) /\ Range(U) = Range(freeBlockQueue) \ Range(hit)
      /\ need <= Len(U)
  <2>1. hit \in Seq(Blocks) /\ IsInjective(hit)
    BY Zenon DEF GoodHits
  <2>2. need <= Len(freeBlockQueue) - Cardinality(Evictable(hit))
    BY Zenon DEF CanAllocateSlots
  <2> QED  BY <2>1, <2>2, UntouchedLemma, Zenon
<1>2. held \in Nat /\ held <= cap /\ need = all - held
  <2>1. reqToBlocks[r] \in Seq(Blocks) /\ hit \in Seq(Blocks)
    BY Zenon DEF KVInv, KVTypeOK, GoodHits
  <2>2. Len(reqToBlocks[r]) \in Nat /\ Len(hit) \in Nat /\ all \in Nat
    <3>1. BlockSize \in Nat \ {0} /\ c + n \in Nat
      BY KVAssumption
    <3>2. all \in Nat
      BY <3>1, CDivBounds, Zenon
    <3> QED  BY <2>1, <3>2
  <2> HIDE DEF all
  <2>3. need = all - Len(reqToBlocks[r]) - Len(hit)
    BY Zenon DEF NumNewBlocks, all
  <2> QED  BY <2>2, <2>3
<1>3. BlockSize \in Nat \ {0} /\ MaxModelLen \in Nat /\ NumPreallocateTokens \in Nat
  BY KVAssumption, RequestAssumption, Zenon
<1>4. all \in Nat /\ cap \in Nat /\ all <= cap /\ c + n <= all * BlockSize
      /\ NumPreallocateBlocks \in Nat
  <2>1. c + n \in Nat
    OBVIOUS
  <2>2. all \in Nat /\ c + n <= all * BlockSize
    BY <1>3, <2>1, CDivBounds, Zenon
  <2>3. cap \in Nat /\ NumPreallocateBlocks \in Nat
    BY <1>3, CDivBounds, Zenon DEF MaxNumBlocksPerReq, NumPreallocateBlocks
  <2>4. all <= cap
    BY <1>3, <2>1, CDivMonotone, Zenon DEF MaxNumBlocksPerReq
  <2> QED  BY <2>2, <2>3, <2>4, Zenon
<1>5. Len(U) \in Nat
  BY <1>1
<1>6. new = IF need <= 0 THEN <<>>
            ELSE SubSeq(U, 1, AtMost(want, AtMost(Len(U), cap - held)))
  BY Zenon DEF NewBlocks
<1> HIDE DEF new, U, need, held, cap, all
<1>7. m \in 0 .. Len(U) /\ held + m <= cap /\ all <= held + m
  BY <1>1, <1>2, <1>4, <1>5 DEF AtMost
<1>8. new = SubSeq(U, 1, m)
  <2>1. CASE need <= 0
    <3>1. SubSeq(U, 1, 0) = <<>>
      BY SliceEmpty
    <3> QED  BY <1>6, <2>1, <3>1, Zenon
  <2>2. CASE ~(need <= 0)
    BY <1>6, <2>2, Zenon
  <2> QED  BY <2>1, <2>2, Zenon
<1> HIDE DEF m, want
<1> DEFINE rest == SubSeq(U, m + 1, Len(U))
<1>9. /\ new \in Seq(Blocks) /\ Len(new) = m /\ IsInjective(new)
      /\ rest \in Seq(Blocks) /\ IsInjective(rest)
      /\ Range(new) \cap Range(rest) = {} /\ Range(new) \cup Range(rest) = Range(U)
  BY <1>1, <1>7, <1>8, SplitLemma
<1>10. c + n <= (held + m) * BlockSize
  <2>1. held + m \in Nat /\ all <= held + m
    BY <1>2, <1>5, <1>7
  <2> DEFINE x == held + m
  <2> HIDE DEF x
  <2>2. x \in Nat /\ all <= x
    BY <2>1, Zenon DEF x
  <2>3. all * BlockSize <= x * BlockSize
    BY <1>3, <1>4, <2>2
  <2>4. x * BlockSize \in Nat /\ all * BlockSize \in Nat
    BY <1>3, <1>4, <2>2
  <2>5. c + n <= x * BlockSize
    BY <1>4, <2>3, <2>4
  <2> QED  BY <2>5, Zenon DEF x
<1>11. Range(rest) = Range(freeBlockQueue) \ (Range(hit) \cup Range(new))
  BY <1>1, <1>9, Zenon
<1> QED  BY <1>1, <1>7, <1>9, <1>10, <1>11, Zenon DEF new, U, held, cap

\* _cache_full_blocks: the filled blocks of the table that had no hash have that
\* of their place, all other blocks keep what they had.
LEMMA CacheLemma ==
    ASSUME NEW r \in Requests, NEW table \in Seq(Blocks), IsInjective(table),
           NEW c \in Nat, NEW n \in Nat, c + n <= Len(table) * BlockSize,
           NEW kept \in Seq(Blocks), NEW old, DOMAIN old = Blocks, NEW hashes \in Nat,
           numBlockHashes \in [Requests -> Nat],
           CacheFullBlocks(r, table, c, n, kept, old, hashes)
    PROVE  /\ DOMAIN blockHash' = Blocks
           /\ cacheOrder' \in Seq(Blocks)
           /\ numBlockHashes' \in [Requests -> Nat]
           /\ \A k \in 1 .. Len(table) :
                blockHash'[table[k]] =
                    IF EnableCaching /\ k \in FilledBlocks(c, n) /\ old[table[k]] = NoHash
                    THEN HashOf(r, k) ELSE old[table[k]]
           /\ \A b \in Blocks \ Range(table) : blockHash'[b] = old[b]
<1> DEFINE fresh == {k \in FilledBlocks(c, n) : old[table[k]] = NoHash}
           last == (c + n) \div BlockSize
<1>0. BlockSize \in Nat \ {0} /\ Len(table) \in Nat
  BY KVAssumption
<1>1. last \in Nat /\ last * BlockSize <= c + n /\ c \div BlockSize \in Nat
  <2>1. c + n \in Nat
    OBVIOUS
  <2> QED  BY <1>0, <2>1, DivBounds, Zenon
<1>2. last <= Len(table)
  <2> DEFINE l == last
             t == Len(table)
  <2>1. l \in Nat /\ t \in Nat /\ l * BlockSize \in Nat /\ t * BlockSize \in Nat
    BY <1>0, <1>1
  <2>2. l * BlockSize <= c + n /\ c + n <= t * BlockSize
    BY <1>1, Zenon
  <2> HIDE DEF l, t
  <2>3. l * BlockSize < t * BlockSize + BlockSize
    <3> DEFINE u == l * BlockSize
               v == t * BlockSize
    <3>1. u \in Nat /\ v \in Nat /\ u <= c + n /\ c + n <= v
      BY <2>1, <2>2, Zenon
    <3> HIDE DEF u, v
    <3>2. u < v + BlockSize
      BY <1>0, <3>1
    <3> QED  BY <3>2, Zenon DEF u, v
  <2>4. l <= t
    BY <1>0, <2>1, <2>3, MulCancel, Zenon
  <2> QED  BY <2>4, Zenon DEF l, t
<1>3. FilledBlocks(c, n) \subseteq 1 .. last
  BY <1>1 DEF FilledBlocks
<1>4. fresh \subseteq 1 .. last /\ fresh \subseteq 1 .. Len(table)
  BY <1>0, <1>1, <1>2, <1>3
<1>5. \A k, l \in 1 .. Len(table) : table[k] = table[l] => k = l
  BY InjectiveLemma, Zenon
<1>6. /\ Range(table) = {table[k] : k \in 1 .. Len(table)}
      /\ \A k \in 1 .. Len(table) : table[k] \in Blocks
  <2>1. DOMAIN table = 1 .. Len(table)
    OBVIOUS
  <2>2. Range(table) = {table[k] : k \in 1 .. Len(table)}
    BY <2>1, Zenon DEF Range
  <2> QED  BY <2>1, <2>2, ElementLemma, Zenon
<1>7. CASE EnableCaching /\ fresh # {}
  <2>1. /\ blockHash' = [b \in Blocks |->
               IF \E k \in fresh : table[k] = b
               THEN HashOf(r, CHOOSE k \in fresh : table[k] = b) ELSE old[b]]
        /\ cacheOrder' = kept \o SubSeq(table, Min(fresh), last)
        /\ numBlockHashes' = [numBlockHashes EXCEPT ![r] = AtLeast(hashes, last)]
    BY <1>7, Zenon DEF CacheFullBlocks
  <2>2. Min(fresh) \in fresh
    <3>1. fresh \in SUBSET Nat /\ fresh # {}
      BY <1>1, <1>4, <1>7
    <3> HIDE DEF fresh
    <3> QED  BY <3>1, MinExists, Zenon
  <2>3. \A k \in fresh : old[table[k]] = NoHash /\ k \in FilledBlocks(c, n)
    BY Zenon
  <2>4. \A k \in FilledBlocks(c, n) : old[table[k]] = NoHash => k \in fresh
    BY Zenon
  <2> HIDE DEF fresh
  <2>5. SubSeq(table, Min(fresh), last) \in Seq(Blocks)
    <3>0. last \in Int
      BY <1>1
    <3>1. Min(fresh) \in 1 .. Len(table)
      BY <1>4, <2>2, Zenon
    <3> DEFINE m == Min(fresh)
    <3> HIDE DEF m
    <3>2. m \in 1 .. Len(table)
      BY <3>1, Zenon DEF m
    <3>3. \A i \in m .. last : table[i] \in Blocks
      BY <1>0, <1>1, <1>2, <1>6, <3>2
    <3>4. SubSeq(table, m, last) \in Seq(Blocks)
      BY <3>0, <3>2, <3>3, SliceLemma
    <3> QED  BY <3>4, Zenon DEF m
  <2>6. cacheOrder' \in Seq(Blocks)
    BY <2>1, <2>5
  <2>7. numBlockHashes' \in [Requests -> Nat]
    BY <1>1, <2>1, Zenon DEF AtLeast
  <2>8. \A k \in fresh : blockHash'[table[k]] = HashOf(r, k)
    <3> TAKE k \in fresh
    <3> DEFINE l == CHOOSE i \in fresh : table[i] = table[k]
    <3>1. l \in fresh /\ table[l] = table[k]
      BY Zenon
    <3>2. l = k
      BY <1>4, <1>5, <3>1, Zenon
    <3>3. table[k] \in Blocks
      BY <1>4, <1>6, Zenon
    <3> QED  BY <2>1, <3>2, <3>3, Zenon
  <2>9. \A b \in Blocks : (\A k \in fresh : table[k] # b) => blockHash'[b] = old[b]
    BY <2>1, Zenon
  <2>10. ASSUME NEW k \in 1 .. Len(table), k \notin fresh
         PROVE  blockHash'[table[k]] = old[table[k]]
    <3>1. \A l \in fresh : table[l] # table[k]
      BY <1>4, <1>5, <2>10, Zenon
    <3> QED  BY <1>6, <2>9, <3>1, Zenon
  <2>11. \A b \in Blocks \ Range(table) : \A k \in fresh : table[k] # b
    BY <1>4, <1>6, Zenon
  <2>12. \A k \in 1 .. Len(table) :
            blockHash'[table[k]] =
                IF EnableCaching /\ k \in FilledBlocks(c, n) /\ old[table[k]] = NoHash
                THEN HashOf(r, k) ELSE old[table[k]]
    BY <1>7, <2>3, <2>4, <2>8, <2>10, Zenon
  <2>13. DOMAIN blockHash' = Blocks
    BY <2>1, Zenon
  <2> QED  BY <2>6, <2>7, <2>9, <2>11, <2>12, <2>13, Zenon
<1>8. CASE ~(EnableCaching /\ fresh # {})
  <2>1. /\ blockHash' = old /\ cacheOrder' = kept
        /\ numBlockHashes' = [numBlockHashes EXCEPT ![r] = hashes]
    BY <1>8, Zenon DEF CacheFullBlocks
  <2> QED  BY <1>8, <2>1, Zenon
<1> QED  BY <1>7, <1>8, Zenon

\* allocate_slots: the counts and the hashes stay sound, nothing of another
\* request changes, and r has room for its tokens in blocks that are its own or
\* hits.  In its table exactly the blocks that were hashed and those that the
\* tokens fill are hashed.
LEMMA AllocateSlotsInv ==
    ASSUME KVInv, NEW r \in Requests, NEW c \in Nat, NEW n \in Nat, NEW hit,
           NEW hashes \in Nat, GoodHits(r, hit), c + n <= MaxModelLen,
           Len(reqToBlocks[r]) + Len(hit) <= MaxNumBlocksPerReq,
           AllocateSlots(r, c, n, hit, hashes)
    PROVE  LET table == reqToBlocks'[r]
               held == Len(reqToBlocks[r]) + Len(hit)
           IN  /\ KVInv'
               /\ \A q \in Requests : q # r =>
                    /\ reqToBlocks'[q] = reqToBlocks[q]
                    /\ \A b \in Range(reqToBlocks[q]) : blockHash'[b] = blockHash[b]
               /\ Len(table) <= MaxNumBlocksPerReq /\ c + n <= Len(table) * BlockSize
               /\ held <= Len(table)
               /\ \A k \in 1 .. Len(reqToBlocks[r]) : table[k] = reqToBlocks[r][k]
               /\ \A k \in Len(reqToBlocks[r]) + 1 .. held : blockHash[table[k]] # NoHash
               /\ \A k \in held + 1 .. Len(table) : \A q \in Requests :
                    table[k] \notin Range(reqToBlocks[q])
               /\ EnableCaching => \A k \in 1 .. Len(table) :
                    blockHash'[table[k]] # NoHash <=>
                        \/ k <= held /\ blockHash[table[k]] # NoHash
                        \/ k \in FilledBlocks(c, n)
<1> DEFINE new == NewBlocks(r, c, n, hit)
           U == Untouched(hit)
           rest == SubSeq(U, Len(new) + 1, Len(U))
           T == reqToBlocks[r]
           base == T \o hit
           held == Len(T) + Len(hit)
           table == base \o new
           evicted == HashesAfterEviction(new)
           kept == Only(cacheOrder, {b \in Blocks : evicted[b] # NoHash})
<1>1. /\ CanAllocateSlots(r, c, n, hit)
      /\ refCnt' = [b \in Blocks |-> IF b \in Range(hit \o new) THEN refCnt[b] + 1 ELSE refCnt[b]]
      /\ freeBlockQueue' = rest
      /\ reqToBlocks' = [reqToBlocks EXCEPT ![r] = table]
      /\ CacheFullBlocks(r, table, c, n, kept, evicted, hashes)
  BY Zenon DEF AllocateSlots
<1>2. /\ new \in Seq(Blocks) /\ IsInjective(new)
      /\ rest \in Seq(Blocks) /\ IsInjective(rest)
      /\ Range(new) \subseteq Range(freeBlockQueue) \ Range(hit)
      /\ Range(rest) = Range(freeBlockQueue) \ (Range(hit) \cup Range(new))
      /\ held + Len(new) <= MaxNumBlocksPerReq
      /\ c + n <= (held + Len(new)) * BlockSize
  BY <1>1, NewBlocksLemma, Zenon
<1>3. /\ hit \in Seq(Blocks) /\ IsInjective(hit) /\ (hit # <<>> => T = <<>>)
      /\ \A k \in 1 .. Len(hit) : blockHash[hit[k]] = HashOf(r, k)
  BY Zenon DEF GoodHits
<1>4. /\ refCnt \in [Blocks -> Nat] /\ DOMAIN blockHash = Blocks
      /\ freeBlockQueue \in Seq(Blocks) /\ cacheOrder \in Seq(Blocks)
      /\ reqToBlocks \in [Requests -> Seq(Blocks)] /\ numBlockHashes \in [Requests -> Nat]
  BY Zenon DEF KVInv, KVTypeOK
<1>5. /\ \A q \in Requests : IsInjective(reqToBlocks[q])
      /\ \A b \in Blocks : refCnt[b] = Cardinality(Users(b))
      /\ Range(freeBlockQueue) = {b \in Blocks : refCnt[b] = 0}
  BY Zenon DEF KVInv, TablesCounted
<1>6. T \in Seq(Blocks) /\ IsInjective(T)
  BY <1>4, <1>5, Zenon
<1> HIDE DEF new, rest, T
<1>7. \A b \in Range(new) : b \in Blocks /\ \A q \in Requests : b \notin Range(reqToBlocks[q])
  <2> TAKE b \in Range(new)
  <2>1. b \in Blocks /\ refCnt[b] = 0
    BY <1>2, <1>5, Zenon
  <2>2. Users(b) = {}
    BY <1>5, <2>1, UsersLemma, Zenon
  <2> QED  BY <2>1, <2>2, Zenon DEF Users
<1>8. Range(T) \cap Range(hit) = {}
  <2>1. CASE hit = <<>>
    BY <2>1 DEF Range
  <2>2. CASE hit # <<>>
    BY <1>3, <2>2 DEF Range
  <2> QED  BY <2>1, <2>2, Zenon
<1>9. /\ base \in Seq(Blocks) /\ Len(base) = held /\ IsInjective(base)
      /\ Range(base) = Range(T) \cup Range(hit)
      /\ \A k \in 1 .. Len(T) : base[k] = T[k]
      /\ \A k \in Len(T) + 1 .. held : base[k] = hit[k - Len(T)]
  BY <1>3, <1>6, <1>8, ConcatLemma
<1> HIDE DEF base
<1>10. Range(base) \cap Range(new) = {}
  <2>1. Range(T) \cap Range(new) = {}
    BY <1>7, Zenon DEF T
  <2> QED  BY <1>2, <1>9, <2>1, Zenon
<1>11. /\ table \in Seq(Blocks) /\ Len(table) = Len(base) + Len(new) /\ IsInjective(table)
       /\ Range(table) = Range(base) \cup Range(new)
       /\ \A k \in 1 .. Len(base) : table[k] = base[k]
       /\ \A k \in Len(base) + 1 .. Len(base) + Len(new) : table[k] = new[k - Len(base)]
  <2>1. base \in Seq(Blocks) /\ IsInjective(base) /\ new \in Seq(Blocks) /\ IsInjective(new)
    BY <1>2, <1>9, Zenon
  <2> QED  BY <1>10, <2>1, ConcatLemma
<1> HIDE DEF table
<1>12. Len(T) \in Nat /\ Len(hit) \in Nat /\ Len(new) \in Nat /\ held \in Nat
  <2>1. T \in Seq(Blocks) /\ hit \in Seq(Blocks) /\ new \in Seq(Blocks)
    BY <1>2, <1>3, <1>6, Zenon
  <2> QED  BY <2>1
<1> HIDE DEF held
<1>13. /\ held <= Len(table) /\ Len(table) = held + Len(new)
       /\ Len(table) <= MaxNumBlocksPerReq /\ c + n <= Len(table) * BlockSize
  BY <1>2, <1>9, <1>11, <1>12
<1>14. /\ \A k \in 1 .. held : table[k] \in Range(base)
       /\ \A k \in held + 1 .. Len(table) : table[k] \in Range(new)
  <2>1. \A k \in 1 .. held : table[k] \in Range(base)
    BY <1>9, <1>11, InjectiveLemma
  <2>2. ASSUME NEW k \in held + 1 .. Len(table) PROVE table[k] \in Range(new)
    <3>1. k - held \in 1 .. Len(new) /\ table[k] = new[k - held]
      BY <1>9, <1>11, <1>12, <1>13
    <3> QED  BY <1>2, <3>1, InjectiveLemma
  <2> QED  BY <2>1, <2>2, Zenon
<1>15. /\ \A q \in Requests : q # r => reqToBlocks'[q] = reqToBlocks[q]
       /\ reqToBlocks'[r] = table
       /\ reqToBlocks' \in [Requests -> Seq(Blocks)]
  BY <1>1, <1>4, <1>11, Zenon
\* The counts.
<1>16. Range(hit \o new) = Range(hit) \cup Range(new)
  BY <1>2, <1>3, ConcatLemma
<1>17. \A b \in Blocks : refCnt'[b] = Cardinality(Users(b)')
  <2> TAKE b \in Blocks
  <2>1. refCnt'[b] = IF b \in Range(hit) \cup Range(new) THEN refCnt[b] + 1 ELSE refCnt[b]
    BY <1>1, <1>16, Zenon
  <2>2. IsFiniteSet(Users(b)) /\ refCnt[b] = Cardinality(Users(b))
    BY <1>5, UsersLemma, Zenon
  <2>3. r \in Users(b) <=> b \in Range(T)
    BY Zenon DEF Users, T
  <2>4. b \in Range(table) <=> b \in Range(T) \/ b \in Range(hit) \cup Range(new)
    BY <1>9, <1>11, Zenon
  <2>5. Users(b)' = {q \in Requests : b \in Range(reqToBlocks'[q])}
    BY Zenon DEF Users
  <2>6. CASE b \in Range(hit) \cup Range(new)
    <3>1. r \notin Users(b)
      BY <1>7, <1>8, <2>3, <2>6, Zenon DEF T
    <3>2. Users(b)' = Users(b) \cup {r}
      BY <1>15, <2>4, <2>5, <2>6, Zenon DEF Users
    <3>3. Cardinality(Users(b) \cup {r}) = Cardinality(Users(b)) + 1
      BY <2>2, <3>1, FS_AddElement, Zenon
    <3> QED  BY <2>1, <2>2, <2>6, <3>2, <3>3, Zenon
  <2>7. CASE b \notin Range(hit) \cup Range(new)
    <3>1. Users(b)' = Users(b)
      BY <1>15, <2>3, <2>4, <2>5, <2>7, Zenon DEF Users
    <3> QED  BY <2>1, <2>2, <2>7, <3>1, Zenon
  <2> QED  BY <2>6, <2>7, Zenon
<1>18. Range(freeBlockQueue') = {b \in Blocks : refCnt'[b] = 0}
  <2>1. \A b \in Blocks : refCnt'[b] = 0 <=> (refCnt[b] = 0 /\ b \notin Range(hit) \cup Range(new))
    <3> TAKE b \in Blocks
    <3>1. refCnt'[b] = IF b \in Range(hit) \cup Range(new) THEN refCnt[b] + 1 ELSE refCnt[b]
      BY <1>1, <1>16, Zenon
    <3>2. refCnt[b] \in Nat BY <1>4, Zenon
    <3> QED  BY <3>1, <3>2
  <2> QED  BY <1>1, <1>2, <1>5, <2>1, Zenon
<1>19. TablesCounted'
  <2>1. \A q \in Requests : IsInjective(reqToBlocks'[q])
    BY <1>5, <1>11, <1>15, Zenon
  <2>2. IsInjective(freeBlockQueue')
    BY <1>1, <1>2, Zenon
  <2> QED  BY <1>17, <1>18, <2>1, <2>2, Zenon DEF TablesCounted
\* The hashes.
<1>20. /\ DOMAIN evicted = Blocks
       /\ \A b \in Blocks : evicted[b] = IF b \in Range(new) THEN NoHash ELSE blockHash[b]
  BY Zenon DEF HashesAfterEviction, KVInv, HashesSound
<1> HIDE DEF evicted
<1>21. kept \in Seq(Blocks)
  BY <1>4, OnlyLemma, Zenon
<1> HIDE DEF kept
<1>22. /\ DOMAIN blockHash' = Blocks
       /\ cacheOrder' \in Seq(Blocks)
       /\ numBlockHashes' \in [Requests -> Nat]
       /\ \A k \in 1 .. Len(table) :
            blockHash'[table[k]] =
                IF EnableCaching /\ k \in FilledBlocks(c, n) /\ evicted[table[k]] = NoHash
                THEN HashOf(r, k) ELSE evicted[table[k]]
       /\ \A b \in Blocks \ Range(table) : blockHash'[b] = evicted[b]
  <2>1. /\ table \in Seq(Blocks) /\ IsInjective(table) /\ c + n <= Len(table) * BlockSize
        /\ numBlockHashes \in [Requests -> Nat] /\ DOMAIN evicted = Blocks
        /\ CacheFullBlocks(r, table, c, n, kept, evicted, hashes)
    BY <1>1, <1>4, <1>11, <1>13, <1>20, Zenon
  <2> QED  BY <1>21, <2>1, CacheLemma
<1>23. KVTypeOK'
  <2>1. refCnt' \in [Blocks -> Nat]
    BY <1>1, <1>4
  <2> QED  BY <1>1, <1>2, <1>15, <1>22, <2>1, Zenon DEF KVTypeOK
<1>24. \A k \in 1 .. Len(table) : table[k] \in Blocks
  BY <1>11, InjectiveLemma
<1>25. \A b \in Range(hit) : blockHash[b] # NoHash
  <2> TAKE b \in Range(hit)
  <2>1. PICK k \in 1 .. Len(hit) : b = hit[k]
    BY <1>3, InjectiveLemma
  <2>2. k \in Nat \ {0}
    BY <1>12
  <2> QED  BY <1>3, <2>1, <2>2, HashLemma, Zenon
<1>26. \A k \in 1 .. held : /\ evicted[table[k]] = blockHash[table[k]]
                            /\ blockHash[table[k]] \in {NoHash, HashOf(r, k)}
  <2> TAKE k \in 1 .. held
  <2>0. table[k] \notin Range(new) /\ k \in 1 .. Len(table)
    BY <1>10, <1>12, <1>13, <1>14
  <2>1. evicted[table[k]] = blockHash[table[k]]
    BY <1>20, <1>24, <2>0, Zenon
  <2>2. CASE k \in 1 .. Len(T)
    <3>1. table[k] = reqToBlocks[r][k]
      BY <1>9, <1>11, <1>12, <2>2, Zenon DEF T
    <3> QED  BY <2>1, <2>2, <3>1, Zenon DEF KVInv, HashesSound, T
  <2>3. CASE k \notin 1 .. Len(T)
    <3>1. k - Len(T) \in 1 .. Len(hit) /\ table[k] = hit[k - Len(T)]
      BY <1>9, <1>11, <1>12, <2>3 DEF held
    <3>2. hit # <<>>
      BY <3>1
    <3>3. Len(T) = 0
      BY <1>3, <3>2
    <3>4. table[k] = hit[k] /\ k \in 1 .. Len(hit)
      BY <3>1, <3>3
    <3> QED  BY <1>3, <2>1, <3>4, Zenon
  <2> QED  BY <2>2, <2>3, Zenon
<1>27. \A k \in 1 .. Len(table) : blockHash'[table[k]] \in {NoHash, HashOf(r, k)}
  <2> TAKE k \in 1 .. Len(table)
  <2>1. CASE k \in 1 .. held
    BY <1>22, <1>26, <2>1, Zenon
  <2>2. CASE k \in held + 1 .. Len(table)
    <3>1. evicted[table[k]] = NoHash
      BY <1>14, <1>20, <1>24, <2>2, Zenon
    <3> QED  BY <1>22, <3>1, Zenon
  <2>3. k \in 1 .. held \/ k \in held + 1 .. Len(table)
    BY <1>12, <1>13
  <2> QED  BY <2>1, <2>2, <2>3, Zenon
<1>28. ASSUME NEW q \in Requests, q # r, NEW b \in Range(reqToBlocks[q])
       PROVE  /\ blockHash'[b] = blockHash[b]
              /\ b \in Range(table) => blockHash[b] # NoHash
  <2>1. b \in Blocks /\ b \notin Range(new)
    <3>1. reqToBlocks[q] \in Seq(Blocks)
      BY <1>4, Zenon
    <3>2. b \in Blocks
      BY <3>1, InjectiveLemma
    <3> QED  BY <1>7, <3>2, Zenon
  <2>2. evicted[b] = blockHash[b]
    BY <1>20, <2>1, Zenon
  <2>3. b \in Range(T) => blockHash[b] # NoHash
    BY <1>28, Zenon DEF KVInv, HashesSound, T
  <2>4. b \in Range(table) => blockHash[b] # NoHash
    BY <1>9, <1>11, <1>25, <2>1, <2>3, Zenon
  <2>5. CASE b \in Range(table)
    <3>1. PICK k \in 1 .. Len(table) : b = table[k]
      BY <1>11, <2>5, InjectiveLemma
    <3> QED  BY <1>22, <2>2, <2>4, <2>5, <3>1, Zenon
  <2>6. CASE b \notin Range(table)
    BY <1>22, <2>1, <2>2, <2>6, Zenon
  <2> QED  BY <2>4, <2>5, <2>6, Zenon
<1>29. HashesSound'
  <2>1. ASSUME NEW q \in Requests, NEW k \in 1 .. Len(reqToBlocks'[q])
        PROVE  blockHash'[reqToBlocks'[q][k]] \in {NoHash, HashOf(q, k)}
    <3>1. CASE q = r
      BY <1>15, <1>27, <2>1, <3>1, Zenon
    <3>2. CASE q # r
      <4>1. reqToBlocks'[q] = reqToBlocks[q] /\ reqToBlocks[q] \in Seq(Blocks)
        BY <1>4, <1>15, <3>2, Zenon
      <4>2. reqToBlocks[q][k] \in Range(reqToBlocks[q])
        BY <2>1, <4>1, InjectiveLemma
      <4>3. blockHash[reqToBlocks[q][k]] \in {NoHash, HashOf(q, k)}
        BY <2>1, <4>1, Zenon DEF KVInv, HashesSound
      <4> QED  BY <1>28, <3>2, <4>1, <4>2, <4>3, Zenon
    <3> QED  BY <3>1, <3>2, Zenon
  <2>2. ASSUME NEW p \in Requests, NEW q \in Requests, p # q,
               NEW b \in Range(reqToBlocks'[p]) \cap Range(reqToBlocks'[q])
        PROVE  blockHash'[b] # NoHash
    <3>1. CASE p = r
      <4>1. b \in Range(table) /\ b \in Range(reqToBlocks[q])
        BY <1>15, <2>2, <3>1, Zenon
      <4> QED  BY <1>28, <2>2, <3>1, <4>1, Zenon
    <3>2. CASE q = r
      <4>1. b \in Range(table) /\ b \in Range(reqToBlocks[p])
        BY <1>15, <2>2, <3>2, Zenon
      <4> QED  BY <1>28, <2>2, <3>2, <4>1, Zenon
    <3>3. CASE p # r /\ q # r
      <4>1. b \in Range(reqToBlocks[p]) \cap Range(reqToBlocks[q])
        BY <1>15, <2>2, <3>3, Zenon
      <4>2. blockHash[b] # NoHash
        BY <2>2, <4>1, Zenon DEF KVInv, HashesSound
      <4> QED  BY <1>28, <3>3, <4>1, <4>2, Zenon
    <3> QED  BY <3>1, <3>2, <3>3, Zenon
  <2>3. ASSUME ~EnableCaching, NEW b \in Blocks PROVE blockHash'[b] = NoHash
    <3>1. evicted[b] = NoHash
      BY <1>20, <2>3, Zenon DEF KVInv, HashesSound
    <3>2. CASE b \in Range(table)
      <4>1. PICK k \in 1 .. Len(table) : b = table[k]
        BY <1>11, <3>2, InjectiveLemma
      <4> QED  BY <1>22, <2>3, <3>1, <4>1, Zenon
    <3>3. CASE b \notin Range(table)
      BY <1>22, <3>1, <3>3, Zenon
    <3> QED  BY <3>2, <3>3, Zenon
  <2> QED  BY <2>1, <2>2, <2>3, Zenon DEF HashesSound
<1>30. KVInv'
  BY <1>19, <1>23, <1>29, Zenon DEF KVInv
<1>31. \A k \in 1 .. Len(T) : table[k] = T[k]
  BY <1>9, <1>11, <1>12 DEF held
<1>32. \A k \in held + 1 .. Len(table) : \A q \in Requests : table[k] \notin Range(reqToBlocks[q])
  BY <1>7, <1>14, Zenon
<1>33. ASSUME EnableCaching, NEW k \in 1 .. Len(table)
       PROVE  blockHash'[table[k]] # NoHash <=>
                 \/ k <= held /\ blockHash[table[k]] # NoHash
                 \/ k \in FilledBlocks(c, n)
  <2>0. HashOf(r, k) # NoHash /\ k \in Nat
    <3>1. k \in Nat \ {0}
      BY <1>12, <1>13
    <3> QED  BY <3>1, HashLemma, Zenon
  <2>1. CASE k \in 1 .. held
    <3>1. k <= held
      BY <1>12, <2>1
    <3> QED  BY <1>22, <1>26, <1>33, <2>0, <2>1, <3>1, Zenon
  <2>2. CASE k \in held + 1 .. Len(table)
    <3>1. evicted[table[k]] = NoHash
      BY <1>14, <1>20, <1>24, <2>2, Zenon
    <3>2. ~(k <= held)
      BY <1>12, <2>2
    <3> QED  BY <1>22, <1>33, <2>0, <3>1, <3>2, Zenon
  <2>3. k \in 1 .. held \/ k \in held + 1 .. Len(table)
    BY <1>12, <1>13
  <2> QED  BY <2>1, <2>2, <2>3, Zenon
<1>34. ASSUME NEW k \in Len(T) + 1 .. held PROVE blockHash[table[k]] # NoHash
  <2>1. k \in 1 .. held /\ k - Len(T) \in 1 .. Len(hit)
    BY <1>12 DEF held
  <2>2. table[k] = hit[k - Len(T)]
    BY <1>9, <1>11, <2>1, Zenon
  <2> QED  BY <1>3, <1>25, <2>1, <2>2, InjectiveLemma
<1> QED  BY <1>13, <1>15, <1>28, <1>30, <1>31, <1>32, <1>33, <1>34, Zenon DEF T, held

\* The lookup: every block it returns carries the hash of its place.
LEMMA LookupLemma ==
    ASSUME KVTypeOK, NEW r, NEW n, NumHashesOnLookup(r, n) \in Nat
    PROVE  LET hit == GetComputedBlocks(r, n)
           IN  /\ hit \in Seq(Blocks)
               /\ \A k \in 1 .. Len(hit) : blockHash[hit[k]] = HashOf(r, k)
<1> DEFINE hit == GetComputedBlocks(r, n)
           h == NumHashesOnLookup(r, n)
           I(x) == {i \in DOMAIN cacheOrder : blockHash[cacheOrder[i]] = x}
           T == {k \in 0 .. h : \A j \in 1 .. k : IsCached(HashOf(r, j))}
           m == Max(T)
<1>1. cacheOrder \in Seq(Blocks)
  BY Zenon DEF KVTypeOK
<1>2. ASSUME NEW x, IsCached(x) PROVE CachedBlock(x) \in Blocks /\ blockHash[CachedBlock(x)] = x
  <2>1. I(x) # {}
    BY <1>2, Zenon DEF IsCached
  <2>2. I(x) \in SUBSET Nat
    BY <1>1
  <2>3. CachedBlock(x) = cacheOrder[Min(I(x))]
    BY Zenon DEF CachedBlock
  <2>4. Min(I(x)) \in I(x)
    BY <2>1, <2>2, MinExists, Zenon
  <2>5. Min(I(x)) \in DOMAIN cacheOrder /\ blockHash[cacheOrder[Min(I(x))]] = x
    BY <2>4, Zenon
  <2> DEFINE i == Min(I(x))
  <2> HIDE DEF I, i
  <2>6. i \in DOMAIN cacheOrder /\ blockHash[cacheOrder[i]] = x /\ CachedBlock(x) = cacheOrder[i]
    BY <2>3, <2>5, Zenon DEF i
  <2> QED  BY <1>1, <2>6, ElementLemma
<1>3. CASE EnableCaching
  <2>1. 0 \in T /\ T \in SUBSET (0 .. h)
    OBVIOUS
  <2>2. m \in T
    BY <2>1, MaxExists, Zenon
  <2>3. m \in Nat /\ \A j \in 1 .. m : IsCached(HashOf(r, j))
    BY <2>2
  <2>4. hit = [k \in 1 .. m |-> CachedBlock(HashOf(r, k))]
    BY <1>3, Zenon DEF GetComputedBlocks, NumCachedPrefix
  <2> HIDE DEF m, hit
  <2>5. hit \in Seq(Blocks) /\ Len(hit) = m
    BY <1>2, <2>3, <2>4
  <2> QED  BY <1>2, <2>3, <2>4, <2>5, Zenon DEF hit
<1>4. CASE ~EnableCaching
  BY <1>4 DEF GetComputedBlocks
<1> QED  BY <1>3, <1>4, Zenon

\* Blocks that carry the hashes of their places are all different.
LEMMA HitsLemma ==
    ASSUME NEW r, NEW hit \in Seq(Blocks), reqToBlocks[r] = <<>>,
           \A k \in 1 .. Len(hit) : blockHash[hit[k]] = HashOf(r, k)
    PROVE  GoodHits(r, hit)
<1> SUFFICES ASSUME NEW j \in 1 .. Len(hit), NEW k \in 1 .. Len(hit), hit[j] = hit[k]
             PROVE  j = k
  BY InjectiveLemma, Zenon DEF GoodHits
<1>1. HashOf(r, j) = HashOf(r, k)
  BY Zenon
<1>2. j \in Nat \ {0} /\ k \in Nat \ {0}
  OBVIOUS
<1> QED  BY <1>1, <1>2, HashLemma, Zenon

\* reset_prefix_cache: with every block free, no table holds one.
LEMMA ResetInv ==
    ASSUME KVInv, ResetPrefixCache
    PROVE  KVInv' /\ \A r \in Requests : reqToBlocks[r] = <<>>
<1>1. /\ Len(freeBlockQueue) = NumGpuBlocks
      /\ blockHash' = [b \in Blocks |-> NoHash] /\ cacheOrder' = <<>>
      /\ UNCHANGED <<refCnt, freeBlockQueue, reqToBlocks, numBlockHashes>>
  BY Zenon DEF ResetPrefixCache
<1>2. /\ freeBlockQueue \in Seq(Blocks) /\ IsInjective(freeBlockQueue)
      /\ Range(freeBlockQueue) = {b \in Blocks : refCnt[b] = 0}
      /\ reqToBlocks \in [Requests -> Seq(Blocks)]
  BY Zenon DEF KVInv, KVTypeOK, TablesCounted
<1>3. IsFiniteSet(Blocks) /\ Cardinality(Blocks) = NumGpuBlocks
  <2>1. NumGpuBlocks \in Nat \ {0}
    BY KVAssumption, Zenon
  <2>2. 0 \in Int /\ NumGpuBlocks - 1 \in Int /\ 0 <= NumGpuBlocks - 1
    BY <2>1
  <2>3. IsFiniteSet(Blocks) /\ Cardinality(Blocks) = (NumGpuBlocks - 1) - 0 + 1
    BY <2>2, FS_Interval DEF Blocks
  <2> QED  BY <2>1, <2>3
<1>4. Range(freeBlockQueue) = Blocks
  <2>1. Cardinality(Range(freeBlockQueue)) = NumGpuBlocks
    BY <1>1, <1>2, CountLemma, Zenon
  <2>2. Range(freeBlockQueue) \in SUBSET Blocks
    BY <1>2, Zenon
  <2> QED  BY <1>3, <2>1, <2>2, FS_Subset, Zenon
<1>5. ASSUME NEW r \in Requests PROVE reqToBlocks[r] = <<>>
  <2>1. reqToBlocks[r] \in Seq(Blocks)
    BY <1>2, Zenon
  <2>2. SUFFICES ASSUME Len(reqToBlocks[r]) # 0 PROVE FALSE
    BY <2>1
  <2>3. 1 \in 1 .. Len(reqToBlocks[r])
    BY <2>1, <2>2
  <2> DEFINE b == reqToBlocks[r][1]
  <2>4. b \in Range(reqToBlocks[r]) /\ b \in Blocks
    BY <2>1, <2>3, InjectiveLemma
  <2>5. refCnt[b] = 0 /\ refCnt[b] = Cardinality(Users(b))
    BY <1>2, <1>4, <2>4, Zenon DEF KVInv, TablesCounted
  <2>6. Users(b) = {}
    BY <2>5, UsersLemma, Zenon
  <2> QED  BY <2>4, <2>6, Zenon DEF Users
<1>6. KVTypeOK'
  BY <1>1 DEF KVInv, KVTypeOK
<1>7. TablesCounted'
  <2>1. \A b : Users(b)' = Users(b)
    BY <1>1, Zenon DEF Users
  <2> QED  BY <1>1, <2>1, Zenon DEF KVInv, TablesCounted
<1>8. HashesSound'
  <2>1. \A r \in Requests : Len(reqToBlocks'[r]) = 0 /\ Range(reqToBlocks'[r]) = {}
    BY <1>1, <1>5 DEF Range
  <2>2. \A b \in Blocks : blockHash'[b] = NoHash
    BY <1>1, Zenon
  <2> QED  BY <2>1, <2>2 DEF HashesSound
<1> QED  BY <1>5, <1>6, <1>7, <1>8, Zenon DEF KVInv
=============================================================================
