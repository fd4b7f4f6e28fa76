----------------------- MODULE SchedulerBlocks_proofs -----------------------
(***************************************************************************)
(* Proofs about the blocks of the requests the Scheduler runs: no block is *)
(* lost or freed twice, a prefix hit holds the tokens it is taken for, and *)
(* nobody writes to a block another request reads.                         *)
(*                                                                         *)
(* BInv relates the tables of KVCacheManager to how far the Scheduler has  *)
(* brought each request.                                                   *)
(***************************************************************************)
EXTENDS Scheduler_proofs, KVCacheManager_proofs

\* From the first request of schedule() to its output.
InSchedule == pc \in {"running", "waiting", "build", "output"}

\* The tokens scheduled for r that its num_computed_tokens does not count yet.
Pending(r) ==
    IF InSchedule \/ (pc = "update" /\ r \in Range(SubSeq(running, reqIndex, Len(running))))
    THEN numScheduledTokens[r] ELSE 0

\* The tokens whose blocks r has, or is about to fill.
Progress(r) == numComputedTokens[r] + Pending(r)

\* The requests that the scheduler has not finished.
Live == {"WAITING", "RUNNING", "PREEMPTED"}

\* Only running requests have blocks, enough of them for what is scheduled;
\* the full ones, and no other, are hashed; and a block in two tables is full
\* for one of the requests, so it is not written any more.
TablesOK ==
    /\ \A r \in Requests : reqToBlocks[r] # <<>> => status[r] = "RUNNING"
    /\ \A r \in Requests : status[r] \in Live => numTokens[r] < MaxModelLen
    /\ \A r \in Requests : status[r] = "RUNNING" => Progress(r) <= Len(reqToBlocks[r]) * BlockSize
    /\ \A r \in Requests : \A k \in 1 .. Len(reqToBlocks[r]) :
            EnableCaching =>
                (blockHash[reqToBlocks[r][k]] # NoHash <=> k * BlockSize <= Progress(r))
    /\ \A q, r \in Requests : q # r =>
            \A j \in 1 .. Len(reqToBlocks[q]), k \in 1 .. Len(reqToBlocks[r]) :
                reqToBlocks[q][j] = reqToBlocks[r][k] =>
                    \/ j * BlockSize <= numComputedTokens[q]
                    \/ k * BlockSize <= numComputedTokens[r]

\* The inductive invariant.
BInv ==
    /\ KVInv
    /\ \A r \in Requests : Len(reqToBlocks[r]) <= MaxNumBlocksPerReq
    /\ pc # "dead" => TablesOK

\* A step that leaves the blocks and what the requests have computed alone.
LEMMA FrameBlocks ==
    ASSUME BInv, UNCHANGED <<refCnt, blockHash, freeBlockQueue, cacheOrder, reqToBlocks>>,
           UNCHANGED <<status, numTokens, numComputedTokens>>,
           numBlockHashes' \in [Requests -> Nat],
           pc = "dead" => pc' = "dead",
           \A r \in Requests : pc' # "dead" => Pending(r)' = Pending(r)
    PROVE  BInv'
<1>1. KVInv'
  <2>1. \A b : Users(b)' = Users(b)
    BY Zenon DEF Users
  <2>2. KVTypeOK'
    BY Zenon DEF BInv, KVInv, KVTypeOK
  <2>3. TablesCounted'
    BY <2>1, Zenon DEF BInv, KVInv, TablesCounted
  <2>4. HashesSound'
    BY Zenon DEF BInv, KVInv, HashesSound
  <2> QED  BY <2>2, <2>3, <2>4, Zenon DEF KVInv
<1>2. ASSUME pc' # "dead" PROVE TablesOK'
  <2>1. \A r \in Requests : Progress(r)' = Progress(r)
    BY <1>2, Zenon DEF Progress
  <2>2. TablesOK
    BY <1>2, Zenon DEF BInv
  <2>3. \A r \in Requests : status'[r] = "RUNNING" => Progress(r)' <= Len(reqToBlocks'[r]) * BlockSize
    BY <2>1, <2>2, Zenon DEF TablesOK
  <2>4. \A r \in Requests : \A k \in 1 .. Len(reqToBlocks'[r]) :
            EnableCaching =>
                (blockHash'[reqToBlocks'[r][k]] # NoHash <=> k * BlockSize <= Progress(r)')
    BY <2>1, <2>2, Zenon DEF TablesOK
  <2> QED  BY <2>2, <2>3, <2>4, Zenon DEF TablesOK
<1> QED  BY <1>1, <1>2, Zenon DEF BInv

\* A step that frees the blocks of r, which leaves the running list.
LEMMA FreeBlocks ==
    ASSUME BInv, IInv, NEW r \in Requests, Free(r), NEW x \in Status \ {"RUNNING"},
           status' = [status EXCEPT ![r] = x],
           numTokens' \in [Requests -> Nat],
           x \in Live => numTokens'[r] < MaxModelLen,
           pc # "dead",
           \A q \in Requests : q # r => /\ numComputedTokens'[q] = numComputedTokens[q]
                                        /\ numTokens'[q] = numTokens[q]
                                        /\ pc' # "dead" => Pending(q)' = Pending(q)
    PROVE  BInv'
<1>1. KVInv'
  BY FreeInv, Zenon DEF BInv
<1>2. /\ reqToBlocks' = [reqToBlocks EXCEPT ![r] = <<>>] /\ blockHash' = blockHash
      /\ reqToBlocks \in [Requests -> Seq(Blocks)] /\ status \in [Requests -> Status]
  BY Zenon DEF Free, BInv, KVInv, KVTypeOK, IInv, TypeOK
<1>3. /\ reqToBlocks'[r] = <<>> /\ Len(reqToBlocks'[r]) = 0 /\ status'[r] = x
      /\ \A q \in Requests : q # r => reqToBlocks'[q] = reqToBlocks[q] /\ status'[q] = status[q]
  BY <1>2, Zenon
<1>4. MaxNumBlocksPerReq \in Nat
  BY RequestAssumption, KVAssumption, CDivBounds, Zenon DEF MaxNumBlocksPerReq
<1>5. \A q \in Requests : Len(reqToBlocks'[q]) <= MaxNumBlocksPerReq
  BY <1>3, <1>4 DEF BInv
<1>6. ASSUME pc' # "dead" PROVE TablesOK'
  <2>0. TablesOK
    BY Zenon DEF BInv
  <2>1. \A q \in Requests : q # r => Progress(q)' = Progress(q)
    BY <1>6, Zenon DEF Progress
  <2>2. \A q \in Requests : reqToBlocks'[q] # <<>> => status'[q] = "RUNNING"
    BY <1>3, <2>0, Zenon DEF TablesOK
  <2>3. \A q \in Requests : status'[q] \in Live => numTokens'[q] < MaxModelLen
    BY <1>3, <2>0 DEF TablesOK
  <2>4. \A q \in Requests : status'[q] = "RUNNING" => Progress(q)' <= Len(reqToBlocks'[q]) * BlockSize
    <3> SUFFICES ASSUME NEW q \in Requests, status'[q] = "RUNNING"
                 PROVE  Progress(q)' <= Len(reqToBlocks'[q]) * BlockSize
      BY Zenon
    <3>1. q # r
      BY <1>3, Zenon
    <3>2. reqToBlocks'[q] = reqToBlocks[q] /\ status[q] = "RUNNING" /\ Progress(q)' = Progress(q)
      BY <1>3, <2>1, <3>1, Zenon
    <3> QED  BY <2>0, <3>2, Zenon DEF TablesOK
  <2>5. ASSUME NEW q \in Requests, NEW k \in 1 .. Len(reqToBlocks'[q]), EnableCaching
        PROVE  blockHash'[reqToBlocks'[q][k]] # NoHash <=> k * BlockSize <= Progress(q)'
    <3>1. q # r
      BY <1>3, <2>5
    <3>2. reqToBlocks'[q] = reqToBlocks[q] /\ blockHash' = blockHash /\ Progress(q)' = Progress(q)
      BY <1>2, <1>3, <2>1, <3>1, Zenon
    <3> QED  BY <2>0, <2>5, <3>2 DEF TablesOK
  <2>6. ASSUME NEW p \in Requests, NEW q \in Requests, p # q,
               NEW j \in 1 .. Len(reqToBlocks'[p]), NEW k \in 1 .. Len(reqToBlocks'[q]),
               reqToBlocks'[p][j] = reqToBlocks'[q][k]
        PROVE  j * BlockSize <= numComputedTokens'[p] \/ k * BlockSize <= numComputedTokens'[q]
    <3>1. p # r /\ q # r
      BY <1>3, <2>6
    <3>2. /\ reqToBlocks'[p] = reqToBlocks[p] /\ reqToBlocks'[q] = reqToBlocks[q]
          /\ numComputedTokens'[p] = numComputedTokens[p]
          /\ numComputedTokens'[q] = numComputedTokens[q]
      BY <1>3, <3>1, Zenon
    <3> QED  BY <2>0, <2>6, <3>2, Zenon DEF TablesOK
  <2> QED  BY <2>2, <2>3, <2>4, <2>5, <2>6, Zenon DEF TablesOK
<1> QED  BY <1>1, <1>5, <1>6, Zenon DEF BInv
\* A step in which allocate_slots gives r blocks for n tokens after its first c.
LEMMA AllocateBlocks ==
    ASSUME BInv, IInv, pc # "dead", NEW r \in Requests, NEW hit, NEW c \in Nat, NEW n \in Nat,
           NEW hashes \in Nat, GoodHits(r, hit), AllocateSlots(r, c, n, hit, hashes),
           c + n <= MaxModelLen,
           Len(reqToBlocks[r]) + Len(hit) <= MaxNumBlocksPerReq,
           c <= (Len(reqToBlocks[r]) + Len(hit)) * BlockSize,
           reqToBlocks[r] # <<>> => c = Progress(r) /\ c = numComputedTokens[r],
           hit # <<>> => c = Len(hit) * BlockSize,
           numTokens[r] < MaxModelLen,
           status' = [status EXCEPT ![r] = "RUNNING"],
           numComputedTokens' = [numComputedTokens EXCEPT ![r] = c],
           numTokens' = numTokens, Pending(r)' = n,
           \A q \in Requests : q # r => Pending(q)' = Pending(q)
    PROVE  BInv'
<1> DEFINE T == reqToBlocks[r]
           table == reqToBlocks'[r]
           held == Len(T) + Len(hit)
<1>1. /\ KVInv'
      /\ \A q \in Requests : q # r =>
            /\ reqToBlocks'[q] = reqToBlocks[q]
            /\ \A b \in Range(reqToBlocks[q]) : blockHash'[b] = blockHash[b]
      /\ Len(table) <= MaxNumBlocksPerReq /\ c + n <= Len(table) * BlockSize
      /\ held <= Len(table)
      /\ \A k \in 1 .. Len(T) : table[k] = T[k]
      /\ \A k \in Len(T) + 1 .. held : blockHash[table[k]] # NoHash
      /\ \A k \in held + 1 .. Len(table) : \A q \in Requests :
            table[k] \notin Range(reqToBlocks[q])
      /\ EnableCaching => \A k \in 1 .. Len(table) :
            blockHash'[table[k]] # NoHash <=>
                \/ k <= held /\ blockHash[table[k]] # NoHash
                \/ k \in FilledBlocks(c, n)
  <2>1. KVInv
    BY Zenon DEF BInv
  <2> QED  BY <2>1, AllocateSlotsInv
<1>2. /\ numComputedTokens \in [Requests -> Nat] /\ status \in [Requests -> Status]
      /\ reqToBlocks \in [Requests -> Seq(Blocks)] /\ reqToBlocks' \in [Requests -> Seq(Blocks)]
      /\ TablesOK /\ BlockSize \in Nat \ {0}
      /\ T \in Seq(Blocks) /\ hit \in Seq(Blocks) /\ (hit # <<>> => T = <<>>)
  <2>1. KVTypeOK'
    BY <1>1, Zenon DEF KVInv
  <2> QED  BY <2>1, KVAssumption, Zenon DEF IInv, TypeOK, BInv, KVInv, KVTypeOK, GoodHits
<1>3. Len(T) \in Nat /\ Len(hit) \in Nat /\ held \in Nat /\ table \in Seq(Blocks) /\ Len(table) \in Nat
  BY <1>2
<1>4. /\ \A q \in Requests : q # r => /\ numComputedTokens'[q] = numComputedTokens[q]
                                      /\ status'[q] = status[q]
                                      /\ Progress(q)' = Progress(q)
      /\ numComputedTokens'[r] = c /\ status'[r] = "RUNNING" /\ Progress(r)' = c + n
  BY <1>2, Zenon DEF Progress
<1> HIDE DEF T, table
<1>5. \A q \in Requests : Len(reqToBlocks'[q]) <= MaxNumBlocksPerReq
  BY <1>1, Zenon DEF BInv, table
<1>6. \A q \in Requests : reqToBlocks'[q] # <<>> => status'[q] = "RUNNING"
  BY <1>1, <1>2, <1>4 DEF TablesOK
<1>7. \A q \in Requests : status'[q] \in Live => numTokens'[q] < MaxModelLen
  BY <1>2, <1>4, Zenon DEF TablesOK
<1>8. ASSUME NEW q \in Requests, status'[q] = "RUNNING"
      PROVE  Progress(q)' <= Len(reqToBlocks'[q]) * BlockSize
  <2>1. CASE q = r
    BY <1>1, <1>4, <2>1, Zenon DEF table
  <2>2. CASE q # r
    <3>1. Progress(q)' = Progress(q) /\ reqToBlocks'[q] = reqToBlocks[q] /\ status[q] = "RUNNING"
      BY <1>1, <1>4, <1>8, <2>2, Zenon
    <3> QED  BY <1>2, <3>1, Zenon DEF TablesOK
  <2> QED  BY <2>1, <2>2, Zenon
<1> HIDE DEF held
<1>9. ASSUME NEW k \in 1 .. held
      PROVE  EnableCaching => (blockHash[table[k]] # NoHash <=> k * BlockSize <= c)
  <2>1. CASE k \in 1 .. Len(T)
    <3>1. T # <<>>
      BY <2>1
    <3>2. c = Progress(r)
      BY <3>1, Zenon DEF T
    <3>3. EnableCaching => (blockHash[T[k]] # NoHash <=> k * BlockSize <= Progress(r))
      BY <1>2, <2>1, Zenon DEF TablesOK, T
    <3> QED  BY <1>1, <2>1, <3>2, <3>3, Zenon
  <2>2. CASE k \in Len(T) + 1 .. held
    <3>1. Len(hit) # 0
      BY <1>3, <2>2 DEF held
    <3>2. T = <<>> /\ c = Len(hit) * BlockSize
      BY <1>2, <3>1
    <3>3. k \in Nat /\ k <= Len(hit)
      BY <1>3, <2>2, <3>2 DEF held
    <3> DEFINE l == Len(hit)
    <3> HIDE DEF l
    <3>4. k \in Nat /\ l \in Nat /\ k <= l /\ c = l * BlockSize
      BY <1>3, <3>2, <3>3, Zenon DEF l
    <3>5. k * BlockSize <= l * BlockSize
      BY <1>2, <3>4
    <3> QED  BY <1>1, <2>2, <3>4, <3>5
  <2>3. k \in 1 .. Len(T) \/ k \in Len(T) + 1 .. held
    BY <1>3
  <2> QED  BY <2>1, <2>2, <2>3, Zenon
<1>10. ASSUME NEW k \in held + 1 .. Len(table) PROVE c < k * BlockSize
  <2>1. k \in Nat /\ held + 1 <= k /\ c <= held * BlockSize
    BY <1>3 DEF held, T
  <2>2. BlockSize \in Nat \ {0} /\ held \in Nat
    BY <1>2, <1>3, Zenon
  <2> QED  BY <2>1, <2>2, MulBeyond, Zenon
<1>11. ASSUME NEW k \in 1 .. Len(table), EnableCaching
       PROVE  blockHash'[table[k]] # NoHash <=> k * BlockSize <= c + n
  <2>0. k \in Nat /\ k * BlockSize \in Nat
    BY <1>2, <1>3
  <2>1. k \in FilledBlocks(c, n) <=> c < k * BlockSize /\ k * BlockSize <= c + n
    BY <2>0, FilledLemma, Zenon
  <2>2. CASE k \in 1 .. held
    <3>1. k <= held
      BY <1>3, <2>2
    <3>2. blockHash[table[k]] # NoHash <=> k * BlockSize <= c
      BY <1>9, <1>11, <2>2
    <3>3. blockHash'[table[k]] # NoHash <=>
            (k * BlockSize <= c \/ (c < k * BlockSize /\ k * BlockSize <= c + n))
      BY <1>1, <1>11, <2>1, <3>1, <3>2
    <3> QED  BY <2>0, <3>3
  <2>3. CASE k \in held + 1 .. Len(table)
    <3>1. ~(k <= held) /\ c < k * BlockSize
      BY <1>3, <1>10, <2>3
    <3>2. blockHash'[table[k]] # NoHash <=> k \in FilledBlocks(c, n)
      BY <1>1, <1>11, <3>1, Zenon
    <3> QED  BY <2>1, <3>1, <3>2
  <2>4. k \in 1 .. held \/ k \in held + 1 .. Len(table)
    BY <1>3
  <2> QED  BY <2>2, <2>3, <2>4, Zenon
<1>12. ASSUME NEW q \in Requests, NEW k \in 1 .. Len(reqToBlocks'[q]), EnableCaching
       PROVE  blockHash'[reqToBlocks'[q][k]] # NoHash <=> k * BlockSize <= Progress(q)'
  <2>1. CASE q = r
    BY <1>4, <1>11, <1>12, <2>1, Zenon DEF table
  <2>2. CASE q # r
    <3>1. /\ Progress(q)' = Progress(q) /\ reqToBlocks'[q] = reqToBlocks[q]
          /\ reqToBlocks[q] \in Seq(Blocks)
      BY <1>1, <1>2, <1>4, <2>2, Zenon
    <3>2. reqToBlocks[q][k] \in Range(reqToBlocks[q])
      BY <1>12, <3>1, InjectiveLemma
    <3>3. blockHash'[reqToBlocks[q][k]] = blockHash[reqToBlocks[q][k]]
      BY <1>1, <2>2, <3>2, Zenon
    <3> QED  BY <1>2, <1>12, <3>1, <3>3, Zenon DEF TablesOK
  <2> QED  BY <2>1, <2>2, Zenon
\* A block of r that another request has is an old one of r's or a hit.
<1>13. ASSUME NEW q \in Requests, q # r, NEW j \in 1 .. Len(reqToBlocks[q]),
              NEW k \in 1 .. Len(table), reqToBlocks[q][j] = table[k]
       PROVE  j * BlockSize <= numComputedTokens[q] \/ k * BlockSize <= c
  <2>1. reqToBlocks[q][j] \in Range(reqToBlocks[q])
    <3>1. reqToBlocks[q] \in Seq(Blocks)
      BY <1>2, Zenon
    <3> QED  BY <3>1, InjectiveLemma
  <2>2. k \notin held + 1 .. Len(table)
    BY <1>1, <1>13, <2>1
  <2>3. CASE k \in 1 .. Len(T)
    <3>1. T # <<>>
      BY <2>3
    <3>2. c = numComputedTokens[r]
      BY <3>1, Zenon DEF T
    <3>3. reqToBlocks[q][j] = T[k]
      BY <1>1, <1>13, <2>3, Zenon
    <3> QED  BY <1>2, <1>13, <2>3, <3>2, <3>3, Zenon DEF TablesOK, T
  <2>4. CASE k \in Len(T) + 1 .. held
    <3>1. Len(hit) # 0
      BY <1>3, <2>4 DEF held
    <3>2. T = <<>> /\ c = Len(hit) * BlockSize
      BY <1>2, <3>1
    <3>3. k \in Nat /\ k <= Len(hit)
      BY <1>3, <2>4, <3>2 DEF held
    <3> DEFINE l == Len(hit)
    <3> HIDE DEF l
    <3>4. k \in Nat /\ l \in Nat /\ k <= l /\ c = l * BlockSize
      BY <1>3, <3>2, <3>3, Zenon DEF l
    <3>5. k * BlockSize <= l * BlockSize
      BY <1>2, <3>4
    <3> QED  BY <3>4, <3>5, Zenon
  <2>5. k \in 1 .. Len(T) \/ k \in Len(T) + 1 .. held \/ k \in held + 1 .. Len(table)
    BY <1>3
  <2> QED  BY <2>2, <2>3, <2>4, <2>5
<1>14. ASSUME NEW p \in Requests, NEW q \in Requests, p # q,
              NEW j \in 1 .. Len(reqToBlocks'[p]), NEW k \in 1 .. Len(reqToBlocks'[q]),
              reqToBlocks'[p][j] = reqToBlocks'[q][k]
       PROVE  j * BlockSize <= numComputedTokens'[p] \/ k * BlockSize <= numComputedTokens'[q]
  <2>1. CASE p = r
    <3>1. /\ reqToBlocks'[q] = reqToBlocks[q] /\ numComputedTokens'[q] = numComputedTokens[q]
          /\ numComputedTokens'[p] = c /\ reqToBlocks'[p] = table
      BY <1>1, <1>4, <1>14, <2>1, Zenon DEF table
    <3> QED  BY <1>13, <1>14, <2>1, <3>1
  <2>2. CASE q = r
    <3>1. /\ reqToBlocks'[p] = reqToBlocks[p] /\ numComputedTokens'[p] = numComputedTokens[p]
          /\ numComputedTokens'[q] = c /\ reqToBlocks'[q] = table
      BY <1>1, <1>4, <1>14, <2>2, Zenon DEF table
    <3> QED  BY <1>13, <1>14, <2>2, <3>1, Zenon
  <2>3. CASE p # r /\ q # r
    <3>1. /\ reqToBlocks'[p] = reqToBlocks[p] /\ numComputedTokens'[p] = numComputedTokens[p]
          /\ reqToBlocks'[q] = reqToBlocks[q] /\ numComputedTokens'[q] = numComputedTokens[q]
      BY <1>1, <1>4, <2>3, Zenon
    <3> QED  BY <1>2, <1>14, <3>1, Zenon DEF TablesOK
  <2> QED  BY <2>1, <2>2, <2>3, Zenon
<1>15. TablesOK'
  BY <1>6, <1>7, <1>8, <1>12, <1>14, Zenon DEF TablesOK
<1> QED  BY <1>1, <1>5, <1>15, Zenon DEF BInv

\* The places of the running list from i on.
LEMMA RestLemma ==
    ASSUME NEW s \in Seq(Requests), NEW i \in Nat \ {0}
    PROVE  /\ Range(SubSeq(s, i, Len(s))) = {s[k] : k \in i .. Len(s)}
<1> DEFINE t == SubSeq(s, i, Len(s))
<1>0. Len(s) \in Nat /\ \A k \in i .. Len(s) : s[k] \in Requests
  OBVIOUS
<1>1. /\ t \in Seq(Requests) /\ Len(t) = (IF i <= Len(s) THEN Len(s) - i + 1 ELSE 0)
      /\ \A k \in 1 .. Len(s) - i + 1 : t[k] = s[i + k - 1]
  BY <1>0, SliceLemma
<1> HIDE DEF t
<1>2. ASSUME NEW x \in Range(t) PROVE x \in {s[k] : k \in i .. Len(s)}
  <2>1. PICK k \in 1 .. Len(t) : x = t[k]
    BY <1>1, InjectiveLemma
  <2>2. k \in 1 .. Len(s) - i + 1 /\ i + k - 1 \in i .. Len(s)
    BY <1>0, <1>1
  <2>3. x = s[i + k - 1]
    BY <1>1, <2>1, <2>2, Zenon
  <2> QED  BY <2>2, <2>3, Zenon
<1>3. ASSUME NEW k \in i .. Len(s) PROVE s[k] \in Range(t)
  <2>1. k - i + 1 \in 1 .. Len(t) /\ k - i + 1 \in 1 .. Len(s) - i + 1 /\ i + (k - i + 1) - 1 = k
    BY <1>0, <1>1
  <2>2. t[k - i + 1] = s[k]
    BY <1>1, <2>1, Zenon
  <2>3. Range(t) = {t[j] : j \in 1 .. Len(t)}
    BY <1>1, InjectiveLemma, Zenon
  <2> QED  BY <2>1, <2>2, <2>3, Zenon
<1> QED  BY <1>2, <1>3, Zenon DEF t

\* Pending in update_from_output: only the requests from reqIndex on count.
LEMMA PendingLemma ==
    ASSUME IInv, NEW r \in Requests
    PROVE  /\ Pending(r) \in Nat
           /\ InSchedule => Pending(r) = numScheduledTokens[r]
           /\ pc = "update" => Pending(r) = IF \E k \in reqIndex .. Len(running) : running[k] = r
                                            THEN numScheduledTokens[r] ELSE 0
           /\ pc \notin {"running", "waiting", "build", "output", "update"} => Pending(r) = 0
<1>1. /\ numScheduledTokens[r] \in Nat /\ running \in Seq(Requests) /\ reqIndex \in Nat \ {0}
  BY Zenon DEF IInv, TypeOK
<1>2. r \in Range(SubSeq(running, reqIndex, Len(running))) <=>
        \E k \in reqIndex .. Len(running) : running[k] = r
  <2>1. Range(SubSeq(running, reqIndex, Len(running))) = {running[k] : k \in reqIndex .. Len(running)}
    BY <1>1, RestLemma, Zenon
  <2> QED  BY <2>1, Zenon
<1> QED  BY <1>1, <1>2, Zenon DEF Pending, InSchedule

\* An iteration of update_from_output: nothing is pending for the request any
\* more, and as much as before for the others.
LEMMA UpdatePending ==
    ASSUME IInv, IInv', pc = "update", pc' = "update", reqIndex <= Len(running),
           reqIndex' = reqIndex + 1, UNCHANGED <<running, numScheduledTokens>>,
           NEW q \in Requests
    PROVE  /\ q = running[reqIndex] => Pending(q) = numScheduledTokens[q] /\ Pending(q)' = 0
           /\ q # running[reqIndex] => Pending(q)' = Pending(q)
<1>1. /\ reqIndex \in 1 .. Len(running) /\ reqIndex \in Nat /\ Len(running) \in Nat
      /\ \A k \in reqIndex + 1 .. Len(running) : running[k] # running[reqIndex]
  BY UpdatePlace
<1>2. Pending(q) = IF \E k \in reqIndex .. Len(running) : running[k] = q
                   THEN numScheduledTokens[q] ELSE 0
  BY PendingLemma, Zenon
<1>3. Pending(q)' = IF \E k \in reqIndex + 1 .. Len(running) : running[k] = q
                    THEN numScheduledTokens[q] ELSE 0
  <2>1. running \in Seq(Requests) /\ reqIndex + 1 \in Nat \ {0}
    BY <1>1, Zenon DEF IInv, TypeOK
  <2>2. Range(SubSeq(running, reqIndex + 1, Len(running))) =
            {running[k] : k \in reqIndex + 1 .. Len(running)}
    BY <2>1, RestLemma, Zenon
  <2>3. Pending(q)' = IF q \in Range(SubSeq(running, reqIndex + 1, Len(running)))
                      THEN numScheduledTokens[q] ELSE 0
    BY Zenon DEF Pending, InSchedule
  <2> QED  BY <2>2, <2>3, Zenon
<1>4. \A k : k \in reqIndex .. Len(running) <=> k = reqIndex \/ k \in reqIndex + 1 .. Len(running)
  BY <1>1
<1> QED  BY <1>1, <1>2, <1>3, <1>4, Zenon

\* The initial state has no block in use.
LEMMA InitBlocks == Init => BInv
<1> SUFFICES ASSUME Init PROVE BInv
  BY Zenon
<1>1. KVInv
  BY KVInitInv, Zenon DEF Init
<1>2. /\ reqToBlocks = [r \in Requests |-> <<>>] /\ status = [r \in Requests |-> "NEW"]
  BY Zenon DEF Init, KVInit
<1>3. \A r \in Requests : reqToBlocks[r] = <<>> /\ Len(reqToBlocks[r]) = 0 /\ status[r] = "NEW"
  BY <1>2, Zenon
<1>4. MaxNumBlocksPerReq \in Nat
  BY RequestAssumption, KVAssumption, CDivBounds, Zenon DEF MaxNumBlocksPerReq
<1>5. TablesOK
  BY <1>3 DEF TablesOK, Live
<1> QED  BY <1>1, <1>3, <1>4, <1>5 DEF BInv

\* The start of schedule() and the steps of its loops that schedule nothing.
LEMMA BeginScheduleBlocks ==
    ASSUME IInv, IInv', BInv, BeginSchedule
    PROVE  BInv'
<1>1. /\ UNCHANGED <<refCnt, blockHash, freeBlockQueue, cacheOrder, reqToBlocks>>
      /\ UNCHANGED <<status, numTokens, numComputedTokens, numBlockHashes>>
      /\ pc = "idle" /\ pc' = "running" /\ numScheduledTokens' = [r \in Requests |-> 0]
  BY Zenon DEF BeginSchedule, kvVars, requestVars
<1>2. numBlockHashes' \in [Requests -> Nat]
  BY Zenon DEF IInv, ManagersOK
<1>3. \A r \in Requests : Pending(r) = 0 /\ Pending(r)' = 0
  BY <1>1, PendingLemma, Zenon DEF Pending, InSchedule
<1> QED  BY <1>1, <1>2, <1>3, FrameBlocks, Zenon

\* A running request is passed over.
LEMMA SkipRunningBlocks ==
    ASSUME IInv, IInv', BInv, SkipRunning
    PROVE  BInv'
<1>1. /\ UNCHANGED <<refCnt, blockHash, freeBlockQueue, cacheOrder, reqToBlocks>>
      /\ UNCHANGED <<status, numTokens, numComputedTokens, numBlockHashes>>
      /\ UNCHANGED <<running, numScheduledTokens>>
      /\ pc = "running" /\ pc' = "running"
  BY Zenon DEF SkipRunning, InRunningLoop, kvVars, requestVars, queueVars, outputVars
<1>2. numBlockHashes' \in [Requests -> Nat]
  BY Zenon DEF IInv, ManagersOK
<1>3. \A r \in Requests : Pending(r)' = Pending(r)
  BY <1>1, Zenon DEF Pending, InSchedule
<1> QED  BY <1>1, <1>2, <1>3, FrameBlocks, Zenon

\* The ends of the loops of schedule().
LEMMA EndLoopBlocks ==
    ASSUME IInv, IInv', BInv, EndRunning \/ EndWaiting \/ BlockedWaiting \/ MakeOutput
    PROVE  BInv'
<1>1. /\ UNCHANGED <<refCnt, blockHash, freeBlockQueue, cacheOrder, reqToBlocks>>
      /\ UNCHANGED <<status, numTokens, numComputedTokens, running, numScheduledTokens>>
      /\ InSchedule /\ InSchedule'
  <2>1. CASE EndRunning
    BY <2>1, Zenon DEF EndRunning, kvVars, requestVars, queueVars, outputVars, InSchedule
  <2>2. CASE EndWaiting
    BY <2>2, Zenon DEF EndWaiting, kvVars, requestVars, queueVars, outputVars, InSchedule
  <2>3. CASE BlockedWaiting
    BY <2>3, Zenon DEF BlockedWaiting, InWaitingLoop, SetBlockHashes, requestVars, queueVars,
                outputVars, InSchedule
  <2>4. CASE MakeOutput
    BY <2>4, Zenon DEF MakeOutput, kvVars, requestVars, InSchedule
  <2> QED  BY <2>1, <2>2, <2>3, <2>4, Zenon
<1>2. numBlockHashes' \in [Requests -> Nat]
  BY Zenon DEF IInv, ManagersOK
<1>3. \A r \in Requests : Pending(r)' = Pending(r)
  BY <1>1, Zenon DEF Pending
<1>4. pc # "dead"
  BY <1>1, Zenon DEF InSchedule
<1> QED  BY <1>1, <1>2, <1>3, <1>4, FrameBlocks, Zenon

\* An output without tokens is dropped.
LEMMA DropOutputBlocks ==
    ASSUME IInv, IInv', BInv, DropOutput
    PROVE  BInv'
<1>1. /\ UNCHANGED <<refCnt, blockHash, freeBlockQueue, cacheOrder, reqToBlocks>>
      /\ UNCHANGED <<status, numTokens, numComputedTokens, numBlockHashes>>
      /\ pc = "output" /\ pc' = "idle" /\ \A r \in Requests : numScheduledTokens[r] = 0
  BY Zenon DEF DropOutput, NothingScheduled, kvVars, requestVars
<1>2. numBlockHashes' \in [Requests -> Nat]
  BY Zenon DEF IInv, ManagersOK
<1>3. \A r \in Requests : Pending(r) = 0 /\ Pending(r)' = 0
  BY <1>1, Zenon DEF Pending, InSchedule
<1> QED  BY <1>1, <1>2, <1>3, FrameBlocks

\* The step is executed; what is scheduled stays pending.
LEMMA ExecuteModelBlocks ==
    ASSUME IInv, IInv', BInv, ExecuteModel
    PROVE  BInv'
<1>1. /\ UNCHANGED <<refCnt, blockHash, freeBlockQueue, cacheOrder, reqToBlocks>>
      /\ UNCHANGED <<status, numTokens, numComputedTokens, numBlockHashes>>
      /\ UNCHANGED <<running, numScheduledTokens>>
      /\ pc = "output" /\ pc' \in {"update", "dead"} /\ reqIndex' = 1
  BY Zenon DEF ExecuteModel, kvVars, requestVars, queueVars, outputVars
<1>2. numBlockHashes' \in [Requests -> Nat]
  BY Zenon DEF IInv, ManagersOK
<1>3. ASSUME NEW r \in Requests, pc' # "dead" PROVE Pending(r)' = Pending(r)
  <2>1. Pending(r) = numScheduledTokens[r]
    BY <1>1, Zenon DEF Pending, InSchedule
  <2>2. Pending(r)' = IF r \in Range(SubSeq(running, 1, Len(running)))
                      THEN numScheduledTokens[r] ELSE 0
    BY <1>1, <1>3, Zenon DEF Pending, InSchedule
  <2>3. running \in Seq(Requests)
    BY Zenon DEF IInv, TypeOK
  <2>4. SubSeq(running, 1, Len(running)) = running
    BY <2>3
  <2>5. Range(running) = {q \in Requests : status[q] = "RUNNING"}
    BY <1>1, Zenon DEF IInv, QueuesMatchStatus, Active
  <2>6. status[r] # "RUNNING" => numScheduledTokens[r] = 0
    BY <1>1, Zenon DEF IInv, CallState
  <2> QED  BY <2>1, <2>2, <2>4, <2>5, <2>6, Zenon
<1> QED  BY <1>1, <1>2, <1>3, FrameBlocks, Zenon

\* A request that was not scheduled is passed over.
LEMMA UpdateUnscheduledBlocks ==
    ASSUME IInv, IInv', BInv, UpdateUnscheduled
    PROVE  BInv'
<1>1. /\ UNCHANGED <<refCnt, blockHash, freeBlockQueue, cacheOrder, reqToBlocks>>
      /\ UNCHANGED <<status, numTokens, numComputedTokens, numBlockHashes>>
      /\ UNCHANGED <<running, numScheduledTokens>>
      /\ pc = "update" /\ pc' = "update" /\ reqIndex <= Len(running) /\ reqIndex' = reqIndex + 1
      /\ numScheduledTokens[running[reqIndex]] = 0
  BY Zenon DEF UpdateUnscheduled, InUpdateLoop, kvVars, requestVars, queueVars, outputVars
<1>2. numBlockHashes' \in [Requests -> Nat]
  BY Zenon DEF IInv, ManagersOK
<1>3. \A r \in Requests : Pending(r)' = Pending(r)
  BY <1>1, UpdatePending, Zenon
<1> QED  BY <1>1, <1>2, <1>3, FrameBlocks

\* update_from_output has gone through all the requests.
LEMMA EndUpdateBlocks ==
    ASSUME IInv, IInv', BInv, EndUpdate
    PROVE  BInv'
<1>1. /\ UNCHANGED <<refCnt, blockHash, freeBlockQueue, cacheOrder, reqToBlocks>>
      /\ UNCHANGED <<status, numTokens, numComputedTokens, numBlockHashes>>
      /\ pc = "update" /\ pc' = "idle" /\ ~(reqIndex <= Len(running))
  BY Zenon DEF EndUpdate, InUpdateLoop, kvVars, requestVars
<1>2. /\ numBlockHashes' \in [Requests -> Nat] /\ reqIndex \in Nat /\ Len(running) \in Nat
  BY DEF IInv, ManagersOK, TypeOK
<1>3. reqIndex .. Len(running) = {}
  BY <1>1, <1>2
<1>4. \A r \in Requests : Pending(r) = 0 /\ Pending(r)' = 0
  BY <1>1, <1>3, PendingLemma, Zenon DEF Pending, InSchedule
<1> QED  BY <1>1, <1>2, <1>4, FrameBlocks

\* An encoder result, or a stuttering step.
LEMMA HandleEncoderResultBlocks ==
    ASSUME IInv, IInv', BInv, NEW r, NEW S, HandleEncoderResult(r, S)
    PROVE  BInv'
<1>1. /\ UNCHANGED <<refCnt, blockHash, freeBlockQueue, cacheOrder, reqToBlocks>>
      /\ UNCHANGED <<status, numTokens, numComputedTokens, numBlockHashes>>
      /\ UNCHANGED <<pc, running, reqIndex, numScheduledTokens>>
  BY Zenon DEF HandleEncoderResult, kvVars, requestVars, queueVars, localVars, outputVars
<1>2. numBlockHashes' \in [Requests -> Nat]
  BY Zenon DEF IInv, ManagersOK
<1>3. \A q \in Requests : Pending(q)' = Pending(q)
  BY <1>1, Zenon DEF Pending, InSchedule
<1> QED  BY <1>1, <1>2, <1>3, FrameBlocks, Zenon

\* A scheduled request goes on: the tokens that were pending are computed.
LEMMA UpdateContinueBlocks ==
    ASSUME IInv, IInv', BInv, UpdateContinue
    PROVE  BInv'
<1> DEFINE r == running[reqIndex]
           c == numComputedTokens[r] + numScheduledTokens[r]
<1>1. /\ UNCHANGED <<refCnt, blockHash, freeBlockQueue, cacheOrder, reqToBlocks, numBlockHashes>>
      /\ UNCHANGED <<status, running, numScheduledTokens>>
      /\ pc = "update" /\ pc' = "update" /\ reqIndex <= Len(running) /\ reqIndex' = reqIndex + 1
      /\ numComputedTokens' = [numComputedTokens EXCEPT ![r] = c]
      /\ numTokens' = numTokens \/ (~LengthCapped(r, c + 1) /\ numTokens' = [numTokens EXCEPT ![r] = c + 1])
  BY Zenon DEF UpdateContinue, InUpdateLoop, kvVars, queueVars, outputVars
<1>2. r \in Requests /\ status[r] = "RUNNING"
  BY <1>1, UpdatePlace, Zenon
<1> HIDE DEF r
<1>3. /\ numComputedTokens \in [Requests -> Nat] /\ numTokens \in [Requests -> Nat]
      /\ numScheduledTokens \in [Requests -> Nat] /\ MaxModelLen \in Nat
      /\ numBlockHashes' \in [Requests -> Nat]
  BY RequestAssumption, Zenon DEF IInv, TypeOK, ManagersOK
<1>4. \A q \in Requests : Progress(q)' = Progress(q)
  <2> TAKE q \in Requests
  <2>1. CASE q = r
    <3>1. Pending(q) = numScheduledTokens[q] /\ Pending(q)' = 0
      BY <1>1, <2>1, UpdatePending, Zenon DEF r
    <3>2. numComputedTokens'[q] = numComputedTokens[q] + numScheduledTokens[q]
      BY <1>1, <1>3, <2>1, Zenon
    <3> QED  BY <1>3, <3>1, <3>2 DEF Progress
  <2>2. CASE q # r
    <3>1. Pending(q)' = Pending(q)
      BY <1>1, <2>2, UpdatePending, Zenon DEF r
    <3>2. numComputedTokens'[q] = numComputedTokens[q]
      BY <1>1, <1>3, <2>2
    <3> QED  BY <3>1, <3>2, Zenon DEF Progress
  <2> QED  BY <2>1, <2>2, Zenon
<1>5. \A q \in Requests : numComputedTokens'[q] \in Nat /\ numComputedTokens[q] <= numComputedTokens'[q]
  BY <1>1, <1>2, <1>3
<1>6. KVInv'
  <2>1. \A b : Users(b)' = Users(b)
    BY <1>1, Zenon DEF Users
  <2>2. KVTypeOK'
    BY <1>1, Zenon DEF BInv, KVInv, KVTypeOK
  <2>3. TablesCounted'
    BY <1>1, <2>1, Zenon DEF BInv, KVInv, TablesCounted
  <2>4. HashesSound'
    BY <1>1, Zenon DEF BInv, KVInv, HashesSound
  <2> QED  BY <2>2, <2>3, <2>4, Zenon DEF KVInv
<1>7. TablesOK
  BY <1>1, Zenon DEF BInv
<1>8. \A q \in Requests : status'[q] \in Live => numTokens'[q] < MaxModelLen
  <2>1. CASE numTokens' = numTokens
    BY <1>1, <1>7, <2>1, Zenon DEF TablesOK
  <2>2. CASE ~LengthCapped(r, c + 1) /\ numTokens' = [numTokens EXCEPT ![r] = c + 1]
    <3>1. c + 1 < MaxModelLen
      BY <1>2, <1>3, <2>2 DEF LengthCapped
    <3> QED  BY <1>1, <1>3, <1>7, <2>2, <3>1, Zenon DEF TablesOK
  <2> QED  BY <1>1, <2>1, <2>2, Zenon
<1>9. \A q \in Requests : status'[q] = "RUNNING" => Progress(q)' <= Len(reqToBlocks'[q]) * BlockSize
  BY <1>1, <1>4, <1>7, Zenon DEF TablesOK
<1>10. \A q \in Requests : \A k \in 1 .. Len(reqToBlocks'[q]) :
            EnableCaching =>
                (blockHash'[reqToBlocks'[q][k]] # NoHash <=> k * BlockSize <= Progress(q)')
  BY <1>1, <1>4, <1>7, Zenon DEF TablesOK
<1>11. \A p, q \in Requests : p # q =>
            \A j \in 1 .. Len(reqToBlocks'[p]), k \in 1 .. Len(reqToBlocks'[q]) :
                reqToBlocks'[p][j] = reqToBlocks'[q][k] =>
                    \/ j * BlockSize <= numComputedTokens'[p]
                    \/ k * BlockSize <= numComputedTokens'[q]
  <2> SUFFICES ASSUME NEW p \in Requests, NEW q \in Requests, p # q,
                      NEW j \in 1 .. Len(reqToBlocks[p]), NEW k \in 1 .. Len(reqToBlocks[q]),
                      reqToBlocks[p][j] = reqToBlocks[q][k]
               PROVE  \/ j * BlockSize <= numComputedTokens'[p]
                      \/ k * BlockSize <= numComputedTokens'[q]
    BY <1>1, Zenon
  <2>1. j * BlockSize <= numComputedTokens[p] \/ k * BlockSize <= numComputedTokens[q]
    BY <1>7, Zenon DEF TablesOK
  <2>2. j * BlockSize \in Nat /\ k * BlockSize \in Nat
    BY KVAssumption
  <2>3. \A x, y, z \in Nat : x <= y /\ y <= z => x <= z
    OBVIOUS
  <2>4. /\ numComputedTokens[p] \in Nat /\ numComputedTokens'[p] \in Nat
        /\ numComputedTokens[q] \in Nat /\ numComputedTokens'[q] \in Nat
    BY <1>3, <1>5, Zenon
  <2> QED  BY <1>5, <2>1, <2>2, <2>3, <2>4, Zenon
<1>12. TablesOK'
  BY <1>1, <1>7, <1>8, <1>9, <1>10, <1>11, Zenon DEF TablesOK
<1>13. \A q \in Requests : Len(reqToBlocks'[q]) <= MaxNumBlocksPerReq
  BY <1>1, Zenon DEF BInv
<1> QED  BY <1>6, <1>12, <1>13, Zenon DEF BInv

\* A request that stops, and leaves its blocks.
LEMMA UpdateStopBlocks ==
    ASSUME IInv, IInv', BInv, UpdateStop
    PROVE  BInv'
<1> DEFINE r == running[reqIndex]
           c == numComputedTokens[r] + numScheduledTokens[r]
<1>1. /\ Free(r) /\ status' = [status EXCEPT ![r] = "FINISHED"]
      /\ pc = "update" /\ pc' \in {"update", "dead"} /\ reqIndex <= Len(running)
      /\ reqIndex' = reqIndex + 1 /\ UNCHANGED <<running, numScheduledTokens>>
      /\ numComputedTokens' = [numComputedTokens EXCEPT ![r] = c]
      /\ numTokens' = [numTokens EXCEPT ![r] = c + 1]
  BY Zenon DEF UpdateStop, InUpdateLoop, outputVars
<1>2. r \in Requests
  BY <1>1, UpdatePlace, Zenon
<1>3. /\ numComputedTokens \in [Requests -> Nat] /\ numTokens \in [Requests -> Nat]
      /\ numTokens' \in [Requests -> Nat] /\ "FINISHED" \in Status \ {"RUNNING"} /\ "FINISHED" \notin Live
  BY Zenon DEF IInv, TypeOK, Status, Live
<1>4. \A q \in Requests : q # r => /\ numComputedTokens'[q] = numComputedTokens[q]
                                   /\ numTokens'[q] = numTokens[q]
                                   /\ pc' # "dead" => Pending(q)' = Pending(q)
  BY <1>1, <1>3, UpdatePending, Zenon
<1> HIDE DEF r, c
<1>5. pc # "dead"
  BY <1>1, Zenon
<1> QED  BY <1>1, <1>2, <1>3, <1>4, <1>5, FreeBlocks, Zenon

\* An aborted request leaves its blocks.
LEMMA FinishRequestBlocks ==
    ASSUME IInv, IInv', BInv, NEW r \in Requests, FinishRequest(r)
    PROVE  BInv'
<1>1. /\ Free(r) /\ status' = [status EXCEPT ![r] = "FINISHED"]
      /\ pc = "idle" /\ pc' \in {"idle", "dead"}
      /\ UNCHANGED <<numComputedTokens, numTokens>>
  BY Zenon DEF FinishRequest
<1>2. /\ numTokens' \in [Requests -> Nat] /\ "FINISHED" \in Status \ {"RUNNING"} /\ "FINISHED" \notin Live
  BY Zenon DEF IInv, TypeOK, Status, Live
<1>3. \A q \in Requests : q # r => /\ numComputedTokens'[q] = numComputedTokens[q]
                                   /\ numTokens'[q] = numTokens[q]
                                   /\ pc' # "dead" => Pending(q)' = Pending(q)
  BY <1>1, Zenon DEF Pending, InSchedule
<1>4. pc # "dead"
  BY <1>1, Zenon
<1> QED  BY <1>1, <1>2, <1>3, <1>4, FreeBlocks, Zenon

\* A preempted request leaves its blocks; it had no token scheduled.
LEMMA PreemptBlocks ==
    ASSUME IInv, IInv', BInv, Preempt
    PROVE  BInv'
<1> DEFINE v == running[Len(running)]
<1>1. /\ Free(v) /\ status' = [status EXCEPT ![v] = "PREEMPTED"]
      /\ pc = "running" /\ pc' \in {"running", "build"} /\ reqIndex <= Len(running)
      /\ numComputedTokens' = [numComputedTokens EXCEPT ![v] = 0]
      /\ UNCHANGED <<numTokens, numScheduledTokens>>
  BY Zenon DEF Preempt, InRunningLoop, outputVars
<1>2. running \in Seq(Requests) /\ reqIndex \in Nat \ {0}
  BY Zenon DEF IInv, TypeOK
<1>3. v \in Requests /\ Len(running) \in 1 .. Len(running)
  BY <1>1, <1>2
<1>4. status[v] = "RUNNING"
  <2>1. Range(running) = {q \in Requests : status[q] = "RUNNING"}
    BY <1>1, Zenon DEF IInv, QueuesMatchStatus, Active
  <2>2. v \in Range(running)
    BY <1>2, <1>3, InjectiveLemma
  <2> QED  BY <2>1, <2>2, Zenon
<1> HIDE DEF v
<1>5. /\ numComputedTokens \in [Requests -> Nat] /\ numTokens' \in [Requests -> Nat]
      /\ "PREEMPTED" \in Status \ {"RUNNING"}
  BY Zenon DEF IInv, TypeOK, Status
<1>6. numTokens'[v] < MaxModelLen
  BY <1>1, <1>3, <1>4, Zenon DEF BInv, TablesOK, Live
<1>7. \A q \in Requests : q # v => /\ numComputedTokens'[q] = numComputedTokens[q]
                                   /\ numTokens'[q] = numTokens[q]
                                   /\ pc' # "dead" => Pending(q)' = Pending(q)
  BY <1>1, <1>5, Zenon DEF Pending, InSchedule
<1>8. pc # "dead"
  BY <1>1, Zenon
<1> QED  BY <1>1, <1>3, <1>5, <1>6, <1>7, <1>8, FreeBlocks, Zenon

\* A new request has no blocks.
LEMMA AddRequestBlocks ==
    ASSUME IInv, IInv', BInv, NEW r \in Requests, AddRequest(r)
    PROVE  BInv'
<1>1. /\ UNCHANGED <<refCnt, blockHash, freeBlockQueue, cacheOrder, reqToBlocks, pc>>
      /\ status[r] \in {"NEW", "FINISHED"} /\ pc = "idle"
      /\ status' = [status EXCEPT ![r] = "WAITING"]
      /\ numComputedTokens' = [numComputedTokens EXCEPT ![r] = 0]
      /\ numTokens' = [numTokens EXCEPT ![r] = NumPromptTokens[r]]
  BY Zenon DEF AddRequest
<1>2. /\ status \in [Requests -> Status] /\ numComputedTokens \in [Requests -> Nat]
      /\ numTokens \in [Requests -> Nat] /\ numBlockHashes' \in [Requests -> Nat]
      /\ NumPromptTokens[r] < MaxModelLen /\ reqToBlocks \in [Requests -> Seq(Blocks)]
  BY RequestAssumption, Zenon DEF IInv, TypeOK, ManagersOK, BInv, KVInv, KVTypeOK
<1>3. TablesOK
  BY <1>1, Zenon DEF BInv
<1>4. reqToBlocks[r] = <<>> /\ Len(reqToBlocks[r]) = 0
  BY <1>1, <1>3 DEF TablesOK
<1>5. \A q \in Requests : q # r => /\ status'[q] = status[q] /\ numTokens'[q] = numTokens[q]
                                   /\ numComputedTokens'[q] = numComputedTokens[q]
                                   /\ Progress(q)' = Progress(q)
  BY <1>1, <1>2, Zenon DEF Progress, Pending, InSchedule
<1>6. status'[r] = "WAITING" /\ numTokens'[r] < MaxModelLen
  BY <1>1, <1>2, Zenon
<1>7. KVInv'
  <2>1. \A b : Users(b)' = Users(b)
    BY <1>1, Zenon DEF Users
  <2>2. KVTypeOK'
    BY <1>1, <1>2, Zenon DEF BInv, KVInv, KVTypeOK
  <2>3. TablesCounted'
    BY <1>1, <2>1, Zenon DEF BInv, KVInv, TablesCounted
  <2>4. HashesSound'
    BY <1>1, Zenon DEF BInv, KVInv, HashesSound
  <2> QED  BY <2>2, <2>3, <2>4, Zenon DEF KVInv
<1>8. \A q \in Requests : reqToBlocks'[q] # <<>> => status'[q] = "RUNNING"
  BY <1>1, <1>3, <1>4, <1>5, Zenon DEF TablesOK
<1>9. \A q \in Requests : status'[q] \in Live => numTokens'[q] < MaxModelLen
  BY <1>3, <1>5, <1>6, Zenon DEF TablesOK
<1>10. ASSUME NEW q \in Requests, status'[q] = "RUNNING"
       PROVE  Progress(q)' <= Len(reqToBlocks'[q]) * BlockSize
  <2>1. q # r
    BY <1>6, <1>10, Zenon
  <2>2. Progress(q)' = Progress(q) /\ status[q] = "RUNNING" /\ reqToBlocks'[q] = reqToBlocks[q]
    BY <1>1, <1>5, <1>10, <2>1, Zenon
  <2> QED  BY <1>3, <2>2, Zenon DEF TablesOK
<1>11. ASSUME NEW q \in Requests, NEW k \in 1 .. Len(reqToBlocks'[q]), EnableCaching
       PROVE  blockHash'[reqToBlocks'[q][k]] # NoHash <=> k * BlockSize <= Progress(q)'
  <2>0. Len(reqToBlocks'[r]) = 0 /\ reqToBlocks' = reqToBlocks /\ blockHash' = blockHash
    BY <1>1, <1>4, Zenon
  <2>1. q # r
    BY <2>0, <1>11
  <2>2. Progress(q)' = Progress(q)
    BY <1>5, <2>1, Zenon
  <2>3. k \in 1 .. Len(reqToBlocks[q])
    BY <2>0, Zenon
  <2> QED  BY <2>0, <1>3, <1>11, <2>2, <2>3, Zenon DEF TablesOK
<1>12. ASSUME NEW p \in Requests, NEW q \in Requests, p # q,
              NEW j \in 1 .. Len(reqToBlocks'[p]), NEW k \in 1 .. Len(reqToBlocks'[q]),
              reqToBlocks'[p][j] = reqToBlocks'[q][k]
       PROVE  j * BlockSize <= numComputedTokens'[p] \/ k * BlockSize <= numComputedTokens'[q]
  <2>1. p # r /\ q # r
    BY <1>1, <1>4, <1>12
  <2>2. /\ numComputedTokens'[p] = numComputedTokens[p] /\ reqToBlocks'[p] = reqToBlocks[p]
        /\ numComputedTokens'[q] = numComputedTokens[q] /\ reqToBlocks'[q] = reqToBlocks[q]
    BY <1>1, <1>5, <2>1, Zenon
  <2> QED  BY <1>3, <1>12, <2>2, Zenon DEF TablesOK
<1>13. TablesOK'
  BY <1>8, <1>9, <1>10, <1>11, <1>12, Zenon DEF TablesOK
<1>14. \A q \in Requests : Len(reqToBlocks'[q]) <= MaxNumBlocksPerReq
  BY <1>1, Zenon DEF BInv
<1> QED  BY <1>7, <1>13, <1>14, Zenon DEF BInv

\* reset_prefix_cache finds no block in use.
LEMMA ResetCacheBlocks ==
    ASSUME IInv, IInv', BInv, ResetCache
    PROVE  BInv'
<1>1. /\ ResetPrefixCache /\ UNCHANGED <<reqToBlocks, status, numTokens, numComputedTokens>>
      /\ UNCHANGED <<pc, running, reqIndex, numScheduledTokens>> /\ pc = "idle"
  BY Zenon DEF ResetCache, ResetPrefixCache, schedVars, requestVars, queueVars, localVars, outputVars
<1>2. KVInv' /\ \A r \in Requests : reqToBlocks[r] = <<>>
  BY <1>1, ResetInv, Zenon DEF BInv
<1>3. \A r \in Requests : reqToBlocks'[r] = <<>> /\ Len(reqToBlocks'[r]) = 0
  BY <1>1, <1>2
<1>4. \A r \in Requests : Progress(r)' = Progress(r)
  BY <1>1, Zenon DEF Progress, Pending, InSchedule
<1>5. TablesOK
  BY <1>1, Zenon DEF BInv
<1>6. /\ \A r \in Requests : reqToBlocks'[r] # <<>> => status'[r] = "RUNNING"
      /\ \A r \in Requests : status'[r] \in Live => numTokens'[r] < MaxModelLen
  BY <1>1, <1>5, Zenon DEF TablesOK
<1>7. \A r \in Requests : status'[r] = "RUNNING" => Progress(r)' <= Len(reqToBlocks'[r]) * BlockSize
  BY <1>1, <1>4, <1>5, Zenon DEF TablesOK
<1>8. \A r \in Requests : \A k \in 1 .. Len(reqToBlocks'[r]) : FALSE
  BY <1>3
<1>9. TablesOK'
  BY <1>6, <1>7, <1>8, Zenon DEF TablesOK
<1>10. \A r \in Requests : Len(reqToBlocks'[r]) <= MaxNumBlocksPerReq
  BY <1>1, Zenon DEF BInv
<1> QED  BY <1>2, <1>9, <1>10, Zenon DEF BInv

\* Scheduling a running request.
LEMMA ScheduleRunningBlocks ==
    ASSUME IInv, IInv', BInv, ScheduleRunning
    PROVE  BInv'
<1>0. PICK r \in Requests : r = running[reqIndex]
  BY RunningStep, Zenon
<1> DEFINE c == numComputedTokens[r]
           n == RunningPlan(r).tokens
           hit == <<>>
           hashes == numBlockHashes[r]
<1>1. /\ AllocateSlots(r, c, n, hit, hashes)
      /\ numScheduledTokens' = [numScheduledTokens EXCEPT ![r] = n]
      /\ UNCHANGED <<status, numComputedTokens, numTokens, pc>>
  BY <1>0, Zenon DEF ScheduleRunning, requestVars
<1>2. /\ r \in Requests /\ status[r] = "RUNNING" /\ c \in Nat /\ n \in Nat /\ c + n <= numTokens[r]
      /\ pc = "running" /\ numScheduledTokens[r] = 0
  BY <1>0, RunningStep, Zenon
<1> HIDE DEF c, n
<1>3. /\ status \in [Requests -> Status] /\ numComputedTokens \in [Requests -> Nat]
      /\ numTokens[r] \in Nat /\ MaxModelLen \in Nat /\ numScheduledTokens \in [Requests -> Nat]
      /\ reqToBlocks \in [Requests -> Seq(Blocks)] /\ hashes \in Nat
  BY <1>2, RequestAssumption, Zenon DEF IInv, TypeOK, BInv, KVInv, KVTypeOK
<1>4. TablesOK /\ pc # "dead"
  BY <1>2, Zenon DEF BInv
<1>5. numTokens[r] < MaxModelLen
  BY <1>2, <1>4, Zenon DEF TablesOK, Live
<1>6. Progress(r) = c
  <2>1. Pending(r) = 0
    BY <1>2, Zenon DEF Pending, InSchedule
  <2> QED  BY <1>2, <2>1 DEF Progress, c
<1>7. /\ c <= Len(reqToBlocks[r]) * BlockSize /\ Len(reqToBlocks[r]) <= MaxNumBlocksPerReq
  BY <1>2, <1>4, <1>6, Zenon DEF TablesOK, BInv
<1>8. GoodHits(r, hit)
  <2>1. hit \in Seq(Blocks) /\ Len(hit) = 0 /\ hit = <<>>
    OBVIOUS
  <2> HIDE DEF hit
  <2>2. DOMAIN hit = {}
    BY <2>1
  <2>3. IsInjective(hit)
    BY <2>2, Zenon DEF IsInjective
  <2>4. \A k \in 1 .. Len(hit) : FALSE
    BY <2>1
  <2> QED  BY <2>1, <2>3, <2>4, Zenon DEF GoodHits
<1>9. /\ status' = [status EXCEPT ![r] = "RUNNING"]
      /\ numComputedTokens' = [numComputedTokens EXCEPT ![r] = c]
  BY <1>1, <1>2, <1>3, Zenon DEF c
<1>10. /\ Pending(r)' = n /\ \A q \in Requests : q # r => Pending(q)' = Pending(q)
  <2>1. \A q \in Requests : Pending(q) = numScheduledTokens[q] /\ Pending(q)' = numScheduledTokens'[q]
    BY <1>1, <1>2, Zenon DEF Pending, InSchedule
  <2>2. numScheduledTokens'[r] = n /\ \A q \in Requests : q # r => numScheduledTokens'[q] = numScheduledTokens[q]
    BY <1>1, <1>2, <1>3, Zenon
  <2> QED  BY <1>2, <2>1, <2>2, Zenon
<1>11. /\ Len(reqToBlocks[r]) + Len(hit) = Len(reqToBlocks[r]) /\ c + n <= MaxModelLen
       /\ c = numComputedTokens[r]
  BY <1>2, <1>3, <1>5 DEF c
<1> HIDE DEF hit, hashes
<1>12. /\ Len(reqToBlocks[r]) + Len(hit) <= MaxNumBlocksPerReq
       /\ c <= (Len(reqToBlocks[r]) + Len(hit)) * BlockSize
  BY <1>7, <1>11, Zenon
<1>13. hit = <<>>
  BY Zenon DEF hit
<1>14. numTokens' = numTokens
  BY <1>1, Zenon
<1>15. AllocateSlots(r, c, n, hit, hashes)
  BY <1>1, Zenon
<1>20. /\ BInv /\ IInv /\ pc # "dead" /\ r \in Requests /\ c \in Nat /\ n \in Nat /\ hashes \in Nat
       /\ GoodHits(r, hit) /\ AllocateSlots(r, c, n, hit, hashes) /\ c + n <= MaxModelLen
       /\ Len(reqToBlocks[r]) + Len(hit) <= MaxNumBlocksPerReq
       /\ c <= (Len(reqToBlocks[r]) + Len(hit)) * BlockSize
       /\ reqToBlocks[r] # <<>> => c = Progress(r) /\ c = numComputedTokens[r]
       /\ hit # <<>> => c = Len(hit) * BlockSize
       /\ numTokens[r] < MaxModelLen
       /\ status' = [status EXCEPT ![r] = "RUNNING"]
       /\ numComputedTokens' = [numComputedTokens EXCEPT ![r] = c]
       /\ numTokens' = numTokens /\ Pending(r)' = n
       /\ \A q \in Requests : q # r => Pending(q)' = Pending(q)
  BY <1>2, <1>3, <1>4, <1>5, <1>6, <1>8, <1>9, <1>10, <1>11, <1>12, <1>13, <1>14, <1>15, Zenon
<1> QED  BY <1>20, AllocateBlocks, Zenon

\* The prefix-cache hits of a waiting request are blocks with its prefix.
LEMMA PrefixHitsLemma ==
    ASSUME IInv, KVInv, NEW r \in Requests, reqToBlocks[r] = <<>>
    PROVE  GoodHits(r, PrefixHits(r))
<1> DEFINE hit == GetComputedBlocks(r, numTokens[r])
<1>1. NumHashesOnLookup(r, numTokens[r]) \in Nat
  BY HitBounds, Zenon DEF IInv
<1>2. /\ hit \in Seq(Blocks)
      /\ \A k \in 1 .. Len(hit) : blockHash[hit[k]] = HashOf(r, k)
  BY <1>1, LookupLemma, Zenon DEF KVInv
<1>3. PrefixHits(r) = hit \/ PrefixHits(r) = SubSeq(hit, 1, Len(hit) - 1)
  BY Zenon DEF PrefixHits
<1> HIDE DEF hit
<1>4. /\ PrefixHits(r) \in Seq(Blocks)
      /\ \A k \in 1 .. Len(PrefixHits(r)) : blockHash[PrefixHits(r)[k]] = HashOf(r, k)
  <2>1. CASE PrefixHits(r) = hit
    BY <1>2, <2>1, Zenon
  <2>2. CASE PrefixHits(r) = SubSeq(hit, 1, Len(hit) - 1)
    <3> DEFINE t == SubSeq(hit, 1, Len(hit) - 1)
    <3>1. /\ t \in Seq(Blocks) /\ Len(t) <= Len(hit)
          /\ \A k \in 1 .. Len(t) : t[k] = hit[k]
      BY <1>2
    <3> HIDE DEF t
    <3>2. \A k \in 1 .. Len(t) : k \in 1 .. Len(hit)
      BY <1>2, <3>1
    <3>3. \A k \in 1 .. Len(t) : blockHash[t[k]] = HashOf(r, k)
      BY <1>2, <3>1, <3>2, Zenon
    <3> QED  BY <2>2, <3>1, <3>3, Zenon DEF t
  <2> QED  BY <1>3, <2>1, <2>2, Zenon
<1> QED  BY <1>4, HitsLemma, Zenon

\* Scheduling a waiting request.
LEMMA ScheduleWaitingBlocks ==
    ASSUME IInv, IInv', BInv, ScheduleWaiting
    PROVE  BInv'
<1>0. PICK r \in Requests : r = waiting[1]
  BY WaitingStep, Zenon DEF ScheduleWaiting
<1> DEFINE hit == PrefixHits(r)
           c == Len(hit) * BlockSize
           n == WaitingPlan(r).tokens
           hashes == NumHashesOnLookup(r, numTokens[r])
<1>1. /\ AllocateSlots(r, c, n, hit, hashes) /\ InWaitingLoop
      /\ numScheduledTokens' = [numScheduledTokens EXCEPT ![r] = n]
      /\ status' = [status EXCEPT ![r] = "RUNNING"]
      /\ numComputedTokens' = [numComputedTokens EXCEPT ![r] = c]
      /\ UNCHANGED <<numTokens, pc>>
  BY <1>0, Zenon DEF ScheduleWaiting
<1>2. /\ r \in Requests /\ status[r] \in {"WAITING", "PREEMPTED"} /\ c \in Nat /\ n \in Nat
      /\ c + n <= numTokens[r] /\ pc = "waiting" /\ numScheduledTokens[r] = 0
  BY <1>0, <1>1, WaitingStep, Zenon
<1>3. Len(hit) \in Nat /\ c < numTokens[r] /\ hashes \in Nat
  BY <1>2, HitBounds, Zenon DEF IInv
<1> HIDE DEF hit, n, hashes
<1>4. /\ numTokens[r] \in Nat /\ MaxModelLen \in Nat /\ numScheduledTokens \in [Requests -> Nat]
      /\ BlockSize \in Nat \ {0}
  BY <1>2, RequestAssumption, KVAssumption, Zenon DEF IInv, TypeOK
<1>5. TablesOK /\ pc # "dead" /\ KVInv
  BY <1>2, Zenon DEF BInv
<1>6. reqToBlocks[r] = <<>> /\ numTokens[r] < MaxModelLen
  BY <1>2, <1>5, Zenon DEF TablesOK, Live
<1>7. GoodHits(r, hit)
  BY <1>2, <1>5, <1>6, PrefixHitsLemma, Zenon DEF hit
<1>8. Len(hit) <= MaxNumBlocksPerReq
  <2>1. /\ MaxNumBlocksPerReq \in Nat /\ MaxModelLen <= MaxNumBlocksPerReq * BlockSize
    BY <1>4, CDivBounds, Zenon DEF MaxNumBlocksPerReq
  <2> DEFINE z == MaxNumBlocksPerReq * BlockSize
  <2>2. z \in Nat /\ MaxModelLen <= z
    BY <1>4, <2>1
  <2> HIDE DEF z, c
  <2>3. c < z + BlockSize
    BY <1>2, <1>3, <1>4, <1>6, <2>2
  <2> QED  BY <1>3, <1>4, <2>1, <2>3, MulCancel, Zenon DEF c, z
<1>9. Len(reqToBlocks[r]) + Len(hit) = Len(hit) /\ c + n <= MaxModelLen
  <2> HIDE DEF c
  <2> QED  BY <1>2, <1>3, <1>4, <1>6
<1>10. c <= Len(hit) * BlockSize
  BY <1>2
<1>11. /\ Pending(r)' = n /\ \A q \in Requests : q # r => Pending(q)' = Pending(q)
  <2>1. \A q \in Requests : Pending(q) = numScheduledTokens[q] /\ Pending(q)' = numScheduledTokens'[q]
    BY <1>1, <1>2, Zenon DEF Pending, InSchedule
  <2>2. numScheduledTokens'[r] = n /\ \A q \in Requests : q # r => numScheduledTokens'[q] = numScheduledTokens[q]
    BY <1>1, <1>2, <1>4, Zenon
  <2> QED  BY <1>2, <2>1, <2>2, Zenon
<1>12. hit # <<>> => c = Len(hit) * BlockSize
  BY Zenon
<1> HIDE DEF c
<1>13. /\ Len(reqToBlocks[r]) + Len(hit) <= MaxNumBlocksPerReq
       /\ c <= (Len(reqToBlocks[r]) + Len(hit)) * BlockSize
  BY <1>8, <1>9, <1>10, Zenon
<1>20. /\ BInv /\ IInv /\ pc # "dead" /\ r \in Requests /\ c \in Nat /\ n \in Nat /\ hashes \in Nat
       /\ GoodHits(r, hit) /\ AllocateSlots(r, c, n, hit, hashes) /\ c + n <= MaxModelLen
       /\ Len(reqToBlocks[r]) + Len(hit) <= MaxNumBlocksPerReq
       /\ c <= (Len(reqToBlocks[r]) + Len(hit)) * BlockSize
       /\ reqToBlocks[r] # <<>> => c = Progress(r) /\ c = numComputedTokens[r]
       /\ hit # <<>> => c = Len(hit) * BlockSize
       /\ numTokens[r] < MaxModelLen
       /\ status' = [status EXCEPT ![r] = "RUNNING"]
       /\ numComputedTokens' = [numComputedTokens EXCEPT ![r] = c]
       /\ numTokens' = numTokens /\ Pending(r)' = n
       /\ \A q \in Requests : q # r => Pending(q)' = Pending(q)
  BY <1>1, <1>2, <1>3, <1>5, <1>6, <1>7, <1>9, <1>11, <1>12, <1>13, Zenon
<1> QED  BY <1>20, AllocateBlocks, Zenon

\* Every step preserves the block invariant.
LEMMA NextBlocks == IInv /\ IInv' /\ BInv /\ [Next]_vars => BInv'
<1> SUFFICES ASSUME IInv, IInv', BInv, [Next]_vars PROVE BInv'
  BY Zenon
<1>1. CASE UNCHANGED vars
  <2>1. /\ UNCHANGED <<refCnt, blockHash, freeBlockQueue, cacheOrder, reqToBlocks>>
        /\ UNCHANGED <<status, numTokens, numComputedTokens, numBlockHashes>>
        /\ UNCHANGED <<pc, running, reqIndex, numScheduledTokens>>
    BY <1>1, Zenon DEF vars, kvVars, schedVars, requestVars, queueVars, localVars, outputVars
  <2>2. numBlockHashes' \in [Requests -> Nat]
    BY Zenon DEF IInv, ManagersOK
  <2>3. \A q \in Requests : Pending(q)' = Pending(q)
    BY <2>1, Zenon DEF Pending, InSchedule
  <2> QED  BY <2>1, <2>2, <2>3, FrameBlocks, Zenon
<1>2. CASE Environment
  <2>1. ASSUME NEW r \in Requests, AddRequest(r) PROVE BInv'
    BY <2>1, AddRequestBlocks, Zenon
  <2>2. ASSUME NEW r \in Requests, FinishRequest(r) PROVE BInv'
    BY <2>2, FinishRequestBlocks, Zenon
  <2>3. ASSUME NEW r \in Requests, NEW S, HandleEncoderResult(r, S) PROVE BInv'
    BY <2>3, HandleEncoderResultBlocks, Zenon
  <2>4. CASE ResetCache
    BY <2>4, ResetCacheBlocks, Zenon
  <2> QED  BY <1>2, <2>1, <2>2, <2>3, <2>4, Zenon DEF Environment
<1>3. CASE Schedule
  <2>1. CASE EndRunning \/ EndWaiting \/ BlockedWaiting \/ MakeOutput
    BY <2>1, EndLoopBlocks, Zenon
  <2> QED  BY <1>3, <2>1, BeginScheduleBlocks, SkipRunningBlocks, ScheduleRunningBlocks,
              PreemptBlocks, ScheduleWaitingBlocks, DropOutputBlocks, Zenon DEF Schedule
<1>4. CASE Update
  BY <1>4, ExecuteModelBlocks, UpdateUnscheduledBlocks, UpdateContinueBlocks,
     UpdateStopBlocks, EndUpdateBlocks, Zenon DEF Update
<1> QED  BY <1>1, <1>2, <1>3, <1>4, Zenon DEF Next

\* The block invariant holds of every reachable state.
THEOREM BlocksInvariance == Spec => []BInv
<1>1. Init => BInv
  BY InitBlocks, Zenon
<1>2. IInv /\ IInv' /\ BInv /\ [Next]_vars => BInv'
  BY NextBlocks, Zenon
<1>3. Spec => []IInv
  BY Invariance, Zenon
<1> QED  BY <1>1, <1>2, <1>3, PTL DEF Spec

\* BlockAccounting, for every pool of blocks and any number of requests: no
\* interleaving of scheduling, preemption, stopping and aborting leaks a block
\* or frees one twice.
THEOREM BlocksAccounted == Spec => []BlockAccounting
<1>1. IInv /\ BInv => BlockAccounting
  <2> SUFFICES ASSUME IInv, BInv PROVE BlockAccounting
    BY Zenon
  <2>1. ASSUME NEW r \in Requests, pc # "dead", reqToBlocks[r] # <<>> PROVE r \in Range(Active)
    <3>1. status[r] = "RUNNING"
      BY <2>1, Zenon DEF BInv, TablesOK
    <3>2. Range(Active) = {q \in Requests : status[q] = "RUNNING"}
      BY <2>1, Zenon DEF IInv, QueuesMatchStatus
    <3> QED  BY <3>1, <3>2, Zenon
  <2> QED  BY <2>1, Zenon DEF BInv, KVInv, TablesCounted, Users, BlockAccounting
<1>2. Spec => []IInv /\ []BInv
  BY Invariance, BlocksInvariance, Zenon
<1> QED  BY <1>1, <1>2, PTL

\* PrefixCacheSound, for every pool of blocks and any number of requests: a hit
\* is the prefix it stands for, and has been computed when it is used.
THEOREM HitsAreSound == Spec => []PrefixCacheSound
<1>1. IInv /\ BInv => PrefixCacheSound
  <2> SUFFICES ASSUME IInv, BInv, NEW r \in Requests, NEW k \in DOMAIN reqToBlocks[r]
               PROVE  LET hash == blockHash[reqToBlocks[r][k]]
                      IN  /\ hash \in {NoHash, HashOf(r, k)}
                          /\ EnableCaching /\ pc = "idle" =>
                                (hash # NoHash <=> k * BlockSize <= numComputedTokens[r])
    BY Zenon DEF PrefixCacheSound
  <2>1. reqToBlocks[r] \in Seq(Blocks)
    BY Zenon DEF BInv, KVInv, KVTypeOK
  <2>2. k \in 1 .. Len(reqToBlocks[r])
    BY <2>1
  <2>3. blockHash[reqToBlocks[r][k]] \in {NoHash, HashOf(r, k)}
    BY <2>2, Zenon DEF BInv, KVInv, HashesSound
  <2>4. ASSUME EnableCaching, pc = "idle"
        PROVE  blockHash[reqToBlocks[r][k]] # NoHash <=> k * BlockSize <= numComputedTokens[r]
    <3>1. Pending(r) = 0 /\ numComputedTokens[r] \in Nat
      BY <2>4, Zenon DEF Pending, InSchedule, IInv, TypeOK
    <3>2. Progress(r) = numComputedTokens[r]
      BY <3>1 DEF Progress
    <3>3. TablesOK
      BY <2>4, Zenon DEF BInv
    <3> QED  BY <2>2, <2>4, <3>2, <3>3, Zenon DEF TablesOK
  <2> QED  BY <2>3, <2>4, Zenon
<1>2. Spec => []IInv /\ []BInv
  BY Invariance, BlocksInvariance, Zenon
<1> QED  BY <1>1, <1>2, PTL

\* ExclusiveWrites, for every pool of blocks and any number of requests: every
\* scheduled token has a slot, and no two requests write the same block.
THEOREM WritesAreExclusive == Spec => []ExclusiveWrites
<1>1. IInv /\ BInv => ExclusiveWrites
  <2> SUFFICES ASSUME IInv, BInv, pc = "output" PROVE ExclusiveWrites
    BY Zenon DEF ExclusiveWrites
  <2>1. TablesOK
    BY Zenon DEF BInv
  <2>2. ASSUME NEW r \in Requests, numScheduledTokens[r] # 0
        PROVE  numComputedTokens[r] + numScheduledTokens[r] <= Len(reqToBlocks[r]) * BlockSize
    <3>1. status[r] = "RUNNING"
      BY <2>2, Zenon DEF IInv, CallState
    <3>2. Progress(r) = numComputedTokens[r] + numScheduledTokens[r]
      BY Zenon DEF Progress, Pending, InSchedule
    <3> QED  BY <2>1, <3>1, <3>2, Zenon DEF TablesOK
  <2>3. ASSUME NEW q \in Requests, NEW r \in Requests, q # r, NEW b \in Written(q), b \in Written(r)
        PROVE  FALSE
    <3>1. /\ reqToBlocks[q] \in Seq(Blocks) /\ reqToBlocks[r] \in Seq(Blocks)
          /\ BlockSize \in Nat \ {0} /\ numComputedTokens[q] \in Nat /\ numComputedTokens[r] \in Nat
      BY KVAssumption, Zenon DEF BInv, KVInv, KVTypeOK, IInv, TypeOK
    <3>2. DOMAIN reqToBlocks[q] = 1 .. Len(reqToBlocks[q]) /\ DOMAIN reqToBlocks[r] = 1 .. Len(reqToBlocks[r])
      BY <3>1
    <3>3. PICK j \in 1 .. Len(reqToBlocks[q]) : b = reqToBlocks[q][j] /\ j * BlockSize > numComputedTokens[q]
      BY <3>2, Zenon DEF Written
    <3>4. PICK k \in 1 .. Len(reqToBlocks[r]) : b = reqToBlocks[r][k] /\ k * BlockSize > numComputedTokens[r]
      BY <2>3, <3>2, Zenon DEF Written
    <3>5. j * BlockSize <= numComputedTokens[q] \/ k * BlockSize <= numComputedTokens[r]
      BY <2>1, <2>3, <3>3, <3>4, Zenon DEF TablesOK
    <3>6. j * BlockSize \in Nat /\ k * BlockSize \in Nat
      BY <3>1
    <3> QED  BY <3>1, <3>3, <3>4, <3>5, <3>6
  <2> QED  BY <2>2, <2>3, Zenon DEF ExclusiveWrites
<1>2. Spec => []IInv /\ []BInv
  BY Invariance, BlocksInvariance, Zenon
<1> QED  BY <1>1, <1>2, PTL
=============================================================================
