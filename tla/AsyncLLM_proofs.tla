-------------------------- MODULE AsyncLLM_proofs ---------------------------
(***************************************************************************)
(* Proofs about the front end: the caches of images that the client and    *)
(* the servers keep stay mirrored and bounded, what the front end and the  *)
(* processes behind it do with images is a behaviour of those caches, and  *)
(* neither the front end nor EngineCore keeps a request that the other has *)
(* forgotten.                                                              *)
(*                                                                         *)
(* MapperInv is the inductive invariant of the caches, ProtocolInv that of *)
(* the messages between the two sides.                                     *)
(***************************************************************************)
EXTENDS AsyncLLM, FiniteSetTheorems, TLAPS

-----------------------------------------------------------------------------
(* The mirrored caches. *)

(* An LRU operation keeps a cache a sequence of different keys within the  *)
(* bound (LRUCache.get and put).                                           *)
LEMMA MoveKeepsCache ==
    ASSUME NEW cache, CacheOK(cache), NEW hash \in Hashes,
           InCache(cache, hash)
    PROVE  CacheOK(MoveToEnd(cache, hash))
<1> DEFINE p == PlaceOf(cache, hash)
           moved == MoveToEnd(cache, hash)
<1>1. p \in 1 .. Len(cache) /\ cache[p] = hash
  BY Zenon DEF InCache, PlaceOf
<1>2. cache \in Seq(Hashes) /\ Len(cache) \in Nat
  BY DEF CacheOK
<1>3. \A i \in 1 .. Len(cache) : cache[i] \in Hashes
  BY <1>2
<1>4. moved = [i \in 1 .. Len(cache) |->
                  IF i = Len(cache) THEN hash
                  ELSE IF i < p THEN cache[i] ELSE cache[i + 1]]
  BY Zenon DEF MoveToEnd
<1> HIDE DEF p, moved
<1>5. moved \in Seq(Hashes) /\ Len(moved) = Len(cache)
  <2>1. moved \in [1 .. Len(cache) -> Hashes]
    BY <1>2, <1>3, <1>4
  <2> QED  BY <2>1, <1>2
<1>6. ASSUME NEW i \in 1 .. Len(moved), NEW j \in 1 .. Len(moved),
             moved[i] = moved[j]
      PROVE  i = j
  <2> DEFINE From(k) == IF k = Len(cache) THEN p ELSE IF k < p THEN k ELSE k + 1
  <2>1. \A k \in 1 .. Len(cache) :
            From(k) \in 1 .. Len(cache) /\ moved[k] = cache[From(k)]
    BY <1>1, <1>2, <1>4
  <2>2. i \in 1 .. Len(cache) /\ j \in 1 .. Len(cache)
    BY <1>5, Zenon
  <2>3. cache[From(i)] = cache[From(j)]
    BY <1>6, <2>1, <2>2, Zenon
  <2>4. From(i) = From(j)
    BY <2>1, <2>2, <2>3, Zenon DEF CacheOK
  <2> QED  BY <2>2, <2>4, <1>1, <1>2
<1> QED  BY <1>5, <1>6, Zenon DEF CacheOK, moved

(* LRUCache.put keeps a cache within its bound, with different keys: it    *)
(* removes the oldest key exactly when the new one does not fit.           *)
LEMMA PutKeepsCache ==
    ASSUME NEW cache, CacheOK(cache), NEW hash \in Hashes
    PROVE  CacheOK(PutKey(cache, hash))
<1>1. cache \in Seq(Hashes) /\ Len(cache) \in Nat /\ CacheSize \in Nat \ {0}
  BY MapperAssumption DEF CacheOK
<1>2. CASE InCache(cache, hash)
  BY <1>2, MoveKeepsCache, Zenon DEF PutKey
<1>3. CASE ~InCache(cache, hash)
  <2> DEFINE longer == Append(cache, hash)
  <2>1. longer \in Seq(Hashes) /\ Len(longer) = Len(cache) + 1
    BY <1>1
  <2>2. \A i, j \in 1 .. Len(longer) : longer[i] = longer[j] => i = j
    <3>1. \A i \in 1 .. Len(cache) : longer[i] = cache[i] /\ cache[i] # hash
      BY <1>1, <1>3 DEF InCache
    <3>2. longer[Len(cache) + 1] = hash
      BY <1>1
    <3> HIDE DEF longer
    <3> QED  BY <1>1, <2>1, <3>1, <3>2 DEF CacheOK
  <2> HIDE DEF longer
  <2>3. CASE Len(cache) < CacheSize
    BY <1>3, <2>1, <2>2, <2>3, <1>1 DEF PutKey, CacheOK, longer
  <2>4. CASE ~(Len(cache) < CacheSize)
    <3>1. Tail(longer) \in Seq(Hashes) /\ Len(Tail(longer)) = Len(cache)
      BY <2>1, <1>1
    <3>2. \A i \in 1 .. Len(cache) : Tail(longer)[i] = longer[i + 1]
      BY <2>1, <1>1
    <3>3. \A i, j \in 1 .. Len(cache) :
              Tail(longer)[i] = Tail(longer)[j] => i = j
      BY <3>2, <2>1, <2>2, <1>1
    <3>4. PutKey(cache, hash) = Tail(longer)
      BY <1>3, <2>4, Zenon DEF PutKey, longer
    <3> QED  BY <3>1, <3>3, <3>4, Zenon DEF CacheOK
  <2> QED  BY <2>3, <2>4, Zenon
<1> QED  BY <1>2, <1>3, Zenon

(* LRUCache.get only reorders. *)
LEMMA GetKeepsCache ==
    ASSUME NEW cache, CacheOK(cache), NEW hash \in Hashes
    PROVE  CacheOK(GetKey(cache, hash))
BY MoveKeepsCache, Zenon DEF GetKey

(* What the provers need of the sequence a server has still to take.       *)
LEMMA SentFacts ==
    ASSUME MapperTypeOK, NEW s \in Servers
    PROVE  /\ Sent(s) \in Seq(Entries)
           /\ Len(Sent(s)) = Len(channel[s]) + Len(mapped)
           /\ Len(channel[s]) \in Nat /\ Len(mapped) \in Nat
           /\ \A i \in 1 .. Len(channel[s]) : Sent(s)[i] = channel[s][i]
           /\ \A i \in 1 .. Len(mapped) :
                 Sent(s)[Len(channel[s]) + i] = mapped[i]
<1>1. channel[s] \in Seq(Entries) /\ mapped \in Seq(Entries)
  BY Zenon DEF MapperTypeOK
<1> QED  BY <1>1 DEF Sent

\* new is old with one more element, last.
IsLonger(new, old, last) ==
    /\ Len(old) \in Nat
    /\ Len(new) = Len(old) + 1
    /\ new[Len(old) + 1] = last
    /\ \A i \in 1 .. Len(old) : new[i] = old[i]

(* Appending to the second of two sequences appends to the whole. *)
LEMMA AppendInside ==
    ASSUME NEW S, NEW a \in Seq(S), NEW b \in Seq(S), NEW e \in S
    PROVE  IsLonger(a \o Append(b, e), a \o b, e)
<1> DEFINE c == Append(b, e)
<1>1. /\ c \in Seq(S) /\ Len(c) = Len(b) + 1 /\ c[Len(b) + 1] = e
      /\ Len(a) \in Nat /\ Len(b) \in Nat
  OBVIOUS
<1>2. \A i \in 1 .. Len(b) : c[i] = b[i]
  OBVIOUS
<1> HIDE DEF c
<1>3. Len(a \o c) = Len(a) + Len(c) /\ Len(a \o b) = Len(a) + Len(b)
  BY <1>1
<1>4. (a \o c)[Len(a \o b) + 1] = e
  BY <1>1, <1>3
<1>5. \A i \in 1 .. Len(a \o b) : (a \o c)[i] = (a \o b)[i]
  BY <1>1, <1>2, <1>3
<1> QED  BY <1>1, <1>3, <1>4, <1>5 DEF c, IsLonger

(* The inductive invariant. *)
MapperInv == MapperTypeOK /\ CachesBounded /\ MirrorInv

(* Empty caches and empty channels satisfy it. *)
LEMMA MapperInitInv == MapperInit => MapperInv
<1> SUFFICES ASSUME MapperInit PROVE MapperInv
  BY Zenon
<1>1. MapperTypeOK
  <2>1. <<>> \in Seq(Hashes) /\ <<>> \in Seq(Entries)
    OBVIOUS
  <2>2. forgotten \in BOOLEAN /\ stopped \subseteq Servers
    BY Zenon DEF MapperInit
  <2> QED  BY <2>1, <2>2, Zenon DEF MapperInit, MapperTypeOK
<1>2. CachesBounded
  BY MapperAssumption DEF MapperInit, CachesBounded, CacheOK
<1>3. MirrorInv
  BY DEF MapperInit, MirrorInv, Linked, Sent
<1> QED  BY <1>1, <1>2, <1>3, Zenon DEF MapperInv

(* An image the client looks up extends the chain of every server by one. *)
LEMMA ClientImageInv ==
    ASSUME MapperInv, NEW hash \in Hashes, NEW owner \in Owners,
           ClientImage(hash, owner)
    PROVE  MapperInv'
<1> DEFINE entry == [hash |-> hash, isNone |-> InCache(clientCache, hash),
                     owner |-> owner, seen |-> clientCache]
<1>1. /\ mapped' = Append(mapped, entry)
      /\ clientCache' = CacheAfter(entry)
      /\ UNCHANGED <<channel, serverCache, stopped, forgotten>>
  BY Zenon DEF ClientImage
<1>2. MapperTypeOK /\ CachesBounded /\ MirrorInv
  BY Zenon DEF MapperInv
<1>3. entry \in Entries
  <2>1. InCache(clientCache, hash) \in BOOLEAN
    BY Zenon DEF InCache
  <2> QED  BY <2>1, <1>2, Zenon DEF Entries, MapperTypeOK
<1>4. /\ entry.seen = clientCache
      /\ entry.isNone <=> InCache(entry.seen, entry.hash)
      /\ entry.hash = hash
  BY Zenon
<1>5. CacheOK(clientCache')
  BY <1>1, <1>2, <1>4, GetKeepsCache, PutKeepsCache, Zenon DEF CacheAfter, CachesBounded
<1> HIDE DEF entry
<1>6. MapperTypeOK'
  BY <1>1, <1>2, <1>3, <1>5 DEF MapperTypeOK, CacheOK
<1>7. CachesBounded'
  BY <1>1, <1>2, <1>5, Zenon DEF CachesBounded
<1>8. MirrorInv'
  <2> SUFFICES ASSUME ~forgotten, NEW s \in Servers
               PROVE  Linked(serverCache[s], Sent(s)', clientCache')
    <3>1. stopped' = stopped /\ serverCache' = serverCache
          /\ forgotten' = forgotten
      BY <1>1, Zenon
    <3> QED  BY <3>1, <1>2, Zenon DEF MirrorInv
  <2>1. Linked(serverCache[s], Sent(s), clientCache)
    BY <1>2, Zenon DEF MirrorInv
  <2> DEFINE old == Sent(s)
             new == Sent(s)'
  <2>2. old \in Seq(Entries) /\ new \in Seq(Entries)
    BY <1>2, <1>6, SentFacts DEF Sent, MapperTypeOK
  <2>3. /\ Len(old) \in Nat
        /\ Len(new) = Len(old) + 1
        /\ new[Len(new)] = entry
        /\ new # <<>>
        /\ \A i \in 1 .. Len(old) : new[i] = old[i]
    <3>1. channel[s] \in Seq(Entries) /\ mapped \in Seq(Entries)
      BY <1>2, Zenon DEF MapperTypeOK
    <3>2. new = channel[s] \o Append(mapped, entry)
      BY <1>1, Zenon DEF Sent
    <3>3. old = channel[s] \o mapped
      BY Zenon DEF Sent
    <3>4. IsLonger(channel[s] \o Append(mapped, entry), channel[s] \o mapped, entry)
      BY <3>1, <1>3, AppendInside, Zenon
    <3>5. IsLonger(new, old, entry)
      BY <3>2, <3>3, <3>4, Zenon
    <3> HIDE DEF new, old
    <3>6. new # <<>>
      BY <3>5, <2>2 DEF IsLonger
    <3> QED  BY <3>5, <3>6, Zenon DEF IsLonger
  <2>4. old = <<>> <=> Len(old) = 0
    BY <2>2
  <2> HIDE DEF old, new
  <2>5. new[1].seen = serverCache[s]
    BY <2>1, <2>3, <2>4, <1>4 DEF Linked, old
  <2>6. CacheAfter(new[Len(new)]) = clientCache'
    BY <2>3, <1>1, Zenon
  <2>7. \A i \in 1 .. Len(new) :
            new[i].isNone <=> InCache(new[i].seen, new[i].hash)
    BY <2>1, <2>3, <1>4 DEF Linked, old
  <2>8. \A i \in 1 .. Len(new) - 1 : new[i + 1].seen = CacheAfter(new[i])
    <3> SUFFICES ASSUME NEW i \in 1 .. Len(new) - 1
                 PROVE  new[i + 1].seen = CacheAfter(new[i])
      BY Zenon
    <3>1. CASE i < Len(old)
      <4>1. i \in 1 .. Len(old) - 1 /\ i + 1 \in 1 .. Len(old)
        BY <3>1, <2>3
      <4> QED  BY <4>1, <2>1, <2>3 DEF Linked, old
    <3>2. CASE i = Len(old)
      BY <3>2, <2>1, <2>3, <2>4, <1>4 DEF Linked, old
    <3> QED  BY <3>1, <3>2, <2>3
  <2>9. Linked(serverCache[s], new, clientCache')
    BY <2>3, <2>5, <2>6, <2>7, <2>8, Zenon DEF Linked
  <2> QED  BY <2>9, Zenon DEF new
<1> QED  BY <1>6, <1>7, <1>8, Zenon DEF MapperInv

(* Sending moves the mapped images into the channels: no chain changes.    *)
LEMMA ClientSendInv ==
    ASSUME MapperInv, ClientSend
    PROVE  MapperInv'
<1>1. MapperTypeOK /\ CachesBounded /\ MirrorInv
  BY Zenon DEF MapperInv
<1>2. \A s \in Servers : channel'[s] = Sent(s)
  BY Zenon DEF ClientSend
<1>3. MapperTypeOK'
  BY <1>1, SentFacts DEF ClientSend, MapperTypeOK
<1>4. \A s \in Servers : Sent(s)' = Sent(s)
  <2> SUFFICES ASSUME NEW s \in Servers PROVE Sent(s)' = Sent(s)
    BY Zenon
  <2>1. Sent(s)' = Sent(s) \o <<>>
    BY <1>2, Zenon DEF Sent, ClientSend
  <2> QED  BY <2>1, <1>1, SentFacts
<1>5. CachesBounded'
  BY <1>1, Zenon DEF CachesBounded, ClientSend
<1>6. MirrorInv'
  BY <1>1, <1>4, Zenon DEF MirrorInv, ClientSend
<1> QED  BY <1>3, <1>5, <1>6, Zenon DEF MapperInv

(* A server that takes the first entry makes the client's operation on the *)
(* client's cache of that moment, so the rest of the chain starts from its *)
(* new cache, and a None is always a hit.                                  *)
LEMMA ServerImageInv ==
    ASSUME MapperInv, NEW s \in Servers, ServerImage(s)
    PROVE  MapperInv'
<1> DEFINE entry == Head(channel[s])
<1>1. MapperTypeOK /\ CachesBounded /\ MirrorInv
  BY Zenon DEF MapperInv
<1>2. /\ channel[s] \in Seq(Entries) /\ channel[s] # <<>>
      /\ mapped \in Seq(Entries) /\ serverCache[s] \in Seq(Hashes)
      /\ s \in DOMAIN serverCache /\ s \in DOMAIN channel
  BY <1>1, Zenon DEF MapperTypeOK, ServerImage
<1>3. entry \in Entries /\ entry.hash \in Hashes
  <2>1. entry \in Entries
    BY <1>2
  <2> HIDE DEF entry
  <2> QED  BY <2>1, Zenon DEF Entries
<1>4. /\ channel' = [channel EXCEPT ![s] = Tail(@)]
      /\ serverCache' = [serverCache EXCEPT ![s] = ServerCacheAfter(@, entry)]
      /\ stopped' = IF entry.isNone /\ ~InCache(serverCache[s], entry.hash)
                    THEN stopped \cup {s} ELSE stopped
      /\ UNCHANGED <<clientCache, mapped, forgotten>>
  BY Zenon DEF ServerImage
<1>5. CacheOK(serverCache'[s])
  <2>1. CacheOK(serverCache[s])
    BY <1>1, Zenon DEF CachesBounded
  <2>2. serverCache'[s] = ServerCacheAfter(serverCache[s], entry)
    BY <1>2, <1>4, Zenon
  <2> QED
    BY <2>1, <2>2, <1>3, GetKeepsCache, PutKeepsCache, Zenon DEF ServerCacheAfter
<1>6. \A t \in Servers : t # s => /\ serverCache'[t] = serverCache[t]
                                  /\ channel'[t] = channel[t]
  BY <1>1, <1>4, Zenon DEF MapperTypeOK
<1> HIDE DEF entry
<1>7. MapperTypeOK'
  <2>1. serverCache' \in [Servers -> Seq(Hashes)]
    BY <1>1, <1>4, <1>5, <1>6, Zenon DEF MapperTypeOK, CacheOK
  <2>2. channel' \in [Servers -> Seq(Entries)]
    BY <1>1, <1>2, <1>4 DEF MapperTypeOK
  <2> QED  BY <2>1, <2>2, <1>1, <1>4, Zenon DEF MapperTypeOK
<1>8. CachesBounded'
  BY <1>1, <1>4, <1>5, <1>6, Zenon DEF CachesBounded
<1>9. MirrorInv'
  <2> SUFFICES ASSUME ~forgotten
               PROVE  /\ stopped' = {}
                      /\ \A t \in Servers :
                            Linked(serverCache'[t], Sent(t)', clientCache)
    BY <1>4, Zenon DEF MirrorInv
  <2> DEFINE old == Sent(s)
             new == Sent(s)'
  <2>1. stopped = {} /\ Linked(serverCache[s], old, clientCache)
    BY <1>1, Zenon DEF MirrorInv
  <2>2. /\ old \in Seq(Entries) /\ new \in Seq(Entries)
        /\ Len(new) = Len(old) - 1
        /\ Len(old) \in Nat \ {0}
        /\ old[1] = entry
        /\ \A i \in 1 .. Len(new) : new[i] = old[i + 1]
    <3>1. new = Tail(channel[s]) \o mapped
      BY <1>2, <1>4, Zenon DEF Sent
    <3> QED  BY <3>1, <1>2 DEF Sent, entry
  <2>3. /\ (old = <<>> <=> Len(old) = 0)
        /\ (new = <<>> <=> Len(new) = 0)
    BY <2>2
  <2> HIDE DEF old, new
  <2>4. entry.seen = serverCache[s]
    BY <2>1, <2>2, <2>3, Zenon DEF Linked
  <2>5. entry.isNone <=> InCache(serverCache[s], entry.hash)
    BY <2>1, <2>2, <2>4 DEF Linked
  <2>6. stopped' = {}
    BY <2>1, <2>5, <1>4, Zenon
  <2>7. serverCache'[s] = CacheAfter(entry)
    BY <2>4, <1>2, <1>4, Zenon DEF CacheAfter, ServerCacheAfter
  <2>8. Linked(serverCache'[s], new, clientCache)
    <3>1. new = <<>> => serverCache'[s] = clientCache
      <4>1. new = <<>> => Len(old) = 1
        BY <2>2, <2>3
      <4>2. CacheAfter(old[Len(old)]) = clientCache
        BY <2>1, <2>2, <2>3, Zenon DEF Linked
      <4> QED  BY <4>1, <4>2, <2>2, <2>7, Zenon
    <3>2. new # <<>> => /\ new[1].seen = serverCache'[s]
                        /\ CacheAfter(new[Len(new)]) = clientCache
      <4> SUFFICES ASSUME new # <<>>
                   PROVE  /\ new[1].seen = serverCache'[s]
                          /\ CacheAfter(new[Len(new)]) = clientCache
        BY Zenon
      <4>1. Len(new) >= 1 /\ 1 \in 1 .. Len(old) - 1
            /\ Len(new) \in 1 .. Len(new)
        BY <2>2, <2>3
      <4>2. new[1] = old[2] /\ old[2].seen = CacheAfter(old[1])
        BY <4>1, <2>1, <2>2 DEF Linked
      <4>3. new[Len(new)] = old[Len(old)]
        BY <4>1, <2>2
      <4>4. CacheAfter(old[Len(old)]) = clientCache
        BY <2>1, <2>2, <2>3, Zenon DEF Linked
      <4> QED  BY <4>2, <4>3, <4>4, <2>2, <2>7, Zenon
    <3>3. \A i \in 1 .. Len(new) :
              new[i].isNone <=> InCache(new[i].seen, new[i].hash)
      BY <2>1, <2>2 DEF Linked
    <3>4. \A i \in 1 .. Len(new) - 1 : new[i + 1].seen = CacheAfter(new[i])
      <4> SUFFICES ASSUME NEW i \in 1 .. Len(new) - 1
                   PROVE  new[i + 1].seen = CacheAfter(new[i])
        BY Zenon
      <4>1. /\ i \in 1 .. Len(new) /\ i + 1 \in 1 .. Len(new)
            /\ i + 1 \in 1 .. Len(old) - 1
        BY <2>2
      <4>2. new[i] = old[i + 1] /\ new[i + 1] = old[(i + 1) + 1]
        BY <4>1, <2>2, Zenon
      <4> QED  BY <4>1, <4>2, <2>1, Zenon DEF Linked
    <3> QED  BY <3>1, <3>2, <3>3, <3>4, Zenon DEF Linked
  <2>9. ASSUME NEW t \in Servers, t # s
        PROVE  Linked(serverCache'[t], Sent(t)', clientCache)
    <3>1. Sent(t)' = Sent(t)
      BY <1>4, <1>6, <2>9, Zenon DEF Sent
    <3> QED  BY <3>1, <1>1, <1>6, <2>9, Zenon DEF MirrorInv
  <2> QED  BY <2>6, <2>8, <2>9, Zenon DEF new
<1> QED  BY <1>7, <1>8, <1>9, Zenon DEF MapperInv

(* Every step keeps the invariant.  When mapping raises with images of the *)
(* request already looked up, the chain is cut: `forgotten` is then set,   *)
(* and nothing is claimed from there on.                                   *)
LEMMA MapperNextInv == MapperInv /\ [MapperNext]_mapperVars => MapperInv'
<1> SUFFICES ASSUME MapperInv, [MapperNext]_mapperVars PROVE MapperInv'
  BY Zenon
<1>1. ASSUME NEW hash \in Hashes, NEW owner \in Owners,
             ClientImage(hash, owner)
      PROVE  MapperInv'
  BY <1>1, ClientImageInv, Zenon
<1>2. ASSUME NEW hash \in Hashes, ClientRaises(hash) PROVE MapperInv'
  <2>1. MapperTypeOK'
    BY <1>2 DEF MapperInv, MapperTypeOK, ClientRaises
  <2>2. CachesBounded'
    BY <1>2, Zenon DEF MapperInv, CachesBounded, ClientRaises
  <2>3. MirrorInv'
    <3>1. CASE forgotten'
      BY <3>1, Zenon DEF MirrorInv
    <3>2. CASE ~forgotten'
      <4>1. ~forgotten /\ mapped' = mapped /\ UNCHANGED mapperVars
        BY <1>2, <3>2, Zenon DEF ClientRaises, MapperInv, MapperTypeOK, mapperVars
      <4> QED  BY <4>1, Zenon DEF MapperInv, MirrorInv, Sent, mapperVars
    <3> QED  BY <3>1, <3>2, Zenon
  <2> QED  BY <2>1, <2>2, <2>3, Zenon DEF MapperInv
<1>3. ASSUME ClientSend PROVE MapperInv'
  BY <1>3, ClientSendInv, Zenon
<1>4. ASSUME NEW s \in Servers, ServerImage(s) PROVE MapperInv'
  BY <1>4, ServerImageInv, Zenon
<1>5. CASE UNCHANGED mapperVars
  BY <1>5, Zenon DEF MapperInv, MapperTypeOK, CachesBounded, MirrorInv, Sent, mapperVars
<1> QED  BY <1>1, <1>2, <1>3, <1>4, <1>5, Zenon DEF MapperNext

(* The mirrored caches never disagree: no server misses an image sent as   *)
(* None, and a server that has caught up has the client's cache in the     *)
(* client's order (the comment of EngineCore.add_request).                 *)
THEOREM CachesMirrored == MapperSpec => []Mirrored
<1>1. MapperInv => Mirrored
  BY Zenon DEF MapperInv, MirrorInv, Mirrored, Linked
<1> QED  BY <1>1, MapperInitInv, MapperNextInv, PTL DEF MapperSpec

(* Every cache holds different keys, at most MM_CACHE_SIZE of them.        *)
THEOREM CachesStayBounded == MapperSpec => []CachesBounded
<1>1. MapperInv => CachesBounded
  BY Zenon DEF MapperInv
<1> QED  BY <1>1, MapperInitInv, MapperNextInv, PTL DEF MapperSpec

----------------------------------------------------------------------------
(* The two sides of a call *)

\* What the front end sends to EngineCore, and what comes back.
Messages == [type : {"ADD", "ABORT"}, call : Calls]
EngineOutputs == [call : Calls, token : Nat, finished : BOOLEAN]

\* Where a call can be, and where before EngineCore hears of it.
CallStates == {"new", "adding", "generating", "done", "cancelled", "abandoned", "error"}
Early == {"new", "adding", "error"}

\* The types that the protocol between the two sides rests on.
ProtocolTypes ==
    /\ pc \in [Calls -> CallStates]
    /\ adding \in Calls \cup {NoCall}
    /\ adding # NoCall => pc[adding] = "adding"
    /\ nextImage \in Nat \ {0}
    /\ requestStates \subseteq Calls /\ engineReqs \subseteq Calls
    /\ engineIn \in Seq(Messages)
    /\ toAbort \in Seq(Calls)
    /\ slices \in Seq(Seq(EngineOutputs))
    /\ engineOut \in Seq(Seq(EngineOutputs) \ {<<>>})
    /\ inSlice \in BOOLEAN /\ (inSlice => slices # <<>>)
    /\ slices = <<>> => toAbort = <<>>
    /\ produced \in [Calls -> Nat]

\* The abort of c is held back for the end of the slice.
Held(c) == \E i \in 1 .. Len(toAbort) : toAbort[i] = c

\* A message about c.
Message(t, c) == [type |-> t, call |-> c]

\* There is one ADD of c at most, and once c is dropped an ABORT follows it.
Ordered(messages, c, dropped) ==
    \A i \in 1 .. Len(messages) : messages[i] = Message("ADD", c) =>
        /\ \A j \in 1 .. Len(messages) : messages[j] = Message("ADD", c) => j = i
        /\ dropped => \E j \in i + 1 .. Len(messages) : messages[j] = Message("ABORT", c)

\* Nobody but its caller knows of the call.
Unknown(c) ==
    /\ c \notin requestStates /\ c \notin engineReqs /\ ~Held(c)
    /\ ~InTransit("ADD", c) /\ ~InTransit("ABORT", c) /\ ~FinishInTransit(c)

\* What the two sides know of a call, and the messages between them.
CallProtocol(c) ==
    /\ pc[c] \in Early => Unknown(c)
    /\ InTransit("ABORT", c) \/ Held(c) => c \notin requestStates
    /\ c \in engineReqs \/ FinishInTransit(c) => ~InTransit("ADD", c)
    /\ FinishInTransit(c) => c \notin engineReqs
    /\ c \in engineReqs /\ c \notin requestStates => InTransit("ABORT", c) \/ Held(c)
    /\ c \in requestStates /\ c \notin engineReqs => InTransit("ADD", c) \/ FinishInTransit(c)
    /\ Ordered(engineIn, c, c \notin requestStates /\ ~Held(c))

\* The inductive invariant.
ProtocolInv == ProtocolTypes /\ \A c \in Calls : CallProtocol(c)

\* x is somewhere in s.
Among(s, x) == \E i \in 1 .. Len(s) : s[i] = x

\* What is in a concatenation, and where its first part stays.
LEMMA AmongConcat ==
    ASSUME NEW S, NEW s \in Seq(S), NEW t \in Seq(S)
    PROVE  /\ s \o t \in Seq(S)
           /\ Len(s \o t) = Len(s) + Len(t) /\ Len(s) \in Nat /\ Len(t) \in Nat
           /\ \A k \in 1 .. Len(s) : (s \o t)[k] = s[k]
           /\ \A k \in Len(s) + 1 .. Len(s) + Len(t) : (s \o t)[k] = t[k - Len(s)]
           /\ \A x : Among(s \o t, x) <=> Among(s, x) \/ Among(t, x)
<1>1. /\ s \o t \in Seq(S) /\ Len(s \o t) = Len(s) + Len(t) /\ Len(s) \in Nat /\ Len(t) \in Nat
      /\ \A k \in 1 .. Len(s) : (s \o t)[k] = s[k]
      /\ \A k \in Len(s) + 1 .. Len(s) + Len(t) : (s \o t)[k] = t[k - Len(s)]
  OBVIOUS
<1> DEFINE u == s \o t
<1> HIDE DEF u
<1>2. ASSUME NEW x, Among(u, x) PROVE Among(s, x) \/ Among(t, x)
  <2>1. PICK k \in 1 .. Len(u) : u[k] = x
    BY <1>2, Zenon DEF Among
  <2>2. CASE k <= Len(s)
    BY <1>1, <2>1, <2>2 DEF Among, u
  <2>3. CASE k > Len(s)
    <3>1. k \in Len(s) + 1 .. Len(s) + Len(t) /\ k - Len(s) \in 1 .. Len(t)
      BY <1>1, <2>1, <2>3 DEF u
    <3>2. t[k - Len(s)] = x
      BY <1>1, <2>1, <3>1, Zenon DEF u
    <3> QED  BY <3>1, <3>2, Zenon DEF Among
  <2> QED  BY <1>1, <2>2, <2>3
<1>3. ASSUME NEW x, Among(s, x) PROVE Among(u, x)
  BY <1>1, <1>3 DEF Among, u
<1>4. ASSUME NEW x, Among(t, x) PROVE Among(u, x)
  <2>1. PICK k \in 1 .. Len(t) : t[k] = x
    BY <1>4, Zenon DEF Among
  <2>2. /\ Len(s) + k \in Len(s) + 1 .. Len(s) + Len(t) /\ (Len(s) + k) - Len(s) = k
        /\ Len(s) + k \in 1 .. Len(u)
    BY <1>1, <2>1 DEF u
  <2>3. u[Len(s) + k] = x
    BY <1>1, <2>1, <2>2, Zenon DEF u
  <2> QED  BY <2>2, <2>3, Zenon DEF Among
<1> QED  BY <1>1, <1>2, <1>3, <1>4, Zenon DEF u

\* The tail of a queue: everything but its head moves up one place.
LEMMA AmongTail ==
    ASSUME NEW S, NEW s \in Seq(S), s # <<>>
    PROVE  /\ s[1] \in S /\ Head(s) = s[1] /\ Tail(s) \in Seq(S)
           /\ Len(Tail(s)) = Len(s) - 1 /\ Len(s) \in Nat \ {0}
           /\ \A k \in 1 .. Len(s) - 1 : Tail(s)[k] = s[k + 1]
           /\ \A x : Among(s, x) <=> s[1] = x \/ Among(Tail(s), x)
<1>1. /\ s[1] \in S /\ Head(s) = s[1] /\ Tail(s) \in Seq(S)
      /\ Len(Tail(s)) = Len(s) - 1 /\ Len(s) \in Nat \ {0}
      /\ \A k \in 1 .. Len(s) - 1 : Tail(s)[k] = s[k + 1]
  OBVIOUS
<1> DEFINE t == Tail(s)
<1> HIDE DEF t
<1>2. ASSUME NEW x, Among(s, x), s[1] # x PROVE Among(t, x)
  <2>1. PICK k \in 1 .. Len(s) : s[k] = x
    BY <1>2, Zenon DEF Among
  <2>2. k - 1 \in 1 .. Len(s) - 1 /\ (k - 1) + 1 = k
    BY <1>1, <1>2, <2>1
  <2> QED  BY <1>1, <2>1, <2>2, Zenon DEF Among, t
<1>3. ASSUME NEW x, Among(t, x) PROVE Among(s, x)
  <2>1. PICK k \in 1 .. Len(s) - 1 : t[k] = x
    BY <1>1, <1>3, Zenon DEF Among, t
  <2>2. k + 1 \in 1 .. Len(s)
    BY <1>1, <2>1
  <2> QED  BY <1>1, <2>1, <2>2, Zenon DEF Among, t
<1>4. ASSUME NEW x, s[1] = x PROVE Among(s, x)
  BY <1>1, <1>4 DEF Among
<1> QED  BY <1>1, <1>2, <1>3, <1>4, Zenon DEF t

\* One more at the end.
LEMMA AmongAppend ==
    ASSUME NEW S, NEW s \in Seq(S), NEW e \in S
    PROVE  /\ Append(s, e) \in Seq(S) /\ Append(s, e) # <<>>
           /\ \A x : Among(Append(s, e), x) <=> Among(s, x) \/ x = e
<1> DEFINE t == Append(s, e)
<1>1. /\ t \in Seq(S) /\ t # <<>> /\ Len(t) = Len(s) + 1 /\ Len(s) \in Nat
      /\ t[Len(s) + 1] = e /\ \A k \in 1 .. Len(s) : t[k] = s[k]
  OBVIOUS
<1> HIDE DEF t
<1>2. ASSUME NEW x, Among(t, x) PROVE Among(s, x) \/ x = e
  <2>1. PICK k \in 1 .. Len(t) : t[k] = x
    BY <1>2, Zenon DEF Among
  <2>2. k = Len(s) + 1 \/ k \in 1 .. Len(s)
    BY <1>1, <2>1
  <2> QED  BY <1>1, <2>1, <2>2, Zenon DEF Among
<1>3. ASSUME NEW x, Among(s, x) \/ x = e PROVE Among(t, x)
  <2>1. 1 .. Len(s) \subseteq 1 .. Len(t) /\ Len(s) + 1 \in 1 .. Len(t)
    BY <1>1
  <2> QED  BY <1>1, <1>3, <2>1, Zenon DEF Among
<1> QED  BY <1>1, <1>2, <1>3, Zenon DEF t

\* A non-empty set of numbers has a least one.
LEMMA LeastExists ==
    ASSUME NEW T \in SUBSET Nat, T # {}
    PROVE  \E x \in T : \A y \in T : x <= y
<1>1. PICK x \in T : \A y \in T : ~(<<y, x>> \in OpToRel(<, Nat))
  BY NatLessThanWellFounded, WFMin, Zenon
<1>2. \A y \in T : x <= y
  <2> TAKE y \in T
  <2>1. x \in Nat /\ y \in Nat
    BY Zenon
  <2>2. ~(y < x)
    BY <1>1, <2>1, Zenon DEF OpToRel
  <2> QED  BY <2>1, <2>2
<1> QED  BY <1>2, Zenon

\* The calls of a batch, one after the other: each of them is there.
LEMMA InOrderLemma ==
    ASSUME NEW B, IsFiniteSet(B)
    PROVE  /\ InOrder(B) \in [1 .. Cardinality(B) -> B] /\ Cardinality(B) \in Nat
           /\ \A x \in B : \E i \in 1 .. Cardinality(B) : InOrder(B)[i] = x
<1> DEFINE n == Cardinality(B)
<1>1. n \in Nat /\ \E f : f \in Bijection(1 .. n, B)
  BY FS_CardinalityType, Zenon DEF ExistsBijection
<1>2. PICK f : f \in Bijection(1 .. n, B)
  BY <1>1, Zenon
<1>3. f \in [1 .. n -> B] /\ IsInjective(f)
  BY <1>2, Zenon DEF Bijection, Injection
<1>4. InOrder(B) \in [1 .. n -> B] /\ IsInjective(InOrder(B))
  BY <1>3, Zenon DEF InOrder
<1>5. InOrder(B) \in Injection(1 .. n, B)
  BY <1>4, Zenon DEF Injection
<1>6. IsFiniteSet(1 .. n) /\ Cardinality(1 .. n) = n
  BY <1>1, FS_Interval
<1>7. InOrder(B) \in Surjection(1 .. n, B)
  BY <1>5, <1>6, FS_Injection, Zenon
<1> QED  BY <1>1, <1>4, <1>7, Zenon DEF Surjection

\* Where a slice begins: np.array_split makes the first n % k slices one
\* longer than the others.
LEMMA StartLemma ==
    ASSUME NEW n \in Nat, NEW k \in Nat \ {0}, NEW i \in 1 .. k
    PROVE  LET First(j) == (j - 1) * (n \div k) + (IF j - 1 < n % k THEN j - 1 ELSE n % k)
           IN  /\ First(1) = 0 /\ First(k + 1) = n
               /\ First(i) \in Nat /\ First(i + 1) \in Nat
               /\ First(i) <= First(i + 1) /\ First(i + 1) <= n
<1> DEFINE q == n \div k
           r == n % k
           a == (i - 1) * q
           b == i * q
           d == k * q
<1>1. q \in Nat /\ r \in Nat /\ r < k /\ n = d + r
  OBVIOUS
<1> HIDE DEF q, r
<1>2. a \in Nat /\ b \in Nat /\ d \in Nat /\ b = a + q
  BY <1>1
<1>3. b <= d
  <2>1. \A x \in Nat : x * q \in Nat
    BY <1>1
  <2>2. k - i \in Nat /\ d = b + (k - i) * q
    BY <1>1
  <2> QED  BY <1>2, <2>1, <2>2
<1>4. (k + 1) - 1 = k /\ (i + 1) - 1 = i /\ 0 * q = 0
  BY <1>1
<1> HIDE DEF a, b, d
<1>5. 0 + (IF 0 < r THEN 0 ELSE r) = 0
  BY <1>1
<1>6. d + (IF k < r THEN k ELSE r) = n
  BY <1>1, <1>2
<1>7. LET x == a + (IF i - 1 < r THEN i - 1 ELSE r)
          y == b + (IF i < r THEN i ELSE r)
      IN  x \in Nat /\ y \in Nat /\ x <= y /\ y <= n
  BY <1>1, <1>2, <1>3
<1> QED  BY <1>4, <1>5, <1>6, <1>7 DEF a, b, d, q, r

\* The slices of a batch hold what is in the batch.
LEMMA SplitCovers ==
    ASSUME NEW S, NEW outputs \in Seq(S), outputs # <<>>
    PROVE  /\ Split(outputs) \in Seq(Seq(S)) /\ Split(outputs) # <<>>
           /\ \A x : (\E i \in 1 .. Len(Split(outputs)) : Among(Split(outputs)[i], x))
                        <=> Among(outputs, x)
<1> DEFINE n == Len(outputs)
           k == (n + ChunkSize - 1) \div ChunkSize
           First(j) == (j - 1) * (n \div k) + (IF j - 1 < n % k THEN j - 1 ELSE n % k)
           t == [i \in 1 .. k |-> SubSeq(outputs, First(i) + 1, First(i + 1))]
<1>1. Split(outputs) = t
  BY Zenon DEF Split
<1>2. n \in Nat \ {0} /\ ChunkSize \in Nat \ {0}
  BY AsyncAssumption
<1>3. k \in Nat \ {0}
  <2> DEFINE m == n + ChunkSize - 1
  <2>1. m \in Nat /\ m >= ChunkSize
    BY <1>2
  <2> HIDE DEF m
  <2>2. m \div ChunkSize \in Nat \ {0}
    BY <1>2, <2>1
  <2> QED  BY <2>2, Zenon DEF m
<1> HIDE DEF k
<1>4. \A i \in 1 .. k : /\ First(i) \in Nat /\ First(i + 1) \in Nat
                        /\ First(i) <= First(i + 1) /\ First(i + 1) <= n
  BY <1>2, <1>3, StartLemma, Zenon
<1>5. First(1) = 0 /\ First(k + 1) = n
  <2>1. 1 \in 1 .. k
    BY <1>3
  <2> QED  BY <1>2, <1>3, <2>1, StartLemma, Zenon
<1> HIDE DEF First
<1>6. \A i \in 1 .. k : /\ t[i] \in Seq(S) /\ Len(t[i]) = First(i + 1) - First(i)
                        /\ \A j \in 1 .. Len(t[i]) : t[i][j] = outputs[First(i) + j]
  <2> SUFFICES ASSUME NEW i \in 1 .. k
               PROVE  /\ t[i] \in Seq(S) /\ Len(t[i]) = First(i + 1) - First(i)
                      /\ \A j \in 1 .. Len(t[i]) : t[i][j] = outputs[First(i) + j]
    BY Zenon
  <2> DEFINE a == First(i) + 1
             b == First(i + 1)
  <2>1. /\ a \in Nat \ {0} /\ b \in Nat /\ a <= b + 1 /\ b <= n /\ First(i) \in Nat
        /\ First(i) = a - 1
    BY <1>4
  <2> HIDE DEF a, b
  <2>2. /\ SubSeq(outputs, a, b) \in Seq(S) /\ Len(SubSeq(outputs, a, b)) = b - a + 1
        /\ \A j \in 1 .. b - a + 1 : SubSeq(outputs, a, b)[j] = outputs[a + j - 1]
    BY <1>2, <2>1
  <2>3. t[i] = SubSeq(outputs, a, b)
    BY Zenon DEF a, b
  <2>4. b - a + 1 = First(i + 1) - First(i) /\ \A j \in Nat : a + j - 1 = First(i) + j
    BY <2>1 DEF b
  <2>5. t[i] \in Seq(S) /\ Len(t[i]) = First(i + 1) - First(i)
    BY <2>2, <2>3, <2>4, Zenon
  <2>6. ASSUME NEW j \in 1 .. Len(t[i]) PROVE t[i][j] = outputs[First(i) + j]
    <3>1. j \in 1 .. b - a + 1 /\ j \in Nat
      BY <2>1, <2>4, <2>5
    <3>2. SubSeq(outputs, a, b)[j] = outputs[First(i) + j]
      BY <2>2, <2>4, <3>1, Zenon
    <3> QED  BY <2>3, <3>2, Zenon
  <2> QED  BY <2>5, <2>6, Zenon
<1>7. t \in Seq(Seq(S)) /\ Len(t) = k /\ t # <<>>
  <2>1. \A i \in 1 .. k : SubSeq(outputs, First(i) + 1, First(i + 1)) \in Seq(S)
    <3> SUFFICES ASSUME NEW i \in 1 .. k
                 PROVE  SubSeq(outputs, First(i) + 1, First(i + 1)) \in Seq(S)
      BY Zenon
    <3>1. t[i] = SubSeq(outputs, First(i) + 1, First(i + 1))
      BY Zenon
    <3> HIDE DEF t
    <3> QED  BY <1>6, <3>1, Zenon
  <2>2. t \in [1 .. k -> Seq(S)]
    BY <2>1, Zenon
  <2> HIDE DEF t
  <2> QED  BY <1>3, <2>2
<1> HIDE DEF t
<1>8. ASSUME NEW x, NEW i \in 1 .. k, Among(t[i], x) PROVE Among(outputs, x)
  <2>1. PICK j \in 1 .. Len(t[i]) : t[i][j] = x
    BY <1>8, Zenon DEF Among
  <2>2. outputs[First(i) + j] = x
    BY <1>6, <2>1, Zenon
  <2>3. First(i) + j \in 1 .. n
    BY <1>2, <1>4, <1>6, <2>1
  <2> QED  BY <2>2, <2>3, Zenon DEF Among
<1>9. ASSUME NEW x, Among(outputs, x) PROVE \E i \in 1 .. k : Among(t[i], x)
  <2>1. PICK p \in 1 .. n : outputs[p] = x
    BY <1>9, Zenon DEF Among
  <2> DEFINE T == {i \in 1 .. k : p <= First(i + 1)}
             m == CHOOSE i \in T : \A y \in T : i <= y
  <2>2. k \in T /\ T \in SUBSET Nat
    BY <1>2, <1>3, <1>5
  <2>3. m \in T /\ \A y \in T : m <= y
    <3>1. \E i \in T : \A y \in T : i <= y
      BY <2>2, LeastExists, Zenon
    <3> QED  BY <3>1, Zenon
  <2> HIDE DEF m
  <2>4. m \in 1 .. k /\ p <= First(m + 1)
    BY <2>3, Zenon
  <2>5. First(m) < p
    <3>1. CASE m = 1
      BY <1>5, <2>1, <3>1
    <3>2. CASE m # 1
      <4>1. m - 1 \in 1 .. k /\ (m - 1) + 1 = m /\ ~(m <= m - 1)
        BY <1>3, <2>4, <3>2
      <4>2. m - 1 \notin T
        BY <2>3, <4>1, Zenon
      <4>3. ~(p <= First(m))
        BY <4>1, <4>2, Zenon
      <4> QED  BY <1>2, <1>4, <2>1, <2>4, <4>3
    <3> QED  BY <3>1, <3>2, Zenon
  <2>6. p - First(m) \in 1 .. Len(t[m]) /\ First(m) + (p - First(m)) = p
    BY <1>2, <1>4, <1>6, <2>1, <2>4, <2>5
  <2>7. t[m][p - First(m)] = x
    BY <1>6, <2>1, <2>4, <2>6, Zenon
  <2> QED  BY <2>4, <2>6, <2>7, Zenon DEF Among
<1> QED  BY <1>1, <1>7, <1>8, <1>9, Zenon

----------------------------------------------------------------------------
(* The last outputs on their way back *)

\* The output that says that c has finished, and where it may be.
IsFinish(out, c) == out.call = c /\ out.finished
HasFinish(batch, c) == \E j \in 1 .. Len(batch) : IsFinish(batch[j], c)
FinishIn(batches, c) == \E i \in 1 .. Len(batches) : HasFinish(batches[i], c)

\* In terms of what is in the sequences.
LEMMA FinishAmong ==
    ASSUME NEW c
    PROVE  /\ \A batch : HasFinish(batch, c) <=> \E x : Among(batch, x) /\ IsFinish(x, c)
           /\ \A bs : FinishIn(bs, c) <=> \E x : Among(bs, x) /\ HasFinish(x, c)
<1>1. \A batch : HasFinish(batch, c) <=> \E x : Among(batch, x) /\ IsFinish(x, c)
  BY Zenon DEF HasFinish, Among
<1>2. \A bs : FinishIn(bs, c) <=> \E x : Among(bs, x) /\ HasFinish(x, c)
  BY Zenon DEF FinishIn, Among
<1> QED  BY <1>1, <1>2, Zenon

\* The front end's slices come before the batches it has not pulled.
LEMMA FinishConcat ==
    ASSUME NEW c, NEW S, NEW a \in Seq(S), NEW b \in Seq(S)
    PROVE  FinishIn(a \o b, c) <=> FinishIn(a, c) \/ FinishIn(b, c)
<1> DEFINE u == a \o b
<1>1. \A x : Among(u, x) <=> Among(a, x) \/ Among(b, x)
  BY AmongConcat, Zenon
<1> HIDE DEF u
<1>2. FinishIn(u, c) <=> FinishIn(a, c) \/ FinishIn(b, c)
  BY <1>1, FinishAmong, Zenon
<1> QED  BY <1>2, Zenon DEF u

\* Before and after a step.
LEMMA FinishSplit ==
    ASSUME NEW c, NEW S
    PROVE  /\ slices \in Seq(S) /\ engineOut \in Seq(S) =>
                 (FinishInTransit(c) <=> FinishIn(slices, c) \/ FinishIn(engineOut, c))
           /\ slices' \in Seq(S) /\ engineOut' \in Seq(S) =>
                 (FinishInTransit(c)' <=> FinishIn(slices', c) \/ FinishIn(engineOut', c))
<1>1. FinishInTransit(c) <=> FinishIn(slices \o engineOut, c)
  BY Zenon DEF FinishInTransit, FinishIn, HasFinish, IsFinish
<1>2. FinishInTransit(c)' <=> FinishIn(slices' \o engineOut', c)
  BY Zenon DEF FinishInTransit, FinishIn, HasFinish, IsFinish
<1> QED  BY <1>1, <1>2, FinishConcat, Zenon

\* Pulling a batch moves its outputs.
LEMMA PullFinish ==
    ASSUME NEW c, NEW S, NEW bs \in Seq(Seq(S) \ {<<>>}), bs # <<>>
    PROVE  /\ Split(Head(bs)) \in Seq(Seq(S)) /\ Split(Head(bs)) # <<>>
           /\ Tail(bs) \in Seq(Seq(S) \ {<<>>})
           /\ FinishIn(bs, c) <=> FinishIn(Split(Head(bs)), c) \/ FinishIn(Tail(bs), c)
<1> DEFINE M == Seq(S) \ {<<>>}
           h == Head(bs)
           t == Split(h)
<1>1. M \subseteq Seq(S) /\ bs \in Seq(M) /\ \A m \in M : m # <<>>
  BY Zenon
<1> HIDE DEF M
<1>2. /\ h = bs[1] /\ h \in M /\ Tail(bs) \in Seq(M)
      /\ \A x : Among(bs, x) <=> bs[1] = x \/ Among(Tail(bs), x)
  <2>1. bs[1] \in M /\ Head(bs) = bs[1] /\ Tail(bs) \in Seq(M)
        /\ \A x : Among(bs, x) <=> bs[1] = x \/ Among(Tail(bs), x)
    BY <1>1, AmongTail, Zenon
  <2> QED  BY <2>1, Zenon
<1> HIDE DEF h
<1>3. h \in Seq(S) /\ h # <<>>
  BY <1>1, <1>2, Zenon
<1>4. /\ t \in Seq(Seq(S)) /\ t # <<>>
      /\ \A x : (\E i \in 1 .. Len(t) : Among(t[i], x)) <=> Among(h, x)
  BY <1>3, SplitCovers, Zenon
<1> HIDE DEF t
<1>5. FinishIn(t, c) <=> HasFinish(h, c)
  <2>1. FinishIn(t, c) <=> \E i \in 1 .. Len(t) : \E x : Among(t[i], x) /\ IsFinish(x, c)
    BY FinishAmong, Zenon DEF FinishIn
  <2>2. HasFinish(h, c) <=> \E x : Among(h, x) /\ IsFinish(x, c)
    BY FinishAmong, Zenon
  <2> QED  BY <1>4, <2>1, <2>2, Zenon
<1>6. FinishIn(bs, c) <=> HasFinish(h, c) \/ FinishIn(Tail(bs), c)
  <2>1. /\ FinishIn(bs, c) <=> \E x : Among(bs, x) /\ HasFinish(x, c)
        /\ FinishIn(Tail(bs), c) <=> \E x : Among(Tail(bs), x) /\ HasFinish(x, c)
    BY FinishAmong, Zenon
  <2> QED  BY <1>2, <2>1, Zenon
<1> QED  BY <1>2, <1>4, <1>5, <1>6, Zenon DEF M, h, t

\* The next output of a slice is processed.
LEMMA OutputFinish ==
    ASSUME NEW c, NEW S, NEW bs \in Seq(Seq(S)), bs # <<>>, Head(bs) # <<>>
    PROVE  /\ Head(Head(bs)) \in S
           /\ <<Tail(Head(bs))>> \o Tail(bs) \in Seq(Seq(S))
           /\ <<Tail(Head(bs))>> \o Tail(bs) # <<>>
           /\ FinishIn(bs, c) <=> \/ IsFinish(Head(Head(bs)), c)
                                  \/ FinishIn(<<Tail(Head(bs))>> \o Tail(bs), c)
<1> DEFINE h == Head(bs)
           u == Tail(h)
           v == Tail(bs)
           w == <<u>> \o v
<1>1. h = bs[1] /\ h \in Seq(S) /\ v \in Seq(Seq(S))
      /\ \A x : Among(bs, x) <=> bs[1] = x \/ Among(v, x)
  <2>1. bs[1] \in Seq(S) /\ Head(bs) = bs[1] /\ Tail(bs) \in Seq(Seq(S))
        /\ \A x : Among(bs, x) <=> bs[1] = x \/ Among(Tail(bs), x)
    BY AmongTail, Zenon
  <2> QED  BY <2>1, Zenon
<1>2. h # <<>>
  BY Zenon
<1> HIDE DEF h, v
<1>3. /\ h[1] \in S /\ Head(h) = h[1] /\ u \in Seq(S)
      /\ \A x : Among(h, x) <=> h[1] = x \/ Among(u, x)
  BY <1>1, <1>2, AmongTail, Zenon
<1> HIDE DEF u
<1>4. /\ w \in Seq(Seq(S)) /\ Len(w) = 1 + Len(v) /\ Len(v) \in Nat
      /\ \A x : Among(w, x) <=> x = u \/ Among(v, x)
  <2> DEFINE e == <<u>>
  <2>1. e \in Seq(Seq(S)) /\ Len(e) = 1 /\ e[1] = u
    BY <1>3
  <2>3. w = e \o v
    BY Zenon
  <2> HIDE DEF e, w
  <2>5. 1 .. Len(e) = {1}
    BY <2>1
  <2>2. \A x : Among(e, x) <=> x = u
    BY <2>1, <2>5, Zenon DEF Among
  <2>4. /\ e \o v \in Seq(Seq(S)) /\ Len(e \o v) = Len(e) + Len(v) /\ Len(v) \in Nat
        /\ \A x : Among(e \o v, x) <=> Among(e, x) \/ Among(v, x)
    BY <1>1, <2>1, AmongConcat, Zenon
  <2> QED  BY <2>1, <2>2, <2>3, <2>4, Zenon
<1> HIDE DEF w
<1>5. w # <<>>
  BY <1>4
<1>6. FinishIn(bs, c) <=> HasFinish(h, c) \/ FinishIn(v, c)
  <2>1. /\ FinishIn(bs, c) <=> \E x : Among(bs, x) /\ HasFinish(x, c)
        /\ FinishIn(v, c) <=> \E x : Among(v, x) /\ HasFinish(x, c)
    BY FinishAmong, Zenon
  <2> QED  BY <1>1, <2>1, Zenon
<1>7. FinishIn(w, c) <=> HasFinish(u, c) \/ FinishIn(v, c)
  <2>1. /\ FinishIn(w, c) <=> \E x : Among(w, x) /\ HasFinish(x, c)
        /\ FinishIn(v, c) <=> \E x : Among(v, x) /\ HasFinish(x, c)
    BY FinishAmong, Zenon
  <2> QED  BY <1>4, <2>1, Zenon
<1>8. HasFinish(h, c) <=> IsFinish(h[1], c) \/ HasFinish(u, c)
  <2>1. /\ HasFinish(h, c) <=> \E x : Among(h, x) /\ IsFinish(x, c)
        /\ HasFinish(u, c) <=> \E x : Among(u, x) /\ IsFinish(x, c)
    BY FinishAmong, Zenon
  <2> QED  BY <1>3, <2>1, Zenon
<1> QED  BY <1>3, <1>4, <1>5, <1>6, <1>7, <1>8, Zenon DEF h, u, v, w

----------------------------------------------------------------------------
(* The messages to EngineCore *)

\* A message is an ADD or an ABORT, of one call.
LEMMA MessageLemma ==
    ASSUME NEW c \in Calls
    PROVE  /\ Message("ADD", c) \in Messages /\ Message("ABORT", c) \in Messages
           /\ \A d : Message("ADD", c) # Message("ABORT", d)
           /\ \A d, t : Message(t, c) = Message(t, d) => c = d
           /\ \A t : Message(t, c).type = t /\ Message(t, c).call = c
BY Zenon DEF Message, Messages

\* An element of a sequence is in its set.
LEMMA AmongType ==
    ASSUME NEW S, NEW s \in Seq(S), NEW x, Among(s, x)
    PROVE  x \in S
<1>1. \A k \in 1 .. Len(s) : s[k] \in S
  OBVIOUS
<1> QED  BY <1>1, Zenon DEF Among

\* What the handler sends for reqs_to_abort.
LEMMA AbortsLemma ==
    ASSUME NEW cs \in Seq(Calls)
    PROVE  /\ AbortMessages(cs) \in Seq(Messages)
           /\ \A c : Among(AbortMessages(cs), Message("ABORT", c)) <=> Among(cs, c)
           /\ \A c : ~Among(AbortMessages(cs), Message("ADD", c))
<1> DEFINE ms == AbortMessages(cs)
<1>1. \A k \in 1 .. Len(cs) : cs[k] \in Calls
  OBVIOUS
<1>2. ms = [i \in 1 .. Len(cs) |-> Message("ABORT", cs[i])] /\ Len(cs) \in Nat
  BY DEF AbortMessages, Message
<1>3. \A k \in 1 .. Len(cs) : Message("ABORT", cs[k]) \in Messages
  BY <1>1, MessageLemma, Zenon
<1> HIDE DEF ms
<1>4. ms \in [1 .. Len(cs) -> Messages]
  BY <1>2, <1>3, Zenon
<1>5. ms \in Seq(Messages) /\ Len(ms) = Len(cs)
  BY <1>2, <1>4
<1>6. \A k \in 1 .. Len(cs) : ms[k] = Message("ABORT", cs[k])
  BY <1>2, Zenon
<1>7. \A c : Among(ms, Message("ABORT", c)) <=> Among(cs, c)
  <2>1. \A c : \A k \in 1 .. Len(cs) : ms[k] = Message("ABORT", c) <=> cs[k] = c
    BY <1>1, <1>6, MessageLemma
  <2> QED  BY <1>5, <2>1, Zenon DEF Among
<1>8. \A c : ~Among(ms, Message("ADD", c))
  <2>1. \A c : \A k \in 1 .. Len(cs) : Message("ABORT", cs[k]) # Message("ADD", c)
    BY Zenon DEF Message
  <2> QED  BY <1>5, <1>6, <2>1, Zenon DEF Among
<1> QED  BY <1>5, <1>7, <1>8, Zenon DEF ms

\* More messages, none of them an ADD of c, keep the order if c's abort is
\* among them when they come with its end.
LEMMA OrderGrows ==
    ASSUME NEW s \in Seq(Messages), NEW t \in Seq(Messages), NEW c, NEW old, NEW new,
           Ordered(s, c, old), ~Among(t, Message("ADD", c)),
           new => old \/ Among(t, Message("ABORT", c))
    PROVE  Ordered(s \o t, c, new)
<1> DEFINE u == s \o t
           add == Message("ADD", c)
           abort == Message("ABORT", c)
<1>1. /\ Len(u) = Len(s) + Len(t) /\ Len(s) \in Nat /\ Len(t) \in Nat
      /\ \A k \in 1 .. Len(s) : u[k] = s[k]
      /\ \A k \in Len(s) + 1 .. Len(s) + Len(t) : u[k] = t[k - Len(s)]
  BY AmongConcat
<1> HIDE DEF u, add, abort
<1>2. \A k \in 1 .. Len(u) : u[k] = add => k \in 1 .. Len(s) /\ s[k] = add
  <2> SUFFICES ASSUME NEW k \in 1 .. Len(u), u[k] = add
               PROVE  k \in 1 .. Len(s) /\ s[k] = add
    BY Zenon
  <2>1. CASE k <= Len(s)
    BY <1>1, <2>1
  <2>2. CASE k > Len(s)
    <3>1. k \in Len(s) + 1 .. Len(s) + Len(t) /\ k - Len(s) \in 1 .. Len(t)
      BY <1>1, <2>2
    <3>2. t[k - Len(s)] = add
      BY <1>1, <3>1, Zenon
    <3> QED  BY <3>1, <3>2, Zenon DEF Among, add
  <2> QED  BY <1>1, <2>1, <2>2
<1>3. ASSUME NEW i \in 1 .. Len(u), u[i] = add, new
      PROVE  \E j \in i + 1 .. Len(u) : u[j] = abort
  <2>1. i \in 1 .. Len(s) /\ s[i] = add
    BY <1>2, <1>3, Zenon
  <2>2. CASE old
    <3>1. PICK j \in i + 1 .. Len(s) : s[j] = abort
      BY <2>1, <2>2, Zenon DEF Ordered, add, abort
    <3>2. j \in 1 .. Len(s) /\ j \in i + 1 .. Len(u)
      BY <1>1, <2>1, <3>1
    <3> QED  BY <1>1, <3>1, <3>2, Zenon
  <2>3. CASE Among(t, Message("ABORT", c))
    <3>1. PICK k \in 1 .. Len(t) : t[k] = abort
      BY <2>3, Zenon DEF Among, abort
    <3>2. /\ Len(s) + k \in i + 1 .. Len(u) /\ (Len(s) + k) - Len(s) = k
          /\ Len(s) + k \in Len(s) + 1 .. Len(s) + Len(t)
      BY <1>1, <2>1, <3>1
    <3>3. u[Len(s) + k] = abort
      BY <1>1, <3>1, <3>2, Zenon
    <3> QED  BY <3>2, <3>3, Zenon
  <2> QED  BY <1>3, <2>2, <2>3, Zenon
<1>4. \A i, j \in 1 .. Len(u) : u[i] = add /\ u[j] = add => j = i
  BY <1>2, Zenon DEF Ordered, add
<1>5. Ordered(u, c, new)
  BY <1>3, <1>4, Zenon DEF Ordered, add, abort
<1> QED  BY <1>5, Zenon DEF u

\* A message is taken from the front.
LEMMA OrderTail ==
    ASSUME NEW s \in Seq(Messages), s # <<>>, NEW c, NEW dropped, Ordered(s, c, dropped)
    PROVE  Ordered(Tail(s), c, dropped)
<1> DEFINE t == Tail(s)
<1>1. /\ Len(t) = Len(s) - 1 /\ Len(s) \in Nat \ {0}
      /\ \A k \in 1 .. Len(s) - 1 : t[k] = s[k + 1]
  BY AmongTail, Zenon
<1> HIDE DEF t
<1>2. \A k \in 1 .. Len(t) : k + 1 \in 1 .. Len(s) /\ t[k] = s[k + 1]
  BY <1>1
<1>3. ASSUME NEW i \in 1 .. Len(t), t[i] = Message("ADD", c)
      PROVE  /\ \A j \in 1 .. Len(t) : t[j] = Message("ADD", c) => j = i
             /\ dropped => \E j \in i + 1 .. Len(t) : t[j] = Message("ABORT", c)
  <2>1. i + 1 \in 1 .. Len(s) /\ s[i + 1] = Message("ADD", c)
    BY <1>2, <1>3, Zenon
  <2>2. ASSUME NEW j \in 1 .. Len(t), t[j] = Message("ADD", c) PROVE j = i
    <3>1. j + 1 \in 1 .. Len(s) /\ s[j + 1] = Message("ADD", c)
      BY <1>2, <2>2, Zenon
    <3>2. j + 1 = i + 1
      BY <2>1, <3>1, Zenon DEF Ordered
    <3> QED  BY <3>2
  <2>3. ASSUME dropped PROVE \E j \in i + 1 .. Len(t) : t[j] = Message("ABORT", c)
    <3>1. PICK j \in (i + 1) + 1 .. Len(s) : s[j] = Message("ABORT", c)
      BY <2>1, <2>3, Zenon DEF Ordered
    <3>2. j - 1 \in i + 1 .. Len(t) /\ j - 1 \in 1 .. Len(t) /\ (j - 1) + 1 = j
      BY <1>1, <2>1, <3>1
    <3> QED  BY <1>2, <3>1, <3>2, Zenon
  <2> QED  BY <2>2, <2>3, Zenon
<1>4. Ordered(t, c, dropped)
  BY <1>3, Zenon DEF Ordered
<1> QED  BY <1>4, Zenon DEF t

\* The only ADD is the new one.
LEMMA OrderAdd ==
    ASSUME NEW s \in Seq(Messages), NEW m \in Messages, NEW c,
           ~Among(s, Message("ADD", c)), m = Message("ADD", c)
    PROVE  Ordered(s \o <<m>>, c, FALSE)
<1> DEFINE u == s \o <<m>>
<1>1. /\ Len(u) = Len(s) + 1 /\ Len(s) \in Nat
      /\ \A k \in 1 .. Len(s) : u[k] = s[k]
  OBVIOUS
<1> HIDE DEF u
<1>2. \A k \in 1 .. Len(u) : u[k] = Message("ADD", c) => k = Len(s) + 1
  <2> SUFFICES ASSUME NEW k \in 1 .. Len(u), u[k] = Message("ADD", c), k # Len(s) + 1
               PROVE  FALSE
    BY Zenon
  <2>1. k \in 1 .. Len(s)
    BY <1>1
  <2> QED  BY <1>1, <2>1, Zenon DEF Among
<1>3. Ordered(u, c, FALSE)
  BY <1>2, Zenon DEF Ordered
<1> QED  BY <1>3, Zenon DEF u

\* What is in transit once messages have been sent.
LEMMA SentTransit ==
    ASSUME engineIn \in Seq(Messages), NEW ms \in Seq(Messages), engineIn' = engineIn \o ms,
           NEW c
    PROVE  /\ engineIn' \in Seq(Messages)
           /\ InTransit("ADD", c)' <=> InTransit("ADD", c) \/ Among(ms, Message("ADD", c))
           /\ InTransit("ABORT", c)' <=> InTransit("ABORT", c) \/ Among(ms, Message("ABORT", c))
<1> DEFINE u == engineIn \o ms
<1>1. u \in Seq(Messages) /\ \A x : Among(u, x) <=> Among(engineIn, x) \/ Among(ms, x)
  BY AmongConcat, Zenon
<1>2. engineIn' = u
  BY Zenon
<1> HIDE DEF u
<1>3. \A t : InTransit(t, c) <=> Among(engineIn, Message(t, c))
  BY Zenon DEF InTransit, Among, Message
<1>4. \A t : InTransit(t, c)' <=> Among(u, Message(t, c))
  BY <1>2, Zenon DEF InTransit, Among, Message
<1> QED  BY <1>1, <1>2, <1>3, <1>4, Zenon

\* And once EngineCore has taken one.
LEMMA TakenTransit ==
    ASSUME engineIn \in Seq(Messages), engineIn # <<>>, engineIn' = Tail(engineIn), NEW c
    PROVE  /\ engineIn' \in Seq(Messages)
           /\ Head(engineIn) \in Messages
           /\ InTransit("ADD", c) <=> InTransit("ADD", c)' \/ Head(engineIn) = Message("ADD", c)
           /\ InTransit("ABORT", c) <=>
                 InTransit("ABORT", c)' \/ Head(engineIn) = Message("ABORT", c)
<1> DEFINE u == Tail(engineIn)
           h == Head(engineIn)
<1>1. u \in Seq(Messages) /\ h \in Messages /\ \A x : Among(engineIn, x) <=> h = x \/ Among(u, x)
  BY AmongTail
<1>2. engineIn' = u
  BY Zenon
<1> HIDE DEF u, h
<1>3. \A t : InTransit(t, c) <=> Among(engineIn, Message(t, c))
  BY Zenon DEF InTransit, Among, Message
<1>4. \A t : InTransit(t, c)' <=> Among(u, Message(t, c))
  BY <1>2, Zenon DEF InTransit, Among, Message
<1> QED  BY <1>1, <1>2, <1>3, <1>4, Zenon DEF h

----------------------------------------------------------------------------
(* The steps *)

\* What a step leaves alone.
LEMMA HeldFrame ==
    ASSUME toAbort' = toAbort, NEW c
    PROVE  Held(c)' <=> Held(c)
BY Zenon DEF Held

\* The same for the messages to EngineCore.
LEMMA TransitFrame ==
    ASSUME engineIn' = engineIn, NEW c
    PROVE  /\ InTransit("ADD", c)' <=> InTransit("ADD", c)
           /\ InTransit("ABORT", c)' <=> InTransit("ABORT", c)
BY Zenon DEF InTransit

\* The same for its outputs.
LEMMA FinishFrame ==
    ASSUME slices' = slices, engineOut' = engineOut, NEW c
    PROVE  FinishInTransit(c)' <=> FinishInTransit(c)
BY Zenon DEF FinishInTransit

\* The types after a step of add_request or of a caller.
LEMMA QuietTypes ==
    ASSUME ProtocolTypes,
           UNCHANGED <<requestStates, slices, toAbort, engineIn, engineReqs, engineOut>>,
           UNCHANGED <<inSlice, produced>>,
           pc' \in [Calls -> CallStates], adding' \in Calls \cup {NoCall},
           adding' # NoCall => pc'[adding'] = "adding", nextImage' \in Nat \ {0}
    PROVE  ProtocolTypes'
BY Zenon DEF ProtocolTypes, CallStates

\* A step that changes nothing about a call that the other side can see.
LEMMA SameProtocol ==
    ASSUME ProtocolInv, ProtocolTypes',
           UNCHANGED <<requestStates, toAbort, engineIn, engineReqs>>,
           \A c \in Calls : FinishInTransit(c)' <=> FinishInTransit(c),
           \A c \in Calls : pc'[c] \in Early => pc[c] \in Early
    PROVE  ProtocolInv'
<1> SUFFICES ASSUME NEW c \in Calls PROVE CallProtocol(c)'
  BY Zenon DEF ProtocolInv
<1>1. CallProtocol(c)
  BY Zenon DEF ProtocolInv
<1>2. /\ Held(c)' <=> Held(c)
      /\ InTransit("ADD", c)' <=> InTransit("ADD", c)
      /\ InTransit("ABORT", c)' <=> InTransit("ABORT", c)
      /\ FinishInTransit(c)' <=> FinishInTransit(c)
  BY HeldFrame, TransitFrame, Zenon
<1>3. Ordered(engineIn', c, c \notin requestStates' /\ ~Held(c)')
  BY <1>1, <1>2, Zenon DEF CallProtocol, Ordered
<1>4. pc'[c] \in Early => pc[c] \in Early
  BY Zenon
<1> QED  BY <1>1, <1>2, <1>3, <1>4, Zenon DEF CallProtocol, Unknown, Early

\* A step that no other process hears of.
LEMMA QuietProtocol ==
    ASSUME ProtocolInv, ProtocolTypes',
           UNCHANGED <<requestStates, slices, toAbort, engineIn, engineReqs, engineOut>>,
           \A c \in Calls : pc'[c] \in Early => pc[c] \in Early
    PROVE  ProtocolInv'
<1>1. \A c \in Calls : FinishInTransit(c)' <=> FinishInTransit(c)
  BY FinishFrame, Zenon
<1> QED  BY <1>1, SameProtocol, Zenon

\* The check at the top of add_request: the call is known to nobody yet.
LEMMA StartGenerateProtocol ==
    ASSUME ProtocolInv, NEW c \in Calls, StartGenerate(c)
    PROVE  ProtocolInv'
<1>1. /\ pc \in [Calls -> CallStates]
      /\ pc[c] = "new" /\ adding = NoCall
  BY Zenon DEF ProtocolInv, ProtocolTypes, CallStates, StartGenerate, LoopFree
<1>2. /\ UNCHANGED <<requestStates, slices, toAbort, engineIn, engineReqs, engineOut>>
      /\ inSlice' = inSlice /\ produced' = produced /\ nextImage' = 1
  BY Zenon DEF StartGenerate, engineVars
<1>3. \/ pc' = [pc EXCEPT ![c] = "error"] /\ adding' = adding
      \/ pc' = [pc EXCEPT ![c] = "adding"] /\ adding' = c
  BY Zenon DEF StartGenerate, Generate
<1>4. ProtocolTypes'
  <2>1. /\ pc' \in [Calls -> CallStates] /\ adding' \in Calls \cup {NoCall}
        /\ adding' # NoCall => pc'[adding'] = "adding"
    BY <1>1, <1>2, <1>3, AsyncAssumption, Zenon DEF CallStates
  <2>2. nextImage' \in Nat \ {0}
    BY <1>1, <1>2, <1>3
  <2> QED  BY <1>2, <2>1, <2>2, QuietTypes, Zenon DEF ProtocolInv
<1>5. \A d \in Calls : pc'[d] \in Early => pc[d] \in Early
  BY <1>1, <1>3, Zenon DEF Early
<1> QED  BY <1>2, <1>4, <1>5, QuietProtocol, Zenon

\* An image is mapped, or cannot be: nothing has been sent.
LEMMA MapImageProtocol ==
    ASSUME ProtocolInv, MapImage
    PROVE  ProtocolInv'
<1>1. /\ pc \in [Calls -> CallStates]
      /\ pc[adding] = "adding" /\ adding \in Calls /\ nextImage \in Nat \ {0}
  BY Zenon DEF ProtocolInv, ProtocolTypes, CallStates, MapImage
<1>2. /\ UNCHANGED <<requestStates, slices, toAbort, engineIn, engineReqs, engineOut>>
      /\ inSlice' = inSlice /\ produced' = produced
  BY Zenon DEF MapImage, engineVars
<1>3. \/ UNCHANGED <<pc, adding>> /\ nextImage' = nextImage + 1
      \/ pc' = [pc EXCEPT ![adding] = "error"] /\ adding' = NoCall /\ nextImage' = nextImage
  BY Zenon DEF MapImage
<1>4. ProtocolTypes'
  <2>1. /\ pc' \in [Calls -> CallStates] /\ adding' \in Calls \cup {NoCall}
        /\ adding' # NoCall => pc'[adding'] = "adding"
    BY <1>1, <1>2, <1>3, AsyncAssumption, Zenon DEF CallStates
  <2>2. nextImage' \in Nat \ {0}
    BY <1>1, <1>2, <1>3
  <2> QED  BY <1>2, <2>1, <2>2, QuietTypes, Zenon DEF ProtocolInv
<1>5. \A d \in Calls : pc'[d] \in Early => pc[d] \in Early
  BY <1>1, <1>3, Zenon DEF Early
<1> QED  BY <1>2, <1>4, <1>5, QuietProtocol, Zenon

\* The caller gets an output, or leaves without a word.
LEMMA CallerProtocol ==
    ASSUME ProtocolInv, NEW c \in Calls, ReceiveOutput(c) \/ Abandon(c)
    PROVE  ProtocolInv'
<1>1. /\ pc \in [Calls -> CallStates]
      /\ pc[c] = "generating" /\ adding = NoCall /\ nextImage \in Nat \ {0}
  BY Zenon DEF ProtocolInv, ProtocolTypes, CallStates, ReceiveOutput, Abandon, LoopFree
<1>2. /\ UNCHANGED <<requestStates, slices, toAbort, engineIn, engineReqs, engineOut>>
      /\ inSlice' = inSlice /\ produced' = produced /\ nextImage' = nextImage
      /\ adding' = adding
  BY Zenon DEF ReceiveOutput, Abandon, engineVars
<1>3. \E where \in {"done", "generating", "abandoned"} : pc' = [pc EXCEPT ![c] = where]
  <2>1. CASE ReceiveOutput(c)
    <3> DEFINE out == Coalesce(queues[c], ParamsOf[c].kind = "DELTA")
    <3>1. pc' = [pc EXCEPT ![c] = IF out.finished THEN "done" ELSE pc[c]]
      BY <2>1, Zenon DEF ReceiveOutput
    <3> HIDE DEF out
    <3> QED  BY <1>1, <3>1, Zenon
  <2>2. CASE Abandon(c)
    BY <2>2, Zenon DEF Abandon
  <2> QED  BY <2>1, <2>2, Zenon
<1>4. ProtocolTypes'
  <2>1. /\ pc' \in [Calls -> CallStates] /\ adding' \in Calls \cup {NoCall}
        /\ adding' # NoCall => pc'[adding'] = "adding"
    BY <1>1, <1>2, <1>3, AsyncAssumption, Zenon DEF CallStates
  <2>2. nextImage' \in Nat \ {0}
    BY <1>1, <1>2, <1>3, Zenon
  <2> QED  BY <1>2, <2>1, <2>2, QuietTypes, Zenon DEF ProtocolInv
<1>5. \A d \in Calls : pc'[d] \in Early => pc[d] \in Early
  BY <1>1, <1>3, Zenon DEF Early
<1> QED  BY <1>2, <1>4, <1>5, QuietProtocol, Zenon

\* A mapper of the other processes takes an image.
LEMMA TakeImageProtocol ==
    ASSUME ProtocolInv, NEW s \in Servers, TakeImage(s)
    PROVE  ProtocolInv'
<1>1. UNCHANGED <<frontVars, engineVars>>
  BY Zenon DEF TakeImage
<1>2. /\ UNCHANGED <<requestStates, slices, toAbort, engineIn, engineReqs, engineOut>>
      /\ UNCHANGED <<inSlice, produced>> /\ UNCHANGED <<pc, adding, nextImage>>
  BY <1>1, Zenon DEF frontVars, engineVars
<1>3. ProtocolTypes'
  BY <1>2, Zenon DEF ProtocolInv, ProtocolTypes
<1> QED  BY <1>2, <1>3, QuietProtocol, Zenon

\* One message.
LEMMA OneMessage ==
    ASSUME NEW s \in Seq(Messages), NEW m \in Messages
    PROVE  /\ <<m>> \in Seq(Messages) /\ Append(s, m) = s \o <<m>>
           /\ \A x : Among(<<m>>, x) <=> x = m
<1> DEFINE e == <<m>>
<1>1. e \in Seq(Messages) /\ Len(e) = 1 /\ e[1] = m /\ Append(s, m) = s \o e
  OBVIOUS
<1> HIDE DEF e
<1>2. 1 .. Len(e) = {1}
  BY <1>1
<1>3. \A x : Among(e, x) <=> x = m
  BY <1>1, <1>2, Zenon DEF Among
<1> QED  BY <1>1, <1>3, Zenon DEF e

\* The request goes to EngineCore, and the output processor knows it.
LEMMA SendRequestProtocol ==
    ASSUME ProtocolInv, SendRequest
    PROVE  ProtocolInv'
<1>1. PICK a \in Calls : a = adding
  BY Zenon DEF SendRequest, ProtocolInv, ProtocolTypes
<1> DEFINE m == Message("ADD", a)
<1>2. /\ requestStates' = requestStates \cup {a}
      /\ engineIn' = engineIn \o <<m>>
      /\ pc' = [pc EXCEPT ![a] = "generating"] /\ adding' = NoCall
      /\ nextImage' = nextImage
      /\ UNCHANGED <<slices, inSlice, toAbort, engineReqs, produced, engineOut>>
  BY <1>1, Zenon DEF SendRequest, AddMessage, Message
<1>3. /\ pc \in [Calls -> CallStates] /\ pc[a] = "adding"
      /\ engineIn \in Seq(Messages) /\ requestStates \subseteq Calls
  BY <1>1, AsyncAssumption, Zenon DEF ProtocolInv, ProtocolTypes, CallStates
<1>4. m \in Messages
  BY MessageLemma, Zenon
<1> HIDE DEF m
<1>5. /\ <<m>> \in Seq(Messages) /\ \A x : Among(<<m>>, x) <=> x = m
  BY <1>3, <1>4, OneMessage, Zenon
<1>6. engineIn' \in Seq(Messages)
  BY <1>2, <1>3, <1>5, SentTransit, Zenon
<1>7. ProtocolTypes'
  <2>1. pc' \in [Calls -> CallStates] /\ requestStates' \subseteq Calls
    BY <1>2, <1>3, Zenon DEF CallStates
  <2> QED  BY <1>2, <1>6, <2>1, Zenon DEF ProtocolInv, ProtocolTypes, CallStates
<1>8. ASSUME NEW c \in Calls PROVE CallProtocol(c)'
  <2>1. CallProtocol(c)
    BY Zenon DEF ProtocolInv
  <2>2. /\ InTransit("ADD", c)' <=> InTransit("ADD", c) \/ m = Message("ADD", c)
        /\ InTransit("ABORT", c)' <=> InTransit("ABORT", c) \/ m = Message("ABORT", c)
    BY <1>2, <1>3, <1>5, SentTransit, Zenon
  <2>3. m # Message("ABORT", c) /\ (m = Message("ADD", c) <=> c = a)
    BY MessageLemma, Zenon DEF m
  <2>4. /\ Held(c)' <=> Held(c)
        /\ FinishInTransit(c)' <=> FinishInTransit(c)
    BY <1>2, HeldFrame, FinishFrame, Zenon
  <2>5. CASE c = a
    <3>1. Unknown(c)
      BY <1>3, <2>1, <2>5, Zenon DEF CallProtocol, Early
    <3>2. ~Among(engineIn, Message("ADD", c))
      BY <3>1, Zenon DEF Unknown, InTransit, Among, Message
    <3>3. Ordered(engineIn \o <<m>>, c, FALSE)
      BY <1>3, <1>4, <2>3, <2>5, <3>2, OrderAdd, Zenon
    <3>4. c \in requestStates'
      BY <1>2, <2>5, Zenon
    <3>5. Ordered(engineIn', c, c \notin requestStates' /\ ~Held(c)')
      BY <1>2, <3>3, <3>4, Zenon DEF Ordered
    <3>6. pc'[c] = "generating"
      BY <1>2, <1>3, <2>5, Zenon
    <3> QED  BY <1>2, <2>2, <2>3, <2>4, <2>5, <3>1, <3>4, <3>5, <3>6, Zenon DEF CallProtocol, Early, Unknown
  <2>6. CASE c # a
    <3>1. c \in requestStates' <=> c \in requestStates
      BY <1>2, <2>6, Zenon
    <3>2. ~Among(<<m>>, Message("ADD", c))
      BY <1>5, <2>3, <2>6, Zenon
    <3>3. Ordered(engineIn, c, c \notin requestStates /\ ~Held(c))
      BY <2>1, Zenon DEF CallProtocol
    <3>4. Ordered(engineIn \o <<m>>, c, c \notin requestStates' /\ ~Held(c)')
      BY <1>3, <1>5, <2>4, <3>1, <3>2, <3>3, OrderGrows, Zenon
    <3>5. pc'[c] = pc[c]
      BY <1>2, <1>3, <2>6, Zenon
    <3> QED  BY <1>2, <2>1, <2>2, <2>3, <2>4, <2>6, <3>1, <3>4, <3>5, Zenon DEF CallProtocol, Unknown
  <2> QED  BY <2>5, <2>6, Zenon
<1> QED  BY <1>7, <1>8, Zenon DEF ProtocolInv

\* A cancelled call is dropped here and aborted there.
LEMMA CancelProtocol ==
    ASSUME ProtocolInv, NEW a \in Calls, Cancel(a)
    PROVE  ProtocolInv'
<1> DEFINE m == Message("ABORT", a)
<1>1. m \in Messages
  BY MessageLemma, Zenon
<1>2. /\ requestStates' = requestStates \ {a}
      /\ engineIn' = Append(engineIn, m)
      /\ pc' = [pc EXCEPT ![a] = "cancelled"] /\ adding = NoCall
      /\ UNCHANGED <<adding, nextImage>>
      /\ UNCHANGED <<slices, inSlice, toAbort, engineReqs, produced, engineOut>>
  BY Zenon DEF Cancel, Abort, LoopFree, Message
<1>3. /\ pc \in [Calls -> CallStates]
      /\ engineIn \in Seq(Messages) /\ requestStates \subseteq Calls
  BY Zenon DEF ProtocolInv, ProtocolTypes, CallStates
<1> HIDE DEF m
<1>4. /\ <<m>> \in Seq(Messages) /\ \A x : Among(<<m>>, x) <=> x = m
      /\ engineIn' = engineIn \o <<m>>
  BY <1>1, <1>2, <1>3, OneMessage, Zenon
<1>5. engineIn' \in Seq(Messages)
  BY <1>3, <1>4, SentTransit, Zenon
<1>6. ProtocolTypes'
  <2>1. pc' \in [Calls -> CallStates] /\ requestStates' \subseteq Calls
    BY <1>2, <1>3, Zenon DEF CallStates
  <2> QED  BY <1>2, <1>5, <2>1, Zenon DEF ProtocolInv, ProtocolTypes, CallStates
<1>7. ASSUME NEW c \in Calls PROVE CallProtocol(c)'
  <2>1. CallProtocol(c) /\ Ordered(engineIn, c, c \notin requestStates /\ ~Held(c))
    BY Zenon DEF ProtocolInv, CallProtocol
  <2>2. m # Message("ADD", c) /\ (m = Message("ABORT", c) <=> c = a)
    BY MessageLemma, Zenon DEF m
  <2>3. /\ InTransit("ADD", c)' <=> InTransit("ADD", c)
        /\ InTransit("ABORT", c)' <=> InTransit("ABORT", c) \/ c = a
    BY <1>3, <1>4, <2>2, SentTransit, Zenon
  <2>4. /\ Held(c)' <=> Held(c)
        /\ FinishInTransit(c)' <=> FinishInTransit(c)
    BY <1>2, HeldFrame, FinishFrame, Zenon
  <2>5. c \in requestStates' <=> c \in requestStates /\ c # a
    BY <1>2, Zenon
  <2>6. /\ ~Among(<<m>>, Message("ADD", c))
        /\ c \notin requestStates' /\ ~Held(c)' =>
              (c \notin requestStates /\ ~Held(c)) \/ Among(<<m>>, Message("ABORT", c))
    BY <1>4, <2>2, <2>4, <2>5, Zenon
  <2>7. Ordered(engineIn \o <<m>>, c, c \notin requestStates' /\ ~Held(c)')
    BY <1>3, <1>4, <2>1, <2>6, OrderGrows, Zenon
  <2>8. pc'[c] \in Early => pc[c] \in Early /\ c # a
    BY <1>2, <1>3, Zenon DEF Early, CallStates
  <2>9. Ordered(engineIn', c, c \notin requestStates' /\ ~Held(c)')
    BY <1>4, <2>7, Zenon
  <2> QED  BY <1>2, <2>1, <2>3, <2>4, <2>5, <2>8, <2>9, Zenon DEF CallProtocol, Unknown, Early
<1> QED  BY <1>6, <1>7, Zenon DEF ProtocolInv

\* The next batch becomes slices.
LEMMA PullProtocol ==
    ASSUME ProtocolInv, HandlerPull
    PROVE  ProtocolInv'
<1> DEFINE O == EngineOutputs
<1>1. /\ slices = <<>> /\ engineOut # <<>> /\ inSlice' = TRUE
      /\ slices' = Split(Head(engineOut)) /\ engineOut' = Tail(engineOut)
      /\ UNCHANGED <<pc, adding, nextImage, requestStates, toAbort, engineIn, engineReqs, produced>>
  BY Zenon DEF HandlerPull
<1>2. engineOut \in Seq(Seq(O) \ {<<>>}) /\ toAbort = <<>>
  BY <1>1, Zenon DEF ProtocolInv, ProtocolTypes
<1> HIDE DEF O
<1>3. /\ slices' \in Seq(Seq(O)) /\ slices' # <<>>
      /\ engineOut' \in Seq(Seq(O) \ {<<>>})
      /\ \A c : FinishIn(engineOut, c) <=> FinishIn(slices', c) \/ FinishIn(engineOut', c)
  BY <1>1, <1>2, PullFinish, Zenon
<1>4. ProtocolTypes'
  BY <1>1, <1>3, Zenon DEF ProtocolInv, ProtocolTypes, O
<1>5. ASSUME NEW c \in Calls PROVE FinishInTransit(c)' <=> FinishInTransit(c)
  <2>1. Seq(Seq(O) \ {<<>>}) \subseteq Seq(Seq(O)) /\ slices \in Seq(Seq(O))
    BY <1>1
  <2>2. ~FinishIn(slices, c)
    BY <1>1 DEF FinishIn
  <2>3. engineOut \in Seq(Seq(O)) /\ engineOut' \in Seq(Seq(O)) /\ slices' \in Seq(Seq(O))
    BY <1>2, <1>3, <2>1, Zenon
  <2>4. /\ FinishInTransit(c) <=> FinishIn(slices, c) \/ FinishIn(engineOut, c)
        /\ FinishInTransit(c)' <=> FinishIn(slices', c) \/ FinishIn(engineOut', c)
    BY <2>1, <2>3, FinishSplit, Zenon
  <2> QED  BY <1>3, <2>2, <2>4, Zenon
<1> QED  BY <1>1, <1>4, <1>5, SameProtocol, Zenon

\* One turn of the loop of process_outputs: what it does with the output o.
Processed(o) ==
    \/ UNCHANGED <<requestStates, toAbort>> /\ o.call \notin requestStates
    \/ /\ o.call \in requestStates /\ ~o.finished
       /\ UNCHANGED <<requestStates, toAbort>>
    \/ /\ o.call \in requestStates /\ o.finished
       /\ requestStates' = requestStates \ {o.call} /\ toAbort' = toAbort
    \/ /\ o.call \in requestStates /\ ~o.finished
       /\ requestStates' = requestStates \ {o.call} /\ toAbort' = Append(toAbort, o.call)

\* Whatever the detokenizer says: the last output of EngineCore ends the
\* request, and if another one does then EngineCore will be told.
LEMMA ProcessedLemma ==
    ASSUME HandlerOutput, NEW o, o = Head(Head(slices)), o.finished \in BOOLEAN
    PROVE  Processed(o)
<1>1. CASE o.call \notin requestStates
  BY <1>1, Zenon DEF HandlerOutput, Processed
<1>2. CASE o.call \in requestStates
  <2>1. ProcessOutput(o)
    BY <1>2, Zenon DEF HandlerOutput
  <2> DEFINE d == Detokenized(detoks[o.call], o.token, TextsOf[o.call][o.token],
                              ParamsOf[o.call])
             fin == DetokenizerOutput(d, o.finished, ParamsOf[o.call]).finished
  <2>3. /\ requestStates' = IF fin THEN requestStates \ {o.call} ELSE requestStates
        /\ toAbort' = ToAbortAfter(o.call, fin, o.finished)
    <3>1. \E e \in {d} : \E out \in {DetokenizerOutput(e, o.finished, ParamsOf[o.call])} :
              /\ requestStates' = IF out.finished THEN requestStates \ {o.call}
                                  ELSE requestStates
              /\ toAbort' = ToAbortAfter(o.call, out.finished, o.finished)
      BY <2>1, Zenon DEF ProcessOutput
    <3> HIDE DEF d
    <3>2. PICK e \in {d} : \E out \in {DetokenizerOutput(e, o.finished, ParamsOf[o.call])} :
              /\ requestStates' = IF out.finished THEN requestStates \ {o.call}
                                  ELSE requestStates
              /\ toAbort' = ToAbortAfter(o.call, out.finished, o.finished)
      BY <3>1, Zenon
    <3>3. PICK out \in {DetokenizerOutput(e, o.finished, ParamsOf[o.call])} :
              /\ requestStates' = IF out.finished THEN requestStates \ {o.call}
                                  ELSE requestStates
              /\ toAbort' = ToAbortAfter(o.call, out.finished, o.finished)
      BY <3>2, Zenon
    <3>4. fin = out.finished
      BY <3>2, <3>3, Zenon
    <3> HIDE DEF fin
    <3> QED  BY <3>3, <3>4, Zenon
  <2> HIDE DEF d
  <2>4. fin = (o.finished \/ d.stop # 0)
    BY Zenon DEF DetokenizerOutput
  <2> HIDE DEF fin
  <2> QED  BY <1>2, <2>3, <2>4, Zenon DEF Processed, ToAbortAfter
<1> QED  BY <1>1, <1>2, Zenon

\* Nothing is asked of the order of a call without an ADD.
LEMMA NoAddOrdered ==
    ASSUME NEW c, NEW dropped, ~InTransit("ADD", c)
    PROVE  Ordered(engineIn, c, dropped)
BY Zenon DEF InTransit, Ordered, Message

\* An output is processed.
LEMMA OutputProtocol ==
    ASSUME ProtocolInv, HandlerOutput
    PROVE  ProtocolInv'
<1> DEFINE O == EngineOutputs
<1>1. /\ inSlice /\ Head(slices) # <<>>
      /\ slices' = <<Tail(Head(slices))>> \o Tail(slices)
      /\ UNCHANGED <<pc, adding, nextImage, inSlice, engineVars>>
  BY Zenon DEF HandlerOutput
<1>2. UNCHANGED <<engineIn, engineReqs, produced, engineOut>>
  BY <1>1, Zenon DEF engineVars
<1>3. /\ slices \in Seq(Seq(O)) /\ slices # <<>> /\ engineOut \in Seq(Seq(O) \ {<<>>})
      /\ toAbort \in Seq(Calls) /\ requestStates \subseteq Calls
  BY <1>1, Zenon DEF ProtocolInv, ProtocolTypes
<1>4. \A o \in O : o.call \in Calls /\ o.finished \in BOOLEAN
  BY Zenon DEF EngineOutputs
<1> HIDE DEF O
<1>5. /\ Head(Head(slices)) \in O /\ slices' \in Seq(Seq(O)) /\ slices' # <<>>
      /\ \A c : FinishIn(slices, c) <=> IsFinish(Head(Head(slices)), c) \/ FinishIn(slices', c)
  BY <1>1, <1>3, OutputFinish, Zenon
<1>6. PICK o \in O : o = Head(Head(slices))
  BY <1>5, Zenon
<1>7. Processed(o) /\ o.call \in Calls
  BY <1>4, <1>6, ProcessedLemma, Zenon
<1>8. ProtocolTypes'
  <2>0. Append(toAbort, o.call) \in Seq(Calls)
    BY <1>3, <1>7
  <2>1. toAbort' \in Seq(Calls) /\ requestStates' \subseteq Calls
    BY <1>3, <1>7, <2>0, Zenon DEF Processed
  <2> QED  BY <1>1, <1>2, <1>5, <2>1, Zenon DEF ProtocolInv, ProtocolTypes, O
<1>9. ASSUME NEW c \in Calls PROVE CallProtocol(c)'
  <2>1. CallProtocol(c)
    BY Zenon DEF ProtocolInv
  <2>2. FinishInTransit(c) <=> IsFinish(o, c) \/ FinishInTransit(c)'
    <3>1. Seq(Seq(O) \ {<<>>}) \subseteq Seq(Seq(O))
      OBVIOUS
    <3>2. slices \in Seq(Seq(O)) /\ engineOut \in Seq(Seq(O)) /\ slices' \in Seq(Seq(O))
          /\ engineOut' \in Seq(Seq(O))
      BY <1>2, <1>3, <1>5, <3>1, Zenon
    <3>3. /\ FinishInTransit(c) <=> FinishIn(slices, c) \/ FinishIn(engineOut, c)
          /\ FinishInTransit(c)' <=> FinishIn(slices', c) \/ FinishIn(engineOut', c)
      BY <3>2, FinishSplit, Zenon
    <3> QED  BY <1>2, <1>5, <1>6, <3>3, Zenon
  <2>3. /\ InTransit("ADD", c)' <=> InTransit("ADD", c)
        /\ InTransit("ABORT", c)' <=> InTransit("ABORT", c)
    BY <1>2, TransitFrame, Zenon
  <2>4. Held(c)' => Held(c) \/ (c = o.call /\ toAbort' = Append(toAbort, o.call))
    <3>1. CASE toAbort' = toAbort
      BY <3>1, HeldFrame, Zenon
    <3>2. CASE toAbort' = Append(toAbort, o.call)
      <4> DEFINE q == Append(toAbort, o.call)
      <4>1. \A x : Among(q, x) <=> Among(toAbort, x) \/ x = o.call
        BY <1>3, <1>7, AmongAppend
      <4>2. toAbort' = q
        BY <3>2, Zenon
      <4> HIDE DEF q
      <4>3. (Held(c)' <=> Among(q, c)) /\ (Held(c) <=> Among(toAbort, c))
        BY <4>2, Zenon DEF Held, Among
      <4> QED  BY <3>2, <4>1, <4>3, Zenon
    <3> QED  BY <1>7, <3>1, <3>2, Zenon DEF Processed
  <2>5. Held(c) \/ (c = o.call /\ toAbort' = Append(toAbort, o.call)) => Held(c)'
    <3>1. CASE toAbort' = toAbort /\ Held(c)
      BY <3>1, HeldFrame, Zenon
    <3>2. CASE toAbort' = Append(toAbort, o.call)
      <4> DEFINE q == Append(toAbort, o.call)
      <4>1. \A x : Among(q, x) <=> Among(toAbort, x) \/ x = o.call
        BY <1>3, <1>7, AmongAppend
      <4>2. toAbort' = q
        BY <3>2, Zenon
      <4> HIDE DEF q
      <4>3. (Held(c)' <=> Among(q, c)) /\ (Held(c) <=> Among(toAbort, c))
        BY <4>2, Zenon DEF Held, Among
      <4> QED  BY <3>2, <4>1, <4>3, Zenon
    <3> QED  BY <1>7, <3>1, <3>2, Zenon DEF Processed
  <2>6. ~InTransit("ADD", c) => Ordered(engineIn, c, c \notin requestStates' /\ ~Held(c)')
    BY NoAddOrdered, Zenon
  <2>7. CASE c # o.call
    <3>1. /\ c \in requestStates' <=> c \in requestStates
          /\ Held(c)' <=> Held(c)
          /\ FinishInTransit(c)' <=> FinishInTransit(c)
      BY <1>7, <2>2, <2>4, <2>5, <2>7, Zenon DEF Processed, IsFinish
    <3>2. Ordered(engineIn', c, c \notin requestStates' /\ ~Held(c)')
      BY <1>2, <2>1, <3>1, Zenon DEF CallProtocol, Ordered
    <3> QED  BY <1>1, <1>2, <2>1, <2>3, <3>1, <3>2, Zenon DEF CallProtocol, Unknown
  <2>8. CASE c = o.call
    <3>1. CASE UNCHANGED <<requestStates, toAbort>> /\ (c \notin requestStates \/ ~o.finished)
      <4>1. Held(c)' <=> Held(c)
        BY <3>1, HeldFrame, Zenon
      <4>2. Ordered(engineIn', c, c \notin requestStates' /\ ~Held(c)')
        BY <1>2, <2>1, <3>1, <4>1, Zenon DEF CallProtocol, Ordered
      <4>3. /\ FinishInTransit(c)' => FinishInTransit(c)
            /\ c \in requestStates /\ FinishInTransit(c) => FinishInTransit(c)'
        BY <2>2, <2>8, <3>1, Zenon DEF IsFinish
      <4> QED  BY <1>1, <1>2, <2>1, <2>3, <3>1, <4>1, <4>2, <4>3, Zenon DEF CallProtocol, Unknown
    <3>2. CASE /\ c \in requestStates /\ o.finished /\ requestStates' = requestStates \ {c}
               /\ toAbort' = toAbort
      <4>1. Held(c)' <=> Held(c)
        BY <3>2, HeldFrame, Zenon
      <4>2. FinishInTransit(c)
        BY <2>2, <2>8, <3>2, Zenon DEF IsFinish
      <4>3. ~InTransit("ADD", c) /\ c \notin engineReqs /\ ~(pc[c] \in Early)
        BY <2>1, <3>2, <4>2, Zenon DEF CallProtocol, Unknown, Early
      <4>4. Ordered(engineIn', c, c \notin requestStates' /\ ~Held(c)')
        BY <1>2, <2>6, <4>3, Zenon
      <4>5. c \notin requestStates'
        BY <3>2, Zenon
      <4> QED  BY <1>1, <1>2, <2>1, <2>3, <4>1, <4>3, <4>4, <4>5, Zenon DEF CallProtocol, Unknown, Early
    <3>3. CASE /\ c \in requestStates /\ ~o.finished /\ requestStates' = requestStates \ {c}
               /\ toAbort' = Append(toAbort, o.call)
      <4>1. Held(c)' /\ c \notin requestStates'
        BY <2>5, <2>8, <3>3, Zenon
      <4>2. FinishInTransit(c)' <=> FinishInTransit(c)
        BY <2>2, <2>8, <3>3, Zenon DEF IsFinish
      <4>3. Ordered(engineIn', c, c \notin requestStates' /\ ~Held(c)')
        BY <1>2, <2>1, <3>3, <4>1, Zenon DEF CallProtocol, Ordered
      <4>4. ~(pc[c] \in Early)
        BY <2>1, <3>3, Zenon DEF CallProtocol, Unknown, Early
      <4> QED  BY <1>1, <1>2, <2>1, <2>3, <4>1, <4>2, <4>3, <4>4, Zenon DEF CallProtocol, Unknown, Early
    <3> QED  BY <1>7, <2>8, <3>1, <3>2, <3>3, Zenon DEF Processed
  <2> QED  BY <2>7, <2>8, Zenon
<1> QED  BY <1>8, <1>9, Zenon DEF ProtocolInv

\* The aborts held back are sent.
LEMMA FlushProtocol ==
    ASSUME ProtocolInv, ProtocolTypes',
           engineIn' = engineIn \o AbortMessages(toAbort), toAbort' = <<>>,
           UNCHANGED <<pc, requestStates, engineReqs>>,
           \A c \in Calls : FinishInTransit(c)' <=> FinishInTransit(c)
    PROVE  ProtocolInv'
<1> DEFINE ms == AbortMessages(toAbort)
<1>1. engineIn \in Seq(Messages) /\ toAbort \in Seq(Calls)
  BY Zenon DEF ProtocolInv, ProtocolTypes
<1>2. /\ ms \in Seq(Messages)
      /\ \A c : Among(ms, Message("ABORT", c)) <=> Among(toAbort, c)
      /\ \A c : ~Among(ms, Message("ADD", c))
  BY <1>1, AbortsLemma, Zenon
<1>3. engineIn' = engineIn \o ms
  BY Zenon
<1> HIDE DEF ms
<1> SUFFICES ASSUME NEW c \in Calls PROVE CallProtocol(c)'
  BY Zenon DEF ProtocolInv
<1>4. CallProtocol(c) /\ Ordered(engineIn, c, c \notin requestStates /\ ~Held(c))
  BY Zenon DEF ProtocolInv, CallProtocol
<1>5. ~Held(c)' /\ (Held(c) <=> Among(ms, Message("ABORT", c)))
  <2>1. Held(c) <=> Among(toAbort, c)
    BY Zenon DEF Held, Among
  <2>2. Len(toAbort') = 0
    BY Zenon
  <2>3. ~Held(c)'
    BY <2>2 DEF Held
  <2> QED  BY <1>2, <2>1, <2>3, Zenon
<1>6. /\ InTransit("ADD", c)' <=> InTransit("ADD", c)
      /\ InTransit("ABORT", c)' <=> InTransit("ABORT", c) \/ Held(c)
  BY <1>1, <1>2, <1>3, <1>5, SentTransit, Zenon
<1>7. /\ ~Among(ms, Message("ADD", c))
      /\ c \notin requestStates' /\ ~Held(c)' =>
            (c \notin requestStates /\ ~Held(c)) \/ Among(ms, Message("ABORT", c))
  BY <1>2, <1>5, Zenon
<1>8. Ordered(engineIn \o ms, c, c \notin requestStates' /\ ~Held(c)')
  BY <1>1, <1>2, <1>4, <1>7, OrderGrows, Zenon
<1>9. Ordered(engineIn', c, c \notin requestStates' /\ ~Held(c)')
  BY <1>3, <1>8, Zenon
<1> QED  BY <1>4, <1>5, <1>6, <1>9, Zenon DEF CallProtocol, Unknown

\* The end of a slice.
LEMMA SliceDoneProtocol ==
    ASSUME ProtocolInv, SliceDone
    PROVE  ProtocolInv'
<1> DEFINE O == EngineOutputs
<1>1. /\ Head(slices) = <<>> /\ slices' = Tail(slices) /\ inSlice' = FALSE /\ inSlice
      /\ engineIn' = IF Len(slices) = 1 THEN engineIn \o AbortMessages(toAbort) ELSE engineIn
      /\ toAbort' = IF Len(slices) = 1 THEN <<>> ELSE toAbort
      /\ UNCHANGED <<pc, adding, nextImage, requestStates, engineReqs, produced, engineOut>>
  BY Zenon DEF SliceDone, HeldAborts
<1>2. /\ slices \in Seq(Seq(O)) /\ slices # <<>> /\ engineOut \in Seq(Seq(O) \ {<<>>})
      /\ toAbort \in Seq(Calls) /\ engineIn \in Seq(Messages)
  BY <1>1, Zenon DEF ProtocolInv, ProtocolTypes
<1> HIDE DEF O
<1>3. /\ Head(slices) = slices[1] /\ slices' \in Seq(Seq(O)) /\ Len(slices) \in Nat \ {0}
      /\ Len(slices') = Len(slices) - 1
      /\ \A x : Among(slices, x) <=> slices[1] = x \/ Among(slices', x)
  BY <1>1, <1>2, AmongTail, Zenon
<1>4. ASSUME NEW c \in Calls PROVE FinishInTransit(c)' <=> FinishInTransit(c)
  <2>1. Seq(Seq(O) \ {<<>>}) \subseteq Seq(Seq(O))
    OBVIOUS
  <2>2. engineOut \in Seq(Seq(O)) /\ engineOut' \in Seq(Seq(O))
    BY <1>1, <1>2, <2>1, Zenon
  <2>3. /\ FinishInTransit(c) <=> FinishIn(slices, c) \/ FinishIn(engineOut, c)
        /\ FinishInTransit(c)' <=> FinishIn(slices', c) \/ FinishIn(engineOut', c)
    BY <1>2, <1>3, <2>2, FinishSplit, Zenon
  <2>4. ~HasFinish(slices[1], c)
    <3>1. slices[1] = <<>>
      BY <1>1, <1>3, Zenon
    <3>2. 1 .. Len(<<>>) = {}
      OBVIOUS
    <3> QED  BY <3>1, <3>2, Zenon DEF HasFinish
  <2>5. FinishIn(slices, c) <=> FinishIn(slices', c)
    BY <1>3, <2>4, FinishAmong, Zenon
  <2> QED  BY <1>1, <2>3, <2>5, Zenon
<1>5. /\ engineIn' \in Seq(Messages) /\ toAbort' \in Seq(Calls)
      /\ slices' = <<>> => toAbort' = <<>>
  <2>1. AbortMessages(toAbort) \in Seq(Messages) /\ <<>> \in Seq(Calls)
    BY <1>2, AbortsLemma
  <2>2. engineIn \o AbortMessages(toAbort) \in Seq(Messages)
    BY <1>2, <2>1
  <2>3. slices' = <<>> => Len(slices) = 1
    BY <1>3
  <2> QED  BY <1>1, <1>2, <2>1, <2>2, <2>3, Zenon
<1>6. ProtocolTypes'
  BY <1>1, <1>3, <1>5, Zenon DEF ProtocolInv, ProtocolTypes, O
<1>7. CASE Len(slices) = 1
  BY <1>1, <1>4, <1>6, <1>7, FlushProtocol, Zenon
<1>8. CASE Len(slices) # 1
  BY <1>1, <1>4, <1>6, <1>8, SameProtocol, Zenon
<1> QED  BY <1>7, <1>8, Zenon

\* The handler runs again, and sends the aborts of the slice before.
LEMMA ResumeProtocol ==
    ASSUME ProtocolInv, HandlerResume
    PROVE  ProtocolInv'
<1>1. /\ slices # <<>> /\ engineIn' = engineIn \o AbortMessages(toAbort) /\ toAbort' = <<>>
      /\ inSlice' = TRUE
      /\ UNCHANGED <<pc, adding, nextImage, requestStates, slices, engineReqs, produced, engineOut>>
  BY Zenon DEF HandlerResume
<1>2. toAbort \in Seq(Calls) /\ engineIn \in Seq(Messages)
  BY Zenon DEF ProtocolInv, ProtocolTypes
<1>3. engineIn' \in Seq(Messages) /\ toAbort' \in Seq(Calls)
  <2>1. AbortMessages(toAbort) \in Seq(Messages) /\ <<>> \in Seq(Calls)
    BY <1>2, AbortsLemma
  <2> QED  BY <1>1, <1>2, <2>1
<1>4. ProtocolTypes'
  BY <1>1, <1>3, Zenon DEF ProtocolInv, ProtocolTypes
<1>5. \A c \in Calls : FinishInTransit(c)' <=> FinishInTransit(c)
  BY <1>1, FinishFrame, Zenon
<1> QED  BY <1>1, <1>4, <1>5, FlushProtocol, Zenon

\* EngineCore takes a message.
LEMMA EngineTakeProtocol ==
    ASSUME ProtocolInv, EngineTake
    PROVE  ProtocolInv'
<1>1. /\ engineIn # <<>> /\ engineIn' = Tail(engineIn)
      /\ UNCHANGED <<frontVars, produced, engineOut>>
      /\ engineReqs' = IF Head(engineIn).type = "ABORT"
                       THEN engineReqs \ {Head(engineIn).call}
                       ELSE engineReqs \cup {Head(engineIn).call}
  BY Zenon DEF EngineTake
<1>2. /\ UNCHANGED <<pc, adding, nextImage, requestStates, slices, inSlice, toAbort>>
      /\ UNCHANGED <<produced, engineOut>>
  BY <1>1, Zenon DEF frontVars
<1>3. engineIn \in Seq(Messages) /\ engineReqs \subseteq Calls
  BY Zenon DEF ProtocolInv, ProtocolTypes
<1>4. engineIn' \in Seq(Messages) /\ Head(engineIn) \in Messages
  BY <1>1, <1>3, TakenTransit, Zenon
<1>5. PICK m \in Messages : m = Head(engineIn)
  BY <1>4, Zenon
<1>6. /\ m.call \in Calls
      /\ \A c : (m = Message("ABORT", c) <=> m.type = "ABORT" /\ m.call = c)
      /\ \A c : (m = Message("ADD", c) <=> m.type # "ABORT" /\ m.call = c)
  BY DEF Messages, Message
<1>7. engineReqs' = IF m.type = "ABORT" THEN engineReqs \ {m.call} ELSE engineReqs \cup {m.call}
  BY <1>1, <1>5, Zenon
<1>8. ProtocolTypes'
  <2>1. engineReqs' \subseteq Calls
    BY <1>3, <1>6, <1>7, Zenon
  <2> QED  BY <1>2, <1>4, <2>1, Zenon DEF ProtocolInv, ProtocolTypes
<1>9. ASSUME NEW c \in Calls PROVE CallProtocol(c)'
  <2>1. CallProtocol(c) /\ Ordered(engineIn, c, c \notin requestStates /\ ~Held(c))
    BY Zenon DEF ProtocolInv, CallProtocol
  <2>2. /\ InTransit("ADD", c) <=> InTransit("ADD", c)' \/ m = Message("ADD", c)
        /\ InTransit("ABORT", c) <=> InTransit("ABORT", c)' \/ m = Message("ABORT", c)
    BY <1>1, <1>3, <1>5, TakenTransit, Zenon
  <2>3. /\ Held(c)' <=> Held(c)
        /\ FinishInTransit(c)' <=> FinishInTransit(c)
    BY <1>2, HeldFrame, FinishFrame, Zenon
  <2>4. Ordered(Tail(engineIn), c, c \notin requestStates /\ ~Held(c))
    BY <1>1, <1>3, <2>1, OrderTail, Zenon
  <2>5. Ordered(engineIn', c, c \notin requestStates' /\ ~Held(c)')
    BY <1>1, <1>2, <2>3, <2>4, Zenon
  <2>6. CASE m.call # c
    <3>1. c \in engineReqs' <=> c \in engineReqs
      BY <1>7, <2>6, Zenon
    <3> QED  BY <1>2, <1>6, <2>1, <2>2, <2>3, <2>5, <2>6, <3>1, Zenon DEF CallProtocol, Early, Unknown
  <2>7. CASE m.call = c /\ m.type = "ABORT"
    <3>1. c \notin engineReqs'
      BY <1>7, <2>7, Zenon
    <3>2. InTransit("ABORT", c) /\ (InTransit("ADD", c)' <=> InTransit("ADD", c))
      BY <1>6, <2>2, <2>7, Zenon
    <3>3. c \notin requestStates /\ pc[c] \notin Early
      BY <2>1, <3>2, Zenon DEF CallProtocol, Unknown, Early
    <3> QED  BY <1>2, <2>1, <2>2, <2>3, <2>5, <3>1, <3>2, <3>3, Zenon DEF CallProtocol, Unknown, Early
  <2>8. CASE m.call = c /\ m.type # "ABORT"
    <3>1. m = Message("ADD", c) /\ c \in engineReqs'
      BY <1>6, <1>7, <2>8, Zenon
    <3>2. InTransit("ADD", c) /\ (InTransit("ABORT", c)' <=> InTransit("ABORT", c))
      BY <1>6, <2>2, <2>8, Zenon
    <3>3. ~FinishInTransit(c) /\ pc[c] \notin Early
      BY <2>1, <3>2, Zenon DEF CallProtocol, Unknown, Early
    <3>4. engineIn[1] = Message("ADD", c) /\ 1 \in 1 .. Len(engineIn)
      <4>1. Head(engineIn) = engineIn[1] /\ Len(engineIn) \in Nat \ {0}
        BY <1>1, <1>3, AmongTail, Zenon
      <4> QED  BY <1>5, <3>1, <4>1
    <3>5. ~InTransit("ADD", c)'
      <4>1. \A j \in 1 .. Len(engineIn) : engineIn[j] = Message("ADD", c) => j = 1
        BY <2>1, <3>4, Zenon DEF Ordered
      <4>2. /\ Len(engineIn') = Len(engineIn) - 1 /\ Len(engineIn) \in Nat
            /\ \A k \in 1 .. Len(engineIn) - 1 : engineIn'[k] = engineIn[k + 1]
        BY <1>1, <1>3, AmongTail, Zenon
      <4>3. \A k \in 1 .. Len(engineIn') : k + 1 \in 1 .. Len(engineIn) /\ k + 1 # 1
        BY <4>2
      <4>4. \A k \in 1 .. Len(engineIn') : engineIn'[k] # Message("ADD", c)
        BY <4>1, <4>2, <4>3, Zenon
      <4> QED  BY <4>4, Zenon DEF InTransit, Message
    <3>6. c \notin requestStates => InTransit("ABORT", c)' \/ Held(c)'
      <4> SUFFICES ASSUME c \notin requestStates, ~Held(c) PROVE InTransit("ABORT", c)
        BY <2>3, <3>2, Zenon
      <4>1. PICK j \in 1 + 1 .. Len(engineIn) : engineIn[j] = Message("ABORT", c)
        BY <2>1, <3>4, Zenon DEF Ordered
      <4>2. j \in 1 .. Len(engineIn)
        BY <1>3, <4>1
      <4> QED  BY <4>1, <4>2, Zenon DEF InTransit, Message
    <3> QED  BY <1>2, <2>1, <2>3, <2>5, <3>1, <3>2, <3>3, <3>5, <3>6, Zenon
             DEF CallProtocol, Unknown, Early
  <2> QED  BY <2>6, <2>7, <2>8, Zenon
<1> QED  BY <1>8, <1>9, Zenon DEF ProtocolInv

\* The outputs of a step of EngineCore, one of each call of the batch.
BatchOutputs(batch, last) ==
    [i \in 1 .. Cardinality(batch) |->
        LET c == InOrder(batch)[i]
        IN  [call |-> c, token |-> produced[c] + 1, finished |-> c \in last]]

\* What is in the batch of outputs.
LEMMA BatchLemma ==
    ASSUME ProtocolTypes, NEW batch \in SUBSET Calls, NEW last \in SUBSET batch, batch # {}
    PROVE  /\ BatchOutputs(batch, last) \in Seq(EngineOutputs) \ {<<>>}
           /\ \A c : HasFinish(BatchOutputs(batch, last), c) <=> c \in last
<1> DEFINE n == Cardinality(batch)
           f == InOrder(batch)
           b == BatchOutputs(batch, last)
<1>1. IsFiniteSet(batch)
  BY AsyncAssumption, FS_Subset, Zenon
<1>2. /\ f \in [1 .. n -> batch] /\ n \in Nat
      /\ \A x \in batch : \E i \in 1 .. n : f[i] = x
  BY <1>1, InOrderLemma, Zenon
<1>3. n # 0
  BY <1>1, FS_EmptySet, Zenon
<1>4. b = [i \in 1 .. n |-> [call |-> f[i], token |-> produced[f[i]] + 1,
                             finished |-> f[i] \in last]]
  BY Zenon DEF BatchOutputs
<1> HIDE DEF n, f, b
<1>5. \A i \in 1 .. n : /\ b[i] \in EngineOutputs /\ f[i] \in batch
                        /\ b[i].call = f[i] /\ (b[i].finished <=> f[i] \in last)
  <2> SUFFICES ASSUME NEW i \in 1 .. n
               PROVE  /\ b[i] \in EngineOutputs /\ f[i] \in batch
                      /\ b[i].call = f[i] /\ (b[i].finished <=> f[i] \in last)
    BY Zenon
  <2>1. f[i] \in batch /\ f[i] \in Calls
    BY <1>2, Zenon
  <2> DEFINE k == produced[f[i]] + 1
             p == f[i] \in last
  <2>2. b[i] = [call |-> f[i], token |-> k, finished |-> p]
    BY <1>4, Zenon
  <2>3. k \in Nat /\ p \in BOOLEAN /\ (p <=> f[i] \in last)
    BY <2>1 DEF ProtocolTypes
  <2> HIDE DEF k, p
  <2>4. b[i] \in EngineOutputs /\ b[i].call = f[i] /\ b[i].finished = p
    <3>1. [call |-> f[i], token |-> k, finished |-> p] \in EngineOutputs
      BY <2>1, <2>3, Zenon DEF EngineOutputs
    <3>2. /\ [call |-> f[i], token |-> k, finished |-> p].call = f[i]
          /\ [call |-> f[i], token |-> k, finished |-> p].finished = p
      BY Zenon
    <3> QED  BY <2>2, <3>1, <3>2
  <2> QED  BY <2>1, <2>3, <2>4, Zenon
<1>6. b \in Seq(EngineOutputs) /\ Len(b) = n /\ b # <<>>
  <2>1. b \in [1 .. n -> EngineOutputs]
    BY <1>4, <1>5, Zenon
  <2> QED  BY <1>2, <1>3, <2>1
<1>7. \A c : HasFinish(b, c) <=> c \in last
  BY <1>2, <1>5, <1>6 DEF HasFinish, IsFinish
<1> QED  BY <1>6, <1>7, Zenon DEF b

\* EngineCore makes a token for each call of a batch.
LEMMA EngineStepProtocol ==
    ASSUME ProtocolInv, NEW batch \in SUBSET Calls, EngineStep(batch)
    PROVE  ProtocolInv'
<1> DEFINE O == EngineOutputs
           M == Seq(O) \ {<<>>}
<1>1. PICK last \in SUBSET batch :
          /\ engineReqs' = engineReqs \ last
          /\ engineOut' = Append(engineOut, BatchOutputs(batch, last))
  BY Zenon DEF EngineStep, BatchOutputs
<1>2. /\ batch # {} /\ batch \subseteq engineReqs /\ engineIn' = engineIn
      /\ produced' = [c \in Calls |-> IF c \in batch THEN produced[c] + 1 ELSE produced[c]]
      /\ UNCHANGED frontVars
  BY Zenon DEF EngineStep
<1>3. UNCHANGED <<pc, adding, nextImage, requestStates, slices, inSlice, toAbort>>
  BY <1>2, Zenon DEF frontVars
<1>4. /\ engineReqs \subseteq Calls /\ engineOut \in Seq(M) /\ produced \in [Calls -> Nat]
      /\ slices \in Seq(Seq(O)) /\ ProtocolTypes
  BY Zenon DEF ProtocolInv, ProtocolTypes
<1> DEFINE b == BatchOutputs(batch, last)
<1>5. b \in M /\ \A c : HasFinish(b, c) <=> c \in last
  BY <1>2, <1>4, BatchLemma, Zenon
<1>6. M \subseteq Seq(O)
  BY Zenon
<1> HIDE DEF b, M, O
<1>7. /\ engineOut' \in Seq(M)
      /\ \A x : Among(engineOut', x) <=> Among(engineOut, x) \/ x = b
  BY <1>1, <1>4, <1>5, AmongAppend DEF b
<1>8. ProtocolTypes'
  <2>1. produced' \in [Calls -> Nat] /\ engineReqs' \subseteq Calls
    BY <1>1, <1>2, <1>4
  <2> QED  BY <1>2, <1>3, <1>7, <2>1, Zenon DEF ProtocolInv, ProtocolTypes, M, O
<1>9. ASSUME NEW c \in Calls PROVE CallProtocol(c)'
  <2>1. CallProtocol(c)
    BY Zenon DEF ProtocolInv
  <2>2. FinishInTransit(c)' <=> FinishInTransit(c) \/ c \in last
    <3>1. Seq(M) \subseteq Seq(Seq(O))
      BY <1>6
    <3>2. engineOut \in Seq(Seq(O)) /\ engineOut' \in Seq(Seq(O)) /\ slices' \in Seq(Seq(O))
      BY <1>3, <1>4, <1>7, <3>1, Zenon
    <3>3. /\ FinishInTransit(c) <=> FinishIn(slices, c) \/ FinishIn(engineOut, c)
          /\ FinishInTransit(c)' <=> FinishIn(slices', c) \/ FinishIn(engineOut', c)
      BY <1>4, <3>2, FinishSplit, Zenon
    <3>4. FinishIn(engineOut', c) <=> FinishIn(engineOut, c) \/ HasFinish(b, c)
      <4>1. /\ FinishIn(engineOut, c) <=> \E x : Among(engineOut, x) /\ HasFinish(x, c)
            /\ FinishIn(engineOut', c) <=> \E x : Among(engineOut', x) /\ HasFinish(x, c)
        BY FinishAmong, Zenon
      <4> QED  BY <1>7, <4>1, Zenon
    <3> QED  BY <1>3, <1>5, <3>3, <3>4, Zenon
  <2>3. /\ Held(c)' <=> Held(c)
        /\ InTransit("ADD", c)' <=> InTransit("ADD", c)
        /\ InTransit("ABORT", c)' <=> InTransit("ABORT", c)
    BY <1>2, <1>3, HeldFrame, TransitFrame, Zenon
  <2>4. Ordered(engineIn', c, c \notin requestStates' /\ ~Held(c)')
    BY <1>2, <1>3, <2>1, <2>3, Zenon DEF CallProtocol, Ordered
  <2>5. (c \in engineReqs' <=> c \in engineReqs /\ c \notin last) /\ (c \in last => c \in engineReqs)
    BY <1>1, <1>2, Zenon
  <2> QED  BY <1>3, <2>1, <2>2, <2>3, <2>4, <2>5, Zenon DEF CallProtocol, Unknown
<1> QED  BY <1>8, <1>9, Zenon DEF ProtocolInv

----------------------------------------------------------------------------
(* The theorems *)

\* Nobody knows of a call at the start.
LEMMA ProtocolInit == AsyncInit => ProtocolInv
<1> SUFFICES ASSUME AsyncInit PROVE ProtocolInv
  BY Zenon
<1>1. /\ pc = [c \in Calls |-> "new"] /\ adding = NoCall /\ nextImage = 1
      /\ requestStates = {} /\ engineReqs = {} /\ engineIn = <<>> /\ toAbort = <<>>
      /\ slices = <<>> /\ engineOut = <<>> /\ inSlice = FALSE
      /\ produced = [c \in Calls |-> 0]
  BY Zenon DEF AsyncInit
<1>2. ProtocolTypes
  <2>1. \A S : <<>> \in Seq(S)
    OBVIOUS
  <2>2. pc \in [Calls -> CallStates] /\ produced \in [Calls -> Nat] /\ nextImage \in Nat \ {0}
    BY <1>1 DEF CallStates
  <2> QED  BY <1>1, <2>1, <2>2, Zenon DEF ProtocolTypes, CallStates
<1>3. ASSUME NEW c \in Calls PROVE CallProtocol(c)
  <2>1. 1 .. Len(<<>>) = {}
    OBVIOUS
  <2>2. ~InTransit("ADD", c) /\ ~InTransit("ABORT", c) /\ ~Held(c)
    BY <1>1, <2>1, Zenon DEF InTransit, Held
  <2>3. ~FinishInTransit(c)
    <3>1. slices \in Seq(Seq(EngineOutputs)) /\ engineOut \in Seq(Seq(EngineOutputs))
      BY <1>1
    <3>2. Len(slices) = 0 /\ Len(engineOut) = 0
      BY <1>1, Zenon
    <3>3. ~FinishIn(slices, c) /\ ~FinishIn(engineOut, c)
      BY <3>2 DEF FinishIn
    <3> QED  BY <3>1, <3>3, FinishSplit, Zenon
  <2>4. Ordered(engineIn, c, c \notin requestStates /\ ~Held(c))
    BY <2>2, NoAddOrdered, Zenon
  <2> QED  BY <1>1, <2>2, <2>3, <2>4, Zenon DEF CallProtocol, Unknown
<1> QED  BY <1>2, <1>3, Zenon DEF ProtocolInv

\* Every step keeps the protocol.
LEMMA ProtocolNext == ProtocolInv /\ [AsyncNext]_asyncVars => ProtocolInv'
<1> SUFFICES ASSUME ProtocolInv, [AsyncNext]_asyncVars PROVE ProtocolInv'
  BY Zenon
<1>1. ASSUME NEW c \in Calls, StartGenerate(c) PROVE ProtocolInv'
  BY <1>1, StartGenerateProtocol, Zenon
<1>2. ASSUME NEW c \in Leaving, Cancel(c) \/ Abandon(c) PROVE ProtocolInv'
  BY <1>2, AsyncAssumption, CancelProtocol, CallerProtocol, Zenon
<1>3. CASE EngineTake
  BY <1>3, EngineTakeProtocol, Zenon
<1>4. ASSUME NEW s \in Servers, TakeImage(s) PROVE ProtocolInv'
  BY <1>4, TakeImageProtocol, Zenon
<1>5. CASE MapImage
  BY <1>5, MapImageProtocol, Zenon
<1>6. CASE SendRequest
  BY <1>6, SendRequestProtocol, Zenon
<1>7. CASE HandlerPull
  BY <1>7, PullProtocol, Zenon
<1>8. CASE SliceDone
  BY <1>8, SliceDoneProtocol, Zenon
<1>9. CASE HandlerResume
  BY <1>9, ResumeProtocol, Zenon
<1>10. ASSUME NEW batch \in SUBSET Calls, EngineStep(batch) PROVE ProtocolInv'
  BY <1>10, EngineStepProtocol, Zenon
<1>11. ASSUME NEW c \in Calls, ReceiveOutput(c) PROVE ProtocolInv'
  BY <1>11, CallerProtocol, Zenon
<1>12. CASE HandlerOutput
  BY <1>12, OutputProtocol, Zenon
<1>13. CASE UNCHANGED asyncVars
  <2>1. /\ UNCHANGED <<requestStates, slices, toAbort, engineIn, engineReqs, engineOut>>
        /\ UNCHANGED <<inSlice, produced>> /\ UNCHANGED <<pc, adding, nextImage>>
    BY <1>13, Zenon DEF asyncVars, frontVars, engineVars
  <2>2. ProtocolTypes'
    BY <2>1, Zenon DEF ProtocolInv, ProtocolTypes
  <2> QED  BY <2>1, <2>2, QuietProtocol, Zenon
<1> QED  BY <1>1, <1>2, <1>3, <1>4, <1>5, <1>6, <1>7, <1>8, <1>9, <1>10, <1>11, <1>12, <1>13,
            Zenon DEF AsyncNext, CallerStep, SystemStep

\* The inductive invariant holds.
THEOREM ProtocolInvariance == AsyncSpec => []ProtocolInv
<1>1. AsyncInit => ProtocolInv
  BY ProtocolInit, Zenon
<1>2. ProtocolInv /\ [AsyncNext]_asyncVars => ProtocolInv'
  BY ProtocolNext, Zenon
<1> QED  BY <1>1, <1>2, PTL DEF AsyncSpec

(* Neither side ever keeps a request that the other has forgotten, for any *)
(* calls, batches, chunk size and stop strings: what abort, reqs_to_abort  *)
(* and the slices of process_outputs promise together.                     *)
THEOREM NothingOrphaned == AsyncSpec => []NoOrphans
<1>1. ProtocolInv => NoOrphans
  <2> SUFFICES ASSUME ProtocolInv PROVE NoOrphans
    BY Zenon
  <2>1. requestStates \subseteq Calls /\ engineReqs \subseteq Calls
    BY Zenon DEF ProtocolInv, ProtocolTypes
  <2>2. \A c \in engineReqs \ requestStates : InTransit("ABORT", c) \/ Held(c)
    BY <2>1, Zenon DEF ProtocolInv, CallProtocol
  <2>3. \A c \in requestStates \ engineReqs : InTransit("ADD", c) \/ FinishInTransit(c)
    BY <2>1, Zenon DEF ProtocolInv, CallProtocol
  <2> QED  BY <2>2, <2>3, Zenon DEF NoOrphans, Held
<1> QED  BY <1>1, ProtocolInvariance, PTL

\* A step of the front end and of the processes behind it is a step of the
\* mirrored caches, or leaves them alone.
LEMMA MapperStep ==
    ASSUME ProtocolInv, [AsyncNext]_asyncVars
    PROVE  [MapperNext]_mapperVars
<1>1. CASE MapImage
  <2>1. PICK a \in Calls, n \in Nat \ {0} : a = adding /\ n = nextImage
    BY <1>1, Zenon DEF MapImage, ProtocolInv, ProtocolTypes
  <2>2. n <= Len(ImagesOf[a]) /\ ImagesOf[a] \in Seq(Hashes)
    BY <1>1, <2>1, AsyncAssumption, Zenon DEF MapImage
  <2>3. ImagesOf[a][n] \in Hashes /\ a \in Owners
    BY <2>2, AsyncAssumption
  <2>4. ClientImage(ImagesOf[a][n], a) \/ ClientRaises(ImagesOf[a][n])
    BY <1>1, <2>1, Zenon DEF MapImage
  <2> QED  BY <2>3, <2>4, Zenon DEF MapperNext
<1>2. CASE SendRequest
  BY <1>2, Zenon DEF SendRequest, MapperNext
<1>3. ASSUME NEW s \in Servers, TakeImage(s) PROVE MapperNext
  BY <1>3, Zenon DEF TakeImage, MapperNext
<1>4. ASSUME NEW c, StartGenerate(c) \/ Cancel(c) \/ Abandon(c) \/ ReceiveOutput(c)
      PROVE  UNCHANGED mapperVars
  BY <1>4, Zenon DEF StartGenerate, Cancel, Abandon, ReceiveOutput
<1>5. ASSUME NEW batch, EngineStep(batch) PROVE UNCHANGED mapperVars
  BY <1>5, Zenon DEF EngineStep
<1>6. ASSUME EngineTake \/ HandlerPull \/ SliceDone \/ HandlerResume \/ HandlerOutput
      PROVE  UNCHANGED mapperVars
  BY <1>6, Zenon DEF EngineTake, HandlerPull, SliceDone, HandlerResume, HandlerOutput
<1>7. CASE UNCHANGED asyncVars
  BY <1>7, Zenon DEF asyncVars
<1> QED  BY <1>1, <1>2, <1>3, <1>4, <1>5, <1>6, <1>7, Zenon DEF AsyncNext, CallerStep, SystemStep

(* What the front end, EngineCore and EncoderCore do with the images of    *)
(* requests is a behaviour of the mirrored caches: whatever the order in   *)
(* which calls are made, cancelled and served.                             *)
THEOREM FrontEndImplementsMapper == AsyncSpec => MapperSpec
<1>1. AsyncInit => MapperInit
  BY Zenon DEF AsyncInit
<1>2. ProtocolInv /\ [AsyncNext]_asyncVars => [MapperNext]_mapperVars
  BY MapperStep, Zenon
<1> QED  BY <1>1, <1>2, ProtocolInvariance, PTL DEF AsyncSpec, MapperSpec

(* So the assertion of MMInputMapperServer.process_inputs holds in the     *)
(* whole front end: no server misses an image that the client sent as      *)
(* None, unless mapping an image has raised in the middle of a request.    *)
THEOREM FrontEndCachesMirrored == AsyncSpec => []Mirrored
BY FrontEndImplementsMapper, CachesMirrored, PTL
=============================================================================
