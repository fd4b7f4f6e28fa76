---------------------------- MODULE MMInputMapper ----------------------------
(***************************************************************************)
(* The mirrored caches of processed images (v1/engine/mm_input_mapper.py). *)
(* The front end maps an image once and remembers it; for an image it      *)
(* remembers it sends None, and each server (the one in EngineCore and the *)
(* one in EncoderCore, every process with a cache of its own) takes the    *)
(* image from its own cache and asserts that it is there.  Nothing is ever *)
(* sent back, so the caches agree only because both sides apply the same   *)
(* operations in the same order.                                           *)
(*                                                                         *)
(* A cache is the sequence of its keys, the least recently used first.     *)
(* An image is its hash.  The channel of a server holds the inputs of the  *)
(* requests sent to it, one entry per image, in order.                     *)
(***************************************************************************)
EXTENDS Integers, Sequences

CONSTANTS
    Hashes,      \* the hashes of the images
    BadImages,   \* the ones on which multi_modal_input_mapper raises
    Servers,     \* the processes with an MMInputMapperServer
    Owners,      \* what an entry is sent for: the requests
    CacheSize    \* MM_CACHE_SIZE

ASSUME MapperAssumption ==
    /\ BadImages \subseteq Hashes
    /\ CacheSize \in Nat \ {0}

VARIABLES
    clientCache,   \* MMInputMapperClient.mm_cache
    mapped,        \* ret_inputs: the images of the request being processed
    channel,       \* what is on its way to each server
    serverCache,   \* MMInputMapperServer.mm_cache of each server
    stopped,       \* the servers whose assertion has failed
    forgotten      \* history: mapping raised after other images of the
                   \* same request had been looked up in the cache

mapperVars == <<clientCache, mapped, channel, serverCache, stopped, forgotten>>

-----------------------------------------------------------------------------
(* LRUCache (utils.py). *)

InCache(cache, hash) == \E i \in 1 .. Len(cache) : cache[i] = hash

PlaceOf(cache, hash) == CHOOSE i \in 1 .. Len(cache) : cache[i] = hash

MoveToEnd(cache, hash) ==
    [i \in 1 .. Len(cache) |->
        IF i = Len(cache) THEN hash
        ELSE IF i < PlaceOf(cache, hash) THEN cache[i] ELSE cache[i + 1]]

\* get: a hit becomes the most recently used key.
GetKey(cache, hash) ==
    IF InCache(cache, hash) THEN MoveToEnd(cache, hash) ELSE cache

\* put, with _remove_old_if_needed.
PutKey(cache, hash) ==
    IF InCache(cache, hash) THEN MoveToEnd(cache, hash)
    ELSE IF Len(cache) < CacheSize THEN Append(cache, hash)
    ELSE Tail(Append(cache, hash))

-----------------------------------------------------------------------------
(* `seen` is the client's cache before the image: it is not sent, and only *)
(* the inductive invariant reads it.                                       *)

Entries ==
    [hash : Hashes, isNone : BOOLEAN, owner : Owners, seen : Seq(Hashes)]

CacheAfter(entry) ==
    IF entry.isNone THEN GetKey(entry.seen, entry.hash)
    ELSE PutKey(entry.seen, entry.hash)

MapperInit ==
    /\ clientCache = <<>>
    /\ mapped = <<>>
    /\ channel = [s \in Servers |-> <<>>]
    /\ serverCache = [s \in Servers |-> <<>>]
    /\ stopped = {}
    /\ forgotten = FALSE

\* One turn of the loop of MMInputMapperClient.process_inputs.
ClientImage(hash, owner) ==
    LET entry == [hash |-> hash, isNone |-> InCache(clientCache, hash),
                  owner |-> owner, seen |-> clientCache]
    IN  /\ hash \notin BadImages \/ entry.isNone
        /\ mapped' = Append(mapped, entry)
        /\ clientCache' = CacheAfter(entry)
        /\ UNCHANGED <<channel, serverCache, stopped, forgotten>>

\* multi_modal_input_mapper raises: the request is not sent, and what the
\* client has put in its cache for it stays there.
ClientRaises(hash) ==
    /\ hash \in BadImages
    /\ ~InCache(clientCache, hash)
    /\ mapped' = <<>>
    /\ forgotten' = (forgotten \/ mapped # <<>>)
    /\ UNCHANGED <<clientCache, channel, serverCache, stopped>>

\* add_request_async: the request goes to every server, in the same order.
Sent(s) == channel[s] \o mapped

ClientSend ==
    /\ channel' = [s \in Servers |-> Sent(s)]
    /\ mapped' = <<>>
    /\ UNCHANGED <<clientCache, serverCache, stopped, forgotten>>

\* Faulty: a hit does not make the key the most recently used one.
ServerCacheAfter_Peek(cache, entry) ==
    IF entry.isNone THEN cache
    ELSE PutKey(cache, entry.hash)

ServerCacheAfter(cache, entry) ==
    IF entry.isNone THEN GetKey(cache, entry.hash)
    ELSE PutKey(cache, entry.hash)

\* One turn of the loop of MMInputMapperServer.process_inputs.
ServerImage(s) ==
    /\ s \notin stopped
    /\ channel[s] # <<>>
    /\ channel' = [channel EXCEPT ![s] = Tail(@)]
    /\ LET entry == Head(channel[s])
       IN  /\ serverCache' =
                [serverCache EXCEPT ![s] = ServerCacheAfter(@, entry)]
           /\ stopped' =
                IF entry.isNone /\ ~InCache(serverCache[s], entry.hash)
                THEN stopped \cup {s} ELSE stopped
    /\ UNCHANGED <<clientCache, mapped, forgotten>>

MapperNext ==
    \/ \E hash \in Hashes, owner \in Owners : ClientImage(hash, owner)
    \/ \E hash \in Hashes : ClientRaises(hash)
    \/ ClientSend
    \/ \E s \in Servers : ServerImage(s)

MapperSpec == MapperInit /\ [][MapperNext]_mapperVars

-----------------------------------------------------------------------------
(* Every cache holds different keys, and no more than its size. *)
CacheOK(cache) ==
    /\ cache \in Seq(Hashes)
    /\ Len(cache) <= CacheSize
    /\ \A i, j \in 1 .. Len(cache) : cache[i] = cache[j] => i = j

\* The variables have their types.
MapperTypeOK ==
    /\ clientCache \in Seq(Hashes)
    /\ mapped \in Seq(Entries)
    /\ channel \in [Servers -> Seq(Entries)]
    /\ serverCache \in [Servers -> Seq(Hashes)]
    /\ stopped \subseteq Servers
    /\ forgotten \in BOOLEAN

(* The LRU discipline keeps both sides' caches within MM_CACHE_SIZE        *)
(* different keys, whatever images come (LRUCache.put).                    *)
CachesBounded ==
    /\ CacheOK(clientCache)
    /\ \A s \in Servers : CacheOK(serverCache[s])

(* No server ever misses an image that the client sent as None (the        *)
(* assertion of MMInputMapperServer.process_inputs), and a server that has *)
(* taken all that was sent has the client's cache, in the client's order   *)
(* of eviction.  The one exception in the code: mapping an image raised    *)
(* after another image of the same request had gone through the client's  *)
(* cache.                                                                  *)
Mirrored ==
    ~forgotten =>
        /\ stopped = {}
        /\ \A s \in Servers :
              Sent(s) = <<>> => serverCache[s] = clientCache

(* The inductive form: what is on its way to a server, followed by what    *)
(* is being mapped, leads from the server's cache to the client's.         *)
Linked(cache, entries, last) ==
    /\ entries = <<>> => cache = last
    /\ entries # <<>> =>
          /\ entries[1].seen = cache
          /\ CacheAfter(entries[Len(entries)]) = last
    /\ \A i \in 1 .. Len(entries) :
          entries[i].isNone <=> InCache(entries[i].seen, entries[i].hash)
    /\ \A i \in 1 .. Len(entries) - 1 :
          entries[i + 1].seen = CacheAfter(entries[i])

MirrorInv ==
    ~forgotten =>
        /\ stopped = {}
        /\ \A s \in Servers : Linked(serverCache[s], Sent(s), clientCache)
=============================================================================
