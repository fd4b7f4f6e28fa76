----------------------------- MODULE BlockHash -----------------------------
(***************************************************************************)
(* Block hashes of requests with images (vllm/v1/core/kv_cache_utils.py    *)
(* and _cache_full_blocks of kv_cache_manager.py).  All images have the    *)
(* same placeholder token, so the hash of a block also takes extra keys:   *)
(* the hashes of the images in it.                                         *)
(*                                                                         *)
(* A prompt is a layout: a sequence of texts of one token and of images.   *)
(* Without collisions a block's hash value stands for the entries          *)
(* (token_ids, extra_keys) of all blocks up to it, and the list            *)
(* kv_block_hashes of a request is its sequence of entries.  All texts and *)
(* all generated tokens are the same token: only the images differ.        *)
(***************************************************************************)
EXTENDS Naturals, Sequences, SequencesExt

CONSTANTS
    Images,       \* the images, told apart by mm_hash
    ImageLength,  \* [Images -> Nat], the placeholder tokens of an image
    HashBlockSize,  \* block_size
    MaxItems,     \* bound on the items of a prompt
    MaxGenerated  \* bound on the generated tokens

VARIABLES
    layout,         \* the prompt of the request
    numGenerated,   \* its generated tokens so far
    isRunning,      \* does it hold blocks?
    kvBlockHashes   \* Request.kv_block_hashes

hashVars == <<layout, numGenerated, isRunning, kvBlockHashes>>

ASSUME HashAssumption ==
    /\ ImageLength \in [Images -> Nat \ {0}]
    /\ HashBlockSize \in Nat \ {0}
    /\ MaxItems \in Nat /\ MaxGenerated \in Nat

Text == "text"

Placeholder == "placeholder"

NoKeys == <<"None">>

Layouts == UNION {[1 .. n -> Images \cup {Text}] : n \in 1 .. MaxItems}

LengthOf(x) == IF x = Text THEN 1 ELSE ImageLength[x]

\* The number of tokens before the i-th item.
Offset(l, i) == MapThenSumSet(LAMBDA j : LengthOf(l[j]), 1 .. i - 1)

NumPrompt(l) == Offset(l, Len(l) + 1)

\* mm_positions and mm_hashes, sorted by offset as the processor does.
MMInputs(l) ==
    SelectSeq([i \in 1 .. Len(l) |-> [hash |-> l[i], offset |-> Offset(l, i),
                                      length |-> LengthOf(l[i])]],
              LAMBDA m : m.hash # Text)

\* What is at position p (from 0): a text or a part of an image.
ContentAt(l, p) ==
    LET over == {i \in 1 .. Len(l) : Offset(l, i) <= p /\ p < Offset(l, i + 1)}
    IN  IF over = {} THEN <<Text, 0>>
        ELSE LET i == CHOOSE i \in over : TRUE
             IN  IF l[i] = Text THEN <<Text, 0>> ELSE <<l[i], p - Offset(l, i)>>

Content(l, n) == [p \in 1 .. n |-> ContentAt(l, p - 1)]

TokenIds(l, start, end) ==
    [p \in 1 .. end - start |->
        IF ContentAt(l, start + p - 1)[1] = Text THEN Text ELSE Placeholder]

----------------------------------------------------------------------------
(* The hashes *)

\* Faulty: an image is passed by the first block that reaches it.
RECURSIVE KeysFrom_Passed(_, _, _, _)
KeysFrom_Passed(mm, start, end, idx) ==
    IF idx >= Len(mm) \/ end <= mm[idx + 1].offset THEN [keys |-> <<>>, next |-> idx]
    ELSE LET rest == KeysFrom_Passed(mm, start, end, idx + 1)
         IN  [keys |-> <<mm[idx + 1].hash>> \o rest.keys, next |-> rest.next]

\* Faulty: a block has the key of one image at most.
KeysFrom_One(mm, start, end, idx) ==
    IF idx >= Len(mm) \/ end <= mm[idx + 1].offset THEN [keys |-> <<>>, next |-> idx]
    ELSE [keys |-> <<mm[idx + 1].hash>>,
          next |-> IF end >= mm[idx + 1].offset + mm[idx + 1].length THEN idx + 1 ELSE idx]

\* The loop of generate_block_hash_extra_keys for the tokens start .. end - 1,
\* from the image idx (from 0) on.
RECURSIVE KeysFrom(_, _, _, _)
KeysFrom(mm, start, end, idx) ==
    IF idx >= Len(mm) \/ end <= mm[idx + 1].offset THEN [keys |-> <<>>, next |-> idx]
    ELSE LET m == mm[idx + 1]
             rest == KeysFrom(mm, start, end, idx + 1)
         IN  IF start > m.offset + m.length THEN rest
             ELSE IF end >= m.offset + m.length
             THEN [keys |-> <<m.hash>> \o rest.keys, next |-> rest.next]
             ELSE [keys |-> <<m.hash>>, next |-> idx]

\* generate_block_hash_extra_keys from the image idx on.
GenerateExtraKeys(mm, start, end, idx) ==
    IF mm = <<>> \/ mm[Len(mm)].offset + mm[Len(mm)].length < start
    THEN [keys |-> NoKeys, next |-> idx]
    ELSE KeysFrom(mm, start, end, idx)

\* hash_request_tokens: the entries of the full blocks among the first n
\* tokens; each block starts with the image where the one before stopped.
RECURSIVE EntriesFrom(_, _, _, _)
EntriesFrom(l, n, start, idx) ==
    LET end == start + HashBlockSize
        extra == GenerateExtraKeys(MMInputs(l), start, end, idx)
    IN  IF end > n THEN <<>>
        ELSE <<[tokens |-> TokenIds(l, start, end), keys |-> extra.keys]>>
             \o EntriesFrom(l, n, end, extra.next)

HashRequestTokens(l, n) == EntriesFrom(l, n, 0, 0)

\* The entry that _cache_full_blocks computes for the k-th block: it starts
\* with the last image, as the block was completed with generated tokens.
EntryOfGenerated(l, k) ==
    [tokens |-> TokenIds(l, (k - 1) * HashBlockSize, k * HashBlockSize),
     keys |-> GenerateExtraKeys(MMInputs(l), (k - 1) * HashBlockSize, k * HashBlockSize,
                                Len(MMInputs(l)) - 1).keys]

\* The hashes of a request with n tokens whose prompt was hashed first.
KeptEntries(l, n) ==
    LET first == HashRequestTokens(l, NumPrompt(l))
    IN  first \o [k \in 1 .. (n \div HashBlockSize) - Len(first) |->
                        EntryOfGenerated(l, Len(first) + k)]

----------------------------------------------------------------------------
(* A request between its first lookup and its end *)

HashInit ==
    /\ layout \in Layouts
    /\ numGenerated = 0
    /\ isRunning = FALSE
    /\ kvBlockHashes = <<>>

NumTokensNow == NumPrompt(layout) + numGenerated

\* get_computed_blocks for a new or a resumed request: only an empty list of
\* hashes is computed.
Lookup ==
    /\ ~isRunning
    /\ isRunning' = TRUE
    /\ kvBlockHashes' = IF kvBlockHashes = <<>> THEN HashRequestTokens(layout, NumTokensNow)
                        ELSE kvBlockHashes
    /\ UNCHANGED <<layout, numGenerated>>

\* A step computes all tokens and samples another one; allocate_slots gives
\* a hash to every block that the step fills.
Step ==
    /\ isRunning /\ numGenerated < MaxGenerated
    /\ kvBlockHashes' = kvBlockHashes \o
            [k \in 1 .. (NumTokensNow \div HashBlockSize) - Len(kvBlockHashes) |->
                EntryOfGenerated(layout, Len(kvBlockHashes) + k)]
    /\ numGenerated' = numGenerated + 1
    /\ UNCHANGED <<layout, isRunning>>

\* A preempted request keeps its list of hashes.
PreemptRequest ==
    /\ isRunning
    /\ isRunning' = FALSE
    /\ UNCHANGED <<layout, numGenerated, kvBlockHashes>>

HashNext == Lookup \/ Step \/ PreemptRequest

----------------------------------------------------------------------------
(* Properties *)

\* The images that the k-th block has a token of.
ImagesIn(l, k) ==
    SelectSeq(MMInputs(l), LAMBDA m : m.offset < k * HashBlockSize
                                      /\ m.offset + m.length > (k - 1) * HashBlockSize)

KeysOf(entry) == IF entry.keys = NoKeys THEN <<>> ELSE entry.keys

\* Does the block that the prompt ends in wholly contain an image other than
\* the last?  Its key is then lost when the block is completed with generated
\* tokens.
LosesKey(l) ==
    LET mm == MMInputs(l)
        tail == NumPrompt(l) - (NumPrompt(l) % HashBlockSize)
    IN  \E i \in 1 .. Len(mm) - 1 : mm[i].offset >= tail

\* The extra keys of a block of prompt tokens are the images in it, neither
\* more nor fewer, though the loop only looks ahead from where the block before
\* stopped.
PromptKeysExact ==
    \A k \in 1 .. Len(kvBlockHashes) : k * HashBlockSize <= NumPrompt(layout) =>
        KeysOf(kvBlockHashes[k]) = [i \in 1 .. Len(ImagesIn(layout, k)) |-> ImagesIn(layout, k)[i].hash]

\* What a new request with another prompt looks up, and what it is; the hashes
\* include generated tokens when it was preempted before it had any.
FirstLookups ==
    {[entries |-> HashRequestTokens(p[1], NumPrompt(p[1]) + p[2]),
      content |-> Content(p[1], NumPrompt(p[1]) + p[2])] :
        p \in {q \in Layouts \X (0 .. MaxGenerated) : q[2] = 0 \/ NumPrompt(q[1]) < HashBlockSize}}

\* What a resumed request looks up: the hashes of its prompt and those that
\* were computed for it as it ran.
KeptLookups ==
    {[entries |-> KeptEntries(l, NumPrompt(l) + g), content |-> Content(l, NumPrompt(l) + g)] :
        l \in {k \in Layouts : ~LosesKey(k)}, g \in 0 .. MaxGenerated}

\* When the lookup x finds the k-th block of this request, the two have the
\* same images at the same places.
HitSound(x, k) ==
    /\ k <= Len(x.entries)
    /\ SubSeq(x.entries, 1, k) = SubSeq(kvBlockHashes, 1, k)
    => SubSeq(x.content, 1, k * HashBlockSize) = Content(layout, k * HashBlockSize)

\* A prefix hit of a new request is sound, although an entry does not say
\* where in the block an image lies, and although the keys of a block with
\* generated tokens start with the last image.  So is one of a resumed request,
\* unless the key of an image is lost in the block that the prompt ends in.
HitsSound ==
    \A k \in 1 .. Len(kvBlockHashes) :
        /\ \A x \in FirstLookups : HitSound(x, k)
        /\ ~LosesKey(layout) => \A x \in KeptLookups : HitSound(x, k)
=============================================================================
