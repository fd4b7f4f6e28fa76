------------------------ MODULE EncoderCacheManager ------------------------
(***************************************************************************)
(* EncoderCacheManager (vllm/v1/core/encoder_cache_manager.py): the slots  *)
(* of the encoder cache that scheduled encoder inputs occupy.  It counts   *)
(* tokens only; the outputs themselves live in the dictionary shared by    *)
(* the scheduler and the model runner.                                     *)
(*                                                                         *)
(* Each operation is an action on the manager's variables, for the         *)
(* scheduler that owns the manager to conjoin with its own.                *)
(***************************************************************************)
EXTENDS SchedulerConfig

VARIABLES
    numFreeSlots,  \* num_free_slots
    cached,        \* [Requests -> set of input ids], {} for an absent key
    freed          \* the list of (req_id, input_id) not handed out yet

ecmVars == <<numFreeSlots, cached, freed>>

ECMInit ==
    /\ numFreeSlots = EncoderCacheSize
    /\ cached = [r \in Requests |-> {}]
    /\ freed = {}

HasCache(r, i) == i \in cached[r]

CanAllocate(r, i) == NumEncoderTokens(r, i) <= numFreeSlots

\* The slots that the inputs S of r take together: one for each of their
\* placeholder tokens, which no two inputs share.
SlotsOf(r, S) ==
    Cardinality({p \in 0 .. NumPromptTokens[r] - 1 :
                    \E i \in S : Start(r, i) <= p /\ p < End(r, i)})

\* Faulty: the slots are not taken.
Allocate_NoSlots(r, S) ==
    /\ cached' = [cached EXCEPT ![r] = @ \cup S]
    /\ UNCHANGED <<numFreeSlots, freed>>

\* allocate, once for every input of S.
Allocate(r, S) ==
    /\ cached' = [cached EXCEPT ![r] = @ \cup S]
    /\ numFreeSlots' = numFreeSlots - SlotsOf(r, S)
    /\ UNCHANGED freed

\* free_encoder_input, once for every input of S, a subset of cached[r].
FreeEncoderInputs(r, S) ==
    /\ cached' = [cached EXCEPT ![r] = @ \ S]
    /\ numFreeSlots' = numFreeSlots + SlotsOf(r, S)
    /\ freed' = freed \cup ({r} \X S)

\* free iterates over the very set that free_encoder_input shrinks, so with
\* anything cached it raises RuntimeError after the first removal.
FreeRaises(r) == cached[r] # {}

FreeFirstThenRaise(r) == \E i \in cached[r] : FreeEncoderInputs(r, {i})

\* get_freed_ids hands out the list and starts a new one.
GetFreedIds ==
    /\ freed' = {}
    /\ UNCHANGED <<numFreeSlots, cached>>

\* The manager's variables have their types: it tracks inputs that exist, and
\* never has more free slots than the cache.
ECMTypeOK ==
    /\ numFreeSlots \in Int /\ numFreeSlots <= EncoderCacheSize
    /\ DOMAIN cached = Requests
    /\ \A r \in Requests : cached[r] \subseteq Inputs(r)
    /\ \A f \in freed : f[1] \in Requests /\ f[2] \in Inputs(f[1])

============================================================================
