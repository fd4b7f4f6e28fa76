# SpaceServe: TLA+ specifications

SpaceServe serves vision-language models.  It splits vLLM's V1 engine in two
processes: a vision *encoder* process that turns the images of requests into
embeddings, and an *engine* process that schedules and runs the language model
and advances a request only when the embeddings it needs have arrived.  This
directory specifies the control of that system in TLA+, from the calls of
`generate()` down to the rows of the model runner's batch, checks it with TLC on
small instances and proves its central invariants with TLAPS.

Paths below are relative to `src/vllm/v1` unless they start with `src/`.

## 1. The system and the parts that are specified

| Part | Code | Module | Status |
|---|---|---|---|
| Request: statuses, token counts, images | `request.py` | `Request` | modelled |
| Budgets and limits | `core/encoder_cache_manager.py` (`compute_encoder_budget`), scheduler configuration | `SchedulerConfig` | modelled |
| Encoder cache manager | `core/encoder_cache_manager.py` | `EncoderCacheManager` | modelled |
| KV cache manager, prefix cache | `core/kv_cache_manager.py` | `KVCacheManager` | modelled |
| Free list of blocks | `core/kv_cache_utils.py` | `FreeKVCacheBlockQueue` | modelled |
| Block hashes with images | `core/kv_cache_utils.py`, `core/kv_cache_manager.py` | `BlockHash` | modelled |
| Decoder scheduler | `core/scheduler.py` | `Scheduler` | modelled |
| Model runner, persistent batch, block tables | `worker/gpu_model_runner.py`, `worker/gpu_input_batch.py`, `worker/block_table.py` | `GPUModelRunner`, `Scheduler` | partly: what is kept from step to step, no tensors |
| Encoder scheduler, encoder process | `core/encoder_scheduler.py`, `engine/core.py` | `EncoderScheduler`, `SpaceServe` | partly: all that is ever called |
| Engine process | `engine/core.py` | `SpaceServe` | partly: without profiling, start-up and socket threads |
| Asynchronous client | `engine/core_client.py` | `SpaceServe`, `AsyncLLM` | partly: adds, aborts and outputs |
| Multi-process executor and workers | `executor/multiproc_executor.py` | `MultiprocExecutor` | partly: without start-up and shutdown |
| Image caches of the input mappers | `engine/mm_input_mapper.py`, `src/vllm/utils.py` (`LRUCache`) | `MMInputMapper` | modelled; the mapper itself is external |
| Detokenizer, stop strings | `engine/detokenizer.py`, `src/vllm/engine/output_processor/stop_checker.py` | `Detokenizer`, `TextStream` | partly: the text of a token is an input |
| AsyncLLM, output processing | `engine/async_llm.py`, `engine/output_processor.py`, `src/vllm/outputs.py` | `AsyncLLM` | partly: without statistics and logprobs |
| Input processing, GPU workers, process management, metrics, serialisation | `engine/processor.py`, `worker/gpu_worker.py`, `utils.py`, `metrics/`, `serial_utils.py` | | not modelled, see 5 |
| Attention back ends, sampler, models, kernels, V0 engine, API servers | `attention/`, `sample/`, `src/vllm/` | | not modelled, see 5 |

How they interact:

```
 callers of generate()
        |
     AsyncLLM  (output handler, detokenizers, client's image cache)
        |  add (first)                        result queue (bounded)
        +----------------> encoder process -------------------------+
        |                  EncoderScheduler, image cache            v
        +--------------------------------------------------> engine process
           add (second), abort; outputs come back        Scheduler, image cache
                                                         /        \
                                               KVCacheManager  EncoderCacheManager
                                                |        |
                                  FreeKVCacheBlockQueue BlockHash
                                                         |
                                     MultiprocExecutor (tensor parallel)
                                                         |
                                       workers: GPUModelRunner, input batch
```

The client sends a request to the encoder and then to the engine, and aborts to
the engine only.  The engine drains its input queue, drains the encoder's
results into a dictionary that scheduler and model runner share (or, with
several workers, dispatches them to each worker), and calls `step()`, which
repeats `schedule()` until it yields tokens (taking at most one encoder result
each time round), executes them and calls `update_from_output()`.

## 2. The modules

`EXTENDS` goes from left to right:
`Request` → `SchedulerConfig` → `EncoderCacheManager` → `Scheduler` → `SpaceServe`,
with `KVCacheManager` entering at `Scheduler` and `EncoderScheduler`, which has an
`EncoderCacheManager` of its own through `INSTANCE`, at `SpaceServe`;
`Scheduler` → `GPUModelRunner`; `Detokenizer`, `MMInputMapper` → `AsyncLLM`.

* **`Request`** holds what never changes of a request.  `AllTokenIds[r]` is the text
  the request would have if it ran to its limits; a request with `n` tokens holds the
  first `n`.  Positions count from 0, inputs and list places from 1.
* **`EncoderCacheManager`**, **`KVCacheManager`**: the state of a manager and, for each
  method, an action on that state which the scheduler conjoins with its own.  A block
  hash is the prefix it stands for (no collisions); `cacheOrder` lists the cached
  blocks in the order in which they were entered, since a lookup returns the oldest.
* **`FreeKVCacheBlockQueue`** is the doubly linked list behind the manager's free
  queue, link by link, beside the sequence (`queue`) that `KVCacheManager` works with.
* **`BlockHash`** computes the extra keys that the hash of a block gets from the images
  in it (`generate_block_hash_extra_keys`), for prompts that are any arrangement of text
  and images, and follows one request through lookup, generation, preemption and
  renewed lookup.
* **`Scheduler`**: `pc` says where the engine thread is in `schedule()` and
  `update_from_output()`, which take one step per loop iteration.  `Environment` is the
  client and the encoder as the scheduler sees them: adds, aborts, resets of the prefix
  cache and encoder results in any order between calls.  Which token is sampled is
  open: a request that has caught up may stop or, below its length cap, go on.
  `pc = "dead"` stands for an exception that ends the engine process.
* **`GPUModelRunner`** adds what the scheduler sends down in each step (only the
  differences: new block ids, resumed requests) and what the runner keeps: the request
  states, the rows of the persistent batch with tokens, block table and generator, the
  index from request to row, and the device's copy of the sampling parameters.
  `_update_states`, `condense` and the sampling loop run within one step of the
  scheduler's `ExecuteModel`.
* **`EncoderScheduler`**: the encoder's queues, its cache manager, the result it holds
  until `put` succeeds and the bounded queue to the engine.
* **`SpaceServe`** composes the three processes.  `loop` is the place of the engine
  thread outside the scheduler.  An engine action is the scheduler's action plus the
  loop's own change, and the whole is checked to implement `Scheduler!Spec`, the
  specification of the scheduler alone with an arbitrary caller.
* **`MultiprocExecutor`**: the engine thread in `dispatch_encoder_result_to_workers` and
  `collective_rpc`, the feeder thread of each result queue, and the busy loop of each
  worker.  An `mp.Queue` is a buffer and a pipe, since `empty()` and `get()` see only the
  latter.  The scheduler is reduced to when a request may be scheduled, is preempted,
  finishes and has its outputs freed, and `step()` to the choice between a step
  (`ExecuteModel`) and an output without tokens that it overwrites (`DropOutput`).  The
  engine's own dictionary of results, on which the scheduler's gate depends, only grows:
  here the workers drop outputs from theirs, not from the engine's.
* **`MMInputMapper`**: the LRU caches of processed images in the front end and in both
  processes behind it.  An image the client remembers is sent as `None`.
* **`Detokenizer`** has the operators of incremental detokenization: the stop strings,
  the text held back for them, the truncation, the three kinds of output.
  **`TextStream`** drives one detokenizer with arbitrary tokens.
* **`AsyncLLM`** composes the calls of `generate()`, the output handler with its slices,
  the mappers and an engine reduced to what the front end sees.  The front end is one
  event loop: an action is what a task does between two awaits.
* **`MCScheduler`**, **`MCSpaceServe`**, **`MCGPUModelRunner`**, **`MCAsyncLLM`**,
  **`MCMultiprocExecutor`** give the constants values; **`MCAlgorithms`** is the union of
  `FreeKVCacheBlockQueue`, `BlockHash` and `TextStream`.
* **`SequenceLemmas`**, **`Scheduler_proofs`**, **`KVCacheManager_proofs`**,
  **`SchedulerBlocks_proofs`**, **`SpaceServe_proofs`**, **`AsyncLLM_proofs`**,
  **`MultiprocExecutor_proofs`**, **`Algorithms_proofs`** hold the proofs.

Definitions whose names end in `_` and a word (`PutBack_Last`) are faulty variants of
the definition that follows them.  Nothing uses them; each one put in the place of the
correct definition must break a property, which shows that the property depends on
that piece of code.  `PROJECT.json` pairs them with the properties.

## 3. What the runs check

Passing runs (`tlc -config <module>_<run>.cfg <module>`):

| Run | Instance | Distinct states |
|---|---|---|
| `text` of `MCScheduler` | 3 text requests, two with a common first block, or one beside a request with an image; 3 blocks of 2 tokens; budget 3 | 21,928 |
| `batch` of `MCGPUModelRunner` | a request with two images and two text requests with a common block; 5 blocks, one preallocated; two seeded requests | 230,668 |
| `images` of `MCSpaceServe` | 2 requests with one image each, a result queue of 1 place | 39,543 |
| `algorithms` of `MCAlgorithms` | 5 blocks in the free list; prompts of up to 4 items from text and 3 images, blocks of 3 tokens; texts of up to 4 tokens with 5 lists of stop strings | 51,748 |
| `frontend` of `MCAsyncLLM` | 3 calls of `generate()`, one of which may be cancelled or dropped and one of which has an id in use; 4 images, one of them bad; caches of 2 | 215,045 |
| `executor` of `MCMultiprocExecutor` | 2 workers, one of which may fail; 3 requests; result queues of 2 places; any preemptions and outputs without tokens | 763,079 |

* *Queues and order* (`text`): `QueuesMatchStatus` (a live request is once in exactly the
  queue its status names), `OrderPreserved` (neither preemption nor resumption changes
  who is served first), `RunningHasWork` (the assertions of `schedule()` and
  `update_from_output()`), `EveryRequestFinishes` (no text request is starved, by
  preemption or by a running request that waits for its image).  `TypeOK` includes that
  the token budget is never overspent.
* *Blocks and slots* (`batch`): `BlockAccounting` (reference counts count users, the free
  queue holds exactly the unused blocks, only running requests have any),
  `ExclusiveWrites` (every scheduled token has a slot and no two requests write one
  block), `PrefixCacheSound` (a block found in the prefix cache holds that prefix, and
  between steps it has been computed), `SlotAccounting`, `PreemptedNotScheduled`.
* *Encoder outputs* (`batch`, `images`): `EncoderOutputsPresent` (the assertion of
  `_gather_encoder_outputs`), `StopFindsNothingCached` (`_free_request` at a stop never
  meets a cached input), `NeededOutputNotLost` (an output the decoder still needs is on
  its way or in the cache).
* *The persistent batch* (`batch`): `BatchIsSchedule` (after `_update_states` the rows are
  the scheduled requests, without a gap, and the index finds them), `RowsHoldRequests`
  (block table, computed tokens, tokens and generator of a row are what the scheduler
  decided, however many differences ago the row was filled, moved or resumed),
  `SamplesAgree` (nothing sampled is lost by a preemption and a seeded request draws one
  sample per generated token, with any chunking), `CommonPrefixSound` (the blocks handed
  to cascade attention are common to all scheduled requests and computed).
* *The whole* (`images`): `Spec` of the scheduler is a property of `SpaceServe`;
  `EveryRequestServed` and `AbortTakesEffect`.
* *Pure parts* (`algorithms`): `LinksFollowQueue` (the linked list is the queue that
  `KVCacheManager` assumes); `PromptKeysExact` (the extra keys of a block of the prompt
  are the images in it, although the loop only looks ahead from where the last block
  stopped) and `HitsSound` (a hit never confuses different images, for a new and for a
  resumed request); `ShownIsText`, `ShownOnlyGrows` and `StopStringEndsText`.
* *The front end* (`frontend`): `DeliveredExactly` (each caller gets its own tokens, once,
  in order, none after a stop string, and all the text), `NoOrphans` (no request is kept
  by one side and forgotten by the other), `Mirrored` (no server misses an image sent as
  `None`), `MapperSpec` (what the composed front end and servers do to the caches is what
  the abstract pair of `MMInputMapper` does), `GenerateReturns`.
* *The executor* (`executor`): `MissingWereDropped` (when a worker leaves its two loops the
  outputs the step needs are there, although `dispatch_encoder_result_to_workers` does not
  wait for the right result, and the only ones missing are those of preempted requests
  that the workers were told to drop), `QueuesHoldNewResults`, `WorkersAgree`,
  `OutputsReleased` (a worker drops what is no longer needed, unless it missed the
  notice), `DispatchReturns`, `CallReturns`.

Runs that are violated show where the code and what is written about it disagree:

| Run | What happens | Against |
|---|---|---|
| `free` of `MCScheduler` | `EncoderCacheManager.free` changes the set it iterates over; an abort in the middle of an image ends the engine | `core/encoder_cache_manager.py:56`, `core/scheduler.py:534` |
| `sampling` of `MCGPUModelRunner` | a request that has finished is no reason to copy the sampling parameters again; the request that moves into its row is sampled with its parameters | `worker/gpu_model_runner.py:228` |
| `text` of `MCSpaceServe` | a text-only request at the head of the encoder's queue blocks every image behind it | `src/tests/v1/engine/test_async_llm.py:125` |
| `two` of `MCSpaceServe` | `_execute_encoder` returns only the last of several images | `worker/gpu_model_runner.py:782` |
| `limit` of `MCSpaceServe` | the encoder's running list is never drained: `max_num_seqs` requests are encoded in its life | `src/vllm/config.py:1451` |
| `preempt` of `MCSpaceServe` | a preempted request whose image was consumed waits for an output nobody will compute again | `worker/gpu_model_runner.py:262` |

Each of these needs a particular set-up: several images in a request, text-only
requests beside images, as many requests as `max_num_seqs`, too few blocks.  `images`
stays clear of them (one image each, blocks for all), and there the liveness properties
hold.  In `two`, `text` and `preempt` the engine is left waiting inside `step()` for an
encoder output, where it reads no input: aborts sent meanwhile are not handled either.
`preempt` is about a single process, where engine and model runner share the dictionary of
results; the first item below says what the same preemption does to several workers.

The models contain further behaviour that one may not expect.  No property claims the
opposite; where a property excepts it, the exception is named.

* Two images that fit in the encoder cache singly but not together are both scheduled:
  the free slots are tested before any of them is taken (`core/scheduler.py:395`), and
  `num_free_slots` turns negative.
* With `ReuseRequestIds`, the finished id of an aborted request removes the encoder
  output of its successor with the same id (`worker/gpu_model_runner.py:235`, against the
  note at 240).
* With several workers the engine's dictionary of results is never emptied
  (`executor/multiproc_executor.py:46` only keeps a reference to it), so a preempted
  request whose image was consumed passes the gate (`core/scheduler.py:413`).  The workers
  have dropped the output, unless the notice was lost, and fail the assertion at
  `worker/gpu_model_runner.py:839`, which ends the engine.  `MissingWereDropped` says that
  this is the only case in which the assertion fails.
* An output of `schedule()` without tokens is overwritten (`engine/core.py:192`) together
  with the finished ids and freed inputs that only it carries (`core/scheduler.py:68`).  The
  workers then keep the outputs of a request: until it finishes if it was the notice of the
  freeing, for good if it was that of the finish.  The same happens to a result that is
  dispatched after the notice of the finish (`missed`, excepted in `OutputsReleased`).
* When a prompt ends in a block that holds an image and a later one, the key of the first
  is lost as the block is completed (`core/kv_cache_manager.py:486`; `LosesKey`, excepted
  in `HitsSound`).
* Mapping an image may raise after other images of the request went into the client's
  cache; the servers never hear of them, and the next hit ends a process at its assertion
  (`engine/core.py:135`; `forgotten`, excepted in `Mirrored` and `GenerateReturns`).
* A finished output that is merged into an earlier one loses its `finish_reason`
  (`src/vllm/outputs.py:173`), against which `finished()` at line 48 tests.
* With several stop strings `check_stop_strings` takes the first in the list, not in the
  text; a later one may remain in the output.  `StopStringEndsText` says exactly this.
* As many encoder results between two steps as a worker's queue has places block the
  engine for good at the next one (excepted in `DispatchReturns`), and the failure of a
  worker is not read while one of lower rank waits for it in a collective
  (`FailureUnread`, excepted in `CallReturns`).

### Bounds

* *Requests*: three, so that one can be preempted while another is scheduled and a third
  waits; two where all processes are composed.
* *Blocks*: in `text` as many as the longest request needs, the least with which the
  engine starts, so that any two requests compete.  The constraint `OneMix` of `text`
  lets a client submit either the three text requests or one of them beside the request
  with the image, with blocks for both: a preempted request whose image is gone blocks
  the rest, which is the run `preempt`.  It only stops clients and results, which no
  fairness condition asks to step.
* *Block size* 2 (3 for the hashes, so that two images fit in a block and a third never
  does): blocks are full, partly full and, by an image or a chunk, cut.
* *Token budget* 3: less than the prompts together and odd against the block size, so
  that prefills are chunked inside blocks and images.
* *Tokens*: a request ends at its `MaxTokens` or at `MaxModelLen`, both small.
* *Queues*: the result queue has 1 instead of 5 places, a worker's 2 instead of 10, the
  image caches 2 entries for 4 images: each of them is full in some state.
* *Slices* of one output instead of 128; the engine is at most `MaxBatches` batches ahead.
* An id is used once unless `ReuseRequestIds`, which the runs do not set.  Two live
  requests never have one id; `AsyncLLM` includes a call that tries.

`CHECK_DEADLOCK FALSE` is set because the systems do stop: when every request is finished
and none is left to submit, the engine is dead or has raised, or its queue is full.

### Fairness

* `FairSpec` of `Scheduler`: weak fairness of the engine thread's steps, a busy loop.
* `Fairness` of `SpaceServe`: weak fairness of the engine process, of the encoder process
  and of the second send of a client that has made the first.
* For the busy loops it is written out as "infinitely often not able to step, or
  infinitely often a step"; the predicates `EngineHasWork`, `EngineCanStep` and
  `EncoderCanStep` say when the loops are not blocked, and spare TLC the evaluation of
  `ENABLED`.
* `AsyncFairness`: weak fairness of all tasks and processes together, the least one can
  ask; requests have finitely many tokens, so no task can run for ever.
* `ExecFairness`: weak fairness of the engine thread, of each feeder thread and of each
  worker process.

No client has to submit, cancel or abort anything, and nothing is assumed of how the
processes take turns.

## 4. What is proved

The theorems hold for every value of the constants that the assumptions allow.  TLC
evaluates the same assumptions in the runs, and the properties that the theorems state
are those that the runs check.  Every proof of an invariant has the same shape: a
strengthening that is inductive, one lemma per action of the next-state relation, a
lemma that combines them, and the temporal step.  The lemmas on what the queue
operations do to a sequence are in `SequenceLemmas`.

**The scheduler** (`Scheduler_proofs`), from `RequestAssumption`, `ConfigAssumption`,
`KVAssumption` and `ReuseAssumption`: `TypeCorrect` (`TypeOK`, with the token budget),
`QueuesAgree` (`QueuesMatchStatus`), `WorkRemains` (`RunningHasWork`) and `PreemptedIdle`
(`PreemptedNotScheduled`).  None of the four is inductive alone; the invariant is

    IInv == TypeOK /\ ManagersOK /\ CallState /\ QueuesMatchStatus
                   /\ RunningHasWork /\ PreemptedNotScheduled

* `ManagersOK`: a request never has more block hashes than full blocks.  Without it a
  cache hit could cover more than the request's tokens, and none would be left to compute.
* `CallState`: what holds in the middle of `schedule()`.  The requests from `reqIndex` on
  are not scheduled yet, and the victim of a preemption is the last one running, so it
  has no tokens in this step.
* `Active` and `ShiftLemma`: `update_from_output` rebuilds the running list behind the
  loop.  A request is in the part rebuilt or in the part to come, and moving the border
  by one changes neither membership nor repetition.

Then `SlotsAccounted` (`SlotAccounting`) and `StopsFindNothing` (`StopFindsNothingCached`)
from `CacheInv`: only inputs that exist are cached, so their positions are disjoint and
`Cardinality` adds up; and a request never has fewer tokens than its prompt, so all its
images have been consumed, and freed, when it can stop.  `ServedInOrder`
(`OrderPreserved`) is an action property: for each queue operation a lemma says that it
keeps the order of any two requests, and the actions are compositions of those.

**The blocks** (`KVCacheManager_proofs` for the manager's operations,
`SchedulerBlocks_proofs` for the scheduler): `BlocksAccounted` (`BlockAccounting`),
`HitsAreSound` (`PrefixCacheSound`), `WritesAreExclusive` (`ExclusiveWrites`), for every
number and size of blocks, any preallocation, with and without prefix caching.

* `KVInv`, kept by every operation of the manager: a reference count is the number of
  tables that hold the block, the free queue holds the blocks of count 0, once each, a
  block in a table carries no hash or that of its place in it, and two tables share
  hashed blocks only.  The delicate operation is `allocate_slots`: hits may lie in the
  free queue, from which the new blocks are taken.
* `TablesOK`: only running requests have blocks, as many as their computed and pending
  tokens fill; exactly the full ones among these are hashed; and a block in two tables is
  one that one of the two requests has computed in full.  `Progress` counts the pending
  tokens as computed, because the code enters blocks in the prefix cache when it
  schedules them: with it the invariant holds in the middle of `schedule()` too, and
  between steps nothing is pending.

**Encoder outputs and the composed system** (`SpaceServe_proofs`).  `OutputsArePresent`
(`EncoderOutputsPresent`) has the hypothesis `~ReuseRequestIds`, without which it is false
(see 3), and is about one worker, which shares the engine's dictionary of results; for
several see the executor below.  Its invariant `OutputsInv` follows an output from the scheduler's decision to
the step that gathers it: inputs of finished requests are not cached, an id that is
announced as finished belongs to a finished request, a cached input that is still needed
has its output, and neither what is freed nor what has been handed out is needed again.
`SystemImplementsScheduler` states that the three processes implement `Spec`, so every
theorem above holds of the system; `SystemTypeCorrect` (`SystemTypeOK`) includes the bound
of the result queue.  `SystemInv` says of the messages on their way that an add is there
once and only for a request that the scheduler has not seen, which is what `AddRequest`
requires of its caller.

`OnlyPreemptionLoses` (`NeededOutputNotLost`) names what can lose an encoder output.  It has
three hypotheses: no id is used twice, no request has more than one image (`OneInput`;
otherwise run `two`), and no step preempts a request with an image (`PreemptsImage`;
otherwise run `preempt`).  They exclude the ways section 3 shows to lose one, and the theorem says
that while the engine lives there is no other, whatever the sizes of queues and caches.  Its
invariant `KeptInv` follows the output of a request from the moment the client sends it
off: it is on its way, in the encoder cache, or all its tokens are computed, and the
last of these needs that what `schedule()` tells the workers to drop belongs to requests that
have been started (`DroppedStarted`).

**The front end** (`AsyncLLM_proofs`), from `MapperAssumption` and `AsyncAssumption`.
`CachesMirrored` (`Mirrored`) and `CachesStayBounded` are about `MapperSpec`: `Mirrored` speaks
of a server that has caught up; inductive is `MirrorInv`, which chains the messages under
way: applying them one after the other to the server's cache leads to the client's, where
the ghost field `seen` of a message is the client's cache at the time of sending.
`FrontEndImplementsMapper` shows that `AsyncSpec` implements `MapperSpec`, and
`FrontEndCachesMirrored` draws the conclusion.  `NothingOrphaned` (`NoOrphans`) rests on
`ProtocolInv`, which says for each call what the two sides know of it and which messages
about it are under way.  Its last conjunct, `Ordered`, is the one that makes it inductive:
there is at most one ADD, and if the front end has dropped the call and no abort is held
back, an ABORT stands behind it in the queue.

**The executor** (`MultiprocExecutor_proofs`), from `ExecutorAssumption`, for every number of
workers, set of requests, queue size and set of failing workers, with any preemptions and
overwritten outputs: `OnlyDroppedAreMissing` (`MissingWereDropped`), `QueuesAreTheIds`
(`QueuesHoldNewResults`), `GroupAgrees` (`WorkersAgree`), `OutputsAreReleased`
(`OutputsReleased`).  The second loop of
`worker_busy_loop` takes *some* result for an id that it misses, and nothing for one that
it has, so it is not plain that it takes as many as there are.  The invariant says why:

* `Queues`: what a worker has not taken (`Untaken`, pipe and buffer together) is the end
  of the list of ids it has been sent.  During the loops it is no longer than the list of
  ids still to be looked at; after them it is empty; outside a step nothing is taken.
* `Held`: of the ids of a step the worker holds exactly those before `Untaken`.  So an id
  found in the cache has been taken, there are fewer results left than ids, and skipping
  the id keeps the bound.  This needs `Fresh`: no result is dispatched twice.
* `Agree` and `Stages` relate the caches of two workers, and a cache to what the scheduler
  knows, with exceptions for what the step is about to drop; they collapse to the
  theorems when the engine is idle.  `told` and `missed` record which notices the workers
  have got: a dispatched result is in the queue or in all caches until the workers are
  told, and in none once they have dropped it.

**The free list and the texts** (`Algorithms_proofs`).  `ListKeepsQueue`
(`LinksFollowQueue`), for every number of blocks: the links, the two ends and the count are
those of a sequence without repetition after every `popleft`, `remove` and `append`; the
work is in the three shapes of a removal (head, tail, between).  `TextIsShown`
(`ShownIsText`), `StopStringsEndText` (`StopStringEndsText`) and `NothingTakenBack`
(`ShownOnlyGrows`), from `StreamAssumption`, for all texts of tokens and lists of non-empty
stop strings.  `StreamInv`: until a stop string is found the text is that of all tokens
and no stop string occurs in it, and all of it has been shown but the last
`stop_buffer_length` characters.  From this follow the two facts that the code relies on:
an occurrence in the longer text ends in the new characters, so that the search from
`SearchFrom` finds it, and it begins behind what has been shown, so that cutting it off
takes nothing back.

**Only model-checked.**

* Liveness and everything with fairness (`EveryRequestFinishes`, `EveryRequestServed`,
  `AbortTakesEffect`, `GenerateReturns`, `DispatchReturns`, `CallReturns`): beyond TLAPS.
* The model runner (`RunnerTypeOK`, `BatchIsSchedule`, `RowsHoldRequests`, `SamplesAgree`,
  `CommonPrefixSound`): `add_request` and `condense` are recursions over the rows of the
  batch, and what a recursion computes is an induction over data.
* `PromptKeysExact` and `HitsSound`: the keys and hashes are computed block by block, each
  from the one before, again an induction over data.
* `DeliveredExactly` and `AsyncTypeOK`: the text of a call is a recursive function of its
  tokens, and so is what the coalesced outputs add up to.

## 5. What is left out

In the modelled parts:

* An `mp.Queue` between encoder and engine counts as filled when the object is visible;
  the finer queue is in `MultiprocExecutor`, where the code depends on the difference.
* An encoder result that comes after its request has finished stays in the dictionary of
  results; that it is never removed is not a property here.
* LoRA, sliding windows and speculative decoding are off.  Priorities do not exist in
  this scheduler.
* Which token is sampled, and the text of a token, are free choices.
* Statistics, logprobs, logging and the timing of the loops.

Not modelled:

* *Start-up and shutdown* of the processes, the readiness messages and the sockets'
  threads.  `MultiprocExecutor.shutdown` does its work only if `shutting_down` is set
  already (`executor/multiproc_executor.py:210`), which is a matter of one condition and
  not of interleavings.  The death of the engine ends all processes in `SpaceServe`.
* *The memory estimate* at start-up (`core/kv_cache_utils.py:348`, which caps the length
  it checks at 4096 tokens): arithmetic on the device's sizes.
* *Input processing*: tokenisation and validation.  Its result is the assumption on
  requests in `Request`.
* *The synchronous clients* (`InprocClient`, `SyncMPClient`, `LLMEngine`): they do not feed
  the encoder process.
* *GPU workers*: device set-up and plain delegation to the model runner.
* *Metrics and serialisation*: no influence on the control.
* *Attention back ends, sampler, models, kernels*: numerical code.  *The V0 engine and the
  API servers*: inherited from vLLM and not used by, or only in front of, what is
  specified here.  These are by far the most lines of the repository.
