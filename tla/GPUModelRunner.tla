--------------------------- MODULE GPUModelRunner ---------------------------
(***************************************************************************)
(* The model runner (vllm/v1/worker/gpu_model_runner.py) composed with the *)
(* scheduler that drives it: the runner's own copy of every request        *)
(* (CachedRequestState) and the persistent batch (InputBatch of            *)
(* gpu_input_batch.py with its BlockTable), which survives from step to    *)
(* step and is brought up to date from the differences that a              *)
(* SchedulerOutput carries.                                                *)
(*                                                                         *)
(* Rows count from 1.  The arrays of a row that no request occupies keep   *)
(* what was last written there; whoever takes the row overwrites them, and *)
(* a free row is modelled as NoRow.  The generator of a row is in a        *)
(* dictionary of its own, by row number.                                   *)
(***************************************************************************)
EXTENDS Scheduler

CONSTANT
    Seeded  \* the requests with a seed, which have a generator of their own

VARIABLES
    \* the rest of the SchedulerOutput
    scheduledOrder,  \* the scheduled requests, in the order of scheduling
    resumedReqs,     \* scheduled_resumed_reqs
    newBlockIds,     \* [Requests -> Seq(Blocks)], req_to_new_block_ids
    inStep,          \* has EngineCore.step dropped an output and not returned?
    \* the runner
    reqStates,       \* [Requests -> state or NoState], GPUModelRunner.requests
    batch,           \* the InputBatch: rows, req_id_to_index, generators
    samplingRows,    \* [Rows -> whose sampling parameters the GPU has there]
    draws            \* [Requests -> Int], what a generator's offset stands for

runnerVars == <<reqStates, batch, samplingRows, draws>>

deltaVars == <<scheduledOrder, resumedReqs, newBlockIds, inStep>>

allVars == <<vars, deltaVars, runnerVars>>

ASSUME SeededAssumption == Seeded \subseteq Requests

Rows == 1 .. MaxNumRunningReqs

NoState == <<>>

NoRow == <<>>

NoGenerator == <<>>

RunnerInit ==
    /\ Init
    /\ scheduledOrder = <<>> /\ resumedReqs = {}
    /\ newBlockIds = [r \in Requests |-> <<>>]
    /\ inStep = FALSE
    /\ reqStates = [r \in Requests |-> NoState]
    /\ batch = [rows |-> [i \in Rows |-> NoRow], index |-> <<>>,
                generators |-> [i \in Rows |-> NoGenerator]]
    /\ samplingRows = [i \in Rows |-> NoRow]
    /\ draws = [r \in Requests |-> 0]

----------------------------------------------------------------------------
(* The SchedulerOutput *)

Scheduled == {r \in Requests : numScheduledTokens[r] # 0}

\* Bookkeeping of schedule() next to the scheduler's own: r got the blocks ids.
Note(r, ids) ==
    /\ scheduledOrder' = Append(scheduledOrder, r)
    /\ newBlockIds' = [newBlockIds EXCEPT ![r] = ids]
    /\ UNCHANGED inStep

\* A running request is told the blocks it did not have.
NoteRunning ==
    LET r == running[reqIndex]
    IN  /\ Note(r, SubSeq(reqToBlocks'[r], Len(reqToBlocks[r]) + 1, Len(reqToBlocks'[r])))
        /\ UNCHANGED resumedReqs

\* A new or resumed request is told all its blocks.
NoteWaiting ==
    LET r == waiting[1]
    IN  /\ Note(r, reqToBlocks'[r])
        /\ resumedReqs' = IF status[r] = "PREEMPTED" THEN resumedReqs \cup {r} ELSE resumedReqs

ForgetOutput ==
    /\ scheduledOrder' = <<>> /\ resumedReqs' = {}
    /\ newBlockIds' = [r \in Requests |-> <<>>]

NewOrder == SelectSeq(scheduledOrder, LAMBDA r : r \in scheduledNewReqs)

\* scheduled_cached_reqs: the resumed requests, then the running ones.
CachedOrder ==
    SelectSeq(scheduledOrder, LAMBDA r : r \in resumedReqs) \o
    SelectSeq(scheduledOrder, LAMBDA r : r \notin scheduledNewReqs \cup resumedReqs)

----------------------------------------------------------------------------
(* InputBatch *)

NumReqs(b) == Cardinality(DOMAIN b.index)

\* remove_request, for the requests S of the batch.
RemoveRequests(b, S) ==
    LET gone == {b.index[r] : r \in S}
    IN  [rows |-> [i \in Rows |-> IF i \in gone THEN NoRow ELSE b.rows[i]],
         index |-> [r \in DOMAIN b.index \ S |-> b.index[r]],
         generators |-> [i \in Rows |-> IF i \in gone THEN NoGenerator ELSE b.generators[i]]]

\* add_request at row i, with the runner's state s of r.
AddToBatch(b, r, i, s) ==
    [rows |-> [b.rows EXCEPT ![i] = [id |-> r, tokens |-> s.tokens, computed |-> s.computed,
                                     blocks |-> s.blocks]],
     index |-> [q \in DOMAIN b.index \cup {r} |-> IF q = r THEN i ELSE b.index[q]],
     generators |-> IF r \in Seeded THEN [b.generators EXCEPT ![i] = r] ELSE b.generators]

\* The requests of seq join the batch one after the other: each takes the
\* smallest row freed before, or the row after the last when none is left.
RECURSIVE AddAll(_, _, _, _)
AddAll(b, seq, free, states) ==
    IF seq = <<>> THEN [batch |-> b, free |-> free]
    ELSE LET r == Head(seq)
             i == IF free # {} THEN Min(free) ELSE NumReqs(b) + 1
         IN  AddAll(AddToBatch(b, r, i, states[r]), Tail(seq), free \ {i}, states)

\* The loop of condense: the occupied row with the largest number moves to the
\* smallest empty one, as long as that closes a gap.
RECURSIVE MoveDown(_, _, _)
MoveDown(b, empty, last) ==
    IF empty = {} THEN b
    ELSE IF last \in empty THEN MoveDown(b, empty, last - 1)
    ELSE LET i == Min(empty)
             r == b.rows[last].id
             moved == [rows |-> [b.rows EXCEPT ![i] = b.rows[last], ![last] = NoRow],
                       index |-> [b.index EXCEPT ![r] = i],
                       generators |-> [b.generators EXCEPT ![i] = b.generators[last],
                                                           ![last] = NoGenerator]]
         IN  IF i >= last THEN b ELSE MoveDown(moved, empty \ {i}, last - 1)

\* condense: the rows without gaps.
Condense(b, empty) ==
    IF NumReqs(b) = 0 THEN b ELSE MoveDown(b, empty, NumReqs(b) + Cardinality(empty))

\* BlockTable.append_row: the ids go behind the first start ones.
AppendRow(row, start, ids) ==
    IF ids = <<>> THEN row
    ELSE [row EXCEPT !.blocks = SubSeq(@, 1, start) \o ids]

----------------------------------------------------------------------------
(* _update_states *)

\* Faulty: the blocks of a resumed request go behind its old ones.
BlockIdsOf_Extend(r) == reqStates[r].blocks \o newBlockIds[r]

\* The block ids of a cached request: a resumed one starts over.
BlockIdsOf(r) ==
    IF r \in resumedReqs THEN newBlockIds[r] ELSE reqStates[r].blocks \o newBlockIds[r]

\* The runner's own copies: of a new request its prompt, of a cached one what
\* the SchedulerOutput says anew, of a finished one nothing.
StatesAfterUpdate ==
    [r \in Requests |->
        IF r \in scheduledNewReqs
        THEN [tokens |-> SubSeq(AllTokenIds[r], 1, NumPromptTokens[r]),
              computed |-> numComputedTokens[r], blocks |-> newBlockIds[r]]
        ELSE IF r \in Scheduled
        THEN [reqStates[r] EXCEPT !.computed = numComputedTokens[r], !.blocks = BlockIdsOf(r)]
        ELSE IF r \in outFinished THEN NoState ELSE reqStates[r]]

\* Faulty: a request that is not scheduled keeps its row.
LeavingBatch_Finished == DOMAIN batch.index \cap outFinished

\* The requests that leave the batch: the finished ones, told by the scheduler
\* (one of them may have been submitted again and be scheduled as new), and
\* the ones that are not scheduled in this step.
LeavingBatch == {r \in DOMAIN batch.index : r \in outFinished \/ r \notin Scheduled}

\* The rows of the requests that stay, with what is new for them.
StayingRows(b, states) ==
    LET updated(row) == AppendRow([row EXCEPT !.computed = numComputedTokens[row.id]],
                                  Len(states[row.id].blocks) - Len(newBlockIds[row.id]),
                                  newBlockIds[row.id])
        staying == {b.index[r] : r \in Range(CachedOrder) \cap DOMAIN b.index}
    IN  [b EXCEPT !.rows = [i \in Rows |-> IF i \in staying THEN updated(b.rows[i])
                                        ELSE b.rows[i]]]

\* req_ids_to_add: the requests that are not, or no longer, in the batch.
Joining ==
    LET present == DOMAIN batch.index \ LeavingBatch
    IN  NewOrder \o SelectSeq(CachedOrder, LAMBDA r : r \notin present)

BatchAfterUpdate ==
    LET states == StatesAfterUpdate
        gaps == {batch.index[r] : r \in LeavingBatch}
        kept == StayingRows(RemoveRequests(batch, LeavingBatch), states)
        added == AddAll(kept, Joining, gaps, states)
    IN  Condense(added.batch, added.free)

\* What _update_states returns.  A request that leaves because it has finished
\* is not among unscheduled_req_ids.
BatchChanged == LeavingBatch \ outFinished # {} \/ Joining # <<>>

----------------------------------------------------------------------------
(* The rest of execute_model *)

\* The requests whose next token this step samples; the sample of the others,
\* which are still short of their tokens, is ignored.
CaughtUp(states) ==
    {r \in Scheduled : states[r].computed + numScheduledTokens[r] = Len(states[r].tokens)}

WithSample(r, tokens) == Append(tokens, AllTokenIds[r][Len(tokens) + 1])

\* Faulty: an ignored sample counts.
GeneratorSteps_NoRewind(b, r, states) ==
    Cardinality({i \in 1 .. NumReqs(b) : b.generators[i] = r})

\* The sampler draws from the generator of every row; the draw of a row whose
\* sample is ignored is taken back.
GeneratorSteps(b, r, states) ==
    Cardinality({i \in 1 .. NumReqs(b) : b.generators[i] = r})
    - Cardinality({i \in 1 .. NumReqs(b) : b.generators[i] = r
                                           /\ b.rows[i].id \notin CaughtUp(states)})

\* make_sampling_metadata: the parameters are copied to the GPU if the batch
\* has changed.
SamplingRowsAfter(b) ==
    [i \in Rows |-> IF BatchChanged /\ i <= NumReqs(b) THEN b.rows[i].id ELSE samplingRows[i]]

\* A new request comes with a new generator.
RunModel ==
    LET states == StatesAfterUpdate
        b == BatchAfterUpdate
    IN  /\ reqStates' = [r \in Requests |->
                IF r \in CaughtUp(states)
                THEN [states[r] EXCEPT !.tokens = WithSample(r, @)] ELSE states[r]]
        /\ batch' = [b EXCEPT !.rows = [i \in Rows |->
                IF i <= NumReqs(b) /\ b.rows[i].id \in CaughtUp(states)
                THEN [b.rows[i] EXCEPT !.tokens = WithSample(b.rows[i].id, @)]
                ELSE b.rows[i]]]
        /\ samplingRows' = SamplingRowsAfter(b)
        /\ draws' = [r \in Requests |->
                (IF r \in scheduledNewReqs THEN 0 ELSE draws[r]) + GeneratorSteps(b, r, states)]

\* The shared prefix, in blocks, that _prepare_inputs hands to cascade
\* attention: what all running requests share, cut at what is computed.
CommonPrefixBlocks ==
    AtMost(GetNumCommonPrefixBlocks(running[1], Len(running)) * BlockSize,
           Min({numComputedTokens[r] : r \in Scheduled})) \div BlockSize

----------------------------------------------------------------------------

\* In the loop of EngineCore.step, after an output without tokens, the engine
\* takes encoder results but does not listen to the client: no request comes
\* or goes.
WhatEngineHears == Environment /\ (inStep => UNCHANGED <<kvVars, requestVars>>)

RunnerNext ==
    \/ BeginSchedule /\ UNCHANGED <<deltaVars, runnerVars>>
    \/ ScheduleRunning /\ NoteRunning /\ UNCHANGED runnerVars
    \/ ScheduleWaiting /\ NoteWaiting /\ UNCHANGED runnerVars
    \/ ExecuteModel /\ RunModel /\ UNCHANGED deltaVars
    \/ DropOutput /\ ForgetOutput /\ inStep' = TRUE /\ UNCHANGED runnerVars
    \/ EndUpdate /\ ForgetOutput /\ inStep' = FALSE /\ UNCHANGED runnerVars
    \/ WhatEngineHears /\ UNCHANGED <<deltaVars, runnerVars>>
    \/ /\ \/ SkipRunning \/ Preempt \/ EndRunning
          \/ BlockedWaiting \/ EndWaiting \/ MakeOutput
          \/ UpdateUnscheduled \/ UpdateContinue \/ UpdateStop
       /\ UNCHANGED <<deltaVars, runnerVars>>

RunnerSpec == RunnerInit /\ [][RunnerNext]_allVars

----------------------------------------------------------------------------
(* Properties *)

\* The variables of the runner and of the two managers have their types: a row
\* never holds more tokens than the model length or more blocks than the block
\* table has columns, nor does a request have more blocks than that.
RunnerTypeOK ==
    /\ KVTypeOK /\ ECMTypeOK
    /\ \A r \in Requests : Len(reqToBlocks[r]) <= MaxNumBlocksPerReq
    /\ \A r \in Requests : reqStates[r] = NoState
            \/ reqStates[r] \in [tokens : Seq(Nat), computed : Nat, blocks : Seq(Blocks)]
    /\ \A i \in Rows : batch.rows[i] = NoRow
            \/ /\ batch.rows[i].id \in Requests
               /\ Len(batch.rows[i].tokens) <= MaxModelLen
               /\ Len(batch.rows[i].blocks) <= MaxNumBlocksPerReq
    /\ DOMAIN batch.index \subseteq Requests
    /\ \A r \in DOMAIN batch.index : batch.index[r] \in Rows
    /\ \A i \in Rows : samplingRows[i] \in Requests \cup {NoRow}
    /\ draws \in [Requests -> Nat]

\* The rows execute_model works on are the scheduled requests: each has one
\* row, the rows have no gap (all tensors are cut at num_reqs), and
\* req_id_to_index, by which update_from_output finds a sample, is the row.
BatchIsSchedule ==
    pc = "update" =>
        /\ DOMAIN batch.index = Scheduled
        /\ \A i \in Rows : batch.rows[i] # NoRow <=> i <= NumReqs(batch)
        /\ \A i \in 1 .. NumReqs(batch) : batch.index[batch.rows[i].id] = i

\* What a row says of its request is what the scheduler decided, however many
\* steps ago the row was filled or moved: the block table that slot_mapping is
\* computed from, the number of computed tokens, the tokens, the generator.
RowsHoldRequests ==
    pc = "update" /\ reqIndex = 1 =>
        \A i \in 1 .. NumReqs(batch) :
            LET row == batch.rows[i]
                r == row.id
                sampled == IF numComputedTokens[r] + numScheduledTokens[r] = numTokens[r]
                           THEN 1 ELSE 0
            IN  /\ row.blocks = reqToBlocks[r]
                /\ row.computed = numComputedTokens[r]
                /\ row.tokens = SubSeq(AllTokenIds[r], 1, numTokens[r] + sampled)
                /\ batch.generators[i] = IF r \in Seeded THEN r ELSE NoGenerator

\* The sampler works with the parameters of the request in each row: the GPU's
\* copy follows when a request leaves the batch and another takes its row.
SamplingParamsCurrent ==
    pc = "update" /\ reqIndex = 1 =>
        \A i \in 1 .. NumReqs(batch) : samplingRows[i] = batch.rows[i].id

\* Between steps the runner's copy of a request that has run has exactly the
\* request's tokens, and a seeded request has drawn one sample per generated
\* token, whether its prompt was computed at once or in chunks, with or without
\* preemptions: its output does not depend on what else is served.
SamplesAgree ==
    pc = "idle" =>
        \A r \in Requests : status[r] \in {"RUNNING", "PREEMPTED"} =>
            /\ reqStates[r].tokens = SubSeq(AllTokenIds[r], 1, numTokens[r])
            /\ r \in Seeded => draws[r] = numTokens[r] - NumPromptTokens[r]

\* The common prefix of a step is common: every scheduled request has the same
\* blocks there, and has computed them.
CommonPrefixSound ==
    pc = "output" /\ ~NothingScheduled =>
        \A q, r \in Scheduled :
            /\ CommonPrefixBlocks * BlockSize <= numComputedTokens[r]
            /\ SubSeq(reqToBlocks[q], 1, CommonPrefixBlocks)
                    = SubSeq(reqToBlocks[r], 1, CommonPrefixBlocks)
=============================================================================
