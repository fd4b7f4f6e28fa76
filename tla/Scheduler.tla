----------------------------- MODULE Scheduler -----------------------------
(***************************************************************************)
(* The decoder's Scheduler (vllm/v1/core/scheduler.py) together with the   *)
(* KVCacheManager and the EncoderCacheManager it owns.                     *)
(*                                                                         *)
(* schedule() and update_from_output() are modelled one loop iteration per *)
(* step; pc says where the single engine thread is:                        *)
(*   "idle"     between calls: requests may be added, aborted, encoder     *)
(*              results stored                                             *)
(*   "running"  in the loop over the running requests                      *)
(*   "waiting"  in the loop over the waiting requests                      *)
(*   "build"    past both loops                                            *)
(*   "output"   schedule() has returned a SchedulerOutput                  *)
(*   "update"   in the loop of update_from_output                          *)
(*   "dead"     an exception has ended the engine process                  *)
(*                                                                         *)
(* Who calls the scheduler, and when, is left open here: SpaceServe.tla    *)
(* gives the engine's loop and the encoder process.                        *)
(***************************************************************************)
EXTENDS EncoderCacheManager, KVCacheManager

CONSTANT
    ReuseRequestIds  \* may a client submit a finished id again?

VARIABLES
    status,             \* [Requests -> Status]
    numComputedTokens,  \* [Requests -> Nat]
    numTokens,          \* [Requests -> Nat], the length of all_token_ids
    waiting,            \* the deque of waiting requests
    running,            \* the list of running requests
    finishedReqIds,     \* finished since the last schedule()
    encoderCache,       \* [Requests -> set of inputs], the shared dictionary
    pc,
    \* locals of schedule() and update_from_output()
    reqIndex, tokenBudget, encoderBudget, preemptedReqs, newRunning,
    \* the SchedulerOutput
    numScheduledTokens, scheduledNewReqs, outFinished, outFreed

requestVars == <<status, numComputedTokens, numTokens>>

queueVars == <<waiting, running, finishedReqIds>>

outputVars == <<numScheduledTokens, scheduledNewReqs, outFinished, outFreed>>

localVars == <<reqIndex, tokenBudget, encoderBudget, preemptedReqs, newRunning>>

schedVars == <<requestVars, queueVars, encoderCache, pc, localVars, outputVars>>

vars == <<ecmVars, kvVars, schedVars>>

ASSUME ReuseAssumption == ReuseRequestIds \in BOOLEAN

Init ==
    /\ ECMInit
    /\ KVInit
    /\ status = [r \in Requests |-> "NEW"]
    /\ numComputedTokens = [r \in Requests |-> 0]
    /\ numTokens = [r \in Requests |-> NumPromptTokens[r]]
    /\ waiting = <<>> /\ running = <<>> /\ finishedReqIds = {}
    /\ encoderCache = [r \in Requests |-> {}]
    /\ pc = "idle"
    /\ reqIndex = 1 /\ tokenBudget = 0 /\ encoderBudget = 0
    /\ preemptedReqs = {} /\ newRunning = <<>>
    /\ numScheduledTokens = [r \in Requests |-> 0]
    /\ scheduledNewReqs = {} /\ outFinished = {} /\ outFreed = {}

----------------------------------------------------------------------------
(* Between calls *)

\* add_request, with a new Request object.
AddRequest(r) ==
    /\ pc = "idle"
    /\ status[r] \in {"NEW", "FINISHED"}
    /\ status' = [status EXCEPT ![r] = "WAITING"]
    /\ numComputedTokens' = [numComputedTokens EXCEPT ![r] = 0]
    /\ numTokens' = [numTokens EXCEPT ![r] = NumPromptTokens[r]]
    /\ numBlockHashes' = [numBlockHashes EXCEPT ![r] = 0]
    /\ waiting' = Append(waiting, r)
    /\ UNCHANGED <<running, finishedReqIds, encoderCache, pc, ecmVars, refCnt,
                   blockHash, freeBlockQueue, cacheOrder, reqToBlocks,
                   localVars, outputVars>>

\* finish_requests for a known id (an unknown one is ignored).  When the
\* encoder cache manager holds inputs of the request, its free() raises: the
\* request is still in self.requests and the process ends.
FinishRequest(r) ==
    /\ pc = "idle"
    /\ status[r] \in {"WAITING", "RUNNING", "PREEMPTED"}
    /\ running' = IF status[r] = "RUNNING" THEN Removed(running, r) ELSE running
    /\ waiting' = IF status[r] = "RUNNING" THEN waiting ELSE Removed(waiting, r)
    /\ status' = [status EXCEPT ![r] = "FINISHED"]
    /\ Free(r)
    /\ \/ /\ FreeRaises(r)
          /\ FreeFirstThenRaise(r)
          /\ pc' = "dead"
          /\ UNCHANGED finishedReqIds
       \/ /\ ~FreeRaises(r)
          /\ finishedReqIds' = finishedReqIds \cup {r}
          /\ UNCHANGED <<pc, ecmVars>>
    /\ UNCHANGED <<numComputedTokens, numTokens, encoderCache, localVars, outputVars>>

\* EngineCore._handle_encoder_result for the inputs S of one request.
HandleEncoderResult(r, S) ==
    /\ pc \in {"idle", "output"}
    /\ encoderCache' = [encoderCache EXCEPT ![r] = @ \cup S]
    /\ UNCHANGED <<ecmVars, kvVars, requestVars, queueVars, pc, localVars, outputVars>>

\* reset_prefix_cache, which changes nothing unless every block is free.
ResetCache ==
    /\ pc = "idle"
    /\ ResetPrefixCache
    /\ UNCHANGED <<ecmVars, schedVars>>

----------------------------------------------------------------------------
(* schedule() *)

BeginSchedule ==
    /\ pc = "idle"
    /\ waiting # <<>> \/ running # <<>>
    /\ pc' = "running"
    /\ reqIndex' = 1
    /\ tokenBudget' = MaxNumScheduledTokens
    /\ encoderBudget' = MaxNumEncoderInputTokens
    /\ preemptedReqs' = {}
    /\ numScheduledTokens' = [r \in Requests |-> 0]
    /\ scheduledNewReqs' = {}
    /\ UNCHANGED <<ecmVars, kvVars, requestVars, queueVars, encoderCache, newRunning,
                   outFinished, outFreed>>

\* Faulty: the encoder output is taken for granted.
EncoderInputBlocked_NotAwaited(r, i, budget) ==
    ~CanAllocate(r, i) \/ NumEncoderTokens(r, i) > budget

\* An input that cannot be scheduled: no slots, no compute budget, or no
\* output from the encoder process yet.
EncoderInputBlocked(r, i, budget) ==
    ~CanAllocate(r, i) \/ NumEncoderTokens(r, i) > budget \/ i \notin encoderCache[r]

\* _try_schedule_encoder_inputs.  The loop goes over the inputs in order and
\* stops at the first one that cannot be scheduled; the budget shrinks with
\* every input taken, the manager's free slots do not until the inputs are
\* allocated afterwards.
TryScheduleEncoderInputs(r, c, n, budget) ==
    LET needed == {i \in Inputs(r) : Overlaps(r, i, c, n) /\ ~HasCache(r, i)}
        before(i) == {j \in needed : j < i}
        blocked == {i \in needed : EncoderInputBlocked(r, i, budget - SlotsOf(r, before(i)))}
        first == Min(blocked)
        taken == IF blocked = {} THEN needed ELSE before(first)
    IN  [inputs |-> taken,
         tokens |-> IF blocked = {} THEN n
                    ELSE IF c < Start(r, first) THEN Start(r, first) - c ELSE 0,
         budget |-> budget - SlotsOf(r, taken)]

InRunningLoop == pc = "running" /\ reqIndex <= Len(running) /\ tokenBudget > 0

\* Faulty: the computed tokens are not subtracted.
RunningPlan_AllTokens(r) ==
    TryScheduleEncoderInputs(r, numComputedTokens[r], AtMost(numTokens[r], tokenBudget),
                             encoderBudget)

\* The tokens the running request r gets if blocks for them are available.
RunningPlan(r) ==
    TryScheduleEncoderInputs(r, numComputedTokens[r],
        AtMost(numTokens[r] - numComputedTokens[r], tokenBudget), encoderBudget)

\* No token can be scheduled: go on with the next request.
SkipRunning ==
    /\ InRunningLoop
    /\ RunningPlan(running[reqIndex]).tokens = 0
    /\ reqIndex' = reqIndex + 1
    /\ UNCHANGED <<ecmVars, kvVars, requestVars, queueVars, encoderCache, pc, tokenBudget,
                   encoderBudget, preemptedReqs, newRunning, outputVars>>

ScheduleRunning ==
    /\ InRunningLoop
    /\ LET r == running[reqIndex]
           plan == RunningPlan(r)
       IN  /\ plan.tokens # 0
           /\ AllocateSlots(r, numComputedTokens[r], plan.tokens, <<>>, numBlockHashes[r])
           /\ Allocate(r, plan.inputs)
           /\ numScheduledTokens' = [numScheduledTokens EXCEPT ![r] = plan.tokens]
           /\ tokenBudget' = tokenBudget - plan.tokens
           /\ encoderBudget' = plan.budget
    /\ reqIndex' = reqIndex + 1
    /\ UNCHANGED <<requestVars, queueVars, encoderCache, pc, preemptedReqs, newRunning,
                   scheduledNewReqs, outFinished, outFreed>>

\* Faulty: a preempted request queues up again.
PutBack_Last(r) == Append(waiting, r)

\* A preempted request goes to the head of the waiting queue.
PutBack(r) == <<r>> \o waiting

\* allocate_slots failed for the request at reqIndex: the last running
\* request is preempted, until the allocation succeeds or the request itself
\* is the victim, which ends the scheduling.
Preempt ==
    /\ InRunningLoop
    /\ LET r == running[reqIndex]
           plan == RunningPlan(r)
           victim == running[Len(running)]
       IN  /\ plan.tokens # 0
           /\ ~CanAllocateSlots(r, numComputedTokens[r], plan.tokens, <<>>)
           /\ Free(victim)
           /\ status' = [status EXCEPT ![victim] = "PREEMPTED"]
           /\ numComputedTokens' = [numComputedTokens EXCEPT ![victim] = 0]
           /\ waiting' = PutBack(victim)
           /\ preemptedReqs' = preemptedReqs \cup {victim}
           /\ pc' = IF victim = r THEN "build" ELSE pc
    /\ running' = SubSeq(running, 1, Len(running) - 1)
    /\ UNCHANGED <<ecmVars, numTokens, finishedReqIds, encoderCache, reqIndex, tokenBudget,
                   encoderBudget, newRunning, outputVars>>

\* Faulty: waiting requests are scheduled even after a preemption.
EndRunning_AlwaysWaiting ==
    /\ pc = "running"
    /\ ~InRunningLoop
    /\ pc' = "waiting"
    /\ UNCHANGED <<ecmVars, kvVars, requestVars, queueVars, encoderCache, localVars, outputVars>>

EndRunning ==
    /\ pc = "running"
    /\ ~InRunningLoop
    /\ pc' = IF preemptedReqs = {} THEN "waiting" ELSE "build"
    /\ UNCHANGED <<ecmVars, kvVars, requestVars, queueVars, encoderCache, localVars, outputVars>>

InWaitingLoop ==
    pc = "waiting" /\ waiting # <<>> /\ tokenBudget > 0 /\ Len(running) # MaxNumRunningReqs

\* Faulty: nothing is left to compute when the hits cover all the tokens.
PrefixHits_All(r) == GetComputedBlocks(r, numTokens[r])

\* The prefix-cache hits of r.  When they cover all its tokens the last
\* block is computed again, in a block of its own.
PrefixHits(r) ==
    LET hit == GetComputedBlocks(r, numTokens[r])
    IN  IF Len(hit) * BlockSize = numTokens[r] THEN SubSeq(hit, 1, Len(hit) - 1) ELSE hit

\* Faulty: not limited by the token budget.
WaitingPlan_Unlimited(r) ==
    LET c == Len(PrefixHits(r)) * BlockSize
    IN  TryScheduleEncoderInputs(r, c, numTokens[r] - c, encoderBudget)

WaitingPlan(r) ==
    LET c == Len(PrefixHits(r)) * BlockSize
    IN  TryScheduleEncoderInputs(r, c, AtMost(numTokens[r] - c, tokenBudget), encoderBudget)

ScheduleWaiting ==
    /\ InWaitingLoop
    /\ LET r == waiting[1]
           hit == PrefixHits(r)
           c == Len(hit) * BlockSize
           plan == WaitingPlan(r)
       IN  /\ plan.tokens # 0
           /\ AllocateSlots(r, c, plan.tokens, hit, NumHashesOnLookup(r, numTokens[r]))
           /\ Allocate(r, plan.inputs)
           /\ running' = Append(running, r)
           /\ status' = [status EXCEPT ![r] = "RUNNING"]
           /\ numComputedTokens' = [numComputedTokens EXCEPT ![r] = c]
           /\ scheduledNewReqs' = IF status[r] = "WAITING" THEN scheduledNewReqs \cup {r}
                                  ELSE scheduledNewReqs
           /\ numScheduledTokens' = [numScheduledTokens EXCEPT ![r] = plan.tokens]
           /\ tokenBudget' = tokenBudget - plan.tokens
           /\ encoderBudget' = plan.budget
    /\ waiting' = Tail(waiting)
    /\ UNCHANGED <<numTokens, finishedReqIds, encoderCache, pc, reqIndex, preemptedReqs,
                   newRunning, outFinished, outFreed>>

\* The first waiting request cannot be scheduled: nobody behind it is tried.
\* Its block hashes have been computed on the way.
BlockedWaiting ==
    /\ InWaitingLoop
    /\ LET r == waiting[1]
           hit == PrefixHits(r)
           plan == WaitingPlan(r)
       IN  /\ \/ plan.tokens = 0
              \/ ~CanAllocateSlots(r, Len(hit) * BlockSize, plan.tokens, hit)
           /\ SetBlockHashes(r, numTokens[r])
    /\ pc' = "build"
    /\ UNCHANGED <<ecmVars, requestVars, queueVars, encoderCache, localVars, outputVars>>

EndWaiting ==
    /\ pc = "waiting"
    /\ ~InWaitingLoop
    /\ pc' = "build"
    /\ UNCHANGED <<ecmVars, kvVars, requestVars, queueVars, encoderCache, localVars, outputVars>>

\* The SchedulerOutput takes the finished ids and the freed inputs with it.
MakeOutput ==
    /\ pc = "build"
    /\ outFinished' = finishedReqIds
    /\ outFreed' = freed
    /\ finishedReqIds' = {}
    /\ GetFreedIds
    /\ pc' = "output"
    /\ UNCHANGED <<kvVars, requestVars, waiting, running, encoderCache, localVars,
                   numScheduledTokens, scheduledNewReqs>>

\* A call has returned and its result is used up: its locals are gone.
ForgetCall ==
    /\ reqIndex' = 1 /\ tokenBudget' = 0 /\ encoderBudget' = 0
    /\ preemptedReqs' = {} /\ newRunning' = <<>>
    /\ numScheduledTokens' = [r \in Requests |-> 0]
    /\ scheduledNewReqs' = {} /\ outFinished' = {} /\ outFreed' = {}

NothingScheduled == \A r \in Requests : numScheduledTokens[r] = 0

\* The caller drops an output without tokens (the loop of EngineCore.step).
DropOutput ==
    /\ pc = "output"
    /\ NothingScheduled
    /\ pc' = "idle"
    /\ ForgetCall
    /\ UNCHANGED <<ecmVars, kvVars, requestVars, queueVars, encoderCache>>

----------------------------------------------------------------------------
(* Execution and update_from_output() *)

\* Faulty: the outputs of unscheduled requests go too.
EncoderCacheAfterUpdateStates_Scheduled ==
    [r \in Requests |-> IF r \in outFinished \/ numScheduledTokens[r] = 0 THEN {}
                        ELSE encoderCache[r] \ {i \in Inputs(r) : <<r, i>> \in outFreed}]

\* What GPUModelRunner._update_states leaves of the encoder cache.
EncoderCacheAfterUpdateStates ==
    [r \in Requests |-> IF r \in outFinished THEN {}
                        ELSE encoderCache[r] \ {i \in Inputs(r) : <<r, i>> \in outFreed}]

\* The inputs _gather_encoder_outputs looks up for r.
InputsToGather(r) ==
    {i \in Inputs(r) : /\ numScheduledTokens[r] # 0
                       /\ Overlaps(r, i, numComputedTokens[r], numScheduledTokens[r])}

\* execute_model; a missing encoder output fails the assertion of
\* _gather_encoder_outputs.
ExecuteModel ==
    /\ pc = "output"
    /\ ~NothingScheduled
    /\ encoderCache' = EncoderCacheAfterUpdateStates
    /\ pc' = IF \A r \in Requests : InputsToGather(r) \subseteq EncoderCacheAfterUpdateStates[r]
             THEN "update" ELSE "dead"
    /\ reqIndex' = 1
    /\ newRunning' = <<>>
    /\ UNCHANGED <<ecmVars, kvVars, requestVars, queueVars, tokenBudget, encoderBudget,
                   preemptedReqs, outputVars>>

InUpdateLoop == pc = "update" /\ reqIndex <= Len(running)

UpdateUnscheduled ==
    /\ InUpdateLoop
    /\ numScheduledTokens[running[reqIndex]] = 0
    /\ newRunning' = Append(newRunning, running[reqIndex])
    /\ reqIndex' = reqIndex + 1
    /\ UNCHANGED <<ecmVars, kvVars, requestVars, queueVars, encoderCache, pc, tokenBudget,
                   encoderBudget, preemptedReqs, outputVars>>

\* Faulty: an input that ends exactly there is not covered.
Consumed_Strict(r, c) == {i \in cached[r] : End(r, i) < c}

\* The inputs of r that its first c tokens cover.
Consumed(r, c) == {i \in cached[r] : End(r, i) <= c}

\* _check_stop after the token that makes n; eos and stop tokens are up to
\* the model.
LengthCapped(r, n) == n >= MaxModelLen \/ n - NumPromptTokens[r] >= MaxTokens[r]

\* A scheduled request that goes on, with one token more if it caught up.
UpdateContinue ==
    /\ InUpdateLoop
    /\ LET r == running[reqIndex]
           c == numComputedTokens[r] + numScheduledTokens[r]
       IN  /\ numScheduledTokens[r] # 0
           /\ numComputedTokens' = [numComputedTokens EXCEPT ![r] = c]
           /\ FreeEncoderInputs(r, Consumed(r, c))
           /\ \/ /\ c # numTokens[r]
                 /\ UNCHANGED numTokens
              \/ /\ c = numTokens[r]
                 /\ ~LengthCapped(r, c + 1)
                 /\ numTokens' = [numTokens EXCEPT ![r] = c + 1]
           /\ newRunning' = Append(newRunning, r)
    /\ reqIndex' = reqIndex + 1
    /\ UNCHANGED <<kvVars, status, queueVars, encoderCache, pc, tokenBudget, encoderBudget,
                   preemptedReqs, outputVars>>

\* A scheduled request that caught up and stops, at its length cap or at an
\* eos or stop token.  _free_request raises if inputs are still cached.
UpdateStop ==
    /\ InUpdateLoop
    /\ LET r == running[reqIndex]
           c == numComputedTokens[r] + numScheduledTokens[r]
       IN  /\ numScheduledTokens[r] # 0
           /\ c = numTokens[r]
           /\ numComputedTokens' = [numComputedTokens EXCEPT ![r] = c]
           /\ numTokens' = [numTokens EXCEPT ![r] = c + 1]
           /\ status' = [status EXCEPT ![r] = "FINISHED"]
           /\ FreeEncoderInputs(r, Consumed(r, c))
           /\ Free(r)
           /\ IF Consumed(r, c) = cached[r]
              THEN finishedReqIds' = finishedReqIds \cup {r} /\ UNCHANGED pc
              ELSE pc' = "dead" /\ UNCHANGED finishedReqIds
    /\ reqIndex' = reqIndex + 1
    /\ UNCHANGED <<waiting, running, encoderCache, tokenBudget, encoderBudget, preemptedReqs,
                   newRunning, outputVars>>

\* Faulty: the stopped requests stay on the running list.
EndUpdate_SameRunning ==
    /\ pc = "update"
    /\ ~InUpdateLoop
    /\ pc' = "idle"
    /\ ForgetCall
    /\ UNCHANGED <<ecmVars, kvVars, requestVars, queueVars, encoderCache>>

EndUpdate ==
    /\ pc = "update"
    /\ ~InUpdateLoop
    /\ running' = newRunning
    /\ pc' = "idle"
    /\ ForgetCall
    /\ UNCHANGED <<ecmVars, kvVars, requestVars, waiting, finishedReqIds, encoderCache>>

----------------------------------------------------------------------------

\* The client and the encoder process, as the scheduler sees them.
Environment ==
    \/ \E r \in Requests :
        \/ (status[r] = "NEW" \/ ReuseRequestIds) /\ AddRequest(r)
        \/ FinishRequest(r)
        \/ \E S \in SUBSET Inputs(r) : HandleEncoderResult(r, S)
    \/ ResetCache

Schedule ==
    \/ BeginSchedule
    \/ SkipRunning \/ ScheduleRunning \/ Preempt \/ EndRunning
    \/ ScheduleWaiting \/ BlockedWaiting \/ EndWaiting
    \/ MakeOutput \/ DropOutput

Update ==
    \/ ExecuteModel
    \/ UpdateUnscheduled \/ UpdateContinue \/ UpdateStop \/ EndUpdate

Next == Environment \/ Schedule \/ Update

Spec == Init /\ [][Next]_vars

\* Between calls the engine thread has a step to take if a request is there,
\* and in a call always.
EngineHasWork ==
    /\ pc # "dead"
    /\ pc = "idle" => waiting # <<>> \/ running # <<>>

\* The engine thread is a busy loop, it keeps taking its own steps: their weak
\* fairness, with what enables them written out.
FairSpec == Spec /\ ([]<>~EngineHasWork \/ []<><<Schedule \/ Update>>_vars)

----------------------------------------------------------------------------
(* Properties *)

\* Every variable of the scheduler has its type; that of the token budget says
\* that a call of schedule() never spends more than it has.
TypeOK ==
    /\ status \in [Requests -> Status]
    /\ numComputedTokens \in [Requests -> Nat]
    /\ numTokens \in [Requests -> Nat \ {0}]
    /\ waiting \in Seq(Requests)
    /\ running \in Seq(Requests)
    /\ newRunning \in Seq(Requests)
    /\ finishedReqIds \subseteq Requests
    /\ outFinished \subseteq Requests
    /\ preemptedReqs \subseteq Requests
    /\ scheduledNewReqs \subseteq Requests
    /\ encoderCache \in [Requests -> SUBSET (Nat \ {0})]
    /\ outFreed \subseteq Requests \X (Nat \ {0})
    /\ pc \in {"idle", "running", "waiting", "build", "output", "update", "dead"}
    /\ reqIndex \in Nat \ {0}
    /\ tokenBudget \in Nat
    /\ encoderBudget \in Int
    /\ numScheduledTokens \in [Requests -> Nat]

\* The requests that hold a place in the running list: in update_from_output,
\* the ones kept so far and the ones not looked at yet.
Active == IF pc = "update" THEN newRunning \o SubSeq(running, reqIndex, Len(running))
          ELSE running

\* The assertions of schedule() and update_from_output(): a running request
\* always has a token to compute, and is never given more than it has.
RunningHasWork ==
    pc # "dead" =>
        \A n \in DOMAIN Active :
            LET r == Active[n]
                done == pc = "update" /\ n <= Len(newRunning)
            IN  /\ numComputedTokens[r] < numTokens[r]
                /\ ~done => numComputedTokens[r] + numScheduledTokens[r] <= numTokens[r]

\* A request is in exactly the queue its status names, once: no interleaving
\* of scheduling, preemption, stopping and aborting loses or duplicates one.
QueuesMatchStatus ==
    pc # "dead" =>
        /\ IsInjective(waiting) /\ IsInjective(Active)
        /\ Range(Active) = {r \in Requests : status[r] = "RUNNING"}
        /\ Range(waiting) = {r \in Requests : status[r] \in {"WAITING", "PREEMPTED"}}

\* A request preempted by a call of schedule() is not scheduled by that call:
\* the model runner never gets tokens of a request without blocks.
PreemptedNotScheduled ==
    \A r \in preemptedReqs : status[r] = "PREEMPTED" /\ numScheduledTokens[r] = 0

\* ref_cnt counts the block tables a block is in, and the free queue holds
\* exactly the blocks with ref_cnt 0: nothing is leaked or freed twice.  Only
\* the requests on the running list have any.
BlockAccounting ==
    /\ \A r \in Requests : IsInjective(reqToBlocks[r])
    /\ \A b \in Blocks :
            refCnt[b] = Cardinality({r \in Requests : b \in Range(reqToBlocks[r])})
    /\ IsInjective(freeBlockQueue)
    /\ Range(freeBlockQueue) = {b \in Blocks : refCnt[b] = 0}
    /\ pc # "dead" => \A r \in Requests : reqToBlocks[r] # <<>> => r \in Range(Active)

\* A block that carries a hash in the table of a request holds that very
\* prefix of the request, whoever computed it.  Between steps the hashed blocks
\* of a request are exactly its computed full blocks: schedule() enters a block
\* in the prefix cache before it is computed, and no preemption or abort leaves
\* an uncomputed one there.
PrefixCacheSound ==
    \A r \in Requests : \A k \in DOMAIN reqToBlocks[r] :
        LET hash == blockHash[reqToBlocks[r][k]]
        IN  /\ hash \in {NoHash, HashOf(r, k)}
            /\ EnableCaching /\ pc = "idle" =>
                    (hash # NoHash <=> k * BlockSize <= numComputedTokens[r])

\* The blocks that the execution of this step writes for r.
Written(r) ==
    {reqToBlocks[r][k] : k \in {j \in DOMAIN reqToBlocks[r] :
        /\ numScheduledTokens[r] # 0
        /\ j * BlockSize > numComputedTokens[r]
        /\ (j - 1) * BlockSize < numComputedTokens[r] + numScheduledTokens[r]}}

\* When a step is executed every scheduled token has a slot, and no block is
\* written for two requests.
ExclusiveWrites ==
    pc = "output" =>
        /\ \A r \in Requests : numScheduledTokens[r] # 0 =>
                numComputedTokens[r] + numScheduledTokens[r] <= Len(reqToBlocks[r]) * BlockSize
        /\ \A q, r \in Requests : q # r => Written(q) \cap Written(r) = {}

\* The placeholder tokens of the cached inputs, each of which takes a slot.
OccupiedSlots ==
    {s \in Requests \X (0 .. MaxModelLen - 1) :
        \E i \in cached[s[1]] : Start(s[1], i) <= s[2] /\ s[2] < End(s[1], i)}

\* The free slots and the slots of the cached inputs add up to the cache.
SlotAccounting ==
    numFreeSlots + Cardinality(OccupiedSlots) = EncoderCacheSize

\* finish_requests handles an abort at any time, and EncoderCacheManager.free
\* frees "all cached input ids for the request": no abort ends the engine.
AbortSurvived == pc # "dead"

\* The assertion of _gather_encoder_outputs: the encoder outputs of all the
\* tokens a step computes are in the cache when the model runner wants them.
EncoderOutputsPresent ==
    pc = "output" =>
        \A r \in Requests : InputsToGather(r) \subseteq EncoderCacheAfterUpdateStates[r]

\* _free_request at a stop never meets cached inputs: a request that caught
\* up has consumed all of them.
StopFindsNothingCached ==
    InUpdateLoop =>
        LET r == running[reqIndex]
            c == numComputedTokens[r] + numScheduledTokens[r]
        IN  numScheduledTokens[r] # 0 /\ c = numTokens[r] => Consumed(r, c) = cached[r]

\* The place of r in the order in which requests are served.
ServiceOrder == Active \o waiting

Before(s, q, r) == \E m, n \in DOMAIN s : m < n /\ s[m] = q /\ s[n] = r

\* First come, first served: neither preemption nor resumption changes the
\* order in which two requests are served.
OrderPreserved ==
    [][\A q, r \in Requests :
            Before(ServiceOrder, q, r) => ~Before(ServiceOrder', r, q)]_vars

\* Every request without images stops: neither preemption nor a request that
\* waits for its image in the running list starves it.  (For requests with
\* images, and the encoder that they wait for, see SpaceServe.)
EveryRequestFinishes ==
    \A r \in {q \in Requests : Inputs(q) = {}} :
        status[r] = "WAITING" ~> status[r] = "FINISHED"
============================================================================
