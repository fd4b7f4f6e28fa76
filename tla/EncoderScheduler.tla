-------------------------- MODULE EncoderScheduler --------------------------
(***************************************************************************)
(* The vision encoder's scheduler (vllm/v1/core/encoder_scheduler.py) and  *)
(* the step of EncoderCore (vllm/v1/engine/core.py) that drives it: one    *)
(* request at a time is taken from the head of the waiting queue, its      *)
(* inputs are encoded in one go and the result is put on the bounded queue *)
(* to the engine.                                                          *)
(*                                                                         *)
(* EncoderCore never calls update_from_output and the client never sends   *)
(* it an abort, so neither is an action: a request that has been encoded   *)
(* stays in encRunning for good.                                           *)
(***************************************************************************)
EXTENDS SchedulerConfig

CONSTANT
    ResultQueueSize  \* mp.Queue(maxsize=5) between encoder and engine

VARIABLES
    encWaiting, encRunning,              \* the scheduler's queues
    encFreeSlots, encCached, encFreed,   \* its EncoderCacheManager
    encResult,                           \* the result execute_vision_encoder
                                         \* returned, until the put succeeds
    resultQueue                          \* encoder_result_queue

encVars == <<encWaiting, encRunning, encFreeSlots, encCached, encFreed, encResult, resultQueue>>

ECM == INSTANCE EncoderCacheManager
       WITH numFreeSlots <- encFreeSlots, cached <- encCached, freed <- encFreed

ASSUME ResultQueueAssumption == ResultQueueSize \in Nat \ {0}

\* No result in hand.
NoResult == [inputs |-> {}]

EncInit ==
    /\ encWaiting = <<>> /\ encRunning = <<>>
    /\ ECM!ECMInit
    /\ encResult = NoResult
    /\ resultQueue = <<>>

\* EncoderScheduler.add_request
EncAddRequest(r) ==
    /\ encResult = NoResult
    /\ encWaiting' = Append(encWaiting, r)
    /\ UNCHANGED <<encRunning, encFreeSlots, encCached, encFreed, encResult, resultQueue>>

\* EncoderScheduler._try_schedule_encoder_inputs: the leading inputs that fit
\* the budget together.
EncInputsToSchedule(r) ==
    {i \in Inputs(r) : ECM!SlotsOf(r, 1 .. i) <= MaxNumEncoderInputTokens}

CanEncode ==
    /\ encWaiting # <<>>
    /\ MaxNumEncoderInputTokens > 0
    /\ Len(encRunning) # MaxNumRunningReqs
    /\ EncInputsToSchedule(encWaiting[1]) # {}

\* GPUModelRunner._execute_encoder builds the result in a local dictionary,
\* whose entry for a request is created anew for every input because the test
\* looks at self.encoder_cache, always empty here: the last input survives.
ExecuteEncoder(r, S) == [req |-> r, inputs |-> {i \in S : \A j \in S : j <= i}]

\* EncoderCore.step up to the put.  When nothing can be scheduled it returns
\* without a change.
EncStep ==
    /\ encResult = NoResult
    /\ CanEncode
    /\ LET r == encWaiting[1]
           S == EncInputsToSchedule(r)
       IN  /\ ECM!Allocate(r, S)
           /\ encRunning' = Append(encRunning, r)
           /\ encResult' = ExecuteEncoder(r, S)
    /\ encWaiting' = Tail(encWaiting)
    /\ UNCHANGED resultQueue

\* Faulty: the put does not wait.
EncPut_NoWait ==
    /\ encResult # NoResult
    /\ resultQueue' = Append(resultQueue, encResult)
    /\ encResult' = NoResult
    /\ UNCHANGED <<encWaiting, encRunning, encFreeSlots, encCached, encFreed>>

\* encoder_result_queue.put blocks while the queue is full.
EncPut ==
    /\ encResult # NoResult
    /\ Len(resultQueue) < ResultQueueSize
    /\ resultQueue' = Append(resultQueue, encResult)
    /\ encResult' = NoResult
    /\ UNCHANGED <<encWaiting, encRunning, encFreeSlots, encCached, encFreed>>

=============================================================================
