----------------------------- MODULE SpaceServe -----------------------------
(***************************************************************************)
(* SpaceServe as a whole, in its single-GPU deployment:                    *)
(*                                                                         *)
(*   AsyncMPClient --(ZMQ)--> EncoderCoreProc --(mp.Queue)--+              *)
(*        |                                                 v              *)
(*        +-------(ZMQ)-----------------------------> EngineCoreProc       *)
(*                                                                         *)
(* The client sends every request to the encoder and then to the engine,   *)
(* aborts to the engine only.  The engine's loop alternates between its    *)
(* two queues and EngineCore.step, which calls the scheduler until it      *)
(* returns an output with tokens and then executes it.                     *)
(*                                                                         *)
(* loop is the position of the engine thread outside the scheduler:        *)
(*   "top"      1) of run_busy_loop, waiting for work                      *)
(*   "input"    2) draining input_queue                                    *)
(*   "results"  draining encoder_result_queue                              *)
(*   "step"     in step(), in its first call of schedule() or executing    *)
(*   "spin"     in step(), in the while loop, in schedule()                *)
(*   "polled"   in the while loop, past the look at encoder_result_queue   *)
(***************************************************************************)
EXTENDS Scheduler, EncoderScheduler

VARIABLES
    sent,            \* [Requests -> "no", "encoder", "both", "aborted"]:
                     \* how far the client has got with a request
    engineInput,     \* messages on the way to the engine
    encoderInput,    \* messages on the way to the encoder
    loop

clientVars == <<sent, engineInput, encoderInput>>

systemVars == <<vars, encVars, clientVars, loop>>

SystemInit ==
    /\ Init
    /\ EncInit
    /\ sent = [r \in Requests |-> "no"]
    /\ engineInput = <<>> /\ encoderInput = <<>>
    /\ loop = "top"

\* The death of the engine takes all the processes with it.
Alive == pc # "dead"

----------------------------------------------------------------------------
(* The client: AsyncMPClient.add_request_async and abort_requests_async *)

\* Without reuse an id is sent once.
MaySend(r) == sent[r] = "no" \/ (ReuseRequestIds /\ sent[r] = "aborted")

SendToEncoder(r) ==
    /\ Alive /\ MaySend(r)
    /\ sent' = [sent EXCEPT ![r] = "encoder"]
    /\ encoderInput' = Append(encoderInput, r)
    /\ UNCHANGED <<vars, encVars, engineInput, loop>>

SendToEngine(r) ==
    /\ Alive /\ sent[r] = "encoder"
    /\ sent' = [sent EXCEPT ![r] = "both"]
    /\ engineInput' = Append(engineInput, [type |-> "add", req |-> r])
    /\ UNCHANGED <<vars, encVars, encoderInput, loop>>

\* A client that goes away, even between the two sends.
SendAbort(r) ==
    /\ Alive /\ sent[r] \in {"encoder", "both"}
    /\ sent' = [sent EXCEPT ![r] = "aborted"]
    /\ engineInput' = Append(engineInput, [type |-> "abort", req |-> r])
    /\ UNCHANGED <<vars, encVars, encoderInput, loop>>

----------------------------------------------------------------------------
(* The encoder process *)

EncoderReceive ==
    /\ Alive /\ encoderInput # <<>>
    /\ EncAddRequest(encoderInput[1])
    /\ encoderInput' = Tail(encoderInput)
    /\ UNCHANGED <<vars, sent, engineInput, loop>>

EncoderStep ==
    /\ Alive
    /\ EncStep
    /\ UNCHANGED <<vars, clientVars, loop>>

EncoderPut ==
    /\ Alive
    /\ EncPut
    /\ UNCHANGED <<vars, clientVars, loop>>

EncoderProcess == EncoderReceive \/ EncoderStep \/ EncoderPut

----------------------------------------------------------------------------
(* The engine process *)

HasUnfinished == waiting # <<>> \/ running # <<>>

\* EngineCoreProc._handle_client_request
HandleClientRequest ==
    /\ engineInput # <<>>
    /\ LET m == engineInput[1]
       IN  \/ m.type = "add" /\ AddRequest(m.req)
           \/ m.type = "abort" /\ FinishRequest(m.req)
           \/ /\ m.type = "abort"
              /\ status[m.req] \in {"NEW", "FINISHED"}
              /\ UNCHANGED vars
    /\ engineInput' = Tail(engineInput)
    /\ UNCHANGED <<encVars, sent, encoderInput>>

\* Without work the engine waits for a message, and for nothing else.
EngineTop ==
    /\ loop = "top" /\ pc = "idle"
    /\ loop' = "input"
    /\ \/ ~HasUnfinished /\ HandleClientRequest
       \/ HasUnfinished /\ UNCHANGED <<vars, encVars, clientVars>>

EngineInput ==
    /\ loop = "input" /\ pc = "idle"
    /\ \/ HandleClientRequest /\ UNCHANGED loop
       \/ /\ engineInput = <<>>
          /\ loop' = "results"
          /\ UNCHANGED <<vars, encVars, clientVars>>

TakeResult ==
    /\ resultQueue # <<>>
    /\ HandleEncoderResult(resultQueue[1].req, resultQueue[1].inputs)
    /\ resultQueue' = Tail(resultQueue)
    /\ UNCHANGED <<encWaiting, encRunning, encFreeSlots, encCached, encFreed, encResult,
                   clientVars>>

\* step() returns at once when the messages left nothing to do.
EngineResults ==
    /\ loop = "results" /\ pc = "idle"
    /\ \/ TakeResult /\ UNCHANGED loop
       \/ /\ resultQueue = <<>>
          /\ loop' = IF HasUnfinished THEN "step" ELSE "top"
          /\ UNCHANGED <<vars, encVars, clientVars>>

\* Inside schedule().
EngineSchedule ==
    /\ loop \in {"step", "spin"}
    /\ \/ BeginSchedule
       \/ SkipRunning \/ ScheduleRunning \/ Preempt \/ EndRunning
       \/ ScheduleWaiting \/ BlockedWaiting \/ EndWaiting
       \/ MakeOutput
    /\ UNCHANGED <<encVars, clientVars, loop>>

\* Faulty: an output with tokens may be dropped too.
EngineRetry_Any ==
    /\ loop \in {"step", "polled"} /\ pc = "output"
    /\ pc' = "idle" /\ ForgetCall
    /\ loop' = "spin"
    /\ UNCHANGED <<ecmVars, kvVars, requestVars, queueVars, encoderCache, encVars, clientVars>>

\* The while loop of step(): an output without tokens is replaced by the one
\* of the next call.
EngineRetry ==
    /\ loop \in {"step", "polled"}
    /\ DropOutput
    /\ loop' = "spin"
    /\ UNCHANGED <<encVars, clientVars>>

\* Faulty: results are not looked at in the while loop.
EnginePoll_Never ==
    /\ loop = "spin" /\ pc = "output"
    /\ loop' = "polled"
    /\ UNCHANGED <<vars, encVars, clientVars>>

\* ... after which at most one encoder result is taken.
EnginePoll ==
    /\ loop = "spin" /\ pc = "output"
    /\ loop' = "polled"
    /\ \/ TakeResult
       \/ resultQueue = <<>> /\ UNCHANGED <<vars, encVars, clientVars>>

\* execute_model; what the model runner keeps of the requests from step to
\* step is modelled in GPUModelRunner.
EngineExecute ==
    /\ loop \in {"step", "polled"}
    /\ ExecuteModel
    /\ UNCHANGED <<encVars, clientVars, loop>>

EngineUpdate ==
    /\ \/ (UpdateUnscheduled \/ UpdateContinue \/ UpdateStop) /\ UNCHANGED loop
       \/ EndUpdate /\ loop' = "top"
    /\ UNCHANGED <<encVars, clientVars>>

EngineProcess ==
    \/ EngineTop \/ EngineInput \/ EngineResults
    \/ EngineSchedule \/ EngineRetry \/ EnginePoll \/ EngineExecute \/ EngineUpdate

----------------------------------------------------------------------------

Client == \E r \in Requests : SendToEncoder(r) \/ SendToEngine(r) \/ SendAbort(r)

SystemNext == Client \/ EncoderProcess \/ EngineProcess

\* The engine thread is blocked only in the input_queue.get of an engine
\* without work, the encoder's only without a message and a request to encode
\* or in the put to a full queue.
EngineCanStep ==
    Alive /\ (loop = "top" /\ ~HasUnfinished => engineInput # <<>>)

EncoderCanStep ==
    /\ Alive
    /\ IF encResult = NoResult THEN encoderInput # <<>> \/ CanEncode
       ELSE Len(resultQueue) < ResultQueueSize

\* Both processes are busy loops and the client completes what it has begun:
\* weak fairness of the three, with what enables them written out.  Nobody has
\* to submit a request or to abort one.
Fairness ==
    /\ []<>~EngineCanStep \/ []<><<EngineProcess>>_systemVars
    /\ []<>~EncoderCanStep \/ []<><<EncoderProcess>>_systemVars
    /\ WF_systemVars(\E r \in Requests : SendToEngine(r))

SystemSpec == SystemInit /\ [][SystemNext]_systemVars /\ Fairness

----------------------------------------------------------------------------
(* Properties *)

\* The variables that this module adds have their types.
SystemTypeOK ==
    /\ sent \in [Requests -> {"no", "encoder", "both", "aborted"}]
    /\ engineInput \in Seq([type : {"add", "abort"}, req : Requests])
    /\ encoderInput \in Seq(Requests)
    /\ encWaiting \in Seq(Requests) /\ encRunning \in Seq(Requests)
    /\ Len(resultQueue) <= ResultQueueSize
    /\ loop \in {"top", "input", "results", "step", "spin", "polled"}

\* The output of input i of r is still to be computed, or on its way.
OnItsWay(r, i) ==
    \/ r \in Range(encoderInput) \/ r \in Range(encWaiting)
    \/ \E m \in Range(resultQueue) \cup {encResult} : m # NoResult /\ m.req = r /\ i \in m.inputs

\* An encoder output the decoder still needs is never lost: it is on its way
\* or in the encoder cache until all its tokens have been computed.
NeededOutputNotLost ==
    pc # "dead" =>
        \A r \in Requests : status[r] \in {"WAITING", "RUNNING", "PREEMPTED"} =>
            \A i \in Inputs(r) :
                End(r, i) > numComputedTokens[r] => OnItsWay(r, i) \/ i \in encoderCache[r]

\* Every request that reaches the engine and is not aborted is served to its
\* end.
EveryRequestServed ==
    \A r \in Requests : sent[r] = "both" ~> status[r] = "FINISHED" \/ sent[r] = "aborted"

\* An abort takes effect: the request does not stay with the scheduler.
AbortTakesEffect ==
    \A r \in Requests : sent[r] = "aborted" ~> status[r] \in {"NEW", "FINISHED"}

\* A preempted request "will be scheduled again sometime in the future".
PreemptedResumes == \A r \in Requests : status[r] = "PREEMPTED" ~> status[r] # "PREEMPTED"

\* The encoder gets round to every request with an input.
EveryInputEncoded ==
    \A r \in Requests : Inputs(r) # {} /\ r \in Range(encWaiting) ~> r \in Range(encRunning)
=============================================================================
