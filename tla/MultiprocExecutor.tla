------------------------- MODULE MultiprocExecutor -------------------------
(***************************************************************************)
(* The executor of the tensor-parallel deployment.  The engine process     *)
(* hands every encoder result to every worker process through a bounded    *)
(* mp.Queue per worker, and calls the workers through a broadcast queue,   *)
(* waiting for the response of each.  A worker looks at its results only   *)
(* when it is told to execute a step.                                      *)
(*                                                                         *)
(* An mp.Queue is two queues: put() appends to a buffer, from which a      *)
(* feeder thread moves the objects to a pipe; empty() and get() see the    *)
(* pipe only, and the bound counts both.                                   *)
(*                                                                         *)
(* A result holds the outputs of one request: the encoder schedules a      *)
(* request once (EncoderScheduler), so the request stands for its result.  *)
(* Of the scheduler only what reaches the workers is here: when a request  *)
(* may be scheduled, is preempted, finishes, and has its outputs freed.    *)
(***************************************************************************)
EXTENDS Naturals, Sequences

CONSTANTS
    Requests,          \* the requests with images
    WorldSize,         \* the number of workers, which are their ranks
    WorkerQueueSize,   \* the bound of a worker's result queue (10 in the code)
    Failing            \* the workers whose model may raise

Workers == 1 .. WorldSize

ASSUME ExecutorAssumption ==
    /\ WorldSize \in Nat \ {0}
    /\ WorkerQueueSize \in Nat \ {0}
    /\ Failing \subseteq Workers

VARIABLES
    engine,          \* the engine thread: "idle" outside the executor, "put"
                     \* and "spin" in a dispatch, "collect" in a call of the
                     \* workers, "raised" after a failed one
    rank,            \* the worker that it has got to
    encoderReqIds,   \* the ids dispatched since the last executed step
    call,            \* the call in progress
    buffer, pipe,    \* the result queues
    worker,          \* a worker: "idle", "drain", "wait" or "run"
    remaining,       \* the ids of the call that it has not looked at
    cache,           \* the requests whose outputs it holds
    joined,          \* the workers that have reached the step's collectives
    response,        \* the responses not yet read
    stage,           \* a request for the scheduler: "encoding", "ready" to be
                     \* computed with its outputs, "done" with them, "finished"
    handed,          \* the requests whose results have been dispatched
    finishedReqIds,  \* finished requests ...
    freed,           \* ... and freed outputs, to be told to the workers
    again,           \* step() is about to schedule again, after no tokens
    missed,          \* the requests with results of which the workers have not
                     \* been told, or not since the result
    told             \* ... and of which they have been told

queueVars == <<buffer, pipe>>
workerVars == <<worker, remaining, cache, joined>>
requestVars == <<stage, finishedReqIds, freed, again>>
noticeVars == <<handed, missed, told>>
execVars == <<engine, rank, encoderReqIds, call, queueVars, workerVars, response, requestVars,
              noticeVars>>

NoCall == [method |-> "none", encoderReq |-> <<>>, needs |-> {}, finished |-> {}, freed |-> {}]

ExecInit ==
    /\ engine = "idle" /\ rank = 1
    /\ encoderReqIds = <<>>
    /\ call = NoCall
    /\ buffer = [w \in Workers |-> <<>>] /\ pipe = [w \in Workers |-> <<>>]
    /\ worker = [w \in Workers |-> "idle"]
    /\ remaining = [w \in Workers |-> <<>>]
    /\ cache = [w \in Workers |-> {}]
    /\ joined = {}
    /\ response = [w \in Workers |-> "none"]
    /\ stage = [r \in Requests |-> "encoding"]
    /\ finishedReqIds = {} /\ freed = {} /\ again = FALSE
    /\ handed = {} /\ missed = {} /\ told = {}

----------------------------------------------------------------------------
(* The engine: dispatch_encoder_result_to_workers *)

\* The results come in any order, also after their requests have finished.
\* The engine keeps its own copy for good: it is the workers that drop theirs.
DispatchEncoderResult(r) ==
    /\ engine = "idle" /\ r \notin handed
    /\ handed' = handed \cup {r}
    /\ stage' = [stage EXCEPT ![r] = IF @ = "encoding" THEN "ready" ELSE @]
    /\ missed' = IF stage[r] = "finished" /\ r \notin finishedReqIds THEN missed \cup {r}
                                                                     ELSE missed
    /\ encoderReqIds' = Append(encoderReqIds, r)
    /\ engine' = "put" /\ rank' = 1
    /\ UNCHANGED <<call, queueVars, workerVars, response, finishedReqIds, freed, again, told>>

QueueLength(w) == Len(buffer[w]) + Len(pipe[w])

HasRoom(w) == QueueLength(w) < WorkerQueueSize

\* The result being dispatched is the newest one.
Newest(ids) == ids[Len(ids)]

\* A full queue blocks.
Put ==
    /\ engine = "put" /\ HasRoom(rank)
    /\ buffer' = [buffer EXCEPT ![rank] = Append(@, Newest(encoderReqIds))]
    /\ engine' = "spin"
    /\ UNCHANGED <<rank, encoderReqIds, call, pipe, workerVars, response, requestVars,
                   noticeVars>>

\* Faulty: the spin ends when the worker has taken the result.
Arrived_Taken(w) == QueueLength(w) = 0

\* The queue is not empty(); what it holds may be an earlier result.
Arrived(w) == pipe[w] # <<>>

EndSpin ==
    /\ engine = "spin" /\ Arrived(rank)
    /\ IF rank < WorldSize THEN engine' = "put" /\ rank' = rank + 1
                           ELSE engine' = "idle" /\ UNCHANGED rank
    /\ UNCHANGED <<encoderReqIds, call, queueVars, workerVars, response, requestVars,
                   noticeVars>>

\* The feeder thread of a queue.
Feed(w) ==
    /\ buffer[w] # <<>>
    /\ pipe' = [pipe EXCEPT ![w] = Append(@, Head(buffer[w]))]
    /\ buffer' = [buffer EXCEPT ![w] = Tail(@)]
    /\ UNCHANGED <<engine, rank, encoderReqIds, call, workerVars, response, requestVars,
                   noticeVars>>

----------------------------------------------------------------------------
(* The engine: collective_rpc *)

\* Faulty: the ids dispatched since the last step are not passed on.
EncoderReq_None == <<>>

EncoderReq == encoderReqIds

Call(c) ==
    /\ engine = "idle"
    /\ call' = c
    /\ engine' = "collect" /\ rank' = 1
    /\ worker' = [w \in Workers |-> IF c.method = "execute_model" THEN "drain" ELSE "run"]
    /\ remaining' = [w \in Workers |-> c.encoderReq]
    /\ joined' = {}
    /\ UNCHANGED <<encoderReqIds, queueVars, cache, response, handed>>

\* The gate of _try_schedule_encoder_inputs looks at the engine's own copy.
MayNeed(needs) == \A r \in needs : stage[r] = "ready"

\* A preempted request is computed from its first token again.
Preempt(preempted) ==
    /\ \A r \in preempted : stage[r] = "done"
    /\ stage' = [r \in Requests |-> IF r \in preempted THEN "ready" ELSE stage[r]]

\* Every output of schedule() takes along what the workers are to be told.
Notices == finishedReqIds \cup freed

TakeNotices == finishedReqIds' = {} /\ freed' = {}

\* A step with tokens.  The workers may have dropped what it needs, if the
\* request was preempted.  (A result dispatched between schedule() and this
\* call is as good as one before: the notices went to the output without
\* tokens that came first.)
ExecuteModel(needs, preempted) ==
    /\ MayNeed(needs)
    /\ Call([method |-> "execute_model", encoderReq |-> EncoderReq, needs |-> needs,
             finished |-> finishedReqIds, freed |-> freed])
    /\ Preempt(preempted)
    /\ TakeNotices
    /\ again' = FALSE
    /\ missed' = missed \ Notices
    /\ told' = told \cup (Notices \cap handed)

\* An output without tokens: step() schedules again and overwrites it, with
\* the notices in it.
DropOutput(preempted) ==
    /\ engine = "idle"
    /\ Preempt(preempted)
    /\ TakeNotices
    /\ again' = TRUE
    /\ missed' = missed \cup (Notices \cap handed)
    /\ UNCHANGED <<engine, rank, encoderReqIds, call, queueVars, workerVars, response, handed,
                   told>>

\* Any other method, as Executor.profile, asked for by a client between two
\* steps.
OtherMethod ==
    /\ ~again
    /\ Call([NoCall EXCEPT !.method = "profile"])
    /\ UNCHANGED <<requestVars, missed, told>>

\* Faulty: any method clears the list.
IdsAfterCall_Any == <<>>

\* Only a step has passed the ids on.
IdsAfterCall == IF call.method = "execute_model" THEN <<>> ELSE encoderReqIds

\* The responses are read in the order of the ranks.  A failure ends the
\* loop, and the engine with it.  After a step the scheduler may free some of
\* the outputs that it needed.
Collect ==
    /\ engine = "collect" /\ response[rank] # "none"
    /\ response' = [response EXCEPT ![rank] = "none"]
    /\ \/ /\ response[rank] = "FAILURE"
          /\ engine' = "raised"
          /\ UNCHANGED <<rank, call, encoderReqIds, stage, freed>>
       \/ /\ response[rank] = "SUCCESS" /\ rank < WorldSize
          /\ rank' = rank + 1
          /\ UNCHANGED <<engine, call, encoderReqIds, stage, freed>>
       \/ /\ response[rank] = "SUCCESS" /\ rank = WorldSize
          /\ engine' = "idle" /\ call' = NoCall
          /\ encoderReqIds' = IdsAfterCall
          /\ \E consumed \in SUBSET call.needs :
                /\ freed' = freed \cup consumed
                /\ stage' = [r \in Requests |-> IF r \in consumed THEN "done" ELSE stage[r]]
          /\ UNCHANGED rank
    /\ UNCHANGED <<queueVars, workerVars, finishedReqIds, again, noticeVars>>

\* A request is stopped or aborted, between two steps.
FinishRequest(r) ==
    /\ engine = "idle" /\ ~again /\ stage[r] # "finished"
    /\ stage' = [stage EXCEPT ![r] = "finished"]
    /\ finishedReqIds' = finishedReqIds \cup {r}
    /\ UNCHANGED <<engine, rank, encoderReqIds, call, queueVars, workerVars, response, freed,
                   again, noticeVars>>

----------------------------------------------------------------------------
(* A worker: worker_busy_loop *)

\* get_nowait and the copy to the cache.
GetResult(w) ==
    /\ pipe[w] # <<>>
    /\ cache' = [cache EXCEPT ![w] = @ \cup {Head(pipe[w])}]
    /\ pipe' = [pipe EXCEPT ![w] = Tail(@)]

\* The first loop takes what has arrived.
Drain(w) ==
    /\ worker[w] = "drain"
    /\ \/ GetResult(w) /\ UNCHANGED worker
       \/ /\ pipe[w] = <<>>
          /\ worker' = [worker EXCEPT ![w] = "wait"]
          /\ UNCHANGED <<cache, pipe>>
    /\ UNCHANGED <<engine, rank, encoderReqIds, call, buffer, remaining, joined, response,
                   requestVars,
                   noticeVars>>

\* Faulty: one result is taken for every id, also for one that is cached.
WaitForResult_Every(w) == GetResult(w)

\* Faulty: the next result only if it is there.
WaitForResult_NoSpin(w) ==
    \/ /\ Head(remaining[w]) \in cache[w] \/ pipe[w] = <<>>
       /\ UNCHANGED <<cache, pipe>>
    \/ Head(remaining[w]) \notin cache[w] /\ GetResult(w)

\* One turn of the second loop: for an id without outputs, the next result,
\* whatever it is.
WaitForResult(w) ==
    \/ Head(remaining[w]) \in cache[w] /\ UNCHANGED <<cache, pipe>>
    \/ Head(remaining[w]) \notin cache[w] /\ GetResult(w)

Wait(w) ==
    /\ worker[w] = "wait" /\ remaining[w] # <<>>
    /\ WaitForResult(w)
    /\ remaining' = [remaining EXCEPT ![w] = Tail(@)]
    /\ UNCHANGED <<engine, rank, encoderReqIds, call, buffer, worker, joined, response,
                   requestVars,
                   noticeVars>>

\* Faulty: a request that finishes keeps its outputs.
Dropped_Freed == call.freed

\* What _update_states removes from the cache.
Dropped == call.finished \cup call.freed

\* The worker has left the loops.
Ready(w) == worker[w] = "wait" /\ remaining[w] = <<>>

OutputsThere(w) == call.needs \subseteq cache[w] \ Dropped

UpdateStates(w) == cache' = [cache EXCEPT ![w] = @ \ Dropped]

\* The worker enters execute_model, finds the outputs and reaches the first
\* collective.
Join(w) ==
    /\ Ready(w) /\ OutputsThere(w)
    /\ UpdateStates(w)
    /\ worker' = [worker EXCEPT ![w] = "run"]
    /\ joined' = joined \cup {w}
    /\ UNCHANGED <<engine, rank, encoderReqIds, call, queueVars, remaining, response, requestVars,
                   noticeVars>>

Respond(w, status) ==
    /\ worker' = [worker EXCEPT ![w] = "idle"]
    /\ response' = [response EXCEPT ![w] = status]
    /\ UNCHANGED <<engine, rank, encoderReqIds, call, queueVars, remaining, joined, requestVars,
                   noticeVars>>

\* An exception before that: the assertion that the outputs are there, or an
\* error of the model.
Fail(w) ==
    /\ Ready(w)
    /\ w \in Failing \/ ~OutputsThere(w)
    /\ UpdateStates(w)
    /\ Respond(w, "FAILURE")

\* The collectives end when every worker takes part.
Finish(w) ==
    /\ worker[w] = "run"
    /\ call.method = "execute_model" => joined = Workers
    /\ Respond(w, "SUCCESS")
    /\ UNCHANGED cache

----------------------------------------------------------------------------

EngineStep == Put \/ EndSpin \/ Collect

WorkerStep(w) == Drain(w) \/ Wait(w) \/ Join(w) \/ Finish(w) \/ Fail(w)

ExecNext ==
    \/ \E r \in Requests : DispatchEncoderResult(r) \/ FinishRequest(r)
    \/ \E needs, preempted \in SUBSET Requests : ExecuteModel(needs, preempted)
    \/ \E preempted \in SUBSET Requests : DropOutput(preempted)
    \/ OtherMethod
    \/ EngineStep
    \/ \E w \in Workers : Feed(w) \/ WorkerStep(w)

\* The threads run on; a step or a dispatch need not come.
ExecFairness ==
    /\ WF_execVars(EngineStep)
    /\ \A w \in Workers : WF_execVars(Feed(w)) /\ WF_execVars(WorkerStep(w))

ExecSpec == ExecInit /\ [][ExecNext]_execVars /\ ExecFairness

----------------------------------------------------------------------------
(* Properties *)

\* The variables have their types.
ExecTypeOK ==
    /\ engine \in {"idle", "put", "spin", "collect", "raised"}
    /\ rank \in Workers
    /\ encoderReqIds \in Seq(Requests)
    /\ call \in [method : {"none", "execute_model", "profile"}, encoderReq : Seq(Requests),
                 needs : SUBSET Requests, finished : SUBSET Requests, freed : SUBSET Requests]
    /\ buffer \in [Workers -> Seq(Requests)] /\ pipe \in [Workers -> Seq(Requests)]
    /\ \A w \in Workers : QueueLength(w) <= WorkerQueueSize
    /\ worker \in [Workers -> {"idle", "drain", "wait", "run"}]
    /\ remaining \in [Workers -> Seq(Requests)]
    /\ cache \in [Workers -> SUBSET Requests]
    /\ joined \subseteq Workers
    /\ response \in [Workers -> {"none", "SUCCESS", "FAILURE"}]
    /\ stage \in [Requests -> {"encoding", "ready", "done", "finished"}]
    /\ again \in BOOLEAN
    /\ finishedReqIds \subseteq Requests /\ freed \subseteq Requests
    /\ handed \subseteq Requests /\ missed \subseteq Requests /\ told \subseteq Requests

\* The assertion of _gather_encoder_outputs, that a worker holds the outputs
\* that the step needs, fails for the preempted requests whose outputs the
\* workers were told to drop, and for no other.  By the end of the two loops of
\* worker_busy_loop every dispatched result has come, though the engine never
\* waits for it to leave the feeder's buffer.
MissingWereDropped ==
    \A w \in Workers : Ready(w) => call.needs \ (cache[w] \ Dropped) = call.needs \cap told

\* Between two calls the queue of a worker holds the results dispatched since
\* the last step, in order, and nothing else: a step takes them all.
QueuesHoldNewResults ==
    engine = "idle" => \A w \in Workers : pipe[w] \o buffer[w] = encoderReqIds

\* The workers of a tensor-parallel group hold the same outputs between two
\* calls, whatever each of them found in its pipe.
WorkersAgree == engine = "idle" => \A v, w \in Workers : cache[v] = cache[w]

\* A worker drops the outputs of a request that has finished or needs them no
\* more, unless step() overwrote the notice or it came before the result.  A
\* lost notice of the freeing is made good by the one of the finish.
OutputsReleased ==
    engine = "idle" =>
        \A w \in Workers : \A r \in cache[w] :
            \/ stage[r] = "ready"
            \/ r \in finishedReqIds \cup freed \cup missed

\* A dispatch returns, as long as no more results than a queue holds come
\* between two steps.  (With more the engine blocks in put for good: only a
\* step, which it cannot start, would take a result.)
DispatchReturns ==
    engine \in {"put", "spin"} /\ Len(encoderReqIds) <= WorkerQueueSize ~> engine = "idle"

\* A worker has raised while one of a lower rank is in the collectives, where
\* it waits for the first; the engine waits for the response of the second.
FailureUnread ==
    \E v, w \in Workers : v < w /\ worker[v] = "run" /\ response[w] = "FAILURE"

\* A call of the workers returns or raises, unless a failure cannot be read.
CallReturns == engine = "collect" ~> engine \in {"idle", "raised"} \/ FailureUnread
=============================================================================
