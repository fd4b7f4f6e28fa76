------------------------- MODULE SpaceServe_proofs --------------------------
(***************************************************************************)
(* Proofs about the two schedulers together: an input that the model needs *)
(* has its output in the encoder cache, the variables of the system have   *)
(* their types, the system implements the Scheduler, and an output that is *)
(* still needed is lost only by a preemption.                              *)
(*                                                                         *)
(* OutputsInv says that a cached input's output is in the encoder cache,   *)
(* and that the inputs the workers are told to drop are computed or not    *)
(* scheduled.  SystemInv says what the messages to EngineCore hold, and    *)
(* that a request is submitted once.  KeptInv says where the output of a   *)
(* request is from the moment the client has sent it off.                  *)
(***************************************************************************)
EXTENDS SpaceServe, Scheduler_proofs

-----------------------------------------------------------------------------
(* The outputs of the encoder. *)

\* The inputs that _try_schedule_encoder_inputs takes have their outputs and are
\* still to be computed; together with the cached ones they cover the tokens
\* that are scheduled.
LEMMA PlanOutputs ==
    ASSUME NEW r \in Requests, NEW c \in Nat, NEW n \in Nat, NEW budget \in Int
    PROVE  LET plan == TryScheduleEncoderInputs(r, c, n, budget)
           IN  /\ \A i \in plan.inputs : i \in Inputs(r) /\ i \in encoderCache[r] /\ End(r, i) > c
               /\ \A i \in Inputs(r) : plan.tokens # 0 /\ Overlaps(r, i, c, plan.tokens)
                    => i \in cached[r] \/ i \in plan.inputs
<1> DEFINE needed == {i \in Inputs(r) : Overlaps(r, i, c, n) /\ ~HasCache(r, i)}
           before(i) == {j \in needed : j < i}
           blocked == {i \in needed : EncoderInputBlocked(r, i, budget - SlotsOf(r, before(i)))}
           first == Min(blocked)
           taken == IF blocked = {} THEN needed ELSE before(first)
           tokens == IF blocked = {} THEN n
                     ELSE IF c < Start(r, first) THEN Start(r, first) - c ELSE 0
           plan == TryScheduleEncoderInputs(r, c, n, budget)
<1>1. plan.inputs = taken /\ plan.tokens = tokens
  BY Zenon DEF TryScheduleEncoderInputs
<1>2. plan.tokens \in 0 .. n
  BY PlanBounds, Zenon
<1> HIDE DEF plan
<1>3. blocked \in SUBSET Nat /\ needed \subseteq Inputs(r) /\ blocked \subseteq needed
  BY InputLemma, Zenon
<1>4. blocked # {} => first \in blocked /\ \A i \in blocked : first <= i
  BY <1>3, MinExists, Zenon
<1>5. ASSUME NEW i \in taken PROVE i \in Inputs(r) /\ i \in encoderCache[r] /\ End(r, i) > c
  <2>1. i \in needed /\ i \notin blocked
    <3>1. CASE blocked = {}
      BY <1>5, <3>1, Zenon
    <3>2. CASE blocked # {}
      <4>1. i \in needed /\ i < first
        BY <1>5, <3>2, Zenon
      <4>2. i \in Nat /\ first \in Nat
        BY <1>3, <1>4, <3>2, <4>1, InputLemma, Zenon
      <4> HIDE DEF blocked, first
      <4> QED  BY <1>4, <3>2, <4>1, <4>2
    <3> QED  BY <3>1, <3>2, Zenon
  <2>2. i \in encoderCache[r]
    BY <2>1, Zenon DEF EncoderInputBlocked
  <2>3. i \in Inputs(r) /\ End(r, i) > c
    BY <2>1, Zenon DEF Overlaps
  <2> QED  BY <2>2, <2>3, Zenon
<1>6. ASSUME NEW i \in Inputs(r), plan.tokens # 0, Overlaps(r, i, c, plan.tokens), i \notin cached[r]
      PROVE  i \in taken
  <2>1. Start(r, i) \in Nat /\ End(r, i) \in Nat /\ i \in Nat
    BY InputLemma, Zenon
  <2>2. i \in needed
    BY <1>2, <1>6, <2>1 DEF Overlaps, HasCache
  <2>3. CASE blocked = {}
    BY <2>2, <2>3, Zenon
  <2>4. CASE blocked # {}
    <3>1. first \in Inputs(r)
      BY <1>3, <1>4, <2>4, Zenon
    <3>2. /\ first \in Nat /\ Start(r, first) \in Nat
          /\ (first < i => End(r, first) <= Start(r, i)) /\ Start(r, first) < End(r, first)
          /\ End(r, first) \in Nat
      BY <3>1, InputLemma, Zenon
    <3>3. plan.tokens = (IF c < Start(r, first) THEN Start(r, first) - c ELSE 0)
      BY <1>1, <2>4, Zenon
    <3> HIDE DEF first, blocked
    <3>4. Start(r, i) < Start(r, first)
      BY <1>6, <2>1, <3>2, <3>3 DEF Overlaps
    <3>5. i < first
      BY <2>1, <3>2, <3>4
    <3> QED  BY <2>2, <2>4, <3>5, Zenon
  <2> QED  BY <2>3, <2>4, Zenon
<1> QED  BY <1>1, <1>5, <1>6, Zenon DEF plan

(* What keeps an encoder output in the shared cache as long as it is       *)
(* needed, provided that no id is used twice.                              *)

\* The manager tracks nothing for a request that is not with the scheduler.
IdleUncached == \A r \in Requests : status[r] \in {"NEW", "FINISHED"} => cached[r] = {}

\* The ids that are reported as finished are finished for good.
FinishedIds == \A r \in Requests : r \in finishedReqIds \cup outFinished => status[r] = "FINISHED"

\* The output of a cached input is there, and nobody was told to drop it.
CachedOutputs ==
    \A r \in Requests : \A i \in cached[r] :
        /\ i \in encoderCache[r]
        /\ <<r, i>> \notin freed
        /\ pc = "output" => <<r, i>> \notin outFreed

\* The inputs freed since the last output are computed, or their request is
\* not scheduled by this call.
FreedOutputs ==
    \A r \in Requests : \A i \in Inputs(r) : <<r, i>> \in freed =>
        /\ \/ status[r] \in {"RUNNING", "FINISHED"}
           \/ pc \in {"running", "build"} /\ r \in preemptedReqs
        /\ status[r] = "RUNNING" => End(r, i) <= numComputedTokens[r]

\* So are the ones that the output names.
HandedOut ==
    pc = "output" =>
        \A r \in Requests : \A i \in Inputs(r) :
            <<r, i>> \in outFreed /\ status[r] = "RUNNING" => End(r, i) <= numComputedTokens[r]

\* The outputs of the tokens scheduled so far are there.
ScheduledOutputs ==
    pc \in {"running", "waiting", "build", "output"} =>
        \A r \in Requests : \A i \in Inputs(r) :
            numScheduledTokens[r] # 0 /\ Overlaps(r, i, numComputedTokens[r], numScheduledTokens[r])
                => i \in encoderCache[r]

\* The inductive invariant.
OutputsInv ==
    pc # "dead" =>
        /\ IdleUncached /\ FinishedIds
        /\ CachedOutputs /\ FreedOutputs /\ HandedOut /\ ScheduledOutputs

\* A new scheduler has no outputs to look after.
LEMMA InitOutputs == Init => OutputsInv
<1> SUFFICES ASSUME Init PROVE OutputsInv
  BY Zenon
<1>1. /\ cached = [r \in Requests |-> {}] /\ freed = {} /\ finishedReqIds = {} /\ outFinished = {}
      /\ pc = "idle"
  BY Zenon DEF Init, ECMInit
<1>2. \A r \in Requests : cached[r] = {}
  BY <1>1, Zenon
<1> QED  BY <1>1, <1>2, Zenon DEF OutputsInv, IdleUncached, FinishedIds, CachedOutputs, FreedOutputs,
                           HandedOut, ScheduledOutputs

\* schedule() gives r the n tokens after its first c, and allocates S.
LEMMA ScheduleOutputs ==
    ASSUME IInv, OutputsInv, pc \in {"running", "waiting"}, pc' = pc,
           NEW r \in Requests, NEW c, NEW n, NEW S, Allocate(r, S),
           \A i \in S : i \in Inputs(r) /\ i \in encoderCache[r] /\ End(r, i) > c,
           \A i \in Inputs(r) : n # 0 /\ Overlaps(r, i, c, n) => i \in cached[r] \/ i \in S,
           \A i \in Inputs(r) : <<r, i>> \in freed => End(r, i) <= c,
           c \in Nat, status[r] # "FINISHED",
           status' = [status EXCEPT ![r] = "RUNNING"],
           numComputedTokens' = [numComputedTokens EXCEPT ![r] = c],
           numScheduledTokens' = [numScheduledTokens EXCEPT ![r] = n],
           UNCHANGED <<finishedReqIds, outFinished, outFreed, encoderCache, preemptedReqs>>
    PROVE  OutputsInv'
<1>1. /\ IdleUncached /\ FinishedIds /\ CachedOutputs /\ FreedOutputs /\ ScheduledOutputs
      /\ pc' # "output"
  BY Zenon DEF OutputsInv
<1>2. /\ cached' = [cached EXCEPT ![r] = cached[r] \cup S] /\ freed' = freed
      /\ cached \in [Requests -> SUBSET (Nat \ {0})] /\ status \in [Requests -> Status]
      /\ numComputedTokens \in [Requests -> Nat] /\ numScheduledTokens \in [Requests -> Nat]
  BY Zenon DEF Allocate, IInv, TypeOK, ManagersOK
<1>3. /\ cached'[r] = cached[r] \cup S /\ status'[r] = "RUNNING" /\ numComputedTokens'[r] = c
      /\ numScheduledTokens'[r] = n
      /\ \A q \in Requests : q # r =>
            /\ cached'[q] = cached[q] /\ status'[q] = status[q]
            /\ numComputedTokens'[q] = numComputedTokens[q]
            /\ numScheduledTokens'[q] = numScheduledTokens[q]
  BY <1>2, Zenon
<1>4. IdleUncached'
  BY <1>1, <1>3, Zenon DEF IdleUncached
<1>5. FinishedIds'
  BY <1>1, <1>3, Zenon DEF FinishedIds
<1>6. CachedOutputs'
  <2> SUFFICES ASSUME NEW q \in Requests, NEW i \in cached'[q]
               PROVE  i \in encoderCache[q] /\ <<q, i>> \notin freed
    BY <1>1, <1>2, Zenon DEF CachedOutputs
  <2>1. CASE q # r
    BY <1>1, <1>3, <2>1, Zenon DEF CachedOutputs
  <2>2. CASE q = r /\ i \in cached[r]
    BY <1>1, <2>2, Zenon DEF CachedOutputs
  <2>3. CASE q = r /\ i \in S
    <3>1. i \in Inputs(r) /\ i \in encoderCache[r] /\ End(r, i) > c
      BY <2>3, Zenon
    <3>2. End(r, i) \in Nat
      BY <3>1, InputLemma, Zenon
    <3> QED  BY <2>3, <3>1, <3>2
  <2> QED  BY <1>3, <2>1, <2>2, <2>3, Zenon
<1>7. FreedOutputs'
  <2> SUFFICES ASSUME NEW q \in Requests, NEW i \in Inputs(q), <<q, i>> \in freed
               PROVE  /\ \/ status'[q] \in {"RUNNING", "FINISHED"}
                         \/ pc \in {"running", "build"} /\ q \in preemptedReqs
                      /\ status'[q] = "RUNNING" => End(q, i) <= numComputedTokens'[q]
    BY <1>2, Zenon DEF FreedOutputs
  <2>1. CASE q = r
    BY <1>3, <2>1, Zenon
  <2>2. CASE q # r
    BY <1>1, <1>3, <2>2, Zenon DEF FreedOutputs
  <2> QED  BY <2>1, <2>2, Zenon
<1>8. HandedOut'
  BY <1>1, Zenon DEF HandedOut
<1>9. ScheduledOutputs'
  <2> SUFFICES ASSUME NEW q \in Requests, NEW i \in Inputs(q), numScheduledTokens'[q] # 0,
                      Overlaps(q, i, numComputedTokens'[q], numScheduledTokens'[q])
               PROVE  i \in encoderCache[q]
    BY Zenon DEF ScheduledOutputs
  <2>1. CASE q = r
    BY <1>1, <1>3, <2>1, Zenon DEF CachedOutputs
  <2>2. CASE q # r
    BY <1>1, <1>3, <2>2, Zenon DEF ScheduledOutputs
  <2> QED  BY <2>1, <2>2, Zenon
<1> QED  BY <1>4, <1>5, <1>6, <1>7, <1>8, <1>9 DEF OutputsInv

\* A step that frees no input and loses no output.
LEMMA FrameOutputs ==
    ASSUME OutputsInv, UNCHANGED <<cached, freed, status, numComputedTokens>>,
           \A r \in Requests : encoderCache[r] \subseteq encoderCache'[r],
           finishedReqIds' \cup outFinished' \subseteq finishedReqIds \cup outFinished,
           pc = "dead" => pc' = "dead",
           pc' = "output" => pc = "output" /\ outFreed' = outFreed,
           pc \in {"running", "build"} /\ preemptedReqs # {} =>
                pc' \in {"running", "build"} /\ preemptedReqs' = preemptedReqs,
           pc' \in {"running", "waiting", "build", "output"} =>
                \/ pc \in {"running", "waiting", "build", "output"} /\ UNCHANGED numScheduledTokens
                \/ \A r \in Requests : numScheduledTokens'[r] = 0
    PROVE  OutputsInv'
<1> SUFFICES ASSUME pc' # "dead"
             PROVE  /\ IdleUncached' /\ FinishedIds'
                    /\ CachedOutputs' /\ FreedOutputs' /\ HandedOut' /\ ScheduledOutputs'
  BY Zenon DEF OutputsInv
<1>1. /\ IdleUncached /\ FinishedIds
      /\ CachedOutputs /\ FreedOutputs /\ HandedOut /\ ScheduledOutputs
  BY Zenon DEF OutputsInv
<1>2. IdleUncached' /\ FinishedIds'
  BY <1>1, Zenon DEF IdleUncached, FinishedIds
<1>3. CachedOutputs'
  BY <1>1, Zenon DEF CachedOutputs
<1>4. FreedOutputs'
  BY <1>1, Zenon DEF FreedOutputs
<1>5. HandedOut'
  BY <1>1, Zenon DEF HandedOut
<1>6. ScheduledOutputs'
  <2> SUFFICES ASSUME pc' \in {"running", "waiting", "build", "output"},
                      NEW r \in Requests, NEW i \in Inputs(r), numScheduledTokens'[r] # 0,
                      Overlaps(r, i, numComputedTokens[r], numScheduledTokens'[r])
               PROVE  i \in encoderCache'[r]
    BY Zenon DEF ScheduledOutputs
  <2>1. pc \in {"running", "waiting", "build", "output"} /\ UNCHANGED numScheduledTokens
    BY Zenon
  <2> QED  BY <1>1, <2>1, Zenon DEF ScheduledOutputs
<1> QED  BY <1>2, <1>3, <1>4, <1>5, <1>6, Zenon

\* The steps of schedule() that schedule nothing.
LEMMA LoopOutputs ==
    ASSUME IInv, OutputsInv,
           \/ BeginSchedule \/ SkipRunning \/ EndRunning \/ BlockedWaiting \/ EndWaiting \/ DropOutput
    PROVE  OutputsInv'
<1>1. /\ UNCHANGED <<cached, freed, status, numComputedTokens, encoderCache, finishedReqIds>>
      /\ pc \notin {"dead", "update"} /\ (outFinished' = outFinished \/ outFinished' = {})
      /\ pc' # "output"
      /\ pc \in {"running", "build"} /\ preemptedReqs # {} =>
                pc' \in {"running", "build"} /\ preemptedReqs' = preemptedReqs
      /\ \/ pc' = "idle"
         \/ pc \in {"running", "waiting", "build", "output"} /\ UNCHANGED numScheduledTokens
         \/ \A r \in Requests : numScheduledTokens'[r] = 0
  <2>1. CASE BeginSchedule
    BY <2>1, Zenon DEF BeginSchedule, ecmVars, requestVars, queueVars
  <2>2. CASE SkipRunning
    BY <2>2, Zenon DEF SkipRunning, InRunningLoop, ecmVars, requestVars, queueVars, outputVars
  <2>3. CASE EndRunning
    BY <2>3, Zenon DEF EndRunning, ecmVars, requestVars, queueVars, localVars, outputVars
  <2>4. CASE BlockedWaiting
    BY <2>4, Zenon DEF BlockedWaiting, InWaitingLoop, ecmVars, requestVars, queueVars, localVars, outputVars
  <2>5. CASE EndWaiting
    BY <2>5, Zenon DEF EndWaiting, ecmVars, requestVars, queueVars, localVars, outputVars
  <2>6. CASE DropOutput
    BY <2>6, Zenon DEF DropOutput, ForgetCall, ecmVars, requestVars, queueVars
  <2> QED  BY <2>1, <2>2, <2>3, <2>4, <2>5, <2>6, Zenon
<1>2. /\ \A r \in Requests : encoderCache[r] \subseteq encoderCache'[r]
      /\ finishedReqIds' \cup outFinished' \subseteq finishedReqIds \cup outFinished
  BY <1>1, Zenon
<1> QED  BY <1>1, <1>2, FrameOutputs, Zenon

\* The output of schedule() names the inputs that have been freed.
LEMMA MakeOutputOutputs ==
    ASSUME IInv, OutputsInv, MakeOutput
    PROVE  OutputsInv'
<1>1. /\ UNCHANGED <<cached, status, numComputedTokens, encoderCache, numScheduledTokens>>
      /\ freed' = {} /\ outFreed' = freed /\ finishedReqIds' = {} /\ outFinished' = finishedReqIds
      /\ pc = "build" /\ pc' = "output"
  BY Zenon DEF MakeOutput, GetFreedIds, requestVars
<1>2. /\ IdleUncached /\ FinishedIds
      /\ CachedOutputs /\ FreedOutputs /\ HandedOut /\ ScheduledOutputs
  BY <1>1, Zenon DEF OutputsInv
<1>3. IdleUncached' /\ FinishedIds'
  BY <1>1, <1>2, Zenon DEF IdleUncached, FinishedIds
<1>4. CachedOutputs' /\ FreedOutputs' /\ HandedOut'
  BY <1>1, <1>2, Zenon DEF CachedOutputs, FreedOutputs, HandedOut
<1>5. ScheduledOutputs'
  BY <1>1, <1>2, Zenon DEF ScheduledOutputs
<1> QED  BY <1>3, <1>4, <1>5, Zenon DEF OutputsInv

\* _update_states of the model runner drops what the output names.
LEMMA ExecuteModelOutputs ==
    ASSUME IInv, OutputsInv, ExecuteModel
    PROVE  OutputsInv'
<1>1. /\ UNCHANGED <<cached, freed, status, numComputedTokens, finishedReqIds, outFinished>>
      /\ encoderCache' = EncoderCacheAfterUpdateStates
      /\ pc = "output" /\ pc' \in {"update", "dead"}
  BY Zenon DEF ExecuteModel, ecmVars, requestVars, queueVars, outputVars
<1>2. /\ IdleUncached /\ FinishedIds
      /\ CachedOutputs /\ FreedOutputs
  BY <1>1, Zenon DEF OutputsInv
<1>3. IdleUncached' /\ FinishedIds'
  BY <1>1, <1>2, Zenon DEF IdleUncached, FinishedIds
<1>4. CachedOutputs'
  <2> SUFFICES ASSUME NEW r \in Requests, NEW i \in cached[r]
               PROVE  i \in encoderCache'[r] /\ <<r, i>> \notin freed
    BY <1>1, Zenon DEF CachedOutputs
  <2>1. i \in encoderCache[r] /\ <<r, i>> \notin freed /\ <<r, i>> \notin outFreed
    BY <1>1, <1>2, Zenon DEF CachedOutputs
  <2>2. r \notin outFinished
    BY <1>2, Zenon DEF FinishedIds, IdleUncached
  <2> QED  BY <1>1, <2>1, <2>2, Zenon DEF EncoderCacheAfterUpdateStates
<1>5. FreedOutputs'
  BY <1>1, <1>2, Zenon DEF FreedOutputs
<1>6. HandedOut' /\ ScheduledOutputs'
  BY <1>1, Zenon DEF HandedOut, ScheduledOutputs
<1> QED  BY <1>3, <1>4, <1>5, <1>6, Zenon DEF OutputsInv

\* A preempted request was not scheduled yet, and is not in this call.
LEMMA PreemptOutputs ==
    ASSUME IInv, OutputsInv, Preempt
    PROVE  OutputsInv'
<1>0. PICK v \in Requests : v = running[Len(running)] /\ status[v] = "RUNNING" /\ numScheduledTokens[v] = 0
  <2>1. pc = "running" /\ reqIndex <= Len(running)
    BY Zenon DEF Preempt, InRunningLoop
  <2>2. running \in Seq(Requests) /\ reqIndex \in Nat \ {0}
    BY Zenon DEF IInv, TypeOK
  <2>3. Len(running) \in 1 .. Len(running) /\ Len(running) \in reqIndex .. Len(running)
    BY <2>1, <2>2
  <2>4. running[Len(running)] \in Range(running)
    BY <2>2, <2>3, InjectiveLemma
  <2>5. Range(running) = {q \in Requests : status[q] = "RUNNING"}
    BY <2>1, Zenon DEF IInv, QueuesMatchStatus, Active
  <2>6. numScheduledTokens[running[Len(running)]] = 0
    BY <2>1, <2>3, Zenon DEF IInv, CallState
  <2> QED  BY <2>4, <2>5, <2>6, Zenon
<1>1. /\ UNCHANGED <<cached, freed, encoderCache, finishedReqIds, outFinished, outFreed, numScheduledTokens>>
      /\ status' = [status EXCEPT ![v] = "PREEMPTED"]
      /\ numComputedTokens' = [numComputedTokens EXCEPT ![v] = 0]
      /\ preemptedReqs' = preemptedReqs \cup {v}
      /\ pc = "running" /\ pc' \in {"running", "build"}
  BY <1>0, Zenon DEF Preempt, InRunningLoop, ecmVars, outputVars
<1>2. /\ IdleUncached /\ FinishedIds
      /\ CachedOutputs /\ FreedOutputs /\ HandedOut /\ ScheduledOutputs
  BY <1>1, Zenon DEF OutputsInv
<1>3. /\ status'[v] = "PREEMPTED"
      /\ \A q \in Requests : q # v => status'[q] = status[q] /\ numComputedTokens'[q] = numComputedTokens[q]
  BY <1>1, Zenon DEF IInv, TypeOK
<1>4. IdleUncached' /\ FinishedIds'
  BY <1>0, <1>1, <1>2, <1>3, Zenon DEF IdleUncached, FinishedIds
<1>5. CachedOutputs'
  BY <1>1, <1>2, Zenon DEF CachedOutputs
<1>6. FreedOutputs'
  <2> SUFFICES ASSUME NEW q \in Requests, NEW i \in Inputs(q), <<q, i>> \in freed
               PROVE  /\ \/ status'[q] \in {"RUNNING", "FINISHED"}
                         \/ pc' \in {"running", "build"} /\ q \in preemptedReqs'
                      /\ status'[q] = "RUNNING" => End(q, i) <= numComputedTokens'[q]
    BY <1>1, Zenon DEF FreedOutputs
  <2>1. CASE q = v
    BY <1>1, <1>3, <2>1, Zenon
  <2>2. CASE q # v
    BY <1>1, <1>2, <1>3, <2>2, Zenon DEF FreedOutputs
  <2> QED  BY <2>1, <2>2, Zenon
<1>7. HandedOut'
  BY <1>1, Zenon DEF HandedOut
<1>8. ScheduledOutputs'
  <2> SUFFICES ASSUME NEW q \in Requests, NEW i \in Inputs(q), numScheduledTokens[q] # 0,
                      Overlaps(q, i, numComputedTokens'[q], numScheduledTokens[q])
               PROVE  i \in encoderCache[q]
    BY <1>1, Zenon DEF ScheduledOutputs
  <2>1. numComputedTokens'[q] = numComputedTokens[q]
    BY <1>0, <1>3, Zenon
  <2> QED  BY <1>1, <1>2, <2>1, Zenon DEF ScheduledOutputs
<1> QED  BY <1>4, <1>5, <1>6, <1>7, <1>8, Zenon DEF OutputsInv

\* A scheduled request that goes on: what it frees is computed.
LEMMA UpdateContinueOutputs ==
    ASSUME IInv, OutputsInv, UpdateContinue
    PROVE  OutputsInv'
<1>0. PICK r \in Requests : r = running[reqIndex] /\ status[r] = "RUNNING"
  BY UpdatePlace, Zenon DEF UpdateContinue, InUpdateLoop
<1> DEFINE c == numComputedTokens[r] + numScheduledTokens[r]
           S == Consumed(r, c)
<1>1. /\ cached' = [cached EXCEPT ![r] = cached[r] \ S] /\ freed' = freed \cup ({r} \X S)
      /\ numComputedTokens' = [numComputedTokens EXCEPT ![r] = c]
      /\ UNCHANGED <<status, encoderCache, finishedReqIds, outFinished>>
      /\ pc = "update" /\ pc' = "update"
  BY <1>0, Zenon DEF UpdateContinue, InUpdateLoop, FreeEncoderInputs, queueVars, outputVars
<1>2. IdleUncached /\ FinishedIds /\ CachedOutputs /\ FreedOutputs
  BY <1>1, Zenon DEF OutputsInv
<1>3. /\ cached \in [Requests -> SUBSET (Nat \ {0})] /\ numComputedTokens \in [Requests -> Nat]
      /\ numScheduledTokens \in [Requests -> Nat]
  BY Zenon DEF IInv, TypeOK, ManagersOK
<1>4. /\ cached'[r] = cached[r] \ S /\ numComputedTokens'[r] = c
      /\ numComputedTokens[r] \in Nat /\ c \in Nat /\ numComputedTokens[r] <= c
      /\ \A q \in Requests : q # r => cached'[q] = cached[q] /\ numComputedTokens'[q] = numComputedTokens[q]
  BY <1>1, <1>3
<1>5. \A i \in S : End(r, i) <= c
  BY Zenon DEF Consumed
<1> HIDE DEF c, S
<1>6. IdleUncached' /\ FinishedIds'
  BY <1>1, <1>2, <1>4, Zenon DEF IdleUncached, FinishedIds
<1>7. CachedOutputs'
  BY <1>1, <1>2, <1>4, Zenon DEF CachedOutputs
<1>8. FreedOutputs'
  <2> SUFFICES ASSUME NEW q \in Requests, NEW i \in Inputs(q), <<q, i>> \in freed'
               PROVE  /\ status[q] \in {"RUNNING", "FINISHED"}
                      /\ status[q] = "RUNNING" => End(q, i) <= numComputedTokens'[q]
    BY <1>1, Zenon DEF FreedOutputs
  <2>1. CASE <<q, i>> \in freed /\ q # r
    BY <1>1, <1>2, <1>4, <2>1, Zenon DEF FreedOutputs
  <2>2. CASE <<q, i>> \in freed /\ q = r
    <3>1. End(r, i) <= numComputedTokens[r] /\ End(r, i) \in Nat
      BY <1>0, <1>2, <2>2, InputLemma, Zenon DEF FreedOutputs
    <3> QED  BY <1>0, <1>4, <2>2, <3>1
  <2>3. CASE <<q, i>> \in {r} \X S
    BY <1>0, <1>4, <1>5, <2>3, Zenon
  <2> QED  BY <1>1, <2>1, <2>2, <2>3, Zenon
<1>9. HandedOut' /\ ScheduledOutputs'
  BY <1>1, Zenon DEF HandedOut, ScheduledOutputs
<1> QED  BY <1>6, <1>7, <1>8, <1>9, Zenon DEF OutputsInv

\* A request that stops has consumed all its inputs, or the engine dies.
LEMMA UpdateStopOutputs ==
    ASSUME IInv, OutputsInv, UpdateStop
    PROVE  OutputsInv'
<1>0. PICK r \in Requests : r = running[reqIndex] /\ status[r] = "RUNNING"
  BY UpdatePlace, Zenon DEF UpdateStop, InUpdateLoop
<1> DEFINE c == numComputedTokens[r] + numScheduledTokens[r]
           S == Consumed(r, c)
<1> SUFFICES ASSUME pc' # "dead" PROVE OutputsInv'
  BY Zenon DEF OutputsInv
<1>1. /\ cached' = [cached EXCEPT ![r] = cached[r] \ S] /\ freed' = freed \cup ({r} \X S)
      /\ numComputedTokens' = [numComputedTokens EXCEPT ![r] = c]
      /\ status' = [status EXCEPT ![r] = "FINISHED"]
      /\ finishedReqIds' = finishedReqIds \cup {r}
      /\ UNCHANGED <<encoderCache, outFinished>>
      /\ pc = "update" /\ pc' = "update" /\ S = cached[r]
  BY <1>0, Zenon DEF UpdateStop, InUpdateLoop, FreeEncoderInputs, outputVars
<1>2. IdleUncached /\ FinishedIds /\ CachedOutputs /\ FreedOutputs
  BY <1>1, Zenon DEF OutputsInv
<1>3. /\ cached \in [Requests -> SUBSET (Nat \ {0})] /\ numComputedTokens \in [Requests -> Nat]
      /\ status \in [Requests -> Status]
  BY Zenon DEF IInv, TypeOK, ManagersOK
<1> HIDE DEF c, S
<1>4. /\ cached'[r] = {} /\ status'[r] = "FINISHED"
      /\ \A q \in Requests : q # r => /\ cached'[q] = cached[q] /\ status'[q] = status[q]
                                      /\ numComputedTokens'[q] = numComputedTokens[q]
  BY <1>1, <1>3, Zenon
<1>5. IdleUncached' /\ FinishedIds'
  BY <1>1, <1>2, <1>4, Zenon DEF IdleUncached, FinishedIds
<1>6. CachedOutputs'
  BY <1>1, <1>2, <1>4, Zenon DEF CachedOutputs
<1>7. FreedOutputs'
  <2> SUFFICES ASSUME NEW q \in Requests, NEW i \in Inputs(q), <<q, i>> \in freed'
               PROVE  /\ status'[q] \in {"RUNNING", "FINISHED"}
                      /\ status'[q] = "RUNNING" => End(q, i) <= numComputedTokens'[q]
    BY <1>1, Zenon DEF FreedOutputs
  <2>1. CASE q # r
    BY <1>1, <1>2, <1>4, <2>1 DEF FreedOutputs
  <2>2. CASE q = r
    BY <1>4, <2>2, Zenon
  <2> QED  BY <2>1, <2>2, Zenon
<1>8. HandedOut' /\ ScheduledOutputs'
  BY <1>1, Zenon DEF HandedOut, ScheduledOutputs
<1> QED  BY <1>5, <1>6, <1>7, <1>8, Zenon DEF OutputsInv

\* An abort; with inputs cached it ends the engine.
LEMMA FinishRequestOutputs ==
    ASSUME IInv, OutputsInv, NEW r \in Requests, FinishRequest(r)
    PROVE  OutputsInv'
<1> SUFFICES ASSUME pc' # "dead" PROVE OutputsInv'
  BY Zenon DEF OutputsInv
<1>1. /\ UNCHANGED <<cached, freed, numComputedTokens, encoderCache, outFinished>>
      /\ cached[r] = {} /\ pc = "idle" /\ pc' = "idle"
      /\ status' = [status EXCEPT ![r] = "FINISHED"]
      /\ finishedReqIds' = finishedReqIds \cup {r}
  BY Zenon DEF FinishRequest, FreeRaises, ecmVars, outputVars
<1>2. IdleUncached /\ FinishedIds /\ CachedOutputs /\ FreedOutputs
  BY <1>1, Zenon DEF OutputsInv
<1>3. /\ status'[r] = "FINISHED" /\ \A q \in Requests : q # r => status'[q] = status[q]
  BY <1>1, Zenon DEF IInv, TypeOK
<1>4. IdleUncached' /\ FinishedIds'
  BY <1>1, <1>2, <1>3, Zenon DEF IdleUncached, FinishedIds
<1>5. CachedOutputs' /\ HandedOut' /\ ScheduledOutputs'
  BY <1>1, <1>2, Zenon DEF CachedOutputs, HandedOut, ScheduledOutputs
<1>6. FreedOutputs'
  BY <1>1, <1>2, <1>3, Zenon DEF FreedOutputs
<1> QED  BY <1>4, <1>5, <1>6, Zenon DEF OutputsInv

\* A request under a new id.
LEMMA AddRequestOutputs ==
    ASSUME IInv, OutputsInv, NEW r \in Requests, AddRequest(r), status[r] = "NEW"
    PROVE  OutputsInv'
<1>1. /\ UNCHANGED <<cached, freed, encoderCache, finishedReqIds, outFinished>>
      /\ pc = "idle" /\ pc' = "idle"
      /\ status' = [status EXCEPT ![r] = "WAITING"]
      /\ numComputedTokens' = [numComputedTokens EXCEPT ![r] = 0]
  BY Zenon DEF AddRequest, ecmVars, outputVars
<1>2. IdleUncached /\ FinishedIds /\ CachedOutputs /\ FreedOutputs
  BY <1>1, Zenon DEF OutputsInv
<1>3. /\ status'[r] = "WAITING"
      /\ \A q \in Requests : q # r => status'[q] = status[q] /\ numComputedTokens'[q] = numComputedTokens[q]
  BY <1>1, Zenon DEF IInv, TypeOK
<1>4. IdleUncached' /\ FinishedIds'
  BY <1>1, <1>2, <1>3, Zenon DEF IdleUncached, FinishedIds
<1>5. CachedOutputs' /\ HandedOut' /\ ScheduledOutputs'
  BY <1>1, <1>2, Zenon DEF CachedOutputs, HandedOut, ScheduledOutputs
<1>6. FreedOutputs'
  <2> SUFFICES ASSUME NEW q \in Requests, NEW i \in Inputs(q), <<q, i>> \in freed
               PROVE  /\ status'[q] \in {"RUNNING", "FINISHED"}
                      /\ status'[q] = "RUNNING" => End(q, i) <= numComputedTokens'[q]
    BY <1>1, Zenon DEF FreedOutputs
  <2>1. q # r
    BY <1>1, <1>2, Zenon DEF FreedOutputs
  <2> QED  BY <1>1, <1>2, <1>3, <2>1, Zenon DEF FreedOutputs
<1> QED  BY <1>4, <1>5, <1>6, Zenon DEF OutputsInv

\* Scheduling a running request.
LEMMA ScheduleRunningOutputs ==
    ASSUME IInv, OutputsInv, ScheduleRunning
    PROVE  OutputsInv'
<1>0. PICK r \in Requests : r = running[reqIndex]
  BY RunningStep, Zenon
<1> DEFINE c == numComputedTokens[r]
           m == AtMost(numTokens[r] - c, tokenBudget)
           plan == TryScheduleEncoderInputs(r, c, m, encoderBudget)
           n == plan.tokens
           S == plan.inputs
<1>1. RunningPlan(r) = plan
  BY Zenon DEF RunningPlan
<1>2. /\ Allocate(r, S) /\ numScheduledTokens' = [numScheduledTokens EXCEPT ![r] = n]
      /\ UNCHANGED <<status, numComputedTokens, pc, finishedReqIds, outFinished, outFreed,
                     encoderCache, preemptedReqs>>
  BY <1>0, <1>1, Zenon DEF ScheduleRunning, requestVars, queueVars
<1>3. status[r] = "RUNNING" /\ c \in Nat /\ RunningPlan(r).tokens \in Nat
      /\ c + RunningPlan(r).tokens <= numTokens[r] /\ pc = "running"
  BY <1>0, RunningStep, Zenon
<1>4. c \in Nat /\ m \in Nat /\ encoderBudget \in Int
  <2>1. tokenBudget \in Nat /\ numTokens[r] \in Nat /\ encoderBudget \in Int
    BY Zenon DEF IInv, TypeOK
  <2> QED  BY <1>3, <2>1 DEF AtMost
<1> HIDE DEF m
<1>5. /\ \A i \in S : i \in Inputs(r) /\ i \in encoderCache[r] /\ End(r, i) > c
      /\ \A i \in Inputs(r) : n # 0 /\ Overlaps(r, i, c, n) => i \in cached[r] \/ i \in S
  BY <1>4, PlanOutputs, Zenon
<1> HIDE DEF plan
<1>6. \A i \in Inputs(r) : <<r, i>> \in freed => End(r, i) <= c
  BY <1>3, Zenon DEF OutputsInv, FreedOutputs
<1>7. /\ status' = [status EXCEPT ![r] = "RUNNING"]
      /\ numComputedTokens' = [numComputedTokens EXCEPT ![r] = c]
  BY <1>2, <1>3, Zenon DEF IInv, TypeOK
<1> HIDE DEF c, n, S
<1>8. pc \in {"running", "waiting"} /\ pc' = pc /\ c \in Nat /\ status[r] # "FINISHED"
  BY <1>2, <1>3, <1>4, Zenon
<1> QED  BY <1>2, <1>5, <1>6, <1>7, <1>8, ScheduleOutputs, Zenon

\* Scheduling a waiting request: none of its inputs is being freed.
LEMMA ScheduleWaitingOutputs ==
    ASSUME IInv, OutputsInv, ScheduleWaiting
    PROVE  OutputsInv'
<1>0. PICK r \in Requests : r = waiting[1]
  BY WaitingStep, Zenon DEF ScheduleWaiting
<1> DEFINE c == Len(PrefixHits(r)) * BlockSize
           m == AtMost(numTokens[r] - c, tokenBudget)
           plan == TryScheduleEncoderInputs(r, c, m, encoderBudget)
           n == plan.tokens
           S == plan.inputs
<1>1. WaitingPlan(r) = plan
  BY Zenon DEF WaitingPlan
<1>2. /\ Allocate(r, S) /\ numScheduledTokens' = [numScheduledTokens EXCEPT ![r] = n]
      /\ status' = [status EXCEPT ![r] = "RUNNING"]
      /\ numComputedTokens' = [numComputedTokens EXCEPT ![r] = c]
      /\ UNCHANGED <<pc, finishedReqIds, outFinished, outFreed, encoderCache, preemptedReqs>>
      /\ InWaitingLoop
  BY <1>0, <1>1, Zenon DEF ScheduleWaiting
<1>3. /\ status[r] \in {"WAITING", "PREEMPTED"} /\ c \in Nat /\ WaitingPlan(r).tokens \in Nat
      /\ c + WaitingPlan(r).tokens <= numTokens[r] /\ pc = "waiting"
  BY <1>0, <1>2, WaitingStep, Zenon
<1> HIDE DEF c
<1>4. m \in Nat /\ encoderBudget \in Int
  <2>1. tokenBudget \in Nat /\ numTokens[r] \in Nat /\ encoderBudget \in Int
    BY Zenon DEF IInv, TypeOK
  <2> QED  BY <1>3, <2>1 DEF AtMost
<1> HIDE DEF m
<1>5. /\ \A i \in S : i \in Inputs(r) /\ i \in encoderCache[r] /\ End(r, i) > c
      /\ \A i \in Inputs(r) : n # 0 /\ Overlaps(r, i, c, n) => i \in cached[r] \/ i \in S
  BY <1>3, <1>4, PlanOutputs, Zenon
<1>6. \A i \in Inputs(r) : <<r, i>> \notin freed
  BY <1>3, Zenon DEF OutputsInv, FreedOutputs
<1> HIDE DEF plan, n, S
<1>7. pc \in {"running", "waiting"} /\ pc' = pc /\ c \in Nat /\ status[r] # "FINISHED"
  BY <1>2, <1>3, Zenon
<1> QED  BY <1>2, <1>5, <1>6, <1>7, ScheduleOutputs, Zenon

\* The steps that do not touch the manager.
LEMMA QuietOutputs ==
    ASSUME IInv, OutputsInv,
           \/ UpdateUnscheduled \/ EndUpdate \/ ResetCache \/ UNCHANGED vars
           \/ \E r \in Requests, S \in SUBSET (Nat \ {0}) : HandleEncoderResult(r, S)
    PROVE  OutputsInv'
<1>1. /\ UNCHANGED <<cached, freed, status, numComputedTokens, finishedReqIds>>
      /\ \A r \in Requests : encoderCache[r] \subseteq encoderCache'[r]
      /\ outFinished' = outFinished \/ outFinished' = {}
      /\ \/ pc = "update" /\ pc' \in {"update", "idle"}
         \/ UNCHANGED <<pc, outFreed, preemptedReqs, numScheduledTokens>>
  <2>1. CASE UpdateUnscheduled
    BY <2>1, Zenon DEF UpdateUnscheduled, InUpdateLoop, ecmVars, requestVars, queueVars, outputVars
  <2>2. CASE EndUpdate
    BY <2>2, Zenon DEF EndUpdate, ForgetCall, ecmVars, requestVars
  <2>3. CASE ResetCache
    BY <2>3, Zenon DEF ResetCache, ecmVars, schedVars, requestVars, queueVars, localVars, outputVars
  <2>4. CASE UNCHANGED vars
    BY <2>4, Zenon DEF vars, ecmVars, schedVars, requestVars, queueVars, localVars, outputVars
  <2>5. ASSUME NEW r \in Requests, NEW S \in SUBSET (Nat \ {0}), HandleEncoderResult(r, S)
        PROVE  <1>1!1 /\ <1>1!2 /\ <1>1!3 /\ <1>1!4
    <3>1. /\ UNCHANGED <<cached, freed, status, numComputedTokens, finishedReqIds, outFinished>>
          /\ UNCHANGED <<pc, outFreed, preemptedReqs, numScheduledTokens>>
          /\ encoderCache' = [encoderCache EXCEPT ![r] = @ \cup S]
      BY <2>5, Zenon DEF HandleEncoderResult, ecmVars, requestVars, queueVars, localVars, outputVars
    <3>2. \A q \in Requests : encoderCache[q] \subseteq encoderCache'[q]
      BY <3>1, Zenon DEF IInv, TypeOK
    <3> QED  BY <3>1, <3>2, Zenon
  <2> QED  BY <2>1, <2>2, <2>3, <2>4, <2>5, Zenon
<1>2. finishedReqIds' \cup outFinished' \subseteq finishedReqIds \cup outFinished
  BY <1>1, Zenon
<1>3. CASE pc = "update" /\ pc' \in {"update", "idle"}
  BY <1>1, <1>2, <1>3, FrameOutputs, Zenon
<1>4. CASE UNCHANGED <<pc, outFreed, preemptedReqs, numScheduledTokens>>
  BY <1>1, <1>2, <1>4, FrameOutputs, Zenon
<1> QED  BY <1>1, <1>3, <1>4, Zenon

\* Every step preserves it, if no id is used twice.
LEMMA NextOutputs ==
    ASSUME ~ReuseRequestIds
    PROVE  IInv /\ OutputsInv /\ [Next]_vars => OutputsInv'
<1> SUFFICES ASSUME IInv, OutputsInv, [Next]_vars PROVE OutputsInv'
  BY Zenon
<1>1. CASE Environment
  <2>1. ASSUME NEW r \in Requests, status[r] = "NEW" \/ ReuseRequestIds, AddRequest(r) PROVE OutputsInv'
    BY <2>1, AddRequestOutputs, Zenon
  <2>2. ASSUME NEW r \in Requests, FinishRequest(r) PROVE OutputsInv'
    BY <2>2, FinishRequestOutputs, Zenon
  <2>3. ASSUME NEW r \in Requests, NEW S \in SUBSET Inputs(r), HandleEncoderResult(r, S)
        PROVE  OutputsInv'
    <3>1. S \in SUBSET (Nat \ {0})
      BY RequestAssumption DEF Inputs
    <3> QED  BY <2>3, <3>1, QuietOutputs, Zenon
  <2>4. CASE ResetCache
    BY <2>4, QuietOutputs, Zenon
  <2> QED  BY <1>1, <2>1, <2>2, <2>3, <2>4, Zenon DEF Environment
<1>2. CASE Schedule
  BY <1>2, LoopOutputs, ScheduleRunningOutputs, ScheduleWaitingOutputs, PreemptOutputs,
     MakeOutputOutputs, Zenon DEF Schedule
<1>3. CASE Update
  BY <1>3, ExecuteModelOutputs, UpdateContinueOutputs, UpdateStopOutputs, QuietOutputs, Zenon
     DEF Update
<1>4. CASE UNCHANGED vars
  BY <1>4, QuietOutputs, Zenon
<1> QED  BY <1>1, <1>2, <1>3, <1>4, Zenon DEF Next

\* The outputs invariant holds of every reachable state, if no id is used twice.
THEOREM OutputsInvariance ==
    ASSUME ~ReuseRequestIds
    PROVE  Spec => []OutputsInv
<1>1. IInv /\ OutputsInv /\ [Next]_vars => OutputsInv'
  BY NextOutputs, Zenon
<1> QED  BY <1>1, InitOutputs, Invariance, PTL DEF Spec

\* EncoderOutputsPresent, for every set of requests and inputs: the assertion of
\* _gather_encoder_outputs never fails, if no id is used twice and the model
\* runner shares the engine's dictionary of results (one worker).
THEOREM OutputsArePresent ==
    ASSUME ~ReuseRequestIds
    PROVE  Spec => []EncoderOutputsPresent
<1>1. IInv /\ OutputsInv => EncoderOutputsPresent
  <2> SUFFICES ASSUME IInv, OutputsInv, pc = "output", NEW r \in Requests, NEW i \in InputsToGather(r)
               PROVE  i \in EncoderCacheAfterUpdateStates[r]
    BY Zenon DEF EncoderOutputsPresent
  <2>1. /\ i \in Inputs(r) /\ numScheduledTokens[r] # 0
        /\ Overlaps(r, i, numComputedTokens[r], numScheduledTokens[r])
    BY Zenon DEF InputsToGather
  <2>2. status[r] = "RUNNING"
    BY <2>1, Zenon DEF IInv, CallState
  <2>3. i \in encoderCache[r]
    BY <2>1, Zenon DEF OutputsInv, ScheduledOutputs
  <2>4. r \notin outFinished
    BY <2>2, Zenon DEF OutputsInv, FinishedIds
  <2>5. <<r, i>> \notin outFreed
    <3>1. End(r, i) > numComputedTokens[r] /\ End(r, i) \in Nat /\ numComputedTokens[r] \in Nat
      BY <2>1, InputLemma, Zenon DEF Overlaps, IInv, TypeOK
    <3>2. ~(End(r, i) <= numComputedTokens[r])
      BY <3>1
    <3> QED  BY <2>1, <2>2, <3>2, Zenon DEF OutputsInv, HandedOut
  <2> QED  BY <2>3, <2>4, <2>5, Zenon DEF EncoderCacheAfterUpdateStates
<1> QED  BY <1>1, Invariance, OutputsInvariance, PTL

-----------------------------------------------------------------------------
(* The system implements the Scheduler. *)

\* What the encoder process sends the engine: a request with some of its inputs.
EncoderResults == UNION {[req : {r}, inputs : SUBSET Inputs(r)] : r \in Requests}

\* The types of the results on their way.
MessagesOK ==
    /\ encResult \in EncoderResults \cup {NoResult}
    /\ resultQueue \in Seq(EncoderResults)

\* m submits r.
IsAdd(m, r) == m.type = "add" /\ m.req = r

\* Without reuse an id is submitted once: until the client has sent it to the
\* engine, and while that message is under way, the scheduler has not seen it,
\* and it is under way once.
SubmittedOnce ==
    \A r \in Requests :
        /\ sent[r] \in {"no", "encoder"} =>
                /\ status[r] = "NEW"
                /\ \A k \in DOMAIN engineInput : ~IsAdd(engineInput[k], r)
        /\ \A k \in DOMAIN engineInput : IsAdd(engineInput[k], r) =>
                /\ status[r] = "NEW"
                /\ \A l \in DOMAIN engineInput : IsAdd(engineInput[l], r) => l = k

\* The invariant of the composition, besides the scheduler's.
SystemInv == SystemTypeOK /\ MessagesOK /\ (~ReuseRequestIds => SubmittedOnce)

\* The request at the end of running, and the one at the head of waiting.
LEMMA QueueEnds ==
    ASSUME IInv
    PROVE  /\ reqIndex <= Len(running) =>
                running[Len(running)] \in Requests /\ running[Len(running)] \in Range(running)
           /\ waiting # <<>> => waiting[1] \in Requests /\ waiting[1] \in Range(waiting)
<1>1. running \in Seq(Requests) /\ waiting \in Seq(Requests) /\ reqIndex \in Nat \ {0}
  BY Zenon DEF IInv, TypeOK
<1>2. ASSUME reqIndex <= Len(running)
      PROVE  running[Len(running)] \in Requests /\ running[Len(running)] \in Range(running)
  <2>1. Len(running) \in DOMAIN running /\ running[Len(running)] \in Requests
    BY <1>1, <1>2
  <2> QED  BY <2>1, Zenon DEF Range
<1>3. ASSUME waiting # <<>>
      PROVE  waiting[1] \in Requests /\ waiting[1] \in Range(waiting)
  <2>1. 1 \in DOMAIN waiting /\ waiting[1] \in Requests
    BY <1>1, <1>3
  <2> QED  BY <2>1, Zenon DEF Range
<1> QED  BY <1>2, <1>3, Zenon

\* A request that the scheduler has not seen stays so until it is added.
LEMMA NewStays ==
    ASSUME IInv, NEW r \in Requests, status[r] = "NEW",
           \/ \E q \in Requests : \/ q # r /\ AddRequest(q)
                                  \/ FinishRequest(q)
                                  \/ \E S \in SUBSET Inputs(q) : HandleEncoderResult(q, S)
           \/ Schedule \/ Update
    PROVE  status'[r] = "NEW"
<1>0. status \in [Requests -> Status]
  BY Zenon DEF IInv, TypeOK
<1>1. CASE status' = status
  BY <1>1, Zenon
<1>2. ASSUME NEW q \in Requests, q # r, NEW x, status' = [status EXCEPT ![q] = x]
      PROVE  status'[r] = "NEW"
  BY <1>0, <1>2, Zenon
<1>3. ASSUME NEW q \in Requests,
             \/ q # r /\ AddRequest(q)
             \/ FinishRequest(q)
             \/ \E S \in SUBSET Inputs(q) : HandleEncoderResult(q, S)
      PROVE  status'[r] = "NEW"
  <2>1. CASE q # r /\ AddRequest(q)
    BY <1>2, <2>1, Zenon DEF AddRequest
  <2>2. CASE FinishRequest(q)
    <3>1. q # r /\ status' = [status EXCEPT ![q] = "FINISHED"]
      BY <2>2, Zenon DEF FinishRequest
    <3> QED  BY <1>2, <3>1, Zenon
  <2>3. CASE \E S \in SUBSET Inputs(q) : HandleEncoderResult(q, S)
    BY <1>1, <2>3, Zenon DEF HandleEncoderResult, requestVars
  <2> QED  BY <1>3, <2>1, <2>2, <2>3, Zenon
<1>4. CASE Schedule
  <2>1. CASE Preempt
    <3> DEFINE v == running[Len(running)]
    <3>1. /\ pc = "running" /\ reqIndex <= Len(running)
          /\ status' = [status EXCEPT ![v] = "PREEMPTED"]
      BY <2>1, Zenon DEF Preempt, InRunningLoop
    <3>2. v \in Requests /\ v \in Range(running)
      BY <3>1, QueueEnds, Zenon
    <3>3. status[v] = "RUNNING"
      BY <3>1, <3>2, Zenon DEF IInv, QueuesMatchStatus, Active
    <3> QED  BY <1>2, <3>1, <3>2, <3>3, Zenon
  <2>2. CASE ScheduleWaiting
    <3> DEFINE v == waiting[1]
    <3>1. /\ pc = "waiting" /\ waiting # <<>>
          /\ status' = [status EXCEPT ![v] = "RUNNING"]
      BY <2>2, Zenon DEF ScheduleWaiting, InWaitingLoop
    <3>2. v \in Requests /\ v \in Range(waiting)
      BY <3>1, QueueEnds, Zenon
    <3>3. status[v] # "NEW"
      BY <3>1, <3>2, Zenon DEF IInv, QueuesMatchStatus
    <3> QED  BY <1>2, <3>1, <3>2, <3>3, Zenon
  <2>3. ASSUME \/ BeginSchedule \/ SkipRunning \/ ScheduleRunning \/ EndRunning
               \/ BlockedWaiting \/ EndWaiting \/ MakeOutput \/ DropOutput
        PROVE  status' = status
    <3>1. CASE BeginSchedule \/ SkipRunning \/ ScheduleRunning \/ EndRunning
      BY <3>1, Zenon DEF BeginSchedule, SkipRunning, ScheduleRunning, EndRunning, requestVars
    <3>2. CASE BlockedWaiting \/ EndWaiting \/ MakeOutput \/ DropOutput
      BY <3>2, Zenon DEF BlockedWaiting, EndWaiting, MakeOutput, DropOutput, requestVars
    <3> QED  BY <2>3, <3>1, <3>2, Zenon
  <2> QED  BY <1>4, <2>1, <2>2, <2>3, Zenon DEF Schedule
<1>5. CASE Update
  <2>1. CASE UpdateStop
    <3> DEFINE v == running[reqIndex]
    <3>1. InUpdateLoop /\ status' = [status EXCEPT ![v] = "FINISHED"]
      BY <2>1, Zenon DEF UpdateStop
    <3>2. v \in Requests /\ status[v] = "RUNNING"
      BY <3>1, UpdatePlace, Zenon DEF InUpdateLoop
    <3> QED  BY <1>2, <3>1, <3>2, Zenon
  <2>2. ASSUME ExecuteModel \/ UpdateUnscheduled \/ UpdateContinue \/ EndUpdate
        PROVE  status' = status
    BY <2>2, Zenon DEF ExecuteModel, UpdateUnscheduled, UpdateContinue, EndUpdate, requestVars
  <2> QED  BY <1>5, <2>1, <2>2, Zenon DEF Update
<1> QED  BY <1>3, <1>4, <1>5, Zenon

\* The head of the engine's input queue, and what is left behind it.
LEMMA HeadMessage ==
    ASSUME SystemTypeOK, engineInput # <<>>
    PROVE  /\ engineInput[1].type \in {"add", "abort"} /\ engineInput[1].req \in Requests
           /\ 1 \in DOMAIN engineInput
           /\ Tail(engineInput) \in Seq([type : {"add", "abort"}, req : Requests])
           /\ \A k \in DOMAIN Tail(engineInput) :
                k + 1 \in DOMAIN engineInput /\ k + 1 # 1 /\ Tail(engineInput)[k] = engineInput[k + 1]
<1>1. engineInput \in Seq([type : {"add", "abort"}, req : Requests])
  BY Zenon DEF SystemTypeOK
<1>2. ASSUME NEW S, NEW s \in Seq(S), s # <<>>
      PROVE  /\ 1 \in DOMAIN s /\ s[1] \in S /\ Tail(s) \in Seq(S)
             /\ \A k \in DOMAIN Tail(s) : k + 1 \in DOMAIN s /\ k + 1 # 1 /\ Tail(s)[k] = s[k + 1]
  <2>1. /\ Tail(s) \in Seq(S) /\ Len(Tail(s)) = Len(s) - 1 /\ Len(s) \in Nat \ {0}
        /\ \A k \in 1 .. Len(s) - 1 : Tail(s)[k] = s[k + 1]
    BY <1>2
  <2>2. DOMAIN Tail(s) = 1 .. Len(s) - 1 /\ DOMAIN s = 1 .. Len(s)
    BY <2>1
  <2>3. 1 \in DOMAIN s /\ s[1] \in S
    BY <2>1
  <2> QED  BY <2>1, <2>2, <2>3
<1> DEFINE M == [type : {"add", "abort"}, req : Requests]
<1>3. \A m \in M : m.type \in {"add", "abort"} /\ m.req \in Requests
  BY Zenon
<1> HIDE DEF M
<1>4. engineInput \in Seq(M)
  BY <1>1, Zenon DEF M
<1>5. /\ 1 \in DOMAIN engineInput /\ engineInput[1] \in M /\ Tail(engineInput) \in Seq(M)
      /\ \A k \in DOMAIN Tail(engineInput) :
            k + 1 \in DOMAIN engineInput /\ k + 1 # 1 /\ Tail(engineInput)[k] = engineInput[k + 1]
  BY <1>2, <1>4, Zenon
<1> QED  BY <1>3, <1>5, Zenon DEF M

\* The head of encoder_result_queue: inputs of one request.
LEMMA HeadResult ==
    ASSUME MessagesOK, resultQueue # <<>>
    PROVE  resultQueue[1].req \in Requests /\ resultQueue[1].inputs \in SUBSET Inputs(resultQueue[1].req)
<1>1. resultQueue[1] \in EncoderResults
  BY DEF MessagesOK
<1>2. PICK r \in Requests : resultQueue[1] \in [req : {r}, inputs : SUBSET Inputs(r)]
  BY <1>1, Zenon DEF EncoderResults
<1> QED  BY <1>2, Zenon

\* A message the engine takes from its queue is a step of the scheduler or none.
LEMMA HandleIsNext ==
    ASSUME SystemInv, HandleClientRequest
    PROVE  Next \/ UNCHANGED vars
<1> DEFINE m == engineInput[1]
<1>0. engineInput # <<>>
  BY Zenon DEF HandleClientRequest
<1>1. m.type \in {"add", "abort"} /\ m.req \in Requests /\ 1 \in DOMAIN engineInput
  BY <1>0, HeadMessage, Zenon DEF SystemInv
<1>2. CASE m.type = "add" /\ AddRequest(m.req)
  <2>1. status[m.req] = "NEW" \/ ReuseRequestIds
    BY <1>1, <1>2, ReuseAssumption, Zenon DEF SystemInv, SubmittedOnce, IsAdd
  <2> QED  BY <1>1, <1>2, <2>1, Zenon DEF Next, Environment
<1>3. CASE FinishRequest(m.req)
  BY <1>1, <1>3, Zenon DEF Next, Environment
<1> QED  BY <1>2, <1>3, Zenon DEF HandleClientRequest

\* Every step of the system is a step of the scheduler or leaves it alone.
LEMMA SystemStep ==
    ASSUME SystemInv, [SystemNext]_systemVars
    PROVE  [Next]_vars
<1>1. CASE Client
  BY <1>1, Zenon DEF Client, SendToEncoder, SendToEngine, SendAbort
<1>2. CASE EncoderProcess
  BY <1>2, Zenon DEF EncoderProcess, EncoderReceive, EncoderStep, EncoderPut
<1>3. CASE TakeResult
  <2>1. HandleEncoderResult(resultQueue[1].req, resultQueue[1].inputs) /\ resultQueue # <<>>
    BY <1>3, Zenon DEF TakeResult
  <2>2. resultQueue[1].req \in Requests /\ resultQueue[1].inputs \in SUBSET Inputs(resultQueue[1].req)
    BY <2>1, HeadResult, Zenon DEF SystemInv
  <2> QED  BY <2>1, <2>2, Zenon DEF Next, Environment
<1>4. CASE EngineProcess
  <2>1. CASE EngineTop \/ EngineInput
    BY <2>1, HandleIsNext, Zenon DEF EngineTop, EngineInput
  <2>2. CASE EngineResults \/ EnginePoll
    BY <1>3, <2>2, Zenon DEF EngineResults, EnginePoll
  <2>3. CASE EngineSchedule \/ EngineRetry
    BY <2>3, Zenon DEF EngineSchedule, EngineRetry, Next, Schedule
  <2>4. CASE EngineExecute \/ EngineUpdate
    BY <2>4, Zenon DEF EngineExecute, EngineUpdate, Next, Update
  <2> QED  BY <1>4, <2>1, <2>2, <2>3, <2>4, Zenon DEF EngineProcess
<1>5. CASE UNCHANGED systemVars
  BY <1>5, Zenon DEF systemVars
<1> QED  BY <1>1, <1>2, <1>4, <1>5 DEF SystemNext

\* The initial state.
LEMMA InitSystem == SystemInit => SystemInv
<1> SUFFICES ASSUME SystemInit PROVE SystemInv
  BY Zenon
<1>1. SystemTypeOK
  BY ResultQueueAssumption DEF SystemInit, EncInit, SystemTypeOK
<1>2. MessagesOK
  BY DEF SystemInit, EncInit, MessagesOK
<1>3. SubmittedOnce
  BY DEF SystemInit, Init, SubmittedOnce
<1> QED  BY <1>1, <1>2, <1>3, Zenon DEF SystemInv

\* A step that sends no message and takes none.
LEMMA OnceFrame ==
    ASSUME SubmittedOnce, UNCHANGED <<sent, engineInput>>,
           \A r \in Requests : status[r] = "NEW" => status'[r] = "NEW"
    PROVE  SubmittedOnce'
BY Zenon DEF SubmittedOnce

\* A message sent to the engine is the last of its queue.
LEMMA SentMessage ==
    ASSUME SystemTypeOK, NEW r \in Requests, NEW t \in {"add", "abort"}
    PROVE  LET m == [type |-> t, req |-> r]
               q == Append(engineInput, m)
               n == Len(engineInput) + 1
           IN  /\ q \in Seq([type : {"add", "abort"}, req : Requests])
               /\ n \notin DOMAIN engineInput /\ q[n] = m
               /\ DOMAIN q = DOMAIN engineInput \cup {n}
               /\ \A k \in DOMAIN engineInput : q[k] = engineInput[k]
<1> DEFINE M == [type : {"add", "abort"}, req : Requests]
           m == [type |-> t, req |-> r]
<1>1. m \in M
  BY Zenon
<1>2. engineInput \in Seq(M)
  BY Zenon DEF SystemTypeOK
<1> HIDE DEF M, m
<1>3. /\ Append(engineInput, m) \in Seq(M) /\ Len(Append(engineInput, m)) = Len(engineInput) + 1
      /\ Len(engineInput) \in Nat /\ Append(engineInput, m)[Len(engineInput) + 1] = m
      /\ \A k \in 1 .. Len(engineInput) : Append(engineInput, m)[k] = engineInput[k]
  BY <1>1, <1>2
<1>4. DOMAIN engineInput = 1 .. Len(engineInput)
      /\ DOMAIN Append(engineInput, m) = 1 .. Len(engineInput) + 1
  BY <1>2, <1>3
<1>5. DOMAIN Append(engineInput, m) = DOMAIN engineInput \cup {Len(engineInput) + 1}
  BY <1>3, <1>4
<1>6. Len(engineInput) + 1 \notin DOMAIN engineInput
  BY <1>3, <1>4
<1> QED  BY <1>3, <1>4, <1>5, <1>6, Zenon DEF M, m

\* The client's steps.
LEMMA ClientSystem ==
    ASSUME SystemInv, NEW r \in Requests,
           SendToEncoder(r) \/ SendToEngine(r) \/ SendAbort(r)
    PROVE  SystemInv'
<1>0. /\ SystemTypeOK /\ MessagesOK /\ (~ReuseRequestIds => SubmittedOnce)
      /\ sent \in [Requests -> {"no", "encoder", "both", "aborted"}]
      /\ encoderInput \in Seq(Requests)
  BY Zenon DEF SystemInv, SystemTypeOK
<1>a. UNCHANGED <<encVars, loop, status>>
  BY Zenon DEF SendToEncoder, SendToEngine, SendAbort, vars, schedVars, requestVars
<1>1. MessagesOK'
  BY <1>0, <1>a, Zenon DEF MessagesOK, encVars
<1>2. CASE SendToEncoder(r)
  <2>1. /\ sent' = [sent EXCEPT ![r] = "encoder"] /\ encoderInput' = Append(encoderInput, r)
        /\ UNCHANGED engineInput /\ (~ReuseRequestIds => sent[r] = "no")
    BY <1>2, Zenon DEF SendToEncoder, MaySend
  <2>2. SystemTypeOK'
    BY <1>0, <1>a, <2>1 DEF SystemTypeOK, encVars
  <2>3. \A q \in Requests : q # r => sent'[q] = sent[q]
    BY <1>0, <2>1, Zenon
  <2>4. ASSUME ~ReuseRequestIds PROVE SubmittedOnce'
    BY <1>0, <1>a, <2>1, <2>3, <2>4 DEF SubmittedOnce
  <2> QED  BY <1>1, <2>2, <2>4, Zenon DEF SystemInv
<1>3. CASE SendToEngine(r) \/ SendAbort(r)
  <2>1. PICK t \in {"add", "abort"}, s \in {"both", "aborted"} :
          /\ sent' = [sent EXCEPT ![r] = s]
          /\ engineInput' = Append(engineInput, [type |-> t, req |-> r])
          /\ UNCHANGED encoderInput
          /\ t = "add" => sent[r] = "encoder"
    BY <1>3, Zenon DEF SendToEngine, SendAbort
  <2> DEFINE m == [type |-> t, req |-> r]
             n == Len(engineInput) + 1
  <2>2. /\ engineInput' \in Seq([type : {"add", "abort"}, req : Requests])
        /\ n \notin DOMAIN engineInput /\ engineInput'[n] = m
        /\ DOMAIN engineInput' = DOMAIN engineInput \cup {n}
        /\ \A k \in DOMAIN engineInput : engineInput'[k] = engineInput[k]
    <3> DEFINE q == Append(engineInput, m)
    <3>1. /\ q \in Seq([type : {"add", "abort"}, req : Requests])
          /\ n \notin DOMAIN engineInput /\ q[n] = m
          /\ DOMAIN q = DOMAIN engineInput \cup {n}
          /\ \A k \in DOMAIN engineInput : q[k] = engineInput[k]
      BY <1>0, SentMessage, Zenon
    <3>2. engineInput' = q
      BY <2>1, Zenon
    <3> HIDE DEF q
    <3> QED  BY <3>1, <3>2, Zenon
  <2>3. SystemTypeOK'
    BY <1>0, <1>a, <2>1, <2>2, Zenon DEF SystemTypeOK, encVars
  <2>4. /\ sent'[r] \notin {"no", "encoder"}
        /\ \A q \in Requests : q # r => sent'[q] = sent[q]
    BY <1>0, <2>1, Zenon
  <2>5. \A q \in Requests : IsAdd(m, q) => q = r /\ sent[r] = "encoder"
    BY <2>1, Zenon DEF IsAdd
  <2> HIDE DEF m, n
  <2>6. ASSUME ~ReuseRequestIds, NEW q \in Requests
        PROVE  /\ sent'[q] \in {"no", "encoder"} =>
                    /\ status'[q] = "NEW"
                    /\ \A k \in DOMAIN engineInput' : ~IsAdd(engineInput'[k], q)
               /\ \A k \in DOMAIN engineInput' : IsAdd(engineInput'[k], q) =>
                    /\ status'[q] = "NEW"
                    /\ \A l \in DOMAIN engineInput' : IsAdd(engineInput'[l], q) => l = k
    <3>1. SubmittedOnce /\ status' = status
      BY <1>0, <1>a, <2>6
    <3>2. CASE IsAdd(m, q)
      <4>1. q = r /\ sent[q] = "encoder"
        BY <2>5, <3>2, Zenon
      <4>2. status[q] = "NEW" /\ \A k \in DOMAIN engineInput : ~IsAdd(engineInput[k], q)
        BY <3>1, <4>1, Zenon DEF SubmittedOnce
      <4>3. \A k \in DOMAIN engineInput' : IsAdd(engineInput'[k], q) => k = n
        BY <2>2, <4>2, Zenon
      <4> QED  BY <2>4, <3>1, <4>1, <4>2, <4>3, Zenon
    <3>3. CASE ~IsAdd(m, q)
      <4>1. \A k \in DOMAIN engineInput' : IsAdd(engineInput'[k], q) =>
                k \in DOMAIN engineInput /\ IsAdd(engineInput[k], q)
        BY <2>2, <3>3, Zenon
      <4>2. sent'[q] \in {"no", "encoder"} => sent[q] \in {"no", "encoder"}
        BY <2>4, Zenon
      <4> QED  BY <3>1, <4>1, <4>2, Zenon DEF SubmittedOnce
    <3> QED  BY <3>2, <3>3, Zenon
  <2> QED  BY <1>1, <2>3, <2>6, Zenon DEF SystemInv, SubmittedOnce
<1> QED  BY <1>2, <1>3, Zenon

\* The encoder process: its results are inputs of the request it took from its
\* queue, and the put keeps the bound of the queue.
LEMMA EncoderSystem ==
    ASSUME SystemInv, EncoderProcess
    PROVE  SystemInv'
<1>0. /\ SystemTypeOK /\ MessagesOK /\ (~ReuseRequestIds => SubmittedOnce)
      /\ encoderInput \in Seq(Requests) /\ encWaiting \in Seq(Requests)
      /\ encRunning \in Seq(Requests) /\ Len(resultQueue) <= ResultQueueSize
      /\ encResult \in EncoderResults \cup {NoResult} /\ resultQueue \in Seq(EncoderResults)
  BY Zenon DEF SystemInv, SystemTypeOK, MessagesOK
<1>a. UNCHANGED <<sent, engineInput, loop, status>>
  BY Zenon DEF EncoderProcess, EncoderReceive, EncoderStep, EncoderPut, vars, schedVars, requestVars,
     clientVars
<1>b. ~ReuseRequestIds => SubmittedOnce'
  BY <1>0, <1>a, OnceFrame
<1>1. CASE EncoderReceive
  <2>1. /\ encoderInput # <<>> /\ encoderInput' = Tail(encoderInput)
        /\ encWaiting' = Append(encWaiting, encoderInput[1])
        /\ UNCHANGED <<encRunning, encResult, resultQueue>>
    BY <1>1, Zenon DEF EncoderReceive, EncAddRequest
  <2>2. encoderInput' \in Seq(Requests) /\ encWaiting' \in Seq(Requests)
    BY <1>0, <2>1
  <2> QED  BY <1>0, <1>a, <1>b, <2>1, <2>2 DEF SystemInv, SystemTypeOK, MessagesOK
<1>2. CASE EncoderStep
  <2> DEFINE r == encWaiting[1]
             S == EncInputsToSchedule(r)
             I == {i \in S : \A j \in S : j <= i}
  <2>1. /\ encWaiting # <<>> /\ encWaiting' = Tail(encWaiting)
        /\ encRunning' = Append(encRunning, r) /\ encResult' = [req |-> r, inputs |-> I]
        /\ UNCHANGED <<encoderInput, resultQueue>>
    BY <1>2, Zenon DEF EncoderStep, EncStep, CanEncode, ExecuteEncoder, clientVars
  <2>2. r \in Requests /\ encWaiting' \in Seq(Requests) /\ encRunning' \in Seq(Requests)
    BY <1>0, <2>1
  <2>3. I \in SUBSET Inputs(r)
    BY Zenon DEF EncInputsToSchedule
  <2> HIDE DEF r, I
  <2>4. [req |-> r, inputs |-> I] \in EncoderResults
    <3>1. [req |-> r, inputs |-> I] \in [req : {r}, inputs : SUBSET Inputs(r)]
      BY <2>3, Zenon
    <3> QED  BY <2>2, <3>1, Zenon DEF EncoderResults
  <2> QED  BY <1>0, <1>a, <1>b, <2>1, <2>2, <2>4 DEF SystemInv, SystemTypeOK, MessagesOK
<1>3. CASE EncoderPut
  <2>1. /\ encResult # NoResult /\ Len(resultQueue) < ResultQueueSize
        /\ resultQueue' = Append(resultQueue, encResult) /\ encResult' = NoResult
        /\ UNCHANGED <<encoderInput, encWaiting, encRunning>>
    BY <1>3, Zenon DEF EncoderPut, EncPut, clientVars
  <2>2. resultQueue' \in Seq(EncoderResults) /\ Len(resultQueue') <= ResultQueueSize
    BY <1>0, <2>1, ResultQueueAssumption
  <2> QED  BY <1>0, <1>a, <1>b, <2>1, <2>2 DEF SystemInv, SystemTypeOK, MessagesOK
<1> QED  BY <1>1, <1>2, <1>3 DEF EncoderProcess

\* A message the engine takes: an id that is added leaves the ones not seen yet.
LEMMA HandleSystem ==
    ASSUME IInv, SystemInv, HandleClientRequest,
           loop' \in {"top", "input", "results", "step", "spin", "polled"}
    PROVE  SystemInv'
<1> DEFINE m == engineInput[1]
           q == Tail(engineInput)
<1>0. /\ engineInput # <<>> /\ engineInput' = q
      /\ UNCHANGED <<encVars, sent, encoderInput>>
  BY Zenon DEF HandleClientRequest
<1>1. /\ m.type \in {"add", "abort"} /\ m.req \in Requests /\ 1 \in DOMAIN engineInput
      /\ q \in Seq([type : {"add", "abort"}, req : Requests])
      /\ \A k \in DOMAIN q : k + 1 \in DOMAIN engineInput /\ k + 1 # 1 /\ q[k] = engineInput[k + 1]
  BY <1>0, HeadMessage, Zenon DEF SystemInv
<1>2. SystemTypeOK'
  BY <1>0, <1>1, Zenon DEF SystemInv, SystemTypeOK, encVars
<1>3. MessagesOK'
  BY <1>0, Zenon DEF SystemInv, MessagesOK, encVars
<1>4. ASSUME ~ReuseRequestIds, NEW r \in Requests
      PROVE  /\ sent'[r] \in {"no", "encoder"} =>
                  /\ status'[r] = "NEW"
                  /\ \A k \in DOMAIN engineInput' : ~IsAdd(engineInput'[k], r)
             /\ \A k \in DOMAIN engineInput' : IsAdd(engineInput'[k], r) =>
                  /\ status'[r] = "NEW"
                  /\ \A l \in DOMAIN engineInput' : IsAdd(engineInput'[l], r) => l = k
  <2>0. SubmittedOnce /\ sent' = sent
    BY <1>0, <1>4, Zenon DEF SystemInv
  <2>1. \A k \in DOMAIN q : IsAdd(q[k], r) =>
            /\ status[r] = "NEW" /\ ~IsAdd(m, r)
            /\ \A l \in DOMAIN q : IsAdd(q[l], r) => l + 1 = k + 1
    BY <1>1, <2>0, Zenon DEF SubmittedOnce
  <2>2. \A k, l \in DOMAIN q : l + 1 = k + 1 => l = k
    <3>1. DOMAIN q = 1 .. Len(q) /\ Len(q) \in Nat
      BY <1>1
    <3> HIDE DEF q
    <3> QED  BY <3>1
  <2>3. sent[r] \in {"no", "encoder"} =>
            /\ status[r] = "NEW" /\ ~IsAdd(m, r) /\ \A k \in DOMAIN q : ~IsAdd(q[k], r)
    BY <1>1, <2>0, Zenon DEF SubmittedOnce
  <2>4. ASSUME status[r] = "NEW", ~IsAdd(m, r) PROVE status'[r] = "NEW"
    <3>1. CASE m.type = "add" /\ AddRequest(m.req)
      <4>1. m.req # r
        BY <2>4, <3>1, Zenon DEF IsAdd
      <4> QED  BY <1>1, <2>4, <3>1, <4>1, NewStays, Zenon
    <3>2. CASE FinishRequest(m.req)
      BY <1>1, <2>4, <3>2, NewStays, Zenon
    <3>3. CASE UNCHANGED vars
      BY <2>4, <3>3, Zenon DEF vars, schedVars, requestVars
    <3> QED  BY <3>1, <3>2, <3>3, Zenon DEF HandleClientRequest
  <2> QED  BY <1>0, <2>0, <2>1, <2>2, <2>3, <2>4, Zenon
<1> QED  BY <1>2, <1>3, <1>4, Zenon DEF SystemInv, SubmittedOnce

\* The engine's other steps leave the messages alone or take an encoder result.
LEMMA EngineSystem ==
    ASSUME IInv, SystemInv, EngineProcess
    PROVE  SystemInv'
<1> DEFINE Loops == {"top", "input", "results", "step", "spin", "polled"}
           SchedulerStep == \/ \E q \in Requests : \E S \in SUBSET Inputs(q) : HandleEncoderResult(q, S)
                            \/ Schedule \/ Update \/ UNCHANGED vars
<1>0. /\ SystemTypeOK /\ MessagesOK /\ (~ReuseRequestIds => SubmittedOnce) /\ loop \in Loops
  BY Zenon DEF SystemInv, SystemTypeOK
<1>1. ASSUME SchedulerStep, UNCHANGED <<sent, engineInput>>
      PROVE  ~ReuseRequestIds => SubmittedOnce'
  <2>1. ASSUME NEW r \in Requests, status[r] = "NEW" PROVE status'[r] = "NEW"
    <3>1. CASE UNCHANGED vars
      BY <2>1, <3>1, Zenon DEF vars, schedVars, requestVars
    <3>2. CASE ~UNCHANGED vars
      BY <1>1, <2>1, <3>2, NewStays, Zenon
    <3> QED  BY <3>1, <3>2, Zenon
  <2> QED  BY <1>0, <1>1, <2>1, OnceFrame
<1>2. ASSUME SchedulerStep, UNCHANGED <<encVars, clientVars>>, loop' \in Loops
      PROVE  SystemInv'
  <2>1. SystemTypeOK' /\ MessagesOK'
    BY <1>0, <1>2, Zenon DEF SystemTypeOK, MessagesOK, encVars, clientVars
  <2> QED  BY <1>1, <1>2, <2>1, Zenon DEF SystemInv, clientVars
<1>3. ASSUME TakeResult, loop' \in Loops
      PROVE  SystemInv'
  <2>1. /\ HandleEncoderResult(resultQueue[1].req, resultQueue[1].inputs) /\ resultQueue # <<>>
        /\ resultQueue' = Tail(resultQueue)
        /\ UNCHANGED <<encWaiting, encRunning, encResult, clientVars>>
    BY <1>3, Zenon DEF TakeResult
  <2>2. SchedulerStep
    <3>1. resultQueue[1].req \in Requests /\ resultQueue[1].inputs \in SUBSET Inputs(resultQueue[1].req)
      BY <1>0, <2>1, HeadResult, Zenon
    <3> QED  BY <2>1, <3>1, Zenon
  <2>3. resultQueue' \in Seq(EncoderResults) /\ Len(resultQueue') <= ResultQueueSize
    <3>1. resultQueue \in Seq(EncoderResults) /\ Len(resultQueue) <= ResultQueueSize
      BY <1>0, Zenon DEF MessagesOK, SystemTypeOK
    <3>2. Tail(resultQueue) \in Seq(EncoderResults) /\ Len(Tail(resultQueue)) = Len(resultQueue) - 1
      BY <2>1, <3>1
    <3> QED  BY <2>1, <3>1, <3>2, ResultQueueAssumption
  <2>4. SystemTypeOK' /\ MessagesOK'
    BY <1>0, <1>3, <2>1, <2>3 DEF SystemTypeOK, MessagesOK, clientVars
  <2>5. ~ReuseRequestIds => SubmittedOnce'
    BY <1>1, <2>1, <2>2, Zenon DEF clientVars
  <2> QED  BY <2>4, <2>5 DEF SystemInv
<1> HIDE DEF SchedulerStep
<1>4. UNCHANGED vars => SchedulerStep
  BY Zenon DEF SchedulerStep
<1>5. CASE EngineTop \/ EngineInput
  <2>1. loop' \in Loops
    BY <1>0, <1>5, Zenon DEF EngineTop, EngineInput
  <2> QED  BY <1>2, <1>4, <1>5, <2>1, HandleSystem, Zenon DEF EngineTop, EngineInput
<1>6. CASE EngineResults \/ EnginePoll
  <2>1. loop' \in Loops
    BY <1>0, <1>6, Zenon DEF EngineResults, EnginePoll
  <2> QED  BY <1>2, <1>3, <1>4, <1>6, <2>1, Zenon DEF EngineResults, EnginePoll
<1>7. CASE EngineSchedule \/ EngineRetry
  <2>1. loop' \in Loops /\ UNCHANGED <<encVars, clientVars>>
    BY <1>0, <1>7, Zenon DEF EngineSchedule, EngineRetry
  <2>2. Schedule
    BY <1>7, Zenon DEF EngineSchedule, EngineRetry, Schedule
  <2> QED  BY <1>2, <2>1, <2>2, Zenon DEF SchedulerStep
<1>8. CASE EngineExecute \/ EngineUpdate
  <2>1. loop' \in Loops /\ UNCHANGED <<encVars, clientVars>>
    BY <1>0, <1>8, Zenon DEF EngineExecute, EngineUpdate
  <2>2. Update
    BY <1>8, Zenon DEF EngineExecute, EngineUpdate, Update
  <2> QED  BY <1>2, <2>1, <2>2, Zenon DEF SchedulerStep
<1> QED  BY <1>5, <1>6, <1>7, <1>8, Zenon DEF EngineProcess

\* The invariant of the composition.
THEOREM SystemInvariance == SystemSpec => [](IInv /\ SystemInv)
<1>1. SystemInit => IInv /\ SystemInv
  BY InitInv, InitSystem, Zenon DEF SystemInit
<1>2. IInv /\ SystemInv /\ [SystemNext]_systemVars => (IInv /\ SystemInv)'
  <2> SUFFICES ASSUME IInv, SystemInv, [SystemNext]_systemVars PROVE IInv' /\ SystemInv'
    BY Zenon
  <2>1. IInv'
    BY SystemStep, NextInv, Zenon
  <2>2. CASE UNCHANGED systemVars
    <3>1. UNCHANGED <<encVars, clientVars, loop, status>>
      BY <2>2, Zenon DEF systemVars, vars, schedVars, requestVars
    <3>2. SystemTypeOK' /\ MessagesOK'
      BY <3>1, Zenon DEF SystemInv, SystemTypeOK, MessagesOK, encVars, clientVars
    <3>3. SubmittedOnce => SubmittedOnce'
      BY <3>1, OnceFrame, Zenon DEF clientVars
    <3> QED  BY <2>1, <3>2, <3>3 DEF SystemInv
  <2> QED  BY <2>1, <2>2, ClientSystem, EncoderSystem, EngineSystem, Zenon DEF SystemNext, Client
<1> QED  BY <1>1, <1>2, PTL DEF SystemSpec

\* SystemTypeOK, for every deployment: in particular the queue to the engine
\* never holds more than encoder_result_queue takes.
THEOREM SystemTypeCorrect == SystemSpec => []SystemTypeOK
<1>1. SystemInv => SystemTypeOK
  BY Zenon DEF SystemInv
<1> QED  BY <1>1, SystemInvariance, PTL

\* The two processes and the client implement the scheduler's specification: all
\* that is proved about the scheduler holds in the system.
THEOREM SystemImplementsScheduler == SystemSpec => Spec
<1>1. SystemInit => Init
  BY Zenon DEF SystemInit
<1>2. SystemInv /\ [SystemNext]_systemVars => [Next]_vars
  BY SystemStep, Zenon
<1> QED  BY <1>1, <1>2, SystemInvariance, PTL DEF SystemSpec, Spec
-----------------------------------------------------------------------------
(* Only the preemption of a request with an image loses an output. *)

\* A step that preempts a request with an image.
PreemptsImage == Preempt /\ Inputs(running[Len(running)]) # {}

\* No request with an image has been preempted.
ImagesKept == \A r \in Requests : Inputs(r) # {} => status[r] # "PREEMPTED"

\* The output of schedule() drops inputs of requests that have been started.
DroppedStarted ==
    pc = "output" =>
        \A r \in Requests : \A i \in Inputs(r) :
            <<r, i>> \in outFreed => status[r] \in {"RUNNING", "FINISHED"}

\* An output of a request that the client has sent off is under way, in the
\* encoder cache, or used up.
KeptOutputs ==
    \A r \in Requests : sent[r] # "no" /\ status[r] # "FINISHED" =>
        \A i \in Inputs(r) :
            \/ OnItsWay(r, i) \/ i \in encoderCache[r]
            \/ status[r] = "RUNNING" /\ End(r, i) <= numComputedTokens[r]

\* The inductive invariant.
KeptInv == pc # "dead" => ImagesKept /\ DroppedStarted /\ KeptOutputs

\* What a step of the scheduler does to a request with images that does not
\* finish: it computes none of them twice, and drops only those it has computed.
Advances ==
    \A r \in Requests : \A i \in Inputs(r) : status'[r] # "FINISHED" =>
        /\ status[r] # "FINISHED"
        /\ status[r] = "RUNNING" /\ End(r, i) <= numComputedTokens[r] =>
                status'[r] = "RUNNING" /\ End(r, i) <= numComputedTokens'[r]
        /\ i \in encoderCache[r] =>
                \/ i \in encoderCache'[r]
                \/ status'[r] = "RUNNING" /\ End(r, i) <= numComputedTokens'[r]

\* The messages that hold an output.
wayVars == <<encoderInput, encWaiting, encResult, resultQueue>>

\* A step of the engine that takes no encoder result.
LEMMA AdvanceKept ==
    ASSUME KeptOutputs, Advances, UNCHANGED <<sent, wayVars>>
    PROVE  KeptOutputs'
<1> SUFFICES ASSUME NEW r \in Requests, sent[r] # "no", status'[r] # "FINISHED", NEW i \in Inputs(r)
             PROVE  \/ OnItsWay(r, i)' \/ i \in encoderCache'[r]
                    \/ status'[r] = "RUNNING" /\ End(r, i) <= numComputedTokens'[r]
  BY Zenon DEF KeptOutputs
<1>1. OnItsWay(r, i) => OnItsWay(r, i)'
  BY Zenon DEF OnItsWay, wayVars
<1>2. \/ OnItsWay(r, i) \/ i \in encoderCache[r]
      \/ status[r] = "RUNNING" /\ End(r, i) <= numComputedTokens[r]
  BY Zenon DEF KeptOutputs, Advances
<1> QED  BY <1>1, <1>2, Zenon DEF Advances

\* The steps of schedule().
LEMMA ScheduleAdvances ==
    ASSUME IInv, OutputsInv, ImagesKept, Schedule, ~PreemptsImage
    PROVE  ImagesKept' /\ DroppedStarted' /\ Advances /\ pc # "dead"
<1>0. status \in [Requests -> Status]
  BY Zenon DEF IInv, TypeOK
<1>1. CASE MakeOutput
  <2>1. /\ UNCHANGED <<status, numComputedTokens, encoderCache>>
        /\ outFreed' = freed /\ pc = "build"
    BY <1>1, Zenon DEF MakeOutput, requestVars
  <2>2. ImagesKept' /\ Advances
    BY <2>1, Zenon DEF ImagesKept, Advances
  <2>3. \A r \in Requests : r \in preemptedReqs => Inputs(r) = {}
    BY Zenon DEF IInv, PreemptedNotScheduled, ImagesKept
  <2>4. DroppedStarted'
    BY <2>1, <2>3, Zenon DEF DroppedStarted, OutputsInv, FreedOutputs
  <2> QED  BY <2>1, <2>2, <2>4, Zenon
<1>2. CASE ScheduleWaiting
  <2> DEFINE q == waiting[1]
  <2>1. /\ pc = "waiting" /\ pc' = pc /\ waiting # <<>>
        /\ UNCHANGED encoderCache
        /\ status' = [status EXCEPT ![q] = "RUNNING"]
        /\ \E c : numComputedTokens' = [numComputedTokens EXCEPT ![q] = c]
    BY <1>2, Zenon DEF ScheduleWaiting, InWaitingLoop
  <2>2. q \in Requests /\ q \in Range(waiting)
    BY <2>1, QueueEnds, Zenon
  <2>3. status[q] \notin {"RUNNING", "FINISHED"}
    BY <2>1, <2>2, Zenon DEF IInv, QueuesMatchStatus
  <2> HIDE DEF q
  <2>4. \A r \in Requests : r # q => status'[r] = status[r]
    BY <1>0, <2>1, Zenon
  <2>5. \A r \in Requests : r # q => numComputedTokens'[r] = numComputedTokens[r]
    BY <2>1, Zenon DEF IInv, TypeOK
  <2>6. status'[q] = "RUNNING"
    BY <1>0, <2>1, <2>2, Zenon
  <2>7. ImagesKept' /\ DroppedStarted'
    BY <2>1, <2>4, <2>6, Zenon DEF ImagesKept, DroppedStarted
  <2>8. Advances
    BY <2>1, <2>3, <2>4, <2>5, <2>6, Zenon DEF Advances
  <2> QED  BY <2>1, <2>7, <2>8, Zenon
<1>3. CASE \/ BeginSchedule \/ SkipRunning \/ ScheduleRunning \/ EndRunning
           \/ BlockedWaiting \/ EndWaiting \/ DropOutput
  <2>1. /\ UNCHANGED <<status, numComputedTokens, encoderCache>>
        /\ pc # "dead" /\ pc' # "output"
    <3>1. CASE BeginSchedule \/ SkipRunning \/ ScheduleRunning \/ EndRunning
      BY <3>1, Zenon DEF BeginSchedule, SkipRunning, ScheduleRunning, EndRunning, InRunningLoop,
         requestVars
    <3>2. CASE BlockedWaiting \/ EndWaiting \/ DropOutput
      BY <3>2, Zenon DEF BlockedWaiting, EndWaiting, DropOutput, InWaitingLoop, requestVars
    <3> QED  BY <1>3, <3>1, <3>2, Zenon
  <2> QED  BY <2>1, Zenon DEF ImagesKept, DroppedStarted, Advances
<1>4. CASE Preempt
  <2> DEFINE q == running[Len(running)]
  <2>1. /\ pc = "running" /\ pc' # "output" /\ UNCHANGED encoderCache
        /\ status' = [status EXCEPT ![q] = "PREEMPTED"]
        /\ numComputedTokens' = [numComputedTokens EXCEPT ![q] = 0]
    BY <1>4, Zenon DEF Preempt, InRunningLoop
  <2>2. Inputs(q) = {}
    BY <1>4, Zenon DEF PreemptsImage
  <2> HIDE DEF q
  <2>3. \A r \in Requests : r # q => /\ status'[r] = status[r]
                                     /\ numComputedTokens'[r] = numComputedTokens[r]
    BY <1>0, <2>1, Zenon DEF IInv, TypeOK
  <2>4. ImagesKept' /\ DroppedStarted'
    BY <2>1, <2>2, <2>3, Zenon DEF ImagesKept, DroppedStarted
  <2>5. Advances
    BY <2>1, <2>2, <2>3, Zenon DEF Advances
  <2> QED  BY <2>1, <2>4, <2>5, Zenon
<1> QED  BY <1>1, <1>2, <1>3, <1>4, Zenon DEF Schedule

\* execute_model and the steps of update_from_output().
LEMMA UpdateAdvances ==
    ASSUME IInv, OutputsInv, ImagesKept, DroppedStarted, Update, pc' # "dead"
    PROVE  ImagesKept' /\ DroppedStarted' /\ Advances /\ pc # "dead"
<1>0. status \in [Requests -> Status] /\ numComputedTokens \in [Requests -> Nat]
  BY Zenon DEF IInv, TypeOK
<1>1. CASE ExecuteModel
  <2>1. /\ UNCHANGED <<status, numComputedTokens>> /\ pc = "output" /\ pc' # "output"
        /\ encoderCache' = EncoderCacheAfterUpdateStates
    BY <1>1, Zenon DEF ExecuteModel, requestVars
  <2>2. ASSUME NEW r \in Requests, status[r] # "FINISHED", NEW i \in Inputs(r), i \in encoderCache[r]
        PROVE  i \in encoderCache'[r] \/ (status[r] = "RUNNING" /\ End(r, i) <= numComputedTokens[r])
    <3>1. r \notin outFinished
      BY <2>1, <2>2, Zenon DEF OutputsInv, FinishedIds
    <3>2. CASE <<r, i>> \in outFreed
      <4>1. status[r] = "RUNNING"
        BY <2>1, <2>2, <3>2, Zenon DEF DroppedStarted
      <4>2. End(r, i) <= numComputedTokens[r]
        BY <2>1, <3>2, <4>1, Zenon DEF OutputsInv, HandedOut
      <4> QED  BY <4>1, <4>2, Zenon
    <3>3. CASE <<r, i>> \notin outFreed
      BY <2>1, <2>2, <3>1, <3>3, Zenon DEF EncoderCacheAfterUpdateStates
    <3> QED  BY <3>2, <3>3, Zenon
  <2>3. ImagesKept' /\ DroppedStarted'
    BY <2>1, Zenon DEF ImagesKept, DroppedStarted
  <2>4. Advances
    BY <2>1, <2>2, Zenon DEF Advances
  <2> QED  BY <2>1, <2>3, <2>4, Zenon
<1>2. CASE UpdateUnscheduled \/ EndUpdate
  <2>1. /\ UNCHANGED <<status, numComputedTokens, encoderCache>> /\ pc = "update" /\ pc' # "output"
    BY <1>2, Zenon DEF UpdateUnscheduled, EndUpdate, InUpdateLoop, requestVars
  <2> QED  BY <2>1, Zenon DEF ImagesKept, DroppedStarted, Advances
<1>3. CASE UpdateContinue \/ UpdateStop
  <2> DEFINE q == running[reqIndex]
             c == numComputedTokens[q] + numScheduledTokens[q]
  <2>1. /\ pc = "update" /\ pc' # "output" /\ reqIndex <= Len(running)
        /\ UNCHANGED encoderCache /\ numComputedTokens' = [numComputedTokens EXCEPT ![q] = c]
        /\ status' = status \/ status' = [status EXCEPT ![q] = "FINISHED"]
    BY <1>3, Zenon DEF UpdateContinue, UpdateStop, InUpdateLoop
  <2>2. q \in Requests
    BY <2>1, UpdatePlace, Zenon
  <2>3. numScheduledTokens[q] \in Nat
    BY <2>2, Zenon DEF IInv, TypeOK
  <2>4. c \in Nat /\ numComputedTokens[q] <= c /\ numComputedTokens[q] \in Nat
    BY <1>0, <2>2, <2>3
  <2> HIDE DEF q, c
  <2>5. \A i \in Inputs(q) : End(q, i) <= numComputedTokens[q] => End(q, i) <= c
    <3> TAKE i \in Inputs(q)
    <3>1. End(q, i) \in Nat
      BY <2>2, InputLemma, Zenon
    <3> QED  BY <2>4, <3>1
  <2>6. numComputedTokens'[q] = c /\ \A r \in Requests : r # q => numComputedTokens'[r] = numComputedTokens[r]
    BY <1>0, <2>1, <2>2, Zenon
  <2>7. \A r \in Requests : status'[r] = status[r] \/ status'[r] = "FINISHED"
    BY <1>0, <2>1, Zenon
  <2>8. ImagesKept' /\ DroppedStarted'
    BY <2>1, <2>7, Zenon DEF ImagesKept, DroppedStarted
  <2>9. Advances
    BY <2>1, <2>5, <2>6, <2>7, Zenon DEF Advances
  <2> QED  BY <2>1, <2>8, <2>9, Zenon
<1> QED  BY <1>1, <1>2, <1>3, Zenon DEF Update

\* A message of the client, an add of a request that the scheduler has not seen.
LEMMA HandleAdvances ==
    ASSUME ~ReuseRequestIds, IInv, SystemInv, ImagesKept, DroppedStarted, HandleClientRequest,
           pc = "idle", pc' # "dead"
    PROVE  ImagesKept' /\ DroppedStarted' /\ Advances
<1> DEFINE q == engineInput[1].req
<1>0. status \in [Requests -> Status] /\ numComputedTokens \in [Requests -> Nat]
  BY Zenon DEF IInv, TypeOK
<1>1. /\ engineInput # <<>> /\ q \in Requests /\ 1 \in DOMAIN engineInput
  BY HeadMessage, Zenon DEF HandleClientRequest, SystemInv
<1>2. CASE engineInput[1].type = "add" /\ AddRequest(q)
  <2>1. status[q] = "NEW"
    BY <1>1, <1>2, Zenon DEF SystemInv, SubmittedOnce, IsAdd
  <2>2. /\ status' = [status EXCEPT ![q] = "WAITING"] /\ UNCHANGED <<pc, encoderCache>>
        /\ numComputedTokens' = [numComputedTokens EXCEPT ![q] = 0]
    BY <1>2, Zenon DEF AddRequest
  <2> HIDE DEF q
  <2>3. /\ status'[q] = "WAITING"
        /\ \A r \in Requests : r # q => status'[r] = status[r]
                                       /\ numComputedTokens'[r] = numComputedTokens[r]
    BY <1>0, <1>1, <2>2, Zenon
  <2>4. ImagesKept' /\ DroppedStarted'
    BY <2>2, <2>3, Zenon DEF ImagesKept, DroppedStarted
  <2>5. Advances
    BY <2>1, <2>2, <2>3, Zenon DEF Advances
  <2> QED  BY <2>4, <2>5, Zenon
<1>3. CASE FinishRequest(q)
  <2>1. /\ status' = [status EXCEPT ![q] = "FINISHED"] /\ UNCHANGED <<numComputedTokens, encoderCache>>
        /\ pc' # "output"
    BY <1>3, Zenon DEF FinishRequest
  <2> HIDE DEF q
  <2>2. \A r \in Requests : status'[r] = status[r] \/ status'[r] = "FINISHED"
    BY <1>0, <2>1, Zenon
  <2> QED  BY <2>1, <2>2, Zenon DEF ImagesKept, DroppedStarted, Advances
<1>4. CASE UNCHANGED vars
  <2>1. UNCHANGED <<status, numComputedTokens, encoderCache, pc>>
    BY <1>4, Zenon DEF vars, schedVars, requestVars
  <2> QED  BY <2>1, Zenon DEF ImagesKept, DroppedStarted, Advances
<1> QED  BY <1>2, <1>3, <1>4, Zenon DEF HandleClientRequest

\* What is in a queue after an append, and what its head and the rest hold.
LEMMA QueueRanges ==
    ASSUME NEW S, NEW s \in Seq(S)
    PROVE  /\ \A e : Range(Append(s, e)) = Range(s) \cup {e}
           /\ s # <<>> => Range(s) = {s[1]} \cup Range(Tail(s))
<1>1. ASSUME NEW e PROVE Range(Append(s, e)) = Range(s) \cup {e}
  <2> DEFINE t == Append(s, e)
  <2>1. /\ Len(s) \in Nat /\ DOMAIN s = 1 .. Len(s) /\ DOMAIN t = 1 .. Len(s) + 1
        /\ t[Len(s) + 1] = e /\ \A k \in 1 .. Len(s) : t[k] = s[k]
    OBVIOUS
  <2> HIDE DEF t
  <2>2. 1 .. Len(s) + 1 = 1 .. Len(s) \cup {Len(s) + 1}
    BY <2>1
  <2>3. ASSUME NEW x \in Range(t) PROVE x \in Range(s) \cup {e}
    <3>1. PICK k \in 1 .. Len(s) + 1 : x = t[k]
      BY <2>1, <2>3, Zenon DEF Range
    <3>2. k \in 1 .. Len(s) \/ k = Len(s) + 1
      BY <2>2, Zenon
    <3> QED  BY <2>1, <3>1, <3>2, Zenon DEF Range
  <2>4. ASSUME NEW x \in Range(s) \cup {e} PROVE x \in Range(t)
    BY <2>1, <2>2, <2>4, Zenon DEF Range
  <2> QED  BY <2>3, <2>4, Zenon DEF t
<1>2. ASSUME s # <<>> PROVE Range(s) = {s[1]} \cup Range(Tail(s))
  <2>1. /\ Len(s) \in Nat \ {0} /\ DOMAIN s = 1 .. Len(s)
        /\ DOMAIN Tail(s) = 1 .. Len(s) - 1
        /\ \A k \in 1 .. Len(s) - 1 : Tail(s)[k] = s[k + 1]
    BY <1>2
  <2>2. \A k \in 1 .. Len(s) : k = 1 \/ (k - 1 \in 1 .. Len(s) - 1 /\ (k - 1) + 1 = k)
    BY <2>1
  <2>3. \A k \in 1 .. Len(s) - 1 : k + 1 \in 1 .. Len(s)
    BY <2>1
  <2>4. 1 \in 1 .. Len(s)
    BY <2>1
  <2>5. ASSUME NEW x \in Range(s) PROVE x \in {s[1]} \cup Range(Tail(s))
    <3>1. PICK k \in 1 .. Len(s) : x = s[k]
      BY <2>1, <2>5, Zenon DEF Range
    <3>2. CASE k = 1
      BY <3>1, <3>2, Zenon
    <3>3. CASE k - 1 \in 1 .. Len(s) - 1 /\ (k - 1) + 1 = k
      <4>1. Tail(s)[k - 1] = x
        BY <2>1, <3>1, <3>3, Zenon
      <4> QED  BY <2>1, <3>3, <4>1, Zenon DEF Range
    <3> QED  BY <2>2, <3>2, <3>3, Zenon
  <2>6. ASSUME NEW x \in {s[1]} \cup Range(Tail(s)) PROVE x \in Range(s)
    BY <2>1, <2>3, <2>4, <2>6, Zenon DEF Range
  <2> QED  BY <2>5, <2>6, Zenon
<1> QED  BY <1>1, <1>2, Zenon

\* A step that changes neither the scheduler nor what the client has sent, and
\* after which every output that was under way still is, or has arrived.
LEMMA WayKept ==
    ASSUME KeptInv, UNCHANGED <<pc, status, numComputedTokens, outFreed>>,
           \A r \in Requests : /\ sent'[r] # "no" => sent[r] # "no" \/ r \in Range(encoderInput')
                               /\ encoderCache[r] \subseteq encoderCache'[r]
                               /\ \A i \in Inputs(r) :
                                    OnItsWay(r, i) => OnItsWay(r, i)' \/ i \in encoderCache'[r]
    PROVE  KeptInv'
<1>1. CASE pc = "dead"
  BY <1>1, Zenon DEF KeptInv
<1>2. CASE pc # "dead"
  <2>1. ImagesKept' /\ DroppedStarted' /\ KeptOutputs
    BY <1>2, Zenon DEF KeptInv, ImagesKept, DroppedStarted
  <2>2. ASSUME NEW r \in Requests, sent'[r] # "no", status'[r] # "FINISHED", NEW i \in Inputs(r)
        PROVE  \/ OnItsWay(r, i)' \/ i \in encoderCache'[r]
               \/ status'[r] = "RUNNING" /\ End(r, i) <= numComputedTokens'[r]
    <3>1. CASE r \in Range(encoderInput')
      BY <3>1, Zenon DEF OnItsWay
    <3>2. CASE sent[r] # "no"
      <4>1. \/ OnItsWay(r, i) \/ i \in encoderCache[r]
            \/ status[r] = "RUNNING" /\ End(r, i) <= numComputedTokens[r]
        BY <2>1, <2>2, <3>2, Zenon DEF KeptOutputs
      <4> QED  BY <4>1, Zenon
    <3> QED  BY <2>2, <3>1, <3>2, Zenon
  <2> QED  BY <2>1, <2>2, Zenon DEF KeptInv, KeptOutputs
<1> QED  BY <1>1, <1>2, Zenon

\* A request has at most one image.
OneInput == \A r \in Requests : Len(MMPositions[r]) <= 1

\* The client's steps: a request is on its way to the encoder first.
LEMMA ClientKept ==
    ASSUME SystemInv, KeptInv, NEW q \in Requests,
           SendToEncoder(q) \/ SendToEngine(q) \/ SendAbort(q)
    PROVE  KeptInv'
<1>0. /\ sent \in [Requests -> {"no", "encoder", "both", "aborted"}]
      /\ encoderInput \in Seq(Requests)
  BY Zenon DEF SystemInv, SystemTypeOK
<1>1. UNCHANGED <<pc, status, numComputedTokens, outFreed, encoderCache, encWaiting, encResult, resultQueue>>
  BY Zenon DEF SendToEncoder, SendToEngine, SendAbort, vars, schedVars, requestVars, outputVars, encVars
<1>2. /\ Range(encoderInput) \subseteq Range(encoderInput')
      /\ sent[q] # "no" \/ q \in Range(encoderInput')
  <2>1. CASE SendToEncoder(q)
    <3>1. encoderInput' = Append(encoderInput, q)
      BY <2>1, Zenon DEF SendToEncoder
    <3>2. Range(encoderInput') = Range(encoderInput) \cup {q}
      BY <1>0, <3>1, QueueRanges, Zenon
    <3> QED  BY <3>2, Zenon
  <2>2. CASE SendToEngine(q) \/ SendAbort(q)
    BY <2>2, Zenon DEF SendToEngine, SendAbort
  <2> QED  BY <2>1, <2>2, Zenon
<1>3. \A r \in Requests : r # q => sent'[r] = sent[r]
  BY <1>0, Zenon DEF SendToEncoder, SendToEngine, SendAbort
<1>4. ASSUME NEW r \in Requests, NEW i \in Inputs(r), OnItsWay(r, i) PROVE OnItsWay(r, i)'
  BY <1>1, <1>2, <1>4, Zenon DEF OnItsWay
<1> QED  BY <1>1, <1>2, <1>3, <1>4, WayKept, Zenon

\* The encoder process passes a request on, with its only input encoded.
LEMMA EncoderKept ==
    ASSUME OneInput, SystemInv, KeptInv, EncoderProcess
    PROVE  KeptInv'
<1>0. /\ encoderInput \in Seq(Requests) /\ encWaiting \in Seq(Requests)
      /\ resultQueue \in Seq(EncoderResults)
  BY Zenon DEF SystemInv, SystemTypeOK, MessagesOK
<1>1. UNCHANGED <<pc, status, numComputedTokens, outFreed, encoderCache, sent>>
  BY Zenon DEF EncoderProcess, EncoderReceive, EncoderStep, EncoderPut, vars, schedVars, requestVars,
     outputVars, clientVars
<1> SUFFICES ASSUME NEW r \in Requests, NEW i \in Inputs(r), OnItsWay(r, i)
             PROVE  OnItsWay(r, i)'
  BY <1>1, WayKept, Zenon
<1>2. CASE EncoderReceive
  <2>1. /\ encoderInput # <<>> /\ encoderInput' = Tail(encoderInput)
        /\ encWaiting' = Append(encWaiting, encoderInput[1])
        /\ UNCHANGED <<encResult, resultQueue>>
    BY <1>2, Zenon DEF EncoderReceive, EncAddRequest
  <2>2. /\ Range(encoderInput) = {encoderInput[1]} \cup Range(encoderInput')
        /\ Range(encWaiting') = Range(encWaiting) \cup {encoderInput[1]}
    BY <1>0, <2>1, QueueRanges, Zenon
  <2> QED  BY <2>1, <2>2, Zenon DEF OnItsWay
<1>3. CASE EncoderStep
  <2> DEFINE q == encWaiting[1]
             S == EncInputsToSchedule(q)
             I == {j \in S : \A k \in S : k <= j}
  <2>1. /\ encWaiting # <<>> /\ encWaiting' = Tail(encWaiting) /\ S # {}
        /\ encResult = NoResult /\ encResult' = [req |-> q, inputs |-> I]
        /\ UNCHANGED <<encoderInput, resultQueue>>
    BY <1>3, Zenon DEF EncoderStep, EncStep, CanEncode, ExecuteEncoder, clientVars
  <2>2. Range(encWaiting) = {q} \cup Range(encWaiting')
    BY <1>0, <2>1, QueueRanges, Zenon
  <2>3. CASE r = q
    <3>1. S \subseteq Inputs(r)
      BY <2>3, Zenon DEF EncInputsToSchedule
    <3>2. MMPositions[r] \in Seq([offset : Nat, length : Nat \ {0}]) /\ Len(MMPositions[r]) <= 1
      BY RequestAssumption, Zenon DEF OneInput
    <3>3. i \in Nat /\ i <= i /\ \A j \in Inputs(r) : j = i
      BY <3>2 DEF Inputs
    <3> HIDE DEF S
    <3>4. i \in I /\ I # {}
      BY <2>1, <3>1, <3>3, Zenon
    <3> HIDE DEF I, q
    <3>5. encResult'.inputs = I /\ encResult'.req = q
      BY <2>1, Zenon
    <3>6. encResult' # NoResult
      <4>1. NoResult.inputs = {}
        BY Zenon DEF NoResult
      <4> QED  BY <3>4, <3>5, <4>1, Zenon
    <3> QED  BY <2>3, <3>4, <3>5, <3>6, Zenon DEF OnItsWay
  <2>4. CASE r # q
    <3> HIDE DEF q, I, S
    <3> QED  BY <2>1, <2>2, <2>4, Zenon DEF OnItsWay
  <2> QED  BY <2>3, <2>4, Zenon
<1>4. CASE EncoderPut
  <2>1. /\ resultQueue' = Append(resultQueue, encResult)
        /\ UNCHANGED <<encoderInput, encWaiting>>
    BY <1>4, Zenon DEF EncoderPut, EncPut, clientVars
  <2>2. Range(resultQueue') = Range(resultQueue) \cup {encResult}
    BY <1>0, <2>1, QueueRanges, Zenon
  <2> QED  BY <2>1, <2>2, Zenon DEF OnItsWay
<1> QED  BY <1>2, <1>3, <1>4, Zenon DEF EncoderProcess

\* An encoder result that the engine takes goes into the encoder cache.
LEMMA ResultKept ==
    ASSUME IInv, SystemInv, KeptInv, TakeResult
    PROVE  KeptInv'
<1> DEFINE m == resultQueue[1]
<1>1. /\ resultQueue # <<>> /\ resultQueue' = Tail(resultQueue)
      /\ encoderCache' = [encoderCache EXCEPT ![m.req] = @ \cup m.inputs]
      /\ UNCHANGED <<pc, status, numComputedTokens, outFreed, encoderInput, encWaiting, encResult, sent>>
  BY Zenon DEF TakeResult, HandleEncoderResult, requestVars, outputVars, clientVars
<1>2. resultQueue \in Seq(EncoderResults) /\ m.req \in Requests
  BY <1>1, HeadResult, Zenon DEF SystemInv, MessagesOK
<1>3. Range(resultQueue) = {m} \cup Range(resultQueue')
  BY <1>1, <1>2, QueueRanges, Zenon
<1> HIDE DEF m
<1>4. /\ \A r \in Requests : encoderCache[r] \subseteq encoderCache'[r]
      /\ m.inputs \subseteq encoderCache'[m.req]
  BY <1>1, <1>2, Zenon DEF IInv, TypeOK
<1>5. ASSUME NEW r \in Requests, NEW i \in Inputs(r), OnItsWay(r, i)
      PROVE  OnItsWay(r, i)' \/ i \in encoderCache'[r]
  <2>1. CASE m.req = r /\ i \in m.inputs
    BY <1>4, <2>1, Zenon
  <2>2. CASE ~(m.req = r /\ i \in m.inputs)
    BY <1>1, <1>3, <1>5, <2>2, Zenon DEF OnItsWay
  <2> QED  BY <2>1, <2>2, Zenon
<1> QED  BY <1>1, <1>4, <1>5, WayKept, Zenon

\* The engine's steps.
LEMMA EngineKept ==
    ASSUME ~ReuseRequestIds, IInv, OutputsInv, SystemInv, KeptInv, EngineProcess, ~PreemptsImage
    PROVE  KeptInv'
<1>1. ASSUME pc # "dead", UNCHANGED <<sent, wayVars>>,
             pc' # "dead" => ImagesKept' /\ DroppedStarted' /\ Advances
      PROVE  KeptInv'
  BY <1>1, AdvanceKept, Zenon DEF KeptInv
<1>2. ASSUME UNCHANGED <<vars, encVars, clientVars>> PROVE KeptInv'
  <2>1. UNCHANGED <<pc, status, numComputedTokens, outFreed, encoderCache, sent, wayVars>>
    BY <1>2, Zenon DEF vars, schedVars, requestVars, outputVars, encVars, clientVars, wayVars
  <2>2. \A r \in Requests : \A i \in Inputs(r) : OnItsWay(r, i) => OnItsWay(r, i)'
    BY <2>1, Zenon DEF OnItsWay, wayVars
  <2> QED  BY <2>1, <2>2, WayKept, Zenon
<1>3. UNCHANGED <<encVars, clientVars>> => UNCHANGED <<sent, wayVars>>
  BY Zenon DEF encVars, clientVars, wayVars
<1>4. CASE EngineTop \/ EngineInput
  <2>1. ASSUME HandleClientRequest, pc = "idle" PROVE KeptInv'
    <3>1. UNCHANGED <<sent, wayVars>>
      BY <2>1, Zenon DEF HandleClientRequest, encVars, wayVars
    <3>2. ImagesKept /\ DroppedStarted
      BY <2>1, Zenon DEF KeptInv
    <3>3. pc' # "dead" => ImagesKept' /\ DroppedStarted' /\ Advances
      BY <2>1, <3>2, HandleAdvances, Zenon
    <3> QED  BY <1>1, <2>1, <3>1, <3>3, Zenon
  <2> QED  BY <1>2, <1>4, <2>1, Zenon DEF EngineTop, EngineInput
<1>5. CASE EngineResults \/ EnginePoll
  BY <1>2, <1>5, ResultKept, Zenon DEF EngineResults, EnginePoll
<1>6. CASE EngineSchedule \/ EngineRetry
  <2>1. Schedule /\ UNCHANGED <<encVars, clientVars>>
    BY <1>6, Zenon DEF EngineSchedule, EngineRetry, Schedule
  <2>2. pc # "dead"
    BY <2>1, Zenon DEF Schedule, BeginSchedule, SkipRunning, ScheduleRunning, Preempt, EndRunning,
       ScheduleWaiting, BlockedWaiting, EndWaiting, MakeOutput, DropOutput, InRunningLoop, InWaitingLoop
  <2>3. ImagesKept
    BY <2>2, Zenon DEF KeptInv
  <2> QED  BY <1>1, <1>3, <2>1, <2>2, <2>3, ScheduleAdvances, Zenon
<1>7. CASE EngineExecute \/ EngineUpdate
  <2>1. Update /\ UNCHANGED <<encVars, clientVars>>
    BY <1>7, Zenon DEF EngineExecute, EngineUpdate, Update
  <2>2. pc # "dead"
    BY <2>1, Zenon DEF Update, ExecuteModel, UpdateUnscheduled, UpdateContinue, UpdateStop, EndUpdate,
       InUpdateLoop
  <2>3. ImagesKept /\ DroppedStarted
    BY <2>2, Zenon DEF KeptInv
  <2> QED  BY <1>1, <1>3, <2>1, <2>2, <2>3, UpdateAdvances, Zenon
<1> QED  BY <1>4, <1>5, <1>6, <1>7, Zenon DEF EngineProcess

\* NeededOutputNotLost, for every deployment in which no id is used twice and no
\* request has two images: only the preemption of a request with an image can
\* lose an encoder output that the decoder still needs.
THEOREM OnlyPreemptionLoses ==
    ASSUME ~ReuseRequestIds, OneInput
    PROVE  SystemSpec /\ [][~PreemptsImage]_systemVars => []NeededOutputNotLost
<1>1. SystemInit => KeptInv
  <2> SUFFICES ASSUME SystemInit PROVE KeptInv
    BY Zenon
  <2>1. /\ \A r \in Requests : sent[r] = "no" /\ status[r] = "NEW"
        /\ pc = "idle"
    BY Zenon DEF SystemInit, Init
  <2> QED  BY <2>1, Zenon DEF KeptInv, ImagesKept, DroppedStarted, KeptOutputs
<1>2. IInv /\ SystemInv /\ OutputsInv /\ KeptInv /\ [SystemNext]_systemVars
        /\ [~PreemptsImage]_systemVars => KeptInv'
  <2> SUFFICES ASSUME IInv, SystemInv, OutputsInv, KeptInv, [SystemNext]_systemVars,
                      [~PreemptsImage]_systemVars
               PROVE  KeptInv'
    BY Zenon
  <2>1. CASE UNCHANGED systemVars
    <3>1. /\ UNCHANGED <<pc, status, numComputedTokens, outFreed, encoderCache, sent>>
          /\ UNCHANGED <<encoderInput, encWaiting, encResult, resultQueue>>
      BY <2>1, Zenon DEF systemVars, vars, schedVars, requestVars, outputVars, encVars, clientVars
    <3>2. \A r \in Requests : \A i \in Inputs(r) : OnItsWay(r, i) => OnItsWay(r, i)'
      BY <3>1, Zenon DEF OnItsWay
    <3> QED  BY <3>1, <3>2, WayKept, Zenon
  <2>2. CASE SystemNext /\ ~PreemptsImage
    BY <2>2, ClientKept, EncoderKept, EngineKept, Zenon DEF SystemNext, Client
  <2> QED  BY <2>1, <2>2, Zenon
<1>3. IInv /\ SystemInv /\ KeptInv => NeededOutputNotLost
  <2> SUFFICES ASSUME IInv, SystemInv, KeptInv, pc # "dead",
                      NEW r \in Requests, status[r] \in {"WAITING", "RUNNING", "PREEMPTED"},
                      NEW i \in Inputs(r), End(r, i) > numComputedTokens[r]
               PROVE  OnItsWay(r, i) \/ i \in encoderCache[r]
    BY Zenon DEF NeededOutputNotLost
  <2>1. sent[r] # "no"
    BY Zenon DEF SystemInv, SubmittedOnce
  <2>2. numComputedTokens[r] \in Nat /\ End(r, i) \in Nat
    BY InputLemma, Zenon DEF IInv, TypeOK
  <2>3. ~(End(r, i) <= numComputedTokens[r])
    BY <2>2
  <2> QED  BY <2>1, <2>3, Zenon DEF KeptInv, KeptOutputs
<1> QED  BY <1>1, <1>2, <1>3, SystemInvariance, SystemImplementsScheduler, OutputsInvariance, PTL
         DEF SystemSpec
=============================================================================
