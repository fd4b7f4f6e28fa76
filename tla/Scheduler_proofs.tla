-------------------------- MODULE Scheduler_proofs --------------------------
(***************************************************************************)
(* Proofs about the Scheduler: its type invariant, the assertions that     *)
(* running requests have work, the agreement of the queues with the        *)
(* statuses, that a preempted request is not scheduled, that the slots of  *)
(* the encoder cache are accounted for, that a request that stops has none *)
(* left, and that requests are served in their order.                      *)
(*                                                                         *)
(* The first four hold together: none is inductive alone.  IInv is their   *)
(* inductive invariant, CacheInv that of the slots; SequenceLemmas has     *)
(* what the queue operations do.                                           *)
(***************************************************************************)
EXTENDS Scheduler, SequenceLemmas

-----------------------------------------------------------------------------
(* The invariant, and the steps of the client and of the encoder process. *)

\* What the managers' state contributes: the types of what the scheduler
\* reads, and that a request never has more block hashes than full blocks.
ManagersOK ==
    /\ cached \in [Requests -> SUBSET (Nat \ {0})]
    /\ freed \subseteq Requests \X (Nat \ {0})
    /\ numBlockHashes \in [Requests -> Nat]
    /\ \A r \in Requests : numBlockHashes[r] * BlockSize <= numTokens[r]

\* What the locals of schedule() and update_from_output() say at each place.
CallState ==
    /\ pc = "idle" => preemptedReqs = {} /\ \A r \in Requests : numScheduledTokens[r] = 0
    /\ pc \in {"running", "waiting", "build", "output"} =>
            \A r \in Requests : status[r] # "RUNNING" => numScheduledTokens[r] = 0
    /\ pc = "running" =>
            \A n \in reqIndex .. Len(running) : numScheduledTokens[running[n]] = 0
    /\ pc = "waiting" => preemptedReqs = {}
    /\ pc = "update" => reqIndex <= Len(running) + 1

\* The inductive invariant.
IInv ==
    /\ TypeOK
    /\ ManagersOK
    /\ CallState
    /\ QueuesMatchStatus
    /\ RunningHasWork
    /\ PreemptedNotScheduled

\* The slots of a set of inputs are a number: placeholder positions are finite.
LEMMA SlotsType ==
    ASSUME NEW r \in Requests, NEW S
    PROVE  SlotsOf(r, S) \in Nat
<1> DEFINE T == {p \in 0 .. NumPromptTokens[r] - 1 :
                    \E i \in S : Start(r, i) <= p /\ p < End(r, i)}
<1>1. 0 \in Int /\ NumPromptTokens[r] - 1 \in Int BY RequestAssumption
<1>2. IsFiniteSet(0 .. NumPromptTokens[r] - 1) BY <1>1, FS_Interval, Zenon
<1>3. IsFiniteSet(T) BY <1>2, FS_Subset, Zenon
<1> QED BY <1>3, FS_CardinalityType, Zenon DEF SlotsOf

\* The inputs of a request are numbered from 1.
LEMMA InputNumbers ==
    ASSUME NEW r \in Requests
    PROVE  Inputs(r) \subseteq Nat \ {0}
<1>1. MMPositions[r] \in Seq([offset : Nat, length : Nat \ {0}]) BY RequestAssumption, Zenon
<1> QED BY <1>1 DEF Inputs

\* _try_schedule_encoder_inputs never raises the number of tokens, and takes
\* inputs that exist.
LEMMA PlanBounds ==
    ASSUME NEW r \in Requests, NEW c \in Nat, NEW n \in Nat, NEW budget \in Int
    PROVE  LET plan == TryScheduleEncoderInputs(r, c, n, budget)
           IN  /\ plan.tokens \in 0 .. n
               /\ plan.inputs \subseteq Nat \ {0}
               /\ plan.budget \in Int
<1> DEFINE needed == {i \in Inputs(r) : Overlaps(r, i, c, n) /\ ~HasCache(r, i)}
           before(i) == {j \in needed : j < i}
           blocked == {i \in needed : EncoderInputBlocked(r, i, budget - SlotsOf(r, before(i)))}
           first == Min(blocked)
           taken == IF blocked = {} THEN needed ELSE before(first)
           tokens == IF blocked = {} THEN n
                     ELSE IF c < Start(r, first) THEN Start(r, first) - c ELSE 0
<1>1. needed \subseteq Nat \ {0} BY InputNumbers, Zenon
<1>2. taken \subseteq Nat \ {0} BY <1>1, Zenon
<1>3. SlotsOf(r, taken) \in Nat BY SlotsType, Zenon
<1>4. tokens \in 0 .. n
  <2>1. CASE blocked = {} BY <2>1
  <2>2. CASE blocked # {}
    <3>1. blocked \in SUBSET Nat BY <1>1, Zenon
    <3>2. first \in blocked BY <2>2, <3>1, MinExists, Zenon
    <3> HIDE DEF first
    <3>3. first \in Inputs(r) /\ Start(r, first) < c + n BY <3>2, Zenon DEF Overlaps
    <3>4. Start(r, first) \in Nat
      <4>1. MMPositions[r] \in Seq([offset : Nat, length : Nat \ {0}]) BY RequestAssumption, Zenon
      <4>2. MMPositions[r][first] \in [offset : Nat, length : Nat \ {0}]
        BY <3>3, <4>1, ElementLemma, Zenon DEF Inputs
      <4> QED BY <4>2, Zenon DEF Start
    <3> HIDE DEF blocked
    <3> QED BY <2>2, <3>3, <3>4
  <2> QED BY <2>1, <2>2, Zenon
<1>5. TryScheduleEncoderInputs(r, c, n, budget) =
        [inputs |-> taken, tokens |-> tokens, budget |-> budget - SlotsOf(r, taken)]
  BY Zenon DEF TryScheduleEncoderInputs
<1> HIDE DEF taken, tokens
<1> QED BY <1>2, <1>3, <1>4, <1>5

\* The prefix-cache hits of a waiting request always leave a token to compute:
\* what the "computed again" branch of schedule() is for.
LEMMA HitBounds ==
    ASSUME NEW r \in Requests, TypeOK, ManagersOK
    PROVE  /\ Len(PrefixHits(r)) \in Nat
           /\ Len(PrefixHits(r)) * BlockSize \in Nat
           /\ Len(PrefixHits(r)) * BlockSize < numTokens[r]
           /\ NumHashesOnLookup(r, numTokens[r]) \in Nat
           /\ NumHashesOnLookup(r, numTokens[r]) * BlockSize <= numTokens[r]
<1> DEFINE h == NumHashesOnLookup(r, numTokens[r])
           m == NumCachedPrefix(r, numTokens[r])
           hit == GetComputedBlocks(r, numTokens[r])
<1>0. BlockSize \in Nat \ {0} /\ numTokens[r] \in Nat \ {0} BY KVAssumption, Zenon DEF TypeOK
<1>1. h \in Nat /\ h * BlockSize <= numTokens[r]
  BY <1>0, DivBounds, Zenon DEF NumHashesOnLookup, ManagersOK
<1> HIDE DEF h
<1>2. m \in 0 .. h
  <2> DEFINE T == {k \in 0 .. h : \A j \in 1 .. k : IsCached(HashOf(r, j))}
  <2>1. 0 \in T BY <1>1
  <2>2. Max(T) \in T BY <1>1, <2>1, MaxExists, Zenon
  <2> QED BY <2>2, Zenon DEF NumCachedPrefix, h
<1> HIDE DEF m
<1>3. Len(hit) \in 0 .. h
  <2>1. CASE EnableCaching
    <3>1. hit = [k \in 1 .. m |-> CachedBlock(HashOf(r, k))] BY <2>1, Zenon DEF GetComputedBlocks, m
    <3>2. m \in Nat BY <1>1, <1>2
    <3>3. Len(hit) = m BY <3>1, <3>2
    <3> QED BY <1>2, <3>3, Zenon
  <2>2. CASE ~EnableCaching BY <1>1, <2>2 DEF GetComputedBlocks
  <2> QED BY <2>1, <2>2, Zenon
<1> HIDE DEF hit
<1>4. Len(hit) * BlockSize <= numTokens[r] BY <1>0, <1>1, <1>3
<1>5. CASE Len(hit) * BlockSize = numTokens[r]
  <2>1. PrefixHits(r) = SubSeq(hit, 1, Len(hit) - 1) BY <1>5, Zenon DEF PrefixHits, hit
  <2>2. Len(hit) \in Nat /\ Len(hit) # 0 BY <1>0, <1>1, <1>3, <1>5
  <2>3. Len(PrefixHits(r)) = Len(hit) - 1
    <3> DEFINE S == {hit[i] : i \in 1 .. Len(hit) - 1}
    <3>1. PICK l \in Int : l = Len(hit) - 1 /\ l >= 0 BY <2>2
    <3>2. \A i \in 1 .. l : hit[i] \in S BY <3>1, Zenon
    <3> HIDE DEF S
    <3>3. Len(SubSeq(hit, 1, l)) = IF 1 <= l THEN l - 1 + 1 ELSE 0
      BY <3>2, SliceLemma
    <3> QED BY <2>1, <3>1, <3>3
  <2> QED BY <1>0, <1>1, <1>5, <2>2, <2>3 DEF h
<1>6. CASE Len(hit) * BlockSize # numTokens[r]
  <2>1. PrefixHits(r) = hit BY <1>6, Zenon DEF PrefixHits, hit
  <2> QED BY <1>0, <1>1, <1>3, <1>4, <1>6, <2>1 DEF h
<1> QED BY <1>5, <1>6, Zenon

\* A new scheduler satisfies the invariant.
LEMMA InitInv == Init => IInv
<1> SUFFICES ASSUME Init PROVE IInv BY Zenon
<1>1. TypeOK BY RequestAssumption DEF Init, TypeOK, Status
<1>2. ManagersOK BY RequestAssumption, KVAssumption DEF Init, ECMInit, KVInit, ManagersOK
<1>3. CallState BY Zenon DEF Init, CallState
<1>4. QueuesMatchStatus BY DEF Init, QueuesMatchStatus, Active, IsInjective, Range
<1>5. RunningHasWork BY DEF Init, RunningHasWork, Active
<1>6. PreemptedNotScheduled BY Zenon DEF Init, PreemptedNotScheduled
<1> QED BY <1>1, <1>2, <1>3, <1>4, <1>5, <1>6, Zenon DEF IInv

\* add_request preserves the invariant.
LEMMA AddRequestInv ==
    ASSUME IInv, NEW r \in Requests, AddRequest(r)
    PROVE  IInv'
<1>0. /\ pc = "idle" /\ pc' = "idle" /\ status[r] \notin {"WAITING", "RUNNING", "PREEMPTED"}
      /\ status' = [status EXCEPT ![r] = "WAITING"]
      /\ numComputedTokens' = [numComputedTokens EXCEPT ![r] = 0]
      /\ numTokens' = [numTokens EXCEPT ![r] = NumPromptTokens[r]]
      /\ numBlockHashes' = [numBlockHashes EXCEPT ![r] = 0]
      /\ waiting' = Append(waiting, r)
      /\ UNCHANGED <<running, finishedReqIds, encoderCache, cached, freed, reqIndex,
                     tokenBudget, encoderBudget, preemptedReqs, newRunning,
                     numScheduledTokens, scheduledNewReqs, outFinished, outFreed>>
  BY Zenon DEF AddRequest, requestVars, queueVars, localVars, outputVars, ecmVars, kvVars
<1>a. NumPromptTokens[r] \in Nat \ {0} BY RequestAssumption, Zenon
<1>1. TypeOK' BY <1>0, <1>a DEF IInv, TypeOK, Status
<1>2. ManagersOK' BY <1>0, <1>a, KVAssumption DEF IInv, TypeOK, ManagersOK
<1>3. CallState' BY <1>0, Zenon DEF IInv, CallState
<1>b. /\ IsInjective(waiting) /\ IsInjective(running)
      /\ Range(running) = {q \in Requests : status[q] = "RUNNING"}
      /\ Range(waiting) = {q \in Requests : status[q] \in {"WAITING", "PREEMPTED"}}
  BY <1>0, Zenon DEF IInv, QueuesMatchStatus, Active
<1>4. QueuesMatchStatus'
  <2>1. r \notin Range(waiting) BY <1>0, <1>b, Zenon
  <2>2. /\ IsInjective(waiting') /\ Range(waiting') = Range(waiting) \cup {r}
    BY <1>0, <2>1, <1>b, AppendLemma DEF IInv, TypeOK
  <2>3. {q \in Requests : status'[q] = "RUNNING"} = {q \in Requests : status[q] = "RUNNING"}
    BY <1>0, Zenon DEF IInv, TypeOK
  <2>4. {q \in Requests : status'[q] \in {"WAITING", "PREEMPTED"}}
            = {q \in Requests : status[q] \in {"WAITING", "PREEMPTED"}} \cup {r}
    BY <1>0 DEF IInv, TypeOK
  <2>5. Active' = running BY <1>0, Zenon DEF Active
  <2> QED BY <1>b, <2>2, <2>3, <2>4, <2>5, Zenon DEF QueuesMatchStatus
<1>5. RunningHasWork'
  <2>1. \A n \in DOMAIN running : running[n] \in Requests /\ running[n] # r
    BY <1>0, <1>b, ElementLemma DEF IInv, TypeOK, Range
  <2> QED BY <1>0, <2>1, Zenon DEF IInv, TypeOK, RunningHasWork, Active
<1>6. PreemptedNotScheduled' BY <1>0, Zenon DEF IInv, CallState, PreemptedNotScheduled
<1> QED BY <1>1, <1>2, <1>3, <1>4, <1>5, <1>6, Zenon DEF IInv

\* finish_requests preserves the invariant, also when free() raises.
LEMMA FinishRequestInv ==
    ASSUME IInv, NEW r \in Requests, FinishRequest(r)
    PROVE  IInv'
<1>a. /\ pc = "idle" /\ pc' \in {"idle", "dead"}
      /\ status[r] \in {"WAITING", "RUNNING", "PREEMPTED"}
      /\ running' = IF status[r] = "RUNNING" THEN Removed(running, r) ELSE running
      /\ waiting' = IF status[r] = "RUNNING" THEN waiting ELSE Removed(waiting, r)
      /\ status' = [status EXCEPT ![r] = "FINISHED"]
      /\ finishedReqIds' \in {finishedReqIds, finishedReqIds \cup {r}}
      /\ UNCHANGED <<numComputedTokens, numTokens, encoderCache, numBlockHashes, reqIndex,
                     tokenBudget, encoderBudget, preemptedReqs, newRunning,
                     numScheduledTokens, scheduledNewReqs, outFinished, outFreed>>
  BY Zenon DEF FinishRequest, Free, requestVars, queueVars, localVars, outputVars, ecmVars, kvVars
<1>b. \/ UNCHANGED <<cached, freed>>
      \/ \E i \in cached[r] : /\ cached' = [cached EXCEPT ![r] = @ \ {i}]
                              /\ freed' = freed \cup ({r} \X {i})
  BY Zenon DEF FinishRequest, FreeFirstThenRaise, FreeEncoderInputs, ecmVars
<1>c. /\ running \in Seq(Requests) /\ waiting \in Seq(Requests)
      /\ IsInjective(running) /\ IsInjective(waiting)
      /\ Range(running) = {q \in Requests : status[q] = "RUNNING"}
      /\ Range(waiting) = {q \in Requests : status[q] \in {"WAITING", "PREEMPTED"}}
      /\ Active = running /\ Active' = running'
  BY <1>a, Zenon DEF IInv, TypeOK, QueuesMatchStatus, Active
<1>d. /\ running' \in Seq(Requests) /\ IsInjective(running')
      /\ Range(running') = Range(running) \ {r}
  <2>1. CASE status[r] = "RUNNING"
    <3>1. r \in Range(running) BY <1>c, <2>1, Zenon
    <3> QED BY <1>a, <1>c, <2>1, <3>1, RemovedLemma, Zenon
  <2>2. CASE status[r] # "RUNNING"
    <3>1. r \notin Range(running) BY <1>c, <2>2, Zenon
    <3> QED BY <1>a, <1>c, <2>2, <3>1, Zenon
  <2> QED BY <2>1, <2>2, Zenon
<1>e. /\ waiting' \in Seq(Requests) /\ IsInjective(waiting')
      /\ Range(waiting') = Range(waiting) \ {r}
  <2>1. CASE status[r] = "RUNNING"
    <3>1. r \notin Range(waiting) BY <1>c, <2>1, Zenon
    <3> QED BY <1>a, <1>c, <2>1, <3>1, Zenon
  <2>2. CASE status[r] # "RUNNING"
    <3>1. r \in Range(waiting) BY <1>a, <1>c, <2>2, Zenon
    <3> QED BY <1>a, <1>c, <2>2, <3>1, RemovedLemma, Zenon
  <2> QED BY <2>1, <2>2, Zenon
<1>1. TypeOK'
  <2>1. status' \in [Requests -> Status] BY <1>a, Zenon DEF IInv, TypeOK, Status
  <2>2. finishedReqIds' \subseteq Requests BY <1>a, Zenon DEF IInv, TypeOK
  <2> QED BY <1>a, <1>d, <1>e, <2>1, <2>2, Zenon DEF IInv, TypeOK
<1>2. ManagersOK' BY <1>a, <1>b DEF IInv, ManagersOK
<1>3. CallState' BY <1>a, Zenon DEF IInv, CallState
<1>4. QueuesMatchStatus'
  <2>1. {q \in Requests : status'[q] = "RUNNING"}
            = {q \in Requests : status[q] = "RUNNING"} \ {r}
    BY <1>a, Zenon DEF IInv, TypeOK
  <2>2. {q \in Requests : status'[q] \in {"WAITING", "PREEMPTED"}}
            = {q \in Requests : status[q] \in {"WAITING", "PREEMPTED"}} \ {r}
    BY <1>a, Zenon DEF IInv, TypeOK
  <2> QED BY <1>c, <1>d, <1>e, <2>1, <2>2, Zenon DEF QueuesMatchStatus
<1>5. RunningHasWork'
  <2> SUFFICES ASSUME NEW k \in DOMAIN running'
               PROVE  LET q == running'[k]
                      IN  /\ numComputedTokens[q] < numTokens[q]
                          /\ numComputedTokens[q] + numScheduledTokens[q] <= numTokens[q]
    BY <1>a, <1>c, Zenon DEF RunningHasWork
  <2>1. running'[k] \in Range(running) BY <1>d, Zenon DEF Range
  <2>2. PICK l \in DOMAIN running : running[l] = running'[k] BY <2>1, Zenon DEF Range
  <2> QED BY <1>a, <1>c, <2>2, Zenon DEF IInv, RunningHasWork
<1>6. PreemptedNotScheduled' BY <1>a, Zenon DEF IInv, CallState, PreemptedNotScheduled
<1> QED BY <1>1, <1>2, <1>3, <1>4, <1>5, <1>6, Zenon DEF IInv

\* _handle_encoder_result preserves the invariant.
LEMMA HandleEncoderResultInv ==
    ASSUME IInv, NEW r \in Requests, NEW S \in SUBSET (Nat \ {0}), HandleEncoderResult(r, S)
    PROVE  IInv'
<1>1. TypeOK' BY Zenon DEF IInv, HandleEncoderResult, TypeOK, requestVars, queueVars,
                 localVars, outputVars, ecmVars, kvVars
<1>2. ManagersOK' BY Zenon DEF IInv, HandleEncoderResult, ManagersOK, requestVars, queueVars,
                     localVars, outputVars, ecmVars, kvVars
<1>3. CallState' BY Zenon DEF IInv, HandleEncoderResult, CallState, requestVars, queueVars,
                    localVars, outputVars, ecmVars, kvVars
<1>4. QueuesMatchStatus' BY Zenon DEF IInv, HandleEncoderResult, QueuesMatchStatus, Active,
                            requestVars, queueVars, localVars, outputVars, ecmVars, kvVars
<1>5. RunningHasWork' BY Zenon DEF IInv, HandleEncoderResult, RunningHasWork, Active,
                         CallState, TypeOK, requestVars, queueVars, localVars, outputVars,
                         ecmVars, kvVars
<1>6. PreemptedNotScheduled' BY Zenon DEF IInv, HandleEncoderResult, PreemptedNotScheduled,
                                CallState, requestVars, queueVars, localVars, outputVars,
                                ecmVars, kvVars
<1> QED BY <1>1, <1>2, <1>3, <1>4, <1>5, <1>6, Zenon DEF IInv

\* reset_prefix_cache preserves the invariant.
LEMMA ResetCacheInv ==
    ASSUME IInv, ResetCache
    PROVE  IInv'
<1>1. TypeOK' BY Zenon DEF IInv, ResetCache, ResetPrefixCache, schedVars, TypeOK, requestVars,
                 queueVars, localVars, outputVars, ecmVars, kvVars
<1>2. ManagersOK' BY Zenon DEF IInv, ResetCache, ResetPrefixCache, schedVars, ManagersOK,
                     requestVars, queueVars, localVars, outputVars, ecmVars, kvVars
<1>3. CallState' BY Zenon DEF IInv, ResetCache, ResetPrefixCache, schedVars, CallState,
                    requestVars, queueVars, localVars, outputVars, ecmVars, kvVars
<1>4. QueuesMatchStatus' BY Zenon DEF IInv, ResetCache, ResetPrefixCache, schedVars,
                            QueuesMatchStatus, Active, requestVars, queueVars, localVars,
                            outputVars, ecmVars, kvVars
<1>5. RunningHasWork' BY Zenon DEF IInv, ResetCache, ResetPrefixCache, schedVars, RunningHasWork,
                         Active, CallState, TypeOK, requestVars, queueVars, localVars,
                         outputVars, ecmVars, kvVars
<1>6. PreemptedNotScheduled' BY Zenon DEF IInv, ResetCache, ResetPrefixCache, schedVars,
                                PreemptedNotScheduled, CallState, requestVars, queueVars,
                                localVars, outputVars, ecmVars, kvVars
<1> QED BY <1>1, <1>2, <1>3, <1>4, <1>5, <1>6, Zenon DEF IInv

-----------------------------------------------------------------------------
(* schedule() preserves it, action by action. *)

\* The start of schedule() preserves the invariant.
LEMMA BeginScheduleInv ==
    ASSUME IInv, BeginSchedule
    PROVE  IInv'
<1>1. TypeOK'
  <2>1. MaxNumScheduledTokens \in Nat /\ MaxNumEncoderInputTokens \in Int
    BY ConfigAssumption DEF MaxNumEncoderInputTokens, AtLeast
  <2>2. tokenBudget' \in Nat /\ encoderBudget' \in Int /\ reqIndex' \in Nat \ {0}
    BY <2>1 DEF BeginSchedule
  <2>3. numScheduledTokens' \in [Requests -> Nat] BY Zenon DEF BeginSchedule
  <2>4. preemptedReqs' \subseteq Requests /\ scheduledNewReqs' \subseteq Requests
    BY Zenon DEF BeginSchedule
  <2> QED BY <2>2, <2>3, <2>4, Zenon DEF IInv, BeginSchedule, TypeOK, requestVars, queueVars,
             localVars, outputVars, ecmVars, kvVars
<1>2. ManagersOK' BY Zenon DEF IInv, BeginSchedule, TypeOK, ManagersOK, requestVars,
                     queueVars, localVars, outputVars, ecmVars, kvVars
<1>3. CallState' BY DEF IInv, BeginSchedule, TypeOK, CallState, requestVars, queueVars,
                    localVars, outputVars, ecmVars, kvVars
<1>4. QueuesMatchStatus' BY Zenon DEF IInv, BeginSchedule, TypeOK, QueuesMatchStatus, Active,
                            requestVars, queueVars, localVars, outputVars, ecmVars, kvVars
<1>5. RunningHasWork' BY DEF IInv, BeginSchedule, TypeOK, RunningHasWork, Active, CallState,
                         TypeOK, requestVars, queueVars, localVars, outputVars, ecmVars,
                         kvVars
<1>6. PreemptedNotScheduled' BY Zenon DEF IInv, BeginSchedule, TypeOK, PreemptedNotScheduled,
                                CallState, requestVars, queueVars, localVars, outputVars,
                                ecmVars, kvVars
<1> QED BY <1>1, <1>2, <1>3, <1>4, <1>5, <1>6, Zenon DEF IInv

\* Skipping a running request preserves the invariant.
LEMMA SkipRunningInv ==
    ASSUME IInv, SkipRunning
    PROVE  IInv'
<1>0. reqIndex + 1 \in Nat \ {0} BY DEF IInv, TypeOK
<1>1. TypeOK' BY <1>0, Zenon DEF IInv, SkipRunning, TypeOK, requestVars, queueVars,
                 localVars, outputVars, ecmVars, kvVars
<1>2. ManagersOK' BY Zenon DEF IInv, SkipRunning, InRunningLoop, TypeOK, ManagersOK, requestVars,
                     queueVars, localVars, outputVars, ecmVars, kvVars
<1>3. CallState' BY DEF IInv, SkipRunning, InRunningLoop, TypeOK, CallState, requestVars,
                    queueVars, localVars, outputVars, ecmVars, kvVars
<1>4. QueuesMatchStatus' BY Zenon DEF IInv, SkipRunning, InRunningLoop, TypeOK, QueuesMatchStatus,
                            Active, requestVars, queueVars, localVars, outputVars, ecmVars,
                            kvVars
<1>5. RunningHasWork' BY Zenon DEF IInv, SkipRunning, InRunningLoop, TypeOK, RunningHasWork,
                         Active, CallState, TypeOK, requestVars, queueVars, localVars,
                         outputVars, ecmVars, kvVars
<1>6. PreemptedNotScheduled' BY Zenon DEF IInv, SkipRunning, InRunningLoop, TypeOK,
                                PreemptedNotScheduled, CallState, requestVars, queueVars,
                                localVars, outputVars, ecmVars, kvVars
<1> QED BY <1>1, <1>2, <1>3, <1>4, <1>5, <1>6, Zenon DEF IInv

\* Scheduling a running request preserves the invariant.
LEMMA ScheduleRunningInv ==
    ASSUME IInv, ScheduleRunning
    PROVE  IInv'
<1> DEFINE r == running[reqIndex]
           c == numComputedTokens[r]
           n == AtMost(numTokens[r] - c, tokenBudget)
           plan == TryScheduleEncoderInputs(r, c, n, encoderBudget)
           full == (c + plan.tokens) \div BlockSize
<1>a. /\ pc = "running" /\ reqIndex <= Len(running) /\ RunningPlan(r) = plan
      /\ cached' = [cached EXCEPT ![r] = @ \cup plan.inputs]
      /\ numScheduledTokens' = [numScheduledTokens EXCEPT ![r] = plan.tokens]
      /\ tokenBudget' = tokenBudget - plan.tokens
      /\ encoderBudget' = plan.budget
      /\ reqIndex' = reqIndex + 1
      /\ UNCHANGED <<status, numComputedTokens, numTokens, waiting, running, finishedReqIds,
                     freed, encoderCache, pc, preemptedReqs, newRunning,
                     scheduledNewReqs, outFinished, outFreed>>
  BY Zenon DEF ScheduleRunning, RunningPlan, InRunningLoop, Allocate, requestVars,
     queueVars, localVars, outputVars, ecmVars, kvVars
<1>b. \/ numBlockHashes' = [numBlockHashes EXCEPT ![r] = AtLeast(numBlockHashes[r], full)]
      \/ numBlockHashes' = [numBlockHashes EXCEPT ![r] = numBlockHashes[r]]
  BY Zenon DEF ScheduleRunning, RunningPlan, AllocateSlots, CacheFullBlocks
<1> HIDE DEF plan, full
<1>c. running \in Seq(Requests) /\ reqIndex \in 1 .. Len(running) /\ r \in Requests
  <2>1. running \in Seq(Requests) /\ reqIndex \in Nat \ {0} BY Zenon DEF IInv, TypeOK
  <2>2. reqIndex <= Len(running) BY <1>a, Zenon
  <2>3. reqIndex \in 1 .. Len(running) BY <2>1, <2>2
  <2> QED BY <2>1, <2>3
<1>d. /\ IsInjective(running)
      /\ Range(running) = {q \in Requests : status[q] = "RUNNING"}
      /\ Active = running /\ Active' = running
  BY <1>a, Zenon DEF IInv, QueuesMatchStatus, Active
<1>e. c \in Nat /\ numTokens[r] \in Nat /\ c < numTokens[r]
  <2>1. DOMAIN running = 1 .. Len(running) BY <1>c
  <2> QED BY <1>a, <1>c, <1>d, <2>1, Zenon DEF IInv, TypeOK, RunningHasWork
<1>f. n \in Nat /\ n <= tokenBudget /\ n <= numTokens[r] - c
  BY <1>c, <1>e DEF IInv, TypeOK, AtMost
<1> HIDE DEF n
<1>g. /\ plan.tokens \in 0 .. n /\ plan.inputs \subseteq Nat \ {0} /\ plan.budget \in Int
  BY <1>c, <1>e, <1>f, PlanBounds, Zenon DEF IInv, TypeOK, plan
<1> HIDE DEF c
<1>h. plan.tokens \in Nat /\ c + plan.tokens <= numTokens[r] /\ plan.tokens <= tokenBudget
  <2>1. tokenBudget \in Nat BY Zenon DEF IInv, TypeOK
  <2>2. plan.tokens \in Nat /\ plan.tokens <= n BY <1>f, <1>g
  <2>3. c + plan.tokens <= numTokens[r] BY <1>e, <1>f, <2>2
  <2> QED BY <1>f, <2>1, <2>2, <2>3
<1> HIDE DEF r
<1>i. r \in Range(running) BY <1>c DEF r, Range
<1>1. TypeOK'
  <2>0. tokenBudget \in Nat BY Zenon DEF IInv, TypeOK
  <2>1. tokenBudget' \in Nat /\ reqIndex' \in Nat \ {0} BY <1>a, <1>c, <1>h, <2>0
  <2>2. numScheduledTokens' \in [Requests -> Nat] BY <1>a, <1>c, <1>h, Zenon DEF IInv, TypeOK
  <2> QED BY <1>a, <1>g, <2>1, <2>2, Zenon DEF IInv, TypeOK
<1>2. ManagersOK'
  <2>1. cached' \in [Requests -> SUBSET (Nat \ {0})] BY <1>a, <1>c, <1>g, Zenon DEF IInv, ManagersOK
  <2>2. full \in Nat /\ full * BlockSize <= numTokens[r]
    <3>1. c + plan.tokens \in Nat BY <1>e, <1>h
    <3>2. full \in Nat /\ full * BlockSize <= c + plan.tokens
      BY <3>1, KVAssumption, DivBounds, Zenon DEF full
    <3> QED BY <1>e, <1>h, <3>1, <3>2, KVAssumption
  <2>3. numBlockHashes' \in [Requests -> Nat] BY <1>b, <1>c, <2>2, Zenon DEF IInv, ManagersOK, AtLeast
  <2>4. \A q \in Requests : numBlockHashes'[q] * BlockSize <= numTokens[q]
    BY <1>b, <1>c, <2>2, Zenon DEF IInv, ManagersOK, AtLeast
  <2> QED BY <1>a, <2>1, <2>3, <2>4, Zenon DEF IInv, ManagersOK
<1>3. CallState'
  <2>1. \A q \in Requests : status[q] # "RUNNING" => numScheduledTokens'[q] = 0
    BY <1>a, <1>c, <1>d, <1>i, Zenon DEF IInv, TypeOK, CallState
  <2>2. \A k \in reqIndex + 1 .. Len(running) : numScheduledTokens'[running[k]] = 0
    <3> TAKE k \in reqIndex + 1 .. Len(running)
    <3>1. k \in 1 .. Len(running) /\ k # reqIndex /\ k \in reqIndex .. Len(running) BY <1>c
    <3>2. running[k] \in Requests /\ running[k] # r BY <1>c, <1>d, <3>1, InjectiveLemma DEF r
    <3>3. numScheduledTokens[running[k]] = 0 BY <1>a, <3>1, Zenon DEF IInv, CallState
    <3> QED BY <1>a, <3>2, <3>3, Zenon DEF IInv, TypeOK
  <2> QED BY <1>a, <2>1, <2>2, Zenon DEF IInv, CallState
<1>4. QueuesMatchStatus' BY <1>a, <1>d, Zenon DEF IInv, QueuesMatchStatus
<1>5. RunningHasWork'
  <2> SUFFICES ASSUME NEW k \in DOMAIN running
               PROVE  LET q == running[k]
                      IN  /\ numComputedTokens[q] < numTokens[q]
                          /\ numComputedTokens[q] + numScheduledTokens'[q] <= numTokens[q]
    BY <1>a, <1>d, Zenon DEF RunningHasWork
  <2>1. running[k] \in Requests BY <1>c, ElementLemma, Zenon
  <2>2. CASE running[k] = r BY <1>a, <1>c, <1>e, <1>h, <2>2, Zenon DEF IInv, TypeOK, c
  <2>3. CASE running[k] # r
    <3>1. numScheduledTokens'[running[k]] = numScheduledTokens[running[k]]
      BY <1>a, <2>1, <2>3, Zenon DEF IInv, TypeOK
    <3> QED BY <1>a, <1>d, <3>1, Zenon DEF IInv, RunningHasWork
  <2> QED BY <2>2, <2>3, Zenon
<1>6. PreemptedNotScheduled'
  <2>1. \A q \in preemptedReqs : q \in Requests /\ q # r
    BY <1>c, <1>d, <1>i, Zenon DEF IInv, TypeOK, PreemptedNotScheduled
  <2> QED BY <1>a, <2>1, Zenon DEF IInv, TypeOK, PreemptedNotScheduled
<1> QED BY <1>1, <1>2, <1>3, <1>4, <1>5, <1>6, Zenon DEF IInv

\* A preemption preserves the invariant: the victim, the last of the running
\* list, has not been scheduled by this call.
LEMMA PreemptInv ==
    ASSUME IInv, Preempt
    PROVE  IInv'
<1> DEFINE v == running[Len(running)]
<1>a. /\ pc = "running" /\ reqIndex <= Len(running)
      /\ status' = [status EXCEPT ![v] = "PREEMPTED"]
      /\ numComputedTokens' = [numComputedTokens EXCEPT ![v] = 0]
      /\ waiting' = <<v>> \o waiting
      /\ preemptedReqs' = preemptedReqs \cup {v}
      /\ pc' \in {"running", "build"}
      /\ running' = SubSeq(running, 1, Len(running) - 1)
      /\ UNCHANGED <<numTokens, finishedReqIds, encoderCache, reqIndex, tokenBudget,
                     encoderBudget, newRunning, cached, freed, numBlockHashes,
                     numScheduledTokens, scheduledNewReqs, outFinished, outFreed>>
  BY Zenon DEF Preempt, InRunningLoop, PutBack, Free, requestVars, queueVars, localVars,
     outputVars, ecmVars, kvVars
<1>b. /\ IsInjective(running) /\ IsInjective(waiting)
      /\ Range(running) = {q \in Requests : status[q] = "RUNNING"}
      /\ Range(waiting) = {q \in Requests : status[q] \in {"WAITING", "PREEMPTED"}}
      /\ Active = running /\ Active' = running'
  BY <1>a, Zenon DEF IInv, QueuesMatchStatus, Active
<1>c. /\ running \in Seq(Requests) /\ waiting \in Seq(Requests) /\ running # <<>>
      /\ reqIndex \in 1 .. Len(running) /\ Len(running) \in reqIndex .. Len(running)
      /\ v \in Requests /\ v \in Range(running)
  BY <1>a DEF IInv, TypeOK, Range
<1>d. /\ running' \in Seq(Requests) /\ Len(running') = Len(running) - 1
      /\ \A k \in 1 .. Len(running') : running'[k] = running[k]
      /\ IsInjective(running')
      /\ Range(running') = Range(running) \ {v}
  BY <1>a, <1>b, <1>c, FrontLemma
<1>e. /\ waiting' \in Seq(Requests) /\ IsInjective(waiting')
      /\ Range(waiting') = Range(waiting) \cup {v}
  <2>1. v \notin Range(waiting) BY <1>b, <1>c, Zenon
  <2> QED BY <1>a, <1>b, <1>c, <2>1, ConsLemma
<1>f. numScheduledTokens[v] = 0 BY <1>a, <1>c, Zenon DEF IInv, CallState
<1> HIDE DEF v
<1>1. TypeOK' BY <1>a, <1>c, <1>d, <1>e, Zenon DEF IInv, TypeOK, Status
<1>2. ManagersOK' BY <1>a, Zenon DEF IInv, ManagersOK
<1>3. CallState'
  <2>1. \A q \in Requests : status'[q] # "RUNNING" => numScheduledTokens[q] = 0
    BY <1>a, <1>c, <1>f, Zenon DEF IInv, TypeOK, CallState
  <2>2. \A k \in reqIndex .. Len(running') : numScheduledTokens[running'[k]] = 0
    <3> TAKE k \in reqIndex .. Len(running')
    <3>1. k \in 1 .. Len(running') /\ k \in reqIndex .. Len(running) BY <1>c, <1>d
    <3>2. numScheduledTokens[running[k]] = 0 BY <1>a, <3>1, Zenon DEF IInv, CallState
    <3> QED BY <1>d, <3>1, <3>2, Zenon
  <2> QED BY <1>a, <2>1, <2>2, Zenon DEF CallState
<1>4. QueuesMatchStatus'
  <2>1. {q \in Requests : status'[q] = "RUNNING"}
            = {q \in Requests : status[q] = "RUNNING"} \ {v}
    BY <1>a, <1>c, Zenon DEF IInv, TypeOK
  <2>2. {q \in Requests : status'[q] \in {"WAITING", "PREEMPTED"}}
            = {q \in Requests : status[q] \in {"WAITING", "PREEMPTED"}} \cup {v}
    BY <1>a, <1>c, Zenon DEF IInv, TypeOK
  <2> QED BY <1>b, <1>d, <1>e, <2>1, <2>2, Zenon DEF QueuesMatchStatus
<1>5. RunningHasWork'
  <2> SUFFICES ASSUME NEW k \in DOMAIN running'
               PROVE  LET q == running'[k]
                      IN  /\ numComputedTokens'[q] < numTokens[q]
                          /\ numComputedTokens'[q] + numScheduledTokens[q] <= numTokens[q]
    BY <1>a, <1>b, Zenon DEF RunningHasWork
  <2>1. /\ k \in 1 .. Len(running') /\ k \in DOMAIN running
        /\ running'[k] = running[k] /\ running'[k] \in Range(running')
    BY <1>c, <1>d DEF Range
  <2>2. running[k] \in Requests /\ running[k] # v BY <1>c, <1>d, <2>1, ElementLemma, Zenon
  <2>3. numComputedTokens'[running[k]] = numComputedTokens[running[k]]
    BY <1>a, <2>2, Zenon DEF IInv, TypeOK
  <2> QED BY <1>a, <1>b, <2>1, <2>3, Zenon DEF IInv, RunningHasWork
<1>6. PreemptedNotScheduled'
  BY <1>a, <1>c, <1>f, Zenon DEF IInv, TypeOK, PreemptedNotScheduled
<1> QED BY <1>1, <1>2, <1>3, <1>4, <1>5, <1>6, Zenon DEF IInv

\* Leaving the running loop preserves the invariant.
LEMMA EndRunningInv ==
    ASSUME IInv, EndRunning
    PROVE  IInv'
<1>1. TypeOK' BY Zenon DEF IInv, EndRunning, InRunningLoop, TypeOK, requestVars, queueVars,
                 localVars, outputVars, ecmVars, kvVars
<1>2. ManagersOK' BY Zenon DEF IInv, EndRunning, InRunningLoop, TypeOK, ManagersOK, requestVars,
                     queueVars, localVars, outputVars, ecmVars, kvVars
<1>3. CallState' BY Zenon DEF IInv, EndRunning, InRunningLoop, TypeOK, CallState, requestVars,
                    queueVars, localVars, outputVars, ecmVars, kvVars
<1>4. QueuesMatchStatus' BY Zenon DEF IInv, EndRunning, InRunningLoop, TypeOK, QueuesMatchStatus,
                            Active, requestVars, queueVars, localVars, outputVars, ecmVars,
                            kvVars
<1>5. RunningHasWork' BY Zenon DEF IInv, EndRunning, InRunningLoop, TypeOK, RunningHasWork,
                         Active, CallState, TypeOK, requestVars, queueVars, localVars,
                         outputVars, ecmVars, kvVars
<1>6. PreemptedNotScheduled' BY Zenon DEF IInv, EndRunning, InRunningLoop, TypeOK,
                                PreemptedNotScheduled, CallState, requestVars, queueVars,
                                localVars, outputVars, ecmVars, kvVars
<1> QED BY <1>1, <1>2, <1>3, <1>4, <1>5, <1>6, Zenon DEF IInv

\* Scheduling a waiting or preempted request preserves the invariant.
LEMMA ScheduleWaitingInv ==
    ASSUME IInv, ScheduleWaiting
    PROVE  IInv'
<1> DEFINE r == waiting[1]
           h == NumHashesOnLookup(r, numTokens[r])
           c == Len(PrefixHits(r)) * BlockSize
           n == AtMost(numTokens[r] - c, tokenBudget)
           plan == TryScheduleEncoderInputs(r, c, n, encoderBudget)
           full == (c + plan.tokens) \div BlockSize
<1>a. /\ pc = "waiting" /\ waiting # <<>>
      /\ cached' = [cached EXCEPT ![r] = @ \cup plan.inputs]
      /\ running' = Append(running, r)
      /\ waiting' = Tail(waiting)
      /\ status' = [status EXCEPT ![r] = "RUNNING"]
      /\ numComputedTokens' = [numComputedTokens EXCEPT ![r] = c]
      /\ scheduledNewReqs' = IF status[r] = "WAITING" THEN scheduledNewReqs \cup {r}
                             ELSE scheduledNewReqs
      /\ numScheduledTokens' = [numScheduledTokens EXCEPT ![r] = plan.tokens]
      /\ tokenBudget' = tokenBudget - plan.tokens
      /\ encoderBudget' = plan.budget
      /\ UNCHANGED <<numTokens, finishedReqIds, freed, encoderCache, pc, reqIndex,
                     preemptedReqs, newRunning, outFinished, outFreed>>
  BY Zenon DEF ScheduleWaiting, WaitingPlan, InWaitingLoop, Allocate
<1>b. \/ numBlockHashes' = [numBlockHashes EXCEPT ![r] = AtLeast(h, full)]
      \/ numBlockHashes' = [numBlockHashes EXCEPT ![r] = h]
  BY Zenon DEF ScheduleWaiting, WaitingPlan, AllocateSlots, CacheFullBlocks
<1> HIDE DEF plan, full
<1>c. /\ running \in Seq(Requests) /\ waiting \in Seq(Requests)
      /\ r \in Requests /\ r \in Range(waiting)
  BY <1>a DEF IInv, TypeOK, Range
<1>d. /\ IsInjective(running) /\ IsInjective(waiting)
      /\ Range(running) = {q \in Requests : status[q] = "RUNNING"}
      /\ Range(waiting) = {q \in Requests : status[q] \in {"WAITING", "PREEMPTED"}}
      /\ Active = running /\ Active' = running'
  BY <1>a, Zenon DEF IInv, QueuesMatchStatus, Active
<1>e. /\ c \in Nat /\ numTokens[r] \in Nat /\ c < numTokens[r]
      /\ h \in Nat /\ h * BlockSize <= numTokens[r]
  BY <1>c, HitBounds, Zenon DEF IInv, TypeOK
<1> HIDE DEF h
<1>f. n \in Nat /\ n <= tokenBudget /\ n <= numTokens[r] - c
  BY <1>c, <1>e DEF IInv, TypeOK, AtMost
<1> HIDE DEF n
<1>g. /\ plan.tokens \in 0 .. n /\ plan.inputs \subseteq Nat \ {0} /\ plan.budget \in Int
  BY <1>c, <1>e, <1>f, PlanBounds, Zenon DEF IInv, TypeOK, plan
<1> HIDE DEF c
<1>h. plan.tokens \in Nat /\ c + plan.tokens <= numTokens[r] /\ plan.tokens <= tokenBudget
  <2>1. tokenBudget \in Nat BY Zenon DEF IInv, TypeOK
  <2>2. plan.tokens \in Nat /\ plan.tokens <= n BY <1>f, <1>g
  <2>3. c + plan.tokens <= numTokens[r] BY <1>e, <1>f, <2>2
  <2> QED BY <1>f, <2>1, <2>2, <2>3
<1>i. /\ waiting' \in Seq(Requests) /\ IsInjective(waiting')
      /\ Range(waiting') = Range(waiting) \ {r}
  BY <1>a, <1>c, <1>d, TailLemma, Zenon
<1>j. /\ running' \in Seq(Requests) /\ IsInjective(running')
      /\ Range(running') = Range(running) \cup {r}
  <2>1. r \notin Range(running) BY <1>c, <1>d, Zenon
  <2> QED BY <1>a, <1>c, <1>d, <2>1, AppendLemma
<1> HIDE DEF r
<1>1. TypeOK'
  <2>0. tokenBudget \in Nat BY Zenon DEF IInv, TypeOK
  <2>1. tokenBudget' \in Nat
    <3>1. tokenBudget' = tokenBudget - plan.tokens BY <1>a, Zenon
    <3> QED BY <1>h, <2>0, <3>1
  <2>2. numScheduledTokens' \in [Requests -> Nat] BY <1>a, <1>c, <1>h, Zenon DEF IInv, TypeOK
  <2>3. numComputedTokens' \in [Requests -> Nat] BY <1>a, <1>c, <1>e, Zenon DEF IInv, TypeOK
  <2>4. status' \in [Requests -> Status] /\ scheduledNewReqs' \subseteq Requests
    BY <1>a, <1>c, Zenon DEF IInv, TypeOK, Status
  <2>5. encoderBudget' \in Int BY <1>a, <1>g, Zenon
  <2> QED BY <1>a, <1>i, <1>j, <2>1, <2>2, <2>3, <2>4, <2>5, Zenon DEF IInv, TypeOK
<1>2. ManagersOK'
  <2>1. cached' \in [Requests -> SUBSET (Nat \ {0})] BY <1>a, <1>c, <1>g, Zenon DEF IInv, ManagersOK
  <2>2. full \in Nat /\ full * BlockSize <= numTokens[r]
    <3>1. c + plan.tokens \in Nat BY <1>e, <1>h
    <3>2. full \in Nat /\ full * BlockSize <= c + plan.tokens
      BY <3>1, KVAssumption, DivBounds, Zenon DEF full
    <3> QED BY <1>e, <1>h, <3>1, <3>2, KVAssumption
  <2>3. numBlockHashes' \in [Requests -> Nat]
    BY <1>b, <1>c, <1>e, <2>2, Zenon DEF IInv, ManagersOK, AtLeast
  <2>4. \A q \in Requests : numBlockHashes'[q] * BlockSize <= numTokens[q]
    BY <1>b, <1>c, <1>e, <2>2, Zenon DEF IInv, ManagersOK, AtLeast
  <2> QED BY <1>a, <2>1, <2>3, <2>4, Zenon DEF IInv, ManagersOK
<1>3. CallState'
  <2>1. \A q \in Requests : status'[q] # "RUNNING" => numScheduledTokens'[q] = 0
    BY <1>a, <1>c, Zenon DEF IInv, TypeOK, CallState
  <2> QED BY <1>a, <2>1, Zenon DEF IInv, CallState
<1>4. QueuesMatchStatus'
  <2>1. {q \in Requests : status'[q] = "RUNNING"}
            = {q \in Requests : status[q] = "RUNNING"} \cup {r}
    BY <1>a, <1>c, Zenon DEF IInv, TypeOK
  <2>2. {q \in Requests : status'[q] \in {"WAITING", "PREEMPTED"}}
            = {q \in Requests : status[q] \in {"WAITING", "PREEMPTED"}} \ {r}
    BY <1>a, <1>c, Zenon DEF IInv, TypeOK
  <2> QED BY <1>d, <1>i, <1>j, <2>1, <2>2, Zenon DEF QueuesMatchStatus
<1>5. RunningHasWork'
  <2> SUFFICES ASSUME NEW k \in DOMAIN running'
               PROVE  LET q == running'[k]
                      IN  /\ numComputedTokens'[q] < numTokens[q]
                          /\ numComputedTokens'[q] + numScheduledTokens'[q] <= numTokens[q]
    BY <1>a, <1>d, Zenon DEF RunningHasWork
  <2>1. running'[k] \in Requests BY <1>j, ElementLemma, Zenon
  <2>2. CASE running'[k] = r
    <3>1. numComputedTokens'[r] = c /\ numScheduledTokens'[r] = plan.tokens
      BY <1>a, <1>c, Zenon DEF IInv, TypeOK
    <3> QED BY <1>e, <1>h, <2>2, <3>1, Zenon
  <2>3. CASE running'[k] # r
    <3>1. /\ numScheduledTokens'[running'[k]] = numScheduledTokens[running'[k]]
          /\ numComputedTokens'[running'[k]] = numComputedTokens[running'[k]]
      BY <1>a, <2>1, <2>3, Zenon DEF IInv, TypeOK
    <3>2. k \in DOMAIN running /\ running'[k] = running[k]
      <4>1. running' = Append(running, r) BY <1>a, Zenon
      <4> QED BY <1>c, <2>3, <4>1
    <3> QED BY <1>a, <1>d, <3>1, <3>2, Zenon DEF IInv, RunningHasWork
  <2> QED BY <2>2, <2>3, Zenon
<1>6. PreemptedNotScheduled' BY <1>a, Zenon DEF IInv, CallState, PreemptedNotScheduled
<1> QED BY <1>1, <1>2, <1>3, <1>4, <1>5, <1>6, Zenon DEF IInv

\* Giving up on the head of the waiting queue preserves the invariant.
LEMMA BlockedWaitingInv ==
    ASSUME IInv, BlockedWaiting
    PROVE  IInv'
<1> DEFINE r == waiting[1]
<1>0. r \in Requests BY DEF IInv, TypeOK, BlockedWaiting, InWaitingLoop
<1>1. TypeOK' BY Zenon DEF IInv, BlockedWaiting, TypeOK, requestVars, queueVars, localVars,
                 outputVars, ecmVars, kvVars
<1>2. ManagersOK'
  <2> HIDE DEF r
  <2>1. /\ NumHashesOnLookup(r, numTokens[r]) \in Nat
        /\ NumHashesOnLookup(r, numTokens[r]) * BlockSize <= numTokens[r]
    BY <1>0, HitBounds, Zenon DEF IInv
  <2>2. /\ numBlockHashes' = [numBlockHashes EXCEPT ![r] = NumHashesOnLookup(r, numTokens[r])]
        /\ UNCHANGED <<cached, freed, numTokens>>
    BY Zenon DEF BlockedWaiting, SetBlockHashes, r, requestVars, queueVars, localVars, outputVars,
       ecmVars, kvVars
  <2> QED BY <1>0, <2>1, <2>2, Zenon DEF IInv, ManagersOK
<1>3. CallState' BY Zenon DEF IInv, BlockedWaiting, InWaitingLoop, CallState, requestVars,
                    queueVars, localVars, outputVars, ecmVars, kvVars
<1>4. QueuesMatchStatus'
  BY Zenon DEF IInv, BlockedWaiting, InWaitingLoop, QueuesMatchStatus, Active, requestVars,
     queueVars, localVars, outputVars, ecmVars, kvVars
<1>5. RunningHasWork'
  BY Zenon DEF IInv, BlockedWaiting, InWaitingLoop, RunningHasWork, Active, requestVars,
     queueVars, localVars, outputVars, ecmVars, kvVars
<1>6. PreemptedNotScheduled'
  BY Zenon DEF IInv, BlockedWaiting, PreemptedNotScheduled, requestVars, queueVars,
     localVars, outputVars, ecmVars, kvVars
<1> QED BY <1>1, <1>2, <1>3, <1>4, <1>5, <1>6, Zenon DEF IInv

\* Leaving the waiting loop preserves the invariant.
LEMMA EndWaitingInv ==
    ASSUME IInv, EndWaiting
    PROVE  IInv'
<1>1. TypeOK' BY Zenon DEF IInv, EndWaiting, TypeOK, requestVars, queueVars, localVars,
                 outputVars, ecmVars, kvVars
<1>2. ManagersOK' BY Zenon DEF IInv, EndWaiting, TypeOK, ManagersOK, requestVars, queueVars,
                     localVars, outputVars, ecmVars, kvVars
<1>3. CallState' BY Zenon DEF IInv, EndWaiting, TypeOK, CallState, requestVars, queueVars,
                    localVars, outputVars, ecmVars, kvVars
<1>4. QueuesMatchStatus' BY Zenon DEF IInv, EndWaiting, TypeOK, QueuesMatchStatus, Active,
                            requestVars, queueVars, localVars, outputVars, ecmVars, kvVars
<1>5. RunningHasWork' BY Zenon DEF IInv, EndWaiting, TypeOK, RunningHasWork, Active, CallState,
                         TypeOK, requestVars, queueVars, localVars, outputVars, ecmVars,
                         kvVars
<1>6. PreemptedNotScheduled' BY Zenon DEF IInv, EndWaiting, TypeOK, PreemptedNotScheduled,
                                CallState, requestVars, queueVars, localVars, outputVars,
                                ecmVars, kvVars
<1> QED BY <1>1, <1>2, <1>3, <1>4, <1>5, <1>6, Zenon DEF IInv

\* Building the SchedulerOutput preserves the invariant.
LEMMA MakeOutputInv ==
    ASSUME IInv, MakeOutput
    PROVE  IInv'
<1>1. TypeOK' BY Zenon DEF IInv, MakeOutput, GetFreedIds, ManagersOK, TypeOK, requestVars,
                 queueVars, localVars, outputVars, ecmVars, kvVars
<1>2. ManagersOK' BY Zenon DEF IInv, MakeOutput, GetFreedIds, TypeOK, ManagersOK, requestVars,
                     queueVars, localVars, outputVars, ecmVars, kvVars
<1>3. CallState' BY Zenon DEF IInv, MakeOutput, GetFreedIds, ManagersOK, TypeOK, CallState,
                    requestVars, queueVars, localVars, outputVars, ecmVars, kvVars
<1>4. QueuesMatchStatus' BY Zenon DEF IInv, MakeOutput, GetFreedIds, ManagersOK, TypeOK,
                            QueuesMatchStatus, Active, requestVars, queueVars, localVars,
                            outputVars, ecmVars, kvVars
<1>5. RunningHasWork' BY Zenon DEF IInv, MakeOutput, GetFreedIds, ManagersOK, TypeOK,
                         RunningHasWork, Active, CallState, TypeOK, requestVars, queueVars,
                         localVars, outputVars, ecmVars, kvVars
<1>6. PreemptedNotScheduled' BY Zenon DEF IInv, MakeOutput, GetFreedIds, ManagersOK, TypeOK,
                                PreemptedNotScheduled, CallState, requestVars, queueVars,
                                localVars, outputVars, ecmVars, kvVars
<1> QED BY <1>1, <1>2, <1>3, <1>4, <1>5, <1>6, Zenon DEF IInv

\* Dropping an output without tokens preserves the invariant.
LEMMA DropOutputInv ==
    ASSUME IInv, DropOutput
    PROVE  IInv'
<1>1. TypeOK' BY DEF IInv, DropOutput, ForgetCall, TypeOK, requestVars, queueVars,
                 localVars, outputVars, ecmVars, kvVars
<1>2. ManagersOK' BY Zenon DEF IInv, DropOutput, ForgetCall, ManagersOK, requestVars, queueVars,
                     localVars, outputVars, ecmVars, kvVars
<1>3. CallState' BY Zenon DEF IInv, DropOutput, ForgetCall, CallState, requestVars,
                    queueVars, localVars, outputVars, ecmVars, kvVars
<1>4. QueuesMatchStatus' BY Zenon DEF IInv, DropOutput, ForgetCall, QueuesMatchStatus, Active,
                            requestVars, queueVars, localVars, outputVars, ecmVars, kvVars
<1>5. RunningHasWork' BY DEF IInv, DropOutput, ForgetCall, RunningHasWork, Active,
                         CallState, TypeOK, requestVars, queueVars, localVars, outputVars,
                         ecmVars, kvVars
<1>6. PreemptedNotScheduled' BY Zenon DEF IInv, DropOutput, ForgetCall,
                                PreemptedNotScheduled, CallState, requestVars, queueVars,
                                localVars, outputVars, ecmVars, kvVars
<1> QED BY <1>1, <1>2, <1>3, <1>4, <1>5, <1>6, Zenon DEF IInv

-----------------------------------------------------------------------------
(* Execution and update_from_output(), and the theorems. *)

\* execute_model preserves the invariant.
LEMMA ExecuteModelInv ==
    ASSUME IInv, ExecuteModel
    PROVE  IInv'
<1>0. /\ pc = "output" /\ pc' \in {"update", "dead"} /\ reqIndex' = 1 /\ newRunning' = <<>>
      /\ encoderCache' = EncoderCacheAfterUpdateStates
      /\ UNCHANGED <<status, numComputedTokens, numTokens, waiting, running, finishedReqIds,
                     cached, freed, numBlockHashes, tokenBudget, encoderBudget, preemptedReqs,
                     numScheduledTokens, scheduledNewReqs, outFinished, outFreed>>
  BY Zenon DEF ExecuteModel, requestVars, queueVars, localVars, outputVars, ecmVars, kvVars
<1>1. TypeOK'
  <2>1. encoderCache' \in [Requests -> SUBSET (Nat \ {0})]
    BY <1>0, Zenon DEF EncoderCacheAfterUpdateStates, IInv, TypeOK
  <2>2. /\ pc' \in {"idle", "running", "waiting", "build", "output", "update", "dead"}
        /\ reqIndex' \in Nat \ {0} /\ newRunning' \in Seq(Requests)
    BY <1>0
  <2> HIDE <1>0
  <2>3. UNCHANGED <<status, numComputedTokens, numTokens, waiting, running, finishedReqIds,
                    tokenBudget, encoderBudget, preemptedReqs, numScheduledTokens,
                    scheduledNewReqs, outFinished, outFreed>>
    BY <1>0, Zenon
  <2> QED BY <2>1, <2>2, <2>3, Zenon DEF IInv, TypeOK
<1>2. ManagersOK' BY <1>0, Zenon DEF IInv, ManagersOK
<1>3. CallState' BY <1>0 DEF IInv, TypeOK, CallState
<1>4. pc' = "update" => Active' = running /\ Active = running
  <2>1. running \in Seq(Requests) BY Zenon DEF IInv, TypeOK
  <2>2. SubSeq(running, 1, Len(running)) = running BY <2>1
  <2>3. <<>> \o running = running BY <2>1
  <2> QED BY <1>0, <2>2, <2>3, Zenon DEF Active
<1>5. QueuesMatchStatus' BY <1>0, <1>4, Zenon DEF IInv, QueuesMatchStatus
<1>6. RunningHasWork'
  BY <1>0, <1>4, Zenon DEF IInv, RunningHasWork
<1>7. PreemptedNotScheduled' BY <1>0, Zenon DEF IInv, PreemptedNotScheduled
<1> QED BY <1>1, <1>2, <1>3, <1>5, <1>6, <1>7, Zenon DEF IInv

\* update_from_output preserves the invariant for a request without tokens,
LEMMA UpdateUnscheduledInv ==
    ASSUME IInv, UpdateUnscheduled
    PROVE  IInv'
<1>0. /\ pc = "update" /\ reqIndex <= Len(running)
      /\ newRunning' = Append(newRunning, running[reqIndex]) /\ reqIndex' = reqIndex + 1
      /\ UNCHANGED <<status, numComputedTokens, numTokens, waiting, running, finishedReqIds,
                     cached, freed, numBlockHashes, tokenBudget, encoderBudget, preemptedReqs,
                     numScheduledTokens, scheduledNewReqs, outFinished, outFreed, pc,
                     encoderCache>>
  BY Zenon DEF UpdateUnscheduled, InUpdateLoop, requestVars, queueVars, localVars, outputVars,
     ecmVars, kvVars
<1>a. /\ running \in Seq(Requests) /\ newRunning \in Seq(Requests)
      /\ reqIndex \in 1 .. Len(running) /\ running[reqIndex] \in Requests
  <2>1. /\ running \in Seq(Requests) /\ newRunning \in Seq(Requests)
        /\ reqIndex \in Nat \ {0}
    BY Zenon DEF IInv, TypeOK
  <2>2. reqIndex <= Len(running) BY <1>0, Zenon
  <2>3. reqIndex \in 1 .. Len(running) BY <2>1, <2>2
  <2> QED BY <2>1, <2>3
<1>b. newRunning' \in Seq(Requests) /\ Len(newRunning') = Len(newRunning) + 1
  BY <1>0, <1>a
<1>1. TypeOK'
  <2>1. reqIndex' \in Nat \ {0} BY <1>0, <1>a
  <2> QED BY <1>0, <1>b, <2>1, Zenon DEF IInv, TypeOK
<1>2. ManagersOK' BY <1>0, Zenon DEF IInv, ManagersOK
<1>3. CallState' BY <1>0, <1>a DEF IInv, CallState
<1>4. Active' = Active BY <1>0, <1>a, ShiftLemma, Zenon DEF Active
<1>5. QueuesMatchStatus' BY <1>0, <1>4, Zenon DEF IInv, QueuesMatchStatus
<1>6. RunningHasWork'
  <2> SUFFICES ASSUME NEW n \in DOMAIN Active
               PROVE  LET r == Active[n]
                      IN  /\ numComputedTokens[r] < numTokens[r]
                          /\ ~(n <= Len(newRunning')) =>
                                numComputedTokens[r] + numScheduledTokens[r] <= numTokens[r]
    BY <1>0, <1>4, Zenon DEF RunningHasWork
  <2>1. Active \in Seq(Requests) BY <1>0, <1>a, ShiftLemma, Zenon DEF Active
  <2>2. n \in Nat BY <2>1, ElementLemma, Zenon
  <2>3. n <= Len(newRunning) => n <= Len(newRunning') BY <1>a, <1>b, <2>2
  <2> QED BY <1>0, <2>3, Zenon DEF IInv, RunningHasWork
<1>7. PreemptedNotScheduled' BY <1>0, Zenon DEF IInv, PreemptedNotScheduled
<1> QED BY <1>1, <1>2, <1>3, <1>5, <1>6, <1>7, Zenon DEF IInv

\* for a scheduled request that goes on,
LEMMA UpdateContinueInv ==
    ASSUME IInv, UpdateContinue
    PROVE  IInv'
<1> DEFINE r == running[reqIndex]
           c == numComputedTokens[r] + numScheduledTokens[r]
           p == Len(newRunning) + 1
<1>a. /\ pc = "update" /\ reqIndex <= Len(running) /\ numScheduledTokens[r] # 0
      /\ numComputedTokens' = [numComputedTokens EXCEPT ![r] = c]
      /\ \/ c # numTokens[r] /\ numTokens' = numTokens
         \/ c = numTokens[r] /\ numTokens' = [numTokens EXCEPT ![r] = c + 1]
      /\ newRunning' = Append(newRunning, r) /\ reqIndex' = reqIndex + 1
      /\ UNCHANGED <<status, waiting, running, finishedReqIds, numBlockHashes, tokenBudget,
                     encoderBudget, preemptedReqs, numScheduledTokens, scheduledNewReqs,
                     outFinished, outFreed, pc, encoderCache>>
  BY Zenon DEF UpdateContinue, InUpdateLoop, requestVars, queueVars, localVars, outputVars,
     ecmVars, kvVars
<1>b. /\ cached' = [cached EXCEPT ![r] = @ \ Consumed(r, c)]
      /\ freed' = freed \cup ({r} \X Consumed(r, c))
  BY Zenon DEF UpdateContinue, FreeEncoderInputs
<1>c. /\ running \in Seq(Requests) /\ newRunning \in Seq(Requests)
      /\ reqIndex \in 1 .. Len(running) /\ r \in Requests
  <2>1. /\ running \in Seq(Requests) /\ newRunning \in Seq(Requests)
        /\ reqIndex \in Nat \ {0}
    BY Zenon DEF IInv, TypeOK
  <2>2. reqIndex <= Len(running) BY <1>a, Zenon
  <2>3. reqIndex \in 1 .. Len(running) BY <2>1, <2>2
  <2> QED BY <2>1, <2>3
<1>d. newRunning' \in Seq(Requests) /\ Len(newRunning') = p
  <2>1. newRunning' = Append(newRunning, r) BY <1>a, Zenon
  <2> QED BY <1>c, <2>1
<1>e. /\ Active \in Seq(Requests) /\ Active' = Active
      /\ p \in 1 .. Len(Active) /\ Active[p] = r
  <2> DEFINE s == newRunning \o SubSeq(running, reqIndex, Len(running))
             t == newRunning \o SubSeq(running, reqIndex + 1, Len(running))
  <2>0. /\ s \in Seq(Requests) /\ t \in Seq(Requests)
        /\ Append(newRunning, r) \o SubSeq(running, reqIndex + 1, Len(running)) = s
        /\ p \in 1 .. Len(s) /\ s[p] = r /\ Drops(s, t, p)
    BY <1>c, ShiftLemma, Zenon
  <2>1. Active = s BY <1>a, Zenon DEF Active
  <2>2. Active' = s BY <1>a, <2>0, Zenon DEF Active
  <2> HIDE DEF s, t, r, p
  <2> QED BY <2>0, <2>1, <2>2, Zenon
<1>f. \A k, l \in 1 .. Len(Active) : Active[k] = Active[l] => k = l
  BY <1>a, <1>e, InjectiveLemma, Zenon DEF IInv, QueuesMatchStatus
<1>g. c \in Nat /\ c <= numTokens[r] /\ numTokens[r] \in Nat
  <2>1. p \in DOMAIN Active /\ ~(p <= Len(newRunning)) BY <1>c, <1>e
  <2>2. numComputedTokens[r] + numScheduledTokens[r] <= numTokens[r]
    BY <1>a, <1>e, <2>1, Zenon DEF IInv, RunningHasWork
  <2> QED BY <1>c, <2>2 DEF IInv, TypeOK
<1> HIDE DEF c
<1>h. /\ numTokens' \in [Requests -> Nat \ {0}] /\ numComputedTokens' \in [Requests -> Nat]
      /\ numComputedTokens'[r] < numTokens'[r]
      /\ \A q \in Requests : numTokens[q] <= numTokens'[q]
      /\ \A q \in Requests : q # r => /\ numTokens'[q] = numTokens[q]
                                     /\ numComputedTokens'[q] = numComputedTokens[q]
  <2>1. numTokens \in [Requests -> Nat \ {0}] /\ numComputedTokens \in [Requests -> Nat]
    BY Zenon DEF IInv, TypeOK
  <2>2. numComputedTokens' \in [Requests -> Nat] /\ numComputedTokens'[r] = c
    BY <1>a, <1>c, <1>g, <2>1, Zenon
  <2>3. CASE c # numTokens[r] /\ numTokens' = numTokens
    BY <1>a, <1>c, <1>g, <2>1, <2>2, <2>3
  <2>4. CASE c = numTokens[r] /\ numTokens' = [numTokens EXCEPT ![r] = c + 1]
    <3>1. numTokens' \in [Requests -> Nat \ {0}] /\ numTokens'[r] = c + 1
      BY <1>c, <1>g, <2>1, <2>4
    <3>2. \A q \in Requests : q # r => /\ numTokens'[q] = numTokens[q]
                                      /\ numComputedTokens'[q] = numComputedTokens[q]
      BY <1>a, <1>c, <2>1, <2>4, Zenon
    <3>3. c < c + 1 /\ c <= c + 1 /\ \A q \in Requests : numTokens[q] <= numTokens[q]
      BY <1>g, <2>1
    <3>4. \A q \in Requests : numTokens[q] <= numTokens'[q] BY <2>4, <3>1, <3>2, <3>3, Zenon
    <3> QED BY <2>2, <3>1, <3>2, <3>3, <3>4, Zenon
  <2> QED BY <1>a, <2>3, <2>4, Zenon
<1> HIDE DEF r
<1>1. TypeOK'
  <2>1. reqIndex' \in Nat \ {0} BY <1>a, <1>c
  <2> QED BY <1>a, <1>d, <1>h, <2>1, Zenon DEF IInv, TypeOK
<1>2. ManagersOK'
  <2>1. Consumed(r, c) \subseteq Nat \ {0} BY <1>c, Zenon DEF IInv, ManagersOK, Consumed
  <2>2. cached' \in [Requests -> SUBSET (Nat \ {0})] BY <1>b, <1>c, Zenon DEF IInv, ManagersOK
  <2>3. freed' \subseteq Requests \X (Nat \ {0}) BY <1>b, <1>c, <2>1, Zenon DEF IInv, ManagersOK
  <2>4. \A q \in Requests : numBlockHashes[q] * BlockSize <= numTokens'[q]
    <3> TAKE q \in Requests
    <3>1. numBlockHashes[q] * BlockSize <= numTokens[q] BY Zenon DEF IInv, ManagersOK
    <3>2. numBlockHashes[q] * BlockSize \in Nat BY KVAssumption DEF IInv, ManagersOK
    <3>3. numTokens[q] \in Nat /\ numTokens'[q] \in Nat BY <1>h, Zenon DEF IInv, TypeOK
    <3> QED BY <1>h, <3>1, <3>2, <3>3
  <2> QED BY <1>a, <2>2, <2>3, <2>4, Zenon DEF IInv, ManagersOK
<1>3. CallState' BY <1>a, <1>c DEF IInv, CallState
<1>4. QueuesMatchStatus' BY <1>a, <1>e, Zenon DEF IInv, QueuesMatchStatus
<1>5. RunningHasWork'
  <2> SUFFICES ASSUME NEW k \in DOMAIN Active
               PROVE  LET q == Active[k]
                      IN  /\ numComputedTokens'[q] < numTokens'[q]
                          /\ ~(k <= p) =>
                                numComputedTokens'[q] + numScheduledTokens[q] <= numTokens'[q]
    BY <1>a, <1>d, <1>e, Zenon DEF RunningHasWork
  <2>1. Active[k] \in Requests /\ k \in 1 .. Len(Active) BY <1>e, ElementLemma
  <2>2. CASE k = p BY <1>e, <1>h, <2>2
  <2>3. CASE k # p
    <3>1. Active[k] # r BY <1>e, <1>f, <2>1, <2>3, Zenon
    <3>2. k <= Len(newRunning) => k <= p BY <1>c, <2>1
    <3>3. /\ numTokens'[Active[k]] = numTokens[Active[k]]
          /\ numComputedTokens'[Active[k]] = numComputedTokens[Active[k]]
      BY <1>h, <2>1, <3>1, Zenon
    <3> HIDE DEF p
    <3> QED BY <1>a, <3>2, <3>3, Zenon DEF IInv, RunningHasWork
  <2> QED BY <2>2, <2>3, Zenon
<1>6. PreemptedNotScheduled' BY <1>a, Zenon DEF IInv, PreemptedNotScheduled
<1> QED BY <1>1, <1>2, <1>3, <1>4, <1>5, <1>6, Zenon DEF IInv

\* and for one that stops.
LEMMA UpdateStopInv ==
    ASSUME IInv, UpdateStop
    PROVE  IInv'
<1> DEFINE r == running[reqIndex]
           c == numComputedTokens[r] + numScheduledTokens[r]
           p == Len(newRunning) + 1
<1>a. /\ pc = "update" /\ pc' \in {"update", "dead"} /\ reqIndex <= Len(running)
      /\ c = numTokens[r]
      /\ numComputedTokens' = [numComputedTokens EXCEPT ![r] = c]
      /\ numTokens' = [numTokens EXCEPT ![r] = c + 1]
      /\ status' = [status EXCEPT ![r] = "FINISHED"]
      /\ finishedReqIds' \in {finishedReqIds, finishedReqIds \cup {r}}
      /\ reqIndex' = reqIndex + 1
      /\ UNCHANGED <<waiting, running, newRunning, numBlockHashes, tokenBudget,
                     encoderBudget, preemptedReqs, numScheduledTokens, scheduledNewReqs,
                     outFinished, outFreed, encoderCache>>
  BY Zenon DEF UpdateStop, InUpdateLoop, Free, requestVars, queueVars, localVars,
     outputVars, ecmVars, kvVars
<1>b. /\ cached' = [cached EXCEPT ![r] = @ \ Consumed(r, c)]
      /\ freed' = freed \cup ({r} \X Consumed(r, c))
  BY Zenon DEF UpdateStop, FreeEncoderInputs
<1>c. /\ running \in Seq(Requests) /\ newRunning \in Seq(Requests)
      /\ reqIndex \in 1 .. Len(running) /\ r \in Requests
      /\ numScheduledTokens[r] \in Nat /\ c \in Nat
  BY <1>a DEF IInv, TypeOK
<1>e. /\ Active \in Seq(Requests) /\ p \in 1 .. Len(Active) /\ Active[p] = r
      /\ pc' = "update" => Active' \in Seq(Requests) /\ Drops(Active, Active', p)
  <2> DEFINE s == newRunning \o SubSeq(running, reqIndex, Len(running))
             t == newRunning \o SubSeq(running, reqIndex + 1, Len(running))
  <2>0. /\ s \in Seq(Requests) /\ t \in Seq(Requests)
        /\ Append(newRunning, r) \o SubSeq(running, reqIndex + 1, Len(running)) = s
        /\ p \in 1 .. Len(s) /\ s[p] = r /\ Drops(s, t, p)
    BY <1>c, ShiftLemma, Zenon
  <2>1. Active = s BY <1>a, Zenon DEF Active
  <2>2. pc' = "update" => Active' = t BY <1>a, Zenon DEF Active
  <2> HIDE DEF s, t, r, p
  <2> QED BY <2>0, <2>1, <2>2, Zenon
<1>f. /\ IsInjective(Active)
      /\ Range(Active) = {q \in Requests : status[q] = "RUNNING"}
      /\ IsInjective(waiting)
      /\ Range(waiting) = {q \in Requests : status[q] \in {"WAITING", "PREEMPTED"}}
  BY <1>a, Zenon DEF IInv, QueuesMatchStatus
<1>g. r \in Range(Active) BY <1>e, InjectiveLemma
<1> HIDE DEF c
<1>h. /\ numTokens' \in [Requests -> Nat \ {0}] /\ numComputedTokens' \in [Requests -> Nat]
      /\ \A q \in Requests : numTokens[q] <= numTokens'[q]
      /\ \A q \in Requests : q # r => /\ numTokens'[q] = numTokens[q]
                                     /\ numComputedTokens'[q] = numComputedTokens[q]
  <2>1. numTokens \in [Requests -> Nat \ {0}] /\ numComputedTokens \in [Requests -> Nat]
    BY Zenon DEF IInv, TypeOK
  <2>2. numComputedTokens' \in [Requests -> Nat] BY <1>a, <1>c, <2>1, Zenon
  <2>3. numTokens' \in [Requests -> Nat \ {0}] /\ numTokens'[r] = c + 1
    <3>1. c + 1 \in Nat \ {0} BY <1>c
    <3> QED BY <1>a, <1>c, <2>1, <3>1, Zenon
  <2>4. \A q \in Requests : q # r => /\ numTokens'[q] = numTokens[q]
                                    /\ numComputedTokens'[q] = numComputedTokens[q]
    BY <1>a, <1>c, <2>1, Zenon
  <2>5. ASSUME NEW q \in Requests PROVE numTokens[q] <= numTokens'[q]
    <3>1. numTokens[q] \in Nat /\ c = numTokens[r] BY <1>a, <2>1, Zenon
    <3>2. CASE q = r BY <1>c, <2>3, <3>1, <3>2
    <3>3. CASE q # r BY <2>4, <3>1, <3>3
    <3> QED BY <3>2, <3>3, Zenon
  <2> QED BY <2>2, <2>3, <2>4, <2>5, Zenon
<1> HIDE DEF r
<1>1. TypeOK'
  <2>1. reqIndex' \in Nat \ {0} BY <1>a, <1>c
  <2>2. status' \in [Requests -> Status] BY <1>a, <1>c, Zenon DEF IInv, TypeOK, Status
  <2>3. finishedReqIds' \subseteq Requests BY <1>a, <1>c, Zenon DEF IInv, TypeOK
  <2> QED BY <1>a, <1>h, <2>1, <2>2, <2>3, Zenon DEF IInv, TypeOK
<1>2. ManagersOK'
  <2>1. Consumed(r, c) \subseteq Nat \ {0} BY <1>c, Zenon DEF IInv, ManagersOK, Consumed
  <2>2. cached' \in [Requests -> SUBSET (Nat \ {0})] BY <1>b, <1>c, Zenon DEF IInv, ManagersOK
  <2>3. freed' \subseteq Requests \X (Nat \ {0}) BY <1>b, <1>c, <2>1, Zenon DEF IInv, ManagersOK
  <2>4. \A q \in Requests : numBlockHashes[q] * BlockSize <= numTokens'[q]
    <3> TAKE q \in Requests
    <3>1. numBlockHashes[q] * BlockSize <= numTokens[q] BY Zenon DEF IInv, ManagersOK
    <3>2. numBlockHashes[q] * BlockSize \in Nat BY KVAssumption DEF IInv, ManagersOK
    <3>3. numTokens[q] \in Nat /\ numTokens'[q] \in Nat BY <1>h, Zenon DEF IInv, TypeOK
    <3> QED BY <1>h, <3>1, <3>2, <3>3
  <2> QED BY <1>a, <2>2, <2>3, <2>4, Zenon DEF IInv, ManagersOK
<1>3. CallState' BY <1>a, <1>c DEF IInv, CallState
<1>i. pc' = "update" => IsInjective(Active') /\ Range(Active') = Range(Active) \ {r}
  BY <1>e, <1>f, DropOneLemma
<1>4. QueuesMatchStatus'
  <2>1. {q \in Requests : status'[q] = "RUNNING"}
            = {q \in Requests : status[q] = "RUNNING"} \ {r}
    BY <1>a, <1>c, Zenon DEF IInv, TypeOK
  <2>2. {q \in Requests : status'[q] \in {"WAITING", "PREEMPTED"}}
            = {q \in Requests : status[q] \in {"WAITING", "PREEMPTED"}}
    BY <1>a, <1>c, <1>f, <1>g, Zenon DEF IInv, TypeOK
  <2> QED BY <1>a, <1>f, <1>i, <2>1, <2>2, Zenon DEF QueuesMatchStatus
<1>5. RunningHasWork'
  <2> SUFFICES ASSUME pc' = "update", NEW k \in DOMAIN Active'
               PROVE  LET q == Active'[k]
                      IN  /\ numComputedTokens'[q] < numTokens'[q]
                          /\ ~(k <= Len(newRunning)) =>
                                numComputedTokens'[q] + numScheduledTokens[q] <= numTokens'[q]
    BY <1>a, Zenon DEF RunningHasWork
  <2>1. Active' \in Seq(Requests) /\ Drops(Active, Active', p) BY <1>e, Zenon
  <2>2. Active'[k] \in Requests /\ k \in 1 .. Len(Active') BY <2>1, ElementLemma
  <2>3. Active'[k] # r
    <3>1. Active'[k] \in Range(Active') BY <2>2, Zenon DEF Range
    <3> QED BY <1>i, <3>1, Zenon
  <2>4. PICK l \in 1 .. Len(Active) : /\ Active[l] = Active'[k]
                                      /\ l <= Len(newRunning) => k <= Len(newRunning)
    <3>1. CASE k < p
      <4>1. k \in 1 .. Len(Active) /\ Active[k] = Active'[k] BY <1>e, <2>1, <2>2, <3>1 DEF Drops
      <4> QED BY <4>1, Zenon
    <3>2. CASE ~(k < p)
      <4>1. k + 1 \in 1 .. Len(Active) /\ Active[k + 1] = Active'[k]
        BY <1>e, <2>1, <2>2, <3>2 DEF Drops
      <4>2. ~(k + 1 <= Len(newRunning)) BY <1>c, <2>2, <3>2
      <4> QED BY <4>1, <4>2, Zenon
    <3> QED BY <3>1, <3>2, Zenon
  <2>5. /\ numTokens'[Active'[k]] = numTokens[Active'[k]]
        /\ numComputedTokens'[Active'[k]] = numComputedTokens[Active'[k]]
    BY <1>h, <2>2, <2>3, Zenon
  <2>6. l \in DOMAIN Active BY <1>e, <2>4
  <2> QED BY <1>a, <2>4, <2>5, <2>6, Zenon DEF IInv, RunningHasWork
<1>6. PreemptedNotScheduled'
  <2>1. \A q \in preemptedReqs : q \in Requests /\ q # r
    BY <1>c, <1>f, <1>g, Zenon DEF IInv, TypeOK, PreemptedNotScheduled
  <2> QED BY <1>a, <2>1, Zenon DEF IInv, TypeOK, PreemptedNotScheduled
<1> QED BY <1>1, <1>2, <1>3, <1>4, <1>5, <1>6, Zenon DEF IInv

\* The end of update_from_output preserves the invariant.
LEMMA EndUpdateInv ==
    ASSUME IInv, EndUpdate
    PROVE  IInv'
<1>0. /\ pc = "update" /\ ~(reqIndex <= Len(running)) /\ pc' = "idle" /\ running' = newRunning
      /\ reqIndex' = 1 /\ tokenBudget' = 0 /\ encoderBudget' = 0
      /\ preemptedReqs' = {} /\ newRunning' = <<>>
      /\ numScheduledTokens' = [r \in Requests |-> 0]
      /\ scheduledNewReqs' = {} /\ outFinished' = {} /\ outFreed' = {}
      /\ UNCHANGED <<status, numComputedTokens, numTokens, waiting, finishedReqIds,
                     cached, freed, numBlockHashes, encoderCache>>
  BY Zenon DEF EndUpdate, InUpdateLoop, ForgetCall, requestVars, queueVars, localVars, outputVars,
     ecmVars, kvVars
<1>1. TypeOK' BY <1>0 DEF IInv, TypeOK
<1>2. ManagersOK' BY <1>0, Zenon DEF IInv, ManagersOK
<1>3. CallState' BY <1>0, Zenon DEF IInv, TypeOK, CallState
<1>4. Active' = newRunning /\ Active = newRunning
  <2>1. running \in Seq(Requests) /\ newRunning \in Seq(Requests) /\ reqIndex \in Nat
    BY Zenon DEF IInv, TypeOK
  <2>2. SubSeq(running, reqIndex, Len(running)) = <<>> BY <1>0, <2>1
  <2>3. newRunning \o <<>> = newRunning BY <2>1
  <2> QED BY <1>0, <2>2, <2>3, Zenon DEF Active
<1>5. QueuesMatchStatus' BY <1>0, <1>4, Zenon DEF IInv, QueuesMatchStatus
<1>6. RunningHasWork'
  <2>1. \A n \in DOMAIN newRunning : newRunning[n] \in Requests
    BY ElementLemma, Zenon DEF IInv, TypeOK
  <2>2. \A n \in DOMAIN newRunning :
            numComputedTokens[newRunning[n]] < numTokens[newRunning[n]]
    BY <1>0, <1>4, Zenon DEF IInv, RunningHasWork
  <2> QED BY <1>0, <1>4, <2>1, <2>2 DEF IInv, TypeOK, RunningHasWork
<1>7. PreemptedNotScheduled' BY <1>0, Zenon DEF PreemptedNotScheduled
<1> QED BY <1>1, <1>2, <1>3, <1>5, <1>6, <1>7, Zenon DEF IInv

\* Every step of the scheduler, its client and the encoder process preserves
\* the invariant.
LEMMA NextInv == IInv /\ [Next]_vars => IInv'
<1> SUFFICES ASSUME IInv, [Next]_vars PROVE IInv' BY Zenon
<1>1. CASE Environment
  <2>1. ASSUME NEW r \in Requests, AddRequest(r) PROVE IInv' BY <2>1, AddRequestInv, Zenon
  <2>2. ASSUME NEW r \in Requests, FinishRequest(r) PROVE IInv' BY <2>2, FinishRequestInv, Zenon
  <2>3. ASSUME NEW r \in Requests, NEW S \in SUBSET Inputs(r), HandleEncoderResult(r, S)
        PROVE  IInv'
    <3>1. Inputs(r) \subseteq Nat \ {0} BY InputNumbers, Zenon
    <3> QED BY <2>3, <3>1, HandleEncoderResultInv, Zenon
  <2>4. CASE ResetCache BY <2>4, ResetCacheInv, Zenon
  <2> QED BY <1>1, <2>1, <2>2, <2>3, <2>4, Zenon DEF Environment
<1>2. CASE Schedule
  BY <1>2, BeginScheduleInv, SkipRunningInv, ScheduleRunningInv, PreemptInv, EndRunningInv,
     ScheduleWaitingInv, BlockedWaitingInv, EndWaitingInv, MakeOutputInv, DropOutputInv, Zenon
     DEF Schedule
<1>3. CASE Update
  BY <1>3, ExecuteModelInv, UpdateUnscheduledInv, UpdateContinueInv, UpdateStopInv,
     EndUpdateInv, Zenon DEF Update
<1>4. CASE UNCHANGED vars
  BY <1>4, Zenon DEF IInv, TypeOK, ManagersOK, CallState, QueuesMatchStatus, RunningHasWork,
              PreemptedNotScheduled, Active, vars, schedVars, requestVars, queueVars,
              localVars, outputVars, ecmVars, kvVars
<1> QED BY <1>1, <1>2, <1>3, <1>4, Zenon DEF Next

\* The invariant holds in every reachable state of the scheduler.
THEOREM Invariance == Spec => []IInv
<1> QED BY InitInv, NextInv, PTL DEF Spec

\* For every set of requests, configuration and block pool the variables of
\* the Scheduler keep their types: schedule() never overspends its token
\* budget, and no request loses its last token.
THEOREM TypeCorrect == Spec => []TypeOK
<1>1. IInv => TypeOK BY Zenon DEF IInv
<1> QED BY <1>1, Invariance, PTL

\* A request is in exactly the queue its status names, once, whatever the
\* order of scheduling, preemption, stopping and aborting.
THEOREM QueuesAgree == Spec => []QueuesMatchStatus
<1>1. IInv => QueuesMatchStatus BY Zenon DEF IInv
<1> QED BY <1>1, Invariance, PTL

\* The assertions of schedule() and update_from_output() hold: a running
\* request has a token to compute and is never given more than it has.
THEOREM WorkRemains == Spec => []RunningHasWork
<1>1. IInv => RunningHasWork BY Zenon DEF IInv
<1> QED BY <1>1, Invariance, PTL

\* A request preempted by a call of schedule() is not scheduled by that call.
THEOREM PreemptedIdle == Spec => []PreemptedNotScheduled
<1>1. IInv => PreemptedNotScheduled BY Zenon DEF IInv
<1> QED BY <1>1, Invariance, PTL

\* The request that update_from_output looks at: a running one, with no other
\* place in the rest of the list, and its tokens in bounds.
LEMMA UpdatePlace ==
    ASSUME IInv, pc = "update", reqIndex <= Len(running)
    PROVE  LET r == running[reqIndex]
           IN  /\ r \in Requests /\ status[r] = "RUNNING"
               /\ reqIndex \in 1 .. Len(running)
               /\ \A k \in reqIndex + 1 .. Len(running) : running[k] # r
               /\ numComputedTokens[r] < numTokens[r]
               /\ numComputedTokens[r] + numScheduledTokens[r] <= numTokens[r]
<1> DEFINE r == running[reqIndex]
           x == SubSeq(running, reqIndex, Len(running))
           m == Len(newRunning)
<1>1. running \in Seq(Requests) /\ newRunning \in Seq(Requests) /\ reqIndex \in Nat \ {0}
  BY Zenon DEF IInv, TypeOK
<1>2. reqIndex \in 1 .. Len(running) /\ r \in Requests /\ m \in Nat /\ Len(running) \in Nat
  BY <1>1
<1>3. /\ x \in Seq(Requests) /\ Len(x) = Len(running) - reqIndex + 1
      /\ \A k \in 1 .. Len(running) - reqIndex + 1 : x[k] = running[reqIndex + k - 1]
  BY <1>1, <1>2
<1>4. Active = newRunning \o x
  BY Zenon DEF Active
<1> HIDE DEF x, m
<1>5. /\ Active \in Seq(Requests) /\ Len(Active) = m + Len(x)
      /\ \A k \in m + 1 .. m + Len(x) : Active[k] = x[k - m]
  <2> DEFINE u == newRunning \o x
  <2>0. newRunning \in Seq(Requests) /\ x \in Seq(Requests) BY <1>1, <1>3, Zenon
  <2>1. /\ u \in Seq(Requests) /\ Len(u) = Len(newRunning) + Len(x)
        /\ \A k \in Len(newRunning) + 1 .. Len(newRunning) + Len(x) :
                u[k] = x[k - Len(newRunning)]
    BY <2>0
  <2> HIDE DEF u
  <2>2. Active = u BY <1>4, Zenon DEF u
  <2> QED BY <2>1, <2>2, Zenon DEF m
<1>6. \A k \in reqIndex .. Len(running) :
          /\ m + 1 + (k - reqIndex) \in m + 1 .. m + Len(x)
          /\ Active[m + 1 + (k - reqIndex)] = running[k]
  <2> TAKE k \in reqIndex .. Len(running)
  <2>1. m + 1 + (k - reqIndex) \in m + 1 .. m + Len(x)
    BY <1>2, <1>3
  <2>2. (m + 1 + (k - reqIndex)) - m = k - reqIndex + 1 /\ k - reqIndex + 1 \in 1 .. Len(running) - reqIndex + 1
        /\ reqIndex + (k - reqIndex + 1) - 1 = k
    BY <1>2
  <2>3. Active[m + 1 + (k - reqIndex)] = x[k - reqIndex + 1]
    BY <1>5, <2>1, <2>2, Zenon
  <2> QED  BY <1>3, <2>1, <2>2, <2>3, Zenon
<1>7. m + 1 \in 1 .. Len(Active) /\ Active[m + 1] = r
  <2>1. reqIndex \in reqIndex .. Len(running) /\ m + 1 + (reqIndex - reqIndex) = m + 1
    BY <1>2
  <2>2. m + 1 \in m + 1 .. m + Len(x) /\ Active[m + 1] = r
    BY <1>6, <2>1, Zenon
  <2> QED  BY <1>2, <1>5, <2>2
<1>8. IsInjective(Active) /\ Range(Active) = {q \in Requests : status[q] = "RUNNING"}
  BY Zenon DEF IInv, QueuesMatchStatus
<1>9. status[r] = "RUNNING"
  <2>1. r \in Range(Active)
    BY <1>5, <1>7, InjectiveLemma
  <2> QED  BY <1>8, <2>1, Zenon
<1>10. ASSUME NEW k \in reqIndex + 1 .. Len(running) PROVE running[k] # r
  <2>1. k \in reqIndex .. Len(running) /\ m + 1 + (k - reqIndex) # m + 1
    BY <1>2
  <2>2. m + 1 + (k - reqIndex) \in 1 .. Len(Active)
    BY <1>2, <1>5, <1>6, <2>1
  <2>3. \A i, j \in 1 .. Len(Active) : Active[i] = Active[j] => i = j
    BY <1>5, <1>8, InjectiveLemma, Zenon
  <2> QED  BY <1>6, <1>7, <2>1, <2>2, <2>3, Zenon
<1>11. /\ numComputedTokens[r] < numTokens[r]
       /\ numComputedTokens[r] + numScheduledTokens[r] <= numTokens[r]
  <2>1. m + 1 \in DOMAIN Active /\ ~(m + 1 <= Len(newRunning))
    BY <1>2, <1>5, <1>7 DEF m
  <2> QED  BY <1>7, <2>1, Zenon DEF IInv, RunningHasWork
<1> QED  BY <1>2, <1>9, <1>10, <1>11, Zenon

\* What schedule() decides for the running request at reqIndex.
LEMMA RunningStep ==
    ASSUME IInv, ScheduleRunning
    PROVE  LET r == running[reqIndex]
               c == numComputedTokens[r]
               n == RunningPlan(r).tokens
           IN  /\ r \in Requests /\ status[r] = "RUNNING"
               /\ c \in Nat /\ n \in Nat /\ c + n <= numTokens[r]
               /\ pc = "running" /\ numScheduledTokens[r] = 0
               /\ RunningPlan(r).inputs \subseteq Inputs(r)
<1> DEFINE r == running[reqIndex]
           c == numComputedTokens[r]
           m == AtMost(numTokens[r] - c, tokenBudget)
           plan == TryScheduleEncoderInputs(r, c, m, encoderBudget)
<1>1. pc = "running" /\ reqIndex <= Len(running) /\ RunningPlan(r) = plan
  BY Zenon DEF ScheduleRunning, InRunningLoop, RunningPlan
<1>2. running \in Seq(Requests) /\ reqIndex \in Nat \ {0} /\ tokenBudget \in Nat /\ encoderBudget \in Int
  BY Zenon DEF IInv, TypeOK
<1>3. reqIndex \in 1 .. Len(running) /\ r \in Requests /\ DOMAIN running = 1 .. Len(running)
  BY <1>1, <1>2
<1>4. Active = running /\ Range(running) = {q \in Requests : status[q] = "RUNNING"}
  BY <1>1, Zenon DEF IInv, QueuesMatchStatus, Active
<1>5. status[r] = "RUNNING"
  <2>1. r \in Range(running)
    BY <1>2, <1>3, InjectiveLemma
  <2> QED  BY <1>4, <2>1, Zenon
<1>6. c \in Nat /\ numTokens[r] \in Nat /\ c < numTokens[r]
  BY <1>1, <1>3, <1>4, Zenon DEF IInv, TypeOK, RunningHasWork
<1>7. numScheduledTokens[r] = 0
  <2>1. reqIndex \in reqIndex .. Len(running)
    BY <1>1, <1>2
  <2> QED  BY <1>1, <2>1, Zenon DEF IInv, CallState
<1>8. m \in Nat /\ m <= numTokens[r] - c
  BY <1>2, <1>6 DEF AtMost
<1> HIDE DEF c, m, r
<1>9. plan.tokens \in 0 .. m
  BY <1>2, <1>3, <1>6, <1>8, PlanBounds, Zenon
<1>10. plan.inputs \subseteq Inputs(r)
  BY Zenon DEF TryScheduleEncoderInputs
<1> HIDE DEF plan
<1>11. plan.tokens \in Nat /\ c + plan.tokens <= numTokens[r]
  BY <1>6, <1>8, <1>9
<1> QED  BY <1>1, <1>3, <1>5, <1>6, <1>7, <1>10, <1>11, Zenon DEF c, m, r, plan

\* What schedule() decides for the first waiting request.
LEMMA WaitingStep ==
    ASSUME IInv, InWaitingLoop
    PROVE  LET r == waiting[1]
               c == Len(PrefixHits(r)) * BlockSize
               n == WaitingPlan(r).tokens
           IN  /\ r \in Requests /\ status[r] \in {"WAITING", "PREEMPTED"}
               /\ c \in Nat /\ n \in Nat /\ c + n <= numTokens[r]
               /\ pc = "waiting" /\ numScheduledTokens[r] = 0
               /\ WaitingPlan(r).inputs \subseteq Inputs(r)
<1> DEFINE r == waiting[1]
           c == Len(PrefixHits(r)) * BlockSize
           m == AtMost(numTokens[r] - c, tokenBudget)
           plan == TryScheduleEncoderInputs(r, c, m, encoderBudget)
<1>1. pc = "waiting" /\ waiting # <<>> /\ WaitingPlan(r) = plan
  BY Zenon DEF InWaitingLoop, WaitingPlan
<1>2. waiting \in Seq(Requests) /\ tokenBudget \in Nat /\ encoderBudget \in Int
  BY Zenon DEF IInv, TypeOK
<1>3. 1 \in 1 .. Len(waiting) /\ r \in Requests
  BY <1>1, <1>2
<1>4. Range(waiting) = {q \in Requests : status[q] \in {"WAITING", "PREEMPTED"}}
  BY <1>1, Zenon DEF IInv, QueuesMatchStatus
<1>5. status[r] \in {"WAITING", "PREEMPTED"}
  <2>1. r \in Range(waiting)
    BY <1>2, <1>3, InjectiveLemma
  <2> QED  BY <1>4, <2>1, Zenon
<1>6. c \in Nat /\ numTokens[r] \in Nat /\ c < numTokens[r]
  BY <1>3, HitBounds, Zenon DEF IInv, TypeOK
<1>7. numScheduledTokens[r] = 0
  BY <1>1, <1>3, <1>5, Zenon DEF IInv, CallState
<1> HIDE DEF c
<1>8. m \in Nat /\ m <= numTokens[r] - c
  BY <1>2, <1>6 DEF AtMost
<1> HIDE DEF m, r
<1>9. plan.tokens \in 0 .. m
  BY <1>2, <1>3, <1>6, <1>8, PlanBounds, Zenon
<1>10. plan.inputs \subseteq Inputs(r)
  BY Zenon DEF TryScheduleEncoderInputs
<1> HIDE DEF plan
<1>11. plan.tokens \in Nat /\ c + plan.tokens <= numTokens[r]
  BY <1>6, <1>8, <1>9
<1> QED  BY <1>1, <1>3, <1>5, <1>6, <1>7, <1>10, <1>11, Zenon DEF c, m, r, plan

-----------------------------------------------------------------------------
(* The slots of the encoder cache. *)

\* What _validate_model_inputs says of an input.
LEMMA InputLemma ==
    ASSUME NEW r \in Requests, NEW i \in Inputs(r)
    PROVE  /\ i \in Nat \ {0} /\ NumPromptTokens[r] \in Nat /\ NumPromptTokens[r] < MaxModelLen
           /\ Start(r, i) \in Nat /\ End(r, i) \in Nat
           /\ Start(r, i) < End(r, i) /\ End(r, i) <= NumPromptTokens[r]
           /\ \A j \in Inputs(r) : j < i => End(r, j) <= Start(r, i)
<1>1. MMPositions[r] \in Seq([offset : Nat, length : Nat \ {0}])
  BY RequestAssumption, Zenon
<1>2. MMPositions[r][i] \in [offset : Nat, length : Nat \ {0}]
  BY <1>1, ElementLemma, Zenon DEF Inputs
<1>3. i \in Nat \ {0}
  BY <1>1 DEF Inputs
<1>4. Start(r, i) \in Nat /\ End(r, i) \in Nat /\ Start(r, i) < End(r, i)
  BY <1>2 DEF Start, End, NumEncoderTokens
<1> QED  BY <1>3, <1>4, RequestAssumption, Zenon

\* The token positions of the inputs S.
Positions(r, S) ==
    {p \in 0 .. NumPromptTokens[r] - 1 : \E i \in S : Start(r, i) <= p /\ p < End(r, i)}

\* OccupiedSlots, for any set of cached inputs.
Occupied(f) ==
    {s \in Requests \X (0 .. MaxModelLen - 1) :
        \E i \in f[s[1]] : Start(s[1], i) <= s[2] /\ s[2] < End(s[1], i)}

\* Inputs that are cached in addition take as many slots more as SlotsOf says,
\* because no two inputs overlap.
LEMMA OccupiedLemma ==
    ASSUME NEW f \in [Requests -> SUBSET (Nat \ {0})], NEW r \in Requests, NEW S,
           f[r] \subseteq Inputs(r), S \subseteq Inputs(r), f[r] \cap S = {}
    PROVE  /\ Cardinality(Occupied(f)) \in Nat
           /\ Cardinality(Occupied([f EXCEPT ![r] = f[r] \cup S])) =
                    Cardinality(Occupied(f)) + SlotsOf(r, S)
<1> DEFINE g == [f EXCEPT ![r] = f[r] \cup S]
           A == Occupied(f)
           P == Positions(r, S)
           B == {r} \X P
<1>1. IsFiniteSet(A)
  <2>1. IsFiniteSet(Requests) /\ 0 \in Int /\ MaxModelLen - 1 \in Int
    BY RequestAssumption
  <2>2. IsFiniteSet(0 .. MaxModelLen - 1)
    BY <2>1, FS_Interval, Zenon
  <2>3. IsFiniteSet(Requests \X (0 .. MaxModelLen - 1))
    BY <2>1, <2>2, FS_Product, Zenon
  <2>4. A \in SUBSET (Requests \X (0 .. MaxModelLen - 1))
    BY Zenon DEF Occupied
  <2> QED  BY <2>3, <2>4, FS_Subset, Zenon
<1>2. IsFiniteSet(P) /\ SlotsOf(r, S) = Cardinality(P)
  <2>1. 0 \in Int /\ NumPromptTokens[r] - 1 \in Int
    BY RequestAssumption
  <2>2. IsFiniteSet(0 .. NumPromptTokens[r] - 1)
    BY <2>1, FS_Interval, Zenon
  <2>3. P \in SUBSET (0 .. NumPromptTokens[r] - 1)
    BY Zenon DEF Positions
  <2>4. IsFiniteSet(P)
    BY <2>2, <2>3, FS_Subset, Zenon
  <2> QED  BY <2>4, Zenon DEF SlotsOf, Positions
<1>3. IsFiniteSet(B) /\ Cardinality(B) = Cardinality(P)
  <2>1. IsFiniteSet({r}) /\ Cardinality({r}) = 1
    BY FS_Singleton, Zenon
  <2>2. IsFiniteSet(B) /\ Cardinality(B) = 1 * Cardinality(P)
    BY <1>2, <2>1, FS_Product, Zenon
  <2>3. Cardinality(P) \in Nat
    BY <1>2, FS_CardinalityType, Zenon
  <2> QED  BY <2>2, <2>3
<1>4. Occupied(g) = A \cup B
  <2>1. ASSUME NEW s \in Occupied(g) PROVE s \in A \cup B
    <3>1. PICK q \in Requests, p \in 0 .. MaxModelLen - 1 :
            s = <<q, p>> /\ \E i \in g[q] : Start(q, i) <= p /\ p < End(q, i)
      BY DEF Occupied
    <3>2. PICK i \in g[q] : Start(q, i) <= p /\ p < End(q, i)
      BY <3>1, Zenon
    <3>3. CASE i \in f[q]
      BY <3>1, <3>2, <3>3, Zenon DEF Occupied
    <3>4. CASE i \notin f[q]
      <4>1. q = r /\ i \in S
        BY <3>2, <3>4, Zenon
      <4>2. End(r, i) <= NumPromptTokens[r] /\ End(r, i) \in Nat /\ NumPromptTokens[r] \in Nat
        BY <4>1, InputLemma, Zenon
      <4>3. p \in 0 .. NumPromptTokens[r] - 1
        BY <3>2, <4>1, <4>2, RequestAssumption
      <4>4. p \in P
        BY <3>2, <4>1, <4>3, Zenon DEF Positions
      <4> QED  BY <3>1, <4>1, <4>4, Zenon
    <3> QED  BY <3>3, <3>4, Zenon
  <2>2. ASSUME NEW s \in A PROVE s \in Occupied(g)
    <3>1. PICK q \in Requests, p \in 0 .. MaxModelLen - 1 :
            s = <<q, p>> /\ \E i \in f[q] : Start(q, i) <= p /\ p < End(q, i)
      BY DEF Occupied
    <3>2. f[q] \subseteq g[q]
      BY Zenon
    <3> QED  BY <3>1, <3>2, Zenon DEF Occupied
  <2>3. ASSUME NEW s \in B PROVE s \in Occupied(g)
    <3>1. PICK p \in P : s = <<r, p>>
      OBVIOUS
    <3>2. /\ p \in 0 .. NumPromptTokens[r] - 1
          /\ \E i \in S : Start(r, i) <= p /\ p < End(r, i)
      BY Zenon DEF Positions
    <3>3. p \in 0 .. MaxModelLen - 1
      BY <3>2, RequestAssumption
    <3>4. S \subseteq g[r]
      BY Zenon
    <3> HIDE DEF g, P
    <3> QED  BY <3>1, <3>2, <3>3, <3>4, Zenon DEF Occupied
  <2> HIDE DEF A, B, g
  <2> QED  BY <2>1, <2>2, <2>3, Zenon
<1>5. A \cap B = {}
  <2> SUFFICES ASSUME NEW s \in A, s \in B PROVE FALSE
    BY Zenon
  <2>1. PICK p \in P : s = <<r, p>>
    OBVIOUS
  <2>2. PICK i \in S : Start(r, i) <= p /\ p < End(r, i)
    BY Zenon DEF Positions
  <2>3. PICK j \in f[r] : Start(r, j) <= p /\ p < End(r, j)
    BY <2>1, Zenon DEF Occupied
  <2>4. i \in Inputs(r) /\ j \in Inputs(r) /\ i # j
    BY <2>2, <2>3, Zenon
  <2>5. /\ i \in Nat /\ j \in Nat /\ Start(r, i) \in Nat /\ End(r, i) \in Nat
        /\ Start(r, j) \in Nat /\ End(r, j) \in Nat
        /\ (j < i => End(r, j) <= Start(r, i)) /\ (i < j => End(r, i) <= Start(r, j))
    BY <2>4, InputLemma, Zenon
  <2>6. p \in Nat
    BY DEF Positions
  <2> QED  BY <2>2, <2>3, <2>4, <2>5, <2>6
<1>6. /\ Cardinality(A) \in Nat /\ Cardinality(P) \in Nat
  BY <1>1, <1>2, FS_CardinalityType, Zenon
<1>7. Cardinality(A \cup B) = Cardinality(A) + Cardinality(B) - Cardinality({})
  BY <1>1, <1>3, <1>5, FS_Union
<1> HIDE DEF A, B, P, g
<1>8. Cardinality(A \cup B) = Cardinality(A) + Cardinality(P)
  BY <1>3, <1>6, <1>7, FS_EmptySet
<1> QED  BY <1>2, <1>4, <1>6, <1>8, Zenon DEF A, g

\* The encoder cache manager tracks inputs that exist, its slots add up, and a
\* request never has fewer tokens than its prompt.
CacheInv ==
    /\ \A r \in Requests : cached[r] \subseteq Inputs(r)
    /\ numFreeSlots \in Int
    /\ SlotAccounting
    /\ \A r \in Requests : NumPromptTokens[r] <= numTokens[r]

\* All slots are free at the start.
LEMMA InitCache == Init => CacheInv
<1> SUFFICES ASSUME Init PROVE CacheInv
  BY Zenon
<1>1. /\ cached = [r \in Requests |-> {}] /\ numFreeSlots = EncoderCacheSize
      /\ numTokens = [r \in Requests |-> NumPromptTokens[r]] /\ EncoderCacheSize \in Nat
      /\ \A r \in Requests : NumPromptTokens[r] \in Nat
  BY ConfigAssumption, RequestAssumption, Zenon DEF Init, ECMInit, EncoderCacheSize, AtLeast
<1>2. OccupiedSlots = {}
  BY <1>1, Zenon DEF OccupiedSlots
<1>3. SlotAccounting
  BY <1>1, <1>2, FS_EmptySet DEF SlotAccounting
<1> QED  BY <1>1, <1>3 DEF CacheInv

\* allocate for inputs that are not cached.
LEMMA AllocateCache ==
    ASSUME IInv, CacheInv, NEW r \in Requests, NEW S, Allocate(r, S),
           S \subseteq Inputs(r), S \cap cached[r] = {},
           \A q \in Requests : NumPromptTokens[q] <= numTokens'[q]
    PROVE  CacheInv'
<1>1. /\ cached' = [cached EXCEPT ![r] = cached[r] \cup S]
      /\ numFreeSlots' = numFreeSlots - SlotsOf(r, S)
  BY Zenon DEF Allocate
<1>2. /\ cached \in [Requests -> SUBSET (Nat \ {0})] /\ cached[r] \subseteq Inputs(r)
      /\ numFreeSlots \in Int /\ numFreeSlots + Cardinality(OccupiedSlots) = EncoderCacheSize
  BY Zenon DEF IInv, ManagersOK, CacheInv, SlotAccounting
<1>3. OccupiedSlots = Occupied(cached) /\ OccupiedSlots' = Occupied(cached')
  BY Zenon DEF OccupiedSlots, Occupied
<1>4. /\ Cardinality(Occupied(cached)) \in Nat
      /\ Cardinality(Occupied(cached')) = Cardinality(Occupied(cached)) + SlotsOf(r, S)
  <2>1. cached[r] \cap S = {} BY Zenon
  <2>2. /\ Cardinality(Occupied(cached)) \in Nat
        /\ Cardinality(Occupied([cached EXCEPT ![r] = cached[r] \cup S])) =
                Cardinality(Occupied(cached)) + SlotsOf(r, S)
    BY <1>2, <2>1, OccupiedLemma, Zenon
  <2> QED BY <1>1, <2>2, Zenon
<1>5. SlotsOf(r, S) \in Nat
  BY SlotsType, Zenon
<1>6. SlotAccounting' /\ numFreeSlots' \in Int
  BY <1>1, <1>2, <1>3, <1>4, <1>5 DEF SlotAccounting
<1>7. \A q \in Requests : cached'[q] \subseteq Inputs(q)
  BY <1>1, <1>2, Zenon DEF CacheInv
<1> QED  BY <1>6, <1>7, Zenon DEF CacheInv

\* free_encoder_input for inputs that are cached.
LEMMA FreeCache ==
    ASSUME IInv, CacheInv, NEW r \in Requests, NEW S \in SUBSET cached[r], FreeEncoderInputs(r, S),
           \A q \in Requests : NumPromptTokens[q] <= numTokens'[q]
    PROVE  CacheInv'
<1>1. /\ cached' = [cached EXCEPT ![r] = cached[r] \ S]
      /\ numFreeSlots' = numFreeSlots + SlotsOf(r, S)
  BY Zenon DEF FreeEncoderInputs
<1>2. /\ cached \in [Requests -> SUBSET (Nat \ {0})] /\ cached[r] \subseteq Inputs(r)
      /\ numFreeSlots \in Int /\ numFreeSlots + Cardinality(OccupiedSlots) = EncoderCacheSize
  BY Zenon DEF IInv, ManagersOK, CacheInv, SlotAccounting
<1>3. OccupiedSlots = Occupied(cached) /\ OccupiedSlots' = Occupied(cached')
  BY Zenon DEF OccupiedSlots, Occupied
<1>4. /\ cached' \in [Requests -> SUBSET (Nat \ {0})] /\ cached'[r] = cached[r] \ S
      /\ cached = [cached' EXCEPT ![r] = cached'[r] \cup S]
      /\ \A q \in Requests : q # r => cached'[q] = cached[q]
  BY <1>1, <1>2, Zenon
<1>5. /\ Cardinality(Occupied(cached')) \in Nat
      /\ Cardinality(Occupied(cached)) = Cardinality(Occupied(cached')) + SlotsOf(r, S)
  <2>1. cached'[r] \subseteq Inputs(r) /\ S \subseteq Inputs(r) /\ cached'[r] \cap S = {}
    BY <1>2, <1>4, Zenon
  <2>2. /\ Cardinality(Occupied(cached')) \in Nat
        /\ Cardinality(Occupied([cached' EXCEPT ![r] = cached'[r] \cup S])) =
                Cardinality(Occupied(cached')) + SlotsOf(r, S)
    BY <1>4, <2>1, OccupiedLemma, Zenon
  <2> QED  BY <1>4, <2>2, Zenon
<1>6. SlotsOf(r, S) \in Nat
  BY SlotsType, Zenon
<1>7. SlotAccounting' /\ numFreeSlots' \in Int
  BY <1>1, <1>2, <1>3, <1>5, <1>6 DEF SlotAccounting
<1>8. \A q \in Requests : cached'[q] \subseteq Inputs(q)
  BY <1>2, <1>4, Zenon DEF CacheInv
<1> QED  BY <1>7, <1>8, Zenon DEF CacheInv

\* A step that leaves the slots alone.
LEMMA FrameCache ==
    ASSUME CacheInv, UNCHANGED <<cached, numFreeSlots>>,
           \A q \in Requests : NumPromptTokens[q] <= numTokens'[q]
    PROVE  CacheInv'
BY Zenon DEF CacheInv, SlotAccounting, OccupiedSlots

\* Every step preserves it.
LEMMA NextCache == IInv /\ CacheInv /\ [Next]_vars => CacheInv'
<1> SUFFICES ASSUME IInv, CacheInv, [Next]_vars PROVE CacheInv'
  BY Zenon
<1> DEFINE Prompts == \A q \in Requests : NumPromptTokens[q] <= numTokens'[q]
<1>0. /\ numTokens' = numTokens => Prompts
      /\ numTokens \in [Requests -> Nat] /\ \A q \in Requests : NumPromptTokens[q] \in Nat
  BY RequestAssumption, Zenon DEF CacheInv, IInv, TypeOK
<1>1. CASE UNCHANGED <<cached, numFreeSlots, numTokens>>
  BY <1>0, <1>1, FrameCache, Zenon
<1>2. ASSUME NEW r \in Requests, AddRequest(r) PROVE CacheInv'
  <2>1. UNCHANGED <<cached, numFreeSlots>> /\ numTokens' = [numTokens EXCEPT ![r] = NumPromptTokens[r]]
    BY <1>2, Zenon DEF AddRequest, ecmVars
  <2>2. Prompts
    BY <1>0, <2>1 DEF CacheInv
  <2> QED  BY <2>1, <2>2, FrameCache, Zenon
<1>3. ASSUME NEW r \in Requests, FinishRequest(r) PROVE CacheInv'
  <2>1. numTokens' = numTokens
    BY <1>3, Zenon DEF FinishRequest
  <2>2. CASE FreeFirstThenRaise(r)
    <3>1. PICK i \in cached[r] : FreeEncoderInputs(r, {i})
      BY <2>2, Zenon DEF FreeFirstThenRaise
    <3>2. {i} \in SUBSET cached[r]
      BY <3>1, Zenon
    <3> QED  BY <1>0, <2>1, <3>1, <3>2, FreeCache, Zenon
  <2>3. CASE UNCHANGED ecmVars
    BY <1>1, <2>1, <2>3, Zenon DEF ecmVars
  <2> QED  BY <1>3, <2>2, <2>3, Zenon DEF FinishRequest
<1>4. CASE ScheduleRunning
  <2> DEFINE r == running[reqIndex]
             S == RunningPlan(r).inputs
  <2>1. Allocate(r, S) /\ numTokens' = numTokens
    BY <1>4, Zenon DEF ScheduleRunning, requestVars
  <2>2. r \in Requests /\ S \subseteq Inputs(r)
    BY <1>4, RunningStep, Zenon
  <2>3. S \cap cached[r] = {}
    BY Zenon DEF RunningPlan, TryScheduleEncoderInputs, HasCache
  <2> HIDE DEF S, r
  <2> QED  BY <1>0, <2>1, <2>2, <2>3, AllocateCache, Zenon
<1>5. CASE ScheduleWaiting
  <2> DEFINE r == waiting[1]
             S == WaitingPlan(r).inputs
  <2>1. Allocate(r, S) /\ numTokens' = numTokens /\ InWaitingLoop
    BY <1>5, Zenon DEF ScheduleWaiting
  <2>2. r \in Requests /\ S \subseteq Inputs(r)
    BY <2>1, WaitingStep, Zenon
  <2>3. S \cap cached[r] = {}
    BY Zenon DEF WaitingPlan, TryScheduleEncoderInputs, HasCache
  <2> HIDE DEF S, r
  <2> QED  BY <1>0, <2>1, <2>2, <2>3, AllocateCache, Zenon
<1>6. CASE UpdateContinue \/ UpdateStop
  <2> DEFINE r == running[reqIndex]
             c == numComputedTokens[r] + numScheduledTokens[r]
             S == Consumed(r, c)
  <2>1. /\ pc = "update" /\ reqIndex <= Len(running) /\ FreeEncoderInputs(r, S)
        /\ numTokens' = numTokens \/ (c = numTokens[r] /\ numTokens' = [numTokens EXCEPT ![r] = c + 1])
    BY <1>6, Zenon DEF UpdateContinue, UpdateStop, InUpdateLoop
  <2>2. r \in Requests /\ S \in SUBSET cached[r]
    BY <2>1, UpdatePlace, Zenon DEF Consumed
  <2> HIDE DEF S, r, c
  <2>3. Prompts
    BY <1>0, <2>1, <2>2 DEF CacheInv
  <2> QED  BY <2>1, <2>2, <2>3, FreeCache, Zenon
<1>7. CASE Environment
  <2>1. ASSUME NEW r \in Requests, NEW S, HandleEncoderResult(r, S) PROVE CacheInv'
    BY <1>1, <2>1, Zenon DEF HandleEncoderResult, ecmVars, requestVars
  <2>2. CASE ResetCache
    BY <1>1, <2>2, Zenon DEF ResetCache, ecmVars, schedVars, requestVars
  <2> QED  BY <1>2, <1>3, <1>7, <2>1, <2>2, Zenon DEF Environment
<1>8. CASE Schedule
  <2>1. ASSUME \/ BeginSchedule \/ SkipRunning \/ Preempt \/ EndRunning \/ BlockedWaiting
               \/ EndWaiting \/ MakeOutput \/ DropOutput
        PROVE  UNCHANGED <<cached, numFreeSlots, numTokens>>
    <3>1. CASE BeginSchedule \/ SkipRunning \/ Preempt \/ EndRunning
      BY <3>1, Zenon DEF BeginSchedule, SkipRunning, Preempt, EndRunning, ecmVars, requestVars
    <3>2. CASE BlockedWaiting \/ EndWaiting \/ MakeOutput \/ DropOutput
      BY <3>2, Zenon DEF BlockedWaiting, EndWaiting, MakeOutput, DropOutput, GetFreedIds, ecmVars, requestVars
    <3> QED  BY <2>1, <3>1, <3>2, Zenon
  <2> QED  BY <1>1, <1>4, <1>5, <1>8, <2>1, Zenon DEF Schedule
<1>9. CASE Update
  <2>1. ASSUME ExecuteModel \/ UpdateUnscheduled \/ EndUpdate
        PROVE  UNCHANGED <<cached, numFreeSlots, numTokens>>
    BY <2>1, Zenon DEF ExecuteModel, UpdateUnscheduled, EndUpdate, ecmVars, requestVars
  <2> QED  BY <1>1, <1>6, <1>9, <2>1, Zenon DEF Update
<1>10. CASE UNCHANGED vars
  BY <1>1, <1>10, Zenon DEF vars, ecmVars, schedVars, requestVars
<1> QED  BY <1>7, <1>8, <1>9, <1>10, Zenon DEF Next

\* The invariant of the encoder cache manager.
THEOREM CacheInvariance == Spec => []CacheInv
<1> QED  BY InitCache, NextCache, Invariance, PTL DEF Spec

\* SlotAccounting, for every set of requests and inputs.
THEOREM SlotsAccounted == Spec => []SlotAccounting
<1>1. CacheInv => SlotAccounting
  BY Zenon DEF CacheInv
<1> QED  BY <1>1, CacheInvariance, PTL

\* A request that caught up has consumed all its inputs: they end within the
\* prompt.
LEMMA CaughtUp == IInv /\ CacheInv => StopFindsNothingCached
<1> DEFINE r == running[reqIndex]
           c == numComputedTokens[r] + numScheduledTokens[r]
<1> SUFFICES ASSUME IInv, CacheInv, InUpdateLoop, c = numTokens[r]
             PROVE  Consumed(r, c) = cached[r]
  BY Zenon DEF StopFindsNothingCached
<1>1. r \in Requests
  BY UpdatePlace, Zenon DEF InUpdateLoop
<1>2. NumPromptTokens[r] \in Nat /\ numTokens[r] \in Nat /\ NumPromptTokens[r] <= numTokens[r]
  BY <1>1, RequestAssumption, Zenon DEF IInv, TypeOK, CacheInv
<1> HIDE DEF r
<1>3. ASSUME NEW i \in cached[r] PROVE End(r, i) <= numTokens[r]
  <2>1. i \in Inputs(r)
    BY <1>1, Zenon DEF CacheInv
  <2>2. End(r, i) \in Nat /\ End(r, i) <= NumPromptTokens[r]
    BY <1>1, <2>1, InputLemma, Zenon
  <2> QED  BY <1>2, <2>2
<1> QED  BY <1>3, Zenon DEF Consumed

\* StopFindsNothingCached: _free_request at a stop never raises.
THEOREM StopsFindNothing == Spec => []StopFindsNothingCached
<1> QED  BY CaughtUp, CacheInvariance, Invariance, PTL

-----------------------------------------------------------------------------
(* Requests are served in their order: what each queue operation does to   *)
(* the order of two requests, and then action by action.                   *)

\* No two requests swap places between the orders s and t.
InOrder(s, t) ==
    \A q, r \in Requests : Before(s, q, r) => ~Before(t, r, q)

\* In an order without duplicates nothing is before itself.
LEMMA SameOrder ==
    ASSUME NEW s \in Seq(Requests), IsInjective(s)
    PROVE  InOrder(s, s)
<1> SUFFICES ASSUME NEW q \in Requests, NEW r \in Requests, Before(s, q, r), Before(s, r, q)
             PROVE  FALSE
  BY Zenon DEF InOrder
<1>m. PICK m \in 1 .. Len(s), n \in 1 .. Len(s) : m < n /\ s[m] = q /\ s[n] = r
  BY DEF Before
<1>k. PICK k \in 1 .. Len(s), l \in 1 .. Len(s) : k < l /\ s[k] = r /\ s[l] = q
  BY DEF Before
<1>1. \A i, j \in 1 .. Len(s) : s[i] = s[j] => i = j
  BY InjectiveLemma, Zenon
<1>2. n = k /\ m = l
  BY <1>1, <1>m, <1>k, Zenon
<1> QED  BY <1>2, <1>m, <1>k

\* A request that queues up behind the others changes no order.
LEMMA AppendOrder ==
    ASSUME NEW s \in Seq(Requests), IsInjective(s), NEW e \in Requests, e \notin Range(s)
    PROVE  InOrder(s, Append(s, e))
<1> DEFINE t == Append(s, e)
<1>0. /\ t \in Seq(Requests) /\ Len(t) = Len(s) + 1 /\ Len(s) \in Nat /\ t[Len(s) + 1] = e
      /\ \A i \in 1 .. Len(s) : t[i] = s[i]
  OBVIOUS
<1> HIDE DEF t
<1> SUFFICES ASSUME NEW q \in Requests, NEW r \in Requests, Before(s, q, r), Before(t, r, q)
             PROVE  FALSE
  BY Zenon DEF InOrder, t
<1>m. PICK m \in 1 .. Len(s), n \in 1 .. Len(s) : m < n /\ s[m] = q /\ s[n] = r
  BY DEF Before
<1>k. PICK k \in 1 .. Len(t), l \in 1 .. Len(t) : k < l /\ t[k] = r /\ t[l] = q
  BY <1>0 DEF Before
<1>1. \A i, j \in 1 .. Len(s) : s[i] = s[j] => i = j
  BY InjectiveLemma, Zenon
<1>2. q # e
  BY <1>m, InjectiveLemma
<1>3. k \in 1 .. Len(s) /\ l \in 1 .. Len(s)
  BY <1>0, <1>2, <1>k
<1>4. s[k] = s[n] /\ s[l] = s[m]
  BY <1>0, <1>3, <1>m, <1>k, Zenon
<1>5. n = k /\ m = l
  BY <1>1, <1>3, <1>4, Zenon
<1> QED  BY <1>5, <1>m, <1>k

\* Nor does a request that leaves.
LEMMA DropOrder ==
    ASSUME NEW s \in Seq(Requests), IsInjective(s), NEW t \in Seq(Requests),
           NEW i \in 1 .. Len(s), Drops(s, t, i)
    PROVE  InOrder(s, t)
<1> DEFINE place(k) == IF k < i THEN k ELSE k + 1
<1>0. /\ Len(t) = Len(s) - 1 /\ Len(s) \in Nat /\ Len(t) \in Nat
      /\ \A k \in 1 .. Len(t) : place(k) \in 1 .. Len(s) /\ t[k] = s[place(k)]
  BY DEF Drops
<1>a. \A k, l \in 1 .. Len(t) : k < l => place(k) < place(l)
  OBVIOUS
<1> HIDE DEF place
<1> SUFFICES ASSUME NEW q \in Requests, NEW r \in Requests, Before(s, q, r), Before(t, r, q)
             PROVE  FALSE
  BY Zenon DEF InOrder
<1>m. PICK m \in 1 .. Len(s), n \in 1 .. Len(s) : m < n /\ s[m] = q /\ s[n] = r
  BY DEF Before
<1>k. PICK k \in 1 .. Len(t), l \in 1 .. Len(t) : k < l /\ t[k] = r /\ t[l] = q
  BY DEF Before
<1>1. \A x, y \in 1 .. Len(s) : s[x] = s[y] => x = y
  BY InjectiveLemma, Zenon
<1>2. /\ place(k) \in 1 .. Len(s) /\ place(l) \in 1 .. Len(s) /\ place(k) < place(l)
      /\ s[place(k)] = s[n] /\ s[place(l)] = s[m]
  BY <1>0, <1>a, <1>m, <1>k, Zenon
<1>3. n = place(k) /\ m = place(l)
  BY <1>1, <1>2, Zenon
<1> QED  BY <1>2, <1>3, <1>m, <1>k

\* Dropping an element of the first of two queues drops one of both together.
LEMMA DropFirst ==
    ASSUME NEW S, NEW s \in Seq(S), NEW t \in Seq(S), NEW w \in Seq(S),
           NEW i \in 1 .. Len(s), Drops(s, t, i)
    PROVE  i \in 1 .. Len(s \o w) /\ Drops(s \o w, t \o w, i)
<1> DEFINE a == s \o w
           b == t \o w
<1>1. /\ a \in Seq(S) /\ Len(a) = Len(s) + Len(w)
      /\ \A k \in 1 .. Len(s) : a[k] = s[k]
      /\ \A k \in Len(s) + 1 .. Len(s) + Len(w) : a[k] = w[k - Len(s)]
  BY ConcatLemma, Zenon
<1>2. /\ b \in Seq(S) /\ Len(b) = Len(t) + Len(w)
      /\ \A k \in 1 .. Len(t) : b[k] = t[k]
      /\ \A k \in Len(t) + 1 .. Len(t) + Len(w) : b[k] = w[k - Len(t)]
  BY ConcatLemma, Zenon
<1>3. /\ Len(t) = Len(s) - 1 /\ Len(s) \in Nat /\ Len(w) \in Nat /\ Len(t) \in Nat
      /\ \A k \in 1 .. Len(t) : t[k] = IF k < i THEN s[k] ELSE s[k + 1]
  BY DEF Drops
<1> HIDE DEF a, b
<1>4. ASSUME NEW k \in 1 .. Len(b) PROVE b[k] = IF k < i THEN a[k] ELSE a[k + 1]
  <2>1. CASE k <= Len(t)
    <3>1. k \in 1 .. Len(s) /\ k + 1 \in 1 .. Len(s) /\ k \in 1 .. Len(t)
      BY <1>3, <2>1
    <3> QED  BY <1>1, <1>2, <1>3, <3>1, Zenon
  <2>2. CASE k > Len(t)
    <3>1. /\ k \in Len(t) + 1 .. Len(t) + Len(w) /\ k + 1 \in Len(s) + 1 .. Len(s) + Len(w)
          /\ (k + 1) - Len(s) = k - Len(t) /\ ~(k < i)
      BY <1>2, <1>3, <2>2
    <3> QED  BY <1>1, <1>2, <3>1, Zenon
  <2> QED  BY <1>2, <1>3, <2>1, <2>2
<1>5. Len(b) = Len(a) - 1 /\ i \in 1 .. Len(a)
  BY <1>1, <1>2, <1>3
<1> QED  BY <1>4, <1>5, Zenon DEF Drops, a, b

\* The same for the second.
LEMMA DropSecond ==
    ASSUME NEW S, NEW s \in Seq(S), NEW t \in Seq(S), NEW w \in Seq(S),
           NEW i \in 1 .. Len(s), Drops(s, t, i)
    PROVE  Len(w) + i \in 1 .. Len(w \o s) /\ Drops(w \o s, w \o t, Len(w) + i)
<1> DEFINE a == w \o s
           b == w \o t
           m == Len(w)
<1>1. /\ a \in Seq(S) /\ Len(a) = m + Len(s)
      /\ \A k \in 1 .. m : a[k] = w[k]
      /\ \A k \in m + 1 .. m + Len(s) : a[k] = s[k - m]
  BY ConcatLemma, Zenon
<1>2. /\ b \in Seq(S) /\ Len(b) = m + Len(t)
      /\ \A k \in 1 .. m : b[k] = w[k]
      /\ \A k \in m + 1 .. m + Len(t) : b[k] = t[k - m]
  BY ConcatLemma, Zenon
<1>3. /\ Len(t) = Len(s) - 1 /\ Len(s) \in Nat /\ m \in Nat /\ Len(t) \in Nat
      /\ \A k \in 1 .. Len(t) : t[k] = IF k < i THEN s[k] ELSE s[k + 1]
  BY DEF Drops
<1> HIDE DEF a, b, m
<1>4. ASSUME NEW k \in 1 .. Len(b) PROVE b[k] = IF k < m + i THEN a[k] ELSE a[k + 1]
  <2>1. CASE k <= m
    <3>1. k \in 1 .. m /\ k < m + i
      BY <1>3, <2>1
    <3> QED  BY <1>1, <1>2, <3>1, Zenon
  <2>2. CASE k > m
    <3>1. /\ k \in m + 1 .. m + Len(t) /\ k \in m + 1 .. m + Len(s)
          /\ k + 1 \in m + 1 .. m + Len(s) /\ k - m \in 1 .. Len(t)
          /\ (k + 1) - m = (k - m) + 1 /\ (k - m < i <=> k < m + i)
      BY <1>2, <1>3, <2>2
    <3>2. a[k] = s[k - m] /\ a[k + 1] = s[(k - m) + 1] /\ b[k] = t[k - m]
      BY <1>1, <1>2, <3>1
    <3>3. t[k - m] = IF k - m < i THEN s[k - m] ELSE s[(k - m) + 1]
      BY <1>3, <3>1, Zenon
    <3> QED  BY <3>1, <3>2, <3>3, Zenon
  <2> QED  BY <1>2, <1>3, <2>1, <2>2
<1>5. Len(b) = Len(a) - 1 /\ m + i \in 1 .. Len(a)
  BY <1>1, <1>2, <1>3
<1> QED  BY <1>4, <1>5, Zenon DEF Drops, a, b, m

\* The queues as one order: each unfinished request has one place.
LEMMA OrderPlaces ==
    ASSUME IInv, pc # "dead"
    PROVE  /\ Active \in Seq(Requests) /\ waiting \in Seq(Requests)
           /\ running \in Seq(Requests) /\ newRunning \in Seq(Requests)
           /\ ServiceOrder \in Seq(Requests) /\ IsInjective(ServiceOrder)
           /\ Range(ServiceOrder)
                = {r \in Requests : status[r] \in {"RUNNING", "WAITING", "PREEMPTED"}}
<1>1. /\ waiting \in Seq(Requests) /\ running \in Seq(Requests) /\ newRunning \in Seq(Requests)
      /\ reqIndex \in Nat \ {0}
      /\ IsInjective(waiting) /\ IsInjective(Active)
      /\ Range(Active) = {r \in Requests : status[r] = "RUNNING"}
      /\ Range(waiting) = {r \in Requests : status[r] \in {"WAITING", "PREEMPTED"}}
  BY Zenon DEF IInv, TypeOK, QueuesMatchStatus
<1>2. Active \in Seq(Requests)
  <2>1. SubSeq(running, reqIndex, Len(running)) \in Seq(Requests)
    BY <1>1
  <2> QED  BY <1>1, <2>1 DEF Active
<1>3. Range(Active) \cap Range(waiting) = {}
  BY <1>1, Zenon
<1>4. /\ ServiceOrder \in Seq(Requests) /\ IsInjective(ServiceOrder)
      /\ Range(ServiceOrder) = Range(Active) \cup Range(waiting)
  <2>1. /\ Active \in Seq(Requests) /\ waiting \in Seq(Requests)
        /\ IsInjective(Active) /\ IsInjective(waiting) /\ Range(Active) \cap Range(waiting) = {}
    BY <1>1, <1>2, <1>3, Zenon
  <2>2. /\ Active \o waiting \in Seq(Requests) /\ IsInjective(Active \o waiting)
        /\ Range(Active \o waiting) = Range(Active) \cup Range(waiting)
    BY <2>1, ConcatLemma
  <2> QED  BY <2>2, Zenon DEF ServiceOrder
<1> QED  BY <1>1, <1>2, <1>4, Zenon

\* Steps that leave the order as it is: preemption moves the last running
\* request to the head of the waiting ones, and scheduling takes it from there.
LEMMA PreemptOrder ==
    ASSUME IInv, Preempt
    PROVE  ServiceOrder' = ServiceOrder
<1> DEFINE v == running[Len(running)]
           front == SubSeq(running, 1, Len(running) - 1)
<1>1. /\ pc = "running" /\ pc' \in {"running", "build"} /\ reqIndex <= Len(running)
      /\ running' = front /\ waiting' = <<v>> \o waiting
  BY Zenon DEF Preempt, InRunningLoop, PutBack
<1>2. /\ running \in Seq(Requests) /\ waiting \in Seq(Requests) /\ reqIndex \in Nat \ {0}
  BY Zenon DEF IInv, TypeOK
<1>3. v \in Requests /\ front \in Seq(Requests) /\ running = front \o <<v>>
  <2>1. Len(running) \in Nat /\ Len(running) >= 1 /\ v \in Requests
    BY <1>1, <1>2
  <2>2. front \in Seq(Requests) /\ Len(front) = Len(running) - 1
        /\ \A k \in 1 .. Len(front) : front[k] = running[k]
    <3>1. IsInjective(running) /\ running # <<>>
      BY <1>1, <1>2, <2>1 DEF IInv, QueuesMatchStatus, Active
    <3> QED  BY <1>2, <3>1, FrontLemma, Zenon
  <2> HIDE DEF front, v
  <2>3. front \o <<v>> \in Seq(Requests) /\ Len(front \o <<v>>) = Len(running)
        /\ \A k \in 1 .. Len(running) : (front \o <<v>>)[k] = IF k <= Len(front) THEN front[k] ELSE v
    BY <2>1, <2>2
  <2>4. \A k \in 1 .. Len(running) : (front \o <<v>>)[k] = running[k]
    BY <2>1, <2>2, <2>3 DEF v
  <2> QED  BY <1>2, <2>1, <2>2, <2>3, <2>4, EqualLemma, Zenon
<1> HIDE DEF v, front
<1>4. (front \o <<v>>) \o waiting = front \o (<<v>> \o waiting)
  BY <1>2, <1>3, JoinAssociative
<1> QED  BY <1>1, <1>3, <1>4, Zenon DEF ServiceOrder, Active

\* The first waiting request becomes the last running one.
LEMMA ScheduleWaitingOrder ==
    ASSUME IInv, ScheduleWaiting
    PROVE  ServiceOrder' = ServiceOrder
<1> DEFINE v == waiting[1]
           rest == Tail(waiting)
<1>1. /\ pc = "waiting" /\ pc' = "waiting" /\ waiting # <<>>
      /\ running' = Append(running, v) /\ waiting' = rest
  BY Zenon DEF ScheduleWaiting, InWaitingLoop
<1>2. running \in Seq(Requests) /\ waiting \in Seq(Requests)
  BY Zenon DEF IInv, TypeOK
<1>3. v \in Requests /\ rest \in Seq(Requests) /\ waiting = <<v>> \o rest
  <2>1. Len(waiting) \in Nat /\ Len(waiting) >= 1 /\ v \in Requests
    BY <1>1, <1>2
  <2>2. rest \in Seq(Requests) /\ Len(rest) = Len(waiting) - 1
        /\ \A k \in 1 .. Len(waiting) - 1 : rest[k] = waiting[k + 1]
    BY <1>1, <1>2
  <2> HIDE DEF rest, v
  <2>3. <<v>> \o rest \in Seq(Requests) /\ Len(<<v>> \o rest) = Len(waiting)
        /\ \A k \in 1 .. Len(waiting) : (<<v>> \o rest)[k] = IF k <= 1 THEN v ELSE rest[k - 1]
    BY <2>1, <2>2
  <2>4. \A k \in 1 .. Len(waiting) : (<<v>> \o rest)[k] = waiting[k]
    BY <2>1, <2>2, <2>3 DEF v
  <2> QED  BY <1>2, <2>1, <2>2, <2>3, <2>4, EqualLemma, Zenon
<1> HIDE DEF v, rest
<1>4. Append(running, v) = running \o <<v>>
  BY <1>2, <1>3
<1>5. (running \o <<v>>) \o rest = running \o (<<v>> \o rest)
  BY <1>2, <1>3, JoinAssociative
<1> QED  BY <1>1, <1>3, <1>4, <1>5, Zenon DEF ServiceOrder, Active

\* update_from_output keeps a request at its place.
LEMMA UpdateKeepsOrder ==
    ASSUME IInv, UpdateUnscheduled \/ UpdateContinue
    PROVE  ServiceOrder' = ServiceOrder
<1>1. /\ pc = "update" /\ pc' = "update" /\ reqIndex <= Len(running)
      /\ newRunning' = Append(newRunning, running[reqIndex]) /\ reqIndex' = reqIndex + 1
      /\ UNCHANGED <<running, waiting>>
  BY Zenon DEF UpdateUnscheduled, UpdateContinue, InUpdateLoop, queueVars
<1>2. running \in Seq(Requests) /\ newRunning \in Seq(Requests) /\ reqIndex \in 1 .. Len(running)
  BY <1>1 DEF IInv, TypeOK
<1>3. Append(newRunning, running[reqIndex]) \o SubSeq(running, reqIndex + 1, Len(running))
        = newRunning \o SubSeq(running, reqIndex, Len(running))
  BY <1>2, ShiftLemma, Zenon
<1> QED  BY <1>1, <1>3, Zenon DEF ServiceOrder, Active

\* The loop of update_from_output starts with all the running requests and ends
\* with the ones it has kept.
LEMMA UpdateEndsOrder ==
    ASSUME IInv, ExecuteModel \/ EndUpdate
    PROVE  ServiceOrder' = ServiceOrder
<1>0. running \in Seq(Requests) /\ newRunning \in Seq(Requests) /\ reqIndex \in Nat \ {0}
  BY Zenon DEF IInv, TypeOK
<1>1. CASE ExecuteModel
  <2>1. /\ pc = "output" /\ pc' \in {"update", "dead"} /\ newRunning' = <<>> /\ reqIndex' = 1
        /\ UNCHANGED <<running, waiting>>
    BY <1>1, Zenon DEF ExecuteModel, queueVars
  <2>2. <<>> \o SubSeq(running, 1, Len(running)) = running
    BY <1>0
  <2> QED  BY <2>1, <2>2, Zenon DEF ServiceOrder, Active
<1>2. CASE EndUpdate
  <2>1. /\ pc = "update" /\ pc' = "idle" /\ ~(reqIndex <= Len(running))
        /\ running' = newRunning /\ UNCHANGED waiting
    BY <1>2, Zenon DEF EndUpdate, InUpdateLoop
  <2>2. SubSeq(running, reqIndex, Len(running)) = <<>>
    BY <1>0, <2>1, SliceEmpty
  <2>3. newRunning \o <<>> = newRunning
    BY <1>0
  <2> QED  BY <2>1, <2>2, <2>3, Zenon DEF ServiceOrder, Active
<1> QED  BY <1>1, <1>2, Zenon

\* A stopped request leaves its place, and the engine survives it.
LEMMA UpdateStopOrder ==
    ASSUME IInv, CacheInv, UpdateStop
    PROVE  InOrder(ServiceOrder, ServiceOrder')
<1>1. /\ pc = "update" /\ reqIndex <= Len(running) /\ pc' = "update" /\ reqIndex' = reqIndex + 1
      /\ UNCHANGED <<running, waiting, newRunning>>
  <2>1. StopFindsNothingCached /\ InUpdateLoop
    BY CaughtUp, Zenon DEF UpdateStop
  <2> QED  BY <2>1, Zenon DEF UpdateStop, InUpdateLoop, StopFindsNothingCached
<1>2. running \in Seq(Requests) /\ newRunning \in Seq(Requests) /\ reqIndex \in 1 .. Len(running)
  BY <1>1 DEF IInv, TypeOK
<1>3. PICK i \in 1 .. Len(Active) : Active' \in Seq(Requests) /\ Drops(Active, Active', i)
  <2>1. /\ newRunning \o SubSeq(running, reqIndex + 1, Len(running)) \in Seq(Requests)
        /\ Len(newRunning) + 1 \in 1 .. Len(newRunning \o SubSeq(running, reqIndex, Len(running)))
        /\ Drops(newRunning \o SubSeq(running, reqIndex, Len(running)),
                 newRunning \o SubSeq(running, reqIndex + 1, Len(running)), Len(newRunning) + 1)
    BY <1>2, ShiftLemma, Zenon
  <2> QED  BY <1>1, <2>1, Zenon DEF Active
<1>4. Active \in Seq(Requests) /\ waiting \in Seq(Requests)
  BY <1>1, OrderPlaces, Zenon
<1>5. i \in 1 .. Len(Active \o waiting) /\ Drops(Active \o waiting, Active' \o waiting, i)
  BY <1>3, <1>4, DropFirst, Zenon
<1>6. Active' \o waiting \in Seq(Requests)
  BY <1>3, <1>4
<1>7. /\ ServiceOrder = Active \o waiting /\ ServiceOrder' = Active' \o waiting
      /\ ServiceOrder \in Seq(Requests) /\ IsInjective(ServiceOrder)
  BY <1>1, OrderPlaces, Zenon DEF ServiceOrder
<1> QED  BY <1>5, <1>6, <1>7, DropOrder, Zenon

\* So does an aborted one, wherever it is.
LEMMA FinishRequestOrder ==
    ASSUME IInv, NEW r \in Requests, FinishRequest(r)
    PROVE  InOrder(ServiceOrder, ServiceOrder')
<1>1. /\ pc = "idle" /\ pc' \in {"idle", "dead"}
      /\ status[r] \in {"WAITING", "RUNNING", "PREEMPTED"}
      /\ running' = IF status[r] = "RUNNING" THEN Removed(running, r) ELSE running
      /\ waiting' = IF status[r] = "RUNNING" THEN waiting ELSE Removed(waiting, r)
  BY Zenon DEF FinishRequest
<1>2. /\ running \in Seq(Requests) /\ waiting \in Seq(Requests)
      /\ ServiceOrder \in Seq(Requests) /\ IsInjective(ServiceOrder)
      /\ ServiceOrder = running \o waiting /\ ServiceOrder' = running' \o waiting'
  BY <1>1, OrderPlaces, Zenon DEF ServiceOrder, Active
<1>3. /\ IsInjective(waiting) /\ IsInjective(running)
      /\ Range(running) = {q \in Requests : status[q] = "RUNNING"}
      /\ Range(waiting) = {q \in Requests : status[q] \in {"WAITING", "PREEMPTED"}}
  BY <1>1, Zenon DEF IInv, QueuesMatchStatus, Active
<1>4. CASE status[r] = "RUNNING"
  <2>1. r \in Range(running) /\ running' = Removed(running, r) /\ waiting' = waiting
    BY <1>1, <1>3, <1>4, Zenon
  <2>2. running' \in Seq(Requests) /\ \E i \in 1 .. Len(running) : Drops(running, running', i)
    BY <1>2, <1>3, <2>1, RemovedLemma, Zenon
  <2>3. PICK i \in 1 .. Len(running) : Drops(running, running', i)
    BY <2>2, Zenon
  <2>4. i \in 1 .. Len(running \o waiting) /\ Drops(running \o waiting, running' \o waiting, i)
    BY <1>2, <2>2, <2>3, DropFirst, Zenon
  <2>5. running' \o waiting \in Seq(Requests)
    BY <1>2, <2>2
  <2> QED  BY <1>2, <2>1, <2>4, <2>5, DropOrder, Zenon
<1>5. CASE status[r] # "RUNNING"
  <2>1. r \in Range(waiting) /\ waiting' = Removed(waiting, r) /\ running' = running
    BY <1>1, <1>3, <1>5, Zenon
  <2>2. waiting' \in Seq(Requests) /\ \E i \in 1 .. Len(waiting) : Drops(waiting, waiting', i)
    BY <1>2, <1>3, <2>1, RemovedLemma, Zenon
  <2>3. PICK i \in 1 .. Len(waiting) : Drops(waiting, waiting', i)
    BY <2>2, Zenon
  <2>4. /\ Len(running) + i \in 1 .. Len(running \o waiting)
        /\ Drops(running \o waiting, running \o waiting', Len(running) + i)
    BY <1>2, <2>2, <2>3, DropSecond, Zenon
  <2>5. running \o waiting' \in Seq(Requests)
    BY <1>2, <2>2
  <2> QED  BY <1>2, <2>1, <2>4, <2>5, DropOrder, Zenon
<1> QED  BY <1>4, <1>5, Zenon

\* A new request queues up behind all the others.
LEMMA AddRequestOrder ==
    ASSUME IInv, NEW r \in Requests, AddRequest(r)
    PROVE  InOrder(ServiceOrder, ServiceOrder')
<1>1. /\ pc = "idle" /\ pc' = "idle" /\ status[r] \in {"NEW", "FINISHED"}
      /\ waiting' = Append(waiting, r) /\ running' = running
  BY Zenon DEF AddRequest
<1>2. /\ running \in Seq(Requests) /\ waiting \in Seq(Requests)
      /\ ServiceOrder \in Seq(Requests) /\ IsInjective(ServiceOrder)
      /\ Range(ServiceOrder)
            = {q \in Requests : status[q] \in {"RUNNING", "WAITING", "PREEMPTED"}}
  BY <1>1, OrderPlaces, Zenon
<1>3. r \notin Range(ServiceOrder)
  BY <1>1, <1>2, Zenon
<1>4. ServiceOrder = running \o waiting /\ ServiceOrder' = running \o Append(waiting, r)
  BY <1>1, Zenon DEF ServiceOrder, Active
<1>5. running \o Append(waiting, r) = Append(running \o waiting, r)
  <2>1. Append(waiting, r) = waiting \o <<r>> /\ <<r>> \in Seq(Requests)
    BY <1>2
  <2>2. (running \o waiting) \o <<r>> = running \o (waiting \o <<r>>)
    BY <1>2, <2>1, JoinAssociative
  <2>3. running \o waiting \in Seq(Requests)
    BY <1>2
  <2>4. Append(running \o waiting, r) = (running \o waiting) \o <<r>>
    BY <2>3
  <2> QED  BY <2>1, <2>2, <2>4, Zenon
<1> QED  BY <1>2, <1>3, <1>4, <1>5, AppendOrder, Zenon

\* Every other step leaves both queues alone, outside the loop of
\* update_from_output.
LEMMA QuietOrder ==
    ASSUME \/ ResetCache \/ BeginSchedule \/ SkipRunning \/ ScheduleRunning \/ EndRunning
           \/ BlockedWaiting \/ EndWaiting \/ MakeOutput \/ DropOutput
           \/ \E r \in Requests, S \in SUBSET (Nat \ {0}) : HandleEncoderResult(r, S)
    PROVE  ServiceOrder' = ServiceOrder
<1>1. pc # "update" /\ pc' # "update" /\ UNCHANGED <<running, waiting>>
  <2>1. CASE ResetCache \/ BeginSchedule \/ SkipRunning
    BY <2>1, Zenon DEF ResetCache, BeginSchedule, SkipRunning, InRunningLoop, schedVars, queueVars
  <2>2. CASE ScheduleRunning \/ EndRunning \/ BlockedWaiting
    BY <2>2, Zenon DEF ScheduleRunning, EndRunning, BlockedWaiting, InRunningLoop, InWaitingLoop, queueVars
  <2>3. CASE EndWaiting \/ MakeOutput \/ DropOutput
    BY <2>3, Zenon DEF EndWaiting, MakeOutput, DropOutput, queueVars
  <2>4. CASE \E r \in Requests, S \in SUBSET (Nat \ {0}) : HandleEncoderResult(r, S)
    BY <2>4, Zenon DEF HandleEncoderResult, queueVars
  <2> QED  BY <2>1, <2>2, <2>3, <2>4, Zenon
<1> QED  BY <1>1, Zenon DEF ServiceOrder, Active

\* No step makes two requests swap places.
LEMMA NextOrder ==
    ASSUME IInv, CacheInv, Next
    PROVE  InOrder(ServiceOrder, ServiceOrder')
<1>0. CASE ServiceOrder' = ServiceOrder /\ pc # "dead"
  BY <1>0, OrderPlaces, SameOrder, Zenon
<1>1. CASE Environment
  <2>1. ASSUME NEW r \in Requests, NEW S \in SUBSET Inputs(r), HandleEncoderResult(r, S)
        PROVE  ServiceOrder' = ServiceOrder /\ pc # "dead"
    <3>1. S \in SUBSET (Nat \ {0})
      BY RequestAssumption DEF Inputs
    <3> QED  BY <2>1, <3>1, QuietOrder, Zenon DEF HandleEncoderResult
  <2>2. CASE ResetCache
    BY <1>0, <2>2, QuietOrder, Zenon DEF ResetCache
  <2> QED  BY <1>0, <1>1, <2>1, <2>2, AddRequestOrder, FinishRequestOrder, Zenon DEF Environment
<1>2. CASE Schedule
  <2>1. pc # "dead"
    BY <1>2, Zenon DEF Schedule, BeginSchedule, SkipRunning, ScheduleRunning, Preempt, EndRunning,
       ScheduleWaiting, BlockedWaiting, EndWaiting, MakeOutput, DropOutput, InRunningLoop,
       InWaitingLoop
  <2> QED  BY <1>0, <1>2, <2>1, QuietOrder, PreemptOrder, ScheduleWaitingOrder, Zenon DEF Schedule
<1>3. CASE Update
  <2>1. pc # "dead"
    BY <1>3, Zenon DEF Update, ExecuteModel, UpdateUnscheduled, UpdateContinue, UpdateStop, EndUpdate,
       InUpdateLoop
  <2> QED  BY <1>0, <1>3, <2>1, UpdateKeepsOrder, UpdateEndsOrder, UpdateStopOrder, Zenon DEF Update
<1> QED  BY <1>1, <1>2, <1>3, Zenon DEF Next

\* OrderPreserved: requests are served first come, first served.
THEOREM ServedInOrder == Spec => OrderPreserved
<1>1. IInv /\ CacheInv /\ [Next]_vars =>
        [\A q, r \in Requests : Before(ServiceOrder, q, r) => ~Before(ServiceOrder', r, q)]_vars
  BY NextOrder, Zenon DEF InOrder
<1> QED  BY <1>1, Invariance, CacheInvariance, PTL DEF Spec, OrderPreserved
=============================================================================
