------------------------------ MODULE AsyncLLM ------------------------------
(***************************************************************************)
(* The front end (v1/engine/async_llm.py, output_processor.py): calls of   *)
(* generate(), the output handler, and the two processes behind them.  The *)
(* front end is one asyncio event loop: an action is what a task does      *)
(* between two of its awaits.  An await of a send does not switch tasks    *)
(* (the sockets have no high-water mark).                                  *)
(*                                                                         *)
(* A call of generate() is known to the other processes by its request id. *)
(* EngineCore is reduced to what the front end sees of it: it takes ADD    *)
(* and ABORT in order, and sends batches of outputs of one token each      *)
(* until a request finishes (its scheduling is the module Scheduler).      *)
(* Ids are used once: a second call with the id of another is made only    *)
(* while that one is active.                                               *)
(***************************************************************************)
EXTENDS MMInputMapper, Detokenizer, FiniteSets, Functions

CONSTANTS
    Calls,        \* calls of generate(); Owners = Calls
    IdOf,         \* [Calls -> ids]
    ParamsOf,     \* the sampling parameters of a call
    ImagesOf,     \* the images of a call's prompt, in order
    Leaving,      \* the calls that may be cancelled or dropped
    TextsOf,      \* the texts of the tokens the model makes for a call; the
                  \* length is max_tokens
    MaxBatches,   \* bound on the batches EngineCore is ahead of the front end
    ChunkSize,    \* VLLM_V1_OUTPUT_PROC_CHUNK_SIZE
    Engine,       \* the server of EngineCore (the other is EncoderCore's)
    NoCall

ASSUME AsyncAssumption ==
    /\ Owners = Calls /\ IsFiniteSet(Calls) /\ Leaving \subseteq Calls
    /\ ImagesOf \in [Calls -> Seq(Hashes)]
    /\ ChunkSize \in Nat \ {0} /\ MaxBatches \in Nat \ {0}
    /\ Engine \in Servers
    /\ NoCall \notin Calls

VARIABLES
    pc,             \* where each call is
    adding,         \* the call inside add_request, and
    nextImage,      \* the place of its next image
    requestStates,  \* OutputProcessor.request_states: the calls in it
    detoks,         \* their detokenizers
    queues,         \* their asyncio.Queues
    received,       \* what generate() has yielded to its caller
    slices,         \* the slices the output handler has still to process
    inSlice,        \* is it inside process_outputs?
    toAbort,        \* reqs_to_abort of the slice it has just processed
    engineIn,       \* the messages on their way to EngineCore
    engineReqs,     \* the requests EngineCore has
    produced,       \* [Calls -> Nat], the tokens it has made for each
    engineOut       \* the batches on their way back

frontVars == <<pc, adding, nextImage, requestStates, detoks, queues, received,
               slices, inSlice, toAbort>>
engineVars == <<engineIn, engineReqs, produced, engineOut>>
asyncVars == <<frontVars, engineVars, mapperVars>>

NothingYet == [tokens |-> <<>>, text |-> <<>>, finished |-> FALSE,
               reason |-> "None"]

AsyncInit ==
    /\ MapperInit
    /\ pc = [c \in Calls |-> "new"]
    /\ adding = NoCall
    /\ nextImage = 1
    /\ requestStates = {}
    /\ detoks = [c \in Calls |-> NewDetokenizer]
    /\ queues = [c \in Calls |-> <<>>]
    /\ received = [c \in Calls |-> NothingYet]
    /\ slices = <<>>
    /\ inSlice = FALSE
    /\ toAbort = <<>>
    /\ engineIn = <<>>
    /\ engineReqs = {}
    /\ produced = [c \in Calls |-> 0]
    /\ engineOut = <<>>

-----------------------------------------------------------------------------
(* add_request, which runs without switching tasks. *)

LoopFree == adding = NoCall /\ ~inSlice

IsRequestActive(c) == \E d \in requestStates : IdOf[d] = IdOf[c]

\* The check at the top of add_request.
Generate(c) ==
    \/ /\ IsRequestActive(c)
       /\ pc' = [pc EXCEPT ![c] = "error"]
       /\ UNCHANGED adding
    \/ /\ ~IsRequestActive(c)
       /\ adding' = c
       /\ pc' = [pc EXCEPT ![c] = "adding"]

StartGenerate(c) ==
    /\ LoopFree
    /\ pc[c] = "new"
    /\ IsRequestActive(c) \/ \A d \in Calls \ {c} :
            IdOf[d] = IdOf[c] => pc[d] \in {"new", "error"}
    /\ Generate(c)
    /\ nextImage' = 1
    /\ UNCHANGED <<requestStates, detoks, queues, received, slices, inSlice,
                   toAbort, engineVars, mapperVars>>

MapImage ==
    /\ adding # NoCall
    /\ nextImage <= Len(ImagesOf[adding])
    /\ LET image == ImagesOf[adding][nextImage]
       IN  \/ /\ ClientImage(image, adding)
              /\ nextImage' = nextImage + 1
              /\ UNCHANGED <<pc, adding>>
           \/ /\ ClientRaises(image)
              /\ pc' = [pc EXCEPT ![adding] = "error"]
              /\ adding' = NoCall
              /\ UNCHANGED nextImage
    /\ UNCHANGED <<requestStates, detoks, queues, received, slices, inSlice,
                   toAbort, engineVars>>

\* Faulty: nothing is sent.
AddMessage_None(c) == <<>>

\* What add_request_async sends to EngineCore.
AddMessage(c) == <<[type |-> "ADD", call |-> c]>>

\* output_processor.add_request, then the request to both processes.
SendRequest ==
    /\ adding # NoCall
    /\ nextImage > Len(ImagesOf[adding])
    /\ ClientSend
    /\ requestStates' = requestStates \cup {adding}
    /\ engineIn' = engineIn \o AddMessage(adding)
    /\ pc' = [pc EXCEPT ![adding] = "generating"]
    /\ adding' = NoCall
    /\ UNCHANGED <<nextImage, detoks, queues, received, slices, inSlice,
                   toAbort, engineReqs, produced, engineOut>>

-----------------------------------------------------------------------------
(* The loop of generate(). *)

\* RequestOutput.add: the finish reason of the later output is not taken.
AddOutput(out, next) ==
    [out EXCEPT !.finished = @ \/ next.finished, !.text = @ \o next.text,
                !.tokens = @ \o next.tokens]

\* Faulty: the last output stands for all of them, also for a delta.
Coalesce_Last(outs, delta) == outs[Len(outs)]

\* The outputs of the queue as one.
Coalesce(outs, delta) ==
    LET joined[i \in 1 .. Len(outs)] ==
            IF i = 1 THEN outs[1] ELSE AddOutput(joined[i - 1], outs[i])
    IN  IF delta THEN joined[Len(outs)] ELSE outs[Len(outs)]

\* What the caller holds after one more output of generate().
Yielded(c, out) ==
    IF ParamsOf[c].kind = "DELTA"
    THEN [AddOutput(received[c], out) EXCEPT !.reason = out.reason]
    ELSE out

ReceiveOutput(c) ==
    /\ LoopFree
    /\ pc[c] = "generating"
    /\ queues[c] # <<>>
    /\ LET out == Coalesce(queues[c], ParamsOf[c].kind = "DELTA")
       IN  /\ received' = [received EXCEPT ![c] = Yielded(c, out)]
           /\ pc' = [pc EXCEPT ![c] = IF out.finished THEN "done" ELSE @]
    /\ queues' = [queues EXCEPT ![c] = <<>>]
    /\ UNCHANGED <<adding, nextImage, requestStates, detoks, slices, inSlice,
                   toAbort, engineVars, mapperVars>>

\* The engine is told, and the output processor forgets the request.
Abort(c) ==
    /\ engineIn' = Append(engineIn, [type |-> "ABORT", call |-> c])
    /\ requestStates' = requestStates \ {c}

Cancel(c) ==
    /\ LoopFree
    /\ pc[c] = "generating"
    /\ Abort(c)
    /\ pc' = [pc EXCEPT ![c] = "cancelled"]
    /\ UNCHANGED <<adding, nextImage, detoks, queues, received, slices,
                   inSlice, toAbort, engineReqs, produced, engineOut, mapperVars>>

\* The caller closes the generator at a yield: GeneratorExit is not
\* CancelledError, so nothing is aborted.
Abandon(c) ==
    /\ LoopFree
    /\ pc[c] = "generating"
    /\ received[c] # NothingYet
    /\ pc' = [pc EXCEPT ![c] = "abandoned"]
    /\ UNCHANGED <<adding, nextImage, requestStates, detoks, queues, received,
                   slices, inSlice, toAbort, engineVars, mapperVars>>

-----------------------------------------------------------------------------
(* _run_output_handler with OutputProcessor.process_outputs. *)

\* np.array_split into cdiv(num_outputs, chunk size) slices.
Split(outputs) ==
    LET n == Len(outputs)
        k == (n + ChunkSize - 1) \div ChunkSize
        Start(i) == (i - 1) * (n \div k) + (IF i - 1 < n % k THEN i - 1 ELSE n % k)
    IN  [i \in 1 .. k |-> SubSeq(outputs, Start(i) + 1, Start(i + 1))]

AbortMessages(calls) ==
    [i \in 1 .. Len(calls) |-> [type |-> "ABORT", call |-> calls[i]]]

\* Take the next batch and cut it into slices.
HandlerPull ==
    /\ LoopFree
    /\ slices = <<>>
    /\ engineOut # <<>>
    /\ slices' = Split(Head(engineOut))
    /\ inSlice' = TRUE
    /\ engineOut' = Tail(engineOut)
    /\ UNCHANGED <<pc, adding, nextImage, requestStates, detoks, queues,
                   received, toAbort, engineIn, engineReqs, produced,
                   mapperVars>>

\* RequestOutput as _make_request_output builds it.
ToRequestOutput(out) ==
    [tokens |-> out.tokens, text |-> out.text, finished |-> out.finished,
     reason |-> IF ~out.finished THEN "None"
                ELSE IF out.detokenizer.stop # 0 THEN "stop" ELSE "length"]

\* Faulty: the engine is not told.
ToAbortAfter_None(c, finished, byEngine) == toAbort

\* A request that a stop string finished is still running in EngineCore.
ToAbortAfter(c, finished, byEngine) ==
    IF finished /\ ~byEngine THEN Append(toAbort, c) ELSE toAbort

\* One turn of the loop of process_outputs.
ProcessOutput(output) ==
    LET c == output.call
        params == ParamsOf[c]
    IN  \E d \in {Detokenized(detoks[c], output.token,
                               TextsOf[c][output.token], params)} :
        \E out \in {DetokenizerOutput(d, output.finished, params)} :
            /\ detoks' = [detoks EXCEPT ![c] = out.detokenizer]
            /\ queues' = IF out.hasOutput
                         THEN [queues EXCEPT ![c] = Append(@, ToRequestOutput(out))]
                         ELSE queues
            /\ requestStates' = IF out.finished THEN requestStates \ {c}
                                ELSE requestStates
            /\ toAbort' = ToAbortAfter(c, out.finished, output.finished)

HandlerOutput ==
    /\ inSlice
    /\ Head(slices) # <<>>
    /\ slices' = <<Tail(Head(slices))>> \o Tail(slices)
    /\ LET output == Head(Head(slices))
       IN  IF output.call \in requestStates THEN ProcessOutput(output)
           ELSE UNCHANGED <<detoks, queues, requestStates, toAbort>>
    /\ UNCHANGED <<pc, adding, nextImage, received, inSlice, engineVars,
                   mapperVars>>

\* Faulty: the list is kept from slice to slice.
HeldAborts_All(isLast) == toAbort

\* reqs_to_abort is new for every slice.
HeldAborts(isLast) == IF isLast THEN <<>> ELSE toAbort

\* The end of a slice: other tasks run before the aborts are sent, unless
\* it was the last.
SliceDone ==
    /\ inSlice
    /\ Head(slices) = <<>>
    /\ slices' = Tail(slices)
    /\ inSlice' = FALSE
    /\ engineIn' = IF Len(slices) = 1
                   THEN engineIn \o AbortMessages(toAbort) ELSE engineIn
    /\ toAbort' = HeldAborts(Len(slices) = 1)
    /\ UNCHANGED <<pc, adding, nextImage, requestStates, detoks, queues,
                   received, engineReqs, produced, engineOut, mapperVars>>

HandlerResume ==
    /\ LoopFree
    /\ slices # <<>>
    /\ engineIn' = engineIn \o AbortMessages(toAbort)
    /\ toAbort' = <<>>
    /\ inSlice' = TRUE
    /\ UNCHANGED <<pc, adding, nextImage, requestStates, detoks, queues,
                   received, slices, engineReqs, produced, engineOut,
                   mapperVars>>

-----------------------------------------------------------------------------
(* The other processes. *)

\* EngineCore takes the next message, once its mapper has the images.
EngineTake ==
    /\ engineIn # <<>>
    /\ Engine \notin stopped
    /\ LET message == Head(engineIn)
       IN  IF message.type = "ABORT"
           THEN engineReqs' = engineReqs \ {message.call}
           ELSE /\ \A i \in 1 .. Len(channel[Engine]) :
                      channel[Engine][i].owner # message.call
                /\ engineReqs' = engineReqs \cup {message.call}
    /\ engineIn' = Tail(engineIn)
    /\ UNCHANGED <<frontVars, produced, engineOut, mapperVars>>

\* An order of the requests in a batch: which one it is, no caller can tell.
InOrder(batch) ==
    CHOOSE f \in [1 .. Cardinality(batch) -> batch] : IsInjective(f)

\* A step of EngineCore: one token for each of the calls in the batch.
EngineStep(batch) ==
    /\ batch # {}
    /\ batch \subseteq engineReqs
    /\ Len(engineOut) < MaxBatches
    /\ Engine \notin stopped
    /\ \E last \in SUBSET batch :
          /\ \A c \in batch : produced[c] + 1 = Len(TextsOf[c]) => c \in last
          /\ engineReqs' = engineReqs \ last
          /\ engineOut' = Append(engineOut,
                [i \in 1 .. Cardinality(batch) |->
                    LET c == InOrder(batch)[i]
                    IN  [call |-> c, token |-> produced[c] + 1,
                         finished |-> c \in last]])
    /\ produced' = [c \in Calls |->
                        IF c \in batch THEN produced[c] + 1 ELSE produced[c]]
    /\ UNCHANGED <<frontVars, engineIn, mapperVars>>

\* Faulty: the image is taken without a look at the server's cache.
TakeImage_Forget(s) ==
    /\ channel[s] # <<>>
    /\ channel' = [channel EXCEPT ![s] = Tail(@)]
    /\ UNCHANGED <<clientCache, mapped, serverCache, stopped, forgotten>>
    /\ UNCHANGED <<frontVars, engineVars>>

\* The part of EngineCore.add_request and EncoderCore.add_request that maps
\* the images of a request.
TakeImage(s) == ServerImage(s) /\ UNCHANGED <<frontVars, engineVars>>

\* What callers do: call generate(), and cancel or drop it.
CallerStep ==
    \/ \E c \in Calls : StartGenerate(c)
    \/ \E c \in Leaving : Cancel(c) \/ Abandon(c)

SystemStep ==
    \/ EngineTake
    \/ \E s \in Servers : TakeImage(s)
    \/ MapImage \/ SendRequest
    \/ HandlerPull \/ SliceDone \/ HandlerResume
    \/ \E batch \in SUBSET Calls : EngineStep(batch)
    \/ \E c \in Calls : ReceiveOutput(c)
    \/ HandlerOutput

AsyncNext == CallerStep \/ SystemStep

\* The system does not stop while one of its tasks or processes can go on.
\* A request has finitely many tokens, so no fairness between them is
\* needed.
AsyncFairness == WF_asyncVars(SystemStep)

AsyncSpec == AsyncInit /\ [][AsyncNext]_asyncVars /\ AsyncFairness

-----------------------------------------------------------------------------
(* Properties *)

Outputs == [tokens : Seq(Nat), text : Seq(STRING), finished : BOOLEAN,
            reason : {"None", "stop", "length"}]

\* The variables have their types, no cache of images is over its limit, and
\* no abort is held back without a slice to come.
AsyncTypeOK ==
    /\ MapperTypeOK /\ CachesBounded
    /\ pc \in [Calls -> {"new", "adding", "generating", "done", "cancelled",
                         "abandoned", "error"}]
    /\ adding \in Calls \cup {NoCall}
    /\ requestStates \subseteq Calls
    /\ \A c \in Calls : received[c] \in Outputs /\ queues[c] \in Seq(Outputs)
    /\ slices = <<>> => toAbort = <<>>
    /\ engineReqs \subseteq Calls
    /\ \A c \in Calls : produced[c] \in 0 .. Len(TextsOf[c])

\* The text of the first k tokens of a call.
TextOf(c, k) ==
    LET text[i \in 0 .. k] == IF i = 0 THEN <<>> ELSE text[i - 1] \o TextsOf[c][i]
    IN  text[k]

\* Does one of the call's stop strings occur in it?
StopsBy(c, k) ==
    \E i \in 1 .. Len(ParamsOf[c].stops) :
        Find(TextOf(c, k), ParamsOf[c].stops[i], 0) # -1

(* A caller gets the tokens of its own request, each once and in order,    *)
(* whatever was coalesced, sliced, cancelled or aborted meanwhile; it gets *)
(* no token after the one that completes a stop string, although EngineCore*)
(* may have made more; and when generate() returns it has got all of them, *)
(* with all of their text (generate, process_outputs, RequestOutput.add).  *)
DeliveredExactly ==
    \A c \in Calls :
        LET got == received[c]
            k == Len(got.tokens)
        IN  /\ got.tokens = [i \in 1 .. k |-> i]
            /\ Begins(got.text, TextOf(c, Len(TextsOf[c])))
            /\ \A j \in 1 .. k - 1 : ~StopsBy(c, j)
            /\ pc[c] = "done" =>
                  /\ StopsBy(c, k) \/ (k = produced[c] /\ c \notin engineReqs)
                  /\ got.text = detoks[c].text
                  /\ queues[c] = <<>>

InTransit(type, c) ==
    \E i \in 1 .. Len(engineIn) : engineIn[i] = [type |-> type, call |-> c]

FinishInTransit(c) ==
    LET batches == slices \o engineOut
    IN  \E i \in 1 .. Len(batches) : \E j \in 1 .. Len(batches[i]) :
            batches[i][j].call = c /\ batches[i][j].finished

(* Neither side keeps a request that the other has forgotten: a request    *)
(* EngineCore still runs and the front end has dropped has its abort on    *)
(* the way, and one the front end waits for is on its way to EngineCore,   *)
(* in it, or its last output is on the way back (abort, reqs_to_abort).    *)
NoOrphans ==
    /\ \A c \in engineReqs \ requestStates :
          InTransit("ABORT", c) \/ \E i \in 1 .. Len(toAbort) : toAbort[i] = c
    /\ \A c \in requestStates \ engineReqs :
          InTransit("ADD", c) \/ FinishInTransit(c)

(* Every call of generate() comes to an end, unless an image that could    *)
(* not be mapped has broken the mirrored caches (see Mirrored).            *)
GenerateReturns ==
    \A c \in Calls :
        pc[c] \in {"adding", "generating"} ~>
            pc[c] \notin {"adding", "generating"} \/ forgotten
=============================================================================
