---------------------------- MODULE MCAlgorithms ----------------------------
(* The free list, the block hashes and the streamed text for TLC: a state  *)
(* graph that is the union of the three, since nothing connects them here. *)
EXTENDS FreeKVCacheBlockQueue, BlockHash, TextStream

CONSTANTS img1, img2, img3

\* img1 and img2 fit in a block together, img3 never lies in one block.
Lengths == img1 :> 1 @@ img2 :> 1 @@ img3 :> 4

a == "a"
b == "b"

\* The texts of a token: none, one, two or three characters.
TokenTexts ==
    {<<>>, <<a>>, <<b>>, <<a, b>>, <<b, a>>, <<b, b>>, <<a, b, b>>}

\* No stop string, one, and several: of different lengths, overlapping, and
\* in both orders of length.
Stops ==
    {<<>>, << <<a, b>> >>, << <<b, b>>, <<a, b, a>> >>,
     << <<a, b, a>>, <<b, b>> >>, << <<b, b>>, <<a>> >>}

VARIABLE part   \* the algorithm this behaviour is about

InitAlgorithms ==
    /\ part \in {"queue", "hash", "text"}
    /\ QueueInit
    /\ HashInit /\ (part # "hash" => layout = <<Text>>)
    /\ DetokInit /\ (part # "text" => params =
            [stops |-> <<>>, include |-> FALSE, kind |-> "DELTA"])

NextAlgorithms ==
    /\ \/ part = "queue" /\ QueueNext /\ UNCHANGED <<hashVars, detokVars>>
       \/ part = "hash" /\ HashNext /\ UNCHANGED <<freeListVars, detokVars>>
       \/ part = "text" /\ DetokNext /\ UNCHANGED <<freeListVars, hashVars>>
    /\ UNCHANGED part

AlgorithmsSpec ==
    InitAlgorithms /\
        [][NextAlgorithms]_<<part, freeListVars, hashVars, detokVars>>
=============================================================================
