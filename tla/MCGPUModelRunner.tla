-------------------------- MODULE MCGPUModelRunner --------------------------
(* Instances of GPUModelRunner for TLC. *)
EXTENDS GPUModelRunner, TLC

CONSTANTS req1, req2, req3

\* req1 holds two images next to each other, whose placeholder tokens are told
\* apart as the block hashes do; req2 and req3 are text and share a block.
MMTokens == req1 :> <<11, 11, 12, 12, 1, 2, 3>> @@ req2 :> <<1, 2, 3, 4, 5, 6, 7>> @@ req3 :> <<1, 2, 2, 2, 2, 2, 2>>
MMPrompts == req1 :> 4 @@ req2 :> 2 @@ req3 :> 3
MMMaxTokens == req1 :> 1 @@ req2 :> 4 @@ req3 :> 3
MMInputs == req1 :> <<[offset |-> 0, length |-> 2], [offset |-> 2, length |-> 2]>>
         @@ req2 :> <<>> @@ req3 :> <<>>
=============================================================================
