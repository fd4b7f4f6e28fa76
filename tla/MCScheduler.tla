---------------------------- MODULE MCScheduler ----------------------------
(* Instances of Scheduler for TLC. *)
EXTENDS Scheduler, TLC

CONSTANTS req1, req2, req3, req4

\* Three text requests; req1 and req2 share their first block, req3 has a text of
\* its own.  req4 has an image after a token.
TextTokens == req1 :> <<1, 2, 3, 4, 5, 6>> @@ req2 :> <<1, 2, 3, 5, 5, 5>>
           @@ req3 :> <<2, 2, 2, 2, 2, 2>> @@ req4 :> <<3, 11, 3>>
TextPrompts == req1 :> 3 @@ req2 :> 2 @@ req3 :> 1 @@ req4 :> 2
TextMaxTokens == req1 :> 3 @@ req2 :> 3 @@ req3 :> 3 @@ req4 :> 1
TextInputs == req4 :> <<[offset |-> 1, length |-> 1]>> @@ [r \in Requests |-> <<>>]

\* What a client submits: the text requests, or req3 and req4, which have room
\* for both, so that req3 has to get on while req4 waits for its image.  As a
\* constraint of TLC it cuts off AddRequest and HandleEncoderResult only, which
\* no fairness asks for.
OneMix ==
    \/ status[req4] = "NEW" /\ encoderCache[req4] = {}
    \/ status[req1] = "NEW" /\ status[req2] = "NEW"

\* req1 holds two images next to each other, req2 one after a token, req3 is text.
\* Placeholder tokens are told apart by image, as the block hashes do.
MMTokens == req1 :> <<11, 11, 12, 12, 1, 2>> @@ req2 :> <<1, 13, 13, 3, 4>> @@ req3 :> <<2, 2, 2>>
MMPrompts == req1 :> 4 @@ req2 :> 3 @@ req3 :> 1
MMMaxTokens == req1 :> 1 @@ req2 :> 2 @@ req3 :> 2
MMInputs == req1 :> <<[offset |-> 0, length |-> 2], [offset |-> 2, length |-> 2]>>
         @@ req2 :> <<[offset |-> 1, length |-> 2]>>
         @@ req3 :> <<>>
============================================================================
