---------------------------- MODULE MCSpaceServe ----------------------------
(* Instances of SpaceServe for TLC. *)
EXTENDS SpaceServe, TLC

CONSTANTS req1, req2

\* One image each, of different lengths and at different places.
OneImageTokens == req1 :> <<11, 11, 1, 2>> @@ req2 :> <<1, 12, 2, 3>>
OneImagePrompts == req1 :> 2 @@ req2 :> 2
OneImageMaxTokens == req1 :> 2 @@ req2 :> 1
OneImageLonger == req1 :> 2 @@ req2 :> 2
OneImageInputs == req1 :> <<[offset |-> 0, length |-> 2]>> @@ req2 :> <<[offset |-> 1, length |-> 1]>>
\* req1 is text only, req2 has an image.
TextImageTokens == req1 :> <<1, 2>> @@ req2 :> <<12, 2>>
OneTokenPrompts == [r \in Requests |-> 1]
OneToken == [r \in Requests |-> 1]
TextImageInputs == req1 :> <<>> @@ req2 :> <<[offset |-> 0, length |-> 1]>>
\* One request with two images.
TwoImagesTokens == req1 :> <<11, 12, 1>>
TwoImagesPrompts == req1 :> 2
TwoImagesInputs == req1 :> <<[offset |-> 0, length |-> 1], [offset |-> 1, length |-> 1]>>

=============================================================================
