----------------------------- MODULE MCAsyncLLM -----------------------------
(* The front end for TLC. *)
EXTENDS AsyncLLM, TLC

CONSTANTS call1, call2, call3, img1, img2, img3, bad, encoder

\* call1 streams and has a stop string, which its second token completes.
\* call2 gets the whole text each time, or fails on its last image.  call3
\* has the id of call1, and gets its output at the end.
Params ==
    call1 :> [stops |-> << <<"b", "a">> >>, include |-> FALSE, kind |-> "DELTA"]
    @@ call2 :> [stops |-> <<>>, include |-> FALSE, kind |-> "CUMULATIVE"]
    @@ call3 :> [stops |-> << <<"b">> >>, include |-> FALSE,
                 kind |-> "FINAL_ONLY"]

Texts ==
    call1 :> << <<"a", "b">>, <<"a">>, <<"a">> >>
    @@ call2 :> << <<"a">>, <<"b">> >>
    @@ call3 :> << <<"a", "b">>, <<"b">> >>

Ids == call1 :> "id1" @@ call2 :> "id2" @@ call3 :> "id1"

Prompts ==
    call1 :> <<img1, img2>> @@ call2 :> <<img1, img3>> @@ call3 :> <<img2, bad>>
=============================================================================
