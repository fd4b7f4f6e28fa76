----------------------------- MODULE TextStream -----------------------------
(***************************************************************************)
(* One request of the Detokenizer, fed with every sequence of pieces of    *)
(* text, and what its caller is shown.                                     *)
(***************************************************************************)
EXTENDS Detokenizer

CONSTANTS
    Chars,       \* the characters of a text
    Pieces,      \* the texts a token may add
    StopLists,   \* the lists of stop strings a request may have
    MaxTokens    \* bound on the generated tokens

\* SamplingParams._verify_args refuses an empty stop string.
ASSUME StreamAssumption ==
    /\ Pieces \subseteq Seq(Chars)
    /\ StopLists \subseteq Seq(Seq(Chars) \ {<<>>})
    /\ MaxTokens \in Nat

VARIABLES
    params,      \* the sampling parameters of the request
    detok,       \* its detokenizer
    shown,       \* what its caller has seen: the deltas joined, or the last
                 \* cumulative text
    isFinished,
    allText      \* history: the text of all its tokens, nothing cut off

detokVars == <<params, detok, shown, isFinished, allText>>

Kinds == {"DELTA", "CUMULATIVE", "FINAL_ONLY"}

DetokInit ==
    /\ params \in [stops : StopLists, include : BOOLEAN, kind : Kinds]
    /\ detok = NewDetokenizer
    /\ shown = <<>>
    /\ isFinished = FALSE
    /\ allText = <<>>

TakeToken(piece, engineFinished) ==
    LET out == DetokenizerOutput(Detokenized(detok, piece, piece, params),
                                 engineFinished, params)
    IN  /\ ~isFinished
        /\ Len(detok.tokens) < MaxTokens
        /\ detok' = out.detokenizer
        /\ shown' = IF ~out.hasOutput THEN shown
                    ELSE IF params.kind = "DELTA" THEN shown \o out.text
                    ELSE out.text
        /\ isFinished' = out.finished
        /\ allText' = allText \o piece
        /\ UNCHANGED params

DetokNext ==
    \E piece \in Pieces, engineFinished \in BOOLEAN :
        TakeToken(piece, engineFinished)

DetokSpec == DetokInit /\ [][DetokNext]_detokVars

-----------------------------------------------------------------------------
Occurs(part, text) == Find(text, part, 0) # -1

(* The text of the detokenizer is a beginning of the text of its tokens,   *)
(* and what the caller has been shown a beginning of that, and all of it   *)
(* once the request has finished, whether it comes in deltas or as a whole *)
(* (_get_next_output_text): text held back for a stop string that did not  *)
(* come is shown later, and nothing is shown that a stop string cuts off.  *)
ShownIsText ==
    /\ Begins(detok.text, allText)
    /\ Begins(shown, detok.text)
    /\ isFinished => shown = detok.text

(* Text that has been shown is never taken back (stop_buffer_length).      *)
ShownOnlyGrows == [][Begins(shown, shown')]_detokVars

(* A request ends with the first token that completes a stop string: until *)
(* then its text has none.  An excluded stop string is not in the text     *)
(* that remains, and neither is any stop string listed before it; an       *)
(* included one is at its end.  A stop string listed after the one that    *)
(* matched can remain: check_stop_strings takes the first of the list, not *)
(* the first of the text.                                                  *)
StopStringEndsText ==
    LET stops == params.stops
        stop == stops[detok.stop]
    IN  /\ detok.stop = 0 =>
              \A i \in 1 .. Len(stops) : ~Occurs(stops[i], allText)
        /\ detok.stop # 0 /\ ~params.include =>
              \A i \in 1 .. detok.stop : ~Occurs(stops[i], detok.text)
        /\ detok.stop # 0 /\ params.include =>
              /\ Len(stop) <= Len(detok.text)
              /\ Find(detok.text, stop, 0) = Len(detok.text) - Len(stop)
=============================================================================
