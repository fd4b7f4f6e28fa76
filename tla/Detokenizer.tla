---------------------------- MODULE Detokenizer ----------------------------
(***************************************************************************)
(* IncrementalDetokenizer (v1/engine/detokenizer.py) with the stop strings *)
(* of StopChecker (engine/output_processor/stop_checker.py): how the text  *)
(* of a request grows, where a stop string ends it, and which part of it   *)
(* may be shown while a stop string may still be on its way.               *)
(*                                                                         *)
(* A text is a sequence of characters.  A new token adds a piece of text,  *)
(* of none, one or several characters (detokenize_incrementally, external).*)
(* A detokenizer is the record of its output_text, its token_ids, its      *)
(* _last_output_text_offset, and the stop string that matched last.        *)
(***************************************************************************)
EXTENDS Integers, Sequences

\* The text s is a beginning of the text t.
Begins(s, t) == \E n \in 0 .. Len(t) : s = SubSeq(t, 1, n)

\* str.find from position `from` on, -1 when there is no occurrence.
Find(text, part, from) ==
    LET at == {k \in from .. Len(text) - Len(part) :
                  SubSeq(text, k + 1, k + Len(part)) = part}
    IN  IF at = {} THEN -1 ELSE CHOOSE k \in at : \A j \in at : k <= j

\* check_stop_strings: NoStop, or the place in `stops` of the string that
\* matched and the length to truncate to (-1: no truncation).
NoStop == [index |-> 0, truncateTo |-> -1]

\* Faulty: only the new text is searched.
SearchFrom_New(text, newChars, stop) == Len(text) - newChars

\* "Avoid searching already-searched text."
SearchFrom(text, newChars, stop) ==
    IF newChars + Len(stop) > Len(text) THEN 0
    ELSE Len(text) - newChars - Len(stop)

CheckStopStrings(text, newChars, stops, include) ==
    LET Place(i) == Find(text, stops[i], SearchFrom(text, newChars, stops[i]))
        found == {i \in 1 .. Len(stops) : Place(i) # -1}
        first == CHOOSE i \in found : \A j \in found : i <= j
        end == Place(first) + Len(stops[first])
    IN  IF newChars = 0 \/ found = {} THEN NoStop
        ELSE [index |-> first,
              truncateTo |-> IF ~include THEN Place(first)
                             ELSE IF end >= Len(text) THEN -1 ELSE end]

NewDetokenizer == [text |-> <<>>, tokens |-> <<>>, offset |-> 0, stop |-> 0]

\* Faulty: the first stop string counts, not the longest.
StopBufferLength_First(stops, include) ==
    IF stops # <<>> /\ ~include THEN Len(stops[1]) - 1 ELSE 0

\* stop_buffer_length: the characters to hold back.
StopBufferLength(stops, include) ==
    IF stops # <<>> /\ ~include
    THEN (CHOOSE n \in {Len(stops[i]) : i \in 1 .. Len(stops)} :
              \A i \in 1 .. Len(stops) : n >= Len(stops[i])) - 1
    ELSE 0

\* _get_next_output_text: the text to return and the new offset.
NextOutputText(d, buffer, delta) ==
    LET length == Len(d.text) - buffer
    IN  IF ~delta THEN [text |-> SubSeq(d.text, 1, length), offset |-> d.offset]
        ELSE IF d.offset < length
        THEN [text |-> SubSeq(d.text, d.offset + 1, length), offset |-> length]
        ELSE [text |-> <<>>, offset |-> d.offset]

\* update_from_output for one new token, whose text is `piece`.  First the
\* detokenization and the stop criteria; `stop` is the place of the stop
\* string found, 0 if none.
Detokenized(d, token, piece, params) ==
    LET text == d.text \o piece
        stop == CheckStopStrings(text, Len(piece), params.stops, params.include)
    IN  [text |-> IF stop.truncateTo = -1 THEN text
                  ELSE SubSeq(text, 1, stop.truncateTo),
         tokens |-> Append(d.tokens, token),
         offset |-> d.offset,
         stop |-> stop.index]

\* Then the DetokenizerOutput, and the detokenizer after it.  hasOutput is
\* FALSE where the method returns None.
DetokenizerOutput(d, engineFinished, params) ==
    LET finished == engineFinished \/ d.stop # 0
        delta == params.kind = "DELTA"
        buffer == IF finished THEN 0
                  ELSE StopBufferLength(params.stops, params.include)
        next == NextOutputText(d, buffer, delta)
        hasOutput == params.kind # "FINAL_ONLY" \/ finished
    IN  [detokenizer |-> IF hasOutput THEN [d EXCEPT !.offset = next.offset]
                         ELSE d,
         hasOutput |-> hasOutput,
         text |-> next.text,
         tokens |-> IF delta THEN <<d.tokens[Len(d.tokens)]>> ELSE d.tokens,
         finished |-> finished]
=============================================================================
