------------------------------ MODULE Request ------------------------------
(***************************************************************************)
(* The data of a Request (vllm/v1/request.py) that never changes once the  *)
(* request exists: its prompt, its multi-modal inputs and its limits.  The *)
(* mutable fields (status, num_computed_tokens, the token list) belong to  *)
(* the process that owns the object and are variables of its scheduler.    *)
(*                                                                         *)
(* AllTokenIds[r] is the whole text the request would have if it ran to    *)
(* its limits: the prompt followed by the tokens the model generates for   *)
(* it.  A request that holds n tokens holds the first n of them.           *)
(***************************************************************************)
EXTENDS Integers, Sequences, FiniteSets

CONSTANTS
    Requests,         \* request ids
    AllTokenIds,      \* [Requests -> Seq(token)]
    NumPromptTokens,  \* [Requests -> Nat], num_prompt_tokens
    MaxTokens,        \* [Requests -> Nat], sampling_params.max_tokens
    MMPositions,      \* [Requests -> Seq([offset, length])], mm_positions
    MaxModelLen       \* max_model_len

\* Statuses.  "NEW" is a request the engine has not been given, "FINISHED"
\* stands for the four FINISHED_* values, which nothing here tells apart.
Status == {"NEW", "WAITING", "RUNNING", "PREEMPTED", "FINISHED"}

AtLeast(n, m) == IF n >= m THEN n ELSE m

AtMost(n, m) == IF n <= m THEN n ELSE m

\* Input ids count from 1, token positions from 0.
Inputs(r) == DOMAIN MMPositions[r]

Start(r, i) == MMPositions[r][i].offset

\* Request.get_num_encoder_tokens
NumEncoderTokens(r, i) == MMPositions[r][i].length

End(r, i) == Start(r, i) + NumEncoderTokens(r, i)

\* Input i is needed to compute the n tokens that follow the first c.
Overlaps(r, i, c, n) == Start(r, i) < c + n /\ End(r, i) > c

\* What Processor._validate_model_inputs and the multi-modal processor
\* guarantee: a non-empty prompt shorter than the model length, inputs in
\* order, disjoint and inside the prompt, at least one token to generate.
ASSUME RequestAssumption ==
    /\ IsFiniteSet(Requests)
    /\ MaxModelLen \in Nat
    /\ NumPromptTokens \in [Requests -> Nat \ {0}]
    /\ MaxTokens \in [Requests -> Nat \ {0}]
    /\ \A r \in Requests :
        /\ NumPromptTokens[r] < MaxModelLen
        /\ MMPositions[r] \in Seq([offset : Nat, length : Nat \ {0}])
        /\ \A i \in Inputs(r) : End(r, i) <= NumPromptTokens[r]
        /\ \A i, j \in Inputs(r) : i < j => End(r, i) <= Start(r, j)

============================================================================
