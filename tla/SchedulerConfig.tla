-------------------------- MODULE SchedulerConfig --------------------------
(***************************************************************************)
(* The settings that the decoder's and the encoder's scheduler share       *)
(* (SchedulerConfig, and compute_encoder_budget of                         *)
(* vllm/v1/core/encoder_cache_manager.py).                                 *)
(***************************************************************************)
EXTENDS Request

CONSTANTS
    MaxNumScheduledTokens,    \* max_num_batched_tokens
    MaxNumRunningReqs,        \* max_num_seqs
    EncoderInputTokensConfig, \* max_num_encoder_input_tokens
    EncoderCacheSizeConfig,   \* encoder_cache_size
    MaxTokensPerMMItem        \* the largest item of any modality

\* The compute budget and the size of the encoder cache are raised so that
\* the largest item fits.
MaxNumEncoderInputTokens == AtLeast(EncoderInputTokensConfig, MaxTokensPerMMItem)

EncoderCacheSize == AtLeast(EncoderCacheSizeConfig, MaxTokensPerMMItem)

ASSUME ConfigAssumption ==
    /\ MaxNumScheduledTokens \in Nat \ {0}
    /\ MaxNumRunningReqs \in Nat \ {0}
    /\ EncoderInputTokensConfig \in Nat
    /\ EncoderCacheSizeConfig \in Nat
    /\ MaxTokensPerMMItem \in Nat
    /\ \A r \in Requests : \A i \in Inputs(r) :
            NumEncoderTokens(r, i) <= MaxTokensPerMMItem

============================================================================
