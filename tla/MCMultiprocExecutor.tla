------------------------ MODULE MCMultiprocExecutor ------------------------
(* The executor and its workers for TLC. *)
EXTENDS MultiprocExecutor

CONSTANTS req1, req2, req3

=============================================================================
