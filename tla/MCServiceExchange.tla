--------------------------- MODULE MCServiceExchange ---------------------------
(***************************************************************************)
(* ServiceExchange as the runner and as the validator use it.              *)
(***************************************************************************)
EXTENDS ServiceExchange

MCRunner    == <<"/health", "/predict">>
MCValidator == <<"/health", "/metadata", "/predict">>

MCConversations == {MCRunner, MCValidator}
MCRunnerOnly    == {MCRunner}
=============================================================================
