------------------------- MODULE MCExecutionCoordinator -------------------------
(***************************************************************************)
(* Instances of ExecutionCoordinator for TLC.  An input or output schema   *)
(* file accepts every payload or, as a broken file does, none.             *)
(***************************************************************************)
EXTENDS ExecutionCoordinator, TLC

MCSymmetry == Permutations(Procs)

MCSchemaFiles ==
    { [in |-> Payloads, out |-> Payloads],
      [in |-> Payloads, out |-> {}],
      [in |-> {}, out |-> Payloads] }

MCRunRequests   == [kind : {"run"}, key : Keys, inputs : Payloads]
MCAgentRequests == [kind : {"agent"}, suited : {Services}, inputs : Payloads]

MCRequests == MCRunRequests \cup MCAgentRequests
=============================================================================
