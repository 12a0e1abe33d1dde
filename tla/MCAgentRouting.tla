----------------------------- MODULE MCAgentRouting -----------------------------
(***************************************************************************)
(* An instance of AgentRouting for TLC: a service like those under         *)
(* examples/ and cards that differ from it in the few fields that decide,  *)
(* so that every filter rejects, and every comparison ties, for some three *)
(* of them.                                                                *)
(***************************************************************************)
EXTENDS AgentRouting

Base ==
    [status |-> "active", backend_type |-> "python_http_service",
     task_family |-> "summary", capabilities |-> <<"summarize", "explain">>,
     modalities |-> <<"text">>,
     summary |-> {"summary", "explain"}, when_to_use |-> {"summarize"},
     when_not_to_use |-> {"translate"},
     max_input_chars |-> 200, max_request_bytes |-> Undeclared,
     latency_ms_p50 |-> 300, latency_ms_p95 |-> 900, primary_score |-> 90,
     risk_level |-> "low", requires_human_review |-> FALSE,
     hardware |-> TRUE, requires_gpu |-> FALSE, preferred_device |-> "cpu",
     min_gpu_memory_mb |-> Undeclared, min_system_memory_mb |-> 512,
     min_cpu_cores |-> Undeclared,
     example_chars |-> 120, example_bytes |-> 150]

MCCards ==
    { Base,
      [Base EXCEPT !.status = "disabled"],
      [Base EXCEPT !.backend_type = "onnx"],
      [Base EXCEPT !.latency_ms_p95 = 1600],
      [Base EXCEPT !.latency_ms_p95 = 3000],
      [Base EXCEPT !.latency_ms_p95 = Undeclared],
      [Base EXCEPT !.latency_ms_p95 = Undeclared, !.latency_ms_p50 = Undeclared],
      [Base EXCEPT !.risk_level = "high"],
      [Base EXCEPT !.risk_level = "critical"],
      [Base EXCEPT !.risk_level = ""],
      [Base EXCEPT !.risk_level = "medium", !.latency_ms_p95 = 700],
      [Base EXCEPT !.requires_human_review = TRUE, !.risk_level = "high"],
      [Base EXCEPT !.requires_gpu = TRUE, !.min_gpu_memory_mb = 8000],
      [Base EXCEPT !.capabilities = <<"summarize">>, !.primary_score = 120] }

Ask ==
    [task_family |-> "summary", required_capabilities |-> <<"summarize">>,
     preferred_capabilities |-> <<"explain">>, input_modalities |-> <<"text">>,
     intent_keywords |-> <<"summary", "translate">>,
     input_chars |-> 100, request_bytes |-> 100, max_latency_ms |-> 0,
     allow_human_review |-> TRUE, max_risk_level |-> "",
     has_gpu |-> FALSE, available_gpu_memory_mb |-> 0,
     available_system_memory_mb |-> 1024, available_cpu_cores |-> 2,
     preferred_device |-> "cpu"]

MCConditions ==
    { Ask,
      [Ask EXCEPT !.max_latency_ms = 900],
      [Ask EXCEPT !.max_risk_level = "medium"],
      [Ask EXCEPT !.has_gpu = TRUE, !.available_gpu_memory_mb = 4000],
      [Ask EXCEPT !.has_gpu = TRUE, !.available_gpu_memory_mb = 8000,
                  !.preferred_device = "gpu"],
      [Ask EXCEPT !.allow_human_review = FALSE, !.required_capabilities = <<"explain">>,
                  !.available_system_memory_mb = 0] }
=============================================================================
