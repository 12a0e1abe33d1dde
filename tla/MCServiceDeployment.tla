-------------------------- MODULE MCServiceDeployment --------------------------
(***************************************************************************)
(* ServiceDeployment for TLC: the service of key 1, whose package is at    *)
(* path 11 or was once registered at path 12; key 2 is what a damaged      *)
(* version makes of key 1, key 3 is an ONNX algorithm.                     *)
(***************************************************************************)
EXTENDS ServiceDeployment, TLC

MCMisread == [k \in Keys |-> IF k = 1 THEN 2 ELSE k]

MCCommands ==
    { [op |-> "register-activate", path |-> 11, url |-> NotHttp],
      [op |-> "configure-service", path |-> 11, url |-> "u2"],
      [op |-> "bootstrap-service", path |-> 11, url |-> NotHttp],
      [op |-> "bootstrap-service", path |-> 11, url |-> "u2"] }

Plain == [key |-> 1, url |-> "u1", loose |-> FALSE, complete |-> TRUE, constraints |-> "some"]

MCAuthorTexts ==
    (11 :> { Plain, [Plain EXCEPT !.constraints = "void"],
             [Plain EXCEPT !.loose = TRUE], [Plain EXCEPT !.complete = FALSE],
             [Plain EXCEPT !.key = 3], NoCard })
    @@ (12 :> { Plain })

MCRegistries ==
    LET at(path, status) ==
            [EmptyMap EXCEPT ![1] = BuildEntry([key |-> 1, rev |-> "u1"], path, status)]
    IN  { EmptyMap, at(11, "active"), at(11, "deleted"), at(12, "draft") }

Symmetry == Permutations(Procs)
=============================================================================
