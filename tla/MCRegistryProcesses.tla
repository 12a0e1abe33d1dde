-------------------------- MODULE MCRegistryProcesses --------------------------
(***************************************************************************)
(* Instances of RegistryProcesses for TLC: two algorithms, the package of  *)
(* key 1 at path 11 and that of key 2 at path 12.                          *)
(***************************************************************************)
EXTENDS RegistryProcesses, TLC

MCCardAt == (11 :> [key |-> 1, rev |-> 1]) @@ (12 :> [key |-> 2, rev |-> 1])

MCAllCommands == AllCommands

(***************************************************************************)
(* Enough to lose an update of one key in a save of the other, and to      *)
(* bring back a deleted key.                                               *)
(***************************************************************************)
MCOverlappingCommands ==
    { [op |-> "register-activate", path |-> 11],
      [op |-> "delete", key |-> 1],
      [op |-> "disable", key |-> 1],
      [op |-> "register", path |-> 12] }

MCNoFile == {EmptyMap}

(***************************************************************************)
(* A registry written by hand, with a draft in it, or a missing one.       *)
(***************************************************************************)
MCDraftOrNoFile ==
    { EmptyMap,
      [EmptyMap EXCEPT ![2] = BuildEntry(MCCardAt[12], 12, "draft")] }
=============================================================================
