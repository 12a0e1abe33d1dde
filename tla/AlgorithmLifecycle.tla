--------------------------- MODULE AlgorithmLifecycle ---------------------------
(***************************************************************************)
(* What the registry promises about an algorithm key, seen from outside:   *)
(* the life a key leads in the durable registry, whatever happens in       *)
(* memory, on the disk or in another process.                              *)
(*                                                                         *)
(* The edges are those of the guards in src/registry/                      *)
(* algorithm_registry.cpp (EnsureActivatable, EnsureDisableable,           *)
(* EnsureValidatable, EnsureDeletable) and of Register.  "deleted" is the  *)
(* logical delete: nothing leads out of it, and a key that is known never  *)
(* becomes unknown again (there is no purge in this code).                 *)
(***************************************************************************)
CONSTANT Keys     \* algorithm_id + version + backend_type, one value each

VARIABLE life     \* life[k]: the status the durable registry gives to k

LifeStatus ==
    {"absent", "draft", "validated", "active", "disabled", "deleted"}

(***************************************************************************)
(* The statuses one operation can give to a key of each status: Register,  *)
(* Validate (which lifts only a draft), Activate, Disable and Delete.      *)
(***************************************************************************)
OneStep == [
    absent    |-> {"validated"},
    draft     |-> {"validated", "deleted"},
    validated |-> {"active", "disabled", "deleted"},
    active    |-> {"disabled", "deleted"},
    disabled  |-> {"active", "deleted"},
    deleted   |-> {} ]

(***************************************************************************)
(* The statuses several operations in a row can lead to (the transitive    *)
(* closure of OneStep): what a save can publish when operations before it  *)
(* changed the map in memory but failed to be saved.                       *)
(***************************************************************************)
Later == [
    absent    |-> {"validated", "active", "disabled", "deleted"},
    draft     |-> {"validated", "active", "disabled", "deleted"},
    validated |-> {"active", "disabled", "deleted"},
    active    |-> {"disabled", "deleted"},
    disabled  |-> {"active", "deleted"},
    deleted   |-> {} ]

Init == life \in [Keys -> LifeStatus]

(***************************************************************************)
(* A save that publishes one operation on one key.                         *)
(***************************************************************************)
Change(k) ==
    \E s \in OneStep[life[k]] : life' = [life EXCEPT ![k] = s]

(***************************************************************************)
(* A save that publishes what is pending in memory: any set of keys moves, *)
(* each of them forward.                                                   *)
(***************************************************************************)
Publish ==
    /\ life' \in [Keys -> LifeStatus]
    /\ \A k \in Keys : life'[k] = life[k] \/ life'[k] \in Later[life[k]]

Spec == Init /\ [][Publish]_life
=============================================================================
