-------------------------- MODULE MCAlgorithmRegistry --------------------------
(***************************************************************************)
(* Instances of AlgorithmRegistry for TLC.  Card paths are 11, 12 and 13;  *)
(* the keys are their ranks in the order of the map.                       *)
(***************************************************************************)
EXTENDS AlgorithmRegistry, TLC

(***************************************************************************)
(* Packages 11 and 13 are two copies of one algorithm, so that registering *)
(* the second conflicts with the first; every card keeps its identity.     *)
(***************************************************************************)
MCOwnKeys == [p \in Paths |-> IF p = 12 THEN {2} ELSE {1}]

(***************************************************************************)
(* An author may change the identity in any card.                          *)
(***************************************************************************)
MCAnyKeys == [p \in Paths |-> Keys]

(***************************************************************************)
(* Every file the registry can have saved, or only a missing one.          *)
(***************************************************************************)
MCAnyFile == {content \in EntryMap : Coherent(content)}
MCNoFile  == {EmptyMap}
=============================================================================
