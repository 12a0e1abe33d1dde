---------------------------- MODULE RegistryEntries ----------------------------
(***************************************************************************)
(* The data of the algorithm registry and the operations on it that touch  *)
(* no file: the std::map<AlgorithmKey, AlgorithmEntry> of                  *)
(* src/registry/algorithm_registry.cpp, what each operation makes of it,   *)
(* and what a save followed by a load makes of it                          *)
(* (src/registry/registry_store.cpp).                                      *)
(*                                                                         *)
(* AlgorithmRegistry composes these with one process's memory and disk,    *)
(* RegistryProcesses with many command-line processes on one file.         *)
(***************************************************************************)
EXTENDS Naturals

CONSTANTS
    Keys,       \* algorithm keys, as their ranks in operator< of AlgorithmKey
    Paths,      \* card paths of the packages
    Revisions,  \* what a card can say apart from its identity
    NoEntry,    \* the map has no entry for a key
    NoCard      \* a card file that is missing, or fails its own validation

Status == {"draft", "validated", "active", "disabled", "deleted"}

Card  == [key : Keys, rev : Revisions]
Entry == [key : Keys, status : Status, path : Paths, rev : Revisions]

EntryMap == [Keys -> Entry \cup {NoEntry}]

ASSUME KeysAssumption == Keys \subseteq Nat
ASSUME NoEntryAssumption == NoEntry \notin Entry
ASSUME NoCardAssumption == NoCard \notin Card

EmptyMap == [k \in Keys |-> NoEntry]

Known(entries, k) == entries[k] # NoEntry

(***************************************************************************)
(* The guards of the lifecycle operations.  EnsureDeletable accepts every  *)
(* status.                                                                 *)
(***************************************************************************)
Activatable(s) == s \in {"validated", "disabled", "active"}

DisableableAlways(s) == TRUE
Disableable(s) == s \in {"validated", "active", "disabled"}

Validatable(s) == s # "deleted"

(***************************************************************************)
(* An entry built from a validated card takes its key from that card.      *)
(***************************************************************************)
BuildEntry(card, path, status) ==
    [key |-> card.key, status |-> status, path |-> path, rev |-> card.rev]

RegisteredAsActive(entries, card, path) ==
    [entries EXCEPT ![card.key] = BuildEntry(card, path, "active")]
Registered(entries, card, path) ==
    [entries EXCEPT ![card.key] = BuildEntry(card, path, "validated")]

(***************************************************************************)
(* Validate overwrites the entry in place, under the map key it was found  *)
(* by, with what the card at its card_path says now.                       *)
(***************************************************************************)
RevalidatedAsNew(entries, k, card) ==
    [entries EXCEPT ![k] = BuildEntry(card, @.path, "validated")]
Revalidated(entries, k, card) ==
    [entries EXCEPT ![k] =
        BuildEntry(card, @.path,
                   IF @.status = "draft" THEN "validated" ELSE @.status)]

WithStatus(entries, k, s) == [entries EXCEPT ![k].status = s]

(***************************************************************************)
(* Save writes the entries in the order of the map's keys; Load clears the *)
(* map and inserts each under the key the entry itself carries, so that of *)
(* two entries with one key the later wins.  A file is represented by the  *)
(* map that was saved to it.                                               *)
(***************************************************************************)
SavedFor(content, k) == {j \in Keys : Known(content, j) /\ content[j].key = k}

Loaded(content) ==
    [k \in Keys |->
        IF SavedFor(content, k) = {} THEN NoEntry
        ELSE content[CHOOSE j \in SavedFor(content, k) :
                        \A i \in SavedFor(content, k) : i <= j]]

(***************************************************************************)
(* The life of each key in a map, for AlgorithmLifecycle.                  *)
(***************************************************************************)
LifeOf(entries) ==
    [k \in Keys |-> IF Known(entries, k) THEN entries[k].status ELSE "absent"]
=============================================================================
