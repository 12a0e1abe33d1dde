--------------------------- MODULE AlgorithmRegistry ---------------------------
(***************************************************************************)
(* One AlgorithmRegistry object (src/registry/algorithm_registry.cpp), its *)
(* registry file, and the card files of the packages, which their authors  *)
(* edit at any time.                                                       *)
(*                                                                         *)
(* Every operation is one action: it finds the entry, checks its guard,    *)
(* validates the package where it does, changes the map in place and only  *)
(* then saves the map.  A save can fail to open the file, which it reports *)
(* without undoing the change, and it can fail to write it, which nobody   *)
(* notices: WriteTextFile answers Ok without looking at the stream, and    *)
(* the truncated file cannot be read again until a later save succeeds.    *)
(* RegistryProcesses takes the save apart into its steps.                  *)
(***************************************************************************)
EXTENDS RegistryEntries

CONSTANTS
    CardKeys,      \* CardKeys[p]: the identities the card at p may carry
    InitialFiles,  \* the registry files an earlier session may have left
    OpenMayFail,   \* whether opening the registry file for writing may fail
    WriteMayFail   \* whether a write to the opened file may fall short

(***************************************************************************)
(* A map whose entries carry the key they are filed under, each from a     *)
(* package that may carry that identity.                                   *)
(***************************************************************************)
Coherent(map) ==
    \A k \in Keys : Known(map, k) =>
        map[k].key = k /\ k \in CardKeys[map[k].path]

ASSUME CardKeysAssumption == CardKeys \in [Paths -> SUBSET Keys]
ASSUME InitialFilesAssumption ==
    \A content \in InitialFiles : content \in EntryMap /\ Coherent(content)
ASSUME FailuresAssumption == OpenMayFail \in BOOLEAN /\ WriteMayFail \in BOOLEAN

VARIABLES
    entries,  \* the map in memory
    file,     \* the map the registry file held when it was last whole
    readable, \* whether it is whole still: a write that falls short ends that
    cards,    \* the card file of each package
    reply     \* the status code of the last operation

vars == <<entries, file, readable, cards, reply>>

Codes == {"Ok", "InvalidPackage", "AlgorithmNotFound", "RegistryConflict",
          "StatusTransitionInvalid", "IoError"}

(***************************************************************************)
(* What can stand in the card file at p.                                   *)
(***************************************************************************)
CardsAt(p) == {NoCard} \cup [key : CardKeys[p], rev : Revisions]

(***************************************************************************)
(* A registry object just constructed and loaded from the file an earlier  *)
(* session left; a missing file loads as the empty map.                    *)
(***************************************************************************)
Init ==
    /\ file \in InitialFiles
    /\ entries = file
    /\ readable = TRUE
    /\ cards \in [Paths -> Card \cup {NoCard}]
    /\ \A p \in Paths : cards[p] \in CardsAt(p)
    /\ reply = "Ok"

Refuse(code) ==
    /\ reply' = code
    /\ UNCHANGED <<entries, file, readable, cards>>

(***************************************************************************)
(* ValidateFromPath can reject any package: a golden case, a schema or the *)
(* service behind it may be broken.  It can accept only a readable card.   *)
(***************************************************************************)
Accepted(p) == cards[p] # NoCard

(***************************************************************************)
(* The tail of every mutating operation: the map already holds the change  *)
(* when the file is written.                                               *)
(***************************************************************************)
SaveDone(updated) == file' = updated /\ readable' = TRUE /\ reply' = "Ok"

OpenFailed ==
    OpenMayFail /\ UNCHANGED <<file, readable>> /\ reply' = "IoError"

WriteFailed ==
    WriteMayFail /\ UNCHANGED file /\ readable' = FALSE /\ reply' = "Ok"

PersistIfChanged(updated) ==
    /\ entries' = updated
    /\ IF updated = entries
       THEN reply' = "Ok" /\ UNCHANGED <<file, readable>>
       ELSE SaveDone(updated) \/ OpenFailed \/ WriteFailed
    /\ UNCHANGED cards

Persist(updated) ==
    /\ entries' = updated
    /\ SaveDone(updated) \/ OpenFailed \/ WriteFailed
    /\ UNCHANGED cards

RegisterOverwriting(p) ==
    \/ Refuse("InvalidPackage")
    \/ Accepted(p) /\ Persist(Registered(entries, cards[p], p))

Register(p) ==
    \/ Refuse("InvalidPackage")
    \/ /\ Accepted(p)
       /\ Known(entries, cards[p].key)
       /\ Refuse("RegistryConflict")
    \/ /\ Accepted(p)
       /\ ~Known(entries, cards[p].key)
       /\ Persist(Registered(entries, cards[p], p))

Validate(k) ==
    \/ ~Known(entries, k) /\ Refuse("AlgorithmNotFound")
    \/ /\ Known(entries, k)
       /\ ~Validatable(entries[k].status)
       /\ Refuse("StatusTransitionInvalid")
    \/ /\ Known(entries, k)
       /\ Validatable(entries[k].status)
       /\ \/ Refuse("InvalidPackage")
          \/ /\ Accepted(entries[k].path)
             /\ Persist(Revalidated(entries, k, cards[entries[k].path]))

(***************************************************************************)
(* Activate, Disable and Delete differ in their guard and target status.   *)
(***************************************************************************)
Transition(k, Guard(_), target) ==
    \/ ~Known(entries, k) /\ Refuse("AlgorithmNotFound")
    \/ /\ Known(entries, k)
       /\ ~Guard(entries[k].status)
       /\ Refuse("StatusTransitionInvalid")
    \/ /\ Known(entries, k)
       /\ Guard(entries[k].status)
       /\ Persist(WithStatus(entries, k, target))

Activate(k) == Transition(k, Activatable, "active")
Disable(k)  == Transition(k, Disableable, "disabled")

DeleteUnknownStatus(k) ==
    \/ ~Known(entries, k) /\ Refuse("AlgorithmNotFound")
    \/ Known(entries, k) /\ Persist(WithStatus(entries, k, "removed"))

Delete(k) ==
    \/ ~Known(entries, k) /\ Refuse("AlgorithmNotFound")
    \/ Known(entries, k) /\ Persist(WithStatus(entries, k, "deleted"))

(***************************************************************************)
(* Reload, in this object or as the first thing the next process does.     *)
(* One that cannot read the file leaves an empty map and ends the process, *)
(* which main does with every error of a load: no process serves that map. *)
(***************************************************************************)
Reload ==
    /\ readable
    /\ entries' = Loaded(file)
    /\ reply' = "Ok"
    /\ UNCHANGED <<file, readable, cards>>

(***************************************************************************)
(* The environment: a package's card is edited, added or removed.          *)
(***************************************************************************)
EditCard(p) ==
    /\ \E card \in CardsAt(p) : cards' = [cards EXCEPT ![p] = card]
    /\ UNCHANGED <<entries, file, readable, reply>>

Next ==
    \/ \E p \in Paths : Register(p) \/ EditCard(p)
    \/ \E k \in Keys : Validate(k) \/ Activate(k) \/ Disable(k) \/ Delete(k)
    \/ Reload

Spec == Init /\ [][Next]_vars
-----------------------------------------------------------------------------
(***************************************************************************)
(* Types of the variables.                                                 *)
(***************************************************************************)
TypeOK ==
    /\ entries \in EntryMap
    /\ file \in EntryMap
    /\ readable \in BOOLEAN
    /\ cards \in [Paths -> Card \cup {NoCard}]
    /\ reply \in Codes

(***************************************************************************)
(* What the next process will find, if the file can be read at all.        *)
(***************************************************************************)
Durable == Loaded(file)

(***************************************************************************)
(* All that an Ok is worth.  After an operation that answered Ok, alone or *)
(* after operations whose saves failed, the file is exactly the map this   *)
(* object serves, or it cannot be read: its write fell short unnoticed.    *)
(* It is never the registry of an earlier time, in which the next process  *)
(* would start as if the operation had not been asked for.                 *)
(***************************************************************************)
AcknowledgedIsNotStale == reply = "Ok" /\ readable => Durable = entries

Lifecycle == INSTANCE AlgorithmLifecycle WITH life <- LifeOf(Durable)

(***************************************************************************)
(* Memory is never behind the disk: whatever saves failed and whenever the *)
(* registry was reloaded, each key in memory has the status the disk gives *)
(* it or a later one, so that a key deleted on disk is deleted here and    *)
(* cannot be activated or run.                                             *)
(***************************************************************************)
MemoryIsNotBehind ==
    \A k \in Keys :
        \/ LifeOf(entries)[k] = LifeOf(Durable)[k]
        \/ LifeOf(entries)[k] \in Lifecycle!Later[LifeOf(Durable)[k]]

(***************************************************************************)
(* Refinement: the durable registry leads every key through the lifecycle, *)
(* forward only, also when a save publishes changes of operations before   *)
(* it that failed.                                                         *)
(***************************************************************************)
DurableLifecycle == Lifecycle!Spec

(***************************************************************************)
(* More than the refinement says: a save made while nothing is pending,    *)
(* because memory and disk agree, moves at most one key, along one edge of *)
(* the lifecycle.  Only failed saves make an operation publish more.       *)
(***************************************************************************)
NothingPendingOneEdge ==
    [][entries = Durable =>
        \/ \E k \in Keys : Lifecycle!Change(k)
        \/ LifeOf(Durable)' = LifeOf(Durable)]_vars

(***************************************************************************)
(* What docs/CONCURRENCY_DESIGN_AND_TEST_REPORT.md says of a failed save:  *)
(* memory is not switched when the disk was not.                           *)
(***************************************************************************)
FailedSaveKeepsEntries ==
    [][reply' = "IoError" => entries' = entries]_vars

=============================================================================
