------------------------- MODULE RegistryEntriesProofs -------------------------
(***************************************************************************)
(* Facts about the map of the registry and its operations                  *)
(* (RegistryEntries), for AlgorithmRegistryProofs and                      *)
(* RegistryProcessesProofs: the maps are well-typed, a saved map is loaded *)
(* as it was, and an operation moves one key along one edge of the         *)
(* lifecycle, which leads forward.                                         *)
(***************************************************************************)
EXTENDS RegistryEntries, TLAPS

(***************************************************************************)
(* What the operations on the map return.                                  *)
(***************************************************************************)
LEMMA BuildEntryType ==
    ASSUME NEW card \in Card, NEW path \in Paths, NEW status \in Status
    PROVE  BuildEntry(card, path, status) \in Entry
  BY DEF BuildEntry, Card, Entry

(***************************************************************************)
(* Register (algorithm_registry.cpp) adds an entry and leaves a well-typed *)
(* map.                                                                    *)
(***************************************************************************)
LEMMA RegisteredType ==
    ASSUME NEW map \in EntryMap, NEW card \in Card, NEW path \in Paths
    PROVE  Registered(map, card, path) \in EntryMap
  BY BuildEntryType DEF Registered, EntryMap, Status

(***************************************************************************)
(* Validate overwrites an entry it found, and leaves a well-typed map.     *)
(***************************************************************************)
LEMMA RevalidatedType ==
    ASSUME NEW map \in EntryMap, NEW k \in Keys, Known(map, k), NEW card \in Card
    PROVE  Revalidated(map, k, card) \in EntryMap
  <1>1. map[k] \in Entry
    BY DEF Known, EntryMap
  <1>2. map[k].path \in Paths /\ map[k].status \in Status
    BY <1>1 DEF Entry
  <1>3. (IF map[k].status = "draft" THEN "validated" ELSE map[k].status) \in Status
    BY <1>2 DEF Status
  <1> QED
    BY <1>2, <1>3, BuildEntryType DEF Revalidated, EntryMap

(***************************************************************************)
(* Activate, Disable and Delete change one status, and leave a well-typed  *)
(* map.                                                                    *)
(***************************************************************************)
LEMMA WithStatusType ==
    ASSUME NEW map \in EntryMap, NEW k \in Keys, Known(map, k), NEW s \in Status
    PROVE  WithStatus(map, k, s) \in EntryMap
  <1>1. map[k] \in Entry
    BY DEF Known, EntryMap
  <1>2. [map[k] EXCEPT !.status = s] \in Entry
    BY <1>1 DEF Entry
  <1> QED
    BY <1>2 DEF WithStatus, EntryMap

(***************************************************************************)
(* A saved map is found again by Load when its entries are filed under the *)
(* keys they carry.                                                        *)
(***************************************************************************)
LEMMA LoadedIsSaved ==
    ASSUME NEW map \in EntryMap,
           \A k \in Keys : Known(map, k) => map[k].key = k
    PROVE  Loaded(map) = map
  <1>1. ASSUME NEW k \in Keys, ~Known(map, k)
        PROVE  Loaded(map)[k] = map[k]
    BY <1>1 DEF Loaded, SavedFor, Known
  <1>2. ASSUME NEW k \in Keys, Known(map, k)
        PROVE  Loaded(map)[k] = map[k]
    <2>1. SavedFor(map, k) = {k}
      BY <1>2 DEF SavedFor, Known
    <2>2. k <= k
      BY KeysAssumption
    <2>3. (CHOOSE j \in SavedFor(map, k) :
             \A i \in SavedFor(map, k) : i <= j) = k
      BY <2>1, <2>2
    <2> QED
      BY <2>1, <2>3 DEF Loaded
  <1> QED
    BY <1>1, <1>2 DEF Loaded, EntryMap

(***************************************************************************)
(* The edges of the lifecycle, which do not depend on any registry.        *)
(***************************************************************************)
Lives == INSTANCE AlgorithmLifecycle WITH life <- LifeOf(EmptyMap)

(***************************************************************************)
(* The order of the lifecycle: one map ahead of another, key by key.       *)
(***************************************************************************)
LifeStatus == Lives!LifeStatus

NotBehind(s, t) == s = t \/ s \in Lives!Later[t]

Ahead(map, base) == \A k \in Keys : NotBehind(LifeOf(map)[k], LifeOf(base)[k])

(***************************************************************************)
(* A status reached from a status reached from a third is reached from the *)
(* third: Later is closed.                                                 *)
(***************************************************************************)
LEMMA NotBehindTransitive ==
    ASSUME NEW s \in LifeStatus, NEW t \in LifeStatus, NEW u \in LifeStatus,
           NotBehind(s, t), NotBehind(t, u)
    PROVE  NotBehind(s, u)
  BY DEF NotBehind, LifeStatus, Lives!LifeStatus, Lives!Later

(***************************************************************************)
(* The lives of the keys of a map have the statuses of AlgorithmLifecycle. *)
(***************************************************************************)
LEMMA LifeOfType ==
    ASSUME NEW map \in EntryMap
    PROVE  LifeOf(map) \in [Keys -> LifeStatus]
  <1>1. \A k \in Keys : Known(map, k) => map[k].status \in Status
    BY DEF EntryMap, Known, Entry
  <1> QED
    BY <1>1 DEF LifeOf, LifeStatus, Lives!LifeStatus, Status

(***************************************************************************)
(* A map ahead of a map ahead of a third is ahead of the third.            *)
(***************************************************************************)
LEMMA AheadTransitive ==
    ASSUME NEW a \in EntryMap, NEW b \in EntryMap, NEW c \in EntryMap,
           Ahead(a, b), Ahead(b, c)
    PROVE  Ahead(a, c)
  BY NotBehindTransitive, LifeOfType DEF Ahead

(***************************************************************************)
(* One map is another with one key moved along one edge, or not moved.     *)
(***************************************************************************)
Edge(s, t) == s = t \/ s \in Lives!OneStep[t]

OneEdge(map, base) ==
    \E k \in Keys :
        /\ Edge(LifeOf(map)[k], LifeOf(base)[k])
        /\ \A j \in Keys \ {k} : LifeOf(map)[j] = LifeOf(base)[j]

(***************************************************************************)
(* Every edge of the lifecycle leads forward.                              *)
(***************************************************************************)
LEMMA OneEdgeIsAhead ==
    ASSUME NEW map \in EntryMap, NEW base \in EntryMap, OneEdge(map, base)
    PROVE  Ahead(map, base)
  <1>1. \A s, t \in LifeStatus : Edge(s, t) => NotBehind(s, t)
    BY DEF Edge, NotBehind, LifeStatus, Lives!LifeStatus,
           Lives!OneStep, Lives!Later
  <1>2. /\ \A k \in Keys : LifeOf(map)[k] \in LifeStatus
        /\ \A k \in Keys : LifeOf(base)[k] \in LifeStatus
    BY LifeOfType
  <1> QED
    BY <1>1, <1>2 DEF OneEdge, Ahead, NotBehind

(***************************************************************************)
(* A map that differs from another in one entry: Touched at k.             *)
(***************************************************************************)
Touched(map, base, k) ==
    /\ Known(map, k)
    /\ \A j \in Keys \ {k} : map[j] = base[j]

(***************************************************************************)
(* An entry moved along an edge moves its key along that edge.             *)
(***************************************************************************)
LEMMA TouchedOneEdge ==
    ASSUME NEW map \in EntryMap, NEW base \in EntryMap, NEW k \in Keys,
           Touched(map, base, k), Edge(map[k].status, LifeOf(base)[k])
    PROVE  OneEdge(map, base)
  <1>1. LifeOf(map)[k] = map[k].status
    BY DEF LifeOf, Touched
  <1>2. \A j \in Keys \ {k} : LifeOf(map)[j] = LifeOf(base)[j]
    BY DEF LifeOf, Touched, Known
  <1> QED
    BY <1>1, <1>2 DEF OneEdge

(***************************************************************************)
(* Register adds an entry for the key of the card, validated.              *)
(***************************************************************************)
LEMMA RegisteredOneEdge ==
    ASSUME NEW map \in EntryMap, NEW card \in Card, NEW path \in Paths,
           ~Known(map, card.key)
    PROVE  /\ Touched(Registered(map, card, path), map, card.key)
           /\ Registered(map, card, path)[card.key].key = card.key
           /\ Registered(map, card, path)[card.key].path = path
           /\ OneEdge(Registered(map, card, path), map)
  <1> DEFINE new == Registered(map, card, path)
             k == card.key
  <1>1. k \in Keys
    BY DEF Card
  <1>2. BuildEntry(card, path, "validated") \in Entry
    BY BuildEntryType DEF Status
  <1>3. /\ new[k] = BuildEntry(card, path, "validated")
        /\ \A j \in Keys \ {k} : new[j] = map[j]
    BY <1>1 DEF Registered, EntryMap
  <1>4. /\ new[k].status = "validated" /\ new[k].key = k /\ new[k].path = path
        /\ Touched(new, map, k)
    BY <1>2, <1>3, NoEntryAssumption DEF BuildEntry, Touched, Known
  <1>5. Edge(new[k].status, LifeOf(map)[k])
    BY <1>1, <1>4 DEF Edge, LifeOf, Lives!OneStep
  <1>6. new \in EntryMap
    BY RegisteredType
  <1> HIDE DEF new
  <1> QED
    BY <1>1, <1>4, <1>5, <1>6, TouchedOneEdge DEF new

(***************************************************************************)
(* Validate keeps the status of an entry or lifts a draft, and takes the   *)
(* key from the card.                                                      *)
(***************************************************************************)
LEMMA RevalidatedOneEdge ==
    ASSUME NEW map \in EntryMap, NEW k \in Keys, Known(map, k),
           Validatable(map[k].status), NEW card \in Card
    PROVE  /\ Touched(Revalidated(map, k, card), map, k)
           /\ Revalidated(map, k, card)[k].key = card.key
           /\ Revalidated(map, k, card)[k].path = map[k].path
           /\ OneEdge(Revalidated(map, k, card), map)
  <1> DEFINE new == Revalidated(map, k, card)
             old == map[k].status
             status == IF old = "draft" THEN "validated" ELSE old
  <1>1. map[k].path \in Paths /\ old \in Status
    BY DEF EntryMap, Known, Entry
  <1>2. status \in Status
    BY <1>1 DEF Status
  <1>3. BuildEntry(card, map[k].path, status) \in Entry
    BY <1>1, <1>2, BuildEntryType
  <1>4. /\ new[k] = BuildEntry(card, map[k].path, status)
        /\ \A j \in Keys \ {k} : new[j] = map[j]
    BY DEF Revalidated, EntryMap
  <1>5. /\ new[k].status = status /\ new[k].key = card.key
        /\ new[k].path = map[k].path
        /\ Touched(new, map, k)
    BY <1>3, <1>4, NoEntryAssumption DEF BuildEntry, Touched, Known
  <1>6. LifeOf(map)[k] = old
    BY DEF LifeOf
  <1>7. Edge(status, old)
    BY <1>1 DEF Edge, Status, Validatable, Lives!OneStep
  <1>8. new \in EntryMap
    BY RevalidatedType
  <1> HIDE DEF new, status
  <1> QED
    BY <1>5, <1>6, <1>7, <1>8, TouchedOneEdge DEF new

(***************************************************************************)
(* Activate, Disable and Delete move the status of an entry along an edge. *)
(***************************************************************************)
LEMMA WithStatusOneEdge ==
    ASSUME NEW map \in EntryMap, NEW k \in Keys, Known(map, k), NEW s \in Status,
           \/ s = "active" /\ Activatable(map[k].status)
           \/ s = "disabled" /\ Disableable(map[k].status)
           \/ s = "deleted"
    PROVE  /\ Touched(WithStatus(map, k, s), map, k)
           /\ WithStatus(map, k, s)[k].key = map[k].key
           /\ WithStatus(map, k, s)[k].path = map[k].path
           /\ OneEdge(WithStatus(map, k, s), map)
  <1> DEFINE new == WithStatus(map, k, s)
  <1>1. map[k] \in Entry /\ map[k].status \in Status
    BY DEF EntryMap, Known, Entry
  <1>2. /\ new[k] = [map[k] EXCEPT !.status = s]
        /\ \A j \in Keys \ {k} : new[j] = map[j]
    BY DEF WithStatus, EntryMap
  <1>3. [map[k] EXCEPT !.status = s] \in Entry
    BY <1>1 DEF Entry
  <1>4. /\ new[k].status = s /\ new[k].key = map[k].key
        /\ new[k].path = map[k].path
        /\ Touched(new, map, k)
    BY <1>1, <1>2, <1>3, NoEntryAssumption DEF Entry, Touched, Known
  <1>5. LifeOf(map)[k] = map[k].status
    BY DEF LifeOf
  <1>6. Edge(s, map[k].status)
    BY <1>1 DEF Edge, Status, Activatable, Disableable, Lives!OneStep
  <1>7. new \in EntryMap
    BY WithStatusType
  <1> HIDE DEF new
  <1> QED
    BY <1>4, <1>5, <1>6, <1>7, TouchedOneEdge DEF new
=============================================================================
