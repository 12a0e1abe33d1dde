------------------------ MODULE AlgorithmRegistryProofs ------------------------
(***************************************************************************)
(* Proofs about AlgorithmRegistry for every set of keys, packages and card *)
(* revisions, and for saves that fail at any time, noticed or not.         *)
(*                                                                         *)
(* They assume that the card of a package keeps its identity               *)
(* (StableIdentity), which is what the authors' workflow promises and the  *)
(* code does not check: without it two entries of the map can carry one    *)
(* key, as the run RegistryDeletedFinal shows, and a reload merges them.   *)
(***************************************************************************)
EXTENDS AlgorithmRegistry, RegistryEntriesProofs

(***************************************************************************)
(* Every card file carries one identity, whatever else is edited in it.    *)
(***************************************************************************)
StableIdentity == \A p \in Paths : \A j, k \in CardKeys[p] : j = k

(***************************************************************************)
(* The lifecycle the file is compared with has the edges of the lemmas of  *)
(* RegistryEntriesProofs.                                                  *)
(***************************************************************************)
LEMMA SameEdges ==
    /\ Lives!LifeStatus = Lifecycle!LifeStatus
    /\ Lives!OneStep = Lifecycle!OneStep
    /\ Lives!Later = Lifecycle!Later
  BY DEF Lives!LifeStatus, Lifecycle!LifeStatus, Lives!OneStep,
         Lifecycle!OneStep, Lives!Later, Lifecycle!Later

-----------------------------------------------------------------------------
(***************************************************************************)
(* Every step of a registry operation is a refusal, an edit of the map     *)
(* followed by a save that may fail, noticed or not, a reload, or an edit  *)
(* of a card.                                                              *)
(***************************************************************************)
Edited(map) ==
    \/ \E p \in Paths : /\ cards[p] # NoCard
                        /\ ~Known(entries, cards[p].key)
                        /\ map = Registered(entries, cards[p], p)
    \/ \E k \in Keys : /\ Known(entries, k)
                       /\ Validatable(entries[k].status)
                       /\ Accepted(entries[k].path)
                       /\ map = Revalidated(entries, k, cards[entries[k].path])
    \/ \E k \in Keys : /\ Known(entries, k)
                       /\ \/ /\ Activatable(entries[k].status)
                             /\ map = WithStatus(entries, k, "active")
                          \/ /\ Disableable(entries[k].status)
                             /\ map = WithStatus(entries, k, "disabled")
                          \/ map = WithStatus(entries, k, "deleted")

(***************************************************************************)
(* A step refuses an operation, persists an edited map, reloads, or edits  *)
(* a card: the four ways in which the operations differ for the proofs.    *)
(***************************************************************************)
LEMMA StepCases ==
    ASSUME TypeOK, Next
    PROVE  \/ \E code \in Codes \ {"Ok", "IoError"} : Refuse(code)
           \/ \E map : Edited(map) /\ Persist(map)
           \/ Reload
           \/ \E p \in Paths : EditCard(p)
  <1>1. ASSUME NEW p \in Paths, Register(p)
        PROVE  \/ \E code \in Codes \ {"Ok", "IoError"} : Refuse(code)
               \/ \E map : Edited(map) /\ Persist(map)
    BY <1>1 DEF Register, Accepted, Edited, Codes
  <1>2. ASSUME NEW k \in Keys, Validate(k)
        PROVE  \/ \E code \in Codes \ {"Ok", "IoError"} : Refuse(code)
               \/ \E map : Edited(map) /\ Persist(map)
    BY <1>2 DEF Validate, Edited, Codes
  <1>3. ASSUME NEW k \in Keys, Activate(k) \/ Disable(k) \/ Delete(k)
        PROVE  \/ \E code \in Codes \ {"Ok", "IoError"} : Refuse(code)
               \/ \E map : Edited(map) /\ Persist(map)
    BY <1>3 DEF Activate, Disable, Delete, Transition, Edited, Codes
  <1> QED
    BY <1>1, <1>2, <1>3 DEF Next

(***************************************************************************)
(* What an operation hands to Persist is a well-typed map.                 *)
(***************************************************************************)
LEMMA EditedType ==
    ASSUME TypeOK, NEW map, Edited(map)
    PROVE  map \in EntryMap
  <1>1. \A k \in Keys : Known(entries, k) => entries[k] \in Entry
    BY DEF TypeOK, EntryMap, Known
  <1>2. \A p \in Paths : cards[p] # NoCard => cards[p] \in Card
    BY DEF TypeOK
  <1>3. {"active", "disabled", "deleted"} \subseteq Status
    BY DEF Status
  <1>4. \A k \in Keys : Known(entries, k) => entries[k].path \in Paths
    BY <1>1 DEF Entry
  <1> QED
    BY <1>1, <1>2, <1>3, <1>4, RegisteredType, RevalidatedType, WithStatusType
    DEF Edited, Accepted, TypeOK

(***************************************************************************)
(* An operation moves one key along one edge of the lifecycle, whatever    *)
(* else it changes in the entry, and keeps each entry under its own key.   *)
(***************************************************************************)
LEMMA EditedOneEdge ==
    ASSUME TypeOK, \A p \in Paths : cards[p] \in CardsAt(p), StableIdentity,
           Coherent(entries), NEW map, Edited(map)
    PROVE  OneEdge(map, entries) /\ Coherent(map)
  <1>1. ASSUME NEW k \in Keys, Touched(map, entries, k),
               map[k].key = k, k \in CardKeys[map[k].path]
        PROVE  Coherent(map)
    BY <1>1 DEF Coherent, Touched, Known
  <1>2. ASSUME NEW p \in Paths, cards[p] # NoCard,
               ~Known(entries, cards[p].key),
               map = Registered(entries, cards[p], p)
        PROVE  OneEdge(map, entries) /\ Coherent(map)
    <2>1. cards[p] \in Card /\ cards[p] \in [key : CardKeys[p], rev : Revisions]
      BY <1>2 DEF CardsAt, TypeOK
    <2>2. cards[p].key \in Keys /\ cards[p].key \in CardKeys[p]
      BY <2>1 DEF Card
    <2> QED
      BY <1>1, <1>2, <2>1, <2>2, RegisteredOneEdge DEF TypeOK
  <1>3. ASSUME NEW k \in Keys, Known(entries, k), Validatable(entries[k].status),
               Accepted(entries[k].path),
               map = Revalidated(entries, k, cards[entries[k].path])
        PROVE  OneEdge(map, entries) /\ Coherent(map)
    <2> DEFINE p == entries[k].path
    <2>1. p \in Paths
      BY <1>3 DEF TypeOK, EntryMap, Known, Entry
    <2>2. cards[p] \in Card /\ cards[p] \in [key : CardKeys[p], rev : Revisions]
      BY <1>3, <2>1 DEF CardsAt, Accepted, TypeOK
    <2>3. k \in CardKeys[p]
      BY <1>3 DEF Coherent
    <2>4. cards[p].key = k
      BY <2>1, <2>2, <2>3 DEF StableIdentity
    <2>5. /\ Touched(map, entries, k) /\ OneEdge(map, entries)
          /\ map[k].key = cards[p].key /\ map[k].path = p
      BY <1>3, <2>2, RevalidatedOneEdge DEF TypeOK
    <2> QED
      BY <1>1, <2>3, <2>4, <2>5
  <1>4. ASSUME NEW k \in Keys, NEW s \in {"active", "disabled", "deleted"},
               Known(entries, k),
               \/ s = "active" /\ Activatable(entries[k].status)
               \/ s = "disabled" /\ Disableable(entries[k].status)
               \/ s = "deleted",
               map = WithStatus(entries, k, s)
        PROVE  OneEdge(map, entries) /\ Coherent(map)
    <2>1. s \in Status /\ entries \in EntryMap
      BY DEF Status, TypeOK
    <2>2. /\ Touched(map, entries, k) /\ OneEdge(map, entries)
          /\ map[k].key = entries[k].key /\ map[k].path = entries[k].path
      BY <1>4, <2>1, WithStatusOneEdge
    <2> QED
      BY <1>1, <1>4, <2>2 DEF Coherent
  <1> QED
    BY <1>2, <1>3, <1>4 DEF Edited

(***************************************************************************)
(* An operation never takes a key back.                                    *)
(***************************************************************************)
LEMMA EditedAhead ==
    ASSUME TypeOK, \A p \in Paths : cards[p] \in CardsAt(p), StableIdentity,
           Coherent(entries), NEW map, Edited(map)
    PROVE  Ahead(map, entries)
  BY EditedType, EditedOneEdge, OneEdgeIsAhead DEF TypeOK

-----------------------------------------------------------------------------
(***************************************************************************)
(* The inductive invariant: types, cards that keep their identity, maps    *)
(* filed by the keys they carry (so that the file loads as it was saved),  *)
(* memory that after an Ok is what the file holds, unless the file cannot  *)
(* be read, and that is never behind what the file held when it last could.*)
(***************************************************************************)
IInv ==
    /\ TypeOK
    /\ \A p \in Paths : cards[p] \in CardsAt(p)
    /\ Coherent(entries)
    /\ Coherent(file)
    /\ reply = "Ok" /\ readable => entries = file
    /\ Ahead(entries, file)

(***************************************************************************)
(* A file whose entries carry the keys they are filed under loads as it    *)
(* was saved (registry_store.cpp).                                         *)
(***************************************************************************)
LEMMA LoadedFile ==
    ASSUME NEW map \in EntryMap, Coherent(map)
    PROVE  Loaded(map) = map
  BY LoadedIsSaved DEF Coherent

(***************************************************************************)
(* The registry just loaded satisfies the inductive invariant.             *)
(***************************************************************************)
LEMMA InitIInv == Init => IInv
  <1> SUFFICES ASSUME Init PROVE IInv
    OBVIOUS
  <1>1. file \in EntryMap /\ Coherent(file)
    BY InitialFilesAssumption DEF Init
  <1>2. Ahead(entries, file)
    BY DEF Init, Ahead, NotBehind
  <1> QED
    BY <1>1, <1>2 DEF Init, IInv, TypeOK, Codes

(***************************************************************************)
(* Every operation preserves the inductive invariant, as long as no card   *)
(* changes its identity.                                                   *)
(***************************************************************************)
LEMMA NextIInv ==
    ASSUME StableIdentity, IInv, [Next]_vars
    PROVE  IInv'
  <1>1. CASE UNCHANGED vars
    BY <1>1 DEF vars, IInv, TypeOK, Coherent, Ahead, LifeOf, Known
  <1>2. ASSUME NEW code \in Codes \ {"Ok", "IoError"}, Refuse(code)
        PROVE  IInv'
    BY <1>2 DEF Refuse, IInv, TypeOK, Coherent, Ahead, LifeOf, Known
  <1>3. ASSUME NEW map, Edited(map), Persist(map)
        PROVE  IInv'
    <2>1. map \in EntryMap /\ Coherent(map) /\ Ahead(map, entries)
      BY <1>3, EditedType, EditedOneEdge, EditedAhead DEF IInv
    <2>2. Ahead(map, file)
      BY <2>1, AheadTransitive DEF IInv, TypeOK
    <2>3. Ahead(map, map)
      BY DEF Ahead, NotBehind
    <2>4. CASE SaveDone(map)
      <3>1. /\ entries' = map /\ file' = map /\ cards' = cards
            /\ readable' = TRUE /\ reply' = "Ok"
        BY <1>3, <2>4 DEF Persist, SaveDone
      <3> QED
        BY <2>1, <2>3, <3>1 DEF IInv, TypeOK, Codes, CardsAt, Coherent, Known, Ahead, LifeOf
    <2>5. CASE OpenFailed
      <3>1. /\ entries' = map /\ file' = file /\ cards' = cards
            /\ readable' = readable /\ reply' = "IoError"
        BY <1>3, <2>5 DEF Persist, OpenFailed
      <3> QED
        BY <2>1, <2>2, <3>1 DEF IInv, TypeOK, Codes, CardsAt, Coherent, Known, Ahead, LifeOf
    <2>6. CASE WriteFailed
      <3>1. /\ entries' = map /\ file' = file /\ cards' = cards
            /\ readable' = FALSE /\ reply' = "Ok"
        BY <1>3, <2>6 DEF Persist, WriteFailed
      <3> QED
        BY <2>1, <2>2, <3>1 DEF IInv, TypeOK, Codes, CardsAt, Coherent, Known, Ahead, LifeOf
    <2> QED
      BY <1>3, <2>4, <2>5, <2>6 DEF Persist
  <1>4. CASE Reload
    <2>1. /\ entries' = file /\ file' = file /\ cards' = cards
          /\ readable' = readable /\ reply' = "Ok"
      BY <1>4, LoadedFile DEF Reload, IInv, TypeOK
    <2>2. Ahead(file, file)
      BY DEF Ahead, NotBehind
    <2> QED
      BY <2>1, <2>2 DEF IInv, TypeOK, Codes, Coherent, Known, Ahead, LifeOf
  <1>5. ASSUME NEW p \in Paths, EditCard(p)
        PROVE  IInv'
    <2>1. PICK card \in CardsAt(p) : cards' = [cards EXCEPT ![p] = card]
      BY <1>5 DEF EditCard
    <2>2. card \in Card \cup {NoCard}
      BY CardKeysAssumption DEF CardsAt, Card
    <2>3. /\ cards' \in [Paths -> Card \cup {NoCard}]
          /\ \A q \in Paths : cards'[q] \in CardsAt(q)
      BY <2>1, <2>2 DEF IInv, TypeOK
    <2>4. UNCHANGED <<entries, file, readable, reply>>
      BY <1>5 DEF EditCard
    <2> QED
      BY <2>3, <2>4 DEF IInv, TypeOK, CardsAt, Coherent, Known, Ahead, LifeOf
  <1> QED
    BY <1>1, <1>2, <1>3, <1>4, <1>5, StepCases DEF IInv

(***************************************************************************)
(* The inductive invariant: memory and file are coherent, they agree after *)
(* an Ok unless a write fell short, and memory is never behind the file.   *)
(***************************************************************************)
THEOREM Invariance ==
    ASSUME StableIdentity
    PROVE  Spec => []IInv
  <1>1. IInv /\ [Next]_vars => IInv'
    BY NextIInv
  <1> QED
    BY <1>1, InitIInv, PTL DEF Spec

(***************************************************************************)
(* No step takes a key back on disk.                                       *)
(***************************************************************************)
LEMMA FileMovesForward ==
    ASSUME StableIdentity, IInv, [Next]_vars
    PROVE  \A k \in Keys : NotBehind(LifeOf(file)'[k], LifeOf(file)[k])
  <1>1. CASE file' = file
    BY <1>1 DEF NotBehind, LifeOf, Known
  <1>2. ASSUME NEW map, Edited(map), Persist(map), SaveDone(map)
        PROVE  \A k \in Keys : NotBehind(LifeOf(file)'[k], LifeOf(file)[k])
    <2>1. Ahead(map, file)
      BY <1>2, EditedType, EditedAhead, AheadTransitive DEF IInv, TypeOK
    <2>2. file' = map
      BY <1>2 DEF SaveDone
    <2> QED
      BY <2>1, <2>2 DEF Ahead, LifeOf, Known
  <1>3. CASE UNCHANGED vars
    BY <1>1, <1>3 DEF vars
  <1>4. CASE Next
    <2>1. ASSUME NEW code \in Codes \ {"Ok", "IoError"}, Refuse(code)
          PROVE  file' = file
      BY <2>1 DEF Refuse
    <2>2. ASSUME NEW map, Edited(map), Persist(map)
          PROVE  file' = file \/ SaveDone(map)
      BY <2>2 DEF Persist, OpenFailed, WriteFailed
    <2>3. Reload => file' = file
      BY DEF Reload
    <2>4. ASSUME NEW p \in Paths, EditCard(p)
          PROVE  file' = file
      BY <2>4 DEF EditCard
    <2> QED
      BY <1>1, <1>2, <1>4, <2>1, <2>2, <2>3, <2>4, StepCases DEF IInv
  <1> QED
    BY <1>3, <1>4

(***************************************************************************)
(* Type correctness.                                                       *)
(***************************************************************************)
THEOREM TypeCorrect ==
    ASSUME StableIdentity
    PROVE  Spec => []TypeOK
  <1>1. IInv => TypeOK
    BY DEF IInv
  <1> QED
    BY <1>1, Invariance, PTL

(***************************************************************************)
(* After an Ok a restart finds what this object serves or a file it cannot *)
(* read; it never finds an older registry.                                 *)
(***************************************************************************)
THEOREM AcknowledgedNotStale ==
    ASSUME StableIdentity
    PROVE  Spec => []AcknowledgedIsNotStale
  <1>1. IInv => AcknowledgedIsNotStale
    BY LoadedFile DEF IInv, TypeOK, AcknowledgedIsNotStale, Durable
  <1> QED
    BY <1>1, Invariance, PTL

(***************************************************************************)
(* Memory is never behind the disk.                                        *)
(***************************************************************************)
THEOREM NeverBehind ==
    ASSUME StableIdentity
    PROVE  Spec => []MemoryIsNotBehind
  <1>1. IInv => MemoryIsNotBehind
    BY LoadedFile, SameEdges
    DEF IInv, TypeOK, MemoryIsNotBehind, Durable, Ahead, NotBehind
  <1> QED
    BY <1>1, Invariance, PTL

(***************************************************************************)
(* The registry implements the lifecycle.                                  *)
(***************************************************************************)
THEOREM ImplementsLifecycle ==
    ASSUME StableIdentity
    PROVE  Spec => DurableLifecycle
  <1>1. IInv => LifeOf(Durable) = LifeOf(file) /\ LifeOf(file) \in [Keys -> LifeStatus]
    BY LoadedFile, LifeOfType DEF IInv, TypeOK, Durable
  <1>2. Init => Lifecycle!Init
    BY <1>1, InitIInv, SameEdges DEF Lifecycle!Init, LifeStatus
  <1>3. ASSUME IInv, IInv', [Next]_vars
        PROVE  [Lifecycle!Publish]_(LifeOf(Durable))
    <2>1. LifeOf(Durable) = LifeOf(file) /\ LifeOf(Durable)' = LifeOf(file)'
      <3>1. Durable = file
        BY <1>3, LoadedFile DEF IInv, TypeOK, Durable
      <3>2. Durable' = file'
        BY <1>3, LoadedFile DEF IInv, TypeOK, Durable
      <3> QED
        BY <3>1, <3>2 DEF LifeOf, Known
    <2>2. LifeOf(file)' \in [Keys -> LifeStatus]
      BY <1>3, LifeOfType DEF IInv, TypeOK
    <2> QED
      BY <1>3, <2>1, <2>2, FileMovesForward, SameEdges
      DEF Lifecycle!Publish, NotBehind, LifeStatus
  <1> QED
    BY <1>2, <1>3, Invariance, PTL DEF Spec, DurableLifecycle, Lifecycle!Spec

(***************************************************************************)
(* A save with nothing pending moves at most one key along one edge.       *)
(***************************************************************************)
LEMMA FileMovesOneEdge ==
    ASSUME StableIdentity, IInv, entries = file, [Next]_vars
    PROVE  \/ LifeOf(file)' = LifeOf(file)
           \/ \E k \in Keys :
                 \E s \in Lifecycle!OneStep[LifeOf(file)[k]] :
                    LifeOf(file)' = [LifeOf(file) EXCEPT ![k] = s]
  <1> DEFINE Goal == \/ LifeOf(file)' = LifeOf(file)
                     \/ \E k \in Keys :
                           \E s \in Lifecycle!OneStep[LifeOf(file)[k]] :
                              LifeOf(file)' = [LifeOf(file) EXCEPT ![k] = s]
  <1>1. CASE file' = file
    BY <1>1 DEF LifeOf, Known
  <1>2. ASSUME NEW map, Edited(map), Persist(map), SaveDone(map)
        PROVE  Goal
    <2>1. OneEdge(map, file)
      BY <1>2, EditedOneEdge DEF IInv
    <2>2. LifeOf(file)' = LifeOf(map)
      BY <1>2 DEF SaveDone, LifeOf, Known
    <2>3. /\ LifeOf(map) = [j \in Keys |-> LifeOf(map)[j]]
          /\ LifeOf(file) = [j \in Keys |-> LifeOf(file)[j]]
      BY DEF LifeOf
    <2>4. PICK k \in Keys :
              /\ Edge(LifeOf(map)[k], LifeOf(file)[k])
              /\ \A j \in Keys \ {k} : LifeOf(map)[j] = LifeOf(file)[j]
      BY <2>1 DEF OneEdge
    <2>5. LifeOf(map) = [LifeOf(file) EXCEPT ![k] = LifeOf(map)[k]]
      BY <2>3, <2>4
    <2> QED
      BY <2>2, <2>3, <2>4, <2>5, SameEdges DEF Edge
  <1>3. CASE UNCHANGED vars
    BY <1>1, <1>3 DEF vars
  <1>4. CASE Next
    <2>1. ASSUME NEW code \in Codes \ {"Ok", "IoError"}, Refuse(code)
          PROVE  file' = file
      BY <2>1 DEF Refuse
    <2>2. ASSUME NEW map, Edited(map), Persist(map)
          PROVE  file' = file \/ SaveDone(map)
      BY <2>2 DEF Persist, OpenFailed, WriteFailed
    <2>3. Reload => file' = file
      BY DEF Reload
    <2>4. ASSUME NEW p \in Paths, EditCard(p)
          PROVE  file' = file
      BY <2>4 DEF EditCard
    <2> QED
      BY <1>1, <1>2, <1>4, <2>1, <2>2, <2>3, <2>4, StepCases DEF IInv
  <1> QED
    BY <1>3, <1>4

(***************************************************************************)
(* While nothing is pending, a save publishes one operation.               *)
(***************************************************************************)
THEOREM OneEdgeAtATime ==
    ASSUME StableIdentity
    PROVE  Spec => NothingPendingOneEdge
  <1>1. ASSUME IInv, IInv', [Next]_vars, entries = Durable
        PROVE  \/ \E k \in Keys : Lifecycle!Change(k)
               \/ LifeOf(Durable)' = LifeOf(Durable)
    <2>1. Durable = file /\ Durable' = file'
      BY <1>1, LoadedFile DEF IInv, TypeOK, Durable
    <2>2. LifeOf(Durable) = LifeOf(file) /\ LifeOf(Durable)' = LifeOf(file)'
      BY <2>1 DEF LifeOf, Known
    <2> QED
      BY <1>1, <2>1, <2>2, FileMovesOneEdge DEF Lifecycle!Change
  <1> QED
    BY <1>1, Invariance, PTL DEF Spec, NothingPendingOneEdge
=============================================================================
