------------------------ MODULE ServiceDeploymentProofs ------------------------
(***************************************************************************)
(* Proofs about ServiceDeployment for every number of processes, packages, *)
(* keys and URLs, any commands and any edits of the cards.                 *)
(*                                                                         *)
(* That nothing unchecked is published is not inductive: it rests on what  *)
(* each process holds between its steps (ProcessInv).  The argument is     *)
(* that a step changes what one process holds (OnlyStep), and that the     *)
(* history of checks only grows, so that the others keep their invariant.  *)
(***************************************************************************)
EXTENDS ServiceDeployment, FiniteSetTheorems, TLAPS

Validating == {"read", "check", "register", "activate"}

(***************************************************************************)
(* What a process holds where it stands.                                   *)
(***************************************************************************)
ProcessInv(p) ==
    /\ pc[p] \in Steps => command[p] \in AllCommands
    /\ pc[p] \in {"open", "write"} => edit[p] \in Texts
    /\ pc[p] \in Validating => target[p] \in Targets
    /\ pc[p] \in {"check", "register", "activate"} => found[p] \in Card
    /\ pc[p] \in {"read", "check", "register"} =>
          (target[p].known => Known(mem[p], target[p].key))
    /\ pc[p] = "activate" => Known(mem[p], ActivatedKey(p))
    /\ pc[p] \in {"register", "activate"} => <<found[p].key, found[p].rev>> \in checked
    /\ Pairs(mem[p]) \subseteq checked

Types ==
    /\ files \in [Paths -> Texts \cup {NoCard}]
    /\ published \in EntryMap
    /\ edits \in Nat
    /\ pc \in [Procs -> {"idle", "ok", "error", "killed"} \cup Steps]
    /\ command \in [Procs -> AllCommands \cup {Nothing}]
    /\ mem \in [Procs -> EntryMap]
    /\ edit \in [Procs -> Texts \cup {Nothing}]
    /\ target \in [Procs -> Targets \cup {Nothing}]
    /\ found \in [Procs -> Card \cup {Nothing}]
    /\ checked \in SUBSET (Keys \X Revisions)

Histories == since \in [Procs -> SUBSET (Texts \cup {NoCard})]

IInv ==
    /\ Types
    /\ Histories
    /\ \A p \in Procs : ProcessInv(p)
    /\ Pairs(published) \subseteq checked

-----------------------------------------------------------------------------
(***************************************************************************)
(* What the operations on the map make of its pairs.                       *)
(***************************************************************************)
LEMMA PairsType ==
    ASSUME NEW map \in EntryMap
    PROVE  Pairs(map) \subseteq Keys \X Revisions
  <1> SUFFICES ASSUME NEW k \in Keys, Known(map, k)
               PROVE  <<map[k].key, map[k].rev>> \in Keys \X Revisions
    BY DEF Pairs
  <1>1. map[k] \in Entry
    BY DEF Known, EntryMap
  <1> QED
    BY <1>1 DEF Entry

(***************************************************************************)
(* The empty map of a new process names no service.                        *)
(***************************************************************************)
LEMMA EmptyPairs == EmptyMap \in EntryMap /\ Pairs(EmptyMap) = {}
  BY DEF EmptyMap, EntryMap, Pairs, Known

(***************************************************************************)
(* Of the entries saved with one key one is the last.                      *)
(***************************************************************************)
LEMMA LastExists ==
    ASSUME NEW S \in SUBSET Keys, S # {}
    PROVE  \E j \in S : \A i \in S : i <= j
  <1> DEFINE Above(j) == {i \in S : i > j}
             Aboves == {Above(j) : j \in S}
  <1>1. S \subseteq Nat
    BY KeysAssumption
  <1>2. IsFiniteSet(S)
    BY FiniteKeysAssumption, FS_Subset
  <1>3. IsWellFoundedOn(StrictSubsetOrdering(S), SUBSET S)
    BY <1>2, FS_StrictSubsetOrderingWellFounded, FS_FiniteSubsetsOfFinite
  <1>4. Aboves \subseteq SUBSET S /\ Aboves # {}
    OBVIOUS
  <1>5. \E T \in Aboves : \A U \in Aboves : <<U, T>> \notin StrictSubsetOrdering(S)
    <2> HIDE DEF Aboves
    <2> QED
      BY <1>3, <1>4, WFMin
  <1>6. PICK j \in S : \A i \in S : <<Above(i), Above(j)>> \notin StrictSubsetOrdering(S)
    BY <1>5
  <1>7. ASSUME NEW i \in S, i > j
        PROVE  FALSE
    <2>0. i \in Nat /\ j \in Nat
      BY <1>1
    <2>1. Above(i) \subseteq Above(j) /\ i \in Above(j) /\ i \notin Above(i)
      <3>1. \A m \in S : m > i => m > j
        BY <1>1, <1>7, <2>0
      <3>2. ~(i > i)
        BY <2>0
      <3> QED
        BY <1>7, <3>1, <3>2
    <2>2. <<Above(i), Above(j)>> \in (SUBSET S) \X (SUBSET S)
      OBVIOUS
    <2>3. <<Above(i), Above(j)>> \in StrictSubsetOrdering(S)
      <3> HIDE DEF Above
      <3> QED
        BY <2>1, <2>2 DEF StrictSubsetOrdering
    <2> QED
      BY <2>3, <1>6
  <1> QED
    BY <1>1, <1>7

(***************************************************************************)
(* Load returns a map of entries that were saved.                          *)
(***************************************************************************)
LEMMA LoadedPairs ==
    ASSUME NEW map \in EntryMap
    PROVE  /\ Loaded(map) \in EntryMap
           /\ Pairs(Loaded(map)) \subseteq Pairs(map)
  <1>1. ASSUME NEW k \in Keys, SavedFor(map, k) # {}
        PROVE  \E j \in Keys : Known(map, j) /\ Loaded(map)[k] = map[j]
    <2>1. SavedFor(map, k) \subseteq Keys
      BY DEF SavedFor
    <2>2. \E j \in SavedFor(map, k) : \A i \in SavedFor(map, k) : i <= j
      BY <1>1, <2>1, LastExists
    <2> DEFINE last == CHOOSE j \in SavedFor(map, k) : \A i \in SavedFor(map, k) : i <= j
    <2>3. last \in SavedFor(map, k)
      BY <2>2
    <2>4. Loaded(map)[k] = map[last]
      BY <1>1 DEF Loaded
    <2> QED
      BY <2>3, <2>4 DEF SavedFor
  <1>2. ASSUME NEW k \in Keys, SavedFor(map, k) = {}
        PROVE  Loaded(map)[k] = NoEntry
    BY <1>2 DEF Loaded
  <1>3. \A k \in Keys : Loaded(map)[k] \in Entry \cup {NoEntry}
    BY <1>1, <1>2 DEF EntryMap
  <1>4. Loaded(map) \in EntryMap
    BY <1>3 DEF Loaded, EntryMap
  <1>5. ASSUME NEW k \in Keys, Known(Loaded(map), k)
        PROVE  <<Loaded(map)[k].key, Loaded(map)[k].rev>> \in Pairs(map)
    BY <1>1, <1>2, <1>5 DEF Known, Pairs
  <1> QED
    BY <1>4, <1>5 DEF Pairs

(***************************************************************************)
(* An entry is built from a card, keeps its pair.                          *)
(***************************************************************************)
LEMMA BuiltEntry ==
    ASSUME NEW card \in Card, NEW path \in Paths, NEW status \in Status
    PROVE  /\ BuildEntry(card, path, status) \in Entry
           /\ BuildEntry(card, path, status).key = card.key
           /\ BuildEntry(card, path, status).rev = card.rev
  BY DEF BuildEntry, Card, Entry

(***************************************************************************)
(* Register and Validate add the pair of the validated card and no other;  *)
(* what they filed is known afterwards.                                    *)
(***************************************************************************)
LEMMA RegisteredPairs ==
    ASSUME NEW map \in EntryMap, NEW card \in Card, NEW path \in Paths
    PROVE  /\ Registered(map, card, path) \in EntryMap
           /\ Known(Registered(map, card, path), card.key)
           /\ Pairs(Registered(map, card, path)) \subseteq
                  Pairs(map) \cup {<<card.key, card.rev>>}
  <1> DEFINE entry == BuildEntry(card, path, "validated")
             result == Registered(map, card, path)
  <1>1. entry \in Entry /\ entry.key = card.key /\ entry.rev = card.rev
    BY BuiltEntry DEF Status
  <1>2. card.key \in Keys
    BY DEF Card
  <1>3. result = [map EXCEPT ![card.key] = entry]
    BY DEF Registered
  <1> HIDE DEF entry, result
  <1>4. result \in EntryMap
    BY <1>1, <1>2, <1>3 DEF EntryMap
  <1>5. Known(result, card.key)
    BY <1>1, <1>2, <1>3, NoEntryAssumption DEF Known, EntryMap
  <1>6. ASSUME NEW k \in Keys, Known(result, k)
        PROVE  <<result[k].key, result[k].rev>> \in Pairs(map) \cup {<<card.key, card.rev>>}
    BY <1>1, <1>2, <1>3, <1>6 DEF Known, EntryMap, Pairs
  <1> QED
    BY <1>4, <1>5, <1>6 DEF Pairs, result

(***************************************************************************)
(* Validate replaces the entry of its key by one built from the validated  *)
(* card: the map gains that pair and no other.                             *)
(***************************************************************************)
LEMMA RevalidatedPairs ==
    ASSUME NEW map \in EntryMap, NEW k \in Keys, Known(map, k), NEW card \in Card
    PROVE  /\ Revalidated(map, k, card) \in EntryMap
           /\ Known(Revalidated(map, k, card), k)
           /\ Pairs(Revalidated(map, k, card)) \subseteq
                  Pairs(map) \cup {<<card.key, card.rev>>}
  <1> DEFINE status == IF map[k].status = "draft" THEN "validated" ELSE map[k].status
             entry == BuildEntry(card, map[k].path, status)
             result == Revalidated(map, k, card)
  <1>1. map[k] \in Entry
    BY DEF Known, EntryMap
  <1>2. map[k].path \in Paths /\ status \in Status
    BY <1>1 DEF Entry, Status
  <1>3. entry \in Entry /\ entry.key = card.key /\ entry.rev = card.rev
    <2> HIDE DEF status
    <2> QED
      BY <1>2, BuiltEntry
  <1>4. result = [map EXCEPT ![k] = entry]
    BY DEF Revalidated, EntryMap
  <1> HIDE DEF status, entry, result
  <1>5. result \in EntryMap
    BY <1>3, <1>4 DEF EntryMap
  <1>6. Known(result, k)
    BY <1>3, <1>4, NoEntryAssumption DEF Known, EntryMap
  <1>7. ASSUME NEW j \in Keys, Known(result, j)
        PROVE  <<result[j].key, result[j].rev>> \in Pairs(map) \cup {<<card.key, card.rev>>}
    BY <1>3, <1>4, <1>7 DEF Known, EntryMap, Pairs
  <1> QED
    BY <1>5, <1>6, <1>7 DEF Pairs, result

(***************************************************************************)
(* Activate changes a status, and no pair.                                 *)
(***************************************************************************)
LEMMA WithStatusPairs ==
    ASSUME NEW map \in EntryMap, NEW k \in Keys, Known(map, k), NEW s \in Status
    PROVE  /\ WithStatus(map, k, s) \in EntryMap
           /\ Pairs(WithStatus(map, k, s)) \subseteq Pairs(map)
  <1> DEFINE entry == [map[k] EXCEPT !.status = s]
             result == WithStatus(map, k, s)
  <1>1. map[k] \in Entry
    BY DEF Known, EntryMap
  <1>2. entry \in Entry /\ entry.key = map[k].key /\ entry.rev = map[k].rev
    BY <1>1 DEF Entry
  <1>3. result = [map EXCEPT ![k] = entry]
    BY DEF WithStatus, EntryMap
  <1> HIDE DEF entry, result
  <1>4. result \in EntryMap
    BY <1>2, <1>3 DEF EntryMap
  <1>5. ASSUME NEW j \in Keys, Known(result, j)
        PROVE  <<result[j].key, result[j].rev>> \in Pairs(map)
    BY <1>2, <1>3, <1>5 DEF Known, EntryMap, Pairs
  <1> QED
    BY <1>4, <1>5 DEF Pairs, result

-----------------------------------------------------------------------------
(***************************************************************************)
(* What a step of process p must establish: the rest of the invariant      *)
(* follows, for the other processes (OthersKeep) and the history           *)
(* (ObserveType).                                                          *)
(***************************************************************************)
Kept(p) ==
    /\ Types'
    /\ ProcessInv(p)'
    /\ (Pairs(published) \subseteq checked)'
    /\ checked \subseteq checked'

Ended == {"ok", "error", "killed"}

(***************************************************************************)
(* A process that ends holds nothing.                                      *)
(***************************************************************************)
LEMMA ExitKeeps ==
    ASSUME Types, NEW p \in Procs, NEW how \in Ended, Exit(p, how)
    PROVE  /\ ProcessInv(p)'
           /\ pc' \in [Procs -> {"idle", "ok", "error", "killed"} \cup Steps]
           /\ command' \in [Procs -> AllCommands \cup {Nothing}]
           /\ mem' \in [Procs -> EntryMap]
           /\ edit' \in [Procs -> Texts \cup {Nothing}]
           /\ target' \in [Procs -> Targets \cup {Nothing}]
           /\ found' \in [Procs -> Card \cup {Nothing}]
  <1>1. pc'[p] \in Ended /\ mem'[p] = EmptyMap
    BY DEF Types, Exit
  <1>2. pc'[p] \notin Steps \cup Validating
    BY <1>1 DEF Ended, Steps, Validating
  <1>3. ProcessInv(p)'
    BY <1>1, <1>2, EmptyPairs DEF ProcessInv, Steps, Validating
  <1>4. pc' \in [Procs -> {"idle", "ok", "error", "killed"} \cup Steps]
    BY DEF Exit, Types, Ended
  <1> QED
    BY <1>3, <1>4, EmptyPairs DEF Exit, Types

(***************************************************************************)
(* main begins with what a load makes of the registry.                     *)
(***************************************************************************)
LEMMA StartKeeps ==
    ASSUME IInv, NEW p \in Procs, NEW c \in Commands, Start(p, c)
    PROVE  Kept(p)
  <1>1. c \in AllCommands
    BY DeploymentCommandsAssumption
  <1>2. Loaded(published) \in EntryMap /\ Pairs(Loaded(published)) \subseteq checked
    BY LoadedPairs DEF IInv, Types
  <1>3. pc'[p] \in {"ensure", "load"} /\ command'[p] = c /\ mem'[p] = Loaded(published)
    BY DEF Start, GoTo, IInv, Types
  <1>4. Types'
    BY <1>1, <1>2 DEF Start, GoTo, IInv, Types, Steps
  <1>5. ProcessInv(p)'
    BY <1>1, <1>2, <1>3 DEF Start, ProcessInv, Validating
  <1> QED
    BY <1>4, <1>5 DEF Start, IInv, Kept

(***************************************************************************)
(* The command reads the card for editing.                                 *)
(***************************************************************************)
LEMMA LoadCardKeeps ==
    ASSUME IInv, NEW p \in Procs, LoadCard(p)
    PROVE  Kept(p)
  <1>1. CASE pc' = [pc EXCEPT ![p] = "error"] /\ Exit(p, "error")
    BY <1>1, ExitKeeps DEF LoadCard, IInv, Types, Kept, Ended
  <1>2. CASE /\ GoTo(p, "open")
             /\ Editable(CardFile(p)) /\ command[p].url # NotHttp
             /\ edit' = [edit EXCEPT ![p] = [CardFile(p) EXCEPT !.url = command[p].url]]
             /\ UNCHANGED <<command, mem, target, found>>
    <2>1. pc[p] = "load" /\ command[p] \in AllCommands
      BY DEF LoadCard, IInv, ProcessInv, Steps
    <2>2. command[p].url \in Revisions
      BY <1>2, <2>1 DEF AllCommands
    <2>3. CardFile(p) \in Texts
      BY <1>2 DEF Editable
    <2>4. [CardFile(p) EXCEPT !.url = command[p].url] \in Texts
      BY <2>2, <2>3 DEF Texts
    <2>5. Types' /\ pc'[p] = "open" /\ edit'[p] \in Texts
      BY <1>2, <2>4 DEF LoadCard, GoTo, IInv, Types, Steps
    <2>6. ProcessInv(p)'
      BY <1>2, <2>1, <2>5 DEF LoadCard, IInv, ProcessInv, Validating, Steps
    <2> QED
      BY <2>5, <2>6 DEF LoadCard, IInv, Kept
  <1> QED
    BY <1>1, <1>2 DEF LoadCard, Exit

(***************************************************************************)
(* The command truncates the card.                                         *)
(***************************************************************************)
LEMMA OpenCardKeeps ==
    ASSUME IInv, NEW p \in Procs, OpenCard(p)
    PROVE  Kept(p)
  <1>1. CASE Exit(p, "error") /\ UNCHANGED files
    BY <1>1, ExitKeeps DEF OpenCard, IInv, Types, Kept, Ended
  <1>2. CASE /\ GoTo(p, "write")
             /\ files' = [files EXCEPT ![command[p].path] = NoCard]
             /\ UNCHANGED <<command, mem, edit, target, found>>
    <2>1. pc[p] = "open"
      BY DEF OpenCard
    <2>2. Types' /\ pc'[p] = "write"
      BY <1>2 DEF OpenCard, GoTo, IInv, Types, Steps
    <2>3. ProcessInv(p)'
      BY <1>2, <2>1, <2>2 DEF OpenCard, IInv, ProcessInv, Validating, Steps
    <2> QED
      BY <2>2, <2>3 DEF OpenCard, IInv, Kept
  <1> QED
    BY <1>1, <1>2 DEF OpenCard

(***************************************************************************)
(* What is left of a card is a card or none, whatever happened to its      *)
(* write.                                                                  *)
(***************************************************************************)
LEMMA WrittenText ==
    ASSUME NEW text \in Texts
    PROVE  /\ ToYamlString(text) \in Texts
           /\ Damaged(ToYamlString(text)) \subseteq Texts \cup {NoCard}
  <1>1. ASSUME NEW t \in Texts, NEW number \in BOOLEAN
        PROVE  [t EXCEPT !.key = Misread[@], !.loose = number] \in Texts
    BY MisreadAssumption DEF Texts
  <1>2. ToYamlString(text) \in Texts
    BY DEF ToYamlString, Texts
  <1> QED
    BY <1>1, <1>2 DEF Damaged

(***************************************************************************)
(* The command writes the card.                                            *)
(***************************************************************************)
LEMMA WriteCardKeeps ==
    ASSUME IInv, NEW p \in Procs, WriteCard(p)
    PROVE  Kept(p)
  <1>1. pc[p] = "write" /\ edit[p] \in Texts
    BY DEF WriteCard, IInv, ProcessInv
  <1>2. files' \in [Paths -> Texts \cup {NoCard}]
    <2>1. PICK written \in {ToYamlString(edit[p])} \cup Damaged(ToYamlString(edit[p])) :
              files' = [files EXCEPT ![command[p].path] = written]
      BY DEF WriteCard
    <2>2. written \in Texts \cup {NoCard}
      BY <1>1, <2>1, WrittenText
    <2> QED
      BY <2>1, <2>2 DEF IInv, Types
  <1>3. CASE Exit(p, "ok")
    BY <1>2, <1>3, ExitKeeps DEF WriteCard, IInv, Types, Kept, Ended
  <1>4. CASE GoTo(p, "ensure") /\ UNCHANGED <<command, mem, edit, target, found>>
    <2>1. Types' /\ pc'[p] = "ensure"
      BY <1>2, <1>4 DEF WriteCard, GoTo, IInv, Types, Steps
    <2>2. ProcessInv(p)'
      BY <1>1, <1>4, <2>1 DEF WriteCard, IInv, ProcessInv, Validating, Steps
    <2> QED
      BY <2>1, <2>2 DEF WriteCard, IInv, Kept
  <1> QED
    BY <1>3, <1>4 DEF WriteCard

(***************************************************************************)
(* EnsureRegisteredAndActive finds its target: a known key has an entry    *)
(* with a path, another gets that of the command.                          *)
(***************************************************************************)
LEMMA EnsureKeeps ==
    ASSUME IInv, NEW p \in Procs, Ensure(p)
    PROVE  Kept(p)
  <1> DEFINE text == CardFile(p)
             known == Known(mem[p], text.key)
             aim == [key |-> text.key, known |-> known,
                     path |-> IF known THEN mem[p][text.key].path ELSE command[p].path]
  <1>1. CASE Exit(p, "error")
    BY <1>1, ExitKeeps DEF Ensure, IInv, Types, Kept, Ended
  <1>2. CASE /\ Editable(text)
             /\ GoTo(p, "read")
             /\ target' = [target EXCEPT ![p] = aim]
             /\ UNCHANGED <<command, mem, edit, found>>
    <2>1. pc[p] = "ensure" /\ command[p] \in AllCommands
      BY DEF Ensure, IInv, ProcessInv, Steps
    <2>2. command[p].path \in Paths
      BY <2>1 DEF AllCommands
    <2>3. text.key \in Keys
      BY <1>2 DEF Editable, Texts
    <2>4. known => mem[p][text.key].path \in Paths
      BY <2>3 DEF IInv, Types, Known, EntryMap, Entry
    <2>5. known \in BOOLEAN
      BY DEF Known
    <2>6. aim \in Targets /\ (aim.known => Known(mem[p], aim.key))
      BY <2>2, <2>3, <2>4, <2>5 DEF Targets
    <2> HIDE DEF aim
    <2>7. Types' /\ pc'[p] = "read" /\ target'[p] = aim
      BY <1>2, <2>6 DEF Ensure, GoTo, IInv, Types, Steps
    <2>8. ProcessInv(p)'
      BY <1>2, <2>1, <2>6, <2>7 DEF Ensure, IInv, ProcessInv, Validating
    <2> QED
      BY <2>7, <2>8 DEF Ensure, IInv, Kept
  <1> QED
    BY <1>1, <1>2 DEF Ensure

(***************************************************************************)
(* Validation reads the card.                                              *)
(***************************************************************************)
LEMMA ReadPackageKeeps ==
    ASSUME IInv, NEW p \in Procs, ReadPackage(p)
    PROVE  Kept(p)
  <1> DEFINE card == CardIn(files[target[p].path])
  <1>1. CASE Exit(p, "error")
    BY <1>1, ExitKeeps DEF ReadPackage, IInv, Types, Kept, Ended
  <1>2. CASE /\ card # NoCard
             /\ GoTo(p, "check")
             /\ found' = [found EXCEPT ![p] = card]
             /\ UNCHANGED <<command, mem, edit, target>>
    <2>1. pc[p] = "read"
      BY DEF ReadPackage
    <2>2. card \in Card
      BY <1>2 DEF CardIn, Texts, Card
    <2> HIDE DEF card
    <2>3. Types' /\ pc'[p] = "check" /\ found'[p] = card
      BY <1>2, <2>2 DEF ReadPackage, GoTo, IInv, Types, Steps
    <2>4. ProcessInv(p)'
      BY <1>2, <2>1, <2>2, <2>3 DEF ReadPackage, IInv, ProcessInv, Validating, Steps
    <2> QED
      BY <2>3, <2>4 DEF ReadPackage, IInv, Kept
  <1> QED
    BY <1>1, <1>2 DEF ReadPackage

(***************************************************************************)
(* A check that succeeds is remembered.                                    *)
(***************************************************************************)
LEMMA CheckPackageKeeps ==
    ASSUME IInv, NEW p \in Procs, CheckPackage(p)
    PROVE  Kept(p)
  <1>1. pc[p] = "check" /\ found[p] \in Card
    BY DEF CheckPackage, IInv, ProcessInv
  <1>2. CASE Exit(p, "error") /\ UNCHANGED checked
    BY <1>2, ExitKeeps DEF CheckPackage, IInv, Types, Kept, Ended
  <1>3. CASE /\ GoTo(p, "register")
             /\ checked' = checked \cup {<<found[p].key, found[p].rev>>}
             /\ UNCHANGED <<command, mem, edit, target, found>>
    <2>1. <<found[p].key, found[p].rev>> \in Keys \X Revisions
      BY <1>1 DEF Card
    <2>2. Types' /\ pc'[p] = "register"
      BY <1>3, <2>1 DEF CheckPackage, GoTo, IInv, Types, Steps
    <2>3. ProcessInv(p)'
      BY <1>1, <1>3, <2>2 DEF CheckPackage, IInv, ProcessInv, Validating, Steps
    <2> QED
      BY <1>3, <2>2, <2>3 DEF CheckPackage, IInv, Kept
  <1> QED
    BY <1>2, <1>3 DEF CheckPackage

(***************************************************************************)
(* What Register and Validate file is the pair that was checked.           *)
(***************************************************************************)
LEMMA RegisterKeeps ==
    ASSUME IInv, NEW p \in Procs, Register(p)
    PROVE  Kept(p)
  <1>1. /\ pc[p] = "register" /\ found[p] \in Card /\ target[p] \in Targets
        /\ target[p].known => Known(mem[p], target[p].key)
        /\ <<found[p].key, found[p].rev>> \in checked
        /\ Pairs(mem[p]) \subseteq checked
        /\ command[p] \in AllCommands
    BY DEF Register, IInv, ProcessInv, Validating, Steps
  <1>2. mem[p] \in EntryMap /\ target[p].key \in Keys /\ target[p].path \in Paths
    BY <1>1 DEF IInv, Types, Targets
  <1>3. /\ WithPackage(p) \in EntryMap
        /\ Pairs(WithPackage(p)) \subseteq Pairs(mem[p]) \cup {<<found[p].key, found[p].rev>>}
        /\ Known(WithPackage(p), ActivatedKey(p))
    <2>1. CASE target[p].known
      BY <1>1, <1>2, <2>1, RevalidatedPairs DEF WithPackage, ActivatedKey, ValidatedCard
    <2>2. CASE ~target[p].known
      BY <1>1, <1>2, <2>2, RegisteredPairs DEF WithPackage, ActivatedKey, ValidatedCard
    <2> QED
      BY <2>1, <2>2
  <1>4. CASE Exit(p, "error") /\ UNCHANGED published
    BY <1>4, ExitKeeps DEF Register, IInv, Types, Kept, Ended
  <1>5. CASE /\ GoTo(p, "activate")
             /\ mem' = [mem EXCEPT ![p] = WithPackage(p)]
             /\ published' = mem'[p]
             /\ UNCHANGED <<command, edit, target, found>>
    <2>1. mem'[p] = WithPackage(p) /\ published' = WithPackage(p) /\ UNCHANGED checked
      BY <1>5 DEF Register, IInv, Types
    <2>2. Types' /\ pc'[p] = "activate"
      BY <1>3, <1>5, <2>1 DEF Register, GoTo, IInv, Types, Steps
    <2>3. Pairs(published') \subseteq checked' /\ Pairs(mem'[p]) \subseteq checked'
      BY <1>1, <1>3, <2>1
    <2>4. Known(mem'[p], ActivatedKey(p)')
      BY <1>3, <1>5, <2>1 DEF ActivatedKey, ValidatedCard
    <2>5. ProcessInv(p)'
      BY <1>1, <1>5, <2>1, <2>2, <2>3, <2>4 DEF ProcessInv, Validating
    <2> QED
      BY <2>1, <2>2, <2>3, <2>5 DEF Kept
  <1> QED
    BY <1>4, <1>5 DEF Register

(***************************************************************************)
(* Activate publishes the map of the process with another status.          *)
(***************************************************************************)
LEMMA ActivateKeeps ==
    ASSUME IInv, NEW p \in Procs, Activate(p)
    PROVE  Kept(p)
  <1>1. /\ pc[p] = "activate" /\ found[p] \in Card /\ target[p] \in Targets
        /\ Known(mem[p], ActivatedKey(p))
        /\ Pairs(mem[p]) \subseteq checked
    BY DEF Activate, IInv, ProcessInv, Validating
  <1>2. ActivatedKey(p) \in Keys /\ mem[p] \in EntryMap
    BY <1>1 DEF ActivatedKey, ValidatedCard, Targets, Card, IInv, Types
  <1>3. CASE Exit(p, "error") /\ UNCHANGED published
    BY <1>3, ExitKeeps DEF Activate, IInv, Types, Kept, Ended
  <1>4. CASE /\ published' = WithStatus(mem[p], ActivatedKey(p), "active")
             /\ Exit(p, "ok")
    <2>1. published' \in EntryMap /\ Pairs(published') \subseteq checked
      BY <1>1, <1>2, <1>4, WithStatusPairs DEF Status
    <2> QED
      BY <1>4, <2>1, ExitKeeps DEF Activate, IInv, Types, Kept, Ended
  <1> QED
    BY <1>3, <1>4 DEF Activate

(***************************************************************************)
(* A process that is killed leaves its card damaged at worst.              *)
(***************************************************************************)
LEMMA StopKeeps ==
    ASSUME IInv, NEW p \in Procs, Stop(p)
    PROVE  Kept(p)
  <1>1. files' \in [Paths -> Texts \cup {NoCard}]
    <2>1. CASE files' = files
      BY <2>1 DEF IInv, Types
    <2>2. CASE pc[p] = "write" /\ files' # files
      <3>1. edit[p] \in Texts
        BY <2>2 DEF IInv, ProcessInv
      <3>2. PICK t \in Damaged(ToYamlString(edit[p])) :
                files' = [files EXCEPT ![command[p].path] = t]
        BY <2>2 DEF Stop
      <3>3. t \in Texts \cup {NoCard}
        BY <3>1, <3>2, WrittenText
      <3> QED
        BY <3>2, <3>3 DEF IInv, Types
    <2> QED
      BY <2>1, <2>2 DEF Stop
  <1> QED
    BY <1>1, ExitKeeps DEF Stop, IInv, Types, Kept, Ended

-----------------------------------------------------------------------------
(***************************************************************************)
(* Every step of a process is one of nine, and keeps what it must.         *)
(***************************************************************************)
ProcessStep(p) ==
    \/ \E c \in Commands : Start(p, c)
    \/ LoadCard(p) \/ OpenCard(p) \/ WriteCard(p)
    \/ Ensure(p) \/ ReadPackage(p) \/ CheckPackage(p) \/ Register(p) \/ Activate(p)
    \/ Stop(p)

(***************************************************************************)
(* Every step of a process keeps what is known of that process, of the     *)
(* saved pairs and of the histories.                                       *)
(***************************************************************************)
LEMMA StepKeeps ==
    ASSUME IInv, NEW p \in Procs, ProcessStep(p)
    PROVE  Kept(p)
  BY StartKeeps, LoadCardKeeps, OpenCardKeeps, WriteCardKeeps, EnsureKeeps,
     ReadPackageKeeps, CheckPackageKeeps, RegisterKeeps, ActivateKeeps, StopKeeps
     DEF ProcessStep

(***************************************************************************)
(* A step leaves the other processes alone.                                *)
(***************************************************************************)
OnlyStep(p) ==
    \A q \in Procs \ {p} :
        /\ pc'[q] = pc[q] /\ command'[q] = command[q] /\ mem'[q] = mem[q]
        /\ edit'[q] = edit[q] /\ target'[q] = target[q] /\ found'[q] = found[q]

(***************************************************************************)
(* A process that ends changes nothing of another process.                 *)
(***************************************************************************)
LEMMA ExitAlone ==
    ASSUME Types, NEW p \in Procs, NEW how, Exit(p, how)
    PROVE  OnlyStep(p)
  BY DEF Types, Exit, OnlyStep

(***************************************************************************)
(* No step of a process changes the local state of another.                *)
(***************************************************************************)
LEMMA StepAlone ==
    ASSUME Types, NEW p \in Procs, ProcessStep(p)
    PROVE  OnlyStep(p)
  <1>1. ASSUME NEW c \in Commands, Start(p, c) PROVE OnlyStep(p)
    BY <1>1 DEF Types, Start, GoTo, OnlyStep
  <1>2. ASSUME LoadCard(p) PROVE OnlyStep(p)
    BY <1>2, ExitAlone DEF Types, LoadCard, GoTo, OnlyStep
  <1>3. ASSUME OpenCard(p) PROVE OnlyStep(p)
    BY <1>3, ExitAlone DEF Types, OpenCard, GoTo, OnlyStep
  <1>4. ASSUME WriteCard(p) PROVE OnlyStep(p)
    BY <1>4, ExitAlone DEF Types, WriteCard, GoTo, OnlyStep
  <1>5. ASSUME Ensure(p) PROVE OnlyStep(p)
    BY <1>5, ExitAlone DEF Types, Ensure, GoTo, OnlyStep
  <1>6. ASSUME ReadPackage(p) PROVE OnlyStep(p)
    BY <1>6, ExitAlone DEF Types, ReadPackage, GoTo, OnlyStep
  <1>7. ASSUME CheckPackage(p) PROVE OnlyStep(p)
    BY <1>7, ExitAlone DEF Types, CheckPackage, GoTo, OnlyStep
  <1>8. ASSUME Register(p) PROVE OnlyStep(p)
    BY <1>8, ExitAlone DEF Types, Register, GoTo, OnlyStep
  <1>9. ASSUME Activate(p) \/ Stop(p) PROVE OnlyStep(p)
    BY <1>9, ExitAlone DEF Activate, Stop
  <1> QED
    BY <1>1, <1>2, <1>3, <1>4, <1>5, <1>6, <1>7, <1>8, <1>9 DEF ProcessStep

(***************************************************************************)
(* The others keep their invariant, because checks are never forgotten.    *)
(***************************************************************************)
LEMMA OthersKeep ==
    ASSUME NEW p \in Procs, OnlyStep(p), checked \subseteq checked',
           NEW q \in Procs \ {p}, ProcessInv(q)
    PROVE  ProcessInv(q)'
  <1>1. /\ pc'[q] = pc[q] /\ command'[q] = command[q] /\ mem'[q] = mem[q]
        /\ edit'[q] = edit[q] /\ target'[q] = target[q] /\ found'[q] = found[q]
    BY DEF OnlyStep
  <1>2. ActivatedKey(q)' = ActivatedKey(q)
    BY <1>1 DEF ActivatedKey, ValidatedCard
  <1> QED
    BY <1>1, <1>2 DEF ProcessInv

(***************************************************************************)
(* The history of a card file holds what card files can hold.              *)
(***************************************************************************)
LEMMA ObserveType ==
    ASSUME Histories, Types', \A q \in Procs : ProcessInv(q)', Observe
    PROVE  Histories'
  <1> SUFFICES ASSUME NEW q \in Procs
               PROVE  since'[q] \in SUBSET (Texts \cup {NoCard})
    BY DEF Histories, Observe
  <1>1. CASE pc'[q] \in {"ensure", "read"}
    <2>1. command'[q].path \in Paths
      BY <1>1 DEF ProcessInv, Steps, AllCommands
    <2>2. files'[command'[q].path] \in Texts \cup {NoCard}
      BY <2>1 DEF Types
    <2> QED
      BY <1>1, <2>2 DEF Histories, Observe
  <1>2. CASE pc'[q] \in {"check", "register", "activate"}
    BY <1>2 DEF Histories, Observe
  <1>3. CASE pc'[q] \notin {"ensure", "read", "check", "register", "activate"}
    BY <1>3 DEF Observe
  <1> QED
    BY <1>1, <1>2, <1>3

-----------------------------------------------------------------------------
(***************************************************************************)
(* The invariant holds at first, and every step keeps it.                  *)
(***************************************************************************)
LEMMA InitIInv == Init => IInv
  <1> SUFFICES ASSUME Init PROVE IInv
    OBVIOUS
  <1>1. published \in EntryMap
    BY InitialRegistriesAssumption DEF Init
  <1>2. checked \in SUBSET (Keys \X Revisions)
    BY <1>1, PairsType DEF Init
  <1>3. Types /\ Histories
    BY <1>1, <1>2, EmptyPairs DEF Init, Types, Histories
  <1>4. \A p \in Procs : ProcessInv(p)
    BY EmptyPairs DEF Init, ProcessInv, Steps, Validating
  <1> QED
    BY <1>3, <1>4 DEF IInv, Init

(***************************************************************************)
(* Every step, of a process or of an author, keeps the invariant.          *)
(***************************************************************************)
LEMMA NextIInv == IInv /\ [Next]_vars => IInv'
  <1> SUFFICES ASSUME IInv, [Next]_vars PROVE IInv'
    OBVIOUS
  <1>1. ASSUME NEW p \in Procs, ProcessStep(p)
        PROVE  IInv'
    <2>1. Kept(p) /\ OnlyStep(p)
      BY <1>1, StepKeeps, StepAlone DEF IInv
    <2>2. \A q \in Procs : ProcessInv(q)'
      BY <2>1, OthersKeep DEF IInv, Kept
    <2>3. Observe
      BY <1>1 DEF ProcessStep, Start, LoadCard, OpenCard, WriteCard, Ensure, ReadPackage,
                  CheckPackage, Register, Activate, Stop
    <2>4. Histories'
      BY <2>1, <2>2, <2>3, ObserveType DEF IInv, Kept
    <2> QED
      BY <2>1, <2>2, <2>4 DEF IInv, Kept
  <1>2. ASSUME NEW path \in Paths, Author(path)
        PROVE  IInv'
    <2>1. Types'
      <3>1. PICK text \in AuthorTexts[path] : files' = [files EXCEPT ![path] = text]
        BY <1>2 DEF Author
      <3>2. text \in Texts \cup {NoCard}
        BY AuthorTextsAssumption, <3>1
      <3> QED
        BY <1>2, <3>1, <3>2 DEF Author, IInv, Types
    <2>2. ASSUME NEW q \in Procs PROVE ProcessInv(q)'
      BY <1>2 DEF Author, IInv, ProcessInv, ActivatedKey, ValidatedCard
    <2>3. Histories'
      BY <1>2, <2>1, <2>2, ObserveType DEF Author, IInv
    <2> QED
      BY <1>2, <2>1, <2>2, <2>3 DEF Author, IInv
  <1>3. CASE UNCHANGED vars
    BY <1>3 DEF vars, IInv, Types, Histories, ProcessInv, ActivatedKey, ValidatedCard
  <1> QED
    BY <1>1, <1>2, <1>3 DEF Next, ProcessStep

(***************************************************************************)
(* At any time of any number of commands, cards, texts and edits, the      *)
(* variables are well-typed, and a process has set what its next step      *)
(* uses.                                                                   *)
(***************************************************************************)
THEOREM TypeCorrect == Spec => []TypeOK
  <1>1. IInv => TypeOK
    <2> SUFFICES ASSUME IInv PROVE TypeOK
      OBVIOUS
    <2>1. ASSUME NEW p \in Procs
          PROVE  /\ pc[p] \in Steps => command[p] # Nothing
                 /\ pc[p] \in {"open", "write"} => edit[p] # Nothing
                 /\ pc[p] \in Validating => target[p] # Nothing
                 /\ pc[p] \in {"check", "register", "activate"} => found[p] # Nothing
      BY NothingAssumption, NotATextAssumption DEF IInv, ProcessInv
    <2> QED
      BY <2>1 DEF IInv, Types, Histories, TypeOK, Validating
  <1> QED
    BY <1>1, InitIInv, NextIInv, PTL DEF Spec

(***************************************************************************)
(* No interleaving of commands, edits, damaged writes and stops publishes  *)
(* an identity and a URL that no check confirmed together.                 *)
(***************************************************************************)
THEOREM OnlyCheckedIsRegistered == Spec => []RegisteredWasChecked
  <1>1. IInv => RegisteredWasChecked
    BY DEF IInv, RegisteredWasChecked
  <1> QED
    BY <1>1, InitIInv, NextIInv, PTL DEF Spec

-----------------------------------------------------------------------------
(***************************************************************************)
(* Where the activated entry comes from: the card file is in the history,  *)
(* a command edits only what it could read, what it found is what one of those texts says, and the  *)
(* entry about to be activated says the same.                              *)
(***************************************************************************)
Found(p) ==
    /\ pc[p] \in {"check", "register", "activate"}
    /\ target[p].path = command[p].path

DeployInv(p) ==
    /\ pc[p] \in {"ensure", "read"} => CardFile(p) \in since[p]
    /\ edit[p] # Nothing => Editable(edit[p])
    /\ Found(p) => \E text \in since[p] : CardIn(text) = found[p]
    /\ pc[p] = "activate" =>
          LET entry == mem[p][ActivatedKey(p)]
          IN  entry.key = found[p].key /\ entry.rev = found[p].rev

AllDeployed == \A p \in Procs : DeployInv(p)

(***************************************************************************)
(* Register and Validate file the card under the key that is activated.    *)
(***************************************************************************)
LEMMA FiledCard ==
    ASSUME IInv, NEW p \in Procs, Register(p)
    PROVE  LET entry == WithPackage(p)[ActivatedKey(p)]
           IN  entry.key = found[p].key /\ entry.rev = found[p].rev
  <1>1. /\ found[p] \in Card /\ target[p] \in Targets
        /\ target[p].known => Known(mem[p], target[p].key)
    BY DEF Register, IInv, ProcessInv, Validating
  <1>2. mem[p] \in EntryMap /\ target[p].key \in Keys /\ target[p].path \in Paths
    BY <1>1 DEF IInv, Types, Targets
  <1>3. CASE target[p].known
    BY <1>1, <1>2, <1>3
       DEF WithPackage, ActivatedKey, ValidatedCard, Revalidated, BuildEntry, EntryMap
  <1>4. CASE ~target[p].known
    BY <1>1, <1>2, <1>4
       DEF WithPackage, ActivatedKey, ValidatedCard, Registered, BuildEntry, EntryMap, Card
  <1> QED
    BY <1>3, <1>4

(***************************************************************************)
(* A process that stays where it was, or only went on with what it found,  *)
(* keeps its history.                                                      *)
(***************************************************************************)
LEMMA SameHistory ==
    ASSUME Observe, NEW q \in Procs,
           pc'[q] \in {"check", "register", "activate"},
           target'[q] = target[q], command'[q] = command[q],
           Found(q) => \E text \in since[q] : CardIn(text) = found[q],
           found'[q] = found[q], pc[q] \in {"check", "register", "activate"}
    PROVE  Found(q)' => \E text \in since'[q] : CardIn(text) = found'[q]
  <1>1. since'[q] = since[q]
    BY DEF Observe
  <1> QED
    BY <1>1 DEF Found

(***************************************************************************)
(* What a command edits it was able to read, and is still able to.         *)
(***************************************************************************)
LEMMA StepEdits ==
    ASSUME IInv, AllDeployed, NEW p \in Procs, ProcessStep(p)
    PROVE  edit'[p] # Nothing => Editable(edit'[p])
  <1>1. edit[p] # Nothing => Editable(edit[p])
    BY DEF AllDeployed, DeployInv
  <1>2. CASE edit' = [edit EXCEPT ![p] = Nothing] \/ UNCHANGED edit
    BY <1>1, <1>2 DEF IInv, Types
  <1>3. CASE /\ LoadCard(p) /\ Editable(CardFile(p)) /\ command[p].url # NotHttp
             /\ edit' = [edit EXCEPT ![p] = [CardFile(p) EXCEPT !.url = command[p].url]]
    <2>1. command[p].url \in Revisions
      BY <1>3 DEF LoadCard, IInv, ProcessInv, Steps, AllCommands
    <2>2. edit'[p] = [CardFile(p) EXCEPT !.url = command[p].url]
      BY <1>3 DEF IInv, Types
    <2> QED
      BY <1>3, <2>1, <2>2 DEF Editable, Texts
  <1> QED
    BY <1>2, <1>3 DEF ProcessStep, Start, LoadCard, OpenCard, WriteCard, Ensure,
       ReadPackage, CheckPackage, Register, Activate, Stop, Exit

(***************************************************************************)
(* Every step keeps what a command knows of the card it deploys.           *)
(***************************************************************************)
LEMMA NextDeployed ==
    ASSUME IInv, IInv', AllDeployed, [Next]_vars
    PROVE  AllDeployed'
  <1>1. ASSUME Observe, NEW q \in Procs
        PROVE  pc'[q] \in {"ensure", "read"} => CardFile(q)' \in since'[q]
    BY <1>1 DEF Observe, CardFile
  <1>2. ASSUME Observe, NEW q \in Procs,
               pc'[q] = pc[q], command'[q] = command[q], mem'[q] = mem[q],
               edit'[q] = edit[q], target'[q] = target[q], found'[q] = found[q]
        PROVE  DeployInv(q)'
    <2>1. DeployInv(q)
      BY DEF AllDeployed
    <2>2. Found(q)' => \E text \in since'[q] : CardIn(text) = found'[q]
      BY <1>2, <2>1, SameHistory DEF DeployInv, Found
    <2>3. ActivatedKey(q)' = ActivatedKey(q)
      BY <1>2 DEF ActivatedKey, ValidatedCard
    <2> QED
      BY <1>1, <1>2, <2>1, <2>2, <2>3 DEF DeployInv
  <1>3. ASSUME NEW p \in Procs, ProcessStep(p)
        PROVE  AllDeployed'
    <2>0. edit'[p] # Nothing => Editable(edit'[p])
      BY <1>3, StepEdits
    <2>1. Observe
      BY <1>3 DEF ProcessStep, Start, LoadCard, OpenCard, WriteCard, Ensure, ReadPackage,
                  CheckPackage, Register, Activate, Stop
    <2>2. ASSUME NEW q \in Procs \ {p} PROVE DeployInv(q)'
      BY <1>2, <1>3, <2>1, StepAlone DEF IInv, OnlyStep
    <2>3. CASE pc'[p] \notin {"ensure", "read", "check", "register", "activate"}
      <3>1. DeployInv(p)'
        BY <2>0, <2>3 DEF DeployInv, Found
      <3> QED
        BY <2>2, <3>1 DEF AllDeployed
    <2>4. CASE pc'[p] \in {"ensure", "read"}
      <3>1. DeployInv(p)'
        BY <1>1, <2>0, <2>1, <2>4 DEF DeployInv, Found
      <3> QED
        BY <2>2, <3>1 DEF AllDeployed
    <2>5. CASE pc'[p] = "check"
      <3>1. ReadPackage(p) /\ pc[p] = "read" /\ UNCHANGED <<command, target>>
            /\ found'[p] = CardIn(files[target[p].path])
        BY <1>3, <2>5 DEF ProcessStep, Start, LoadCard, OpenCard, WriteCard, Ensure,
           ReadPackage, CheckPackage, Register, Activate, Stop, GoTo, Exit, IInv, Types
      <3>2. since'[p] = since[p] /\ CardFile(p) \in since[p]
        BY <2>1, <2>5, <3>1 DEF Observe, AllDeployed, DeployInv
      <3>3. DeployInv(p)'
        BY <2>0, <2>5, <3>1, <3>2 DEF DeployInv, Found, CardFile
      <3> QED
        BY <2>2, <3>3 DEF AllDeployed
    <2>6. CASE pc'[p] = "register"
      <3>1. CheckPackage(p) /\ pc[p] = "check" /\ UNCHANGED <<command, target, found>>
        BY <1>3, <2>6 DEF ProcessStep, Start, LoadCard, OpenCard, WriteCard, Ensure,
           ReadPackage, CheckPackage, Register, Activate, Stop, GoTo, Exit, IInv, Types
      <3>2. Found(p)' => \E text \in since'[p] : CardIn(text) = found'[p]
        BY <2>1, <2>6, <3>1, SameHistory DEF AllDeployed, DeployInv
      <3>3. DeployInv(p)'
        BY <2>0, <2>6, <3>2 DEF DeployInv
      <3> QED
        BY <2>2, <3>3 DEF AllDeployed
    <2>7. CASE pc'[p] = "activate"
      <3>1. /\ Register(p) /\ pc[p] = "register" /\ UNCHANGED <<command, target, found>>
            /\ mem'[p] = WithPackage(p)
        BY <1>3, <2>7 DEF ProcessStep, Start, LoadCard, OpenCard, WriteCard, Ensure,
           ReadPackage, CheckPackage, Register, Activate, Stop, GoTo, Exit, IInv, Types
      <3>2. Found(p)' => \E text \in since'[p] : CardIn(text) = found'[p]
        BY <2>1, <2>7, <3>1, SameHistory DEF AllDeployed, DeployInv
      <3>3. ActivatedKey(p)' = ActivatedKey(p)
        BY <3>1 DEF ActivatedKey, ValidatedCard
      <3>4. DeployInv(p)'
        BY <2>0, <2>7, <3>1, <3>2, <3>3, FiledCard DEF DeployInv
      <3> QED
        BY <2>2, <3>4 DEF AllDeployed
    <2> QED
      BY <2>3, <2>4, <2>5, <2>6, <2>7
  <1>4. ASSUME NEW path \in Paths, Author(path)
        PROVE  AllDeployed'
    BY <1>2, <1>4 DEF Author, AllDeployed
  <1>5. CASE UNCHANGED vars
    BY <1>5 DEF vars, AllDeployed, DeployInv, Found, CardFile, ActivatedKey, ValidatedCard
  <1> QED
    BY <1>3, <1>4, <1>5 DEF Next, ProcessStep

(***************************************************************************)
(* At first no command runs, and there is nothing to know.                 *)
(***************************************************************************)
LEMMA InitDeployed == Init => AllDeployed
  BY DEF Init, AllDeployed, DeployInv, Found

(***************************************************************************)
(* What the one step that reports success does.                            *)
(***************************************************************************)
DeployStep ==
    \A p \in Procs :
        pc[p] = "activate" /\ pc'[p] = "ok" /\ target[p].path = command[p].path =>
            LET entry == published'[ActivatedKey(p)]
            IN  /\ entry.status = "active"
                /\ \E text \in since[p] : CardIn(text) = [key |-> entry.key, rev |-> entry.rev]

(***************************************************************************)
(* An activation that reports success has put into operation a card of     *)
(* the history of the file.                                                *)
(***************************************************************************)
LEMMA StepDeploys ==
    ASSUME IInv, AllDeployed, [Next]_vars
    PROVE  DeployStep
  <1> SUFFICES ASSUME NEW p \in Procs, pc[p] = "activate", pc'[p] = "ok",
                      target[p].path = command[p].path
               PROVE  LET entry == published'[ActivatedKey(p)]
                      IN  /\ entry.status = "active"
                          /\ \E text \in since[p] :
                                CardIn(text) = [key |-> entry.key, rev |-> entry.rev]
    BY DEF DeployStep
  <1>1. ProcessStep(p)
    <2>1. ASSUME NEW q \in Procs, ProcessStep(q), q # p PROVE FALSE
      BY <2>1, StepAlone DEF IInv, OnlyStep
    <2>2. ASSUME NEW path \in Paths, Author(path) PROVE FALSE
      BY <2>2 DEF Author
    <2>3. CASE UNCHANGED vars
      BY <2>3 DEF vars
    <2> QED
      BY <2>1, <2>2, <2>3 DEF Next, ProcessStep
  <1>2. published' = WithStatus(mem[p], ActivatedKey(p), "active")
    BY <1>1 DEF ProcessStep, Start, LoadCard, OpenCard, WriteCard, Ensure,
       ReadPackage, CheckPackage, Register, Activate, Stop, GoTo, Exit, IInv, Types
  <1>3. /\ found[p] \in Card /\ Known(mem[p], ActivatedKey(p)) /\ ActivatedKey(p) \in Keys
        /\ mem[p] \in EntryMap
    BY DEF IInv, ProcessInv, Validating, Types, ActivatedKey, ValidatedCard, Targets, Card
  <1> DEFINE entry == mem[p][ActivatedKey(p)]
  <1>4. entry \in Entry /\ published'[ActivatedKey(p)] = [entry EXCEPT !.status = "active"]
    BY <1>2, <1>3 DEF WithStatus, EntryMap, Known
  <1>5. PICK text \in since[p] : CardIn(text) = found[p]
    BY DEF AllDeployed, DeployInv, Found
  <1>6. found[p] = [key |-> entry.key, rev |-> entry.rev]
    BY <1>3 DEF AllDeployed, DeployInv, Card
  <1> QED
    BY <1>4, <1>5, <1>6 DEF Entry

(***************************************************************************)
(* A command that reports success has activated what the card file said    *)
(* between its start, or its own write, and its validation.                *)
(***************************************************************************)
THEOREM TheCardIsDeployed == Spec => DeploysTheCard
  <1> QED
    BY InitDeployed, InitIInv, NextIInv, NextDeployed, StepDeploys, PTL
       DEF Spec, DeploysTheCard, DeployStep

-----------------------------------------------------------------------------
(***************************************************************************)
(* What a step does that gives up on the card the process has written.     *)
(***************************************************************************)
RereadStep ==
    \A p \in Procs :
        ( /\ pc[p] = "ensure" /\ pc'[p] = "error" /\ edit[p] # Nothing
          /\ since[p] = {ToYamlString(edit[p])} )
        =>  \/ edit[p].constraints = "void"
            \/ /\ Known(mem[p], edit[p].key)
               /\ mem[p][edit[p].key].status = "deleted"

(***************************************************************************)
(* A bootstrap that fails at its second read has a reason the property     *)
(* names.                                                                  *)
(***************************************************************************)
LEMMA StepRereads ==
    ASSUME IInv, AllDeployed, [Next]_vars
    PROVE  RereadStep
  <1> SUFFICES ASSUME NEW p \in Procs, pc[p] = "ensure", pc'[p] = "error",
                      edit[p] # Nothing, since[p] = {ToYamlString(edit[p])},
                      edit[p].constraints # "void"
               PROVE  /\ Known(mem[p], edit[p].key)
                      /\ mem[p][edit[p].key].status = "deleted"
    BY DEF RereadStep
  <1>1. ProcessStep(p)
    <2>1. ASSUME NEW q \in Procs, ProcessStep(q), q # p PROVE FALSE
      BY <2>1, StepAlone DEF IInv, OnlyStep
    <2>2. ASSUME NEW path \in Paths, Author(path) PROVE FALSE
      BY <2>2 DEF Author
    <2>3. CASE UNCHANGED vars
      BY <2>3 DEF vars
    <2> QED
      BY <2>1, <2>2, <2>3 DEF Next, ProcessStep
  <1>2. CardFile(p) = ToYamlString(edit[p]) /\ Editable(edit[p])
    BY DEF AllDeployed, DeployInv
  <1>3. Editable(CardFile(p)) /\ CardFile(p).key = edit[p].key
    BY <1>2 DEF ToYamlString, Editable, Texts
  <1>4. Ensure(p)
    BY <1>1 DEF ProcessStep, Start, LoadCard, OpenCard, WriteCard, Ensure,
       ReadPackage, CheckPackage, Register, Activate, Stop, GoTo, Exit, IInv, Types
  <1> QED
    BY <1>3, <1>4 DEF Ensure, GoTo, Validatable, IInv, Types

(***************************************************************************)
(* bootstrap-service gets past its own text, deleted keys and void         *)
(* constraints apart.                                                      *)
(***************************************************************************)
THEOREM OwnCardIsRead == Spec => BootstrapReadsItsOwnCard
  BY InitDeployed, InitIInv, NextIInv, NextDeployed, StepRereads, PTL
     DEF Spec, BootstrapReadsItsOwnCard, RereadStep
=============================================================================
