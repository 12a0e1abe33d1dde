------------------------ MODULE RegistryProcessesProofs ------------------------
(***************************************************************************)
(* Proofs about RegistryProcesses, for any number of processes, keys,      *)
(* packages and commands, with processes killed between any two steps,     *)
(* files that cannot be opened and writes that fail unnoticed.             *)
(*                                                                         *)
(* What a process holds is a legal future of what it loaded, whatever the  *)
(* others do (IInv).  When commands do not overlap, it is a legal future   *)
(* of the file as well (Serial).                                           *)
(***************************************************************************)
EXTENDS RegistryProcesses, RegistryEntriesProofs, SequenceTheorems

(***************************************************************************)
(* A map as commands make it: entries under their own keys, which are      *)
(* those of the cards of their packages.                                   *)
(***************************************************************************)
Legal(map) ==
    /\ FiledByOwnKey(map)
    /\ \A k \in Keys : Known(map, k) => CardAt[map[k].path].key = k

(***************************************************************************)
(* A process holds a legal future of what it loaded, and a command that    *)
(* works has an operation left.                                            *)
(***************************************************************************)
ProcessInv(p) ==
    /\ Legal(loaded[p]) /\ Legal(mem[p])
    /\ Ahead(mem[p], loaded[p])
    /\ pc[p] = "working" => todo[p] # <<>>

IInv == TypeOK /\ Legal(published) /\ \A p \in Procs : ProcessInv(p)

(***************************************************************************)
(* A command is register-activate if two operations are left of it, and    *)
(* then it has not begun: they are what its map made it plan.              *)
(***************************************************************************)
PlanInv(p) ==
    /\ Len(todo[p]) <= IF pc[p] = "working" THEN 2 ELSE 1
    /\ Len(todo[p]) = 2 =>
         \E command \in Commands :
            /\ command.op = "register-activate"
            /\ todo[p] = Plan(command, mem[p])

(***************************************************************************)
(* When commands do not overlap, at most one runs, and what it holds is a  *)
(* future of what is published.                                            *)
(***************************************************************************)
Serial ==
    /\ \A p, q \in Procs : pc[p] # "idle" /\ pc[q] # "idle" => p = q
    /\ \A p \in Procs : pc[p] # "idle" => Ahead(mem[p], published)

(***************************************************************************)
(* The lifecycle of the published map has the edges of the lemmas of       *)
(* RegistryEntriesProofs.                                                  *)
(***************************************************************************)
LEMMA SameEdges ==
    /\ Lives!LifeStatus = LifeIn!LifeStatus
    /\ Lives!Later = LifeIn!Later
  BY DEF Lives!LifeStatus, LifeIn!LifeStatus, Lives!Later, LifeIn!Later

(***************************************************************************)
(* A command that does nothing leaves its map as far as it was.            *)
(***************************************************************************)
LEMMA AheadOfItself ==
    ASSUME NEW map
    PROVE  Ahead(map, map)
  BY DEF Ahead, NotBehind

(***************************************************************************)
(* The empty map of a process that does not run, and of a missing file.    *)
(***************************************************************************)
LEMMA EmptyMapIsLegal == EmptyMap \in EntryMap /\ Legal(EmptyMap)
  BY DEF EmptyMap, EntryMap, Legal, FiledByOwnKey, Known

(***************************************************************************)
(* A map that is filed by its keys is found again by Load.                 *)
(***************************************************************************)
LEMMA LegalIsLoaded ==
    ASSUME NEW map \in EntryMap, Legal(map)
    PROVE  Loaded(map) = map
  BY LoadedIsSaved DEF Legal, FiledByOwnKey

(***************************************************************************)
(* The card of a package.                                                  *)
(***************************************************************************)
LEMMA CardTypes ==
    ASSUME NEW path \in Paths
    PROVE  CardAt[path] \in Card /\ CardAt[path].key \in Keys
  BY CardAtAssumption DEF Card

(***************************************************************************)
(* An entry put under its own key, of a package with that key, leaves the  *)
(* map legal.                                                              *)
(***************************************************************************)
LEMMA TouchedIsLegal ==
    ASSUME NEW base, Legal(base), NEW k \in Keys, NEW map, Touched(map, base, k),
           map[k].key = k, CardAt[map[k].path].key = k
    PROVE  Legal(map)
  BY DEF Legal, FiledByOwnKey, Touched, Known

(***************************************************************************)
(* An operation that is not refused moves one key along one edge of the    *)
(* lifecycle and leaves a legal map: the guards of Register, Validate,     *)
(* Activate, Disable and Delete.                                           *)
(***************************************************************************)
LEMMA DoneOneEdge ==
    ASSUME NEW map \in EntryMap, Legal(map),
           NEW o \in Operations, Allowed(o, map)
    PROVE  /\ Done(o, map) \in EntryMap
           /\ Legal(Done(o, map))
           /\ OneEdge(Done(o, map), map)
  <1>1. CASE o.op = "register"
    <2> DEFINE card == CardAt[o.path]
    <2>1. o.path \in Paths
      BY <1>1 DEF Operations
    <2>2. card \in Card /\ card.key \in Keys
      BY <2>1, CardTypes
    <2>3. ~Known(map, card.key)
      BY <1>1 DEF Allowed
    <2>4. Done(o, map) = Registered(map, card, o.path)
      BY <1>1 DEF Done
    <2> HIDE DEF card
    <2>5. /\ Touched(Done(o, map), map, card.key)
          /\ Done(o, map)[card.key].key = card.key
          /\ Done(o, map)[card.key].path = o.path
          /\ OneEdge(Done(o, map), map)
      BY <2>1, <2>2, <2>3, <2>4, RegisteredOneEdge
    <2>6. Done(o, map) \in EntryMap
      BY <2>1, <2>2, <2>4, RegisteredType
    <2>7. Legal(Done(o, map))
      BY <2>2, <2>5, TouchedIsLegal DEF card
    <2> QED
      BY <2>5, <2>6, <2>7
  <1>2. CASE o.op = "validate"
    <2> DEFINE k == o.key
               card == CardAt[map[k].path]
    <2>1. k \in Keys /\ Known(map, k) /\ Validatable(map[k].status)
      BY <1>2 DEF Operations, Allowed
    <2>2. map[k].path \in Paths
      BY <2>1 DEF EntryMap, Known, Entry
    <2>3. card \in Card /\ card.key = k
      BY <2>1, <2>2, CardTypes DEF Legal
    <2>4. Done(o, map) = Revalidated(map, k, card)
      BY <1>2 DEF Done
    <2>5. /\ Touched(Done(o, map), map, k)
          /\ Done(o, map)[k].key = k
          /\ Done(o, map)[k].path = map[k].path
          /\ OneEdge(Done(o, map), map)
      BY <2>1, <2>3, <2>4, RevalidatedOneEdge
    <2>6. Done(o, map) \in EntryMap
      BY <2>1, <2>3, <2>4, RevalidatedType
    <2>7. Legal(Done(o, map))
      BY <2>1, <2>3, <2>5, TouchedIsLegal
    <2> QED
      BY <2>5, <2>6, <2>7
  <1>3. ASSUME NEW s \in Status,
               o.op \in {"activate", "disable", "delete"},
               Done(o, map) = WithStatus(map, o.key, s),
               \/ s = "active" /\ Activatable(map[o.key].status)
               \/ s = "disabled" /\ Disableable(map[o.key].status)
               \/ s = "deleted"
        PROVE  /\ Done(o, map) \in EntryMap
               /\ Legal(Done(o, map))
               /\ OneEdge(Done(o, map), map)
    <2> DEFINE k == o.key
    <2>1. k \in Keys /\ Known(map, k)
      BY <1>3 DEF Operations, Allowed
    <2>2. /\ Touched(Done(o, map), map, k)
          /\ Done(o, map)[k].key = map[k].key
          /\ Done(o, map)[k].path = map[k].path
          /\ OneEdge(Done(o, map), map)
      BY <1>3, <2>1, WithStatusOneEdge
    <2>3. Done(o, map) \in EntryMap
      BY <1>3, <2>1, WithStatusType
    <2>4. map[k].key = k /\ CardAt[map[k].path].key = k
      BY <2>1 DEF Legal, FiledByOwnKey
    <2>5. Legal(Done(o, map))
      BY <2>1, <2>2, <2>4, TouchedIsLegal
    <2> QED
      BY <2>2, <2>3, <2>5
  <1>4. {"active", "disabled", "deleted"} \subseteq Status
    BY DEF Status
  <1>5. CASE o.op = "activate"
    <2>1. Done(o, map) = WithStatus(map, o.key, "active")
      BY <1>5 DEF Done
    <2>2. Activatable(map[o.key].status)
      BY <1>5 DEF Allowed
    <2> QED
      BY <1>3, <1>4, <1>5, <2>1, <2>2
  <1>6. CASE o.op = "disable"
    <2>1. Done(o, map) = WithStatus(map, o.key, "disabled")
      BY <1>6 DEF Done
    <2>2. Disableable(map[o.key].status)
      BY <1>6 DEF Allowed
    <2> QED
      BY <1>3, <1>4, <1>6, <2>1, <2>2
  <1>7. CASE o.op = "delete"
    <2>1. Done(o, map) = WithStatus(map, o.key, "deleted")
      BY <1>7 DEF Done
    <2> QED
      BY <1>3, <1>4, <1>7, <2>1
  <1> QED
    BY <1>1, <1>2, <1>5, <1>6, <1>7 DEF Operations

(***************************************************************************)
(* A command plans at least one operation (EnsureRegisteredAndActive plans *)
(* two).                                                                   *)
(***************************************************************************)
LEMMA PlanTypes ==
    ASSUME NEW command \in Commands, NEW map
    PROVE  Plan(command, map) \in Seq(Operations) /\ Plan(command, map) # <<>>
  <1>1. command \in AllCommands
    BY CommandsAssumption
  <1>2. CASE command.op # "register-activate"
    <2>1. command \in Operations
      BY <1>1, <1>2 DEF AllCommands
    <2> QED
      BY <1>2, <2>1 DEF Plan
  <1>3. CASE command.op = "register-activate"
    <2> DEFINE k == CardAt[command.path].key
               first == IF Known(map, k) THEN [op |-> "validate", key |-> k]
                        ELSE [op |-> "register", path |-> command.path]
               second == [op |-> "activate", key |-> k]
    <2>1. command.path \in Paths
      BY <1>1, <1>3 DEF AllCommands, Operations
    <2>2. k \in Keys
      BY <2>1, CardTypes
    <2>3. first \in Operations /\ second \in Operations
      BY <2>1, <2>2 DEF Operations
    <2>4. Plan(command, map) = <<first, second>>
      BY <1>3 DEF Plan
    <2> HIDE DEF first, second
    <2> QED
      BY <2>3, <2>4
  <1> QED
    BY <1>2, <1>3
-----------------------------------------------------------------------------
(***************************************************************************)
(* A step of one process: it touches no other process, so that the         *)
(* invariant holds after it if it holds of what the process holds then.    *)
(***************************************************************************)
StepOf(p, c, base, map, operations, how) ==
    /\ pc' = [pc EXCEPT ![p] = c]
    /\ loaded' = [loaded EXCEPT ![p] = base]
    /\ mem' = [mem EXCEPT ![p] = map]
    /\ todo' = [todo EXCEPT ![p] = operations]
    /\ exit' = [exit EXCEPT ![p] = how]

(***************************************************************************)
(* Of such a step only the process that takes it has to be looked at.      *)
(***************************************************************************)
LEMMA StepOfIInv ==
    ASSUME IInv, NEW p \in Procs,
           NEW c \in {"idle", "working", "saving", "writing"},
           NEW base \in EntryMap, NEW map \in EntryMap,
           NEW operations \in Seq(Operations),
           NEW how \in {"none", "ok", "error", "killed"},
           StepOf(p, c, base, map, operations, how),
           Legal(base), Legal(map), Ahead(map, base),
           c = "working" => operations # <<>>,
           file' \in {"whole", "empty", "garbled"},
           published' \in {published, mem[p]}
    PROVE  IInv'
  <1>1. TypeOK'
    BY DEF IInv, TypeOK, StepOf
  <1>2. Legal(published)'
    <2>1. Legal(published) /\ Legal(mem[p])
      BY DEF IInv, ProcessInv
    <2> QED
      BY <2>1 DEF Legal, FiledByOwnKey, Known
  <1>3. ASSUME NEW q \in Procs
        PROVE  ProcessInv(q)'
    <2>1. CASE q = p
      <3>1. /\ pc'[p] = c /\ loaded'[p] = base /\ mem'[p] = map
            /\ todo'[p] = operations
        BY DEF StepOf, IInv, TypeOK
      <3> QED
        BY <2>1, <3>1
        DEF ProcessInv, Legal, FiledByOwnKey, Known, Ahead, LifeOf
    <2>2. CASE q # p
      <3>1. /\ pc'[q] = pc[q] /\ loaded'[q] = loaded[q] /\ mem'[q] = mem[q]
            /\ todo'[q] = todo[q]
        BY <2>2 DEF StepOf, IInv, TypeOK
      <3>2. ProcessInv(q)
        BY DEF IInv
      <3> QED
        BY <3>1, <3>2
        DEF ProcessInv, Legal, FiledByOwnKey, Known, Ahead, LifeOf
    <2> QED
      BY <2>1, <2>2
  <1> QED
    BY <1>1, <1>2, <1>3 DEF IInv

(***************************************************************************)
(* What an ended process leaves (Exit): nothing that could be illegal.     *)
(***************************************************************************)
LEMMA ExitIInv ==
    ASSUME IInv, NEW p \in Procs, NEW how \in {"ok", "error", "killed"},
           Exit(p, how),
           file' \in {"whole", "empty", "garbled"},
           published' \in {published, mem[p]}
    PROVE  IInv'
  <1>1. StepOf(p, "idle", EmptyMap, EmptyMap, <<>>, how)
    BY DEF Exit, StepOf
  <1>2. <<>> \in Seq(Operations)
    OBVIOUS
  <1> QED
    BY <1>1, <1>2, EmptyMapIsLegal, AheadOfItself, StepOfIInv

(***************************************************************************)
(* The processes that have not started yet hold nothing.                   *)
(***************************************************************************)
LEMMA InitIInv == Init => IInv
  <1> SUFFICES ASSUME Init PROVE IInv
    OBVIOUS
  <1>1. published \in EntryMap /\ Legal(published)
    BY InitialFilesAssumption DEF Init, Legal
  <1>2. TypeOK
    BY <1>1, EmptyMapIsLegal DEF Init, TypeOK
  <1>3. ASSUME NEW p \in Procs
        PROVE  ProcessInv(p)
    BY EmptyMapIsLegal, AheadOfItself DEF Init, ProcessInv
  <1> QED
    BY <1>1, <1>2, <1>3 DEF IInv

(***************************************************************************)
(* A started command holds what it loaded, which is the published map.     *)
(***************************************************************************)
LEMMA StartIInv ==
    ASSUME IInv, NEW p \in Procs, NEW command \in Commands, Start(p, command)
    PROVE  IInv'
  <1>1. Loaded(published) = published
    BY LegalIsLoaded DEF IInv, TypeOK
  <1>2. StepOf(p, "working", published, published,
               Plan(command, published), "none")
    BY <1>1 DEF Start, StepOf
  <1>3. /\ Plan(command, published) \in Seq(Operations)
        /\ Plan(command, published) # <<>>
    BY PlanTypes
  <1>4. file' = file /\ published' = published
    BY DEF Start
  <1>5. published \in EntryMap /\ Legal(published)
        /\ file \in {"whole", "empty", "garbled"}
    BY DEF IInv, TypeOK
  <1> QED
    BY <1>2, <1>3, <1>4, <1>5, AheadOfItself, StepOfIInv

(***************************************************************************)
(* An operation leads on from what the command held before it.             *)
(***************************************************************************)
LEMMA OperateMap ==
    ASSUME IInv, NEW p \in Procs, Operate(p)
    PROVE  /\ Done(Head(todo[p]), mem[p]) \in EntryMap
           /\ Legal(Done(Head(todo[p]), mem[p]))
           /\ Ahead(Done(Head(todo[p]), mem[p]), mem[p])
           /\ Tail(todo[p]) \in Seq(Operations)
  <1>1. todo[p] \in Seq(Operations) /\ todo[p] # <<>>
    BY DEF IInv, TypeOK, ProcessInv, Operate
  <1>2. Head(todo[p]) \in Operations /\ Tail(todo[p]) \in Seq(Operations)
    BY <1>1, HeadTailProperties
  <1>3. mem[p] \in EntryMap /\ Legal(mem[p]) /\ Allowed(Head(todo[p]), mem[p])
    BY DEF IInv, TypeOK, ProcessInv, Operate
  <1>4. /\ Done(Head(todo[p]), mem[p]) \in EntryMap
        /\ Legal(Done(Head(todo[p]), mem[p]))
        /\ OneEdge(Done(Head(todo[p]), mem[p]), mem[p])
    BY <1>2, <1>3, DoneOneEdge
  <1> QED
    BY <1>2, <1>3, <1>4, OneEdgeIsAhead

(***************************************************************************)
(* An operation leads the map of its process one edge further.             *)
(***************************************************************************)
LEMMA OperateIInv ==
    ASSUME IInv, NEW p \in Procs, Operate(p)
    PROVE  IInv'
  <1> DEFINE map == Done(Head(todo[p]), mem[p])
             rest == Tail(todo[p])
  <1>1. /\ map \in EntryMap /\ Legal(map) /\ Ahead(map, mem[p])
        /\ rest \in Seq(Operations)
    BY OperateMap
  <1>2. /\ StepOf(p, "saving", loaded[p], map, rest, exit[p])
        /\ file' = file /\ published' = published
    BY DEF Operate, StepOf, IInv, TypeOK
  <1>3. /\ loaded[p] \in EntryMap /\ Legal(loaded[p]) /\ mem[p] \in EntryMap
        /\ Ahead(mem[p], loaded[p])
        /\ exit[p] \in {"none", "ok", "error", "killed"}
        /\ file \in {"whole", "empty", "garbled"}
    BY DEF IInv, TypeOK, ProcessInv
  <1> HIDE DEF map, rest
  <1>4. Ahead(map, loaded[p])
    BY <1>1, <1>3, AheadTransitive
  <1> QED
    BY <1>1, <1>2, <1>3, <1>4, StepOfIInv

(***************************************************************************)
(* Opening the file and writing it change nothing of what is held.         *)
(***************************************************************************)
LEMMA SaveIInv ==
    ASSUME IInv, NEW p \in Procs, OpenForSave(p) \/ Write(p)
    PROVE  IInv'
  <1>1. /\ file' \in {"whole", "empty", "garbled"}
        /\ published' \in {published, mem[p]}
    BY DEF OpenForSave, Write, Written, WrittenWhole, MixedUp, CutShort, IInv, TypeOK
  <1>2. ASSUME NEW c \in {"working", "writing"}, pc' = [pc EXCEPT ![p] = c],
               UNCHANGED <<loaded, mem, todo, exit>>,
               c = "working" => todo[p] # <<>>
        PROVE  IInv'
    <2>1. StepOf(p, c, loaded[p], mem[p], todo[p], exit[p])
      BY <1>2 DEF StepOf, IInv, TypeOK
    <2>2. /\ loaded[p] \in EntryMap /\ mem[p] \in EntryMap
          /\ todo[p] \in Seq(Operations)
          /\ exit[p] \in {"none", "ok", "error", "killed"}
      BY DEF IInv, TypeOK
    <2>3. Legal(loaded[p]) /\ Legal(mem[p]) /\ Ahead(mem[p], loaded[p])
      BY DEF IInv, ProcessInv
    <2> QED
      BY <1>1, <1>2, <2>1, <2>2, <2>3, StepOfIInv
  <1>3. \/ Exit(p, "error") \/ Exit(p, "ok")
        \/ \E c \in {"working", "writing"} :
              /\ pc' = [pc EXCEPT ![p] = c]
              /\ UNCHANGED <<loaded, mem, todo, exit>>
              /\ c = "working" => todo[p] # <<>>
    BY DEF OpenForSave, Write
  <1> QED
    BY <1>1, <1>2, <1>3, ExitIInv

(***************************************************************************)
(* Every step of every process preserves the invariant.                    *)
(***************************************************************************)
LEMMA NextIInv ==
    ASSUME IInv, [Next]_vars
    PROVE  IInv'
  <1>1. CASE UNCHANGED vars
    BY <1>1 DEF vars, IInv, TypeOK, ProcessInv, Legal, FiledByOwnKey, Known,
                Ahead, LifeOf
  <1>2. ASSUME NEW p \in Procs,
               StartUnreadable(p) \/ Refuse(p) \/ Stop(p)
        PROVE  IInv'
    <2>1. \E how \in {"ok", "error", "killed"} : Exit(p, how)
      BY <1>2 DEF StartUnreadable, Refuse, Stop
    <2>2. published' = published /\ file' \in {"whole", "empty", "garbled"}
      BY <1>2 DEF StartUnreadable, Refuse, Stop, IInv, TypeOK
    <2> QED
      BY <2>1, <2>2, ExitIInv
  <1> QED
    BY <1>1, <1>2, StartIInv, OperateIInv, SaveIInv DEF Next

(***************************************************************************)
(* However commands overlap, and wherever they are killed, what each holds *)
(* is a legal future of what it loaded.                                    *)
(***************************************************************************)
THEOREM Invariance == Spec => []IInv
  BY InitIInv, NextIInv, PTL DEF Spec

(***************************************************************************)
(* Type correctness.                                                       *)
(***************************************************************************)
THEOREM TypeCorrect == Spec => []TypeOK
  <1>1. IInv => TypeOK
    BY DEF IInv
  <1> QED
    BY <1>1, Invariance, PTL

(***************************************************************************)
(* Only a write publishes, and it publishes what its process holds         *)
(* (RegistryStore::SaveEntries).                                           *)
(***************************************************************************)
LEMMA PublishedByWrite ==
    ASSUME [Next]_vars
    PROVE  \/ published' = published
           \/ \E p \in Procs :
                 Write(p) /\ published' = mem[p] /\ file' = "whole"
  BY DEF Next, vars, Start, StartUnreadable, Operate, Refuse, OpenForSave,
         Write, Written, WrittenWhole, MixedUp, CutShort, Stop

(***************************************************************************)
(* However commands overlap, what a process publishes is a legal future of *)
(* what it loaded when it started.                                         *)
(***************************************************************************)
THEOREM PublishesFuture == Spec => PublishesItsOwnFuture
  <1>1. ASSUME IInv, [Next]_vars, published' # published
        PROVE  \E p \in Procs :
                  /\ pc[p] = "writing"
                  /\ \A k \in Keys :
                      \/ LifeOf(published')[k] = LifeOf(loaded[p])[k]
                      \/ LifeOf(published')[k] \in
                            LifeIn!Later[LifeOf(loaded[p])[k]]
    <2>1. PICK p \in Procs : Write(p) /\ published' = mem[p]
      BY <1>1, PublishedByWrite
    <2>2. pc[p] = "writing"
      BY <2>1 DEF Write
    <2>3. Ahead(mem[p], loaded[p])
      BY <1>1 DEF IInv, ProcessInv
    <2> QED
      BY <2>1, <2>2, <2>3, SameEdges DEF Ahead, NotBehind
  <1> QED
    BY <1>1, Invariance, PTL DEF Spec, PublishesItsOwnFuture
-----------------------------------------------------------------------------
(***************************************************************************)
(* What a command plans: EnsureRegisteredAndActive plans two operations,   *)
(* every other command is one.                                             *)
(***************************************************************************)
LEMMA PlanLengths ==
    ASSUME NEW command \in Commands, NEW map
    PROVE  /\ Len(Plan(command, map)) <= 2
           /\ Len(Plan(command, map)) = 2 => command.op = "register-activate"
  <1>1. CASE command.op # "register-activate"
    BY <1>1 DEF Plan
  <1>2. CASE command.op = "register-activate"
    BY <1>2 DEF Plan
  <1> QED
    BY <1>1, <1>2

(***************************************************************************)
(* Of a step of one process only that process has to be looked at.         *)
(***************************************************************************)
LEMMA StepOfPlan ==
    ASSUME TypeOK, \A q \in Procs : PlanInv(q), NEW p \in Procs,
           \E c, map, operations :
              /\ pc' = [pc EXCEPT ![p] = c]
              /\ mem' = [mem EXCEPT ![p] = map]
              /\ todo' = [todo EXCEPT ![p] = operations],
           PlanInv(p)'
    PROVE  \A q \in Procs : PlanInv(q)'
  <1> TAKE q \in Procs
  <1>1. CASE q # p
    <2>1. pc'[q] = pc[q] /\ mem'[q] = mem[q] /\ todo'[q] = todo[q]
      BY <1>1 DEF TypeOK
    <2>2. PlanInv(q)
      OBVIOUS
    <2> QED
      BY <2>1, <2>2 DEF PlanInv
  <1> QED
    BY <1>1

(***************************************************************************)
(* Two operations are left of a command only while it has not begun.       *)
(***************************************************************************)
LEMMA NextPlan ==
    ASSUME IInv, \A q \in Procs : PlanInv(q), [Next]_vars
    PROVE  \A q \in Procs : PlanInv(q)'
  <1>1. CASE UNCHANGED vars
    BY <1>1 DEF vars, PlanInv
  <1>2. ASSUME NEW p \in Procs, NEW how, Exit(p, how)
        PROVE  \A q \in Procs : PlanInv(q)'
    <2>1. todo'[p] = <<>> /\ pc'[p] = "idle"
      BY <1>2 DEF Exit, IInv, TypeOK
    <2>2. PlanInv(p)'
      BY <2>1 DEF PlanInv
    <2> QED
      BY <1>2, <2>2, StepOfPlan DEF Exit, IInv
  <1>3. ASSUME NEW p \in Procs, NEW command \in Commands, Start(p, command)
        PROVE  \A q \in Procs : PlanInv(q)'
    <2> DEFINE map == Loaded(published)
    <2>1. /\ todo'[p] = Plan(command, map) /\ pc'[p] = "working"
          /\ mem'[p] = map
      BY <1>3 DEF Start, IInv, TypeOK
    <2> HIDE DEF map
    <2>2. PlanInv(p)'
      BY <2>1, PlanLengths DEF PlanInv
    <2> QED
      BY <1>3, <2>2, StepOfPlan DEF Start, IInv
  <1>4. ASSUME NEW p \in Procs, Operate(p)
        PROVE  \A q \in Procs : PlanInv(q)'
    <2>1. todo'[p] = Tail(todo[p]) /\ pc'[p] = "saving" /\ pc[p] = "working"
      BY <1>4 DEF Operate, IInv, TypeOK
    <2>2. todo[p] \in Seq(Operations) /\ todo[p] # <<>> /\ Len(todo[p]) <= 2
      BY <2>1 DEF IInv, TypeOK, ProcessInv, PlanInv
    <2>3. /\ Len(Tail(todo[p])) = Len(todo[p]) - 1
          /\ Len(todo[p]) \in Nat /\ Len(todo[p]) <= 2
      BY <2>2, HeadTailProperties, LenProperties
    <2>4. /\ Len(todo'[p]) <= IF pc'[p] = "working" THEN 2 ELSE 1
          /\ Len(todo'[p]) # 2
      <3>1. Len(todo'[p]) = Len(todo[p]) - 1
        BY <2>1, <2>3
      <3> HIDE <2>1
      <3>2. Len(todo'[p]) <= 1 /\ Len(todo'[p]) # 2
        BY <2>3, <3>1
      <3> QED
        BY <2>1, <3>2
    <2>5. PlanInv(p)'
      BY <2>4, Zenon DEF PlanInv
    <2> QED
      BY <1>4, <2>5, StepOfPlan DEF Operate, IInv
  <1>5. ASSUME NEW p \in Procs, NEW c \in {"working", "writing"},
               pc[p] \in {"saving", "writing"},
               pc' = [pc EXCEPT ![p] = c], UNCHANGED <<mem, todo>>
        PROVE  \A q \in Procs : PlanInv(q)'
    <2>1. Len(todo[p]) <= 1 /\ todo[p] \in Seq(Operations)
      BY <1>5 DEF PlanInv, IInv, TypeOK
    <2>2. PlanInv(p)'
      BY <1>5, <2>1, LenProperties DEF PlanInv, IInv, TypeOK
    <2>3. mem' = [mem EXCEPT ![p] = mem[p]] /\ todo' = [todo EXCEPT ![p] = todo[p]]
      BY <1>5 DEF IInv, TypeOK
    <2> QED
      BY <1>5, <2>2, <2>3, StepOfPlan DEF IInv
  <1>6. ASSUME NEW p \in Procs, OpenForSave(p) \/ Write(p)
        PROVE  \A q \in Procs : PlanInv(q)'
    BY <1>2, <1>5, <1>6 DEF OpenForSave, Write
  <1>7. ASSUME NEW p \in Procs, StartUnreadable(p) \/ Refuse(p) \/ Stop(p)
        PROVE  \A q \in Procs : PlanInv(q)'
    BY <1>2, <1>7 DEF StartUnreadable, Refuse, Stop
  <1> QED
    BY <1>1, <1>3, <1>4, <1>6, <1>7 DEF Next

(***************************************************************************)
(* The two operations planned for a key that is not deleted are allowed    *)
(* one after the other.                                                    *)
(***************************************************************************)
LEMMA PlannedIsAllowed ==
    ASSUME NEW command \in Commands, command.op = "register-activate",
           NEW map \in EntryMap
    PROVE  LET plan == Plan(command, map)
           IN  \/ /\ Allowed(plan[1], map)
                  /\ Allowed(plan[2], Done(plan[1], map))
               \/ LifeOf(map)[plan[2].key] = "deleted"
  <1> DEFINE k == CardAt[command.path].key
             card == CardAt[command.path]
             plan == Plan(command, map)
  <1>1. command.path \in Paths
    BY CommandsAssumption DEF AllCommands, Operations
  <1>2. card \in Card /\ k \in Keys
    BY <1>1, CardTypes
  <1>3. /\ plan[1] = IF Known(map, k) THEN [op |-> "validate", key |-> k]
                     ELSE [op |-> "register", path |-> command.path]
        /\ plan[2] = [op |-> "activate", key |-> k]
    BY DEF Plan
  <1>4. CASE ~Known(map, k)
    <2>1. plan[1] = [op |-> "register", path |-> command.path]
      BY <1>3, <1>4
    <2>2. Allowed(plan[1], map)
      BY <1>4, <2>1 DEF Allowed
    <2>3. Done(plan[1], map) = Registered(map, card, command.path)
      BY <2>1 DEF Done
    <2>4. /\ Registered(map, card, command.path)[k] =
               BuildEntry(card, command.path, "validated")
          /\ Registered(map, card, command.path) \in EntryMap
      BY <1>1, <1>2, RegisteredType DEF Registered, EntryMap
    <2>5. BuildEntry(card, command.path, "validated") \in Entry
      BY <1>1, <1>2 DEF BuildEntry, Entry, Card, Status
    <2>6. /\ Known(Done(plan[1], map), k)
          /\ Done(plan[1], map)[k].status = "validated"
      BY <2>3, <2>4, <2>5, NoEntryAssumption DEF Known, BuildEntry
    <2>7. Allowed(plan[2], Done(plan[1], map))
      BY <1>3, <2>6 DEF Allowed, Activatable
    <2> QED
      BY <2>2, <2>7
  <1>5. CASE Known(map, k) /\ map[k].status # "deleted"
    <2> DEFINE new == CardAt[map[k].path]
    <2>1. plan[1] = [op |-> "validate", key |-> k]
      BY <1>3, <1>5
    <2>2. Allowed(plan[1], map)
      BY <1>5, <2>1 DEF Allowed, Validatable
    <2>3. map[k] \in Entry /\ new \in Card
      BY <1>2, <1>5, CardTypes DEF EntryMap, Known, Entry
    <2>4. Done(plan[1], map) = Revalidated(map, k, new)
      BY <2>1 DEF Done
    <2>5. Revalidated(map, k, new)[k] =
             BuildEntry(new, map[k].path,
                        IF map[k].status = "draft" THEN "validated"
                        ELSE map[k].status)
      BY <1>2 DEF Revalidated, EntryMap
    <2>6. /\ Revalidated(map, k, new)[k] \in Entry
          /\ Revalidated(map, k, new)[k].status \in
                {"validated", "active", "disabled"}
      <3>1. map[k].status \in Status \ {"deleted"} /\ map[k].path \in Paths
        BY <1>5, <2>3 DEF Entry
      <3> QED
        BY <2>3, <2>5, <3>1 DEF BuildEntry, Entry, Card, Status
    <2>7. /\ Known(Done(plan[1], map), k)
          /\ Activatable(Done(plan[1], map)[k].status)
      BY <2>4, <2>6, NoEntryAssumption DEF Activatable, Known
    <2>8. Allowed(plan[2], Done(plan[1], map))
      BY <1>3, <2>7 DEF Allowed
    <2> QED
      BY <2>2, <2>8
  <1>6. CASE Known(map, k) /\ map[k].status = "deleted"
    BY <1>2, <1>3, <1>6 DEF LifeOf
  <1> QED
    BY <1>4, <1>5, <1>6

(***************************************************************************)
(* register-activate can be given again after any end of an earlier one.   *)
(***************************************************************************)
THEOREM CanBeRepeated == Spec => []RegisterActivateCanBeRepeated
  <1>1. Init => \A p \in Procs : PlanInv(p)
    BY DEF Init, PlanInv
  <1>2. ASSUME IInv, \A p \in Procs : PlanInv(p)
        PROVE  RegisterActivateCanBeRepeated
    <2> SUFFICES ASSUME NEW p \in Procs, Len(todo[p]) = 2
                 PROVE  LET first  == todo[p][1]
                            second == todo[p][2]
                        IN  \/ /\ Allowed(first, mem[p])
                               /\ Allowed(second, Done(first, mem[p]))
                            \/ LifeOf(mem[p])[second.key] = "deleted"
      BY DEF RegisterActivateCanBeRepeated
    <2>1. PICK command \in Commands :
             command.op = "register-activate" /\ todo[p] = Plan(command, mem[p])
      BY <1>2 DEF PlanInv
    <2>2. mem[p] \in EntryMap
      BY <1>2 DEF IInv, TypeOK
    <2> QED
      BY <2>1, <2>2, PlannedIsAllowed
  <1>3. IInv /\ (\A p \in Procs : PlanInv(p)) /\ [Next]_vars
           => (\A p \in Procs : PlanInv(p))'
    BY NextPlan
  <1> QED
    BY <1>1, <1>2, <1>3, Invariance, PTL DEF Spec
-----------------------------------------------------------------------------
(***************************************************************************)
(* When commands do not overlap, a step of one that runs is a step of the  *)
(* only one.                                                               *)
(***************************************************************************)
LEMMA StepOfOnlyOne ==
    ASSUME IInv, Serial, NEW p \in Procs, pc[p] # "idle",
           NEW c \in {"idle", "working", "saving", "writing"},
           pc' = [pc EXCEPT ![p] = c],
           c # "idle" => Ahead(mem[p], published)'
    PROVE  Serial'
  <1>1. \A q \in Procs : pc[q] # "idle" => q = p
    BY DEF Serial
  <1>2. \A q \in Procs : pc'[q] # "idle" => q = p
    BY <1>1 DEF IInv, TypeOK
  <1>3. pc'[p] = c
    BY DEF IInv, TypeOK
  <1> QED
    BY <1>2, <1>3 DEF Serial

(***************************************************************************)
(* A command starts when no other runs, from the published map.            *)
(***************************************************************************)
LEMMA StartSerial ==
    ASSUME ~MayOverlap, IInv, NEW p \in Procs,
           NEW command \in Commands, Start(p, command)
    PROVE  Serial'
  <1>1. \A q \in Procs : pc'[q] # "idle" => q = p
    BY DEF Start, MayStart, IInv, TypeOK
  <1>2. mem'[p] = published' /\ pc'[p] = "working"
    BY LegalIsLoaded DEF Start, IInv, TypeOK
  <1>3. Ahead(mem[p], published)'
    BY <1>2, AheadOfItself DEF Ahead, LifeOf, Known, NotBehind
  <1> QED
    BY <1>1, <1>2, <1>3 DEF Serial

(***************************************************************************)
(* The steps of a command that runs alone keep it ahead of the file: what  *)
(* it writes is what it holds, and a save that fails leaves the published  *)
(* map behind what it holds.                                               *)
(***************************************************************************)
LEMMA RunningSerial ==
    ASSUME IInv, Serial, NEW p \in Procs,
           Operate(p) \/ Refuse(p) \/ OpenForSave(p) \/ Write(p) \/ Stop(p)
    PROVE  Serial'
  <1>1. pc[p] # "idle"
    BY DEF Operate, Refuse, OpenForSave, Write, Stop
  <1>2. Ahead(mem[p], published)
    BY <1>1 DEF Serial
  <1>3. mem[p] \in EntryMap /\ published \in EntryMap
    BY DEF IInv, TypeOK
  <1>4. CASE \E how \in {"ok", "error", "killed"} : Exit(p, how)
    BY <1>1, <1>4, StepOfOnlyOne DEF Exit
  <1>5. CASE Operate(p)
    <2> DEFINE map == Done(Head(todo[p]), mem[p])
    <2>1. /\ mem'[p] = map /\ published' = published
          /\ pc' = [pc EXCEPT ![p] = "saving"] /\ pc[p] = "working"
      BY <1>5 DEF Operate, IInv, TypeOK
    <2>2. map \in EntryMap /\ Ahead(map, mem[p])
      BY <1>5, OperateMap
    <2> HIDE DEF map
    <2>3. Ahead(map, published)
      BY <1>2, <1>3, <2>2, AheadTransitive
    <2>4. Ahead(mem[p], published)'
      BY <2>1, <2>3 DEF Ahead, LifeOf, Known
    <2> QED
      BY <1>1, <1>2, <2>1, <2>4, StepOfOnlyOne
  <1>6. CASE /\ OpenForSave(p) /\ UNCHANGED <<loaded, mem, todo, exit>>
             /\ pc' = [pc EXCEPT ![p] = "writing"]
    <2>1. Ahead(mem[p], published)'
      BY <1>2, <1>6 DEF OpenForSave, Ahead, LifeOf, Known
    <2> QED
      BY <1>1, <1>6, <2>1, StepOfOnlyOne
  <1>7. CASE /\ Write(p) /\ UNCHANGED <<loaded, mem, todo, exit>>
             /\ pc' = [pc EXCEPT ![p] = "working"]
    <2>1. published' \in {published, mem[p]} /\ mem' = mem
      BY <1>7 DEF Write, Written, WrittenWhole, MixedUp, CutShort
    <2>2. Ahead(mem[p], published)'
      BY <1>2, <2>1, AheadOfItself DEF Ahead, LifeOf, Known, NotBehind
    <2> QED
      BY <1>1, <1>7, <2>1, <2>2, StepOfOnlyOne
  <1> QED
    BY <1>4, <1>5, <1>6, <1>7 DEF Refuse, OpenForSave, Write, Stop

(***************************************************************************)
(* A command starts when no other runs, and only the one that runs writes. *)
(***************************************************************************)
LEMMA NextSerial ==
    ASSUME ~MayOverlap, IInv, Serial, [Next]_vars
    PROVE  Serial'
  <1>1. CASE UNCHANGED vars
    BY <1>1 DEF vars, Serial, Ahead, LifeOf, Known
  <1>2. ASSUME NEW p \in Procs, StartUnreadable(p)
        PROVE  Serial'
    <2>1. \A q \in Procs : pc'[q] = "idle"
      BY <1>2 DEF StartUnreadable, MayStart, Exit, IInv, TypeOK
    <2> QED
      BY <2>1 DEF Serial
  <1> QED
    BY <1>1, <1>2, StartSerial, RunningSerial DEF Next

(***************************************************************************)
(* Commands that do not overlap: at most one runs, and it holds a legal    *)
(* future of the published map.                                            *)
(***************************************************************************)
THEOREM SerialInvariance ==
    ASSUME ~MayOverlap
    PROVE  Spec => [](IInv /\ Serial)
  <1>1. Init => IInv /\ Serial
    BY InitIInv DEF Init, Serial
  <1>2. IInv /\ Serial /\ [Next]_vars => (IInv /\ Serial)'
    BY NextIInv, NextSerial
  <1> QED
    BY <1>1, <1>2, PTL DEF Spec

(***************************************************************************)
(* When commands do not overlap, the registry leads every key forward      *)
(* through its lifecycle, whichever are killed and whichever saves fail.   *)
(***************************************************************************)
THEOREM ImplementsLifecycle ==
    ASSUME ~MayOverlap
    PROVE  Spec => SerialLifecycle
  <1>1. IInv => LifeOf(published) \in [Keys -> LifeStatus]
    BY LifeOfType DEF IInv, TypeOK
  <1>2. Init => LifeIn!Init
    BY <1>1, InitIInv, SameEdges DEF LifeIn!Init, LifeStatus
  <1>3. ASSUME IInv, Serial, IInv', [Next]_vars
        PROVE  [LifeIn!Publish]_(LifeOf(published))
    <2>1. LifeOf(published)' \in [Keys -> LifeStatus]
      BY <1>3, LifeOfType DEF IInv, TypeOK
    <2>2. CASE published' = published
      BY <2>2 DEF LifeOf, Known
    <2>3. ASSUME NEW p \in Procs, Write(p), published' = mem[p]
          PROVE  \A k \in Keys :
                    NotBehind(LifeOf(published)'[k], LifeOf(published)[k])
      <3>1. Ahead(mem[p], published)
        BY <1>3, <2>3 DEF Write, Serial
      <3> QED
        BY <2>3, <3>1 DEF Ahead, LifeOf, Known
    <2> QED
      BY <1>3, <2>1, <2>2, <2>3, PublishedByWrite, SameEdges
      DEF LifeIn!Publish, NotBehind, LifeStatus
  <1> QED
    BY <1>2, <1>3, SerialInvariance, PTL DEF Spec, SerialLifecycle, LifeIn!Spec
=============================================================================
