--------------------------- MODULE RegistryProcesses ---------------------------
(***************************************************************************)
(* The registry file shared by command-line processes (src/cli/main.cpp).  *)
(* A process loads the whole file when it starts, works on its own map and *)
(* rewrites the whole file after each operation of its command: it opens   *)
(* the file, which truncates it, and writes (FileUtils::WriteTextFile).    *)
(* There is no lock and no temporary file, so processes overlap, and stop, *)
(* between any two of these steps.                                         *)
(*                                                                         *)
(* Cards do not change here; AlgorithmRegistry is about their edits.       *)
(***************************************************************************)
EXTENDS RegistryEntries, Sequences

CONSTANTS
    Procs,         \* the processes that can run at one time
    CardAt,        \* CardAt[p]: the card of the package at p
    Commands,      \* the commands users give
    InitialFiles,  \* the registry files the first process may find
    MayOverlap,    \* whether two commands may run at one time
    MayStop,       \* whether a process may be killed
    OpenMayFail,   \* whether opening the file for writing may fail
    WriteMayFail   \* whether the write itself may fail (a full disk)

(***************************************************************************)
(* The operations a command consists of, and the commands: those of the    *)
(* registry and register-activate, which is two operations.                *)
(***************************************************************************)
Operations ==
    [op : {"register"}, path : Paths] \cup
    [op : {"validate", "activate", "disable", "delete"}, key : Keys]

AllCommands == Operations \cup [op : {"register-activate"}, path : Paths]

FiledByOwnKey(map) == \A k \in Keys : Known(map, k) => map[k].key = k

ASSUME CardAtAssumption == CardAt \in [Paths -> Card]
ASSUME CommandsAssumption == Commands \subseteq AllCommands
ASSUME InitialFilesAssumption ==
    \A map \in InitialFiles :
        /\ map \in EntryMap
        /\ FiledByOwnKey(map)
        /\ \A k \in Keys : Known(map, k) => CardAt[map[k].path].key = k
ASSUME FlagsAssumption ==
    /\ MayOverlap \in BOOLEAN
    /\ MayStop \in BOOLEAN
    /\ OpenMayFail \in BOOLEAN
    /\ WriteMayFail \in BOOLEAN

VARIABLES
    file,       \* "whole", "empty" (just truncated) or "garbled"
    published,  \* the map in the file when it was last whole
    pc,         \* where each process stands
    loaded,     \* the map each process loaded when it started
    mem,        \* the map it holds now
    todo,       \* the operations its command still has to do
    exit        \* how its last command ended

vars == <<file, published, pc, loaded, mem, todo, exit>>

Init ==
    /\ file = "whole"
    /\ published \in InitialFiles
    /\ pc = [p \in Procs |-> "idle"]
    /\ loaded = [p \in Procs |-> EmptyMap]
    /\ mem = [p \in Procs |-> EmptyMap]
    /\ todo = [p \in Procs |-> <<>>]
    /\ exit = [p \in Procs |-> "none"]

(***************************************************************************)
(* The process ends; its memory is gone.                                   *)
(***************************************************************************)
Exit(p, how) ==
    /\ pc' = [pc EXCEPT ![p] = "idle"]
    /\ loaded' = [loaded EXCEPT ![p] = EmptyMap]
    /\ mem' = [mem EXCEPT ![p] = EmptyMap]
    /\ todo' = [todo EXCEPT ![p] = <<>>]
    /\ exit' = [exit EXCEPT ![p] = how]

MayStart(p) ==
    /\ pc[p] = "idle"
    /\ MayOverlap \/ \A q \in Procs : pc[q] = "idle"

(***************************************************************************)
(* register-activate validates a key it finds and registers one it does    *)
(* not (EnsureRegisteredAndActive), then activates it.                     *)
(***************************************************************************)
PlanUnsplit(command, map) == <<command>>
PlanRegisterFirst(command, map) ==
    IF command.op # "register-activate" THEN <<command>>
    ELSE << [op |-> "register", path |-> command.path],
            [op |-> "activate", key |-> CardAt[command.path].key] >>
Plan(command, map) ==
    IF command.op # "register-activate" THEN <<command>>
    ELSE LET k == CardAt[command.path].key
         IN  << IF Known(map, k) THEN [op |-> "validate", key |-> k]
                ELSE [op |-> "register", path |-> command.path],
                [op |-> "activate", key |-> k] >>

(***************************************************************************)
(* main loads the registry before anything else.                           *)
(***************************************************************************)
StartAnyway(p, command) ==
    LET map == IF file = "whole" THEN Loaded(published) ELSE EmptyMap
    IN  /\ MayStart(p)
        /\ pc' = [pc EXCEPT ![p] = "working"]
        /\ loaded' = [loaded EXCEPT ![p] = map]
        /\ mem' = [mem EXCEPT ![p] = map]
        /\ todo' = [todo EXCEPT ![p] = Plan(command, map)]
        /\ exit' = [exit EXCEPT ![p] = "none"]
        /\ UNCHANGED <<file, published>>

Start(p, command) ==
    LET map == Loaded(published)
    IN  /\ MayStart(p)
        /\ file = "whole"
        /\ pc' = [pc EXCEPT ![p] = "working"]
        /\ loaded' = [loaded EXCEPT ![p] = map]
        /\ mem' = [mem EXCEPT ![p] = map]
        /\ todo' = [todo EXCEPT ![p] = Plan(command, map)]
        /\ exit' = [exit EXCEPT ![p] = "none"]
        /\ UNCHANGED <<file, published>>

(***************************************************************************)
(* A registry that does not parse ends every command, whatever it is.      *)
(***************************************************************************)
StartUnreadable(p) ==
    /\ MayStart(p)
    /\ file # "whole"
    /\ Exit(p, "error")
    /\ UNCHANGED <<file, published>>

(***************************************************************************)
(* What an operation makes of the map of process p, if it is not refused.  *)
(***************************************************************************)
Allowed(o, map) ==
    CASE o.op = "register" -> ~Known(map, CardAt[o.path].key)
      [] o.op = "validate" -> Known(map, o.key) /\ Validatable(map[o.key].status)
      [] o.op = "activate" -> Known(map, o.key) /\ Activatable(map[o.key].status)
      [] o.op = "disable"  -> Known(map, o.key) /\ Disableable(map[o.key].status)
      [] o.op = "delete"   -> Known(map, o.key)

Done(o, map) ==
    CASE o.op = "register" -> Registered(map, CardAt[o.path], o.path)
      [] o.op = "validate" -> Revalidated(map, o.key, CardAt[map[o.key].path])
      [] o.op = "activate" -> WithStatus(map, o.key, "active")
      [] o.op = "disable"  -> WithStatus(map, o.key, "disabled")
      [] o.op = "delete"   -> WithStatus(map, o.key, "deleted")

(***************************************************************************)
(* The next operation of the command, in memory.  A refusal ends the       *)
(* command; so does a package that register or validate finds broken.      *)
(***************************************************************************)
Operate(p) ==
    /\ pc[p] = "working"
    /\ Allowed(Head(todo[p]), mem[p])
    /\ mem' = [mem EXCEPT ![p] = Done(Head(todo[p]), mem[p])]
    /\ todo' = [todo EXCEPT ![p] = Tail(@)]
    /\ pc' = [pc EXCEPT ![p] = "saving"]
    /\ UNCHANGED <<file, published, loaded, exit>>

RefuseForever(p) ==
    /\ pc[p] = "working"
    /\ ~Allowed(Head(todo[p]), mem[p])
    /\ exit' = [exit EXCEPT ![p] = "error"]
    /\ UNCHANGED <<file, published, pc, loaded, mem, todo>>

Refuse(p) ==
    /\ pc[p] = "working"
    /\ \/ ~Allowed(Head(todo[p]), mem[p])
       \/ Head(todo[p]).op \in {"register", "validate"}
    /\ Exit(p, "error")
    /\ UNCHANGED <<file, published>>

(***************************************************************************)
(* Opening the file truncates it; when it cannot be opened it is as it was *)
(* and the command ends.                                                   *)
(***************************************************************************)
OpenForSave(p) ==
    /\ pc[p] = "saving"
    /\ \/ /\ file' = "empty"
          /\ pc' = [pc EXCEPT ![p] = "writing"]
          /\ UNCHANGED <<loaded, mem, todo, exit>>
       \/ OpenMayFail /\ Exit(p, "error") /\ UNCHANGED file
    /\ UNCHANGED published

(***************************************************************************)
(* The write goes to the start of the file.  Into an empty file it puts    *)
(* the map.  Into a file another process has written since, it leaves the  *)
(* end of the longer text: the map or no JSON at all, depending on the     *)
(* lengths.  A write that fails is not noticed, whether part of the text   *)
(* reached the file or none of it.                                         *)
(***************************************************************************)
WrittenWhole(p) == file' = "whole" /\ published' = mem[p]

MixedUp == file # "empty" /\ file' = "garbled" /\ UNCHANGED published

CutShort ==
    WriteMayFail /\ file' \in {file, "garbled"} /\ UNCHANGED published

Written(p) == WrittenWhole(p) \/ MixedUp \/ CutShort

Write(p) ==
    /\ pc[p] = "writing"
    /\ Written(p)
    /\ IF todo[p] = <<>> THEN Exit(p, "ok")
       ELSE /\ pc' = [pc EXCEPT ![p] = "working"]
            /\ UNCHANGED <<loaded, mem, todo, exit>>

(***************************************************************************)
(* The process is killed, perhaps after part of its text was written.      *)
(***************************************************************************)
Stop(p) ==
    /\ MayStop
    /\ pc[p] # "idle"
    /\ file' \in {file} \cup (IF pc[p] = "writing" THEN {"garbled"} ELSE {})
    /\ Exit(p, "killed")
    /\ UNCHANGED published

Next ==
    \E p \in Procs :
        \/ \E command \in Commands : Start(p, command)
        \/ StartUnreadable(p)
        \/ Operate(p) \/ Refuse(p)
        \/ OpenForSave(p) \/ Write(p)
        \/ Stop(p)

(***************************************************************************)
(* A running process is scheduled by the operating system, and none of its *)
(* steps waits for another process.                                        *)
(***************************************************************************)
Fairness ==
    \A p \in Procs : WF_vars(Operate(p) \/ Refuse(p) \/ OpenForSave(p) \/ Write(p))

Spec     == Init /\ [][Next]_vars
FairSpec == Spec /\ Fairness
-----------------------------------------------------------------------------
(***************************************************************************)
(* Types of the variables.                                                 *)
(***************************************************************************)
TypeOK ==
    /\ file \in {"whole", "empty", "garbled"}
    /\ published \in EntryMap
    /\ pc \in [Procs -> {"idle", "working", "saving", "writing"}]
    /\ loaded \in [Procs -> EntryMap]
    /\ mem \in [Procs -> EntryMap]
    /\ todo \in [Procs -> Seq(Operations)]
    /\ exit \in [Procs -> {"none", "ok", "error", "killed"}]

LifeIn == INSTANCE AlgorithmLifecycle WITH life <- LifeOf(published)

(***************************************************************************)
(* Refinement: as long as commands do not overlap, the registry leads      *)
(* every key forward through its lifecycle, although processes are killed  *)
(* in the middle of a save and writes fail unnoticed: a command that finds *)
(* a broken file writes nothing, so no key is ever forgotten or taken      *)
(* back.  Only the file can stay unreadable.  (Forward, not one operation  *)
(* at a time: the second save of register-activate also publishes a first  *)
(* one whose write failed.)                                                *)
(***************************************************************************)
SerialLifecycle == LifeIn!Spec

(***************************************************************************)
(* register-activate can be given again after any end of an earlier one:   *)
(* whatever a command left that was killed, refused or not saved between   *)
(* the two operations, and whatever other processes made of the key, a     *)
(* register-activate that starts is not refused by the lifecycle in either *)
(* of its operations, unless the key is deleted.                           *)
(***************************************************************************)
RegisterActivateCanBeRepeated ==
    \A p \in Procs : pc[p] = "working" /\ Len(todo[p]) = 2 =>
        LET first  == todo[p][1]
            second == todo[p][2]
        IN  \/ /\ Allowed(first, mem[p])
               /\ Allowed(second, Done(first, mem[p]))
            \/ LifeOf(mem[p])[second.key] = "deleted"

(***************************************************************************)
(* However commands overlap, what a process publishes is a legal future of *)
(* what it loaded when it started: an update can be lost, and a deleted    *)
(* key come back, only by a process that loaded before the update was      *)
(* published.                                                              *)
(***************************************************************************)
PublishesItsOwnFuture ==
    [][published' # published =>
        \E p \in Procs :
            /\ pc[p] = "writing"
            /\ \A k \in Keys :
                \/ LifeOf(published')[k] = LifeOf(loaded[p])[k]
                \/ LifeOf(published')[k] \in LifeIn!Later[LifeOf(loaded[p])[k]]
      ]_vars

(***************************************************************************)
(* Liveness: every command ends, in success or in an error, whatever the   *)
(* other processes do to the file.                                         *)
(***************************************************************************)
EveryCommandEnds ==
    \A p \in Procs : pc[p] # "idle" ~> pc[p] = "idle"
=============================================================================
