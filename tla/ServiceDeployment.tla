--------------------------- MODULE ServiceDeployment ---------------------------
(***************************************************************************)
(* The commands that edit the card of a service and put it into operation  *)
(* (src/cli/main.cpp): configure-service writes a base URL into the card,  *)
(* register-activate registers or revalidates the package and activates    *)
(* it, bootstrap-service does both.  Nothing locks the card: its authors   *)
(* and other commands may change it between any two steps, and a command   *)
(* reads it up to three times, with two readers that do not agree.         *)
(*                                                                         *)
(* The base URL is what a card says besides its identity (Revisions).  The *)
(* conversation with a service is one step, which ServiceExchange opens    *)
(* up; so is a save of the registry, which RegistryProcesses opens up.     *)
(***************************************************************************)
EXTENDS RegistryEntries, FiniteSets

CONSTANTS
    Procs,             \* the processes, one for each command that is given
    ServiceKeys,       \* the keys whose backend is python_http_service
    Misread,           \* Misread[k]: k when the last line, the version, is damaged
    NotHttp,           \* a base URL that does not start with http://
    Nothing,           \* no command, text, card or target
    Commands,          \* the commands users give
    AuthorTexts,       \* AuthorTexts[path]: the cards authors put there
    InitialRegistries, \* the registries that earlier commands left
    MaxEdits           \* how often authors change a card (bound)

(***************************************************************************)
(* The text of a card, by what its readers make of it: `loose` when a      *)
(* required string reads as a number or truth value or another section is  *)
(* left empty, `complete` when the lists and the timeout are given, and    *)
(* the constraints absent, null, without a known member, or with one.      *)
(***************************************************************************)
Texts == [key : Keys, url : Revisions, loose : BOOLEAN, complete : BOOLEAN,
          constraints : {"absent", "null", "void", "some"}]

AllCommands ==
    [op : {"register-activate"}, path : Paths, url : {NotHttp}] \cup
    [op : {"configure-service", "bootstrap-service"}, path : Paths,
     url : Revisions \cup {NotHttp}]

Targets == [key : Keys, known : BOOLEAN, path : Paths]

ASSUME FiniteKeysAssumption == IsFiniteSet(Keys)
ASSUME MisreadAssumption == Misread \in [Keys -> Keys]
ASSUME NotATextAssumption == {NoCard, Nothing} \cap Texts = {}
ASSUME NotAUrlAssumption == NotHttp \notin Revisions
ASSUME NothingAssumption == Nothing \notin Card \cup Targets \cup AllCommands
ASSUME DeploymentCommandsAssumption == Commands \subseteq AllCommands
ASSUME AuthorTextsAssumption == AuthorTexts \in [Paths -> SUBSET (Texts \cup {NoCard})]
ASSUME InitialRegistriesAssumption == InitialRegistries \subseteq EntryMap

Steps == {"load", "open", "write", "ensure", "read", "check", "register", "activate"}

VARIABLES
    files,      \* the card file of each package
    published,  \* the registry on disk
    edits,      \* how often authors changed a card
    pc,         \* where each process stands
    command,    \* the command it executes
    mem,        \* its map of the registry
    edit,       \* the card it read for editing
    target,     \* the package it validates: its map key, whether that is known
    found,      \* the card as validation read it
    checked,    \* history: the <<key, url>> that passed the check of their backend
    since       \* history: what the card file held until validation read it

vars == <<files, published, edits, pc, command, mem, edit, target, found,
          checked, since>>

Pairs(map) == {<<map[k].key, map[k].rev>> : k \in {j \in Keys : Known(map, j)}}

Init ==
    /\ files \in [Paths -> Texts \cup {NoCard}]
    /\ \A f \in Paths : files[f] \in AuthorTexts[f]
    /\ published \in InitialRegistries
    /\ edits = 0
    /\ pc = [p \in Procs |-> "idle"]
    /\ command = [p \in Procs |-> Nothing]
    /\ mem = [p \in Procs |-> EmptyMap]
    /\ edit = [p \in Procs |-> Nothing]
    /\ target = [p \in Procs |-> Nothing]
    /\ found = [p \in Procs |-> Nothing]
    /\ checked = Pairs(published)
    /\ since = [p \in Procs |-> {}]

CardFile(p) == files[command[p].path]

(***************************************************************************)
(* The two readers.  AlgorithmCardFromJson, after YamlNodeToJson, wants    *)
(* strings where strings belong and sections that are maps.                *)
(* ParseAlgorithmCard takes any scalar for a string and passes over a      *)
(* section that is no map; the validator then wants the card complete.     *)
(***************************************************************************)
Editable(text) ==
    /\ text \in Texts
    /\ ~text.loose
    /\ text.constraints # "null"

CardIn(text) ==
    IF text \in Texts /\ text.complete THEN [key |-> text.key, rev |-> text.url]
    ELSE NoCard

(***************************************************************************)
(* ToYamlString: constraints without a known member are written as null.   *)
(***************************************************************************)
ToYamlUnquoted(text) ==
    [text EXCEPT !.constraints = IF @ = "void" THEN "null" ELSE @, !.loose = TRUE]
ToYamlString(text) ==
    [text EXCEPT !.constraints = IF @ = "void" THEN "null" ELSE @]

(***************************************************************************)
(* The process goes on, or ends.                                           *)
(***************************************************************************)
GoTo(p, step) == pc' = [pc EXCEPT ![p] = step]

Exit(p, how) ==
    /\ pc' = [pc EXCEPT ![p] = how]
    /\ command' = [command EXCEPT ![p] = Nothing]
    /\ mem' = [mem EXCEPT ![p] = EmptyMap]
    /\ edit' = [edit EXCEPT ![p] = Nothing]
    /\ target' = [target EXCEPT ![p] = Nothing]
    /\ found' = [found EXCEPT ![p] = Nothing]

(***************************************************************************)
(* The history of the card file begins when register-activate starts, or   *)
(* when bootstrap-service has written the card, and ends when validation   *)
(* has read it.                                                            *)
(***************************************************************************)
Observe ==
    since' = [q \in Procs |->
        CASE pc'[q] \in {"ensure", "read"} -> since[q] \cup {files'[command'[q].path]}
          [] pc'[q] \in {"check", "register", "activate"} -> since[q]
          [] OTHER -> {}]

(***************************************************************************)
(* main loads the registry, whatever the command is.                       *)
(***************************************************************************)
Start(p, c) ==
    /\ pc[p] = "idle"
    /\ GoTo(p, IF c.op = "register-activate" THEN "ensure" ELSE "load")
    /\ command' = [command EXCEPT ![p] = c]
    /\ mem' = [mem EXCEPT ![p] = Loaded(published)]
    /\ UNCHANGED <<files, published, edits, edit, target, found, checked>>
    /\ Observe

(***************************************************************************)
(* LoadCardForEditing and ConfigurePythonServiceBaseUrl.                   *)
(***************************************************************************)
LoadCard(p) ==
    LET text == CardFile(p)
    IN  /\ pc[p] = "load"
        /\ IF Editable(text) /\ text.key \in ServiceKeys /\ command[p].url # NotHttp
           THEN /\ GoTo(p, "open")
                /\ edit' = [edit EXCEPT ![p] = [text EXCEPT !.url = command[p].url]]
                /\ UNCHANGED <<command, mem, target, found>>
           ELSE Exit(p, "error")
        /\ UNCHANGED <<files, published, edits, checked>>
        /\ Observe

(***************************************************************************)
(* SaveCard: the file is truncated, unless it cannot be opened, and then   *)
(* written.                                                                *)
(***************************************************************************)
OpenCard(p) ==
    /\ pc[p] = "open"
    /\ \/ /\ GoTo(p, "write")
          /\ files' = [files EXCEPT ![command[p].path] = NoCard]
          /\ UNCHANGED <<command, mem, edit, target, found>>
       \/ Exit(p, "error") /\ UNCHANGED files
    /\ UNCHANGED <<published, edits, checked>>
    /\ Observe

(***************************************************************************)
(* A write that fails leaves a part of the text, a write over a longer     *)
(* text that another process put there meanwhile leaves the end of that:   *)
(* no YAML, or a card whose last line, the version, is not what it was.    *)
(* Neither is noticed.                                                     *)
(***************************************************************************)
Damaged(text) ==
    {NoCard} \cup
    {[text EXCEPT !.key = Misread[@], !.loose = number] : number \in BOOLEAN}

WriteCard(p) ==
    LET text == ToYamlString(edit[p])
    IN  /\ pc[p] = "write"
        /\ \E written \in {text} \cup Damaged(text) :
            /\ files' = [files EXCEPT ![command[p].path] = written]
            /\ IF command[p].op = "configure-service" THEN Exit(p, "ok")
               ELSE GoTo(p, "ensure") /\ UNCHANGED <<command, mem, edit, target, found>>
        /\ UNCHANGED <<published, edits, checked>>
        /\ Observe

(***************************************************************************)
(* EnsureRegisteredAndActive reads the card again for its key; a key the   *)
(* registry knows is validated, at the path the entry has.                 *)
(***************************************************************************)
EnsureKnownAsIs(p) ==
    LET text == CardFile(p)
        known == Known(mem[p], text.key)
    IN  /\ pc[p] = "ensure"
        /\ IF Editable(text) /\ (known => Validatable(mem[p][text.key].status))
           THEN /\ GoTo(p, IF known THEN "activate" ELSE "read")
                /\ target' = [target EXCEPT ![p] =
                    [key |-> text.key, known |-> known,
                     path |-> IF known THEN mem[p][text.key].path ELSE command[p].path]]
                /\ UNCHANGED <<command, mem, edit, found>>
           ELSE Exit(p, "error")
        /\ UNCHANGED <<files, published, edits, checked>>
        /\ Observe

Ensure(p) ==
    LET text == CardFile(p)
        known == Known(mem[p], text.key)
    IN  /\ pc[p] = "ensure"
        /\ IF Editable(text) /\ (known => Validatable(mem[p][text.key].status))
           THEN /\ GoTo(p, "read")
                /\ target' = [target EXCEPT ![p] =
                    [key |-> text.key, known |-> known,
                     path |-> IF known THEN mem[p][text.key].path ELSE command[p].path]]
                /\ UNCHANGED <<command, mem, edit, found>>
           ELSE Exit(p, "error")
        /\ UNCHANGED <<files, published, edits, checked>>
        /\ Observe

(***************************************************************************)
(* ValidateFromPath, in Register and in Validate: the card is read, then   *)
(* the service is asked, which may have started, stopped or moved at any   *)
(* time.  (Packages of other backends are validated otherwise, see         *)
(* PackageValidation.)                                                     *)
(***************************************************************************)
ReadPackage(p) ==
    LET card == CardIn(files[target[p].path])
    IN  /\ pc[p] = "read"
        /\ IF card # NoCard
           THEN /\ GoTo(p, "check")
                /\ found' = [found EXCEPT ![p] = card]
                /\ UNCHANGED <<command, mem, edit, target>>
           ELSE Exit(p, "error")
        /\ UNCHANGED <<files, published, edits, checked>>
        /\ Observe

CheckPackage(p) ==
    /\ pc[p] = "check"
    /\ \/ /\ GoTo(p, "register")
          /\ checked' = checked \cup {<<found[p].key, found[p].rev>>}
          /\ UNCHANGED <<command, mem, edit, target, found>>
       \/ Exit(p, "error") /\ UNCHANGED checked
    /\ UNCHANGED <<files, published, edits>>
    /\ Observe

(***************************************************************************)
(* The entry is built from the card that was read before the check, and    *)
(* saved.  Register refuses a key it finds in the map after all.           *)
(***************************************************************************)
CardReadAgain(p) ==
    LET now == CardIn(files[target[p].path]) IN IF now = NoCard THEN found[p] ELSE now
ValidatedCard(p) == found[p]

WithPackage(p) ==
    IF target[p].known THEN Revalidated(mem[p], target[p].key, ValidatedCard(p))
    ELSE Registered(mem[p], ValidatedCard(p), target[p].path)

Register(p) ==
    /\ pc[p] = "register"
    /\ \/ /\ ~target[p].known => ~Known(mem[p], ValidatedCard(p).key)
          /\ GoTo(p, "activate")
          /\ mem' = [mem EXCEPT ![p] = WithPackage(p)]
          /\ published' = mem'[p]
          /\ UNCHANGED <<command, edit, target, found>>
       \/ Exit(p, "error") /\ UNCHANGED published  \* refused, or not saved
    /\ UNCHANGED <<files, edits, checked>>
    /\ Observe

ActivatedKey(p) == IF target[p].known THEN target[p].key ELSE ValidatedCard(p).key

Activate(p) ==
    LET k == ActivatedKey(p)
    IN  /\ pc[p] = "activate"
        /\ \/ /\ Activatable(mem[p][k].status)
              /\ published' = WithStatus(mem[p], k, "active")
              /\ Exit(p, "ok")
           \/ Exit(p, "error") /\ UNCHANGED published
        /\ UNCHANGED <<files, edits, checked>>
        /\ Observe

(***************************************************************************)
(* The process is killed, perhaps in the middle of its write.              *)
(***************************************************************************)
Stop(p) ==
    /\ pc[p] \in Steps
    /\ Exit(p, "killed")
    /\ files' \in {files} \cup
        (IF pc[p] = "write"
         THEN {[files EXCEPT ![command[p].path] = t] : t \in Damaged(ToYamlString(edit[p]))}
         ELSE {})
    /\ UNCHANGED <<published, edits, checked>>
    /\ Observe

(***************************************************************************)
(* Authors replace a card while commands run.                              *)
(***************************************************************************)
Author(path) ==
    /\ edits < MaxEdits
    /\ edits' = edits + 1
    /\ \E text \in AuthorTexts[path] \ {files[path]} : files' = [files EXCEPT ![path] = text]
    /\ UNCHANGED <<published, pc, command, mem, edit, target, found, checked>>
    /\ Observe

Next ==
    \/ \E p \in Procs :
        \/ \E c \in Commands : Start(p, c)
        \/ LoadCard(p) \/ OpenCard(p) \/ WriteCard(p)
        \/ Ensure(p) \/ ReadPackage(p) \/ CheckPackage(p) \/ Register(p) \/ Activate(p)
        \/ Stop(p)
    \/ \E path \in Paths : Author(path)

Spec == Init /\ [][Next]_vars
-----------------------------------------------------------------------------
(***************************************************************************)
(* Types of the variables, and which of them a process has set where it    *)
(* stands.                                                                 *)
(***************************************************************************)
TypeOK ==
    /\ files \in [Paths -> Texts \cup {NoCard}]
    /\ published \in EntryMap
    /\ edits \in Nat
    /\ pc \in [Procs -> {"idle", "ok", "error", "killed"} \cup Steps]
    /\ command \in [Procs -> AllCommands \cup {Nothing}]
    /\ mem \in [Procs -> EntryMap]
    /\ edit \in [Procs -> Texts \cup {Nothing}]
    /\ target \in [Procs -> Targets \cup {Nothing}]
    /\ found \in [Procs -> Card \cup {Nothing}]
    /\ checked \in SUBSET (Keys \X Revisions)
    /\ since \in [Procs -> SUBSET (Texts \cup {NoCard})]
    /\ \A p \in Procs :
        /\ pc[p] \in Steps => command[p] # Nothing
        /\ pc[p] \in {"open", "write"} => edit[p] # Nothing
        /\ pc[p] \in {"read", "check", "register", "activate"} => target[p] # Nothing
        /\ pc[p] \in {"check", "register", "activate"} => found[p] # Nothing

(***************************************************************************)
(* Whatever authors, other commands and damaged cards do between its       *)
(* steps, a command publishes no service that was not asked: the identity  *)
(* and the URL of every entry are together those of a service that         *)
(* answered there under that identity.                                     *)
(***************************************************************************)
RegisteredWasChecked == Pairs(published) \subseteq checked

(***************************************************************************)
(* register-activate and bootstrap-service, when they report success, have *)
(* put into operation what the card file said at some time between the     *)
(* start, or the command's own write, and the validation: they never leave *)
(* the entry of an earlier card active.  This holds for packages at the    *)
(* place where the registry knows them; of one that has moved, the card at *)
(* the old place is put into operation instead.                            *)
(***************************************************************************)
DeploysTheCard ==
    [][\A p \in Procs :
        pc[p] = "activate" /\ pc'[p] = "ok" /\ target[p].path = command[p].path =>
            LET entry == published'[ActivatedKey(p)]
            IN  /\ entry.status = "active"
                /\ \E text \in since[p] : CardIn(text) = [key |-> entry.key, rev |-> entry.rev]
      ]_vars

(***************************************************************************)
(* bootstrap-service can read the card it has just written: if nobody else *)
(* touched the file and the write succeeded, it gets past its second read, *)
(* unless the key is deleted, or the card had constraints without a known  *)
(* member, which it wrote back as a null it does not accept.               *)
(***************************************************************************)
BootstrapReadsItsOwnCard ==
    [][\A p \in Procs :
        ( /\ pc[p] = "ensure" /\ pc'[p] = "error" /\ edit[p] # Nothing
          /\ since[p] = {ToYamlString(edit[p])} )
        =>  \/ edit[p].constraints = "void"
            \/ /\ Known(mem[p], edit[p].key)
               /\ mem[p][edit[p].key].status = "deleted"
      ]_vars
=============================================================================
