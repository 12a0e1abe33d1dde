------------------------------ MODULE AgentRouting ------------------------------
(***************************************************************************)
(* The selection of ExecutionCoordinator::RouteForAgent                    *)
(* (src/runtime/execution_coordinator.cpp): which of the registered        *)
(* algorithms answers a request that names a condition instead of an       *)
(* algorithm.  The loop keeps the best candidate it has met; a card must   *)
(* fit the condition to be a candidate, and candidates are compared by     *)
(* score, latency, risk and key.                                           *)
(*                                                                         *)
(* Names are compared without regard to case, so a name here stands for    *)
(* all its spellings.  Scores are in hundredths, which makes the latency   *)
(* term (15.0 - latency_ms / 100.0) a whole number; the code adds doubles. *)
(***************************************************************************)
EXTENDS Integers, Sequences, FiniteSets

CONSTANTS
    Keys,        \* the registered algorithms, as the ranks of ToUniqueString
    Cards,       \* the cards they can have, with their status
    Conditions,  \* the conditions agents can state
    Undeclared,  \* an optional number a card leaves out
    None,        \* no candidate
    IntMax       \* std::numeric_limits<int>::max()

VARIABLES
    cards,      \* cards[k]: the entry of key k
    condition,  \* the condition of this request
    todo,       \* the entries the loop has not reached
    best        \* best_candidate

vars == <<cards, condition, todo, best>>

Names == STRING
Optional == Int \cup {Undeclared}

CardType ==
    [status : {"draft", "validated", "active", "disabled"},
     backend_type : {"onnx", "python_http_service"},
     task_family : Names, capabilities : Seq(Names), modalities : Seq(Names),
     summary : SUBSET Names, when_to_use : SUBSET Names, when_not_to_use : SUBSET Names,
     max_input_chars : Optional, max_request_bytes : Optional,
     latency_ms_p50 : Optional, latency_ms_p95 : Optional, primary_score : Optional,
     risk_level : Names, requires_human_review : BOOLEAN,
     hardware : BOOLEAN, requires_gpu : BOOLEAN, preferred_device : Names,
     min_gpu_memory_mb : Optional, min_system_memory_mb : Optional,
     min_cpu_cores : Optional,
     example_chars : Nat, example_bytes : Nat]

ConditionType ==
    [task_family : Names, required_capabilities : Seq(Names),
     preferred_capabilities : Seq(Names), input_modalities : Seq(Names),
     intent_keywords : Seq(Names),
     input_chars : Nat, request_bytes : Nat, max_latency_ms : Nat,
     allow_human_review : BOOLEAN, max_risk_level : Names,
     has_gpu : BOOLEAN, available_gpu_memory_mb : Nat,
     available_system_memory_mb : Nat, available_cpu_cores : Nat,
     preferred_device : Names]

ASSUME KeysAssumption == Keys \subseteq Nat /\ None \notin Keys
ASSUME CardsAssumption == Cards \subseteq CardType
ASSUME ConditionsAssumption == Conditions \subseteq ConditionType
ASSUME UndeclaredAssumption == Undeclared \notin Int
ASSUME IntMaxAssumption == IntMax \in Int /\ IntMax >= 1500

(***************************************************************************)
(* Lists of names.                                                         *)
(***************************************************************************)
ContainsValue(values, name) == \E i \in DOMAIN values : values[i] = name
AllContained(values, names) == \A i \in DOMAIN names : ContainsValue(values, names[i])
Hits(names, found) == Cardinality({i \in DOMAIN names : names[i] \in found})
KeywordHits(keywords, texts) == Hits(keywords, texts \ {""})
NamesIn(values) == {values[i] : i \in DOMAIN values}

EffectiveLatencyMs(card) ==
    IF card.latency_ms_p95 # Undeclared THEN card.latency_ms_p95 ELSE card.latency_ms_p50

RiskRank(risk) ==
    CASE risk = "low" -> 0 [] risk = "medium" -> 1
      [] risk = "high" -> 2 [] risk = "critical" -> 3 [] OTHER -> 4

(***************************************************************************)
(* A declared limit is exceeded by what the request says it needs; zero    *)
(* says nothing.                                                           *)
(***************************************************************************)
Exceeds(used, limit)  == used > 0 /\ limit # Undeclared /\ used > limit
TooSmall(has, needed) == needed # Undeclared /\ has > 0 /\ has < needed

(***************************************************************************)
(* The conditions of EvaluatePythonServiceCandidate that can reject.       *)
(***************************************************************************)
FitsHardware(card, cond) ==
    /\ card.requires_gpu => cond.has_gpu
    /\ ~TooSmall(cond.available_gpu_memory_mb, card.min_gpu_memory_mb)
    /\ ~TooSmall(cond.available_system_memory_mb, card.min_system_memory_mb)
    /\ ~TooSmall(cond.available_cpu_cores, card.min_cpu_cores)

FitsLatencyStrictly(card, cond) ==
    cond.max_latency_ms > 0 /\ EffectiveLatencyMs(card) # Undeclared =>
        EffectiveLatencyMs(card) < cond.max_latency_ms

FitsLatency(card, cond) ==
    cond.max_latency_ms > 0 /\ EffectiveLatencyMs(card) # Undeclared =>
        EffectiveLatencyMs(card) <= cond.max_latency_ms

Fits(card, cond) ==
    /\ cond.task_family # "" => card.task_family = cond.task_family
    /\ AllContained(card.capabilities, cond.required_capabilities)
    /\ AllContained(card.modalities, cond.input_modalities)
    /\ ~Exceeds(cond.input_chars, card.max_input_chars)
    /\ ~Exceeds(cond.request_bytes, card.max_request_bytes)
    /\ card.requires_human_review => cond.allow_human_review
    /\ cond.max_risk_level # "" =>
            RiskRank(card.risk_level) <= RiskRank(cond.max_risk_level)
    /\ FitsHardware(card, cond)
    /\ FitsLatency(card, cond)

(***************************************************************************)
(* The score of a card that fits, in hundredths.                           *)
(***************************************************************************)
Points(given, points) == IF given THEN points ELSE 0
Larger(a, b)  == IF a >= b THEN a ELSE b
Smaller(a, b) == IF a <= b THEN a ELSE b

LatencyPointsUnclamped(card) ==
    IF EffectiveLatencyMs(card) = Undeclared THEN 0
    ELSE 1500 - EffectiveLatencyMs(card)

LatencyPoints(card) ==
    IF EffectiveLatencyMs(card) = Undeclared THEN 0
    ELSE Larger(0, 1500 - EffectiveLatencyMs(card))

PrimaryPoints(card) ==
    IF card.primary_score = Undeclared THEN 0
    ELSE 5 * Larger(0, Smaller(100, card.primary_score))

RiskPoints(card) ==
    Points(card.risk_level = "low", 400) + Points(card.risk_level = "medium", 200)

HardwarePoints(card, cond) ==
    IF ~card.hardware THEN 0
    ELSE Points(card.requires_gpu /\ cond.has_gpu, 600)
       + Points(~card.requires_gpu /\ ~cond.has_gpu, 200)
       + Points(/\ card.preferred_device # ""
                /\ card.preferred_device = cond.preferred_device, 300)

FamilyPoints(cond) == Points(cond.task_family # "", 2500)
ReviewPoints(card) == Points(~card.requires_human_review, 300)

Score(card, cond) ==
      FamilyPoints(cond)
    + 1200 * Len(cond.required_capabilities)
    + 800 * Hits(cond.preferred_capabilities, NamesIn(card.capabilities))
    + 300 * Len(cond.input_modalities)
    + 500 * (KeywordHits(cond.intent_keywords, card.summary)
           + KeywordHits(cond.intent_keywords, card.when_to_use))
    - 600 * KeywordHits(cond.intent_keywords, card.when_not_to_use)
    + LatencyPoints(card) + PrimaryPoints(card) + RiskPoints(card)
    + HardwarePoints(card, cond)
    + ReviewPoints(card)

LatencyRank(card) ==
    IF EffectiveLatencyMs(card) = Undeclared THEN IntMax ELSE EffectiveLatencyMs(card)

(***************************************************************************)
(* IsBetterCandidate.                                                      *)
(***************************************************************************)
IsBetterIgnoringKey(j, k) ==
    LET score(i)   == Score(cards[i], condition)
        latency(i) == LatencyRank(cards[i])
        risk(i)    == RiskRank(cards[i].risk_level)
    IN  \/ score(j) > score(k)
        \/ /\ score(j) = score(k)
           /\ \/ latency(j) < latency(k)
              \/ latency(j) = latency(k) /\ risk(j) < risk(k)

IsBetterCandidate(j, k) ==
    LET score(i)   == Score(cards[i], condition)
        latency(i) == LatencyRank(cards[i])
        risk(i)    == RiskRank(cards[i].risk_level)
    IN  \/ score(j) > score(k)
        \/ /\ score(j) = score(k)
           /\ \/ latency(j) < latency(k)
              \/ /\ latency(j) = latency(k)
                 /\ \/ risk(j) < risk(k)
                    \/ risk(j) = risk(k) /\ j < k

Considered(k) ==
    cards[k].status = "active" /\ cards[k].backend_type = "python_http_service"

Candidate(k) == Considered(k) /\ Fits(cards[k], condition)

Init ==
    /\ cards \in [Keys -> Cards]
    /\ condition \in Conditions
    /\ todo = Keys
    /\ best = None

(***************************************************************************)
(* One round of the loop.  List gives the entries in the order of          *)
(* operator<, which is not the order of ToUniqueString; here they come in  *)
(* any order.                                                              *)
(***************************************************************************)
Skip(k) ==
    /\ k \in todo
    /\ ~Candidate(k)
    /\ todo' = todo \ {k}
    /\ UNCHANGED <<cards, condition, best>>

ImproveInPlace(k) ==
    /\ k \in todo
    /\ Candidate(k)
    /\ best # None => IsBetterCandidate(k, best)
    /\ best' = k
    /\ UNCHANGED <<cards, condition, todo>>

Improve(k) ==
    /\ k \in todo
    /\ Candidate(k)
    /\ best # None => IsBetterCandidate(k, best)
    /\ best' = k
    /\ todo' = todo \ {k}
    /\ UNCHANGED <<cards, condition>>

Keep(k) ==
    /\ k \in todo
    /\ Candidate(k)
    /\ best # None /\ ~IsBetterCandidate(k, best)
    /\ todo' = todo \ {k}
    /\ UNCHANGED <<cards, condition, best>>

Next == \E k \in Keys : Skip(k) \/ Improve(k) \/ Keep(k)

Spec == Init /\ [][Next]_vars

(***************************************************************************)
(* The condition that the command agent-template proposes for an algorithm *)
(* (BuildAgentTemplate in src/cli/main.cpp), as agent-run reads it back:   *)
(* without a hardware profile.                                             *)
(***************************************************************************)
TemplateOf(card) ==
    [task_family |-> card.task_family,
     required_capabilities |->
        SubSeq(card.capabilities, 1, Smaller(1, Len(card.capabilities))),
     preferred_capabilities |-> SubSeq(card.capabilities, 2, Len(card.capabilities)),
     input_modalities |-> card.modalities,
     intent_keywords |-> <<card.task_family>> \o card.capabilities,
     input_chars |-> card.example_chars,
     request_bytes |-> card.example_bytes,
     max_latency_ms |->
        IF card.latency_ms_p95 # Undeclared THEN card.latency_ms_p95
        ELSE IF card.latency_ms_p50 # Undeclared THEN card.latency_ms_p50 ELSE 0,
     allow_human_review |-> card.requires_human_review,
     max_risk_level |-> IF card.risk_level # "" THEN card.risk_level ELSE "medium",
     has_gpu |-> FALSE, available_gpu_memory_mb |-> 0,
     available_system_memory_mb |-> 0, available_cpu_cores |-> 0,
     preferred_device |-> ""]
-----------------------------------------------------------------------------
(***************************************************************************)
(* Types of the variables.                                                 *)
(***************************************************************************)
TypeOK ==
    /\ cards \in [Keys -> Cards]
    /\ condition \in Conditions
    /\ todo \subseteq Keys
    /\ best \in (Keys \ todo) \cup {None}

(***************************************************************************)
(* The loop selects the best candidate, whatever the order of the entries: *)
(* a candidate better than every other one it has met, and none only if it *)
(* has met none.                                                           *)
(***************************************************************************)
BestSoFar ==
    /\ best = None => \A k \in Keys \ todo : ~Candidate(k)
    /\ best # None =>
        /\ Candidate(best)
        /\ \A k \in Keys \ todo :
            Candidate(k) /\ k # best => IsBetterCandidate(best, k)

(***************************************************************************)
(* Card c is never worse than d in declared latency and risk, once better, *)
(* and otherwise the same.                                                 *)
(***************************************************************************)
Dominates(c, d) ==
    /\ LatencyRank(c) <= LatencyRank(d)
    /\ RiskRank(c.risk_level) <= RiskRank(d.risk_level)
    /\ \/ LatencyRank(c) < LatencyRank(d)
       \/ RiskRank(c.risk_level) < RiskRank(d.risk_level)
    /\ d = [c EXCEPT !.latency_ms_p50 = d.latency_ms_p50,
                     !.latency_ms_p95 = d.latency_ms_p95,
                     !.risk_level = d.risk_level]

(***************************************************************************)
(* No algorithm is selected over one that declares less latency or risk    *)
(* and is otherwise the same; declaring no latency or no risk counts as    *)
(* the most of it.                                                         *)
(***************************************************************************)
DominatedIsNotSelected ==
    todo = {} /\ best # None =>
        \A k \in Keys : Candidate(k) => ~Dominates(cards[k], cards[best])

(***************************************************************************)
(* The template proposed for an active service leads back to it, provided  *)
(* that its card names its risk, its example keeps the limits it declares, *)
(* and it needs no GPU.  (Without a GPU in the hardware profile, and with  *)
(* the threshold "medium" for a card that names no risk, the template is   *)
(* otherwise rejected by the algorithm it was made for.)                   *)
(***************************************************************************)
TemplateFitsItsAlgorithm ==
    \A k \in Keys :
        LET card == cards[k]
        IN  /\ card.risk_level # "" /\ ~card.requires_gpu
            /\ ~Exceeds(card.example_chars, card.max_input_chars)
            /\ ~Exceeds(card.example_bytes, card.max_request_bytes)
            => Fits(card, TemplateOf(card))
=============================================================================
