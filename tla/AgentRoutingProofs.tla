--------------------------- MODULE AgentRoutingProofs ---------------------------
(***************************************************************************)
(* Theorems about AgentRouting, for any set of algorithms, cards and       *)
(* conditions: the comparison of candidates is a strict total order, and   *)
(* the loop selects its greatest element in whatever order it meets them.  *)
(***************************************************************************)
EXTENDS AgentRouting, FiniteSetTheorems, SequenceTheorems, TLAPS

(***************************************************************************)
(* How many names of a list are found is a natural number.                 *)
(***************************************************************************)
LEMMA HitsType ==
    ASSUME NEW names \in Seq(Names), NEW found
    PROVE  Hits(names, found) \in Nat
<1> DEFINE S == {i \in DOMAIN names : names[i] \in found}
<1>1. IsFiniteSet(1..Len(names))
  BY FS_Interval
<1>2. IsFiniteSet(S)
  <2>1. S \subseteq 1..Len(names)
    OBVIOUS
  <2> QED BY <1>1, <2>1, FS_Subset
<1> QED BY <1>2, FS_CardinalityType DEF Hits

(***************************************************************************)
(* How many keywords occur in the texts of a card is a natural number.     *)
(***************************************************************************)
LEMMA KeywordHitsType ==
    ASSUME NEW keywords \in Seq(Names), NEW texts
    PROVE  KeywordHits(keywords, texts) \in Nat
  BY HitsType DEF KeywordHits

(***************************************************************************)
(* What candidates are compared by are whole numbers.                      *)
(***************************************************************************)
LEMMA LatencyType ==
    ASSUME NEW card \in Cards
    PROVE  /\ EffectiveLatencyMs(card) \in Optional
           /\ LatencyRank(card) \in Int
           /\ LatencyPoints(card) \in Int
<1>1. card.latency_ms_p50 \in Optional /\ card.latency_ms_p95 \in Optional
  BY CardsAssumption DEF CardType
<1>2. EffectiveLatencyMs(card) \in Optional
  BY <1>1 DEF EffectiveLatencyMs
<1>3. EffectiveLatencyMs(card) # Undeclared => EffectiveLatencyMs(card) \in Int
  BY <1>2 DEF Optional
<1>4. LatencyRank(card) \in Int
  BY <1>3, IntMaxAssumption DEF LatencyRank
<1>5. LatencyPoints(card) \in Int
  BY <1>3 DEF LatencyPoints, Larger
<1> QED BY <1>2, <1>4, <1>5

(***************************************************************************)
(* The terms of the score add up to a whole number.                        *)
(***************************************************************************)
LEMMA SumType ==
    ASSUME NEW a \in Int, NEW b \in Int, NEW c \in Int, NEW d \in Int, NEW e \in Int,
           NEW f \in Int, NEW g \in Int, NEW h \in Int, NEW i \in Int, NEW j \in Int,
           NEW k \in Int, NEW l \in Int
    PROVE  /\ a + 1200 * b + 800 * c + 300 * d + 500 * (e + f) - 600 * g \in Int
           /\ a + 1200 * b + 800 * c + 300 * d + 500 * (e + f) - 600 * g
                + h + i + j + k + l \in Int
  OBVIOUS

(***************************************************************************)
(* The score is a whole number: what the texts and lists of the card and   *)
(* the condition give, and what the card declares.                         *)
(***************************************************************************)
ListPoints(card, cond) ==
      FamilyPoints(cond)
    + 1200 * Len(cond.required_capabilities)
    + 800 * Hits(cond.preferred_capabilities, NamesIn(card.capabilities))
    + 300 * Len(cond.input_modalities)
    + 500 * (KeywordHits(cond.intent_keywords, card.summary)
           + KeywordHits(cond.intent_keywords, card.when_to_use))
    - 600 * KeywordHits(cond.intent_keywords, card.when_not_to_use)

(***************************************************************************)
(* The summands of the score of EvaluatePythonServiceCandidate are         *)
(* integers, and the score is the list points plus those of the card.      *)
(***************************************************************************)
LEMMA ScoreType ==
    ASSUME NEW card \in Cards, NEW cond \in Conditions
    PROVE  /\ ListPoints(card, cond) \in Int /\ LatencyPoints(card) \in Int
           /\ PrimaryPoints(card) \in Int /\ RiskPoints(card) \in Int
           /\ HardwarePoints(card, cond) \in Int /\ ReviewPoints(card) \in Int
           /\ Score(card, cond) =
                ListPoints(card, cond) + LatencyPoints(card) + PrimaryPoints(card)
                + RiskPoints(card) + HardwarePoints(card, cond) + ReviewPoints(card)
           /\ Score(card, cond) \in Int
<1>1. /\ cond.required_capabilities \in Seq(Names)
      /\ cond.preferred_capabilities \in Seq(Names)
      /\ cond.input_modalities \in Seq(Names)
      /\ cond.intent_keywords \in Seq(Names)
  BY ConditionsAssumption DEF ConditionType
<1>2. Len(cond.required_capabilities) \in Int /\ Len(cond.input_modalities) \in Int
  BY <1>1
<1>3. /\ Hits(cond.preferred_capabilities, NamesIn(card.capabilities)) \in Int
      /\ KeywordHits(cond.intent_keywords, card.summary) \in Int
      /\ KeywordHits(cond.intent_keywords, card.when_to_use) \in Int
      /\ KeywordHits(cond.intent_keywords, card.when_not_to_use) \in Int
  BY <1>1, HitsType, KeywordHitsType
<1>4. PrimaryPoints(card) \in Int
  <2>1. card.primary_score \in Optional
    BY CardsAssumption DEF CardType
  <2> QED BY <2>1 DEF PrimaryPoints, Optional, Larger, Smaller
<1>5. RiskPoints(card) \in Int
  BY DEF RiskPoints, Points
<1>6. HardwarePoints(card, cond) \in Int
  BY DEF HardwarePoints, Points
<1>7. FamilyPoints(cond) \in Int /\ ReviewPoints(card) \in Int
  BY DEF FamilyPoints, ReviewPoints, Points
<1>8. LatencyPoints(card) \in Int
  BY LatencyType
<1> DEFINE a == FamilyPoints(cond)
           b == Len(cond.required_capabilities)
           c == Hits(cond.preferred_capabilities, NamesIn(card.capabilities))
           d == Len(cond.input_modalities)
           e == KeywordHits(cond.intent_keywords, card.summary)
           f == KeywordHits(cond.intent_keywords, card.when_to_use)
           g == KeywordHits(cond.intent_keywords, card.when_not_to_use)
           h == LatencyPoints(card)
           i == PrimaryPoints(card)
           j == RiskPoints(card)
           k == HardwarePoints(card, cond)
           l == ReviewPoints(card)
<1>9. /\ a \in Int /\ b \in Int /\ c \in Int /\ d \in Int /\ e \in Int /\ f \in Int
      /\ g \in Int /\ h \in Int /\ i \in Int /\ j \in Int /\ k \in Int /\ l \in Int
  BY <1>2, <1>3, <1>4, <1>5, <1>6, <1>7, <1>8
<1>10. Score(card, cond) = a + 1200 * b + 800 * c + 300 * d + 500 * (e + f) - 600 * g
                            + h + i + j + k + l
  BY DEF Score
<1>11. ListPoints(card, cond) =
            a + 1200 * b + 800 * c + 300 * d + 500 * (e + f) - 600 * g
  BY DEF ListPoints
<1>12. Score(card, cond) = ListPoints(card, cond) + h + i + j + k + l
  BY DEF Score, ListPoints
<1> HIDE DEF a, b, c, d, e, f, g, h, i, j, k, l
<1>13. ListPoints(card, cond) \in Int /\ Score(card, cond) \in Int
  BY <1>9, <1>10, <1>11, SumType
<1> QED BY <1>9, <1>12, <1>13 DEF h, i, j, k, l

(***************************************************************************)
(* RiskRank gives every risk level, known or not, a natural number.        *)
(***************************************************************************)
LEMMA RiskRankType ==
    ASSUME NEW risk
    PROVE  RiskRank(risk) \in Nat
  BY DEF RiskRank

(***************************************************************************)
(* The comparison by keys of numbers, as IsBetterCandidate makes it.       *)
(***************************************************************************)
LEMMA StrictTotalOrder ==
    ASSUME cards \in [Keys -> Cards], condition \in Conditions
    PROVE  /\ \A j \in Keys : ~IsBetterCandidate(j, j)
           /\ \A i, j, k \in Keys :
                IsBetterCandidate(i, j) /\ IsBetterCandidate(j, k)
                    => IsBetterCandidate(i, k)
           /\ \A j, k \in Keys :
                j # k => IsBetterCandidate(j, k) \/ IsBetterCandidate(k, j)
<1>1. \A k \in Keys : /\ k \in Nat
                      /\ Score(cards[k], condition) \in Int
                      /\ LatencyRank(cards[k]) \in Int
                      /\ RiskRank(cards[k].risk_level) \in Int
  BY KeysAssumption, ScoreType, LatencyType, RiskRankType
<1>2. \A j \in Keys : ~IsBetterCandidate(j, j)
  BY <1>1 DEF IsBetterCandidate
<1>3. \A i, j, k \in Keys :
        IsBetterCandidate(i, j) /\ IsBetterCandidate(j, k) => IsBetterCandidate(i, k)
  BY <1>1 DEF IsBetterCandidate
<1>4. \A j, k \in Keys :
        j # k => IsBetterCandidate(j, k) \/ IsBetterCandidate(k, j)
  BY <1>1 DEF IsBetterCandidate
<1> QED BY <1>2, <1>3, <1>4

(***************************************************************************)
(* Less declared latency and risk never cost a point.                      *)
(***************************************************************************)
LEMMA DominatingScore ==
    ASSUME NEW c \in Cards, NEW d \in Cards, NEW cond \in Conditions, Dominates(c, d)
    PROVE  Score(c, cond) >= Score(d, cond)
<1>1. LatencyRank(c) <= LatencyRank(d) /\ RiskRank(c.risk_level) <= RiskRank(d.risk_level)
  BY DEF Dominates
<1>2. LatencyPoints(c) >= LatencyPoints(d)
  <2>1. /\ EffectiveLatencyMs(c) = Undeclared \/ EffectiveLatencyMs(c) \in Int
        /\ EffectiveLatencyMs(d) = Undeclared \/ EffectiveLatencyMs(d) \in Int
    BY LatencyType DEF Optional
  <2> QED BY <1>1, <2>1, IntMaxAssumption DEF LatencyRank, LatencyPoints, Larger
<1>3. RiskPoints(c) >= RiskPoints(d)
  BY <1>1 DEF RiskRank, RiskPoints, Points
<1>4. /\ d.capabilities = c.capabilities /\ d.summary = c.summary
      /\ d.when_to_use = c.when_to_use /\ d.when_not_to_use = c.when_not_to_use
      /\ d.primary_score = c.primary_score
      /\ d.requires_human_review = c.requires_human_review
      /\ d.hardware = c.hardware /\ d.requires_gpu = c.requires_gpu
      /\ d.preferred_device = c.preferred_device
  <2>1. d = [c EXCEPT !.latency_ms_p50 = d.latency_ms_p50,
                      !.latency_ms_p95 = d.latency_ms_p95,
                      !.risk_level = d.risk_level]
    BY DEF Dominates
  <2>2. c \in CardType
    BY CardsAssumption
  <2> QED BY <2>1, <2>2 DEF CardType
<1>5. /\ PrimaryPoints(d) = PrimaryPoints(c)
      /\ HardwarePoints(d, cond) = HardwarePoints(c, cond)
      /\ ReviewPoints(d) = ReviewPoints(c)
  BY <1>4 DEF PrimaryPoints, HardwarePoints, ReviewPoints, Points
<1>6. ListPoints(d, cond) = ListPoints(c, cond)
  BY <1>4 DEF ListPoints
<1> QED BY <1>2, <1>3, <1>5, <1>6, ScoreType

IInv == TypeOK /\ BestSoFar

(***************************************************************************)
(* The loop starts without a candidate.                                    *)
(***************************************************************************)
LEMMA InitIInv == Init => IInv
  BY KeysAssumption DEF Init, IInv, TypeOK, BestSoFar

(***************************************************************************)
(* Every round of the loop keeps the best candidate met so far.            *)
(***************************************************************************)
LEMMA NextIInv == IInv /\ [Next]_vars => IInv'
<1> SUFFICES ASSUME IInv, [Next]_vars PROVE IInv'
  OBVIOUS
<1> USE DEF IInv
<1>0. /\ cards \in [Keys -> Cards] /\ condition \in Conditions
      /\ todo \subseteq Keys /\ best \in (Keys \ todo) \cup {None}
  BY DEF TypeOK
<1>same. ASSUME cards' = cards, condition' = condition
         PROVE  /\ \A k : Candidate(k)' <=> Candidate(k)
                /\ \A j, k : IsBetterCandidate(j, k)' <=> IsBetterCandidate(j, k)
  BY <1>same DEF Candidate, Considered, IsBetterCandidate
<1>1. ASSUME NEW k \in Keys, Skip(k) PROVE IInv'
  <2>1. cards' = cards /\ condition' = condition /\ best' = best
        /\ todo' = todo \ {k} /\ ~Candidate(k)
    BY <1>1 DEF Skip
  <2>2. TypeOK'
    BY <1>0, <2>1 DEF TypeOK
  <2>3. BestSoFar'
    BY <1>0, <2>1, <1>same DEF BestSoFar
  <2> QED BY <2>2, <2>3
<1>2. ASSUME NEW k \in Keys, Improve(k) PROVE IInv'
  <2>1. cards' = cards /\ condition' = condition /\ best' = k
        /\ todo' = todo \ {k} /\ k \in todo /\ Candidate(k)
        /\ (best # None => IsBetterCandidate(k, best))
    BY <1>2 DEF Improve
  <2>2. TypeOK'
    BY <1>0, <2>1 DEF TypeOK
  <2>3. ASSUME NEW j \in Keys \ todo, Candidate(j)
        PROVE  IsBetterCandidate(k, j)
    <3>1. best # None
      BY <2>3 DEF BestSoFar
    <3>2. j = best \/ IsBetterCandidate(best, j)
      BY <2>3, <3>1 DEF BestSoFar
    <3>3. best \in Keys /\ IsBetterCandidate(k, best)
      BY <1>0, <2>1, <3>1
    <3> QED BY <1>0, <3>2, <3>3, StrictTotalOrder
  <2>4. best' # None
    BY <2>1, KeysAssumption
  <2>5. BestSoFar'
    BY <1>0, <2>1, <2>3, <2>4, <1>same DEF BestSoFar
  <2> QED BY <2>2, <2>5
<1>3. ASSUME NEW k \in Keys, Keep(k) PROVE IInv'
  <2>1. cards' = cards /\ condition' = condition /\ best' = best
        /\ todo' = todo \ {k} /\ k \in todo /\ best # None
        /\ ~IsBetterCandidate(k, best)
    BY <1>3 DEF Keep
  <2>2. TypeOK'
    BY <1>0, <2>1 DEF TypeOK
  <2>3. best \in Keys /\ best # k
    BY <1>0, <2>1
  <2>4. IsBetterCandidate(best, k)
    BY <1>0, <2>1, <2>3, StrictTotalOrder
  <2>5. BestSoFar'
    BY <1>0, <2>1, <2>4, <1>same DEF BestSoFar
  <2> QED BY <2>2, <2>5
<1>4. CASE UNCHANGED vars
  <2>1. cards' = cards /\ condition' = condition /\ best' = best /\ todo' = todo
    BY <1>4 DEF vars
  <2> QED BY <2>1, <1>same DEF TypeOK, BestSoFar
<1> QED BY <1>1, <1>2, <1>3, <1>4 DEF Next

(***************************************************************************)
(* The inductive invariant of the selection loop.                          *)
(***************************************************************************)
THEOREM Invariance == Spec => []IInv
<1> QED BY InitIInv, NextIInv, PTL DEF Spec

(***************************************************************************)
(* RouteForAgent selects the best candidate, and reports none only if      *)
(* there is none, whatever the number of registered algorithms, what their *)
(* cards say, and the order List gives them in.                            *)
(***************************************************************************)
THEOREM SelectsTheBest == Spec => []BestSoFar
<1>1. IInv => BestSoFar
  BY DEF IInv
<1> QED BY <1>1, Invariance, PTL

(***************************************************************************)
(* The variables keep their types; in particular the selected algorithm is *)
(* one that the loop has met.                                              *)
(***************************************************************************)
THEOREM TypeCorrect == Spec => []TypeOK
<1>1. IInv => TypeOK
  BY DEF IInv
<1> QED BY <1>1, Invariance, PTL

(***************************************************************************)
(* An algorithm that declares less latency or risk and is otherwise the    *)
(* same is never passed over.                                              *)
(***************************************************************************)
THEOREM NotDominated == Spec => []DominatedIsNotSelected
<1>1. IInv => DominatedIsNotSelected
  <2> SUFFICES ASSUME IInv, todo = {}, best # None,
                      NEW k \in Keys, Candidate(k), Dominates(cards[k], cards[best])
               PROVE  FALSE
    BY DEF DominatedIsNotSelected
  <2>1. /\ cards \in [Keys -> Cards] /\ condition \in Conditions
        /\ best \in Keys /\ cards[k] \in Cards /\ cards[best] \in Cards
    BY DEF IInv, TypeOK
  <2>2. k # best
    BY <2>1, RiskRankType, LatencyType DEF Dominates
  <2>3. IsBetterCandidate(best, k)
    BY <2>1, <2>2 DEF IInv, BestSoFar
  <2>4. Score(cards[k], condition) >= Score(cards[best], condition)
    BY <2>1, DominatingScore
  <2>5. /\ Score(cards[k], condition) \in Int /\ Score(cards[best], condition) \in Int
        /\ LatencyRank(cards[k]) \in Int /\ LatencyRank(cards[best]) \in Int
        /\ RiskRank(cards[k].risk_level) \in Nat
        /\ RiskRank(cards[best].risk_level) \in Nat
    BY <2>1, ScoreType, LatencyType, RiskRankType
  <2> QED BY <2>3, <2>4, <2>5 DEF IsBetterCandidate, Dominates
<1> QED BY <1>1, Invariance, PTL

(***************************************************************************)
(* What the template of a card takes from it.                              *)
(***************************************************************************)
LEMMA TemplateFields ==
    ASSUME NEW card, NEW cond, cond = TemplateOf(card)
    PROVE  /\ cond.task_family = card.task_family
           /\ cond.required_capabilities =
                SubSeq(card.capabilities, 1, Smaller(1, Len(card.capabilities)))
           /\ cond.input_modalities = card.modalities
           /\ cond.input_chars = card.example_chars
           /\ cond.request_bytes = card.example_bytes
           /\ cond.max_latency_ms =
                IF card.latency_ms_p95 # Undeclared THEN card.latency_ms_p95
                ELSE IF card.latency_ms_p50 # Undeclared THEN card.latency_ms_p50
                ELSE 0
           /\ cond.max_risk_level = IF card.risk_level # "" THEN card.risk_level
                                    ELSE "medium"
           /\ cond.available_gpu_memory_mb = 0
           /\ cond.available_system_memory_mb = 0
           /\ cond.available_cpu_cores = 0
  BY DEF TemplateOf

(***************************************************************************)
(* It requires only the first capability of the card, its modalities and   *)
(* its latency, and says nothing about memory or cores.                    *)
(***************************************************************************)
LEMMA TemplateAsksWhatTheCardHas ==
    ASSUME NEW card \in CardType, NEW cond, cond = TemplateOf(card)
    PROVE  /\ AllContained(card.capabilities, cond.required_capabilities)
           /\ AllContained(card.modalities, cond.input_modalities)
           /\ FitsLatency(card, cond)
           /\ ~TooSmall(cond.available_gpu_memory_mb, card.min_gpu_memory_mb)
           /\ ~TooSmall(cond.available_system_memory_mb, card.min_system_memory_mb)
           /\ ~TooSmall(cond.available_cpu_cores, card.min_cpu_cores)
<1>1. /\ card.latency_ms_p50 \in Optional /\ card.latency_ms_p95 \in Optional
      /\ card.capabilities \in Seq(Names)
  BY DEF CardType
<1>2. AllContained(card.capabilities, cond.required_capabilities)
  <2> DEFINE n == Smaller(1, Len(card.capabilities))
  <2>1. Len(card.capabilities) \in Nat
    BY <1>1
  <2>2. n \in 0..Len(card.capabilities)
    BY <2>1 DEF Smaller
  <2>3. \A i \in 1..n : i \in DOMAIN card.capabilities
                        /\ card.capabilities[i] = SubSeq(card.capabilities, 1, n)[i]
    BY <1>1, <2>1, <2>2
  <2>4. DOMAIN SubSeq(card.capabilities, 1, n) = 1..n
    BY <1>1, <2>1, <2>2
  <2>5. cond.required_capabilities = SubSeq(card.capabilities, 1, n)
    BY TemplateFields
  <2> HIDE DEF n
  <2> QED BY <2>3, <2>4, <2>5 DEF AllContained, ContainsValue
<1>3. AllContained(card.modalities, cond.input_modalities)
  BY TemplateFields DEF AllContained, ContainsValue
<1>4. FitsLatency(card, cond)
  <2>1. cond.max_latency_ms =
            IF card.latency_ms_p95 # Undeclared THEN card.latency_ms_p95
            ELSE IF card.latency_ms_p50 # Undeclared THEN card.latency_ms_p50 ELSE 0
    BY TemplateFields
  <2>2. EffectiveLatencyMs(card) # Undeclared =>
            /\ EffectiveLatencyMs(card) = cond.max_latency_ms
            /\ EffectiveLatencyMs(card) \in Int
    BY <1>1, <2>1 DEF EffectiveLatencyMs, Optional
  <2> QED BY <2>2 DEF FitsLatency
<1>5. /\ cond.available_gpu_memory_mb = 0
      /\ cond.available_system_memory_mb = 0
      /\ cond.available_cpu_cores = 0
  BY TemplateFields
<1>6. \A needed : ~TooSmall(0, needed)
  BY DEF TooSmall
<1> QED BY <1>2, <1>3, <1>4, <1>5, <1>6, Zenon

(***************************************************************************)
(* A risk is within itself as a threshold.                                 *)
(***************************************************************************)
LEMMA RiskRankReflexive ==
    ASSUME NEW risk
    PROVE  RiskRank(risk) <= RiskRank(risk)
<1>1. RiskRank(risk) \in Nat
  BY RiskRankType
<1> QED BY <1>1

(***************************************************************************)
(* Its risk threshold is the risk of the card, if the card names one.      *)
(***************************************************************************)
LEMMA TemplateAllowsTheRisk ==
    ASSUME NEW card, NEW cond, cond = TemplateOf(card), card.risk_level # ""
    PROVE  RiskRank(card.risk_level) <= RiskRank(cond.max_risk_level)
<1>1. cond.max_risk_level = card.risk_level
  BY TemplateFields
<1> QED BY <1>1, RiskRankReflexive, Zenon

(***************************************************************************)
(* The template made for a card fits it.                                   *)
(***************************************************************************)
LEMMA TemplateFitsCard ==
    ASSUME NEW card \in CardType, NEW cond, cond = TemplateOf(card),
           card.risk_level # "", ~card.requires_gpu,
           ~Exceeds(card.example_chars, card.max_input_chars),
           ~Exceeds(card.example_bytes, card.max_request_bytes)
    PROVE  Fits(card, cond)
<1>1. card.requires_human_review => cond.allow_human_review
  BY Zenon DEF TemplateOf
<1>2. FitsHardware(card, cond)
  BY TemplateAsksWhatTheCardHas, Zenon DEF FitsHardware
<1>3. RiskRank(card.risk_level) <= RiskRank(cond.max_risk_level)
  BY TemplateAllowsTheRisk, Zenon
<1> QED BY <1>1, <1>2, <1>3, TemplateFields, TemplateAsksWhatTheCardHas, Zenon DEF Fits

(***************************************************************************)
(* The template of agent-template fits the algorithm it is made for.       *)
(***************************************************************************)
THEOREM TemplateFits == Spec => []TemplateFitsItsAlgorithm
<1>1. TypeOK => TemplateFitsItsAlgorithm
  <2> SUFFICES ASSUME TypeOK, NEW k \in Keys,
                      cards[k].risk_level # "", ~cards[k].requires_gpu,
                      ~Exceeds(cards[k].example_chars, cards[k].max_input_chars),
                      ~Exceeds(cards[k].example_bytes, cards[k].max_request_bytes)
               PROVE  Fits(cards[k], TemplateOf(cards[k]))
    BY DEF TemplateFitsItsAlgorithm
  <2>1. cards[k] \in CardType
    BY CardsAssumption DEF TypeOK
  <2> QED BY <2>1, TemplateFitsCard
<1> QED BY <1>1, TypeCorrect, PTL
=============================================================================
