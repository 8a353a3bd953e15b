---------------------------- MODULE Classifiers ----------------------------
(***************************************************************************)
(* What the classifiers say of a domain and what the decision engine makes *)
(* of it: engine/classifiers/*.py, engine/evidence.py and                  *)
(* engine/decision_engine.py, as operators.                                *)
(*                                                                         *)
(* Confidences are in percent, as the classifiers' tables hold them; the   *)
(* decision's confidence is in thousandths, since the code rounds it to    *)
(* three digits.  Python's round() takes ties to the even neighbour.  The  *)
(* error of its binary fractions at an exact tie is left out.              *)
(***************************************************************************)
EXTENDS Integers, FiniteSets, FiniteSetsExt

CONSTANTS
    HighRiskThreshold, \* settings.high_risk_threshold
    RowHasGet          \* rows of the database have a get() method

ASSUME ThresholdAssumption ==
    /\ HighRiskThreshold \in 0 .. 100
    /\ RowHasGet \in BOOLEAN

Category == {"benign", "infrastructure", "advertising", "analytics", "tracking",
             "suspicious", "malware", "phishing", "command-and-control", "unknown"}

HarmfulCategories == {"malware", "phishing", "command-and-control"}

\* The points of each heuristic; its confidence is 70, for punycode 85.
Points ==
    [punycode |-> 40, long_domain |-> 15, deep_subdomain |-> 15, many_digits |-> 20,
     high_entropy |-> 25, suspicious_tld |-> 20, phishing_word |-> 15,
     many_hyphens |-> 15, random_label |-> 20, high_query_frequency |-> 15]

\* What the tables and the name say of a domain.  Of the words in
\* PHISHING_WORDS one stands for all; hit is the row get_active_threat_intel
\* finds, if any.
Profile ==
    [infrastructure : BOOLEAN,
     rule           : {"none", "allow", "block"},
     hit            : SUBSET [category : Category, confidence : 0 .. 100, fresh : BOOLEAN],
     signals        : SUBSET DOMAIN Points]

Reputation == [score : 0 .. 100, confidence : 0 .. 100]

-----------------------------------------------------------------------------
(* Evidence *)

Clamp(low, n, high) == IF n < low THEN low ELSE IF n > high THEN high ELSE n

Item(classifier, type, polarity, score, confidence, category) ==
    [classifier |-> classifier, type |-> type, polarity |-> polarity,
     score |-> Clamp(-100, score, 100), confidence |-> Clamp(0, confidence, 100),
     category |-> category, precedence |-> 1000]

Decisive(item) == item.precedence < 1000

\* RuleEngine.collect_evidence
RuleEvidence(profile) ==
    IF profile.infrastructure
    THEN {[Item("rule-engine", "local_infrastructure", "safety", -90, 98, "infrastructure")
             EXCEPT !.precedence = 40]}
    ELSE {}

ManualRuleEvidence(rule) ==
    IF rule = "allow"
    THEN [Item("manual-rule", "manual_allow", "safety", -100, 95, "benign")
            EXCEPT !.precedence = 20]
    ELSE [Item("manual-rule", "manual_block", "risk", 100, 95, "suspicious")
            EXCEPT !.precedence = 10]

LearnedEvidence(row) ==
    IF row.score < HighRiskThreshold
    THEN Item("local-reputation", "learned_reputation", "safety",
              IF row.score > 60 THEN -60 ELSE -row.score, row.confidence, "benign")
    ELSE Item("local-reputation", "learned_reputation", "risk", row.score,
              row.confidence, "suspicious")

\* ReputationClassifier.collect_evidence; reputation holds the row if there is one.
Faulty_ReputationEvidence(profile, reputation) ==
    IF reputation # {} THEN {LearnedEvidence(row) : row \in reputation}
    ELSE IF profile.rule # "none" THEN {ManualRuleEvidence(profile.rule)} ELSE {}
ReputationEvidence(profile, reputation) ==
    IF profile.rule # "none" THEN {ManualRuleEvidence(profile.rule)}
    ELSE {LearnedEvidence(row) : row \in reputation}

\* ThreatIntelClassifier.collect_evidence calls get() on the row of a hit: it
\* raises unless rows have that method, as the dicts of its tests do.
IntelRaises(profile) == profile.hit # {} /\ ~RowHasGet

IntelItem(hit) ==
    [Item("threat-intel", "feed_hit", "risk",
          Clamp(IF hit.fresh THEN 70 ELSE 50, hit.confidence, 100), hit.confidence,
          IF hit.category \in HarmfulCategories THEN hit.category ELSE "suspicious")
       EXCEPT !.precedence = IF hit.confidence >= 70 /\ hit.fresh THEN 30 ELSE 1000]

IntelEvidence(profile) ==
    IF IntelRaises(profile) THEN {} ELSE {IntelItem(hit) : hit \in profile.hit}

\* HeuristicsEngine.collect_evidence
HeuristicEvidence(profile) ==
    {Item("heuristics", signal, "risk", Points[signal],
          IF signal = "punycode" THEN 85 ELSE 70, "suspicious") : signal \in profile.signals}

\* The results of AIClassifier.classify that are no answer of the model.
Unasked == {"ai_disabled", "ai_cooldown", "ai_rate_limited"}
Unanswered == {"ai_timeout", "invalid", "unavailable"}

Answer == [risk : 0 .. 100, confidence : 0 .. 100, category : Category]

Faulty_NoAnswer(reason) ==
    [risk |-> IF reason = "unavailable" THEN 50 ELSE 0, confidence |-> 10,
     category |-> "unknown"]
NoAnswer(reason) ==
    [risk |-> IF reason = "unavailable" THEN 50 ELSE 0, confidence |-> 0,
     category |-> "unknown"]

\* AIClassifier.collect_evidence
AIItem(type, answer) ==
    LET polarity == IF answer.risk > 50 THEN "risk"
                    ELSE IF answer.risk < 50 THEN "safety" ELSE "neutral"
        score    == IF answer.risk > 50 THEN answer.risk
                    ELSE IF answer.risk < 50 THEN answer.risk - 100 ELSE 0
    IN Item("ai", type, polarity, score, answer.confidence, answer.category)

AISkipItem(reason) ==
    AIItem(IF reason = "unavailable" THEN "ai_result" ELSE "ai_skipped", NoAnswer(reason))

-----------------------------------------------------------------------------
(* The decision engine *)

\* The integer nearest to n / d, ties to the even one.
Rounded(n, d) ==
    LET q == n \div d
        r == n % d
    IN IF 2 * r < d \/ (2 * r = d /\ q % 2 = 0) THEN q ELSE q + 1

\* _aggregate_score, without the weights of the second and third item of a
\* group: each classifier gives at most one item of a type.
Influence(items) == MapThenSumSet(LAMBDA i : i.score * i.confidence, items)
ConfidenceSum(items) == MapThenSumSet(LAMBDA i : i.confidence, items)

AggregateRisk(items) ==
    Clamp(0, Rounded(10000 + Influence(items), 200), 100)

OnlyAI(items) == \A i \in items : i.classifier = "ai"

AggregateConfidence(items) ==
    LET n == Cardinality(items)
        mean == Rounded(10 * ConfidenceSum(items) + 150 * n, n)
    IN Clamp(0, mean, IF OnlyAI(items) THEN 750 ELSE 950)

CategoryForRisk(risk) ==
    IF risk <= 29 THEN "benign" ELSE IF risk <= 59 THEN "unknown" ELSE "suspicious"

\* The category of the strongest risk item; with a tie max() takes the first
\* one, and the model any of them.
CategoriesFromEvidence(items, risk) ==
    LET risky == {i \in items : i.polarity = "risk"}
    IN IF risky = {} THEN {CategoryForRisk(risk)}
       ELSE {i.category : i \in {j \in risky :
                \A k \in risky : j.score * j.confidence >= k.score * k.confidence}}

VerdictForRisk(risk, category) ==
    CASE risk >= 80 \/ category \in HarmfulCategories -> "malicious"
      [] risk \in 60 .. 79 /\ category \notin HarmfulCategories -> "suspicious"
      [] risk <= 29 /\ category \notin HarmfulCategories -> "safe"
      [] OTHER -> "unknown"

Decision(risk, confidence, category, source) ==
    [verdict |-> VerdictForRisk(risk, category), risk |-> risk,
     confidence |-> confidence, category |-> category, source |-> source]

Strongest(items) ==
    CHOOSE i \in items : \A j \in items : i.precedence <= j.precedence

\* What decide() may return; one decision, but for ties of the category.
Decisions(items) ==
    LET decisive == {i \in items : Decisive(i)} IN
    IF decisive # {}
    THEN LET item == Strongest(decisive)
         IN {Decision(IF item.polarity = "risk" THEN 100 ELSE 0, 10 * item.confidence,
                      item.category, item.classifier)}
    ELSE IF items = {} THEN {Decision(50, 0, "unknown", "decision-engine")}
    ELSE {Decision(AggregateRisk(items), AggregateConfidence(items), category,
                   "decision-engine") :
             category \in CategoriesFromEvidence(items, AggregateRisk(items))}

\* should_skip_ai
SkipsAI(items) ==
    \/ \E i \in items : Decisive(i)
    \/ /\ items # {}
       /\ AggregateConfidence(items) >= 800
       /\ AggregateRisk(items) <= 29 \/ AggregateRisk(items) > 59

\* to_analysis_result: the row saved for a decision.
Analysis(decision) ==
    [risk |-> decision.risk, confidence |-> Rounded(decision.confidence, 10),
     category |-> decision.category, model |-> decision.source]

-----------------------------------------------------------------------------
(* Learning from a result *)

\* update_reputation_from_analysis: the domain's row afterwards.
LearnsFrom(result) ==
    /\ result.model \notin {"manual-rule", "local-reputation"}
    /\ result.confidence > 0

Learned(result, reputation) ==
    IF LearnsFrom(result)
    THEN {[score |-> Clamp(0, result.risk, 100), confidence |-> Clamp(0, result.confidence, 100)]}
    ELSE reputation
=============================================================================
