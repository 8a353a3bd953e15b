---------------------------- MODULE MCDecisions ----------------------------
(* Decisions for TLC: one domain of five kinds, and one answer. *)
EXTENDS Decisions

Plain == [infrastructure |-> FALSE, rule |-> "none", hit |-> {}, signals |-> {}]

Hit(confidence, fresh) ==
    [Plain EXCEPT !.hit = {[category |-> "malware", confidence |-> confidence, fresh |-> fresh]}]

MCProfiles ==
    {Plain,
     [Plain EXCEPT !.infrastructure = TRUE, !.rule = "block"],
     [Plain EXCEPT !.rule = "block", !.signals = {"high_entropy"}],
     [Hit(92, TRUE) EXCEPT !.rule = "allow"],
     [Hit(92, TRUE) EXCEPT !.signals = {"punycode", "long_domain", "suspicious_tld"}]}

MCAnswers ==
    [suspicious |-> [risk |-> 60, confidence |-> 80, category |-> "suspicious"]]

MCFirstReputation == {[score |-> 10, confidence |-> 60]}
=============================================================================
