------------------------ MODULE RecommendationPolicy ------------------------
(***************************************************************************)
(* The recommendation policy as a pure function: a score (or its absence)  *)
(* and the ids of the rules that fired give an action, a confidence and an *)
(* uncertainty flag.  Probabilities are naturals on any scale; the policy  *)
(* only compares them with the two band boundaries.                        *)
(***************************************************************************)
EXTENDS Naturals, Sequences

CONSTANT None   \* Python's None

(* The registry's rules; mule_passthrough is a stub that never fires. *)
Rules == {"account_draining", "velocity", "new_beneficiary_large",
          "mule_passthrough"}

Actions == {"clear", "hold", "escalate"}
Bands == {"low", "borderline", "high", "none"}

Severity(action) == IF action = "clear" THEN 0
                    ELSE IF action = "hold" THEN 1 ELSE 2

(* The action a band asks for. *)
BandAction(band) == IF band = "low" THEN "clear"
                    ELSE IF band = "borderline" THEN "hold" ELSE "escalate"

ScoreBand(p, bands) == IF p < bands.low_max THEN "low"
                       ELSE IF p >= bands.high_min THEN "high"
                       ELSE "borderline"

(* Mutant: all the fired rules must be escalating, not any. *)
RuleActionAll(fired, escalating) ==
    IF fired = {} THEN None
    ELSE IF fired \subseteq escalating THEN "escalate" ELSE "hold"

(* The action the fired rules ask for, None if none fired. *)
RuleAction(fired, escalating) ==
    IF fired = {} THEN None
    ELSE IF fired \cap escalating # {} THEN "escalate" ELSE "hold"

Trusted(score) == score.available /\ score.probability # None

(* Mutant: fired rules replace the score's action. *)
RecommendByRules(score, fired, cfg) ==
    LET band == ScoreBand(score.probability, cfg.bands)
        byRules == RuleAction(fired, cfg.escalating)
    IN  [action |-> IF byRules # None THEN byRules ELSE BandAction(band),
         confidence |-> "medium", band |-> band, uncertain |-> TRUE]

(* Mutant: the confidence looks at the band only. *)
RecommendWithoutConflict(score, fired, cfg) ==
    LET band == ScoreBand(score.probability, cfg.bands)
        byRules == RuleAction(fired, cfg.escalating)
        byScore == BandAction(band)
    IN  [action |-> IF byRules # None /\ Severity(byRules) > Severity(byScore)
                    THEN byRules ELSE byScore,
         confidence |-> IF band # "borderline" THEN "high" ELSE "medium",
         band |-> band,
         uncertain |-> band = "borderline"]

(* An operational score: the more severe of what the band and the rules    *)
(* ask for; doubt if they differ or the band is borderline.                *)
RecommendScored(score, fired, cfg) ==
    LET band == ScoreBand(score.probability, cfg.bands)
        byScore == BandAction(band)
        byRules == RuleAction(fired, cfg.escalating)
        conflict == byRules # None /\ byRules # byScore
    IN  [action |-> IF byRules # None /\ Severity(byRules) > Severity(byScore)
                    THEN byRules ELSE byScore,
         confidence |-> IF band # "borderline" /\ ~conflict THEN "high"
                                                            ELSE "medium",
         band |-> band,
         uncertain |-> band = "borderline" \/ conflict]

(* Mutant: without a rule there is nothing to worry about. *)
RecommendClear(fired, cfg) ==
    [action |-> IF fired = {} THEN "clear" ELSE RuleAction(fired, cfg.escalating),
     confidence |-> "low", band |-> "none", uncertain |-> TRUE]

(* No operational score: the rules decide, at least a hold, always in doubt. *)
RecommendUnscored(fired, cfg) ==
    LET byRules == RuleAction(fired, cfg.escalating)
    IN  [action |-> IF byRules # None THEN byRules ELSE "hold",
         confidence |-> IF byRules # None THEN "medium" ELSE "low",
         band |-> "none",
         uncertain |-> TRUE]

Recommend(score, fired, cfg) ==
    IF Trusted(score) THEN RecommendScored(score, fired, cfg)
                      ELSE RecommendUnscored(fired, cfg)
=============================================================================
