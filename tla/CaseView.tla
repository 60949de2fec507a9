------------------------------ MODULE CaseView ------------------------------
(***************************************************************************)
(* What the workspace makes of a stored case: the risk indicators, the     *)
(* note on what the recommendation rests on, and the drill-down from an    *)
(* indicator to the raw signal behind it.  All of it is read from the      *)
(* evidence and the basis frozen in the case's row.                        *)
(***************************************************************************)
EXTENDS CaseOpening

Has(element, field) == \E t \in element.strings : t.field = field

(* Mutant: every account history counts as a missing one. *)
IsIndicatorOfAny(element) ==
    element.source = "rule" \/ element.element_id = "account_baseline"

(* risk_indicators: the rules that fired, and an account without history. *)
IsIndicator(element) ==
    \/ element.source = "rule"
    \/ element.element_id = "account_baseline" /\ Has(element, "reason")

RiskIndicators(c) ==
    LET shown == Kept(c.evidence, {e \in Elements(c.evidence) : IsIndicator(e)})
    IN  [k \in DOMAIN shown |-> shown[k].element_id]

(* drill_down: the first element of that id, or none. *)
DrillDown(c, id) ==
    LET found == {k \in DOMAIN c.evidence : c.evidence[k].element_id = id}
    IN  IF found = {} THEN None
        ELSE c.evidence[CHOOSE k \in found : \A j \in found : k <= j]

(* decision_basis_note: what the recommendation is said to rest on. *)
DecisionBasisNote(c) ==
    IF c.recommendation.band = "none" THEN "excluded" ELSE "score and rules"

-----------------------------------------------------------------------------
(* The indicators are what the engine found: one per rule hit, in the      *)
(* engine's order, and one more for an account never seen; and each drills *)
(* down to its own raw signal, by an id the assembler made from the rule's *)
(* and the page only hands back.                                           *)
IndicatorsDrillDown ==
    \A c \in Stored :
        LET ids == RiskIndicators(c)
            new == Token("prior_transaction_count", 0)
                       \in ById(c.evidence, "account_baseline").numbers
        IN  /\ Len(ids) = Len(c.rule_hits) + (IF new THEN 1 ELSE 0)
            /\ \A k \in DOMAIN c.rule_hits :
                 Token("rule_id", c.rule_hits[k]) \in DrillDown(c, ids[k]).strings
            /\ new => DrillDown(c, ids[Len(ids)]).source = "account_history"

(* The probabilities an explanation tells. *)
ProbabilitiesTold(c) ==
    {t.value : t \in {x \in UNION {s.numbers : s \in Sentences(c.explanation)} :
                         x.field = "probability"}}

(* The exclusion of the scorer is told wherever the case is: the page says *)
(* so of exactly the cases whose score column is NULL, and the explanation *)
(* of an excluded one tells no probability.  Any other tells one, its own  *)
(* to four decimals; of a status that claims a score and gives none, the   *)
(* text tells a zero while the page says excluded (render.py:38-49,        *)
(* templated.py:82-96).                                                    *)
ExclusionIsTold ==
    \A c \in Stored :
        /\ DecisionBasisNote(c) = "excluded" <=> c.score = None
        /\ SaysExcluded(c) => c.score = None
        /\ ProbabilitiesTold(c) = IF SaysExcluded(c) THEN {}
                                  ELSE IF c.score = None THEN {0}
                                  ELSE {Shown(c.score, 4)}
=============================================================================
