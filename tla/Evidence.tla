------------------------------ MODULE Evidence ------------------------------
(***************************************************************************)
(* The evidence package of a case, the templated explanation made from it, *)
(* and the grounding gate that checks an explanation against it.           *)
(*                                                                         *)
(* A value in a payload or in a text is a token: its field and its value.  *)
(* Numbers are naturals in millionths, the precision the gate rounds to;   *)
(* the payload numbers no sentence speaks of (balances, fractions, sums,   *)
(* thresholds) are left out.                                               *)
(***************************************************************************)
EXTENDS RecommendationPolicy, Selection

Token(field, value) == [field |-> field, value |-> value]

One == 1000000
Count(n) == n * One

(* A number as a format with so many decimals shows it. *)
Shown(x, decimals) == LET unit == 10^(6 - decimals)
                      IN  ((x + unit \div 2) \div unit) * unit

RuleElementId == [account_draining |-> "rule:account_draining",
                  velocity |-> "rule:velocity",
                  new_beneficiary_large |-> "rule:new_beneficiary_large",
                  mule_passthrough |-> "rule:mule_passthrough"]

Element(id, source, numbers, strings, groundable, requirement) ==
    [element_id |-> id, source |-> source, numbers |-> numbers,
     strings |-> strings, groundable |-> groundable,
     requirement |-> requirement]

(* The text fields of a transaction that sentences name. *)
NamedFields == {"type", "account_id", "counterparty_id", "event_ts"}

TransactionFacts(txn) ==
    Element("txn_facts", "transaction", {Token("amount", txn.amount)},
            {Token(f, txn[f]) : f \in NamedFields \cup {"txn_id"}}, TRUE, 1)

(* A rule's payload: its id, its summary, and for velocity its window. *)
RuleElement(rule) ==
    Element(RuleElementId[rule], "rule",
            IF rule = "velocity" THEN {Token("window_hours", Count(24))} ELSE {},
            {Token("rule_id", rule), Token("summary", rule)}, TRUE, 2)

(* The account's history, or an explicit statement that there is none. *)
AccountHistory(txn_count_24h, prior) ==
    Element("account_baseline", "account_history",
            {Token("prior_transaction_count", Count(prior))}
              \cup (IF prior = 0 THEN {}
                    ELSE {Token("txn_count_24h", Count(txn_count_24h))}),
            IF prior = 0 THEN {Token("reason", "no baseline")} ELSE {},
            TRUE, 3)

(* The score, or its exclusion, which carries no probability. *)
ScoreSignal(score) ==
    Element("score_signal", "score_signal",
            IF score.available /\ score.probability # None
            THEN {Token("probability", score.probability)} ELSE {},
            {Token("status", IF score.available THEN "available" ELSE "excluded")},
            TRUE, 6)

(* assemble_evidence: one package, every requirement answered, in order. *)
AssembleEvidence(txn, count, prior, score, hits) ==
    <<TransactionFacts(txn),
      Element("interpretable_features", "transaction", {}, {}, TRUE, 2)>>
    \o [k \in DOMAIN hits |-> RuleElement(hits[k])]
    \o <<AccountHistory(count, prior),
         Element("counterparty", "counterparty", {},
                 {Token("counterparty_id", txn.counterparty_id)}, TRUE, 4),
         Element("direction_balances", "transaction", {}, {}, TRUE, 5),
         ScoreSignal(score),
         Element("disclosure:synthetic_data", "disclosure", {}, {}, FALSE, 7)>>

Elements(package) == {package[k] : k \in DOMAIN package}
Groundable(package) == {e \in Elements(package) : e.groundable}
ById(package, id) == CHOOSE e \in Elements(package) : e.element_id = id
Values(tokens) == {t.value : t \in tokens}

-----------------------------------------------------------------------------
(* A sentence: the tokens in it and the elements it cites. *)
Sentence(numbers, strings, cites) ==
    [numbers |-> numbers, strings |-> strings, cites |-> cites]

WhatHappened(package) ==
    LET facts == ById(package, "txn_facts")
    IN  Sentence({Token("amount", Shown(t.value, 2)) : t \in facts.numbers},
                 {t \in facts.strings : t.field \in NamedFields}, {"txn_facts"})

(* One sentence for each rule element, or one that says there is none. *)
WhyFlagged(package) ==
    LET rules == Kept(package, {e \in Elements(package) : e.source = "rule"})
    IN  IF rules = <<>> THEN <<Sentence({}, {}, {"interpretable_features"})>>
        ELSE [k \in DOMAIN rules |->
                Sentence({}, {t \in rules[k].strings : t.field = "summary"},
                         {rules[k].element_id})]

(* Mutant: the counts are told of an account without a history too. *)
BaselineOfAny(package) ==
    Sentence(ById(package, "account_baseline").numbers
               \cup {Token("window", Count(24))},
             {}, {"account_baseline"})

(* "The account has N prior transactions, M in the last 24 hours." *)
Baseline(package) ==
    LET history == ById(package, "account_baseline")
    IN  Sentence(IF \E t \in history.strings : t.field = "reason" THEN {}
                 ELSE history.numbers \cup {Token("window", Count(24))},
                 {}, {"account_baseline"})

Shows(signal) ==
    LET shown == {Token("probability", Shown(t.value, 4)) : t \in signal.numbers}
    IN  IF shown = {} THEN {Token("probability", 0)} ELSE shown

(* Mutant: the score is told whatever its status. *)
ScoreSentenceAlways(package) ==
    Sentence(Shows(ById(package, "score_signal")), {}, {"score_signal"})

(* An available score is shown; a missing probability shows as zero. *)
ScoreSentence(package) ==
    LET signal == ById(package, "score_signal")
    IN  Sentence(IF Token("status", "excluded") \in signal.strings THEN {}
                 ELSE Shows(signal),
                 {}, {"score_signal"})

(* Mutant: the advice always cites the rules. *)
AdviceByRules(rec) ==
    Sentence({}, {Token("action", rec.action), Token("confidence", rec.confidence)},
             {RuleElementId[rule] : rule \in Rules})

Advice(rec) ==
    Sentence({}, {Token("action", rec.action), Token("confidence", rec.confidence)},
             IF rec.rule_ids = {} THEN {"score_signal"}
             ELSE {RuleElementId[rule] : rule \in rec.rule_ids})

(* TemplatedExplainer.explain, and explain as a whole: the LLM explainer   *)
(* is a stub that is never available, so this is what every case gets.     *)
Explain(package, rec) == <<WhatHappened(package)>> \o WhyFlagged(package)
                         \o <<Baseline(package), ScoreSentence(package), Advice(rec)>>

Sentences(text) == {text[k] : k \in DOMAIN text}

(* GroundingGate.verify: after the grounded strings are masked, every      *)
(* number left is a groundable number and no entity is left.               *)
Verified(text, package, rec) ==
    LET numbers == UNION {e.numbers : e \in Groundable(package)}
        strings == UNION {e.strings : e \in Groundable(package)}
    IN  \A s \in Sentences(text) :
          /\ Values(s.numbers) \subseteq Values(numbers)
          /\ Values(s.strings) \subseteq
               Values(strings) \cup {rec.action, rec.confidence, rec.band}
                              \cup rec.rule_ids
=============================================================================
