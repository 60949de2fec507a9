-------------------------- MODULE AssessmentProofs --------------------------
(***************************************************************************)
(* Proofs about Assessment, for every set of configurations, features and  *)
(* scores.  The policy's own facts come first, as lemmas about the pure    *)
(* functions; the invariant then only has to say that a recommendation is  *)
(* the policy's answer for the rules that fired.                           *)
(***************************************************************************)
EXTENDS Assessment, RecursionProofs

Outcome == [action : Actions, confidence : {"low", "medium", "high"},
            band : Bands, uncertain : BOOLEAN]

(* The action of a set of fired rules is None exactly for the empty set,   *)
(* and the most severe of the actions of its rules otherwise.              *)
LEMMA RulesAskForTheirWorst ==
    ASSUME NEW fired, NEW escalating, NEW rule \in fired
    PROVE  /\ RuleAction(fired, escalating) \in {"hold", "escalate"}
           /\ RuleAction({rule}, escalating) \in {"hold", "escalate"}
           /\ Severity(RuleAction({rule}, escalating))
                <= Severity(RuleAction(fired, escalating))
           /\ \E worst \in fired :
                RuleAction({worst}, escalating) = RuleAction(fired, escalating)
<1>1. CASE fired \cap escalating # {}
  <2>1. PICK w \in fired : w \in escalating
    BY <1>1
  <2>2. RuleAction({w}, escalating) = "escalate"
    BY <2>1 DEF RuleAction
  <2>3. RuleAction(fired, escalating) = "escalate"
    BY <1>1 DEF RuleAction
  <2>4. RuleAction({rule}, escalating) \in {"hold", "escalate"}
    BY DEF RuleAction
  <2> QED
    BY <2>1, <2>2, <2>3, <2>4 DEF Severity
<1>2. CASE fired \cap escalating = {}
  <2>1. \A r \in fired : RuleAction({r}, escalating) = "hold"
    BY <1>2 DEF RuleAction
  <2>2. RuleAction(fired, escalating) = "hold"
    BY <1>2 DEF RuleAction
  <2> QED
    BY <2>1, <2>2 DEF Severity
<1> QED
  BY <1>1, <1>2

(* With more rules fired the rules' action is at least as severe. *)
LEMMA MoreRulesAskForMore ==
    ASSUME NEW fired, NEW more, fired \subseteq more, fired # {}, NEW escalating
    PROVE  /\ more # {}
           /\ Severity(RuleAction(fired, escalating))
                <= Severity(RuleAction(more, escalating))
BY DEF RuleAction, Severity

(* With a higher probability the band's action is at least as severe,      *)
(* whatever the boundaries.                                                *)
LEMMA HigherScoresAskForMore ==
    ASSUME NEW bands, bands.low_max \in Nat, bands.high_min \in Nat,
           NEW p \in Nat, NEW q \in Nat, p <= q
    PROVE  Severity(BandAction(ScoreBand(p, bands)))
             <= Severity(BandAction(ScoreBand(q, bands)))
BY DEF Severity, BandAction, ScoreBand

(* The policy is total: every score and every set of fired rules has a     *)
(* recommendation of the declared type.                                    *)
LEMMA PolicyIsTotal ==
    ASSUME NEW s \in Score, NEW fired, NEW c
    PROVE  Recommend(s, fired, c) \in Outcome
BY AssessmentAssumption
   DEF Recommend, RecommendScored, RecommendUnscored, RuleAction, BandAction,
       ScoreBand, Severity, Outcome, Actions, Bands

-----------------------------------------------------------------------------
(* The invariant: a process past startup holds a validated configuration,  *)
(* a failed assessment stands at the rule whose lookup failed, a           *)
(* recommendation is the policy's answer for the rules that fired, and the *)
(* hits are those of the rules the loop has been through.                  *)
Validated == phase \notin {"starting", "aborted"} => ValidConfig

FailedAtLookup == phase = "failed" => /\ next \in DOMAIN config.enabled
                                     /\ ~Found(config.enabled[next])

Settled == phase = "recommended" => result = Recommend(score, Fired, config)

Collected ==
    /\ phase \in {"starting", "aborted", "ready"} => next = 1 /\ hits = <<>>
    /\ phase \in {"evaluating", "recommended"} =>
         /\ next <= Len(config.enabled) + 1
         /\ hits = KeptUpTo(config.enabled, Firing)[next - 1]
    /\ phase = "recommended" => next = Len(config.enabled) + 1

AInv == TypeOK /\ Validated /\ FailedAtLookup /\ Settled /\ Collected

(* The enabled rules are a list, and nothing is kept of none of it. *)
LEMMA EnabledFacts ==
    ASSUME TypeOK
    PROVE  /\ config.enabled \in Seq(RuleIds)
           /\ Len(config.enabled) \in Nat
           /\ DOMAIN config.enabled = 1..Len(config.enabled)
           /\ \A S : KeptUpTo(config.enabled, S)[0] = <<>>
           /\ \A S : \A n \in 1..Len(config.enabled) :
                KeptUpTo(config.enabled, S)[n]
                  = IF config.enabled[n] \in S
                    THEN Append(KeptUpTo(config.enabled, S)[n - 1], config.enabled[n])
                    ELSE KeptUpTo(config.enabled, S)[n - 1]
<1>1. config.enabled \in Seq(RuleIds)
  BY AssessmentAssumption DEF TypeOK, IsConfig
<1> DEFINE s == config.enabled
<1>2. s \in Seq(RuleIds)
  BY <1>1
<1> HIDE DEF s
<1>3. ASSUME NEW S
      PROVE  /\ KeptUpTo(s, S)[0] = <<>>
             /\ \A n \in 1..Len(s) :
                  KeptUpTo(s, S)[n] = IF s[n] \in S
                                      THEN Append(KeptUpTo(s, S)[n - 1], s[n])
                                      ELSE KeptUpTo(s, S)[n - 1]
  <2>1. KeptGrows(s, S)
    BY <1>2, KeptUpToDefined, Zenon
  <2> QED
    BY <2>1, Zenon DEF KeptGrows
<1>4. Len(s) \in Nat /\ DOMAIN s = 1..Len(s)
  BY <1>2
<1> QED
  BY <1>1, <1>3, <1>4 DEF s

(* One more rule is evaluated. *)
LEMMA RuleCollected ==
    ASSUME AInv, EvaluateRule
    PROVE  Collected'
<1> DEFINE rule == config.enabled[next]
<1>1. /\ phase = "evaluating" /\ next \in 1..Len(config.enabled)
      /\ UNCHANGED <<config, features>>
      /\ hits = KeptUpTo(config.enabled, Firing)[next - 1]
  BY EnabledFacts DEF AInv, TypeOK, Collected, EvaluateRule
<1>2. CASE ~Found(rule)
  BY <1>1, <1>2 DEF EvaluateRule, Collected
<1>3. CASE Found(rule)
  <2>1. /\ next' = next + 1 /\ phase' = "evaluating"
        /\ hits' = IF ReadsKey(rule) /\ Fires(rule, config.parameters[rule])
                   THEN Append(hits, rule) ELSE hits
    BY <1>1, <1>3 DEF EvaluateRule
  <2>2. Firing' = Firing
    BY <1>1 DEF Firing, Fires
  <2>3. rule \in Firing <=> ReadsKey(rule) /\ Fires(rule, config.parameters[rule])
    BY <1>1, EnabledFacts DEF Firing, AInv
  <2>4. hits' = KeptUpTo(config.enabled, Firing)[next]
    BY <1>1, <2>1, <2>3, EnabledFacts DEF AInv
  <2>5. next + 1 <= Len(config.enabled) + 1 /\ (next + 1) - 1 = next
    BY <1>1, EnabledFacts DEF AInv
  <2> QED
    BY <1>1, <2>1, <2>2, <2>4, <2>5 DEF Collected
<1> QED
  BY <1>2, <1>3

(* Every step keeps the invariant. *)
THEOREM AssessmentInvariance == Spec => []AInv
<1> USE AssessmentAssumption
<1>1. Init => AInv
  BY DEF Init, AInv, TypeOK, Validated, FailedAtLookup, Settled, Collected,
         NoTxn, Features, Score
<1>2. AInv /\ [Next]_vars => AInv'
  <2> SUFFICES ASSUME AInv, [Next]_vars PROVE AInv'
    OBVIOUS
  <2> USE DEF AInv, TypeOK
  <2>1. CASE Start
    BY <2>1 DEF Start, Validated, FailedAtLookup, Settled, Collected, ValidConfig
  <2>2. ASSUME NEW f \in FeatureSets, NEW s \in Scores, Assess(f, s)
        PROVE  AInv'
    <3>1. Collected'
      <4>1. /\ UNCHANGED <<config, next, hits>> /\ phase' = "evaluating"
            /\ next = 1 /\ hits = <<>>
        BY <2>2 DEF Assess, Collected
      <4>2. 1 <= Len(config.enabled) + 1 /\ 1 - 1 = 0
        BY EnabledFacts
      <4>3. KeptUpTo(config.enabled, Firing')[0] = <<>>
        BY EnabledFacts
      <4> QED
        BY <4>1, <4>2, <4>3 DEF Collected
    <3> QED
      BY <2>2, <3>1 DEF Assess, Validated, FailedAtLookup, Settled, ValidConfig
  <2>3. CASE EvaluateRule
    <3> DEFINE rule == config.enabled[next]
    <3>1. next \in DOMAIN config.enabled
      BY <2>3 DEF EvaluateRule, IsConfig
    <3>2. hits' \in Seq(Rules) /\ next' \in Nat \ {0}
      BY <2>3, <3>1 DEF EvaluateRule, Found
    <3>3. FailedAtLookup'
      BY <2>3, <3>1 DEF EvaluateRule, FailedAtLookup, Found
    <3>4. Collected'
      BY <2>3, RuleCollected
    <3> QED
      BY <2>3, <3>2, <3>3, <3>4 DEF EvaluateRule, Validated, Settled, ValidConfig
  <2>4. CASE Conclude
    <3>1. result' = Recommend(score, Fired, config)
      BY <2>4 DEF Conclude
    <3>2. result' \in Outcome
      BY <3>1, PolicyIsTotal
    <3>3. UNCHANGED <<config, score, hits, features, next>> /\ phase' = "recommended"
      BY <2>4 DEF Conclude
    <3>4. Settled'
      BY <3>1, <3>3 DEF Settled, Fired
    <3>5. Collected'
      <4>1. Firing' = Firing
        BY <3>3 DEF Firing, Fires
      <4>2. next = Len(config.enabled) + 1 /\ phase = "evaluating"
        BY <2>4, EnabledFacts DEF Conclude, Collected
      <4> QED
        BY <3>3, <4>1, <4>2 DEF Collected
    <3> QED
      BY <2>4, <3>2, <3>3, <3>4, <3>5
      DEF Conclude, Validated, FailedAtLookup, ValidConfig, Outcome
  <2>5. CASE UNCHANGED vars
    <3>1. Collected'
      BY <2>5 DEF vars, Collected, Firing, Fires
    <3> QED
      BY <2>5, <3>1
      DEF vars, Validated, FailedAtLookup, Settled, ValidConfig, Found, Fired
  <2> QED
    BY <2>1, <2>2, <2>3, <2>4, <2>5 DEF Next
<1> QED
  BY <1>1, <1>2, PTL DEF Spec

(* The types of the assessment. *)
THEOREM AssessmentTyping == Spec => []TypeOK
BY AssessmentInvariance, PTL DEF AInv

(* Without an operational score the policy never recommends clear. *)
THEOREM NoClearWithoutScore == Spec => []NeverClearWithoutScore
<1>1. AInv => NeverClearWithoutScore
  BY AssessmentAssumption
     DEF AInv, Settled, NeverClearWithoutScore, Recommend, RecommendUnscored,
         RuleAction
<1> QED
  BY <1>1, AssessmentInvariance, PTL

(* The recommendation is the worst of what the band and the rules ask for. *)
THEOREM SignalsAreHeeded == Spec => []NoSignalTalkedDown
<1>1. AInv => NoSignalTalkedDown
  <2> SUFFICES ASSUME AInv, phase = "recommended"
               PROVE  /\ \A a \in Asked : Severity(a) <= Severity(result.action)
                      /\ result.action \in (IF Asked = {} THEN {"hold"} ELSE Asked)
    BY DEF NoSignalTalkedDown
  <2> DEFINE byRules == RuleAction(Fired, config.escalating)
             byScore == BandAction(ScoreBand(score.probability, config.bands))
  <2>1. result = Recommend(score, Fired, config)
    BY DEF AInv, Settled
  <2>2. \A rule \in Fired :
          /\ RuleAction({rule}, config.escalating) \in {"hold", "escalate"}
          /\ Severity(RuleAction({rule}, config.escalating)) <= Severity(byRules)
          /\ byRules \in {"hold", "escalate"}
          /\ byRules \in Asked
    BY RulesAskForTheirWorst DEF Asked
  <2>3. Fired = {} => byRules = None
    BY DEF RuleAction
  <2>4. byScore \in Actions
    BY DEF BandAction, Actions
  <2>5. CASE Trusted(score)
    <3>1. result.action = IF byRules # None /\ Severity(byRules) > Severity(byScore)
                          THEN byRules ELSE byScore
      BY <2>1, <2>5 DEF Recommend, RecommendScored
    <3>2. byScore \in Asked
      BY <2>5 DEF Asked
    <3>3. \A a \in Asked : a = byScore \/ \E rule \in Fired :
            a = RuleAction({rule}, config.escalating)
      BY <2>5 DEF Asked
    <3> HIDE DEF byRules, byScore
    <3>4. Severity(byScore) <= Severity(result.action)
      BY <3>1 DEF Severity
    <3>5. Fired # {} => Severity(byRules) <= Severity(result.action)
      <4>1. Fired # {} => byRules # None
        BY <2>2, AssessmentAssumption DEF Actions
      <4>2. Severity(byRules) \in 0..2 /\ Severity(byScore) \in 0..2
        BY DEF Severity
      <4>3. CASE byRules # None /\ Severity(byRules) > Severity(byScore)
        <5>1. result.action = byRules
          BY <3>1, <4>3
        <5> QED
          BY <5>1, <4>2
      <4>4. CASE ~(byRules # None /\ Severity(byRules) > Severity(byScore))
        <5>1. result.action = byScore
          BY <3>1, <4>4
        <5> QED
          BY <5>1, <4>1, <4>2, <4>4
      <4> QED
        BY <4>3, <4>4
    <3>6. \A rule \in Fired : Severity(RuleAction({rule}, config.escalating))
                               <= Severity(result.action)
      BY <2>2, <3>5 DEF Severity
    <3>7. \A a \in Asked : Severity(a) <= Severity(result.action)
      BY <3>3, <3>4, <3>6
    <3>8. result.action \in Asked
      BY <2>2, <2>3, <3>1, <3>2
    <3> QED
      BY <3>7, <3>8
  <2>6. CASE ~Trusted(score)
    <3>1. result.action = IF byRules # None THEN byRules ELSE "hold"
      BY <2>1, <2>6 DEF Recommend, RecommendUnscored
    <3>2. \A a \in Asked : \E rule \in Fired :
            a = RuleAction({rule}, config.escalating)
      BY <2>6 DEF Asked
    <3> HIDE DEF byRules
    <3> QED
      BY <2>2, <2>3, <3>1, <3>2, AssessmentAssumption DEF Severity, Actions
  <2> QED
    BY <2>5, <2>6
<1> QED
  BY <1>1, AssessmentInvariance, PTL

(* A high confidence is backed by the band and by a fired rule, if any.    *)
THEOREM ConfidenceIsBacked == Spec => []ConfidenceIsHonest
<1>1. AInv => ConfidenceIsHonest
  <2> SUFFICES ASSUME AInv, phase = "recommended" PROVE ConfidenceIsHonest
    BY DEF ConfidenceIsHonest
  <2>1. result = Recommend(score, Fired, config)
    BY DEF AInv, Settled
  <2>2. Fired # {} => /\ RuleAction(Fired, config.escalating) # None
                     /\ \E rule \in Fired : RuleAction({rule}, config.escalating)
                                              = RuleAction(Fired, config.escalating)
    BY RulesAskForTheirWorst, AssessmentAssumption DEF Actions
  <2>3. CASE Trusted(score)
    BY <2>1, <2>2, <2>3
       DEF Recommend, RecommendScored, ConfidenceIsHonest
  <2>4. CASE ~Trusted(score)
    BY <2>1, <2>4 DEF Recommend, RecommendUnscored, ConfidenceIsHonest
  <2> QED
    BY <2>3, <2>4
<1> QED
  BY <1>1, AssessmentInvariance, PTL

(* A configuration that passed validation fails an assessment only for a   *)
(* key missing in an existing block.                                       *)
THEOREM OnlyKeysAreMissing == Spec => []OnlyAMissingKeyFails
<1>1. AInv => OnlyAMissingKeyFails
  BY DEF AInv, FailedAtLookup, Validated, ValidConfig, Found,
         OnlyAMissingKeyFails
<1> QED
  BY <1>1, AssessmentInvariance, PTL

(* Further evidence of fraud never lowers the recommendation. *)
THEOREM EvidenceOnlyRaises == Spec => []MoreEvidenceNeverLowers
<1>1. AInv => MoreEvidenceNeverLowers
  <2> SUFFICES ASSUME AInv, phase = "recommended",
                      NEW s \in Scores, NEW more \in SUBSET Rules,
                      Fired \subseteq more,
                      Trusted(s) <=> Trusted(score),
                      Trusted(s) => s.probability >= score.probability
               PROVE  Severity(Recommend(s, more, config).action)
                        >= Severity(result.action)
    BY DEF MoreEvidenceNeverLowers
  <2> DEFINE bands == config.bands
             before == RuleAction(Fired, config.escalating)
             after == RuleAction(more, config.escalating)
             low == BandAction(ScoreBand(score.probability, bands))
             high == BandAction(ScoreBand(s.probability, bands))
  <2>1. result = Recommend(score, Fired, config)
    BY DEF AInv, Settled
  <2>2. Fired # {} => more # {} /\ Severity(before) <= Severity(after)
    BY MoreRulesAskForMore
  <2>3. /\ before = None <=> Fired = {}
        /\ after = None <=> more = {}
    BY AssessmentAssumption DEF RuleAction, Actions
  <2>4. \A a : Severity(a) \in 0..2
    BY DEF Severity
  <2>5. Severity("hold") = 1
    BY DEF Severity
  <2>6. after # None => Severity(after) >= 1
    BY DEF RuleAction, Severity
  <2>7. CASE Trusted(score)
    <3>1. /\ score.probability \in Nat /\ s.probability \in Nat
          /\ bands.low_max \in Nat /\ bands.high_min \in Nat
      BY <2>7, AssessmentAssumption DEF AInv, TypeOK, Score, Trusted, IsConfig
    <3>2. Severity(low) <= Severity(high)
      BY <2>7, <3>1, HigherScoresAskForMore
    <3>3. result.action = IF before # None /\ Severity(before) > Severity(low)
                          THEN before ELSE low
      BY <2>1, <2>7 DEF Recommend, RecommendScored
    <3>4. Recommend(s, more, config).action =
            IF after # None /\ Severity(after) > Severity(high)
            THEN after ELSE high
      BY <2>7 DEF Recommend, RecommendScored
    <3> HIDE DEF before, after, low, high
    <3> QED
      BY <2>2, <2>3, <2>4, <3>2, <3>3, <3>4
  <2>8. CASE ~Trusted(score)
    <3>1. result.action = IF before # None THEN before ELSE "hold"
      BY <2>1, <2>8 DEF Recommend, RecommendUnscored
    <3>2. Recommend(s, more, config).action =
            IF after # None THEN after ELSE "hold"
      BY <2>8 DEF Recommend, RecommendUnscored
    <3> HIDE DEF before, after
    <3> QED
      BY <2>2, <2>3, <2>4, <2>5, <2>6, <3>1, <3>2
  <2> QED
    BY <2>7, <2>8
<1> QED
  BY <1>1, AssessmentInvariance, PTL

(* The engine's answer is exactly the enabled rules that fire, in order.   *)
THEOREM EngineIsExact == Spec => []HitsAreTheFiringRules
<1>1. AInv => HitsAreTheFiringRules
  <2> SUFFICES ASSUME AInv, phase = "recommended"
               PROVE  hits = Kept(config.enabled, Firing)
    BY DEF HitsAreTheFiringRules
  <2>1. next = Len(config.enabled) + 1 /\ Len(config.enabled) \in Nat
    BY EnabledFacts DEF AInv, Collected
  <2>2. next - 1 = Len(config.enabled)
    BY <2>1
  <2> QED
    BY <2>2 DEF AInv, Collected, Kept
<1> QED
  BY <1>1, AssessmentInvariance, PTL
=============================================================================
