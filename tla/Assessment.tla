----------------------------- MODULE Assessment -----------------------------
(***************************************************************************)
(* From a governance configuration to a recommendation: the process that   *)
(* opens cases loads and validates the configuration at startup or aborts; *)
(* a transaction's features then go through the enabled rules in order,    *)
(* and the policy maps the rules that fired and the score's status to an   *)
(* advisory recommendation.                                                *)
(***************************************************************************)
EXTENDS RecommendationPolicy, Selection

CONSTANTS Configs,     \* the configuration files an operator may write
          FeatureSets, \* feature vectors of transactions
          Scores,      \* score statuses
          NoKey        \* a rule's parameter block lacks the key the rule reads

(* What a file may name: a rule of the registry, or anything else. *)
RuleIds == Rules \cup {"unknown"}

(* enabled: the rule ids in order; parameters: for each rule that has a    *)
(* block, the threshold it reads from it, or NoKey; bands; escalating.     *)
IsConfig(c) ==
    /\ DOMAIN c = {"enabled", "parameters", "bands", "escalating"}
    /\ c.enabled \in Seq(RuleIds)
    /\ DOMAIN c.parameters \subseteq RuleIds
    /\ c.parameters \in [DOMAIN c.parameters -> Nat \cup {NoKey}]
    /\ c.bands \in [low_max : Nat, high_min : Nat]
    /\ c.escalating \subseteq RuleIds

Features == [frac_bal_orig_moved : Nat \cup {None}, txn_count_24h : Nat,
             amount : Nat, is_new_counterparty : BOOLEAN]

Score == [available : BOOLEAN, probability : Nat \cup {None}]

ASSUME AssessmentAssumption ==
    /\ None \notin Nat /\ None \notin Actions
    /\ NoKey \notin Nat
    /\ \A c \in Configs : IsConfig(c)
    /\ \A f \in FeatureSets : f \in Features
    /\ \A s \in Scores : s \in Score

VARIABLES phase,     \* where the process is
          config,    \* the configuration read at startup
          features,  \* of the transaction assessed
          score,     \* its score status
          next,      \* the index of the next enabled rule
          hits,      \* the rules that fired, in order
          result     \* the recommendation

vars == <<phase, config, features, score, next, hits, result>>

NoTxn == [frac_bal_orig_moved |-> None, txn_count_24h |-> 0, amount |-> 0,
          is_new_counterparty |-> FALSE]

Init == /\ phase = "starting"
        /\ config \in Configs
        /\ features = NoTxn
        /\ score = [available |-> FALSE, probability |-> None]
        /\ next = 1
        /\ hits = <<>>
        /\ result = None

(* Mutant: parameter blocks are not looked for. *)
ValidWithoutBlocks == /\ config.bands.low_max <= config.bands.high_min
                      /\ config.escalating \subseteq Rules
                      /\ \A k \in DOMAIN config.enabled : config.enabled[k] \in Rules

(* The validators of ScoreBandsConfig, RecommendationConfig and            *)
(* RulesConfig: the bands are ordered, the rules named are registered, and *)
(* every enabled rule has a parameter block.                               *)
ValidConfig == /\ config.bands.low_max <= config.bands.high_min
               /\ config.escalating \subseteq Rules
               /\ \A k \in DOMAIN config.enabled :
                     config.enabled[k] \in Rules \cap DOMAIN config.parameters

(* load_config at startup: an invalid configuration aborts it. *)
Start == /\ phase = "starting"
         /\ phase' = IF ValidConfig THEN "ready" ELSE "aborted"
         /\ UNCHANGED <<config, features, score, next, hits, result>>

Assess(f, s) ==
    /\ phase = "ready"
    /\ phase' = "evaluating"
    /\ features' = f
    /\ score' = s
    /\ UNCHANGED <<config, next, hits, result>>

(* The rule definitions: does the rule fire at this threshold? *)
Fires(rule, threshold) ==
    \/ /\ rule = "account_draining"
       /\ features.frac_bal_orig_moved # None
       /\ features.frac_bal_orig_moved >= threshold
    \/ /\ rule = "velocity"
       /\ features.txn_count_24h >= threshold
    \/ /\ rule = "new_beneficiary_large"
       /\ features.is_new_counterparty
       /\ features.amount >= threshold

(* The keys the definitions index; mule_passthrough reads none. *)
ReadsKey(rule) == rule # "mule_passthrough"

(* The three lookups of an iteration succeed: the definition, its block,   *)
(* the key it reads in the block.                                          *)
Found(rule) == /\ rule \in Rules
               /\ rule \in DOMAIN config.parameters
               /\ ReadsKey(rule) => config.parameters[rule] # NoKey

(* One iteration of RuleEngine.evaluate. *)
EvaluateRule ==
    LET rule == config.enabled[next]
    IN  /\ phase = "evaluating"
        /\ next <= Len(config.enabled)
        /\ \/ /\ Found(rule)
              /\ next' = next + 1
              /\ hits' = IF ReadsKey(rule) /\ Fires(rule, config.parameters[rule])
                         THEN Append(hits, rule) ELSE hits
              /\ UNCHANGED phase
           \/ /\ ~Found(rule)
              /\ phase' = "failed"            \* KeyError
              /\ UNCHANGED <<next, hits>>
        /\ UNCHANGED <<config, features, score, result>>

Fired == {hits[k] : k \in DOMAIN hits}

Conclude ==
    /\ phase = "evaluating"
    /\ next > Len(config.enabled)
    /\ result' = Recommend(score, Fired, config)
    /\ phase' = "recommended"
    /\ UNCHANGED <<config, features, score, next, hits>>

Next == \/ Start
        \/ \E f \in FeatureSets, s \in Scores : Assess(f, s)
        \/ EvaluateRule
        \/ Conclude

Spec == Init /\ [][Next]_vars
-----------------------------------------------------------------------------
(* The type invariant. *)
TypeOK ==
    /\ phase \in {"starting", "aborted", "ready", "evaluating", "failed",
                  "recommended"}
    /\ config \in Configs
    /\ features \in Features
    /\ score \in Score
    /\ next \in Nat \ {0}
    /\ hits \in Seq(Rules)
    /\ phase = "recommended" =>
         result \in [action : Actions, confidence : {"low", "medium", "high"},
                     band : Bands, uncertain : BOOLEAN]

(* The absent-score path never recommends clear: without an operational    *)
(* score there is no assurance of safety, whatever rules fired or not.     *)
NeverClearWithoutScore ==
    phase = "recommended" /\ ~Trusted(score) => result.action # "clear"

(* No signal is talked down: the action is at least as severe as the       *)
(* score's band and as each fired rule asks for, and it is the action one  *)
(* of them asks for (hold if there is no signal at all).                   *)
Asked == {RuleAction({rule}, config.escalating) : rule \in Fired}
         \cup (IF Trusted(score)
               THEN {BandAction(ScoreBand(score.probability, config.bands))}
               ELSE {})

NoSignalTalkedDown ==
    phase = "recommended" =>
        /\ \A a \in Asked : Severity(a) <= Severity(result.action)
        /\ result.action \in (IF Asked = {} THEN {"hold"} ELSE Asked)

(* High confidence is never claimed in doubt: it takes an operational      *)
(* score outside the borderline band that by itself asks for the           *)
(* recommended action and, if rules fired, a rule that asks for it too.    *)
ConfidenceIsHonest ==
    phase = "recommended" =>
        /\ result.uncertain <=> result.confidence # "high"
        /\ result.confidence = "high" =>
             /\ Trusted(score)
             /\ ScoreBand(score.probability, config.bands) # "borderline"
             /\ result.action = BandAction(ScoreBand(score.probability,
                                                     config.bands))
             /\ Fired # {} => \E rule \in Fired :
                   RuleAction({rule}, config.escalating) = result.action

(* More evidence never lowers the action: with a higher probability, or    *)
(* with further rules fired, the recommendation is at least as severe.     *)
MoreEvidenceNeverLowers ==
    phase = "recommended" =>
        \A s \in Scores, more \in SUBSET Rules :
            /\ Fired \subseteq more
            /\ Trusted(s) <=> Trusted(score)
            /\ Trusted(s) => s.probability >= score.probability
            => Severity(Recommend(s, more, config).action)
                 >= Severity(result.action)

(* The engine's loop computes the enabled rules whose definition fires, in *)
(* the configured order, none skipped and none twice evaluated.            *)
Firing == {rule \in {config.enabled[k] : k \in DOMAIN config.enabled} :
             ReadsKey(rule) /\ Fires(rule, config.parameters[rule])}

HitsAreTheFiringRules == phase = "recommended" => hits = Kept(config.enabled, Firing)

(* The only way an accepted configuration fails an assessment is the one   *)
(* key the validators do not look for: unknown rules and missing blocks    *)
(* never get past startup.                                                 *)
OnlyAMissingKeyFails ==
    phase = "failed" =>
        \E rule \in Rules \cap DOMAIN config.parameters :
            /\ rule = config.enabled[next]
            /\ config.parameters[rule] = NoKey
=============================================================================
