---------------------------- MODULE LeakageGate -----------------------------
(***************************************************************************)
(* The offline decision rules: the out-of-time folds, the candidates and   *)
(* their feature sets, and the simulator-leakage gate, which compares a    *)
(* model with the same architecture trained without the balance artifacts. *)
(*                                                                         *)
(* A feature set is a set of groups.  How well an architecture learns from *)
(* one is a number; fits are seeded, so it is a function of the data.      *)
(***************************************************************************)
EXTENDS Integers

CONSTANTS Steps,  \* steps of the simulation that have rows
          NaN     \* a metric that is not defined

ASSUME GateAssumption == Steps \subseteq Nat \ {0} /\ NaN \notin Int

(* The rows of each step are told apart by their label only. *)
Data == [Steps -> SUBSET BOOLEAN]

(* FEATURE_COLUMNS are what the transaction says, the account's history    *)
(* and the balances of the origin.  The comparator adds the balances of    *)
(* the destination; the primary is without _BALANCE_ARTIFACT_FEATURES.     *)
Groups == {"transaction", "history", "bal_orig", "bal_dest"}
ComparatorFeatures == Groups
PrimaryFeatures == {"transaction", "history"}

(* build_candidates: the bounded set, the primary first. *)
BuildCandidates ==
    <<[kind |-> "histgb", features |-> PrimaryFeatures, primary |-> TRUE],
      [kind |-> "lightgbm", features |-> ComparatorFeatures, primary |-> FALSE],
      [kind |-> "logistic", features |-> PrimaryFeatures, primary |-> FALSE]>>

-----------------------------------------------------------------------------
(* SplitConfig: positive boundaries, in order. *)
ValidSplit(cfg) == /\ cfg.train_end > 0 /\ cfg.val_end > 0
                   /\ cfg.train_end < cfg.val_end

TrainFold(cfg) == {s \in Steps : s <= cfg.train_end}
ValFold(cfg)   == {s \in Steps : cfg.train_end < s /\ s <= cfg.val_end}

(* Mutant: the boundary step is tested as well. *)
TestFoldFrom(cfg) == {s \in Steps : s >= cfg.val_end}
TestFold(cfg)     == {s \in Steps : s > cfg.val_end}

Classes(data, fold) == UNION {data[s] : s \in fold}
Degenerate(data, fold) == Classes(data, fold) # BOOLEAN

-----------------------------------------------------------------------------
(* PR-AUC is undefined on a fold of one class. *)
PrAuc(quality, data, fold) == IF Degenerate(data, fold) THEN NaN ELSE quality

(* What is left without config.balance_artifact_features, which only a     *)
(* test keeps equal to the list in the code.                               *)
Reduced(features, cfg) == features \ cfg.artifacts

(* Mutant: one of the two dimensions is enough. *)
DeriveLenient(remaining, delta, gate) ==
    IF remaining = NaN THEN "fail"
    ELSE IF remaining >= gate.min_behavioural \/ delta <= gate.max_delta
         THEN "pass" ELSE "fail"

(* Behavioural signal survives the ablation, and little was lost by it. *)
DeriveVerdict(remaining, delta, gate) ==
    IF remaining = NaN THEN "fail"
    ELSE IF remaining >= gate.min_behavioural /\ delta <= gate.max_delta
         THEN "pass" ELSE "fail"

(* Full and ablated models are fitted on the training fold and compared on *)
(* the out-of-time test fold.  quality: what a kind learns of the features. *)
RunLeakageGate(spec, quality, data, cfg) ==
    LET learnt(features) ==
            PrAuc(quality[spec.kind][features], data, TestFold(cfg))
        full    == learnt(spec.features)
        ablated == learnt(Reduced(spec.features, cfg))
    IN  DeriveVerdict(ablated, IF full = NaN THEN NaN ELSE full - ablated, cfg)
=============================================================================
