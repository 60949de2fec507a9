----------------------------- MODULE MCTraining -----------------------------
(* Small instances of Training: one step per fold. *)
EXTENDS Training

Cfg(train_end, val_end, how, min_fraud, artifacts) ==
    [train_end |-> train_end, val_end |-> val_end, artifacts |-> artifacts,
     method |-> how, min_fraud |-> min_fraud, min_behavioural |-> 1,
     max_delta |-> 0]

(* Each calibration policy, the guard on few frauds met and not met; an     *)
(* artifact list as shipped and one that names a feature of the primary;    *)
(* boundaries out of order.                                                 *)
MCConfigs ==
    {Cfg(1, 2, "auto", 1, {"bal_orig"}), Cfg(1, 2, "auto", 2, {"bal_orig", "history"}),
     Cfg(1, 2, "isotonic", 1, {"bal_orig", "history"}),
     Cfg(1, 2, "sigmoid", 1, {"bal_orig"}), Cfg(2, 2, "auto", 1, {"bal_orig"})}

(* A feature set is worth what its groups are. *)
Worth(transaction, history, balances) ==
    [f \in SUBSET Groups |->
        (IF "transaction" \in f THEN transaction ELSE 0)
      + (IF "history" \in f THEN history ELSE 0)
      + (IF f \cap {"bal_orig", "bal_dest"} # {} THEN balances ELSE 0)]

MCQualities ==
    {[kind \in {"histgb", "lightgbm"} |->
        IF kind = "histgb" THEN Worth(t, h, 0) ELSE Worth(0, k, b)] :
            t \in 0..1, h \in 0..1, k \in 0..1, b \in 0..1}

(* The first training: every configuration on every labelling of the steps. *)
MCFirst == [cfg: MCConfigs, data: Data, quality: MCQualities]

(* The next: both classes in every step, the primary failing or passing.   *)
MCNext == [cfg: {Cfg(1, 2, "isotonic", 1, {"bal_orig"})},
           data: {[s \in Steps |-> BOOLEAN]},
           quality: {[kind \in {"histgb", "lightgbm"} |-> Worth(t, 0, 0)] :
                        t \in 0..1}]

MCInputs == [v \in Versions |-> IF v = 1 THEN MCFirst ELSE MCNext]
=============================================================================
