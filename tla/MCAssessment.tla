---------------------------- MODULE MCAssessment ----------------------------
(* Small instances of Assessment: every threshold is 1, values range over  *)
(* 0..2 (below, at and above it), probabilities over 0..3.                 *)
EXTENDS Assessment

MCEnabled == {<<>>, <<"velocity">>,
              <<"account_draining", "velocity", "new_beneficiary_large">>,
              <<"new_beneficiary_large", "mule_passthrough", "account_draining">>,
              <<"velocity", "velocity">>, <<"velocity", "unknown">>}

(* Blocks for every id, one without its key, and a missing block. *)
MCParameters == {[r \in RuleIds |-> 1],
                 [r \in RuleIds |-> IF r = "velocity" THEN NoKey ELSE 1],
                 [r \in Rules \ {"account_draining"} |-> 1]}

MCBands == {[low_max |-> l, high_min |-> h] : l, h \in 1..3}

MCEscalating == {{}, {"account_draining"},
                 {"velocity", "new_beneficiary_large"}, {"unknown"}}

MCConfigs == [enabled : MCEnabled, parameters : MCParameters,
              bands : MCBands, escalating : MCEscalating]

MCFeatureSets == [frac_bal_orig_moved : {None, 0, 1}, txn_count_24h : 0..1,
                  amount : 0..1, is_new_counterparty : BOOLEAN]

MCScores == [available : {TRUE}, probability : 0..3]
            \cup [available : BOOLEAN, probability : {None}]
=============================================================================
