--------------------------- MODULE MCCaseOpening ----------------------------
(* Two transactions, a first one and one of an account with a history; an  *)
(* excluded score, two probabilities, one of them with six decimals, and   *)
(* the two statuses that contradict themselves.                            *)
EXTENDS CaseView

Txn(id, amount) == [txn_id |-> id, amount |-> amount, type |-> "TRANSFER",
                    account_id |-> "account", counterparty_id |-> "partner",
                    event_ts |-> "instant"]

MCBatch == <<Txn("t1", 1000000), Txn("t2", 2550000)>>
MCPriors == {0, 3}
MCScores == {[available |-> FALSE, probability |-> None],
             [available |-> TRUE, probability |-> 250000],
             [available |-> TRUE, probability |-> 912345],
             [available |-> TRUE, probability |-> None],
             [available |-> FALSE, probability |-> 250000]}
MCEnabled == <<"velocity", "new_beneficiary_large">>
MCPolicy == [bands |-> [low_max |-> 300000, high_min |-> 700000],
             escalating |-> {"account_draining"}]
=============================================================================
