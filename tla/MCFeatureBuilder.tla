-------------------------- MODULE MCFeatureBuilder --------------------------
(* Small instances of FeatureBuilder: with a lookback of 1 hour, the hours  *)
(* 0..2 put a row inside the window, at its edge and outside it.            *)
EXTENDS FeatureBuilder

Row(a, t, m, c) ==
    [account |-> a, event_ts |-> t, amount |-> m, counterparty |-> c]

(* Up to three rows of two accounts: every order, tie and counterparty. *)
Short == {Row(a, t, m, c) : a \in 1..2, t \in 0..2, m \in {0, 2}, c \in 1..2}

(* Four rows: windows that grow, and that lose several rows at once. *)
Long == {Row(a, t, t + 1, 1) : a \in 1..2, t \in 0..2}

MCInputs == UNION {[1..n -> Short] : n \in 0..3} \cup [1..4 -> Long]
=============================================================================
