------------------------------ MODULE MCIngest ------------------------------
(* Small instances of Ingest: every export of up to MaxRows rows in the    *)
(* order of its steps, over two payers, one of them also a payee, and a    *)
(* merchant.                                                               *)
EXTENDS Ingest

CONSTANT MaxRows

MCNames == {"C1", "C2", "M1"}
MCRows == [step: 1..2, account: {"C1", "C2"}, counterparty: {"C2", "M1"},
           balance: {"given"}]

MCExports == {e \in UNION {[1..n -> MCRows] : n \in 1..MaxRows} :
                InStepOrder(e)}

(* A store is fed from one of them, or a first one and another that has    *)
(* at most two rows.                                                       *)
Pay(n, a, c) == [step |-> n, account |-> a, counterparty |-> c, balance |-> "given"]
First == <<Pay(1, "C1", "M1"), Pay(2, "C2", "C2")>>

MCSources == {{e} : e \in MCExports}
             \cup {{First, e} : e \in {f \in MCExports : Len(f) <= 2}}
=============================================================================
