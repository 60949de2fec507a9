----------------------------- MODULE CaseLedger -----------------------------
(***************************************************************************)
(* What the disposition path promises, with no requests, transactions or   *)
(* failures in it: a decision on a case is recorded in one step, only      *)
(* while the case is open, only with the reason and rationale governance   *)
(* asks for; recording it moves the case to the status the action routes   *)
(* to and makes it the decision the log reconstructs.                      *)
(***************************************************************************)
EXTENDS CaseRules

CONSTANT Ids,    \* identities of decisions
         NoId    \* "no decision yet"

VARIABLES status,    \* the status of each case
          recorded,  \* the decisions recorded
          latest     \* for each case, the decision its log reconstructs

vars == <<status, recorded, latest>>

Init == /\ status = [c \in Cases |-> "queued"]
        /\ recorded = {}
        /\ latest = [c \in Cases |-> NoId]

Record(d) == /\ d.id \notin {e.id : e \in recorded}
             /\ status[d.case] \in OpenStatuses
             /\ d.deviated = (d.action # Recommended[d.case])
             /\ d.reason
             /\ NeedsRationale(d.case, d.action) => d.rationale
             /\ status' = [status EXCEPT ![d.case] = Routing(d.action)]
             /\ recorded' = recorded \cup {d}
             /\ latest' = [latest EXCEPT ![d.case] = d.id]

Next == \E d \in Decision(Ids) : Record(d)

Spec == Init /\ [][Next]_vars
=============================================================================
