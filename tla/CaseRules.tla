----------------------------- MODULE CaseRules ------------------------------
(***************************************************************************)
(* The vocabulary and the pure rules of the disposition workflow: case     *)
(* statuses, the analyst's actions, where an action routes a case, and     *)
(* when governance asks for a rationale.                                   *)
(***************************************************************************)

CONSTANTS Cases,              \* the cases the table holds
          Recommended,        \* cases.recommendation_action, by case
          RicherFor,          \* actions that always need a rationale
          RicherOnDeviation   \* does a deviation need one?

DispositionActions == {"clear", "hold", "escalate"}
OpenStatuses == {"queued", "pending"}
Statuses == OpenStatuses \cup {"cleared", "escalated"}

ASSUME RulesAssumption == /\ Recommended \in [Cases -> DispositionActions]
                          /\ RicherFor \subseteq DispositionActions
                          /\ RicherOnDeviation \in BOOLEAN

(* The status an action routes a case to. *)
Routing(action) == CASE action = "clear"    -> "cleared"
                     [] action = "hold"     -> "pending"
                     [] action = "escalate" -> "escalated"

(* Mutant: anything but a clearance counts as a deviation. *)
NeedsRationaleUnlessClear(c, action) ==
    action \in RicherFor \/ (RicherOnDeviation /\ action # "clear")

NeedsRationale(c, action) ==
    \/ action \in RicherFor
    \/ RicherOnDeviation /\ action # Recommended[c]

(* A row of the dispositions table: reason and rationale say only whether  *)
(* the text is there and not blank.                                        *)
Decision(Ids) == [id: Ids, case: Cases, action: DispositionActions,
                  reason: BOOLEAN, rationale: BOOLEAN, deviated: BOOLEAN]
=============================================================================
