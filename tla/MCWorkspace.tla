---------------------------- MODULE MCWorkspace -----------------------------
(* Small instances of Workspace, with the governance the repository ships. *)
EXTENDS Workspace

(* The policy recommended a hold for every case. *)
MCRecommended == [c \in Cases |-> "hold"]

(* config/thresholds.yaml: escalations and deviations need a rationale. *)
MCRicherFor == {"escalate"}

Input(c, action, rationale) ==
    [case |-> c, action |-> action, reason |-> TRUE, rationale |-> rationale]

(* What the form can send: a decision that closes the case, one that keeps *)
(* it open, and one that is refused for its rationale.                     *)
MCBodies == UNION {{Input(c, "clear", TRUE), Input(c, "hold", FALSE),
                    Input(c, "escalate", FALSE)} : c \in Cases}
=============================================================================
