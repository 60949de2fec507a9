------------------------ MODULE MCDispositionService ------------------------
(* Small instances of DispositionService. *)
EXTENDS DispositionService

(* The policy recommended a hold for every case. *)
MCRecommended == [c \in Cases |-> "hold"]

(* config/thresholds.yaml: escalations and deviations need a rationale. *)
MCRicherFor == {"escalate"}

Input(c, action, reason, rationale) ==
    [case |-> c, action |-> action, reason |-> reason, rationale |-> rationale]

(* Every valid decision of a case. *)
Valid == {Input(c, a, TRUE, TRUE) : c \in Cases, a \in DispositionActions}

(* One input for each early return, and a hold that needs no rationale. *)
MCBodies == Valid \cup
    UNION {{Input(c, "hold", TRUE, FALSE), Input(c, "other", TRUE, TRUE),
            Input(c, "hold", FALSE, TRUE), Input(c, "clear", TRUE, FALSE),
            Input(c, "escalate", TRUE, FALSE)} : c \in Cases}
    \cup {Input(NoCase, "hold", TRUE, TRUE)}
=============================================================================
