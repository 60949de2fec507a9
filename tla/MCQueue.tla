------------------------------ MODULE MCQueue -------------------------------
(* Small instances of Queue: three cases of two levels, two of the same age. *)
EXTENDS Queue

CONSTANTS c1, c2, c3

MCRecommended == [c \in Cases |-> IF c = c2 THEN "hold" ELSE "escalate"]
MCCreatedAt == [c \in Cases |-> IF c = c1 THEN 0 ELSE 1]
MCAmount == [c \in Cases |-> IF c = c3 THEN 2 ELSE 1]
MCRulesOf == [c \in Cases |-> IF c = c1 THEN {"velocity"}
                                        ELSE {"velocity", "account_draining"}]
MCRicherFor == {"escalate"}

(* The shipped policy, its ascending form, one with a sort the service     *)
(* does not know, and one startup refuses.                                 *)
Shipped == [default_sort |-> "risk", allowed_sorts |-> {"risk", "case_age"},
            order |-> "desc"]
MCPolicies == {Shipped, [Shipped EXCEPT !.order = "asc"],
               [Shipped EXCEPT !.allowed_sorts = SortNames],
               [Shipped EXCEPT !.allowed_sorts = {"case_age"}]}

Ask(sort, level, rule, min) ==
    [sort |-> sort, level |-> level, rule |-> rule, min_amount |-> min]

(* No parameter, an unknown sort, and each filter with one of the sorts. *)
MCQueries == {Ask(NoFilter, NoFilter, NoFilter, NoFilter),
              Ask("sla", "escalate", NoFilter, NoFilter),
              Ask("risk", NoFilter, "account_draining", 1),
              Ask("case_age", NoFilter, NoFilter, 2)}
=============================================================================
