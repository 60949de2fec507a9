SPECIFICATION Spec
CONSTANTS
    c1 = c1
    c2 = c2
    c3 = c3
    Cases = {c1, c2, c3}
    NoFilter = NoFilter
    SortNames = {"risk", "case_age", "sla"}
    RicherOnDeviation = TRUE
    RicherFor <- MCRicherFor
    Recommended <- MCRecommended
    CreatedAt <- MCCreatedAt
    Amount <- MCAmount
    RulesOf <- MCRulesOf
    Policies <- MCPolicies
    Queries <- MCQueries
INVARIANTS PageIsTheOpenCases PageIsInItsOrder
CHECK_DEADLOCK FALSE
