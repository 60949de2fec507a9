SPECIFICATION Spec
CONSTANTS
    Cases = {c1}
    Requests = {r1, r2, r3}
    Builds = {b1}
    ClientWaits = "answer"
    MaxRestarts = 1
    RicherOnDeviation = TRUE
    NoCase = NoCase
    NoRequest = NoRequest
    NoBody = NoBody
    NoRow = NoRow
    Recommended <- MCRecommended
    RicherFor <- MCRicherFor
    Bodies <- Valid
CHECK_DEADLOCK FALSE
INVARIANT AnsweredIsRecorded
