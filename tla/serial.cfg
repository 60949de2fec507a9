SPECIFICATION Spec
CONSTANTS
    Cases = {c1}
    Requests = {r1, r2, r3}
    Builds = {b1}
    ClientWaits = "end"
    MaxRestarts = 1
    RicherOnDeviation = TRUE
    NoCase = NoCase
    NoRequest = NoRequest
    NoBody = NoBody
    NoRow = NoRow
    Recommended <- MCRecommended
    RicherFor <- MCRicherFor
    Bodies <- MCBodies
INVARIANT ReconstructionExplainsStatus
PROPERTY ImplementsLedger
CHECK_DEADLOCK FALSE
