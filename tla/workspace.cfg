SPECIFICATION WSpec
CONSTANTS
    Cases = {c1}
    Requests = {r1, r2}
    Analysts = {ann}
    Builds = {b1, b2}
    ClientWaits = "nothing"
    MaxRestarts = 1
    RicherOnDeviation = TRUE
    NoCase = NoCase
    NoRequest = NoRequest
    NoBody = NoBody
    NoRow = NoRow
    NoView = NoView
    Recommended <- MCRecommended
    RicherFor <- MCRicherFor
    Bodies <- MCBodies
INVARIANTS WTypeOK FrozenIsSeenWithinARun ConflictIsExplained TooLateIsRefused HintIsEnough EveryDecisionIsAudited StatusHasProvenance OnlyStaleReadsMislead ErrorMeansNothingRecorded
PROPERTIES EverySubmissionIsAnswered EveryRequestFinishes
CHECK_DEADLOCK FALSE
