SPECIFICATION Spec
CONSTANTS
    None = None
    Batch <- MCBatch
    Priors <- MCPriors
    Scores <- MCScores
    Enabled <- MCEnabled
    Policy <- MCPolicy
    MaxStarts = 3
INVARIANTS AllOrNothing SeedsOnlyOnce EverySentenceIsCited ExclusionIsTold GroundedWithinTheseLimits IndicatorsDrillDown
CHECK_DEADLOCK FALSE
