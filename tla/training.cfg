SPECIFICATION Spec
CONSTANTS
    Steps = {1, 2, 3}
    NaN = NaN
    None = None
    Torn = Torn
    MaxTrainings = 2
    Inputs <- MCInputs
INVARIANTS OutOfTime OnlineEarnedIt ArtifactBelongsTogether PackagedFilesExist VerdictIsNoOlder
CHECK_DEADLOCK FALSE
