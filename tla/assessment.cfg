SPECIFICATION Spec
CONSTANTS
    None = None
    NoKey = NoKey
    Configs <- MCConfigs
    FeatureSets <- MCFeatureSets
    Scores <- MCScores
INVARIANTS NeverClearWithoutScore NoSignalTalkedDown ConfidenceIsHonest MoreEvidenceNeverLowers OnlyAMissingKeyFails
CHECK_DEADLOCK FALSE
