SPECIFICATION Spec
CONSTANTS
    MaxRows = 3
    Merchants = {"M1"}
    Null = Null
    Names <- MCNames
    Exports <- MCExports
    SourcesOf <- MCSources
INVARIANTS ForeignKeysHold FirstFileWins FirstSeenIsFirst
