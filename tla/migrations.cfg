SPECIFICATION DSpec
CONSTANTS
    Commands = {"start", "seed", "downgrade one", "downgrade base"}
    MaxFaults = 4
INVARIANTS AtItsRevision RefusalsHaveACause
PROPERTY TheStackComesUp
CHECK_DEADLOCK FALSE
