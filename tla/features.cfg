SPECIFICATION Spec
CONSTANTS
    Window = 1
    None = None
    Inputs <- MCInputs
INVARIANTS CountIsExact CounterpartiesAreExact AmountsAreExact
CHECK_DEADLOCK FALSE
