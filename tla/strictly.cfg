SPECIFICATION Spec
CONSTANTS
    Window = 1
    None = None
    Inputs <- MCInputs
INVARIANT StrictlyBefore
CHECK_DEADLOCK FALSE
