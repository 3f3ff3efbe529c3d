SPECIFICATION Spec
CONSTANTS
    Sockets = {s1, s2}
    Inputs <- MCInputs
    MaxCalls = 3
INVARIANT ExitOnlyOnIsolatedCommand
CHECK_DEADLOCK FALSE
