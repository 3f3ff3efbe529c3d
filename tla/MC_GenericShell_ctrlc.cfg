SPECIFICATION Spec
CONSTANTS
    Sockets = {s1, s2}
    Inputs <- MCInputsCtrlC
    MaxCalls = 3
INVARIANT CancelledLinesNotEvaluated
CHECK_DEADLOCK FALSE
