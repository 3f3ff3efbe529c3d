SPECIFICATION Spec
CONSTANTS
    Sockets = {s1, s2}
    Inputs <- MCInputs
    MaxCalls = 4
INVARIANT TypeOK
INVARIANT NoDanglingShell
INVARIANT TelnetInterruptNeverEvaluated
INVARIANT PromptMatchesPending
PROPERTY ReleaseCompletesRequest
CHECK_DEADLOCK FALSE
