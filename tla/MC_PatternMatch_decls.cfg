CONSTANTS
    Queries <- MCUndeclaredQueries
    MatchInputs <- MCMatchInputs
    InitAtoms <- MCInitAtoms
    InitTrue <- MCInitTrue
    MaxCalls = 1

SPECIFICATION Spec

INVARIANT DeclaredVariablesOnly

\* The caller makes MaxCalls calls and then stops.
CHECK_DEADLOCK FALSE
