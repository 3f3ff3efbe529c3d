CONSTANTS
    Queries <- MCEmptyNotQueries
    MatchInputs = {}
    InitAtoms <- MCInitAtoms
    InitTrue <- MCInitTrue
    MaxCalls = 1

SPECIFICATION Spec

INVARIANT CallsRaiseOrReturn

\* The caller makes MaxCalls calls and then stops.
CHECK_DEADLOCK FALSE
