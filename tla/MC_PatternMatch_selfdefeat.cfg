CONSTANTS
    Queries <- MCSelfDefeatingQueries
    MatchInputs = {}
    InitAtoms <- MCInitAtoms
    InitTrue <- MCInitTrue
    MaxCalls = 1

SPECIFICATION Spec

PROPERTY Refinement

\* The caller makes MaxCalls calls and then stops.
CHECK_DEADLOCK FALSE
