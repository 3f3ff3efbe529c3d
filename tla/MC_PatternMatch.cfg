CONSTANTS
    Queries <- MCQueries
    MatchInputs <- MCMatchInputs
    InitAtoms <- MCInitAtoms
    InitTrue <- MCInitTrue
    MaxCalls = 2

SPECIFICATION Spec

INVARIANT TypeOK
INVARIANT DeclaredTypesRespected

PROPERTY Refinement

\* The caller makes MaxCalls calls and then stops.
CHECK_DEADLOCK FALSE
