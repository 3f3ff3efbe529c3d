CONSTANTS
    Arity = 3
    XmplrFeatures <- MCXmplrFeatures
    UserIgnore <- MCUserIgnore
    NDemes = 2
    MaxExpansions = 2
    MaxEvals = 3

SPECIFICATION Spec

INVARIANT DemeScoredWithItsFeatures

\* The driving loop stops after MaxExpansions expansions.
CHECK_DEADLOCK FALSE
