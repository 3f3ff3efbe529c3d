SPECIFICATION Spec
CONSTANTS
    Candidates <- MCCandidates
    CpxCoef = 1
    VeryWorstScore <- MCVeryWorstScore
INVARIANT TypeOK
\* A caller stops once it has scored the candidate both ways.
CHECK_DEADLOCK FALSE
