SPECIFICATION Spec
CONSTANTS
    Hull <- MCHull
    Fit <- MCFit
    Scenarios <- MCScenarios
CHECK_DEADLOCK FALSE
INVARIANTS JobsExclusive MaterialsConserved TableExact RestartKeeps
