SPECIFICATION Spec
CONSTANTS
    Dbrefs = {1, 2, 3}
    GOD = 1
    Folders = {0, 1}
    Scenarios <- MCScenarios
    MALIAS_LEN = 3
    MaxMail = 6
    MaxSent = 6
    MaxTo = 2
CHECK_DEADLOCK FALSE
INVARIANTS BoxesExact TextsExact RestartKeeps
PROPERTY SafeKept
