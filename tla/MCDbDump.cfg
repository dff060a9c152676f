SPECIFICATION FairSpec
CONSTANTS
    Server = server
    Children = {c1, c2}
    TempNames <- MCTemps
    Scenarios <- MCScenarios
INVARIANTS DatabaseSurvives CheckpointKept NeverMixed HcodeIntact
PROPERTY DumpEnds
