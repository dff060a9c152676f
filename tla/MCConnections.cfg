SPECIFICATION Spec
CONSTANTS
    Descs = {d1, d2, d3}
    NULL = NULL
    Players = {wizard, mortal}
    Wizards = {wizard}
    NOBODY = NOBODY
    Programs = {g1}
    max_players = 1
    cmd_quota_max = 1
    MaxInput = 1
    PipedLogout = FALSE
INVARIANTS ListsExact OnlineExact WalkExact ProgramShared
SYMMETRY Symmetry
