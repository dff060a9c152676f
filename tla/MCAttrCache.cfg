SPECIFICATION Spec
CONSTANTS
    Objects = {0, 1, 2}
    Anames <- OneEach
    Values = {v}
    none = none
    Blocks = {b1, b2, b3}
    CNULL = CNULL
    cwidth = 1
    cdepth = 1
    cache_trim_on = TRUE
    DBFails = TRUE
INVARIANTS CacheSound HeldStays
PROPERTY ImplementsMap
SYMMETRY Symmetry
