CONSTANTS
    Events = {e1, e2}
    NULL = NULL
    Data = {mech1, mech2}
    Data2 = {x, y}
    MaxType = 1
    LOOKAHEAD_STACK_SIZE = 2
    MaxDelay = 3
    MaxTick = 3
    MaxScheduled = 3
SPECIFICATION FairSpec
INVARIANTS ListsAgree CursorsLinked NeverLate NoEventLost QueriesExact
PROPERTIES ImplementsTimer EventuallySettled
