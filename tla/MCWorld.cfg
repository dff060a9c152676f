SPECIFICATION Spec
CONSTANTS
  MaxTop = 7
  Worlds <- MCWorlds
  Named <- MCNamed
  Actors <- MCActors
INVARIANTS ChainsExact NoDangling DbckMends
PROPERTY DbckKeeps
CHECK_DEADLOCK FALSE
