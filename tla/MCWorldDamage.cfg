SPECIFICATION Spec
CONSTANTS
  MaxTop = 7
  Worlds <- MCDamaged
  Named <- MCNamed
  Actors <- MCActors
INVARIANT LocationsReset
CHECK_DEADLOCK FALSE
