SPECIFICATION Spec
CONSTANTS
  Lineups <- MCHastedLineups
  Duration = 8000
INVARIANT FixedPointFound
CHECK_DEADLOCK FALSE
