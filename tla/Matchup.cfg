SPECIFICATION Spec
CONSTANTS
  Lineups <- MCLineups
  Duration = 8000
INVARIANTS TypeOK CancelledForACause BlockedByLandedControl RoleNeutral AttackClock ControlNeedsContact SettlesForward
CHECK_DEADLOCK FALSE
