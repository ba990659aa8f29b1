SPECIFICATION Spec
CONSTANTS
  roster = roster
  garen = garen
  jax = jax
  both = both
  one = one
  new = new
  old = old
  other = other
  Gone = Gone
  None = None
  Paths <- MCPaths
  Roster = roster
  Contents <- MCContents
  PlanOf <- MCPlanOf
  ValidFor <- MCValidFor
  Missing = Gone
  NoEntry = None
INVARIANTS TypeOK
PROPERTIES RunsEndVerified FailureInstallsNothing
