SPECIFICATION RightsSpec
CONSTANTS
  m1 = m1  m2 = m2  a1 = a1  a2 = a2
  Members = {m1, m2}
  Admins = {a1, a2}
  ModuleLists <- MCModuleLists
  Toggles <- MCToggles
  LegacyRoles <- MCLegacyRoles
  MaxRequests = 2
  None = None
INVARIANTS CeilingIsCrossedOnPurpose
PROPERTIES NarrowingNarrows BackfillTakesNothing
CHECK_DEADLOCK FALSE
SYMMETRY Symmetry
