CONSTANTS
  c1 = c1
  c2 = c2
  s1 = s1
  retry1 = retry1
  retry2 = retry2
  other = other
  g1 = g1
  g2 = g2
  Call = {c1, c2}
  Snapshot = {s1}
  SnapshotOf <- MCSnapshotOf
  MaxOf <- MCMaxOf
  CapsOf <- MCCapsOf
  Reportable <- MCReportable
  ProgramCaps <- MCProgramCaps
  Process = {g1, g2}
  Thread = {retry1, retry2, other}
  Planned = {c1, c2}
  RequestCall <- MCRequestCall
  Usage <- MCUsage
  PortOf <- MCTwoPorts
  UseMarker = TRUE
SPECIFICATION Spec
CHECK_DEADLOCK FALSE
INVARIANTS
  GatewayTypeOK
  SpendIsHeld
PROPERTIES
  CallsAreGated
  CallsAreSingleUse
