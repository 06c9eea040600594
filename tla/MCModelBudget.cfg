CONSTANTS
  c1 = c1
  c2 = c2
  c3 = c3
  c4 = c4
  c5 = c5
  s1 = s1
  s2 = s2
  Call = {c1, c2, c3, c4, c5}
  Snapshot = {s1, s2}
  SnapshotOf <- MCSnapshotOf
  MaxOf <- MCMaxOf
  CapsOf <- MCCapsOf
  Reportable <- MCReportable
  ProgramCaps <- MCProgramCaps
SPECIFICATION BudgetSpec
CHECK_DEADLOCK FALSE
INVARIANTS
  CapsHold
  LedgerBalances
