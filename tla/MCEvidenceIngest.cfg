CONSTANTS
  Job = {j1, j2, j3}
  Content = {text, other}
  NoClaim = NoClaim
SPECIFICATION IngestSpec
CHECK_DEADLOCK FALSE
INVARIANTS
  IngestTypeOK
  EvidenceBacked
  ClaimsFollowRequests
  OutboxTellsJobs
