CONSTANTS
  retry1 = retry1
  retry2 = retry2
  rival = rival
  ingest = ingest
  outsider = outsider
  k1 = k1
  k2 = k2
  Nil = Nil
  Request = {retry1, retry2, rival, ingest, outsider}
  Key = {k1, k2}
  Authorised = {retry1, retry2, rival, ingest}
  KeyOf <- MCKeyOf
  PrintOf <- MCPrintOf
  FamilyOf <- MCFamilyOf
  Expected <- MCExpected
SPECIFICATION TxSpec
CHECK_DEADLOCK FALSE
INVARIANTS
  TxTypeOK
  AnswersAgree
  EffectOnce
  VersionHeld
  KeyNotOccupied
  DeadlockNeedsMixedOrder
PROPERTIES
  CommandsAreAtomic
  EveryRequestEnds
