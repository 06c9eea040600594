CONSTANTS
  u1 = u1
  u2 = u2
  a1 = a1
  s1 = s1
  Nil = Nil
  Principal = {u1, u2, a1, s1}
  TypeOf <- MCTypeOf
  BootstrapRole <- MCBootstrapRole
  Key = {1, 2, 3, 4, 5, 6, 7, 8}
  Proposal = {1, 2, 3}
  Decision = {1}
  PlanId = {1, 2, 3, 4}
  Order = {o1, o2}
  Body = {b1}
  ApprovalTTL = 1
  MaxTime = 0
  MaxRejected = 0
SPECIFICATION Spec
INVARIANTS
  RestoreIsExact
PROPERTIES
  StaleProposalStaysDead
  PlanIsMandated
