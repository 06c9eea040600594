CONSTANTS
  u1 = u1
  u2 = u2
  a1 = a1
  s1 = s1
  Nil = Nil
  Principal = {u1, u2, a1, s1}
  TypeOf <- MCTypeOf
  BootstrapRole <- MCBootstrapRole
  Key = {1, 2, 3, 4, 5, 6}
  Proposal = {1, 2}
  Decision = {1, 2}
  PlanId = {1, 2, 3}
  Order = {o1}
  Body = {b1, b2}
  ApprovalTTL = 1
  MaxTime = 2
  MaxRejected = 1
SPECIFICATION Spec
INVARIANTS
  TypeOK
  LinearHistory
  OwnerControlsPlan
  ApprovalSpentOnce
  ChecksImplyCas
  OneCommandPerVersion
