CONSTANTS
  r1 = r1
  architect = architect
  coach = coach
  Run = {r1}
  Worker = {architect, coach}
  RunBound = {coach}
  Chain = {a}
  RouteLength = 2
  MaxVersion = 1
  Nil = Nil
  Provisioner = {p1, p2}
  WindowOf <- MCWindowOf
  Order <- MCOrder
SPECIFICATION Spec
CHECK_DEADLOCK FALSE
INVARIANTS
  ControlTypeOK
  BundleIsOne
  AskedInOrder
  ResultIsCurrent
  RouteReportsDeliveries
  RequestsNameTheirBundle
PROPERTIES
  NoSpentBundle
SYMMETRY Symmetry
