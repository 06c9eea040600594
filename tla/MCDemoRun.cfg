CONSTANTS
  Run = {r1}
  Worker = {architect, coach}
  RunBound = {coach}
  Chain = {a}
  MaxVersion = 2
  Nil = Nil
SPECIFICATION Spec
CHECK_DEADLOCK FALSE
INVARIANTS
  CompletedRunIsCurrent
PROPERTIES
  ChainsEnd
