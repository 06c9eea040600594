CONSTANTS
  Run = {r1, r2}
  Worker = {architect}
  RunBound = {}
  Chain = {a, b}
  MaxVersion = 1
  Nil = Nil
SPECIFICATION Spec
CHECK_DEADLOCK FALSE
INVARIANTS
  EveryAnswerIsCorrelated
