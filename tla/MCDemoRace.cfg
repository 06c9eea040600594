CONSTANTS
  Run = {r1, r2}
  Worker = {coach}
  RunBound = {coach}
  Chain = {a, b}
  MaxVersion = 1
  Nil = Nil
SPECIFICATION Spec
CHECK_DEADLOCK FALSE
INVARIANTS
  AnswersBelongToTheirRun
  NoReplyIsPassedOver
SYMMETRY Symmetry
