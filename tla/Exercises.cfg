\* A program that has answered stops.
CONSTANTS
  Cells = {c1, c2, c3, c4}
  Nil = Nil
  Keys = {k1, k2, k3, k4}
  Values = {v, w}
  Capacities = {0, 1, 2, 3}
  Top = 2
  BufferSize = 2
  Threshold = 50
  Illegal = {"x="}
  MaxRunes = 4
  MaxWords = 3
  MaxSize = 7
  MaxLine = 4
  MaxEmail = 5
SPECIFICATION MCSpec
CHECK_DEADLOCK FALSE
INVARIANTS
  WellFormed
  UnpackIsRight
  TopIsRight
  CopyIsRight
  EnvdirIsRight
  ValidatorIsRight
  StatIsRight
PROPERTY ImplementsRecency
