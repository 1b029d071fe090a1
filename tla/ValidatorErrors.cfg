CONSTANTS
  Cells = {c1, c2}
  Nil = Nil
  Keys = {k1}
  Values = {v}
  Capacities = {0, 1}
  Top = 2
  BufferSize = 2
  Threshold = 50
  Illegal = {"x="}
  MaxRunes = 1
  MaxWords = 1
  MaxSize = 1
  MaxLine = 3
  MaxEmail = 2
SPECIFICATION MCSpec
CHECK_DEADLOCK FALSE
INVARIANT ProgramErrorsAreApart
