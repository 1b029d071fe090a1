\* A program stops when it has returned; the temporal properties exclude any
\* other stop.
CONSTANTS
  T = 6
  N = 3
  MArg = 2
  Stages = 2
  Inputs = 3
  DoneModes = {"nil", "open", "closed"}
  Chunks = 2
  Http = {h1, h2}
  Grpc = {g1, g2}
SPECIFICATION MCSpec
CHECK_DEADLOCK FALSE
INVARIANTS
  ErrorsBoundWork
  ResultIsRight
  ReportNeverBlocks
  OutputIsPrefix
  AllWithoutDone
  NothingCutShort
  OwnCloseIsNoError
  HttpIsServed
  FailureHasCause
PROPERTIES
  NoTaskAfterLimit
  RunReturns
  NobodyStays
  DoneReleases
  RunEnds
  StopsInTheEnd
