CONSTANTS
  IDs = {"i", "j"}
  Owners = {"o"}
  Texts = {"a"}
  None = None
  Unset = Unset
  Calls <- MCCalls
  CheckDates = FALSE
  Clients = {c1, c2}
  Requests <- MCRequests
  Dates <- MCDates
  DayLength = 2
  FirstWeekday = 4
  MonthStarts <- MCMonthStarts
SPECIFICATION Spec
INVARIANTS
  TypeOK
  RefusalsChangeNothing
  ShownIsCurrent
  DayInWeekAndMonth
SYMMETRY ClientSymmetry
