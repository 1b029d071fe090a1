CONSTANTS
  Events = {e1}
  Garbage = {}
  Plans <- MCPlans
  Never = Never
  Limit = 1
  SqlYear = 3
  Retention = 1
  MaxNow = 3
  Budget <- AllBudget
SPECIFICATION Spec
CHECK_DEADLOCK FALSE
INVARIANTS
  TypeOK
  PublishedIsAccountedFor
  CopiesNeedFaults
  RepeatsNeedFaults
  DeliveredWasLogged
PROPERTY PendingDeletedIsShort
