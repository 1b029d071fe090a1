CONSTANTS
  Events = {e1}
  Garbage = {}
  Plans <- MCOldPlans
  Never = Never
  Limit = 1
  SqlYear = 3
  Retention = 3
  MaxNow = 3
  Budget <- NoBudget
SPECIFICATION FairSpec
CHECK_DEADLOCK FALSE
PROPERTY RescheduledIsLogged
