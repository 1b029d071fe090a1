CONSTANTS
  Events = {e1, e2}
  Garbage = {g}
  Plans <- MCPlan
  Never = Never
  Limit = 1
  SqlYear = 1
  Retention = 1
  MaxNow = 0
  Budget <- StopBudget
SPECIFICATION FairSpec
CHECK_DEADLOCK FALSE
PROPERTY DueIsDelivered
