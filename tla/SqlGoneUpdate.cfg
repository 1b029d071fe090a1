CONSTANTS
  alice = alice
  x = x
  y = y
  i1 = i1
  i2 = i2
  IDs = {i1, i2}
  Owners = {alice}
  Texts = {x, y}
  None = None
  Unset = Unset
  Clients = {c1, c2}
  Calls <- MCCalls
  CheckDates = TRUE
SPECIFICATION Spec
PROPERTY UpdatedWasThere
