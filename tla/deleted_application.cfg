\* DELETE of an application leaves it in its table.
CONSTANTS
  r1 = r1
  r2 = r2
  r3 = r3
  Seed = seed
  Requests <- TwoRequests
  Callers = {1, 2}
  Users = {1, 2}
  Numbers = {1, 2}
  Operations <- AllOperations
SPECIFICATION Spec
INVARIANT DeletedApplicationIsGone
