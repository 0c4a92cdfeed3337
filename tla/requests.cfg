\* Two requests of every kind, of users, of a session whose user row is gone, and of none.
CONSTANTS
  r1 = r1
  r2 = r2
  r3 = r3
  Seed = seed
  Requests <- TwoRequests
  Callers = {1, 2, 3}
  Users = {1, 2}
  Numbers = {0, 1, 2}
  Operations <- AllOperations
SPECIFICATION FairSpec
INVARIANTS
  TypeOK
  RefusedRequestsWriteNothing
PROPERTY EveryRequestSettles
