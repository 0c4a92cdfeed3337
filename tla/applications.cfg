\* Three requests that write, of two users: the tables and their refinement.
CONSTANTS
  r1 = r1
  r2 = r2
  r3 = r3
  Seed = seed
  Requests <- ThreeRequests
  Callers = {1, 2}
  Users = {1, 2}
  Numbers = {1, 2}
  Operations <- WriteOperations
SYMMETRY RequestSymmetry
SPECIFICATION Spec
INVARIANTS
  ChecksStillHold
  RowsWrittenByOwner
  DeletedOnce
  CreationsKept
  AcknowledgedStagePatchLands
  IInv
PROPERTY ImplementsTracker
