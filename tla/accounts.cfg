\* Three requests of the gateway's own routes.
CONSTANTS
  r1 = r1
  r2 = r2
  r3 = r3
  plain = plain
  named = named
  ann = ann
  bob = bob
  secret = secret
  other = other
  NoSession = NoSession
  NoBody = NoBody
  NoRow = NoRow
  Requests <- ThreeRequests
  NewUsers <- ThreeSignUps
SYMMETRY RequestSymmetry
SPECIFICATION Spec
INVARIANTS
  TypeOK
  UniqueAccounts
  SessionsBelongToCredentials
  ProfilesWrittenByOwner
  RefusedRequestsWriteNothing
PROPERTY ImplementsSessionStore
