\* Three requests, three hosts, a counter of two bits, and sessions that end meanwhile.
CONSTANTS
  r1 = r1
  r2 = r2
  r3 = r3
  s1 = s1
  s2 = s2
  alice = alice
  bob = bob
  NoSession = NoSession
  ShortID = ShortID
  Nobody = Nobody
  Requests <- ThreeRequests
  SessionIDs <- TwoSessions
  Users <- TwoUsers
  UserOf <- OneEach
  Hosts = 3
  MaxInt32 = 1
SPECIFICATION FairSpec
INVARIANTS
  TypeOK
  XUserIsHonest
  RoundRobin
  LostOnlyAfterWrap
PROPERTY EveryRequestLeaves
