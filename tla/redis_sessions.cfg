\* Four calls of the Redis store: sessions begun, used and ended at once.
CONSTANTS
  c1 = c1
  c2 = c2
  c3 = c3
  s1 = s1
  s2 = s2
  s3 = s3
  c4 = c4
  s4 = s4
  NoSession = NoSession
  Calls <- FourCalls
  SessionIDs <- FourSessions
  Duration = 2
SPECIFICATION FairSpec
INVARIANTS
  TypeOK
  EndedSessionsStayEnded
PROPERTIES
  SessionsExpire
  ImplementsSessionStore
