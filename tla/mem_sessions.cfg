\* Three calls of the memory store: one renews what another has deleted.
CONSTANTS
  c1 = c1
  c2 = c2
  c3 = c3
  s1 = s1
  s2 = s2
  s3 = s3
  NoSession = NoSession
  Calls <- ThreeCalls
  SessionIDs <- ThreeSessions
  Duration = 2
SPECIFICATION Spec
INVARIANT EndedSessionsStayEnded
