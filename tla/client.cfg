\* Two tabs of a browser, two users, a session each.
CONSTANTS
  t1 = t1
  t2 = t2
  s1 = s1
  s2 = s2
  f1 = f1
  f2 = f2
  company = company
  status = status
  NoToken = NoToken
  NoTab = NoTab
  Tabs <- TwoTabs
  Users <- TwoUsers
  SessionIDs <- TwoSessions
  Fields <- NoField
  Repeated = {"Create", "Patch"}
  Slots <- TwoSlots
  MaxRows = 1
  MaxInputs = 1
SYMMETRY Alike
SPECIFICATION Spec
INVARIANTS
  TypeOK
  TabsShowTheirSession
  PagesShowTheUsersRows
PROPERTY RowsChangeAsInTracker
