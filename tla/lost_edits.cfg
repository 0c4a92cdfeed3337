\* Two tabs in which one user edits two fields of an application.
CONSTANTS
  t1 = t1
  t2 = t2
  s1 = s1
  s2 = s2
  f1 = f1
  f2 = f2
  company = company
  status = status
  NoToken = NoToken
  NoTab = NoTab
  Tabs <- TwoTabs
  Users <- OneUser
  SessionIDs <- OneSession
  Fields <- TwoFields
  Repeated = {}
  Slots <- TwoSlots
  MaxRows = 1
  MaxInputs = 1
SPECIFICATION Spec
PROPERTY EditsChangeTheirFields
