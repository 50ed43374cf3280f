SPECIFICATION Spec
CONSTANTS
  Requests = {r1, r2}
  Earlier = Earlier
  Null = Null
  NoRow = NoRow
  i1 = i1
  i2 = i2
  i3 = i3
  s1 = s1
  s2 = s2
  Servers = {s1}
  Ids = {i1, i2}
  Known <- FirstKnown
  MaxFailures = 0
INVARIANTS
  DeletedStaysDeleted
