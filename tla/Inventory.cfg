SPECIFICATION Spec
CONSTANTS
  Requests = {r1, r2, r3}
  Earlier = Earlier
  Null = Null
  NoRow = NoRow
  i1 = i1
  i2 = i2
  i3 = i3
  s1 = s1
  s2 = s2
  Servers = {s1, s2}
  Ids = {i1, i2, i3}
  Known <- OneKnown
  MaxFailures = 1
SYMMETRY RequestSymmetry
INVARIANTS
  TypeOK
  OneAssetPerServer
  SnapshotBacked
  FailedEditsLeaveNoTrace
PROPERTIES
  FreshSavesAreExact
