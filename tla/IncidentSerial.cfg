SPECIFICATION Spec
CONSTANTS
  Requests = {r1, r2, r3, r4, r5}
  Null = Null
  Earlier = Earlier
  NoRow = NoRow
  Ids = {i1}
  Existing = {i1}
  Begun = {"OPEN"}
  Overlap = FALSE
  MaxFailures = 1
SYMMETRY RequestSymmetry
INVARIANTS
  StampsExact
PROPERTIES
  RowsClimb
