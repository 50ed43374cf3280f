SPECIFICATION Spec
CONSTANTS
  Requests = {r1, r2}
  Null = Null
  Earlier = Earlier
  NoRow = NoRow
  Ids = {i1}
  Existing = {i1}
  Begun = {"OPEN"}
  Overlap = TRUE
  MaxFailures = 0
PROPERTIES
  StatusFollowsTable
