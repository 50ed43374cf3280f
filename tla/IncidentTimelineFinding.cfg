SPECIFICATION Spec
CONSTANTS
  Requests = {r1}
  Null = Null
  Earlier = Earlier
  NoRow = NoRow
  Ids = {i1}
  Existing = {i1}
  Begun = {"OPEN"}
  Overlap = TRUE
  MaxFailures = 0
INVARIANTS
  TimelineComplete
