SPECIFICATION Spec
CONSTANTS
  Requests = {r1, r2, r3}
  Null = Null
  Earlier = Earlier
  NoRow = NoRow
  Ids = {i1, i2}
  Existing = {i1}
  Begun = {"OPEN", "IN_PROGRESS"}
  Overlap = TRUE
  MaxFailures = 1
SYMMETRY RequestSymmetry
INVARIANTS
  TypeOK
  StampsEarned
  TimelineTruthful
  RepliesHonest
  CreationsRecorded
PROPERTIES
  ClimbsTheLadder
