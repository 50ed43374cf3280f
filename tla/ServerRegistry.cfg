SPECIFICATION FairSpec
CONSTANTS
  Requests = {r1, r2, r3}
  Hostnames = {h1, h2}
  Addresses = {a1, a2}
  Earlier = Earlier
  MaxFailures = 1
INVARIANTS
  TypeOK
  OnlyRacesFail
  RepliesHonest
  SomebodyWins
PROPERTIES
  ImplementsAtomicRegistry
  EveryRequestEnds
