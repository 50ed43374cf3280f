SPECIFICATION FairPooledSpec
CONSTANTS
    Requests = {r1, r2}
    Threads = 1
    Retries = 2
    Commands = 2
    MaxDrops = 1
    Pools = {1, 2}
INVARIANTS
    PooledTypeOK
    SessionsAccounted
    NeverRunTwice
    DiscoveriesComplete
    AnswersHonest
PROPERTIES
    EveryRequestAnswered
