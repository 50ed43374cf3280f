SPECIFICATION FairSpec
CONSTANTS
    Requests = {r1}
    Threads = 1
    Retries = 2
    Commands = 2
    MaxDrops = 0
PROPERTIES
    ExecutionsTimeOut
