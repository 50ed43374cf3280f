SPECIFICATION FairSpecCommandsEnd
CONSTANTS
    Runs = {r1}
    Bootstraps <- SmallBootstraps
    Names = {"memory", "service", "docker"}
    MaxChanges = 2
    MaxFailures = 1
INVARIANTS
    TypeOK
    ResultsAreEarned
    OnlyDockerIsRefused
PROPERTIES
    EveryRunEnds
