SPECIFICATION Spec
CONSTANTS
    r1 = r1
    r2 = r2
    r3 = r3
    s1 = s1
    s2 = s2
    Earlier = Earlier
    Requests = {r1, r2, r3}
    Servers = {s1, s2}
    CpuThreshold = 80
    MemoryThreshold = 85
    DiskThreshold = 90
    Rules = {"cpu", "memory", "disk", "network", "service"}
    MaxFailures = 1
    Collectors <- MCCollectors
    Readings <- MCReadings
    Past <- MCPast
    Roles <- MCRoles
SYMMETRY Symmetry
INVARIANTS
    TypeOK
    SessionsReleased
    CollectionHonest
    FreshReports
    QuietReportsAreSnapshots
    ReportsAddUp
