SPECIFICATION Spec
CONSTANTS
    Facts <- MCFacts
    MaxChanges = 1
    MaxMishaps = 1
    CpuThreshold = 80
    MemoryThreshold = 80
    DiskThreshold = 80
INVARIANTS
    DisksReadBack
    SystemReadBack
    ItemsReadBack
    LoadAlarmsMatchHost
    AlarmsMatchHost
