---------------------------- MODULE MCMonitoring -----------------------------
EXTENDS Monitoring, TLC
CONSTANTS r1, r2, r3, s1, s2

MCCollectors == <<"cpu", "memory">>
Usage(n) == [usage_percent |-> 100 * n]
MCReadings == [cpu |-> {Usage(95)},
               memory |-> {Usage(90)}]
PastOf(type, data) ==
    [server |-> s1, type |-> type, stamp |-> 0, data |-> data, run |-> Earlier]
MCPast == {PastOf("disk", [partitions |-> <<91, 99>>])}
MCRoles == {{"web"}}
Symmetry == Permutations({r1, r2, r3})
===============================================================================
