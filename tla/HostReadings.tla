----------------------------- MODULE HostReadings -----------------------------
(***************************************************************************)
(* What is read of a host: by the collector agent on the host itself, and, *)
(* over SSH, by a discovery and by the telemetry collectors, whose samples *)
(* the health rules judge.  A reading sends its commands one by one and    *)
(* then parses what they printed; the host may change in between, a command*)
(* whose failure is tolerated may print nothing, and what comes over SSH   *)
(* may be cut off anywhere, in the middle of a number or a name too: the   *)
(* exit status of a command can overtake the end of its output, which is   *)
(* then not waited for.                                                    *)
(***************************************************************************)
EXTENDS CollectorParsers, ContainerParsers, TelemetryParsers, HealthRules

Discovery == INSTANCE DiscoveryParsers

CONSTANTS
    Facts,           \* what there may be to read on a host, for each subject
    MaxChanges,      \* bound on changes of the host during a reading
    MaxMishaps       \* bound on commands of a reading that fail or are cut off

VARIABLES
    reader,          \* the reading that is made
    fact,            \* its subject, as it is on the host now
    outputs,         \* what its commands printed so far
    seen,            \* history: what the subject was when they did
    whole,           \* history: those of them of which all arrived
    changes, mishaps

vars == <<reader, fact, outputs, seen, whole, changes, mishaps>>

(* The readings: their subject, the number of their commands, those of them*)
(* without which the others are read all the same, and the shape of the    *)
(* lines of what comes over SSH, which may be cut off.                     *)
Reading(on, commands, tolerated, cut) ==
    [on |-> on, commands |-> commands, tolerated |-> tolerated, cut |-> cut]
Local(on, commands, tolerated) == Reading(on, commands, tolerated, <<>>)
Remote(on, cut) == Reading(on, Len(cut), {}, cut)

Readings ==
    [disk_collector |-> Local("disks", 2, {}),
     discovery_disks |-> Remote("disks", <<"fields">>),
     telemetry_disks |-> Remote("disks", <<"fields">>),
     system_collector |-> Local("system", 6, {1, 6}),
     discovery_system |-> Remote("system", <<"pairs", "pairs", "pairs", "fields">>),
     network_collector |-> Local("network", 5, {}),
     discovery_network |-> Remote("network", <<"fields">>),
     telemetry_network |-> Remote("network", <<"counters">>),
     service_collector |-> Local("services", 2, {2}),
     telemetry_services |-> Remote("services", <<"fields">>),
     memory_collector |-> Local("load", 1, {}), cpu_collector |-> Local("load", 2, {}),
     discovery_memory |-> Remote("load", <<"fields">>),
     telemetry_memory |-> Remote("load", <<"fields">>),
     telemetry_cpu |-> Remote("load", <<"fields">>),
     telemetry_processes |-> Remote("load", <<"fields">>),
     docker_collector |-> Local("containers", 5, 2 .. 5),
     kubernetes_collector |-> Local("cluster", 7, 2 .. 7),
     log_collector |-> Local("logs", 3, 1 .. 3)]

ASSUME ReadingsAssumption ==
    /\ {Readings[r].on : r \in DOMAIN Readings} \subseteq DOMAIN Facts
    /\ {MaxChanges, MaxMishaps} \subseteq Nat

-------------------------------------------------------------------------------
(* What the commands print: the tools of the host, known by how the parsers*)
(* and their tests use them.                                               *)
df_bytes(disks) ==
    Each(disks, LAMBDA d : <<d.device, d.fstype, Num(d.total), Num(d.used),
                             Num(d.total - d.used), Percent(d.percent), d.mount>>)

diskstats(disks) ==
    Each(disks, LAMBDA d : <<Num(8), Num(1), d.device>> \o [n \in 1 .. 11 |-> Num(d.used)])

Human(mb) ==
    IF mb < 1024 THEN Size(mb, "M")
    ELSE IF mb < 1048576 THEN Size(mb \div 1024, "G") ELSE Size(mb \div 1048576, "T")

df_human(disks) ==
    <<<<Word("Filesystem"), Word("Type"), Word("Size"), Word("Used"), Word("Avail"),
        Word("Use%"), Word("Mounted"), Word("on")>>>>
    \o Each(disks, LAMBDA d : <<d.device, d.fstype, Human(d.total), Human(d.used),
                                Human(d.total - d.used), Percent(d.percent), d.mount>>)

WithoutType(lines) == Each(lines, LAMBDA parts : RemoveAt(parts, 2))

Elapsed(minutes) ==
    LET days == minutes \div 1440
        hours == (minutes % 1440) \div 60
    IN (IF days = 0 THEN <<>> ELSE <<<<Num(days), Word(IF days = 1 THEN "day" ELSE "days")>>>>)
       \o <<IF hours > 0 THEN <<Clock(hours, minutes % 60)>>
            ELSE <<Num(minutes % 60), Word("min")>>>>

uptime(minutes) ==
    LET elapsed == Elapsed(minutes)
    IN <<<<Clock(10, 12), Word("up")>> \o elapsed[1]>> \o Tail(elapsed)
       \o <<<<Num(2), Word("users")>>, <<Word("load"), Word("average:"), Num(1)>>>>

lscpu(cores) ==
    <<Pair("architecture", Word("x86_64")), Pair("cpu(s)", Num(cores)),
      Pair("on-line cpu(s) list", IF cores = 1 THEN Num(0) ELSE Word("0-3")),
      Pair("model name", Word("EPYC")), Pair("thread(s) per core", Num(1)),
      Pair("core(s) per socket", Num(cores)), Pair("socket(s)", Num(1)),
      Pair("numa node0 cpu(s)", IF cores = 1 THEN Num(0) ELSE Word("0-3"))>>

os_release == <<Pair("PRETTY_NAME", Field("quoted", "Debian 12", 0)),
                Pair("NAME", Field("quoted", "Debian", 0)), Pair("ID", Word("debian"))>>

uname(host) == <<Word("Linux"), host, Word("6.1.0"), Word("#1")>>

ip_addr(addresses) ==
    Each(addresses, LAMBDA a : <<Num(2), a.interface, Word(a.family), Prefix(a.ip, 24),
                                 Word("scope"), Word("global")>>)

net_dev(interfaces) ==
    Each(interfaces, LAMBDA i : Pair(i.name, [n \in 1 .. 16 |->
        Num(IF n = 1 THEN i.rx ELSE IF n = 9 THEN i.tx ELSE 0)]))

(* The kernel prints an address as one number, its first byte last.        *)
HexAddress(bytes) ==
    [n \in 1 .. 8 |-> LET byte == bytes[5 - ((n + 1) \div 2)]
                      IN IF n % 2 = 1 THEN byte \div 16 ELSE byte % 16]
HexPort(port) ==
    <<port \div 4096, (port \div 256) % 16, (port \div 16) % 16, port % 16>>

net_tcp(sockets) ==
    <<[ends |-> <<>>]>>
    \o Each(sockets, LAMBDA s : [state |-> Word("0A"), ends |->
           <<[ip |-> HexAddress(s.address), port |-> HexPort(s.port)],
             [ip |-> HexAddress(<<0, 0, 0, 0>>), port |-> HexPort(0)]>>])

(* A unit that failed is marked with a bullet before its name.             *)
list_units(units) ==
    Each(units, LAMBDA u : (IF u.active = "failed" THEN <<Word("bullet")>> ELSE <<>>)
                           \o <<Unit(u.name), Word("loaded"), Word(u.active), Word("sub")>>)

Running(units) == Where(units, LAMBDA u : u.active = "active")

(* A unit that is gone is shown without a process.                         *)
PidOf(units, name) ==
    LET i == SelectInSeq(units, LAMBDA u : u.name = name) IN IF i = 0 THEN 0 ELSE units[i].pid

systemctl_show(listed, units) ==
    FlattenSeq(Each(Where(listed, LAMBDA parts : parts[1].kind = "unit"), LAMBDA parts :
        <<Pair("Id", parts[1]), Pair("MainPID", Num(PidOf(units, parts[1].word)))>>))

free(load) ==
    <<<<Word("total"), Word("used"), Word("free")>>,
      <<Word("Mem:"), Num(1000), Num(load.memory), Num(1000 - load.memory), Num(0), Num(0),
        Num(1000 - load.memory)>>,
      <<Word("Swap:"), Num(0), Num(0), Num(0)>>>>

meminfo_lines(load) ==
    <<Pair("MemTotal", <<Num(1000)>>), Pair("MemFree", <<Num(1000 - load.memory)>>)>>

(* In some languages top prints its numbers with a comma.                  *)
top(load) ==
    <<<<Word("%Cpu(s):"), Num(load.cpu), Word("us"),
        IF load.comma THEN Word("comma") ELSE Num(10000 - load.cpu), Word("id")>>>>

proc_stat(load) ==
    <<<<Word("cpu")>> \o [n \in 1 .. 9 |-> Num(load.cpu)], <<Core(0)>>, <<Core(1)>>>>

ps(load) ==
    <<<<Word("PID"), Word("PPID"), Word("%CPU"), Word("%MEM"), Word("CMD")>>,
      <<Num(311), Num(1), Num(load.cpu), Num(load.memory \div 10), Word("nginx"), Word("-g")>>>>

docker_ps(containers) ==
    <<<<Word("CONTAINER")>>>>
    \o Each(Where(containers, LAMBDA c : c.running), LAMBDA c : <<c.id, c.name>>)

(* The containers that were listed, as they are now.  If one of them is    *)
(* gone, or none was listed, an empty list stands for the output.          *)
PlaceOf(containers, id) == SelectInSeq(containers, LAMBDA c : c.id = id)

inspect(listed, containers) ==
    LET places == Each(Body(listed), LAMBDA parts : PlaceOf(containers, parts[1]))
    IN [json |-> TRUE,
        items |-> IF 0 \in ToSet(places) THEN <<>>
                  ELSE Each(places, LAMBDA i : containers[i])]

(* A container that has stopped since has no measures.                     *)
docker_stats(containers) ==
    <<<<Word("CONTAINER")>>>>
    \o Each(containers, LAMBDA c :
           <<c.id, c.name, IF c.running THEN Percent(5) ELSE Word("--"),
             Size(c.memory, "MIB"), Word("/"), Size(2, "GIB"),
             IF c.running THEN Percent(7) ELSE Word("--"), Size(3, "KB"), Word("/"),
             Size(4, "B"), Size(1, "MB"), Word("/"), Num(0), Num(2)>>)

Table(first, second) == <<<<Word("HEADER")>>, <<Num(1), first, second, Word("local")>>>>

-------------------------------------------------------------------------------
(* What the commands of a reading print of a subject, given what those     *)
(* before them did.                                                        *)
Printed(f, before) ==
    CASE reader = "disk_collector" -> <<df_bytes(f), diskstats(f)>>
      [] reader = "discovery_disks" -> <<df_human(f)>>
      [] reader = "telemetry_disks" -> <<WithoutType(df_human(f))>>
      [] reader = "system_collector" ->
            <<<<Pair("static hostname", f.hostname)>>, uname(f.hostname), os_release,
              lscpu(f.cores), uptime(f.minutes), <<Word("UTC")>>>>
      [] reader = "discovery_system" ->
            <<os_release, lscpu(f.cores), <<Pair("Time zone", Word("UTC"))>>, uptime(f.minutes)>>
      [] reader = "network_collector" ->
            <<net_dev(f.interfaces), ip_addr(f.addresses),
              <<<<Word("default"), Word("via"), Word("10.0.0.1"), Word("dev"), Word("eth0")>>>>,
              net_tcp(f.sockets), net_tcp(f.sockets)>>
      [] reader = "discovery_network" -> <<ip_addr(f.addresses)>>
      [] reader = "telemetry_network" -> <<net_dev(f.interfaces)>>
      [] reader = "service_collector" ->
            <<list_units(f), IF before = <<>> THEN <<>> ELSE systemctl_show(before[1], f)>>
      [] reader = "telemetry_services" -> <<list_units(Running(f))>>
      [] reader = "memory_collector" -> <<meminfo_lines(f)>>
      [] reader \in {"discovery_memory", "telemetry_memory"} -> <<free(f)>>
      [] reader = "cpu_collector" -> <<proc_stat(f), <<Num(1), Num(1), Num(1)>>>>
      [] reader = "telemetry_cpu" -> <<top(f)>>
      [] reader = "telemetry_processes" -> <<ps(f)>>
      [] reader = "docker_collector" ->
            <<docker_ps(f), IF before = <<>> THEN <<>> ELSE inspect(before[1], f),
              docker_stats(f), Table(Word("net"), Word("bridge")),
              Table(Word("vol"), Word(""))>>
      [] reader = "kubernetes_collector" ->
            [i \in 1 .. 7 |-> IF i = 6 THEN f[i] ELSE [json |-> TRUE, items |-> f[i]]]
      [] reader = "log_collector" ->
            <<f.journal, IF before = <<>> \/ before[1] # <<>> THEN <<>> ELSE f.syslog, f.messages>>

Script == Readings[reader]

(* The first n lines, and perhaps a part of the next one.                  *)
CutTo(lines, n, shape) ==
    {SubSeq(lines, 1, n)}
      \union {Append(SubSeq(lines, 1, n), part) : part \in PartOf(shape, lines[n + 1])}

(* What stands for the output of a command that failed.                    *)
Unread(i) ==
    IF reader = "kubernetes_collector" /\ i # 6 THEN [json |-> FALSE, items |-> <<>>]
    ELSE IF reader = "docker_collector" /\ i = 2 THEN [json |-> TRUE, items |-> <<>>]
    ELSE <<>>

Init ==
    /\ reader \in DOMAIN Readings
    /\ fact \in Facts[Readings[reader].on]
    /\ outputs = <<>> /\ seen = <<>> /\ whole = {}
    /\ changes = 0 /\ mishaps = 0

(* The next command comes back, with all that it printed ...               *)
Current == Len(outputs) + 1

Prints(output) ==
    /\ outputs' = Append(outputs, output)
    /\ seen' = Append(seen, fact)
    /\ UNCHANGED <<reader, fact, changes>>

Mishap ==
    /\ mishaps < MaxMishaps
    /\ mishaps' = mishaps + 1
    /\ UNCHANGED whole

Whole ==
    /\ Current <= Script.commands
    /\ Prints(Printed(fact, outputs)[Current])
    /\ whole' = whole \union {Current}
    /\ UNCHANGED mishaps

(* ... or, over SSH, without what had not arrived when its exit status did,*)
(* or without anything if it failed and the others are read all the same.  *)
CutOff ==
    /\ Current \in DOMAIN Script.cut
    /\ LET lines == Printed(fact, outputs)[Current]
       IN \E n \in 0 .. Len(lines) - 1 :
             \E output \in CutTo(lines, n, Script.cut[Current]) : Prints(output)
    /\ Mishap

Fails ==
    /\ Current \in Script.tolerated
    /\ Prints(Unread(Current))
    /\ Mishap

HostChanges ==
    /\ changes < MaxChanges /\ Current <= Script.commands
    /\ \E f \in Facts[Script.on] \ {fact} : fact' = f
    /\ changes' = changes + 1
    /\ UNCHANGED <<reader, outputs, seen, whole, mishaps>>

Finished == Current > Script.commands /\ UNCHANGED vars

Next == Whole \/ CutOff \/ Fails \/ HostChanges \/ Finished

Spec == Init /\ [][Next]_vars

-------------------------------------------------------------------------------
Done(readers) == reader \in readers /\ Current > Script.commands

Complete(i) == i \in whole

Metrics(parsed, part) == IF parsed.valid THEN parsed.metrics[part] ELSE <<>>

(* What was read of the items of the host, in the order they are printed:  *)
(* nothing else, and nothing less unless the end was cut off.              *)
ReadsBack(read, items) == IsPrefix(read, items) /\ (Complete(1) => read = items)

(* The items that may have arrived of those of the host: if the output was *)
(* cut off, the last of them may have lost its end.                        *)
Arrived(items, Rests(_)) ==
    IF Complete(1) THEN {items}
    ELSE {items} \union UNION {{Append(SubSeq(items, 1, i - 1), rest) : rest \in Rests(items[i])} :
                                  i \in DOMAIN items}

IsPseudo(d) ==
    \/ /\ reader # "disk_collector"
       /\ d.device.word \in {"udev", "tmpfs"} \/ d.mount.kind = "snap path"
    \/ /\ reader = "discovery_disks"
       /\ d.device.word = "devtmpfs" \/ d.mount.kind = "efi path"

(* What is left of a size that is shown in M, G or T.                      *)
Rounded(mb) ==
    mb - (mb % (IF mb < 1024 THEN 1 ELSE IF mb < 1048576 THEN 1024 ELSE 1048576))

(* What a parser finds of partitions, those left out that it takes for     *)
(* pseudo file systems.                                                    *)
DisksRead(partitions) ==
    LET disks == Where(partitions, LAMBDA d : ~IsPseudo(d))
    IN CASE reader = "disk_collector" ->
              ReadsBack(Each(Metrics(DiskParser(outputs[1], outputs[2]), "filesystems"), LAMBDA d :
                             <<d.filesystem, d.total_bytes, d.use_percent, d.mount_point>>),
                        Each(disks, LAMBDA d : <<d.device, d.total, d.percent, <<d.mount>>>>))
         [] reader = "discovery_disks" ->
              ReadsBack(Each(Discovery!FilesystemParser(outputs[1]), LAMBDA d :
                             <<d.device, d.total, d.percentage, d.mount_point>>),
                        Each(disks, LAMBDA d : <<d.device, Rounded(d.total), d.percent, d.mount>>))
         [] reader = "telemetry_disks" ->
              ReadsBack(Each(DiskTelemetryParser(outputs[1]), LAMBDA d :
                             <<d.device, d.size, d.usage_percent, d.mount_point>>),
                        Each(disks, LAMBDA d : <<d.device, Human(d.total), d.percent, d.mount>>))

MountCut(d) == {[d EXCEPT !.mount = m] : m \in Torn(d.mount)}

(* Every reader of the disks, whichever form of df it uses, finds the      *)
(* partitions of the host with the sizes, usage and place they have, except*)
(* those it takes for pseudo file systems, in their order, and the agent   *)
(* their traffic too.  Nothing is made of the header, nor of a line that   *)
(* ends before the mount point; of one that ends inside it all is read, and*)
(* so the mount point of the last partition may be a part of the host's.   *)
DisksReadBack ==
    Done({"disk_collector", "discovery_disks", "telemetry_disks"}) =>
        /\ \E partitions \in Arrived(seen[1], MountCut) : DisksRead(partitions)
        /\ reader = "disk_collector" =>
              Each(Metrics(DiskParser(outputs[1], outputs[2]), "disk_io"),
                   LAMBDA parts : <<parts[3], parts[10].num>>)
                  = Each(seen[2], LAMBDA d : <<d.device, d.used>>)

SystemRead ==
    /\ Done({"system_collector"}) =>
          LET system == SystemParser(outputs[1], outputs[2], outputs[3], outputs[4],
                                     outputs[5], FirstOf(outputs[6] \o <<Word("")>>))
          IN /\ system.valid
             /\ system.metrics.hostname =
                    IF outputs[1] = <<>> THEN seen[2].hostname ELSE seen[1].hostname
             /\ system.metrics.logical_cpu_count = seen[4].cores
             /\ system.metrics.system_uptime = seen[5].minutes
    /\ Done({"discovery_system"}) =>
          /\ Discovery!OSParser(outputs[1]) \in {os_release[1].value, Word("Unknown Linux")}
          /\ Complete(1) => Discovery!OSParser(outputs[1]) = os_release[1].value
          /\ Discovery!CPUParser(outputs[2]).cores
                \in {1, seen[2].cores} \union Leading(seen[2].cores)
          /\ Complete(2) => Discovery!CPUParser(outputs[2]).cores = seen[2].cores
          /\ Discovery!TimezoneParser(outputs[3])
                \in {Word("UTC"), Word("")} \union Torn(Word("UTC"))
          /\ Complete(3) => Discovery!TimezoneParser(outputs[3]) = Word("UTC")
          /\ Complete(4) =>
                Discovery!UptimeParser(outputs[4]) = FlattenSeq(Elapsed(seen[4].minutes))

AddressesOf(f, families) ==
    Each(Where(f.addresses, LAMBDA a : a.family \in families),
         LAMBDA a : <<a.interface, a.ip>>)

(* What a discovery makes of addresses: a group for each interface.        *)
GroupsRead(addresses) ==
    LET groups == Discovery!NetworkParser(outputs[1])
        all == AddressesOf([addresses |-> addresses], {"inet", "inet6"})
    IN /\ \A i, j \in DOMAIN groups : groups[i].name = groups[j].name => i = j
       /\ \A i \in DOMAIN groups :
             ReadsBack(groups[i].ip_addresses,
                       Each(Where(all, LAMBDA a : a[1] = groups[i].name), LAMBDA a : a[2]))
       /\ Complete(1) => {groups[i].name : i \in DOMAIN groups} = {a[1] : a \in ToSet(all)}

IpCut(a) == {[a EXCEPT !.ip = field.word] : field \in Torn(Prefix(a.ip, 24))}

NetworkRead ==
    /\ Done({"network_collector"}) =>
          LET network == NetworkParser(outputs[1], outputs[2], outputs[3], outputs[4],
                                       outputs[5])
          IN /\ Each(Metrics(network, "configurations"),
                     LAMBDA c : <<c.interface_name, c.ip_address>>)
                    = AddressesOf(seen[2], {"inet"})
             /\ Each(Metrics(network, "tcp_connections"), LAMBDA c : c.local) = seen[4].sockets
             /\ Metrics(network, "udp_connections") = seen[5].sockets
             /\ Metrics(network, "routes")[1].gateway = <<Word("10.0.0.1")>>
    /\ Done({"discovery_network"}) =>
          \E addresses \in Arrived(seen[1].addresses, IpCut) : GroupsRead(addresses)

LoadRead ==
    /\ Done({"memory_collector"}) =>
          Metrics(MemoryParser(outputs[1]), "MemFree") = 1000 - seen[1].memory
    /\ Done({"cpu_collector"}) =>
          CPUParser(outputs[1], outputs[2]).metrics.logical_cpu_count = 2
    /\ Done({"discovery_memory"}) =>
          LET memory == Discovery!MemoryParser(outputs[1]).metrics
              available == 1000 - seen[1].memory
          IN /\ memory[3] \in {0, seen[1].memory}
             /\ memory[7] \in {0, available} \union Leading(available)
             /\ Complete(1) => memory[2] = 1000 /\ memory[7] = available
    /\ Done({"telemetry_processes"}) =>
          ReadsBack(Each(ProcessTelemetryParser(outputs[1]), LAMBDA p : p.cpu_percent),
                    <<seen[1].cpu>>)

(* The agent reports the host name, cores, uptime, addresses and sockets   *)
(* that the host had when the command that tells them ran, whatever fails  *)
(* that may and however long the host is up.  A discovery reports them, or *)
(* the default of what was cut off, or, of the one number or address in the*)
(* middle of which the output ends, a part.                                *)
SystemReadBack == SystemRead /\ NetworkRead /\ LoadRead

ServicesRead ==
    Done({"service_collector"}) =>
        LET listed == Where(seen[1], LAMBDA u : u.active # "failed")
            pid(name) == PidOf(seen[2], name)
        IN Each(Metrics(ServiceParser(outputs[1], outputs[2]), "services"),
                LAMBDA s : <<s.name, s.active_state, s.main_pid>>)
           = Each(listed, LAMBDA u :
                <<u.name, Word(u.active),
                  IF outputs[2] = <<>> \/ pid(u.name) = 0 THEN <<>> ELSE <<pid(u.name)>>>>)

(* Of a command that failed nothing is read.                               *)
If(i, items) == IF Complete(i) THEN items ELSE <<>>

ContainersRead ==
    Done({"docker_collector"}) =>
        LET docker == DockerParser(outputs[2], outputs[3], outputs[4], outputs[5])
            listed == Where(seen[1], LAMBDA c : c.running)
            places == Each(listed, LAMBDA c : PlaceOf(seen[2], c.id))
            inspected == IF 0 \in ToSet(places) THEN <<>>
                         ELSE Each(places, LAMBDA i : seen[2][i])
            intact == Where(inspected, LAMBDA c : ~c.malformed)
            running == Where(seen[3], LAMBDA c : c.running)
        IN /\ Each(docker.containers, LAMBDA c : <<c.container_id, c.restart_count>>)
                  = If(2, Each(intact, LAMBDA c : <<c.id, c.restarts>>))
           /\ Each(docker.stats, LAMBDA c : <<c.container_id, c.sizes[4]>>)
                  = If(3, Each(running, LAMBDA c : <<c.id, <<c.memory, 1024, 2>>>>))
           /\ Each(docker.networks, LAMBDA n : n.name) = If(4, <<Word("net")>>)
           /\ Each(docker.volumes, LAMBDA v : v.name) = If(5, <<Word("vol")>>)

Restarts(statuses) == FoldLeft(LAMBDA sum, s : sum + Key(s, "restartCount", 0), 0, statuses)

ClusterRead ==
    Done({"kubernetes_collector"}) =>
        LET cluster == KubernetesParser(outputs[1], outputs[2], outputs[3], outputs[4],
                                        outputs[5], outputs[7], outputs[6])
            Names(items) == Each(items, LAMBDA item : item.name)
            Intact(items) == {i \in DOMAIN items : \A j \in 1 .. i : "malformed" \notin DOMAIN items[j]}
            pods == If(3, seen[3][3])
            services == If(5, seen[5][5])
        IN /\ DOMAIN cluster.pods = Intact(pods)
           /\ \A i \in DOMAIN cluster.pods :
                 /\ cluster.pods[i].pod_name = pods[i].name
                 /\ cluster.pods[i].restart_count = Restarts(pods[i].containerStatuses)
                        + Restarts(Key(pods[i], "initContainerStatuses", <<>>))
           /\ Names(cluster.namespaces) = Names(seen[1][1])
           /\ Names(cluster.nodes) = If(2, Names(seen[2][2]))
           /\ Each(cluster.deployments, LAMBDA d : d.deployment_name) = If(4, Names(seen[4][4]))
           /\ DOMAIN cluster.services = DOMAIN services
           /\ \A i \in DOMAIN cluster.services :
                 Len(cluster.services[i].external_ip)
                    = Len(Key(services[i], "externalIPs", <<>>))
                      + Len(Key(services[i], "ingress", <<>>))
           /\ Each(cluster.events, LAMBDA e : e.reason)
                  = Each(Where(If(7, seen[7][7]), LAMBDA e :
                            {"lastTimestamp", "eventTime", "firstTimestamp"} \cap DOMAIN e # {}),
                         LAMBDA e : e.reason)

(* The lines there were to read: syslog is asked only if the journal is    *)
(* empty or cannot be read.                                                *)
LogLines ==
    LET journal == If(1, seen[1].journal)
    IN journal \o If(2, IF journal = <<>> THEN seen[2].syslog ELSE <<>>) \o If(3, seen[3].messages)

LogsRead ==
    Done({"log_collector"}) =>
        LET entries == LogParser(outputs[1], outputs[2], outputs[3])
            long == Where(LogLines, LAMBDA line : Len(line) > 3)
        IN /\ Len(entries) = Len(long)
           /\ \A i \in DOMAIN entries :
                 /\ entries[i].hostname = "web1"
                 /\ Last(entries[i].message) = Last(long[i])

(* A service is missing only if its unit has a mark; it is reported in the *)
(* state it was listed in, with the process it had when systemctl showed   *)
(* it, which is after, and never that of another unit.  The containers that*)
(* ran when they were listed are reported as they are when they are        *)
(* inspected, all but a malformed one, or, if one of them is gone by then, *)
(* none; only the measures of one that stopped before they were taken are  *)
(* missing.  A malformed pod ends the list of pods, and no other list, and *)
(* so does a command that fails; an event is missing only if it has no     *)
(* time, a log line only if it is too short.  What is not missing is what  *)
(* the host has, restarts summed over init containers and the others.      *)
ItemsReadBack == ServicesRead /\ ContainersRead /\ ClusterRead /\ LogsRead

(* What the rules make of a sample, for a web server.                      *)
Alarm ==
    CASE reader = "telemetry_cpu" -> CPURule(CPUTelemetryParser(outputs[1]))
      [] reader = "telemetry_memory" -> MemoryRule(MemoryTelemetryParser(outputs[1]))
      [] reader = "telemetry_disks" ->
            DiskRule([partitions |-> Each(DiskTelemetryParser(outputs[1]),
                                          LAMBDA d : d.usage_percent)])
      [] reader = "telemetry_network" ->
            NetworkRule([interfaces |-> ToSet(NetworkTelemetryParser(outputs[1]))])
      [] reader = "telemetry_services" ->
            ServiceRule([services |-> {s.name : s \in ToSet(ServiceTelemetryParser(outputs[1]))}],
                        {"web"})

(* What the health rules say follows from what the host was: an overloaded *)
(* CPU or memory is noticed, unless top writes commas or the output was cut*)
(* off (then the host seems idle), and no overload is made up of a part of *)
(* the output.                                                             *)
LoadAlarmsMatchHost ==
    /\ Done({"telemetry_cpu"}) =>
          /\ Alarm # "NONE" => seen[1].cpu > 100 * CpuThreshold
          /\ Complete(1) /\ ~seen[1].comma =>
                Alarm = Graded(seen[1].cpu, 100 * CpuThreshold, 9000)
    /\ Done({"telemetry_memory"}) =>
          /\ Alarm # "NONE" => seen[1].memory > 10 * MemoryThreshold
          /\ Complete(1) => Alarm = Graded(seen[1].memory, 10 * MemoryThreshold, 950)

(* A full disk, no network or no nginx is noticed as well.  A disk is      *)
(* graded by its first partition over the threshold, even if a later one is*)
(* fuller.  Only a full snap whose mount point was cut off is taken for a  *)
(* full disk that the host does not have.                                  *)
AlarmsMatchHost ==
    /\ Done({"telemetry_disks"}) =>
          LET full == Where(seen[1], LAMBDA d : ~IsPseudo(d) /\ d.percent > DiskThreshold)
          IN /\ Alarm # "NONE" =>
                    \/ full # <<>>
                    \/ /\ ~Complete(1)
                       /\ \E d \in ToSet(seen[1]) : /\ d.mount.kind = "snap path"
                                                    /\ d.percent > DiskThreshold
             /\ Complete(1) => Alarm = IF full = <<>> THEN "NONE"
                                       ELSE Graded(full[1].percent, DiskThreshold, 95)
    /\ Done({"telemetry_network"}) /\ Complete(1) =>
          (Alarm = "CRITICAL" <=> \A i \in DOMAIN seen[1].interfaces :
                                     seen[1].interfaces[i].name = "lo")
    /\ Done({"telemetry_services"}) /\ Complete(1) =>
          (Alarm = "CRITICAL" <=> PidOf(Running(seen[1]), "nginx") = 0)
===============================================================================
