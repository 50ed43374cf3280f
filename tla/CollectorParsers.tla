--------------------------- MODULE CollectorParsers ---------------------------
(***************************************************************************)
(* What the parsers of the collector agent make of the output of its       *)
(* commands: CPUParser, MemoryParser, DiskParser, NetworkParser,           *)
(* ServiceParser and SystemParser of application/parsers.  They skip a line*)
(* they do not understand, and raise only if little or nothing was left.   *)
(***************************************************************************)
EXTENDS CommandOutput

(* /proc/stat and /proc/loadavg.  Ticks that are no number count as 0.     *)
CPUParser(stat, loadavg) ==
    LET aggregates == Where(stat, LAMBDA line : line[1] = Word("cpu"))
        cores == Where(stat, LAMBDA line : line[1].kind = "core")
        ticks == Last(aggregates)
        safe_int(i) == IF i \in DOMAIN ticks /\ IsNumber(ticks[i]) THEN ticks[i].num ELSE 0
    IN IF \/ aggregates = <<>> \/ Len(ticks) < 9
          \/ Len(loadavg) < 3 \/ ~AllNumbers(loadavg, 1 .. 3)
       THEN Invalid
       ELSE Valid([ticks |-> [i \in 2 .. 10 \ {3} |-> safe_int(i)],
                   load |-> [i \in 1 .. 3 |-> loadavg[i].num],
                   logical_cpu_count |-> IF cores = <<>> THEN 1 ELSE Len(cores)])

-------------------------------------------------------------------------------
meminfo == {"MemTotal", "MemFree", "MemAvailable", "Buffers", "Cached", "SwapTotal",
            "SwapFree", "Dirty"}

(* /proc/meminfo, of which any one number will do; a missing field is 0.   *)
MemoryParser(lines) ==
    LET pairs == Where(lines, LAMBDA line : line.value # <<>> /\ IsNumber(line.value[1]))
    IN IF pairs = <<>> THEN Invalid
       ELSE Valid([key \in meminfo |-> Get(pairs, key, <<Num(0)>>)[1].num])

-------------------------------------------------------------------------------
(* df -B1 --output=source,fstype,size,used,avail,pcent,target              *)
Filesystem(parts) ==
    [filesystem |-> parts[1], fstype |-> parts[2], total_bytes |-> parts[3].num,
     used_bytes |-> parts[4].num, available_bytes |-> parts[5].num,
     use_percent |-> IF parts[6].kind \in {"percent", "number"} THEN parts[6].num ELSE 0,
     mount_point |-> SubSeq(parts, 7, Len(parts))]

Filesystems(df) ==
    Each(Where(df, LAMBDA parts : Len(parts) >= 7 /\ AllNumbers(parts, 3 .. 5)),
         Filesystem)

(* /proc/diskstats                                                         *)
DiskIO(diskstats) ==
    Where(diskstats,
          LAMBDA parts : Len(parts) >= 14 /\ AllNumbers(parts, 1 .. 14 \ {3}))

DiskParser(df, diskstats) ==
    IF Filesystems(df) = <<>> /\ DiskIO(diskstats) = <<>> THEN Invalid
    ELSE Valid([filesystems |-> Filesystems(df), disk_io |-> DiskIO(diskstats)])

-------------------------------------------------------------------------------
(* A hexadecimal number of the kernel is a sequence of digits, some of     *)
(* which may be none.                                                      *)
IsHex(digits) == digits # <<>> /\ \A i \in DOMAIN digits : digits[i] \in 0 .. 15

(* Mutant: the bytes are taken in the order they are printed.              *)
parse_hex_ipv4_forward(hex) ==
    IF Len(hex) # 8 \/ ~IsHex(hex) THEN <<>>
    ELSE [i \in 1 .. 4 |-> 16 * hex[2 * i - 1] + hex[2 * i]]

(* The four bytes of an address, the last one first; <<>> is "unknown".    *)
parse_hex_ipv4(hex) ==
    IF Len(hex) # 8 \/ ~IsHex(hex) THEN <<>>
    ELSE [i \in 1 .. 4 |-> 16 * hex[9 - 2 * i] + hex[10 - 2 * i]]

parse_hex_port(hex) ==
    IF IsHex(hex) THEN FoldLeft(LAMBDA port, digit : 16 * port + digit, 0, hex) ELSE 0

(* /proc/net/dev: a name and what follows its colon.                       *)
Interface(line) ==
    [interface_name |-> line.key, counters |-> [i \in 1 .. 16 |-> line.value[i].num]]

Interfaces(dev) ==
    Each(Where(dev, LAMBDA line : Len(line.value) >= 16 /\ AllNumbers(line.value, 1 .. 16)),
         Interface)

(* ip -o addr show.  Without a slash the prefix is 32.                     *)
Configuration(parts) ==
    LET inet == After(parts, "inet")[1]
        scope == After(parts, "scope") IN
    [interface_name |-> parts[2], ip_address |-> inet.word,
     prefix_length |-> IF inet.kind = "prefix" THEN inet.num ELSE 32,
     broadcast_address |-> After(parts, "brd"),
     scope |-> IF scope = <<>> THEN <<Word("unknown")>> ELSE scope]

Configurations(addr) ==
    Each(Where(addr, LAMBDA parts :
         /\ Len(parts) >= 4 /\ After(parts, "inet") # <<>>
         /\ After(parts, "inet")[1].kind # "bad prefix"),
         Configuration)

(* ip route show                                                           *)
Route(parts) ==
    LET dev == After(parts, "dev") IN
    [destination |-> parts[1], gateway |-> After(parts, "via"),
     interface |-> IF dev = <<>> THEN <<Word("unknown")>> ELSE dev,
     protocol |-> After(parts, "proto"),
     metric |-> Where(After(parts, "metric"), IsNumber)]

Routes(route) == Each(Where(route, LAMBDA parts : Len(parts) >= 2), Route)

(* /proc/net/tcp and udp: lines of the ends of a socket, after a header.   *)
End(socket) == [address |-> parse_hex_ipv4(socket.ip), port |-> parse_hex_port(socket.port)]

TCPConnection(line) ==
    [local |-> End(line.ends[1]), remote |-> End(line.ends[2]), state |-> line.state]

TCPConnections(tcp) == Each(Where(tcp, LAMBDA line : Len(line.ends) = 2), TCPConnection)

UDPConnections(udp) ==
    Each(Where(udp, LAMBDA line : line.ends # <<>>), LAMBDA line : End(line.ends[1]))

NetworkParser(dev, addr, route, tcp, udp) ==
    LET metrics == [interfaces |-> Interfaces(dev), configurations |-> Configurations(addr),
                    routes |-> Routes(route), tcp_connections |-> TCPConnections(tcp),
                    udp_connections |-> UDPConnections(udp)]
    IN IF \A part \in DOMAIN metrics : metrics[part] = <<>> THEN Invalid ELSE Valid(metrics)

-------------------------------------------------------------------------------
(* systemctl list-units: name, load, active and sub state.                 *)
Listed(list_units) ==
    Where(list_units, LAMBDA parts : Len(parts) >= 4 /\ parts[1].kind = "unit")

(* Mutant: the properties of a unit are not forgotten at the next one.     *)
PropertiesUpTo(show, name) ==
    LET ids == {i \in DOMAIN show : show[i] = Pair("Id", Unit(name))}
    IN IF ids = {} THEN <<>>
       ELSE Where(SubSeq(show, 1, Max(ids)), LAMBDA pair : pair.key # "Id")

(* systemctl show: what stands between the last Id of a unit and the next  *)
(* Id is taken for properties of that unit.                                *)
PropertiesOf(show, name) ==
    LET ids == {i \in DOMAIN show : show[i].key = "Id"}
        own == {i \in ids : show[i].value = Unit(name)}
        from == Max(own)
        rest == SubSeq(show, from + 1, Len(show))
        next == SelectInSeq(rest, LAMBDA pair : pair.key = "Id")
    IN IF own = {} THEN <<>>
       ELSE IF next = 0 THEN rest ELSE SubSeq(rest, 1, next - 1)

ServiceUnit(parts, show) ==
    LET properties == PropertiesOf(show, parts[1].word)
        unit_file_state == Get(properties, "UnitFileState", Word(""))
        main_pid == Get(properties, "MainPID", Word(""))
    IN [name |-> parts[1].word, load_state |-> parts[2], active_state |-> parts[3],
        sub_state |-> parts[4], description |-> SubSeq(parts, 5, Len(parts)),
        unit_file_state |-> unit_file_state,
        is_enabled |-> unit_file_state = Word("enabled"),
        main_pid |-> IF IsNumber(main_pid) /\ main_pid.num > 0 THEN <<main_pid.num>> ELSE <<>>,
        service_type |-> Get(properties, "Type", Word("")),
        restart_policy |-> Get(properties, "Restart", Word("")),
        fragment_path |-> Get(properties, "FragmentPath", Word(""))]

(* A unit listed twice keeps its first place and its last line.            *)
ServiceParser(list_units, show) ==
    LET lines == Listed(list_units)
        names == [i \in DOMAIN lines |-> lines[i][1].word]
        first == Where([i \in DOMAIN lines |-> i],
                       LAMBDA i : \A j \in 1 .. i - 1 : names[j] # names[i])
    IN IF lines = <<>> THEN Invalid
       ELSE Valid([services |-> Each(first, LAMBDA i :
                      ServiceUnit(lines[SelectLastInSeq(names, LAMBDA n : n = names[i])], show))])

-------------------------------------------------------------------------------
(* The output of uptime is cut at its commas, and what follows the part    *)
(* that counts the users, or gives the load, is dropped.                   *)
BeforeUsers(segments) ==
    LET stop == SelectInSeq(segments, LAMBDA segment :
                    {Word("user"), Word("users"), Word("load")} \cap ToSet(segment) # {})
    IN IF stop = 0 THEN segments ELSE SubSeq(segments, 1, stop - 1)

IsDay(field) == field \in {Word("day"), Word("days")}
IsMinutes(field) == field \in {Word("min"), Word("mins")}

(* The number before the first field of a kind; 0 if there is none.        *)
NumberBefore(fields, Test(_)) ==
    LET i == SelectInSeq(fields, Test) IN
    IF i > 1 /\ IsNumber(fields[i - 1]) THEN fields[i - 1].num ELSE 0

(* In minutes.  After "up": days, then hours:minutes or minutes; a last    *)
(* number that stands alone is taken for minutes.                          *)
parse_uptime(segments) ==
    LET fields == FlattenSeq(BeforeUsers(segments))
        up == SelectInSeq(fields, LAMBDA field : field = Word("up"))
        time == SubSeq(fields, up + 1, Len(fields))
        clocks == Where(time, LAMBDA field : field.kind = "clock")
        alone == time # <<>> /\ clocks = <<>> /\ IsNumber(Last(time))
    IN IF up = 0 THEN 0
       ELSE 1440 * NumberBefore(time, IsDay)
            + IF time # <<>> /\ Last(time).kind = "clock" THEN Last(time).num
              ELSE IF alone THEN Last(time).num ELSE NumberBefore(time, IsMinutes)

(* An integer of lscpu: one default if the key is missing, another if its  *)
(* value is no number.                                                     *)
Count(pairs, key, missing, bad) ==
    LET field == Get(pairs, key, Num(missing)) IN IF IsNumber(field) THEN field.num ELSE bad

(* hostnamectl, uname -a, /etc/os-release, lscpu, uptime, /etc/timezone    *)
SystemParser(hostnamectl, uname, os_release, lscpu, uptime, timezone) ==
    LET h(key) == Get(hostnamectl, key, Word(""))
        os(key) == Get(os_release, key, Word(""))
        cpu(key) == Get(lscpu, key, Word(""))
        or_unknown(field) == FirstOf(<<field, Word("unknown")>>)
        static == h("static hostname")
        transient == h("transient hostname")
        named == FirstOf(<<static, transient, Word("unknown")>>)
        hostname == IF named = Word("unknown") /\ Len(uname) > 1 THEN uname[2] ELSE named
        dist_name == FirstOf(<<os("NAME"), os("ID"), Word("Linux")>>)
        logical == Count(lscpu, "cpu(s)", 0, 0)
        uptime_minutes == parse_uptime(uptime)
    IN IF hostname = Word("unknown") /\ dist_name = Word("Linux") /\ logical = 0
          /\ uptime_minutes = 0
       THEN Invalid
       ELSE Valid([
          hostname |-> hostname, machine_id |-> h("machine id"), boot_id |-> h("boot id"),
          distribution_name |-> dist_name,
          distribution_version |->
              FirstOf(<<os("VERSION_ID"), os("VERSION"), Word("unknown")>>),
          pretty_name |-> FirstOf(<<os("PRETTY_NAME"), dist_name>>),
          kernel_release |-> IF Len(uname) >= 3 THEN uname[3] ELSE Word("unknown"),
          kernel_version |-> IF Len(uname) >= 4 THEN SubSeq(uname, 4, Len(uname))
                             ELSE <<or_unknown(h("kernel"))>>,
          architecture |->
              IF or_unknown(h("architecture")) = Word("unknown") /\ Len(uname) >= 12
              THEN uname[Len(uname) - 1] ELSE or_unknown(h("architecture")),
          cpu_model |-> or_unknown(cpu("model name")), vendor |-> or_unknown(cpu("vendor id")),
          logical_cpu_count |-> logical,
          physical_cpu_count |-> Where(<<cpu("socket(s)")>>, IsNumber),
          threads_per_core |-> Count(lscpu, "thread(s) per core", 1, 1),
          cores_per_socket |-> Count(lscpu, "core(s) per socket", logical, logical),
          cpu_mhz |-> Where(<<cpu("cpu mhz")>>, IsNumber),
          virtualization_type |->
              FirstOf(<<h("virtualization"), Get(lscpu, "virtualization", Word("none"))>>),
          hypervisor_vendor |-> cpu("hypervisor vendor"),
          system_uptime |-> uptime_minutes, has_boot_time |-> uptime_minutes > 0,
          timezone |-> FirstOf(<<timezone, Word("UTC")>>),
          operating_mode |-> IF Word("") \notin {static, transient} /\ static # transient
                             THEN "transient" ELSE "static"])
===============================================================================
