--------------------------- MODULE TelemetryParsers ---------------------------
(***************************************************************************)
(* What application/telemetry/parsers.py makes of the output of the        *)
(* telemetry collectors: the data of the samples that health rules read.   *)
(***************************************************************************)
EXTENDS CommandOutput

(* Mutant: the idle time is taken for the usage.                           *)
CPUTelemetryParserOfIdle(lines) ==
    LET fields == FlattenSeq(lines)
        ids == {i \in 2 .. Len(fields) : fields[i] = Word("id") /\ IsNumber(fields[i - 1])}
    IN [usage_percent |-> IF ids = {} THEN 0 ELSE fields[Min(ids) - 1].num]

(* In hundredths of a percent, from the number before "id", or the load    *)
(* averages.  A host of which neither can be read is taken to be idle.     *)
CPUTelemetryParser(lines) ==
    LET fields == FlattenSeq(lines)
        ids == {i \in 2 .. Len(fields) : fields[i] = Word("id") /\ IsNumber(fields[i - 1])}
        idle == fields[Min(ids) - 1].num
    IN IF ids # {} THEN [usage_percent |-> 10000 - idle, idle_percent |-> idle]
       ELSE IF Len(fields) >= 3 /\ AllNumbers(fields, 1 .. 3)
            THEN [load_1m |-> fields[1].num, load_5m |-> fields[2].num,
                  load_15m |-> fields[3].num]
       ELSE [usage_percent |-> 0, idle_percent |-> 10000]

(* free -m, and the usage in hundredths of a percent, as it is rounded.    *)
(* Without a whole line of memory nothing is in use.                       *)
MemoryTelemetryParser(free) ==
    LET mems == {i \in DOMAIN free : free[i][1] = Word("Mem:") /\ Len(free[i]) >= 7}
        parts == free[Min(mems)]
        total == parts[2].num
        used == parts[3].num
    IN IF mems = {} THEN [usage_percent |-> 0]
       ELSE [total_mb |-> total, used_mb |-> used, free_mb |-> parts[4].num,
             available_mb |-> parts[7].num,
             usage_percent |-> IF total > 0
                               THEN (20000 * used + total) \div (2 * total) ELSE 0]

(* df -h.  The first line is the header.                                   *)
DiskTelemetryParser(df) ==
    Each(Where(SubSeq(df, 2, Len(df)), LAMBDA parts :
         /\ Len(parts) >= 6
         /\ parts[1].word \notin {"udev", "tmpfs"} /\ parts[6].kind # "snap path"
         /\ parts[5].kind \in {"percent", "number"}),
         LAMBDA parts : [device |-> parts[1], size |-> parts[2], used |-> parts[3],
                         available |-> parts[4], usage_percent |-> parts[5].num,
                         mount_point |-> parts[6]])

(* /proc/net/dev: a name and what follows its colon.                       *)
NetworkTelemetryParser(dev) ==
    Each(Where(dev, LAMBDA line :
         Len(line.value) >= 9 /\ line.key # "lo" /\ AllNumbers(line.value, {1, 9})),
         LAMBDA line : [interface |-> line.key, rx_bytes |-> line.value[1].num,
                        tx_bytes |-> line.value[9].num])

(* ps -eo pid,ppid,%cpu,%mem,cmd, after its header.                        *)
ProcessTelemetryParser(ps) ==
    Each(Where(SubSeq(ps, 2, Len(ps)), LAMBDA parts :
         Len(parts) >= 5 /\ AllNumbers(parts, 1 .. 4)),
         LAMBDA parts : [pid |-> parts[1].num, ppid |-> parts[2].num,
                         cpu_percent |-> parts[3].num, mem_percent |-> parts[4].num,
                         command |-> SubSeq(parts, 5, Len(parts))])

(* systemctl list-units --state=running: every line is a running service.  *)
ServiceTelemetryParser(list_units) ==
    Each(list_units, LAMBDA parts : [name |-> parts[1].word, state |-> "running"])
===============================================================================
