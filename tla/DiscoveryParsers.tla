--------------------------- MODULE DiscoveryParsers ---------------------------
(***************************************************************************)
(* What application/discovery/parsers.py makes of the output of the        *)
(* commands of a discovery.  Unlike the parsers of the collector agent they*)
(* fall back to a default where nothing can be read.                       *)
(***************************************************************************)
EXTENDS CommandOutput

(* The first line that has one of some keys and a value in quotes.         *)
Quoted(lines, keys) ==
    Where(lines, LAMBDA pair : pair.key \in keys /\ pair.value.kind = "quoted")

(* The search for NAME= also finds the keys that end in it.                *)
OSParser(os_release) ==
    LET pretty == Quoted(os_release, {"PRETTY_NAME"})
        named == Quoted(os_release, {"NAME", "CPE_NAME"})
    IN IF pretty # <<>> THEN pretty[1].value
       ELSE IF named # <<>> THEN named[1].value ELSE Word("Unknown Linux")

(* The value of the last line that has one of some keys and passes a test. *)
LastOf(pairs, keys, Test(_), default) ==
    LET i == SelectLastInSeq(pairs, LAMBDA pair : pair.key \in keys /\ Test(pair.value))
    IN IF i = 0 THEN default ELSE pairs[i].value

LastNumber(pairs, keys) == LastOf(pairs, keys, IsNumber, Num(1)).num

(* Of the keys of lscpu the parser searches for a part only.               *)
CPUParser(lscpu) ==
    [model |-> LastOf(lscpu, {"model name", "bios model name"}, LAMBDA f : TRUE,
                      Word("Unknown CPU")),
     cores |-> LastNumber(lscpu, {"cpu(s)"}),
     sockets |-> LastNumber(lscpu, {"socket(s)"}),
     threads_per_core |-> LastNumber(lscpu, {"thread(s) per core"}),
     architecture |-> LastOf(lscpu, {"architecture"}, LAMBDA f : TRUE, Word("Unknown"))]

(* free -m: total, used, free, shared, cache, available.                   *)
MemoryParser(free) ==
    LET mem == Where(free, LAMBDA parts : parts[1] = Word("Mem:") /\ Len(parts) >= 7)
    IN IF mem = <<>> THEN Valid([i \in 2 .. 7 |-> 0])
       ELSE IF ~AllNumbers(mem[1], 2 .. 7) THEN Invalid
       ELSE Valid([i \in 2 .. 7 |-> mem[1][i].num])

(* Mutant: every size is one in GB.                                        *)
to_gb_always(s) == IF s.kind \notin {"size", "number"} THEN 0 ELSE 1024 * s.num

(* A size, here in MB.  One without M or T is one in GB, whatever its unit.*)
to_gb(s) ==
    IF s.kind \notin {"size", "number"} THEN 0
    ELSE IF s.word = "M" THEN s.num
    ELSE IF s.word = "T" THEN 1024 * 1024 * s.num ELSE 1024 * s.num

(* df -hT.  The first line is the header.                                  *)
FilesystemParser(df) ==
    Each(Where(SubSeq(df, 2, Len(df)), LAMBDA parts :
         /\ Len(parts) >= 7
         /\ parts[1].word \notin {"udev", "tmpfs", "devtmpfs"}
         /\ parts[7].kind \notin {"efi path", "snap path"}
         /\ parts[6].kind \in {"percent", "number"}),
         LAMBDA parts : [device |-> parts[1], fstype |-> parts[2], total |-> to_gb(parts[3]),
                         used |-> to_gb(parts[4]), free |-> to_gb(parts[5]),
                         percentage |-> parts[6].num, mount_point |-> parts[7]])

(* ip -o addr show: the addresses of each interface, in order.             *)
Address(parts) ==
    LET inet == After(parts, "inet") IN IF inet # <<>> THEN inet ELSE After(parts, "inet6")

NetworkParser(addr) ==
    LET lines == Where(addr, LAMBDA parts : Len(parts) >= 4 /\ Address(parts) # <<>>)
        names == Each(lines, LAMBDA parts : parts[2])
        first == Where([i \in DOMAIN lines |-> i],
                       LAMBDA i : \A j \in 1 .. i - 1 : names[j] # names[i])
    IN Each(first, LAMBDA i :
           [name |-> names[i],
            ip_addresses |-> Each(Where(lines, LAMBDA parts : parts[2] = names[i]),
                                  LAMBDA parts : Address(parts)[1].word)])

TimezoneParser(timedatectl) ==
    LET zones == Where(timedatectl, LAMBDA pair : pair.key \in {"Time zone", "Timezone"})
    IN IF zones = <<>> THEN Word("UTC") ELSE zones[1].value

(* The part of the line, cut at its commas, from "up" to the number of     *)
(* users, or else to the load, or else all of it.                          *)
UptimeParser(segments) ==
    LET up(from) == SelectInSeq(from, LAMBDA field : field = Word("up"))
        users == SelectInSeq(segments, LAMBDA s :
                     Len(s) > 1 /\ IsNumber(s[1]) /\ s[2] \in {Word("user"), Word("users")})
        load == SelectInSeq(segments, LAMBDA s : s[1] = Word("load"))
        stop == IF users > 1 THEN users ELSE load
        fields == FlattenSeq(SubSeq(segments, 1, stop - 1))
    IN IF stop <= 1 \/ up(fields) = 0 THEN FlattenSeq(segments)
       ELSE SubSeq(fields, up(fields) + 1, Len(fields))
===============================================================================
