--------------------------- MODULE HostSystemProofs ---------------------------
(***************************************************************************)
(* The host itself, its load and its network are read as they were, for    *)
(* every host.                                                             *)
(***************************************************************************)
EXTENDS HostReadingsProofs

(* The load: what is read of it at one time.                               *)

(* The greatest and the least of some numbers.                             *)
LEMMA MaxIs ==
    ASSUME NEW d, d \subseteq Int, NEW i \in d, \A j \in d : j <= i
    PROVE  Max(d) = i
<1>1. \A x \in d : (\A j \in d : j <= x) => x = i
  OBVIOUS
<1>2. \E x \in d : \A j \in d : j <= x
  OBVIOUS
<1>. QED
  BY <1>1, <1>2 DEF Max

LEMMA MinIs ==
    ASSUME NEW d, d \subseteq Int, NEW i \in d, \A j \in d : i <= j
    PROVE  Min(d) = i
<1>1. \A x \in d : (\A j \in d : x <= j) => x = i
  OBVIOUS
<1>2. \E x \in d : \A j \in d : x <= j
  OBVIOUS
<1>. QED
  BY <1>1, <1>2 DEF Min

(* The value of a key that no later pair has.                              *)
LEMMA GetAt ==
    ASSUME NEW n \in Nat, NEW pairs, Len(pairs) = n, NEW i \in 1 .. n, NEW key,
           pairs[i].key = key, \A j \in 1 .. n : pairs[j].key = key => j <= i, NEW default
    PROVE  Get(pairs, key, default) = pairs[i].value
<1>1. PICK places : places = {j \in 1 .. Len(pairs) : pairs[j].key = key}
  OBVIOUS
<1>2. places \subseteq Int /\ i \in places /\ \A j \in places : j <= i
  BY <1>1
<1>3. Max(places) = i
  BY <1>2, MaxIs
<1>4. SelectLastInSeq(pairs, LAMBDA pair : pair.key = key) = i
  BY <1>1, <1>2, <1>3 DEF SelectLastInSeq
<1>. QED
  BY <1>4 DEF Get

(* The value of a key that no pair has.                                    *)
LEMMA GetMissing ==
    ASSUME NEW n \in Nat, NEW pairs, Len(pairs) = n, NEW key,
           \A j \in 1 .. n : pairs[j].key # key, NEW default
    PROVE  Get(pairs, key, default) = default
<1>1. {j \in 1 .. Len(pairs) : pairs[j].key = key} = {}
  OBVIOUS
<1>2. SelectLastInSeq(pairs, LAMBDA pair : pair.key = key) = 0
  BY <1>1 DEF SelectLastInSeq
<1>. QED
  BY <1>2 DEF Get

(* The free memory is read of /proc/meminfo.                               *)
LEMMA MeminfoRead ==
    ASSUME NEW f
    PROVE  Metrics(MemoryParser(meminfo_lines(f)), "MemFree") = 1000 - f.memory
<1>1. PICK x, y : x = Pair("MemTotal", <<Num(1000)>>) /\ y = Pair("MemFree", <<Num(1000 - f.memory)>>)
  OBVIOUS
<1>2. /\ x.key = "MemTotal" /\ x.value = <<Num(1000)>>
      /\ y.key = "MemFree" /\ y.value = <<Num(1000 - f.memory)>>
  BY <1>1 DEF Pair
<1>3. PICK lines : lines = <<x, y>>
  OBVIOUS
<1>4. /\ DOMAIN lines = 1 .. 2 /\ Len(lines) = 2 /\ lines[1] = x /\ lines[2] = y
      /\ lines = [i \in 1 .. 2 |-> lines[i]]
  BY <1>3
<1>5. \A i \in 1 .. 2 : lines[i].value # <<>> /\ IsNumber(lines[i].value[1])
  <2>1. x.value # <<>> /\ IsNumber(x.value[1])
    BY <1>2, Numbers
  <2>2. y.value # <<>> /\ IsNumber(y.value[1])
    BY <1>2, Numbers
  <2>. QED
    BY <1>4, <2>1, <2>2
<1>6. Where(lines, LAMBDA line : line.value # <<>> /\ IsNumber(line.value[1])) = lines
  <2>1. {i \in DOMAIN lines : lines[i].value # <<>> /\ IsNumber(lines[i].value[1])} = 1 .. 2
    BY <1>4, <1>5
  <2>2. At(lines, 1 .. 2) = lines
    BY <1>4, AllAt
  <2>. QED
    BY <2>1, <2>2 DEF Where
<1>7. Get(lines, "MemFree", <<Num(0)>>) = y.value
  <2>1. PICK n, key, default : n = 2 /\ key = "MemFree" /\ default = <<Num(0)>>
    OBVIOUS
  <2>2. /\ n \in Nat /\ Len(lines) = n /\ n \in 1 .. n /\ lines[n].key = key
        /\ \A j \in 1 .. n : lines[j].key = key => j <= n
    BY <1>2, <1>4, <2>1
  <2>3. Get(lines, key, default) = lines[n].value
    BY <2>2, GetAt
  <2>. QED
    BY <1>4, <2>1, <2>3
<1>8. lines # <<>>
  BY <1>4
<1>9. MemoryParser(lines) = Valid([key \in meminfo |-> Get(lines, key, <<Num(0)>>)[1].num])
  BY <1>6, <1>8 DEF MemoryParser
<1>10. Metrics(MemoryParser(lines), "MemFree") = Get(lines, "MemFree", <<Num(0)>>)[1].num
  BY <1>9 DEF Metrics, Valid, meminfo
<1>11. y.value[1].num = 1000 - f.memory
  BY <1>2, Numbers
<1>12. lines = meminfo_lines(f)
  BY <1>1, <1>3 DEF meminfo_lines
<1>. QED
  BY <1>7, <1>10, <1>11, <1>12

(* The cores are counted in /proc/stat.                                    *)
LEMMA StatRead ==
    ASSUME NEW f
    PROVE  CPUParser(proc_stat(f), <<Num(1), Num(1), Num(1)>>).metrics.logical_cpu_count = 2
<1>1. PICK nine : nine = [n \in 1 .. 9 |-> Num(f.cpu)]
  OBVIOUS
<1>2. PICK x, y, z : x = <<Word("cpu")>> \o nine /\ y = <<Core(0)>> /\ z = <<Core(1)>>
  OBVIOUS
<1>3. PICK load : load = <<Num(1), Num(1), Num(1)>>
  OBVIOUS
<1>4. Len(x) = 10 /\ x[1] = Word("cpu")
  <2>1. nine \in Seq(ToSet(nine)) /\ Len(nine) = 9
    <3>1. DOMAIN nine = 1 .. 9 /\ nine = [i \in 1 .. 9 |-> nine[i]]
      BY <1>1
    <3>. QED
      BY <3>1, Numbered
  <2>2. PICK h : h = Word("cpu")
    OBVIOUS
  <2>3. x = <<h>> \o nine
    BY <1>2, <2>2
  <2>4. nine \in Seq(ToSet(nine))
    BY <2>1
  <2>5. Len(x) = Len(nine) + 1
    BY <2>3, <2>4, Headed
  <2>6. x[1] = h
    BY <2>3, <2>4, Headed
  <2>. QED
    BY <2>1, <2>2, <2>5, <2>6
<1>5. PICK lines : lines = <<x, y, z>>
  OBVIOUS
<1>6. /\ DOMAIN lines = 1 .. 3 /\ Len(lines) = 3
      /\ lines[1] = x /\ lines[2] = y /\ lines[3] = z
  BY <1>5
<1>7. y[1].kind = "core" /\ z[1].kind = "core" /\ x[1].kind # "core"
  BY <1>2, <1>4 DEF Core, Word, Field
<1>8. y[1] # Word("cpu") /\ z[1] # Word("cpu")
  BY <1>4, <1>7
<1>9. PICK a : a = {i \in DOMAIN lines : lines[i][1] = Word("cpu")}
  OBVIOUS
<1>10. PICK c : c = {i \in DOMAIN lines : lines[i][1].kind = "core"}
  OBVIOUS
<1>11. Len(At(lines, a)) = 1 /\ At(lines, a)[1] = x
  <2>1. a = {1}
    BY <1>4, <1>6, <1>8, <1>9
  <2>2. Cardinality(a) = 1
    BY <2>1, FS_Singleton
  <2>3. \A p \in a : p \in 1 .. 3
    BY <2>1
  <2>4. /\ Len(At(lines, a)) = Cardinality(a)
        /\ \A k \in 1 .. Cardinality(a) : Nth(a, k) \in a /\ At(lines, a)[k] = lines[Nth(a, k)]
    BY <2>3, AtLines
  <2>. QED
    BY <1>6, <2>1, <2>2, <2>4
<1>12. Len(At(lines, c)) = 2
  <2>1. c = {2, 3}
    BY <1>6, <1>7, <1>10
  <2>2. Cardinality(c) = 2
    <3>1. IsFiniteSet({2}) /\ Cardinality({2}) = 1
      BY FS_Singleton
    <3>2. 3 \notin {2} /\ c = {2} \union {3}
      BY <2>1
    <3>. QED
      BY <3>1, <3>2, FS_AddElement
  <2>3. \A p \in c : p \in 1 .. 3
    BY <2>1
  <2>. QED
    BY <2>2, <2>3, AtLines
<1>13. Len(load) = 3 /\ AllNumbers(load, 1 .. 3)
  <2>1. Len(load) = 3 /\ \A i \in 1 .. 3 : load[i] = Num(1)
    BY <1>3
  <2>. QED
    BY <2>1, Numbers DEF AllNumbers
<1>14. CPUParser(lines, load).metrics.logical_cpu_count = 2
  <2>1. PICK aggregates, cores, ticks : /\ aggregates = At(lines, a) /\ cores = At(lines, c)
                                       /\ ticks = Last(aggregates)
    OBVIOUS
  <2>2. /\ Len(aggregates) = 1 /\ aggregates # <<>> /\ ticks = x
        /\ Len(cores) = 2 /\ cores # <<>>
    BY <1>11, <1>12, <2>1 DEF Last
  <2>3. ~(Len(ticks) < 9) /\ ~(Len(load) < 3)
    BY <1>4, <1>13, <2>2
  <2>4. \E t, l : CPUParser(lines, load) = Valid([ticks |-> t, load |-> l,
                       logical_cpu_count |-> IF cores = <<>> THEN 1 ELSE Len(cores)])
    BY <1>9, <1>10, <1>13, <2>1, <2>2, <2>3 DEF CPUParser, Where
  <2>5. PICK t, l : CPUParser(lines, load) = Valid([ticks |-> t, load |-> l,
                       logical_cpu_count |-> IF cores = <<>> THEN 1 ELSE Len(cores)])
    BY <2>4
  <2>6. CPUParser(lines, load) = Valid([ticks |-> t, load |-> l, logical_cpu_count |-> 2])
    BY <2>2, <2>5
  <2>. QED
    BY <2>6 DEF Valid
<1>15. lines = proc_stat(f)
  BY <1>1, <1>2, <1>5 DEF proc_stat
<1>. QED
  BY <1>3, <1>14, <1>15

(* The numbers in the line of the memory.                                  *)
LEMMA FreeRow ==
    ASSUME NEW f, NEW row, row = free(f)[2]
    PROVE  /\ IsNumber(row[2]) /\ IsNumber(row[3]) /\ IsNumber(row[4])
           /\ IsNumber(row[5]) /\ IsNumber(row[6])
           /\ row[2].num = 1000 /\ row[3].num = f.memory /\ row[7] = Num(1000 - f.memory)
<1>1. PICK t, m, r, z : t = Num(1000) /\ m = Num(f.memory) /\ r = Num(1000 - f.memory) /\ z = Num(0)
  OBVIOUS
<1>2. /\ IsNumber(t) /\ IsNumber(m) /\ IsNumber(r) /\ IsNumber(z)
      /\ t.num = 1000 /\ m.num = f.memory
  BY <1>1, Numbers
<1>3. row = <<Word("Mem:"), t, m, r, z, z, r>>
  BY <1>1 DEF free
<1>4. row[2] = t /\ row[3] = m /\ row[4] = r /\ row[5] = z /\ row[6] = z /\ row[7] = r
  BY <1>3
<1>. QED
  BY <1>1, <1>2, <1>4

(* What is read of it: all its numbers, the last of which may be the first *)
(* digits only.                                                            *)
LEMMA MemoryRowRead ==
    ASSUME NEW f, NEW part, PartOfRow(part, free(f)[2])
    PROVE  /\ AllNumbers(part, 2 .. 7)
           /\ part[2].num = 1000 /\ part[3].num = f.memory
           /\ part[7].num \in {1000 - f.memory} \union Leading(1000 - f.memory)
<1>1. PICK row : row = free(f)[2]
  OBVIOUS
<1>2. /\ IsNumber(row[2]) /\ IsNumber(row[3]) /\ IsNumber(row[4])
      /\ IsNumber(row[5]) /\ IsNumber(row[6])
      /\ row[2].num = 1000 /\ row[3].num = f.memory /\ row[7] = Num(1000 - f.memory)
  BY <1>1, FreeRow
<1>3. /\ part[2] = row[2] /\ part[3] = row[3] /\ part[4] = row[4]
      /\ part[5] = row[5] /\ part[6] = row[6]
      /\ part[7] = row[7] \/ part[7] \in Torn(row[7])
  BY <1>1, Zenon DEF PartOfRow
<1>4. \E m \in {1000 - f.memory} \union Leading(1000 - f.memory) : part[7] = Num(m)
  <2>1. PICK n : n = 1000 - f.memory
    OBVIOUS
  <2>2. row[7] = Num(n)
    BY <1>2, <2>1
  <2>3. part[7] = Num(n) \/ part[7] \in Torn(Num(n))
    BY <1>3, <2>2, Zenon
  <2>4. part[7] \in Torn(Num(n)) => \E m \in Leading(n) : part[7] = Num(m)
    BY TornNumber, Zenon
  <2>5. PICK left : left = {n} \union Leading(n)
    OBVIOUS
  <2>6. \E m \in left : part[7] = Num(m)
    BY <2>3, <2>4, <2>5, Zenon
  <2>. QED
    BY <2>1, <2>5, <2>6
<1>5. IsNumber(part[7]) /\ part[7].num \in {1000 - f.memory} \union Leading(1000 - f.memory)
  BY <1>4, Numbers
<1>6. \A i \in 2 .. 7 : i = 2 \/ i = 3 \/ i = 4 \/ i = 5 \/ i = 6 \/ i = 7
  OBVIOUS
<1>7. AllNumbers(part, 2 .. 7)
  BY <1>2, <1>3, <1>5, <1>6 DEF AllNumbers
<1>. QED
  BY <1>2, <1>3, <1>5, <1>7

(* The line of the memory is there if all has arrived.                     *)
LEMMA MemoryLinesKept ==
    ASSUME NEW f, NEW n \in 0 .. 3, NEW shown, Kept(shown, free(f), n)
    PROVE  /\ \A i \in MemoryLines(shown) : i = 2 /\ PartOfRow(shown[2], free(f)[2])
           /\ n = 3 => MemoryLines(shown) = {2} /\ shown[2] = free(f)[2]
<1>1. AreMemoryLines(free(f), f)
  BY FreePrints
<1>2. CASE n = 3
  <2>1. Len(free(f)) = 3
    BY <1>1, Zenon DEF AreMemoryLines
  <2>2. /\ DOMAIN shown = 1 .. Len(shown) /\ (Len(shown) = 3 \/ Len(shown) = 3 + 1)
        /\ \A i \in 1 .. 3 : shown[i] = free(f)[i]
        /\ Len(shown) = 3 + 1 => 3 < 3
    BY <1>2, <2>1, Zenon DEF Kept, Left
  <2>3. DOMAIN shown = 1 .. 3
    BY <2>2
  <2>4. DOMAIN free(f) = 1 .. 3
    BY <1>1 DEF AreMemoryLines
  <2>5. MemoryLines(shown) = MemoryLines(free(f))
    BY <2>2, <2>3, <2>4 DEF MemoryLines
  <2>6. MemoryLines(free(f)) = {2} /\ 2 \in 1 .. 3
    BY MemoryLineOf
  <2>. QED
    BY <2>2, <2>5, <2>6, Zenon DEF PartOfRow
<1>3. CASE n # 3
  <2>1. n \in 0 .. 2
    BY <1>3
  <2>. QED
    BY <1>3, <2>1, MemoryPart, Zenon
<1>. QED
  BY <1>2, <1>3

(* The readings of the load run one command each, or two.                  *)
LEMMA LoadScript ==
    ASSUME reader \in {"discovery_memory", "telemetry_processes"}
    PROVE  Script.on = "load" /\ Script.commands = 1 /\ Script.cut[1] = "fields"
  BY DEF Script, Readings, Remote, Reading

(* A discovery reads the memory, if its line arrived, but for the last     *)
(* digits of the last number of it.                                        *)
LEMMA DiscoveredMemory ==
    ASSUME ReadingInv, reader = "discovery_memory", Current > Script.commands
    PROVE  LET memory == Discovery!MemoryParser(outputs[1]).metrics
               available == 1000 - seen[1].memory
           IN /\ memory[3] \in {0, seen[1].memory}
              /\ memory[7] \in {0, available} \union Leading(available)
              /\ Complete(1) => memory[2] = 1000 /\ memory[7] = available
<1>1. Script.commands = 1 /\ Script.cut[1] = "fields" /\ reader \in {"discovery_memory", "telemetry_processes"}
  BY LoadScript
<1>2. PICK lines : lines = free(seen[1])
  OBVIOUS
<1>3. lines \in Seq(ToSet(lines)) /\ Len(lines) = 3
  <2>1. AreMemoryLines(lines, seen[1])
    BY <1>2, FreePrints
  <2>2. lines \in Seq({lines[1], lines[2], lines[3]}) /\ Len(lines) = 3
    BY <2>1 DEF AreMemoryLines
  <2>3. DOMAIN lines = 1 .. 3 /\ lines = [i \in 1 .. 3 |-> lines[i]]
    BY <2>2
  <2>. QED
    BY <2>2, <2>3, Numbered
<1>4. lines = Printed(seen[1], SubSeq(outputs, 1, 1 - 1))[1]
  BY <1>2 DEF Printed
<1>5. PICK n \in 0 .. 3 : Kept(outputs[1], lines, n) /\ (Complete(1) => n = 3)
  <2>1. lines \in Seq(ToSet(lines))
    BY <1>3
  <2>2. PICK n \in 0 .. Len(lines) : Kept(outputs[1], lines, n) /\ (Complete(1) => n = Len(lines))
    BY <1>1, <1>4, <2>1, TableBack, Zenon
  <2>. QED
    BY <1>3, <2>2
<1>6. PICK places : places = MemoryLines(outputs[1])
  OBVIOUS
<1>7. /\ \A p \in places : p = 2 /\ PartOfRow(outputs[1][2], lines[2])
      /\ Complete(1) => places = {2} /\ outputs[1][2] = lines[2]
  BY <1>2, <1>5, <1>6, MemoryLinesKept
<1>8. PICK mem : mem = At(outputs[1], places)
  OBVIOUS
<1>9. Discovery!MemoryParser(outputs[1])
         = IF mem = <<>> THEN Valid([i \in 2 .. 7 |-> 0])
           ELSE IF ~AllNumbers(mem[1], 2 .. 7) THEN Invalid
           ELSE Valid([i \in 2 .. 7 |-> mem[1][i].num])
  BY <1>6, <1>8, SameLines
     DEF Discovery!MemoryParser, Discovery!Where, MemoryLines, Discovery!Word, Discovery!Field,
         Word, Field, Discovery!AllNumbers, AllNumbers, Discovery!IsNumber, IsNumber,
         Discovery!Valid, Valid, Discovery!Invalid, Invalid
<1>10. PICK row : row = mem[1]
  OBVIOUS
<1>11. /\ mem # <<>> => PartOfRow(row, lines[2])
       /\ Complete(1) => mem # <<>> /\ row = lines[2]
  <2>1. \A p \in places : p \in 1 .. 3
    BY <1>7
  <2>2. /\ mem = <<>> <=> places = {}
        /\ places # {} => \E i \in places : mem[1] = outputs[1][i]
    BY <1>8, <2>1, FirstAt
  <2>. QED
    BY <1>7, <1>10, <2>2, Zenon
<1>12. PICK memory : memory = Discovery!MemoryParser(outputs[1]).metrics
  OBVIOUS
<1>13. PICK used, available : used = seen[1].memory /\ available = 1000 - seen[1].memory
  OBVIOUS
<1>14. CASE mem = <<>>
  <2>1. memory[3] = 0 /\ memory[7] = 0
    BY <1>9, <1>12, <1>14 DEF Valid
  <2>. QED
    BY <1>11, <1>12, <1>13, <1>14, <2>1
<1>15. CASE mem # <<>>
  <2>1. /\ AllNumbers(row, 2 .. 7) /\ row[2].num = 1000 /\ row[3].num = used
        /\ row[7].num \in {available} \union Leading(available)
    <3>1. PartOfRow(row, free(seen[1])[2])
      BY <1>2, <1>11, <1>15
    <3>. QED
      BY <1>13, <3>1, MemoryRowRead
  <2>2. memory = [i \in 2 .. 7 |-> row[i].num]
    BY <1>9, <1>10, <1>12, <1>15, <2>1 DEF Valid
  <2>3. memory[2] = row[2].num /\ memory[3] = row[3].num /\ memory[7] = row[7].num
    BY <2>2
  <2>4. Complete(1) => row[7].num = available
    <3>1. lines[2][7] = Num(available)
      BY <1>2, <1>13, FreeRow
    <3>. QED
      BY <1>11, <3>1, Numbers
  <2>. QED
    BY <1>12, <1>13, <2>1, <2>3, <2>4
<1>. QED
  BY <1>14, <1>15

(* A process is read if the line of it arrived, or enough of that.         *)
LEMMA ProcessRow ==
    ASSUME NEW row, Len(row) = 6, AllNumbers(row, 1 .. 4), NEW part, part = row \/ IsPart(part, row)
    PROVE  /\ (Len(part) >= 5 /\ AllNumbers(part, 1 .. 4)) <=> Len(part) >= 5
           /\ Len(part) >= 5 => part[3] = row[3]
<1>1. CASE part = row
  BY <1>1
<1>2. ASSUME IsPart(part, row), Len(part) >= 5
      PROVE  part[1] = row[1] /\ part[2] = row[2] /\ part[3] = row[3] /\ part[4] = row[4]
  <2>1. Len(part) \in 1 .. 6
    BY <1>2, Zenon DEF IsPart
  <2>2. /\ 1 \in 1 .. Len(part) - 1 /\ 2 \in 1 .. Len(part) - 1
        /\ 3 \in 1 .. Len(part) - 1 /\ 4 \in 1 .. Len(part) - 1
    BY <1>2, <2>1
  <2>. QED
    BY <1>2, <2>2, Zenon DEF IsPart
<1>3. \A i \in 1 .. 4 : i = 1 \/ i = 2 \/ i = 3 \/ i = 4
  OBVIOUS
<1>4. ASSUME IsPart(part, row), Len(part) >= 5
      PROVE  AllNumbers(part, 1 .. 4)
  BY <1>2, <1>3, <1>4, Zenon DEF AllNumbers
<1>. QED
  BY <1>1, <1>2, <1>4

Process1(parts) ==
    [pid |-> parts[1].num, ppid |-> parts[2].num, cpu_percent |-> parts[3].num,
     mem_percent |-> parts[4].num, command |-> SubSeq(parts, 5, Len(parts))]

(* The processes that are read are those whose line arrived.               *)
LEMMA ProcessesRead ==
    ASSUME ReadingInv, reader = "telemetry_processes", Current > Script.commands
    PROVE  ReadsBack(Each(ProcessTelemetryParser(outputs[1]), LAMBDA p : p.cpu_percent),
                     <<seen[1].cpu>>)
<1>1. Script.commands = 1 /\ Script.cut[1] = "fields" /\ reader \in {"discovery_memory", "telemetry_processes"}
  BY LoadScript
<1>2. PICK head : head = <<Word("PID"), Word("PPID"), Word("%CPU"), Word("%MEM"), Word("CMD")>>
  OBVIOUS
<1>3. PICK a, b, c, d, e, g :
        /\ a = Num(311) /\ b = Num(1) /\ c = Num(seen[1].cpu) /\ d = Num(seen[1].memory \div 10)
        /\ e = Word("nginx") /\ g = Word("-g")
  OBVIOUS
<1>4. PICK row : row = <<a, b, c, d, e, g>>
  OBVIOUS
<1>5. /\ Len(row) = 6 /\ DOMAIN row = 1 .. 6 /\ row = [i \in 1 .. 6 |-> row[i]]
      /\ row[1] = a /\ row[2] = b /\ row[3] = c /\ row[4] = d
  BY <1>4
<1>6. row \in Seq(ToSet(row))
  BY <1>5, Numbered
<1>7. AllNumbers(row, 1 .. 4) /\ row[3].num = seen[1].cpu
  <2>1. IsNumber(a) /\ IsNumber(b) /\ IsNumber(c) /\ IsNumber(d) /\ c.num = seen[1].cpu
    BY <1>3, Numbers
  <2>. QED
    BY <1>5, <2>1 DEF AllNumbers
<1>8. PICK lines, body : lines = <<head, row>> /\ body = <<row>>
  OBVIOUS
<1>9. /\ Len(lines) = 2 /\ DOMAIN lines = 1 .. 2 /\ lines = [i \in 1 .. 2 |-> lines[i]]
      /\ lines[2] = row /\ Len(body) = 1 /\ body[1] = row
  BY <1>8
<1>10. lines \in Seq(ToSet(lines))
  BY <1>9, Numbered
<1>11. lines = Printed(seen[1], SubSeq(outputs, 1, 1 - 1))[1]
  BY <1>2, <1>3, <1>4, <1>8 DEF Printed, ps
<1>12. PICK n \in 0 .. Len(lines) : Kept(outputs[1], lines, n) /\ (Complete(1) => n = Len(lines))
  BY <1>1, <1>10, <1>11, TableBack, Zenon
<1>13. PICK m : m = IF n = 0 THEN 0 ELSE n - 1
  OBVIOUS
<1>14. PICK rest : rest = SubSeq(outputs[1], 2, Len(outputs[1]))
  OBVIOUS
<1>15. m \in {0, 1} /\ (Complete(1) => m = 1)
  BY <1>9, <1>12, <1>13
<1>16. Kept(rest, body, m)
  <2>1. Len(body) \in Nat /\ Len(lines) = Len(body) + 1 /\ \A i \in 1 .. Len(body) : lines[i + 1] = body[i]
    BY <1>9
  <2>2. Kept(rest, body, IF n = 0 THEN 0 ELSE n - 1)
    BY <1>12, <1>14, <2>1, Headless
  <2>. QED
    BY <1>13, <2>2
<1>17. PICK places :
         places = {i \in DOMAIN rest : Len(rest[i]) >= 5 /\ AllNumbers(rest[i], 1 .. 4)}
  OBVIOUS
<1>18. /\ places = {} \/ (places = {1} /\ rest[1][3] = row[3])
       /\ Complete(1) => places = {1}
  <2>1. DOMAIN rest = 1 .. Len(rest) /\ (Len(rest) = m \/ Len(rest) = m + 1)
    BY <1>16, Zenon DEF Kept, Left
  <2>2. ASSUME m = 1
        PROVE  DOMAIN rest = {1} /\ rest[1] = row
    <3>1. ~(m < Len(body)) /\ 1 \in 1 .. m
      BY <1>9, <2>2
    <3>2. Len(rest) = 1 /\ rest[1] = body[1]
      BY <1>16, <2>2, <3>1 DEF Kept, Left
    <3>. QED
      BY <1>9, <2>1, <3>2
  <2>3. ASSUME m = 0
        PROVE  \/ DOMAIN rest = {}
               \/ DOMAIN rest = {1} /\ IsPart(rest[1], row)
    <3>1. Len(rest) = 1 => rest[1] \in PartOf("fields", body[1])
      BY <1>16, <2>3 DEF Kept, Left
    <3>2. Len(rest) = 1 => IsPart(rest[1], row)
      BY <1>6, <1>9, <3>1, PartIs
    <3>. QED
      BY <2>1, <2>3, <3>2
  <2>4. ASSUME DOMAIN rest = {1}, rest[1] = row \/ IsPart(rest[1], row)
        PROVE  /\ ~(Len(rest[1]) >= 5) => places = {}
               /\ Len(rest[1]) >= 5 => places = {1} /\ rest[1][3] = row[3]
    <3>1. PICK part : part = rest[1]
      OBVIOUS
    <3>2. /\ (Len(part) >= 5 /\ AllNumbers(part, 1 .. 4)) <=> Len(part) >= 5
          /\ Len(part) >= 5 => part[3] = row[3]
      BY <1>5, <1>7, <2>4, <3>1, ProcessRow
    <3>3. \A i : i \in places <=> i = 1 /\ Len(part) >= 5 /\ AllNumbers(part, 1 .. 4)
      BY <1>17, <2>4, <3>1
    <3>. QED
      BY <3>1, <3>2, <3>3
  <2>5. DOMAIN rest = {} => places = {}
    BY <1>17
  <2>6. m = 1 => places = {1} /\ rest[1][3] = row[3]
    <3>1. m = 1 => Len(rest[1]) >= 5
      <4>1. m = 1 => rest[1] = row
        BY <2>2
      <4>2. Len(row) >= 5
        BY <1>5
      <4>. QED
        BY <4>1, <4>2
    <3>. QED
      BY <2>2, <2>4, <3>1
  <2>7. m = 0 => places = {} \/ (places = {1} /\ rest[1][3] = row[3])
    BY <2>3, <2>4, <2>5
  <2>. QED
    BY <1>15, <2>6, <2>7
<1>19. PICK found : found = At(rest, places)
  OBVIOUS
<1>20. ProcessTelemetryParser(outputs[1]) = Each(found, Process1)
  BY <1>14, <1>17, <1>19 DEF ProcessTelemetryParser, Where, Each, Process1
<1>21. PICK read : read = Each(ProcessTelemetryParser(outputs[1]), LAMBDA p : p.cpu_percent)
  OBVIOUS
<1>22. read = [k \in DOMAIN found |-> found[k][3].num]
  BY <1>20, <1>21 DEF Each, Process1
<1>23. PICK all, cpu : cpu = seen[1].cpu /\ all = <<cpu>>
  OBVIOUS
<1>24. CASE places = {}
  <2>1. found = <<>>
    <3>1. \A p \in places : p \in 1 .. 1
      BY <1>24
    <3>. QED
      BY <1>19, <1>24, <3>1, FirstAt
  <2>2. read = <<>>
    BY <1>22, <2>1
  <2>3. IsPrefix(read, all)
    <3>1. read \in Seq({cpu}) /\ all \in Seq({cpu}) /\ Len(read) = 0 /\ Len(all) = 1
      BY <1>23, <2>2
    <3>2. Len(read) <= Len(all) /\ \A k \in 1 .. Len(read) : read[k] = all[k]
      BY <3>1
    <3>. QED
      BY <3>1, <3>2, StartOf
  <2>4. ~Complete(1)
    BY <1>18, <1>24
  <2>. QED
    BY <1>21, <1>23, <2>3, <2>4 DEF ReadsBack
<1>25. CASE places = {1} /\ rest[1][3] = row[3]
  <2>1. Cardinality(places) = 1
    BY <1>25, FS_Singleton
  <2>2. /\ DOMAIN found = 1 .. Cardinality(places)
        /\ \A k \in 1 .. Cardinality(places) : Nth(places, k) \in places /\ found[k] = rest[Nth(places, k)]
    <3>1. \A p \in places : p \in 1 .. 1
      BY <1>25
    <3>. QED
      BY <1>19, <3>1, AtLines
  <2>3. DOMAIN found = 1 .. 1 /\ found[1] = rest[1]
    BY <1>25, <2>1, <2>2
  <2>4. read = [k \in 1 .. 1 |-> cpu]
    BY <1>7, <1>22, <1>23, <1>25, <2>3
  <2>5. read = all
    BY <1>23, <2>4
  <2>6. IsPrefix(read, all)
    <3>1. read \in Seq({cpu}) /\ all \in Seq({cpu}) /\ Len(read) = Len(all) /\ Len(read) = 1
      BY <1>23, <2>5
    <3>2. Len(read) <= Len(all) /\ \A k \in 1 .. Len(read) : read[k] = all[k]
      BY <2>5, <3>1
    <3>. QED
      BY <3>1, <3>2, StartOf
  <2>. QED
    BY <1>21, <1>23, <2>5, <2>6 DEF ReadsBack
<1>. QED
  BY <1>18, <1>24, <1>25

(* The load that the agent reads on its own host.                          *)
LEMMA LoadLocal ==
    /\ reader = "memory_collector" =>
          /\ Script.commands = 1 /\ Script.cut = <<>> /\ Script.tolerated = {}
    /\ reader = "cpu_collector" =>
          /\ Script.commands = 2 /\ Script.cut = <<>> /\ Script.tolerated = {}
  BY DEF Script, Readings, Local, Reading

(* What is read of the load.                                               *)
LEMMA LoadRight ==
    ASSUME ReadingInv
    PROVE  LoadRead
<1>1. ASSUME Done({"memory_collector"})
      PROVE  Metrics(MemoryParser(outputs[1]), "MemFree") = 1000 - seen[1].memory
  <2>1. reader = "memory_collector" /\ Current > Script.commands
    BY <1>1 DEF Done
  <2>2. /\ Script.commands = 1 /\ Script.cut = <<>> /\ Script.tolerated = {}
        /\ Script.commands \in Nat /\ 1 \in 1 .. Script.commands
    BY <2>1, LoadLocal
  <2>3. outputs[1] = Printed(seen[1], SubSeq(outputs, 1, 1 - 1))[1]
    BY <2>1, <2>2, LocalBack
  <2>4. outputs[1] = meminfo_lines(seen[1])
    BY <2>1, <2>3 DEF Printed
  <2>. QED
    BY <2>4, MeminfoRead
<1>2. ASSUME Done({"cpu_collector"})
      PROVE  CPUParser(outputs[1], outputs[2]).metrics.logical_cpu_count = 2
  <2>1. reader = "cpu_collector" /\ Current > Script.commands
    BY <1>2 DEF Done
  <2>2. /\ Script.commands = 2 /\ Script.cut = <<>> /\ Script.tolerated = {}
        /\ Script.commands \in Nat /\ 1 \in 1 .. Script.commands /\ 2 \in 1 .. Script.commands
    BY <2>1, LoadLocal
  <2>3. /\ outputs[1] = Printed(seen[1], SubSeq(outputs, 1, 1 - 1))[1]
        /\ outputs[2] = Printed(seen[2], SubSeq(outputs, 1, 2 - 1))[2]
    BY <2>1, <2>2, LocalBack
  <2>4. outputs[1] = proc_stat(seen[1]) /\ outputs[2] = <<Num(1), Num(1), Num(1)>>
    BY <2>1, <2>3 DEF Printed
  <2>. QED
    BY <2>4, StatRead
<1>3. ASSUME Done({"discovery_memory"})
      PROVE  LET memory == Discovery!MemoryParser(outputs[1]).metrics
                 available == 1000 - seen[1].memory
             IN /\ memory[3] \in {0, seen[1].memory}
                /\ memory[7] \in {0, available} \union Leading(available)
                /\ Complete(1) => memory[2] = 1000 /\ memory[7] = available
  <2>1. reader = "discovery_memory" /\ Current > Script.commands
    BY <1>3 DEF Done
  <2>. QED
    BY <2>1, DiscoveredMemory
<1>4. ASSUME Done({"telemetry_processes"})
      PROVE  ReadsBack(Each(ProcessTelemetryParser(outputs[1]), LAMBDA p : p.cpu_percent),
                       <<seen[1].cpu>>)
  <2>1. reader = "telemetry_processes" /\ Current > Script.commands
    BY <1>4 DEF Done
  <2>. QED
    BY <2>1, ProcessesRead
<1>. QED
  BY <1>1, <1>2, <1>3, <1>4, ZenonT(60) DEF LoadRead

-------------------------------------------------------------------------------
(* The system: its name, its cores, and how long it has been up.           *)

(* The first of three fields that is not empty.                            *)
IsEmpty(field) == field = Word("")

(* Which of three fields that is.                                          *)
LEMMA FirstOfThree ==
    ASSUME NEW none, IsEmpty(none), NEW a, NEW b, NEW c
    PROVE  FirstOf(<<a, b, c>>) = IF a # none THEN a ELSE IF b # none THEN b ELSE c
<1>1. PICK row : row = <<a, b, c>>
  OBVIOUS
<1>2. /\ DOMAIN row = 1 .. 3 /\ Len(row) = 3
      /\ row[1] = a /\ row[2] = b /\ row[3] = c
  BY <1>1
<1>3. PICK places : places = {i \in DOMAIN row : row[i] # none}
  OBVIOUS
<1>4. PICK found, last : found = At(row, places) /\ last = <<c>>
  OBVIOUS
<1>5. FirstOf(row) = Head(found \o last)
  <2>1. Last(row) = c
    BY <1>2 DEF Last
  <2>. QED
    BY <1>3, <1>4, <2>1, Zenon DEF FirstOf, Where, IsEmpty
<1>6. /\ found = <<>> <=> places = {}
      /\ places # {} => \E i \in places : found[1] = row[i] /\ \A p \in places : i <= p
      /\ found \in Seq(ToSet(found)) /\ Len(found) = Cardinality(places)
  <2>1. \A p \in places : p \in 1 .. 3
    BY <1>2, <1>3
  <2>. QED
    BY <1>4, <2>1, FirstAt, AtLines
<1>7. Head(found \o last) = IF found = <<>> THEN c ELSE found[1]
  <2>1. PICK T : T = ToSet(found) \union {c}
    OBVIOUS
  <2>2. found \in Seq(T) /\ last \in Seq(T)
    <3>1. \A i \in 1 .. Len(found) : found[i] \in T
      BY <1>6, <2>1
    <3>. QED
      BY <1>4, <1>6, <2>1, <3>1
  <2>3. Len(last) = 1 /\ last[1] = c
    BY <1>4
  <2>4. CASE found = <<>>
    BY <2>2, <2>3, <2>4
  <2>5. CASE found # <<>>
    <3>1. Len(found) \in Nat /\ Len(found) > 0
      BY <2>2, <2>5
    <3>2. /\ Len(found \o last) = Len(found) + Len(last)
          /\ \A i \in 1 .. Len(found) + Len(last) :
                (found \o last)[i] = IF i <= Len(found) THEN found[i] ELSE last[i - Len(found)]
      BY <2>2, ConcatProperties
    <3>3. 1 \in 1 .. Len(found) + Len(last) /\ 1 <= Len(found)
      BY <2>3, <3>1
    <3>4. (found \o last)[1] = found[1]
      BY <3>2, <3>3
    <3>5. found \o last # <<>>
      BY <2>3, <3>1, <3>2
    <3>. QED
      BY <2>5, <3>4, <3>5
  <2>. QED
    BY <2>4, <2>5
<1>8. places # {} => found[1] = IF a # none THEN a ELSE IF b # none THEN b ELSE c
  <2>1. ASSUME NEW i \in places, \A p \in places : i <= p
        PROVE  row[i] = IF a # none THEN a ELSE IF b # none THEN b ELSE c
    <3>1. i \in 1 .. 3 /\ row[i] # none
      BY <1>2, <1>3
    <3>2. (1 \in places <=> a # none) /\ (2 \in places <=> b # none)
      BY <1>2, <1>3
    <3>3. a # none => i = 1
      BY <2>1, <3>1, <3>2
    <3>4. a = none /\ b # none => i = 2
      BY <1>2, <2>1, <3>1, <3>2
    <3>5. a = none /\ b = none => i = 3
      BY <1>2, <3>1
    <3>. QED
      BY <1>2, <3>3, <3>4, <3>5
  <2>. QED
    BY <1>6, <2>1
<1>9. places = {} => a = none /\ b = none
  BY <1>2, <1>3
<1>. QED
  BY <1>1, <1>5, <1>6, <1>7, <1>8, <1>9

(* The keys of lscpu, of which each is there once.                         *)
LEMMA LscpuKeys ==
    ASSUME NEW cores, NEW pairs, pairs = lscpu(cores)
    PROVE  /\ Len(pairs) = 8 /\ DOMAIN pairs = 1 .. 8 /\ pairs = [i \in 1 .. 8 |-> pairs[i]]
           /\ \A i \in 1 .. 8 : pairs[i].key = "cpu(s)" <=> i = 2
           /\ pairs[2].value = Num(cores)
<1>1. PICK a, b, c, d, e, f, g, h :
        /\ a = Pair("architecture", Word("x86_64")) /\ b = Pair("cpu(s)", Num(cores))
        /\ c = Pair("on-line cpu(s) list", IF cores = 1 THEN Num(0) ELSE Word("0-3"))
        /\ d = Pair("model name", Word("EPYC")) /\ e = Pair("thread(s) per core", Num(1))
        /\ f = Pair("core(s) per socket", Num(cores)) /\ g = Pair("socket(s)", Num(1))
        /\ h = Pair("numa node0 cpu(s)", IF cores = 1 THEN Num(0) ELSE Word("0-3"))
  OBVIOUS
<1>2. pairs = <<a, b, c, d, e, f, g, h>>
  BY <1>1 DEF lscpu
<1>3. /\ a.key # "cpu(s)" /\ b.key = "cpu(s)" /\ c.key # "cpu(s)" /\ d.key # "cpu(s)"
      /\ e.key # "cpu(s)" /\ f.key # "cpu(s)" /\ g.key # "cpu(s)" /\ h.key # "cpu(s)"
      /\ b.value = Num(cores)
  BY <1>1 DEF Pair
<1>4. /\ Len(pairs) = 8 /\ DOMAIN pairs = 1 .. 8 /\ pairs = [i \in 1 .. 8 |-> pairs[i]]
      /\ pairs[1] = a /\ pairs[2] = b /\ pairs[3] = c /\ pairs[4] = d
      /\ pairs[5] = e /\ pairs[6] = f /\ pairs[7] = g /\ pairs[8] = h
  BY <1>2
<1>5. ASSUME NEW i \in 1 .. 8
      PROVE  pairs[i].key = "cpu(s)" <=> i = 2
  <2>1. i = 1 \/ i = 2 \/ i = 3 \/ i = 4 \/ i = 5 \/ i = 6 \/ i = 7 \/ i = 8
    OBVIOUS
  <2>. QED
    BY <1>3, <1>4, <2>1
<1>. QED
  BY <1>3, <1>4, <1>5

(* The cores are those that lscpu names.                                   *)
LEMMA CoresCounted ==
    ASSUME NEW cores
    PROVE  Count(lscpu(cores), "cpu(s)", 0, 0) = cores
<1>1. PICK pairs, n, i, key, default :
        /\ pairs = lscpu(cores) /\ n = 8 /\ i = 2 /\ key = "cpu(s)" /\ default = Num(0)
  OBVIOUS
<1>2. /\ n \in Nat /\ Len(pairs) = n /\ i \in 1 .. n /\ pairs[i].key = key
      /\ \A j \in 1 .. n : pairs[j].key = key => j <= i
      /\ pairs[i].value = Num(cores)
  BY <1>1, LscpuKeys
<1>3. Get(pairs, key, default) = Num(cores)
  BY <1>2, GetAt
<1>. QED
  BY <1>1, <1>3, Numbers DEF Count

(* What the parser makes of the fields that follow "up".                   *)
Minutes(time) ==
    1440 * NumberBefore(time, IsDay)
    + IF time # <<>> /\ Last(time).kind = "clock" THEN Last(time).num
      ELSE IF time # <<>> /\ Where(time, LAMBDA field : field.kind = "clock") = <<>>
              /\ IsNumber(Last(time))
           THEN Last(time).num ELSE NumberBefore(time, IsMinutes)

(* The number before the first unit, if there is a unit.                   *)
LEMMA DaysBefore ==
    ASSUME NEW l \in Nat, NEW time, Len(time) = l, NEW i \in 2 .. l,
           IsDay(time[i]), \A j \in 1 .. i - 1 : ~IsDay(time[j]), IsNumber(time[i - 1])
    PROVE  NumberBefore(time, IsDay) = time[i - 1].num
<1>1. PICK d : d = {j \in 1 .. Len(time) : IsDay(time[j])}
  OBVIOUS
<1>2. d \subseteq Int /\ i \in d /\ \A j \in d : i <= j
  BY <1>1
<1>3. Min(d) = i
  BY <1>2, MinIs
<1>4. SelectInSeq(time, IsDay) = i
  BY <1>1, <1>2, <1>3 DEF SelectInSeq
<1>. QED
  BY <1>4 DEF NumberBefore

(* The same of hours and of minutes.                                       *)
LEMMA MinutesBefore ==
    ASSUME NEW l \in Nat, NEW time, Len(time) = l, NEW i \in 2 .. l,
           IsMinutes(time[i]), \A j \in 1 .. i - 1 : ~IsMinutes(time[j]), IsNumber(time[i - 1])
    PROVE  NumberBefore(time, IsMinutes) = time[i - 1].num
<1>1. PICK d : d = {j \in 1 .. Len(time) : IsMinutes(time[j])}
  OBVIOUS
<1>2. d \subseteq Int /\ i \in d /\ \A j \in d : i <= j
  BY <1>1
<1>3. Min(d) = i
  BY <1>2, MinIs
<1>4. SelectInSeq(time, IsMinutes) = i
  BY <1>1, <1>2, <1>3 DEF SelectInSeq
<1>. QED
  BY <1>4 DEF NumberBefore

(* Nothing is read where there is no unit.                                 *)
LEMMA NoDays ==
    ASSUME NEW time, \A j \in 1 .. Len(time) : ~IsDay(time[j])
    PROVE  NumberBefore(time, IsDay) = 0
<1>1. {j \in 1 .. Len(time) : IsDay(time[j])} = {}
  OBVIOUS
<1>2. SelectInSeq(time, IsDay) = 0
  BY <1>1 DEF SelectInSeq
<1>. QED
  BY <1>2 DEF NumberBefore

(* The kinds of the fields that uptime prints.                             *)
LEMMA TimeFields ==
    ASSUME NEW n, NEW m
    PROVE  /\ ~IsDay(Num(n)) /\ ~IsDay(Clock(n, m)) /\ ~IsDay(Word("min"))
           /\ IsDay(Word("day")) /\ IsDay(Word("days"))
           /\ ~IsMinutes(Num(n)) /\ ~IsMinutes(Word("day")) /\ ~IsMinutes(Word("days"))
           /\ IsMinutes(Word("min"))
           /\ Clock(n, m).kind = "clock" /\ Clock(n, m).num = 60 * n + m
           /\ Word("min").kind = "word" /\ ~IsNumber(Word("min")) /\ ~IsNumber(Clock(n, m))
  BY DEF IsDay, IsMinutes, Num, Word, Clock, Field, IsNumber

(* Up to a day, and then with the days before it: hours and minutes, or    *)
(* minutes alone.                                                          *)
LEMMA ClockRead ==
    ASSUME NEW h \in Int, NEW m \in Int
    PROVE  Minutes(<<Clock(h, m)>>) = 60 * h + m
<1>1. PICK time, c : time = <<c>> /\ c = Clock(h, m)
  OBVIOUS
<1>2. Len(time) = 1 /\ time[1] = c /\ time # <<>>
  BY <1>1
<1>3. ~IsDay(c) /\ c.kind = "clock" /\ c.num = 60 * h + m
  BY <1>1, TimeFields
<1>4. NumberBefore(time, IsDay) = 0
  <2>1. \A j \in 1 .. Len(time) : ~IsDay(time[j])
    BY <1>2, <1>3
  <2>. QED
    BY <2>1, NoDays
<1>5. Last(time) = c
  BY <1>2 DEF Last
<1>6. Minutes(time) = 1440 * 0 + c.num
  BY <1>2, <1>3, <1>4, <1>5 DEF Minutes
<1>. QED
  BY <1>1, <1>3, <1>6

(* Minutes alone.                                                          *)
LEMMA MinutesRead ==
    ASSUME NEW m \in Int
    PROVE  Minutes(<<Num(m), Word("min")>>) = m
<1>1. PICK time, a, b : time = <<a, b>> /\ a = Num(m) /\ b = Word("min")
  OBVIOUS
<1>2. Len(time) = 2 /\ time[1] = a /\ time[2] = b /\ time # <<>>
  BY <1>1
<1>3. /\ ~IsDay(a) /\ ~IsDay(b) /\ b.kind # "clock" /\ ~IsNumber(b) /\ IsNumber(a) /\ a.num = m
      /\ IsMinutes(b) /\ ~IsMinutes(a)
  BY <1>1, TimeFields, Numbers
<1>4. NumberBefore(time, IsDay) = 0
  <2>1. \A j \in 1 .. Len(time) : ~IsDay(time[j])
    BY <1>2, <1>3
  <2>. QED
    BY <2>1, NoDays
<1>5. Last(time) = b
  BY <1>2 DEF Last
<1>6. NumberBefore(time, IsMinutes) = m
  <2>1. PICK l, i : l = 2 /\ i = 2
    OBVIOUS
  <2>2. /\ l \in Nat /\ Len(time) = l /\ i \in 2 .. l /\ IsMinutes(time[i])
        /\ \A j \in 1 .. i - 1 : ~IsMinutes(time[j])
        /\ IsNumber(time[i - 1])
    BY <1>2, <1>3, <2>1
  <2>3. NumberBefore(time, IsMinutes) = time[i - 1].num
    BY <2>2, MinutesBefore
  <2>. QED
    BY <1>2, <1>3, <2>1, <2>3
<1>7. Minutes(time) = 1440 * 0 + m
  BY <1>2, <1>3, <1>4, <1>5, <1>6 DEF Minutes
<1>. QED
  BY <1>1, <1>7

(* Days, and hours with minutes.                                           *)
LEMMA DaysAndClockRead ==
    ASSUME NEW d \in Int, NEW day \in {"day", "days"}, NEW h \in Int, NEW m \in Int
    PROVE  Minutes(<<Num(d), Word(day), Clock(h, m)>>) = 1440 * d + 60 * h + m
<1>1. PICK time, a, b, c :
        time = <<a, b, c>> /\ a = Num(d) /\ b = Word(day) /\ c = Clock(h, m)
  OBVIOUS
<1>2. Len(time) = 3 /\ time[1] = a /\ time[2] = b /\ time[3] = c /\ time # <<>>
  BY <1>1
<1>3. ~IsDay(a) /\ IsDay(b) /\ IsNumber(a) /\ a.num = d
  BY <1>1, TimeFields, Numbers
<1>4. c.kind = "clock" /\ c.num = 60 * h + m
  BY <1>1, TimeFields
<1>5. NumberBefore(time, IsDay) = d
  <2>1. PICK l, i : l = 3 /\ i = 2
    OBVIOUS
  <2>2. /\ l \in Nat /\ Len(time) = l /\ i \in 2 .. l /\ IsDay(time[i])
        /\ \A j \in 1 .. i - 1 : ~IsDay(time[j])
        /\ IsNumber(time[i - 1])
    BY <1>2, <1>3, <2>1
  <2>3. NumberBefore(time, IsDay) = time[i - 1].num
    BY <2>2, DaysBefore
  <2>. QED
    BY <1>2, <1>3, <2>1, <2>3
<1>6. Last(time) = c
  BY <1>2 DEF Last
<1>7. Minutes(time) = 1440 * d + c.num
  BY <1>2, <1>4, <1>5, <1>6 DEF Minutes
<1>. QED
  BY <1>1, <1>4, <1>7

(* Days, and minutes alone.                                                *)
LEMMA DaysAndMinutesRead ==
    ASSUME NEW d \in Int, NEW day \in {"day", "days"}, NEW m \in Int
    PROVE  Minutes(<<Num(d), Word(day), Num(m), Word("min")>>) = 1440 * d + m
<1>1. PICK time, a, b, c, e :
        time = <<a, b, c, e>> /\ a = Num(d) /\ b = Word(day) /\ c = Num(m) /\ e = Word("min")
  OBVIOUS
<1>2. /\ Len(time) = 4 /\ time[1] = a /\ time[2] = b /\ time[3] = c /\ time[4] = e
      /\ time # <<>>
  BY <1>1
<1>3. ~IsDay(a) /\ IsDay(b) /\ IsNumber(a) /\ a.num = d
  BY <1>1, TimeFields, Numbers
<1>4. /\ ~IsMinutes(a) /\ ~IsMinutes(b) /\ ~IsMinutes(c) /\ IsMinutes(e)
      /\ IsNumber(c) /\ c.num = m /\ ~IsNumber(e) /\ e.kind # "clock"
  BY <1>1, TimeFields, Numbers
<1>5. NumberBefore(time, IsDay) = d
  <2>1. PICK l, i : l = 4 /\ i = 2
    OBVIOUS
  <2>2. /\ l \in Nat /\ Len(time) = l /\ i \in 2 .. l /\ IsDay(time[i])
        /\ \A j \in 1 .. i - 1 : ~IsDay(time[j])
        /\ IsNumber(time[i - 1])
    BY <1>2, <1>3, <2>1
  <2>3. NumberBefore(time, IsDay) = time[i - 1].num
    BY <2>2, DaysBefore
  <2>. QED
    BY <1>2, <1>3, <2>1, <2>3
<1>6. NumberBefore(time, IsMinutes) = m
  <2>1. PICK l, i : l = 4 /\ i = 4
    OBVIOUS
  <2>2. /\ l \in Nat /\ Len(time) = l /\ i \in 2 .. l /\ IsMinutes(time[i])
        /\ \A j \in 1 .. i - 1 : ~IsMinutes(time[j])
        /\ IsNumber(time[i - 1])
    BY <1>2, <1>4, <2>1
  <2>3. NumberBefore(time, IsMinutes) = time[i - 1].num
    BY <2>2, MinutesBefore
  <2>. QED
    BY <1>2, <1>4, <2>1, <2>3
<1>7. Last(time) = e
  BY <1>2 DEF Last
<1>8. Minutes(time) = 1440 * d + m
  BY <1>2, <1>4, <1>5, <1>6, <1>7 DEF Minutes
<1>. QED
  BY <1>1, <1>8

(* Two sequences, one behind the other.                                    *)
LEMMA Joining ==
    ASSUME NEW n \in Nat, NEW s, DOMAIN s = 1 .. n, s = [i \in 1 .. n |-> s[i]],
           NEW m \in Nat, NEW t, DOMAIN t = 1 .. m, t = [i \in 1 .. m |-> t[i]],
           NEW u, u = s \o t
    PROVE  /\ \E T : u \in Seq(T)
           /\ Len(u) = n + m /\ DOMAIN u = 1 .. n + m /\ u = [i \in 1 .. n + m |-> u[i]]
           /\ \A i \in 1 .. n : u[i] = s[i]
           /\ \A i \in 1 .. m : u[n + i] = t[i]
<1>1. s \in Seq(ToSet(s)) /\ Len(s) = n
  BY Numbered
<1>2. t \in Seq(ToSet(t)) /\ Len(t) = m
  BY Numbered
<1>3. PICK T : T = ToSet(s) \union ToSet(t)
  OBVIOUS
<1>4. s \in Seq(T) /\ t \in Seq(T)
  <2>1. ToSet(s) \subseteq T /\ ToSet(t) \subseteq T
    BY <1>3
  <2>. QED
    BY <1>1, <1>2, <2>1
<1>5. /\ s \o t \in Seq(T)
      /\ Len(s \o t) = Len(s) + Len(t)
      /\ \A i \in 1 .. Len(s) + Len(t) :
            (s \o t)[i] = IF i <= Len(s) THEN s[i] ELSE t[i - Len(s)]
  BY <1>4, ConcatProperties
<1>6. /\ u \in Seq(T) /\ Len(u) = n + m
      /\ \A i \in 1 .. n + m : u[i] = IF i <= n THEN s[i] ELSE t[i - n]
  BY <1>1, <1>2, <1>5
<1>7. \A i \in 1 .. n : i \in 1 .. n + m /\ i <= n
  OBVIOUS
<1>8. \A i \in 1 .. m : n + i \in 1 .. n + m /\ ~(n + i <= n) /\ n + i - n = i
  OBVIOUS
<1>9. \A i \in 1 .. n : u[i] = s[i]
  BY <1>6, <1>7
<1>10. \A i \in 1 .. m : u[n + i] = t[i]
  BY <1>6, <1>8
<1>11. DOMAIN u = 1 .. n + m /\ u = [i \in 1 .. n + m |-> u[i]]
  BY <1>6
<1>. QED
  BY <1>3, <1>6, <1>9, <1>10, <1>11

(* Sequences of one or two fields, one behind the other.                   *)
LEMMA OneAndOne ==
    ASSUME NEW a, NEW b
    PROVE  <<a>> \o <<b>> = <<a, b>>
<1>1. PICK n, m, s, t, u : n = 1 /\ m = 1 /\ s = <<a>> /\ t = <<b>> /\ u = s \o t
  OBVIOUS
<1>2. /\ n \in Nat /\ DOMAIN s = 1 .. n /\ s = [i \in 1 .. n |-> s[i]]
      /\ m \in Nat /\ DOMAIN t = 1 .. m /\ t = [i \in 1 .. m |-> t[i]]
      /\ s[1] = a /\ t[1] = b
  BY <1>1
<1>3. \A i \in 1 .. n : u[i] = s[i]
  BY <1>1, <1>2, Joining
<1>4. \A i \in 1 .. m : u[n + i] = t[i]
  BY <1>1, <1>2, Joining
<1>5. Len(u) = n + m
  BY <1>1, <1>2, Joining
<1>6. u = [i \in 1 .. n + m |-> u[i]]
  BY <1>1, <1>2, Joining
<1>7. u = [i \in 1 .. 2 |-> u[i]]
  BY <1>1, <1>6
<1>8. Len(u) = 2 /\ u[1] = a /\ u[2] = b
  BY <1>1, <1>2, <1>3, <1>4, <1>5
<1>9. u = <<a, b>>
  BY <1>7, <1>8
<1>. QED
  BY <1>1, <1>9

LEMMA OneAndTwo ==
    ASSUME NEW a, NEW b, NEW c
    PROVE  <<a>> \o <<b, c>> = <<a, b, c>>
<1>1. PICK n, m, s, t, u : n = 1 /\ m = 2 /\ s = <<a>> /\ t = <<b, c>> /\ u = s \o t
  OBVIOUS
<1>2. /\ n \in Nat /\ DOMAIN s = 1 .. n /\ s = [i \in 1 .. n |-> s[i]]
      /\ m \in Nat /\ DOMAIN t = 1 .. m /\ t = [i \in 1 .. m |-> t[i]]
      /\ s[1] = a /\ t[1] = b /\ t[2] = c
  BY <1>1
<1>3. \A i \in 1 .. n : u[i] = s[i]
  BY <1>1, <1>2, Joining
<1>4. \A i \in 1 .. m : u[n + i] = t[i]
  BY <1>1, <1>2, Joining
<1>5. Len(u) = n + m
  BY <1>1, <1>2, Joining
<1>6. u = [i \in 1 .. n + m |-> u[i]]
  BY <1>1, <1>2, Joining
<1>7. u = [i \in 1 .. 3 |-> u[i]]
  BY <1>1, <1>6
<1>8. Len(u) = 3 /\ u[1] = a /\ u[2] = b /\ u[3] = c
  BY <1>1, <1>2, <1>3, <1>4, <1>5
<1>9. u = <<a, b, c>>
  BY <1>7, <1>8
<1>. QED
  BY <1>1, <1>9

LEMMA TwoAndOne ==
    ASSUME NEW a, NEW b, NEW c
    PROVE  <<a, b>> \o <<c>> = <<a, b, c>>
<1>1. PICK n, m, s, t, u : n = 2 /\ m = 1 /\ s = <<a, b>> /\ t = <<c>> /\ u = s \o t
  OBVIOUS
<1>2. /\ n \in Nat /\ DOMAIN s = 1 .. n /\ s = [i \in 1 .. n |-> s[i]]
      /\ m \in Nat /\ DOMAIN t = 1 .. m /\ t = [i \in 1 .. m |-> t[i]]
      /\ s[1] = a /\ s[2] = b /\ t[1] = c
  BY <1>1
<1>3. \A i \in 1 .. n : u[i] = s[i]
  BY <1>1, <1>2, Joining
<1>4. \A i \in 1 .. m : u[n + i] = t[i]
  BY <1>1, <1>2, Joining
<1>5. Len(u) = n + m
  BY <1>1, <1>2, Joining
<1>6. u = [i \in 1 .. n + m |-> u[i]]
  BY <1>1, <1>2, Joining
<1>7. u = [i \in 1 .. 3 |-> u[i]]
  BY <1>1, <1>6
<1>8. Len(u) = 3 /\ u[1] = a /\ u[2] = b /\ u[3] = c
  BY <1>1, <1>2, <1>3, <1>4, <1>5
<1>9. u = <<a, b, c>>
  BY <1>7, <1>8
<1>. QED
  BY <1>1, <1>9

LEMMA TwoAndTwo ==
    ASSUME NEW a, NEW b, NEW c, NEW d
    PROVE  <<a, b>> \o <<c, d>> = <<a, b, c, d>>
<1>1. PICK n, m, s, t, u : n = 2 /\ m = 2 /\ s = <<a, b>> /\ t = <<c, d>> /\ u = s \o t
  OBVIOUS
<1>2. /\ n \in Nat /\ DOMAIN s = 1 .. n /\ s = [i \in 1 .. n |-> s[i]]
      /\ m \in Nat /\ DOMAIN t = 1 .. m /\ t = [i \in 1 .. m |-> t[i]]
      /\ s[1] = a /\ s[2] = b /\ t[1] = c /\ t[2] = d
  BY <1>1
<1>3. \A i \in 1 .. n : u[i] = s[i]
  BY <1>1, <1>2, Joining
<1>4. \A i \in 1 .. m : u[n + i] = t[i]
  BY <1>1, <1>2, Joining
<1>5. Len(u) = n + m
  BY <1>1, <1>2, Joining
<1>6. u = [i \in 1 .. n + m |-> u[i]]
  BY <1>1, <1>2, Joining
<1>7. u = [i \in 1 .. 4 |-> u[i]]
  BY <1>1, <1>6
<1>8. Len(u) = 4 /\ u[1] = a /\ u[2] = b /\ u[3] = c /\ u[4] = d
  BY <1>1, <1>2, <1>3, <1>4, <1>5
<1>9. u = <<a, b, c, d>>
  BY <1>7, <1>8
<1>. QED
  BY <1>1, <1>9

(* What has been cut off at two fields.                                    *)
LEMMA BehindTwo ==
    ASSUME NEW a, NEW b, NEW m \in Nat, NEW t, DOMAIN t = 1 .. m, t = [i \in 1 .. m |-> t[i]],
           NEW u, u = <<a, b>> \o t
    PROVE  /\ Len(u) = m + 2 /\ u[1] = a /\ u[2] = b
           /\ \A i \in 1 .. m : u[2 + i] = t[i]
           /\ SubSeq(u, 3, Len(u)) = t
<1>1. PICK n, s : n = 2 /\ s = <<a, b>>
  OBVIOUS
<1>2. /\ n \in Nat /\ DOMAIN s = 1 .. n /\ s = [i \in 1 .. n |-> s[i]]
      /\ s[1] = a /\ s[2] = b /\ u = s \o t
  BY <1>1
<1>3. \A i \in 1 .. n : u[i] = s[i]
  BY <1>2, Joining
<1>4. \A i \in 1 .. m : u[n + i] = t[i]
  BY <1>2, Joining
<1>5. Len(u) = n + m
  BY <1>2, Joining
<1>6. DOMAIN u = 1 .. n + m /\ u = [i \in 1 .. n + m |-> u[i]]
  BY <1>2, Joining
<1>7. u[1] = a /\ u[2] = b /\ Len(u) = m + 2
  BY <1>1, <1>2, <1>3, <1>5
<1>8. SubSeq(u, 3, Len(u)) = t
  <2>1. u \in Seq(ToSet(u)) /\ Len(u) = m + 2
    <3>1. PICK l : l = n + m
      OBVIOUS
    <3>2. l \in Nat /\ DOMAIN u = 1 .. l /\ u = [i \in 1 .. l |-> u[i]]
      BY <1>2, <1>6, <3>1
    <3>. QED
      BY <1>7, <3>2, Numbered
  <2>2. PICK v : v = SubSeq(u, 3, m + 2)
    OBVIOUS
  <2>3. v = [i \in 1 .. m |-> v[i]] /\ \A i \in 1 .. m : v[i] = u[2 + i]
    BY <2>1, <2>2
  <2>4. \A i \in 1 .. m : v[i] = t[i]
    BY <1>1, <1>4, <2>3
  <2>5. v = t
    BY <2>3, <2>4
  <2>. QED
    BY <1>7, <2>2, <2>5
<1>. QED
  BY <1>1, <1>4, <1>7, <1>8

(* The parts of what uptime prints of a time: whole days, if there are any,*)
(* and the rest.                                                           *)
Since == <<Clock(10, 12), Word("up")>>
Users == <<Num(2), Word("users")>>
Load == <<Word("load"), Word("average:"), Num(1)>>

(* The days, and the rest of the time.                                     *)
Days(minutes) == <<Num(minutes \div 1440), Word(IF minutes \div 1440 = 1 THEN "day" ELSE "days")>>
Rest(minutes) ==
    IF (minutes % 1440) \div 60 > 0
    THEN <<Clock((minutes % 1440) \div 60, minutes % 60)>> ELSE <<Num(minutes % 60), Word("min")>>

(* What uptime prints of a time, as such parts.                            *)
LEMMA ElapsedIs ==
    ASSUME NEW minutes
    PROVE  /\ minutes \div 1440 = 0 =>
                 /\ Elapsed(minutes) = <<Rest(minutes)>>
                 /\ FlattenSeq(Elapsed(minutes)) = Rest(minutes)
           /\ minutes \div 1440 # 0 =>
                 /\ Elapsed(minutes) = <<Days(minutes), Rest(minutes)>>
                 /\ FlattenSeq(Elapsed(minutes)) = Days(minutes) \o Rest(minutes)
<1>1. PICK first, last, days :
         first = Days(minutes) /\ last = Rest(minutes) /\ days = minutes \div 1440
  OBVIOUS
<1>2. Elapsed(minutes) = (IF days = 0 THEN <<>> ELSE <<first>>) \o <<last>>
  BY <1>1 DEF Elapsed, Days, Rest
<1>3. ASSUME days = 0
      PROVE  Elapsed(minutes) = <<last>>
  <2>1. Elapsed(minutes) = <<>> \o <<last>>
    BY <1>2, <1>3, Zenon
  <2>2. <<>> \o <<last>> = <<last>>
    OBVIOUS
  <2>. QED
    BY <2>1, <2>2, Zenon
<1>4. ASSUME days # 0
      PROVE  Elapsed(minutes) = <<first, last>>
  <2>1. Elapsed(minutes) = <<first>> \o <<last>>
    BY <1>2, <1>4, Zenon
  <2>. QED
    BY <2>1, OneAndOne, Zenon
<1>5. FlattenSeq(<<last>>) = last /\ FlattenSeq(<<first>>) = first
  BY OneLine
<1>6. FlattenSeq(<<first, last>>) = first \o last
  <2>1. PICK n, s, t : n = 1 /\ s = <<first, last>> /\ t = <<first>>
    OBVIOUS
  <2>2. n \in Nat \ {0} /\ Len(s) = n + 1 /\ Len(t) = n /\ \A i \in 1 .. n : t[i] = s[i]
    BY <2>1
  <2>3. FlattenSeq(s) = FlattenSeq(t) \o s[n + 1]
    BY <2>2, FlattenOneMore
  <2>4. s[n + 1] = last
    BY <2>1
  <2>. QED
    BY <1>5, <2>1, <2>3, <2>4
<1>7. days = 0 => Elapsed(minutes) = <<last>> /\ FlattenSeq(Elapsed(minutes)) = last
  BY <1>3, <1>5, Zenon
<1>8. days # 0 => /\ Elapsed(minutes) = <<first, last>>
                  /\ FlattenSeq(Elapsed(minutes)) = first \o last
  BY <1>4, <1>6, Zenon
<1>. QED
  BY <1>1, <1>7, <1>8

LEMMA UptimeIs ==
    ASSUME NEW minutes
    PROVE  /\ minutes \div 1440 = 0 => uptime(minutes) = <<Since \o Rest(minutes), Users, Load>>
           /\ minutes \div 1440 # 0 =>
                 uptime(minutes) = <<Since \o Days(minutes), Rest(minutes), Users, Load>>
<1>1. PICK first, last : first = Days(minutes) /\ last = Rest(minutes)
  OBVIOUS
<1>2. PICK elapsed : elapsed = Elapsed(minutes)
  OBVIOUS
<1>3. uptime(minutes) = (<<Since \o elapsed[1]>> \o Tail(elapsed)) \o <<Users, Load>>
  BY <1>2 DEF uptime, Since, Users, Load
<1>4. ASSUME minutes \div 1440 = 0
      PROVE  uptime(minutes) = <<Since \o last, Users, Load>>
  <2>1. elapsed = <<last>>
    BY <1>1, <1>2, <1>4, ElapsedIs
  <2>2. elapsed[1] = last /\ Tail(elapsed) = <<>>
    BY <2>1
  <2>3. PICK head : head = Since \o last
    OBVIOUS
  <2>4. <<head>> \o <<>> = <<head>>
    OBVIOUS
  <2>5. <<head>> \o <<Users, Load>> = <<head, Users, Load>>
    BY OneAndTwo
  <2>. QED
    BY <1>3, <2>2, <2>3, <2>4, <2>5
<1>5. ASSUME minutes \div 1440 # 0
      PROVE  uptime(minutes) = <<Since \o first, last, Users, Load>>
  <2>1. elapsed = <<first, last>>
    BY <1>1, <1>2, <1>5, ElapsedIs
  <2>2. elapsed[1] = first /\ Tail(elapsed) = <<last>>
    BY <2>1
  <2>3. PICK head : head = Since \o first
    OBVIOUS
  <2>4. <<head>> \o <<last>> = <<head, last>>
    BY OneAndOne
  <2>5. <<head, last>> \o <<Users, Load>> = <<head, last, Users, Load>>
    BY TwoAndTwo
  <2>. QED
    BY <1>3, <2>2, <2>3, <2>4, <2>5
<1>. QED
  BY <1>1, <1>4, <1>5

(* The parts are sequences of fields that end no part that counts.         *)
Plain(s) ==
    /\ DOMAIN s = 1 .. Len(s) /\ Len(s) \in Nat /\ s = [i \in 1 .. Len(s) |-> s[i]]
    /\ \A i \in 1 .. Len(s) : s[i] \notin {Word("user"), Word("users"), Word("load")}
    /\ \A i \in 1 .. Len(s) : s[i] # Word("up")

(* The parts of a time are of that kind.                                   *)
LEMMA PlainFields ==
    ASSUME NEW n, NEW m, NEW stop \in {"user", "users", "load", "up"}
    PROVE  /\ Num(n) # Word(stop) /\ Clock(n, m) # Word(stop) /\ Word("min") # Word(stop)
           /\ Word("day") # Word(stop) /\ Word("days") # Word(stop)
<1>1. Word(stop).kind = "word" /\ Word(stop).word = stop
  BY DEF Word, Field
<1>2. Num(n).kind = "number" /\ Clock(n, m).kind = "clock"
  BY DEF Num, Clock, Field
<1>3. Word("min").word = "min" /\ Word("day").word = "day" /\ Word("days").word = "days"
  BY DEF Word, Field
<1>. QED
  BY <1>1, <1>2, <1>3

LEMMA DaysPlain ==
    ASSUME NEW minutes
    PROVE  Plain(Days(minutes)) /\ Len(Days(minutes)) = 2
<1>1. PICK day \in {"day", "days"} : day = IF minutes \div 1440 = 1 THEN "day" ELSE "days"
  OBVIOUS
<1>2. PICK days : days = minutes \div 1440
  OBVIOUS
<1>3. PICK s, a, b : s = <<a, b>> /\ a = Num(days) /\ b = Word(day)
  OBVIOUS
<1>4. /\ DOMAIN s = 1 .. 2 /\ Len(s) = 2 /\ s = [i \in 1 .. 2 |-> s[i]]
      /\ s[1] = a /\ s[2] = b
  BY <1>3
<1>5. /\ a \notin {Word("user"), Word("users"), Word("load"), Word("up")}
      /\ b \notin {Word("user"), Word("users"), Word("load"), Word("up")}
  <2>1. \A stop \in {"user", "users", "load", "up"} : a # Word(stop) /\ b # Word(stop)
    BY <1>3, PlainFields
  <2>. QED
    BY <2>1
<1>6. Plain(s)
  BY <1>4, <1>5 DEF Plain
<1>. QED
  BY <1>1, <1>2, <1>3, <1>4, <1>6 DEF Days

LEMMA RestPlain ==
    ASSUME NEW minutes
    PROVE  Plain(Rest(minutes)) /\ Len(Rest(minutes)) \in 1 .. 2
<1>1. PICK c, a, b : /\ c = Clock((minutes % 1440) \div 60, minutes % 60)
                     /\ a = Num(minutes % 60) /\ b = Word("min")
  OBVIOUS
<1>2. PICK s, t : s = <<c>> /\ t = <<a, b>>
  OBVIOUS
<1>3. /\ DOMAIN s = 1 .. 1 /\ Len(s) = 1 /\ s = [i \in 1 .. 1 |-> s[i]] /\ s[1] = c
      /\ DOMAIN t = 1 .. 2 /\ Len(t) = 2 /\ t = [i \in 1 .. 2 |-> t[i]]
      /\ t[1] = a /\ t[2] = b
  BY <1>2
<1>4. /\ a \notin {Word("user"), Word("users"), Word("load"), Word("up")}
      /\ b \notin {Word("user"), Word("users"), Word("load"), Word("up")}
      /\ c \notin {Word("user"), Word("users"), Word("load"), Word("up")}
  <2>1. \A stop \in {"user", "users", "load", "up"} :
           a # Word(stop) /\ b # Word(stop) /\ c # Word(stop)
    BY <1>1, PlainFields
  <2>. QED
    BY <2>1
<1>5. Plain(s) /\ Plain(t)
  BY <1>3, <1>4 DEF Plain
<1>6. Rest(minutes) = s \/ Rest(minutes) = t
  BY <1>1, <1>2 DEF Rest
<1>. QED
  BY <1>3, <1>5, <1>6

(* The fields of a time, and what stands before it.                        *)
LEMMA SinceOf ==
    ASSUME NEW s, Plain(s)
    PROVE  /\ Len(Since \o s) = Len(s) + 2 /\ Len(Since \o s) \in Nat
           /\ \A i \in 1 .. Len(Since \o s) :
                 (Since \o s)[i] \notin {Word("user"), Word("users"), Word("load")}
           /\ (Since \o s)[1] = Clock(10, 12) /\ (Since \o s)[2] = Word("up")
           /\ SubSeq(Since \o s, 3, Len(Since \o s)) = s
           /\ Since \o s \in Seq(ToSet(Since \o s))
<1>1. PICK m : m = Len(s)
  OBVIOUS
<1>2. PICK a, b : a = Clock(10, 12) /\ b = Word("up")
  OBVIOUS
<1>3. PICK u : u = <<a, b>> \o s
  OBVIOUS
<1>4. /\ m \in Nat /\ DOMAIN s = 1 .. m /\ s = [i \in 1 .. m |-> s[i]]
      /\ \A i \in 1 .. m : s[i] \notin {Word("user"), Word("users"), Word("load")}
  BY <1>1 DEF Plain
<1>5. Len(u) = m + 2 /\ u[1] = a /\ u[2] = b
  BY <1>3, <1>4, BehindTwo
<1>6. \A i \in 1 .. m : u[2 + i] = s[i]
  BY <1>3, <1>4, BehindTwo
<1>7. SubSeq(u, 3, Len(u)) = s
  BY <1>3, <1>4, BehindTwo
<1>8. ASSUME NEW i \in 1 .. Len(u)
      PROVE  u[i] \notin {Word("user"), Word("users"), Word("load")}
  <2>1. \A stop \in {"user", "users", "load", "up"} : a # Word(stop)
    BY <1>2, PlainFields
  <2>2. b \notin {Word("user"), Word("users"), Word("load")}
    BY <1>2 DEF Word, Field
  <2>3. i = 1 \/ i = 2 \/ \E j \in 1 .. m : i = 2 + j
    <3>1. i = 1 \/ i = 2 \/ i - 2 \in 1 .. m
      BY <1>4, <1>5
    <3>2. i - 2 \in 1 .. m => i = 2 + (i - 2)
      BY <1>4, <1>5
    <3>. QED
      BY <3>1, <3>2
  <2>. QED
    BY <1>4, <1>5, <1>6, <2>1, <2>2, <2>3
<1>9. u \in Seq(ToSet(u))
  <2>1. PICK n, l, t : n = 2 /\ t = <<a, b>> /\ l = m + 2
    OBVIOUS
  <2>2. /\ n \in Nat /\ DOMAIN t = 1 .. n /\ t = [i \in 1 .. n |-> t[i]] /\ u = t \o s
    BY <1>3, <2>1
  <2>3. DOMAIN u = 1 .. n + m /\ u = [i \in 1 .. n + m |-> u[i]]
    BY <1>4, <2>2, Joining
  <2>4. l \in Nat /\ DOMAIN u = 1 .. l /\ u = [i \in 1 .. l |-> u[i]]
    BY <1>4, <2>1, <2>3
  <2>. QED
    BY <2>4, Numbered
<1>10. u = Since \o s
  BY <1>2, <1>3 DEF Since
<1>11. Len(u) \in Nat
  BY <1>4, <1>5
<1>. QED
  BY <1>1, <1>2, <1>5, <1>7, <1>8, <1>9, <1>10, <1>11

(* What is told of the users ends what is read.                            *)
LEMMA UsersDropped ==
    ASSUME NEW l \in Nat, NEW segments, Len(segments) = l, NEW n \in Nat, n + 1 \in 1 .. l,
           \A i \in 1 .. n : /\ DOMAIN segments[i] = 1 .. Len(segments[i])
                             /\ \A j \in 1 .. Len(segments[i]) :
                                   segments[i][j] \notin {Word("user"), Word("users"), Word("load")},
           segments[n + 1] = Users
    PROVE  BeforeUsers(segments) = SubSeq(segments, 1, n)
<1>1. PICK d : d = {i \in 1 .. Len(segments) :
                       {Word("user"), Word("users"), Word("load")} \cap ToSet(segments[i]) # {}}
  OBVIOUS
<1>2. PICK k : k = n + 1
  OBVIOUS
<1>3. k \in Int /\ k - 1 = n /\ k # 0
  BY <1>2
<1>4. k \in d
  <2>1. Word("users") \in ToSet(Users)
    <3>1. PICK s, a, b : s = <<a, b>> /\ a = Num(2) /\ b = Word("users")
      OBVIOUS
    <3>2. b \in {s[i] : i \in DOMAIN s}
      BY <3>1
    <3>. QED
      BY <3>1, <3>2 DEF Users, ToSet
  <2>. QED
    BY <1>1, <1>2, <2>1
<1>5. \A i \in 1 .. n : i \notin d
  <2>1. ASSUME NEW i \in 1 .. n
        PROVE  {Word("user"), Word("users"), Word("load")} \cap ToSet(segments[i]) = {}
    BY DEF ToSet
  <2>. QED
    BY <1>1, <2>1
<1>6. d \subseteq Int /\ \A i \in d : k <= i
  <2>1. \A i \in d : i \in 1 .. l
    BY <1>1
  <2>2. \A i \in 1 .. l : i \in 1 .. n \/ k <= i
    BY <1>2
  <2>. QED
    BY <1>5, <2>1, <2>2
<1>7. Min(d) = k
  BY <1>3, <1>4, <1>6, MinIs
<1>8. SelectInSeq(segments, LAMBDA segment :
         {Word("user"), Word("users"), Word("load")} \cap ToSet(segment) # {}) = k
  BY <1>1, <1>4, <1>7 DEF SelectInSeq
<1>. QED
  BY <1>3, <1>8 DEF BeforeUsers

(* What follows "up".                                                     *)
LEMMA UpFound ==
    ASSUME NEW t, Plain(t), NEW u, u = Since \o t
    PROVE  SelectInSeq(u, LAMBDA field : field = Word("up")) = 2 /\ SubSeq(u, 3, Len(u)) = t
<1>1. /\ Len(u) = Len(t) + 2 /\ u[1] = Clock(10, 12) /\ u[2] = Word("up")
      /\ SubSeq(u, 3, Len(u)) = t
  BY SinceOf
<1>2. Clock(10, 12) # Word("up")
  BY PlainFields
<1>3. SelectInSeq(u, LAMBDA field : field = Word("up")) = 2
  <2>1. PICK d, l : d = {i \in 1 .. Len(u) : u[i] = Word("up")} /\ l = Len(t)
    OBVIOUS
  <2>2. l \in Nat /\ Len(u) = l + 2
    BY <1>1, <2>1 DEF Plain
  <2>3. 2 \in d /\ 1 \notin d
    BY <1>1, <1>2, <2>1, <2>2
  <2>4. d \subseteq Int /\ \A i \in d : 2 <= i
    <3>1. \A i \in d : i \in 1 .. l + 2
      BY <2>1, <2>2
    <3>. QED
      BY <2>2, <2>3, <3>1
  <2>5. Min(d) = 2
    BY <2>3, <2>4, MinIs
  <2>. QED
    BY <2>1, <2>3, <2>5 DEF SelectInSeq
<1>. QED
  BY <1>1, <1>3

(* The minutes in the fields that follow "up".                             *)
MinutesIn(line) ==
    LET up == SelectInSeq(line, LAMBDA field : field = Word("up"))
    IN IF up = 0 THEN 0 ELSE Minutes(SubSeq(line, up + 1, Len(line)))

(* The time since the host is up is read of what stands before the users.  *)
LEMMA TimeRead ==
    ASSUME NEW segments, NEW t, Plain(t), FlattenSeq(BeforeUsers(segments)) = Since \o t
    PROVE  parse_uptime(segments) = Minutes(t)
<1>1. PICK u : u = Since \o t
  OBVIOUS
<1>2. SelectInSeq(u, LAMBDA field : field = Word("up")) = 2 /\ SubSeq(u, 3, Len(u)) = t
  BY <1>1, UpFound
<1>3. PICK up, rest : up = 2 /\ rest = SubSeq(u, up + 1, Len(u))
  OBVIOUS
<1>4. rest = t /\ up # 0
  BY <1>2, <1>3
<1>5. parse_uptime(segments) = MinutesIn(FlattenSeq(BeforeUsers(segments)))
  BY DEF parse_uptime, Minutes, MinutesIn
<1>6. MinutesIn(u) = IF up = 0 THEN 0 ELSE Minutes(rest)
  BY <1>2, <1>3 DEF MinutesIn
<1>. QED
  BY <1>1, <1>4, <1>5, <1>6

(* Parts of that kind, one behind the other.                               *)
LEMMA PlainJoined ==
    ASSUME NEW s, Plain(s), NEW t, Plain(t)
    PROVE  Plain(s \o t)
<1>1. PICK n, m, u : n = Len(s) /\ m = Len(t) /\ u = s \o t
  OBVIOUS
<1>2. /\ n \in Nat /\ DOMAIN s = 1 .. n /\ s = [i \in 1 .. n |-> s[i]]
      /\ m \in Nat /\ DOMAIN t = 1 .. m /\ t = [i \in 1 .. m |-> t[i]]
  BY <1>1 DEF Plain
<1>3. \A i \in 1 .. n : u[i] = s[i]
  BY <1>1, <1>2, Joining
<1>4. \A i \in 1 .. m : u[n + i] = t[i]
  BY <1>1, <1>2, Joining
<1>5. PICK l : l = n + m
  OBVIOUS
<1>6. Len(u) = l
  BY <1>1, <1>2, <1>5, Joining
<1>7. DOMAIN u = 1 .. l /\ u = [i \in 1 .. l |-> u[i]]
  BY <1>1, <1>2, <1>5, Joining
<1>8. l \in Nat
  BY <1>2, <1>5
<1>9. ASSUME NEW i \in 1 .. l
      PROVE  u[i] \notin {Word("user"), Word("users"), Word("load")} /\ u[i] # Word("up")
  <2>1. CASE i <= n
    <3>1. i \in 1 .. n
      BY <1>2, <1>8, <2>1
    <3>. QED
      BY <1>1, <1>3, <3>1 DEF Plain
  <2>2. CASE ~(i <= n)
    <3>1. i - n \in 1 .. m /\ n + (i - n) = i
      BY <1>2, <1>5, <1>8, <2>2
    <3>2. u[i] = t[i - n]
      BY <1>4, <3>1
    <3>. QED
      BY <1>1, <3>1, <3>2 DEF Plain
  <2>. QED
    BY <2>1, <2>2
<1>. QED
  BY <1>1, <1>6, <1>7, <1>8, <1>9 DEF Plain

(* The time is as it was printed ...                                       *)
LEMMA ElapsedRead ==
    ASSUME NEW minutes \in Nat, NEW t, t = FlattenSeq(Elapsed(minutes))
    PROVE  Minutes(t) = minutes /\ Plain(t)
<1>1. PICK d, h, m : /\ d = minutes \div 1440 /\ h = (minutes % 1440) \div 60
                     /\ m = minutes % 60
  OBVIOUS
<1>2. d \in Int /\ h \in Int /\ m \in Int /\ h >= 0
  BY <1>1
<1>3. minutes = 1440 * d + 60 * h + m
  BY <1>1
<1>4. PICK day \in {"day", "days"} : day = IF d = 1 THEN "day" ELSE "days"
  OBVIOUS
<1>5. Days(minutes) = <<Num(d), Word(day)>>
  BY <1>1, <1>4 DEF Days
<1>6. /\ h > 0 => Rest(minutes) = <<Clock(h, m)>>
      /\ ~(h > 0) => Rest(minutes) = <<Num(m), Word("min")>>
  BY <1>1 DEF Rest
<1>7. CASE d = 0
  <2>1. t = Rest(minutes)
    BY <1>1, <1>7, ElapsedIs
  <2>2. Minutes(t) = 60 * h + m
    <3>1. Minutes(<<Clock(h, m)>>) = 60 * h + m
      BY <1>2, ClockRead
    <3>2. Minutes(<<Num(m), Word("min")>>) = m
      BY <1>2, MinutesRead
    <3>. QED
      BY <1>2, <1>6, <2>1, <3>1, <3>2
  <2>. QED
    BY <1>2, <1>3, <1>7, <2>1, <2>2, RestPlain
<1>8. CASE d # 0
  <2>1. t = Days(minutes) \o Rest(minutes)
    BY <1>1, <1>8, ElapsedIs
  <2>2. h > 0 => t = <<Num(d), Word(day), Clock(h, m)>>
    BY <1>5, <1>6, <2>1, TwoAndOne
  <2>3. ~(h > 0) => t = <<Num(d), Word(day), Num(m), Word("min")>>
    BY <1>5, <1>6, <2>1, TwoAndTwo
  <2>4. h > 0 => Minutes(t) = 1440 * d + 60 * h + m
    <3>1. Minutes(<<Num(d), Word(day), Clock(h, m)>>) = 1440 * d + 60 * h + m
      BY <1>2, DaysAndClockRead
    <3>. QED
      BY <2>2, <3>1
  <2>5. ~(h > 0) => Minutes(t) = 1440 * d + m
    <3>1. Minutes(<<Num(d), Word(day), Num(m), Word("min")>>) = 1440 * d + m
      BY <1>2, DaysAndMinutesRead
    <3>. QED
      BY <2>3, <3>1
  <2>6. Plain(t)
    BY <2>1, DaysPlain, RestPlain, PlainJoined
  <2>. QED
    BY <1>2, <1>3, <2>4, <2>5, <2>6
<1>. QED
  BY <1>7, <1>8

(* ... and found.                                                          *)
UptimeText(minutes, l, segments) ==
    /\ segments = uptime(minutes)
    /\ segments \in Seq(ToSet(segments)) /\ Len(segments) = l
    /\ segments[l - 1] = Users /\ segments[l] = Load
    /\ FlattenSeq(SubSeq(segments, 1, l - 2)) = Since \o FlattenSeq(Elapsed(minutes))
    /\ \A i \in 1 .. l - 2 :
          /\ DOMAIN segments[i] = 1 .. Len(segments[i]) /\ Len(segments[i]) \in Nat
          /\ \A j \in 1 .. Len(segments[i]) :
                segments[i][j] \notin {Word("user"), Word("users"), Word("load")}

(* The fields of the part that is found.                                   *)
LEMMA UptimeFields ==
    ASSUME NEW minutes \in Nat
    PROVE  \E l \in 3 .. 4 : \E segments : UptimeText(minutes, l, segments)
<1>1. PICK first, last, segments, users, load :
        /\ first = Days(minutes) /\ last = Rest(minutes)
        /\ segments = uptime(minutes) /\ users = Users /\ load = Load
  OBVIOUS
<1>2. Plain(first) /\ Plain(last)
  BY <1>1, DaysPlain, RestPlain
<1>3. CASE minutes \div 1440 = 0
  <2>1. PICK p : p = Since \o last
    OBVIOUS
  <2>2. segments = <<p, users, load>> /\ FlattenSeq(Elapsed(minutes)) = last
    <3>1. uptime(minutes) = <<Since \o Rest(minutes), Users, Load>>
      BY <1>3, UptimeIs
    <3>2. FlattenSeq(Elapsed(minutes)) = Rest(minutes)
      BY <1>3, ElapsedIs
    <3>. QED
      BY <1>1, <2>1, <3>1, <3>2, Zenon
  <2>3. /\ Len(segments) = 3 /\ segments[1] = p /\ segments[2] = users /\ segments[3] = load
        /\ segments \in Seq({p, users, load})
        /\ DOMAIN segments = 1 .. 3 /\ segments = [i \in 1 .. 3 |-> segments[i]]
    BY <2>2
  <2>4. segments \in Seq(ToSet(segments))
    BY <2>3, Numbered
  <2>5. SubSeq(segments, 1, 1) = <<p>>
    <3>1. PICK u : u = SubSeq(segments, 1, 1)
      OBVIOUS
    <3>2. u \in Seq({p, users, load}) /\ Len(u) = 1 /\ u[1] = p
      BY <2>3, <3>1
    <3>3. u = <<p>>
      BY <3>2
    <3>. QED
      BY <3>1, <3>3
  <2>6. FlattenSeq(SubSeq(segments, 1, 1)) = Since \o FlattenSeq(Elapsed(minutes))
    BY <2>1, <2>2, <2>5, OneLine
  <2>7. /\ DOMAIN p = 1 .. Len(p)
        /\ \A j \in 1 .. Len(p) : p[j] \notin {Word("user"), Word("users"), Word("load")}
        /\ Len(p) \in Nat
    BY <1>2, <2>1, SinceOf
  <2>8. PICK l \in 3 .. 4 : l = 3
    OBVIOUS
  <2>9. l - 2 = 1 /\ l - 1 = 2
    BY <2>8
  <2>10. /\ segments[l - 1] = Users /\ segments[l] = Load 
         /\ Len(segments) = l
    BY <1>1, <2>3, <2>7, <2>8, <2>9
  <2>11. \A i \in 1 .. l - 2 : segments[i] = p
    BY <2>3, <2>9
  <2>12. FlattenSeq(SubSeq(segments, 1, l - 2)) = Since \o FlattenSeq(Elapsed(minutes))
    BY <2>6, <2>9
  <2>13. UptimeText(minutes, l, segments)
    BY <1>1, <2>4, <2>7, <2>10, <2>11, <2>12 DEF UptimeText
  <2>. QED
    BY <2>13
<1>4. CASE minutes \div 1440 # 0
  <2>1. PICK p : p = Since \o first
    OBVIOUS
  <2>2. segments = <<p, last, users, load>> /\ FlattenSeq(Elapsed(minutes)) = first \o last
    BY <1>1, <1>4, <2>1, UptimeIs, ElapsedIs
  <2>3. /\ Len(segments) = 4 /\ segments[1] = p /\ segments[2] = last /\ segments[3] = users
        /\ segments[4] = load /\ segments \in Seq({p, last, users, load})
        /\ DOMAIN segments = 1 .. 4 /\ segments = [i \in 1 .. 4 |-> segments[i]]
    BY <2>2
  <2>4. segments \in Seq(ToSet(segments))
    BY <2>3, Numbered
  <2>5. FlattenSeq(SubSeq(segments, 1, 2)) = p \o last
    <3>1. PICK n, u, v : n = 1 /\ u = SubSeq(segments, 1, 2) /\ v = <<p>>
      OBVIOUS
    <3>2. u \in Seq({p, last, users, load}) /\ Len(u) = 2 /\ u[1] = p /\ u[2] = last
      BY <2>3, <3>1
    <3>3. n \in Nat \ {0} /\ Len(u) = n + 1 /\ Len(v) = n /\ \A i \in 1 .. n : v[i] = u[i]
      BY <3>1, <3>2
    <3>4. FlattenSeq(u) = FlattenSeq(v) \o u[n + 1]
      BY <3>3, FlattenOneMore
    <3>5. FlattenSeq(v) = p /\ u[n + 1] = last
      BY <3>1, <3>2, OneLine
    <3>. QED
      BY <3>1, <3>4, <3>5
  <2>6. p \o last = Since \o (first \o last)
    <3>1. PICK a, b : a = Clock(10, 12) /\ b = Word("up")
      OBVIOUS
    <3>2. PICK T : T = {a, b} \union ToSet(first) \union ToSet(last)
      OBVIOUS
    <3>3. PICK s : s = <<a, b>>
      OBVIOUS
    <3>4. s \in Seq(T)
      BY <3>2, <3>3
    <3>5. first \in Seq(ToSet(first)) /\ last \in Seq(ToSet(last))
      <4>1. PICK n, m : n = Len(first) /\ m = Len(last)
        OBVIOUS
      <4>2. /\ n \in Nat /\ DOMAIN first = 1 .. n /\ first = [i \in 1 .. n |-> first[i]]
            /\ m \in Nat /\ DOMAIN last = 1 .. m /\ last = [i \in 1 .. m |-> last[i]]
        BY <1>2, <4>1 DEF Plain
      <4>3. first \in Seq(ToSet(first))
        BY <4>2, Numbered
      <4>4. last \in Seq(ToSet(last))
        BY <4>2, Numbered
      <4>. QED
        BY <4>3, <4>4
    <3>6. ToSet(first) \subseteq T /\ ToSet(last) \subseteq T
      BY <3>2
    <3>7. first \in Seq(T) /\ last \in Seq(T)
      BY <3>5, <3>6
    <3>8. (s \o first) \o last = s \o (first \o last)
      BY <3>4, <3>7, ConcatAssociative
    <3>9. s = Since
      BY <3>1, <3>3 DEF Since
    <3>. QED
      BY <2>1, <3>8, <3>9
  <2>7. /\ DOMAIN p = 1 .. Len(p)
        /\ \A j \in 1 .. Len(p) : p[j] \notin {Word("user"), Word("users"), Word("load")}
        /\ Len(p) \in Nat
    BY <1>2, <2>1, SinceOf
  <2>8. /\ DOMAIN last = 1 .. Len(last) /\ Len(last) \in Nat
        /\ \A j \in 1 .. Len(last) : last[j] \notin {Word("user"), Word("users"), Word("load")}
    BY <1>2 DEF Plain
  <2>9. PICK l \in 3 .. 4 : l = 4
    OBVIOUS
  <2>10. l - 2 = 2 /\ l - 1 = 3
    BY <2>9
  <2>11. /\ segments[l - 1] = Users /\ segments[l] = Load
         /\ Len(segments) = l
    BY <1>1, <2>3, <2>7, <2>9, <2>10
  <2>12. \A i \in 1 .. l - 2 : segments[i] = p \/ segments[i] = last
    BY <2>3, <2>10
  <2>13. FlattenSeq(SubSeq(segments, 1, l - 2)) = Since \o FlattenSeq(Elapsed(minutes))
    BY <2>2, <2>5, <2>6, <2>10
  <2>14. UptimeText(minutes, l, segments)
    BY <1>1, <2>4, <2>7, <2>8, <2>11, <2>12, <2>13 DEF UptimeText
  <2>. QED
    BY <2>14
<1>. QED
  BY <1>3, <1>4

(* The minutes of what uptime printed are those that were given.           *)
LEMMA UptimeRead ==
    ASSUME NEW minutes \in Nat
    PROVE  parse_uptime(uptime(minutes)) = minutes
<1>1. PICK l \in 3 .. 4 : \E segments : UptimeText(minutes, l, segments)
  BY UptimeFields
<1>2. PICK segments : UptimeText(minutes, l, segments)
  BY <1>1
<1>3. PICK n : n = l - 2
  OBVIOUS
<1>4. l \in Nat /\ n \in Nat /\ n + 1 \in 1 .. l /\ n + 1 = l - 1
  BY <1>3
<1>5. BeforeUsers(segments) = SubSeq(segments, 1, n)
  <2>1. Len(segments) = l /\ segments[n + 1] = Users
    BY <1>2, <1>4 DEF UptimeText
  <2>2. \A i \in 1 .. n :
           /\ DOMAIN segments[i] = 1 .. Len(segments[i])
           /\ \A j \in 1 .. Len(segments[i]) :
                 segments[i][j] \notin {Word("user"), Word("users"), Word("load")}
    BY <1>2, <1>3 DEF UptimeText
  <2>. QED
    BY <1>4, <2>1, <2>2, UsersDropped
<1>6. PICK t : t = FlattenSeq(Elapsed(minutes))
  OBVIOUS
<1>7. FlattenSeq(BeforeUsers(segments)) = Since \o t
  BY <1>2, <1>3, <1>5, <1>6 DEF UptimeText
<1>. QED
  BY <1>2, <1>6, <1>7, TimeRead, ElapsedRead DEF UptimeText

(* The host name that hostnamectl gives, and else uname.                   *)
HostnameOf(hostnamectl, names) ==
    LET static == Get(hostnamectl, "static hostname", Word(""))
        transient == Get(hostnamectl, "transient hostname", Word(""))
        named == FirstOf(<<static, transient, Word("unknown")>>)
    IN IF named = Word("unknown") /\ Len(names) > 1 THEN names[2] ELSE named

(* What is told of a system, one by one.                                   *)
LEMMA SystemIs ==
    ASSUME NEW a, NEW b, NEW c, NEW d, NEW e, NEW f, HostnameOf(a, b) # Word("unknown")
    PROVE  LET system == SystemParser(a, b, c, d, e, f)
           IN /\ system.valid
              /\ system.metrics.hostname = HostnameOf(a, b)
              /\ system.metrics.logical_cpu_count = Count(d, "cpu(s)", 0, 0)
              /\ system.metrics.system_uptime = parse_uptime(e)
<1>1. SystemParser(a, b, c, d, e, f).valid
  BY Zenon DEF SystemParser, HostnameOf, Valid
<1>2. SystemParser(a, b, c, d, e, f).metrics.hostname = HostnameOf(a, b)
  BY Zenon DEF SystemParser, HostnameOf, Valid
<1>3. SystemParser(a, b, c, d, e, f).metrics.logical_cpu_count = Count(d, "cpu(s)", 0, 0)
  BY Zenon DEF SystemParser, HostnameOf, Valid
<1>4. SystemParser(a, b, c, d, e, f).metrics.system_uptime = parse_uptime(e)
  BY Zenon DEF SystemParser, HostnameOf, Valid
<1>. QED
  BY <1>1, <1>2, <1>3, <1>4

(* The value of a key, when the other line has another key.                *)
LEMMA GetOther ==
    ASSUME NEW pairs, Len(pairs) = 1, NEW key, pairs[1].key # key, NEW default
    PROVE  Get(pairs, key, default) = default
<1>1. PICK n : n = 1
  OBVIOUS
<1>2. n \in Nat /\ Len(pairs) = n /\ \A j \in 1 .. n : pairs[j].key # key
  BY <1>1
<1>. QED
  BY <1>2, GetMissing

(* The names that a host may have.                                         *)
AnyName(name) == name \notin {Word(""), Word("unknown")}

(* Which it is, whether hostnamectl is there or not.                       *)
LEMMA HostnameRead ==
    ASSUME NEW old, AnyName(old), NEW new, AnyName(new)
    PROVE  /\ HostnameOf(<<Pair("static hostname", old)>>, uname(new)) = old
           /\ HostnameOf(<<>>, uname(new)) = new
<1>1. PICK none : none = Word("")
  OBVIOUS
<1>2. PICK names : names = uname(new)
  OBVIOUS
<1>3. Len(names) > 1 /\ names[2] = new
  BY <1>2 DEF uname
<1>4. Word("unknown") # none
  BY <1>1 DEF Word, Field
<1>5. PICK pairs, pair : pairs = <<pair>> /\ pair = Pair("static hostname", old)
  OBVIOUS
<1>6. /\ Len(pairs) = 1 /\ pairs[1] = pair
      /\ pair.key = "static hostname" /\ pair.value = old
  BY <1>5 DEF Pair
<1>7. Get(pairs, "static hostname", none) = old
  BY <1>6, GetOne
<1>8. Get(pairs, "transient hostname", none) = none
  <2>1. Len(pairs) = 1 /\ pairs[1].key # "transient hostname"
    BY <1>6, Zenon
  <2>. QED
    BY <2>1, GetOther, Zenon
<1>9. PICK empty : empty = <<>>
  OBVIOUS
<1>10. /\ Get(empty, "static hostname", none) = none
       /\ Get(empty, "transient hostname", none) = none
  <2>1. Len(empty) = 0
    BY <1>9
  <2>. QED
    BY <2>1, GetNone
<1>11. PICK last : last = Word("unknown")
  OBVIOUS
<1>12. IsEmpty(none) /\ old # none
  BY <1>1, Zenon DEF IsEmpty, AnyName
<1>13. FirstOf(<<old, none, last>>) = old
  BY <1>12, FirstOfThree
<1>14. FirstOf(<<none, none, last>>) = last
  BY <1>12, FirstOfThree
<1>15. HostnameOf(pairs, names) = old
  BY <1>1, <1>7, <1>8, <1>11, <1>13, Zenon DEF HostnameOf, AnyName
<1>16. HostnameOf(empty, names) = new
  BY <1>1, <1>3, <1>10, <1>11, <1>14, Zenon DEF HostnameOf
<1>. QED
  BY <1>2, <1>5, <1>9, <1>15, <1>16

(* The hosts whose systems are read.                                       *)
AnySystem(f) ==
    /\ AnyName(f.hostname)
    /\ f.cores \in Nat /\ f.minutes \in Nat

(* What the commands of the reading are, and print.                        *)
LEMMA SystemScript ==
    ASSUME reader = "system_collector"
    PROVE  /\ Script.commands = 6 /\ Script.on = "system" /\ Script.cut = <<>>
           /\ Script.tolerated = {1, 6}
  BY DEF Script, Readings, Local, Reading

LEMMA SystemPrints ==
    ASSUME reader = "system_collector", NEW f, NEW before
    PROVE  /\ Printed(f, before)[1] = <<Pair("static hostname", f.hostname)>>
           /\ Printed(f, before)[2] = uname(f.hostname)
           /\ Printed(f, before)[4] = lscpu(f.cores)
           /\ Printed(f, before)[5] = uptime(f.minutes)
  BY DEF Printed

(* The system that the agent reads on its own host.                        *)
LEMMA SystemLocal ==
    ASSUME ReadingInv, \A f \in Facts["system"] : AnySystem(f),
           reader = "system_collector", Current > Script.commands
    PROVE  LET system == SystemParser(outputs[1], outputs[2], outputs[3], outputs[4],
                                      outputs[5], FirstOf(outputs[6] \o <<Word("")>>))
           IN /\ system.valid
              /\ system.metrics.hostname =
                    IF outputs[1] = <<>> THEN seen[2].hostname ELSE seen[1].hostname
              /\ system.metrics.logical_cpu_count = seen[4].cores
              /\ system.metrics.system_uptime = seen[5].minutes
<1>1. PICK last : last = FirstOf(outputs[6] \o <<Word("")>>)
  OBVIOUS
<1>2. \A i \in 1 .. 6 :
         /\ AnySystem(seen[i])
         /\ Complete(i) => outputs[i] = Printed(seen[i], SubSeq(outputs, 1, i - 1))[i]
         /\ ~Complete(i) => i \in {1, 6} /\ outputs[i] = Unread(i)
  <2>1. ASSUME NEW i \in 1 .. 6
        PROVE  /\ seen[i] \in Facts["system"]
               /\ Complete(i) => outputs[i] = Printed(seen[i], SubSeq(outputs, 1, i - 1))[i]
               /\ ~Complete(i) => i \in {1, 6} /\ outputs[i] = Unread(i)
    <3>1. /\ Script.commands = 6 /\ Script.on = "system" /\ Script.cut = <<>>
          /\ Script.tolerated = {1, 6}
      BY SystemScript
    <3>2. 6 \in Nat
      OBVIOUS
    <3>. QED
      BY <3>1, <3>2, LocalBack
  <2>. QED
    BY <2>1
<1>3. Unread(1) = <<>>
  BY DEF Unread
<1>4. outputs[2] = uname(seen[2].hostname)
  <2>1. Complete(2) /\ outputs[2] = Printed(seen[2], SubSeq(outputs, 1, 2 - 1))[2]
    BY <1>2
  <2>. QED
    BY <2>1, SystemPrints, Zenon
<1>5. outputs[4] = lscpu(seen[4].cores)
  <2>1. Complete(4) /\ outputs[4] = Printed(seen[4], SubSeq(outputs, 1, 4 - 1))[4]
    BY <1>2
  <2>. QED
    BY <2>1, SystemPrints, Zenon
<1>6. outputs[5] = uptime(seen[5].minutes)
  <2>1. Complete(5) /\ outputs[5] = Printed(seen[5], SubSeq(outputs, 1, 5 - 1))[5]
    BY <1>2
  <2>. QED
    BY <2>1, SystemPrints, Zenon
<1>7. outputs[1] = <<Pair("static hostname", seen[1].hostname)>> \/ outputs[1] = <<>>
  <2>1. /\ Complete(1) => outputs[1] = Printed(seen[1], SubSeq(outputs, 1, 1 - 1))[1]
        /\ ~Complete(1) => outputs[1] = Unread(1)
    BY <1>2
  <2>. QED
    BY <1>3, <2>1, SystemPrints, Zenon
<1>8. /\ AnyName(seen[1].hostname) /\ AnyName(seen[2].hostname)
      /\ seen[5].minutes \in Nat
  <2>1. AnySystem(seen[1]) /\ AnySystem(seen[2]) /\ AnySystem(seen[5])
    BY <1>2
  <2>. QED
    BY <2>1 DEF AnySystem
<1>9. HostnameOf(outputs[1], outputs[2])
         = IF outputs[1] = <<>> THEN seen[2].hostname ELSE seen[1].hostname
  <2>1. PICK old, new : old = seen[1].hostname /\ new = seen[2].hostname
    OBVIOUS
  <2>2. /\ HostnameOf(<<Pair("static hostname", old)>>, uname(new)) = old
        /\ HostnameOf(<<>>, uname(new)) = new
    BY <1>8, <2>1, HostnameRead
  <2>3. <<Pair("static hostname", old)>> # <<>>
    OBVIOUS
  <2>. QED
    BY <1>4, <1>7, <2>1, <2>2, <2>3
<1>10. HostnameOf(outputs[1], outputs[2]) # Word("unknown")
  BY <1>8, <1>9 DEF AnyName
<1>11. Count(outputs[4], "cpu(s)", 0, 0) = seen[4].cores
  BY <1>5, CoresCounted
<1>12. parse_uptime(outputs[5]) = seen[5].minutes
  BY <1>6, <1>8, UptimeRead
<1>13. LET system == SystemParser(outputs[1], outputs[2], outputs[3], outputs[4], outputs[5], last)
       IN /\ system.valid
          /\ system.metrics.hostname = HostnameOf(outputs[1], outputs[2])
          /\ system.metrics.logical_cpu_count = Count(outputs[4], "cpu(s)", 0, 0)
          /\ system.metrics.system_uptime = parse_uptime(outputs[5])
  BY <1>10, SystemIs
<1>. QED
  BY <1>1, <1>9, <1>11, <1>12, <1>13

(* What the commands of the discovery are, and print.                      *)
LEMMA DiscoveryScript ==
    ASSUME reader = "discovery_system"
    PROVE  /\ Script.commands = 4 /\ Script.on = "system" /\ Script.tolerated = {}
           /\ Script.cut[1] = "pairs" /\ Script.cut[2] = "pairs" /\ Script.cut[3] = "pairs"
  BY DEF Script, Readings, Remote, Reading

LEMMA DiscoveryPrints ==
    ASSUME reader = "discovery_system", NEW f, NEW before
    PROVE  /\ Printed(f, before)[1] = os_release
           /\ Printed(f, before)[2] = lscpu(f.cores)
           /\ Printed(f, before)[3] = <<Pair("Time zone", Word("UTC"))>>
           /\ Printed(f, before)[4] = uptime(f.minutes)
  BY DEF Printed

(* What is left of a line with a key: the key or a part of it, and of the  *)
(* value nothing or a part.                                                *)
PairPart(part, line) ==
    /\ part.key = "..." \/ part.key = line.key
    /\ part.value = Word("") \/ part.value \in Torn(line.value)

LEMMA PairIs ==
    ASSUME NEW line, NEW part \in PartOf("pairs", line)
    PROVE  PairPart(part, line)
<1>1. \A key, value : Pair(key, value).key = key /\ Pair(key, value).value = value
  BY DEF Pair
<1>2. PartOf("pairs", line)
         = {Pair("...", Word(""))}
             \union {Pair(line.key, value) : value \in {Word("")} \union Torn(line.value)}
  BY Zenon DEF PartOf
<1>3. \/ part = Pair("...", Word(""))
      \/ \E value \in {Word("")} \union Torn(line.value) : part = Pair(line.key, value)
  BY <1>2, Zenon
<1>. QED
  <2>1. CASE part = Pair("...", Word(""))
    <3>1. part.key = "..."
      BY <1>1, <2>1, Zenon
    <3>2. part.value = Word("")
      BY <1>1, <2>1, Zenon
    <3>. QED
      BY <3>1, <3>2, Zenon DEF PairPart
  <2>2. CASE \E value \in {Word("")} \union Torn(line.value) : part = Pair(line.key, value)
    <3>1. PICK value \in {Word("")} \union Torn(line.value) : part = Pair(line.key, value)
      BY <2>2
    <3>2. part.key = line.key /\ part.value = value
      BY <1>1, <3>1, Zenon
    <3>3. value = Word("") \/ value \in Torn(line.value)
      BY <3>1, Zenon
    <3>. QED
      BY <3>2, <3>3, Zenon DEF PairPart
  <2>. QED
    BY <1>3, <2>1, <2>2, Zenon

(* What comes back of lines with keys.                                     *)
PairsLeft(front, lines, n, m) ==
    /\ DOMAIN front = 1 .. m /\ Len(front) = m /\ m \in Nat /\ (m = n \/ m = n + 1)
    /\ \A k \in 1 .. n : front[k] = lines[k]
    /\ m = n + 1 => n + 1 <= Len(lines) /\ PairPart(front[n + 1], lines[n + 1])

LEMMA PairsBack ==
    ASSUME ReadingInv, reader = "discovery_system", Current > Script.commands,
           NEW i \in 1 .. 4, i = 1 \/ i = 2 \/ i = 3, NEW lines, lines \in Seq(ToSet(lines)),
           lines = Printed(seen[i], SubSeq(outputs, 1, i - 1))[i]
    PROVE  \E n \in 0 .. Len(lines) :
              /\ \E m : PairsLeft(outputs[i], lines, n, m)
              /\ Complete(i) => n = Len(lines)
<1>1. /\ i \in DOMAIN Script.cut => Script.cut[i] = "pairs"
      /\ Script.commands \in Nat /\ i \in 1 .. Script.commands
  BY DiscoveryScript
<1>2. reader \notin {"docker_collector", "kubernetes_collector"}
  OBVIOUS
<1>3. \E n \in 0 .. Len(lines) :
         Left(outputs[i], lines, n, "pairs") /\ (Complete(i) => n = Len(lines))
  BY <1>1, <1>2, Back, Zenon
<1>4. PICK n \in 0 .. Len(lines) :
         Left(outputs[i], lines, n, "pairs") /\ (Complete(i) => n = Len(lines))
  BY <1>3
<1>5. PICK m : m = Len(outputs[i])
  OBVIOUS
<1>6. Len(lines) \in Nat /\ n \in Nat
  BY LenProperties
<1>7. /\ DOMAIN outputs[i] = 1 .. m /\ (m = n \/ m = n + 1)
      /\ \A k \in 1 .. n : outputs[i][k] = lines[k]
      /\ m = n + 1 => n < Len(lines) /\ outputs[i][n + 1] \in PartOf("pairs", lines[n + 1])
  BY <1>4, <1>5, Zenon DEF Left
<1>8. m = n + 1 => n + 1 <= Len(lines) /\ PairPart(outputs[i][n + 1], lines[n + 1])
  <2>1. n < Len(lines) => n + 1 <= Len(lines)
    BY <1>6
  <2>. QED
    BY <1>7, <2>1, PairIs, Zenon
<1>9. m \in Nat
  BY <1>6, <1>7
<1>10. PairsLeft(outputs[i], lines, n, m)
  BY <1>5, <1>7, <1>8, <1>9, Zenon DEF PairsLeft
<1>. QED
  BY <1>4, <1>10

(* The name is told as soon as the first line has come.                    *)
LEMMA NameFound ==
    ASSUME NEW n \in Nat, NEW m \in Nat, m = n \/ m = n + 1, NEW front, DOMAIN front = 1 .. m,
           NEW first, first.key = "PRETTY_NAME", first.value.kind = "quoted",
           n # 0 => front[1] = first,
           n = 0 => \A i \in 1 .. m : front[i].value.kind # "quoted"
    PROVE  Discovery!OSParser(front) = IF n # 0 THEN first.value ELSE Word("Unknown Linux")
<1>1. PICK p, q :
         /\ p = {i \in DOMAIN front : front[i].key \in {"PRETTY_NAME"} /\ front[i].value.kind = "quoted"}
         /\ q = {i \in DOMAIN front : front[i].key \in {"NAME", "CPE_NAME"}
                                      /\ front[i].value.kind = "quoted"}
  OBVIOUS
<1>2. PICK pretty, named : pretty = At(front, p) /\ named = At(front, q)
  OBVIOUS
<1>3. Discovery!OSParser(front)
         = IF pretty # <<>> THEN pretty[1].value
           ELSE IF named # <<>> THEN named[1].value ELSE Word("Unknown Linux")
  BY <1>1, <1>2, SameLines, Zenon
     DEF Discovery!OSParser, Discovery!Quoted, Discovery!Where, Discovery!Word, Discovery!Field,
         Word, Field
<1>4. CASE n = 0
  <2>1. p = {} /\ q = {}
    BY <1>1, <1>4
  <2>2. \A i \in {} : i \in 1 .. m
    OBVIOUS
  <2>3. pretty = <<>> /\ named = <<>>
    BY <1>2, <2>1, <2>2, FirstAt
  <2>. QED
    BY <1>3, <1>4, <2>3, Zenon
<1>5. CASE n # 0
  <2>1. 1 \in p /\ \A i \in p : i \in 1 .. m
    BY <1>1, <1>5
  <2>2. pretty # <<>> /\ \E i \in p : pretty[1] = front[i] /\ \A j \in p : i <= j
    BY <1>2, <2>1, FirstAt
  <2>3. pretty[1] = front[1]
    <3>1. \A i \in 1 .. m : i <= 1 => i = 1
      OBVIOUS
    <3>. QED
      BY <2>1, <2>2, <3>1, Zenon
  <2>. QED
    BY <1>3, <1>5, <2>2, <2>3, Zenon
<1>. QED
  BY <1>4, <1>5

(* The cores are those of the line that tells them, once it has come, or   *)
(* what has come of its number.                                            *)
LEMMA CoresFound ==
    ASSUME NEW n \in Nat, NEW m \in Nat, NEW front, Len(front) = m, NEW cores,
           m = n \/ m = n + 1,
           \A i \in 1 .. m : front[i].key = "cpu(s)" /\ IsNumber(front[i].value) => i = 2,
           n >= 2 => front[2].key = "cpu(s)" /\ front[2].value = Num(cores),
           m >= 2 /\ IsNumber(front[2].value) => front[2].value.num \in {cores} \union Leading(cores)
    PROVE  /\ Discovery!CPUParser(front).cores \in {1, cores} \union Leading(cores)
           /\ n >= 2 => Discovery!CPUParser(front).cores = cores
<1>1. PICK d : d = {i \in 1 .. Len(front) : front[i].key \in {"cpu(s)"} /\ IsNumber(front[i].value)}
  OBVIOUS
<1>2. /\ d = {} \/ d = {2}
      /\ 2 \in d => m >= 2 /\ IsNumber(front[2].value)
      /\ n >= 2 => 2 \in d
  <2>1. \A i \in d : i = 2 /\ m >= 2 /\ IsNumber(front[2].value)
    BY <1>1
  <2>2. n >= 2 => 2 \in d
    BY <1>1, Numbers
  <2>. QED
    BY <2>1, <2>2
<1>3. PICK last : last = IF d = {} THEN 0 ELSE Max(d)
  OBVIOUS
<1>4. last = IF d = {} THEN 0 ELSE 2
  BY <1>2, <1>3, MaxOfOne
<1>5. \A s : Discovery!Max(s) = Max(s)
  BY DEF Discovery!Max, Max
<1>6. Discovery!SelectLastInSeq(front, LAMBDA pair :
                   pair.key \in {"cpu(s)"} /\ Discovery!IsNumber(pair.value)) = last
  BY <1>1, <1>3, <1>5 DEF Discovery!SelectLastInSeq, Discovery!IsNumber, IsNumber
<1>7. Discovery!LastNumber(front, {"cpu(s)"})
         = (IF last = 0 THEN Num(1) ELSE front[last].value).num
  BY <1>6, Zenon DEF Discovery!LastNumber, Discovery!LastOf, Discovery!Num, Discovery!Field, Num, Field
<1>8. Discovery!CPUParser(front).cores = Discovery!LastNumber(front, {"cpu(s)"})
  BY Zenon DEF Discovery!CPUParser
<1>9. CASE d = {}
  <2>1. Discovery!CPUParser(front).cores = 1
    BY <1>4, <1>7, <1>8, <1>9, Numbers
  <2>. QED
    BY <1>2, <1>9, <2>1
<1>10. CASE d = {2}
  <2>1. Discovery!CPUParser(front).cores = front[2].value.num
    BY <1>4, <1>7, <1>8, <1>10
  <2>2. front[2].value.num \in {cores} \union Leading(cores)
    BY <1>2, <1>10
  <2>3. n >= 2 => front[2].value.num = cores
    BY Numbers
  <2>. QED
    BY <2>1, <2>2, <2>3
<1>. QED
  BY <1>2, <1>9, <1>10

(* The time zone is the one told, or the default.                          *)
LEMMA ZoneFound ==
    ASSUME NEW m \in 0 .. 1, NEW front, DOMAIN front = 1 .. m
    PROVE  \/ Discovery!TimezoneParser(front) = Word("UTC")
           \/ m # 0 /\ Discovery!TimezoneParser(front) = front[1].value
<1>1. PICK p : p = {i \in DOMAIN front : front[i].key \in {"Time zone", "Timezone"}}
  OBVIOUS
<1>2. PICK zones : zones = At(front, p)
  OBVIOUS
<1>3. Discovery!TimezoneParser(front) = IF zones = <<>> THEN Word("UTC") ELSE zones[1].value
  BY <1>1, <1>2, SameLines, Zenon
     DEF Discovery!TimezoneParser, Discovery!Where, Discovery!Word, Discovery!Field, Word, Field
<1>4. \A i \in p : i \in 1 .. 1 /\ m # 0
  <2>1. \A i \in p : i \in 1 .. m
    BY <1>1, Zenon
  <2>. QED
    BY <2>1
<1>5. zones # <<>> => m # 0 /\ zones[1] = front[1]
  <2>1. /\ zones = <<>> <=> p = {}
        /\ p # {} => \E i \in p : zones[1] = front[i]
    <3>1. \A i \in p : i \in 1 .. 1
      BY <1>4
    <3>. QED
      BY <1>2, <3>1, FirstAt
  <2>2. \A i \in 1 .. 1 : i = 1
    OBVIOUS
  <2>. QED
    BY <1>4, <2>1, <2>2, Zenon
<1>. QED
  BY <1>3, <1>5, Zenon

(* The time since the host is up, as a discovery takes it.                 *)
LEMMA DiscoveredUptime ==
    ASSUME NEW minutes \in Nat
    PROVE  Discovery!UptimeParser(uptime(minutes)) = FlattenSeq(Elapsed(minutes))
<1>1. PICK l \in 3 .. 4 : \E segments : UptimeText(minutes, l, segments)
  BY UptimeFields
<1>2. PICK segments : UptimeText(minutes, l, segments)
  BY <1>1
<1>3. PICK d : d = {i \in 1 .. Len(segments) :
                       /\ Len(segments[i]) > 1 /\ IsNumber(segments[i][1])
                       /\ segments[i][2] \in {Word("user"), Word("users")}}
  OBVIOUS
<1>4. PICK users : users = l - 1
  OBVIOUS
<1>5. users \in d
  <2>1. Len(segments) = l /\ segments[users] = Users
    BY <1>2, <1>4 DEF UptimeText
  <2>2. users \in 1 .. l
    BY <1>4
  <2>3. Len(Users) > 1 /\ IsNumber(Users[1]) /\ Users[2] = Word("users")
    BY Numbers DEF Users
  <2>. QED
    BY <1>3, <2>1, <2>2, <2>3
<1>6. ASSUME NEW i \in d
      PROVE  i \in Int /\ users <= i
  <2>1. i \in 1 .. l /\ Len(segments[i]) > 1 /\ segments[i][2] \in {Word("user"), Word("users")}
    BY <1>2, <1>3 DEF UptimeText
  <2>2. ~(i \in 1 .. l - 2)
    <3>1. ASSUME i \in 1 .. l - 2
          PROVE  segments[i][2] \notin {Word("user"), Word("users")}
      <4>1. PICK m : m = Len(segments[i])
        OBVIOUS
      <4>2. /\ m \in Nat
            /\ \A j \in 1 .. m : segments[i][j] \notin {Word("user"), Word("users"), Word("load")}
        BY <1>2, <3>1, <4>1 DEF UptimeText
      <4>3. 2 \in 1 .. m
        BY <2>1, <4>1, <4>2
      <4>. QED
        BY <4>2, <4>3
    <3>. QED
      BY <2>1, <3>1
  <2>. QED
    BY <1>4, <2>1, <2>2
<1>7. Min(d) = users
  <2>1. d \subseteq Int /\ \A i \in d : users <= i
    BY <1>6
  <2>. QED
    BY <1>5, <2>1, MinIs
<1>8. \A s : Discovery!Min(s) = Min(s)
  BY DEF Discovery!Min, Min
<1>9. Discovery!SelectInSeq(segments, LAMBDA s :
         /\ Len(s) > 1 /\ Discovery!IsNumber(s[1])
         /\ s[2] \in {Discovery!Word("user"), Discovery!Word("users")}) = users
  BY <1>3, <1>5, <1>7, <1>8 DEF Discovery!SelectInSeq, Discovery!IsNumber, IsNumber,
     Discovery!Word, Discovery!Field, Word, Field
<1>10. PICK t : t = FlattenSeq(Elapsed(minutes))
  OBVIOUS
<1>11. Plain(t)
  BY <1>10, ElapsedRead
<1>12. PICK u : u = Since \o t
  OBVIOUS
<1>13. FlattenSeq(SubSeq(segments, 1, users - 1)) = u
  <2>1. users - 1 = l - 2
    BY <1>4
  <2>. QED
    BY <1>2, <1>10, <1>12, <2>1 DEF UptimeText
<1>14. SelectInSeq(u, LAMBDA field : field = Word("up")) = 2 /\ SubSeq(u, 3, Len(u)) = t
  BY <1>11, <1>12, UpFound
<1>15. \A s : Discovery!FlattenSeq(s) = FlattenSeq(s)
  BY DEF Discovery!FlattenSeq, FlattenSeq
<1>16. Discovery!SelectInSeq(u, LAMBDA field : field = Discovery!Word("up")) = 2
  BY <1>8, <1>14 DEF Discovery!SelectInSeq, SelectInSeq, Discovery!Word, Discovery!Field, Word, Field
<1>17. users > 1 /\ ~(users <= 1)
  BY <1>4
<1>18. Discovery!UptimeParser(segments)
          = IF users <= 1 \/ Discovery!SelectInSeq(u, LAMBDA field : field = Discovery!Word("up")) = 0
            THEN Discovery!FlattenSeq(segments)
            ELSE SubSeq(u, Discovery!SelectInSeq(u, LAMBDA field : field = Discovery!Word("up")) + 1,
                        Len(u))
  BY <1>9, <1>13, <1>15, <1>17, Zenon DEF Discovery!UptimeParser
<1>19. Discovery!UptimeParser(segments) = SubSeq(u, 2 + 1, Len(u))
  <2>1. PICK up : up = Discovery!SelectInSeq(u, LAMBDA field : field = Discovery!Word("up"))
    OBVIOUS
  <2>2. Discovery!UptimeParser(segments)
           = IF users <= 1 \/ up = 0 THEN Discovery!FlattenSeq(segments)
             ELSE SubSeq(u, up + 1, Len(u))
    BY <1>18, <2>1, Zenon
  <2>3. up = 2
    BY <1>16, <2>1, Zenon
  <2>. QED
    BY <1>17, <2>2, <2>3
<1>. QED
  BY <1>2, <1>10, <1>14, <1>19 DEF UptimeText

(* The lines of the name.                                                  *)
LEMMA OsLines ==
    /\ os_release \in Seq(ToSet(os_release)) /\ Len(os_release) = 3
    /\ os_release[1].key = "PRETTY_NAME" /\ os_release[1].value.kind = "quoted"
<1>1. PICK a, b, c : /\ a = Pair("PRETTY_NAME", Field("quoted", "Debian 12", 0))
                     /\ b = Pair("NAME", Field("quoted", "Debian", 0))
                     /\ c = Pair("ID", Word("debian"))
  OBVIOUS
<1>2. PICK lines : lines = <<a, b, c>>
  OBVIOUS
<1>3. /\ DOMAIN lines = 1 .. 3 /\ Len(lines) = 3 /\ lines = [i \in 1 .. 3 |-> lines[i]]
      /\ lines[1] = a
  BY <1>2
<1>4. lines \in Seq(ToSet(lines))
  BY <1>3, Numbered
<1>5. a.key = "PRETTY_NAME" /\ a.value.kind = "quoted"
  BY <1>1, Zenon DEF Pair, Field
<1>6. os_release = lines
  BY <1>1, <1>2, Zenon DEF os_release
<1>. QED
  BY <1>3, <1>4, <1>5, <1>6

(* What a discovery tells of the system: its name, ...                     *)
LEMMA TornQuoted ==
    ASSUME NEW field, field.kind = "quoted", NEW torn \in Torn(field)
    PROVE  torn.kind # "quoted"
<1>1. Word("users").kind = "word" /\ Word("/").kind = "word" /\ Broken.kind = "word"
  BY Zenon DEF Word, Field, Broken
<1>2. field # Word("users") /\ field # Word("/")
  BY <1>1
<1>3. torn = Broken
  BY <1>2, Zenon DEF Torn
<1>. QED
  BY <1>1, <1>3

LEMMA DiscoveredName ==
    ASSUME ReadingInv, reader = "discovery_system", Current > Script.commands
    PROVE  /\ Discovery!OSParser(outputs[1]) \in {os_release[1].value, Word("Unknown Linux")}
           /\ Complete(1) => Discovery!OSParser(outputs[1]) = os_release[1].value
<1>1. PICK lines, i : lines = os_release /\ i = 1
  OBVIOUS
<1>2. lines \in Seq(ToSet(lines)) /\ Len(lines) = 3 /\ i \in 1 .. 4
  BY <1>1, OsLines
<1>3. lines = Printed(seen[i], SubSeq(outputs, 1, i - 1))[i]
  BY <1>1, DiscoveryPrints, Zenon
<1>4. \E n \in 0 .. Len(lines) :
         (\E m : PairsLeft(outputs[i], lines, n, m)) /\ (Complete(i) => n = Len(lines))
  BY <1>1, <1>2, <1>3, PairsBack
<1>5. PICK n \in 0 .. 3 : (\E m : PairsLeft(outputs[i], lines, n, m)) /\ (Complete(i) => n = 3)
  BY <1>2, <1>4
<1>6. PICK m : PairsLeft(outputs[i], lines, n, m)
  BY <1>5
<1>7. PICK front, first : front = outputs[i] /\ first = lines[1]
  OBVIOUS
<1>8. first.key = "PRETTY_NAME" /\ first.value.kind = "quoted"
  BY <1>1, <1>7, OsLines
<1>9. n \in Nat /\ m \in Nat /\ (m = n \/ m = n + 1) /\ DOMAIN front = 1 .. m
  BY <1>6, <1>7 DEF PairsLeft
<1>10. n # 0 => front[1] = first
  <2>1. n # 0 => 1 \in 1 .. n
    OBVIOUS
  <2>. QED
    BY <1>6, <1>7, <2>1, Zenon DEF PairsLeft
<1>11. ASSUME n = 0, NEW k \in 1 .. m
       PROVE  front[k].value.kind # "quoted"
  <2>1. k = n + 1 /\ m = n + 1 /\ n + 1 = 1
    BY <1>9, <1>11
  <2>2. PairPart(front[k], first)
    BY <1>6, <1>7, <2>1, Zenon DEF PairsLeft
  <2>3. Word("").kind = "word"
    BY Zenon DEF Word, Field
  <2>4. front[k].value.kind = "word" \/ front[k].value \in Torn(first.value)
    BY <2>2, <2>3, Zenon DEF PairPart
  <2>. QED
    BY <1>8, <2>4, TornQuoted
<1>12. Discovery!OSParser(front) = IF n # 0 THEN first.value ELSE Word("Unknown Linux")
  BY <1>8, <1>9, <1>10, <1>11, NameFound
<1>13. Complete(1) => n # 0
  BY <1>1, <1>5
<1>. QED
  BY <1>1, <1>7, <1>12, <1>13

(* ... its cores, ...                                                      *)
LEMMA DiscoveredCores ==
    ASSUME ReadingInv, reader = "discovery_system", Current > Script.commands
    PROVE  /\ Discovery!CPUParser(outputs[2]).cores
                 \in {1, seen[2].cores} \union Leading(seen[2].cores)
           /\ Complete(2) => Discovery!CPUParser(outputs[2]).cores = seen[2].cores
<1>1. PICK lines, i, cores : lines = lscpu(seen[2].cores) /\ i = 2 /\ cores = seen[2].cores
  OBVIOUS
<1>2. Len(lines) = 8 /\ DOMAIN lines = 1 .. 8 /\ lines = [k \in 1 .. 8 |-> lines[k]] /\ i \in 1 .. 4
  BY <1>1, LscpuKeys
<1>3. lines \in Seq(ToSet(lines))
  BY <1>2, Numbered
<1>4. lines = Printed(seen[i], SubSeq(outputs, 1, i - 1))[i]
  BY <1>1, DiscoveryPrints, Zenon
<1>5. \E n \in 0 .. Len(lines) :
         (\E m : PairsLeft(outputs[i], lines, n, m)) /\ (Complete(i) => n = Len(lines))
  BY <1>1, <1>2, <1>3, <1>4, PairsBack
<1>6. PICK n \in 0 .. 8 : (\E m : PairsLeft(outputs[i], lines, n, m)) /\ (Complete(i) => n = 8)
  BY <1>2, <1>5
<1>7. PICK m : PairsLeft(outputs[i], lines, n, m)
  BY <1>6
<1>8. PICK front : front = outputs[i]
  OBVIOUS
<1>9. n \in Nat /\ m \in Nat /\ (m = n \/ m = n + 1) /\ Len(front) = m
  BY <1>7, <1>8 DEF PairsLeft
<1>10. \A k \in 1 .. 8 : lines[k].key = "cpu(s)" <=> k = 2
  BY <1>1, LscpuKeys
<1>11. lines[2].value = Num(cores)
  BY <1>1, LscpuKeys
<1>12. \A k \in 1 .. n : front[k] = lines[k]
  BY <1>7, <1>8, Zenon DEF PairsLeft
<1>13. m = n + 1 => n + 1 \in 1 .. 8 /\ PairPart(front[n + 1], lines[n + 1])
  <2>1. m = n + 1 => n + 1 <= 8 /\ PairPart(front[n + 1], lines[n + 1])
    BY <1>2, <1>7, <1>8, Zenon DEF PairsLeft
  <2>. QED
    BY <1>9, <2>1
<1>14. ASSUME NEW k \in 1 .. m, front[k].key = "cpu(s)"
       PROVE  k = 2
  <2>1. k \in 1 .. n \/ (k = n + 1 /\ m = n + 1)
    BY <1>9
  <2>2. CASE k \in 1 .. n
    <3>1. k \in 1 .. 8
      BY <2>2
    <3>. QED
      BY <1>10, <1>12, <1>14, <2>2, <3>1
  <2>3. CASE k = n + 1 /\ m = n + 1
    <3>1. front[k].key = "..." \/ front[k].key = lines[k].key
      BY <1>13, <2>3, Zenon DEF PairPart
    <3>2. k \in 1 .. 8
      BY <1>13, <2>3
    <3>. QED
      BY <1>10, <1>14, <3>1, <3>2
  <2>. QED
    BY <2>1, <2>2, <2>3
<1>15. n >= 2 => front[2].key = "cpu(s)" /\ front[2].value = Num(cores)
  <2>1. n >= 2 => 2 \in 1 .. n
    OBVIOUS
  <2>2. lines[2].key = "cpu(s)"
    BY <1>10
  <2>. QED
    BY <1>11, <1>12, <2>1, <2>2
<1>16. ASSUME m >= 2, IsNumber(front[2].value)
       PROVE  front[2].value.num \in {cores} \union Leading(cores)
  <2>1. n >= 2 \/ (n + 1 = 2 /\ m = n + 1)
    BY <1>9, <1>16
  <2>2. CASE n >= 2
    BY <1>15, <2>2, Numbers
  <2>3. CASE n + 1 = 2 /\ m = n + 1
    <3>1. PairPart(front[2], lines[2])
      BY <1>13, <2>3, Zenon
    <3>2. front[2].value = Word("") \/ front[2].value \in Torn(Num(cores))
      BY <1>11, <3>1, Zenon DEF PairPart
    <3>3. front[2].value \in Torn(Num(cores))
      BY <1>16, <3>2, Words, Zenon
    <3>4. \E l \in Leading(cores) : front[2].value = Num(l)
      BY <3>3, TornNumber
    <3>. QED
      BY <3>4, Numbers
  <2>. QED
    BY <2>1, <2>2, <2>3
<1>17. /\ Discovery!CPUParser(front).cores \in {1, cores} \union Leading(cores)
       /\ n >= 2 => Discovery!CPUParser(front).cores = cores
  BY <1>9, <1>14, <1>15, <1>16, CoresFound
<1>18. Complete(2) => n >= 2
  BY <1>1, <1>6
<1>. QED
  BY <1>1, <1>8, <1>17, <1>18

(* ... its time zone, ...                                                  *)
LEMMA DiscoveredZone ==
    ASSUME ReadingInv, reader = "discovery_system", Current > Script.commands
    PROVE  /\ Discovery!TimezoneParser(outputs[3])
                 \in {Word("UTC"), Word("")} \union Torn(Word("UTC"))
           /\ Complete(3) => Discovery!TimezoneParser(outputs[3]) = Word("UTC")
<1>1. PICK utc : utc = Word("UTC")
  OBVIOUS
<1>2. PICK zone : zone = Pair("Time zone", utc)
  OBVIOUS
<1>3. PICK lines, i : lines = <<zone>> /\ i = 3
  OBVIOUS
<1>4. /\ lines \in Seq(ToSet(lines)) /\ Len(lines) = 1 /\ lines[1] = zone /\ i \in 1 .. 4
  <2>1. /\ DOMAIN lines = 1 .. 1 /\ Len(lines) = 1 /\ lines = [k \in 1 .. 1 |-> lines[k]]
        /\ lines[1] = zone
    BY <1>3
  <2>. QED
    BY <1>3, <2>1, Numbered
<1>5. lines = Printed(seen[i], SubSeq(outputs, 1, i - 1))[i]
  BY <1>1, <1>2, <1>3, DiscoveryPrints, Zenon
<1>6. \E n \in 0 .. Len(lines) :
         (\E m : PairsLeft(outputs[i], lines, n, m)) /\ (Complete(i) => n = Len(lines))
  BY <1>3, <1>4, <1>5, PairsBack
<1>7. PICK n \in 0 .. 1 : (\E m : PairsLeft(outputs[i], lines, n, m)) /\ (Complete(i) => n = 1)
  BY <1>4, <1>6
<1>8. PICK m : PairsLeft(outputs[i], lines, n, m)
  BY <1>7
<1>9. PICK front : front = outputs[i]
  OBVIOUS
<1>10. /\ DOMAIN front = 1 .. m /\ m \in Nat /\ (m = n \/ m = n + 1)
       /\ \A k \in 1 .. n : front[k] = lines[k]
       /\ m = n + 1 => n + 1 <= 1 /\ PairPart(front[n + 1], lines[n + 1])
  BY <1>4, <1>8, <1>9, Zenon DEF PairsLeft
<1>11. m \in 0 .. 1
  BY <1>10
<1>12. zone.value = utc
  BY <1>2, Zenon DEF Pair
<1>13. n = 1 => front[1].value = utc
  <2>1. 1 \in 1 .. 1
    OBVIOUS
  <2>. QED
    BY <1>4, <1>10, <1>12, <2>1, Zenon
<1>14. n # 1 /\ m # 0 => front[1].value = Word("") \/ front[1].value \in Torn(utc)
  <2>1. n # 1 /\ m # 0 => n + 1 = 1 /\ m = n + 1
    BY <1>10
  <2>2. n # 1 /\ m # 0 => PairPart(front[1], zone)
    BY <1>4, <1>10, <2>1, Zenon
  <2>. QED
    BY <1>12, <2>2, Zenon DEF PairPart
<1>15. \/ Discovery!TimezoneParser(front) = utc
       \/ m # 0 /\ Discovery!TimezoneParser(front) = front[1].value
  BY <1>1, <1>10, <1>11, ZoneFound
<1>16. Complete(3) => n = 1
  BY <1>3, <1>7
<1>. QED
  BY <1>1, <1>3, <1>9, <1>13, <1>14, <1>15, <1>16, Zenon

(* ... and how long it has been up.                                        *)
LEMMA DiscoveredTime ==
    ASSUME ReadingInv, reader = "discovery_system", Current > Script.commands, Complete(4),
           \A f \in Facts["system"] : AnySystem(f)
    PROVE  Discovery!UptimeParser(outputs[4]) = FlattenSeq(Elapsed(seen[4].minutes))
<1>1. Script.commands = 4 /\ Script.on = "system"
  BY DiscoveryScript
<1>2. /\ seen[4] \in Facts["system"]
      /\ outputs[4] = Printed(seen[4], SubSeq(outputs, 1, 4 - 1))[4]
  BY <1>1, WholeBack
<1>3. outputs[4] = uptime(seen[4].minutes)
  BY <1>2, DiscoveryPrints, Zenon
<1>4. seen[4].minutes \in Nat
  <2>1. AnySystem(seen[4])
    BY <1>2
  <2>. QED
    BY <2>1 DEF AnySystem
<1>. QED
  BY <1>3, <1>4, DiscoveredUptime

(* The system is read, whoever reads it.                                   *)
LEMMA SystemRight ==
    ASSUME ReadingInv, \A f \in Facts["system"] : AnySystem(f)
    PROVE  SystemRead
<1>1. Done({"system_collector"}) => reader = "system_collector" /\ Current > Script.commands
  BY DEF Done
<1>2. Done({"discovery_system"}) => reader = "discovery_system" /\ Current > Script.commands
  BY DEF Done
<1>3. Done({"system_collector"}) =>
          LET system == SystemParser(outputs[1], outputs[2], outputs[3], outputs[4],
                                     outputs[5], FirstOf(outputs[6] \o <<Word("")>>))
          IN /\ system.valid
             /\ system.metrics.hostname =
                    IF outputs[1] = <<>> THEN seen[2].hostname ELSE seen[1].hostname
             /\ system.metrics.logical_cpu_count = seen[4].cores
             /\ system.metrics.system_uptime = seen[5].minutes
  BY <1>1, SystemLocal, Zenon
<1>4. Done({"discovery_system"}) =>
          /\ Discovery!OSParser(outputs[1]) \in {os_release[1].value, Word("Unknown Linux")}
          /\ Complete(1) => Discovery!OSParser(outputs[1]) = os_release[1].value
          /\ Discovery!CPUParser(outputs[2]).cores
                \in {1, seen[2].cores} \union Leading(seen[2].cores)
          /\ Complete(2) => Discovery!CPUParser(outputs[2]).cores = seen[2].cores
          /\ Discovery!TimezoneParser(outputs[3])
                \in {Word("UTC"), Word("")} \union Torn(Word("UTC"))
          /\ Complete(3) => Discovery!TimezoneParser(outputs[3]) = Word("UTC")
          /\ Complete(4) =>
                Discovery!UptimeParser(outputs[4]) = FlattenSeq(Elapsed(seen[4].minutes))
  BY <1>2, DiscoveredName, DiscoveredCores, DiscoveredZone, DiscoveredTime, Zenon
<1>. QED
  BY <1>3, <1>4, Zenon DEF SystemRead

-------------------------------------------------------------------------------
(* The network: sockets, ...                                               *)

(* The digits of a port, one by one.                                       *)
Digits(hex, n, h) ==
    /\ h[0] = 0
    /\ \A k \in Nat : k + 1 <= n => h[k + 1] = 16 * h[k] + hex[k + 1]

(* What they add up to, ...                                                *)
HexValue(hex) == FoldLeft(LAMBDA port, digit : 16 * port + digit, 0, hex)

LEMMA DigitsFolded ==
    ASSUME NEW n \in Nat, NEW hex, DOMAIN hex = 1 .. n
    PROVE  \E h : Digits(hex, n, h) /\ HexValue(hex) = h[n]
<1> DEFINE step(g) == [d \in SUBSET (DOMAIN hex) |->
                         IF d = {} THEN 0 ELSE 16 * g[d \ {Max(d)}] + hex[Max(d)]]
<1> DEFINE iter[d \in SUBSET (DOMAIN hex)] ==
                         IF d = {} THEN 0 ELSE 16 * iter[d \ {Max(d)}] + hex[Max(d)]
<1>1. iter = CHOOSE g : g = step(g)
  OBVIOUS
<1>2. HexValue(hex) = iter[DOMAIN hex]
  <2>. HIDE DEF step
  <2>. QED
    BY DEF HexValue, FoldLeft, MapThenFoldSet
<1>3. \A g : g = step(g) <=> Folding(16, hex, n, g)
  BY DEF Folding, Folded
<1>. HIDE DEF iter, step
<1>4. \E g : g = step(g)
  BY <1>3, FoldingThere
<1>5. iter = step(iter)
  BY <1>1, <1>4
<1>6. PICK g : Folding(16, hex, n, g) /\ g[1 .. n] = iter[DOMAIN hex]
  BY <1>3, <1>5
<1>7. PICK h : h = [k \in 0 .. n |-> g[1 .. k]]
  OBVIOUS
<1>8. h[0] = 0
  <2>1. Folding(16, hex, n, g)
    BY <1>6
  <2>2. 1 .. 0 = {} /\ {} \in SUBSET (1 .. n)
    OBVIOUS
  <2>3. g[{}] = 0
    BY <2>1, <2>2 DEF Folding
  <2>. QED
    BY <1>7, <2>2, <2>3
<1>9. ASSUME NEW k \in Nat, k + 1 <= n
      PROVE  h[k + 1] = 16 * h[k] + hex[k + 1]
  <2>1. g[1 .. k + 1] = Folded(16, g[1 .. k], hex[k + 1])
    BY <1>6, <1>9, OneByOne
  <2>2. h[k + 1] = g[1 .. k + 1] /\ h[k] = g[1 .. k]
    BY <1>7, <1>9
  <2>. QED
    BY <2>1, <2>2 DEF Folded
<1>10. h[n] = g[1 .. n]
  BY <1>7
<1>11. Digits(hex, n, h)
  BY <1>8, <1>9 DEF Digits
<1>. QED
  BY <1>2, <1>6, <1>10, <1>11

(* ... when there are four.                                                *)
FromDigits(hex) == 4096 * hex[1] + 256 * hex[2] + 16 * hex[3] + hex[4]

LEMMA FourDigits ==
    ASSUME NEW n \in Nat, n = 4, NEW hex, NEW h, Digits(hex, n, h),
           hex[1] \in Nat, hex[2] \in Nat, hex[3] \in Nat, hex[4] \in Nat
    PROVE  h[n] = FromDigits(hex)
<1>1. PICK a, b, c, d \in Nat : a = hex[1] /\ b = hex[2] /\ c = hex[3] /\ d = hex[4]
  OBVIOUS
<1>2. h[0] = 0
  BY DEF Digits
<1>3. \A k \in Nat : k + 1 <= n => h[k + 1] = 16 * h[k] + hex[k + 1]
  BY DEF Digits
<1>4. h[0 + 1] = 16 * h[0] + hex[0 + 1]
  BY <1>3
<1>5. h[1 + 1] = 16 * h[1] + hex[1 + 1]
  BY <1>3
<1>6. h[2 + 1] = 16 * h[2] + hex[2 + 1]
  BY <1>3
<1>7. h[3 + 1] = 16 * h[3] + hex[3 + 1]
  BY <1>3
<1>8. h[1] = a
  BY <1>1, <1>2, <1>4
<1>9. h[2] = 16 * a + b
  BY <1>1, <1>5, <1>8
<1>10. h[3] = 256 * a + 16 * b + c
  BY <1>1, <1>6, <1>9
<1>. QED
  BY <1>1, <1>7, <1>10 DEF FromDigits

FourOfHex(hex) ==
    DOMAIN hex = 1 .. 4 /\ hex # <<>> /\ \A i \in 1 .. 4 : hex[i] \in Nat /\ hex[i] < 16

(* A digit is less than sixteen.                                           *)
LEMMA HexDigit ==
    ASSUME NEW x \in Nat, x < 16
    PROVE  x \in 0 .. 15
  OBVIOUS

(* Four digits are read.                                                   *)
LEMMA DigitsRead ==
    ASSUME NEW hex, FourOfHex(hex)
    PROVE  parse_hex_port(hex) = FromDigits(hex)
<1>1. IsHex(hex)
  <2>1. DOMAIN hex = 1 .. 4 /\ hex # <<>>
    BY DEF FourOfHex
  <2>2. ASSUME NEW i \in 1 .. 4
        PROVE  hex[i] \in 0 .. 15
    <3>1. hex[i] \in Nat /\ hex[i] < 16
      BY DEF FourOfHex
    <3>. QED
      BY <3>1, HexDigit
  <2>. QED
    BY <2>1, <2>2 DEF IsHex
<1>2. PICK n \in Nat : n = 4 /\ DOMAIN hex = 1 .. n
  BY DEF FourOfHex
<1>3. PICK h : Digits(hex, n, h) /\ HexValue(hex) = h[n]
  BY <1>2, DigitsFolded
<1>4. h[n] = FromDigits(hex)
  <2>1. Digits(hex, n, h)
    BY <1>3, Zenon
  <2>2. hex[1] \in Nat /\ hex[2] \in Nat /\ hex[3] \in Nat /\ hex[4] \in Nat
    BY DEF FourOfHex
  <2>. QED
    BY <1>2, <2>1, <2>2, FourDigits
<1>5. parse_hex_port(hex) = h[n]
  BY <1>1, <1>3, Zenon DEF parse_hex_port, HexValue
<1>. QED
  BY <1>4, <1>5, Zenon

(* A number is made of its sixteenth and the rest.                         *)
LEMMA Sixteenth ==
    ASSUME NEW x \in Nat
    PROVE  /\ x \div 16 \in Nat /\ x % 16 \in Nat /\ x % 16 < 16
           /\ x = 16 * (x \div 16) + (x % 16)
  OBVIOUS

LEMMA PortDigits ==
    ASSUME NEW port \in Nat, port < 65536
    PROVE  \E a, b, c, d \in Nat :
              /\ a < 16 /\ b < 16 /\ c < 16 /\ d < 16
              /\ port \div 4096 = a /\ (port \div 256) % 16 = b
              /\ (port \div 16) % 16 = c /\ port % 16 = d
              /\ port = 4096 * a + 256 * b + 16 * c + d
<1>1. PICK p \in Nat, d \in Nat :
         p = port \div 16 /\ d = port % 16 /\ d < 16 /\ port = 16 * p + d
  BY Sixteenth
<1>2. PICK q \in Nat, c \in Nat :
         q = p \div 16 /\ c = p % 16 /\ c < 16 /\ p = 16 * q + c
  BY Sixteenth
<1>3. PICK a \in Nat, b \in Nat :
         a = q \div 16 /\ b = q % 16 /\ b < 16 /\ q = 16 * a + b
  BY Sixteenth
<1>4. port = 4096 * a + 256 * b + 16 * c + d
  BY <1>1, <1>2, <1>3
<1>5. a < 16
  BY <1>4
<1>6. port \div 256 = q
  <2>1. port = 256 * q + (16 * c + d) /\ 16 * c + d < 256
    BY <1>1, <1>2
  <2>. QED
    BY <2>1
<1>7. port \div 4096 = a
  <2>1. port = 4096 * a + (256 * b + 16 * c + d) /\ 256 * b + 16 * c + d < 4096
    BY <1>1, <1>2, <1>3, <1>4
  <2>. QED
    BY <2>1
<1>. QED
  BY <1>1, <1>2, <1>3, <1>4, <1>5, <1>6, <1>7

(* A port is read of the digits that the kernel printed.                   *)
LEMMA PortRead ==
    ASSUME NEW port \in Nat, port < 65536
    PROVE  parse_hex_port(HexPort(port)) = port
<1>1. PICK a, b, c, d \in Nat :
              /\ a < 16 /\ b < 16 /\ c < 16 /\ d < 16
              /\ port \div 4096 = a /\ (port \div 256) % 16 = b
              /\ (port \div 16) % 16 = c /\ port % 16 = d
              /\ port = 4096 * a + 256 * b + 16 * c + d
  BY PortDigits
<1>2. PICK hex : hex = HexPort(port)
  OBVIOUS
<1>3. /\ DOMAIN hex = 1 .. 4 /\ hex # <<>>
      /\ hex[1] = a /\ hex[2] = b /\ hex[3] = c /\ hex[4] = d
  BY <1>1, <1>2 DEF HexPort
<1>4. FourOfHex(hex)
  BY <1>1, <1>3 DEF FourOfHex
<1>5. parse_hex_port(hex) = FromDigits(hex)
  BY <1>4, DigitsRead
<1>6. FromDigits(hex) = port
  BY <1>1, <1>3 DEF FromDigits
<1>. QED
  BY <1>2, <1>5, <1>6

(* The bytes of an address.                                                *)
LEMMA AddressRead ==
    ASSUME NEW bytes \in [1 .. 4 -> 0 .. 255]
    PROVE  parse_hex_ipv4(HexAddress(bytes)) = bytes
<1>1. PICK hex : hex = HexAddress(bytes)
  OBVIOUS
<1>2. /\ DOMAIN hex = 1 .. 8 /\ Len(hex) = 8 /\ hex # <<>>
  BY <1>1 DEF HexAddress
<1>3. /\ hex[7] = bytes[1] \div 16 /\ hex[8] = bytes[1] % 16
      /\ hex[5] = bytes[2] \div 16 /\ hex[6] = bytes[2] % 16
      /\ hex[3] = bytes[3] \div 16 /\ hex[4] = bytes[3] % 16
      /\ hex[1] = bytes[4] \div 16 /\ hex[2] = bytes[4] % 16
  BY <1>1 DEF HexAddress
<1>4. \A k \in 1 .. 4 : bytes[k] \in 0 .. 255
  OBVIOUS
<1>5. \A x \in 0 .. 255 : /\ x \div 16 \in 0 .. 15 /\ x % 16 \in 0 .. 15
                          /\ 16 * (x \div 16) + (x % 16) = x
  OBVIOUS
<1>6. IsHex(hex)
  <2>1. \A k \in 1 .. 4 : bytes[k] \div 16 \in 0 .. 15 /\ bytes[k] % 16 \in 0 .. 15
    BY <1>4, <1>5
  <2>2. \A i \in 1 .. 8 : hex[i] \in 0 .. 15
    BY <1>3, <2>1
  <2>. QED
    BY <1>2, <2>2 DEF IsHex
<1>7. parse_hex_ipv4(hex) = [i \in 1 .. 4 |-> 16 * hex[9 - 2 * i] + hex[10 - 2 * i]]
  BY <1>2, <1>6 DEF parse_hex_ipv4
<1>8. ASSUME NEW i \in 1 .. 4
      PROVE  16 * hex[9 - 2 * i] + hex[10 - 2 * i] = bytes[i]
  <2>1. hex[9 - 2 * i] = bytes[i] \div 16 /\ hex[10 - 2 * i] = bytes[i] % 16
    BY <1>3
  <2>. QED
    BY <1>4, <1>5, <2>1
<1>9. bytes = [i \in 1 .. 4 |-> bytes[i]]
  OBVIOUS
<1>. QED
  BY <1>1, <1>7, <1>8, <1>9

(* Sockets: the four bytes of an address, and a port of 16 bits.           *)
IsSocket(s) ==
    /\ s \in [address : [1 .. 4 -> 0 .. 255], port : Nat]
    /\ s.port < 65536

(* One end of a connection is read back.                                   *)
LEMMA EndRead ==
    ASSUME NEW s, IsSocket(s)
    PROVE  End([ip |-> HexAddress(s.address), port |-> HexPort(s.port)]) = s
<1>1. /\ s.address \in [1 .. 4 -> 0 .. 255] /\ s.port \in Nat /\ s.port < 65536
      /\ s = [address |-> s.address, port |-> s.port]
  BY DEF IsSocket
<1>2. parse_hex_ipv4(HexAddress(s.address)) = s.address
  BY <1>1, AddressRead
<1>3. parse_hex_port(HexPort(s.port)) = s.port
  BY <1>1, PortRead
<1>. QED
  BY <1>1, <1>2, <1>3 DEF End

(* The lines of the sockets, after the header.                             *)
SocketLine(s) ==
    [state |-> Word("0A"),
     ends |-> <<[ip |-> HexAddress(s.address), port |-> HexPort(s.port)],
                [ip |-> HexAddress(<<0, 0, 0, 0>>), port |-> HexPort(0)]>>]

LEMMA SocketLineRead ==
    ASSUME NEW s, IsSocket(s)
    PROVE  /\ Len(SocketLine(s).ends) = 2 /\ SocketLine(s).ends # <<>>
           /\ TCPConnection(SocketLine(s)).local = s
           /\ End(SocketLine(s).ends[1]) = s
<1>1. PICK x, y : /\ x = [ip |-> HexAddress(s.address), port |-> HexPort(s.port)]
                  /\ y = [ip |-> HexAddress(<<0, 0, 0, 0>>), port |-> HexPort(0)]
  OBVIOUS
<1>2. SocketLine(s).ends = <<x, y>>
  BY <1>1 DEF SocketLine
<1>3. /\ Len(SocketLine(s).ends) = 2 /\ SocketLine(s).ends # <<>>
      /\ SocketLine(s).ends[1] = x
  BY <1>2
<1>4. End(x) = s
  BY <1>1, EndRead
<1>5. TCPConnection(SocketLine(s)).local = End(SocketLine(s).ends[1])
  BY DEF TCPConnection
<1>. QED
  BY <1>3, <1>4, <1>5

AreSocketLines(tcp, sockets, m) == \A i \in 1 .. m : tcp[i + 1] = SocketLine(sockets[i])

LEMMA SocketLines ==
    ASSUME NEW m \in Nat, NEW sockets, DOMAIN sockets = 1 .. m,
           NEW tcp, tcp = net_tcp(sockets)
    PROVE  /\ tcp \in Seq(ToSet(tcp)) /\ Len(tcp) = m + 1
           /\ Len(tcp[1].ends) = 0
           /\ AreSocketLines(tcp, sockets, m)
<1>1. PICK body : body = [i \in 1 .. m |-> SocketLine(sockets[i])]
  OBVIOUS
<1>2. PICK header : header = [ends |-> <<>>]
  OBVIOUS
<1>3. tcp = <<header>> \o body
  BY <1>1, <1>2 DEF net_tcp, Each, SocketLine
<1>4. body \in Seq(ToSet(body)) /\ Len(body) = m
  <2>1. DOMAIN body = 1 .. m /\ body = [i \in 1 .. m |-> body[i]]
    BY <1>1
  <2>. QED
    BY <2>1, Numbered
<1>5. /\ tcp \in Seq(ToSet(tcp)) /\ Len(tcp) = Len(body) + 1
      /\ tcp[1] = header
  BY <1>3, <1>4, Headed
<1>6. \A i \in 1 .. Len(body) : tcp[i + 1] = body[i]
  BY <1>3, <1>4, Headed
<1>7. AreSocketLines(tcp, sockets, m)
  BY <1>1, <1>4, <1>6 DEF AreSocketLines
<1>8. Len(tcp[1].ends) = 0
  BY <1>2, <1>5
<1>. QED
  BY <1>4, <1>5, <1>7, <1>8

(* All lines but the first one.                                            *)
LEMMA AllButFirst ==
    ASSUME NEW m \in Nat, NEW s
    PROVE  At(s, 2 .. m + 1) = [n \in 1 .. m |-> s[n + 1]]
<1>1. PICK places : places = 2 .. m + 1
  OBVIOUS
<1>2. Cardinality(places) = m /\ IsFiniteSet(places)
  BY <1>1, FS_Interval
<1>3. ASSUME NEW n \in 1 .. m
      PROVE  Nth(places, n) = n + 1
  <2>1. Below(places, n + 1) = 2 .. n
    BY <1>1 DEF Below
  <2>2. Cardinality(2 .. n) = n - 1
    BY FS_Interval
  <2>3. n + 1 \in places /\ \A p \in places : p \in Nat
    BY <1>1
  <2>. QED
    BY <1>2, <2>1, <2>2, <2>3, NthOnly
<1>. QED
  BY <1>1, <1>2, <1>3 DEF At

(* The sockets are read, all of them, of either protocol.                  *)
LEMMA TCPRead ==
    ASSUME NEW m \in Nat, NEW sockets, sockets \in Seq(ToSet(sockets)), Len(sockets) = m,
           \A i \in 1 .. m : IsSocket(sockets[i])
    PROVE  Each(TCPConnections(net_tcp(sockets)), LAMBDA c : c.local) = sockets
<1>1. PICK tcp : tcp = net_tcp(sockets)
  OBVIOUS
<1>2. /\ DOMAIN tcp = 1 .. m + 1 /\ Len(tcp[1].ends) = 0
      /\ \A i \in 1 .. m : tcp[i + 1] = SocketLine(sockets[i])
  <2>1. DOMAIN sockets = 1 .. m
    OBVIOUS
  <2>2. tcp \in Seq(ToSet(tcp)) /\ Len(tcp) = m + 1 /\ Len(tcp[1].ends) = 0
    BY <1>1, <2>1, SocketLines, Zenon
  <2>3. AreSocketLines(tcp, sockets, m)
    BY <1>1, <2>1, SocketLines, Zenon
  <2>. QED
    BY <2>2, <2>3 DEF AreSocketLines
<1>3. {i \in DOMAIN tcp : Len(tcp[i].ends) = 2} = 2 .. m + 1
  <2>1. ASSUME NEW i \in 2 .. m + 1
        PROVE  Len(tcp[i].ends) = 2
    <3>1. i - 1 \in 1 .. m /\ (i - 1) + 1 = i
      OBVIOUS
    <3>2. tcp[i] = SocketLine(sockets[i - 1])
      BY <1>2, <3>1
    <3>. QED
      BY <3>1, <3>2, SocketLineRead
  <2>2. \A i \in 1 .. m + 1 : i = 1 \/ i \in 2 .. m + 1
    OBVIOUS
  <2>3. \A i \in 2 .. m + 1 : i \in 1 .. m + 1
    OBVIOUS
  <2>4. Len(tcp[1].ends) # 2
    BY <1>2
  <2>. QED
    BY <1>2, <2>1, <2>2, <2>3, <2>4, Zenon
<1>4. PICK lines : lines = At(tcp, 2 .. m + 1)
  OBVIOUS
<1>5. DOMAIN lines = 1 .. m /\ \A i \in 1 .. m : lines[i] = SocketLine(sockets[i])
  <2>1. lines = [n \in 1 .. m |-> tcp[n + 1]]
    BY <1>4, AllButFirst
  <2>. QED
    BY <1>2, <2>1
<1>6. TCPConnections(tcp) = [i \in DOMAIN lines |-> TCPConnection(lines[i])]
  BY <1>3, <1>4 DEF TCPConnections, Where, Each
<1>7. Each(TCPConnections(tcp), LAMBDA c : c.local)
         = [i \in 1 .. m |-> TCPConnection(SocketLine(sockets[i])).local]
  BY <1>5, <1>6 DEF Each
<1>8. \A i \in 1 .. m : TCPConnection(SocketLine(sockets[i])).local = sockets[i]
  BY SocketLineRead
<1>9. sockets = [i \in 1 .. m |-> sockets[i]]
  OBVIOUS
<1>. QED
  BY <1>1, <1>7, <1>8, <1>9

LEMMA UDPRead ==
    ASSUME NEW m \in Nat, NEW sockets, sockets \in Seq(ToSet(sockets)), Len(sockets) = m,
           \A i \in 1 .. m : IsSocket(sockets[i])
    PROVE  UDPConnections(net_tcp(sockets)) = sockets
<1>1. PICK udp : udp = net_tcp(sockets)
  OBVIOUS
<1>2. /\ DOMAIN udp = 1 .. m + 1 /\ udp[1].ends = <<>>
      /\ \A i \in 1 .. m : udp[i + 1] = SocketLine(sockets[i])
  <2>1. DOMAIN sockets = 1 .. m
    OBVIOUS
  <2>2. udp \in Seq(ToSet(udp)) /\ Len(udp) = m + 1 /\ udp[1].ends = <<>>
    BY <1>1, <2>1, SocketLines
  <2>3. AreSocketLines(udp, sockets, m)
    BY <1>1, <2>1, SocketLines, Zenon
  <2>. QED
    BY <2>2, <2>3 DEF AreSocketLines
<1>3. \A i \in 1 .. m : SocketLine(sockets[i]).ends # <<>>
                        /\ End(SocketLine(sockets[i]).ends[1]) = sockets[i]
  BY SocketLineRead
<1>4. {i \in DOMAIN udp : udp[i].ends # <<>>} = 2 .. m + 1
  <2>1. ASSUME NEW i \in 2 .. m + 1
        PROVE  udp[i].ends # <<>>
    <3>1. i - 1 \in 1 .. m /\ (i - 1) + 1 = i
      OBVIOUS
    <3>2. udp[i] = SocketLine(sockets[i - 1])
      BY <1>2, <3>1
    <3>. QED
      BY <1>3, <3>1, <3>2
  <2>2. \A i \in 1 .. m + 1 : i = 1 \/ i \in 2 .. m + 1
    OBVIOUS
  <2>3. \A i \in 2 .. m + 1 : i \in 1 .. m + 1
    OBVIOUS
  <2>. QED
    BY <1>2, <2>1, <2>2, <2>3, Zenon
<1>5. PICK lines : lines = At(udp, 2 .. m + 1)
  OBVIOUS
<1>6. DOMAIN lines = 1 .. m /\ \A i \in 1 .. m : lines[i] = SocketLine(sockets[i])
  <2>1. lines = [n \in 1 .. m |-> udp[n + 1]]
    BY <1>5, AllButFirst
  <2>. QED
    BY <1>2, <2>1
<1>7. UDPConnections(udp) = [i \in DOMAIN lines |-> End(lines[i].ends[1])]
  BY <1>4, <1>5 DEF UDPConnections, Where, Each
<1>8. UDPConnections(udp) = [i \in 1 .. m |-> sockets[i]]
  BY <1>3, <1>6, <1>7
<1>9. sockets = [i \in 1 .. m |-> sockets[i]]
  OBVIOUS
<1>. QED
  BY <1>1, <1>8, <1>9

-------------------------------------------------------------------------------
(* ... addresses, ...                                                      *)

(* The field after the first one that reads a word, if there is one.       *)
LEMMA AfterThere ==
    ASSUME NEW n \in Nat, NEW line, Len(line) = n, NEW i \in 1 .. n - 1, NEW w,
           line[i] = Word(w), \A j \in 1 .. i - 1 : line[j] # Word(w)
    PROVE  After(line, w) = <<line[i + 1]>>
<1>1. PICK d : d = {j \in 1 .. Len(line) : line[j] = Word(w)}
  OBVIOUS
<1>2. d \subseteq Int /\ i \in d /\ \A j \in d : i <= j
  BY <1>1
<1>3. Min(d) = i
  BY <1>2, MinIs
<1>4. SelectInSeq(line, LAMBDA field : field = Word(w)) = i
  BY <1>1, <1>2, <1>3 DEF SelectInSeq
<1>. QED
  BY <1>4 DEF After

LEMMA AfterNone ==
    ASSUME NEW n \in Nat, NEW line, Len(line) = n, NEW w, \A j \in 1 .. n : line[j] # Word(w)
    PROVE  After(line, w) = <<>>
<1>1. {j \in 1 .. Len(line) : line[j] = Word(w)} = {}
  OBVIOUS
<1>2. SelectInSeq(line, LAMBDA field : field = Word(w)) = 0
  BY <1>1 DEF SelectInSeq
<1>. QED
  BY <1>2 DEF After

(* Addresses, of which only the family has the name of one.                *)
IsAddress(a) ==
    /\ {"interface", "family", "ip"} \subseteq DOMAIN a
    /\ a.interface \notin {Word("inet"), Word("inet6")}
    /\ a.family \in {"inet", "inet6"} /\ a.ip \notin {"inet", "inet6"}

(* What ip prints of an address, and which of its words are which.         *)
AddressLine(a) ==
    <<Num(2), a.interface, Word(a.family), Prefix(a.ip, 24), Word("scope"), Word("global")>>

LEMMA AddressWords ==
    ASSUME NEW a, IsAddress(a), NEW w \in {"inet", "inet6"}
    PROVE  /\ Num(2) # Word(w) /\ a.interface # Word(w) /\ Prefix(a.ip, 24) # Word(w)
           /\ Word("scope") # Word(w) /\ Word("global") # Word(w)
           /\ Word(a.family) = Word(w) <=> a.family = w
<1>1. Num(2) # Word(w) /\ Prefix(a.ip, 24) # Word(w)
  BY DEF Num, Prefix, Word, Field
<1>2. Word("scope") # Word(w) /\ Word("global") # Word(w)
  BY DEF Word, Field
<1>3. Word(a.family) = Word(w) <=> a.family = w
  BY DEF Word, Field
<1>4. a.interface # Word(w)
  BY DEF IsAddress
<1>. QED
  BY <1>1, <1>2, <1>3, <1>4

LEMMA AddressLineRead ==
    ASSUME NEW a, IsAddress(a), NEW line, line = AddressLine(a), NEW w \in {"inet", "inet6"}
    PROVE  /\ Len(line) = 6 /\ line[2] = a.interface
           /\ a.family = w => After(line, w) = <<Prefix(a.ip, 24)>>
           /\ a.family # w => After(line, w) = <<>>
<1>1. /\ Len(line) = 6 /\ line[1] = Num(2) /\ line[2] = a.interface
      /\ line[3] = Word(a.family) /\ line[4] = Prefix(a.ip, 24)
      /\ line[5] = Word("scope") /\ line[6] = Word("global")
  BY DEF AddressLine
<1>2. PICK n, i : n = 6 /\ i = 3
  OBVIOUS
<1>3. /\ line[1] # Word(w) /\ line[2] # Word(w) /\ line[4] # Word(w)
      /\ line[5] # Word(w) /\ line[6] # Word(w)
      /\ line[3] = Word(w) <=> a.family = w
  BY <1>1, AddressWords
<1>4. ASSUME a.family = w
      PROVE  After(line, w) = <<Prefix(a.ip, 24)>>
  <2>1. line[i] = Word(w)
    BY <1>2, <1>3, <1>4
  <2>2. \A j \in 1 .. i - 1 : line[j] # Word(w)
    BY <1>2, <1>3
  <2>3. n \in Nat /\ Len(line) = n /\ i \in 1 .. n - 1
    BY <1>1, <1>2
  <2>4. After(line, w) = <<line[i + 1]>>
    BY <2>1, <2>2, <2>3, AfterThere
  <2>5. line[i + 1] = Prefix(a.ip, 24)
    BY <1>1, <1>2
  <2>. QED
    BY <2>4, <2>5
<1>5. ASSUME a.family # w
      PROVE  After(line, w) = <<>>
  <2>1. \A j \in 1 .. n : line[j] # Word(w)
    BY <1>2, <1>3, <1>5
  <2>2. n \in Nat /\ Len(line) = n
    BY <1>1, <1>2
  <2>. QED
    BY <2>1, <2>2, AfterNone
<1>. QED
  BY <1>1, <1>4, <1>5

(* The address without the length of its prefix.                           *)
LEMMA PrefixParts ==
    ASSUME NEW ip
    PROVE  /\ Prefix(ip, 24).word = ip /\ Prefix(ip, 24).kind # "bad prefix"
           /\ <<Prefix(ip, 24)>> # <<>> /\ <<Prefix(ip, 24)>>[1] = Prefix(ip, 24)
<1>1. Prefix(ip, 24).word = ip /\ Prefix(ip, 24).kind # "bad prefix"
  BY Zenon DEF Prefix, Field
<1>2. PICK p : p = Prefix(ip, 24)
  OBVIOUS
<1>3. <<p>> # <<>> /\ <<p>>[1] = p
  OBVIOUS
<1>. QED
  BY <1>1, <1>2, <1>3, Zenon

(* The lines that the agent takes, and what it makes of them.              *)
IsConfigured(parts) ==
    /\ Len(parts) >= 4 /\ After(parts, "inet") # <<>>
    /\ After(parts, "inet")[1].kind # "bad prefix"

LEMMA LineConfigured ==
    ASSUME NEW a, IsAddress(a), NEW line, line = AddressLine(a)
    PROVE  /\ IsConfigured(line) <=> a.family = "inet"
           /\ a.family = "inet" => /\ Configuration(line).interface_name = a.interface
                                   /\ Configuration(line).ip_address = a.ip
<1>1. /\ Len(line) = 6 /\ line[2] = a.interface
      /\ a.family = "inet" => After(line, "inet") = <<Prefix(a.ip, 24)>>
      /\ a.family # "inet" => After(line, "inet") = <<>>
  BY AddressLineRead
<1>2. Len(line) >= 4
  BY <1>1
<1>3. CASE a.family = "inet"
  <2>1. After(line, "inet") # <<>> /\ After(line, "inet")[1] = Prefix(a.ip, 24)
    BY <1>1, <1>3, PrefixParts
  <2>2. IsConfigured(line)
    BY <1>2, <2>1, PrefixParts, Zenon DEF IsConfigured
  <2>3. /\ Configuration(line).interface_name = line[2]
        /\ Configuration(line).ip_address = After(line, "inet")[1].word
    BY Zenon DEF Configuration
  <2>. QED
    BY <1>1, <1>3, <2>1, <2>2, <2>3, PrefixParts, Zenon
<1>4. CASE a.family # "inet"
  BY <1>1, <1>4, Zenon DEF IsConfigured
<1>. QED
  BY <1>3, <1>4, Zenon

(* The addresses that the agent reads: those of the first family.          *)
LEMMA ConfigurationsRead ==
    ASSUME NEW m \in Nat, NEW f, DOMAIN f.addresses = 1 .. m,
           \A i \in 1 .. m : IsAddress(f.addresses[i])
    PROVE  Each(Configurations(ip_addr(f.addresses)), LAMBDA c : <<c.interface_name, c.ip_address>>)
              = AddressesOf(f, {"inet"})
<1>1. PICK addr : addr = ip_addr(f.addresses)
  OBVIOUS
<1>2. DOMAIN addr = 1 .. m /\ \A i \in 1 .. m : addr[i] = AddressLine(f.addresses[i])
  BY <1>1 DEF ip_addr, Each, AddressLine
<1>3. PICK p : p = {i \in 1 .. m : f.addresses[i].family \in {"inet"}}
  OBVIOUS
<1>4. {i \in DOMAIN addr : IsConfigured(addr[i])} = p
  BY <1>2, <1>3, LineConfigured
<1>5. PICK lines, as : lines = At(addr, p) /\ as = At(f.addresses, p)
  OBVIOUS
<1>6. PICK c : c = Cardinality(p)
  OBVIOUS
<1>7. /\ DOMAIN lines = 1 .. c /\ DOMAIN as = 1 .. c
      /\ \A k \in 1 .. c : \E i \in p : lines[k] = addr[i] /\ as[k] = f.addresses[i]
  <2>1. \A i \in p : i \in 1 .. m
    BY <1>3
  <2>2. /\ DOMAIN At(addr, p) = 1 .. Cardinality(p)
        /\ \A k \in 1 .. Cardinality(p) : Nth(p, k) \in p /\ At(addr, p)[k] = addr[Nth(p, k)]
    BY <2>1, AtLines
  <2>3. /\ DOMAIN At(f.addresses, p) = 1 .. Cardinality(p)
        /\ \A k \in 1 .. Cardinality(p) : At(f.addresses, p)[k] = f.addresses[Nth(p, k)]
    BY <2>1, AtLines
  <2>. QED
    BY <1>5, <1>6, <2>2, <2>3
<1>8. \A k \in 1 .. c : /\ Configuration(lines[k]).interface_name = as[k].interface
                        /\ Configuration(lines[k]).ip_address = as[k].ip
  <2>1. ASSUME NEW i \in p
        PROVE  /\ Configuration(addr[i]).interface_name = f.addresses[i].interface
               /\ Configuration(addr[i]).ip_address = f.addresses[i].ip
    BY <1>2, <1>3, LineConfigured
  <2>. QED
    BY <1>7, <2>1
<1>9. Configurations(addr) = [k \in 1 .. c |-> Configuration(lines[k])]
  BY <1>4, <1>5, <1>7, Zenon DEF Configurations, Where, Each, IsConfigured
<1>10. AddressesOf(f, {"inet"}) = [k \in 1 .. c |-> <<as[k].interface, as[k].ip>>]
  <2>1. {i \in DOMAIN f.addresses : f.addresses[i].family \in {"inet"}} = p
    BY <1>3
  <2>. QED
    BY <1>5, <1>7, <2>1, Zenon DEF AddressesOf, Where, Each
<1>11. Each(Configurations(addr), LAMBDA cc : <<cc.interface_name, cc.ip_address>>)
         = [k \in 1 .. c |-> <<Configuration(lines[k]).interface_name,
                               Configuration(lines[k]).ip_address>>]
  <2>1. DOMAIN Configurations(addr) = 1 .. c
    BY <1>9
  <2>2. \A k \in 1 .. c : Configurations(addr)[k] = Configuration(lines[k])
    BY <1>9
  <2>. QED
    BY <2>1, <2>2 DEF Each
<1>. QED
  BY <1>1, <1>8, <1>10, <1>11

(* The way out of the network.                                             *)
LEMMA RouteRead ==
    ASSUME NEW route, route = <<<<Word("default"), Word("via"), Word("10.0.0.1"), Word("dev"),
                                  Word("eth0")>>>>
    PROVE  Routes(route) # <<>> /\ Routes(route)[1].gateway = <<Word("10.0.0.1")>>
<1>1. PICK x, v, y, z, u : /\ x = Word("default") /\ v = Word("via") /\ y = Word("10.0.0.1")
                           /\ z = Word("dev") /\ u = Word("eth0")
  OBVIOUS
<1>2. x # v
  BY <1>1 DEF Word, Field
<1>3. PICK line : line = <<x, v, y, z, u>>
  OBVIOUS
<1>4. Len(line) = 5 /\ line[1] = x /\ line[2] = v /\ line[3] = y
  BY <1>3
<1>5. After(line, "via") = <<y>>
  <2>1. PICK n, i : n = 5 /\ i = 2
    OBVIOUS
  <2>2. n \in Nat /\ Len(line) = n /\ i \in 1 .. n - 1
    BY <1>4, <2>1
  <2>3. line[i] = Word("via") /\ \A j \in 1 .. i - 1 : line[j] # Word("via")
    BY <1>1, <1>2, <1>4, <2>1
  <2>4. After(line, "via") = <<line[i + 1]>>
    BY <2>2, <2>3, AfterThere
  <2>5. line[i + 1] = y
    BY <1>4, <2>1
  <2>. QED
    BY <2>4, <2>5
<1>6. PICK rows : rows = <<line>>
  OBVIOUS
<1>7. /\ DOMAIN rows = 1 .. 1 /\ rows[1] = line /\ rows = [i \in 1 .. 1 |-> rows[i]]
  BY <1>6
<1>8. Where(rows, LAMBDA parts : Len(parts) >= 2) = rows
  <2>1. {i \in DOMAIN rows : Len(rows[i]) >= 2} = 1 .. 1
    BY <1>4, <1>7
  <2>. QED
    BY <1>7, <2>1, AllAt DEF Where
<1>9. Routes(rows) = [i \in 1 .. 1 |-> Route(rows[i])]
  BY <1>7, <1>8 DEF Routes, Each
<1>10. Routes(rows) # <<>> /\ Routes(rows)[1] = Route(line)
  BY <1>7, <1>9
<1>11. Route(line).gateway = After(line, "via")
  BY Zenon DEF Route
<1>12. rows = route
  BY <1>1, <1>3, <1>6
<1>. QED
  BY <1>1, <1>5, <1>10, <1>11, <1>12

(* What is told of a network, one by one.                                  *)
LEMMA NetworkIs ==
    ASSUME NEW dev, NEW addr, NEW route, NEW tcp, NEW udp, Routes(route) # <<>>
    PROVE  LET network == NetworkParser(dev, addr, route, tcp, udp)
           IN /\ Metrics(network, "configurations") = Configurations(addr)
              /\ Metrics(network, "tcp_connections") = TCPConnections(tcp)
              /\ Metrics(network, "udp_connections") = UDPConnections(udp)
              /\ Metrics(network, "routes") = Routes(route)
<1>1. PICK metrics :
         metrics = [interfaces |-> Interfaces(dev), configurations |-> Configurations(addr),
                    routes |-> Routes(route), tcp_connections |-> TCPConnections(tcp),
                    udp_connections |-> UDPConnections(udp)]
  OBVIOUS
<1>2. /\ metrics.configurations = Configurations(addr)
      /\ metrics.tcp_connections = TCPConnections(tcp)
      /\ metrics.udp_connections = UDPConnections(udp)
      /\ metrics.routes = Routes(route)
      /\ "routes" \in DOMAIN metrics
  BY <1>1
<1>3. NetworkParser(dev, addr, route, tcp, udp)
         = IF \A part \in DOMAIN metrics : metrics[part] = <<>> THEN Invalid ELSE Valid(metrics)
  BY <1>1, Zenon DEF NetworkParser
<1>4. NetworkParser(dev, addr, route, tcp, udp) = Valid(metrics)
  BY <1>2, <1>3
<1>5. Valid(metrics).valid /\ Valid(metrics).metrics = metrics
  BY DEF Valid
<1>6. \A part : Metrics(NetworkParser(dev, addr, route, tcp, udp), part) = metrics[part]
  BY <1>4, <1>5 DEF Metrics
<1>. QED
  BY <1>2, <1>6

(* The networks that are read: addresses of either family, and sockets.    *)
AnyNetwork(f) ==
    /\ f.addresses \in Seq(ToSet(f.addresses)) /\ f.sockets \in Seq(ToSet(f.sockets))
    /\ \A i \in DOMAIN f.addresses : IsAddress(f.addresses[i])
    /\ \A i \in DOMAIN f.sockets : IsSocket(f.sockets[i])

(* What the commands of the reading are, and print.                        *)
LEMMA NetworkScript ==
    ASSUME reader = "network_collector"
    PROVE  /\ Script.commands = 5 /\ Script.on = "network" /\ Script.cut = <<>>
           /\ Script.tolerated = {}
  BY DEF Script, Readings, Local, Reading

LEMMA NetworkPrints ==
    ASSUME reader = "network_collector", NEW f, NEW before
    PROVE  /\ Printed(f, before)[2] = ip_addr(f.addresses)
           /\ Printed(f, before)[3] = <<<<Word("default"), Word("via"), Word("10.0.0.1"),
                                          Word("dev"), Word("eth0")>>>>
           /\ Printed(f, before)[4] = net_tcp(f.sockets)
           /\ Printed(f, before)[5] = net_tcp(f.sockets)
  BY DEF Printed

(* The network that the agent reads on its own host.                       *)
LEMMA NetworkLocal ==
    ASSUME ReadingInv, \A f \in Facts["network"] : AnyNetwork(f),
           reader = "network_collector", Current > Script.commands
    PROVE  LET network == NetworkParser(outputs[1], outputs[2], outputs[3], outputs[4],
                                        outputs[5])
           IN /\ Each(Metrics(network, "configurations"),
                      LAMBDA c : <<c.interface_name, c.ip_address>>)
                     = AddressesOf(seen[2], {"inet"})
              /\ Each(Metrics(network, "tcp_connections"), LAMBDA c : c.local) = seen[4].sockets
              /\ Metrics(network, "udp_connections") = seen[5].sockets
              /\ Metrics(network, "routes")[1].gateway = <<Word("10.0.0.1")>>
<1>1. \A i \in 1 .. 5 :
         /\ AnyNetwork(seen[i])
         /\ outputs[i] = Printed(seen[i], SubSeq(outputs, 1, i - 1))[i]
  <2>1. ASSUME NEW i \in 1 .. 5
        PROVE  /\ seen[i] \in Facts["network"]
               /\ Complete(i) => outputs[i] = Printed(seen[i], SubSeq(outputs, 1, i - 1))[i]
               /\ Complete(i)
    <3>1. /\ Script.commands = 5 /\ Script.on = "network" /\ Script.cut = <<>>
          /\ Script.tolerated = {}
      BY NetworkScript
    <3>2. 5 \in Nat
      OBVIOUS
    <3>. QED
      BY <3>1, <3>2, LocalBack
  <2>. QED
    BY <2>1
<1>2. outputs[2] = ip_addr(seen[2].addresses)
  <2>1. outputs[2] = Printed(seen[2], SubSeq(outputs, 1, 2 - 1))[2]
    BY <1>1
  <2>. QED
    BY <2>1, NetworkPrints, Zenon
<1>3. outputs[3] = <<<<Word("default"), Word("via"), Word("10.0.0.1"), Word("dev"),
                       Word("eth0")>>>>
  <2>1. outputs[3] = Printed(seen[3], SubSeq(outputs, 1, 3 - 1))[3]
    BY <1>1
  <2>. QED
    BY <2>1, NetworkPrints, Zenon
<1>4. outputs[4] = net_tcp(seen[4].sockets)
  <2>1. outputs[4] = Printed(seen[4], SubSeq(outputs, 1, 4 - 1))[4]
    BY <1>1
  <2>. QED
    BY <2>1, NetworkPrints, Zenon
<1>5. outputs[5] = net_tcp(seen[5].sockets)
  <2>1. outputs[5] = Printed(seen[5], SubSeq(outputs, 1, 5 - 1))[5]
    BY <1>1
  <2>. QED
    BY <2>1, NetworkPrints, Zenon
<1>6. PICK f, g, h : /\ f = seen[2] /\ g = seen[4] /\ h = seen[5]
                     /\ AnyNetwork(f) /\ AnyNetwork(g) /\ AnyNetwork(h)
  BY <1>1
<1>7. Each(Configurations(ip_addr(f.addresses)), LAMBDA c : <<c.interface_name, c.ip_address>>)
         = AddressesOf(f, {"inet"})
  <2>1. PICK m \in Nat : DOMAIN f.addresses = 1 .. m
    BY <1>6 DEF AnyNetwork
  <2>2. \A i \in 1 .. m : IsAddress(f.addresses[i])
    BY <1>6, <2>1 DEF AnyNetwork
  <2>. QED
    BY <2>1, <2>2, ConfigurationsRead
<1>8. ASSUME NEW n, AnyNetwork(n)
      PROVE  /\ Each(TCPConnections(net_tcp(n.sockets)), LAMBDA c : c.local) = n.sockets
             /\ UDPConnections(net_tcp(n.sockets)) = n.sockets
  <2>1. PICK sockets : sockets = n.sockets
    OBVIOUS
  <2>2. /\ sockets \in Seq(ToSet(sockets)) /\ \A i \in DOMAIN sockets : IsSocket(sockets[i])
    BY <1>8, <2>1 DEF AnyNetwork
  <2>3. PICK m \in Nat : m = Len(sockets) /\ DOMAIN sockets = 1 .. m
    BY <2>2
  <2>4. \A i \in 1 .. m : IsSocket(sockets[i])
    BY <2>2, <2>3
  <2>5. Each(TCPConnections(net_tcp(sockets)), LAMBDA c : c.local) = sockets
    BY <2>2, <2>3, <2>4, TCPRead
  <2>6. UDPConnections(net_tcp(sockets)) = sockets
    BY <2>2, <2>3, <2>4, UDPRead
  <2>. QED
    BY <2>1, <2>5, <2>6
<1>9. Routes(outputs[3]) # <<>> /\ Routes(outputs[3])[1].gateway = <<Word("10.0.0.1")>>
  BY <1>3, RouteRead
<1>10. LET network == NetworkParser(outputs[1], outputs[2], outputs[3], outputs[4],
                                   outputs[5])
      IN /\ Metrics(network, "configurations") = Configurations(outputs[2])
         /\ Metrics(network, "tcp_connections") = TCPConnections(outputs[4])
         /\ Metrics(network, "udp_connections") = UDPConnections(outputs[5])
         /\ Metrics(network, "routes") = Routes(outputs[3])
  BY <1>9, NetworkIs
<1>. QED
  BY <1>2, <1>4, <1>6, <1>7, <1>8, <1>9, <1>10, <1>5, Zenon

-------------------------------------------------------------------------------
(* ... and the groups of addresses that a discovery makes.                 *)

(* The lines with an address, those of a name, and those that bring one up.*)
IsAddressed(parts) == Len(parts) >= 4 /\ Discovery!Address(parts) # <<>>
NamedIn(lines, name) == {i \in DOMAIN lines : lines[i][2] = name}
PlacesOf(names, name) == {i \in DOMAIN names : names[i] = name}
NewIn(names) == {i \in DOMAIN names : \A j \in 1 .. i - 1 : names[j] # names[i]}

(* The address in a line, and the group of a name.                         *)
IpOf(parts) == Discovery!Address(parts)[1].word
GroupOf(lines, name) ==
    [name |-> name,
     ip_addresses |-> LET own == Discovery!At(lines, NamedIn(lines, name))
                      IN [k \in DOMAIN own |-> IpOf(own[k])]]

(* The groups of the names, each where its name comes up.                  *)
GroupsFrom(lines, names, all) ==
    LET first == Discovery!At(all, {x \in DOMAIN all :
                                       \A j \in 1 .. all[x] - 1 : names[j] # names[all[x]]})
    IN [k \in DOMAIN first |-> GroupOf(lines, names[first[k]])]

(* The parser groups the lines with an address.                            *)
LEMMA AddressParser ==
    ASSUME NEW addr
    PROVE  LET lines == Discovery!At(addr, {i \in DOMAIN addr : IsAddressed(addr[i])})
           IN Discovery!NetworkParser(addr) = GroupsFrom(lines, [i \in DOMAIN lines |-> lines[i][2]],
                                                     [i \in DOMAIN lines |-> i])
  BY Zenon DEF Discovery!NetworkParser, Discovery!Where, Discovery!Each,
                   IsAddressed, GroupsFrom, GroupOf, NamedIn, IpOf

(* Both parsers look for a field in the same way.                          *)
LEMMA SameAfter ==
    ASSUME NEW line, NEW w
    PROVE  Discovery!After(line, w) = After(line, w)
<1>1. \A s : Discovery!Min(s) = Min(s)
  BY DEF Discovery!Min, Min
<1>2. \A word : Discovery!Word(word) = Word(word)
  BY DEF Discovery!Word, Discovery!Field, Word, Field
<1>. QED
  BY <1>1, <1>2 DEF Discovery!After, After, Discovery!SelectInSeq, SelectInSeq

(* A line shows its address from the fourth field on, as that field has it.*)
LEMMA CutAddressRead ==
    ASSUME NEW a, IsAddress(a), NEW line, NEW k \in 4 .. 6, Len(line) = k,
           \A j \in 1 .. 3 : line[j] = AddressLine(a)[j],
           \A j \in 4 .. k : line[j] \notin {Word("inet"), Word("inet6")}
    PROVE  IsAddressed(line) /\ line[2] = a.interface /\ IpOf(line) = line[4].word
<1>1. PICK i : i = 3
  OBVIOUS
<1>2. PICK w : w = a.family
  OBVIOUS
<1>3. w \in {"inet", "inet6"}
  BY <1>2 DEF IsAddress
<1>4. line[1] = Num(2) /\ line[2] = a.interface /\ line[3] = Word(a.family)
  BY DEF AddressLine
<1>5. ASSUME NEW v \in {"inet", "inet6"}
      PROVE  /\ line[1] # Word(v) /\ line[2] # Word(v)
             /\ line[3] = Word(v) <=> w = v
             /\ w # v => \A j \in 1 .. k : line[j] # Word(v)
  <2>1. /\ line[1] # Word(v) /\ line[2] # Word(v)
        /\ line[3] = Word(v) <=> w = v
    BY <1>2, <1>4, AddressWords
  <2>2. ASSUME w # v, NEW j \in 1 .. k
        PROVE  line[j] # Word(v)
    <3>1. j = 1 \/ j = 2 \/ j = 3 \/ j \in 4 .. k
      OBVIOUS
    <3>2. j \in 4 .. k => line[j] # Word(v)
      OBVIOUS
    <3>. QED
      BY <2>1, <2>2, <3>1, <3>2, Zenon
  <2>. QED
    BY <2>1, <2>2
<1>6. After(line, w) = <<line[4]>>
  <2>1. k \in Nat /\ i \in 1 .. k - 1
    BY <1>1
  <2>2. line[i] = Word(w) /\ \A j \in 1 .. i - 1 : line[j] # Word(w)
    <3>1. line[1] # Word(w) /\ line[2] # Word(w) /\ line[3] = Word(w)
      BY <1>3, <1>5
    <3>2. \A j \in 1 .. i - 1 : j = 1 \/ j = 2
      BY <1>1
    <3>. QED
      BY <1>1, <3>1, <3>2, Zenon
  <2>3. After(line, w) = <<line[i + 1]>>
    BY <2>1, <2>2, AfterThere
  <2>. QED
    BY <1>1, <2>3
<1>7. Discovery!Address(line) = <<line[4]>>
  <2>1. CASE w = "inet"
    <3>1. PICK p : p = line[4] /\ <<p>> # <<>>
      OBVIOUS
    <3>. QED
      BY <1>6, <2>1, <3>1, SameAfter, Zenon DEF Discovery!Address
  <2>2. CASE w = "inet6"
    <3>1. \A j \in 1 .. k : line[j] # Word("inet")
      BY <1>5, <2>2
    <3>2. k \in Nat
      OBVIOUS
    <3>3. After(line, "inet") = <<>>
      BY <3>1, <3>2, AfterNone, Zenon
    <3>. QED
      BY <1>6, <2>2, <3>3, SameAfter, Zenon DEF Discovery!Address
  <2>. QED
    BY <1>3, <2>1, <2>2
<1>8. PICK p : p = line[4] /\ <<p>> # <<>> /\ <<p>>[1] = p
  OBVIOUS
<1>9. Discovery!Address(line)[1] = p /\ Discovery!Address(line) # <<>>
  BY <1>7, <1>8, Zenon
<1>10. IpOf(line) = line[4].word
  BY <1>8, <1>9, Zenon DEF IpOf
<1>11. Len(line) >= 4
  OBVIOUS
<1>. QED
  BY <1>4, <1>9, <1>10, <1>11, Zenon DEF IsAddressed

(* What is left of an address is no name of a family.                      *)
LEMMA TornIp ==
    ASSUME NEW ip, ip \notin {"inet", "inet6"}, NEW field \in Torn(Prefix(ip, 24))
    PROVE  /\ field \notin {Word("inet"), Word("inet6")}
           /\ field.word \notin {"inet", "inet6"}
<1>1. Prefix(ip, 24).kind = "prefix" /\ Prefix(ip, 24).word = ip
  BY Zenon DEF Prefix, Field
<1>6. Prefix(ip, 24) # Word("users") /\ Prefix(ip, 24) # Word("/")
  BY <1>1 DEF Word, Field
<1>2. \/ field = Broken \/ field = Word(ip)
      \/ \E m \in Leading(Prefix(ip, 24).num) : field = Prefix(ip, m)
  <2>1. Torn(Prefix(ip, 24)) = {Broken, Word(Prefix(ip, 24).word)} \union
           {Prefix(Prefix(ip, 24).word, m) : m \in Leading(Prefix(ip, 24).num)}
    BY <1>1, <1>6, Zenon DEF Torn
  <2>. QED
    BY <1>1, <2>1, Zenon
<1>3. \A m : /\ Prefix(ip, m) \notin {Word("inet"), Word("inet6")}
             /\ Prefix(ip, m).word = ip
  BY DEF Prefix, Word, Field
<1>4. Word(ip) \notin {Word("inet"), Word("inet6")} /\ Word(ip).word = ip
  BY DEF Word, Field
<1>5. /\ Broken \notin {Word("inet"), Word("inet6")}
      /\ Broken.word = "..." /\ "..." \notin {"inet", "inet6"}
  BY DEF Broken, Word, Field
<1>. QED
  BY <1>2, <1>3, <1>4, <1>5

(* What is left of the fields after the family does not read like one.     *)
LEMMA TornAddress ==
    ASSUME NEW a, IsAddress(a), NEW j \in 4 .. 6, NEW field \in Torn(AddressLine(a)[j])
    PROVE  field \notin {Word("inet"), Word("inet6")}
<1>1. PICK ip : ip = a.ip /\ ip \notin {"inet", "inet6"}
  BY DEF IsAddress
<1>2. CASE j = 4
  <2>1. field \in Torn(Prefix(ip, 24))
    BY <1>1, <1>2 DEF AddressLine
  <2>. QED
    BY <1>1, <2>1, TornIp, Zenon
<1>3. CASE j = 5 \/ j = 6
  <2>1. field \in Torn(Word("scope")) \/ field \in Torn(Word("global"))
    BY <1>3 DEF AddressLine
  <2>2. field = Broken \/ field = Word("user")
    BY <2>1, TornWord
  <2>. QED
    BY <2>2 DEF Broken, Word, Field
<1>. QED
  BY <1>2, <1>3

(* A part of a line shows its address, or no longer, or a part of it.      *)
ShowsAddress(line, a) ==
    IsAddressed(line) /\ line[2] = a.interface /\ IpOf(line) = a.ip

IpLeft(a, ip) == [a EXCEPT !.ip = ip]

LEMMA PartAddressRead ==
    ASSUME NEW a, IsAddress(a), NEW line, IsPart(line, AddressLine(a))
    PROVE  \/ ~IsAddressed(line)
           \/ ShowsAddress(line, a)
           \/ \E field \in Torn(Prefix(a.ip, 24)) : ShowsAddress(line, IpLeft(a, field.word))
<1>1. PICK full : full = AddressLine(a)
  OBVIOUS
<1>2. Len(full) = 6 /\ full[4] = Prefix(a.ip, 24)
  BY <1>1 DEF AddressLine
<1>3. PICK k : k = Len(line)
  OBVIOUS
<1>4. /\ k \in 1 .. 6
      /\ \A j \in 1 .. k - 1 : line[j] = full[j]
      /\ line[k] = full[k] \/ line[k] \in Torn(full[k])
  <2>1. /\ k \in 1 .. Len(full)
        /\ \A j \in 1 .. k - 1 : line[j] = full[j]
        /\ line[k] = full[k] \/ line[k] \in Torn(full[k])
    BY <1>1, <1>3, Zenon DEF IsPart
  <2>. QED
    BY <1>2, <2>1
<1>5. CASE k < 4
  BY <1>3, <1>4, <1>5 DEF IsAddressed
<1>6. CASE k >= 4
  <2>1. k \in 4 .. 6
    BY <1>4, <1>6
  <2>2. \A j \in 1 .. 3 : line[j] = full[j]
    <3>1. \A j \in 1 .. 3 : j \in 1 .. k - 1
      BY <2>1
    <3>. QED
      BY <1>4, <3>1
  <2>3. ASSUME NEW j \in 4 .. k
        PROVE  line[j] \notin {Word("inet"), Word("inet6")}
    <3>1. j \in 4 .. 6 /\ (j \in 1 .. k - 1 \/ j = k)
      BY <2>1
    <3>2. line[j] = full[j] \/ line[j] \in Torn(full[j])
      BY <1>4, <3>1
    <3>3. full[j] \notin {Word("inet"), Word("inet6")}
      <4>1. /\ full[5] = Word("scope") /\ full[6] = Word("global")
        BY <1>1 DEF AddressLine
      <4>2. \A w \in {"inet", "inet6"} :
               full[4] # Word(w) /\ full[5] # Word(w) /\ full[6] # Word(w)
        BY <1>2, <4>1, AddressWords
      <4>3. j = 4 \/ j = 5 \/ j = 6
        BY <3>1
      <4>. QED
        BY <4>2, <4>3
    <3>4. line[j] \in Torn(full[j]) => line[j] \notin {Word("inet"), Word("inet6")}
      BY <1>1, <3>1, TornAddress, Zenon
    <3>. QED
      BY <3>2, <3>3, <3>4, Zenon
  <2>4. IsAddressed(line) /\ line[2] = a.interface /\ IpOf(line) = line[4].word
    <3>1. Len(line) = k /\ \A j \in 1 .. 3 : line[j] = AddressLine(a)[j]
      BY <1>1, <1>3, <2>2
    <3>. QED
      BY <2>1, <2>3, <3>1, CutAddressRead, Zenon
  <2>5. CASE line[4] = full[4]
    <3>1. line[4].word = a.ip
      BY <1>2, <2>5, PrefixParts
    <3>. QED
      BY <2>4, <3>1 DEF ShowsAddress
  <2>6. CASE line[4] # full[4]
    <3>1. line[4] \in Torn(Prefix(a.ip, 24))
      <4>1. k = 4 \/ 4 \in 1 .. k - 1
        BY <2>1
      <4>. QED
        BY <1>2, <1>4, <2>6, <4>1
    <3>2. PICK field : field = line[4]
      OBVIOUS
    <3>3. {"interface", "ip"} \subseteq DOMAIN a
      BY DEF IsAddress
    <3>4. /\ IpLeft(a, field.word).ip = field.word
          /\ IpLeft(a, field.word).interface = a.interface
      BY <3>3 DEF IpLeft
    <3>5. ShowsAddress(line, IpLeft(a, field.word))
      BY <2>4, <3>2, <3>4, Zenon DEF ShowsAddress
    <3>. QED
      BY <3>1, <3>2, <3>5, Zenon
  <2>. QED
    BY <2>5, <2>6
<1>. QED
  BY <1>4, <1>5, <1>6

(* All of a line shows it.                                                 *)
LEMMA AddressShown ==
    ASSUME NEW a, IsAddress(a)
    PROVE  ShowsAddress(AddressLine(a), a)
<1>1. PICK line, k : line = AddressLine(a) /\ k = 6
  OBVIOUS
<1>2. /\ Len(line) = k /\ line[4] = Prefix(a.ip, 24)
      /\ line[5] = Word("scope") /\ line[6] = Word("global")
  BY <1>1 DEF AddressLine
<1>3. \A w \in {"inet", "inet6"} : line[4] # Word(w) /\ line[5] # Word(w) /\ line[6] # Word(w)
  BY <1>2, AddressWords
<1>4. ASSUME NEW j \in 4 .. k
      PROVE  line[j] \notin {Word("inet"), Word("inet6")}
  <2>1. j = 4 \/ j = 5 \/ j = 6
    BY <1>1
  <2>. QED
    BY <1>3, <2>1
<1>5. k \in 4 .. 6 /\ \A j \in 1 .. 3 : line[j] = AddressLine(a)[j]
  BY <1>1
<1>6. IsAddressed(line) /\ line[2] = a.interface /\ IpOf(line) = line[4].word
  BY <1>2, <1>4, <1>5, CutAddressRead
<1>7. line[4].word = a.ip
  BY <1>2, PrefixParts
<1>. QED
  BY <1>1, <1>6, <1>7, Zenon DEF ShowsAddress

(* Addresses, and lines that show the first l of them.                     *)
AreAddresses(addresses, m) ==
    DOMAIN addresses = 1 .. m /\ \A i \in 1 .. m : IsAddress(addresses[i])

ShowFirst(output, addresses, l) ==
    /\ {i \in DOMAIN output : IsAddressed(output[i])} = 1 .. l
    /\ \A i \in 1 .. l : output[i][2] = addresses[i].interface
    /\ \A i \in 1 .. l : IpOf(output[i]) = addresses[i].ip

(* Addresses of which the last has lost the end of its number.             *)
IpTornAt(addresses, n, ip) ==
    Append(SubSeq(addresses, 1, n), IpLeft(addresses[n + 1], ip))

LEMMA TornAddresses ==
    ASSUME NEW m \in Nat, NEW addresses, addresses \in Seq(ToSet(addresses)),
           AreAddresses(addresses, m), NEW n \in 0 .. m, n < m,
           NEW field \in Torn(Prefix(addresses[n + 1].ip, 24)),
           NEW torn, torn = IpTornAt(addresses, n, field.word)
    PROVE  /\ AreAddresses(torn, n + 1)
           /\ \A i \in 1 .. n : torn[i] = addresses[i]
           /\ torn[n + 1] = IpLeft(addresses[n + 1], field.word)
           /\ ~Complete(1) => torn \in Arrived(addresses, IpCut)
<1>1. n + 1 \in 1 .. m /\ (n + 1) - 1 = n /\ n \in Nat
  OBVIOUS
<1>2. DOMAIN addresses = 1 .. m /\ \A i \in 1 .. m : IsAddress(addresses[i])
  BY DEF AreAddresses
<1>3. PICK a, last : a = addresses[n + 1] /\ last = IpLeft(a, field.word)
  OBVIOUS
<1>4. IsAddress(a) /\ field \in Torn(Prefix(a.ip, 24))
  BY <1>1, <1>2, <1>3
<1>5. IsAddress(last)
  <2>1. /\ {"interface", "family", "ip"} \subseteq DOMAIN a
        /\ a.interface \notin {Word("inet"), Word("inet6")}
        /\ a.family \in {"inet", "inet6"} /\ a.ip \notin {"inet", "inet6"}
    BY <1>4 DEF IsAddress
  <2>2. /\ DOMAIN last = DOMAIN a /\ last.interface = a.interface
        /\ last.family = a.family /\ last.ip = field.word
    BY <1>3, <2>1 DEF IpLeft
  <2>3. field.word \notin {"inet", "inet6"}
    BY <1>4, <2>1, TornIp
  <2>. QED
    BY <2>1, <2>2, <2>3 DEF IsAddress
<1>6. PICK before : before = SubSeq(addresses, 1, n)
  OBVIOUS
<1>7. Len(addresses) = m
  BY <1>2
<1>8. /\ before \in Seq(ToSet(addresses)) /\ Len(before) = n
      /\ \A i \in 1 .. n : before[i] = addresses[i]
  BY <1>1, <1>6, <1>7
<1>9. torn = Append(before, last)
  BY <1>3, <1>6 DEF IpTornAt
<1>10. /\ DOMAIN torn = 1 .. n + 1 /\ \A i \in 1 .. n : torn[i] = before[i]
       /\ torn[n + 1] = last
  BY <1>1, <1>8, <1>9
<1>11. ASSUME NEW i \in 1 .. n + 1
       PROVE  IsAddress(torn[i])
  <2>1. i \in 1 .. n \/ i = n + 1
    BY <1>1
  <2>2. CASE i \in 1 .. n
    <3>1. torn[i] = addresses[i] /\ i \in 1 .. m
      BY <1>1, <1>8, <1>10, <2>2
    <3>. QED
      BY <1>2, <3>1
  <2>3. CASE i = n + 1
    BY <1>5, <1>10, <2>3
  <2>. QED
    BY <2>1, <2>2, <2>3
<1>12. ASSUME ~Complete(1)
       PROVE  torn \in Arrived(addresses, IpCut)
  <2>1. last \in IpCut(addresses[n + 1])
    BY <1>3, <1>4, Zenon DEF IpCut, IpLeft
  <2>2. torn \in {Append(SubSeq(addresses, 1, (n + 1) - 1), rest) :
                     rest \in IpCut(addresses[n + 1])}
    BY <1>1, <1>6, <1>9, <2>1
  <2>3. n + 1 \in DOMAIN addresses
    BY <1>1, <1>2
  <2>. QED
    BY <1>12, <2>2, <2>3, Zenon DEF Arrived
<1>. QED
  BY <1>3, <1>8, <1>10, <1>11, <1>12 DEF AreAddresses

(* What is kept of the lines of some addresses shows the first of those    *)
(* that may have arrived, or all of them if it is whole.                   *)
ShowsArrived(output, addresses) ==
    \E arrived \in Arrived(addresses, IpCut) : \E m \in Nat :
       /\ AreAddresses(arrived, m)
       /\ \E l \in 0 .. m : ShowFirst(output, arrived, l) /\ (Complete(1) => l = m)

LEMMA AddressesKept ==
    ASSUME NEW m \in Nat, NEW addresses, addresses \in Seq(ToSet(addresses)),
           AreAddresses(addresses, m),
           NEW n \in 0 .. m, Complete(1) => n = m,
           NEW output, Kept(output, ip_addr(addresses), n)
    PROVE  ShowsArrived(output, addresses)
<1>1. PICK lines : lines = ip_addr(addresses)
  OBVIOUS
<1>2. DOMAIN addresses = 1 .. m /\ \A i \in 1 .. m : IsAddress(addresses[i])
  BY DEF AreAddresses
<1>3. /\ DOMAIN lines = 1 .. m /\ lines = [i \in 1 .. m |-> lines[i]]
      /\ \A i \in 1 .. m : lines[i] = AddressLine(addresses[i])
  BY <1>1, <1>2 DEF ip_addr, Each, AddressLine
<1>4. Len(lines) = m
  BY <1>3, Numbered
<1>5. Kept(output, lines, n)
  BY <1>1
<1>6. /\ DOMAIN output = 1 .. Len(output)
      /\ Len(output) = n \/ Len(output) = n + 1
      /\ \A i \in 1 .. n : output[i] = lines[i]
      /\ Len(output) = n + 1 => n < m /\ output[n + 1] \in PartOf("fields", lines[n + 1])
  BY <1>4, <1>5, Zenon DEF Kept, Left
<1>7. ASSUME NEW i \in 1 .. n
      PROVE  ShowsAddress(output[i], addresses[i])
  <2>1. i \in 1 .. m
    OBVIOUS
  <2>2. output[i] = AddressLine(addresses[i])
    BY <1>3, <1>6, <2>1
  <2>. QED
    BY <1>2, <2>1, <2>2, AddressShown
<1>8. ASSUME NEW arrived, NEW k \in Nat, AreAddresses(arrived, k), NEW l \in 0 .. k,
             arrived \in Arrived(addresses, IpCut), Complete(1) => l = k,
             {i \in DOMAIN output : IsAddressed(output[i])} = 1 .. l,
             \A i \in 1 .. l : ShowsAddress(output[i], arrived[i])
      PROVE  ShowsArrived(output, addresses)
  <2>1. ShowFirst(output, arrived, l)
    BY <1>8, Zenon DEF ShowsAddress, ShowFirst
  <2>. QED
    BY <1>8, <2>1, Zenon DEF ShowsArrived
<1>9. addresses \in Arrived(addresses, IpCut)
  BY Zenon DEF Arrived
<1>10. n \in Nat /\ n \in 0 .. m
  OBVIOUS
<1>11. CASE Len(output) = n \/ ~IsAddressed(output[n + 1])
  <2>1. \A i \in 1 .. n : IsAddressed(output[i])
    BY <1>7, Zenon DEF ShowsAddress
  <2>2. {i \in DOMAIN output : IsAddressed(output[i])} = 1 .. n
    <3>1. DOMAIN output = 1 .. n \/ DOMAIN output = 1 .. n + 1
      BY <1>6
    <3>2. \A i \in 1 .. n + 1 : i \in 1 .. n \/ i = n + 1
      OBVIOUS
    <3>3. \A i \in 1 .. n : i \in 1 .. n + 1
      OBVIOUS
    <3>4. CASE DOMAIN output = 1 .. n
      BY <2>1, <3>4
    <3>5. CASE DOMAIN output = 1 .. n + 1 /\ Len(output) # n
      BY <1>11, <2>1, <3>2, <3>3, <3>5
    <3>. QED
      BY <1>6, <3>1, <3>4, <3>5
  <2>. QED
    BY <1>7, <1>8, <1>9, <1>10, <2>2, Zenon
<1>12. CASE Len(output) = n + 1 /\ IsAddressed(output[n + 1])
  <2>1. PICK r : r = n + 1
    OBVIOUS
  <2>2. /\ r \in 1 .. m /\ r \in Nat /\ n < m /\ ~Complete(1) /\ r \in 0 .. m /\ r \in 0 .. r
    BY <1>6, <1>12, <2>1
  <2>3. DOMAIN output = 1 .. r /\ \A i \in 1 .. r : i \in 1 .. n \/ i = r
    BY <1>6, <1>12, <2>1
  <2>4. PICK a, line : a = addresses[r] /\ line = output[r]
    OBVIOUS
  <2>5. IsAddress(a) /\ IsPart(line, AddressLine(a))
    <3>1. IsAddress(a) /\ line \in PartOf("fields", AddressLine(a))
      BY <1>2, <1>3, <1>6, <1>12, <2>1, <2>2, <2>4, Zenon
    <3>2. PICK T : T = {AddressLine(a)[j] : j \in 1 .. 6}
      OBVIOUS
    <3>3. AddressLine(a) \in Seq(T)
      BY <3>2 DEF AddressLine
    <3>. QED
      BY <3>1, <3>3, PartIs
  <2>6. \/ ShowsAddress(line, a)
        \/ \E field \in Torn(Prefix(a.ip, 24)) : ShowsAddress(line, IpLeft(a, field.word))
    BY <1>12, <2>1, <2>4, <2>5, PartAddressRead, Zenon
  <2>7. {i \in DOMAIN output : IsAddressed(output[i])} = 1 .. r
    <3>1. \A i \in 1 .. n : IsAddressed(output[i])
      BY <1>7, Zenon DEF ShowsAddress
    <3>2. \A i \in 1 .. r : IsAddressed(output[i])
      BY <1>12, <2>1, <2>3, <3>1, Zenon
    <3>. QED
      BY <2>3, <3>2
  <2>8. CASE ShowsAddress(line, a)
    <3>1. \A i \in 1 .. r : ShowsAddress(output[i], addresses[i])
      BY <1>7, <2>3, <2>4, <2>8, Zenon
    <3>. QED
      BY <1>8, <1>9, <2>2, <2>7, <3>1, Zenon
  <2>9. ASSUME NEW field \in Torn(Prefix(a.ip, 24)), ShowsAddress(line, IpLeft(a, field.word))
        PROVE  ShowsArrived(output, addresses)
    <3>1. PICK torn : torn = IpTornAt(addresses, n, field.word)
      OBVIOUS
    <3>2. field \in Torn(Prefix(addresses[n + 1].ip, 24))
      BY <2>1, <2>4
    <3>3. /\ AreAddresses(torn, n + 1)
          /\ \A i \in 1 .. n : torn[i] = addresses[i]
          /\ torn[n + 1] = IpLeft(addresses[n + 1], field.word)
          /\ ~Complete(1) => torn \in Arrived(addresses, IpCut)
      BY <1>10, <2>2, <3>1, <3>2, TornAddresses
    <3>4. \A i \in 1 .. r : ShowsAddress(output[i], torn[i])
      BY <1>7, <2>1, <2>3, <2>4, <2>9, <3>3, Zenon
    <3>5. AreAddresses(torn, r)
      BY <2>1, <3>3
    <3>6. torn \in Arrived(addresses, IpCut)
      BY <2>2, <3>3, Zenon
    <3>. QED
      BY <1>8, <2>2, <2>7, <3>4, <3>5, <3>6, Zenon
  <2>. QED
    BY <2>6, <2>8, <2>9
<1>. QED
  BY <1>6, <1>11, <1>12

(* The lines at the first places.                                          *)
LEMMA FirstLines ==
    ASSUME NEW l \in Nat, NEW output
    PROVE  LET lines == At(output, 1 .. l)
           IN DOMAIN lines = 1 .. l /\ \A i \in 1 .. l : lines[i] = output[i]
<1>1. PICK copy : copy = [i \in 1 .. l |-> output[i]]
  OBVIOUS
<1>2. /\ DOMAIN copy = 1 .. l /\ copy = [i \in 1 .. l |-> copy[i]]
      /\ \A i \in 1 .. l : copy[i] = output[i]
  BY <1>1
<1>3. At(copy, 1 .. l) = copy
  BY <1>2, AllAt
<1>4. At(output, 1 .. l) = At(copy, 1 .. l)
  BY <1>2, SameAt
<1>. QED
  BY <1>2, <1>3, <1>4

(* The addresses in those pairs that have a name.                          *)
IpsOf(all, name) == Each(Where(all, LAMBDA a : a[1] = name), LAMBDA a : a[2])

(* Pairs of a name and an address.                                         *)
ArePairs(all, m, names, ips) ==
    /\ DOMAIN all = 1 .. m /\ DOMAIN names = 1 .. m
    /\ \A i \in 1 .. m : all[i][1] = names[i]
    /\ \A i \in 1 .. m : all[i][2] = ips[i]

LEMMA PairsOf ==
    ASSUME NEW m \in Nat, NEW all, NEW names, NEW ips, ArePairs(all, m, names, ips), NEW x
    PROVE  IpsOf(all, x) = At(ips, PlacesOf(names, x))
<1>1. PICK q : q = PlacesOf(names, x)
  OBVIOUS
<1>2. {i \in DOMAIN all : all[i][1] = x} = q
  BY <1>1 DEF PlacesOf, ArePairs
<1>3. PICK own : own = At(all, q)
  OBVIOUS
<1>4. Where(all, LAMBDA a : a[1] = x) = own
  BY <1>2, <1>3 DEF Where
<1>5. PICK d : d = Cardinality(q)
  OBVIOUS
<1>6. \A p \in q : p \in 1 .. m
  BY <1>1 DEF PlacesOf, ArePairs
<1>7. DOMAIN own = 1 .. d /\ \A k \in 1 .. d : Nth(q, k) \in q /\ own[k] = all[Nth(q, k)]
  BY <1>3, <1>5, <1>6, AtLines
<1>8. \A k \in 1 .. d : own[k][2] = ips[Nth(q, k)]
  BY <1>6, <1>7 DEF ArePairs
<1>9. Each(own, LAMBDA a : a[2]) = At(ips, q)
  BY <1>5, <1>7, <1>8 DEF At, Each
<1>. QED
  BY <1>1, <1>4, <1>9, Zenon DEF IpsOf

(* All the addresses of a host, as pairs.                                  *)
LEMMA AllAddresses ==
    ASSUME NEW m \in Nat, NEW f, DOMAIN f.addresses = 1 .. m,
           \A i \in 1 .. m : IsAddress(f.addresses[i])
    PROVE  LET all == AddressesOf(f, {"inet", "inet6"})
           IN /\ DOMAIN all = 1 .. m
              /\ \A i \in 1 .. m : /\ all[i][1] = f.addresses[i].interface
                                   /\ all[i][2] = f.addresses[i].ip
              /\ ToSet(all) = {all[i] : i \in 1 .. m}
<1>1. PICK as : as = f.addresses
  OBVIOUS
<1>2. {i \in DOMAIN as : as[i].family \in {"inet", "inet6"}} = 1 .. m
  BY <1>1 DEF IsAddress
<1>3. PICK own : own = At(as, 1 .. m)
  OBVIOUS
<1>4. DOMAIN own = 1 .. m /\ \A i \in 1 .. m : own[i] = as[i]
  BY <1>3, FirstLines
<1>5. Where(as, LAMBDA a : a.family \in {"inet", "inet6"}) = own
  BY <1>2, <1>3 DEF Where
<1>6. AddressesOf(f, {"inet", "inet6"}) = [i \in DOMAIN own |-> <<own[i].interface, own[i].ip>>]
  BY <1>1, <1>5, Zenon DEF AddressesOf, Each
<1>7. PICK all : all = AddressesOf(f, {"inet", "inet6"})
  OBVIOUS
<1>8. DOMAIN all = 1 .. m
  BY <1>4, <1>6, <1>7
<1>9. ASSUME NEW i \in 1 .. m
      PROVE  all[i][1] = as[i].interface /\ all[i][2] = as[i].ip
  <2>1. all[i] = <<as[i].interface, as[i].ip>>
    BY <1>4, <1>6, <1>7
  <2>. QED
    BY <2>1
<1>10. ToSet(all) = {all[i] : i \in 1 .. m}
  BY <1>8 DEF ToSet
<1>. QED
  BY <1>1, <1>7, <1>8, <1>9, <1>10

(* Lines that show names and addresses.                                    *)
AreListed(lines, l, names, ips) ==
    /\ DOMAIN lines = 1 .. l /\ DOMAIN names = 1 .. l
    /\ \A i \in 1 .. l : lines[i][2] = names[i]
    /\ \A i \in 1 .. l : IpOf(lines[i]) = ips[i]

(* The numbers of some lines.                                              *)
IsCount(all, l) == DOMAIN all = 1 .. l /\ \A i \in 1 .. l : all[i] = i

(* Each name has one group, with the addresses of its lines.               *)
LEMMA GroupsOfNames ==
    ASSUME NEW l \in Nat, NEW lines, NEW names, NEW ips, AreListed(lines, l, names, ips),
           NEW all, IsCount(all, l), NEW groups, groups = GroupsFrom(lines, names, all)
    PROVE  /\ \A j, k \in DOMAIN groups : groups[j].name = groups[k].name => j = k
           /\ \A k \in DOMAIN groups :
                 groups[k].ip_addresses = At(ips, PlacesOf(names, groups[k].name))
           /\ \A k \in DOMAIN groups : \E i \in 1 .. l : groups[k].name = names[i]
           /\ \A i \in 1 .. l : \E k \in DOMAIN groups : names[i] = groups[k].name
<1>. USE DEF AreListed, IsCount
<1>1. PICK first : first = NewIn(names)
  OBVIOUS
<1>2. PICK c : c = Cardinality(first)
  OBVIOUS
<1>3. /\ \A p \in first : p \in 1 .. l
      /\ \A p \in first : \A j \in 1 .. p - 1 : names[j] # names[p]
  BY <1>1 DEF NewIn
<1>4. PICK places : places = At(all, first)
  OBVIOUS
<1>5. /\ DOMAIN places = 1 .. c
      /\ \A k \in 1 .. c : Nth(first, k) \in first /\ places[k] = all[Nth(first, k)]
  BY <1>2, <1>3, <1>4, AtLines
<1>6. \A k \in 1 .. c : places[k] = Nth(first, k)
  BY <1>3, <1>5
<1>7. {x \in DOMAIN all : \A j \in 1 .. all[x] - 1 : names[j] # names[all[x]]} = first
  BY <1>1 DEF NewIn
<1>8. Discovery!At(all, first) = places
  BY <1>4, SameLines
<1>9. GroupsFrom(lines, names, all) = [k \in DOMAIN places |-> GroupOf(lines, names[places[k]])]
  BY <1>7, <1>8, Zenon DEF GroupsFrom
<1>10. ASSUME NEW k \in 1 .. c
       PROVE  GroupsFrom(lines, names, all)[k] = GroupOf(lines, names[Nth(first, k)])
  BY <1>5, <1>6, <1>9
<1>11. ASSUME NEW x
       PROVE  /\ GroupOf(lines, x).name = x
              /\ GroupOf(lines, x).ip_addresses = At(ips, PlacesOf(names, x))
  <2>1. PICK q : q = PlacesOf(names, x)
    OBVIOUS
  <2>2. NamedIn(lines, x) = q
    BY <2>1 DEF NamedIn, PlacesOf
  <2>3. PICK own : own = At(lines, q)
    OBVIOUS
  <2>4. Discovery!At(lines, q) = own
    BY <2>3, SameLines
  <2>5. PICK d : d = Cardinality(q)
    OBVIOUS
  <2>6. \A p \in q : p \in 1 .. l
    BY <2>1 DEF PlacesOf
  <2>7. /\ DOMAIN own = 1 .. d
        /\ \A k \in 1 .. d : Nth(q, k) \in q /\ own[k] = lines[Nth(q, k)]
    BY <2>3, <2>5, <2>6, AtLines
  <2>8. \A k \in 1 .. d : IpOf(own[k]) = ips[Nth(q, k)]
    BY <2>6, <2>7
  <2>9. [k \in DOMAIN own |-> IpOf(own[k])] = At(ips, q)
    BY <2>5, <2>7, <2>8 DEF At
  <2>10. GroupOf(lines, x).ip_addresses = [k \in DOMAIN own |-> IpOf(own[k])]
    BY <2>2, <2>4, Zenon DEF GroupOf
  <2>11. GroupOf(lines, x).name = x
    BY Zenon DEF GroupOf
  <2>. QED
    BY <2>1, <2>9, <2>10, <2>11
<1>12. DOMAIN GroupsFrom(lines, names, all) = 1 .. c
  BY <1>5, <1>9
<1>13. ASSUME NEW j \in 1 .. c, NEW k \in 1 .. c, j < k
      PROVE  names[Nth(first, j)] # names[Nth(first, k)]
  <2>1. Nth(first, j) < Nth(first, k)
    BY <1>2, <1>3, <1>13, NthGrows
  <2>2. PICK p, q : p = Nth(first, j) /\ q = Nth(first, k)
    OBVIOUS
  <2>3. p \in 1 .. l /\ q \in first /\ q \in 1 .. l /\ p < q
    BY <1>3, <1>5, <2>1, <2>2
  <2>4. p \in 1 .. q - 1
    BY <2>3
  <2>. QED
    BY <1>3, <2>2, <2>3, <2>4
<1>14. ASSUME NEW i \in 1 .. l
      PROVE  \E k \in 1 .. c : names[Nth(first, k)] = names[i]
  <2>1. PICK q : q = {j \in 1 .. l : names[j] = names[i]}
    OBVIOUS
  <2>2. q \subseteq Nat /\ q # {}
    BY <2>1
  <2>3. PICK p \in q : \A j \in q : p <= j
    BY <2>2, FirstPlace
  <2>4. p \in 1 .. l /\ names[p] = names[i]
    BY <2>1
  <2>5. \A j \in 1 .. p - 1 : names[j] # names[p]
    BY <2>1, <2>3, <2>4
  <2>6. p \in first
    BY <1>1, <2>4, <2>5 DEF NewIn
  <2>7. \E k \in 1 .. c : Nth(first, k) = p
    BY <1>2, <1>3, <2>6, NthOf
  <2>. QED
    BY <2>4, <2>7
<1>15. DOMAIN groups = 1 .. c
  BY <1>12
<1>16. ASSUME NEW k \in 1 .. c
       PROVE  /\ groups[k].name = names[Nth(first, k)]
              /\ groups[k].ip_addresses = At(ips, PlacesOf(names, groups[k].name))
  <2>1. PICK x : x = names[Nth(first, k)]
    OBVIOUS
  <2>2. groups[k] = GroupOf(lines, x)
    BY <1>10, <2>1
  <2>3. groups[k].name = x /\ groups[k].ip_addresses = At(ips, PlacesOf(names, x))
    BY <1>11, <2>2, Zenon
  <2>. QED
    BY <2>1, <2>3, Zenon
<1>17. \A j, k \in DOMAIN groups : groups[j].name = groups[k].name => j = k
  <2>1. ASSUME NEW j \in 1 .. c, NEW k \in 1 .. c, names[Nth(first, j)] = names[Nth(first, k)]
        PROVE  j = k
    <3>1. ~(j < k) /\ ~(k < j)
      BY <1>13, <2>1
    <3>. QED
      BY <1>2, <1>3, <3>1, AtLines
  <2>2. ASSUME NEW j \in DOMAIN groups, NEW k \in DOMAIN groups, groups[j].name = groups[k].name
        PROVE  j = k
    <3>1. j \in 1 .. c /\ k \in 1 .. c
      BY <1>15
    <3>2. groups[j].name = names[Nth(first, j)] /\ groups[k].name = names[Nth(first, k)]
      BY <1>16, <3>1, Zenon
    <3>. QED
      BY <2>1, <2>2, <3>1, <3>2, Zenon
  <2>. QED
    BY <2>2
<1>18. ASSUME NEW k \in DOMAIN groups
      PROVE  \E i \in 1 .. l : groups[k].name = names[i]
  <2>1. k \in 1 .. c
    BY <1>15
  <2>2. Nth(first, k) \in 1 .. l
    BY <1>3, <1>5, <2>1
  <2>. QED
    BY <1>16, <2>1, <2>2, Zenon
<1>19. ASSUME NEW i \in 1 .. l
      PROVE  \E k \in DOMAIN groups : names[i] = groups[k].name
  <2>1. PICK k \in 1 .. c : names[Nth(first, k)] = names[i]
    BY <1>14
  <2>2. k \in DOMAIN groups
    BY <1>15
  <2>3. groups[k].name = names[Nth(first, k)]
    BY <1>16
  <2>. QED
    BY <2>1, <2>2, <2>3, Zenon
<1>20. \A k \in DOMAIN groups : groups[k].ip_addresses = At(ips, PlacesOf(names, groups[k].name))
  BY <1>15, <1>16, Zenon
<1>. QED
  BY <1>17, <1>18, <1>19, <1>20, Zenon

(* The groups of the addresses that came back: each name once, with its    *)
(* own addresses in order, and every name when nothing was cut off.        *)
GroupsReadBack(groups, all) ==
    /\ \A i, j \in DOMAIN groups : groups[i].name = groups[j].name => i = j
    /\ \A i \in DOMAIN groups :
          ReadsBack(groups[i].ip_addresses,
                    Each(Where(all, LAMBDA a : a[1] = groups[i].name), LAMBDA a : a[2]))
    /\ Complete(1) => {groups[i].name : i \in DOMAIN groups} = {a[1] : a \in ToSet(all)}

LEMMA GroupsOfShown ==
    ASSUME NEW m \in Nat, NEW f, AreAddresses(f.addresses, m),
           NEW l \in 0 .. m, Complete(1) => l = m, NEW output, ShowFirst(output, f.addresses, l)
    PROVE  GroupsReadBack(Discovery!NetworkParser(output), AddressesOf(f, {"inet", "inet6"}))
<1>. USE DEF AreAddresses, ShowFirst
<1>1. PICK lines : lines = At(output, 1 .. l)
  OBVIOUS
<1>2. DOMAIN lines = 1 .. l /\ \A i \in 1 .. l : lines[i] = output[i]
  BY <1>1, FirstLines
<1>3. PICK names, ips, places : /\ names = [i \in 1 .. l |-> f.addresses[i].interface]
                                /\ ips = [i \in 1 .. l |-> f.addresses[i].ip]
                                /\ places = [i \in 1 .. l |-> i]
  OBVIOUS
<1>4. PICK groups : groups = Discovery!NetworkParser(output)
  OBVIOUS
<1>5. groups = GroupsFrom(lines, names, places)
  <2>1. Discovery!At(output, {i \in DOMAIN output : IsAddressed(output[i])}) = lines
    BY <1>1, SameLines
  <2>2. [i \in DOMAIN lines |-> lines[i][2]] = names
    BY <1>2, <1>3
  <2>3. [i \in DOMAIN lines |-> i] = places
    BY <1>2, <1>3
  <2>. QED
    BY <1>4, <2>1, <2>2, <2>3, AddressParser, Zenon
<1>6. /\ \A j, k \in DOMAIN groups : groups[j].name = groups[k].name => j = k
      /\ \A k \in DOMAIN groups :
            groups[k].ip_addresses = At(ips, PlacesOf(names, groups[k].name))
      /\ {groups[k].name : k \in DOMAIN groups} = {names[i] : i \in 1 .. l}
  <2>1. l \in Nat /\ DOMAIN names = 1 .. l
    BY <1>3
  <2>2. \A i \in 1 .. l : lines[i][2] = names[i]
    BY <1>2, <1>3
  <2>3. \A i \in 1 .. l : IpOf(lines[i]) = ips[i]
    BY <1>2, <1>3
  <2>4. AreListed(lines, l, names, ips)
    BY <1>2, <2>1, <2>2, <2>3 DEF AreListed
  <2>5. IsCount(places, l)
    BY <1>3 DEF IsCount
  <2>6. \A j, k \in DOMAIN groups : groups[j].name = groups[k].name => j = k
    BY <1>5, <2>1, <2>4, <2>5, GroupsOfNames
  <2>7. \A k \in DOMAIN groups :
           groups[k].ip_addresses = At(ips, PlacesOf(names, groups[k].name))
    BY <1>5, <2>1, <2>4, <2>5, GroupsOfNames
  <2>8. \A k \in DOMAIN groups : \E i \in 1 .. l : groups[k].name = names[i]
    BY <1>5, <2>1, <2>4, <2>5, GroupsOfNames
  <2>9. \A i \in 1 .. l : \E k \in DOMAIN groups : names[i] = groups[k].name
    BY <1>5, <2>1, <2>4, <2>5, GroupsOfNames
  <2>. QED
    BY <2>6, <2>7, <2>8, <2>9
<1>7. PICK all : all = AddressesOf(f, {"inet", "inet6"})
  OBVIOUS
<1>8. /\ DOMAIN all = 1 .. m
      /\ \A i \in 1 .. m : /\ all[i][1] = f.addresses[i].interface
                           /\ all[i][2] = f.addresses[i].ip
      /\ ToSet(all) = {all[i] : i \in 1 .. m}
  BY <1>7, AllAddresses
<1>9. PICK owners, every : /\ owners = [i \in 1 .. m |-> f.addresses[i].interface]
                           /\ every = [i \in 1 .. m |-> f.addresses[i].ip]
  OBVIOUS
<1>10. ASSUME NEW x
       PROVE  /\ IpsOf(all, x)
                     = At(every, PlacesOf(owners, x))
              /\ ReadsBack(At(ips, PlacesOf(names, x)), At(every, PlacesOf(owners, x)))
  <2>1. DOMAIN owners = 1 .. m /\ ArePairs(all, m, owners, every)
    BY <1>8, <1>9 DEF ArePairs
  <2>2. IpsOf(all, x) = At(every, PlacesOf(owners, x))
    BY <2>1, PairsOf
  <2>3. PICK p, front : p = PlacesOf(owners, x) /\ front = PlacesOf(names, x)
    OBVIOUS
  <2>4. \A i \in p : i \in 1 .. m
    BY <2>1, <2>3 DEF PlacesOf
  <2>5. front = {i \in p : i <= l}
    BY <1>3, <1>9, <2>3 DEF PlacesOf
  <2>6. \A i \in front : ips[i] = every[i]
    BY <1>3, <1>9, <2>3 DEF PlacesOf
  <2>7. ReadsBack(At(ips, front), At(every, p))
    BY <2>4, <2>5, <2>6, ReadsFront
  <2>. QED
    BY <2>2, <2>3, <2>7
<1>11. \A k \in DOMAIN groups : ReadsBack(groups[k].ip_addresses, IpsOf(all, groups[k].name))
  BY <1>6, <1>10, Zenon
<1>12. ASSUME Complete(1)
       PROVE  {groups[k].name : k \in DOMAIN groups} = {a[1] : a \in ToSet(all)}
  <2>1. l = m
    BY <1>12
  <2>2. {a[1] : a \in ToSet(all)} = {names[i] : i \in 1 .. l}
    BY <1>3, <1>8, <2>1
  <2>. QED
    BY <1>6, <2>2
<1>13. \A i \in DOMAIN groups :
          ReadsBack(groups[i].ip_addresses,
                    Each(Where(all, LAMBDA a : a[1] = groups[i].name), LAMBDA a : a[2]))
  BY <1>11, Zenon DEF IpsOf
<1>. QED
  <2>1. GroupsReadBack(groups, all)
    BY <1>6, <1>12, <1>13, Zenon DEF GroupsReadBack
  <2>. QED
    BY <1>4, <1>7, <2>1

(* A discovery reads the network, as far as the output has come.           *)
LEMMA NetworkDiscovery ==
    ASSUME ReadingInv, \A f \in Facts["network"] : AnyNetwork(f),
           reader = "discovery_network", Current > Script.commands
    PROVE  \E addresses \in Arrived(seen[1].addresses, IpCut) : GroupsRead(addresses)
<1>1. Script.commands = 1 /\ Script.on = "network" /\ Script.cut[1] = "fields"
  BY DEF Script, Readings, Remote, Reading
<1>2. PICK f, lines : f = seen[1] /\ lines = ip_addr(f.addresses)
  OBVIOUS
<1>3. lines = Printed(seen[1], SubSeq(outputs, 1, 1 - 1))[1]
  BY <1>2, Zenon DEF Printed
<1>4. /\ 1 \in DOMAIN Script.cut => Script.cut[1] = "fields"
      /\ Script.commands \in Nat /\ 1 \in 1 .. Script.commands
  BY <1>1
<1>5. f \in Facts["network"]
  BY <1>1, <1>2, <1>4, WholeBack, Zenon
<1>6. /\ f.addresses \in Seq(ToSet(f.addresses))
      /\ \A i \in DOMAIN f.addresses : IsAddress(f.addresses[i])
  BY <1>5, Zenon DEF AnyNetwork
<1>7. PICK m \in Nat : m = Len(f.addresses) /\ DOMAIN f.addresses = 1 .. m
  BY <1>6
<1>8. lines \in Seq(ToSet(lines)) /\ Len(lines) = m
  <2>1. DOMAIN lines = 1 .. m /\ lines = [i \in 1 .. m |-> lines[i]]
    BY <1>2, <1>7 DEF ip_addr, Each
  <2>. QED
    BY <2>1, Numbered
<1>9. reader \notin {"docker_collector", "kubernetes_collector"}
  OBVIOUS
<1>10. \E n \in 0 .. Len(lines) :
          Left(outputs[1], lines, n, "fields") /\ (Complete(1) => n = Len(lines))
  BY <1>3, <1>4, <1>8, <1>9, Back, Zenon
<1>11. PICK n \in 0 .. m :
          Kept(outputs[1], ip_addr(f.addresses), n) /\ (Complete(1) => n = m)
  BY <1>2, <1>8, <1>10, Zenon DEF Kept
<1>12. AreAddresses(f.addresses, m)
  BY <1>6, <1>7, Zenon DEF AreAddresses
<1>13. ShowsArrived(outputs[1], f.addresses)
  BY <1>6, <1>11, <1>12, AddressesKept, Zenon
<1>14. PICK addresses \in Arrived(f.addresses, IpCut) : \E k \in Nat :
          /\ AreAddresses(addresses, k)
          /\ \E l \in 0 .. k : ShowFirst(outputs[1], addresses, l) /\ (Complete(1) => l = k)
  BY <1>13, Zenon DEF ShowsArrived
<1>15. PICK k \in Nat :
          /\ AreAddresses(addresses, k)
          /\ \E l \in 0 .. k : ShowFirst(outputs[1], addresses, l) /\ (Complete(1) => l = k)
  BY <1>14
<1>16. PICK g : g = [addresses |-> addresses]
  OBVIOUS
<1>17. g.addresses = addresses
  BY <1>16
<1>18. PICK l \in 0 .. k : ShowFirst(outputs[1], g.addresses, l) /\ (Complete(1) => l = k)
  BY <1>15, <1>17
<1>19. AreAddresses(g.addresses, k)
  BY <1>15, <1>17
<1>20. GroupsReadBack(Discovery!NetworkParser(outputs[1]), AddressesOf(g, {"inet", "inet6"}))
  BY <1>18, <1>19, GroupsOfShown
<1>21. GroupsRead(addresses)
  BY <1>16, <1>20, Zenon DEF GroupsReadBack, GroupsRead
<1>. QED
  BY <1>2, <1>14, <1>21, Zenon

(* The network is read, whoever reads it.                                  *)
LEMMA NetworkRight ==
    ASSUME ReadingInv, \A f \in Facts["network"] : AnyNetwork(f)
    PROVE  NetworkRead
<1>1. Done({"network_collector"}) => reader = "network_collector" /\ Current > Script.commands
  BY DEF Done
<1>2. Done({"discovery_network"}) => reader = "discovery_network" /\ Current > Script.commands
  BY DEF Done
<1>3. Done({"network_collector"}) =>
          LET network == NetworkParser(outputs[1], outputs[2], outputs[3], outputs[4],
                                       outputs[5])
          IN /\ Each(Metrics(network, "configurations"),
                     LAMBDA c : <<c.interface_name, c.ip_address>>)
                    = AddressesOf(seen[2], {"inet"})
             /\ Each(Metrics(network, "tcp_connections"), LAMBDA c : c.local) = seen[4].sockets
             /\ Metrics(network, "udp_connections") = seen[5].sockets
             /\ Metrics(network, "routes")[1].gateway = <<Word("10.0.0.1")>>
  BY <1>1, NetworkLocal, Zenon
<1>4. Done({"discovery_network"}) =>
          \E addresses \in Arrived(seen[1].addresses, IpCut) : GroupsRead(addresses)
  BY <1>2, NetworkDiscovery, Zenon
<1>. QED
  BY <1>3, <1>4, Zenon DEF NetworkRead

-------------------------------------------------------------------------------
(* All that is read of the host itself.                                    *)

(* Systems whose name is not one that stands for none, and networks of     *)
(* addresses of either family, of which no other field has the name of one,*)
(* with sockets of four bytes and a port of 16 bits.                       *)
KnownSystems ==
    /\ \A f \in Facts["system"] : AnySystem(f)
    /\ \A f \in Facts["network"] : AnyNetwork(f)

(* What is printed of the host itself is read as it was: its name, cores   *)
(* and time since it is up, its memory and processes, its addresses,       *)
(* sockets and route, whichever program reads it; a discovery that was cut *)
(* off has the first of the addresses, in the groups of their names, and   *)
(* defaults for the rest, or, of the one number or address in the middle of*)
(* which the output ends, a part.                                          *)
THEOREM SystemReadRight ==
    ASSUME KnownSystems
    PROVE  Spec => []SystemReadBack
<1>1. ASSUME ReadingInv
      PROVE  SystemReadBack
  <2>1. SystemRead
    BY <1>1, SystemRight DEF KnownSystems
  <2>2. NetworkRead
    BY <1>1, NetworkRight DEF KnownSystems
  <2>3. LoadRead
    BY <1>1, LoadRight
  <2>. QED
    BY <2>1, <2>2, <2>3 DEF SystemReadBack
<1>. QED
  BY <1>1, ReadingKnown, PTL

===============================================================================
