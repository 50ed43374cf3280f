-------------------------- MODULE CollectorAgentProofs --------------------------
(***************************************************************************)
(* Theorems about CollectorAgent, for every set of runs, every registry    *)
(* the agent may start with, and any number of changes and failures.       *)
(***************************************************************************)
EXTENDS CollectorAgent, SequenceTheorems, TLAPS

(* What the collectors' lines have in common.                              *)
IsLine(line) ==
    /\ line.role \in {"needed", "probe", "tolerated"}
    /\ line.role = "probe" => line.when = "always"

(* A script begins with the host name, which may fail, and ends.           *)
Proper(script) ==
    /\ Len(script) \in 1 .. 8 /\ DOMAIN script = 1 .. Len(script)
    /\ script[1].role = "tolerated" /\ script[1].when = "always"
    /\ \A i \in DOMAIN script : IsLine(script[i])

(* A line that is not tolerated, so that its refusal would be an error, is *)
(* one that the policy lets run.                                           *)
Permits(script) ==
    \A i \in DOMAIN script : script[i].role # "tolerated" =>
        Validate(script[i].command, script[i].arguments)

(* The nine collectors.                                                    *)
LEMMA ScriptNames ==
    /\ DOMAIN Script = {"cpu", "memory", "disk", "network", "system", "service",
                        "log", "docker", "kubernetes"}
    /\ Script["cpu"] = CPUCollector /\ Script["memory"] = MemoryCollector
    /\ Script["disk"] = DiskCollector /\ Script["network"] = NetworkCollector
    /\ Script["system"] = SystemCollector /\ Script["service"] = ServiceCollector
    /\ Script["log"] = LogCollector /\ Script["docker"] = DockerCollector
    /\ Script["kubernetes"] = KubernetesCollector
  BY DEF Script

LEMMA ScriptsAreProper == \A name \in DOMAIN Script : Proper(Script[name])
<1>1. Proper(CPUCollector)
  BY DEF CPUCollector, Proper, IsLine, Hostname, Probe, Needed, Tolerated, Line
<1>2. Proper(MemoryCollector)
  BY DEF MemoryCollector, Proper, IsLine, Hostname, Probe, Needed, Tolerated, Line
<1>3. Proper(DiskCollector)
  BY DEF DiskCollector, Proper, IsLine, Hostname, Probe, Needed, Tolerated, Line
<1>4. Proper(NetworkCollector)
  BY DEF NetworkCollector, Proper, IsLine, Hostname, Probe, Needed, Tolerated, Line
<1>5. Proper(SystemCollector)
  BY DEF SystemCollector, Proper, IsLine, Hostname, Probe, Needed, Tolerated, Line
<1>6. Proper(ServiceCollector)
  BY DEF ServiceCollector, Proper, IsLine, Hostname, Probe, Needed, Tolerated, Line
<1>7. Proper(LogCollector)
  BY DEF LogCollector, Proper, IsLine, Hostname, Probe, Needed, Tolerated, Line
<1>8. Proper(DockerCollector)
  BY DEF DockerCollector, Proper, IsLine, Hostname, Probe, Needed, Tolerated, Line
<1>9. Proper(KubernetesCollector)
  BY DEF KubernetesCollector, Proper, IsLine, Hostname, Probe, Needed, Tolerated, Line
<1>. QED
  BY <1>1, <1>2, <1>3, <1>4, <1>5, <1>6, <1>7, <1>8, <1>9,
     ScriptNames

-------------------------------------------------------------------------------
(* The sub-command begins at the first word that is not an option.         *)
LEMMA SubcommandBegins ==
    ASSUME NEW S, NEW arguments \in Seq(S), NEW f \in DOMAIN arguments,
           arguments[f] \notin Options,
           \A j \in 1 .. f - 1 : arguments[j] \in Options
    PROVE  /\ Extract_subcommand(arguments) \in Seq(S)
           /\ Len(Extract_subcommand(arguments)) \in 1 .. 3
           /\ Extract_subcommand(arguments)[1] = arguments[f]
<1> DEFINE starts == {i \in DOMAIN arguments : arguments[i] \notin Options}
           first == CHOOSE i \in starts : \A j \in starts : i <= j
           lengths == {n \in 1 .. 3 : \A i \in first .. first + n - 1 : i \in starts}
           longest == CHOOSE n \in lengths : \A m \in lengths : m <= n
<1>1. f \in starts /\ \A j \in starts : f <= j /\ j \in 1 .. Len(arguments)
  OBVIOUS
<1>2. first = f
  <2>1. first \in starts /\ \A j \in starts : first <= j
    BY <1>1
  <2>. HIDE DEF starts, first
  <2>. QED
    BY <1>1, <2>1
<1>3. 1 \in lengths /\ lengths \subseteq 1 .. 3
  BY <1>1, <1>2
<1>4. longest \in lengths
  <2>1. \E n \in lengths : \A m \in lengths : m <= n
    <3>. HIDE DEF lengths
    <3>1. CASE 3 \in lengths
      BY <1>3, <3>1
    <3>2. CASE 3 \notin lengths /\ 2 \in lengths
      BY <1>3, <3>2
    <3>3. CASE 3 \notin lengths /\ 2 \notin lengths
      BY <1>3, <3>3
    <3>. QED
      BY <3>1, <3>2, <3>3
  <2>. HIDE DEF lengths
  <2>. QED
    BY <2>1
<1>5. longest \in 1 .. 3 /\ f + longest - 1 \in 1 .. Len(arguments)
  <2>1. longest \in 1 .. 3 /\ \A i \in f .. f + longest - 1 : i \in starts
    BY <1>2, <1>4
  <2>. HIDE DEF starts, longest
  <2>2. f \in Nat /\ f + longest - 1 \in f .. f + longest - 1
    BY <1>1, <2>1
  <2>. QED
    BY <1>1, <2>1, <2>2
<1>6. Extract_subcommand(arguments) = SubSeq(arguments, f, f - 1 + longest)
  <2>1. Extract_subcommand(arguments) = SubSeq(arguments, first, first - 1 + longest)
    BY <1>1 DEF Extract_subcommand
  <2>. HIDE DEF first, longest
  <2>. QED
    BY <1>2, <2>1
<1>. HIDE DEF longest
<1> DEFINE last == f - 1 + longest
           sub == SubSeq(arguments, f, last)
<1>7. /\ f \in 1 .. Len(arguments) /\ last \in 1 .. Len(arguments)
      /\ f <= last /\ last - f + 1 = longest
  <2>1. f \in 1 .. Len(arguments) /\ Len(arguments) \in Nat
    OBVIOUS
  <2>. QED
    BY <1>5, <2>1
<1>. HIDE DEF last
<1>8. /\ sub \in Seq(S)
      /\ Len(sub) = last - f + 1
      /\ sub[1] = arguments[f]
  <2>. HIDE DEF starts, first, lengths
  <2>. QED
    BY <1>7
<1>9. Extract_subcommand(arguments) = sub
  BY <1>6 DEF last
<1>. HIDE DEF sub
<1>. QED
  BY <1>5, <1>7, <1>8, <1>9

(* A command is permitted by its first word, ...                           *)
LEMMA PermittedByFirstWord ==
    ASSUME NEW command, NEW S, NEW sub \in Seq(S), Len(sub) \in 1 .. 3,
           <<sub[1]>> \in ALLOWED_SUBCOMMANDS[command]
    PROVE  Permitted(command, sub)
<1> DEFINE one == <<sub[1]>>
           part == SubSeq(sub, 1, 1)
<1>1. sub # <<>> /\ sub[1] \in S /\ 1 \in 1 .. Len(sub)
  BY EmptySeq, ElementOfSeq
<1>2. one \in Seq(S) /\ Len(one) = 1 /\ one[1] = sub[1]
  BY <1>1
<1>3. part \in Seq(S) /\ Len(part) = 1 /\ part[1] = sub[1]
  BY <1>1, SubSeqProperties
<1>4. part = one
  <2>. HIDE DEF part, one
  <2>. QED
    BY <1>2, <1>3, SeqEqual
<1>5. one \in ALLOWED_SUBCOMMANDS[command]
  OBVIOUS
<1>. HIDE DEF one
<1>. QED
  BY <1>1, <1>4, <1>5 DEF Permitted

(* ... and refused if no permitted sub-command begins with it.             *)
LEMMA RefusedByFirstWord ==
    ASSUME NEW command, NEW S, NEW sub \in Seq(S), Len(sub) \in 1 .. 3,
           \A w \in ALLOWED_SUBCOMMANDS[command] : w[1] # sub[1]
    PROVE  ~Permitted(command, sub)
<1>1. sub # <<>>
  BY EmptySeq
<1>2. ASSUME NEW n \in 1 .. Len(sub) PROVE SubSeq(sub, 1, n)[1] = sub[1]
  <2>1. \A i \in 1 .. n : sub[i] \in S
    BY ElementOfSeq, LenProperties
  <2>. QED
    BY <2>1, SubSeqProperties
<1>. QED
  BY <1>1, <1>2 DEF Permitted

LEMMA FirstWordPermits ==
    ASSUME NEW command, NEW S, NEW arguments \in Seq(S), NEW f \in DOMAIN arguments,
           arguments[f] \notin Options,
           \A j \in 1 .. f - 1 : arguments[j] \in Options,
           <<arguments[f]>> \in ALLOWED_SUBCOMMANDS[command]
    PROVE  Permitted(command, Extract_subcommand(arguments))
<1> DEFINE sub == Extract_subcommand(arguments)
<1>1. sub \in Seq(S) /\ Len(sub) \in 1 .. 3 /\ sub[1] = arguments[f]
  BY SubcommandBegins
<1>. HIDE DEF sub
<1>2. <<sub[1]>> \in ALLOWED_SUBCOMMANDS[command]
  BY <1>1
<1>3. Permitted(command, sub)
  BY <1>1, <1>2, PermittedByFirstWord
<1>. QED
  BY <1>3 DEF sub

LEMMA FirstWordRefuses ==
    ASSUME NEW command, NEW S, NEW arguments \in Seq(S), NEW f \in DOMAIN arguments,
           arguments[f] \notin Options,
           \A j \in 1 .. f - 1 : arguments[j] \in Options,
           \A w \in ALLOWED_SUBCOMMANDS[command] : w[1] # arguments[f]
    PROVE  ~Permitted(command, Extract_subcommand(arguments))
<1> DEFINE sub == Extract_subcommand(arguments)
<1>1. sub \in Seq(S) /\ Len(sub) \in 1 .. 3 /\ sub[1] = arguments[f]
  BY SubcommandBegins
<1>. HIDE DEF sub
<1>2. ~Permitted(command, sub)
  BY <1>1, RefusedByFirstWord
<1>. QED
  BY <1>2 DEF sub

(* The words that decide about the collectors' commands.                   *)
LEMMA PermittedWords ==
    /\ DOMAIN ALLOWED_SUBCOMMANDS = {"systemctl", "docker", "kubectl", "ip", "hostnamectl"}
    /\ <<"list-units">> \in ALLOWED_SUBCOMMANDS["systemctl"]
    /\ <<"ps">> \in ALLOWED_SUBCOMMANDS["docker"]
    /\ \A w \in ALLOWED_SUBCOMMANDS["docker"] : w[1] \notin {"network", "volume"}
    /\ <<"get">> \in ALLOWED_SUBCOMMANDS["kubectl"]
    /\ <<"addr">> \in ALLOWED_SUBCOMMANDS["ip"]
    /\ <<"route">> \in ALLOWED_SUBCOMMANDS["ip"]
  BY DEF ALLOWED_SUBCOMMANDS

LEMMA Plain ==
    ASSUME NEW command \in {"cat", "df", "hostname", "uname", "lscpu", "uptime", "tail"},
           NEW arguments
    PROVE  Validate(command, arguments)
  BY PermittedWords DEF Validate, ALLOWED_COMMANDS

LEMMA NoOptions ==
    \A w \in {"get", "list-units", "ps", "network", "volume", "addr", "route"} :
        w \notin Options
  BY DEF Options, FORBIDDEN_JOURNALCTL_OPTIONS

LEMMA FirstWord ==
    ASSUME NEW command \in {"kubectl", "systemctl", "docker"},
           NEW S, NEW arguments \in Seq(S), Len(arguments) > 0,
           <<command, arguments[1]>> \in
              {<<"kubectl", "get">>, <<"systemctl", "list-units">>, <<"docker", "ps">>}
    PROVE  Validate(command, arguments)
<1>1. /\ 1 \in DOMAIN arguments /\ arguments[1] \notin Options
      /\ \A j \in 1 .. 1 - 1 : arguments[j] \in Options
      /\ <<arguments[1]>> \in ALLOWED_SUBCOMMANDS[command]
  BY NoOptions, PermittedWords
<1>2. Permitted(command, Extract_subcommand(arguments))
  BY <1>1, FirstWordPermits
<1>. QED
  BY <1>2 DEF Validate, ALLOWED_COMMANDS

LEMMA NetworksAndVolumesRefused ==
    ASSUME NEW S, NEW arguments \in Seq(S), Len(arguments) > 0,
           arguments[1] \in {"network", "volume"}
    PROVE  ~Validate("docker", arguments)
<1>1. /\ 1 \in DOMAIN arguments /\ arguments[1] \notin Options
      /\ \A j \in 1 .. 1 - 1 : arguments[j] \in Options
      /\ \A w \in ALLOWED_SUBCOMMANDS["docker"] : w[1] # arguments[1]
  BY NoOptions, PermittedWords
<1>2. ~Permitted("docker", Extract_subcommand(arguments))
  BY <1>1, FirstWordRefuses
<1>. QED
  BY <1>2, PermittedWords DEF Validate

LEMMA IpShows ==
    /\ Validate("ip", <<"-o", "addr", "show">>)
    /\ Validate("ip", <<"route", "show">>)
<1>1. Permitted("ip", Extract_subcommand(<<"-o", "addr", "show">>))
  <2> DEFINE arguments == <<"-o", "addr", "show">>
  <2>1. /\ arguments \in Seq({"-o", "addr", "show"}) /\ 2 \in DOMAIN arguments
        /\ arguments[2] = "addr" /\ arguments[1] = "-o"
    OBVIOUS
  <2>2. "-o" \in Options
    BY DEF Options
  <2>. HIDE DEF arguments
  <2>3. \A j \in 1 .. 2 - 1 : arguments[j] \in Options
    BY <2>1, <2>2
  <2>4. /\ arguments[2] \notin Options
        /\ <<arguments[2]>> \in ALLOWED_SUBCOMMANDS["ip"]
    BY <2>1, NoOptions, PermittedWords
  <2>5. Permitted("ip", Extract_subcommand(arguments))
    BY <2>1, <2>3, <2>4, FirstWordPermits
  <2>. QED
    BY <2>5 DEF arguments
<1>2. Permitted("ip", Extract_subcommand(<<"route", "show">>))
  <2> DEFINE arguments == <<"route", "show">>
  <2>1. /\ arguments \in Seq({"route", "show"}) /\ 1 \in DOMAIN arguments
        /\ arguments[1] = "route"
    OBVIOUS
  <2>. HIDE DEF arguments
  <2>2. \A j \in 1 .. 1 - 1 : arguments[j] \in Options
    OBVIOUS
  <2>3. /\ arguments[1] \notin Options
        /\ <<arguments[1]>> \in ALLOWED_SUBCOMMANDS["ip"]
    BY <2>1, NoOptions, PermittedWords
  <2>4. Permitted("ip", Extract_subcommand(arguments))
    BY <2>1, <2>2, <2>3, FirstWordPermits
  <2>. QED
    BY <2>4 DEF arguments
<1>. QED
  BY <1>1, <1>2 DEF Validate, ALLOWED_COMMANDS, IpVerbs

LEMMA ProbesAndGets ==
    /\ \A x : Validate("kubectl", <<"get", x, "-o", "json">>)
    /\ \A x : Validate("kubectl", <<"get", x, "--all-namespaces", "-o", "json">>)
    /\ Validate("systemctl", <<"list-units", "--type", "--all", "--no-pager", "--no-legend">>)
    /\ Validate("docker", <<"ps", "--no-trunc">>)
    /\ ~Validate("docker", <<"network", "ls">>)
<1>1. ASSUME NEW x PROVE Validate("kubectl", <<"get", x, "-o", "json">>)
  <2> DEFINE arguments == <<"get", x, "-o", "json">>
  <2>1. /\ arguments \in Seq({"get", x, "-o", "json"})
        /\ Len(arguments) > 0 /\ arguments[1] = "get"
    OBVIOUS
  <2>. HIDE DEF arguments
  <2>2. Validate("kubectl", arguments)
    BY <2>1, FirstWord
  <2>. QED
    BY <2>2 DEF arguments
<1>2. ASSUME NEW x PROVE Validate("kubectl", <<"get", x, "--all-namespaces", "-o", "json">>)
  <2> DEFINE arguments == <<"get", x, "--all-namespaces", "-o", "json">>
  <2>1. /\ arguments \in Seq({"get", x, "--all-namespaces", "-o", "json"})
        /\ Len(arguments) > 0 /\ arguments[1] = "get"
    OBVIOUS
  <2>. HIDE DEF arguments
  <2>2. Validate("kubectl", arguments)
    BY <2>1, FirstWord
  <2>. QED
    BY <2>2 DEF arguments
<1>3. Validate("systemctl", <<"list-units", "--type", "--all", "--no-pager", "--no-legend">>)
  <2> DEFINE arguments == <<"list-units", "--type", "--all", "--no-pager", "--no-legend">>
  <2>1. /\ arguments \in Seq({"list-units", "--type", "--all", "--no-pager", "--no-legend"})
        /\ Len(arguments) > 0 /\ arguments[1] = "list-units"
    OBVIOUS
  <2>. HIDE DEF arguments
  <2>2. Validate("systemctl", arguments)
    BY <2>1, FirstWord
  <2>. QED
    BY <2>2 DEF arguments
<1>4. Validate("docker", <<"ps", "--no-trunc">>)
  <2> DEFINE arguments == <<"ps", "--no-trunc">>
  <2>1. /\ arguments \in Seq({"ps", "--no-trunc"})
        /\ Len(arguments) > 0 /\ arguments[1] = "ps"
    OBVIOUS
  <2>. HIDE DEF arguments
  <2>2. Validate("docker", arguments)
    BY <2>1, FirstWord
  <2>. QED
    BY <2>2 DEF arguments
<1>5. ~Validate("docker", <<"network", "ls">>)
  <2> DEFINE arguments == <<"network", "ls">>
  <2>1. /\ arguments \in Seq({"network", "ls"})
        /\ Len(arguments) > 0 /\ arguments[1] = "network"
    OBVIOUS
  <2>. HIDE DEF arguments
  <2>2. ~Validate("docker", arguments)
    BY <2>1, NetworksAndVolumesRefused
  <2>. QED
    BY <2>2 DEF arguments
<1>. QED
  BY <1>1, <1>2, <1>3, <1>4, <1>5

(* The policy permits every command that a collector does not tolerate to  *)
(* fail, but Docker's.                                                     *)
LEMMA AllButDockerPermitted ==
    \A name \in DOMAIN Script \ {"docker"} : Permits(Script[name])
<1>1. Permits(CPUCollector)
  BY Plain
     DEF Permits, CPUCollector, Hostname, Probe, Needed, Tolerated, Line
<1>2. Permits(MemoryCollector)
  BY Plain
     DEF Permits, MemoryCollector, Hostname, Probe, Needed, Tolerated, Line
<1>3. Permits(DiskCollector)
  BY Plain
     DEF Permits, DiskCollector, Hostname, Probe, Needed, Tolerated, Line
<1>4. Permits(NetworkCollector)
  <2>1. /\ DOMAIN NetworkCollector = 1 .. 6
        /\ \A i \in {1, 2, 5, 6} : NetworkCollector[i].command \in {"hostname", "cat"}
        /\ \A i \in {3, 4} : NetworkCollector[i].command = "ip"
        /\ NetworkCollector[3].arguments = <<"-o", "addr", "show">>
        /\ NetworkCollector[4].arguments = <<"route", "show">>
    BY DEF NetworkCollector, Hostname, Needed, Tolerated, Line
  <2>. QED
    BY <2>1, Plain, IpShows DEF Permits
<1>5. Permits(SystemCollector)
  BY Plain
     DEF Permits, SystemCollector, Hostname, Probe, Needed, Tolerated, Line
<1>6. Permits(ServiceCollector)
  BY Plain, ProbesAndGets
     DEF Permits, ServiceCollector, Hostname, Probe, Needed, Tolerated, Line
<1>7. Permits(LogCollector)
  BY Plain
     DEF Permits, LogCollector, Hostname, Probe, Needed, Tolerated, Line
<1>8. Permits(KubernetesCollector)
  BY ProbesAndGets
     DEF Permits, KubernetesCollector, Hostname, Probe, Needed, Tolerated, Line
<1>. QED
  BY <1>1, <1>2, <1>3, <1>4, <1>5, <1>6, <1>7, <1>8, ScriptNames

(* Docker's second command is permitted, the one for networks is not.      *)
LEMMA DockerRefused ==
    /\ 5 \in DOMAIN DockerCollector
    /\ DockerCollector[5].role = "needed" /\ DockerCollector[5].when = "always"
    /\ ~Validate(DockerCollector[5].command, DockerCollector[5].arguments)
    /\ \A i \in DOMAIN DockerCollector : DockerCollector[i].role = "probe" =>
          Validate(DockerCollector[i].command, DockerCollector[i].arguments)
<1>1. /\ DOMAIN DockerCollector = 1 .. 6
      /\ \A i \in {1, 3, 4, 5, 6} : DockerCollector[i].role # "probe"
      /\ DockerCollector[5].role = "needed" /\ DockerCollector[5].when = "always"
      /\ DockerCollector[2].command = "docker" /\ DockerCollector[5].command = "docker"
      /\ DockerCollector[2].arguments = <<"ps", "--no-trunc">>
      /\ DockerCollector[5].arguments = <<"network", "ls">>
  BY DEF DockerCollector, Hostname, Probe, Needed, Tolerated, Line
<1>. QED
  BY <1>1, ProbesAndGets

-------------------------------------------------------------------------------
Task == [name : DOMAIN Script, sent : SUBSET Nat, worked : SUBSET Nat,
         result : {"none", "success", "failed", "salvaged", "missing"}]

Furthest(task, m) == m \in task.sent /\ \A k \in task.sent : k <= m

(* A collector sends its commands in order, leaving out none that it       *)
(* always sends; what it makes of them is earned.                          *)
Orderly(task) ==
    LET script == Script[task.name] IN
    /\ task.sent \subseteq DOMAIN script
    /\ task.worked \subseteq task.sent /\ task.worked \subseteq Allowed[task.name]
    /\ task.sent = {} => task.result \in {"none", "missing"}
    /\ task.result = "missing" => task.sent = {}
    /\ task.sent # {} => \E m \in task.sent :
          /\ Furthest(task, m)
          /\ \A k \in 1 .. m : script[k].when = "always" => k \in task.sent

Earned(task) ==
    LET script == Script[task.name]
        needs(i) == script[i].role # "tolerated" /\ script[i].when = "always"
    IN /\ task.result = "success" =>
            /\ \A i \in DOMAIN script : needs(i) => i \in task.worked
            /\ \A i \in task.sent \ task.worked : script[i].role = "tolerated"
       /\ task.result = "salvaged" =>
            /\ Salvages(task.name)
            /\ \A i \in DOMAIN script : script[i].role = "probe" => i \in task.worked
            /\ \E i \in task.sent \ task.worked : script[i].role = "needed"

(* Without failures, what was refused is all that did not work.            *)
Undisturbed(task) ==
    /\ \A i \in task.sent :
          i \in task.worked \/ i \notin Allowed[task.name]
          \/ (task.result = "none" /\ Furthest(task, i))
    /\ task.result \notin {"none", "missing"} =>
          task.result = IF task.name = "docker" THEN "salvaged" ELSE "success"

TasksOK ==
    /\ tasks \in [Runs -> Seq(Task)]
    /\ \A r \in Runs : \A i \in DOMAIN tasks[r] :
          /\ Orderly(tasks[r][i]) /\ Earned(tasks[r][i])
          /\ failures = 0 => Undisturbed(tasks[r][i])

(* Before a run begins, none of its collectors has; and what it listed is  *)
(* registered or was unregistered since.                                   *)
RunsOK ==
    \A r \in Runs :
        /\ mode[r] = "none" => tasks[r] = <<>>
        /\ \A i \in DOMAIN tasks[r] :
              /\ mode[r] = "queued" =>
                    tasks[r][i].sent = {} /\ tasks[r][i].result = "none"
              /\ tasks[r][i].result = "missing" => tasks[r][i].name \in gone[r]
              /\ Registered(tasks[r][i].name) \/ tasks[r][i].name \in gone[r]

IInv == TypeOK /\ TasksOK /\ RunsOK

-------------------------------------------------------------------------------
LEMMA LeastOfEight ==
    ASSUME NEW S \in SUBSET (1 .. 8), S # {}
    PROVE  \E m \in S : \A k \in S : m <= k
<1>1. CASE 1 \in S
  BY <1>1
<1>2. CASE 1 \notin S /\ 2 \in S
  BY <1>2
<1>3. CASE {1, 2} \intersect S = {} /\ 3 \in S
  BY <1>3
<1>4. CASE {1, 2, 3} \intersect S = {} /\ 4 \in S
  BY <1>4
<1>5. CASE {1, 2, 3, 4} \intersect S = {} /\ 5 \in S
  BY <1>5
<1>6. CASE {1, 2, 3, 4, 5} \intersect S = {} /\ 6 \in S
  BY <1>6
<1>7. CASE {1, 2, 3, 4, 5, 6} \intersect S = {} /\ 7 \in S
  BY <1>7
<1>8. CASE {1, 2, 3, 4, 5, 6, 7} \intersect S = {}
  <2>1. \A k \in S : k = 8
    <3>1. \A k \in S : k \in 1 .. 8 /\ k \notin {1, 2, 3, 4, 5, 6, 7}
      BY <1>8
    <3>2. \A k \in 1 .. 8 : k \in {1, 2, 3, 4, 5, 6, 7, 8}
      OBVIOUS
    <3>. QED
      BY <3>1, <3>2
  <2>2. 8 \in S
    BY <2>1
  <2>3. \A k \in S : 8 <= k
    BY <2>1
  <2>. QED
    BY <2>2, <2>3
<1>. QED
  BY <1>1, <1>2, <1>3, <1>4, <1>5, <1>6, <1>7, <1>8

(* The last command sent is the largest.                                   *)
LEMMA MaxIsLast ==
    ASSUME NEW task \in Task, NEW m, Furthest(task, m)
    PROVE  Max(task.sent) = m
<1>1. task.sent \subseteq Nat
  BY DEF Task
<1>2. m \in task.sent /\ \A k \in task.sent : k <= m
  BY DEF Furthest
<1>3. \E x \in task.sent : \A y \in task.sent : x >= y
  BY <1>1, <1>2
<1>4. Max(task.sent) \in task.sent /\ \A k \in task.sent : Max(task.sent) >= k
  BY <1>3 DEF Max
<1>. QED
  BY <1>1, <1>2, <1>4

(* At most one command comes next; the ones skipped are not always sent,   *)
(* and if none comes next, none is left that is.                           *)
LEMMA FollowingFacts ==
    ASSUME NEW name \in DOMAIN Script, NEW i \in DOMAIN Script[name],
           NEW printed \in {"something", "nothing"}
    PROVE  LET script == Script[name]
               next == Following(name, i, printed)
           IN  /\ next \subseteq i + 1 .. Len(script)
               /\ \A j, k \in next : j = k
               /\ \A j \in next : \A k \in i + 1 .. j - 1 : script[k].when # "always"
               /\ next = {} => \A k \in i + 1 .. Len(script) : script[k].when # "always"
<1> DEFINE script == Script[name]
           next == Following(name, i, printed)
<1>1. /\ Len(script) \in 1 .. 8 /\ DOMAIN script = 1 .. Len(script)
      /\ i \in 1 .. Len(script)
  BY ScriptsAreProper DEF Proper
<1>2. next \subseteq i + 1 .. Len(script)
  BY DEF Following
<1>3. \A j \in next : \A k \in i + 1 .. j - 1 : script[k].when # "always"
  BY DEF Following
<1>4. \A j, k \in next : j = k
  <2>1. ASSUME NEW j \in next, NEW k \in next, j < k PROVE FALSE
    <3>1. j \in i + 1 .. k - 1
      BY <1>1, <1>2, <2>1
    <3>. QED
      BY <2>1, <3>1 DEF Following
  <2>. QED
    BY <1>1, <1>2, <2>1
<1>5. ASSUME NEW k \in i + 1 .. Len(script), script[k].when = "always"
      PROVE  next # {}
  <2> DEFINE S == {j \in i + 1 .. Len(script) : script[j].when = "always"}
  <2>1. PICK m \in S : \A j \in S : m <= j
    <3>1. S \in SUBSET (1 .. 8) /\ S # {}
      BY <1>1, <1>5
    <3>. HIDE DEF S
    <3>. QED
      BY <3>1, LeastOfEight
  <2>2. CASE script[i + 1].when = printed
    <3>1. i + 1 \in i + 1 .. Len(script) /\ i + 1 .. i + 1 - 1 = {}
      BY <1>1, <1>5
    <3>2. i + 1 \in next
      BY <2>2, <3>1 DEF Following
    <3>. QED
      BY <3>2
  <2>3. CASE script[i + 1].when # printed
    <3>1. \A j \in i + 1 .. m - 1 :
            script[j].when # "always" /\ (j = i + 1 => script[j].when # printed)
      BY <1>1, <2>1, <2>3
    <3>2. m \in next
      BY <2>1, <3>1 DEF Following
    <3>. QED
      BY <3>2
  <2>. QED
    BY <2>2, <2>3
<1>. QED
  BY <1>2, <1>3, <1>4, <1>5

-------------------------------------------------------------------------------
(* Every command that a collector always sends was sent, and the probe did *)
(* not fail unnoticed: then its verdict is earned.                         *)
LEMMA VerdictEarned ==
    ASSUME NEW task \in Task, NEW parses \in BOOLEAN, NEW m,
           Orderly(task), Furthest(task, m),
           \/ Script[task.name][m].role = "probe" /\ m \notin task.worked
           \/ \A k \in DOMAIN Script[task.name] :
                 Script[task.name][k].when = "always" => k \in task.sent
    PROVE  LET result == Verdict(task, parses) IN
           /\ result \in {"success", "failed", "salvaged"}
           /\ Earned([task EXCEPT !.result = result])
<1> DEFINE script == Script[task.name]
           result == Verdict(task, parses)
           done == [task EXCEPT !.result = result]
           errors == Errors(task)
<1>1. /\ done.name = task.name /\ done.sent = task.sent /\ done.worked = task.worked
      /\ done.result = result
  BY DEF Task
<1>2. errors = {i \in task.sent \ task.worked : script[i].role # "tolerated"}
  BY DEF Errors
<1>3. /\ task.sent \subseteq DOMAIN script /\ task.worked \subseteq task.sent
      /\ m \in task.sent
  BY DEF Orderly, Furthest
<1>4. /\ result \in {"success", "failed", "salvaged"}
      /\ result = "success" => errors = {}
      /\ result = "salvaged" =>
            /\ errors # {} /\ Salvages(task.name)
            /\ \A i \in errors : script[i].role # "probe"
  BY DEF Verdict
<1>5. \A i \in DOMAIN script :
        /\ script[i].role \in {"needed", "probe", "tolerated"}
        /\ script[i].role = "probe" => script[i].when = "always"
  BY ScriptsAreProper DEF Proper, IsLine, Task
<1>6. ASSUME result # "failed"
      PROVE  \A k \in DOMAIN script : script[k].when = "always" => k \in task.sent
  <2>1. ~(script[m].role = "probe" /\ m \notin task.worked)
    BY <1>2, <1>3, <1>4, <1>6
  <2>. QED
    BY <2>1
<1>. HIDE DEF script, result, done, errors
<1>7. ASSUME result = "success"
      PROVE  /\ \A i \in DOMAIN script :
                   script[i].role # "tolerated" /\ script[i].when = "always"
                   => i \in task.worked
             /\ \A i \in task.sent \ task.worked : script[i].role = "tolerated"
  BY <1>2, <1>4, <1>6, <1>7
<1>8. ASSUME result = "salvaged"
      PROVE  /\ Salvages(task.name)
             /\ \A i \in DOMAIN script : script[i].role = "probe" => i \in task.worked
             /\ \E i \in task.sent \ task.worked : script[i].role = "needed"
  BY <1>2, <1>3, <1>4, <1>5, <1>6, <1>8
<1>9. Earned(done)
  BY <1>1, <1>7, <1>8 DEF Earned, script
<1>. QED
  BY <1>4, <1>9 DEF result, done

(* Where all worked but what was refused, every collector succeeds but     *)
(* Docker's, which fails with a payload.                                   *)
LEMMA VerdictUndisturbed ==
    ASSUME NEW task \in Task, NEW m,
           Orderly(task), Furthest(task, m),
           \A i \in task.sent : i \in task.worked \/ i \notin Allowed[task.name],
           \/ Script[task.name][m].role = "probe" /\ m \notin task.worked
           \/ \A k \in DOMAIN Script[task.name] :
                 Script[task.name][k].when = "always" => k \in task.sent
    PROVE  Verdict(task, TRUE) = IF task.name = "docker" THEN "salvaged" ELSE "success"
<1> DEFINE script == Script[task.name]
           errors == Errors(task)
<1>1. errors = {i \in task.sent \ task.worked : script[i].role # "tolerated"}
  BY DEF Errors
<1>2. /\ task.name \in DOMAIN Script
      /\ task.sent \subseteq DOMAIN script
      /\ task.worked \subseteq task.sent /\ task.worked \subseteq Allowed[task.name]
      /\ m \in task.sent
  BY DEF Orderly, Furthest, Task
<1>3. \A i \in DOMAIN script : i \in Allowed[task.name] <=>
          Validate(script[i].command, script[i].arguments)
  BY <1>2 DEF Allowed
<1>4. CASE task.name # "docker"
  <2>1. \A i \in DOMAIN script : script[i].role # "tolerated" => i \in Allowed[task.name]
    BY <1>2, <1>3, <1>4, AllButDockerPermitted DEF Permits
  <2>2. errors = {}
    BY <1>1, <1>2, <2>1
  <2>. QED
    BY <1>4, <2>2 DEF Verdict
<1>5. CASE task.name = "docker"
  <2>1. /\ script = DockerCollector
        /\ 5 \in DOMAIN script /\ script[5].role = "needed" /\ script[5].when = "always"
        /\ 5 \notin Allowed[task.name]
        /\ \A i \in DOMAIN script : script[i].role = "probe" => i \in Allowed[task.name]
    BY <1>3, <1>5, ScriptNames, DockerRefused
  <2>2. \A i \in errors : script[i].role # "probe"
    BY <1>1, <1>2, <2>1
  <2>3. \A k \in DOMAIN script : script[k].when = "always" => k \in task.sent
    BY <1>2, <2>1
  <2>4. 5 \in errors
    BY <1>1, <1>2, <2>1, <2>3
  <2>. QED
    BY <1>5, <2>2, <2>4 DEF Verdict, Salvages
<1>. QED
  BY <1>4, <1>5

(* Once its last command came back, a collector is still in order.         *)
LEMMA CameOrderly ==
    ASSUME NEW task \in Task, NEW m, NEW works \in BOOLEAN,
           Orderly(task), Furthest(task, m), works => m \in Allowed[task.name]
    PROVE  LET came == [task EXCEPT !.worked = IF works THEN @ \union {m} ELSE @] IN
           /\ came \in Task /\ came.name = task.name /\ came.sent = task.sent
           /\ came.result = task.result
           /\ came.worked = IF works THEN task.worked \union {m} ELSE task.worked
           /\ Orderly(came) /\ Furthest(came, m)
<1> DEFINE worked == IF works THEN task.worked \union {m} ELSE task.worked
           came == [task EXCEPT !.worked = worked]
<1>1. /\ m \in task.sent /\ task.sent \subseteq Nat
      /\ worked \subseteq task.sent /\ worked \subseteq Allowed[task.name]
  BY DEF Orderly, Furthest, Task
<1>. HIDE DEF worked
<1>2. came \in Task
  BY <1>1 DEF Task
<1>3. /\ came.name = task.name /\ came.sent = task.sent
      /\ came.result = task.result /\ came.worked = worked
  BY DEF Task
<1>. HIDE DEF came
<1>4. Furthest(came, m)
  BY <1>3 DEF Furthest
<1>5. Orderly(came)
  BY <1>1, <1>3 DEF Orderly, Furthest
<1>. QED
  BY <1>2, <1>3, <1>4, <1>5 DEF came, worked

(* Then it either returns what it earned or sends one more command.        *)
LEMMA AfterEffect ==
    ASSUME NEW task \in Task, NEW m, NEW parses \in BOOLEAN,
           NEW printed \in {"something", "nothing"},
           Orderly(task), task.result = "none", Furthest(task, m)
    PROVE  LET done == After(task, printed, parses) IN
           /\ done \in Task /\ done.name = task.name
           /\ done.sent # {} /\ done.result # "missing"
           /\ Orderly(done) /\ Earned(done)
           /\ (/\ parses
               /\ \A i \in task.sent : i \in task.worked \/ i \notin Allowed[task.name])
              => Undisturbed(done)
<1> DEFINE script == Script[task.name]
           next == IF script[m].role = "probe" /\ m \notin task.worked
                   THEN {} ELSE Following(task.name, m, printed)
           result == Verdict(task, parses)
           done == After(task, printed, parses)
<1>1. /\ task.name \in DOMAIN Script /\ m \in DOMAIN script /\ m \in task.sent
      /\ task.sent \subseteq DOMAIN script /\ \A k \in task.sent : k <= m
      /\ DOMAIN script = 1 .. Len(script) /\ Len(script) \in 1 .. 8
  BY ScriptsAreProper DEF Orderly, Furthest, Task, Proper
<1>2. \A k \in 1 .. m : script[k].when = "always" => k \in task.sent
  <2>1. PICK n \in task.sent : /\ Furthest(task, n)
                               /\ \A k \in 1 .. n : script[k].when = "always" => k \in task.sent
    BY <1>1 DEF Orderly
  <2>2. n = m
    BY <1>1, <2>1 DEF Furthest
  <2>. QED
    BY <2>1, <2>2
<1>3. done = IF next = {} THEN [task EXCEPT !.result = result]
             ELSE [task EXCEPT !.sent = task.sent \union next]
  BY MaxIsLast DEF After
<1>4. CASE next = {}
  <2>1. \/ script[m].role = "probe" /\ m \notin task.worked
        \/ \A k \in DOMAIN script : script[k].when = "always" => k \in task.sent
    <3>1. CASE script[m].role = "probe" /\ m \notin task.worked
      BY <3>1
    <3>2. CASE ~(script[m].role = "probe" /\ m \notin task.worked)
      <4>1. \A k \in m + 1 .. Len(script) : script[k].when # "always"
        BY <1>1, <1>4, <3>2, FollowingFacts
      <4>2. \A k \in DOMAIN script : k \in 1 .. m \/ k \in m + 1 .. Len(script)
        BY <1>1
      <4>. QED
        BY <1>2, <4>1, <4>2
    <3>. QED
      BY <3>1, <3>2
  <2>2. /\ result \in {"success", "failed", "salvaged"}
        /\ Earned([task EXCEPT !.result = result])
    BY <2>1, VerdictEarned
  <2>3. done = [task EXCEPT !.result = result]
    BY <1>3, <1>4
  <2>4. (/\ parses
         /\ \A i \in task.sent : i \in task.worked \/ i \notin Allowed[task.name])
        => result = IF task.name = "docker" THEN "salvaged" ELSE "success"
    BY <2>1, VerdictUndisturbed
  <2>. HIDE DEF result, done, script, next
  <2>5. /\ done \in Task /\ done.name = task.name /\ done.sent = task.sent
        /\ done.worked = task.worked /\ done.result = result
    BY <2>2, <2>3 DEF Task
  <2>6. Orderly(done)
    BY <1>1, <2>2, <2>5 DEF Orderly, Furthest
  <2>7. (/\ parses
         /\ \A i \in task.sent : i \in task.worked \/ i \notin Allowed[task.name])
        => Undisturbed(done)
    BY <2>4, <2>5 DEF Undisturbed
  <2>8. Earned(done) /\ done.sent # {} /\ done.result # "missing"
    BY <1>1, <2>2, <2>3, <2>5
  <2>. QED
    BY <2>5, <2>6, <2>7, <2>8 DEF done
<1>5. CASE next # {}
  <2>1. PICK j \in next : TRUE
    BY <1>5
  <2>2. /\ next = {j} /\ j \in m + 1 .. Len(script)
        /\ \A k \in m + 1 .. j - 1 : script[k].when # "always"
    BY <1>1, <1>5, <2>1, FollowingFacts
  <2>3. done = [task EXCEPT !.sent = task.sent \union {j}]
    BY <1>3, <1>5, <2>2
  <2>4. /\ j \in Nat /\ j \in DOMAIN script /\ j > m
        /\ \A k \in task.sent \union {j} : k <= j
        /\ task.sent \union {j} \subseteq DOMAIN script
        /\ task.sent \union {j} \in SUBSET Nat
    BY <1>1, <2>2
  <2>5. \A k \in 1 .. j : k \in 1 .. m \/ k \in m + 1 .. j - 1 \/ k = j
    BY <1>1, <2>2
  <2>. HIDE DEF script, next, done
  <2>6. /\ done \in Task /\ done.name = task.name /\ done.sent = task.sent \union {j}
        /\ done.worked = task.worked /\ done.result = "none"
    BY <2>3, <2>4 DEF Task
  <2>7. Furthest(done, j)
    BY <2>4, <2>6 DEF Furthest
  <2>8. Orderly(done)
    <3>1. \A k \in 1 .. j : script[k].when = "always" => k \in done.sent
      BY <1>2, <2>2, <2>5, <2>6
    <3>2. j \in done.sent
      BY <2>6
    <3>3. done.worked \subseteq done.sent /\ done.worked \subseteq Allowed[done.name]
      BY <2>6 DEF Orderly
    <3>. QED
      BY <2>4, <2>6, <2>7, <3>1, <3>2, <3>3 DEF Orderly, script
  <2>9. Earned(done)
    BY <2>6 DEF Earned
  <2>10. (\A i \in task.sent : i \in task.worked \/ i \notin Allowed[task.name])
         => Undisturbed(done)
    BY <2>6, <2>7 DEF Undisturbed
  <2>. QED
    BY <2>6, <2>8, <2>9, <2>10 DEF done
<1>. QED
  BY <1>4, <1>5

-------------------------------------------------------------------------------
(* A collector begins with its first command, if it is still registered.   *)
LEMMA BegunEffect ==
    ASSUME NEW task \in Task, Orderly(task), task.sent = {}, task.result = "none"
    PROVE  LET begun == Begun(task) IN
           /\ begun \in Task /\ begun.name = task.name
           /\ Orderly(begun) /\ Earned(begun) /\ Undisturbed(begun)
           /\ Registered(task.name) => begun.result = "none"
           /\ ~Registered(task.name) => begun.result = "missing"
<1> DEFINE begun == Begun(task)
           script == Script[task.name]
<1>1. task.name \in DOMAIN Script /\ task.worked = {}
  BY DEF Task, Orderly
<1>2. 1 \in DOMAIN script /\ 1 \in Nat
  BY <1>1, ScriptsAreProper DEF Proper
<1>3. CASE Registered(task.name)
  <2>1. begun = [task EXCEPT !.sent = {1}]
    BY <1>3 DEF Begun
  <2>. HIDE DEF begun
  <2>2. /\ begun \in Task /\ begun.name = task.name /\ begun.sent = {1}
        /\ begun.worked = {} /\ begun.result = "none"
    BY <1>1, <1>2, <2>1 DEF Task
  <2>3. Furthest(begun, 1)
    BY <2>2 DEF Furthest
  <2>4. Orderly(begun)
    <3>1. \A k \in 1 .. 1 : k \in begun.sent
      BY <2>2
    <3>2. \E m \in begun.sent :
            Furthest(begun, m)
            /\ \A k \in 1 .. m : Script[begun.name][k].when = "always" => k \in begun.sent
      BY <2>2, <2>3, <3>1
    <3>. QED
      BY <1>2, <2>2, <3>2 DEF Orderly
  <2>5. Earned(begun) /\ Undisturbed(begun)
    BY <2>2, <2>3 DEF Earned, Undisturbed
  <2>. QED
    BY <1>3, <2>2, <2>4, <2>5 DEF begun
<1>4. CASE ~Registered(task.name)
  <2>1. begun = [task EXCEPT !.result = "missing"]
    BY <1>4 DEF Begun
  <2>. HIDE DEF begun
  <2>2. /\ begun \in Task /\ begun.name = task.name /\ begun.sent = {}
        /\ begun.worked = {} /\ begun.result = "missing"
    BY <1>1, <2>1 DEF Task
  <2>3. Orderly(begun) /\ Earned(begun) /\ Undisturbed(begun)
    BY <2>2 DEF Orderly, Earned, Undisturbed
  <2>. QED
    BY <1>4, <2>2, <2>3 DEF begun
<1>. QED
  BY <1>3, <1>4

(* run_all goes on to at most one collector that has a command under way.  *)
LEMMA ProceedEffect ==
    ASSUME NEW ts \in Seq(Task),
           \A i \in DOMAIN ts : Orderly(ts[i]) /\ Earned(ts[i]),
           \A i \in Open(ts) : ts[i].sent = {}
    PROVE  LET new == Proceed(ts) IN
           /\ new \in Seq(Task) /\ DOMAIN new = DOMAIN ts
           /\ \A i \in DOMAIN ts :
                /\ new[i].name = ts[i].name /\ Orderly(new[i]) /\ Earned(new[i])
                /\ Undisturbed(ts[i]) => Undisturbed(new[i])
                /\ new[i].result = "missing" =>
                      ts[i].result = "missing" \/ ~Registered(ts[i].name)
           /\ \A i, j \in Awaited(new) : i = j
<1> DEFINE there == {i \in Open(ts) : Registered(ts[i].name)}
           passed == {i \in Open(ts) : \A j \in there : i <= j}
           new == Proceed(ts)
<1>1. /\ new = [i \in DOMAIN ts |-> IF i \in passed THEN Begun(ts[i]) ELSE ts[i]]
      /\ Open(ts) = {i \in DOMAIN ts : ts[i].result = "none"}
      /\ passed \subseteq Open(ts) /\ DOMAIN ts = 1 .. Len(ts) /\ Len(ts) \in Nat
      /\ \A i \in DOMAIN ts : ts[i] \in Task
  BY DEF Proceed, Open
<1>2. \A i, j \in passed : Registered(ts[i].name) /\ Registered(ts[j].name) => i = j
  BY <1>1
<1>. HIDE DEF passed, there
<1>3. ASSUME NEW i \in DOMAIN ts, i \in passed
      PROVE  /\ new[i] \in Task /\ new[i].name = ts[i].name
             /\ Orderly(new[i]) /\ Earned(new[i]) /\ Undisturbed(new[i])
             /\ Registered(ts[i].name) => new[i].result = "none"
             /\ ~Registered(ts[i].name) => new[i].result = "missing"
  <2>1. new[i] = Begun(ts[i]) /\ ts[i] \in Task /\ ts[i].result = "none" /\ ts[i].sent = {}
    BY <1>1, <1>3
  <2>. HIDE DEF new
  <2>. QED
    BY <2>1, BegunEffect
<1>4. \A i \in DOMAIN ts : i \notin passed => new[i] = ts[i]
  BY <1>1
<1>5. DOMAIN new = DOMAIN ts /\ DOMAIN new = 1 .. Len(ts)
  BY <1>1
<1>6. new \in Seq(Task)
  <2>1. \A i \in 1 .. Len(ts) : new[i] \in Task
    BY <1>1, <1>3, <1>4
  <2>2. new = [i \in 1 .. Len(ts) |-> new[i]]
    BY <1>1
  <2>. HIDE DEF new
  <2>. QED
    BY <1>1, <2>1, <2>2
<1>. HIDE DEF new
<1>7. \A i \in Awaited(new) : i \in passed /\ i \in DOMAIN ts /\ Registered(ts[i].name)
  <2>1. TAKE i \in Awaited(new)
  <2>2. i \in DOMAIN ts /\ new[i].result = "none" /\ new[i].sent # {}
    BY <1>5 DEF Awaited, Open
  <2>3. i \in passed
    BY <1>1, <1>4, <2>2
  <2>. QED
    BY <1>3, <2>2, <2>3
<1>8. \A i \in DOMAIN ts :
        /\ new[i].name = ts[i].name /\ Orderly(new[i]) /\ Earned(new[i])
        /\ Undisturbed(ts[i]) => Undisturbed(new[i])
        /\ new[i].result = "missing" =>
              ts[i].result = "missing" \/ ~Registered(ts[i].name)
  BY <1>3, <1>4
<1>9. \A i, j \in Awaited(new) : i = j
  BY <1>2, <1>7
<1>. QED
  BY <1>5, <1>6, <1>8, <1>9 DEF new

(* A name taken out of the registry: the others stay, none comes twice.    *)
LEMMA RemoveOne ==
    ASSUME NEW S, NEW s \in Seq(S), IsInjective(s), NEW i \in DOMAIN s
    PROVE  /\ RemoveAt(s, i) \in Seq(S) /\ IsInjective(RemoveAt(s, i))
           /\ \A x : Contains(s, x) /\ x # s[i] => Contains(RemoveAt(s, i), x)
<1> DEFINE n == Len(s)
           front == SubSeq(s, 1, i - 1)
           back == SubSeq(s, i + 1, n)
           rest == front \o back
<1>1. n \in Nat /\ i \in 1 .. n /\ DOMAIN s = 1 .. n /\ \A k \in 1 .. n : s[k] \in S
  OBVIOUS
<1>2. /\ front \in Seq(S) /\ Len(front) = i - 1
      /\ \A k \in 1 .. i - 1 : front[k] = s[k]
  <2>. HIDE DEF n
  <2>1. 1 \in Int /\ i - 1 \in Int /\ \A k \in 1 .. i - 1 : s[k] \in S
    BY <1>1
  <2>2. /\ front \in Seq(S) /\ Len(front) = IF 1 <= i - 1 THEN i - 1 - 1 + 1 ELSE 0
        /\ \A k \in 1 .. i - 1 - 1 + 1 : front[k] = s[1 + k - 1]
    BY <2>1, SubSeqProperties
  <2>. HIDE DEF front
  <2>. QED
    BY <1>1, <2>2
<1>3. /\ back \in Seq(S) /\ Len(back) = n - i
      /\ \A k \in 1 .. n - i : back[k] = s[i + k]
  <2>. HIDE DEF n
  <2>1. i + 1 \in Int /\ n \in Int /\ \A k \in i + 1 .. n : s[k] \in S
    BY <1>1
  <2>2. /\ back \in Seq(S) /\ Len(back) = IF i + 1 <= n THEN n - (i + 1) + 1 ELSE 0
        /\ \A k \in 1 .. n - (i + 1) + 1 : back[k] = s[i + 1 + k - 1]
    BY <2>1, SubSeqProperties
  <2>. HIDE DEF back
  <2>3. Len(back) = n - i /\ n - (i + 1) + 1 = n - i
    BY <1>1, <2>2
  <2>4. \A k \in 1 .. n - i : i + 1 + k - 1 = i + k
    BY <1>1
  <2>. QED
    BY <2>2, <2>3, <2>4
<1>. HIDE DEF n, front, back
<1>4. /\ rest \in Seq(S) /\ Len(rest) = n - 1
      /\ \A k \in 1 .. n - 1 : rest[k] = IF k < i THEN s[k] ELSE s[k + 1]
  <2>1. /\ rest \in Seq(S) /\ Len(rest) = Len(front) + Len(back)
        /\ \A k \in 1 .. Len(front) + Len(back) :
              rest[k] = IF k <= Len(front) THEN front[k] ELSE back[k - Len(front)]
    BY <1>2, <1>3, ConcatProperties
  <2>. HIDE DEF rest
  <2>2. ASSUME NEW k \in 1 .. n - 1 PROVE rest[k] = IF k < i THEN s[k] ELSE s[k + 1]
    <3>1. k \in 1 .. Len(front) + Len(back)
      BY <1>1, <1>2, <1>3
    <3>2. CASE k < i
      BY <1>1, <1>2, <2>1, <3>1, <3>2
    <3>3. CASE ~(k < i)
      <4>1. k - (i - 1) \in 1 .. n - i /\ i + (k - (i - 1)) = k + 1
        BY <1>1, <3>3
      <4>2. rest[k] = back[k - (i - 1)]
        BY <1>1, <1>2, <2>1, <3>1, <3>3
      <4>. QED
        BY <1>3, <3>3, <4>1, <4>2
    <3>. QED
      BY <3>2, <3>3
  <2>. QED
    BY <1>1, <1>2, <1>3, <2>1, <2>2
<1>5. RemoveAt(s, i) = rest
  BY DEF RemoveAt, rest, front, back, n
<1>. HIDE DEF rest
<1>6. IsInjective(rest)
  <2>1. DOMAIN rest = 1 .. n - 1
    BY <1>4
  <2>2. \A a, b \in 1 .. n : s[a] = s[b] => a = b
    BY <1>1 DEF IsInjective
  <2>3. ASSUME NEW a \in 1 .. n - 1, NEW b \in 1 .. n - 1, rest[a] = rest[b]
        PROVE  a = b
    <3>1. /\ a \in 1 .. n /\ a + 1 \in 1 .. n /\ b \in 1 .. n /\ b + 1 \in 1 .. n
          /\ a \in Int /\ b \in Int /\ i \in Int
      BY <1>1
    <3>2. /\ rest[a] = IF a < i THEN s[a] ELSE s[a + 1]
          /\ rest[b] = IF b < i THEN s[b] ELSE s[b + 1]
      BY <1>4
    <3> DEFINE p == IF a < i THEN a ELSE a + 1
               q == IF b < i THEN b ELSE b + 1
    <3>3. p \in 1 .. n /\ q \in 1 .. n /\ rest[a] = s[p] /\ rest[b] = s[q]
      BY <3>1, <3>2
    <3>4. p = q
      <4>. HIDE DEF p, q
      <4>. QED
        BY <2>2, <2>3, <3>3
    <3>. QED
      BY <3>1, <3>4
  <2>. QED
    BY <2>1, <2>3 DEF IsInjective
<1>7. ASSUME NEW x, Contains(s, x), x # s[i] PROVE Contains(rest, x)
  <2>1. PICK k \in 1 .. n : s[k] = x
    BY <1>7 DEF Contains, n
  <2>2. CASE k < i
    BY <1>1, <1>4, <2>1, <2>2 DEF Contains
  <2>3. CASE k > i
    <3>1. k - 1 \in 1 .. Len(rest) /\ rest[k - 1] = s[k]
      BY <1>1, <1>4, <2>1, <2>3
    <3>. QED
      BY <2>1, <3>1 DEF Contains
  <2>. QED
    BY <1>1, <1>7, <2>1, <2>2, <2>3
<1>. QED
  BY <1>4, <1>5, <1>6, <1>7

-------------------------------------------------------------------------------
LEMMA TaskIsTask ==
    ASSUME NEW task \in Task, Orderly(task)
    PROVE  IsTask(task)
  BY DEF Task, Orderly, IsTask

(* What the tasks of one run may become without disturbing the invariant.  *)
LEMMA RunChanges ==
    ASSUME IInv, NEW r \in Runs, NEW ts \in Seq(Task),
           NEW started \in {"all", "queued", "parallel"},
           UNCHANGED <<registry, changes, gone>>,
           mode' = [mode EXCEPT ![r] = started],
           tasks' = [tasks EXCEPT ![r] = ts],
           failures' \in 0 .. MaxFailures, failures' = 0 => failures = 0,
           \A i \in DOMAIN ts :
              /\ Orderly(ts[i]) /\ Earned(ts[i])
              /\ failures' = 0 => Undisturbed(ts[i])
              /\ started = "queued" => ts[i].sent = {} /\ ts[i].result = "none"
              /\ ts[i].result = "missing" => ts[i].name \in gone[r]
              /\ Registered(ts[i].name) \/ ts[i].name \in gone[r],
           \A i, j \in DOMAIN ts : ts[i].name = ts[j].name => i = j,
           started = "all" => \A i, j \in Awaited(ts) : i = j
    PROVE  IInv'
<1>1. /\ registry' = registry /\ changes' = changes /\ gone' = gone
      /\ mode \in [Runs -> {"none", "all", "queued", "parallel"}]
      /\ tasks \in [Runs -> Seq(Task)]
  BY DEF IInv, TypeOK, TasksOK
<1>2. /\ mode' \in [Runs -> {"none", "all", "queued", "parallel"}]
      /\ mode'[r] = started /\ \A q \in Runs \ {r} : mode'[q] = mode[q]
  BY <1>1
<1>3. /\ tasks' \in [Runs -> Seq(Task)]
      /\ tasks'[r] = ts /\ \A q \in Runs \ {r} : tasks'[q] = tasks[q]
  BY <1>1
<1>4. TasksOK'
  <2>1. ASSUME NEW q \in Runs, NEW i \in DOMAIN tasks'[q]
        PROVE  /\ Orderly(tasks'[q][i]) /\ Earned(tasks'[q][i])
               /\ failures' = 0 => Undisturbed(tasks'[q][i])
    BY <1>3, <2>1 DEF IInv, TasksOK
  <2>. QED
    BY <1>3, <2>1 DEF TasksOK, Orderly, Earned, Undisturbed, Furthest
<1>5. TypeOK'
  <2>1. ASSUME NEW q \in Runs
        PROVE  /\ \A i \in DOMAIN tasks'[q] : IsTask(tasks'[q][i])
               /\ \A i, j \in DOMAIN tasks'[q] :
                    tasks'[q][i].name = tasks'[q][j].name => i = j
               /\ mode'[q] = "all" => \A i, j \in Awaited(tasks'[q]) : i = j
    <3>1. CASE q = r
      <4>1. \A i \in DOMAIN ts : ts[i] \in Task
        OBVIOUS
      <4>. QED
        BY <1>2, <1>3, <3>1, <4>1, TaskIsTask
    <3>2. CASE q # r
      BY <1>2, <1>3, <3>2 DEF IInv, TypeOK
    <3>. QED
      BY <3>1, <3>2
  <2>2. /\ (registry \in Seq(DOMAIN Script) /\ IsInjective(registry))'
        /\ changes' \in 0 .. MaxChanges /\ gone' \in [Runs -> SUBSET Names]
    BY <1>1 DEF IInv, TypeOK
  <2>. QED
    BY <1>2, <2>1, <2>2 DEF TypeOK, IsTask, Awaited, Open
<1>6. RunsOK'
  <2>1. \A name : Registered(name)' <=> Registered(name)
    BY <1>1 DEF Registered
  <2>2. ASSUME NEW q \in Runs
        PROVE  /\ mode'[q] = "none" => tasks'[q] = <<>>
               /\ \A i \in DOMAIN tasks'[q] :
                    /\ mode'[q] = "queued" =>
                          tasks'[q][i].sent = {} /\ tasks'[q][i].result = "none"
                    /\ tasks'[q][i].result = "missing" => tasks'[q][i].name \in gone[q]
                    /\ Registered(tasks'[q][i].name) \/ tasks'[q][i].name \in gone[q]
    <3>1. CASE q = r
      BY <1>2, <1>3, <3>1
    <3>2. CASE q # r
      BY <1>2, <1>3, <3>2 DEF IInv, RunsOK
    <3>. QED
      BY <3>1, <3>2
  <2>. QED
    BY <1>1, <2>1, <2>2 DEF RunsOK
<1>. QED
  BY <1>4, <1>5, <1>6 DEF IInv

(* What a run lists: every registered collector, once, not begun.          *)
LEMMA ListedEffect ==
    ASSUME IInv
    PROVE  LET ts == [i \in DOMAIN registry |-> Listed(registry[i])] IN
           /\ ts \in Seq(Task)
           /\ \A i \in DOMAIN ts :
                /\ ts[i].sent = {} /\ ts[i].result = "none"
                /\ Registered(ts[i].name)
                /\ Orderly(ts[i]) /\ Earned(ts[i]) /\ Undisturbed(ts[i])
           /\ \A i, j \in DOMAIN ts : ts[i].name = ts[j].name => i = j
           /\ registry = <<>> => ts = <<>>
<1> DEFINE ts == [i \in DOMAIN registry |-> Listed(registry[i])]
<1>1. /\ registry \in Seq(DOMAIN Script)
      /\ \A i, j \in DOMAIN registry : registry[i] = registry[j] => i = j
  BY DEF IInv, TypeOK, IsInjective
<1>2. \A name \in DOMAIN Script :
        /\ Listed(name) \in Task /\ Listed(name).name = name
        /\ Listed(name).sent = {} /\ Listed(name).worked = {}
        /\ Listed(name).result = "none"
  BY DEF Listed, Task
<1>3. \A i \in DOMAIN registry : registry[i] \in DOMAIN Script /\ Registered(registry[i])
  BY <1>1 DEF Registered, Contains
<1>4. ts \in Seq(Task)
  <2>1. DOMAIN registry = 1 .. Len(registry) /\ Len(registry) \in Nat
    BY <1>1
  <2>2. ts \in [1 .. Len(registry) -> Task]
    BY <1>2, <1>3, <2>1
  <2>. HIDE DEF ts
  <2>. QED
    BY <2>1, <2>2
<1>5. ASSUME NEW i \in DOMAIN registry
      PROVE  /\ ts[i].sent = {} /\ ts[i].worked = {} /\ ts[i].result = "none"
             /\ ts[i].name = registry[i]
  BY <1>2, <1>3
<1>6. DOMAIN ts = DOMAIN registry
  OBVIOUS
<1>7. registry = <<>> => ts = <<>>
  BY <1>1
<1>. HIDE DEF ts
<1>8. \A i \in DOMAIN registry : Orderly(ts[i]) /\ Earned(ts[i]) /\ Undisturbed(ts[i])
  BY <1>5 DEF Orderly, Earned, Undisturbed
<1>. QED
  BY <1>1, <1>3, <1>4, <1>5, <1>6, <1>7, <1>8 DEF ts

LEMMA RunAllIInv ==
    ASSUME IInv, NEW r \in Runs, RunAll(r)
    PROVE  IInv'
<1> DEFINE ts == [i \in DOMAIN registry |-> Listed(registry[i])]
           new == Proceed(ts)
<1>1. /\ ts \in Seq(Task)
      /\ \A i \in DOMAIN ts :
            /\ ts[i].sent = {} /\ ts[i].result = "none"
            /\ Registered(ts[i].name)
            /\ Orderly(ts[i]) /\ Earned(ts[i]) /\ Undisturbed(ts[i])
      /\ \A i, j \in DOMAIN ts : ts[i].name = ts[j].name => i = j
  BY ListedEffect
<1>2. /\ UNCHANGED <<registry, changes, gone>> /\ failures' = failures
      /\ mode' = [mode EXCEPT ![r] = "all"] /\ tasks' = [tasks EXCEPT ![r] = new]
      /\ failures \in 0 .. MaxFailures
  BY DEF RunAll, IInv, TypeOK
<1>. HIDE DEF ts
<1>3. /\ new \in Seq(Task) /\ DOMAIN new = DOMAIN ts
      /\ \A i \in DOMAIN ts :
           /\ new[i].name = ts[i].name /\ Orderly(new[i]) /\ Earned(new[i])
           /\ Undisturbed(ts[i]) => Undisturbed(new[i])
           /\ new[i].result = "missing" =>
                 ts[i].result = "missing" \/ ~Registered(ts[i].name)
      /\ \A i, j \in Awaited(new) : i = j
  BY <1>1, ProceedEffect DEF Open
<1>. HIDE DEF new
<1>4. \A i \in DOMAIN new :
        /\ Orderly(new[i]) /\ Earned(new[i]) /\ Undisturbed(new[i])
        /\ new[i].result # "missing" /\ Registered(new[i].name)
  BY <1>1, <1>3
<1>5. \A i, j \in DOMAIN new : new[i].name = new[j].name => i = j
  BY <1>1, <1>3
<1>. QED
  BY <1>2, <1>3, <1>4, <1>5, RunChanges

LEMMA RunParallelIInv ==
    ASSUME IInv, NEW r \in Runs, RunParallel(r)
    PROVE  IInv'
<1> DEFINE ts == [i \in DOMAIN registry |-> Listed(registry[i])]
           started == IF registry = <<>> THEN "parallel" ELSE "queued"
<1>1. /\ ts \in Seq(Task)
      /\ \A i \in DOMAIN ts :
            /\ ts[i].sent = {} /\ ts[i].result = "none"
            /\ Registered(ts[i].name)
            /\ Orderly(ts[i]) /\ Earned(ts[i]) /\ Undisturbed(ts[i])
      /\ \A i, j \in DOMAIN ts : ts[i].name = ts[j].name => i = j
  BY ListedEffect
<1>2. /\ UNCHANGED <<registry, changes, gone>> /\ failures' = failures
      /\ mode' = [mode EXCEPT ![r] = started] /\ tasks' = [tasks EXCEPT ![r] = ts]
      /\ failures \in 0 .. MaxFailures
      /\ started \in {"queued", "parallel"}
  BY DEF RunParallel, IInv, TypeOK
<1>. HIDE DEF ts, started
<1>3. \A i \in DOMAIN ts : ts[i].result # "missing"
  BY <1>1
<1>. QED
  BY <1>1, <1>2, <1>3, RunChanges

(* What the invariant says of one run.                                     *)
LEMMA RunFacts ==
    ASSUME IInv, NEW r \in Runs
    PROVE  /\ tasks[r] \in Seq(Task)
           /\ DOMAIN tasks[r] = 1 .. Len(tasks[r]) /\ Len(tasks[r]) \in Nat
           /\ \A i \in DOMAIN tasks[r] :
                /\ tasks[r][i] \in Task /\ Orderly(tasks[r][i]) /\ Earned(tasks[r][i])
                /\ failures = 0 => Undisturbed(tasks[r][i])
                /\ mode[r] = "queued" =>
                      tasks[r][i].sent = {} /\ tasks[r][i].result = "none"
                /\ tasks[r][i].result = "missing" => tasks[r][i].name \in gone[r]
                /\ Registered(tasks[r][i].name) \/ tasks[r][i].name \in gone[r]
           /\ \A i, j \in DOMAIN tasks[r] : tasks[r][i].name = tasks[r][j].name => i = j
           /\ mode[r] \in {"none", "all", "queued", "parallel"}
           /\ mode[r] = "none" => tasks[r] = <<>>
           /\ mode[r] = "all" => \A i, j \in Awaited(tasks[r]) : i = j
           /\ failures \in 0 .. MaxFailures /\ MaxFailures \in Nat
<1>1. tasks[r] \in Seq(Task)
  BY DEF IInv, TasksOK
<1>2. /\ DOMAIN tasks[r] = 1 .. Len(tasks[r]) /\ Len(tasks[r]) \in Nat
      /\ \A i \in DOMAIN tasks[r] : tasks[r][i] \in Task
  BY <1>1
<1>. QED
  BY <1>1, <1>2, AgentAssumption DEF IInv, TypeOK, TasksOK, RunsOK

LEMMA GatheredIInv ==
    ASSUME IInv, NEW r \in Runs, Gathered(r)
    PROVE  IInv'
<1> DEFINE ts == tasks[r]
           new == [i \in DOMAIN ts |-> Begun(ts[i])]
<1>1. /\ UNCHANGED <<registry, changes, gone>> /\ failures' = failures
      /\ mode' = [mode EXCEPT ![r] = "parallel"] /\ tasks' = [tasks EXCEPT ![r] = new]
      /\ mode[r] = "queued"
  BY DEF Gathered, IInv, TasksOK
<1>2. /\ ts \in Seq(Task) /\ DOMAIN ts = 1 .. Len(ts) /\ Len(ts) \in Nat
      /\ \A i \in DOMAIN ts :
           /\ ts[i] \in Task /\ Orderly(ts[i])
           /\ ts[i].sent = {} /\ ts[i].result = "none"
           /\ Registered(ts[i].name) \/ ts[i].name \in gone[r]
      /\ \A i, j \in DOMAIN ts : ts[i].name = ts[j].name => i = j
      /\ failures \in 0 .. MaxFailures
  BY <1>1, RunFacts
<1>. HIDE DEF ts
<1>3. ASSUME NEW i \in DOMAIN ts
      PROVE  /\ Begun(ts[i]) \in Task /\ Begun(ts[i]).name = ts[i].name
             /\ Orderly(Begun(ts[i])) /\ Earned(Begun(ts[i])) /\ Undisturbed(Begun(ts[i]))
             /\ Registered(ts[i].name) => Begun(ts[i]).result = "none"
  BY <1>2, BegunEffect
<1>4. new \in Seq(Task)
  <2>1. new \in [1 .. Len(ts) -> Task]
    BY <1>2, <1>3
  <2>. HIDE DEF new
  <2>. QED
    BY <1>2, <2>1
<1>5. ASSUME NEW i \in DOMAIN new
      PROVE  /\ Orderly(new[i]) /\ Earned(new[i]) /\ Undisturbed(new[i])
             /\ new[i].name = ts[i].name
             /\ new[i].result = "missing" => new[i].name \in gone[r]
             /\ Registered(new[i].name) \/ new[i].name \in gone[r]
  <2>1. i \in DOMAIN ts /\ new[i] = Begun(ts[i])
    OBVIOUS
  <2>. HIDE DEF new
  <2>. QED
    BY <1>2, <1>3, <2>1
<1>6. DOMAIN new = DOMAIN ts
  OBVIOUS
<1>. HIDE DEF new
<1>7. \A i, j \in DOMAIN new : new[i].name = new[j].name => i = j
  BY <1>2, <1>5, <1>6
<1>. QED
  BY <1>1, <1>2, <1>4, <1>5, <1>7, RunChanges

(* The collector as its answer leaves it, and what its run does then.      *)
Comes(r, i, done) ==
    LET returned == [tasks[r] EXCEPT ![i] = done] IN
    /\ done.name = tasks[r][i].name /\ done.sent # {}
    /\ done.result # "missing"
    /\ Orderly(done) /\ Earned(done)
    /\ failures' = 0 => Undisturbed(done)
    /\ tasks' = [tasks EXCEPT ![r] =
          IF mode[r] = "all" /\ done.result # "none" THEN Proceed(returned) ELSE returned]

(* What an answer makes of the collector that waited for it.               *)
LEMMA AnswerEffect ==
    ASSUME IInv, NEW r \in Runs, NEW i \in Awaited(tasks[r]),
           NEW works \in BOOLEAN, NEW parses \in BOOLEAN,
           NEW printed \in {"something", "nothing"},
           Answer(r, i, works, printed, parses)
    PROVE  /\ UNCHANGED <<registry, changes, gone, mode>>
           /\ failures' \in 0 .. MaxFailures
           /\ failures' = 0 => failures = 0
           /\ \E done \in Task : Comes(r, i, done)
<1> DEFINE task == tasks[r][i]
           line == Max(task.sent)
           allowed == line \in Allowed[task.name]
           came == [task EXCEPT !.worked = IF works THEN @ \union {line} ELSE @]
           done == After(came, printed, parses)
           refused == IF allowed /\ ~works THEN 1 ELSE 0
           broken == IF parses THEN 0 ELSE 1
<1>1. /\ i \in DOMAIN tasks[r] /\ task.result = "none" /\ task.sent # {}
      /\ task \in Task /\ Orderly(task)
      /\ failures = 0 => Undisturbed(task)
      /\ failures \in 0 .. MaxFailures /\ MaxFailures \in Nat
  BY RunFacts DEF Awaited, Open
<1>2. /\ works => allowed
      /\ failures + (refused + broken) <= MaxFailures
      /\ failures' = failures + (refused + broken)
      /\ UNCHANGED <<registry, changes, gone, mode>>
      /\ LET returned == [tasks[r] EXCEPT ![i] = done] IN
         tasks' = [tasks EXCEPT ![r] = IF mode[r] = "all" /\ done.result # "none"
                                       THEN Proceed(returned) ELSE returned]
  BY DEF Answer
<1>3. refused \in {0, 1} /\ broken \in {0, 1}
  OBVIOUS
<1>4. /\ failures' \in 0 .. MaxFailures
      /\ failures' = 0 => failures = 0 /\ refused = 0 /\ broken = 0
  <2>. HIDE DEF refused, broken
  <2>. QED
    BY <1>1, <1>2, <1>3
<1>5. failures' = 0 => failures = 0 /\ parses /\ (allowed => works)
  BY <1>4
<1>. HIDE DEF refused, broken, task
<1>6. PICK m \in task.sent : Furthest(task, m)
  BY <1>1 DEF Orderly
<1>7. line = m
  BY <1>1, <1>6, MaxIsLast
<1>8. works => m \in Allowed[task.name]
  BY <1>2, <1>7
<1>9. /\ came \in Task /\ came.name = task.name /\ came.sent = task.sent
      /\ came.result = "none" /\ Orderly(came) /\ Furthest(came, m)
      /\ came.worked = IF works THEN task.worked \union {m} ELSE task.worked
  BY <1>1, <1>6, <1>7, <1>8, CameOrderly
<1>10. failures' = 0 =>
         \A k \in came.sent : k \in came.worked \/ k \notin Allowed[came.name]
  <2>1. SUFFICES ASSUME failures' = 0, NEW k \in task.sent
                 PROVE  k \in came.worked \/ k \notin Allowed[task.name]
    BY <1>9
  <2>2. CASE Furthest(task, k)
    <3>1. k = m
      BY <1>1, <1>6, <2>2 DEF Furthest, Task
    <3>. QED
      BY <1>5, <1>7, <1>9, <2>1, <3>1
  <2>3. CASE ~Furthest(task, k)
    BY <1>1, <1>5, <1>9, <2>1, <2>3 DEF Undisturbed
  <2>. QED
    BY <2>2, <2>3
<1>. HIDE DEF came
<1>11. /\ done \in Task /\ done.name = came.name
       /\ done.sent # {} /\ done.result # "missing"
       /\ Orderly(done) /\ Earned(done)
       /\ (/\ parses
           /\ \A k \in came.sent : k \in came.worked \/ k \notin Allowed[came.name])
          => Undisturbed(done)
  BY <1>9, AfterEffect
<1>. HIDE DEF done
<1>12. failures' = 0 => Undisturbed(done)
  BY <1>5, <1>10, <1>11
<1>13. Comes(r, i, done)
  BY <1>2, <1>9, <1>11, <1>12 DEF Comes, task
<1>. QED
  BY <1>2, <1>4, <1>11, <1>13

LEMMA AnswersIInv ==
    ASSUME IInv, NEW r \in Runs, Answers(r)
    PROVE  IInv'
<1>1. PICK i \in Awaited(tasks[r]), works \in BOOLEAN, parses \in BOOLEAN,
           printed \in {"something", "nothing"} : Answer(r, i, works, printed, parses)
  BY DEF Answers
<1> DEFINE ts == tasks[r]
<1>2. /\ UNCHANGED <<registry, changes, gone, mode>>
      /\ failures' \in 0 .. MaxFailures
      /\ failures' = 0 => failures = 0
  BY <1>1, AnswerEffect
<1>3. PICK done \in Task : Comes(r, i, done)
  BY <1>1, AnswerEffect
<1> DEFINE returned == [ts EXCEPT ![i] = done]
           new == IF mode[r] = "all" /\ done.result # "none"
                  THEN Proceed(returned) ELSE returned
<1>4. /\ ts \in Seq(Task)
      /\ \A k \in DOMAIN ts :
           /\ Orderly(ts[k]) /\ Earned(ts[k])
           /\ failures = 0 => Undisturbed(ts[k])
           /\ mode[r] = "queued" => ts[k].sent = {} /\ ts[k].result = "none"
           /\ ts[k].result = "missing" => ts[k].name \in gone[r]
           /\ Registered(ts[k].name) \/ ts[k].name \in gone[r]
      /\ \A j, k \in DOMAIN ts : ts[j].name = ts[k].name => j = k
      /\ mode[r] \in {"none", "all", "queued", "parallel"}
      /\ mode[r] = "none" => ts = <<>>
      /\ mode[r] = "all" => \A j, k \in Awaited(ts) : j = k
  BY RunFacts
<1>5. i \in DOMAIN ts /\ ts[i].result = "none" /\ ts[i].sent # {}
  BY <1>1 DEF Awaited, Open
<1>6. PICK started \in {"all", "queued", "parallel"} : started = mode[r] /\ started # "queued"
  <2>1. mode[r] # "none"
    <3>1. DOMAIN <<>> = {}
      OBVIOUS
    <3>. QED
      BY <1>4, <1>5, <3>1
  <2>. QED
    BY <1>4, <1>5, <2>1
<1>7. /\ UNCHANGED <<registry, changes, gone>>
      /\ mode' = [mode EXCEPT ![r] = started] /\ tasks' = [tasks EXCEPT ![r] = new]
      /\ done.name = ts[i].name /\ done.sent # {}
      /\ done.result # "missing"
      /\ Orderly(done) /\ Earned(done)
      /\ failures' = 0 => Undisturbed(done)
  BY <1>2, <1>3, <1>6 DEF Comes, IInv, TypeOK
<1>. HIDE DEF ts
<1>8. /\ returned \in Seq(Task) /\ DOMAIN returned = DOMAIN ts
      /\ returned[i] = done /\ \A k \in DOMAIN ts \ {i} : returned[k] = ts[k]
  BY <1>3, <1>4, <1>5
<1>. HIDE DEF returned
<1>9. ASSUME NEW k \in DOMAIN ts
      PROVE  /\ Orderly(returned[k]) /\ Earned(returned[k])
             /\ failures' = 0 => Undisturbed(returned[k])
             /\ returned[k].name = ts[k].name
             /\ returned[k].result = "missing" => ts[k].result = "missing"
  <2>1. CASE k = i
    BY <1>7, <1>8, <2>1
  <2>2. CASE k # i
    <3>1. returned[k] = ts[k]
      BY <1>8, <2>2
    <3>. QED
      BY <1>2, <1>4, <3>1
  <2>. QED
    BY <2>1, <2>2
<1>10. mode[r] = "all" => \A k \in DOMAIN ts \ {i} :
          returned[k].result = "none" => returned[k].sent = {}
  <2>1. SUFFICES ASSUME mode[r] = "all", NEW k \in DOMAIN ts \ {i},
                        ts[k].result = "none", ts[k].sent # {}
                 PROVE  FALSE
    BY <1>8
  <2>2. k \in Awaited(ts) /\ i \in Awaited(ts)
    BY <1>5, <2>1 DEF Awaited, Open
  <2>. QED
    BY <1>4, <2>1, <2>2
<1>11. CASE mode[r] = "all" /\ done.result # "none"
  <2>1. new = Proceed(returned)
    BY <1>11
  <2>2. \A k \in Open(returned) : returned[k].sent = {}
    BY <1>8, <1>10, <1>11 DEF Open
  <2>3. /\ new \in Seq(Task) /\ DOMAIN new = DOMAIN returned
        /\ \A k \in DOMAIN returned :
             /\ new[k].name = returned[k].name /\ Orderly(new[k]) /\ Earned(new[k])
             /\ Undisturbed(returned[k]) => Undisturbed(new[k])
             /\ new[k].result = "missing" =>
                   returned[k].result = "missing" \/ ~Registered(returned[k].name)
        /\ \A j, k \in Awaited(new) : j = k
    BY <1>8, <1>9, <2>1, <2>2, ProceedEffect
  <2>. HIDE DEF new
  <2>4. ASSUME NEW k \in DOMAIN new
        PROVE  /\ Orderly(new[k]) /\ Earned(new[k])
               /\ failures' = 0 => Undisturbed(new[k])
               /\ new[k].name = ts[k].name
               /\ new[k].result = "missing" => new[k].name \in gone[r]
               /\ Registered(new[k].name) \/ new[k].name \in gone[r]
    BY <1>4, <1>8, <1>9, <2>3
  <2>5. \A j, k \in DOMAIN new : new[j].name = new[k].name => j = k
    BY <1>4, <1>8, <2>3, <2>4
  <2>. QED
    BY <1>2, <1>6, <1>7, <2>3, <2>4, <2>5, RunChanges
<1>12. CASE ~(mode[r] = "all" /\ done.result # "none")
  <2>1. new = returned
    BY <1>12
  <2>. HIDE DEF new
  <2>2. ASSUME NEW k \in DOMAIN new
        PROVE  /\ Orderly(new[k]) /\ Earned(new[k])
               /\ failures' = 0 => Undisturbed(new[k])
               /\ new[k].name = ts[k].name
               /\ new[k].result = "missing" => new[k].name \in gone[r]
               /\ Registered(new[k].name) \/ new[k].name \in gone[r]
    BY <1>4, <1>8, <1>9, <2>1
  <2>3. \A j, k \in DOMAIN new : new[j].name = new[k].name => j = k
    BY <1>4, <1>8, <2>1, <2>2
  <2>4. started = "all" => \A j, k \in Awaited(new) : j = k
    <3>1. mode[r] = "all" => \A k \in Awaited(new) : k = i
      BY <1>8, <1>10, <2>1 DEF Awaited, Open
    <3>. QED
      BY <1>6, <3>1
  <2>5. new \in Seq(Task)
    BY <1>8, <2>1
  <2>. QED
    BY <1>2, <1>6, <1>7, <2>2, <2>3, <2>4, <2>5, RunChanges
<1>. QED
  BY <1>11, <1>12

-------------------------------------------------------------------------------
LEMMA RegisterIInv ==
    ASSUME IInv, NEW name \in Names, Register(name)
    PROVE  IInv'
<1>1. /\ name \in DOMAIN Script /\ MaxChanges \in Nat
      /\ registry \in Seq(DOMAIN Script) /\ IsInjective(registry)
      /\ changes \in 0 .. MaxChanges
  BY AgentAssumption DEF IInv, TypeOK
<1>2. /\ changes < MaxChanges /\ ~Registered(name)
      /\ registry' = Append(registry, name) /\ changes' = changes + 1
      /\ mode' = mode /\ tasks' = tasks /\ failures' = failures /\ gone' = gone
  BY DEF Register
<1>3. /\ registry' \in Seq(DOMAIN Script) /\ Len(registry') = Len(registry) + 1
      /\ \A k \in 1 .. Len(registry) : registry'[k] = registry[k]
      /\ registry'[Len(registry) + 1] = name
      /\ Len(registry) \in Nat
  BY <1>1, <1>2, AppendProperties
<1>4. \A k \in 1 .. Len(registry) : registry[k] # name
  BY <1>2 DEF Registered, Contains
<1>5. IsInjective(registry')
  <2>1. /\ \A j, k \in 1 .. Len(registry) : registry[j] = registry[k] => j = k
        /\ DOMAIN registry' = 1 .. Len(registry) + 1
    BY <1>1, <1>3 DEF IsInjective
  <2>2. \A k \in 1 .. Len(registry) + 1 : k \in 1 .. Len(registry) \/ k = Len(registry) + 1
    BY <1>3
  <2>. QED
    BY <1>3, <1>4, <2>1, <2>2 DEF IsInjective
<1>6. \A x : Registered(x) => Registered(x)'
  <2>1. \A k \in 1 .. Len(registry) : k \in 1 .. Len(registry')
    BY <1>3
  <2>. QED
    BY <1>3, <2>1 DEF Registered, Contains
<1>7. TypeOK'
  <2>1. changes' \in 0 .. MaxChanges
    BY <1>1, <1>2
  <2>. QED
    BY <1>2, <1>3, <1>5, <2>1 DEF IInv, TypeOK, IsTask, Awaited, Open
<1>8. TasksOK'
  BY <1>2 DEF IInv, TasksOK, Orderly, Earned, Undisturbed, Furthest
<1>9. RunsOK'
  BY <1>2, <1>6 DEF IInv, RunsOK
<1>. QED
  BY <1>7, <1>8, <1>9 DEF IInv

LEMMA UnregisterIInv ==
    ASSUME IInv, NEW name \in Names, Unregister(name)
    PROVE  IInv'
<1>1. /\ MaxChanges \in Nat
      /\ registry \in Seq(DOMAIN Script) /\ IsInjective(registry)
      /\ changes \in 0 .. MaxChanges /\ gone \in [Runs -> SUBSET Names]
  BY AgentAssumption DEF IInv, TypeOK
<1>2. /\ changes < MaxChanges /\ Registered(name)
      /\ registry' = Without(name) /\ changes' = changes + 1
      /\ mode' = mode /\ tasks' = tasks /\ failures' = failures
      /\ gone' = [r \in Runs |-> IF mode[r] = "none" THEN {} ELSE gone[r] \union {name}]
  BY DEF Unregister
<1>3. /\ registry' \in Seq(DOMAIN Script) /\ IsInjective(registry')
      /\ \A x : Registered(x) /\ x # name => Registered(x)'
  <2> DEFINE i == CHOOSE k \in DOMAIN registry : registry[k] = name
  <2>1. i \in DOMAIN registry /\ registry[i] = name
    <3>1. \E k \in DOMAIN registry : registry[k] = name
      BY <1>1, <1>2 DEF Registered, Contains
    <3>. QED
      BY <3>1
  <2>2. registry' = RemoveAt(registry, i)
    BY <1>2 DEF Without
  <2>. HIDE DEF i
  <2>3. /\ RemoveAt(registry, i) \in Seq(DOMAIN Script)
        /\ IsInjective(RemoveAt(registry, i))
        /\ \A x : Contains(registry, x) /\ x # registry[i]
                  => Contains(RemoveAt(registry, i), x)
    BY <1>1, <2>1, RemoveOne
  <2>. QED
    BY <2>1, <2>2, <2>3 DEF Registered
<1>4. TypeOK'
  <2>1. changes' \in 0 .. MaxChanges
    BY <1>1, <1>2
  <2>2. gone' \in [Runs -> SUBSET Names]
    BY <1>1, <1>2
  <2>3. /\ mode' \in [Runs -> {"none", "all", "queued", "parallel"}]
        /\ failures' \in 0 .. MaxFailures
        /\ \A r \in Runs :
             /\ \A i \in DOMAIN tasks'[r] : IsTask(tasks'[r][i])
             /\ \A i, j \in DOMAIN tasks'[r] :
                  tasks'[r][i].name = tasks'[r][j].name => i = j
             /\ mode'[r] = "all" => \A i, j \in Awaited(tasks'[r]) : i = j
    BY <1>2 DEF IInv, TypeOK
  <2>. QED
    BY <1>3, <2>1, <2>2, <2>3 DEF TypeOK, IsTask, Awaited, Open
<1>5. TasksOK'
  <2>1. tasks' = tasks /\ failures' = failures
    BY <1>2
  <2>. QED
    BY <2>1 DEF IInv, TasksOK, Orderly, Earned, Undisturbed, Furthest
<1>6. RunsOK'
  <2>1. ASSUME NEW r \in Runs, NEW k \in DOMAIN tasks[r]
        PROVE  /\ mode[r] # "none" /\ gone'[r] = gone[r] \union {name}
               /\ mode[r] = "queued" => tasks[r][k].sent = {} /\ tasks[r][k].result = "none"
               /\ tasks[r][k].result = "missing" => tasks[r][k].name \in gone[r]
               /\ Registered(tasks[r][k].name) \/ tasks[r][k].name \in gone[r]
    <3>1. mode[r] # "none"
      <4>1. DOMAIN <<>> = {}
        OBVIOUS
      <4>. QED
        BY <2>1, <4>1 DEF IInv, RunsOK
    <3>. QED
      BY <1>2, <2>1, <3>1 DEF IInv, RunsOK
  <2>2. ASSUME NEW r \in Runs, mode[r] = "none"
        PROVE  tasks[r] = <<>>
    BY <2>2 DEF IInv, RunsOK
  <2>. QED
    BY <1>2, <1>3, <2>1, <2>2 DEF RunsOK
<1>. QED
  BY <1>4, <1>5, <1>6 DEF IInv

LEMMA StutterIInv ==
    ASSUME IInv, UNCHANGED vars
    PROVE  IInv'
<1>1. /\ registry' = registry /\ mode' = mode /\ tasks' = tasks
      /\ changes' = changes /\ failures' = failures /\ gone' = gone
  BY DEF vars
<1>2. TypeOK'
  BY <1>1 DEF IInv, TypeOK, IsTask, Awaited, Open
<1>3. TasksOK'
  BY <1>1 DEF IInv, TasksOK, Orderly, Earned, Undisturbed, Furthest
<1>4. RunsOK'
  BY <1>1 DEF IInv, RunsOK, Registered
<1>. QED
  BY <1>2, <1>3, <1>4 DEF IInv

LEMMA InitIInv == Init => IInv
<1>. SUFFICES ASSUME Init PROVE IInv
  OBVIOUS
<1>1. /\ registry \in Seq(DOMAIN Script) /\ IsInjective(registry)
      /\ MaxChanges \in Nat /\ MaxFailures \in Nat
      /\ changes = 0 /\ failures = 0
  BY AgentAssumption DEF Init
<1>2. /\ mode \in [Runs -> {"none", "all", "queued", "parallel"}]
      /\ gone \in [Runs -> SUBSET Names]
      /\ tasks \in [Runs -> Seq(Task)]
  BY DEF Init
<1>3. \A r \in Runs : mode[r] = "none" /\ tasks[r] = <<>> /\ DOMAIN tasks[r] = {}
  BY DEF Init
<1>4. TypeOK
  BY <1>1, <1>2, <1>3 DEF TypeOK
<1>5. TasksOK /\ RunsOK
  BY <1>2, <1>3 DEF TasksOK, RunsOK
<1>. QED
  BY <1>4, <1>5 DEF IInv

LEMMA NextIInv == IInv /\ [Next]_vars => IInv'
<1>. SUFFICES ASSUME IInv, [Next]_vars PROVE IInv'
  OBVIOUS
<1>1. ASSUME NEW name \in Names, Register(name) PROVE IInv'
  BY <1>1, RegisterIInv
<1>2. ASSUME NEW name \in Names, Unregister(name) PROVE IInv'
  BY <1>2, UnregisterIInv
<1>3. ASSUME NEW r \in Runs, RunAll(r) PROVE IInv'
  BY <1>3, RunAllIInv
<1>4. ASSUME NEW r \in Runs, RunParallel(r) PROVE IInv'
  BY <1>4, RunParallelIInv
<1>5. ASSUME NEW r \in Runs, Gathered(r) PROVE IInv'
  BY <1>5, GatheredIInv
<1>6. ASSUME NEW r \in Runs, Answers(r) PROVE IInv'
  BY <1>6, AnswersIInv
<1>7. CASE Terminated \/ UNCHANGED vars
  BY <1>7, StutterIInv DEF Terminated
<1>. QED
  BY <1>1, <1>2, <1>3, <1>4, <1>5, <1>6, <1>7 DEF Next

-------------------------------------------------------------------------------
(* The agent keeps its inductive invariant: collectors send their commands *)
(* in order and leave out none that they always send, what they return is  *)
(* earned, and what a run listed is registered or was taken out since.     *)
THEOREM Inductive == Spec => []IInv
<1>. QED
  BY InitIInv, NextIInv, PTL DEF Spec

(* The agent's state keeps its shape: above all, run_all has at most one   *)
(* command under way, and no collector is registered or listed twice.      *)
THEOREM Types == Spec => []TypeOK
<1>1. IInv => TypeOK
  BY DEF IInv
<1>. QED
  BY <1>1, Inductive, PTL

(* A SUCCESS has all its needed commands behind it, a payload after an     *)
(* error is one of a collector that salvages, and only a collector that was*)
(* unregistered is reported as not found.                                  *)
THEOREM ResultsEarned == Spec => []ResultsAreEarned
<1>1. IInv => ResultsAreEarned
  <2>. SUFFICES ASSUME IInv, NEW r \in Runs, NEW i \in DOMAIN tasks[r]
                PROVE  /\ Earned(tasks[r][i])
                       /\ tasks[r][i].result = "missing" => tasks[r][i].name \in gone[r]
    BY DEF ResultsAreEarned, EveryTask, Earned
  <2>. QED
    BY DEF IInv, TasksOK, RunsOK
<1>. QED
  BY <1>1, Inductive, PTL

(* The collectors' commands and the command policy agree, but for Docker's *)
(* networks and volumes: without failures every collector succeeds and     *)
(* Docker's comes back FAILED with a payload, in every run.                *)
THEOREM PolicyMatches == Spec => []OnlyDockerIsRefused
<1>1. IInv => OnlyDockerIsRefused
  BY DEF IInv, TasksOK, Undisturbed, OnlyDockerIsRefused, EveryTask
<1>. QED
  BY <1>1, Inductive, PTL
===============================================================================
