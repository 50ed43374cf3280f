---------------------------- MODULE CollectorAgent ----------------------------
(***************************************************************************)
(* The Linux collector agent: CollectorRegistry, CollectorOrchestrator, the*)
(* nine collectors and LinuxCommandExecutor, in one event loop:            *)
(*                                                                         *)
(*   run_all       list -> get -> collect -> get -> collect -> ...         *)
(*   run_parallel  list -> (get -> collect) for all at once, gathered      *)
(*   collect       command by command -> parse -> result                   *)
(*                                                                         *)
(* Other code runs while a command does: it may plug collectors in and out *)
(* of the registry and start further runs.                                 *)
(***************************************************************************)
EXTENDS CommandPolicy, SequencesExt

CONSTANTS
    Runs,            \* calls of run_all and run_parallel
    Bootstraps,      \* the registries that the agent may start with
    Names,           \* collectors plugged in and out while it runs
    MaxChanges,      \* bound on changes of the registry
    MaxFailures      \* bound on commands and parsers that fail

VARIABLES
    registry,        \* the registered names, in the order of the dict
    mode,            \* how each run was started, if it was
    tasks,           \* its collectors as it listed them, and what they do
    changes, failures,
    gone             \* history: names unregistered since the run listed

vars == <<registry, mode, tasks, changes, failures, gone>>

-------------------------------------------------------------------------------
(* A command of a collector.  When a needed one fails, the collector       *)
(* fails, at once if it was the probe; others may fail.  Some are sent only*)
(* if the one before them printed something, or if it did not.             *)
Line(command, arguments, role, when) ==
    [command |-> command, arguments |-> arguments, role |-> role, when |-> when]
Needed(command, arguments) == Line(command, arguments, "needed", "always")
Probe(command, arguments) == Line(command, arguments, "probe", "always")
Tolerated(command, arguments) == Line(command, arguments, "tolerated", "always")

Hostname == <<Tolerated("hostname", <<>>)>>

CPUCollector == Hostname \o
    <<Needed("cat", <<"/proc/stat">>), Needed("cat", <<"/proc/loadavg">>)>>

MemoryCollector == Hostname \o <<Needed("cat", <<"/proc/meminfo">>)>>

DiskCollector == Hostname \o
    <<Needed("df", <<"-B1", "--output">>), Needed("cat", <<"/proc/diskstats">>)>>

NetworkCollector == Hostname \o
    <<Needed("cat", <<"/proc/net/dev">>), Needed("ip", <<"-o", "addr", "show">>),
      Needed("ip", <<"route", "show">>), Needed("cat", <<"/proc/net/tcp">>),
      Needed("cat", <<"/proc/net/udp">>)>>

SystemCollector == Hostname \o
    <<Tolerated("hostnamectl", <<>>), Needed("uname", <<"-a">>),
      Needed("cat", <<"/etc/os-release">>), Needed("lscpu", <<>>),
      Needed("uptime", <<>>), Tolerated("cat", <<"/etc/timezone">>)>>

ServiceCollector == Hostname \o
    <<Probe("systemctl", <<"list-units", "--type", "--all", "--no-pager", "--no-legend">>),
      Line("systemctl", <<"show", "nginx.service", "cron.service">>, "tolerated", "something")>>

LogCollector == Hostname \o
    <<Tolerated("journalctl", <<"--no-pager", "--output", "-n", "1000">>),
      Line("tail", <<"-n", "1000", "/var/log/syslog">>, "tolerated", "nothing"),
      Tolerated("tail", <<"-n", "1000", "/var/log/messages">>)>>

DockerCollector == Hostname \o
    <<Probe("docker", <<"ps", "--no-trunc">>),
      Line("docker", <<"inspect", "4fa6e0f0c678", "8dbf8c5b5ad7">>, "needed", "something"),
      Needed("docker", <<"stats", "--no-stream", "--no-trunc">>),
      Needed("docker", <<"network", "ls">>),
      Needed("docker", <<"volume", "ls">>)>>

KubernetesCollector == Hostname \o
    <<Probe("kubectl", <<"get", "namespaces", "-o", "json">>),
      Needed("kubectl", <<"get", "nodes", "-o", "json">>),
      Needed("kubectl", <<"get", "pods", "--all-namespaces", "-o", "json">>),
      Needed("kubectl", <<"get", "deployments", "--all-namespaces", "-o", "json">>),
      Needed("kubectl", <<"get", "services", "--all-namespaces", "-o", "json">>),
      Tolerated("kubectl", <<"version", "-o", "json">>),
      Tolerated("kubectl", <<"get", "events", "--all-namespaces", "-o", "json">>)>>

Script == [cpu |-> CPUCollector, memory |-> MemoryCollector, disk |-> DiskCollector,
           network |-> NetworkCollector, system |-> SystemCollector,
           service |-> ServiceCollector, log |-> LogCollector,
           docker |-> DockerCollector, kubernetes |-> KubernetesCollector]

(* Docker and Kubernetes parse what they have even after an error.         *)
Salvages(name) == name \in {"docker", "kubernetes"}

ASSUME AgentAssumption ==
    /\ Names \subseteq DOMAIN Script
    /\ \A b \in Bootstraps : b \in Seq(DOMAIN Script) /\ IsInjective(b)
    /\ {MaxChanges, MaxFailures} \subseteq Nat

(* The commands, by number, that the policy lets each collector run.       *)
Allowed == [name \in DOMAIN Script |->
    {i \in DOMAIN Script[name] : Validate(Script[name][i].command, Script[name][i].arguments)}]

-------------------------------------------------------------------------------
(* A task is a collector of a run: the commands it sent (it waits for the  *)
(* last one), those of them that exited with 0, and its CollectorResult:   *)
(* SUCCESS, FAILED without or with a payload ("failed", "salvaged"), or the*)
(* FAILED result of run_collector for a name it did not find ("missing").  *)
Listed(name) == [name |-> name, sent |-> {}, worked |-> {}, result |-> "none"]

Registered(name) == Contains(registry, name)

(* run_collector: get() as it stands now, and the first command.           *)
Begun(task) ==
    IF Registered(task.name) THEN [task EXCEPT !.sent = {1}]
    ELSE [task EXCEPT !.result = "missing"]

Open(ts) == {i \in DOMAIN ts : ts[i].result = "none"}

(* Mutant: the loop ends at a collector it does not find.                  *)
ProceedUnlessMissing(ts) ==
    LET next == {i \in Open(ts) : \A j \in Open(ts) : i <= j}
    IN [i \in DOMAIN ts |-> IF i \in next THEN Begun(ts[i]) ELSE ts[i]]

(* The loop of run_all goes on to the next collector that is still there;  *)
(* the ones it passes get their result without a pause.                    *)
Proceed(ts) ==
    LET there == {i \in Open(ts) : Registered(ts[i].name)}
        passed == {i \in Open(ts) : \A j \in there : i <= j}
    IN [i \in DOMAIN ts |-> IF i \in passed THEN Begun(ts[i]) ELSE ts[i]]

Init ==
    /\ registry \in Bootstraps
    /\ mode = [r \in Runs |-> "none"]
    /\ tasks = [r \in Runs |-> <<>>]
    /\ changes = 0 /\ failures = 0
    /\ gone = [r \in Runs |-> {}]

-------------------------------------------------------------------------------
(* Mutant: a name that is registered already is appended again.            *)
RegisterAgain(name) ==
    /\ changes < MaxChanges
    /\ registry' = Append(registry, name)
    /\ changes' = changes + 1
    /\ UNCHANGED <<mode, tasks, failures, gone>>

(* CollectorRegistry: a name that is registered already is refused with a  *)
(* ConflictError, one that is not with a NotFoundError, without effect.    *)
Register(name) ==
    /\ changes < MaxChanges
    /\ ~Registered(name)
    /\ registry' = Append(registry, name)
    /\ changes' = changes + 1
    /\ UNCHANGED <<mode, tasks, failures, gone>>

Without(name) ==
    RemoveAt(registry, CHOOSE i \in DOMAIN registry : registry[i] = name)

Unregister(name) ==
    /\ changes < MaxChanges
    /\ Registered(name)
    /\ registry' = Without(name)
    /\ changes' = changes + 1
    /\ gone' = [r \in Runs |-> IF mode[r] = "none" THEN {} ELSE gone[r] \union {name}]
    /\ UNCHANGED <<mode, tasks, failures>>

-------------------------------------------------------------------------------
(* run_all lists the collectors and begins the first without a pause.      *)
RunAll(r) ==
    /\ mode[r] = "none"
    /\ mode' = [mode EXCEPT ![r] = "all"]
    /\ tasks' = [tasks EXCEPT ![r] =
                    Proceed([i \in DOMAIN registry |-> Listed(registry[i])])]
    /\ UNCHANGED <<registry, changes, failures, gone>>

(* run_parallel returns at once if there are none; else it hands them to   *)
(* gather(), which queues all of them behind what else is ready: ...       *)
RunParallel(r) ==
    /\ mode[r] = "none"
    /\ mode' = [mode EXCEPT ![r] = IF registry = <<>> THEN "parallel" ELSE "queued"]
    /\ tasks' = [tasks EXCEPT ![r] = [i \in DOMAIN registry |-> Listed(registry[i])]]
    /\ UNCHANGED <<registry, changes, failures, gone>>

(* ... they begin one right after the other.                               *)
Gathered(r) ==
    /\ mode[r] = "queued"
    /\ mode' = [mode EXCEPT ![r] = "parallel"]
    /\ tasks' = [tasks EXCEPT ![r] = [i \in DOMAIN @ |-> Begun(@[i])]]
    /\ UNCHANGED <<registry, changes, failures, gone>>

-------------------------------------------------------------------------------
(* The first command after number i whose turn comes, given what i printed.*)
Following(name, i, printed) ==
    {j \in i + 1 .. Len(Script[name]) :
        /\ Script[name][j].when = "always" \/ (j = i + 1 /\ Script[name][j].when = printed)
        /\ \A k \in i + 1 .. j - 1 :
              Script[name][k].when # "always" /\ (k = i + 1 => Script[name][k].when # printed)}

Errors(task) ==
    {i \in task.sent \ task.worked : Script[task.name][i].role # "tolerated"}

(* Mutant: a payload makes a success.                                      *)
VerdictByPayload(task, parses) ==
    IF parses /\ (Errors(task) = {} \/ Salvages(task.name)) THEN "success" ELSE "failed"

(* What the collector makes of its errors, given whether its parser works. *)
Verdict(task, parses) ==
    LET clean == Errors(task) = {}
        probed == \A i \in Errors(task) : Script[task.name][i].role # "probe"
        payload == parses /\ (clean \/ (probed /\ Salvages(task.name)))
    IN IF ~payload THEN "failed" ELSE IF clean THEN "success" ELSE "salvaged"

(* The collector after a command came back: it sends the next one, unless  *)
(* the probe failed, or returns its result.                                *)
After(task, printed, parses) ==
    LET i == Max(task.sent)
        next == IF Script[task.name][i].role = "probe" /\ i \notin task.worked
                THEN {} ELSE Following(task.name, i, printed)
    IN IF next = {} THEN [task EXCEPT !.result = Verdict(task, parses)]
       ELSE [task EXCEPT !.sent = @ \union next]

(* LinuxCommandExecutor.execute returns to collector i of the run.  A      *)
(* refused command fails (in the code without a pause, here as a step);    *)
(* one that runs exits with 0, having printed something or not, or fails.  *)
(* No collector passes a timeout: one that hangs never returns.            *)
Answer(r, i, works, printed, parses) ==
    LET task == tasks[r][i]
        line == Max(task.sent)
        allowed == line \in Allowed[task.name]
        came == [task EXCEPT !.worked = IF works THEN @ \union {line} ELSE @]
        done == After(came, printed, parses)
        returned == [tasks[r] EXCEPT ![i] = done]
        mishaps == (IF allowed /\ ~works THEN 1 ELSE 0) + (IF parses THEN 0 ELSE 1)
    IN /\ works => allowed
       /\ printed = "something" => works
       /\ failures + mishaps <= MaxFailures
       /\ ~parses => After(came, printed, TRUE).result \in {"success", "salvaged"}
       /\ failures' = failures + mishaps
       /\ tasks' = [tasks EXCEPT ![r] =
              IF mode[r] = "all" /\ done.result # "none" THEN Proceed(returned) ELSE returned]
       /\ UNCHANGED <<registry, mode, changes, gone>>

Awaited(ts) == {i \in Open(ts) : ts[i].sent # {}}

Answers(r) ==
    \E i \in Awaited(tasks[r]), works, parses \in BOOLEAN, printed \in {"something", "nothing"} :
        Answer(r, i, works, printed, parses)

Returned(r) == mode[r] \in {"all", "parallel"} /\ Open(tasks[r]) = {}

Terminated == (\A r \in Runs : Returned(r)) /\ changes = MaxChanges /\ UNCHANGED vars

Next ==
    \/ \E name \in Names : Register(name) \/ Unregister(name)
    \/ \E r \in Runs : RunAll(r) \/ RunParallel(r) \/ Gathered(r) \/ Answers(r)
    \/ Terminated

Spec == Init /\ [][Next]_vars

(* The event loop resumes what is ready, and every command ends, which the *)
(* code takes for granted: it passes no timeout.                           *)
FairSpecCommandsEnd ==
    Spec /\ \A r \in Runs : WF_vars(Gathered(r)) /\ WF_vars(Answers(r))

-------------------------------------------------------------------------------
IsTask(task) ==
    /\ DOMAIN task = {"name", "sent", "worked", "result"}
    /\ task.name \in DOMAIN Script
    /\ task.sent \subseteq DOMAIN Script[task.name]
    /\ task.worked \subseteq task.sent
    /\ task.result \in {"none", "success", "failed", "salvaged", "missing"}

(* The shape of the agent's state: no name is registered or listed twice,  *)
(* only a command that was sent can have worked, and run_all has at most   *)
(* one collector with a command under way.                                 *)
TypeOK ==
    /\ registry \in Seq(DOMAIN Script) /\ IsInjective(registry)
    /\ mode \in [Runs -> {"none", "all", "queued", "parallel"}]
    /\ changes \in 0 .. MaxChanges /\ failures \in 0 .. MaxFailures
    /\ gone \in [Runs -> SUBSET Names]
    /\ \A r \in Runs :
        /\ \A i \in DOMAIN tasks[r] : IsTask(tasks[r][i])
        /\ \A i, j \in DOMAIN tasks[r] : tasks[r][i].name = tasks[r][j].name => i = j
        /\ mode[r] = "all" =>
              \A i, j \in Awaited(tasks[r]) : i = j

EveryTask(P(_, _)) == \A r \in Runs : \A i \in DOMAIN tasks[r] : P(r, tasks[r][i])

(* Results are earned: after SUCCESS the collector sent every command it   *)
(* always needs and all of them worked; a FAILED result carries a payload  *)
(* only where some command beyond the probe failed; and only a collector   *)
(* that was unregistered since the run listed it is reported missing.      *)
ResultsAreEarned ==
    EveryTask(LAMBDA r, task :
        LET script == Script[task.name]
            needs(i) == script[i].role # "tolerated" /\ script[i].when = "always"
        IN /\ task.result = "success" =>
                /\ \A i \in DOMAIN script : needs(i) => i \in task.worked
                /\ \A i \in task.sent \ task.worked : script[i].role = "tolerated"
           /\ task.result = "salvaged" =>
                /\ Salvages(task.name)
                /\ \A i \in DOMAIN script : script[i].role = "probe" => i \in task.worked
                /\ \E i \in task.sent \ task.worked : script[i].role = "needed"
           /\ task.result = "missing" => task.name \in gone[r])

(* On a host where every command and parser works, every collector but     *)
(* Docker's succeeds: the policy permits all that they send, except        *)
(* "docker network ls" and "docker volume ls", whose refusal makes Docker's*)
(* result FAILED every time.                                               *)
OnlyDockerIsRefused ==
    EveryTask(LAMBDA r, task :
        failures = 0 /\ task.result \notin {"none", "missing"} =>
            task.result = IF task.name = "docker" THEN "salvaged" ELSE "success")

(* Every run that was started returns, whatever is unregistered meanwhile  *)
(* and whichever collectors fail, where commands end.                      *)
EveryRunEnds == \A r \in Runs : mode[r] # "none" ~> Returned(r)
===============================================================================
