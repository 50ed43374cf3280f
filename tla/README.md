# Formal model of the AI SRE platform

The repository is the back end of an "AI SRE platform": a FastAPI service that
registers servers, discovers what runs on them over SSH, collects metrics, grades
them and keeps incidents, and a Linux agent library that collects telemetry on a
host. This directory holds TLA+ modules that model its stateful parts, TLC
configurations that check them on small instances, and theorems that TLAPS checks
for every value of the constants. Paths below are relative to `src/src/`.

## 1. The system

All of the service runs in one event loop of one process, so requests interleave
only at `await`s: on the database (one `AsyncSession` for each request, committed
inside the repositories), on SSH calls handed to a thread pool, or on subprocesses.
There is no lock, no row version that a statement tests, no transaction spanning two
repository calls, no background job and no recovery at start-up. `main.py` turns
`NotFoundError` into 404, `ValidationError` into 400, `ConflictError` into 409,
`UnauthorizedError` into 401 and whatever else into 500.

| Component | State | Operations | Talks to | What is hard | What makes it right |
|---|---|---|---|---|---|
| Incident service (`application/services/incident_service.py`, entity, repositories, API) | `incidents`, `incident_timeline` | create (two ways), assign, update status, resolve, close, timeline | database | read-await-write of a whole aggregate; incident and timeline in two transactions; `save()` that fails after its commit | status climbs its ladder, stamps match it, timeline and answers tell the truth |
| Server registry (`server_service.py`) | `servers` with unique hostname and address | register; getters | database | check-then-insert without lock | no duplicates, honest 201/409, racers do not all lose |
| Discovery and inventory (`discovery_service.py`, `inventory_service.py`) | `discovery_snapshots`, `inventory` with unique `server_id` | discover, promote, edit metadata, delete | database, SSH | merges of stale copies, deletion during an edit, a handler that fails after its commit | one asset per server, audit trail complete, nothing lost by an undisturbed save |
| Telemetry orchestrator (`telemetry_orchestrator.py`) | `telemetry_metrics` | collect; latest values | SSH connector, collectors, database | some collectors or commits fail; session must be closed | answer tells what is stored, session released |
| Rule engine (`rule_engine.py`, `infrastructure/monitoring/rules.py`) | `server_health` | evaluate | database | five SELECTs that are not a snapshot; arithmetic of score and status | nothing missed, no mix unless disturbed, status means its findings |
| SSH connector (`infrastructure/connectors/linux/ssh_connector.py`) | paramiko client, session flag | connect with retries, execute with reconnect, disconnect | thread pool, remote hosts | links that drop, reconnects inside `execute`, commands that hang, few threads | no session leaks, nothing runs twice, requests end |
| Collector agent (`application/orchestrator/`, `infrastructure/collectors/`, `infrastructure/executor/`, `domain/executor/`) | registry of collectors, results of a run | register, unregister, run_all, run_parallel | subprocesses | registry changes during a run; commands that fail, are refused or hang | results earned and complete, runs end |
| Database sessions (`infrastructure/database.py`, discover and collect endpoints) | pool of connections, one session a request | check out, commit, refresh, close | every service | a connection is held while a request waits for a thread and for its host, given back at a commit and asked for again | everybody is answered, answers are true |
| Parsers (`application/parsers/` of the agent, `application/discovery/parsers.py`, `infrastructure/telemetry/parsers.py`) | none | parse the output of a command | collectors, discovery, telemetry | output cut off at any byte, tolerated failures, a host that changes between two commands | what is read is what the host was, and so is what the rules say of it |
| Metric service, Hostinger connector, wiring, empty packages | - | - | - | - | not modelled, see section 8 |

Three facts about the wiring shape the models. The registries of telemetry collectors
(`infrastructure/telemetry/collectors.py`) and of health rules
(`infrastructure/monitoring/rules.py`) are filled when these modules are imported, and
only tests import them: the service as it starts collects nothing and reports HEALTHY
with score 100. The models take both registries as constants. The discover endpoint's
response model requires an `id` that the result has not, so it answers 500 after
storing the snapshot; `InventoryService!SaveSnapshot` and `PooledRequests!Refresh` do so. The second committer of
a race for a unique key is told 500 and not 409, because nothing translates
`IntegrityError`.

## 2. Modules

| Module | Models | Abstract view |
|---|---|---|
| `Incident` | entity and its state machine `transition_to` | |
| `IncidentLifecycle` | what the incident tables promise: rungs are reached one by one | yes |
| `IncidentService` | service, repositories and API of incidents | implements `IncidentLifecycle` |
| `AtomicRegistry` | registration as one atomic step | yes |
| `ServerRegistry` | the two checks, insert, commit, refresh of `register_server` | implements `AtomicRegistry` |
| `InventoryService` | discovery runs and the four inventory handlers | |
| `HealthRules` | the five rules, score, status, as operators | |
| `Monitoring` | collections and evaluations over one database; EXTENDS `HealthRules` | |
| `SSHConnector` | connector, its callers' protocol, thread pool, dropping links | |
| `PooledRequests` | discoveries, collections and queries from their look-up to their answer, over a bounded pool of database connections; EXTENDS `SSHConnector` | implements `SSHConnector` |
| `CommandPolicy` | `ReadOnlyCommandValidator` | |
| `CollectorAgent` | registry, orchestrator, nine collectors, executor; EXTENDS `CommandPolicy` | |
| `CommandOutput` | text as lines of fields, and what all parsers do with it | |
| `CollectorParsers`, `ContainerParsers` | the parsers of the agent (CPU, memory, disk, system, network, service, log; Docker, Kubernetes) | |
| `DiscoveryParsers` | the seven parsers of a discovery | |
| `TelemetryParsers` | the six parsers of telemetry | |
| `HostReadings` | nineteen readings of a host that changes, with failures and cut output; EXTENDS the parsers and `HealthRules` | the host itself |
| `MC*` | values of constants and symmetry for TLC | |
| `IncidentServiceProofs`, `ServerRegistryProofs`, `InventoryServiceProofs`, `MonitoringProofs` (with those of `HealthRules`), `PooledRequestsProofs` (with those of `SSHConnector`), `CollectorAgentProofs`, `HostReadingsProofs`, `HostSystemProofs` | theorems | |

### How state and actions correspond to the code

In every service module a request is a process: `pc[r]` names the await at which its
coroutine is suspended, `call[r]` holds what was asked, `reply[r]` the class of the
HTTP answer ("lost" if the process died first). An action runs from one await to the
next. `Submit` is a client's request; it is the only action that needs nobody's
cooperation. `DatabaseError` raises at an await (a lost connection, an exhausted pool),
and `Crash` ends every request under way and nothing else, because all lasting state is
in the tables. Values a request writes are named after the request, so that a lost or
mixed update can be told apart; all names of people, texts and time stamps are
abstracted to those. Variables marked "history" in a module are read by properties
only.

**IncidentService.** `incidents` and `timeline` are the tables; `entity[r]` the detached
aggregate between its SELECT and `save()`, `loaded[r]` what `Session.merge` found. `GetAndChange` is the
SELECT and the synchronous change up to the next await; `Merge` the second SELECT; `Commit`
flushes only the columns in which the copy differs from the loaded row. `Record` and
`Return` store the timeline entry in its own transaction. `Commit` of a merged aggregate
ends in a 500, as `save()` of the Postgres repository does: its refresh of the object that
`merge` did not put into the session raises after the commit. So only creations ever reach
`Record`; the guards of `Record` and `Return` do not depend on that.

**ServerRegistry.** `CheckExists`, `CheckAgain`: the API's and the service's look-ups;
`Commit`: the insert under both unique indexes; `Refresh`: the SELECT after it, where an
error leaves a row although the client is told 500.

**InventoryService.** A discovery is one step that succeeds, fails or does not find the
server; `CheckExisting`, `Insert`, `Merge`, `Commit` are the promotion, `Get` ... the
edits, `LoadForDelete`, `Remove` the deletion. A stale merge may write a row another request changed
(`Written`), insert a deleted row again, or miss its row (`StaleDataError`).

**Monitoring.** `Connect`, `Collect` (one collector a step), `Disconnect`, `Store` (one
commit a metric) are a collection; `Read` (one SELECT a metric type) and `Save` an
evaluation, which applies `HealthRules`. Each collection takes one time stamp from
`clock`.

**SSHConnector.** `thread[r]` is the pool's view of the call that coroutine `r` waits
for; a call is queued, dispatched, and returns or raises. `client`/`connected` are the
connector's fields, `live` the sessions that really exist. `LinkDrops` may happen at any moment,
also in the middle of a command.

**PooledRequests.** `phase[r]` is the part of its handler a request is in, `conn[r]` its
session's connection: none, waited for, or held. A session takes a connection at its first
statement and gives it back at a commit or at its end, so `Lookup` leaves with one that is
held all through `remote` (every step there is one of `SSHConnector`), `Save` commits and
gives it back, `Refresh` needs another. A discovery stores one row, a collection one for each
output. `size` is chosen at the start: the settings may have any pool.

**HostReadings and the parsers.** The parsers are operators from lines of fields to records,
branch by branch: what they skip, default, or raise on (`Invalid`). A reading runs the
commands of its collector one by one, each of which prints the subject
as it is at that moment (`Whole`); the host may change between two of them (`HostChanges`), a tolerated
command may fail (`Fails`), and what comes over SSH may be cut off anywhere (`CutOff`),
because `_sync_execute` stops at the exit status without draining the channel. `seen` and
`whole` remember what the truth was; the properties compare it with what the parsers make
of `outputs`. A command may depend on the output of an earlier one: `systemctl show` and `docker inspect`
on the units and containers that were listed (one of which may be gone by then), the syslog
on whether the journal printed anything. The tools (`df`, `ip`, `top`, `systemctl`, ...) are not in the repository: their
output is modelled from what the parsers and their tests expect. Cut-off output is a
first part of the lines and perhaps a part of the next one (`PartOf`): its first fields, the last of which may
be torn. `Torn` says what the parsers can still take a torn field for: of a number its first digits
(`Leading`), of a size or percentage those or the number without its unit, of an address with a
prefix length a shorter length, the address alone, or a part of it, of a path under `/snap` or `/boot/efi`
one that still begins so or one that does not; what is left of any other word is a word that is no
other one (`Broken`), except that `users` may become `user`, which a parser knows as well. Of a line with a key
the key itself, the colon or a part of the value may be missing.
Usage is in hundredths of a percent, as the telemetry parsers round it (a half is rounded up; Python rounds the
quotient it computes), and is compared with thresholds in the same unit. What is abstracted: sizes are of 1 MB and more (`to_gb` reads a K as a G);
`systemctl show` prints `Id` before the other properties; `hostname`, `uname -r` and `uname -m`
are taken as printed; log lines are of the current year.

**CollectorAgent.** A run holds one task for each collector it listed; the commands of a
collector are a table (`Script`), translated from its `collect`: which must work, which
may fail, which are sent only when the previous one printed something or nothing. What the
policy refuses is computed by `CommandPolicy!Validate` from the real command lines, by
words. `RunAll` and `Answer` go through `Proceed`, the loop of `run_all`, without a
pause where the code has none. Runs share only the registry, which they only read, so one run is
enough. A refused command, or one whose program is missing, is answered in a step of
its own, which adds interleavings and removes none.

## 3. What the runs check

| Run | Question | Instance |
|---|---|---|
| `incident_contract` | Do overlapping requests keep the ladder (`ClimbsTheLadder` = the refinement), earn their stamps (`StampsEarned`), and do timeline and answers tell the truth (`TimelineTruthful`, `CreationsRecorded`, `RepliesHonest`)? | 3 requests, 2 keys, 1 incident OPEN or IN_PROGRESS, 1 failure |
| `incident_serial` | Without overlap, does the row itself climb, carry exactly its stamps and lose nothing (`RowsClimb`, `StampsExact`)? | 5 requests, from OPEN to CLOSED, 1 failure |
| `incident_timeline_finding` | finding 1 | 1 request |
| `incident_status_finding` | finding 2 | 2 requests |
| `server_registry` | Is check, check, insert an atomic registration (`ImplementsAtomicRegistry`)? Are answers true, is a 500 explained by a race, do not all racers lose, does every request end? | 3 requests, 2 hostnames, 2 addresses, 1 failure |
| `inventory` | One asset per server, snapshots behind every asset, exact saves of fresh copies, failed edits leave no trace | 3 requests, 2 servers, 3 keys, 1 failure |
| `inventory_deletion_finding` | finding 3 | 2 requests |
| `monitoring` | Sessions released, collections honest, evaluations fresh and unmixed, reports add up | 3 requests, 2 servers, collectors cpu and memory, 1 failure |
| `ssh` (on `PooledRequests`) | No session leaks (`SessionsAccounted`), no command runs twice (`NeverRunTwice`), a discovery is all or nothing (`DiscoveriesComplete`), answers are true (`AnswersHonest`), every request is answered without a time-out of the pool (`EveryRequestAnswered`) | 2 requests, each a query, discovery or collection, 1 thread, 1 or 2 connections, 2 attempts, 2 commands, 1 drop |
| `ssh_timeout_finding` | finding 4 | `SSHConnector` alone, commands need not end |
| `collector_agent` | Are results earned and none lost but for collectors that were unregistered (`ResultsAreEarned`)? What is refused (`OnlyDockerIsRefused`)? `EveryRunEnds` | 1 run, registries of up to 3 of the 9 collectors, 2 changes of the registry, 1 failing command or parser |
| `host_readings` | Is what is read what the host was when it was printed: disks (`DisksReadBack`), system, network and load (`SystemReadBack`), services and their processes, containers, pods, events, log lines (`ItemsReadBack`), and do the rules then say what is true of it (`LoadAlarmsMatchHost` for CPU and memory, `AlarmsMatchHost` for disks, network and services)? | 19 readings of a few hosts each, 1 change, 1 failing or cut output |

Every property of a passing run comes with a mutant in `PROJECT.json`: an operator next to
the definition it replaces, changed the way a plausible bug would, under which TLC finds
the property violated.

**Why the bounds are enough.** A race needs two requests; a third one observes or
disturbs the result, which is what the lost update over a stale merge, the racer of two
racers, and the collection next to an evaluation need. Two keys, servers or hostnames distinguish
"this one" from "another one". Five serial requests are the four rungs and one repeat.
One failure reaches every "committed, then failed" point; a second one would have
to disturb a request that the first already ended, or another one, which the first could have
disturbed. One thread is the smallest pool and the one most likely to block; of two requests with one
connection one always waits, with two both hold one while they wait for the thread. One change of
the host between any two commands makes every pair of outputs disagree that can. Two changes of the collector
registry allow a name to be unregistered and registered again during a run.
The bounds are the constants `MaxFailures`, `MaxDrops`, `MaxChanges`, `MaxMishaps`, `Retries`,
`Commands`, `Threads` and the sizes of the sets.

**Fairness.** `ServerRegistry`: weak fairness of a request's own steps: the event loop
resumes what is ready and the database answers or raises; clients need not send.
`SSHConnector`: weak fairness of what paramiko ends by itself (connections have a
timeout) and of closing, strong fairness of `Dispatch` because the executor's queue is first
come, first served. `PooledRequests` adds weak fairness of the handler and of the pool that
hands out what is free (a request that waits is, with no other that takes it, served), and that
remote commands end; nothing relies on `pool_timeout`. That a remote command ends is assumed there
and not in `FairSpec`: `ssh` says what holds where it does, `ssh_timeout_finding` shows that the code
does not enforce it. `CollectorAgent` assumes the same of local commands,
explicitly: no collector passes a timeout, so a command that hangs stops `run_all`
before every later collector and keeps `run_parallel` from returning. The other modules
check safety only.

## 4. Findings

1. **A saved change is reported as a failure** (`TimelineComplete`): `save()` of an existing incident
   commits and then refreshes the object it passed to `merge`, which is not in the session; the
   call raises, the client sees 500 and the timeline never hears of the change
   (`postgres_incident_repository.py:29`).
2. **A status can go down** (`StatusFollowsTable`): an assignment that read the incident before an
   acknowledgement writes the old status back (`incident_service.py:133`). `NoRungSkipped` and
   `StampsEarned` show how far the damage goes: no rung is ever skipped and no stamp
   invented.
3. **A deleted asset comes back** (`DeletedStaysDeleted`): `merge` of a copy read before the deletion inserts
   it again (`postgres_inventory_repository.py:36`).
4. **`execute` has no timeout** (`ExecutionsTimeOut`): the polling loop never looks at a clock
   (`ssh_connector.py:205`).

Two more disagreements are stated inside invariants that hold. Output that is cut off inside `/snap/...`
leaves a line of `df` that both parsers accept and no longer recognise as the loop device they mean to
exclude (`telemetry/parsers.py:83`), because the connector does not wait for the end of the output
(`ssh_connector.py:205`). A snap is always full, so the disk rule makes a critical finding of it:
`AlarmsMatchHost` says that this is the only full disk that is made up (`FullSnap`). And
`OnlyDockerIsRefused` states that the read-only policy
refuses `docker network ls` and `docker volume ls`, which the Docker collector sends every time
(`docker_collector.py:17` lists them as its task), so a real Docker result is always
FAILED, with its payload, while the other eight collectors agree with the policy.
Three more are stated in the same way:

- `AnswersHonest`: the discover endpoint stores the snapshot and then always answers 500
  (`presentation/api/v1/infrastructure.py:24` promises the stored result).
- `AlarmsMatchHost`: a disk is graded by its *first* partition over the threshold, even if a
  later one is fuller (`rules.py:95`). `LoadAlarmsMatchHost`: an unreadable `top` or `free` counts as an
  idle host.
- `ItemsReadBack`: a failed unit, which `systemctl` marks with a bullet,
  is not reported by the agent; one malformed Kubernetes item ends its list; if one container that was listed is
  gone when they are inspected, none is reported (`docker_collector.py:163`).
- `DisksReadBack`, `SystemReadBack`: the last mount point, address or number of cut-off output is reported as far
  as it came: `10.0.0` of `10.0.0.5`, 12 of 128 cores.

Also met, and part of the models: two overlapping rediscoveries may take the version of
an asset up by one only (`inventory_service.py:42,107`); stale promotions may put older discovery data over newer.

## 5. What is proved

Each proof module EXTENDS the component's module and proves type correctness and the
listed invariants as `Spec => []Inv`, for any sets of requests, keys, servers and collectors and any
number of failures, from the module's named assumptions (special values
differ from ordinary ones, bounds are naturals, initial tables are well formed). A theorem
that needs more says so in its `ASSUME`; every such case is listed here.

**IncidentServiceProofs**, for any overlap of requests:

- `TypeCorrect`, `LadderKept`, `StampsAreEarned`, `ImplementsLifecycle`, with `Inductive`. `NoRungSkipped`
  is not inductive: whether a commit skips a rung depends on the copy carried since its
  SELECT. `IInv` adds where a request must be for what it carries (`PhaseOK`), that the
  history holds the present status (`HistoryOK`), and the heart (`CarriedOK`): however stale a copy
  is, the rungs below its status were stored, and each of its stamps is earned by what was
  stored or is about to be. Since stored rungs never go away, other requests cannot break
  it. The refinement follows from the invariant at the commit.
- `TimelineIsTruthful`: until a request records its change, that change is the edge it took
  from what it read, and from the commit on it is in the history (`AnnouncedBy`).
- `RepliesAreHonest`: a request that has not saved, or was refused, left nothing of itself in the
  timeline, in a row, or in a copy that another request may save later (`Silent`); one
  that is about to answer 200 has its entry (`Honest`).
- `CreationsAreRecorded`: a CREATED entry is missing only if the request that made the incident is about to
  write it, or failed between its two commits and was not answered with success (`Filed`, `Accounted`: which
  request owes the entry, from its first commit on). Of the changes of an existing
  incident nothing of the kind holds: finding 1.
- `StampsAreExact` and `RowsClimbSerially` ASSUME `Overlap = FALSE`, requests one after the other.
  Finding 2 shows that overlap breaks them. `Serial`: a copy being saved is the row with the
  request's change, and rows carry exactly the stamps of their rungs. Crashes and database
  errors may still happen anywhere.

**ServerRegistryProofs** - `TypeCorrect`, `RepliesAreHonest`, `RacesExplainErrors`,
`NotAllLose`, `ImplementsAtomic`, with `Inductive`: rows stay, belong to requests past
their commit and hold the keys asked for (`RowsOK`), answers are given when done
(`PhaseOK`), and a request past its checks can only clash with rows of racing
requests (`RacesOK`), because older ones would have been found.

**InventoryServiceProofs** - `Types`, `ServersHaveOneAsset`, `DiscoveriesHaveSnapshots`,
`FailedEditsWriteNothing` and the action property `FreshSavesWriteTheChange`, with `Inductive`. What a stale copy may still write
decides them all: it belongs under its key, and a snapshot backs it (`CopiesOK`), so inserting a
deleted asset again can break neither; values of a request are found only in its own copy until
its edit is confirmed, since a failed merge rolls back (`TraceOK`); a copy that nobody outdated is its row
with the request's change (`FreshOK`); and without failures only stale copies make an edit fail
(`ErrorsOK`).

**MonitoringProofs** - about the rules as operators, for every sample: `VerdictType`, `ScoreExact` (the score stays
within 0 to 100 without the cut), `StatusMeaning`, `WorseFindingsNeverHelp` and `MoreUsageGradedNoBetter`.
`StatusMeaning` needs `VerdictType`: the statuses mean what they say only because network and
services are never graded WARNING, so that three warnings are the most there can be.
About the service: `TypesAreKept`, `SessionsAreReleased`, `CollectionsAreHonest`,
`EvaluationsMissNothing`, `StatusesMeanTheirFindings`, `QuietReadsAreSnapshots`. On top of the types: where a request
must be for its session and its list (`FlowInv`), what has been stored is the prefix that
`next` counts (`Honest`), what was read is no older than what was known at the start (`Fresh`), and
each report follows from its findings (`ReportsFollow`). That an undisturbed evaluation reads one
collection, although it sends one SELECT a metric type, takes `SnapshotInv`: collections hold a metric of every
collector unless something failed (`Batch`), no two share a stamp (`StampsTell`), and so while
nobody stores for the server, the latest samples of its metric types are of one run, those read before
included (`Undisturbed`).

**PooledRequestsProofs**, of the connector - `ConnectorTypes`, `SessionsAreAccounted`, `NothingRunsTwice`,
`DiscoveriesAreWhole`, with `ConnectorInvariant`, for any number of requests, threads, attempts and
commands. None of the three is inductive: that a new session overwrites no live one depends on
`connect()` being entered only without a live client (`SessionOK`), also from inside `execute()`;
that a command is not run again depends on a call whose command can still run having
run nothing yet, through drops and reconnects (`ProgressOK`); and a discovery under way has the output of
every call but the last (`AnswerOK`). Pieces that several actions share (`Execute`, `Disconnect`,
`Continue`, `Raise`) have lemmas of their own; `Kept` says that the other requests stand still.

**PooledRequestsProofs**, of connector and database - `PooledImplementsConnector`: every step of the composition is a step of
the connector or a stutter, so its theorems hold there too (`PooledSessionsAccounted`, ...).
`PoolNeverOverrun` and `AnswersAreHonest` take `PooledInvariant`: the phase of a request says
what its connector did and which connection it holds (`PhaseOK`).

**CollectorAgentProofs** - `Types`, `ResultsEarned`, `PolicyMatches`, with `Inductive`, for any number of runs
and changes of the registry. A collector has sent its commands in order and left out none that it always sends
(`Orderly`), what it returns is earned by them (`Earned`), and what a run listed is registered or was taken
out since (`RunsOK`). `PolicyMatches` evaluates the policy on every command line of
every collector: all that a collector needs is permitted, and only two lines of Docker's are refused.

**HostReadingsProofs** - for hosts with any number of partitions, interfaces, units, containers, pods and
log lines, for every threshold, and wherever an output is cut off, inside a field too, or a command fails.

- `ReadingKnown`: the inductive invariant `ReadingInv` says that each output so far is what its command
  printed of the subject as it was then (`seen`), or what the connector or a tolerated failure
  leaves of that, and that it is then known not to be whole. The other theorems evaluate the parsers
  on what the invariant allows; none of the properties is inductive, as they speak of finished readings only.
- `LoadAlarmsRight` ASSUMES that the CPU usage is a number of hundredths of a percent and the memory used one of megabytes,
  of the thousand that the modelled host has (`AnyLoad`), so that the rounded percentage is exact: an overload is noticed unless `top` wrote a comma or its
  output was cut off, and none is made up.
- `DisksRight` ASSUMES that the disks are lists of `AnyDisk`: three readers of `df` find them back, in order; of
  output that was cut off they find a first part of some disks that may have arrived (`Arrived`), that is, of the host's
  or of those whose last one has lost the end of its mount point.
- `AlarmsRight` ASSUMES `KnownHosts`, the same of disks, interfaces and units: no full
  disk is made up of part of a listing but a snap whose mount point was cut off, since a first part of it shows the
  same lines and at most one broken one.
- `ItemsRight` ASSUMES `KnownItems`: units are listed once each, containers that run use memory, log lines have one
  of the forms the parser knows or are too short, and in a cluster no item but a pod is
  malformed, restart counts being numbers.

**HostSystemProofs** - `SystemReadRight` ASSUMES `KnownSystems`: no host is named by the empty word or `unknown`, which
the parser puts for a name it did not find (`AnyName`); cores and minutes are naturals; no interface is
named `inet` or `inet6`, the words its address is searched by, and no address reads so (`IsAddress`); a socket has four
bytes and a port of 16 bits (`IsSocket`). Name, cores, uptime, memory, addresses, sockets and route are then
read as they were: parsing undoes printing, part by part, for the sixteenths of `/proc/net/tcp` (`PortRead`,
`AddressRead`), the fields of `uptime` with and without days and hours (`UptimeFields`), and the addresses
grouped by interface, of which a listing that was cut off keeps a first part, the last address perhaps without its end.

The arguments are about lists of any length. What Python's loops skip is modelled by `Where`, the elements at the
places that qualify, found by counting the places before (`Nth`), so that a lemma on places says which elements are
left, how many and in which order, and that the first part of a list leaves a first part of them.
What takes an induction (flattening optional lines or pairs of lines, summing restart counts) is proved by the
least counterexample (`Counting`) from the recursion of `FlattenSeq` and `FoldLeft`; that the recursive
function there is one is proved, by building it, before it is used.

## 6. Model-checked only

- Liveness (`EveryRequestEnds`, `EveryRequestAnswered`, `EveryRunEnds`), which is out of the prover's reach.
- The findings.

## 7. Plan

Done, in this order: incidents, server registry, inventory, rules and monitoring, SSH
connector, collector agent; then the parsers of the agent, of discoveries and of telemetry, the pool of
database connections composed with the connector, and the proofs of section 5. Left: the Hostinger connector, once a service resolves it.

## 8. Not modelled, and why

- **Metric service**: one INSERT and reads by key over a table nothing else uses.
- **Hostinger connector**: registered, resolved by no service. Its SSH half is the connector of
  `SSHConnector`; its HTTP client is opened by `connect` and closed by `disconnect` (a second `connect`
  would leave the first client open).
- **Getters and list endpoints**: they change nothing.
- **`delete` of the incident, timeline and server repositories, `upload_file` and
  `download_file` of the connector**: nothing calls them.
- **paramiko, SQLAlchemy, asyncio, Postgres, the tools of the host**: taken as the code uses them, and marked external in
  `PROJECT.json`. One caveat: the connector calls `get_exit_status()` on a channel, a name paramiko does not have
  (it is `recv_exit_status`); the model takes the call for what the code uses it as.
- **Settings, logging, dependency injection, authentication stubs and the empty packages** (cache, message bus, LLM, vector,
  automation, decisions, knowledge, policies): no state, or no code.

Known limits of the code that no property covers: nothing bounds the age of the samples an
evaluation reads, so a server whose collectors fail keeps its last health (`rule_engine.py:56`); of two
overlapping evaluations the one stamped later may have read the older samples
(`postgres_health_repository.py:56`); two spellings of one IPv6 address are two servers
(`server_service.py:97`); `to_gb` reads a size without a unit it knows as gigabytes
(`application/discovery/parsers.py:131`); a chunk of 4096 bytes that ends inside a character of several bytes is
decoded with a replacement in its place (`ssh_connector.py:207`), which the models, of fields and not of bytes, leave out.

## 9. Running

    tlc -config IncidentContract.cfg MCIncidentService.tla
    tlapm IncidentServiceProofs.tla

`PROJECT.json` lists every run with its module and configuration, the mutants, the source
lines of every definition, the hazards of the code and the properties that cover them.
