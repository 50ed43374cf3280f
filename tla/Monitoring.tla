------------------------------ MODULE Monitoring ------------------------------
(***************************************************************************)
(* TelemetryOrchestrator.collect_telemetry and RuleEngine.evaluate_server  *)
(* over the telemetry_metrics and server_health tables, as the two API     *)
(* requests that call them run side by side:                               *)
(*                                                                         *)
(*   collect:  look up -> connect -> collector by collector -> disconnect  *)
(*             -> one commit per metric                                    *)
(*   evaluate: look up -> one SELECT per metric type -> rules -> commit    *)
(*                                                                         *)
(* Collectors run on an SSH session (module SSHConnector).                 *)
(* Rows of the two tables are only ever added.                             *)
(***************************************************************************)
EXTENDS HealthRules, SequencesExt

CONSTANTS
    Requests, Servers, Earlier,
    Collectors,      \* the registered collectors' types, in order
    Rules,           \* the types of the registered rules
    Readings,        \* what each collector may read
    Past,            \* samples that may be stored before the behaviour
    Roles,           \* the sets of keywords a role may contain
    MaxFailures      \* bound on errors, raising rules and crashes

Data == UNION {Readings[t] : t \in DOMAIN Readings} \union {x.data : x \in Past}

Sample == [server : Servers, type : Types \union DOMAIN Readings, stamp : Nat,
           data : Data, run : Requests \union {Earlier}]

ASSUME MonitoringAssumption ==
    /\ Collectors \in Seq(DOMAIN Readings)
    /\ \A i, j \in DOMAIN Collectors : Collectors[i] = Collectors[j] => i = j
    /\ Rules \subseteq Types
    /\ Past \subseteq [server : Servers, type : Types, stamp : {0}, data : Data,
                      run : {Earlier}]
    /\ Earlier \notin Requests \union Servers
    /\ MaxFailures \in Nat

VARIABLES
    samples,     \* telemetry_metrics
    reports,     \* server_health
    pc, job,     \* where each request is, and what it was asked for
    got,         \* the metrics a collection holds; the samples an evaluation read
    next,        \* how many of them it has dealt with
    stamp,       \* the timestamp of its context
    session,     \* the request's SSH session
    reply,
    clock,       \* the last timestamp taken
    failures,
    known,       \* history: the samples there when an evaluation was asked for
    disturbed    \* history: a collection was storing while an evaluation read

tables == <<samples, reports>>
history == <<known, disturbed>>
vars == <<samples, reports, pc, job, got, next, stamp, session, reply, clock,
          failures, known, disturbed>>

-------------------------------------------------------------------------------
NoJob == [kind |-> "none", server |-> Earlier, role |-> {}]

(* The order in which evaluate_server asks for the latest samples.         *)
metric_types == <<"cpu", "memory", "disk", "network", "service">>

Init ==
    /\ samples \in SUBSET Past
    /\ \A s, t \in samples : s.server = t.server /\ s.type = t.type => s = t
    /\ reports = {}
    /\ pc = [r \in Requests |-> "idle"]
    /\ job = [r \in Requests |-> NoJob]
    /\ got = [r \in Requests |-> <<>>]
    /\ next = [r \in Requests |-> 0]
    /\ stamp = [r \in Requests |-> 0]
    /\ session = [r \in Requests |-> "none"]
    /\ reply = [r \in Requests |-> "none"]
    /\ clock = 0
    /\ failures = 0
    /\ known = [r \in Requests |-> {}]
    /\ disturbed = [r \in Requests |-> FALSE]

Goto(r, label) == pc' = [pc EXCEPT ![r] = label] /\ UNCHANGED reply

Answer(r, response) ==
    /\ pc' = [pc EXCEPT ![r] = "done"]
    /\ reply' = [reply EXCEPT ![r] = response]

CanFail == failures < MaxFailures
Fails == CanFail /\ failures' = failures + 1

(* The timestamps of two contexts differ: the clock has microseconds.      *)
TakeStamp(r) ==
    /\ clock' = clock + 1
    /\ stamp' = [stamp EXCEPT ![r] = clock + 1]

Storing(server) == \E q \in Requests : pc[q] = "storing" /\ job[q].server = server

-------------------------------------------------------------------------------
Submit(r) ==
    /\ pc[r] = "idle"
    /\ \E kind \in {"collect", "evaluate"}, s \in Servers, role \in Roles :
          /\ job' = [job EXCEPT ![r] = [kind |-> kind, server |-> s, role |-> role]]
          /\ known' = [known EXCEPT ![r] =
                IF kind = "evaluate" THEN {x \in samples : x.server = s} ELSE {}]
    /\ Goto(r, "looking")
    /\ UNCHANGED <<tables, got, next, stamp, session, clock, failures, disturbed>>

(* The server may not be registered; its asset may not have been promoted, *)
(* or have been deleted.                                                   *)
LookUp(r) ==
    /\ pc[r] = "looking"
    /\ \/ Answer(r, "not_found") /\ UNCHANGED disturbed
       \/ /\ job[r].kind = "collect"
          /\ Goto(r, "connecting")
          /\ UNCHANGED disturbed
       \/ /\ job[r].kind = "evaluate"
          /\ Goto(r, "reading")
          /\ disturbed' = [disturbed EXCEPT ![r] = Storing(job[r].server)]
    /\ UNCHANGED <<tables, job, got, next, stamp, session, clock, failures, known>>

Connect(r) ==
    /\ pc[r] = "connecting"
    /\ \/ /\ session' = [session EXCEPT ![r] = "open"]
          /\ TakeStamp(r)
          /\ Goto(r, "collecting")
          /\ UNCHANGED failures
       \/ /\ Fails
          /\ Answer(r, "error")
          /\ UNCHANGED <<session, stamp, clock>>
    /\ UNCHANGED <<tables, job, got, next, history>>

(* Mutant: every collector takes the time for itself.                      *)
MetricTakenAt(r, type, data) ==
    [server |-> job[r].server, type |-> type, stamp |-> clock, data |-> data,
     run |-> r]

(* All metrics of a run carry the timestamp of its context.                *)
Metric(r, type, data) ==
    [server |-> job[r].server, type |-> type, stamp |-> stamp[r], data |-> data,
     run |-> r]

(* Mutant: a collector swallows its error and returns an empty metric.     *)
HarvestOrNothing(type) == Readings[type] \union {NoData}

(* What a collector makes of the output of its command.                    *)
Harvest(type) == Readings[type]

(* One registered collector after the other; one that raises is logged and *)
(* leaves no metric.                                                       *)
Collect(r) ==
    /\ pc[r] = "collecting"
    /\ next[r] < Len(Collectors)
    /\ next' = [next EXCEPT ![r] = @ + 1]
    /\ LET type == Collectors[next[r] + 1] IN
          \/ /\ \E data \in Harvest(type) :
                   got' = [got EXCEPT ![r] = Append(@, Metric(r, type, data))]
             /\ UNCHANGED failures
          \/ Fails /\ UNCHANGED got
    /\ UNCHANGED <<tables, pc, job, stamp, session, reply, clock, history>>

(* Mutant: a run one of whose collectors failed does not disconnect.       *)
DisconnectIfAllCollected(r) ==
    /\ pc[r] = "collecting"
    /\ next[r] = Len(Collectors)
    /\ IF Len(got[r]) < Len(Collectors) THEN UNCHANGED session
       ELSE session' = [session EXCEPT ![r] = "closed"]
    /\ next' = [next EXCEPT ![r] = 0]
    /\ Goto(r, "storing")
    /\ UNCHANGED <<tables, job, got, stamp, clock, failures, history>>

(* The finally clause: the session is closed before anything is stored.    *)
Disconnect(r) ==
    /\ pc[r] = "collecting"
    /\ next[r] = Len(Collectors)
    /\ session' = [session EXCEPT ![r] = "closed"]
    /\ next' = [next EXCEPT ![r] = 0]
    /\ Goto(r, "storing")
    /\ UNCHANGED <<tables, job, got, stamp, clock, failures, history>>

(* Mutant: the answer is sent before the last metric is stored.            *)
UnstoredButOne(r) == next[r] + 1 < Len(got[r])

Unstored(r) == next[r] < Len(got[r])

(* Each metric is committed on its own; an error leaves the ones before it *)
(* stored.                                                                 *)
Store(r) ==
    /\ pc[r] = "storing"
    /\ IF Unstored(r)
       THEN /\ samples' = samples \union {got[r][next[r] + 1]}
            /\ next' = [next EXCEPT ![r] = @ + 1]
            /\ disturbed' = [q \in Requests |->
                  \/ disturbed[q]
                  \/ pc[q] = "reading" /\ job[q].server = job[r].server]
            /\ UNCHANGED <<pc, reply>>
       ELSE Answer(r, "ok") /\ UNCHANGED <<samples, next, disturbed>>
    /\ UNCHANGED <<reports, job, got, stamp, session, clock, failures, known>>

-------------------------------------------------------------------------------
(* Mutant: the server is left out of the WHERE clause.                     *)
SamplesAnywhere(server, type) == {x \in samples : x.type = type}

SamplesOf(server, type) ==
    {x \in samples : x.server = server /\ x.type = type}

(* ORDER BY timestamp DESC LIMIT 1                                         *)
Latest(server, type) ==
    {x \in SamplesOf(server, type) :
        \A y \in SamplesOf(server, type) : y.stamp <= x.stamp}

(* One SELECT for each metric type; after the last one the context is      *)
(* stamped and the rules run, without an await.                            *)
Read(r) ==
    /\ pc[r] = "reading"
    /\ \/ \E x \in Latest(job[r].server, metric_types[next[r] + 1]) :
             got' = [got EXCEPT ![r] = Append(@, x)]
       \/ /\ SamplesOf(job[r].server, metric_types[next[r] + 1]) = {}
          /\ UNCHANGED got
    /\ next' = [next EXCEPT ![r] = @ + 1]
    /\ IF next[r] + 1 = Len(metric_types)
       THEN TakeStamp(r) /\ Goto(r, "saving")
       ELSE UNCHANGED <<stamp, clock, pc, reply>>
    /\ UNCHANGED <<tables, job, session, failures, history>>

(* The context: the reading of each type for which a sample was found.     *)
Context(r) ==
    [t \in Types |-> LET found == {x \in ToSet(got[r]) : x.type = t} IN
                     IF found = {} THEN NoData ELSE (CHOOSE x \in found : TRUE).data]

Report(r, rules) ==
    LET verdict == Verdict(Context(r), job[r].role, rules) IN
    [server |-> job[r].server, stamp |-> stamp[r], verdict |-> verdict,
     score |-> Score(verdict), status |-> StatusOf(Score(verdict)), by |-> r]

(* A rule that raises is logged and finds nothing.                         *)
Save(r) ==
    /\ pc[r] = "saving"
    /\ \/ /\ reports' = reports \union {Report(r, Rules)}
          /\ UNCHANGED failures
       \/ /\ Fails
          /\ \E t \in Rules : reports' = reports \union {Report(r, Rules \ {t})}
    /\ Answer(r, "ok")
    /\ UNCHANGED <<samples, job, got, next, stamp, session, clock, history>>

-------------------------------------------------------------------------------
(* An await on the database raises; what was committed stays.              *)
DatabaseError(r) ==
    /\ Fails
    /\ pc[r] \in {"looking", "storing", "reading", "saving"}
    /\ \/ UNCHANGED reports
       \/ pc[r] = "saving" /\ reports' = reports \union {Report(r, Rules)}
    /\ Answer(r, "error")
    /\ UNCHANGED <<samples, job, got, next, stamp, session, clock, history>>

(* The API process dies, and its sessions with it.                         *)
Crash ==
    /\ Fails
    /\ \E r \in Requests : pc[r] \notin {"idle", "done"}
    /\ pc' = [r \in Requests |-> IF pc[r] = "idle" THEN "idle" ELSE "done"]
    /\ reply' = [r \in Requests |->
                    IF pc[r] \in {"idle", "done"} THEN reply[r] ELSE "lost"]
    /\ session' = [r \in Requests |->
                    IF session[r] = "open" THEN "closed" ELSE session[r]]
    /\ UNCHANGED <<tables, job, got, next, stamp, clock, history>>

Done == \A r \in Requests : pc[r] = "done"

Next ==
    \/ \E r \in Requests :
          \/ Submit(r) \/ LookUp(r)
          \/ Connect(r) \/ Collect(r) \/ Disconnect(r) \/ Store(r)
          \/ Read(r) \/ Save(r)
          \/ DatabaseError(r)
    \/ Crash
    \/ Done /\ UNCHANGED vars

Spec == Init /\ [][Next]_vars

-------------------------------------------------------------------------------
TypeOK ==
    /\ samples \subseteq Sample
    /\ \A p \in reports :
          /\ p.server \in Servers /\ p.by \in Requests /\ p.stamp \in 1 .. clock
          /\ p.verdict \in [Types -> Severities]
          /\ p.score \in 0 .. 100 /\ p.status \in Statuses
    /\ \A r \in Requests :
          /\ pc[r] \in {"idle", "looking", "connecting", "collecting", "storing",
                        "reading", "saving", "done"}
          /\ job[r] = NoJob <=> pc[r] = "idle"
          /\ ToSet(got[r]) \subseteq Sample
          /\ next[r] \in 0 .. IF job[r].kind = "collect" THEN Len(Collectors)
                              ELSE Len(metric_types)
          /\ stamp[r] \in 0 .. clock
          /\ session[r] \in {"none", "open", "closed"}
          /\ reply[r] \in {"none", "ok", "not_found", "error", "lost"}
          /\ known[r] \subseteq Sample
    /\ disturbed \in [Requests -> BOOLEAN]
    /\ clock \in Nat /\ failures \in 0 .. MaxFailures

(* An SSH session is open exactly while its collectors run: never while    *)
(* the database is waited for, never after the answer, however the request *)
(* ended.                                                                  *)
SessionsReleased ==
    \A r \in Requests : session[r] = "open" <=> pc[r] = "collecting"

(* 201 means that just the collected metrics of this run are stored; after *)
(* any other answer some of the first ones may be.                         *)
CollectionHonest ==
    \A r \in Requests :
        job[r].kind = "collect" /\ pc[r] = "done" =>
            LET stored == {x \in samples : x.run = r} IN
            /\ reply[r] = "ok" => stored = ToSet(got[r])
            /\ \E n \in 0 .. Len(got[r]) : stored = ToSet(SubSeq(got[r], 1, n))

(* An evaluation misses nothing that was stored for its server before it   *)
(* was asked for, and uses nothing of another server.                      *)
FreshReports ==
    \A p \in reports :
        LET used == ToSet(got[p.by]) IN
        /\ \A x \in used : x.server = p.server
        /\ \A x \in known[p.by] : x.type \in Types =>
              \E y \in used : y.type = x.type /\ y.stamp >= x.stamp

(* The reads of an evaluation are not one snapshot; yet when nothing fails *)
(* and nobody stores metrics of the server meanwhile, what the registered  *)
(* collectors measure comes from a single collection, even if collections  *)
(* overlapped before.                                                      *)
QuietReportsAreSnapshots ==
    failures = 0 =>
        \A p \in reports : ~disturbed[p.by] =>
            \A x, y \in {z \in ToSet(got[p.by]) : z.type \in ToSet(Collectors)} :
                x.run # Earlier => x.run = y.run

(* The status of a report says what its findings are.                      *)
ReportsAddUp ==
    \A p \in reports :
        /\ p.status = "HEALTHY" <=> LooksHealthy(p.verdict)
        /\ p.status = "UNHEALTHY" <=> LooksUnhealthy(p.verdict)
===============================================================================
