------------------------------ MODULE HealthRules -----------------------------
(***************************************************************************)
(* The five health rules and the score of RuleEngine.evaluate_server, as   *)
(* pure operators.  A context gives for each metric type the data of the   *)
(* latest sample, a record of the fields its collector found, and NoData   *)
(* if there is no sample.  The usage of CPU and memory is in hundredths of *)
(* a percent, to which the parsers round it; df prints whole percents.     *)
(***************************************************************************)
EXTENDS Integers, Sequences

CONSTANTS
    CpuThreshold, MemoryThreshold, DiskThreshold     \* settings.monitoring

ASSUME ThresholdsAssumption ==
    /\ CpuThreshold \in 0 .. 100
    /\ MemoryThreshold \in 0 .. 100
    /\ DiskThreshold \in 0 .. 100

Types == {"cpu", "memory", "disk", "network", "service"}
Severities == {"NONE", "WARNING", "CRITICAL"}
Statuses == {"HEALTHY", "DEGRADED", "UNHEALTHY"}

NoData == [field \in {} |-> field]

-------------------------------------------------------------------------------
(* A usage above the threshold is a finding, critical above a fixed level. *)
Graded(usage, threshold, critical) ==
    IF usage <= threshold THEN "NONE"
    ELSE IF usage > critical THEN "CRITICAL" ELSE "WARNING"

(* The load averages read when top fails hold no usage.                    *)
CPURule(data) ==
    IF "usage_percent" \in DOMAIN data
    THEN Graded(data.usage_percent, 100 * CpuThreshold, 9000) ELSE "NONE"

MemoryRule(data) ==
    IF "usage_percent" \in DOMAIN data
    THEN Graded(data.usage_percent, 100 * MemoryThreshold, 9500) ELSE "NONE"

(* Mutant: every partition over the threshold hides the ones before it.    *)
LastOver(partitions, i) ==
    /\ i \in DOMAIN partitions
    /\ partitions[i] > DiskThreshold
    /\ \A j \in i + 1 .. Len(partitions) : partitions[j] <= DiskThreshold

(* The first partition over the threshold is the finding; the ones after   *)
(* it are not looked at.                                                   *)
FirstOver(partitions, i) ==
    /\ i \in DOMAIN partitions
    /\ partitions[i] > DiskThreshold
    /\ \A j \in 1 .. i - 1 : partitions[j] <= DiskThreshold

DiskRule(data) ==
    IF "partitions" \in DOMAIN data
       /\ \E i \in DOMAIN data.partitions : FirstOver(data.partitions, i)
    THEN Graded(data.partitions[CHOOSE i \in DOMAIN data.partitions :
                                    FirstOver(data.partitions, i)],
                DiskThreshold, 95)
    ELSE "NONE"

NetworkRule(data) ==
    IF "interfaces" \in DOMAIN data /\ data.interfaces = {}
    THEN "CRITICAL" ELSE "NONE"

(* A role may name both a web server and a database; then only nginx is    *)
(* looked for.                                                             *)
NeededServices(role) ==
    IF "web" \in role THEN {"nginx"}
    ELSE IF "db" \in role THEN {"postgresql"} ELSE {}

ServiceRule(data, role) ==
    IF "services" \in DOMAIN data /\ ~(NeededServices(role) \subseteq data.services)
    THEN "CRITICAL" ELSE "NONE"

(* What every rule finds.  A rule that is not registered, or that raises,  *)
(* finds nothing.                                                          *)
Verdict(context, role, rules) ==
    [t \in Types |->
        IF t \notin rules THEN "NONE"
        ELSE IF t = "cpu" THEN CPURule(context[t])
        ELSE IF t = "memory" THEN MemoryRule(context[t])
        ELSE IF t = "disk" THEN DiskRule(context[t])
        ELSE IF t = "network" THEN NetworkRule(context[t])
        ELSE ServiceRule(context[t], role)]

-------------------------------------------------------------------------------
(* Mutant: the two penalties are swapped.                                  *)
PenaltySwapped(severity) ==
    IF severity = "WARNING" THEN 20 ELSE IF severity = "CRITICAL" THEN 10 ELSE 0

Penalty(severity) ==
    IF severity = "CRITICAL" THEN 20 ELSE IF severity = "WARNING" THEN 10 ELSE 0

Deductions(verdict) ==
    Penalty(verdict["cpu"]) + Penalty(verdict["memory"]) + Penalty(verdict["disk"])
        + Penalty(verdict["network"]) + Penalty(verdict["service"])

Score(verdict) ==
    LET score == 100 - Deductions(verdict) IN IF score < 0 THEN 0 ELSE score

StatusOf(score) ==
    IF score >= 90 THEN "HEALTHY" ELSE IF score >= 70 THEN "DEGRADED" ELSE "UNHEALTHY"

-------------------------------------------------------------------------------
(* What the statuses mean in terms of the findings, of which at most three *)
(* can be warnings: the network and the services are fine or critical.     *)
Critical(verdict) == {t \in Types : verdict[t] = "CRITICAL"}
Warned(verdict) == {t \in Types : verdict[t] = "WARNING"}
TwoOf(S) == \E s, t \in S : s # t

(* Healthy: nothing critical and at most one warning.                      *)
LooksHealthy(verdict) == Critical(verdict) = {} /\ ~TwoOf(Warned(verdict))

(* Unhealthy: two critical findings, or one and two warnings.              *)
LooksUnhealthy(verdict) ==
    \/ TwoOf(Critical(verdict))
    \/ Critical(verdict) # {} /\ TwoOf(Warned(verdict))
===============================================================================
