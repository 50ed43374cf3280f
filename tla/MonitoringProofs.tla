--------------------------- MODULE MonitoringProofs ----------------------------
(***************************************************************************)
(* Invariants of collections and evaluations that run side by side, for    *)
(* every number of requests, servers, collectors and failures.             *)
(***************************************************************************)
EXTENDS Monitoring, TLAPS

--------------------------------------------------------------------------------
(* The rules: what the score and the status say of the findings, for every *)
(* context and every setting of the thresholds.                            *)

(* Only a usage is ever warned of: the network and the services are either *)
(* fine or critical.  Four warnings would make a server UNHEALTHY with     *)
(* nothing critical; three, the most there can be, leave it DEGRADED.      *)
Verdicts ==
    {v \in [Types -> Severities] : v["network"] # "WARNING" /\ v["service"] # "WARNING"}

LEMMA GradedType ==
    ASSUME NEW usage, NEW threshold, NEW critical
    PROVE  Graded(usage, threshold, critical) \in Severities
  BY DEF Graded, Severities

(* Whatever the samples hold, the rules find one severity for each type.   *)
THEOREM VerdictType ==
    ASSUME NEW context, NEW role, NEW rules
    PROVE  Verdict(context, role, rules) \in Verdicts
<1>1. ASSUME NEW data
      PROVE  /\ CPURule(data) \in Severities
             /\ MemoryRule(data) \in Severities
             /\ DiskRule(data) \in Severities
             /\ NetworkRule(data) \in Severities \ {"WARNING"}
             /\ ServiceRule(data, role) \in Severities \ {"WARNING"}
  <2>1. "NONE" \in Severities \ {"WARNING"} /\ "CRITICAL" \in Severities \ {"WARNING"}
    BY DEF Severities
  <2>. QED
    BY <2>1, GradedType DEF CPURule, MemoryRule, DiskRule, NetworkRule, ServiceRule
<1>2. "NONE" \in Severities \ {"WARNING"}
  BY DEF Severities
<1>3. Verdict(context, role, rules) \in [Types -> Severities]
  BY <1>1, <1>2 DEF Verdict
<1>4. /\ Verdict(context, role, rules)["network"] # "WARNING"
      /\ Verdict(context, role, rules)["service"] # "WARNING"
  BY <1>1, <1>2 DEF Verdict, Types
<1>. QED
  BY <1>3, <1>4 DEF Verdicts

LEMMA PenaltyValues ==
    ASSUME NEW verdict \in Verdicts, NEW t \in Types
    PROVE  /\ Penalty(verdict[t]) = 0 <=> verdict[t] = "NONE"
           /\ Penalty(verdict[t]) = 10 <=> verdict[t] = "WARNING"
           /\ Penalty(verdict[t]) = 20 <=> verdict[t] = "CRITICAL"
           /\ Penalty(verdict[t]) \in {0, 10, 20}
<1>1. verdict[t] \in Severities
  BY DEF Verdicts
<1>. QED
  BY <1>1 DEF Penalty, Severities

(* Five rules cannot take more than the 100 points: the score is what is   *)
(* left of them, and cutting it off at 0 never hides a finding.            *)
THEOREM ScoreExact ==
    ASSUME NEW verdict \in Verdicts
    PROVE  /\ Score(verdict) = 100 - Deductions(verdict)
           /\ Score(verdict) \in 0 .. 100
<1>1. \A t \in Types : Penalty(verdict[t]) \in {0, 10, 20}
  BY PenaltyValues
<1>2. Deductions(verdict) \in 0 .. 100
  BY <1>1 DEF Deductions, Types
<1>. QED
  BY <1>2 DEF Score

(* HEALTHY means nothing critical and at most one warning; UNHEALTHY means *)
(* two critical findings, or one next to two warnings.                     *)
THEOREM StatusMeaning ==
    ASSUME NEW verdict \in Verdicts
    PROVE  /\ StatusOf(Score(verdict)) = "HEALTHY" <=> LooksHealthy(verdict)
           /\ StatusOf(Score(verdict)) = "UNHEALTHY" <=> LooksUnhealthy(verdict)
<1> DEFINE p(t) == Penalty(verdict[t])
<1>1. /\ \A t \in Types : p(t) \in {0, 10, 20}
      /\ p("network") # 10 /\ p("service") # 10
      /\ \A t \in Types : p(t) = 20 <=> verdict[t] = "CRITICAL"
      /\ \A t \in Types : p(t) = 10 <=> verdict[t] = "WARNING"
  BY PenaltyValues DEF Types, Verdicts
<1>2. Score(verdict) =
        100 - (p("cpu") + p("memory") + p("disk") + p("network") + p("service"))
  BY ScoreExact DEF Deductions
<1>3. LooksHealthy(verdict) <=>
        /\ \A t \in Types : p(t) # 20
        /\ \A s, t \in Types : p(s) = 10 /\ p(t) = 10 => s = t
  BY <1>1 DEF LooksHealthy, Critical, Warned, TwoOf
<1>4. LooksUnhealthy(verdict) <=>
        \/ \E s, t \in Types : p(s) = 20 /\ p(t) = 20 /\ s # t
        \/ /\ \E t \in Types : p(t) = 20
           /\ \E s, t \in Types : p(s) = 10 /\ p(t) = 10 /\ s # t
  BY <1>1 DEF LooksUnhealthy, Critical, Warned, TwoOf
<1>. HIDE DEF p
<1>5. Score(verdict) >= 90 <=> LooksHealthy(verdict)
  BY <1>1, <1>2, <1>3, SMTT(60) DEF Types
<1>6. Score(verdict) < 70 <=> LooksUnhealthy(verdict)
  <2> DEFINE total == p("cpu") + p("memory") + p("disk") + p("network") + p("service")
  <2>1. ASSUME NEW s \in Types, NEW t \in Types, s # t, p(s) = 20, p(t) = 20
        PROVE  total > 30
    BY <1>1, <2>1 DEF Types
  <2>2. ASSUME NEW c \in Types, p(c) = 20,
               NEW s \in Types, NEW t \in Types, s # t, p(s) = 10, p(t) = 10
        PROVE  total > 30
    <3>1. c # s /\ c # t
      BY <2>2
    <3>. QED
      BY <1>1, <2>2, <3>1 DEF Types
  <2>3. ASSUME ~LooksUnhealthy(verdict)
        PROVE  total <= 30
    BY <1>1, <1>4, <2>3 DEF Types
  <2>. QED
    BY <1>1, <1>2, <1>4, <2>1, <2>2, <2>3 DEF Types
<1>7. Score(verdict) \in 0 .. 100
  BY ScoreExact
<1>. QED
  BY <1>5, <1>6, <1>7 DEF StatusOf

(* When no finding gets milder, the score does not rise.                   *)
THEOREM WorseFindingsNeverHelp ==
    ASSUME NEW before \in Verdicts, NEW after \in Verdicts,
           \A t \in Types : Penalty(before[t]) <= Penalty(after[t])
    PROVE  Score(after) <= Score(before)
<1>1. \A t \in Types : Penalty(before[t]) \in Int /\ Penalty(after[t]) \in Int
  BY PenaltyValues
<1>2. Deductions(before) <= Deductions(after)
  BY <1>1 DEF Deductions, Types
<1>3. Deductions(before) \in Int /\ Deductions(after) \in Int
  BY <1>1 DEF Deductions, Types
<1>. QED
  BY <1>2, <1>3, ScoreExact

(* A server that uses more CPU or memory is not graded better.             *)
THEOREM MoreUsageGradedNoBetter ==
    ASSUME NEW lower \in Int, NEW higher \in Int, lower <= higher,
           NEW threshold \in Int, NEW critical \in Int
    PROVE  Penalty(Graded(lower, threshold, critical))
              <= Penalty(Graded(higher, threshold, critical))
  BY DEF Graded, Penalty

--------------------------------------------------------------------------------
(* The service.                                                            *)

Labels == {"idle", "looking", "connecting", "collecting", "storing", "reading",
           "saving", "done"}
Job == [kind : {"collect", "evaluate"}, server : Servers, role : Roles]

TypeInv ==
    /\ samples \subseteq Sample
    /\ pc \in [Requests -> Labels]
    /\ job \in [Requests -> Job \union {NoJob}]
    /\ got \in [Requests -> Seq(Sample)]
    /\ next \in [Requests -> Nat]
    /\ stamp \in [Requests -> Nat]
    /\ session \in [Requests -> {"none", "open", "closed"}]
    /\ reply \in [Requests -> {"none", "ok", "not_found", "error", "lost"}]
    /\ known \in [Requests -> SUBSET Sample]
    /\ clock \in Nat
    /\ failures \in 0 .. MaxFailures

(* Where a request is tells what it was asked for and how far it has come. *)
Flow(r) ==
    /\ pc[r] = "idle" <=> job[r] = NoJob
    /\ pc[r] \in {"connecting", "collecting", "storing"} => job[r].kind = "collect"
    /\ pc[r] \in {"reading", "saving"} => job[r].kind = "evaluate"
    /\ pc[r] \in {"idle", "looking", "connecting"} => next[r] = 0 /\ got[r] = <<>>
    /\ pc[r] = "collecting" => Len(got[r]) <= next[r] /\ next[r] <= Len(Collectors)
    /\ pc[r] = "storing" => next[r] <= Len(got[r]) /\ Len(got[r]) <= Len(Collectors)
    /\ pc[r] = "reading" => next[r] < 5
    /\ pc[r] = "saving" => next[r] = 5 /\ stamp[r] >= 1
    /\ next[r] <= IF job[r].kind = "collect" THEN Len(Collectors) ELSE 5
    /\ stamp[r] <= clock

FlowInv == \A r \in Requests : Flow(r)

LEMMA TypeInit == Init => TypeInv
  BY MonitoringAssumption DEF Init, TypeInv, Labels, Job, NoJob, Sample, Data

LEMMA FailsType ==
    ASSUME failures \in 0 .. MaxFailures, Fails
    PROVE  failures' \in 0 .. MaxFailures
  BY MonitoringAssumption DEF Fails, CanFail

LEMMA TakeStampType ==
    ASSUME stamp \in [Requests -> Nat], clock \in Nat, NEW r \in Requests, TakeStamp(r)
    PROVE  stamp' \in [Requests -> Nat] /\ clock' \in Nat
  BY DEF TakeStamp

LEMMA TypeStep == TypeInv /\ FlowInv /\ [Next]_vars => TypeInv'
<1> SUFFICES ASSUME TypeInv, FlowInv, [Next]_vars
             PROVE  TypeInv'
  OBVIOUS
<1>. USE FailsType DEF TypeInv, Labels, tables, history
<1>1. ASSUME NEW r \in Requests, Submit(r)
      PROVE  TypeInv'
  BY <1>1 DEF Submit, Goto, Job
<1>2. ASSUME NEW r \in Requests, LookUp(r)
      PROVE  TypeInv'
  BY <1>2 DEF LookUp, Goto, Answer
<1>3. ASSUME NEW r \in Requests, Connect(r)
      PROVE  TypeInv'
  <2>1. /\ pc' \in [Requests -> Labels]
        /\ reply' \in [Requests -> {"none", "ok", "not_found", "error", "lost"}]
    BY <1>3 DEF Connect, Goto, Answer
  <2>2. /\ stamp' \in [Requests -> Nat]
        /\ clock' \in Nat
        /\ session' \in [Requests -> {"none", "open", "closed"}]
        /\ failures' \in 0 .. MaxFailures
    BY <1>3, TakeStampType DEF Connect
  <2>3. UNCHANGED <<samples, job, got, next, known>>
    BY <1>3 DEF Connect
  <2>. QED
    BY <2>1, <2>2, <2>3
<1>4. ASSUME NEW r \in Requests, Collect(r)
      PROVE  TypeInv'
  <2> DEFINE type == Collectors[next[r] + 1]
  <2>1. Readings[type] \subseteq Data /\ type \in DOMAIN Readings
    BY <1>4, MonitoringAssumption DEF Collect, Data
  <2>2. job[r].server \in Servers
    BY <1>4 DEF FlowInv, Flow, Collect, Job, NoJob
  <2>3. ASSUME NEW data \in Harvest(type)
        PROVE  Append(got[r], Metric(r, type, data)) \in Seq(Sample)
    <3>1. Metric(r, type, data) \in Sample
      BY <2>1, <2>2 DEF Metric, Sample, Harvest
    <3>. QED
      BY <3>1
  <2>4. got' \in [Requests -> Seq(Sample)]
    BY <1>4, <2>3 DEF Collect
  <2>5. failures' \in 0 .. MaxFailures
    BY <1>4 DEF Collect
  <2>6. /\ next' \in [Requests -> Nat]
        /\ UNCHANGED <<samples, pc, job, stamp, session, reply, clock, known>>
    BY <1>4 DEF Collect
  <2>. QED
    BY <2>4, <2>5, <2>6
<1>5. ASSUME NEW r \in Requests, Disconnect(r)
      PROVE  TypeInv'
  BY <1>5 DEF Disconnect, Goto
<1>6. ASSUME NEW r \in Requests, Store(r)
      PROVE  TypeInv'
  <2>1. Unstored(r) => got[r][next[r] + 1] \in Sample
    BY DEF Unstored
  <2>2. samples' \subseteq Sample /\ next' \in [Requests -> Nat]
    BY <1>6, <2>1 DEF Store
  <2>3. /\ pc' \in [Requests -> Labels]
        /\ reply' \in [Requests -> {"none", "ok", "not_found", "error", "lost"}]
    BY <1>6 DEF Store, Answer
  <2>4. UNCHANGED <<job, got, stamp, session, clock, failures, known>>
    BY <1>6 DEF Store
  <2>. QED
    BY <2>2, <2>3, <2>4
<1>7. ASSUME NEW r \in Requests, Read(r)
      PROVE  TypeInv'
  <2>1. got' \in [Requests -> Seq(Sample)]
    <3>1. CASE UNCHANGED got
      BY <3>1
    <3>2. ASSUME NEW x \in Latest(job[r].server, metric_types[next[r] + 1]),
                 got' = [got EXCEPT ![r] = Append(@, x)]
          PROVE  got' \in [Requests -> Seq(Sample)]
      BY <3>2 DEF Latest, SamplesOf
    <3>. QED
      BY <1>7, <3>1, <3>2 DEF Read
  <2>2. /\ stamp' \in [Requests -> Nat]
        /\ clock' \in Nat
        /\ next' \in [Requests -> Nat]
    BY <1>7, TakeStampType DEF Read
  <2>3. pc' \in [Requests -> Labels] /\ UNCHANGED reply
    BY <1>7 DEF Read, Goto
  <2>4. UNCHANGED <<samples, job, session, failures, known>>
    BY <1>7 DEF Read
  <2>. QED
    BY <2>1, <2>2, <2>3, <2>4
<1>8. ASSUME NEW r \in Requests, Save(r)
      PROVE  TypeInv'
  BY <1>8 DEF Save, Answer
<1>9. ASSUME NEW r \in Requests, DatabaseError(r)
      PROVE  TypeInv'
  BY <1>9 DEF DatabaseError, Answer
<1>10. CASE Crash
  BY <1>10 DEF Crash
<1>11. CASE UNCHANGED vars
  BY <1>11 DEF vars
<1>. QED
  BY <1>1, <1>2, <1>3, <1>4, <1>5, <1>6, <1>7, <1>8, <1>9, <1>10, <1>11 DEF Next

-------------------------------------------------------------------------------
Act(r) ==
    \/ Submit(r) \/ LookUp(r)
    \/ Connect(r) \/ Collect(r) \/ Disconnect(r) \/ Store(r)
    \/ Read(r) \/ Save(r)
    \/ DatabaseError(r)

Same(q) ==
    /\ pc'[q] = pc[q] /\ job'[q] = job[q] /\ got'[q] = got[q]
    /\ next'[q] = next[q] /\ stamp'[q] = stamp[q] /\ session'[q] = session[q]
    /\ known'[q] = known[q]

(* A step of one request leaves the others where they are.                 *)
LEMMA LocalStep ==
    ASSUME TypeInv, NEW r \in Requests, NEW q \in Requests, q # r, Act(r)
    PROVE  Same(q)
<1>. USE DEF TypeInv, Same, tables, history
<1>1. CASE Submit(r)
  BY <1>1 DEF Submit, Goto
<1>2. CASE LookUp(r)
  BY <1>2 DEF LookUp, Goto, Answer
<1>3. CASE Connect(r)
  BY <1>3 DEF Connect, Goto, Answer, TakeStamp
<1>4. CASE Collect(r)
  BY <1>4 DEF Collect
<1>5. CASE Disconnect(r)
  BY <1>5 DEF Disconnect, Goto
<1>6. CASE Store(r)
  BY <1>6 DEF Store, Answer
<1>7. CASE Read(r)
  BY <1>7 DEF Read, Goto, TakeStamp
<1>8. CASE Save(r)
  BY <1>8 DEF Save, Answer
<1>9. CASE DatabaseError(r)
  BY <1>9 DEF DatabaseError, Answer
<1>. QED
  BY <1>1, <1>2, <1>3, <1>4, <1>5, <1>6, <1>7, <1>8, <1>9 DEF Act

LEMMA ClockNeverBack ==
    ASSUME TypeInv, [Next]_vars
    PROVE  clock <= clock'
  BY DEF TypeInv, Next, vars, tables, history, Submit, LookUp, Connect, Collect,
         Disconnect, Store, Read, Save, DatabaseError, Crash, TakeStamp

LEMMA FlowInit == Init => FlowInv
  BY DEF Init, FlowInv, Flow, NoJob

LEMMA FlowStep == TypeInv /\ FlowInv /\ [Next]_vars => FlowInv'
<1> SUFFICES ASSUME TypeInv, FlowInv, [Next]_vars, NEW q \in Requests
             PROVE  Flow(q)'
  BY DEF FlowInv
<1>1. TypeInv' /\ clock <= clock'
  BY TypeStep, ClockNeverBack
<1>2. Flow(q)
  BY DEF FlowInv
<1>3. ASSUME Same(q)
      PROVE  Flow(q)'
  BY <1>1, <1>2, <1>3 DEF Same, Flow, TypeInv
<1>4. ASSUME NEW r \in Requests, Act(r), q # r
      PROVE  Flow(q)'
  BY <1>3, <1>4, LocalStep
<1>5. Len(metric_types) = 5
  BY DEF metric_types
<1>. USE <1>1, <1>2 DEF TypeInv, Flow, tables, history
<1>6. ASSUME Submit(q)
      PROVE  Flow(q)'
  BY <1>6 DEF Submit, Goto, NoJob
<1>7. ASSUME LookUp(q)
      PROVE  Flow(q)'
  BY <1>7 DEF LookUp, Goto, Answer
<1>8. ASSUME Connect(q)
      PROVE  Flow(q)'
  BY <1>8 DEF Connect, Goto, Answer, TakeStamp
<1>9. ASSUME Collect(q)
      PROVE  Flow(q)'
  BY <1>9, MonitoringAssumption DEF Collect
<1>10. ASSUME Disconnect(q)
      PROVE  Flow(q)'
  BY <1>10 DEF Disconnect, Goto
<1>11. ASSUME Store(q)
      PROVE  Flow(q)'
  BY <1>11 DEF Store, Answer, Unstored
<1>12. ASSUME Read(q)
      PROVE  Flow(q)'
  BY <1>5, <1>12 DEF Read, Goto, TakeStamp
<1>13. ASSUME Save(q)
      PROVE  Flow(q)'
  BY <1>13 DEF Save, Answer
<1>14. ASSUME DatabaseError(q)
      PROVE  Flow(q)'
  BY <1>14 DEF DatabaseError, Answer
<1>15. CASE Crash
  BY <1>15 DEF Crash
<1>16. CASE UNCHANGED vars
  BY <1>16, <1>3 DEF vars, Same
<1>17. ASSUME NEW r \in Requests, Act(r)
      PROVE  Flow(q)'
  BY <1>4, <1>6, <1>7, <1>8, <1>9, <1>10, <1>11, <1>12, <1>13, <1>14, <1>17 DEF Act
<1>. QED
  BY <1>15, <1>16, <1>17 DEF Next, Act

-------------------------------------------------------------------------------
LEMMA SessionsInit == Init => SessionsReleased
  BY DEF Init, SessionsReleased

LEMMA SessionsStep == TypeInv /\ SessionsReleased /\ [Next]_vars => SessionsReleased'
<1> SUFFICES ASSUME TypeInv, SessionsReleased, [Next]_vars, NEW q \in Requests
             PROVE  (session[q] = "open" <=> pc[q] = "collecting")'
  BY DEF SessionsReleased
<1>1. session[q] = "open" <=> pc[q] = "collecting"
  BY DEF SessionsReleased
<1>2. ASSUME Same(q)
      PROVE  (session[q] = "open" <=> pc[q] = "collecting")'
  BY <1>1, <1>2 DEF Same
<1>3. ASSUME Act(q)
      PROVE  (session[q] = "open" <=> pc[q] = "collecting")'
  <2>. USE <1>1 DEF TypeInv
  <2>1. CASE Submit(q)
    BY <2>1 DEF Submit, Goto
  <2>2. CASE LookUp(q)
    BY <2>2 DEF LookUp, Goto, Answer
  <2>3. CASE Connect(q)
    BY <2>3 DEF Connect, Goto, Answer
  <2>4. CASE Collect(q)
    BY <2>4 DEF Collect
  <2>5. CASE Disconnect(q)
    BY <2>5 DEF Disconnect, Goto
  <2>6. CASE Store(q)
    BY <2>6 DEF Store, Answer
  <2>7. CASE Read(q)
    BY <2>7 DEF Read, Goto
  <2>8. CASE Save(q)
    BY <2>8 DEF Save, Answer
  <2>9. CASE DatabaseError(q)
    BY <2>9 DEF DatabaseError, Answer
  <2>. QED
    BY <1>3, <2>1, <2>2, <2>3, <2>4, <2>5, <2>6, <2>7, <2>8, <2>9 DEF Act
<1>4. CASE Crash
  BY <1>1, <1>4 DEF Crash
<1>5. CASE UNCHANGED vars
  BY <1>2, <1>5 DEF vars, Same
<1>6. ASSUME NEW r \in Requests, Act(r)
      PROVE  (session[q] = "open" <=> pc[q] = "collecting")'
  BY <1>2, <1>3, <1>6, LocalStep
<1>. QED
  BY <1>4, <1>5, <1>6 DEF Next, Act

-------------------------------------------------------------------------------
(* What a report says follows from its findings.                           *)
ReportsFollow ==
    \A p \in reports :
        /\ p.verdict \in Verdicts
        /\ p.score = Score(p.verdict)
        /\ p.status = StatusOf(p.score)

(* A step that adds a report is the last one of an evaluation.             *)
LEMMA ReportsStep ==
    ASSUME [Next]_vars
    PROVE  \/ UNCHANGED reports
           \/ \E r \in Requests, rules \in SUBSET Rules :
                 /\ pc[r] = "saving"
                 /\ Save(r) \/ DatabaseError(r)
                 /\ reports' = reports \union {Report(r, rules)}
<1>. USE DEF tables, history
<1>1. ASSUME NEW r \in Requests, Save(r)
      PROVE  \E rules \in SUBSET Rules : reports' = reports \union {Report(r, rules)}
  BY <1>1 DEF Save
<1>2. ASSUME NEW r \in Requests, DatabaseError(r)
      PROVE  \/ UNCHANGED reports
             \/ /\ pc[r] = "saving"
                /\ \E rules \in SUBSET Rules : reports' = reports \union {Report(r, rules)}
  BY <1>2 DEF DatabaseError
<1>3. ASSUME NEW r \in Requests,
             Submit(r) \/ LookUp(r) \/ Connect(r) \/ Collect(r) \/ Disconnect(r)
                \/ Store(r) \/ Read(r)
      PROVE  UNCHANGED reports
  BY <1>3 DEF Submit, LookUp, Connect, Collect, Disconnect, Store, Read
<1>4. ASSUME NEW r \in Requests, Save(r)
      PROVE  pc[r] = "saving"
  BY <1>4 DEF Save
<1>5. Crash \/ UNCHANGED vars => UNCHANGED reports
  BY DEF Crash, vars
<1>. QED
  BY <1>1, <1>2, <1>3, <1>4, <1>5 DEF Next

LEMMA ReportFields ==
    ASSUME NEW r, NEW rules
    PROVE  /\ Report(r, rules).verdict \in Verdicts
           /\ Report(r, rules).score = Score(Report(r, rules).verdict)
           /\ Report(r, rules).status = StatusOf(Report(r, rules).score)
           /\ Report(r, rules).by = r
           /\ Report(r, rules).server = job[r].server
           /\ Report(r, rules).stamp = stamp[r]
  BY VerdictType DEF Report

LEMMA ReportsFollowStep == ReportsFollow /\ [Next]_vars => ReportsFollow'
<1> SUFFICES ASSUME ReportsFollow, [Next]_vars, NEW p \in reports'
             PROVE  /\ p.verdict \in Verdicts
                    /\ p.score = Score(p.verdict)
                    /\ p.status = StatusOf(p.score)
  BY DEF ReportsFollow
<1>1. CASE p \in reports
  BY <1>1 DEF ReportsFollow
<1>2. CASE p \notin reports
  <2>1. PICK r \in Requests, rules \in SUBSET Rules : p = Report(r, rules)
    BY <1>2, ReportsStep
  <2>. QED
    BY <2>1, ReportFields
<1>. QED
  BY <1>1, <1>2

(* HEALTHY, DEGRADED and UNHEALTHY always mean the findings they are said  *)
(* to mean, whatever the collectors read and whichever rules raise.        *)
THEOREM StatusesMeanTheirFindings == Spec => []ReportsAddUp
<1>1. Init => ReportsFollow
  BY DEF Init, ReportsFollow
<1>2. ReportsFollow => ReportsAddUp
  BY StatusMeaning DEF ReportsFollow, ReportsAddUp
<1>. QED
  BY <1>1, <1>2, ReportsFollowStep, PTL DEF Spec

(* Sessions are open while collectors run, and at no other time.           *)
THEOREM SessionsAreReleased == Spec => []SessionsReleased
<1>1. Init => TypeInv /\ FlowInv /\ SessionsReleased
  BY TypeInit, FlowInit, SessionsInit
<1>2. TypeInv /\ FlowInv /\ SessionsReleased /\ [Next]_vars
        => (TypeInv /\ FlowInv /\ SessionsReleased)'
  BY TypeStep, FlowStep, SessionsStep
<1>. QED
  BY <1>1, <1>2, PTL DEF Spec

-------------------------------------------------------------------------------
(* An evaluation has found, for each type it has asked for, a sample at    *)
(* least as new as those it knew of.                                       *)
Found(r, type) ==
    \A x \in known[r] : x.type = type =>
        \E i \in DOMAIN got[r] : got[r][i].type = type /\ got[r][i].stamp >= x.stamp

Fresh(r) ==
    job[r].kind = "evaluate" =>
        /\ \A x \in known[r] : x \in samples /\ x.server = job[r].server
        /\ \A i \in DOMAIN got[r] : got[r][i].server = job[r].server
        /\ \A n \in 1 .. next[r] : Found(r, metric_types[n])

(* A report was made by an evaluation that asked for all five types.       *)
Reported ==
    \A p \in reports :
        /\ p.by \in Requests
        /\ pc[p.by] = "done" /\ next[p.by] = 5
        /\ job[p.by].kind = "evaluate" /\ p.server = job[p.by].server

FreshInv == (\A r \in Requests : Fresh(r)) /\ Reported

LEMMA SamplesGrow == [Next]_vars => samples \subseteq samples'
  BY DEF Next, vars, tables, Submit, LookUp, Connect, Collect, Disconnect, Store,
         Read, Save, DatabaseError, Crash

LEMMA ReadIsFresh ==
    ASSUME TypeInv, FlowInv, NEW q \in Requests, Fresh(q), Read(q)
    PROVE  Fresh(q)'
<1>0. PICK type, server : type = metric_types[next[q] + 1] /\ server = job[q].server
  OBVIOUS
<1>1. /\ job' = job /\ known' = known /\ samples' = samples
      /\ next'[q] = next[q] + 1 /\ next[q] \in Nat
      /\ got[q] \in Seq(Sample)
      /\ job[q].kind = "evaluate"
  BY DEF Read, TypeInv, FlowInv, Flow, tables, history
<1>2. /\ \A x \in known[q] : x \in samples /\ x.server = server
      /\ \A i \in DOMAIN got[q] : got[q][i].server = server
      /\ \A n \in 1 .. next[q] : Found(q, metric_types[n])
  BY <1>0, <1>1 DEF Fresh
<1>3. ASSUME NEW y \in Latest(server, type), got'[q] = Append(got[q], y)
      PROVE  Fresh(q)'
  <2>1. /\ y \in Sample /\ y.server = server /\ y.type = type
        /\ \A x \in SamplesOf(server, type) : x.stamp <= y.stamp
    BY DEF Latest, SamplesOf, TypeInv
  <2>2. /\ DOMAIN got'[q] = 1 .. Len(got[q]) + 1
        /\ DOMAIN got[q] = 1 .. Len(got[q])
        /\ \A i \in DOMAIN got[q] : got'[q][i] = got[q][i]
        /\ got'[q][Len(got[q]) + 1] = y
        /\ Len(got[q]) \in Nat
    BY <1>1, <1>3, <2>1
  <2>3. \A i \in DOMAIN got'[q] : got'[q][i].server = server
    BY <1>2, <2>1, <2>2
  <2>4. Found(q, type)'
    <3>1. ASSUME NEW x \in known[q], x.type = type
          PROVE  y.stamp >= x.stamp
      <4>1. x \in SamplesOf(server, type) /\ x \in Sample
        BY <1>2, <3>1 DEF SamplesOf, TypeInv
      <4>2. x.stamp \in Nat /\ y.stamp \in Nat
        BY <4>1, <2>1 DEF Sample
      <4>. QED
        BY <2>1, <4>1, <4>2
    <3>. QED
      BY <1>1, <2>1, <2>2, <3>1 DEF Found
  <2>5. ASSUME NEW n \in 1 .. next[q]
        PROVE  Found(q, metric_types[n])'
    <3>1. Found(q, metric_types[n])
      BY <1>2
    <3>. QED
      BY <1>1, <2>2, <3>1 DEF Found
  <2>. QED
    BY <1>0, <1>1, <1>2, <2>3, <2>4, <2>5 DEF Fresh
<1>4. ASSUME SamplesOf(server, type) = {}, got'[q] = got[q]
      PROVE  Fresh(q)'
  <2>1. Found(q, type)'
    <3>1. \A x \in known[q] : x.type # type
      BY <1>2, <1>4 DEF SamplesOf
    <3>. QED
      BY <1>1, <3>1 DEF Found
  <2>2. ASSUME NEW n \in 1 .. next[q]
        PROVE  Found(q, metric_types[n])'
    BY <1>1, <1>2, <1>4 DEF Found
  <2>. QED
    BY <1>0, <1>1, <1>2, <1>4, <2>1, <2>2 DEF Fresh
<1>. QED
  BY <1>0, <1>3, <1>4 DEF Read, TypeInv

LEMMA FreshStep == TypeInv /\ FlowInv /\ FreshInv /\ [Next]_vars => FreshInv'
<1> SUFFICES ASSUME TypeInv, FlowInv, FreshInv, [Next]_vars
             PROVE  FreshInv'
  OBVIOUS
<1>1. samples \subseteq samples'
  BY SamplesGrow
<1>2. ASSUME NEW q \in Requests
      PROVE  Fresh(q)'
  <2>1. Fresh(q) /\ Flow(q)
    BY DEF FreshInv, FlowInv
  <2>2. ASSUME job'[q] = job[q], known'[q] = known[q], got'[q] = got[q],
               next'[q] = next[q]
        PROVE  Fresh(q)'
    BY <1>1, <2>1, <2>2 DEF Fresh, Found
  <2>3. ASSUME Same(q)
        PROVE  Fresh(q)'
    BY <2>2, <2>3 DEF Same
  <2>4. CASE Submit(q)
    <3>1. next'[q] = 0 /\ got'[q] = <<>>
      BY <2>1, <2>4 DEF Submit, Flow
    <3>2. job'[q].kind = "evaluate" =>
             known'[q] = {x \in samples : x.server = job'[q].server}
      BY <2>4 DEF Submit, TypeInv
    <3>. QED
      BY <1>1, <3>1, <3>2 DEF Fresh
  <2>5. CASE LookUp(q) \/ Connect(q) \/ Save(q) \/ DatabaseError(q)
    BY <2>2, <2>5 DEF LookUp, Connect, Save, DatabaseError, tables, history
  <2>6. CASE Collect(q) \/ Disconnect(q) \/ Store(q)
    BY <2>1, <2>6 DEF Collect, Disconnect, Store, Flow, Fresh
  <2>7. CASE Read(q)
    BY <2>1, <2>7, ReadIsFresh
  <2>8. CASE Crash \/ UNCHANGED vars
    BY <2>2, <2>8 DEF Crash, vars, history
  <2>9. ASSUME NEW r \in Requests, Act(r)
        PROVE  Fresh(q)'
    BY <2>3, <2>4, <2>5, <2>6, <2>7, <2>9, LocalStep DEF Act
  <2>. QED
    BY <2>8, <2>9 DEF Next, Act
<1>3. Reported'
  <2> SUFFICES ASSUME NEW p \in reports'
               PROVE  /\ p.by \in Requests
                      /\ pc'[p.by] = "done" /\ next'[p.by] = 5
                      /\ job'[p.by].kind = "evaluate" /\ p.server = job'[p.by].server
    BY DEF Reported
  <2>1. CASE p \in reports
    <3>1. /\ p.by \in Requests /\ pc[p.by] = "done" /\ next[p.by] = 5
          /\ job[p.by].kind = "evaluate" /\ p.server = job[p.by].server
      BY <2>1 DEF FreshInv, Reported
    <3>2. ASSUME NEW r \in Requests, Act(r)
          PROVE  Same(p.by)
      <4>1. pc[r] # "done"
        BY <3>2 DEF Act, Submit, LookUp, Connect, Collect, Disconnect, Store,
                    Read, Save, DatabaseError
      <4>. QED
        BY <3>1, <3>2, <4>1, LocalStep
    <3>3. CASE Crash
      BY <3>1, <3>3 DEF Crash
    <3>4. CASE UNCHANGED vars
      BY <3>1, <3>4 DEF vars
    <3>. QED
      BY <3>1, <3>2, <3>3, <3>4 DEF Next, Act, Same
  <2>2. CASE p \notin reports
    <3>1. PICK r \in Requests, rules \in SUBSET Rules :
             /\ pc[r] = "saving" /\ (Save(r) \/ DatabaseError(r))
             /\ p = Report(r, rules)
      BY <2>2, ReportsStep
    <3>2. p.by = r /\ p.server = job[r].server
      BY <3>1, ReportFields
    <3>3. job[r].kind = "evaluate" /\ next[r] = 5
      BY <3>1 DEF FlowInv, Flow
    <3>4. pc'[r] = "done" /\ UNCHANGED <<job, next>>
      BY <3>1 DEF Save, DatabaseError, Answer, TypeInv
    <3>. QED
      BY <3>2, <3>3, <3>4
  <2>. QED
    BY <2>1, <2>2
<1>. QED
  BY <1>2, <1>3 DEF FreshInv

LEMMA FreshImplies == TypeInv /\ FreshInv => FreshReports
<1> SUFFICES ASSUME TypeInv, FreshInv, NEW p \in reports
             PROVE  LET used == ToSet(got[p.by]) IN
                    /\ \A x \in used : x.server = p.server
                    /\ \A x \in known[p.by] : x.type \in Types =>
                          \E y \in used : y.type = x.type /\ y.stamp >= x.stamp
  BY DEF FreshReports
<1>1. /\ p.by \in Requests /\ next[p.by] = 5
      /\ job[p.by].kind = "evaluate" /\ p.server = job[p.by].server
  BY DEF FreshInv, Reported
<1>2. ToSet(got[p.by]) = {got[p.by][i] : i \in DOMAIN got[p.by]}
  BY DEF ToSet
<1>3. Fresh(p.by)
  BY <1>1 DEF FreshInv
<1>4. ASSUME NEW t \in Types
      PROVE  \E n \in 1 .. 5 : metric_types[n] = t
  <2>1. /\ metric_types[1] = "cpu" /\ metric_types[2] = "memory"
        /\ metric_types[3] = "disk" /\ metric_types[4] = "network"
        /\ metric_types[5] = "service"
    BY DEF metric_types
  <2>. QED
    BY <2>1 DEF Types
<1>5. ASSUME NEW x \in known[p.by], x.type \in Types
      PROVE  \E i \in DOMAIN got[p.by] :
                got[p.by][i].type = x.type /\ got[p.by][i].stamp >= x.stamp
  BY <1>1, <1>3, <1>4, <1>5 DEF Fresh, Found
<1>. QED
  BY <1>1, <1>2, <1>3, <1>5 DEF Fresh

(* An evaluation never overlooks what was stored before it was asked for,  *)
(* although it reads type by type while others store.                      *)
THEOREM EvaluationsMissNothing == Spec => []FreshReports
<1>1. Init => TypeInv /\ FlowInv /\ FreshInv
  <2>1. Init => FreshInv
    BY DEF Init, FreshInv, Fresh, Reported, NoJob
  <2>. QED
    BY <2>1, TypeInit, FlowInit
<1>2. TypeInv /\ FlowInv /\ FreshInv /\ [Next]_vars
        => (TypeInv /\ FlowInv /\ FreshInv)'
  BY TypeStep, FlowStep, FreshStep
<1>. QED
  BY <1>1, <1>2, FreshImplies, PTL DEF Spec

-------------------------------------------------------------------------------
(* The rows of a run are the first metrics it holds: none before it        *)
(* stores, all of them when it answers "ok".                               *)
Rows(r) == {x \in samples : x.run = r}
First(r, n) == {got[r][i] : i \in 1 .. n}

Honest(r) ==
    /\ job[r].kind # "collect" => Rows(r) = {}
    /\ pc[r] \notin {"storing", "done"} => Rows(r) = {} /\ reply[r] # "ok"
    /\ job[r].kind = "collect" =>
          /\ \A i \in DOMAIN got[r] : got[r][i].run = r
          /\ pc[r] = "storing" => Rows(r) = First(r, next[r])
          /\ pc[r] = "done" => \E n \in 0 .. Len(got[r]) : Rows(r) = First(r, n)
          /\ pc[r] = "done" /\ reply[r] = "ok" => Rows(r) = First(r, Len(got[r]))

HonestInv == \A r \in Requests : Honest(r)

(* Only a run adds rows of its own.                                        *)
LEMMA RowsElsewhere ==
    ASSUME TypeInv, FlowInv, HonestInv, NEW r \in Requests, NEW q \in Requests,
           q # r, Act(r)
    PROVE  Rows(q)' = Rows(q)
<1>1. CASE Store(r)
  <2>1. samples' = samples \/ \E i \in DOMAIN got[r] : samples' = samples \union {got[r][i]}
    <3>1. Unstored(r) => next[r] + 1 \in DOMAIN got[r]
      BY DEF Unstored, TypeInv
    <3>. QED
      BY <1>1, <3>1 DEF Store
  <2>2. \A i \in DOMAIN got[r] : got[r][i].run = r
    BY <1>1 DEF Store, FlowInv, Flow, HonestInv, Honest
  <2>. QED
    BY <2>1, <2>2 DEF Rows
<1>2. CASE ~Store(r)
  BY <1>2 DEF Act, Rows, tables, Submit, LookUp, Connect, Collect, Disconnect, Read,
              Save, DatabaseError
<1>. QED
  BY <1>1, <1>2

(* Giving up leaves the first metrics stored, as many as were.             *)
LEMMA GivingUpIsHonest ==
    ASSUME TypeInv, NEW q \in Requests, Flow(q), Honest(q), pc[q] # "done",
           Rows(q)' = Rows(q), job'[q] = job[q], got'[q] = got[q],
           pc'[q] = "done", reply'[q] # "ok"
    PROVE  Honest(q)'
<1>1. next[q] \in Nat /\ Len(got[q]) \in Nat
  BY DEF TypeInv
<1>2. job[q].kind = "collect" =>
         \E n \in 0 .. Len(got[q]) : Rows(q) = First(q, n)
  <2>1. CASE pc[q] = "storing"
    BY <1>1, <2>1 DEF Honest, Flow
  <2>2. CASE pc[q] # "storing"
    <3>1. First(q, 0) = {}
      BY DEF First
    <3>2. Rows(q) = {}
      BY <2>2 DEF Honest
    <3>3. 0 \in 0 .. Len(got[q])
      BY <1>1
    <3>. QED
      BY <3>1, <3>2, <3>3
  <2>. QED
    BY <2>1, <2>2
<1>. QED
  BY <1>2 DEF Honest, First

(* So does going on before anything is stored.                             *)
LEMMA GoingOnIsHonest ==
    ASSUME TypeInv, NEW q \in Requests, Honest(q), pc[q] \notin {"storing", "done"},
           Rows(q)' = Rows(q), job'[q] = job[q],
           pc'[q] \notin {"storing", "done"}, reply'[q] = reply[q],
           job[q].kind = "collect" => \A i \in DOMAIN got'[q] : got'[q][i].run = q
    PROVE  Honest(q)'
  BY DEF Honest

LEMMA HonestStep == TypeInv /\ FlowInv /\ HonestInv /\ [Next]_vars => HonestInv'
<1> SUFFICES ASSUME TypeInv, FlowInv, HonestInv, [Next]_vars, NEW q \in Requests
             PROVE  Honest(q)'
  BY DEF HonestInv
<1>1. Honest(q) /\ Flow(q)
  BY DEF HonestInv, FlowInv
<1>2. ASSUME NEW r \in Requests, Act(r), q # r
      PROVE  Honest(q)'
  <2>1. Rows(q)' = Rows(q) /\ Same(q)
    BY <1>2, RowsElsewhere, LocalStep
  <2>2. reply'[q] = reply[q]
    BY <1>2 DEF Act, TypeInv, Submit, LookUp, Connect, Collect, Disconnect, Store,
                Read, Save, DatabaseError, Goto, Answer
  <2>. QED
    BY <1>1, <2>1, <2>2 DEF Honest, Same, First
<1>3. CASE Submit(q)
  <2>1. Rows(q)' = Rows(q) /\ got'[q] = <<>> /\ pc'[q] = "looking"
    BY <1>1, <1>3 DEF Submit, Goto, Flow, Rows, TypeInv, tables
  <2>2. reply'[q] = reply[q] /\ Rows(q) = {} /\ reply[q] # "ok"
    BY <1>1, <1>3 DEF Submit, Goto, Honest, Flow, NoJob
  <2>. QED
    BY <2>1, <2>2 DEF Honest
<1>4. CASE LookUp(q)
  <2>1. /\ pc[q] = "looking" /\ Rows(q)' = Rows(q)
        /\ job'[q] = job[q] /\ got'[q] = got[q]
    BY <1>4 DEF LookUp, Rows, tables
  <2>2. CASE Answer(q, "not_found")
    BY <1>1, <2>1, <2>2, GivingUpIsHonest DEF Answer, TypeInv
  <2>3. CASE Goto(q, "connecting") \/ Goto(q, "reading")
    <3>1. pc'[q] \in {"connecting", "reading"} /\ reply'[q] = reply[q]
      BY <2>3 DEF Goto, TypeInv
    <3>. QED
      BY <1>1, <2>1, <3>1, GoingOnIsHonest DEF Honest
  <2>. QED
    BY <1>4, <2>2, <2>3 DEF LookUp
<1>5. CASE Connect(q)
  <2>1. /\ pc[q] = "connecting" /\ Rows(q)' = Rows(q)
        /\ job'[q] = job[q] /\ got'[q] = got[q]
    BY <1>5 DEF Connect, Rows, tables
  <2>2. CASE Answer(q, "error")
    BY <1>1, <2>1, <2>2, GivingUpIsHonest DEF Answer, TypeInv
  <2>3. CASE Goto(q, "collecting")
    <3>1. pc'[q] = "collecting" /\ reply'[q] = reply[q]
      BY <2>3 DEF Goto, TypeInv
    <3>. QED
      BY <1>1, <2>1, <3>1, GoingOnIsHonest DEF Honest
  <2>. QED
    BY <1>5, <2>2, <2>3 DEF Connect
<1>6. CASE Collect(q)
  <2>1. /\ pc[q] = "collecting" /\ pc' = pc /\ reply' = reply
        /\ job' = job /\ Rows(q)' = Rows(q)
    BY <1>6 DEF Collect, Rows, tables
  <2>2. \A i \in DOMAIN got[q] : got[q][i].run = q
    BY <1>1, <2>1 DEF Honest, Flow
  <2>3. ASSUME NEW type, NEW data, got'[q] = Append(got[q], Metric(q, type, data))
        PROVE  \A i \in DOMAIN got'[q] : got'[q][i].run = q
    <3>1. Metric(q, type, data).run = q /\ got[q] \in Seq(Sample)
      BY DEF Metric, TypeInv
    <3>. QED
      BY <2>2, <2>3, <3>1
  <2>4. \A i \in DOMAIN got'[q] : got'[q][i].run = q
    <3>1. \/ got' = got
          \/ \E data \in Harvest(Collectors[next[q] + 1]) :
                got'[q] = Append(got[q], Metric(q, Collectors[next[q] + 1], data))
      BY <1>6 DEF Collect, TypeInv
    <3>. QED
      BY <2>2, <2>3, <3>1
  <2>. QED
    BY <1>1, <2>1, <2>4, GoingOnIsHonest
<1>7. CASE Disconnect(q)
  BY <1>1, <1>7 DEF Disconnect, Goto, Honest, Flow, Rows, First, TypeInv, tables
<1>8. CASE Store(q)
  <2>1. /\ job[q].kind = "collect" /\ next[q] <= Len(got[q]) /\ pc[q] = "storing"
        /\ job'[q] = job[q] /\ got'[q] = got[q] /\ got[q] \in Seq(Sample)
        /\ next[q] \in Nat
    BY <1>1, <1>8 DEF Store, Flow, TypeInv
  <2>2. /\ \A i \in DOMAIN got[q] : got[q][i].run = q
        /\ Rows(q) = First(q, next[q])
    BY <1>1, <2>1 DEF Honest
  <2>3. CASE Unstored(q)
    <3>1. /\ samples' = samples \union {got[q][next[q] + 1]}
          /\ next'[q] = next[q] + 1 /\ pc'[q] = "storing"
          /\ got[q][next[q] + 1].run = q
      BY <1>8, <2>1, <2>2, <2>3 DEF Store, Unstored, TypeInv
    <3>2. Rows(q)' = Rows(q) \union {got[q][next[q] + 1]}
      BY <3>1 DEF Rows
    <3>3. First(q, next[q])' = First(q, next[q]) \union {got[q][next[q] + 1]}
      BY <2>1, <3>1 DEF First
    <3>. QED
      BY <2>1, <2>2, <3>1, <3>2, <3>3 DEF Honest
  <2>4. CASE ~Unstored(q)
    <3>1. next[q] = Len(got[q]) /\ pc'[q] = "done" /\ Rows(q)' = Rows(q)
      BY <1>8, <2>1, <2>4 DEF Store, Unstored, Answer, Rows, TypeInv
    <3>2. Rows(q)' = First(q, Len(got[q]))'
      BY <2>1, <2>2, <3>1 DEF First
    <3>3. Len(got[q]) \in 0 .. Len(got[q])
      BY <2>1
    <3>. QED
      BY <2>1, <2>2, <3>1, <3>2, <3>3 DEF Honest
  <2>. QED
    BY <2>3, <2>4
<1>9. CASE Read(q) \/ Save(q)
  <2>1. /\ pc[q] \in {"reading", "saving"} /\ job[q].kind = "evaluate"
        /\ Rows(q)' = Rows(q) /\ job'[q] = job[q]
    BY <1>1, <1>9 DEF Read, Save, Flow, Rows, tables
  <2>2. CASE Read(q)
    <3>1. pc'[q] \in {"reading", "saving"} /\ reply'[q] = reply[q]
      BY <2>1, <2>2 DEF Read, Goto, TypeInv
    <3>. QED
      BY <1>1, <2>1, <3>1, GoingOnIsHonest
  <2>3. CASE Save(q)
    <3>1. pc'[q] = "done"
      BY <2>3 DEF Save, Answer, TypeInv
    <3>. QED
      BY <1>1, <2>1, <3>1 DEF Honest
  <2>. QED
    BY <1>9, <2>2, <2>3
<1>10. CASE DatabaseError(q)
  <2>1. /\ pc[q] # "done" /\ pc'[q] = "done" /\ reply'[q] = "error"
        /\ Rows(q)' = Rows(q) /\ job'[q] = job[q] /\ got'[q] = got[q]
    BY <1>10 DEF DatabaseError, Answer, Rows, TypeInv
  <2>. QED
    BY <1>1, <2>1, GivingUpIsHonest
<1>11. CASE Crash
  <2>1. Rows(q)' = Rows(q) /\ UNCHANGED <<job, got, next>>
    BY <1>11 DEF Crash, Rows, tables
  <2>2. CASE pc[q] \in {"idle", "done"}
    <3>1. pc'[q] = pc[q] /\ reply'[q] = reply[q]
      BY <1>11, <2>2 DEF Crash
    <3>. QED
      BY <1>1, <2>1, <2>2, <3>1 DEF Honest, First
  <2>3. CASE pc[q] \notin {"idle", "done"}
    <3>1. pc'[q] = "done" /\ reply'[q] = "lost"
      BY <1>11, <2>3 DEF Crash
    <3>. QED
      BY <1>1, <2>1, <2>3, <3>1, GivingUpIsHonest
  <2>. QED
    BY <2>2, <2>3
<1>12. CASE UNCHANGED vars
  BY <1>1, <1>12 DEF vars, Honest, Rows, First
<1>13. ASSUME NEW r \in Requests, Act(r)
      PROVE  Honest(q)'
  BY <1>2, <1>3, <1>4, <1>5, <1>6, <1>7, <1>8, <1>9, <1>10, <1>13 DEF Act
<1>. QED
  BY <1>11, <1>12, <1>13 DEF Next, Act

LEMMA HonestImplies == TypeInv /\ FlowInv /\ HonestInv => CollectionHonest
<1> SUFFICES ASSUME TypeInv, FlowInv, HonestInv, NEW r \in Requests,
                    job[r].kind = "collect", pc[r] = "done"
             PROVE  LET stored == {x \in samples : x.run = r} IN
                    /\ reply[r] = "ok" => stored = ToSet(got[r])
                    /\ \E n \in 0 .. Len(got[r]) : stored = ToSet(SubSeq(got[r], 1, n))
  BY DEF CollectionHonest
<1>1. Honest(r) /\ got[r] \in Seq(Sample) /\ Len(got[r]) \in Nat
  BY DEF HonestInv, TypeInv
<1>2. ASSUME NEW n \in 0 .. Len(got[r])
      PROVE  First(r, n) = ToSet(SubSeq(got[r], 1, n))
  <2>1. /\ DOMAIN SubSeq(got[r], 1, n) = 1 .. n
        /\ \A i \in 1 .. n : SubSeq(got[r], 1, n)[i] = got[r][i]
    BY <1>1
  <2>. QED
    BY <2>1 DEF First, ToSet
<1>3. First(r, Len(got[r])) = ToSet(got[r])
  BY <1>1 DEF First, ToSet
<1>. QED
  BY <1>1, <1>2, <1>3 DEF Honest, Rows

(* A collection answers "ok" when what it collected is stored, and has     *)
(* stored a first part of it otherwise, whatever fails and whoever else    *)
(* stores meanwhile.                                                       *)
THEOREM CollectionsAreHonest == Spec => []CollectionHonest
<1>1. Init => TypeInv /\ FlowInv /\ HonestInv
  <2>1. Init => HonestInv
    BY MonitoringAssumption DEF Init, HonestInv, Honest, Rows, NoJob
  <2>. QED
    BY <2>1, TypeInit, FlowInit
<1>2. TypeInv /\ FlowInv /\ HonestInv /\ [Next]_vars
        => (TypeInv /\ FlowInv /\ HonestInv)'
  BY TypeStep, FlowStep, HonestStep
<1>. QED
  BY <1>1, <1>2, HonestImplies, PTL DEF Spec

-------------------------------------------------------------------------------
DisturbedType == disturbed \in [Requests -> BOOLEAN]

LEMMA DisturbedStep == DisturbedType /\ [Next]_vars => DisturbedType'
<1> SUFFICES ASSUME DisturbedType, [Next]_vars
             PROVE  DisturbedType'
  OBVIOUS
<1>. USE DEF DisturbedType
<1>1. ASSUME NEW r \in Requests, LookUp(r)
      PROVE  DisturbedType'
  <2>1. Storing(job[r].server) \in BOOLEAN
    BY DEF Storing
  <2>2. CASE UNCHANGED disturbed
    BY <2>2
  <2>3. CASE disturbed' = [disturbed EXCEPT ![r] = Storing(job[r].server)]
    BY <2>1, <2>3
  <2>. QED
    BY <1>1, <2>2, <2>3 DEF LookUp
<1>2. ASSUME NEW r \in Requests, Store(r)
      PROVE  DisturbedType'
  <2>1. CASE UNCHANGED disturbed
    BY <2>1
  <2>2. CASE disturbed' = [q \in Requests |->
                  \/ disturbed[q]
                  \/ pc[q] = "reading" /\ job[q].server = job[r].server]
    <3>1. \A q \in Requests :
             (disturbed[q] \/ (pc[q] = "reading" /\ job[q].server = job[r].server))
                \in BOOLEAN
      OBVIOUS
    <3>. QED
      BY <2>2, <3>1
  <2>. QED
    BY <1>2, <2>1, <2>2 DEF Store
<1>3. ASSUME ~\E r \in Requests : LookUp(r) \/ Store(r)
      PROVE  UNCHANGED disturbed
  BY <1>3 DEF Next, vars, history, Submit, Connect, Collect, Disconnect, Read, Save,
              DatabaseError, Crash
<1>. QED
  BY <1>1, <1>2, <1>3

ReportsTyped ==
    \A p \in reports : p.by \in Requests /\ p.server \in Servers /\ p.stamp \in 1 .. clock

LEMMA ReportsTypedStep ==
    TypeInv /\ FlowInv /\ ReportsTyped /\ [Next]_vars => ReportsTyped'
<1> SUFFICES ASSUME TypeInv, FlowInv, ReportsTyped, [Next]_vars, NEW p \in reports'
             PROVE  p.by \in Requests /\ p.server \in Servers /\ p.stamp \in 1 .. clock'
  BY DEF ReportsTyped
<1>1. clock <= clock' /\ clock \in Nat /\ clock' \in Nat
  BY ClockNeverBack, TypeStep DEF TypeInv
<1>2. CASE p \in reports
  BY <1>1, <1>2 DEF ReportsTyped
<1>3. CASE p \notin reports
  <2>1. PICK r \in Requests, rules \in SUBSET Rules :
           pc[r] = "saving" /\ p = Report(r, rules)
    BY <1>3, ReportsStep
  <2>2. job[r].server \in Servers /\ stamp[r] \in 1 .. clock
    BY <1>1, <2>1 DEF TypeInv, FlowInv, Flow, Job, NoJob
  <2>. QED
    BY <1>1, <2>1, <2>2, ReportFields
<1>. QED
  BY <1>2, <1>3

LEMMA TypesImply ==
    TypeInv /\ FlowInv /\ ReportsTyped /\ ReportsFollow /\ DisturbedType => TypeOK
<1> SUFFICES ASSUME TypeInv, FlowInv, ReportsTyped, ReportsFollow, DisturbedType
             PROVE  TypeOK
  OBVIOUS
<1>1. ASSUME NEW p \in reports
      PROVE  /\ p.server \in Servers /\ p.by \in Requests /\ p.stamp \in 1 .. clock
             /\ p.verdict \in [Types -> Severities]
             /\ p.score \in 0 .. 100 /\ p.status \in Statuses
  BY ScoreExact DEF ReportsTyped, ReportsFollow, Verdicts, StatusOf, Statuses
<1>2. ASSUME NEW r \in Requests
      PROVE  /\ pc[r] \in Labels
             /\ job[r] = NoJob <=> pc[r] = "idle"
             /\ ToSet(got[r]) \subseteq Sample
             /\ next[r] \in 0 .. IF job[r].kind = "collect" THEN Len(Collectors)
                                 ELSE Len(metric_types)
             /\ stamp[r] \in 0 .. clock
             /\ session[r] \in {"none", "open", "closed"}
             /\ reply[r] \in {"none", "ok", "not_found", "error", "lost"}
             /\ known[r] \subseteq Sample
  <2>1. ToSet(got[r]) \subseteq Sample
    BY DEF TypeInv, ToSet
  <2>2. Len(metric_types) = 5 /\ Len(Collectors) \in Nat
    BY MonitoringAssumption DEF metric_types
  <2>3. Flow(r)
    BY DEF FlowInv
  <2>. QED
    BY <2>1, <2>2, <2>3 DEF TypeInv, Flow
<1>. QED
  BY <1>1, <1>2 DEF TypeOK, TypeInv, DisturbedType, Labels

(* Every state keeps its types, and a request the bounds of its progress.  *)
THEOREM TypesAreKept == Spec => []TypeOK
<1> DEFINE Inv == TypeInv /\ FlowInv /\ ReportsTyped /\ ReportsFollow /\ DisturbedType
<1>1. Init => Inv
  <2>1. Init => ReportsTyped /\ ReportsFollow /\ DisturbedType
    BY DEF Init, ReportsTyped, ReportsFollow, DisturbedType
  <2>. QED
    BY <2>1, TypeInit, FlowInit
<1>2. Inv /\ [Next]_vars => Inv'
  BY TypeStep, FlowStep, ReportsTypedStep, ReportsFollowStep, DisturbedStep
<1>3. Inv => TypeOK
  BY TypesImply
<1>. QED
  BY <1>1, <1>2, <1>3, PTL DEF Spec

-------------------------------------------------------------------------------
(* What lets an undisturbed evaluation read one collection.                *)
(* The metrics a collection holds are those of its collectors, in order,   *)
(* as long as nothing fails; all of them carry its server and its stamp.   *)
Batch(r) ==
    job[r].kind = "collect" =>
        /\ \A i \in DOMAIN got[r] :
              got[r][i].server = job[r].server /\ got[r][i].stamp = stamp[r]
        /\ pc[r] \in {"collecting", "storing"} \/ got[r] # <<>> => stamp[r] >= 1
        /\ failures = 0 =>
              /\ \A i \in DOMAIN got[r] :
                    i \in DOMAIN Collectors /\ got[r][i].type = Collectors[i]
              /\ pc[r] = "collecting" => Len(got[r]) = next[r]
              /\ pc[r] = "storing" => Len(got[r]) = Len(Collectors)
              /\ pc[r] = "done" /\ got[r] # <<>> =>
                    reply[r] = "ok" /\ Len(got[r]) = Len(Collectors)

(* No two contexts carry the same stamp, and older samples carry none.     *)
StampsTell ==
    /\ \A q, r \in Requests : stamp[q] = stamp[r] /\ stamp[q] # 0 => q = r
    /\ \A x \in samples : x.run \notin Requests => x.stamp = 0

(* The samples of a server are those of whole collections.                 *)
Whole(server) ==
    \A x \in samples : x.server = server /\ x.run \in Requests =>
        \A type \in ToSet(Collectors) :
            \E y \in SamplesOf(server, type) : y.run = x.run /\ y.stamp = x.stamp

(* What is measured comes from one collection, or from before all of them. *)
OneRun(read) ==
    \A x, y \in {z \in ToSet(read) : z.type \in ToSet(Collectors)} :
        x.run # Earlier => x.run = y.run

AllLatest(server, read) ==
    \A i \in DOMAIN read : read[i] \in Latest(server, read[i].type)

Undisturbed(r) ==
    job[r].kind = "evaluate" /\ failures = 0 /\ ~disturbed[r] =>
        /\ pc[r] = "reading" => Whole(job[r].server) /\ AllLatest(job[r].server, got[r])
        /\ pc[r] \in {"saving", "done"} => OneRun(got[r])

SnapshotInv ==
    /\ \A r \in Requests : Batch(r)
    /\ StampsTell
    /\ \A r \in Requests : Undisturbed(r)

LEMMA NothingFailed ==
    ASSUME TypeInv, [Next]_vars, failures' = 0
    PROVE  failures = 0
  BY MonitoringAssumption DEF TypeInv, Next, vars, Submit, LookUp, Connect, Collect,
     Disconnect, Store, Read, Save, DatabaseError, Crash, Fails

LEMMA StampsStep ==
    ASSUME TypeInv, FlowInv, [Next]_vars
    PROVE  \/ stamp' = stamp
           \/ \E r \in Requests : TakeStamp(r)
  BY DEF Next, vars, Submit, LookUp, Connect, Collect, Disconnect, Store, Read, Save,
         DatabaseError, Crash

(* Samples are added by collections, of their own run and one at a time.   *)
LEMMA SamplesStep ==
    ASSUME TypeInv, FlowInv, HonestInv, [Next]_vars
    PROVE  \/ samples' = samples
           \/ \E r \in Requests : \E i \in DOMAIN got[r] :
                 /\ Store(r) /\ Unstored(r) /\ job[r].kind = "collect"
                 /\ got[r][i].run = r
                 /\ samples' = samples \union {got[r][i]}
<1>1. ASSUME NEW r \in Requests, Store(r)
      PROVE  \/ samples' = samples
             \/ \E i \in DOMAIN got[r] :
                   /\ Unstored(r) /\ job[r].kind = "collect" /\ got[r][i].run = r
                   /\ samples' = samples \union {got[r][i]}
  <2>1. job[r].kind = "collect" /\ \A i \in DOMAIN got[r] : got[r][i].run = r
    BY <1>1 DEF Store, FlowInv, Flow, HonestInv, Honest
  <2>2. Unstored(r) => next[r] + 1 \in DOMAIN got[r]
    BY DEF Unstored, TypeInv
  <2>. QED
    BY <1>1, <2>1, <2>2 DEF Store
<1>2. ASSUME ~\E r \in Requests : Store(r)
      PROVE  samples' = samples
  BY <1>2 DEF Next, vars, tables, Submit, LookUp, Connect, Collect, Disconnect, Read,
              Save, DatabaseError, Crash
<1>. QED
  BY <1>1, <1>2

LEMMA StampsTellStep ==
    ASSUME TypeInv, FlowInv, HonestInv, StampsTell, [Next]_vars
    PROVE  StampsTell'
<1>1. ASSUME NEW q \in Requests, NEW r \in Requests,
             stamp'[q] = stamp'[r], stamp'[q] # 0
      PROVE  q = r
  <2>1. CASE stamp' = stamp
    BY <1>1, <2>1 DEF StampsTell
  <2>2. ASSUME NEW s \in Requests, TakeStamp(s) PROVE q = r
    <3>1. \A p \in Requests : stamp'[p] = IF p = s THEN clock + 1 ELSE stamp[p]
      BY <2>2 DEF TakeStamp, TypeInv
    <3>2. \A p \in Requests : stamp[p] \in Nat /\ stamp[p] <= clock /\ clock \in Nat
      BY DEF TypeInv, FlowInv, Flow
    <3>. QED
      BY <1>1, <3>1, <3>2 DEF StampsTell
  <2>. QED
    BY <2>1, <2>2, StampsStep
<1>2. ASSUME NEW x \in samples', x.run \notin Requests PROVE x.stamp = 0
  BY <1>2, SamplesStep DEF StampsTell
<1>. QED
  BY <1>1, <1>2 DEF StampsTell

-------------------------------------------------------------------------------
LEMMA BatchKept ==
    ASSUME NEW q \in Requests, Batch(q), failures' = 0 => failures = 0,
           job'[q] = job[q], got'[q] = got[q], stamp'[q] = stamp[q],
           next'[q] = next[q], pc'[q] = pc[q], reply'[q] = reply[q]
    PROVE  Batch(q)'
  BY DEF Batch

LEMMA NoBatch ==
    ASSUME NEW q \in Requests, got'[q] = <<>>, pc'[q] \notin {"collecting", "storing"}
    PROVE  Batch(q)'
  BY DEF Batch

LEMMA CollectBatch ==
    ASSUME TypeInv, FlowInv, NEW q \in Requests, Batch(q), Collect(q)
    PROVE  Batch(q)'
<1> DEFINE type == Collectors[next[q] + 1]
<1>1. /\ job' = job /\ pc' = pc /\ stamp' = stamp /\ reply' = reply
      /\ pc[q] = "collecting" /\ job[q].kind = "collect" /\ next'[q] = next[q] + 1
      /\ got[q] \in Seq(Sample) /\ next[q] \in Nat /\ failures \in Nat
      /\ next[q] + 1 \in DOMAIN Collectors
  BY MonitoringAssumption DEF Collect, TypeInv, FlowInv, Flow
<1>2. CASE Fails /\ UNCHANGED got
  <2>1. failures' # 0
    BY <1>1, <1>2 DEF Fails
  <2>. QED
    BY <1>1, <1>2, <2>1 DEF Batch
<1>3. ASSUME NEW data, got'[q] = Append(got[q], Metric(q, type, data)), failures' = failures
      PROVE  Batch(q)'
  <2> DEFINE x == Metric(q, type, data)
  <2>1. x.server = job[q].server /\ x.stamp = stamp[q] /\ x.type = type
    BY DEF Metric
  <2>2. /\ DOMAIN got'[q] = 1 .. Len(got[q]) + 1
        /\ DOMAIN got[q] = 1 .. Len(got[q])
        /\ \A i \in DOMAIN got[q] : got'[q][i] = got[q][i]
        /\ got'[q][Len(got[q]) + 1] = x
        /\ Len(got'[q]) = Len(got[q]) + 1 /\ Len(got[q]) \in Nat
    BY <1>1, <1>3
  <2>. HIDE DEF x
  <2>3. \A i \in DOMAIN got'[q] : got'[q][i].server = job[q].server
                                  /\ got'[q][i].stamp = stamp[q]
    BY <1>1, <2>1, <2>2 DEF Batch
  <2>4. stamp[q] >= 1
    BY <1>1 DEF Batch
  <2>5. ASSUME failures = 0
        PROVE  /\ \A i \in DOMAIN got'[q] :
                     i \in DOMAIN Collectors /\ got'[q][i].type = Collectors[i]
               /\ Len(got'[q]) = next'[q]
    BY <1>1, <2>1, <2>2, <2>5 DEF Batch
  <2>. QED
    BY <1>1, <1>3, <2>3, <2>4, <2>5 DEF Batch
<1>. QED
  BY <1>2, <1>3 DEF Collect, TypeInv

LEMMA BatchStep ==
    ASSUME TypeInv, FlowInv, [Next]_vars, NEW q \in Requests, Batch(q)
    PROVE  Batch(q)'
<1>1. Flow(q)
  BY DEF FlowInv
<1>2. failures' = 0 => failures = 0
  BY NothingFailed
<1>3. ASSUME NEW r \in Requests, Act(r), q # r
      PROVE  Batch(q)'
  <2>1. Same(q)
    BY <1>3, LocalStep
  <2>2. reply'[q] = reply[q]
    BY <1>3 DEF Act, TypeInv, Submit, LookUp, Connect, Collect, Disconnect, Store,
                Read, Save, DatabaseError, Goto, Answer
  <2>. QED
    BY <1>2, <2>1, <2>2, BatchKept DEF Same
<1>4. CASE Submit(q) \/ LookUp(q)
  <2>1. got'[q] = <<>> /\ pc'[q] \notin {"collecting", "storing"}
    BY <1>1, <1>4 DEF Submit, LookUp, Goto, Answer, Flow, TypeInv
  <2>. QED
    BY <2>1, NoBatch
<1>5. CASE Connect(q)
  <2>1. got'[q] = <<>> /\ next'[q] = 0
    BY <1>1, <1>5 DEF Connect, Flow
  <2>2. CASE Answer(q, "error")
    <3>1. pc'[q] = "done"
      BY <2>2 DEF Answer, TypeInv
    <3>. QED
      BY <2>1, <3>1, NoBatch
  <2>3. CASE TakeStamp(q) /\ Goto(q, "collecting")
    <3>1. pc'[q] = "collecting" /\ stamp'[q] >= 1
      BY <2>3 DEF TakeStamp, Goto, TypeInv
    <3>. QED
      BY <2>1, <3>1 DEF Batch
  <2>. QED
    BY <1>5, <2>2, <2>3 DEF Connect
<1>6. CASE Collect(q)
  BY <1>6, CollectBatch
<1>7. CASE Disconnect(q)
  <2>1. /\ pc[q] = "collecting" /\ pc'[q] = "storing" /\ next[q] = Len(Collectors)
        /\ job' = job /\ got' = got /\ stamp' = stamp
    BY <1>7 DEF Disconnect, Goto, TypeInv
  <2>. QED
    BY <1>2, <2>1 DEF Batch
<1>8. CASE Store(q)
  <2>1. pc[q] = "storing" /\ job' = job /\ got' = got /\ stamp' = stamp
    BY <1>8 DEF Store
  <2>2. pc'[q] = "storing" \/ (pc'[q] = "done" /\ reply'[q] = "ok")
    BY <1>8, <2>1 DEF Store, Answer, TypeInv
  <2>. QED
    BY <1>2, <2>1, <2>2 DEF Batch
<1>9. CASE Read(q) \/ Save(q)
  <2>1. job'[q].kind = "evaluate"
    BY <1>1, <1>9 DEF Read, Save, Flow
  <2>. QED
    BY <2>1 DEF Batch
<1>10. CASE DatabaseError(q) \/ Crash
  <2>1. failures' # 0 /\ job' = job /\ got' = got /\ stamp' = stamp
    BY <1>10 DEF DatabaseError, Crash, Fails, TypeInv
  <2>2. pc'[q] \notin {"collecting", "storing"}
    BY <1>10 DEF DatabaseError, Crash, Answer, TypeInv
  <2>. QED
    BY <2>1, <2>2 DEF Batch
<1>11. CASE UNCHANGED vars
  BY <1>2, <1>11, BatchKept DEF vars
<1>. QED
  BY <1>3, <1>4, <1>5, <1>6, <1>7, <1>8, <1>9, <1>10, <1>11 DEF Next, Act

-------------------------------------------------------------------------------
(* A sample of a run is one of the metrics the run holds.                  *)
LEMMA SampleOfRun ==
    ASSUME TypeInv, FlowInv, HonestInv, \A r \in Requests : Batch(r),
           NEW x \in samples, x.run \in Requests
    PROVE  /\ job[x.run].kind = "collect" /\ pc[x.run] \in {"storing", "done"}
           /\ got[x.run] # <<>>
           /\ x.server = job[x.run].server
           /\ x.stamp = stamp[x.run] /\ stamp[x.run] >= 1
<1> DEFINE q == x.run
<1>1. x \in Rows(q) /\ got[q] \in Seq(Sample) /\ Honest(q) /\ Batch(q)
  BY DEF Rows, TypeInv, HonestInv
<1>2. job[q].kind = "collect" /\ pc[q] \in {"storing", "done"}
  BY <1>1 DEF Honest
<1>3. \E n \in Nat : Rows(q) = First(q, n) /\ n <= Len(got[q])
  <2>1. CASE pc[q] = "storing"
    BY <1>1, <1>2, <2>1 DEF Honest, TypeInv, FlowInv, Flow
  <2>2. CASE pc[q] = "done"
    BY <1>1, <1>2, <2>2 DEF Honest
  <2>. QED
    BY <1>2, <2>1, <2>2
<1>4. PICK i \in DOMAIN got[q] : x = got[q][i]
  BY <1>1, <1>3 DEF First
<1>. QED
  BY <1>1, <1>2, <1>4 DEF Batch

(* When nobody stores, every collection of a server is there as a whole.   *)
LEMMA WholeUnlessStoring ==
    ASSUME TypeInv, FlowInv, HonestInv, \A r \in Requests : Batch(r), failures = 0,
           NEW server, ~Storing(server)
    PROVE  Whole(server)
<1> SUFFICES ASSUME NEW x \in samples, x.server = server, x.run \in Requests,
                    NEW type \in ToSet(Collectors)
             PROVE  \E y \in SamplesOf(server, type) : y.run = x.run /\ y.stamp = x.stamp
  BY DEF Whole
<1> DEFINE q == x.run
<1>1. /\ job[q].kind = "collect" /\ pc[q] \in {"storing", "done"}
      /\ got[q] # <<>> /\ server = job[q].server /\ x.stamp = stamp[q]
  BY SampleOfRun
<1>2. pc[q] = "done"
  BY <1>1 DEF Storing
<1>3. /\ reply[q] = "ok" /\ Len(got[q]) = Len(Collectors)
      /\ \A i \in DOMAIN got[q] : /\ got[q][i].server = server
                                  /\ got[q][i].stamp = x.stamp
                                  /\ got[q][i].type = Collectors[i]
  BY <1>1, <1>2 DEF Batch
<1>4. /\ Rows(q) = First(q, Len(got[q])) /\ got[q] \in Seq(Sample)
  BY <1>1, <1>2, <1>3 DEF HonestInv, Honest, TypeInv
<1>5. PICK i \in DOMAIN Collectors : type = Collectors[i]
  BY DEF ToSet
<1>6. i \in DOMAIN got[q] /\ i \in 1 .. Len(got[q])
  BY <1>3, <1>4, MonitoringAssumption
<1>7. got[q][i] \in Rows(q)
  BY <1>4, <1>6 DEF First
<1>. QED
  BY <1>3, <1>5, <1>6, <1>7 DEF Rows, SamplesOf

(* Among whole collections the latest samples are those of the latest one. *)
LEMMA LatestAreOneRun ==
    ASSUME TypeInv, FlowInv, HonestInv, \A r \in Requests : Batch(r), StampsTell,
           NEW server, Whole(server), NEW read \in Seq(Sample), AllLatest(server, read)
    PROVE  OneRun(read)
<1> SUFFICES ASSUME NEW x \in ToSet(read), NEW y \in ToSet(read),
                    x.type \in ToSet(Collectors), y.type \in ToSet(Collectors),
                    x.run # Earlier
             PROVE  x.run = y.run
  BY DEF OneRun
<1>1. \A z \in ToSet(read) :
         /\ z \in Sample /\ z \in samples /\ z.server = server /\ z.stamp \in Nat
         /\ \A w \in SamplesOf(server, z.type) : w.stamp <= z.stamp
  <2> SUFFICES ASSUME NEW z \in ToSet(read)
               PROVE  /\ z \in Sample /\ z \in samples
                      /\ z.server = server /\ z.stamp \in Nat
                      /\ \A w \in SamplesOf(server, z.type) : w.stamp <= z.stamp
    OBVIOUS
  <2>1. z \in Latest(server, z.type) /\ z \in Sample
    BY DEF ToSet, AllLatest
  <2>. QED
    BY <2>1 DEF Latest, SamplesOf, Sample
<1>2. x.run \in Requests
  BY <1>1 DEF Sample
<1>3. x.stamp = stamp[x.run] /\ x.stamp >= 1
  BY <1>1, <1>2, SampleOfRun
<1>4. x.stamp <= y.stamp
  <2>1. \E w \in SamplesOf(server, y.type) : w.stamp = x.stamp
    BY <1>1, <1>2 DEF Whole
  <2>. QED
    BY <1>1, <2>1
<1>5. y.run \in Requests
  BY <1>1, <1>3, <1>4 DEF StampsTell
<1>6. y.stamp = stamp[y.run]
  BY <1>1, <1>5, SampleOfRun
<1>7. y.stamp <= x.stamp
  <2>1. \E w \in SamplesOf(server, x.type) : w.stamp = y.stamp
    BY <1>1, <1>5 DEF Whole
  <2>. QED
    BY <1>1, <2>1
<1>8. x.stamp = y.stamp /\ x.stamp # 0
  BY <1>1, <1>3, <1>4, <1>7
<1>9. stamp[x.run] = stamp[y.run] /\ stamp[x.run] # 0
  BY <1>3, <1>6, <1>8
<1>. QED
  BY <1>2, <1>5, <1>9 DEF StampsTell

-------------------------------------------------------------------------------
(* Once set, the mark of a disturbed evaluation stays.                     *)
LEMMA StaysDisturbed ==
    ASSUME [Next]_vars, DisturbedType, NEW q \in Requests, ~LookUp(q), disturbed[q]
    PROVE  disturbed'[q]
<1>1. ASSUME NEW r \in Requests, LookUp(r), r # q PROVE disturbed'[q]
  BY <1>1 DEF LookUp, DisturbedType
<1>2. ASSUME NEW r \in Requests, Store(r) PROVE disturbed'[q]
  BY <1>2 DEF Store, DisturbedType
<1>3. ASSUME ~\E r \in Requests : LookUp(r) \/ Store(r)
      PROVE  UNCHANGED disturbed
  BY <1>3 DEF Next, vars, history, Submit, Connect, Collect, Disconnect, Read, Save,
              DatabaseError, Crash
<1>. QED
  BY <1>1, <1>2, <1>3


(* A reading evaluation that stays undisturbed sees no new sample.         *)
LEMMA NothingNew ==
    ASSUME TypeInv, FlowInv, HonestInv, \A r \in Requests : Batch(r), [Next]_vars,
           NEW q \in Requests, pc[q] = "reading", ~disturbed'[q], NEW server,
           job[q].server = server
    PROVE  \A type : SamplesOf(server, type)' = SamplesOf(server, type)
<1>1. CASE samples' = samples
  BY <1>1 DEF SamplesOf
<1>2. ASSUME NEW r \in Requests, NEW i \in DOMAIN got[r], Store(r), Unstored(r),
             job[r].kind = "collect", samples' = samples \union {got[r][i]}
      PROVE  \A type : SamplesOf(server, type)' = SamplesOf(server, type)
  <2>1. got[r][i].server = job[r].server
    BY <1>2 DEF Batch
  <2>2. job[r].server # server
    BY <1>2 DEF Store
  <2>. QED
    BY <1>2, <2>1, <2>2 DEF SamplesOf
<1>. QED
  BY <1>1, <1>2, SamplesStep

(* What is said of a server depends on its samples only.                   *)
LEMMA SeenAsBefore ==
    ASSUME NEW server, NEW read,
           \A type : SamplesOf(server, type)' = SamplesOf(server, type)
    PROVE  /\ Whole(server) => Whole(server)'
           /\ AllLatest(server, read) =>
                 \A i \in DOMAIN read : read[i] \in Latest(server, read[i].type)'
<1>1. \A type : Latest(server, type)' = Latest(server, type)
  BY DEF Latest
<1>2. \A x \in samples' : x.server = server => x \in samples
  <2> SUFFICES ASSUME NEW x \in samples', x.server = server PROVE x \in samples
    OBVIOUS
  <2>1. x \in SamplesOf(server, x.type)'
    BY DEF SamplesOf
  <2>2. x \in SamplesOf(server, x.type)
    BY <2>1
  <2>. QED
    BY <2>2 DEF SamplesOf
<1>. QED
  BY <1>1, <1>2 DEF Whole, AllLatest

(* Every SELECT returns a latest sample of its type.                       *)
LEMMA ReadsLatest ==
    ASSUME TypeInv, FlowInv, NEW q \in Requests, Read(q), NEW server,
           job[q].server = server, AllLatest(server, got[q])
    PROVE  got'[q] \in Seq(Sample) /\ AllLatest(server, got'[q])
<1> DEFINE type == metric_types[next[q] + 1]
<1>1. got[q] \in Seq(Sample)
  BY DEF TypeInv
<1>2. CASE got'[q] = got[q]
  BY <1>1, <1>2
<1>3. ASSUME NEW x \in Latest(server, type), got'[q] = Append(got[q], x)
      PROVE  got'[q] \in Seq(Sample) /\ AllLatest(server, got'[q])
  <2>1. x \in Sample /\ x.type = type
    BY <1>3 DEF Latest, SamplesOf, TypeInv
  <2>2. /\ DOMAIN got'[q] = 1 .. Len(got[q]) + 1
        /\ DOMAIN got[q] = 1 .. Len(got[q])
        /\ \A i \in DOMAIN got[q] : got'[q][i] = got[q][i]
        /\ got'[q][Len(got[q]) + 1] = x
        /\ got'[q] \in Seq(Sample)
    BY <1>1, <1>3, <2>1
  <2>. HIDE DEF type
  <2>3. x \in Latest(server, x.type)
    BY <1>3, <2>1
  <2>. QED
    BY <1>1, <2>2, <2>3 DEF AllLatest
<1>. QED
  BY <1>2, <1>3 DEF Read, TypeInv

LEMMA UndisturbedStep ==
    ASSUME TypeInv, FlowInv, HonestInv, DisturbedType, [Next]_vars,
           \A r \in Requests : Batch(r), StampsTell,
           NEW q \in Requests, Undisturbed(q)
    PROVE  Undisturbed(q)'
<1> SUFFICES ASSUME job'[q].kind = "evaluate", failures' = 0, ~disturbed'[q]
             PROVE  Undisturbed(q)'
  BY DEF Undisturbed
<1>1. failures = 0 /\ Flow(q)
  BY NothingFailed DEF FlowInv
<1>2. ASSUME ~LookUp(q), job'[q] = job[q]
      PROVE  /\ job[q].kind = "evaluate" /\ ~disturbed[q]
             /\ pc[q] = "reading" =>
                   Whole(job[q].server) /\ AllLatest(job[q].server, got[q])
             /\ pc[q] \in {"saving", "done"} => OneRun(got[q])
  BY <1>1, <1>2, StaysDisturbed DEF Undisturbed
<1>3. ASSUME ~LookUp(q), job'[q] = job[q], got'[q] = got[q], pc'[q] = pc[q]
      PROVE  Undisturbed(q)'
  <2>1. PICK server, read : server = job[q].server /\ read = got[q]
    OBVIOUS
  <2>2. pc[q] \in {"saving", "done"} => OneRun(read)
    BY <1>2, <1>3, <2>1
  <2>3. ASSUME pc[q] = "reading"
        PROVE  /\ Whole(server)'
               /\ \A i \in DOMAIN read : read[i] \in Latest(server, read[i].type)'
    <3>1. Whole(server) /\ AllLatest(server, read)
      BY <1>2, <1>3, <2>1, <2>3
    <3>2. \A type : SamplesOf(server, type)' = SamplesOf(server, type)
      BY <2>1, <2>3, NothingNew
    <3>. QED
      BY <3>1, <3>2, SeenAsBefore
  <2>. QED
    BY <1>3, <2>1, <2>2, <2>3 DEF Undisturbed, AllLatest, OneRun
<1>4. ASSUME NEW r \in Requests, Act(r), q # r
      PROVE  Undisturbed(q)'
  <2>1. Same(q)
    BY <1>4, LocalStep
  <2>2. ~LookUp(q)
    BY <2>1 DEF Same, LookUp, Goto, Answer, TypeInv
  <2>. QED
    BY <1>3, <2>1, <2>2 DEF Same
<1>5. CASE Submit(q)
  <2>1. pc'[q] = "looking"
    BY <1>5 DEF Submit, Goto, TypeInv
  <2>. QED
    BY <2>1 DEF Undisturbed
<1>6. CASE LookUp(q)
  <2>1. /\ got'[q] = <<>> /\ job' = job /\ samples' = samples
        /\ job[q].kind = "evaluate"
    BY <1>1, <1>6 DEF LookUp, Flow, tables
  <2>2. CASE Answer(q, "not_found")
    <3>1. pc'[q] = "done"
      BY <2>2 DEF Answer, TypeInv
    <3>2. OneRun(<<>>)
      BY DEF OneRun, ToSet
    <3>. QED
      BY <2>1, <3>1, <3>2 DEF Undisturbed, OneRun
  <2>3. CASE Goto(q, "reading") /\ disturbed' = [disturbed EXCEPT ![q] = Storing(job[q].server)]
    <3>1. pc'[q] = "reading" /\ ~Storing(job[q].server)
      BY <2>3 DEF Goto, TypeInv, DisturbedType
    <3>2. Whole(job[q].server)
      BY <1>1, <3>1, WholeUnlessStoring
    <3>3. Whole(job[q].server)'
      BY <2>1, <3>2 DEF Whole, SamplesOf
    <3>. QED
      BY <2>1, <3>1, <3>3 DEF Undisturbed, AllLatest
  <2>. QED
    BY <1>6, <2>1, <2>2, <2>3 DEF LookUp
<1>7. CASE Connect(q) \/ Collect(q) \/ Disconnect(q) \/ Store(q)
  <2>1. job'[q].kind = "collect"
    BY <1>1, <1>7 DEF Connect, Collect, Disconnect, Store, Flow
  <2>. QED
    BY <2>1
<1>8. CASE Read(q)
  <2>1. /\ pc[q] = "reading" /\ job' = job /\ samples' = samples /\ ~LookUp(q)
    BY <1>8 DEF Read, LookUp, tables
  <2>2. PICK server, read : server = job[q].server /\ read = got'[q]
    OBVIOUS
  <2>3. Whole(server) /\ AllLatest(server, got[q])
    BY <1>2, <2>1, <2>2
  <2>4. read \in Seq(Sample) /\ AllLatest(server, read)
    BY <1>8, <2>2, <2>3, ReadsLatest
  <2>5. OneRun(read)
    BY <2>3, <2>4, LatestAreOneRun
  <2>6. Whole(server)' /\ AllLatest(server, got[q])'
    BY <2>1, <2>2, <2>3, <2>4 DEF Whole, AllLatest, Latest, SamplesOf
  <2>. QED
    BY <2>1, <2>2, <2>4, <2>5, <2>6 DEF Undisturbed, OneRun, AllLatest, Latest, SamplesOf, Whole
<1>9. CASE Save(q)
  <2>1. /\ pc[q] = "saving" /\ pc'[q] = "done" /\ job' = job /\ got' = got /\ ~LookUp(q)
    BY <1>9 DEF Save, Answer, LookUp, TypeInv
  <2>2. OneRun(got[q])
    BY <1>2, <2>1
  <2>. QED
    BY <2>1, <2>2 DEF Undisturbed, OneRun
<1>10. CASE DatabaseError(q) \/ Crash
  BY <1>10 DEF DatabaseError, Crash, Fails, TypeInv
<1>11. CASE UNCHANGED vars
  <2>1. ~LookUp(q)
    BY <1>11 DEF vars, LookUp, Goto, Answer, TypeInv
  <2>. QED
    BY <1>3, <1>11, <2>1 DEF vars
<1>. QED
  BY <1>4, <1>5, <1>6, <1>7, <1>8, <1>9, <1>10, <1>11 DEF Next, Act

(* Although an evaluation reads sample by sample, when nothing fails and   *)
(* no collection of the server stores meanwhile, what it reads of the      *)
(* registered collectors comes from one collection.                        *)
THEOREM QuietReadsAreSnapshots == Spec => []QuietReportsAreSnapshots
<1> DEFINE Inv == /\ TypeInv /\ FlowInv /\ HonestInv /\ DisturbedType /\ FreshInv
                  /\ SnapshotInv
<1>1. Init => Inv
  <2>1. Init => HonestInv /\ DisturbedType
    BY MonitoringAssumption DEF Init, HonestInv, Honest, Rows, NoJob, DisturbedType
  <2>2. Init => FreshInv
    BY DEF Init, FreshInv, Fresh, Reported, NoJob
  <2>3. Init => SnapshotInv
    BY MonitoringAssumption DEF Init, SnapshotInv, Batch, StampsTell, Undisturbed, NoJob
  <2>. QED
    BY <2>1, <2>2, <2>3, TypeInit, FlowInit
<1>2. Inv /\ [Next]_vars => Inv'
  <2> SUFFICES ASSUME Inv, [Next]_vars PROVE Inv'
    OBVIOUS
  <2>1. (TypeInv /\ FlowInv /\ HonestInv /\ DisturbedType /\ FreshInv)'
    BY TypeStep, FlowStep, HonestStep, DisturbedStep, FreshStep
  <2>2. SnapshotInv'
    BY BatchStep, StampsTellStep, UndisturbedStep DEF SnapshotInv
  <2>. QED
    BY <2>1, <2>2
<1>3. Inv => QuietReportsAreSnapshots
  <2> SUFFICES ASSUME Inv, failures = 0, NEW p \in reports, ~disturbed[p.by]
               PROVE  OneRun(got[p.by])
    BY DEF QuietReportsAreSnapshots, OneRun
  <2>. QED
    BY DEF FreshInv, Reported, SnapshotInv, Undisturbed
<1>. QED
  BY <1>1, <1>2, <1>3, PTL DEF Spec
===============================================================================
