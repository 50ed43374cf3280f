---------------------------- MODULE IncidentService ----------------------------
(***************************************************************************)
(* IncidentService (src/application/services/incident_service.py) over the *)
(* incidents and incident_timeline tables, with the API handlers that call *)
(* it.  Every request has its own AsyncSession and runs as a coroutine, so *)
(* requests interleave at every await on the database:                     *)
(*                                                                         *)
(*   create    look up -> add, commit -> record -> answer                  *)
(*   update    get, transition -> merge -> commit -> answer                *)
(*                                                                         *)
(* The statements of a request run in READ COMMITTED transactions, without *)
(* row versions and without SELECT ... FOR UPDATE.  Reads that answer at   *)
(* once (get, list, get_timeline) change nothing and are left out.         *)
(***************************************************************************)
EXTENDS Incident, FiniteSets

CONSTANTS
    Ids,              \* primary keys the incidents table may allocate
    NoRow,            \* the table has no row with that key
    Existing,         \* incidents opened before the behaviour starts
    Begun,            \* the statuses they may have by then
    Overlap,          \* whether requests may overlap
    MaxFailures       \* bound on database errors and process crashes

ASSUME NoRowAssumption == NoRow \notin Row
ASSUME ExistingAssumption == Existing \subseteq Ids /\ Begun \subseteq Statuses
ASSUME FlagsAssumption ==
    Overlap \in BOOLEAN /\ MaxFailures \in Nat

VARIABLES
    incidents,   \* the incidents table
    timeline,    \* the incident_timeline table
    pc,          \* where each request is
    call,        \* what each request asked for
    entity,      \* the detached aggregate the handler works on
    old,         \* update_status's old_status
    loaded,      \* the row merge() loaded and copied the aggregate onto
    reply,       \* what the client was answered
    failures,    \* failures so far
    stored       \* history: the statuses each row has been committed with

requestVars == <<call, entity, old, loaded>>
vars == <<incidents, timeline, pc, call, entity, old, loaded, reply,
          failures, stored>>

CreateKinds == {"create", "create_from_health"}
UpdateKinds == {"assign", "update_status", "resolve", "close"}

(* A create names no incident; only update_status names a target freely.   *)
NoCall == [kind |-> "none", id |-> Null, target |-> "OPEN"]
Creates == [kind : CreateKinds, id : {Null}, target : {"OPEN"}]
Updates ==
    [kind : {"assign"}, id : Ids, target : {"OPEN"}]
      \union [kind : {"update_status"}, id : Ids, target : Statuses]
      \union [kind : {"resolve"}, id : Ids, target : {"RESOLVED"}]
      \union [kind : {"close"}, id : Ids, target : {"CLOSED"}]

Waiting == {"looking_up", "adding", "getting", "merging", "committing",
            "recording", "answering"}
Replies == {"none", "ok", "not_found", "bad_request", "error", "lost"}
Events == {"CREATED", "ASSIGNED", "STATUS_CHANGED", "RESOLVED", "CLOSED"}

Entry == [incident : Ids, event_type : Events,
          old : Statuses, new : Statuses, by : Value]

CreatedEntry(i, r) == [incident |-> i, event_type |-> "CREATED",
                       old |-> "OPEN", new |-> "OPEN", by |-> r]

-------------------------------------------------------------------------------
(* The ladder as the history of the stored rows shows it.                  *)
Climbed == INSTANCE IncidentLifecycle WITH reached <- stored

(* An incident that earlier requests, one after the other, took to s.      *)
Brought(s) ==
    LET Stamp(rung) == IF rung \in Climbed!UpTo(s) THEN Earlier ELSE Null IN
    [NewIncident EXCEPT !.status = s,
                        !.acknowledged_at = Stamp("ACKNOWLEDGED"),
                        !.resolved_at = Stamp("RESOLVED"),
                        !.closed_at = Stamp("CLOSED")]

Init ==
    /\ \E status \in [Existing -> Begun] :
        /\ incidents = [i \in Ids |->
                IF i \in Existing THEN Brought(status[i]) ELSE NoRow]
        /\ timeline = {CreatedEntry(i, Earlier) : i \in Existing}
        /\ stored = [i \in Ids |->
                IF i \in Existing THEN Climbed!UpTo(status[i]) ELSE {}]
    /\ pc = [r \in Requests |-> "idle"]
    /\ call = [r \in Requests |-> NoCall]
    /\ entity = [r \in Requests |-> NewIncident]
    /\ old = [r \in Requests |-> "OPEN"]
    /\ loaded = [r \in Requests |-> NewIncident]
    /\ reply = [r \in Requests |-> "none"]
    /\ failures = 0

Goto(r, label) ==
    /\ pc' = [pc EXCEPT ![r] = label]
    /\ UNCHANGED reply

Answer(r, response) ==
    /\ pc' = [pc EXCEPT ![r] = "done"]
    /\ reply' = [reply EXCEPT ![r] = response]

(* The bound Ids leaves a key for every create under way.                  *)
RoomToCreate ==
    Cardinality({q \in Requests : pc[q] \in {"looking_up", "adding"}})
      < Cardinality({i \in Ids : incidents[i] = NoRow})

(* A client's request reaches its handler.                                 *)
Submit(r) ==
    /\ pc[r] = "idle"
    /\ Overlap \/ \A q \in Requests : pc[q] \notin Waiting
    /\ \/ /\ RoomToCreate
          /\ \E c \in Creates : call' = [call EXCEPT ![r] = c]
          /\ Goto(r, "looking_up")
       \/ /\ \E c \in Updates : call' = [call EXCEPT ![r] = c]
          /\ Goto(r, "getting")
    /\ UNCHANGED <<incidents, timeline, entity, old, loaded, failures, stored>>

(* create_incident finds the server or not; create_incident_from_health    *)
(* finds the health snapshot and its server or not, and the factory        *)
(* refuses a HEALTHY snapshot with a ValueError.  Neither table shrinks.   *)
LookUp(r) ==
    /\ pc[r] = "looking_up"
    /\ \/ /\ entity' = [entity EXCEPT ![r] = NewIncident]
          /\ Goto(r, "adding")
       \/ /\ Answer(r, "not_found")
          /\ UNCHANGED entity
       \/ /\ call[r].kind = "create_from_health"
          /\ Answer(r, "bad_request")
          /\ UNCHANGED entity
    /\ UNCHANGED <<incidents, timeline, call, old, loaded, failures, stored>>

(* Mutant: the entry is recorded for the unsaved aggregate, whose id is None.*)
AddIncidentForgettingId(r) ==
    /\ pc[r] = "adding"
    /\ \E i \in Ids :
        /\ incidents[i] = NoRow
        /\ incidents' = [incidents EXCEPT ![i] = entity[r]]
        /\ stored' = [stored EXCEPT ![i] = {entity[r].status}]
    /\ Goto(r, "recording")
    /\ UNCHANGED <<timeline, call, entity, old, loaded, failures>>

(* Mutant: create_incident_from_health does not record the creation.       *)
AddIncidentQuietly(r) ==
    /\ pc[r] = "adding"
    /\ \E i \in Ids :
        /\ incidents[i] = NoRow
        /\ incidents' = [incidents EXCEPT ![i] = entity[r]]
        /\ stored' = [stored EXCEPT ![i] = {entity[r].status}]
        /\ call' = [call EXCEPT ![r].id = i]
    /\ Goto(r, IF call[r].kind = "create" THEN "recording" ELSE "answering")
    /\ UNCHANGED <<timeline, entity, old, loaded, failures>>

(* save() of an aggregate without id: add, commit, refresh.  The database  *)
(* picks a key that was never used.                                        *)
AddIncident(r) ==
    /\ pc[r] = "adding"
    /\ \E i \in Ids :
        /\ incidents[i] = NoRow
        /\ incidents' = [incidents EXCEPT ![i] = entity[r]]
        /\ stored' = [stored EXCEPT ![i] = {entity[r].status}]
        /\ call' = [call EXCEPT ![r].id = i]
    /\ Goto(r, "recording")
    /\ UNCHANGED <<timeline, entity, old, loaded, failures>>

(* get_incident, then the change the operation makes to the aggregate:     *)
(* nothing is awaited between the two.  transition_to may raise ValueError.*)
Accepted(r, inc) ==
    call[r].kind = "assign" \/ CanTransition(inc.status, call[r].target)

(* Mutant: resolving closes the incident in the same call.                 *)
ChangedResolveCloses(r, inc) ==
    CASE call[r].kind = "assign" -> [inc EXCEPT !.assigned_to = r]
      [] call[r].kind = "resolve" ->
            [TransitionTo(TransitionTo(inc, "RESOLVED", r), "CLOSED", r)
                EXCEPT !.resolution_notes = r]
      [] OTHER -> TransitionTo(inc, call[r].target, r)

Changed(r, inc) ==
    CASE call[r].kind = "assign" -> [inc EXCEPT !.assigned_to = r]
      [] call[r].kind = "resolve" ->
            [TransitionTo(inc, "RESOLVED", r) EXCEPT !.resolution_notes = r]
      [] OTHER -> TransitionTo(inc, call[r].target, r)

GetAndChange(r) ==
    LET inc == incidents[call[r].id] IN
    /\ pc[r] = "getting"
    /\ \/ /\ inc = NoRow
          /\ Answer(r, "not_found")
          /\ UNCHANGED <<entity, old>>
       \/ /\ inc # NoRow
          /\ ~Accepted(r, inc)
          /\ Answer(r, "bad_request")
          /\ UNCHANGED <<entity, old>>
       \/ /\ inc # NoRow
          /\ Accepted(r, inc)
          /\ entity' = [entity EXCEPT ![r] = Changed(r, inc)]
          /\ old' = [old EXCEPT ![r] = inc.status]
          /\ Goto(r, "merging")
    /\ UNCHANGED <<incidents, timeline, call, loaded, failures, stored>>

(* The entry each operation hands to _record_timeline.                     *)
EntryOf(r) ==
    LET i == call[r].id IN
    CASE call[r].kind \in CreateKinds -> CreatedEntry(i, r)
      [] call[r].kind = "update_status" ->
            [incident |-> i, event_type |-> "STATUS_CHANGED",
             old |-> old[r], new |-> call[r].target, by |-> r]
      [] call[r].kind = "assign" ->
            [incident |-> i, event_type |-> "ASSIGNED",
             old |-> "OPEN", new |-> "OPEN", by |-> r]
      [] OTHER ->
            [incident |-> i, event_type |-> call[r].target,
             old |-> old[r], new |-> call[r].target, by |-> r]

(* Mutant: the entry is written before the incident is saved.              *)
MergeAfterRecording(r) ==
    /\ pc[r] = "merging"
    /\ loaded' = [loaded EXCEPT ![r] = incidents[call[r].id]]
    /\ timeline' = timeline \union {EntryOf(r)}
    /\ Goto(r, "committing")
    /\ UNCHANGED <<incidents, call, entity, old, failures, stored>>

(* save() of an aggregate with id, first await: session.merge.  The object *)
(* get_by_id loaded is already garbage, since the identity map refers to   *)
(* it weakly, so merge selects the row again and copies every attribute of *)
(* the aggregate onto what it finds.  Rows are never deleted.              *)
Merge(r) ==
    /\ pc[r] = "merging"
    /\ loaded' = [loaded EXCEPT ![r] = incidents[call[r].id]]
    /\ Goto(r, "committing")
    /\ UNCHANGED <<incidents, timeline, call, entity, old, failures, stored>>

(* The flush of the commit writes the columns merge() changed, and those   *)
(* only, onto the row as it is now.                                        *)
Written(new, base, current) ==
    LET Col(n, b, c) == IF n # b THEN n ELSE c IN
    [status |-> Col(new.status, base.status, current.status),
     acknowledged_at |->
        Col(new.acknowledged_at, base.acknowledged_at, current.acknowledged_at),
     resolved_at |-> Col(new.resolved_at, base.resolved_at, current.resolved_at),
     closed_at |-> Col(new.closed_at, base.closed_at, current.closed_at),
     assigned_to |-> Col(new.assigned_to, base.assigned_to, current.assigned_to),
     resolution_notes |->
        Col(new.resolution_notes, base.resolution_notes, current.resolution_notes)]

(* Mutant: the client is told of success though nothing was recorded.      *)
CommitAndAnswer(r) ==
    LET i == call[r].id
        row == Written(entity[r], loaded[r], incidents[i])
    IN  /\ pc[r] = "committing"
        /\ incidents' = [incidents EXCEPT ![i] = row]
        /\ stored' = [stored EXCEPT ![i] = @ \union {row.status}]
        /\ Answer(r, "ok")
        /\ UNCHANGED <<timeline, call, entity, old, loaded, failures>>

(* Second and third await: commit, then refresh.  The refresh is one of the*)
(* transient object that was given to merge(), and SQLAlchemy raises       *)
(* InvalidRequestError for an object that is not in the session: the row is*)
(* committed, the client is told 500, and _record_timeline is not reached. *)
Commit(r) ==
    LET i == call[r].id
        row == Written(entity[r], loaded[r], incidents[i])
    IN  /\ pc[r] = "committing"
        /\ incidents' = [incidents EXCEPT ![i] = row]
        /\ stored' = [stored EXCEPT ![i] = @ \union {row.status}]
        /\ Answer(r, "error")
        /\ UNCHANGED <<timeline, call, entity, old, loaded, failures>>

(* _record_timeline: a transaction of its own, after the incident's.  Only *)
(* a create gets here.                                                     *)
Record(r) ==
    /\ pc[r] = "recording"
    /\ timeline' = timeline \union {EntryOf(r)}
    /\ Goto(r, "answering")
    /\ UNCHANGED <<incidents, call, entity, old, loaded, failures, stored>>

(* The refresh of the entry succeeds and the handler returns the incident. *)
Return(r) ==
    /\ pc[r] = "answering"
    /\ Answer(r, "ok")
    /\ UNCHANGED <<incidents, timeline, requestVars, failures, stored>>

(* An await on the database raises (connection lost, pool timeout): the    *)
(* handler or the server turns it into a 500; what was committed stays.    *)
DatabaseError(r) ==
    /\ failures < MaxFailures
    /\ pc[r] \in Waiting
    /\ failures' = failures + 1
    /\ Answer(r, "error")
    /\ UNCHANGED <<incidents, timeline, requestVars, stored>>

(* The API process dies and is started again: requests under way are gone. *)
Crash ==
    /\ failures < MaxFailures
    /\ \E r \in Requests : pc[r] \in Waiting
    /\ failures' = failures + 1
    /\ pc' = [r \in Requests |-> IF pc[r] \in Waiting THEN "done" ELSE pc[r]]
    /\ reply' = [r \in Requests |->
                    IF pc[r] \in Waiting THEN "lost" ELSE reply[r]]
    /\ UNCHANGED <<incidents, timeline, requestVars, stored>>

-------------------------------------------------------------------------------
(* What the event loop and the database do for request r.                  *)
Step(r) ==
    \/ LookUp(r) \/ AddIncident(r)
    \/ GetAndChange(r) \/ Merge(r) \/ Commit(r)
    \/ Record(r) \/ Return(r)

Done == \A r \in Requests : pc[r] = "done"

Next ==
    \/ \E r \in Requests : Submit(r) \/ Step(r) \/ DatabaseError(r)
    \/ Crash
    \/ Done /\ UNCHANGED vars

Spec == Init /\ [][Next]_vars

-------------------------------------------------------------------------------
TypeOK ==
    /\ incidents \in [Ids -> Row \union {NoRow}]
    /\ timeline \subseteq Entry
    /\ pc \in [Requests -> Waiting \union {"idle", "done"}]
    /\ call \in [Requests -> {NoCall} \union Updates
                     \union [kind : CreateKinds, id : Ids \union {Null},
                             target : {"OPEN"}]]
    /\ entity \in [Requests -> Row]
    /\ old \in [Requests -> Statuses]
    /\ loaded \in [Requests -> Row]
    /\ reply \in [Requests -> Replies]
    /\ failures \in 0 .. MaxFailures
    /\ stored \in [Ids -> SUBSET Statuses]

(* The ladder as the rows stand: a row has reached its status and below.   *)
Standing ==
    INSTANCE IncidentLifecycle WITH
        reached <- [i \in Ids |-> IF incidents[i] = NoRow THEN {}
                                  ELSE Climbed!UpTo(incidents[i].status)]

(* However requests overlap, fail or are killed, an incident is never      *)
(* committed with a status unless every lower rung was committed before:   *)
(* transition_to sees only its own, possibly stale, copy of the status,    *)
(* and stale copies can pull a row down but never let it jump up.          *)
NoRungSkipped ==
    \A i \in Ids : \A s \in stored[i] : Climbed!Below(s) \subseteq stored[i]

(* The same as a refinement: rungs are added one by one, bottom up, to the *)
(* ones an incident has stood on, and none is forgotten.                   *)
ClimbsTheLadder == Climbed!Spec

(* A stamp or text of inc belongs to a status in S.                        *)
EarnedIn(inc, S) ==
    /\ inc.acknowledged_at # Null => "ACKNOWLEDGED" \in S
    /\ inc.resolved_at # Null => "RESOLVED" \in S
    /\ inc.resolution_notes # Null => "RESOLVED" \in S
    /\ inc.closed_at # Null => "CLOSED" \in S

(* A time stamp or resolution text in a row was earned: the row had the    *)
(* status that goes with it, even when merges of stale copies mixed the    *)
(* columns of several requests.                                            *)
StampsEarned ==
    \A i \in Ids : incidents[i] # NoRow => EarnedIn(incidents[i], stored[i])

(* The timeline, written in a transaction of its own, reports no change    *)
(* that was not committed: the incident exists, the status an entry        *)
(* announces was stored, and STATUS_CHANGED names neighbouring rungs.      *)
TimelineTruthful ==
    \A e \in timeline :
        /\ incidents[e.incident] # NoRow
        /\ e.event_type \in {"RESOLVED", "CLOSED"} =>
                e.event_type \in stored[e.incident]
        /\ e.event_type = "STATUS_CHANGED" =>
                /\ e.new \in stored[e.incident]
                /\ Climbed!Below(e.new) = Climbed!UpTo(e.old)

Traces(r, inc) ==
    r \in {inc.acknowledged_at, inc.resolved_at, inc.closed_at,
           inc.assigned_to, inc.resolution_notes}

(* The answer tells the client the truth: a request answered with success  *)
(* has its entry in the timeline, and one that was refused (404, 400) left *)
(* no entry and no value in any row.                                       *)
RepliesHonest ==
    \A r \in Requests :
        /\ reply[r] = "ok" => \E e \in timeline : e.by = r
        /\ reply[r] \in {"not_found", "bad_request"} =>
                /\ \A e \in timeline : e.by # r
                /\ \A i \in Ids : incidents[i] # NoRow => ~Traces(r, incidents[i])

(* An incident without a CREATED entry has a reason: the request that made *)
(* it is about to write the entry, or was not answered with success because*)
(* the database or the process failed between the two commits.             *)
CreationsRecorded ==
    \A i \in Ids :
        incidents[i] # NoRow /\ (\A e \in timeline : e # CreatedEntry(i, e.by)) =>
            \E r \in Requests :
                /\ call[r].kind \in CreateKinds /\ call[r].id = i
                /\ \/ pc[r] = "recording"
                   \/ failures > 0 /\ reply[r] \in {"error", "lost"}

Quiet == \A r \in Requests : pc[r] \notin Waiting

(* What the docstrings of the service say of its timeline: when no request *)
(* is under way and nothing failed, every incident has its CREATED entry,  *)
(* every later status it was stored with is announced, and so is its owner.*)
TimelineComplete ==
    Quiet /\ failures = 0 =>
        \A i \in Ids : incidents[i] # NoRow =>
            /\ \E e \in timeline : e.incident = i /\ e.event_type = "CREATED"
            /\ \A s \in stored[i] \ {"OPEN"} :
                  \E e \in timeline : e.incident = i /\ e.new = s
            /\ incidents[i].assigned_to # Null =>
                  \E e \in timeline : e.incident = i /\ e.event_type = "ASSIGNED"
                                      /\ e.by = incidents[i].assigned_to

-------------------------------------------------------------------------------
(* What holds when requests do not overlap.                                *)

(* A row carries exactly the stamps of the rungs it stands on or above.    *)
StampsExact ==
    \A i \in Ids : incidents[i] # NoRow =>
        LET rungs == Climbed!UpTo(incidents[i].status) IN
        /\ incidents[i].acknowledged_at # Null <=> "ACKNOWLEDGED" \in rungs
        /\ incidents[i].resolved_at # Null <=> "RESOLVED" \in rungs
        /\ incidents[i].closed_at # Null <=> "CLOSED" \in rungs

(* The row itself climbs the ladder, one rung per step, never down, and no *)
(* operation clears a column on the way or changes a stamp: owner, stamps  *)
(* and notes, once set, stay set.                                          *)
RowsClimb ==
    Standing!Spec /\
    [][\A i \in Ids : incidents[i] # NoRow =>
          /\ incidents'[i] # NoRow
          /\ incidents[i].assigned_to # Null => incidents'[i].assigned_to # Null
          /\ \A c \in {"acknowledged_at", "resolved_at", "closed_at",
                        "resolution_notes"} :
                incidents[i][c] # Null => incidents'[i][c] = incidents[i][c]
      ]_vars

-------------------------------------------------------------------------------
(* What the state machine's tests and docstrings say of a stored incident: *)
(* its status changes only along an edge of transition_to's table.         *)
StatusFollowsTable ==
    [][\A i \in Ids :
          incidents[i] # NoRow /\ incidents'[i].status # incidents[i].status
            => CanTransition(incidents[i].status, incidents'[i].status)
      ]_incidents

-------------------------------------------------------------------------------
(* The inductive strengthening of TypeOK, NoRungSkipped and StampsEarned.  *)

(* Where a request is says what it was asked and that its row exists.      *)
PhaseOK ==
    \A r \in Requests :
        /\ pc[r] \in {"looking_up", "adding"} => call[r].kind \in CreateKinds
        /\ pc[r] = "adding" => entity[r] = NewIncident
        /\ pc[r] \in {"getting", "merging", "committing"} => call[r] \in Updates
        /\ pc[r] \in {"merging", "committing", "recording", "answering"} =>
                /\ call[r].kind # "none"
                /\ call[r].id \in Ids
                /\ incidents[call[r].id] # NoRow

(* The history holds the row's present status.                             *)
HistoryOK ==
    \A i \in Ids :
        IF incidents[i] = NoRow THEN stored[i] = {}
        ELSE incidents[i].status \in stored[i]

(* A request about to save carries a status all of whose lower rungs were  *)
(* stored, however stale its copy is, and stamps of statuses that were     *)
(* stored or that it is about to store; what merge() loaded was stored.    *)
CarriedBy(r) ==
    /\ pc[r] \in {"merging", "committing"} =>
          /\ Climbed!Below(entity[r].status) \subseteq stored[call[r].id]
          /\ EarnedIn(entity[r], stored[call[r].id] \union {entity[r].status})
    /\ pc[r] = "committing" => loaded[r].status \in stored[call[r].id]

CarriedOK == \A r \in Requests : CarriedBy(r)

IInv ==
    /\ TypeOK /\ PhaseOK /\ HistoryOK /\ CarriedOK
    /\ NoRungSkipped /\ StampsEarned
===============================================================================
