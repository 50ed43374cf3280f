------------------------- MODULE IncidentServiceProofs -------------------------
(***************************************************************************)
(* Theorems about IncidentService, for every set of requests and keys, any *)
(* number of failures, with or without overlap.                            *)
(***************************************************************************)
EXTENDS IncidentService, TLAPS

USE NullAssumption, NoRowAssumption, ExistingAssumption, FlagsAssumption

(* The ladder's rungs are the statuses, and Below is what the numbers say. *)
LEMMA RungFacts ==
    /\ Climbed!Rungs = Statuses
    /\ Climbed!Below("OPEN") = {}
    /\ Climbed!Below("ACKNOWLEDGED") = {"OPEN"}
    /\ Climbed!Below("IN_PROGRESS") = {"OPEN", "ACKNOWLEDGED"}
    /\ Climbed!Below("RESOLVED") = {"OPEN", "ACKNOWLEDGED", "IN_PROGRESS"}
    /\ Climbed!Below("CLOSED") =
            {"OPEN", "ACKNOWLEDGED", "IN_PROGRESS", "RESOLVED"}
  BY DEF Climbed!Rungs, Statuses, Climbed!Below, Climbed!Rank

(* The rungs up to one of them have all their lower rungs.                 *)
LEMMA UpToIsClosed ==
    ASSUME NEW t \in Statuses, NEW s \in Climbed!UpTo(t)
    PROVE  s \in Statuses /\ Climbed!Below(s) \subseteq Climbed!UpTo(t)
  BY RungFacts DEF Climbed!UpTo, Statuses

(* An edge of transition_to's table joins neighbouring rungs.              *)
LEMMA EdgeFacts ==
    ASSUME NEW s \in Statuses, NEW t \in Statuses, CanTransition(s, t)
    PROVE  Climbed!Below(t) = Climbed!UpTo(s)
  BY RungFacts DEF CanTransition, Allowed, Climbed!UpTo, Statuses

(* Whatever transition_to returns is an incident, in the target status.    *)
LEMMA TransitionToIsRow ==
    ASSUME NEW inc \in Row, NEW t \in Statuses, NEW now \in Value
    PROVE  /\ TransitionTo(inc, t, now) \in Row
           /\ TransitionTo(inc, t, now).status = t
  BY DEF TransitionTo, Row, Statuses

(* Merged columns make an incident, in a status of one of the two sides.   *)
LEMMA WrittenIsRow ==
    ASSUME NEW new \in Row, NEW base \in Row, NEW current \in Row
    PROVE  /\ Written(new, base, current) \in Row
           /\ Written(new, base, current).status \in {new.status, current.status}
  BY DEF Written, Row

-------------------------------------------------------------------------------
LEMMA NewIncidentIsRow == NewIncident \in Row
  BY DEF NewIncident, Row, Value, Statuses

LEMMA BroughtIsRow ==
    ASSUME NEW s \in Statuses PROVE Brought(s) \in Row /\ Brought(s).status = s
  BY DEF Brought, NewIncident, Row, Value

(* The aggregate an accepted operation saves, and its status.              *)
LEMMA ChangedIsRow ==
    ASSUME NEW r \in Requests, NEW inc \in Row,
           call[r] \in Updates, Accepted(r, inc)
    PROVE  /\ Changed(r, inc) \in Row
           /\ \/ Changed(r, inc).status = inc.status
              \/ CanTransition(inc.status, Changed(r, inc).status)
<1>1. r \in Value /\ call[r].target \in Statuses /\ "RESOLVED" \in Statuses
  BY DEF Value, Updates, Statuses
<1>2. CASE call[r].kind = "assign"
  BY <1>1, <1>2 DEF Changed, Row
<1>3. CASE call[r].kind = "resolve"
  <2>1. call[r].target = "RESOLVED"
    BY <1>3 DEF Updates
  <2>2. /\ TransitionTo(inc, "RESOLVED", r) \in Row
        /\ TransitionTo(inc, "RESOLVED", r).status = "RESOLVED"
    BY <1>1, TransitionToIsRow
  <2>3. Changed(r, inc) = [TransitionTo(inc, "RESOLVED", r)
                             EXCEPT !.resolution_notes = r]
    BY <1>3 DEF Changed
  <2>4. Changed(r, inc) \in Row /\ Changed(r, inc).status = "RESOLVED"
    BY <1>1, <2>2, <2>3 DEF Row
  <2>. QED
    BY <1>3, <2>1, <2>4 DEF Accepted
<1>4. CASE call[r].kind \notin {"assign", "resolve"}
  <2>1. Changed(r, inc) = TransitionTo(inc, call[r].target, r)
    BY <1>4 DEF Changed
  <2>. QED
    BY <1>1, <1>4, <2>1, TransitionToIsRow DEF Accepted
<1>. QED
  BY <1>2, <1>3, <1>4

(* The entry recorded by a request whose incident is known.                *)
LEMMA EntryOfIsEntry ==
    ASSUME TypeOK, NEW r \in Requests,
           call[r].kind # "none", call[r].id \in Ids
    PROVE  EntryOf(r) \in Entry
<1>1. r \in Value /\ old[r] \in Statuses
  BY DEF TypeOK, Value
<1>2. CASE call[r].kind \in CreateKinds
  <2>1. EntryOf(r) = CreatedEntry(call[r].id, r)
    BY <1>2 DEF EntryOf, CreateKinds
  <2>. QED
    BY <1>1, <2>1 DEF CreatedEntry, Entry, Events, Statuses
<1>3. CASE call[r].kind \notin CreateKinds
  <2>1. call[r] \in Updates
    BY <1>3 DEF TypeOK, NoCall
  <2>2. CASE call[r].kind = "update_status"
    <3>1. EntryOf(r) = [incident |-> call[r].id, event_type |-> "STATUS_CHANGED",
                        old |-> old[r], new |-> call[r].target, by |-> r]
      BY <1>3, <2>2 DEF EntryOf
    <3>2. call[r].target \in Statuses
      BY <2>1 DEF Updates, Statuses
    <3>. QED
      BY <1>1, <3>1, <3>2 DEF Entry, Events
  <2>3. CASE call[r].kind = "assign"
    <3>1. EntryOf(r) = [incident |-> call[r].id, event_type |-> "ASSIGNED",
                        old |-> "OPEN", new |-> "OPEN", by |-> r]
      BY <1>3, <2>3 DEF EntryOf
    <3>. QED
      BY <1>1, <3>1 DEF Entry, Events, Statuses
  <2>4. CASE call[r].kind \notin {"update_status", "assign"}
    <3>1. EntryOf(r) = [incident |-> call[r].id, event_type |-> call[r].target,
                        old |-> old[r], new |-> call[r].target, by |-> r]
      BY <1>3, <2>4 DEF EntryOf
    <3>2. call[r].target \in {"RESOLVED", "CLOSED"}
      BY <2>1, <2>4 DEF Updates
    <3>. QED
      BY <1>1, <3>1, <3>2 DEF Entry, Events, Statuses
  <2>. QED
    BY <2>2, <2>3, <2>4
<1>. QED
  BY <1>2, <1>3

-------------------------------------------------------------------------------
LEMMA InitTypeOK == Init => TypeOK
<1> SUFFICES ASSUME Init PROVE TypeOK
  OBVIOUS
<1>1. PICK status \in [Existing -> Begun] :
        /\ incidents = [i \in Ids |->
                IF i \in Existing THEN Brought(status[i]) ELSE NoRow]
        /\ timeline = {CreatedEntry(i, Earlier) : i \in Existing}
        /\ stored = [i \in Ids |->
                IF i \in Existing THEN Climbed!UpTo(status[i]) ELSE {}]
  BY DEF Init
<1>2. \A i \in Existing : status[i] \in Statuses
  OBVIOUS
<1>3. incidents \in [Ids -> Row \union {NoRow}]
  BY <1>1, <1>2, BroughtIsRow
<1>4. \A i \in Existing : Climbed!UpTo(status[i]) \subseteq Statuses
  BY <1>2, RungFacts DEF Climbed!UpTo, Climbed!Below
<1>5. stored \in [Ids -> SUBSET Statuses]
  BY <1>1, <1>4
<1>6. \A i \in Existing : CreatedEntry(i, Earlier) \in Entry
  BY DEF Value, CreatedEntry, Entry, Events, Statuses
<1>7. timeline \subseteq Entry
  BY <1>1, <1>6
<1>8. failures \in 0 .. MaxFailures
  BY DEF Init
<1>. QED
  BY <1>3, <1>5, <1>7, <1>8, NewIncidentIsRow
     DEF Init, TypeOK, Statuses, Replies

LEMMA NextTypeOK == TypeOK /\ PhaseOK /\ [Next]_vars => TypeOK'
<1> SUFFICES ASSUME TypeOK, PhaseOK, [Next]_vars PROVE TypeOK'
  OBVIOUS
<1>1. ASSUME NEW r \in Requests, Submit(r) PROVE TypeOK'
  <2>1. \A c \in Creates \union Updates :
          c \in {NoCall} \union Updates
                 \union [kind : CreateKinds, id : Ids \union {Null},
                         target : {"OPEN"}]
    BY DEF Creates
  <2>2. PICK c \in Creates \union Updates : call' = [call EXCEPT ![r] = c]
    BY <1>1 DEF Submit
  <2>. QED
    BY <1>1, <2>1, <2>2 DEF Submit, Goto, TypeOK, Waiting
<1>2. ASSUME NEW r \in Requests, LookUp(r) PROVE TypeOK'
  BY <1>2, NewIncidentIsRow DEF LookUp, Goto, Answer, TypeOK, Waiting, Replies
<1>3. ASSUME NEW r \in Requests, AddIncident(r) PROVE TypeOK'
  <2>1. PICK i \in Ids :
          /\ incidents' = [incidents EXCEPT ![i] = entity[r]]
          /\ stored' = [stored EXCEPT ![i] = {entity[r].status}]
          /\ call' = [call EXCEPT ![r].id = i]
    BY <1>3 DEF AddIncident
  <2>2. call[r].kind \in CreateKinds /\ call[r] \in
          [kind : CreateKinds, id : Ids \union {Null}, target : {"OPEN"}]
    BY <1>3 DEF AddIncident, PhaseOK, TypeOK, NoCall, Updates, CreateKinds
  <2>3. call' \in [Requests -> {NoCall} \union Updates
                     \union [kind : CreateKinds, id : Ids \union {Null},
                             target : {"OPEN"}]]
    BY <2>1, <2>2 DEF TypeOK
  <2>4. entity[r] \in Row /\ entity[r].status \in Statuses
    BY DEF TypeOK, Row
  <2>. QED
    BY <1>3, <2>1, <2>3, <2>4 DEF AddIncident, Goto, TypeOK, Waiting
<1>4. ASSUME NEW r \in Requests, GetAndChange(r) PROVE TypeOK'
  <2>1. call[r] \in Updates /\ call[r].id \in Ids
    BY <1>4 DEF GetAndChange, PhaseOK, Updates
  <2> DEFINE inc == incidents[call[r].id]
  <2>2. CASE inc = NoRow \/ ~Accepted(r, inc)
    BY <1>4, <2>2 DEF GetAndChange, Goto, Answer, TypeOK, Waiting, Replies
  <2>3. CASE inc # NoRow /\ Accepted(r, inc)
    <3>1. inc \in Row /\ inc.status \in Statuses
      BY <2>1, <2>3 DEF TypeOK, Row
    <3>2. Changed(r, inc) \in Row
      BY <2>1, <2>3, <3>1, ChangedIsRow
    <3>. HIDE DEF inc
    <3>3. /\ entity' = [entity EXCEPT ![r] = Changed(r, inc)]
          /\ old' = [old EXCEPT ![r] = inc.status]
          /\ Goto(r, "merging")
          /\ UNCHANGED <<incidents, timeline, call, loaded, failures, stored>>
      BY <1>4, <2>3 DEF GetAndChange, inc
    <3>. QED
      BY <3>1, <3>2, <3>3 DEF Goto, TypeOK, Waiting
  <2>. QED
    BY <2>2, <2>3
<1>5. ASSUME NEW r \in Requests, Merge(r) PROVE TypeOK'
  <2>1. incidents[call[r].id] \in Row
    BY <1>5 DEF Merge, PhaseOK, TypeOK
  <2>. QED
    BY <1>5, <2>1 DEF Merge, Goto, TypeOK, Waiting
<1>6. ASSUME NEW r \in Requests, Commit(r) PROVE TypeOK'
  <2> DEFINE row == Written(entity[r], loaded[r], incidents[call[r].id])
  <2>1. row \in Row /\ row.status \in Statuses
    <3>1. incidents[call[r].id] \in Row
      BY <1>6 DEF Commit, PhaseOK, TypeOK
    <3>2. row \in Row
      BY <3>1, WrittenIsRow DEF TypeOK
    <3>. QED
      BY <3>2 DEF Row
  <2>. HIDE DEF row
  <2>2. /\ incidents' = [incidents EXCEPT ![call[r].id] = row]
        /\ stored' = [stored EXCEPT ![call[r].id] = @ \union {row.status}]
        /\ Answer(r, "error") \/ Goto(r, "recording")
        /\ UNCHANGED <<timeline, call, entity, old, loaded, failures>>
    BY <1>6 DEF Commit, row
  <2>. QED
    BY <2>1, <2>2 DEF Goto, Answer, TypeOK, Waiting, Replies
<1>7. ASSUME NEW r \in Requests, Record(r) PROVE TypeOK'
  <2>1. EntryOf(r) \in Entry
    BY <1>7, EntryOfIsEntry DEF Record, PhaseOK
  <2>. QED
    BY <1>7, <2>1 DEF Record, Goto, TypeOK, Waiting
<1>8. ASSUME NEW r \in Requests, Return(r) PROVE TypeOK'
  BY <1>8 DEF Return, Answer, requestVars, TypeOK, Waiting, Replies
<1>9. ASSUME NEW r \in Requests, DatabaseError(r) PROVE TypeOK'
  BY <1>9 DEF DatabaseError, Answer, requestVars, TypeOK, Waiting, Replies
<1>10. CASE Crash
  BY <1>10 DEF Crash, requestVars, TypeOK, Waiting, Replies
<1>11. CASE UNCHANGED vars
  BY <1>11 DEF vars, TypeOK
<1>. QED
  BY <1>1, <1>2, <1>3, <1>4, <1>5, <1>6, <1>7, <1>8, <1>9, <1>10, <1>11
     DEF Next, Step

-------------------------------------------------------------------------------
(* What a step does to the two persistent variables.                       *)
Opened(i) ==
    /\ incidents[i] = NoRow
    /\ incidents' = [incidents EXCEPT ![i] = NewIncident]
    /\ stored' = [stored EXCEPT ![i] = {"OPEN"}]

Saved(r) ==
    LET row == Written(entity[r], loaded[r], incidents[call[r].id]) IN
    /\ pc[r] = "committing"
    /\ incidents' = [incidents EXCEPT ![call[r].id] = row]
    /\ stored' = [stored EXCEPT ![call[r].id] = @ \union {row.status}]

LEMMA StepEffect ==
    PhaseOK /\ [Next]_vars =>
        \/ UNCHANGED <<incidents, stored>>
        \/ \E i \in Ids : Opened(i)
        \/ \E r \in Requests : Saved(r)
<1> SUFFICES ASSUME PhaseOK, [Next]_vars
             PROVE  \/ UNCHANGED <<incidents, stored>>
                    \/ \E i \in Ids : Opened(i)
                    \/ \E r \in Requests : Saved(r)
  OBVIOUS
<1>1. ASSUME NEW r \in Requests, AddIncident(r)
      PROVE  \E i \in Ids : Opened(i)
  <2>1. entity[r] = NewIncident /\ NewIncident.status = "OPEN"
    BY <1>1 DEF AddIncident, PhaseOK, NewIncident
  <2>. QED
    BY <1>1, <2>1 DEF AddIncident, Opened
<1>2. ASSUME NEW r \in Requests, Commit(r) PROVE Saved(r)
  BY <1>2 DEF Commit, Saved
<1>3. ASSUME NEW r \in Requests,
             \/ Submit(r) \/ LookUp(r) \/ GetAndChange(r) \/ Merge(r)
             \/ Record(r) \/ Return(r) \/ DatabaseError(r)
      PROVE  UNCHANGED <<incidents, stored>>
  BY <1>3 DEF Submit, LookUp, GetAndChange, Merge, Record, Return, DatabaseError
<1>4. CASE Crash \/ UNCHANGED vars
  BY <1>4 DEF Crash, vars
<1>. QED
  BY <1>1, <1>2, <1>3, <1>4 DEF Next, Step

(* A save writes an incident whose status is the one the request carried   *)
(* or the one the row had.                                                 *)
LEMMA SavedRow ==
    ASSUME TypeOK, PhaseOK, NEW r \in Requests, Saved(r)
    PROVE  LET i == call[r].id
               row == Written(entity[r], loaded[r], incidents[i])
           IN  /\ i \in Ids /\ incidents[i] \in Row
               /\ row \in Row /\ row.status \in {entity[r].status, incidents[i].status}
               /\ incidents'[i] = row
               /\ stored'[i] = stored[i] \union {row.status}
               /\ \A j \in Ids \ {i} :
                     incidents'[j] = incidents[j] /\ stored'[j] = stored[j]
<1> DEFINE i == call[r].id
           row == Written(entity[r], loaded[r], incidents[i])
<1>1. i \in Ids /\ incidents[i] \in Row
  BY DEF Saved, PhaseOK, TypeOK
<1>2. entity[r] \in Row /\ loaded[r] \in Row
  BY DEF TypeOK
<1>3. row \in Row /\ row.status \in {entity[r].status, incidents[i].status}
  BY <1>1, <1>2, WrittenIsRow
<1>4. /\ incidents' = [incidents EXCEPT ![i] = row]
      /\ stored' = [stored EXCEPT ![i] = @ \union {row.status}]
  BY DEF Saved
<1>. HIDE DEF row
<1>5. /\ incidents'[i] = row
      /\ stored'[i] = stored[i] \union {row.status}
      /\ \A j \in Ids \ {i} : incidents'[j] = incidents[j] /\ stored'[j] = stored[j]
  BY <1>1, <1>4 DEF TypeOK
<1>. QED
  BY <1>1, <1>3, <1>5 DEF row

(* Rows are never deleted and the history only grows.                      *)
LEMMA HistoryGrows ==
    ASSUME TypeOK, PhaseOK, HistoryOK, [Next]_vars, NEW i \in Ids
    PROVE  /\ stored[i] \subseteq stored'[i]
           /\ incidents[i] # NoRow => incidents'[i] # NoRow
<1>1. CASE UNCHANGED <<incidents, stored>>
  BY <1>1
<1>2. ASSUME NEW j \in Ids, Opened(j)
      PROVE  /\ stored[i] \subseteq stored'[i]
             /\ incidents[i] # NoRow => incidents'[i] # NoRow
  <2>1. stored[j] = {}
    BY <1>2 DEF Opened, HistoryOK
  <2>. QED
    BY <1>2, <2>1 DEF Opened, TypeOK
<1>3. ASSUME NEW r \in Requests, Saved(r)
      PROVE  /\ stored[i] \subseteq stored'[i]
             /\ incidents[i] # NoRow => incidents'[i] # NoRow
  BY <1>3, SavedRow
<1>. QED
  BY <1>1, <1>2, <1>3, StepEffect

-------------------------------------------------------------------------------
(* The columns of a saved incident were earned.                            *)
LEMMA ChangedEarned ==
    ASSUME NEW r \in Requests, NEW inc \in Row, NEW S,
           call[r] \in Updates, Accepted(r, inc),
           inc.status \in S, EarnedIn(inc, S)
    PROVE  EarnedIn(Changed(r, inc), S \union {Changed(r, inc).status})
<1>1. call[r].target \in Statuses
  BY DEF Updates, Statuses
<1>2. CASE call[r].kind = "assign"
  BY <1>2 DEF Changed, EarnedIn, Row
<1>3. CASE call[r].kind = "resolve"
  BY <1>3 DEF Changed, TransitionTo, EarnedIn, Row
<1>4. CASE call[r].kind \notin {"assign", "resolve"}
  <2>1. Changed(r, inc) = TransitionTo(inc, call[r].target, r)
    BY <1>4 DEF Changed
  <2>. QED
    BY <1>1, <2>1 DEF TransitionTo, EarnedIn, Row
<1>. QED
  BY <1>2, <1>3, <1>4

LEMMA WrittenEarned ==
    ASSUME NEW new \in Row, NEW base \in Row, NEW current \in Row, NEW S,
           EarnedIn(new, S \union {new.status}), EarnedIn(current, S),
           base.status \in S
    PROVE  EarnedIn(Written(new, base, current),
                    S \union {Written(new, base, current).status})
  BY DEF Written, EarnedIn, Row

-------------------------------------------------------------------------------
LEMMA InitIInv == Init => IInv
<1> SUFFICES ASSUME Init PROVE IInv
  OBVIOUS
<1>1. PICK status \in [Existing -> Begun] :
        /\ incidents = [i \in Ids |->
                IF i \in Existing THEN Brought(status[i]) ELSE NoRow]
        /\ stored = [i \in Ids |->
                IF i \in Existing THEN Climbed!UpTo(status[i]) ELSE {}]
  BY DEF Init
<1>2. \A i \in Existing : status[i] \in Statuses
  OBVIOUS
<1>3. ASSUME NEW i \in Existing
      PROVE  /\ incidents[i] = Brought(status[i]) /\ incidents[i] # NoRow
             /\ stored[i] = Climbed!UpTo(status[i])
  BY <1>1, <1>2, <1>3, BroughtIsRow
<1>4. ASSUME NEW i \in Ids \ Existing
      PROVE  incidents[i] = NoRow /\ stored[i] = {}
  BY <1>1
<1>5. PhaseOK
  BY DEF Init, PhaseOK
<1>6. HistoryOK
  BY <1>2, <1>3, <1>4, BroughtIsRow DEF HistoryOK, Climbed!UpTo
<1>7. CarriedOK
  BY DEF Init, CarriedOK, CarriedBy
<1>8. NoRungSkipped
  <2> SUFFICES ASSUME NEW i \in Existing, NEW s \in stored[i]
               PROVE  Climbed!Below(s) \subseteq stored[i]
    BY <1>4 DEF NoRungSkipped
  <2>. QED
    BY <1>2, <1>3, UpToIsClosed
<1>9. StampsEarned
  <2> SUFFICES ASSUME NEW i \in Existing
               PROVE  EarnedIn(incidents[i], stored[i])
    BY <1>4 DEF StampsEarned
  <2>. QED
    BY <1>3 DEF Brought, NewIncident, EarnedIn
<1>. QED
  BY <1>5, <1>6, <1>7, <1>8, <1>9, InitTypeOK DEF IInv

LEMMA NextPhaseOK ==
    TypeOK /\ PhaseOK /\ HistoryOK /\ [Next]_vars => PhaseOK'
<1> SUFFICES ASSUME TypeOK, PhaseOK, HistoryOK, [Next]_vars PROVE PhaseOK'
  OBVIOUS
<1>1. \A i \in Ids : incidents[i] # NoRow => incidents'[i] # NoRow
  BY HistoryGrows
<1>2. ASSUME NEW r \in Requests, Submit(r) PROVE PhaseOK'
  <2>1. PICK c \in Creates \union Updates :
          /\ call' = [call EXCEPT ![r] = c]
          /\ \/ c \in Creates /\ pc' = [pc EXCEPT ![r] = "looking_up"]
             \/ c \in Updates /\ pc' = [pc EXCEPT ![r] = "getting"]
    BY <1>2 DEF Submit, Goto
  <2>2. UNCHANGED <<incidents, entity>>
    BY <1>2 DEF Submit
  <2>3. c \in Creates => c.kind \in CreateKinds
    BY DEF Creates
  <2>. HIDE DEF Creates, Updates
  <2>. QED
    BY <2>1, <2>2, <2>3 DEF PhaseOK, TypeOK
<1>3. ASSUME NEW r \in Requests, LookUp(r) PROVE PhaseOK'
  BY <1>3 DEF LookUp, Goto, Answer, PhaseOK, TypeOK
<1>4. ASSUME NEW r \in Requests, AddIncident(r) PROVE PhaseOK'
  <2>1. PICK i \in Ids :
          /\ incidents' = [incidents EXCEPT ![i] = NewIncident]
          /\ call' = [call EXCEPT ![r].id = i]
    BY <1>4 DEF AddIncident, PhaseOK
  <2>2. incidents'[i] # NoRow
    BY <2>1, NewIncidentIsRow DEF TypeOK
  <2>3. call[r].kind \in CreateKinds /\ "none" \notin CreateKinds
    BY <1>4 DEF AddIncident, PhaseOK, CreateKinds
  <2>4. call'[r].kind = call[r].kind /\ call'[r].id = i
    BY <2>1, <2>3 DEF TypeOK, NoCall, Updates, CreateKinds
  <2>5. pc' = [pc EXCEPT ![r] = "recording"] /\ UNCHANGED entity
    BY <1>4 DEF AddIncident, Goto
  <2>. QED
    BY <1>1, <2>1, <2>2, <2>3, <2>4, <2>5 DEF PhaseOK, TypeOK
<1>5. ASSUME NEW r \in Requests, GetAndChange(r) PROVE PhaseOK'
  <2>1. call[r].id \in Ids /\ call[r].kind # "none"
    BY <1>5 DEF GetAndChange, PhaseOK, Updates
  <2>2. \/ incidents[call[r].id] # NoRow /\ pc' = [pc EXCEPT ![r] = "merging"]
        \/ pc' = [pc EXCEPT ![r] = "done"]
    BY <1>5 DEF GetAndChange, Goto, Answer
  <2>3. \A q \in Requests \ {r} : entity'[q] = entity[q]
    BY <1>5 DEF GetAndChange, TypeOK
  <2>4. pc[r] = "getting" /\ UNCHANGED <<incidents, call>>
    BY <1>5 DEF GetAndChange
  <2>. QED
    BY <2>1, <2>2, <2>3, <2>4 DEF PhaseOK, TypeOK
<1>6. ASSUME NEW r \in Requests, Merge(r) PROVE PhaseOK'
  BY <1>6 DEF Merge, Goto, PhaseOK, TypeOK
<1>7. ASSUME NEW r \in Requests, Commit(r) PROVE PhaseOK'
  <2>1. \/ pc' = [pc EXCEPT ![r] = "recording"]
        \/ pc' = [pc EXCEPT ![r] = "done"]
    BY <1>7 DEF Commit, Goto, Answer
  <2>2. pc[r] = "committing" /\ UNCHANGED <<call, entity>>
    BY <1>7 DEF Commit
  <2>. QED
    BY <1>1, <2>1, <2>2 DEF PhaseOK, TypeOK
<1>8. ASSUME NEW r \in Requests, Record(r) \/ Return(r) \/ DatabaseError(r)
      PROVE  PhaseOK'
  <2>1. /\ UNCHANGED <<incidents, call, entity>>
        /\ \/ pc[r] = "recording" /\ pc' = [pc EXCEPT ![r] = "answering"]
           \/ pc' = [pc EXCEPT ![r] = "done"]
    BY <1>8 DEF Record, Return, DatabaseError, requestVars, Goto, Answer
  <2>. QED
    BY <2>1 DEF PhaseOK, TypeOK
<1>9. CASE Crash
  BY <1>9 DEF Crash, requestVars, PhaseOK, TypeOK, Waiting
<1>10. CASE UNCHANGED vars
  BY <1>10 DEF vars, PhaseOK
<1>. QED
  BY <1>2, <1>3, <1>4, <1>5, <1>6, <1>7, <1>8, <1>9, <1>10 DEF Next, Step

-------------------------------------------------------------------------------
LEMMA NextHistoryOK ==
    TypeOK /\ PhaseOK /\ HistoryOK /\ [Next]_vars => HistoryOK'
<1> SUFFICES ASSUME TypeOK, PhaseOK, HistoryOK, [Next]_vars PROVE HistoryOK'
  OBVIOUS
<1>1. CASE UNCHANGED <<incidents, stored>>
  BY <1>1 DEF HistoryOK
<1>2. ASSUME NEW i \in Ids, Opened(i) PROVE HistoryOK'
  <2>1. NewIncident # NoRow /\ NewIncident.status = "OPEN"
    BY NewIncidentIsRow DEF NewIncident
  <2>. QED
    BY <1>2, <2>1 DEF Opened, HistoryOK, TypeOK
<1>3. ASSUME NEW r \in Requests, Saved(r) PROVE HistoryOK'
  <2> DEFINE row == Written(entity[r], loaded[r], incidents[call[r].id])
  <2>1. /\ call[r].id \in Ids /\ row \in Row /\ incidents'[call[r].id] = row
        /\ stored'[call[r].id] = stored[call[r].id] \union {row.status}
        /\ \A j \in Ids \ {call[r].id} :
              incidents'[j] = incidents[j] /\ stored'[j] = stored[j]
    BY <1>3, SavedRow
  <2>. HIDE DEF row
  <2>. QED
    BY <2>1 DEF HistoryOK
<1>. QED
  BY <1>1, <1>2, <1>3, StepEffect

LEMMA NextNoRungSkipped == IInv /\ [Next]_vars => NoRungSkipped'
<1> SUFFICES ASSUME IInv, [Next]_vars PROVE NoRungSkipped'
  OBVIOUS
<1>. USE DEF IInv
<1>1. CASE UNCHANGED <<incidents, stored>>
  BY <1>1 DEF NoRungSkipped
<1>2. ASSUME NEW i \in Ids, Opened(i) PROVE NoRungSkipped'
  BY <1>2, RungFacts DEF Opened, NoRungSkipped, TypeOK
<1>3. ASSUME NEW r \in Requests, Saved(r) PROVE NoRungSkipped'
  <2> DEFINE row == Written(entity[r], loaded[r], incidents[call[r].id])
             i == call[r].id
  <2>1. /\ i \in Ids /\ incidents[i] \in Row
        /\ row.status \in {entity[r].status, incidents[i].status}
        /\ stored'[i] = stored[i] \union {row.status}
        /\ \A j \in Ids \ {i} : stored'[j] = stored[j]
    BY <1>3, SavedRow
  <2>2. Climbed!Below(entity[r].status) \subseteq stored[i]
    BY <1>3 DEF Saved, CarriedOK, CarriedBy
  <2>3. Climbed!Below(incidents[i].status) \subseteq stored[i]
    BY <2>1 DEF HistoryOK, NoRungSkipped
  <2>. HIDE DEF row, i
  <2>. QED
    BY <2>1, <2>2, <2>3 DEF NoRungSkipped
<1>. QED
  BY <1>1, <1>2, <1>3, StepEffect

LEMMA NextStampsEarned == IInv /\ [Next]_vars => StampsEarned'
<1> SUFFICES ASSUME IInv, [Next]_vars PROVE StampsEarned'
  OBVIOUS
<1>. USE DEF IInv
<1>1. CASE UNCHANGED <<incidents, stored>>
  BY <1>1 DEF StampsEarned
<1>2. ASSUME NEW i \in Ids, Opened(i) PROVE StampsEarned'
  <2>1. EarnedIn(NewIncident, {"OPEN"})
    BY DEF EarnedIn, NewIncident
  <2>. QED
    BY <1>2, <2>1 DEF Opened, StampsEarned, TypeOK
<1>3. ASSUME NEW r \in Requests, Saved(r) PROVE StampsEarned'
  <2> DEFINE i == call[r].id
             row == Written(entity[r], loaded[r], incidents[i])
  <2>1. /\ i \in Ids /\ incidents[i] \in Row /\ row \in Row
        /\ incidents'[i] = row
        /\ stored'[i] = stored[i] \union {row.status}
        /\ \A j \in Ids \ {i} :
              incidents'[j] = incidents[j] /\ stored'[j] = stored[j]
    BY <1>3, SavedRow
  <2>2. /\ EarnedIn(entity[r], stored[i] \union {entity[r].status})
        /\ loaded[r].status \in stored[i]
    BY <1>3 DEF Saved, CarriedOK, CarriedBy
  <2>3. EarnedIn(incidents[i], stored[i])
    BY <2>1 DEF StampsEarned
  <2>4. EarnedIn(row, stored[i] \union {row.status})
    BY <2>1, <2>2, <2>3, WrittenEarned DEF TypeOK
  <2>. HIDE DEF row, i
  <2>. QED
    BY <2>1, <2>4 DEF StampsEarned
<1>. QED
  BY <1>1, <1>2, <1>3, StepEffect

-------------------------------------------------------------------------------
LEMMA NextCarriedOK == IInv /\ [Next]_vars => CarriedOK'
<1> SUFFICES ASSUME IInv, [Next]_vars PROVE CarriedOK'
  OBVIOUS
<1>. USE DEF IInv
<1>1. \A i \in Ids : stored[i] \subseteq stored'[i]
  BY HistoryGrows
<1>2. ASSUME NEW q \in Requests,
             pc'[q] = pc[q], entity'[q] = entity[q],
             call'[q] = call[q], loaded'[q] = loaded[q]
      PROVE  CarriedBy(q)'
  <2>1. pc[q] \in {"merging", "committing"} => call[q].id \in Ids
    BY DEF PhaseOK
  <2>. QED
    BY <1>1, <1>2, <2>1 DEF CarriedOK, CarriedBy, EarnedIn
<1>3. ASSUME NEW r \in Requests,
             \A q \in Requests \ {r} :
                /\ pc'[q] = pc[q] /\ entity'[q] = entity[q]
                /\ call'[q] = call[q] /\ loaded'[q] = loaded[q],
             CarriedBy(r)'
      PROVE  CarriedOK'
  BY <1>2, <1>3 DEF CarriedOK, CarriedBy
<1>4. ASSUME NEW r \in Requests, GetAndChange(r) PROVE CarriedOK'
  <2> DEFINE i == call[r].id
             inc == incidents[i]
  <2>1. call[r] \in Updates /\ i \in Ids
    BY <1>4 DEF GetAndChange, PhaseOK, Updates
  <2>2. CASE inc = NoRow \/ ~Accepted(r, inc)
    <3>1. UNCHANGED <<entity, call, loaded>> /\ pc' = [pc EXCEPT ![r] = "done"]
      BY <1>4, <2>2 DEF GetAndChange, Answer
    <3>. QED
      BY <1>3, <3>1 DEF CarriedBy, TypeOK
  <2>3. CASE inc # NoRow /\ Accepted(r, inc)
    <3>1. inc \in Row /\ inc.status \in stored[i] /\ EarnedIn(inc, stored[i])
      BY <2>1, <2>3 DEF TypeOK, HistoryOK, StampsEarned
    <3>2. Climbed!Below(Changed(r, inc).status) \subseteq stored[i]
      <4>1. inc.status \in Statuses
        BY <3>1 DEF Row
      <4>2. Climbed!UpTo(inc.status) \subseteq stored[i]
        BY <2>1, <3>1 DEF NoRungSkipped, Climbed!UpTo
      <4>3. Changed(r, inc).status \in Statuses
        BY <2>1, <2>3, <3>1, ChangedIsRow DEF Row
      <4>. QED
        BY <2>1, <2>3, <3>1, <4>1, <4>2, <4>3, ChangedIsRow, EdgeFacts
           DEF Climbed!UpTo
    <3>3. EarnedIn(Changed(r, inc), stored[i] \union {Changed(r, inc).status})
      BY <2>1, <2>3, <3>1, ChangedEarned
    <3>. HIDE DEF inc
    <3>4. /\ entity' = [entity EXCEPT ![r] = Changed(r, inc)]
          /\ pc' = [pc EXCEPT ![r] = "merging"]
          /\ UNCHANGED <<call, loaded, stored>>
      BY <1>4, <2>3 DEF GetAndChange, Goto, inc
    <3>5. CarriedBy(r)'
      BY <3>2, <3>3, <3>4 DEF CarriedBy, TypeOK
    <3>. QED
      BY <1>3, <3>4, <3>5 DEF TypeOK
  <2>. QED
    BY <2>2, <2>3
<1>5. ASSUME NEW r \in Requests, Merge(r) PROVE CarriedOK'
  <2>1. pc[r] = "merging" /\ call[r].id \in Ids /\ incidents[call[r].id] # NoRow
    BY <1>5 DEF Merge, PhaseOK
  <2>2. incidents[call[r].id].status \in stored[call[r].id]
    BY <2>1 DEF HistoryOK
  <2>3. /\ loaded' = [loaded EXCEPT ![r] = incidents[call[r].id]]
        /\ pc' = [pc EXCEPT ![r] = "committing"]
        /\ UNCHANGED <<call, entity, stored>>
    BY <1>5 DEF Merge, Goto
  <2>4. CarriedBy(r)'
    BY <2>1, <2>2, <2>3 DEF CarriedOK, CarriedBy, TypeOK
  <2>. QED
    BY <1>3, <2>3, <2>4 DEF TypeOK
<1>6. ASSUME NEW r \in Requests,
             \A q \in Requests \ {r} :
                /\ pc'[q] = pc[q] /\ entity'[q] = entity[q]
                /\ call'[q] = call[q] /\ loaded'[q] = loaded[q],
             pc'[r] \notin {"merging", "committing"}
      PROVE  CarriedOK'
  BY <1>3, <1>6 DEF CarriedBy
<1>7. ASSUME NEW r \in Requests,
             \/ Submit(r) \/ LookUp(r) \/ AddIncident(r) \/ Commit(r)
             \/ Record(r) \/ Return(r) \/ DatabaseError(r)
      PROVE  CarriedOK'
  <2>1. /\ \A q \in Requests \ {r} :
              /\ pc'[q] = pc[q] /\ entity'[q] = entity[q]
              /\ call'[q] = call[q] /\ loaded'[q] = loaded[q]
        /\ pc'[r] \notin {"merging", "committing"}
    BY <1>7 DEF Submit, LookUp, AddIncident, Commit, Record, Return,
                DatabaseError, requestVars, Goto, Answer, TypeOK
  <2>. QED
    BY <1>6, <2>1
<1>8. CASE Crash
  BY <1>8 DEF Crash, CarriedOK, CarriedBy, Waiting
<1>9. CASE UNCHANGED vars
  BY <1>9 DEF vars, CarriedOK, CarriedBy
<1>. QED
  BY <1>4, <1>5, <1>7, <1>8, <1>9 DEF Next, Step

(* The strengthening is inductive.                                         *)
THEOREM Inductive == Spec => []IInv
<1>1. Init => IInv
  BY InitIInv
<1>2. IInv /\ [Next]_vars => IInv'
  BY NextTypeOK, NextPhaseOK, NextHistoryOK, NextNoRungSkipped,
     NextStampsEarned, NextCarriedOK DEF IInv
<1>. QED
  BY <1>1, <1>2, PTL DEF Spec

-------------------------------------------------------------------------------
(* Tables, requests and replies keep their shape: in particular save()     *)
(* never meets a row that is gone, and every entry names an incident.      *)
THEOREM TypeCorrect == Spec => []TypeOK
  BY Inductive, PTL DEF IInv

(* However many requests race on an incident, and whatever fails, its      *)
(* history has no gap below any status it was ever committed with.         *)
THEOREM LadderKept == Spec => []NoRungSkipped
  BY Inductive, PTL DEF IInv

(* Merging stale copies column by column never leaves a time stamp or a    *)
(* resolution text for a status the incident was not committed with.       *)
THEOREM StampsAreEarned == Spec => []StampsEarned
  BY Inductive, PTL DEF IInv

-------------------------------------------------------------------------------
(* A status that is new to a gapless history extends it by one rung.       *)
LEMMA NewRung ==
    ASSUME NEW S \in SUBSET Statuses, NEW w \in Statuses \ S,
           Climbed!Below(w) \subseteq S,
           \A s \in S : Climbed!Below(s) \subseteq S
    PROVE  S = Climbed!Below(w)
<1>1. ASSUME NEW s \in S PROVE s \in Climbed!Below(w)
  <2>1. w \notin Climbed!Below(s) /\ s # w
    BY <1>1
  <2>. QED
    BY <1>1, <2>1, RungFacts DEF Climbed!Below, Climbed!Rank, Statuses
<1>. QED
  BY <1>1

LEMMA StepClimbs == IInv /\ [Next]_vars => [Climbed!Next]_stored
<1> SUFFICES ASSUME IInv, [Next]_vars PROVE [Climbed!Next]_stored
  OBVIOUS
<1>. USE DEF IInv
<1>1. CASE UNCHANGED <<incidents, stored>>
  BY <1>1
<1>2. ASSUME NEW i \in Ids, Opened(i) PROVE Climbed!Next
  <2>1. stored[i] = {}
    BY <1>2 DEF Opened, HistoryOK
  <2>2. /\ "OPEN" \in Climbed!Rungs /\ Climbed!Below("OPEN") = stored[i]
        /\ Climbed!UpTo("OPEN") = {"OPEN"}
    BY <2>1, RungFacts DEF Climbed!UpTo, Statuses
  <2>. QED
    BY <1>2, <2>2 DEF Opened, Climbed!Next, Climbed!Climb
<1>3. ASSUME NEW r \in Requests, Saved(r) PROVE [Climbed!Next]_stored
  <2> DEFINE i == call[r].id
             row == Written(entity[r], loaded[r], incidents[i])
  <2>1. /\ i \in Ids /\ incidents[i] \in Row /\ row \in Row
        /\ row.status \in {entity[r].status, incidents[i].status}
    BY <1>3, SavedRow
  <2>2. stored' = [stored EXCEPT ![i] = @ \union {row.status}]
    BY <1>3 DEF Saved
  <2>3. Climbed!Below(row.status) \subseteq stored[i]
    BY <1>3, <2>1 DEF Saved, CarriedOK, CarriedBy, HistoryOK, NoRungSkipped
  <2>4. row.status \in Statuses /\ stored[i] \in SUBSET Statuses
    BY <2>1 DEF Row, TypeOK
  <2>. HIDE DEF row, i
  <2>5. CASE row.status \in stored[i]
    BY <2>1, <2>2, <2>5 DEF TypeOK
  <2>6. CASE row.status \notin stored[i]
    <3>1. stored[i] = Climbed!Below(row.status)
      BY <2>1, <2>3, <2>4, <2>6, NewRung DEF NoRungSkipped
    <3>2. stored' = [stored EXCEPT ![i] = Climbed!UpTo(row.status)]
      BY <2>2, <3>1 DEF Climbed!UpTo
    <3>. QED
      BY <2>1, <2>4, <3>1, <3>2, RungFacts DEF Climbed!Next, Climbed!Climb
  <2>. QED
    BY <2>5, <2>6
<1>. QED
  BY <1>1, <1>2, <1>3, StepEffect

(* Seen through the statuses its rows were committed with, the service is  *)
(* the ladder of IncidentLifecycle: racing, failing and refused requests   *)
(* add one rung at a time, bottom up, or nothing.                          *)
THEOREM ImplementsLifecycle == Spec => ClimbsTheLadder
<1>1. Init => Climbed!Init
  <2> SUFFICES ASSUME Init PROVE Climbed!Init
    OBVIOUS
  <2>1. PICK status \in [Existing -> Begun] :
          stored = [i \in Ids |->
                IF i \in Existing THEN Climbed!UpTo(status[i]) ELSE {}]
    BY DEF Init
  <2>2. \A i \in Existing : status[i] \in Climbed!Rungs
    BY RungFacts
  <2>. QED
    BY <2>1, <2>2 DEF Climbed!Init
<1>2. IInv /\ [Next]_vars => [Climbed!Next]_stored
  BY StepClimbs
<1>. QED
  BY <1>1, <1>2, Inductive, PTL DEF Spec, ClimbsTheLadder, Climbed!Spec

-------------------------------------------------------------------------------
(* An update that changes the status; until it recorded that, the change   *)
(* is the edge it took, and it is stored before it is recorded.            *)
Moves(r) == call[r].kind \in {"update_status", "resolve", "close"}

AnnouncedBy(r) ==
    Moves(r) =>
        /\ pc[r] \in {"merging", "committing", "recording"} =>
              CanTransition(old[r], call[r].target)
        /\ pc[r] \in {"merging", "committing"} => entity[r].status = call[r].target
        /\ pc[r] = "recording" => call[r].target \in stored[call[r].id]

Truthful == TimelineTruthful /\ \A r \in Requests : AnnouncedBy(r)

(* A request that takes a step leaves the others where they are.           *)
LEMMA OthersKept ==
    ASSUME TypeOK, NEW r \in Requests, Submit(r) \/ Step(r) \/ DatabaseError(r),
           NEW q \in Requests \ {r}
    PROVE  /\ pc'[q] = pc[q] /\ call'[q] = call[q] /\ entity'[q] = entity[q]
           /\ old'[q] = old[q] /\ loaded'[q] = loaded[q] /\ reply'[q] = reply[q]
<1>1. CASE Submit(r)
  BY <1>1 DEF Submit, Goto, TypeOK
<1>2. CASE LookUp(r)
  BY <1>2 DEF LookUp, Goto, Answer, TypeOK
<1>3. CASE AddIncident(r)
  BY <1>3 DEF AddIncident, Goto, TypeOK
<1>4. CASE GetAndChange(r)
  BY <1>4 DEF GetAndChange, Goto, Answer, TypeOK
<1>5. CASE Merge(r)
  BY <1>5 DEF Merge, Goto, TypeOK
<1>6. CASE Commit(r)
  BY <1>6 DEF Commit, Goto, Answer, TypeOK
<1>7. CASE Record(r) \/ Return(r) \/ DatabaseError(r)
  BY <1>7 DEF Record, Return, DatabaseError, requestVars, Goto, Answer, TypeOK
<1>. QED
  BY <1>1, <1>2, <1>3, <1>4, <1>5, <1>6, <1>7 DEF Step

(* The status of the aggregate that a request saves.                       *)
LEMMA ChangedStatus ==
    ASSUME NEW r \in Requests, NEW inc \in Row, call[r] \in Updates
    PROVE  Changed(r, inc).status = IF Moves(r) THEN call[r].target ELSE inc.status
<1>1. call[r].target \in Statuses /\ "RESOLVED" \in Statuses /\ r \in Value
  BY DEF Updates, Statuses, Value
<1>2. CASE call[r].kind = "assign"
  BY <1>2 DEF Changed, Row, Moves
<1>3. CASE call[r].kind = "resolve"
  <2>1. call[r].target = "RESOLVED"
    BY <1>3 DEF Updates
  <2>2. /\ TransitionTo(inc, "RESOLVED", r) \in Row
        /\ TransitionTo(inc, "RESOLVED", r).status = "RESOLVED"
    BY <1>1, TransitionToIsRow
  <2>. QED
    BY <1>3, <2>1, <2>2 DEF Changed, Row, Moves
<1>4. CASE call[r].kind \notin {"assign", "resolve"}
  <2>1. Moves(r)
    BY <1>4 DEF Updates, Moves
  <2>. QED
    BY <1>1, <1>4, <2>1, TransitionToIsRow DEF Changed
<1>. QED
  BY <1>2, <1>3, <1>4

LEMMA NextTimelineTruthful ==
    IInv /\ Truthful /\ [Next]_vars => TimelineTruthful'
<1> SUFFICES ASSUME IInv, Truthful, [Next]_vars PROVE TimelineTruthful'
  OBVIOUS
<1> DEFINE Holds(e) ==
             /\ incidents[e.incident] # NoRow
             /\ e.event_type \in {"RESOLVED", "CLOSED"} => e.event_type \in stored[e.incident]
             /\ e.event_type = "STATUS_CHANGED" =>
                  /\ e.new \in stored[e.incident]
                  /\ Climbed!Below(e.new) = Climbed!UpTo(e.old)
<1>1. \A i \in Ids : stored[i] \subseteq stored'[i]
                     /\ (incidents[i] # NoRow => incidents'[i] # NoRow)
  BY HistoryGrows DEF IInv
<1>2. ASSUME NEW e \in Entry, Holds(e)
      PROVE  /\ incidents'[e.incident] # NoRow
             /\ e.event_type \in {"RESOLVED", "CLOSED"} => e.event_type \in stored'[e.incident]
             /\ e.event_type = "STATUS_CHANGED" =>
                  /\ e.new \in stored'[e.incident]
                  /\ Climbed!Below(e.new) = Climbed!UpTo(e.old)
  <2>1. e.incident \in Ids
    BY DEF Entry
  <2>. QED
    BY <1>1, <1>2, <2>1
<1>3. ASSUME NEW r \in Requests, Record(r) PROVE Holds(EntryOf(r))
  <2>1. /\ pc[r] = "recording" /\ call[r].id \in Ids /\ call[r].kind # "none"
        /\ incidents[call[r].id] # NoRow
    BY <1>3 DEF Record, IInv, PhaseOK
  <2>2. CASE call[r].kind \in CreateKinds
    <3>1. EntryOf(r) = CreatedEntry(call[r].id, r)
      BY <2>2 DEF EntryOf, CreateKinds
    <3>. QED
      BY <2>1, <3>1 DEF CreatedEntry
  <2>3. CASE call[r].kind = "assign"
    BY <2>1, <2>3 DEF EntryOf, CreateKinds
  <2>4. CASE call[r].kind \notin CreateKinds \union {"assign"}
    <3>1. Moves(r) /\ call[r] \in Updates
      BY <2>1, <2>4 DEF IInv, TypeOK, NoCall, Updates, Moves
    <3>2. CanTransition(old[r], call[r].target) /\ call[r].target \in stored[call[r].id]
      BY <2>1, <3>1 DEF Truthful, AnnouncedBy
    <3>3. call[r].target \in Statuses /\ old[r] \in Statuses
      BY <3>1 DEF Updates, Statuses, IInv, TypeOK
    <3>4. Climbed!Below(call[r].target) = Climbed!UpTo(old[r])
      BY <3>2, <3>3, EdgeFacts
    <3>5. /\ EntryOf(r).incident = call[r].id
          /\ EntryOf(r).old = old[r] /\ EntryOf(r).new = call[r].target
          /\ EntryOf(r).event_type \in {"STATUS_CHANGED", call[r].target}
      BY <2>4, <3>1 DEF EntryOf, Moves, CreateKinds
    <3>. QED
      BY <2>1, <3>2, <3>4, <3>5
  <2>. QED
    BY <2>2, <2>3, <2>4
<1>4. ASSUME NEW e \in timeline' PROVE e \in Entry /\ Holds(e)
  <2>1. e \in timeline => e \in Entry /\ Holds(e)
    BY DEF Truthful, TimelineTruthful, IInv, TypeOK
  <2>2. CASE \E r \in Requests : Record(r)
    <3>1. PICK r \in Requests : Record(r)
      BY <2>2
    <3>2. timeline' = timeline \union {EntryOf(r)}
      BY <3>1 DEF Record
    <3>3. EntryOf(r) \in Entry
      BY <3>1, EntryOfIsEntry DEF Record, IInv, PhaseOK
    <3>. QED
      BY <1>3, <1>4, <2>1, <3>1, <3>2, <3>3
  <2>3. CASE ~\E r \in Requests : Record(r)
    <3>1. timeline' = timeline
      BY <2>3 DEF Next, Step, Submit, LookUp, AddIncident, GetAndChange, Merge, Commit,
                  Return, DatabaseError, Crash, vars
    <3>. QED
      BY <1>4, <2>1, <3>1
  <2>. QED
    BY <2>2, <2>3
<1>. HIDE DEF Holds
<1>. QED
  BY <1>2, <1>4 DEF TimelineTruthful

LEMMA NextAnnounced ==
    ASSUME IInv, Truthful, [Next]_vars, NEW q \in Requests
    PROVE  AnnouncedBy(q)'
<1>1. AnnouncedBy(q)
  BY DEF Truthful
<1>2. \A i \in Ids : stored[i] \subseteq stored'[i]
  BY HistoryGrows DEF IInv
<1>3. CASE call'[q] = call[q] /\ pc'[q] = pc[q] /\ old'[q] = old[q] /\ entity'[q] = entity[q]
  <2>1. pc[q] = "recording" => call[q].id \in Ids
    BY DEF IInv, PhaseOK
  <2>. QED
    BY <1>1, <1>2, <1>3, <2>1 DEF AnnouncedBy, Moves
<1>4. CASE pc'[q] \notin {"merging", "committing", "recording"}
  BY <1>4 DEF AnnouncedBy
<1>5. CASE Submit(q) \/ LookUp(q) \/ Record(q) \/ Return(q) \/ DatabaseError(q)
  <2>1. pc'[q] \notin {"merging", "committing", "recording"}
    BY <1>5 DEF Submit, LookUp, Record, Return, DatabaseError, Goto, Answer, IInv, TypeOK
  <2>. QED
    BY <1>4, <2>1
<1>6. CASE AddIncident(q)
  <2>1. PICK i \in Ids : call' = [call EXCEPT ![q].id = i]
    BY <1>6 DEF AddIncident
  <2>2. call[q].kind \in CreateKinds
    BY <1>6 DEF AddIncident, IInv, PhaseOK
  <2>3. call'[q].kind = call[q].kind
    BY <2>1, <2>2 DEF IInv, TypeOK, NoCall, Updates, CreateKinds
  <2>. QED
    BY <2>2, <2>3 DEF AnnouncedBy, Moves, CreateKinds
<1>7. CASE GetAndChange(q)
  <2> DEFINE inc == incidents[call[q].id]
  <2>1. call[q] \in Updates /\ call[q].id \in Ids
    BY <1>7 DEF GetAndChange, IInv, PhaseOK, Updates
  <2>2. CASE inc = NoRow \/ ~Accepted(q, inc)
    <3>1. pc'[q] = "done"
      BY <1>7, <2>2 DEF GetAndChange, Answer, IInv, TypeOK
    <3>. QED
      BY <1>4, <3>1
  <2>3. CASE inc # NoRow /\ Accepted(q, inc)
    <3>1. inc \in Row
      BY <2>1, <2>3 DEF IInv, TypeOK
    <3>2. /\ entity'[q] = Changed(q, inc) /\ old'[q] = inc.status
          /\ pc'[q] = "merging" /\ call'[q] = call[q]
      BY <1>7, <2>3 DEF GetAndChange, Goto, IInv, TypeOK
    <3>3. Moves(q) => CanTransition(inc.status, call[q].target)
      BY <2>3 DEF Accepted, Moves
    <3>4. Moves(q) => Changed(q, inc).status = call[q].target
      BY <2>1, <3>1, ChangedStatus
    <3>. HIDE DEF inc
    <3>. QED
      BY <3>2, <3>3, <3>4 DEF AnnouncedBy, Moves
  <2>. QED
    BY <2>2, <2>3
<1>8. CASE Merge(q)
  <2>1. /\ pc[q] = "merging" /\ pc'[q] = "committing"
        /\ call'[q] = call[q] /\ old'[q] = old[q] /\ entity'[q] = entity[q]
    BY <1>8 DEF Merge, Goto, IInv, TypeOK
  <2>. QED
    BY <1>1, <2>1 DEF AnnouncedBy, Moves
<1>9. CASE Commit(q)
  <2> DEFINE i == call[q].id
             row == Written(entity[q], loaded[q], incidents[i])
  <2>1. /\ Saved(q) /\ pc[q] = "committing" /\ pc'[q] \in {"done", "recording"}
        /\ call'[q] = call[q] /\ old'[q] = old[q]
    BY <1>9 DEF Commit, Saved, Goto, Answer, IInv, TypeOK
  <2>2. i \in Ids /\ stored'[i] = stored[i] \union {row.status}
    BY <2>1, SavedRow DEF IInv
  <2>3. row.status = IF entity[q].status # loaded[q].status
                     THEN entity[q].status ELSE incidents[i].status
    BY DEF Written
  <2>4. loaded[q].status \in stored[i]
    BY <2>1 DEF IInv, CarriedOK, CarriedBy
  <2>. HIDE DEF row, i
  <2>5. entity[q].status \in stored'[i]
    BY <2>2, <2>3, <2>4
  <2>6. Moves(q) => CanTransition(old[q], call[q].target) /\ entity[q].status = call[q].target
    BY <1>1, <2>1 DEF AnnouncedBy
  <2>. QED
    BY <2>1, <2>5, <2>6 DEF AnnouncedBy, Moves, i
<1>10. CASE Crash
  <2>1. /\ pc'[q] = IF pc[q] \in Waiting THEN "done" ELSE pc[q]
        /\ call'[q] = call[q] /\ old'[q] = old[q] /\ entity'[q] = entity[q]
    BY <1>10 DEF Crash, requestVars
  <2>. QED
    BY <1>3, <1>4, <2>1
<1>11. CASE UNCHANGED vars
  BY <1>3, <1>11 DEF vars
<1>12. ASSUME NEW r \in Requests \ {q}, Submit(r) \/ Step(r) \/ DatabaseError(r)
       PROVE  AnnouncedBy(q)'
  BY <1>3, <1>12, OthersKept DEF IInv
<1>. QED
  BY <1>5, <1>6, <1>7, <1>8, <1>9, <1>10, <1>11, <1>12 DEF Next, Step

LEMMA TruthfulInductive == Spec => []Truthful
<1>1. Init => Truthful
  <2> SUFFICES ASSUME Init PROVE Truthful
    OBVIOUS
  <2>1. PICK status \in [Existing -> Begun] :
          /\ incidents = [i \in Ids |->
                  IF i \in Existing THEN Brought(status[i]) ELSE NoRow]
          /\ timeline = {CreatedEntry(i, Earlier) : i \in Existing}
          /\ stored = [i \in Ids |->
                  IF i \in Existing THEN Climbed!UpTo(status[i]) ELSE {}]
    BY DEF Init
  <2>2. ASSUME NEW e \in timeline
        PROVE  /\ e.incident \in Existing /\ incidents[e.incident] # NoRow
               /\ e.event_type = "CREATED"
    <3>1. PICK i \in Existing : e = CreatedEntry(i, Earlier)
      BY <2>1, <2>2
    <3>2. status[i] \in Statuses /\ i \in Ids
      OBVIOUS
    <3>3. incidents[i] # NoRow
      BY <2>1, <3>2, BroughtIsRow
    <3>. QED
      BY <3>1, <3>3 DEF CreatedEntry
  <2>3. TimelineTruthful
    BY <2>2 DEF TimelineTruthful
  <2>4. \A r \in Requests : AnnouncedBy(r)
    BY DEF Init, AnnouncedBy
  <2>. QED
    BY <2>3, <2>4 DEF Truthful
<1>2. IInv /\ Truthful /\ [Next]_vars => Truthful'
  BY NextTimelineTruthful, NextAnnounced DEF Truthful
<1>. QED
  BY <1>1, <1>2, Inductive, PTL DEF Spec

(* However requests race or fail, the timeline reports no change that was  *)
(* not committed: what is recorded afterwards was stored before, and every *)
(* announced change is an edge of transition_to's table.                   *)
THEOREM TimelineIsTruthful == Spec => []TimelineTruthful
<1>1. Truthful => TimelineTruthful
  BY DEF Truthful
<1>. QED
  BY <1>1, TruthfulInductive, PTL

-------------------------------------------------------------------------------
(* Nothing that outlives a request, or that another one may save, names it.*)
Silent(r) ==
    /\ \A e \in timeline : e.by # r
    /\ \A i \in Ids : incidents[i] # NoRow => ~Traces(r, incidents[i])
    /\ \A q \in Requests \ {r} : ~Traces(r, entity[q])

Unsaved == {"idle", "looking_up", "adding", "getting", "merging", "committing"}

HonestBy(r) ==
    /\ pc[r] # "done" => reply[r] = "none"
    /\ pc[r] \in Unsaved \/ reply[r] \in {"not_found", "bad_request"} => Silent(r)
    /\ pc[r] = "answering" \/ reply[r] = "ok" => \E e \in timeline : e.by = r

Honest == \A r \in Requests : HonestBy(r)

LEMMA NewTracesNobody ==
    ASSUME NEW q \in Requests
    PROVE  ~Traces(q, NewIncident)
  BY DEF Traces, NewIncident

(* A request leaves no trace but its own in what it carries, and a save    *)
(* none but those it carries or the row has.                               *)
LEMMA ChangedTraces ==
    ASSUME NEW q \in Requests, NEW r \in Requests \ {q}, NEW inc \in Row,
           call[r] \in Updates, ~Traces(q, inc)
    PROVE  ~Traces(q, Changed(r, inc))
<1>1. call[r].target \in Statuses /\ q # Null
  BY DEF Updates, Statuses
<1>2. CASE call[r].kind = "assign"
  BY <1>2 DEF Changed, Traces, Row
<1>3. CASE call[r].kind = "resolve"
  BY <1>3 DEF Changed, TransitionTo, Traces, Row
<1>4. CASE call[r].kind \notin {"assign", "resolve"}
  <2>1. Changed(r, inc) = TransitionTo(inc, call[r].target, r)
    BY <1>4 DEF Changed
  <2>. QED
    BY <1>1, <2>1 DEF TransitionTo, Traces, Row
<1>. QED
  BY <1>2, <1>3, <1>4

LEMMA WrittenTraces ==
    ASSUME NEW q, NEW new, NEW base, NEW current,
           ~Traces(q, new), ~Traces(q, current)
    PROVE  ~Traces(q, Written(new, base, current))
  BY DEF Written, Traces

LEMMA EntryNamesRequest ==
    ASSUME TypeOK, NEW r \in Requests, call[r].kind # "none"
    PROVE  EntryOf(r).by = r
<1>1. CASE call[r].kind \in CreateKinds
  <2>1. EntryOf(r) = CreatedEntry(call[r].id, r)
    BY <1>1 DEF EntryOf, CreateKinds
  <2>. QED
    BY <2>1 DEF CreatedEntry
<1>2. CASE call[r].kind \notin CreateKinds
  BY <1>2 DEF EntryOf
<1>. QED
  BY <1>1, <1>2

(* A request stays silent until it commits an update or records.           *)
LEMMA SilentKept ==
    ASSUME IInv, NEW q \in Requests, Silent(q),
           NEW r \in Requests, Submit(r) \/ Step(r) \/ DatabaseError(r),
           r = q => ~Commit(r) /\ ~Record(r)
    PROVE  Silent(q)'
<1>. USE DEF IInv
<1>1. CASE Submit(r) \/ Return(r) \/ DatabaseError(r) \/ Merge(r)
  <2>1. UNCHANGED <<timeline, incidents, entity>>
    BY <1>1 DEF Submit, Return, DatabaseError, Merge, requestVars
  <2>. QED
    BY <2>1 DEF Silent, Traces
<1>2. CASE LookUp(r)
  <2>1. UNCHANGED <<timeline, incidents>>
    BY <1>2 DEF LookUp
  <2>2. \A p \in Requests : entity'[p] \in {entity[p], NewIncident}
    BY <1>2 DEF LookUp, TypeOK
  <2>. QED
    BY <2>1, <2>2, NewTracesNobody DEF Silent, Traces
<1>3. CASE AddIncident(r)
  <2>1. UNCHANGED <<timeline, entity>>
    BY <1>3 DEF AddIncident
  <2>2. entity[r] = NewIncident
    BY <1>3 DEF AddIncident, PhaseOK
  <2>3. \A i \in Ids : incidents'[i] \in {incidents[i], NewIncident}
    BY <1>3, <2>2 DEF AddIncident, TypeOK
  <2>. QED
    BY <2>1, <2>3, NewTracesNobody DEF Silent, Traces
<1>4. CASE GetAndChange(r)
  <2> DEFINE inc == incidents[call[r].id]
  <2>1. UNCHANGED <<timeline, incidents>>
    BY <1>4 DEF GetAndChange
  <2>2. call[r] \in Updates /\ call[r].id \in Ids
    BY <1>4 DEF GetAndChange, PhaseOK, Updates
  <2>3. ASSUME NEW p \in Requests \ {q} PROVE ~Traces(q, entity'[p])
    <3>1. CASE entity'[p] = entity[p]
      BY <3>1 DEF Silent
    <3>2. CASE entity'[p] # entity[p]
      <4>1. p = r /\ inc # NoRow /\ entity'[r] = Changed(r, inc)
        BY <1>4, <3>2 DEF GetAndChange, TypeOK
      <4>2. inc \in Row /\ ~Traces(q, inc)
        BY <2>2, <4>1 DEF TypeOK, Silent
      <4>. HIDE DEF inc
      <4>. QED
        BY <2>2, <2>3, <4>1, <4>2, ChangedTraces
    <3>. QED
      BY <3>1, <3>2
  <2>. QED
    BY <2>1, <2>3 DEF Silent, Traces
<1>5. CASE Commit(r)
  <2> DEFINE i == call[r].id
             row == Written(entity[r], loaded[r], incidents[i])
  <2>1. r # q /\ UNCHANGED <<timeline, entity>> /\ Saved(r)
    BY <1>5 DEF Commit, Saved
  <2>2. /\ i \in Ids /\ incidents[i] \in Row /\ incidents'[i] = row
        /\ \A j \in Ids \ {i} : incidents'[j] = incidents[j]
    BY <2>1, SavedRow
  <2>3. ~Traces(q, entity[r]) /\ ~Traces(q, incidents[i])
    BY <2>1, <2>2 DEF Silent
  <2>4. ~Traces(q, row)
    BY <2>3, WrittenTraces
  <2>. HIDE DEF row, i
  <2>5. \A j \in Ids : incidents'[j] # NoRow => ~Traces(q, incidents'[j])
    BY <2>2, <2>4 DEF Silent
  <2>. QED
    BY <2>1, <2>5 DEF Silent, Traces
<1>6. CASE Record(r)
  <2>1. r # q /\ UNCHANGED <<incidents, entity>>
        /\ timeline' = timeline \union {EntryOf(r)}
    BY <1>6 DEF Record
  <2>2. EntryOf(r).by = r
    BY <1>6, EntryNamesRequest DEF Record, PhaseOK
  <2>. QED
    BY <2>1, <2>2 DEF Silent, Traces
<1>. QED
  BY <1>1, <1>2, <1>3, <1>4, <1>5, <1>6 DEF Step

LEMMA NextHonest ==
    ASSUME IInv, Honest, [Next]_vars, NEW q \in Requests
    PROVE  HonestBy(q)'
<1>. USE DEF IInv
<1>1. HonestBy(q)
  BY DEF Honest
<1>2. timeline \subseteq timeline'
  BY DEF Next, Step, Submit, LookUp, AddIncident, GetAndChange, Merge, Commit, Record,
         Return, DatabaseError, Crash, vars
<1>3. ASSUME pc'[q] = pc[q], reply'[q] = reply[q], Silent(q) => Silent(q)'
      PROVE  HonestBy(q)'
  BY <1>1, <1>2, <1>3 DEF HonestBy
<1>4. ASSUME NEW r \in Requests \ {q}, Submit(r) \/ Step(r) \/ DatabaseError(r)
      PROVE  HonestBy(q)'
  <2>1. pc'[q] = pc[q] /\ reply'[q] = reply[q]
    BY <1>4, OthersKept
  <2>2. Silent(q) => Silent(q)'
    BY <1>4, SilentKept
  <2>. QED
    BY <1>3, <2>1, <2>2
<1>5. CASE Submit(q) \/ LookUp(q) \/ GetAndChange(q) \/ Merge(q)
  <2>1. Submit(q) \/ Step(q) \/ DatabaseError(q)
    BY <1>5 DEF Step
  <2>2. ~Commit(q) /\ ~Record(q)
    BY <1>5 DEF Submit, LookUp, GetAndChange, Merge, Commit, Record
  <2>3. pc[q] \in {"idle", "looking_up", "getting", "merging"}
    BY <1>5 DEF Submit, LookUp, GetAndChange, Merge
  <2>4. Silent(q)'
    BY <1>1, <2>1, <2>2, <2>3, SilentKept DEF HonestBy, Unsaved
  <2>5. /\ pc'[q] # "answering" /\ reply'[q] # "ok"
        /\ pc'[q] # "done" => reply'[q] = "none"
    BY <1>1, <1>5, <2>3 DEF Submit, LookUp, GetAndChange, Merge, Goto, Answer, HonestBy, TypeOK
  <2>. QED
    BY <2>4, <2>5 DEF HonestBy
<1>6. CASE AddIncident(q) \/ Commit(q) \/ DatabaseError(q)
  <2>1. reply[q] = "none"
    BY <1>1, <1>6 DEF AddIncident, Commit, DatabaseError, HonestBy, Waiting
  <2>2. /\ pc'[q] \in {"recording", "done"} /\ reply'[q] \in {"none", "error"}
        /\ pc'[q] = "recording" => reply'[q] = "none"
    BY <1>6, <2>1 DEF AddIncident, Commit, DatabaseError, Goto, Answer, TypeOK
  <2>. QED
    BY <2>2 DEF HonestBy, Unsaved
<1>7. CASE Record(q)
  <2>1. pc[q] = "recording" /\ pc'[q] = "answering" /\ reply'[q] = reply[q]
    BY <1>7 DEF Record, Goto, TypeOK
  <2>2. reply[q] = "none"
    BY <1>1, <2>1 DEF HonestBy
  <2>3. EntryOf(q) \in timeline' /\ EntryOf(q).by = q
    BY <1>7, EntryNamesRequest DEF Record, PhaseOK
  <2>. QED
    BY <2>1, <2>2, <2>3 DEF HonestBy, Unsaved
<1>8. CASE Return(q)
  <2>1. pc[q] = "answering" /\ pc'[q] = "done" /\ reply'[q] = "ok"
    BY <1>8 DEF Return, Answer, TypeOK
  <2>. QED
    BY <1>1, <1>2, <2>1 DEF HonestBy, Unsaved
<1>9. CASE Crash
  <2>1. UNCHANGED <<timeline, incidents, entity>>
    BY <1>9 DEF Crash, requestVars
  <2>2. Silent(q) => Silent(q)'
    BY <2>1 DEF Silent, Traces
  <2>3. CASE pc[q] \in Waiting
    <3>1. pc'[q] = "done" /\ reply'[q] = "lost"
      BY <1>9, <2>3 DEF Crash
    <3>. QED
      BY <3>1 DEF HonestBy, Unsaved
  <2>4. CASE pc[q] \notin Waiting
    <3>1. pc'[q] = pc[q] /\ reply'[q] = reply[q]
      BY <1>9, <2>4 DEF Crash
    <3>. QED
      BY <1>3, <2>2, <3>1
  <2>. QED
    BY <2>3, <2>4
<1>10. CASE UNCHANGED vars
  <2>1. UNCHANGED <<timeline, incidents, entity, pc, reply>>
    BY <1>10 DEF vars
  <2>2. Silent(q) => Silent(q)'
    BY <2>1 DEF Silent, Traces
  <2>. QED
    BY <1>3, <2>1, <2>2
<1>. QED
  BY <1>4, <1>5, <1>6, <1>7, <1>8, <1>9, <1>10 DEF Next, Step

(* Whatever overlaps or fails, a client that is told 200 finds its entry in*)
(* the timeline, and one that is told 404 or 400 changed no row and left   *)
(* no entry, even through a stale copy that another request saves later.   *)
THEOREM RepliesAreHonest == Spec => []RepliesHonest
<1>1. Init => Honest
  <2> SUFFICES ASSUME Init, NEW r \in Requests PROVE HonestBy(r)
    BY DEF Honest
  <2>1. PICK status \in [Existing -> Begun] :
          /\ incidents = [i \in Ids |->
                  IF i \in Existing THEN Brought(status[i]) ELSE NoRow]
          /\ timeline = {CreatedEntry(i, Earlier) : i \in Existing}
    BY DEF Init
  <2>2. r # Earlier /\ r # Null
    OBVIOUS
  <2>3. \A e \in timeline : e.by # r
    BY <2>1, <2>2 DEF CreatedEntry
  <2>4. \A i \in Ids : incidents[i] # NoRow => ~Traces(r, incidents[i])
    BY <2>1, <2>2 DEF Brought, NewIncident, Traces
  <2>5. \A q \in Requests : ~Traces(r, entity[q])
    BY NewTracesNobody DEF Init
  <2>6. pc[r] = "idle" /\ reply[r] = "none"
    BY DEF Init
  <2>. QED
    BY <2>3, <2>4, <2>5, <2>6 DEF HonestBy, Silent
<1>2. IInv /\ Honest /\ [Next]_vars => Honest'
  BY NextHonest DEF Honest
<1>3. Honest => RepliesHonest
  BY DEF Honest, HonestBy, Silent, RepliesHonest
<1>. QED
  BY <1>1, <1>2, <1>3, Inductive, PTL DEF Spec

-------------------------------------------------------------------------------
(* A creation is in the timeline, or request r accounts for it.            *)
Filed(i) == \E e \in timeline : e = CreatedEntry(i, e.by)

AccountsFor(r, i) ==
    /\ call[r].kind \in CreateKinds /\ call[r].id = i
    /\ \/ pc[r] = "recording"
       \/ failures > 0 /\ pc[r] = "done" /\ reply[r] \in {"error", "lost"}

Accounted(i) ==
    incidents[i] # NoRow => Filed(i) \/ \E r \in Requests : AccountsFor(r, i)

AllAccounted == \A i \in Ids : Accounted(i)

LEMMA NextFiled ==
    ASSUME [Next]_vars, NEW i \in Ids, Filed(i) PROVE Filed(i)'
<1>1. timeline \subseteq timeline'
  BY DEF Next, Step, Submit, LookUp, AddIncident, GetAndChange, Merge, Commit,
         Record, Return, DatabaseError, Crash, vars
<1>. QED
  BY <1>1 DEF Filed, CreatedEntry

(* What a request that accounts for a creation may do: write the entry, or *)
(* fail.                                                                   *)
LEMMA AccountKept ==
    ASSUME IInv, [Next]_vars, NEW i \in Ids, NEW q \in Requests, AccountsFor(q, i)
    PROVE  Filed(i)' \/ AccountsFor(q, i)'
<1>. USE DEF IInv
<1>1. call[q].kind \in CreateKinds /\ call[q].id = i /\ failures \in Nat
  BY DEF AccountsFor, TypeOK
<1>2. CASE Record(q)
  <2>1. EntryOf(q) = CreatedEntry(i, q)
    BY <1>1 DEF EntryOf, CreateKinds
  <2>2. CreatedEntry(i, q) \in timeline'
    BY <1>2, <2>1 DEF Record
  <2>. QED
    BY <2>2 DEF Filed, CreatedEntry
<1>3. CASE DatabaseError(q)
  <2>1. /\ pc'[q] = "done" /\ reply'[q] = "error" /\ call' = call
        /\ failures' = failures + 1
    BY <1>3 DEF DatabaseError, Answer, requestVars, TypeOK
  <2>2. failures' > 0
    BY <1>1, <2>1
  <2>. QED
    BY <1>1, <2>1, <2>2 DEF AccountsFor
<1>4. CASE Crash
  <2>1. failures' > 0 /\ call' = call
    BY <1>1, <1>4 DEF Crash, requestVars
  <2>2. CASE pc[q] = "recording"
    <3>1. pc'[q] = "done" /\ reply'[q] = "lost"
      BY <1>4, <2>2 DEF Crash, Waiting
    <3>. QED
      BY <1>1, <2>1, <3>1 DEF AccountsFor
  <2>3. CASE pc[q] = "done" /\ reply[q] \in {"error", "lost"}
    <3>1. pc'[q] = "done" /\ reply'[q] = reply[q]
      BY <1>4, <2>3 DEF Crash, Waiting
    <3>. QED
      BY <1>1, <2>1, <2>3, <3>1 DEF AccountsFor
  <2>. QED
    BY <2>2, <2>3 DEF AccountsFor
<1>5. CASE Submit(q) \/ LookUp(q) \/ AddIncident(q) \/ GetAndChange(q) \/ Merge(q)
             \/ Commit(q) \/ Return(q)
  BY <1>5 DEF AccountsFor, Submit, LookUp, AddIncident, GetAndChange, Merge,
              Commit, Return
<1>6. ASSUME NEW r \in Requests \ {q}, Submit(r) \/ Step(r) \/ DatabaseError(r)
      PROVE  AccountsFor(q, i)'
  <2>1. failures' \in {failures, failures + 1}
    BY <1>6 DEF Step, Submit, LookUp, AddIncident, GetAndChange, Merge, Commit,
                Record, Return, DatabaseError
  <2>2. failures > 0 => failures' > 0
    BY <1>1, <2>1
  <2>3. pc'[q] = pc[q] /\ call'[q] = call[q] /\ reply'[q] = reply[q]
    BY <1>6, OthersKept
  <2>. QED
    BY <2>2, <2>3 DEF AccountsFor
<1>7. CASE UNCHANGED vars
  BY <1>7 DEF vars, AccountsFor
<1>. QED
  BY <1>2, <1>3, <1>4, <1>5, <1>6, <1>7 DEF Next, Step

(* A row appears with a request that is about to record it.                *)
LEMMA NextAccounted ==
    ASSUME IInv, AllAccounted, [Next]_vars, NEW i \in Ids
    PROVE  Accounted(i)'
<1>1. CASE incidents[i] # NoRow
  <2>1. Filed(i) \/ \E r \in Requests : AccountsFor(r, i)
    BY <1>1 DEF AllAccounted, Accounted
  <2>2. Filed(i)' \/ \E r \in Requests : AccountsFor(r, i)'
    BY <2>1, NextFiled, AccountKept
  <2>. QED
    BY <2>2 DEF Accounted
<1>2. CASE incidents[i] = NoRow /\ incidents'[i] # NoRow
  <2>1. PICK r \in Requests : AddIncident(r) \/ Commit(r)
    BY <1>2 DEF Next, Step, Submit, LookUp, GetAndChange, Merge, Record, Return,
                DatabaseError, Crash, vars
  <2>2. CASE AddIncident(r)
    <3>1. call[r].kind \in CreateKinds
      BY <2>2 DEF AddIncident, IInv, PhaseOK
    <3>2. /\ call'[r].kind = call[r].kind /\ call'[r].id = i
          /\ pc'[r] = "recording"
      BY <1>2, <2>2 DEF AddIncident, Goto, IInv, TypeOK, Updates, NoCall
    <3>3. AccountsFor(r, i)'
      BY <3>1, <3>2 DEF AccountsFor, IInv, TypeOK
    <3>. QED
      BY <3>3 DEF Accounted
  <2>3. CASE Commit(r)
    BY <1>2, <2>3 DEF Commit, IInv, PhaseOK, TypeOK
  <2>. QED
    BY <2>1, <2>2, <2>3
<1>. QED
  BY <1>1, <1>2 DEF Accounted

(* An incident that the timeline does not say was created has a request    *)
(* that is about to say so, or that was told of no success because the     *)
(* database or the process failed between the two commits: nothing else,   *)
(* and no other request, ever loses the CREATED entry.                     *)
THEOREM CreationsAreRecorded == Spec => []CreationsRecorded
<1>1. Init => AllAccounted
  <2> SUFFICES ASSUME Init, NEW i \in Existing PROVE Filed(i)
    BY DEF Init, AllAccounted, Accounted
  <2>1. CreatedEntry(i, Earlier) \in timeline
    BY DEF Init
  <2>. QED
    BY <2>1 DEF Filed, CreatedEntry
<1>2. IInv /\ AllAccounted /\ [Next]_vars => AllAccounted'
  BY NextAccounted DEF AllAccounted
<1>3. AllAccounted => CreationsRecorded
  BY DEF AllAccounted, Accounted, Filed, AccountsFor, CreationsRecorded
<1>. QED
  BY <1>1, <1>2, <1>3, Inductive, PTL DEF Spec

-------------------------------------------------------------------------------
(* Requests that do not overlap save what they read, changed.              *)
OneAtATime ==
    \A q, r \in Requests : pc[q] \in Waiting /\ pc[r] \in Waiting => q = r

FreshBy(r) ==
    LET inc == incidents[call[r].id] IN
    /\ pc[r] \in {"merging", "committing"} => Accepted(r, inc) /\ entity[r] = Changed(r, inc)
    /\ pc[r] = "committing" => loaded[r] = inc

NotesExact ==
    \A i \in Ids : incidents[i] # NoRow /\ incidents[i].resolution_notes # Null =>
        incidents[i].resolved_at # Null

Serial == /\ OneAtATime
          /\ \A r \in Requests : FreshBy(r)
          /\ StampsExact /\ NotesExact

(* The body of StampsExact, and what it takes for notes.                   *)
Exact(inc) ==
    LET rungs == Climbed!UpTo(inc.status) IN
    /\ inc.acknowledged_at # Null <=> "ACKNOWLEDGED" \in rungs
    /\ inc.resolved_at # Null <=> "RESOLVED" \in rungs
    /\ inc.closed_at # Null <=> "CLOSED" \in rungs
    /\ inc.resolution_notes # Null => inc.resolved_at # Null

(* What is kept from an incident to the next.                              *)
Keeps(inc, next) ==
    /\ inc.assigned_to # Null => next.assigned_to # Null
    /\ \A c \in {"acknowledged_at", "resolved_at", "closed_at", "resolution_notes"} :
          inc[c] # Null => next[c] = inc[c]

LEMMA UpToFacts ==
    /\ Climbed!UpTo("OPEN") = {"OPEN"}
    /\ Climbed!UpTo("ACKNOWLEDGED") = {"OPEN", "ACKNOWLEDGED"}
    /\ Climbed!UpTo("IN_PROGRESS") = {"OPEN", "ACKNOWLEDGED", "IN_PROGRESS"}
    /\ Climbed!UpTo("RESOLVED") = {"OPEN", "ACKNOWLEDGED", "IN_PROGRESS", "RESOLVED"}
    /\ Climbed!UpTo("CLOSED") = Statuses
  BY RungFacts DEF Climbed!UpTo, Statuses

(* An operation on a row with exact stamps leaves exact stamps and takes   *)
(* nothing back.                                                           *)
LEMMA TransitionExact ==
    ASSUME NEW inc \in Row, NEW t \in Statuses, NEW r \in Requests,
           Exact(inc), CanTransition(inc.status, t)
    PROVE  Exact(TransitionTo(inc, t, r)) /\ Keeps(inc, TransitionTo(inc, t, r))
<1> DEFINE next == TransitionTo(inc, t, r)
<1>1. /\ next.status = t
      /\ next.acknowledged_at = IF t = "ACKNOWLEDGED" THEN r ELSE inc.acknowledged_at
      /\ next.resolved_at = IF t = "RESOLVED" THEN r ELSE inc.resolved_at
      /\ next.closed_at = IF t = "CLOSED" THEN r ELSE inc.closed_at
      /\ next.assigned_to = inc.assigned_to
      /\ next.resolution_notes = inc.resolution_notes
  BY DEF TransitionTo, Row
<1>. HIDE DEF next
<1>2. r # Null /\ inc.status \in Statuses
  BY DEF Row
<1>3. \/ inc.status = "OPEN" /\ t = "ACKNOWLEDGED"
      \/ inc.status = "ACKNOWLEDGED" /\ t = "IN_PROGRESS"
      \/ inc.status = "IN_PROGRESS" /\ t = "RESOLVED"
      \/ inc.status = "RESOLVED" /\ t = "CLOSED"
  BY <1>2 DEF CanTransition, Allowed, Statuses
<1>4. Exact(next)
  BY <1>1, <1>2, <1>3, UpToFacts DEF Exact, Statuses
<1>5. Keeps(inc, next)
  BY <1>1, <1>2, <1>3, UpToFacts DEF Exact, Keeps
<1>. QED
  BY <1>4, <1>5 DEF next

LEMMA ChangedExact ==
    ASSUME NEW r \in Requests, NEW inc \in Row,
           call[r] \in Updates, Accepted(r, inc), Exact(inc)
    PROVE  Exact(Changed(r, inc)) /\ Keeps(inc, Changed(r, inc))
<1>1. call[r].target \in Statuses /\ "RESOLVED" \in Statuses /\ r # Null
  BY DEF Updates, Statuses
<1>2. CASE call[r].kind = "assign"
  <2>1. Changed(r, inc) = [inc EXCEPT !.assigned_to = r]
    BY <1>2 DEF Changed
  <2>. QED
    BY <1>1, <2>1 DEF Exact, Keeps, Row
<1>3. CASE call[r].kind = "resolve"
  <2> DEFINE next == TransitionTo(inc, "RESOLVED", r)
  <2>1. call[r].target = "RESOLVED"
    BY <1>3 DEF Updates
  <2>2. CanTransition(inc.status, "RESOLVED")
    BY <1>3, <2>1 DEF Accepted
  <2>3. /\ next \in Row /\ next.status = "RESOLVED" /\ Exact(next) /\ Keeps(inc, next)
    BY <1>1, <2>2, TransitionToIsRow, TransitionExact DEF Value
  <2>4. Changed(r, inc) = [next EXCEPT !.resolution_notes = r]
    BY <1>3 DEF Changed
  <2>5. inc.resolution_notes = Null
    BY <2>2, UpToFacts DEF Exact, CanTransition, Allowed, Row, Statuses
  <2>. HIDE DEF next
  <2>6. "RESOLVED" \in Climbed!UpTo("RESOLVED")
    BY UpToFacts
  <2>. QED
    BY <1>1, <2>3, <2>4, <2>5, <2>6 DEF Exact, Keeps, Row
<1>4. CASE call[r].kind \notin {"assign", "resolve"}
  <2>1. Changed(r, inc) = TransitionTo(inc, call[r].target, r)
    BY <1>4 DEF Changed
  <2>2. CanTransition(inc.status, call[r].target)
    BY <1>4 DEF Accepted
  <2>. QED
    BY <1>1, <2>1, <2>2, TransitionExact
<1>. QED
  BY <1>2, <1>3, <1>4

(* A save onto the row that it read writes what it carries.                *)
LEMMA WrittenFresh ==
    ASSUME NEW new \in Row, NEW base \in Row
    PROVE  Written(new, base, base) = new
  BY DEF Written, Row

LEMMA NextOneAtATime ==
    ASSUME Overlap = FALSE, IInv, OneAtATime, [Next]_vars
    PROVE  OneAtATime'
<1>. USE DEF IInv
<1>1. ASSUME NEW r \in Requests, Submit(r) PROVE OneAtATime'
  <2>1. \A q \in Requests : pc[q] \notin Waiting
    BY <1>1 DEF Submit
  <2>2. \A q \in Requests \ {r} : pc'[q] = pc[q]
    BY <1>1, OthersKept
  <2>. QED
    BY <2>1, <2>2 DEF OneAtATime
<1>2. ASSUME \A q \in Requests : pc'[q] \in Waiting => pc[q] \in Waiting
      PROVE  OneAtATime'
  BY <1>2 DEF OneAtATime
<1>3. ASSUME NEW r \in Requests, Step(r) \/ DatabaseError(r) PROVE OneAtATime'
  <2>1. pc[r] \in Waiting
    BY <1>3 DEF Step, LookUp, AddIncident, GetAndChange, Merge, Commit, Record, Return,
                DatabaseError, Waiting
  <2>2. \A q \in Requests \ {r} : pc'[q] = pc[q]
    BY <1>3, OthersKept
  <2>. QED
    BY <1>2, <2>1, <2>2
<1>4. CASE Crash
  <2>1. \A q \in Requests : pc'[q] \in Waiting => pc[q] \in Waiting
    BY <1>4 DEF Crash, Waiting
  <2>. QED
    BY <1>2, <2>1
<1>5. CASE UNCHANGED vars
  BY <1>2, <1>5 DEF vars
<1>. QED
  BY <1>1, <1>3, <1>4, <1>5 DEF Next

LEMMA NextFresh ==
    ASSUME IInv, OneAtATime, NEW q \in Requests, FreshBy(q), [Next]_vars
    PROVE  FreshBy(q)'
<1>. USE DEF IInv
<1>1. ASSUME pc'[q] = pc[q], call'[q] = call[q], entity'[q] = entity[q],
             loaded'[q] = loaded[q], incidents' = incidents
      PROVE  FreshBy(q)'
  BY <1>1 DEF FreshBy, Accepted, Changed
<1>2. CASE pc'[q] \notin {"merging", "committing"}
  BY <1>2 DEF FreshBy
<1>3. ASSUME NEW r \in Requests \ {q}, Submit(r) PROVE FreshBy(q)'
  <2>1. incidents' = incidents
    BY <1>3 DEF Submit
  <2>. QED
    BY <1>1, <1>3, <2>1, OthersKept
<1>4. ASSUME NEW r \in Requests \ {q}, Step(r) \/ DatabaseError(r) PROVE FreshBy(q)'
  <2>1. pc[r] \in Waiting
    BY <1>4 DEF Step, LookUp, AddIncident, GetAndChange, Merge, Commit, Record, Return,
                DatabaseError, Waiting
  <2>2. pc[q] \notin Waiting /\ pc'[q] = pc[q]
    BY <1>4, <2>1, OthersKept DEF OneAtATime
  <2>. QED
    BY <1>2, <2>2 DEF Waiting
<1>5. CASE GetAndChange(q)
  <2> DEFINE inc == incidents[call[q].id]
  <2>1. CASE inc = NoRow \/ ~Accepted(q, inc)
    <3>1. pc'[q] = "done"
      BY <1>5, <2>1 DEF GetAndChange, Answer, TypeOK
    <3>. QED
      BY <1>2, <3>1
  <2>2. CASE inc # NoRow /\ Accepted(q, inc)
    <3>1. /\ entity'[q] = Changed(q, inc) /\ call' = call /\ incidents' = incidents
          /\ pc'[q] = "merging"
      BY <1>5, <2>2 DEF GetAndChange, Goto, TypeOK
    <3>. QED
      BY <2>2, <3>1 DEF FreshBy, Accepted, Changed
  <2>. QED
    BY <2>1, <2>2
<1>6. CASE Merge(q)
  <2>1. /\ pc[q] = "merging" /\ pc'[q] = "committing" /\ call' = call
        /\ incidents' = incidents /\ entity' = entity
        /\ loaded'[q] = incidents[call[q].id]
    BY <1>6 DEF Merge, Goto, TypeOK
  <2>. QED
    BY <2>1 DEF FreshBy, Accepted, Changed
<1>7. CASE \/ Submit(q) \/ LookUp(q) \/ AddIncident(q) \/ Commit(q)
           \/ Record(q) \/ Return(q) \/ DatabaseError(q)
  <2>1. pc'[q] \notin {"merging", "committing"}
    BY <1>7 DEF Submit, LookUp, AddIncident, Commit, Record, Return, DatabaseError,
                Goto, Answer, TypeOK
  <2>. QED
    BY <1>2, <2>1
<1>8. CASE Crash
  <2>1. pc'[q] \notin Waiting
    BY <1>8 DEF Crash, Waiting
  <2>. QED
    BY <1>2, <2>1 DEF Waiting
<1>9. CASE UNCHANGED vars
  BY <1>1, <1>9 DEF vars
<1>. QED
  BY <1>3, <1>4, <1>5, <1>6, <1>7, <1>8, <1>9 DEF Next, Step

(* What a step does to the rows when requests do not overlap.              *)
Advanced(r) ==
    LET i == call[r].id IN
    /\ i \in Ids /\ call[r] \in Updates
    /\ incidents[i] \in Row /\ Accepted(r, incidents[i])
    /\ incidents' = [incidents EXCEPT ![i] = Changed(r, incidents[i])]

LEMMA SerialStep ==
    ASSUME IInv, Serial, [Next]_vars
    PROVE  \/ incidents' = incidents
           \/ \E i \in Ids : Opened(i)
           \/ \E r \in Requests : Advanced(r)
<1>. USE DEF IInv
<1>1. ASSUME NEW r \in Requests, Saved(r) PROVE Advanced(r)
  <2> DEFINE i == call[r].id
             row == Written(entity[r], loaded[r], incidents[i])
  <2>1. i \in Ids /\ incidents[i] \in Row
    BY <1>1, SavedRow
  <2>2. /\ pc[r] = "committing" /\ call[r] \in Updates
        /\ incidents' = [incidents EXCEPT ![i] = row]
    BY <1>1 DEF Saved, PhaseOK
  <2>3. /\ Accepted(r, incidents[i]) /\ entity[r] = Changed(r, incidents[i])
        /\ loaded[r] = incidents[i]
    BY <2>2 DEF Serial, FreshBy
  <2>4. Changed(r, incidents[i]) \in Row
    BY <2>1, <2>2, <2>3, ChangedIsRow
  <2>5. row = Changed(r, incidents[i])
    BY <2>1, <2>3, <2>4, WrittenFresh
  <2>. HIDE DEF row
  <2>. QED
    BY <2>1, <2>2, <2>3, <2>5 DEF Advanced
<1>. QED
  BY <1>1, StepEffect

LEMMA RowsExact ==
    ASSUME Serial, NEW i \in Ids, incidents[i] # NoRow
    PROVE  Exact(incidents[i])
  BY DEF Serial, StampsExact, NotesExact, Exact

LEMMA NewIncidentExact == Exact(NewIncident)
  BY UpToFacts DEF Exact, NewIncident

LEMMA NextExact ==
    ASSUME IInv, Serial, [Next]_vars
    PROVE  StampsExact' /\ NotesExact'
<1>. USE DEF IInv
<1>1. ASSUME \A i \in Ids : incidents'[i] # NoRow => Exact(incidents'[i])
      PROVE  StampsExact' /\ NotesExact'
  BY <1>1 DEF StampsExact, NotesExact, Exact
<1>2. CASE incidents' = incidents
  BY <1>1, <1>2, RowsExact
<1>3. ASSUME NEW i \in Ids, Opened(i) PROVE StampsExact' /\ NotesExact'
  <2>1. \A j \in Ids : incidents'[j] = IF j = i THEN NewIncident ELSE incidents[j]
    BY <1>3 DEF Opened, TypeOK
  <2>. QED
    BY <1>1, <2>1, RowsExact, NewIncidentExact
<1>4. ASSUME NEW r \in Requests, Advanced(r) PROVE StampsExact' /\ NotesExact'
  <2> DEFINE i == call[r].id
  <2>1. Exact(Changed(r, incidents[i]))
    <3>1. incidents[i] # NoRow
      BY <1>4 DEF Advanced
    <3>. QED
      BY <1>4, <3>1, RowsExact, ChangedExact DEF Advanced
  <2>2. \A j \in Ids : incidents'[j] = IF j = i THEN Changed(r, incidents[i]) ELSE incidents[j]
    BY <1>4 DEF Advanced, TypeOK
  <2>. QED
    BY <1>1, <2>1, <2>2, RowsExact
<1>. QED
  BY <1>2, <1>3, <1>4, SerialStep

LEMMA SerialInductive ==
    ASSUME Overlap = FALSE
    PROVE  Spec => []Serial
<1>1. Init => Serial
  <2> SUFFICES ASSUME Init PROVE Serial
    OBVIOUS
  <2>1. PICK status \in [Existing -> Begun] :
          incidents = [i \in Ids |-> IF i \in Existing THEN Brought(status[i]) ELSE NoRow]
    BY DEF Init
  <2>2. OneAtATime /\ \A r \in Requests : FreshBy(r)
    BY DEF Init, OneAtATime, FreshBy, Waiting
  <2>3. ASSUME NEW i \in Existing PROVE Exact(incidents[i])
    <3>1. incidents[i] = Brought(status[i]) /\ status[i] \in Statuses
      BY <2>1
    <3> DEFINE Stamp(rung) == IF rung \in Climbed!UpTo(status[i]) THEN Earlier ELSE Null
    <3>2. /\ incidents[i].status = status[i]
          /\ incidents[i].acknowledged_at = Stamp("ACKNOWLEDGED")
          /\ incidents[i].resolved_at = Stamp("RESOLVED")
          /\ incidents[i].closed_at = Stamp("CLOSED")
          /\ incidents[i].resolution_notes = Null
      BY <3>1 DEF Brought, NewIncident
    <3>. QED
      BY <3>2 DEF Exact
  <2>4. \A i \in Ids : incidents[i] # NoRow => Exact(incidents[i])
    BY <2>1, <2>3
  <2>. QED
    BY <2>2, <2>4 DEF Serial, StampsExact, NotesExact, Exact
<1>2. IInv /\ Serial /\ [Next]_vars => Serial'
  <2> SUFFICES ASSUME IInv, Serial, [Next]_vars PROVE Serial'
    OBVIOUS
  <2>1. OneAtATime'
    BY NextOneAtATime DEF Serial
  <2>2. \A q \in Requests : FreshBy(q)'
    BY NextFresh DEF Serial
  <2>3. StampsExact' /\ NotesExact'
    BY NextExact
  <2>. QED
    BY <2>1, <2>2, <2>3 DEF Serial
<1>. QED
  BY <1>1, <1>2, Inductive, PTL DEF Spec

(* Requests that do not overlap leave every row with exactly the stamps of *)
(* the rungs it stands on or above, whatever fails in between.             *)
THEOREM StampsAreExact ==
    ASSUME Overlap = FALSE
    PROVE  Spec => []StampsExact
<1>1. Serial => StampsExact
  BY DEF Serial
<1>. QED
  BY <1>1, SerialInductive, PTL

-------------------------------------------------------------------------------
(* The ladder is the same whichever history it is read from.               *)
LEMMA SameLadder ==
    /\ Standing!Rungs = Statuses
    /\ \A s \in Statuses : Standing!Below(s) = Climbed!Below(s)
    /\ \A s \in Statuses : Standing!UpTo(s) = Climbed!UpTo(s)
  BY DEF Standing!Rungs, Standing!Below, Standing!UpTo, Standing!Rank, Statuses,
         Climbed!Rungs, Climbed!Below, Climbed!UpTo, Climbed!Rank

(* The rungs a row stands on or above.                                     *)
RungsOf(i) == IF incidents[i] = NoRow THEN {} ELSE Climbed!UpTo(incidents[i].status)

LEMMA ChangedClimbs ==
    ASSUME NEW r \in Requests, NEW inc \in Row, call[r] \in Updates, Accepted(r, inc)
    PROVE  \/ Changed(r, inc).status = inc.status
           \/ /\ Changed(r, inc).status \in Statuses
              /\ Climbed!Below(Changed(r, inc).status) = Climbed!UpTo(inc.status)
<1>1. call[r].target \in Statuses /\ inc.status \in Statuses
  BY DEF Updates, Row, Statuses
<1>2. CASE call[r].kind = "assign"
  BY <1>2 DEF Changed, Row
<1>3. CASE call[r].kind # "assign"
  <2>1. CanTransition(inc.status, call[r].target)
    BY <1>3 DEF Accepted
  <2>2. Changed(r, inc).status = call[r].target
    BY <1>3 DEF Changed, Updates, TransitionTo, Row
  <2>. QED
    BY <1>1, <2>1, <2>2, EdgeFacts
<1>. QED
  BY <1>2, <1>3

LEMMA OneRungUp ==
    ASSUME IInv, Serial, [Next]_vars
    PROVE  [Standing!Next]_([i \in Ids |-> RungsOf(i)])
<1>. USE DEF IInv
<1> DEFINE reached == [i \in Ids |-> RungsOf(i)]
<1>1. CASE incidents' = incidents
  BY <1>1 DEF RungsOf
<1>2. ASSUME NEW i \in Ids, NEW s \in Statuses,
             reached[i] = Climbed!Below(s),
             reached' = [reached EXCEPT ![i] = Climbed!UpTo(s)]
      PROVE  Standing!Next
  <2>1. /\ s \in Standing!Rungs /\ reached[i] = Standing!Below(s)
        /\ reached' = [reached EXCEPT ![i] = Standing!UpTo(s)]
    BY <1>2, SameLadder
  <2>2. Standing!Climb(i)
    BY <2>1 DEF Standing!Climb, RungsOf
  <2>. QED
    BY <1>2, <2>2 DEF Standing!Next
<1>3. ASSUME NEW i \in Ids, Opened(i) PROVE Standing!Next
  <2>1. \A j \in Ids : incidents'[j] = IF j = i THEN NewIncident ELSE incidents[j]
    BY <1>3 DEF Opened, TypeOK
  <2>2. incidents[i] = NoRow /\ NewIncident # NoRow /\ NewIncident.status = "OPEN"
    BY <1>3, NewIncidentIsRow, NoRowAssumption DEF Opened, NewIncident
  <2>3. reached' = [reached EXCEPT ![i] = Climbed!UpTo("OPEN")]
    BY <2>1, <2>2 DEF RungsOf
  <2>4. reached[i] = Climbed!Below("OPEN") /\ "OPEN" \in Statuses
    BY <2>2, RungFacts DEF RungsOf, Statuses
  <2>. QED
    BY <1>2, <2>3, <2>4
<1>4. ASSUME NEW r \in Requests, Advanced(r) PROVE Standing!Next \/ reached' = reached
  <2> DEFINE i == call[r].id
             next == Changed(r, incidents[i])
  <2>1. /\ i \in Ids /\ incidents[i] \in Row /\ incidents[i] # NoRow
        /\ next \in Row /\ next # NoRow
    BY <1>4, ChangedIsRow, NoRowAssumption DEF Advanced
  <2>2. \A j \in Ids : incidents'[j] = IF j = i THEN next ELSE incidents[j]
    BY <1>4 DEF Advanced, TypeOK
  <2>3. \/ next.status = incidents[i].status
        \/ /\ next.status \in Statuses
           /\ Climbed!Below(next.status) = Climbed!UpTo(incidents[i].status)
    BY <1>4, <2>1, ChangedClimbs DEF Advanced
  <2>. HIDE DEF next
  <2>4. reached' = [reached EXCEPT ![i] = Climbed!UpTo(next.status)]
    BY <2>1, <2>2 DEF RungsOf
  <2>5. reached[i] = Climbed!UpTo(incidents[i].status)
    BY <2>1 DEF RungsOf
  <2>6. CASE next.status = incidents[i].status
    BY <2>4, <2>5, <2>6
  <2>7. CASE next.status # incidents[i].status
    BY <1>2, <2>1, <2>3, <2>4, <2>5, <2>7
  <2>. QED
    BY <2>6, <2>7
<1>. QED
  BY <1>1, <1>3, <1>4, SerialStep

LEMMA NothingTakenBack ==
    ASSUME IInv, Serial, [Next]_vars, NEW i \in Ids, incidents[i] # NoRow
    PROVE  incidents'[i] # NoRow /\ Keeps(incidents[i], incidents'[i])
<1>. USE DEF IInv
<1>1. CASE incidents'[i] = incidents[i]
  BY <1>1 DEF Keeps
<1>2. ASSUME NEW j \in Ids, Opened(j) PROVE incidents'[i] = incidents[i]
  BY <1>2 DEF Opened, TypeOK
<1>3. ASSUME NEW r \in Requests, Advanced(r)
      PROVE  incidents'[i] # NoRow /\ Keeps(incidents[i], incidents'[i])
  <2>1. CASE i # call[r].id
    <3>1. incidents'[i] = incidents[i]
      BY <1>3, <2>1 DEF Advanced, TypeOK
    <3>. QED
      BY <1>1, <3>1
  <2>2. CASE i = call[r].id
    <3>1. /\ call[r] \in Updates /\ incidents[i] \in Row /\ Accepted(r, incidents[i])
          /\ incidents'[i] = Changed(r, incidents[i])
      BY <1>3, <2>2 DEF Advanced, TypeOK
    <3>2. Exact(incidents[i])
      BY RowsExact
    <3>. QED
      BY <3>1, <3>2, ChangedIsRow, ChangedExact, NoRowAssumption
  <2>. QED
    BY <2>1, <2>2
<1>. QED
  BY <1>1, <1>2, <1>3, SerialStep

(* Requests that do not overlap take a row up the ladder one rung at a     *)
(* time and never take back an owner, a stamp or notes: the rows           *)
(* themselves, not only their history, are the ladder of IncidentLifecycle.*)
THEOREM RowsClimbSerially ==
    ASSUME Overlap = FALSE
    PROVE  Spec => RowsClimb
<1> DEFINE reached == [i \in Ids |-> IF incidents[i] = NoRow THEN {}
                                     ELSE Climbed!UpTo(incidents[i].status)]
<1>1. Init => Standing!Init
  <2> SUFFICES ASSUME Init PROVE Standing!Init
    OBVIOUS
  <2>1. ASSUME NEW i \in Ids, incidents[i] # NoRow PROVE incidents[i].status \in Statuses
    BY <2>1, InitTypeOK DEF TypeOK, Row
  <2>2. \A i \in Ids : reached[i] \in {{}} \union {Standing!UpTo(s) : s \in Standing!Rungs}
    BY <2>1, SameLadder
  <2>. QED
    BY <2>2 DEF Standing!Init
<1>2. IInv /\ Serial /\ [Next]_vars => [Standing!Next]_reached
  BY OneRungUp DEF RungsOf
<1>3. IInv /\ Serial /\ [Next]_vars =>
        [\A i \in Ids : incidents[i] # NoRow =>
            /\ incidents'[i] # NoRow
            /\ incidents[i].assigned_to # Null => incidents'[i].assigned_to # Null
            /\ \A c \in {"acknowledged_at", "resolved_at", "closed_at",
                          "resolution_notes"} :
                  incidents[i][c] # Null => incidents'[i][c] = incidents[i][c]]_vars
  BY NothingTakenBack DEF Keeps
<1>. QED
  BY <1>1, <1>2, <1>3, Inductive, SerialInductive, PTL
     DEF Spec, RowsClimb, Standing!Spec
===============================================================================
