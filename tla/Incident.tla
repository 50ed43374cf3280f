------------------------------- MODULE Incident -------------------------------
(***************************************************************************)
(* The Incident aggregate of src/domain/entities/incident.py: the columns  *)
(* that change after creation and the status ladder transition_to enforces.*)
(* Title, description, severity, source, server and findings are written   *)
(* once, at creation, and copied unchanged by every later save, so they    *)
(* are left out.                                                           *)
(***************************************************************************)
EXTENDS Naturals

CONSTANTS
    Requests,   \* API requests; a value a request writes is named after it
    Earlier,    \* names the values written before the behaviour starts
    Null        \* SQL NULL / Python None

ASSUME NullAssumption == Null \notin Requests /\ Earlier \notin Requests \union {Null}

Statuses == {"OPEN", "ACKNOWLEDGED", "IN_PROGRESS", "RESOLVED", "CLOSED"}

(* A timestamp, an owner or a text is the request that supplied it. *)
Value == Requests \union {Earlier, Null}

Row == [status : Statuses,
        acknowledged_at : Value, resolved_at : Value, closed_at : Value,
        assigned_to : Value, resolution_notes : Value]

(* What IncidentService.create_incident and IncidentFactory build. *)
NewIncident ==
    [status |-> "OPEN",
     acknowledged_at |-> Null, resolved_at |-> Null, closed_at |-> Null,
     assigned_to |-> Null, resolution_notes |-> Null]

-------------------------------------------------------------------------------
(* Mutant: a short cut in the table that lets an incident be resolved      *)
(* straight after it was acknowledged.                                     *)
AllowedWithShortcut ==
    [OPEN |-> {"ACKNOWLEDGED"},
     ACKNOWLEDGED |-> {"IN_PROGRESS", "RESOLVED"},
     IN_PROGRESS |-> {"RESOLVED"},
     RESOLVED |-> {"CLOSED"},
     CLOSED |-> {}]

(* The table of transition_to. Both sides are upper-cased there, so a      *)
(* target stands for all its spellings; a string the table does not list   *)
(* is refused from every status, as the target "OPEN" is.                  *)
Allowed ==
    [OPEN |-> {"ACKNOWLEDGED"},
     ACKNOWLEDGED |-> {"IN_PROGRESS"},
     IN_PROGRESS |-> {"RESOLVED"},
     RESOLVED |-> {"CLOSED"},
     CLOSED |-> {}]

CanTransition(current, target) == target \in Allowed[current]

(* Mutant: resolved_at is stamped one rung too early.                      *)
TransitionStampingEarly(inc, target, now) ==
    [inc EXCEPT
        !.status = target,
        !.acknowledged_at = IF target = "ACKNOWLEDGED" THEN now ELSE @,
        !.resolved_at = IF target \in {"IN_PROGRESS", "RESOLVED"} THEN now ELSE @,
        !.closed_at = IF target = "CLOSED" THEN now ELSE @]

(* The aggregate after transition_to: IN_PROGRESS has no time stamp.       *)
TransitionTo(inc, target, now) ==
    [inc EXCEPT
        !.status = target,
        !.acknowledged_at = IF target = "ACKNOWLEDGED" THEN now ELSE @,
        !.resolved_at = IF target = "RESOLVED" THEN now ELSE @,
        !.closed_at = IF target = "CLOSED" THEN now ELSE @]
===============================================================================
