---------------------------- MODULE ServerRegistry -----------------------------
(***************************************************************************)
(* ServerService.register_server over PostgresServerRepository and the     *)
(* servers table.  Every request has its own session; between its awaits   *)
(* other requests run:                                                     *)
(*                                                                         *)
(*   validate -> exists? -> save: exists? -> insert, commit -> refresh     *)
(*                                                                         *)
(* No lock is held between the two checks and the insert.  Nothing deletes *)
(* or updates a server.                                                    *)
(***************************************************************************)
EXTENDS Naturals

CONSTANTS
    Requests, Hostnames, Addresses, Earlier,
    MaxFailures      \* bound on database errors and process crashes

ASSUME MaxFailuresAssumption == MaxFailures \in Nat
ASSUME EarlierAssumption ==
    Earlier \notin Requests /\ Earlier \notin Hostnames /\ Earlier \notin Addresses

VARIABLES
    servers,     \* the servers table; a row is told by the request that wrote it
    pc,          \* where each request is
    call,        \* the keys it names; the other fields are only copied
    reply,       \* what the client was answered
    failures     \* failures so far

vars == <<servers, pc, call, reply, failures>>

-------------------------------------------------------------------------------
HasRow(r) == \E s \in servers : s.by = r

(* A request has been registered once its row is committed, even while its *)
(* client does not know, and for good even if the client never learns.     *)
Outcome(r) ==
    IF HasRow(r) THEN "registered"
    ELSE CASE pc[r] = "idle" -> "none"
           [] pc[r] = "done" /\ reply[r] = "conflict" -> "refused"
           [] pc[r] = "done" /\ reply[r] # "conflict" -> "failed"
           [] OTHER -> "pending"

Registry ==
    INSTANCE AtomicRegistry WITH
        asked <- call, outcome <- [r \in Requests |-> Outcome(r)]

Waiting == {"checking", "saving", "committing", "refreshing"}
Replies == {"none", "ok", "bad_request", "conflict", "error", "lost"}

Init ==
    /\ servers \in SUBSET {Registry!ServerOf(k, Earlier) : k \in Registry!Keys}
    /\ \A s, t \in servers : Registry!Clash(s, t) => s = t
    /\ pc = [r \in Requests |-> "idle"]
    /\ call = [r \in Requests |-> Registry!NoKeys]
    /\ reply = [r \in Requests |-> "none"]
    /\ failures = 0

Goto(r, label) ==
    /\ pc' = [pc EXCEPT ![r] = label]
    /\ UNCHANGED reply

Answer(r, response) ==
    /\ pc' = [pc EXCEPT ![r] = "done"]
    /\ reply' = [reply EXCEPT ![r] = response]

(* Mutant: a field that fails validation is logged, and the request goes on. *)
SubmitUnvalidated(r) ==
    /\ pc[r] = "idle"
    /\ \/ \E k \in Registry!Keys : call' = [call EXCEPT ![r] = k]
       \/ UNCHANGED call
    /\ Goto(r, "checking")
    /\ UNCHANGED <<servers, failures>>

(* The request schema and the service's validation see the request before  *)
(* anything is awaited; only the keys of a valid one matter later on.      *)
Submit(r) ==
    /\ pc[r] = "idle"
    /\ \/ /\ \E k \in Registry!Keys : call' = [call EXCEPT ![r] = k]
          /\ Goto(r, "checking")
       \/ /\ Answer(r, "bad_request")
          /\ UNCHANGED call
    /\ UNCHANGED <<servers, failures>>

(* Mutant: only a row that matches both keys counts.                       *)
existsBoth(r) ==
    \E s \in servers :
        s.hostname = call[r].hostname /\ s.ip_address = call[r].ip_address

(* Mutant: requests under way count as rows.                               *)
existsOrPending(r) ==
    \/ \E s \in servers : Registry!Clash(s, call[r])
    \/ \E q \in Requests \ {r} :
          pc[q] \in Waiting /\ Registry!Clash(call[q], call[r])

(* SELECT ... WHERE hostname = ... OR ip_address = ...                     *)
exists(r) == \E s \in servers : Registry!Clash(s, call[r])

(* Step 4 of register_server.                                              *)
CheckExists(r) ==
    /\ pc[r] = "checking"
    /\ IF exists(r) THEN Answer(r, "conflict") ELSE Goto(r, "saving")
    /\ UNCHANGED <<servers, call, failures>>

(* save() checks once more: the entity has no id.                          *)
CheckAgain(r) ==
    /\ pc[r] = "saving"
    /\ IF exists(r) THEN Answer(r, "conflict") ELSE Goto(r, "committing")
    /\ UNCHANGED <<servers, call, failures>>

(* The unique indexes on hostname and ip_address.                          *)
UniqueViolation(r) == \E s \in servers : Registry!Clash(s, call[r])

(* Mutant: the address is indexed, but its index is not unique.            *)
CommitIndexingHostnames(r) ==
    /\ pc[r] = "committing"
    /\ IF \E s \in servers : s.hostname = call[r].hostname
       THEN /\ Answer(r, "error")
            /\ UNCHANGED servers
       ELSE /\ servers' = servers \union {Registry!ServerOf(call[r], r)}
            /\ Goto(r, "refreshing")
    /\ UNCHANGED <<call, failures>>

(* Mutant: the row is staged with the session and the answer sent; nothing *)
(* is committed.                                                           *)
CommitAndForget(r) ==
    /\ pc[r] = "committing"
    /\ Goto(r, "refreshing")
    /\ UNCHANGED <<servers, call, failures>>

(* Mutant: the INSERT is retried until the key is free.                    *)
CommitWhenFree(r) ==
    /\ pc[r] = "committing"
    /\ ~UniqueViolation(r)
    /\ servers' = servers \union {Registry!ServerOf(call[r], r)}
    /\ Goto(r, "refreshing")
    /\ UNCHANGED <<call, failures>>

(* The INSERT meets the unique indexes: the IntegrityError of a request    *)
(* that lost the race is logged, rolled back and raised as it is, and the  *)
(* client is told 500.                                                     *)
Commit(r) ==
    /\ pc[r] = "committing"
    /\ IF UniqueViolation(r)
       THEN /\ Answer(r, "error")
            /\ UNCHANGED servers
       ELSE /\ servers' = servers \union {Registry!ServerOf(call[r], r)}
            /\ Goto(r, "refreshing")
    /\ UNCHANGED <<call, failures>>

Refresh(r) ==
    /\ pc[r] = "refreshing"
    /\ Answer(r, "ok")
    /\ UNCHANGED <<servers, call, failures>>

(* An await on the database raises.                                        *)
DatabaseError(r) ==
    /\ failures < MaxFailures
    /\ pc[r] \in Waiting
    /\ failures' = failures + 1
    /\ Answer(r, "error")
    /\ UNCHANGED <<servers, call>>

(* The API process dies and is started again.                              *)
Crash ==
    /\ failures < MaxFailures
    /\ \E r \in Requests : pc[r] \in Waiting
    /\ failures' = failures + 1
    /\ pc' = [r \in Requests |-> IF pc[r] \in Waiting THEN "done" ELSE pc[r]]
    /\ reply' = [r \in Requests |->
                    IF pc[r] \in Waiting THEN "lost" ELSE reply[r]]
    /\ UNCHANGED <<servers, call>>

-------------------------------------------------------------------------------
Step(r) == CheckExists(r) \/ CheckAgain(r) \/ Commit(r) \/ Refresh(r)

Done == \A r \in Requests : pc[r] = "done"

Next ==
    \/ \E r \in Requests : Submit(r) \/ Step(r) \/ DatabaseError(r)
    \/ Crash
    \/ Done /\ UNCHANGED vars

Spec == Init /\ [][Next]_vars

(* The event loop resumes ready coroutines and the database answers.       *)
FairSpec == Spec /\ \A r \in Requests : WF_vars(Step(r))

-------------------------------------------------------------------------------
TypeOK ==
    /\ servers \subseteq Registry!Server
    /\ pc \in [Requests -> Waiting \union {"idle", "done"}]
    /\ call \in [Requests -> Registry!Keys \union {Registry!NoKeys}]
    /\ reply \in [Requests -> Replies]
    /\ failures \in 0 .. MaxFailures

(* Checking twice and inserting without a lock amounts to an atomic        *)
(* registration: one of several racing requests for a key is registered,   *)
(* a 409 is told only when the key was taken, and all others fail cleanly. *)
ImplementsAtomicRegistry == Registry!Spec

(* When nothing fails, a request is answered 500 only because another one  *)
(* took its key while it was under way, never because of an older server.  *)
OnlyRacesFail ==
    failures = 0 =>
        \A r \in Requests : reply[r] = "error" =>
            \E s \in servers :
                Registry!Clash(s, call[r]) /\ s.by \in Requests \ {r}

(* The answers are true: 201 means the row is there with the keys asked    *)
(* for, and 409 that another server holds one of them.                     *)
RepliesHonest ==
    \A r \in Requests :
        /\ reply[r] = "ok" => Registry!ServerOf(call[r], r) \in servers
        /\ reply[r] = "conflict" =>
                \E s \in servers : Registry!Clash(s, call[r]) /\ s.by # r

(* Racing requests cannot all lose: when nothing fails, the keys of every  *)
(* request that got past validation end up held by some server.            *)
SomebodyWins ==
    failures = 0 =>
        \A r \in Requests : pc[r] = "done" /\ reply[r] # "bad_request" =>
            \E s \in servers : Registry!Clash(s, call[r])

(* Every registration that was sent is answered, or lost with the process. *)
EveryRequestEnds ==
    \A r \in Requests : pc[r] \in Waiting ~> pc[r] = "done"

-------------------------------------------------------------------------------
(* The inductive strengthening: a row was written by a request that is past*)
(* its commit and not refused, holds the keys asked for, and stays; a      *)
(* request is answered when it is done.                                    *)
RowsOK ==
    \A s \in servers : s.by # Earlier =>
        /\ s = Registry!ServerOf(call[s.by], s.by)
        /\ pc[s.by] \in {"refreshing", "done"}
        /\ reply[s.by] \notin {"conflict", "bad_request"}

PhaseOK ==
    \A r \in Requests :
        /\ pc[r] = "refreshing" => HasRow(r)
        /\ pc[r] = "done" <=> reply[r] # "none"
        /\ reply[r] = "ok" => HasRow(r)
        /\ reply[r] = "conflict" => \E s \in servers : Registry!Clash(s, call[r])
        /\ pc[r] \in Waiting => call[r] \in Registry!Keys

(* A request that found its keys free can only lose them to a racing one;  *)
(* without failures that is the only way to be answered 500.               *)
RacesOK ==
    \A r \in Requests :
        /\ pc[r] \in {"saving", "committing"} =>
              \A s \in servers : Registry!Clash(s, call[r]) => s.by # Earlier
        /\ reply[r] = "lost" => failures > 0

IInv == TypeOK /\ RowsOK /\ PhaseOK /\ RacesOK /\ OnlyRacesFail
===============================================================================
