---------------------------- MODULE PooledRequests ----------------------------
(***************************************************************************)
(* Discoveries, collections and plain queries as requests to the API: the  *)
(* connector of SSHConnector between the two halves of their work on the   *)
(* database, whose connections come from one pool:                         *)
(*                                                                         *)
(*   look the server up -> SSH -> (insert, commit -> refresh) per row      *)
(*                                                                         *)
(* A session takes a connection at its first statement and gives it back at*)
(* a commit, or at its end: the one of the lookup is kept during SSH, and  *)
(* every refresh needs another.                                            *)
(***************************************************************************)
EXTENDS SSHConnector

CONSTANT Pools           \* the sizes the pool may have, pool_size + max_overflow

ASSUME PoolAssumption == Pools \subseteq Nat \ {0}

VARIABLES
    size,        \* of the pool, as the settings have it
    phase,       \* what each request is doing
    conn,        \* its database connection
    stored,      \* rows that it committed
    answer

database == <<size, phase, conn, stored, answer>>
allvars == <<vars, database>>

PooledInit ==
    /\ Init
    /\ size \in Pools
    /\ phase = [r \in Requests |-> "none"]
    /\ conn = [r \in Requests |-> "none"]
    /\ stored = [r \in Requests |-> 0]
    /\ answer = [r \in Requests |-> "none"]

Held == {r \in Requests : conn[r] = "held"}

Enter(r, p, c) ==
    /\ phase' = [phase EXCEPT ![r] = p]
    /\ conn' = [conn EXCEPT ![r] = c]
    /\ UNCHANGED size

(* The session is closed with the request.                                 *)
Reply(r, response) ==
    /\ Enter(r, "done", "none")
    /\ answer' = [answer EXCEPT ![r] = response]
    /\ UNCHANGED stored

(* The rows of a request: the snapshot of a discovery, the samples of the  *)
(* collectors that succeeded.                                              *)
Rows(r) == IF kind[r] = "discovery" THEN 1 ELSE outputs[r]

-------------------------------------------------------------------------------
Arrive(r) ==
    /\ phase[r] = "none"
    /\ Enter(r, "lookup", "waiting")
    /\ UNCHANGED <<vars, stored, answer>>

Checkout(r) ==
    /\ conn[r] = "waiting"
    /\ Cardinality(Held) < size
    /\ Enter(r, phase[r], "held")
    /\ UNCHANGED <<vars, stored, answer>>

(* Nothing came free within pool_timeout.                                  *)
PoolTimesOut(r) ==
    /\ conn[r] = "waiting"
    /\ Reply(r, "error")
    /\ UNCHANGED vars

(* A query answers with what it found, and so does a request for a server  *)
(* that is not there; a discovery or collection goes on to the host.       *)
Lookup(r) ==
    /\ phase[r] = "lookup" /\ conn[r] = "held"
    /\ \/ Reply(r, "ok") /\ UNCHANGED vars
       \/ Reply(r, "not found") /\ UNCHANGED vars
       \/ Submit(r) /\ Enter(r, "remote", "held") /\ UNCHANGED <<stored, answer>>

(* The steps of the connector, and the links.                              *)
Remote(r) == (Dispatch(r) \/ Step(r) \/ CommandEnds(r) \/ LinkDrops(r)) /\ UNCHANGED database

(* Mutant: what was collected is stored in spite of an error.              *)
ReturnedAnyway(r) ==
    /\ phase[r] = "remote" /\ pc[r] = "done"
    /\ IF Rows(r) = 0 THEN Reply(r, reply[r])
       ELSE Enter(r, "save", "held") /\ UNCHANGED <<stored, answer>>
    /\ UNCHANGED vars

(* disconnect() is done.  A collection without a sample stores nothing.    *)
Returned(r) ==
    /\ phase[r] = "remote" /\ pc[r] = "done"
    /\ IF reply[r] = "error" \/ Rows(r) = 0 THEN Reply(r, reply[r])
       ELSE Enter(r, "save", "held") /\ UNCHANGED <<stored, answer>>
    /\ UNCHANGED vars

(* Insert and commit; the connection goes back to the pool.                *)
Save(r) ==
    /\ phase[r] = "save" /\ conn[r] = "held"
    /\ \/ /\ stored' = [stored EXCEPT ![r] = @ + 1]
          /\ Enter(r, "refresh", "waiting")
          /\ UNCHANGED answer
       \/ Reply(r, "error")
    /\ UNCHANGED vars

(* The row is read again, and the next one saved.  After the last one a    *)
(* collection is answered; the answer to a discovery needs the id of the   *)
(* snapshot, which DiscoveryResult has not: building it raises.            *)
Refresh(r) ==
    /\ phase[r] = "refresh" /\ conn[r] = "held"
    /\ IF stored[r] < Rows(r)
       THEN Enter(r, "save", "held") /\ UNCHANGED <<stored, answer>>
       ELSE Reply(r, IF kind[r] = "discovery" THEN "error" ELSE "ok")
    /\ UNCHANGED vars

Handle(r) == Lookup(r) \/ Returned(r) \/ Save(r) \/ Refresh(r)

AllDone == \A r \in Requests : phase[r] = "done"

PooledNext ==
    \/ \E r \in Requests :
          Arrive(r) \/ Checkout(r) \/ PoolTimesOut(r) \/ Handle(r) \/ Remote(r)
    \/ AllDone /\ UNCHANGED allvars

PooledSpec == PooledInit /\ [][PooledNext]_allvars

(* The pool hands out what comes free, the threads and the network do as in*)
(* FairSpec, and remote commands end.  Nothing relies on pool_timeout.     *)
FairPooledSpec ==
    /\ PooledSpec
    /\ \A r \in Requests :
          /\ WF_allvars(Checkout(r) \/ Handle(r))
          /\ WF_allvars((Step(r) \/ CommandEnds(r)) /\ UNCHANGED database)
          /\ SF_allvars(Dispatch(r) /\ UNCHANGED database)

-------------------------------------------------------------------------------
PooledTypeOK ==
    /\ TypeOK
    /\ size \in Pools
    /\ phase \in [Requests -> {"none", "lookup", "remote", "save", "refresh", "done"}]
    /\ conn \in [Requests -> {"none", "waiting", "held"}]
    /\ stored \in [Requests -> 0 .. Commands]
    /\ answer \in [Requests -> {"none", "ok", "not found", "error"}]
    /\ Cardinality(Held) <= size

(* An answer of success is true: nothing was missing remotely that should  *)
(* be stored, and all of it is.  An error can hide rows that are stored,   *)
(* but of a discovery only a complete one; and a discovery that stored its *)
(* snapshot is never answered with it.                                     *)
AnswersHonest ==
    \A r \in Requests :
        /\ answer[r] = "ok" /\ kind[r] # "none" => kind[r] = "collection" /\ stored[r] = outputs[r]
        /\ answer[r] = "not found" => stored[r] = 0 /\ ran[r] = 0
        /\ kind[r] = "discovery" /\ stored[r] > 0 =>
              outputs[r] = Commands /\ stored[r] = 1 /\ answer[r] \in {"none", "error"}
        /\ stored[r] > 0 => live[r] = 0

(* Every request that arrives is answered, without its wait for the pool   *)
(* being cut short, although requests hold a connection while they wait for*)
(* a thread and for their host, and ask for another one at each row.       *)
EveryRequestAnswered ==
    \A r \in Requests : phase[r] # "none" ~> phase[r] = "done"

-------------------------------------------------------------------------------
(* The inductive strengthening of AnswersHonest: where a request is says   *)
(* what its connector did and which connection it holds.                   *)
PhaseOK(r) ==
    /\ phase[r] \in {"none", "lookup"} => pc[r] = "idle" /\ stored[r] = 0
    /\ phase[r] = "remote" => pc[r] # "idle" /\ stored[r] = 0
    /\ phase[r] \in {"save", "refresh"} => pc[r] = "done"
    /\ phase[r] = "save" => stored[r] < Rows(r)
    /\ phase[r] = "done" => pc[r] \in {"idle", "done"}
    /\ phase[r] \in {"remote", "save"} => conn[r] = "held"
    /\ answer[r] # "none" <=> phase[r] = "done"
    /\ stored[r] > 0 => pc[r] = "done" /\ reply[r] = "ok" /\ stored[r] <= Rows(r)
    /\ phase[r] \in {"save", "refresh"} => reply[r] = "ok"
    /\ answer[r] = "not found" => pc[r] = "idle"

PooledInv ==
    /\ PooledTypeOK /\ ConnectorInv /\ AnswersHonest
    /\ \A r \in Requests : PhaseOK(r)
===============================================================================
