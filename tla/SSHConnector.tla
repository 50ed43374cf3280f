------------------------------ MODULE SSHConnector -----------------------------
(***************************************************************************)
(* LinuxSSHConnector, as discoveries and telemetry collections use it.     *)
(* Each request has a connector of its own, whose blocking calls (connect, *)
(* run a command, close) run on the threads of one shared pool:            *)
(*                                                                         *)
(*   connect (with retries) -> command by command -> disconnect            *)
(*                                                                         *)
(* execute() connects again by itself when it finds the link down.  A      *)
(* discovery gives up at the first error; a collection goes on with the    *)
(* next command.  Links may drop and calls may fail at any time.           *)
(***************************************************************************)
EXTENDS Naturals, FiniteSets

CONSTANTS
    Requests,        \* the requests that may come: finitely many
    Threads,         \* size of the pool of asyncio.to_thread
    Retries,         \* connection attempts, 2 for both callers
    Commands,        \* bound on the commands of a request
    MaxDrops         \* bound on the links that drop

ASSUME SSHAssumption ==
    /\ IsFiniteSet(Requests)
    /\ {Threads, Retries, Commands} \subseteq Nat \ {0}
    /\ MaxDrops \in Nat

VARIABLES
    kind,        \* what each request is, "none" before it is sent
    pc,          \* the call it is in, see Calls
    thread,      \* is that call waiting for a thread, or running on one?
    client,      \* the paramiko client and the state of its transport
    connected,   \* the connector's own flag
    attempt,     \* the attempt of connect() under way
    executing,   \* is connect() called by execute()?
    reply,
    calls,       \* execute() calls so far
    outputs,     \* execute() calls that returned the output
    ran,         \* history: commands the host ran
    live,        \* history: sessions open at the host
    drops

caller == <<kind, reply, calls, outputs>>
connector == <<client, connected, attempt, executing>>
host == <<ran, live, drops>>
vars == <<kind, pc, thread, client, connected, attempt, executing, reply, calls,
          outputs, ran, live, drops>>

-------------------------------------------------------------------------------
Kinds == {"discovery", "collection"}
Calls == {"connect", "sleep", "command", "close"}

Init ==
    /\ kind = [r \in Requests |-> "none"]
    /\ pc = [r \in Requests |-> "idle"]
    /\ thread = [r \in Requests |-> "none"]
    /\ client = [r \in Requests |-> "none"]
    /\ connected = [r \in Requests |-> FALSE]
    /\ attempt = [r \in Requests |-> 0]
    /\ executing = [r \in Requests |-> FALSE]
    /\ reply = [r \in Requests |-> "none"]
    /\ calls = [r \in Requests |-> 0]
    /\ outputs = [r \in Requests |-> 0]
    /\ ran = [r \in Requests |-> 0]
    /\ live = [r \in Requests |-> 0]
    /\ drops = 0

is_connected(r) == connected[r] /\ client[r] = "live"

(* asyncio.to_thread                                                       *)
Call(r, op) ==
    /\ pc' = [pc EXCEPT ![r] = op]
    /\ thread' = [thread EXCEPT ![r] = "waiting"]

Finish(r, response) ==
    /\ pc' = [pc EXCEPT ![r] = "done"]
    /\ thread' = [thread EXCEPT ![r] = "none"]
    /\ reply' = [reply EXCEPT ![r] = response]

Attempt(r, n, in_execute) ==
    /\ attempt' = [attempt EXCEPT ![r] = n]
    /\ executing' = [executing EXCEPT ![r] = in_execute]

(* execute(): connect first when the link is down.                         *)
Execute(r) ==
    /\ calls' = [calls EXCEPT ![r] = @ + 1]
    /\ IF is_connected(r)
       THEN Call(r, "command") /\ UNCHANGED <<attempt, executing>>
       ELSE Call(r, "connect") /\ Attempt(r, 1, TRUE)
    /\ UNCHANGED reply

(* Mutant: a client whose link is down is not closed.                      *)
DisconnectIfConnected(r, response) ==
    /\ IF is_connected(r)
       THEN /\ Call(r, "close")
            /\ reply' = [reply EXCEPT ![r] = response]
       ELSE Finish(r, response)
    /\ UNCHANGED <<attempt, executing, calls>>

(* disconnect() has nothing to close without a client.                     *)
Disconnect(r, response) ==
    /\ IF client[r] = "none"
       THEN Finish(r, response)
       ELSE /\ Call(r, "close")
            /\ reply' = [reply EXCEPT ![r] = response]
    /\ UNCHANGED <<attempt, executing, calls>>

(* The caller goes on with its next command, if it has one.                *)
Continue(r) ==
    IF calls[r] < Commands THEN Execute(r) ELSE Disconnect(r, "ok")

(* Mutant: a discovery, too, goes on with its next command.                *)
RaiseQuietly(r) ==
    IF calls[r] = 0
    THEN Finish(r, "error") /\ UNCHANGED <<attempt, executing, calls>>
    ELSE Continue(r)

(* An error reaches the caller.  A collection whose connect() failed has   *)
(* not reached its try block yet.                                          *)
Raise(r) ==
    CASE kind[r] = "discovery" -> Disconnect(r, "error")
      [] kind[r] = "collection" /\ calls[r] = 0 ->
            Finish(r, "error") /\ UNCHANGED <<attempt, executing, calls>>
      [] OTHER -> Continue(r)

-------------------------------------------------------------------------------
Submit(r) ==
    /\ pc[r] = "idle"
    /\ \E k \in Kinds : kind' = [kind EXCEPT ![r] = k]
    /\ Call(r, "connect")
    /\ Attempt(r, 1, FALSE)
    /\ UNCHANGED <<client, connected, reply, calls, outputs, host>>

Running == {r \in Requests : thread[r] = "running"}

(* A free thread takes up a waiting call.                                  *)
Dispatch(r) ==
    /\ thread[r] = "waiting"
    /\ Cardinality(Running) < Threads
    /\ thread' = [thread EXCEPT ![r] = "running"]
    /\ UNCHANGED <<pc, connector, caller, host>>

Runs(r, op) == thread[r] = "running" /\ pc[r] = op

(* The new client replaces the old one, which is not closed.               *)
ConnectSucceeds(r) ==
    /\ Runs(r, "connect")
    /\ client' = [client EXCEPT ![r] = "live"]
    /\ connected' = [connected EXCEPT ![r] = TRUE]
    /\ live' = [live EXCEPT ![r] = @ + 1]
    /\ IF executing[r]
       THEN Call(r, "command") /\ UNCHANGED <<attempt, executing, reply, calls>>
       ELSE /\ calls' = [calls EXCEPT ![r] = 1]
            /\ Call(r, "command")
            /\ UNCHANGED <<attempt, executing, reply>>
    /\ UNCHANGED <<kind, outputs, ran, drops>>

(* Mutant: one attempt too many.                                           *)
ConnectFailsOnceMore(r) ==
    /\ Runs(r, "connect")
    /\ \/ Raise(r)
       \/ /\ attempt[r] <= Retries
          /\ pc' = [pc EXCEPT ![r] = "sleep"]
          /\ thread' = [thread EXCEPT ![r] = "none"]
          /\ UNCHANGED <<attempt, executing, reply, calls>>
    /\ UNCHANGED <<kind, client, connected, outputs, host>>

(* A refused login and a timeout are raised at once; after another error   *)
(* connect() sleeps and tries again, until its attempts are used up.       *)
ConnectFails(r) ==
    /\ Runs(r, "connect")
    /\ \/ Raise(r)
       \/ /\ attempt[r] < Retries
          /\ pc' = [pc EXCEPT ![r] = "sleep"]
          /\ thread' = [thread EXCEPT ![r] = "none"]
          /\ UNCHANGED <<attempt, executing, reply, calls>>
    /\ UNCHANGED <<kind, client, connected, outputs, host>>

(* Mutant: the attempts are not counted.                                   *)
WakeUncounted(r) ==
    /\ pc[r] = "sleep"
    /\ Call(r, "connect")
    /\ UNCHANGED <<connector, caller, host>>

Wake(r) ==
    /\ pc[r] = "sleep"
    /\ Call(r, "connect")
    /\ Attempt(r, attempt[r] + 1, executing[r])
    /\ UNCHANGED <<client, connected, caller, host>>

(* The command exited with status 0.                                       *)
CommandReturns(r) ==
    /\ Runs(r, "command")
    /\ client[r] = "live"
    /\ ran' = [ran EXCEPT ![r] = @ + 1]
    /\ outputs' = [outputs EXCEPT ![r] = @ + 1]
    /\ Continue(r)
    /\ UNCHANGED <<kind, client, connected, live, drops>>

(* Mutant: a command that failed is sent again.                            *)
CommandFailsAndRepeats(r) ==
    /\ Runs(r, "command")
    /\ \/ client[r] = "live" /\ ran' = [ran EXCEPT ![r] = @ + 1]
       \/ UNCHANGED ran
    /\ \/ Raise(r)
       \/ Call(r, "command") /\ UNCHANGED <<attempt, executing, calls, reply>>
    /\ UNCHANGED <<kind, client, connected, outputs, live, drops>>

(* Another status, a channel that closed, or no transport to open one on.  *)
CommandFails(r) ==
    /\ Runs(r, "command")
    /\ \/ client[r] = "live" /\ ran' = [ran EXCEPT ![r] = @ + 1]
       \/ UNCHANGED ran
    /\ Raise(r)
    /\ UNCHANGED <<kind, client, connected, outputs, live, drops>>

Closes(r) ==
    /\ Runs(r, "close")
    /\ client' = [client EXCEPT ![r] = "none"]
    /\ connected' = [connected EXCEPT ![r] = FALSE]
    /\ live' = [live EXCEPT ![r] = IF client[r] = "live" THEN @ - 1 ELSE @]
    /\ Finish(r, reply[r])
    /\ UNCHANGED <<kind, calls, outputs, attempt, executing, ran, drops>>

(* The link is gone, perhaps after the host ran the command under way.     *)
LinkDrops(r) ==
    /\ drops < MaxDrops
    /\ client[r] = "live"
    /\ drops' = drops + 1
    /\ client' = [client EXCEPT ![r] = "dead"]
    /\ live' = [live EXCEPT ![r] = @ - 1]
    /\ \/ UNCHANGED ran
       \/ Runs(r, "command") /\ ran' = [ran EXCEPT ![r] = @ + 1]
    /\ UNCHANGED <<pc, thread, connected, attempt, executing, caller>>

-------------------------------------------------------------------------------
CommandEnds(r) == CommandReturns(r) \/ CommandFails(r)

(* What needs the pool and the network, but no remote command, to go on.   *)
Step(r) == ConnectSucceeds(r) \/ ConnectFails(r) \/ Wake(r) \/ Closes(r)

Done == \A r \in Requests : pc[r] = "done"

Next ==
    \/ \E r \in Requests :
          Submit(r) \/ Dispatch(r) \/ Step(r) \/ CommandEnds(r) \/ LinkDrops(r)
    \/ Done /\ UNCHANGED vars

Spec == Init /\ [][Next]_vars

(* Connections are made, refused or timed out by paramiko; the pool serves *)
(* its waiting calls first come, first served, so none waits for ever while*)
(* threads come free.  Nothing makes a remote command end.                 *)
FairSpec ==
    Spec /\ \A r \in Requests : WF_vars(Step(r)) /\ SF_vars(Dispatch(r))

-------------------------------------------------------------------------------
TypeOK ==
    /\ kind \in [Requests -> Kinds \union {"none"}]
    /\ pc \in [Requests -> Calls \union {"idle", "done"}]
    /\ thread \in [Requests -> {"none", "waiting", "running"}]
    /\ Cardinality(Running) <= Threads
    /\ client \in [Requests -> {"none", "live", "dead"}]
    /\ connected \in [Requests -> BOOLEAN]
    /\ attempt \in [Requests -> 0 .. Retries]
    /\ executing \in [Requests -> BOOLEAN]
    /\ reply \in [Requests -> {"none", "ok", "error"}]
    /\ calls \in [Requests -> 0 .. Commands]
    /\ outputs \in [Requests -> 0 .. Commands]
    /\ ran \in [Requests -> Nat] /\ live \in [Requests -> Nat]
    /\ drops \in 0 .. MaxDrops

(* However often a connector connects again, it holds one session at most, *)
(* and none once its request is answered.                                  *)
SessionsAccounted ==
    \A r \in Requests :
        /\ live[r] = IF client[r] = "live" THEN 1 ELSE 0
        /\ pc[r] = "done" => client[r] = "none"

(* Connecting again never repeats a command: each execute() runs its       *)
(* command at most once, and returns an output only if it ran.             *)
NeverRunTwice ==
    \A r \in Requests : outputs[r] <= ran[r] /\ ran[r] <= calls[r]

(* A discovery succeeds only if every one of its commands did; it does not *)
(* go on after one that failed.                                            *)
DiscoveriesComplete ==
    \A r \in Requests :
        kind[r] = "discovery" =>
            /\ reply[r] = "ok" => outputs[r] = Commands
            /\ calls[r] <= outputs[r] + 1

(* What the connector interface says of execute(): it ends, with a timeout *)
(* if need be.                                                             *)
ExecutionsTimeOut ==
    \A r \in Requests :
        pc[r] = "command" /\ thread[r] = "running" ~>
            ~(pc[r] = "command" /\ thread[r] = "running")

-------------------------------------------------------------------------------
(* The inductive strengthening of the invariants above.                    *)

Busy == {"connect", "sleep", "command"}

(* Connecting begins without a live client, so that none is overwritten.   *)
SessionOK(r) ==
    /\ client[r] = "live" => connected[r]
    /\ pc[r] \in {"connect", "sleep"} => client[r] # "live"
    /\ pc[r] \in {"idle", "done"} => client[r] = "none" /\ thread[r] = "none"
    /\ live[r] = IF client[r] = "live" THEN 1 ELSE 0
    /\ thread[r] = "running" => pc[r] \in Calls
    /\ pc[r] = "sleep" => attempt[r] < Retries

(* Before its first execute() a request has run nothing; after that, the   *)
(* command of its last call did not run yet if it still can.               *)
ProgressOK(r) ==
    /\ pc[r] = "idle" => kind[r] = "none" /\ calls[r] = 0
    /\ pc[r] # "idle" => kind[r] \in Kinds
    /\ calls[r] = 0 => ran[r] = 0 /\ outputs[r] = 0
    /\ pc[r] = "command" => calls[r] > 0
    /\ pc[r] \in {"connect", "sleep"} =>
          IF executing[r] THEN calls[r] > 0 ELSE calls[r] = 0 /\ client[r] = "none"
    /\ outputs[r] <= ran[r] /\ ran[r] <= calls[r]
    /\ pc[r] = "command" /\ client[r] = "live" => ran[r] < calls[r]
    /\ pc[r] \in {"connect", "sleep"} /\ executing[r] => ran[r] < calls[r]

(* A discovery under way has the output of every call but the last one.    *)
AnswerOK(r) ==
    /\ pc[r] \in Busy \union {"idle"} <=> reply[r] = "none"
    /\ kind[r] = "discovery" =>
          /\ pc[r] \in Busy => outputs[r] = IF calls[r] = 0 THEN 0 ELSE calls[r] - 1
          /\ calls[r] <= outputs[r] + 1
          /\ reply[r] = "ok" => outputs[r] = Commands

ConnectorInv ==
    /\ TypeOK
    /\ \A r \in Requests : SessionOK(r) /\ ProgressOK(r) /\ AnswerOK(r)
===============================================================================
