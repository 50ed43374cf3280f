------------------------- MODULE PooledRequestsProofs --------------------------
(***************************************************************************)
(* Theorems about SSHConnector, for any number of requests, threads,       *)
(* attempts, commands and dropping links; and about PooledRequests, which  *)
(* is it and the database, for any sizes of the two pools.                 *)
(***************************************************************************)
EXTENDS PooledRequests, FiniteSetTheorems, TLAPS

LEMMA Bounds ==
    Threads \in Nat /\ Retries \in Nat \ {0} /\ Commands \in Nat \ {0} /\ MaxDrops \in Nat
  BY SSHAssumption

USE Bounds

-------------------------------------------------------------------------------
(* The pool of threads.                                                    *)

LEMMA RunningFinite == IsFiniteSet(Running)
  BY SSHAssumption, FS_Subset DEF Running

LEMMA FewerRunning ==
    ASSUME NEW S \in SUBSET Running
    PROVE  IsFiniteSet(S) /\ Cardinality(S) \in Nat /\ Cardinality(S) <= Cardinality(Running)
  BY RunningFinite, FS_Subset, FS_CardinalityType

(* A step of a request that does not take a thread.                        *)
LEMMA ThreadGivenBack ==
    ASSUME TypeOK, NEW r \in Requests, NEW t \in {"none", "waiting"},
           thread' = [thread EXCEPT ![r] = t]
    PROVE  /\ thread' \in [Requests -> {"none", "waiting", "running"}]
           /\ Cardinality(Running') <= Threads
<1>1. thread' \in [Requests -> {"none", "waiting", "running"}]
  BY DEF TypeOK
<1>2. Running' \in SUBSET Running
  BY DEF Running, TypeOK
<1>3. Cardinality(Running') \in Nat /\ Cardinality(Running') <= Cardinality(Running)
  BY <1>2, FewerRunning
<1>4. Cardinality(Running) \in Nat /\ Cardinality(Running) <= Threads
  BY FewerRunning DEF TypeOK
<1>. QED
  BY <1>1, <1>3, <1>4

LEMMA DispatchThreads ==
    ASSUME TypeOK, NEW r \in Requests, Dispatch(r)
    PROVE  Cardinality(Running') <= Threads
<1>1. Running' = Running \union {r} /\ r \notin Running
  BY DEF Dispatch, Running, TypeOK
<1>2. Cardinality(Running') = Cardinality(Running) + 1
  BY <1>1, RunningFinite, FS_AddElement
<1>3. Cardinality(Running) \in Nat /\ Cardinality(Running) < Threads
  BY FewerRunning DEF Dispatch
<1>. QED
  BY <1>2, <1>3

-------------------------------------------------------------------------------
(* What the pieces of a step do to the types.                              *)

(* The state of the caller and of the call, which the pieces change.       *)
CallOK ==
    /\ pc \in [Requests -> Calls \union {"idle", "done"}]
    /\ thread \in [Requests -> {"none", "waiting", "running"}]
    /\ Cardinality(Running) <= Threads
    /\ attempt \in [Requests -> 0 .. Retries]
    /\ executing \in [Requests -> BOOLEAN]
    /\ reply \in [Requests -> {"none", "ok", "error"}]
    /\ calls \in [Requests -> 0 .. Commands]

LEMMA CallTypes ==
    ASSUME TypeOK, NEW r \in Requests, NEW op \in Calls, Call(r, op)
    PROVE  /\ pc' \in [Requests -> Calls \union {"idle", "done"}]
           /\ thread' \in [Requests -> {"none", "waiting", "running"}]
           /\ Cardinality(Running') <= Threads
<1>1. thread' = [thread EXCEPT ![r] = "waiting"]
  BY DEF Call
<1>. QED
  BY <1>1, ThreadGivenBack DEF Call, TypeOK

LEMMA FinishTypes ==
    ASSUME TypeOK, NEW r \in Requests, NEW response \in {"none", "ok", "error"},
           Finish(r, response)
    PROVE  /\ pc' \in [Requests -> Calls \union {"idle", "done"}]
           /\ thread' \in [Requests -> {"none", "waiting", "running"}]
           /\ Cardinality(Running') <= Threads
           /\ reply' \in [Requests -> {"none", "ok", "error"}]
<1>1. thread' = [thread EXCEPT ![r] = "none"]
  BY DEF Finish
<1>. QED
  BY <1>1, ThreadGivenBack DEF Finish, TypeOK

LEMMA ExecuteTypes ==
    ASSUME TypeOK, NEW r \in Requests, calls[r] < Commands, Execute(r)
    PROVE  CallOK'
<1>1. PICK op \in {"command", "connect"} : Call(r, op)
  BY DEF Execute
<1>2. op \in Calls
  BY DEF Calls
<1>3. calls' \in [Requests -> 0 .. Commands]
  BY DEF Execute, TypeOK
<1>4. attempt' \in [Requests -> 0 .. Retries] /\ executing' \in [Requests -> BOOLEAN]
  <2>1. CASE UNCHANGED <<attempt, executing>>
    BY <2>1 DEF TypeOK
  <2>2. CASE Attempt(r, 1, TRUE)
    BY <2>2 DEF Attempt, TypeOK
  <2>. QED
    BY <2>1, <2>2 DEF Execute
<1>. QED
  BY <1>1, <1>2, <1>3, <1>4, CallTypes DEF Execute, CallOK, TypeOK

LEMMA DisconnectTypes ==
    ASSUME TypeOK, NEW r \in Requests, NEW response \in {"ok", "error"},
           Disconnect(r, response)
    PROVE  CallOK'
<1>1. CASE Finish(r, response)
  BY <1>1, FinishTypes DEF Disconnect, CallOK, TypeOK
<1>2. CASE Call(r, "close") /\ reply' = [reply EXCEPT ![r] = response]
  BY <1>2, CallTypes DEF Disconnect, CallOK, TypeOK, Calls
<1>. QED
  BY <1>1, <1>2 DEF Disconnect

LEMMA ContinueTypes ==
    ASSUME TypeOK, NEW r \in Requests, Continue(r)
    PROVE  CallOK'
  BY ExecuteTypes, DisconnectTypes DEF Continue

LEMMA RaiseTypes ==
    ASSUME TypeOK, NEW r \in Requests, kind[r] \in Kinds, Raise(r)
    PROVE  CallOK'
<1>1. CASE kind[r] = "discovery"
  BY <1>1, DisconnectTypes DEF Raise
<1>2. CASE kind[r] = "collection" /\ calls[r] = 0
  BY <1>2, FinishTypes DEF Raise, CallOK, TypeOK
<1>3. CASE kind[r] = "collection" /\ calls[r] # 0
  BY <1>3, ContinueTypes DEF Raise
<1>. QED
  BY <1>1, <1>2, <1>3 DEF Kinds
-------------------------------------------------------------------------------
(* What the pieces of a step do to the request itself, and that they leave *)
(* the others alone.                                                       *)

ConnectorOK(r) == SessionOK(r) /\ ProgressOK(r) /\ AnswerOK(r)

CallStill(q) ==
    /\ pc'[q] = pc[q] /\ thread'[q] = thread[q] /\ reply'[q] = reply[q]
    /\ attempt'[q] = attempt[q] /\ executing'[q] = executing[q] /\ calls'[q] = calls[q]

Still(q) ==
    /\ CallStill(q) /\ kind'[q] = kind[q]
    /\ client'[q] = client[q] /\ connected'[q] = connected[q] /\ live'[q] = live[q]
    /\ outputs'[q] = outputs[q] /\ ran'[q] = ran[q]

LEMMA StillKeeps ==
    ASSUME NEW q \in Requests, ConnectorOK(q), Still(q)
    PROVE  ConnectorOK(q)'
  BY DEF ConnectorOK, Still, CallStill, SessionOK, ProgressOK, AnswerOK

LEMMA ExecuteMoves ==
    ASSUME TypeOK, NEW r \in Requests, Execute(r)
    PROVE  /\ calls'[r] = calls[r] + 1 /\ reply'[r] = reply[r] /\ thread'[r] = "waiting"
           /\ \/ is_connected(r) /\ pc'[r] = "command"
              \/ ~is_connected(r) /\ pc'[r] = "connect" /\ executing'[r]
           /\ \A q \in Requests \ {r} : CallStill(q)
<1>1. CASE is_connected(r)
  BY <1>1 DEF Execute, Call, CallStill, TypeOK
<1>2. CASE ~is_connected(r)
  BY <1>2 DEF Execute, Call, Attempt, CallStill, TypeOK
<1>. QED
  BY <1>1, <1>2

LEMMA FinishMoves ==
    ASSUME TypeOK, NEW r \in Requests, NEW response, Finish(r, response),
           UNCHANGED <<attempt, executing, calls>>
    PROVE  /\ pc'[r] = "done" /\ thread'[r] = "none" /\ reply'[r] = response
           /\ calls'[r] = calls[r]
           /\ \A q \in Requests \ {r} : CallStill(q)
  BY DEF Finish, CallStill, TypeOK

LEMMA DisconnectMoves ==
    ASSUME TypeOK, NEW r \in Requests, NEW response, Disconnect(r, response)
    PROVE  /\ calls'[r] = calls[r] /\ reply'[r] = response
           /\ IF client[r] = "none" THEN pc'[r] = "done" /\ thread'[r] = "none"
              ELSE pc'[r] = "close" /\ thread'[r] = "waiting"
           /\ \A q \in Requests \ {r} : CallStill(q)
<1>1. CASE client[r] = "none"
  BY <1>1, FinishMoves DEF Disconnect
<1>2. CASE client[r] # "none"
  BY <1>2 DEF Disconnect, Call, CallStill, TypeOK
<1>. QED
  BY <1>1, <1>2

(* The caller goes on after a command that ran and succeeded, or, in a     *)
(* collection, failed.                                                     *)
LEMMA ContinueKeeps ==
    ASSUME TypeOK, NEW r \in Requests, ConnectorOK(r), Continue(r),
           UNCHANGED <<kind, client, connected, live>>,
           pc[r] \in Busy, calls[r] > 0,
           outputs'[r] \in Nat, ran'[r] \in Nat,
           outputs'[r] <= ran'[r], ran'[r] <= calls[r],
           kind[r] = "discovery" => outputs'[r] = calls[r]
    PROVE  ConnectorOK(r)' /\ \A q \in Requests \ {r} : CallStill(q)
<1>. calls[r] \in 0 .. Commands /\ kind[r] \in Kinds /\ reply[r] = "none"
  BY DEF TypeOK, ConnectorOK, ProgressOK, AnswerOK, Busy
<1>1. CASE calls[r] < Commands
  <2>1. Execute(r)
    BY <1>1 DEF Continue
  <2>5. /\ calls'[r] = calls[r] + 1 /\ reply'[r] = reply[r] /\ thread'[r] = "waiting"
        /\ \/ is_connected(r) /\ pc'[r] = "command"
           \/ ~is_connected(r) /\ pc'[r] = "connect" /\ executing'[r]
        /\ \A q \in Requests \ {r} : CallStill(q)
    BY <2>1, ExecuteMoves
  <2>2. SessionOK(r)'
    BY <2>5 DEF SessionOK, ConnectorOK, is_connected, Calls
  <2>3. ProgressOK(r)'
    BY <2>5 DEF ProgressOK, is_connected
  <2>4. AnswerOK(r)'
    BY <2>5, <1>1 DEF AnswerOK, Busy
  <2>. QED
    BY <2>2, <2>3, <2>4, <2>5 DEF ConnectorOK
<1>2. CASE calls[r] = Commands
  <2>1. Disconnect(r, "ok")
    BY <1>2 DEF Continue
  <2>2. SessionOK(r)'
    BY <2>1, DisconnectMoves DEF SessionOK, ConnectorOK, Calls
  <2>3. ProgressOK(r)'
    BY <2>1, DisconnectMoves DEF ProgressOK, Kinds
  <2>4. AnswerOK(r)'
    BY <2>1, <1>2, DisconnectMoves DEF AnswerOK, Busy
  <2>. QED
    BY <2>1, <2>2, <2>3, <2>4, DisconnectMoves DEF ConnectorOK
<1>. QED
  BY <1>1, <1>2

(* An error reaches the caller.                                            *)
LEMMA RaiseKeeps ==
    ASSUME TypeOK, NEW r \in Requests, ConnectorOK(r), Raise(r),
           UNCHANGED <<kind, client, connected, live, outputs>>,
           pc[r] \in {"connect", "command"},
           ran'[r] \in Nat, outputs[r] <= ran'[r], ran'[r] <= calls[r]
    PROVE  ConnectorOK(r)' /\ \A q \in Requests \ {r} : CallStill(q)
<1>. calls[r] \in 0 .. Commands /\ outputs[r] \in 0 .. Commands /\ reply[r] = "none"
  BY DEF TypeOK, ConnectorOK, AnswerOK, Busy
<1>k. kind[r] \in Kinds
  BY DEF ConnectorOK, ProgressOK
<1>1. CASE kind[r] = "discovery"
  <2>1. Disconnect(r, "error")
    BY <1>1 DEF Raise
  <2>2. SessionOK(r)'
    BY <2>1, DisconnectMoves DEF SessionOK, ConnectorOK, Calls
  <2>3. ProgressOK(r)'
    BY <2>1, <1>k, DisconnectMoves DEF ProgressOK, Kinds
  <2>4. AnswerOK(r)'
    BY <2>1, DisconnectMoves DEF ConnectorOK, AnswerOK, Busy
  <2>. QED
    BY <2>1, <2>2, <2>3, <2>4, DisconnectMoves DEF ConnectorOK
<1>2. CASE kind[r] = "collection" /\ calls[r] = 0
  <2>1. Finish(r, "error") /\ UNCHANGED <<attempt, executing, calls>>
    BY <1>2 DEF Raise
  <2>2. client[r] = "none"
    BY <1>2 DEF ConnectorOK, ProgressOK
  <2>3. SessionOK(r)'
    BY <2>1, <2>2, FinishMoves DEF SessionOK, ConnectorOK, Calls
  <2>4. ProgressOK(r)'
    BY <2>1, <1>k, FinishMoves DEF ConnectorOK, ProgressOK
  <2>5. AnswerOK(r)'
    BY <2>1, <1>2, FinishMoves DEF AnswerOK, Busy
  <2>. QED
    BY <2>1, <2>3, <2>4, <2>5, FinishMoves DEF ConnectorOK
<1>3. CASE kind[r] = "collection" /\ calls[r] # 0
  <2>1. Continue(r)
    BY <1>3 DEF Raise
  <2>. QED
    BY <2>1, <1>3, ContinueKeeps DEF Busy
<1>. QED
  BY <1>k, <1>1, <1>2, <1>3 DEF Kinds

-------------------------------------------------------------------------------
(* One lemma for each step: it keeps the types, and the invariant of its   *)
(* request, and leaves the others alone.                                   *)

Kept(r) == TypeOK' /\ ConnectorOK(r)' /\ \A q \in Requests \ {r} : Still(q)

LEMMA SubmitKeeps ==
    ASSUME TypeOK, NEW r \in Requests, ConnectorOK(r), Submit(r)
    PROVE  Kept(r)
<1>1. TypeOK'
  <2>1. PICK k \in Kinds : kind' = [kind EXCEPT ![r] = k]
    BY DEF Submit
  <2>2. "connect" \in Calls /\ Call(r, "connect")
    BY DEF Submit, Calls
  <2>. QED
    BY <2>1, <2>2, CallTypes DEF Submit, Attempt, TypeOK, host
<1>2. ConnectorOK(r)'
  <2>1. /\ kind'[r] \in Kinds /\ pc'[r] = "connect" /\ thread'[r] = "waiting"
        /\ ~executing'[r]
    BY DEF Submit, Call, Attempt, TypeOK
  <2>2. /\ UNCHANGED <<client, connected, live, reply, calls, outputs, ran>>
        /\ pc[r] = "idle"
    BY DEF Submit, host
  <2>3. SessionOK(r)'
    BY <2>1, <2>2 DEF ConnectorOK, SessionOK, Calls
  <2>4. ProgressOK(r)'
    BY <2>1, <2>2 DEF ConnectorOK, SessionOK, ProgressOK
  <2>5. AnswerOK(r)'
    BY <2>1, <2>2 DEF ConnectorOK, ProgressOK, AnswerOK, Busy, TypeOK
  <2>. QED
    BY <2>3, <2>4, <2>5 DEF ConnectorOK
<1>3. \A q \in Requests \ {r} : Still(q)
  BY DEF Submit, Call, Attempt, Still, CallStill, TypeOK, host
<1>. QED
  BY <1>1, <1>2, <1>3 DEF Kept

LEMMA DispatchKeeps ==
    ASSUME TypeOK, NEW r \in Requests, ConnectorOK(r), Dispatch(r)
    PROVE  Kept(r)
<1>1. TypeOK'
  BY DispatchThreads DEF Dispatch, TypeOK, connector, caller, host
<1>2. UNCHANGED <<pc, connector, caller, host>> /\ thread[r] = "waiting"
      /\ thread'[r] = "running"
  BY DEF Dispatch, TypeOK
<1>3. ConnectorOK(r)'
  <2>1. pc[r] \in Calls
    BY <1>2 DEF ConnectorOK, SessionOK, TypeOK
  <2>. QED
    BY <1>2, <2>1 DEF ConnectorOK, SessionOK, ProgressOK, AnswerOK, connector, caller, host, Calls
<1>4. \A q \in Requests \ {r} : Still(q)
  BY DEF Dispatch, Still, CallStill, TypeOK, connector, caller, host
<1>. QED
  BY <1>1, <1>3, <1>4 DEF Kept

LEMMA ConnectSucceedsKeeps ==
    ASSUME TypeOK, NEW r \in Requests, ConnectorOK(r), ConnectSucceeds(r)
    PROVE  Kept(r)
<1>1. /\ pc[r] = "connect" /\ client[r] # "live" /\ live[r] = 0
      /\ Call(r, "command")
      /\ UNCHANGED <<kind, outputs, ran, drops, attempt, executing, reply>>
      /\ client' = [client EXCEPT ![r] = "live"]
      /\ connected' = [connected EXCEPT ![r] = TRUE]
      /\ live' = [live EXCEPT ![r] = @ + 1]
  BY DEF ConnectSucceeds, Runs, ConnectorOK, SessionOK
<1>2. IF executing[r] THEN calls' = calls ELSE calls' = [calls EXCEPT ![r] = 1]
  BY DEF ConnectSucceeds
<1>3. TypeOK'
  <2>1. "command" \in Calls
    BY DEF Calls
  <2>2. live' \in [Requests -> Nat]
    BY <1>1 DEF TypeOK
  <2>3. calls' \in [Requests -> 0 .. Commands]
    BY <1>2 DEF TypeOK
  <2>4. /\ pc' \in [Requests -> Calls \union {"idle", "done"}]
        /\ thread' \in [Requests -> {"none", "waiting", "running"}]
        /\ Cardinality(Running') <= Threads
    BY <1>1, <2>1, CallTypes
  <2>. QED
    BY <1>1, <2>2, <2>3, <2>4 DEF TypeOK
<1>4. ConnectorOK(r)'
  <2>1. /\ pc'[r] = "command" /\ thread'[r] = "waiting" /\ client'[r] = "live"
        /\ connected'[r] /\ live'[r] = 1
    BY <1>1 DEF Call, TypeOK
  <2>2. /\ calls'[r] > 0 /\ ran[r] < calls'[r]
        /\ outputs[r] = 0 \/ calls'[r] = calls[r]
        /\ calls[r] = 0 => calls'[r] = 1 /\ outputs[r] = 0
    BY <1>1, <1>2 DEF ConnectorOK, ProgressOK, TypeOK
  <2>3. SessionOK(r)'
    BY <2>1 DEF SessionOK, Calls
  <2>6. /\ kind'[r] \in Kinds /\ ran'[r] = ran[r] /\ outputs'[r] = outputs[r]
        /\ ran[r] \in Nat /\ outputs[r] \in Nat /\ outputs[r] <= ran[r]
    BY <1>1 DEF ConnectorOK, ProgressOK, TypeOK
  <2>7. calls'[r] \in Nat
    BY <1>3 DEF TypeOK
  <2>4. ProgressOK(r)'
    BY <2>1, <2>2, <2>6, <2>7 DEF ProgressOK
  <2>5. AnswerOK(r)'
    BY <1>1, <1>2, <2>1, <2>2 DEF ConnectorOK, ProgressOK, AnswerOK, Busy, TypeOK
  <2>. QED
    BY <2>3, <2>4, <2>5 DEF ConnectorOK
<1>5. \A q \in Requests \ {r} : Still(q)
  BY <1>1, <1>2 DEF Call, Still, CallStill, TypeOK
<1>. QED
  BY <1>3, <1>4, <1>5 DEF Kept

LEMMA ConnectFailsKeeps ==
    ASSUME TypeOK, NEW r \in Requests, ConnectorOK(r), ConnectFails(r)
    PROVE  Kept(r)
<1>. /\ pc[r] = "connect" /\ thread[r] = "running"
     /\ UNCHANGED <<kind, client, connected, outputs, host>>
  BY DEF ConnectFails, Runs
<1>1. CASE Raise(r)
  <2>1. kind[r] \in Kinds /\ ran[r] \in Nat /\ outputs[r] <= ran[r] /\ ran[r] <= calls[r]
    BY DEF ConnectorOK, ProgressOK, TypeOK
  <2>2. ConnectorOK(r)' /\ \A q \in Requests \ {r} : CallStill(q)
    BY <1>1, <2>1, RaiseKeeps DEF host
  <2>3. TypeOK'
    BY <1>1, <2>1, RaiseTypes DEF CallOK, TypeOK, host
  <2>. QED
    BY <2>2, <2>3 DEF Kept, Still, host
<1>2. CASE /\ attempt[r] < Retries
           /\ pc' = [pc EXCEPT ![r] = "sleep"]
           /\ thread' = [thread EXCEPT ![r] = "none"]
           /\ UNCHANGED <<attempt, executing, reply, calls>>
  <2>1. TypeOK'
    BY <1>2, ThreadGivenBack DEF TypeOK, Calls, host
  <2>2. pc'[r] = "sleep" /\ thread'[r] = "none"
    BY <1>2 DEF TypeOK
  <2>3. SessionOK(r)' /\ ProgressOK(r)'
    BY <1>2, <2>2 DEF ConnectorOK, SessionOK, ProgressOK, host
  <2>4. AnswerOK(r)'
    BY <1>2, <2>2 DEF ConnectorOK, AnswerOK, Busy
  <2>. QED
    BY <1>2, <2>1, <2>3, <2>4 DEF Kept, ConnectorOK, Still, CallStill, TypeOK, host
<1>. QED
  BY <1>1, <1>2 DEF ConnectFails

LEMMA WakeKeeps ==
    ASSUME TypeOK, NEW r \in Requests, ConnectorOK(r), Wake(r)
    PROVE  Kept(r)
<1>1. /\ pc[r] = "sleep" /\ attempt[r] < Retries
      /\ Call(r, "connect") /\ Attempt(r, attempt[r] + 1, executing[r])
      /\ UNCHANGED <<client, connected, caller, host>>
  BY DEF Wake, ConnectorOK, SessionOK
<1>2. TypeOK'
  <2>1. attempt' \in [Requests -> 0 .. Retries] /\ executing' \in [Requests -> BOOLEAN]
    BY <1>1 DEF Attempt, TypeOK
  <2>2. "connect" \in Calls
    BY DEF Calls
  <2>. QED
    BY <1>1, <2>1, <2>2, CallTypes DEF TypeOK, caller, host
<1>3. /\ pc'[r] = "connect" /\ thread'[r] = "waiting" /\ executing'[r] = executing[r]
      /\ \A q \in Requests \ {r} : Still(q)
  BY <1>1 DEF Call, Attempt, Still, CallStill, TypeOK, caller, host
<1>4. SessionOK(r)'
  BY <1>1, <1>3 DEF ConnectorOK, SessionOK, host
<1>5. ProgressOK(r)'
  BY <1>1, <1>3 DEF ConnectorOK, ProgressOK, caller, host
<1>6. AnswerOK(r)'
  BY <1>1, <1>3 DEF ConnectorOK, AnswerOK, Busy, caller
<1>. QED
  BY <1>2, <1>3, <1>4, <1>5, <1>6 DEF Kept, ConnectorOK

LEMMA CommandReturnsKeeps ==
    ASSUME TypeOK, NEW r \in Requests, ConnectorOK(r), CommandReturns(r)
    PROVE  Kept(r)
<1>1. /\ pc[r] = "command" /\ client[r] = "live"
      /\ ran' = [ran EXCEPT ![r] = @ + 1]
      /\ outputs' = [outputs EXCEPT ![r] = @ + 1]
      /\ Continue(r) /\ UNCHANGED <<kind, client, connected, live, drops>>
  BY DEF CommandReturns, Runs
<1>2. /\ calls[r] \in 0 .. Commands /\ outputs[r] \in Nat /\ ran[r] \in Nat
      /\ outputs[r] <= ran[r] /\ ran[r] < calls[r]
  BY <1>1 DEF TypeOK, ConnectorOK, ProgressOK
<1>3. /\ ran'[r] = ran[r] + 1 /\ outputs'[r] = outputs[r] + 1
      /\ outputs' \in [Requests -> 0 .. Commands] /\ ran' \in [Requests -> Nat]
  BY <1>1, <1>2 DEF TypeOK
<1>4. kind[r] = "discovery" => outputs'[r] = calls[r]
  BY <1>1, <1>2, <1>3 DEF ConnectorOK, AnswerOK, Busy
<1>5. ConnectorOK(r)' /\ \A q \in Requests \ {r} : CallStill(q)
  BY <1>1, <1>2, <1>3, <1>4, ContinueKeeps DEF Busy
<1>6. TypeOK'
  BY <1>1, <1>3, ContinueTypes DEF CallOK, TypeOK
<1>. QED
  BY <1>1, <1>5, <1>6 DEF Kept, Still, TypeOK

LEMMA CommandFailsKeeps ==
    ASSUME TypeOK, NEW r \in Requests, ConnectorOK(r), CommandFails(r)
    PROVE  Kept(r)
<1>1. /\ pc[r] = "command" /\ Raise(r)
      /\ UNCHANGED <<kind, client, connected, outputs, live, drops>>
      /\ \/ client[r] = "live" /\ ran' = [ran EXCEPT ![r] = @ + 1]
         \/ UNCHANGED ran
  BY DEF CommandFails, Runs
<1>2. /\ ran' \in [Requests -> Nat] /\ outputs[r] <= ran'[r] /\ ran'[r] <= calls[r]
      /\ \A q \in Requests \ {r} : ran'[q] = ran[q]
  BY <1>1 DEF TypeOK, ConnectorOK, ProgressOK
<1>3. ConnectorOK(r)' /\ \A q \in Requests \ {r} : CallStill(q)
  BY <1>1, <1>2, RaiseKeeps
<1>4. TypeOK'
  <2>1. kind[r] \in Kinds
    BY <1>1 DEF ConnectorOK, ProgressOK
  <2>. QED
    BY <1>1, <1>2, <2>1, RaiseTypes DEF CallOK, TypeOK
<1>. QED
  BY <1>1, <1>2, <1>3, <1>4 DEF Kept, Still

LEMMA ClosesKeeps ==
    ASSUME TypeOK, NEW r \in Requests, ConnectorOK(r), Closes(r)
    PROVE  Kept(r)
<1>1. /\ pc[r] = "close" /\ Finish(r, reply[r])
      /\ client' = [client EXCEPT ![r] = "none"]
      /\ connected' = [connected EXCEPT ![r] = FALSE]
      /\ live' = [live EXCEPT ![r] = IF client[r] = "live" THEN @ - 1 ELSE @]
      /\ UNCHANGED <<kind, calls, outputs, attempt, executing, ran, drops>>
  BY DEF Closes, Runs
<1>2. live' = [live EXCEPT ![r] = 0]
  BY <1>1 DEF ConnectorOK, SessionOK, TypeOK
<1>3. TypeOK'
  <2>1. reply[r] \in {"none", "ok", "error"}
    BY DEF TypeOK
  <2>. QED
    BY <1>1, <1>2, <2>1, FinishTypes DEF TypeOK
<1>4. /\ pc'[r] = "done" /\ thread'[r] = "none" /\ reply'[r] = reply[r] /\ live'[r] = 0
      /\ client'[r] = "none"
      /\ \A q \in Requests \ {r} : CallStill(q)
  BY <1>1, <1>2, FinishMoves DEF TypeOK
<1>5. SessionOK(r)'
  BY <1>4 DEF SessionOK
<1>6. ProgressOK(r)'
  BY <1>1, <1>4 DEF ConnectorOK, ProgressOK
<1>7. AnswerOK(r)'
  BY <1>1, <1>4 DEF ConnectorOK, AnswerOK, Busy
<1>. QED
  BY <1>1, <1>2, <1>3, <1>4, <1>5, <1>6, <1>7 DEF Kept, ConnectorOK, Still, TypeOK

LEMMA LinkDropsKeeps ==
    ASSUME TypeOK, NEW r \in Requests, ConnectorOK(r), LinkDrops(r)
    PROVE  Kept(r)
<1>1. /\ client[r] = "live" /\ drops < MaxDrops /\ drops' = drops + 1
      /\ client' = [client EXCEPT ![r] = "dead"]
      /\ live' = [live EXCEPT ![r] = @ - 1]
      /\ \/ UNCHANGED ran
         \/ pc[r] = "command" /\ ran' = [ran EXCEPT ![r] = @ + 1]
      /\ UNCHANGED <<pc, thread, connected, attempt, executing, caller>>
  BY DEF LinkDrops, Runs
<1>2. live' = [live EXCEPT ![r] = 0] /\ pc[r] \notin {"idle", "done", "connect", "sleep"}
  BY <1>1 DEF ConnectorOK, SessionOK, TypeOK
<1>3. /\ ran' \in [Requests -> Nat] /\ outputs[r] <= ran'[r] /\ ran'[r] <= calls[r]
      /\ \A q \in Requests \ {r} : ran'[q] = ran[q]
  BY <1>1 DEF TypeOK, ConnectorOK, ProgressOK
<1>4. TypeOK'
  <2>1. drops' \in 0 .. MaxDrops
    BY <1>1 DEF TypeOK
  <2>2. Cardinality(Running') <= Threads
    BY <1>1 DEF TypeOK, Running
  <2>3. kind' = kind /\ reply' = reply /\ calls' = calls /\ outputs' = outputs
    BY <1>1 DEF caller
  <2>4. client' \in [Requests -> {"none", "live", "dead"}] /\ live' \in [Requests -> Nat]
    BY <1>1, <1>2 DEF TypeOK
  <2>. QED
    BY <1>1, <1>3, <2>1, <2>2, <2>3, <2>4 DEF TypeOK
<1>5. client'[r] = "dead" /\ live'[r] = 0
  BY <1>1, <1>2 DEF TypeOK
<1>6. SessionOK(r)'
  BY <1>1, <1>2, <1>5 DEF ConnectorOK, SessionOK
<1>7. ProgressOK(r)'
  <2>1. calls[r] \in Nat /\ outputs[r] \in Nat /\ ran'[r] \in Nat
    BY <1>3 DEF TypeOK
  <2>. QED
    BY <1>1, <1>2, <1>3, <1>5, <2>1 DEF ConnectorOK, ProgressOK, caller
<1>8. AnswerOK(r)'
  BY <1>1 DEF ConnectorOK, AnswerOK, caller
<1>. QED
  BY <1>1, <1>2, <1>3, <1>4, <1>6, <1>7, <1>8
     DEF Kept, ConnectorOK, Still, CallStill, TypeOK, caller

-------------------------------------------------------------------------------
(* The invariant.                                                          *)

LEMMA InitConnectorInv == Init => ConnectorInv
<1>. SUFFICES ASSUME Init
              PROVE  ConnectorInv
  OBVIOUS
<1>1. Running = {}
  BY DEF Init, Running
<1>2. Cardinality(Running) = 0
  BY <1>1, FS_EmptySet
<1>3. TypeOK
  BY <1>2 DEF Init, TypeOK, Calls
<1>4. ASSUME NEW r \in Requests
      PROVE  SessionOK(r) /\ ProgressOK(r) /\ AnswerOK(r)
  BY DEF Init, SessionOK, ProgressOK, AnswerOK, Busy
<1>. QED
  BY <1>3, <1>4 DEF ConnectorInv

LEMMA StepKeeps ==
    ASSUME TypeOK, NEW r \in Requests, ConnectorOK(r),
           Submit(r) \/ Dispatch(r) \/ Step(r) \/ CommandEnds(r) \/ LinkDrops(r)
    PROVE  Kept(r)
  BY SubmitKeeps, DispatchKeeps, ConnectSucceedsKeeps, ConnectFailsKeeps, WakeKeeps,
     ClosesKeeps, CommandReturnsKeeps, CommandFailsKeeps, LinkDropsKeeps
     DEF Step, CommandEnds

LEMMA NextConnectorInv == ConnectorInv /\ [Next]_vars => ConnectorInv'
<1>. SUFFICES ASSUME ConnectorInv, [Next]_vars
              PROVE  ConnectorInv'
  OBVIOUS
<1>. TypeOK /\ \A r \in Requests : ConnectorOK(r)
  BY DEF ConnectorInv, ConnectorOK
<1>1. ASSUME NEW r \in Requests,
             Submit(r) \/ Dispatch(r) \/ Step(r) \/ CommandEnds(r) \/ LinkDrops(r)
      PROVE  ConnectorInv'
  <2>1. Kept(r)
    BY <1>1, StepKeeps
  <2>2. ASSUME NEW q \in Requests
        PROVE  ConnectorOK(q)'
    BY <2>1, StillKeeps DEF Kept
  <2>. QED
    BY <2>1, <2>2 DEF Kept, ConnectorInv, ConnectorOK
<1>2. CASE UNCHANGED vars
  <2>1. TypeOK'
    BY <1>2 DEF vars, TypeOK, Running
  <2>2. ASSUME NEW q \in Requests
        PROVE  ConnectorOK(q)'
    BY <1>2 DEF vars, ConnectorOK, SessionOK, ProgressOK, AnswerOK
  <2>. QED
    BY <2>1, <2>2 DEF ConnectorInv, ConnectorOK
<1>. QED
  BY <1>1, <1>2 DEF Next

(* ConnectorInv holds in every reachable state of the connector.           *)
THEOREM ConnectorInvariant == Spec => []ConnectorInv
<1>1. Init => ConnectorInv
  BY InitConnectorInv
<1>2. ConnectorInv /\ [Next]_vars => ConnectorInv'
  BY NextConnectorInv
<1>. QED
  BY <1>1, <1>2, PTL DEF Spec

(* What it entails.                                                       *)
LEMMA AccountedByInv == ConnectorInv => SessionsAccounted
  BY DEF ConnectorInv, SessionOK, SessionsAccounted

LEMMA RunOnceByInv == ConnectorInv => NeverRunTwice
  BY DEF ConnectorInv, ProgressOK, NeverRunTwice

LEMMA WholeByInv == ConnectorInv => DiscoveriesComplete
  BY DEF ConnectorInv, AnswerOK, DiscoveriesComplete

(* Every variable keeps its type: the pool never runs more calls than it   *)
(* has threads, and connect() makes no attempt beyond its limit.           *)
THEOREM ConnectorTypes == Spec => []TypeOK
<1>1. ConnectorInv => TypeOK
  BY DEF ConnectorInv
<1>. QED
  BY <1>1, ConnectorInvariant, PTL

(* However often connect() runs, called by the caller or by execute(), it  *)
(* never overwrites a live client: sessions do not leak at the host.       *)
THEOREM SessionsAreAccounted == Spec => []SessionsAccounted
  BY AccountedByInv, ConnectorInvariant, PTL

(* execute() runs its command at most once, however often it connects      *)
(* again, and returns an output only if the command ran.                   *)
THEOREM NothingRunsTwice == Spec => []NeverRunTwice
  BY RunOnceByInv, ConnectorInvariant, PTL

(* A discovery succeeds only with the output of all its commands, and does *)
(* not go on after the first that fails.                                   *)
THEOREM DiscoveriesAreWhole == Spec => []DiscoveriesComplete
  BY WholeByInv, ConnectorInvariant, PTL

-------------------------------------------------------------------------------
(* One request at the database.                                            *)

(* What AnswersHonest says of one request.                                 *)
AnswerHonest(r) ==
    /\ answer[r] = "ok" /\ kind[r] # "none" => kind[r] = "collection" /\ stored[r] = outputs[r]
    /\ answer[r] = "not found" => stored[r] = 0 /\ ran[r] = 0
    /\ kind[r] = "discovery" /\ stored[r] > 0 =>
          outputs[r] = Commands /\ stored[r] = 1 /\ answer[r] \in {"none", "error"}
    /\ stored[r] > 0 => live[r] = 0

RequestOK(r) == PhaseOK(r) /\ AnswerHonest(r)

Phases == {"none", "lookup", "remote", "save", "refresh", "done"}

DatabaseOK ==
    /\ size \in Pools
    /\ phase \in [Requests -> Phases]
    /\ conn \in [Requests -> {"none", "waiting", "held"}]
    /\ stored \in [Requests -> 0 .. Commands]
    /\ answer \in [Requests -> {"none", "ok", "not found", "error"}]
    /\ Cardinality(Held) <= size

LEMMA StoredCounts ==
    ASSUME DatabaseOK, NEW r \in Requests
    PROVE  stored[r] \in Nat /\ stored[r] <= Commands /\ (stored[r] > 0 => stored[r] # 0)
<1>1. stored[r] \in 0 .. Commands
  BY DEF DatabaseOK
<1>. QED
  BY <1>1

LEMMA InvParts ==
    PooledInv <=> ConnectorInv /\ DatabaseOK /\ \A r \in Requests : RequestOK(r)
  BY DEF PooledInv, PooledTypeOK, ConnectorInv, DatabaseOK, Phases, AnswersHonest,
         AnswerHonest, RequestOK

-------------------------------------------------------------------------------
(* The connector within.                                                   *)

LEMMA PooledStepOfConnector == [PooledNext]_allvars => [Next]_vars
<1>. SUFFICES ASSUME [PooledNext]_allvars
              PROVE  [Next]_vars
  OBVIOUS
<1>1. ASSUME NEW r \in Requests, Arrive(r) \/ Checkout(r) \/ PoolTimesOut(r)
      PROVE  UNCHANGED vars
  BY <1>1 DEF Arrive, Checkout, PoolTimesOut
<1>2. ASSUME NEW r \in Requests, Handle(r)
      PROVE  UNCHANGED vars \/ Submit(r)
  BY <1>2 DEF Handle, Lookup, Returned, Save, Refresh
<1>3. ASSUME NEW r \in Requests, Remote(r)
      PROVE  Next
  BY <1>3 DEF Remote, Next
<1>4. ASSUME NEW r \in Requests, Submit(r)
      PROVE  Next
  BY <1>4 DEF Next
<1>5. CASE AllDone /\ UNCHANGED allvars
  BY <1>5 DEF allvars
<1>6. CASE UNCHANGED allvars
  BY <1>6 DEF allvars
<1>. QED
  BY <1>1, <1>2, <1>3, <1>4, <1>5, <1>6 DEF PooledNext

(* Behind the database a connector does nothing it would not do alone: the *)
(* composition implements SSHConnector.                                    *)
THEOREM PooledImplementsConnector == PooledSpec => Spec
<1>1. PooledInit => Init
  BY DEF PooledInit
<1>. QED
  BY <1>1, PooledStepOfConnector, PTL DEF PooledSpec, Spec

-------------------------------------------------------------------------------
(* The pool of database connections.                                       *)

LEMMA HeldFinite == IsFiniteSet(Held)
  BY SSHAssumption, FS_Subset DEF Held

LEMMA FewerHeld ==
    ASSUME NEW S \in SUBSET Held
    PROVE  IsFiniteSet(S) /\ Cardinality(S) \in Nat /\ Cardinality(S) <= Cardinality(Held)
  BY HeldFinite, FS_Subset, FS_CardinalityType

(* A step of a request that takes no connection from the pool.             *)
LEMMA EnterKeepsPool ==
    ASSUME DatabaseOK, NEW r \in Requests, NEW p \in Phases,
           NEW c \in {"none", "waiting", "held"}, c = "held" => conn[r] = "held",
           Enter(r, p, c)
    PROVE  /\ size' \in Pools
           /\ phase' \in [Requests -> Phases]
           /\ conn' \in [Requests -> {"none", "waiting", "held"}]
           /\ Cardinality(Held') <= size'
<1>1. size' = size /\ size \in Nat
  BY PoolAssumption DEF Enter, DatabaseOK
<1>2. conn' = [conn EXCEPT ![r] = c]
  BY DEF Enter
<1>3. Held' \in SUBSET Held
  BY <1>2 DEF Held, DatabaseOK
<1>4. Cardinality(Held') \in Nat /\ Cardinality(Held') <= Cardinality(Held)
  BY <1>3, FewerHeld
<1>5. Cardinality(Held) \in Nat /\ Cardinality(Held) <= size
  BY FewerHeld DEF DatabaseOK
<1>6. Cardinality(Held') <= size'
  BY <1>1, <1>4, <1>5
<1>. QED
  BY <1>1, <1>2, <1>6 DEF Enter, DatabaseOK

LEMMA CheckoutKeepsPool ==
    ASSUME DatabaseOK, NEW r \in Requests, Checkout(r)
    PROVE  DatabaseOK'
<1>1. size' = size /\ size \in Nat /\ conn' = [conn EXCEPT ![r] = "held"]
  BY PoolAssumption DEF Checkout, Enter, DatabaseOK
<1>2. Held' = Held \union {r} /\ r \notin Held
  BY <1>1 DEF Checkout, Held, DatabaseOK
<1>3. Cardinality(Held') = Cardinality(Held) + 1
  BY <1>2, HeldFinite, FS_AddElement
<1>4. Cardinality(Held) \in Nat /\ Cardinality(Held) < size
  BY FewerHeld DEF Checkout
<1>5. Cardinality(Held') <= size'
  BY <1>1, <1>3, <1>4
<1>. QED
  BY <1>1, <1>5 DEF Checkout, Enter, DatabaseOK

LEMMA ReplyKeepsPool ==
    ASSUME DatabaseOK, NEW r \in Requests, NEW response \in {"ok", "not found", "error"},
           Reply(r, response)
    PROVE  DatabaseOK'
<1>1. Enter(r, "done", "none") /\ "done" \in Phases
  BY DEF Reply, Phases
<1>2. /\ size' \in Pools
      /\ phase' \in [Requests -> Phases]
      /\ conn' \in [Requests -> {"none", "waiting", "held"}]
      /\ Cardinality(Held') <= size'
  BY <1>1, EnterKeepsPool
<1>. QED
  BY <1>2 DEF Reply, DatabaseOK

-------------------------------------------------------------------------------
(* What an action of one request leaves of its invariant, and the others'. *)

(* All that RequestOK(q) speaks of, but for the part of the database.      *)
RemoteStill(q) ==
    /\ pc'[q] = pc[q] /\ reply'[q] = reply[q] /\ kind'[q] = kind[q]
    /\ outputs'[q] = outputs[q] /\ ran'[q] = ran[q] /\ live'[q] = live[q]

DatabaseStill(q) ==
    /\ phase'[q] = phase[q] /\ conn'[q] = conn[q]
    /\ stored'[q] = stored[q] /\ answer'[q] = answer[q]

LEMMA RequestStill ==
    ASSUME NEW q \in Requests, RequestOK(q), RemoteStill(q), DatabaseStill(q)
    PROVE  RequestOK(q)'
  BY DEF RequestOK, PhaseOK, AnswerHonest, RemoteStill, DatabaseStill, Rows

LEMMA VarsStill == UNCHANGED vars => \A q \in Requests : RemoteStill(q)
  BY DEF vars, RemoteStill

LEMMA EnterStill ==
    ASSUME DatabaseOK, NEW r \in Requests, NEW p, NEW c, Enter(r, p, c)
    PROVE  /\ phase'[r] = p /\ conn'[r] = c
           /\ \A q \in Requests \ {r} : phase'[q] = phase[q] /\ conn'[q] = conn[q]
  BY DEF DatabaseOK, Enter

LEMMA ReplyStill ==
    ASSUME DatabaseOK, NEW r \in Requests, NEW response, Reply(r, response)
    PROVE  /\ phase'[r] = "done" /\ conn'[r] = "none"
           /\ answer'[r] = response /\ stored' = stored
           /\ \A q \in Requests \ {r} : DatabaseStill(q)
<1>1. Enter(r, "done", "none")
  BY DEF Reply
<1>. QED
  BY <1>1, EnterStill DEF DatabaseOK, Reply, DatabaseStill

(* The database and the request itself after a step of r; the others are   *)
(* as they were.                                                           *)
Served(r) ==
    /\ DatabaseOK' /\ RequestOK(r)'
    /\ \A q \in Requests \ {r} : RemoteStill(q) /\ DatabaseStill(q)

(* A reply without a step of the connector.                                *)
LEMMA ReplyServes ==
    ASSUME DatabaseOK, NEW r \in Requests, RequestOK(r),
           NEW response \in {"ok", "not found", "error"},
           Reply(r, response), UNCHANGED vars,
           pc[r] \in {"idle", "done"},
           response = "ok" /\ kind[r] # "none" => kind[r] = "collection" /\ stored[r] = outputs[r],
           response = "not found" => pc[r] = "idle" /\ stored[r] = 0 /\ ran[r] = 0
    PROVE  Served(r)
<1>1. DatabaseOK'
  BY ReplyKeepsPool
<1>2. /\ phase'[r] = "done" /\ conn'[r] = "none" /\ answer'[r] = response
      /\ stored'[r] = stored[r]
      /\ \A q \in Requests \ {r} : DatabaseStill(q)
  BY ReplyStill
<1>3. \A q \in Requests : RemoteStill(q)
  BY VarsStill
<1>4. PhaseOK(r)'
  BY <1>2, <1>3 DEF RequestOK, PhaseOK, RemoteStill, Rows
<1>5. AnswerHonest(r)'
  <2>1. /\ kind'[r] = kind[r] /\ outputs'[r] = outputs[r]
        /\ ran'[r] = ran[r] /\ live'[r] = live[r]
    BY <1>3 DEF RemoteStill
  <2>2. stored[r] > 0 => live[r] = 0
    BY DEF RequestOK, AnswerHonest
  <2>3. kind[r] = "discovery" /\ stored[r] > 0 =>
           outputs[r] = Commands /\ stored[r] = 1 /\ response = "error"
    <3>. SUFFICES ASSUME kind[r] = "discovery", stored[r] > 0
                  PROVE  outputs[r] = Commands /\ stored[r] = 1 /\ response = "error"
      OBVIOUS
    <3>1. response # "ok"
      OBVIOUS
    <3>2. stored[r] # 0
      BY StoredCounts, Zenon
    <3>3. response # "not found"
      BY <3>2, Zenon
    <3>. QED
      BY <3>1, <3>3 DEF RequestOK, AnswerHonest
  <2>. QED
    BY <1>2, <2>1, <2>2, <2>3 DEF AnswerHonest
<1>. QED
  BY <1>1, <1>2, <1>3, <1>4, <1>5 DEF Served, RequestOK

LEMMA ArriveServes ==
    ASSUME DatabaseOK, NEW r \in Requests, RequestOK(r), Arrive(r)
    PROVE  Served(r)
<1>1. /\ phase[r] = "none" /\ Enter(r, "lookup", "waiting") /\ "lookup" \in Phases
      /\ UNCHANGED vars /\ stored' = stored /\ answer' = answer
  BY DEF Arrive, Phases
<1>2. DatabaseOK'
  BY <1>1, EnterKeepsPool DEF DatabaseOK
<1>3. /\ phase'[r] = "lookup" /\ conn'[r] = "waiting"
      /\ \A q \in Requests \ {r} : DatabaseStill(q)
  BY <1>1, EnterStill DEF DatabaseStill
<1>4. \A q \in Requests : RemoteStill(q)
  BY <1>1, VarsStill
<1>5. PhaseOK(r)'
  BY <1>1, <1>3, <1>4 DEF RequestOK, PhaseOK, RemoteStill, Rows
<1>6. AnswerHonest(r)'
  BY <1>1, <1>4 DEF RequestOK, AnswerHonest, RemoteStill
<1>. QED
  BY <1>2, <1>3, <1>4, <1>5, <1>6 DEF Served, RequestOK

LEMMA CheckoutServes ==
    ASSUME DatabaseOK, NEW r \in Requests, RequestOK(r), Checkout(r)
    PROVE  Served(r)
<1>1. /\ conn[r] = "waiting" /\ Enter(r, phase[r], "held")
      /\ UNCHANGED vars /\ stored' = stored /\ answer' = answer
  BY DEF Checkout
<1>2. DatabaseOK'
  BY CheckoutKeepsPool
<1>3. /\ phase'[r] = phase[r] /\ conn'[r] = "held"
      /\ \A q \in Requests \ {r} : DatabaseStill(q)
  BY <1>1, EnterStill DEF DatabaseStill
<1>4. \A q \in Requests : RemoteStill(q)
  BY <1>1, VarsStill
<1>5. PhaseOK(r)'
  BY <1>1, <1>3, <1>4 DEF RequestOK, PhaseOK, RemoteStill, Rows
<1>6. AnswerHonest(r)'
  BY <1>1, <1>4 DEF RequestOK, AnswerHonest, RemoteStill
<1>. QED
  BY <1>2, <1>3, <1>4, <1>5, <1>6 DEF Served, RequestOK

LEMMA PoolTimesOutServes ==
    ASSUME DatabaseOK, NEW r \in Requests, RequestOK(r), PoolTimesOut(r)
    PROVE  Served(r)
<1>1. conn[r] = "waiting" /\ Reply(r, "error") /\ UNCHANGED vars
  BY DEF PoolTimesOut
<1>2. pc[r] \in {"idle", "done"}
  BY <1>1 DEF RequestOK, PhaseOK, DatabaseOK, Phases
<1>. QED
  BY <1>1, <1>2, ReplyServes

(* The three outcomes of the lookup, the last of which sends the connector *)
(* off.                                                                    *)
LEMMA LookupServes ==
    ASSUME TypeOK, DatabaseOK, NEW r \in Requests, ConnectorOK(r), RequestOK(r), Lookup(r)
    PROVE  Served(r)
<1>1. /\ phase[r] = "lookup" /\ conn[r] = "held"
      /\ pc[r] = "idle" /\ stored[r] = 0 /\ answer[r] = "none"
  BY DEF Lookup, RequestOK, PhaseOK, DatabaseOK
<1>2. kind[r] = "none" /\ ran[r] = 0
  BY <1>1 DEF ConnectorOK, ProgressOK
<1>3. CASE (Reply(r, "ok") \/ Reply(r, "not found")) /\ UNCHANGED vars
  BY <1>1, <1>2, <1>3, ReplyServes
<1>4. CASE Submit(r) /\ Enter(r, "remote", "held") /\ UNCHANGED <<stored, answer>>
  <2>1. Kept(r) /\ pc'[r] = "connect"
    BY <1>4, SubmitKeeps DEF Submit, Call, TypeOK
  <2>2. DatabaseOK'
    BY <1>1, <1>4, EnterKeepsPool DEF DatabaseOK, Phases
  <2>3. /\ phase'[r] = "remote" /\ conn'[r] = "held"
        /\ stored'[r] = 0 /\ answer'[r] = "none"
        /\ \A q \in Requests \ {r} : DatabaseStill(q)
    BY <1>1, <1>4, EnterStill DEF DatabaseStill
  <2>4. \A q \in Requests \ {r} : RemoteStill(q)
    BY <1>4, <2>1 DEF Kept, Still, CallStill, RemoteStill
  <2>5. PhaseOK(r)' /\ AnswerHonest(r)'
    BY <2>1, <2>3 DEF PhaseOK, AnswerHonest
  <2>. QED
    BY <2>2, <2>3, <2>4, <2>5 DEF Served, RequestOK
<1>. QED
  BY <1>3, <1>4 DEF Lookup

LEMMA RemoteServes ==
    ASSUME TypeOK, DatabaseOK, NEW r \in Requests, ConnectorOK(r), RequestOK(r), Remote(r)
    PROVE  Served(r)
<1>1. Kept(r) /\ UNCHANGED database
  BY StepKeeps DEF Remote
<1>2. pc[r] \notin {"idle", "done"}
  BY DEF Remote, Dispatch, Step, CommandEnds, ConnectSucceeds, ConnectFails, Wake, Closes,
         CommandReturns, CommandFails, LinkDrops, Runs, ConnectorOK, SessionOK
<1>3. phase[r] = "remote" /\ stored[r] = 0 /\ conn[r] = "held" /\ answer[r] = "none"
  BY <1>2 DEF RequestOK, PhaseOK, DatabaseOK, Phases
<1>4. kind' = kind
  BY DEF Remote, Dispatch, Step, CommandEnds, ConnectSucceeds, ConnectFails, Wake, Closes,
         CommandReturns, CommandFails, LinkDrops, caller
<1>5. pc'[r] # "idle"
  BY <1>1, <1>2, <1>4 DEF Kept, ConnectorOK, ProgressOK, Kinds
<1>6. DatabaseOK' /\ \A q \in Requests : DatabaseStill(q)
  BY <1>1 DEF database, DatabaseOK, DatabaseStill, Held
<1>7. phase'[r] = "remote" /\ stored'[r] = 0 /\ conn'[r] = "held" /\ answer'[r] = "none"
  BY <1>3, <1>6 DEF DatabaseStill
<1>8. PhaseOK(r)' /\ AnswerHonest(r)'
  BY <1>5, <1>7 DEF PhaseOK, AnswerHonest
<1>9. \A q \in Requests \ {r} : RemoteStill(q)
  BY <1>1 DEF Kept, Still, CallStill, RemoteStill
<1>. QED
  BY <1>6, <1>8, <1>9 DEF Served, RequestOK

LEMMA ReturnedServes ==
    ASSUME TypeOK, DatabaseOK, NEW r \in Requests, ConnectorOK(r), RequestOK(r), Returned(r)
    PROVE  Served(r)
<1>1. /\ phase[r] = "remote" /\ pc[r] = "done" /\ conn[r] = "held"
      /\ stored[r] = 0 /\ answer[r] = "none" /\ UNCHANGED vars
  BY DEF Returned, RequestOK, PhaseOK, DatabaseOK
<1>2. kind[r] \in Kinds /\ reply[r] \in {"ok", "error"} /\ outputs[r] \in Nat
  BY <1>1 DEF ConnectorOK, ProgressOK, AnswerOK, Busy, TypeOK
<1>3. CASE Reply(r, reply[r]) /\ (reply[r] = "error" \/ Rows(r) = 0)
  <2>1. reply[r] = "ok" => kind[r] = "collection" /\ outputs[r] = 0
    BY <1>2, <1>3 DEF Rows, Kinds
  <2>. QED
    BY <1>1, <1>2, <1>3, <2>1, ReplyServes
<1>4. CASE /\ reply[r] = "ok" /\ Rows(r) # 0
           /\ Enter(r, "save", "held") /\ UNCHANGED <<stored, answer>>
  <2>1. DatabaseOK'
    BY <1>1, <1>4, EnterKeepsPool DEF DatabaseOK, Phases
  <2>2. /\ phase'[r] = "save" /\ conn'[r] = "held"
        /\ stored'[r] = 0 /\ answer'[r] = "none"
        /\ \A q \in Requests \ {r} : DatabaseStill(q)
    BY <1>1, <1>4, EnterStill DEF DatabaseStill
  <2>3. \A q \in Requests : RemoteStill(q)
    BY <1>1, VarsStill
  <2>4. Rows(r)' = Rows(r) /\ Rows(r) > 0
    BY <1>2, <1>4, <2>3 DEF Rows, RemoteStill
  <2>5. pc'[r] = "done" /\ reply'[r] = "ok"
    BY <1>1, <1>4, <2>3 DEF RemoteStill
  <2>6. PhaseOK(r)' /\ AnswerHonest(r)'
    BY <2>2, <2>4, <2>5 DEF PhaseOK, AnswerHonest
  <2>. QED
    BY <2>1, <2>2, <2>3, <2>6 DEF Served, RequestOK
<1>. QED
  BY <1>1, <1>2, <1>3, <1>4 DEF Returned

LEMMA SaveServes ==
    ASSUME TypeOK, DatabaseOK, NEW r \in Requests, ConnectorOK(r), RequestOK(r), Save(r)
    PROVE  Served(r)
<1>1. /\ phase[r] = "save" /\ conn[r] = "held" /\ pc[r] = "done" /\ reply[r] = "ok"
      /\ stored[r] < Rows(r) /\ answer[r] = "none" /\ UNCHANGED vars
  BY DEF Save, RequestOK, PhaseOK, DatabaseOK
<1>2. /\ kind[r] \in Kinds /\ live[r] = 0
      /\ kind[r] = "discovery" => outputs[r] = Commands
  BY <1>1 DEF ConnectorOK, SessionOK, ProgressOK, AnswerOK
<1>3. stored[r] \in 0 .. Commands /\ outputs[r] \in 0 .. Commands
  BY DEF DatabaseOK, TypeOK
<1>4. CASE Reply(r, "error")
  BY <1>1, <1>4, ReplyServes
<1>5. CASE /\ stored' = [stored EXCEPT ![r] = @ + 1]
           /\ Enter(r, "refresh", "waiting") /\ UNCHANGED answer
  <2>1. /\ Rows(r) \in 0 .. Commands /\ stored'[r] = stored[r] + 1
        /\ stored[r] + 1 \in 0 .. Commands
    <3>1. Rows(r) \in 0 .. Commands
      BY <1>3 DEF Rows
    <3>2. stored[r] + 1 \in 0 .. Commands
      BY <1>1, <1>3, <3>1
    <3>3. stored'[r] = stored[r] + 1
      BY <1>5 DEF DatabaseOK
    <3>. QED
      BY <3>1, <3>2, <3>3
  <2>2. DatabaseOK'
    <3>1. stored' \in [Requests -> 0 .. Commands]
      BY <1>5, <2>1 DEF DatabaseOK
    <3>. QED
      BY <1>5, <3>1, EnterKeepsPool DEF DatabaseOK, Phases
  <2>3. /\ phase'[r] = "refresh" /\ conn'[r] = "waiting" /\ answer'[r] = "none"
        /\ \A q \in Requests \ {r} : DatabaseStill(q)
    BY <1>1, <1>5, EnterStill DEF DatabaseStill, DatabaseOK
  <2>4. \A q \in Requests : RemoteStill(q)
    BY <1>1, VarsStill
  <2>5. Rows(r)' = Rows(r)
    BY <2>4 DEF Rows, RemoteStill
  <2>6. /\ pc'[r] = "done" /\ reply'[r] = "ok" /\ live'[r] = 0
        /\ kind'[r] = kind[r] /\ outputs'[r] = outputs[r]
    BY <1>1, <1>2, <2>4 DEF RemoteStill
  <2>7. stored'[r] <= Rows(r)
    BY <1>1, <1>3, <2>1
  <2>8. PhaseOK(r)'
    BY <2>3, <2>5, <2>6, <2>7 DEF PhaseOK
  <2>9. kind[r] = "discovery" => stored'[r] = 1
    BY <1>1, <1>3, <2>1 DEF Rows
  <2>10. AnswerHonest(r)'
    BY <1>2, <2>3, <2>6, <2>9 DEF AnswerHonest
  <2>. QED
    BY <2>2, <2>3, <2>4, <2>8, <2>10 DEF Served, RequestOK
<1>. QED
  BY <1>4, <1>5 DEF Save

LEMMA RefreshServes ==
    ASSUME TypeOK, DatabaseOK, NEW r \in Requests, ConnectorOK(r), RequestOK(r), Refresh(r)
    PROVE  Served(r)
<1>1. /\ phase[r] = "refresh" /\ conn[r] = "held" /\ pc[r] = "done" /\ reply[r] = "ok"
      /\ answer[r] = "none" /\ UNCHANGED vars
  BY DEF Refresh, RequestOK, PhaseOK, DatabaseOK
<1>2. kind[r] \in Kinds
  BY <1>1 DEF ConnectorOK, ProgressOK
<1>3. /\ stored[r] \in Nat /\ outputs[r] \in Nat /\ Rows(r) \in Nat
      /\ stored[r] > 0 => stored[r] <= Rows(r)
  <2>1. stored[r] \in Nat /\ outputs[r] \in Nat
    <3>1. outputs[r] \in 0 .. Commands
      BY DEF TypeOK
    <3>. QED
      BY <3>1, StoredCounts
  <2>2. Rows(r) \in Nat
    BY <2>1 DEF Rows
  <2>3. stored[r] > 0 => stored[r] <= Rows(r)
    BY DEF RequestOK, PhaseOK
  <2>. QED
    BY <2>1, <2>2, <2>3
<1>4. CASE stored[r] < Rows(r) /\ Enter(r, "save", "held") /\ UNCHANGED <<stored, answer>>
  <2>1. DatabaseOK'
    BY <1>1, <1>4, EnterKeepsPool DEF DatabaseOK, Phases
  <2>2. /\ phase'[r] = "save" /\ conn'[r] = "held"
        /\ stored'[r] = stored[r] /\ answer'[r] = "none"
        /\ \A q \in Requests \ {r} : DatabaseStill(q)
    BY <1>1, <1>4, EnterStill DEF DatabaseStill
  <2>3. \A q \in Requests : RemoteStill(q)
    BY <1>1, VarsStill
  <2>4. Rows(r)' = Rows(r) /\ pc'[r] = "done" /\ reply'[r] = "ok"
    BY <1>1, <2>3 DEF Rows, RemoteStill
  <2>5. PhaseOK(r)'
    BY <1>3, <1>4, <2>2, <2>4 DEF PhaseOK
  <2>6. AnswerHonest(r)'
    BY <2>2, <2>3 DEF AnswerHonest, RemoteStill, RequestOK
  <2>. QED
    BY <2>1, <2>2, <2>3, <2>5, <2>6 DEF Served, RequestOK
<1>5. CASE /\ ~(stored[r] < Rows(r))
           /\ Reply(r, IF kind[r] = "discovery" THEN "error" ELSE "ok")
  <2>1. CASE kind[r] = "discovery"
    BY <1>1, <1>5, <2>1, ReplyServes
  <2>2. CASE kind[r] = "collection"
    <3>1. Rows(r) = outputs[r]
      BY <2>2 DEF Rows
    <3>2. stored[r] = outputs[r]
      BY <1>3, <1>5, <3>1
    <3>3. Reply(r, "ok")
      BY <1>5, <2>2
    <3>. QED
      BY <1>1, <2>2, <3>2, <3>3, ReplyServes
  <2>. QED
    BY <1>2, <2>1, <2>2 DEF Kinds
<1>. QED
  BY <1>1, <1>4, <1>5 DEF Refresh

-------------------------------------------------------------------------------
(* The invariant.                                                          *)

LEMMA InitPooledInv == PooledInit => PooledInv
<1>. SUFFICES ASSUME PooledInit
              PROVE  PooledInv
  OBVIOUS
<1>1. ConnectorInv
  BY InitConnectorInv DEF PooledInit
<1>2. DatabaseOK
  <2>1. Held = {}
    BY DEF PooledInit, Held
  <2>2. Cardinality(Held) = 0 /\ size \in Nat
    BY <2>1, FS_EmptySet, PoolAssumption DEF PooledInit
  <2>. QED
    BY <2>2 DEF PooledInit, DatabaseOK, Phases
<1>3. ASSUME NEW r \in Requests
      PROVE  RequestOK(r)
  <2>1. phase[r] = "none" /\ conn[r] = "none" /\ stored[r] = 0 /\ answer[r] = "none"
    BY DEF PooledInit
  <2>2. pc[r] = "idle"
    BY DEF PooledInit, Init
  <2>. QED
    BY <2>1, <2>2 DEF RequestOK, PhaseOK, AnswerHonest
<1>. QED
  BY <1>1, <1>2, <1>3, InvParts

LEMMA RequestServes ==
    ASSUME TypeOK, DatabaseOK, NEW r \in Requests, ConnectorOK(r), RequestOK(r),
           Arrive(r) \/ Checkout(r) \/ PoolTimesOut(r) \/ Handle(r) \/ Remote(r)
    PROVE  Served(r)
  BY ArriveServes, CheckoutServes, PoolTimesOutServes, LookupServes, ReturnedServes,
     SaveServes, RefreshServes, RemoteServes DEF Handle

LEMMA NextPooledInv == PooledInv /\ [PooledNext]_allvars => PooledInv'
<1>. SUFFICES ASSUME PooledInv, [PooledNext]_allvars
              PROVE  PooledInv'
  OBVIOUS
<1>1. ConnectorInv /\ DatabaseOK /\ \A r \in Requests : RequestOK(r)
  BY InvParts
<1>2. TypeOK /\ \A r \in Requests : ConnectorOK(r)
  BY <1>1 DEF ConnectorInv, ConnectorOK
<1>3. ConnectorInv'
  BY <1>1, PooledStepOfConnector, NextConnectorInv
<1>4. ASSUME NEW r \in Requests,
             Arrive(r) \/ Checkout(r) \/ PoolTimesOut(r) \/ Handle(r) \/ Remote(r)
      PROVE  DatabaseOK' /\ \A q \in Requests : RequestOK(q)'
  <2>1. Served(r)
    BY <1>1, <1>2, <1>4, RequestServes
  <2>2. ASSUME NEW q \in Requests
        PROVE  RequestOK(q)'
    BY <1>1, <2>1, RequestStill DEF Served
  <2>. QED
    BY <2>1, <2>2 DEF Served
<1>5. ASSUME UNCHANGED allvars
      PROVE  DatabaseOK' /\ \A q \in Requests : RequestOK(q)'
  <2>1. DatabaseOK'
    BY <1>1, <1>5 DEF allvars, database, DatabaseOK, Held
  <2>2. UNCHANGED vars /\ \A q \in Requests : DatabaseStill(q)
    BY <1>5 DEF allvars, database, DatabaseStill
  <2>3. ASSUME NEW q \in Requests
        PROVE  RequestOK(q)'
    BY <1>1, <2>2, VarsStill, RequestStill
  <2>. QED
    BY <2>1, <2>3
<1>6. DatabaseOK' /\ \A q \in Requests : RequestOK(q)'
  BY <1>4, <1>5 DEF PooledNext
<1>7. (ConnectorInv /\ DatabaseOK /\ \A r \in Requests : RequestOK(r))'
  BY <1>3, <1>6
<1>. QED
  BY <1>7, InvParts, PTL

(* The invariant holds in every reachable state of the composition.        *)
THEOREM PooledInvariant == PooledSpec => []PooledInv
<1>1. PooledInit => PooledInv
  BY InitPooledInv
<1>2. PooledInv /\ [PooledNext]_allvars => PooledInv'
  BY NextPooledInv
<1>. QED
  BY <1>1, <1>2, PTL DEF PooledSpec

(* The pool never hands out more connections than it has, however often a  *)
(* request gives its own back and asks for another.                        *)
THEOREM PoolNeverOverrun == PooledSpec => []PooledTypeOK
<1>1. PooledInv => PooledTypeOK
  BY DEF PooledInv
<1>. QED
  BY <1>1, PooledInvariant, PTL

(* An answer of success is true of the host and of what is stored; an error*)
(* hides no half of a discovery.                                           *)
THEOREM AnswersAreHonest == PooledSpec => []AnswersHonest
<1>1. PooledInv => AnswersHonest
  BY DEF PooledInv
<1>. QED
  BY <1>1, PooledInvariant, PTL

(* What was proved of the connector holds of the composition.              *)
THEOREM PooledSessionsAccounted == PooledSpec => []SessionsAccounted
  BY PooledImplementsConnector, SessionsAreAccounted, PTL

THEOREM PooledNeverRunsTwice == PooledSpec => []NeverRunTwice
  BY PooledImplementsConnector, NothingRunsTwice, PTL

THEOREM PooledDiscoveriesComplete == PooledSpec => []DiscoveriesComplete
  BY PooledImplementsConnector, DiscoveriesAreWhole, PTL
===============================================================================
