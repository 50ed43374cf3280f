------------------------- MODULE ServerRegistryProofs --------------------------
(***************************************************************************)
(* Theorems about ServerRegistry, for any number of requests, hostnames,   *)
(* addresses and failures.                                                 *)
(***************************************************************************)
EXTENDS ServerRegistry, TLAPS

USE MaxFailuresAssumption, EarlierAssumption

LEMMA InitIInv == Init => IInv
  BY DEF Init, IInv, RacesOK, OnlyRacesFail, TypeOK, RowsOK, PhaseOK, HasRow, Replies, Waiting,
         Registry!Server, Registry!ServerOf, Registry!Keys, Registry!NoKeys

LEMMA NextTypeOK == TypeOK /\ PhaseOK /\ [Next]_vars => TypeOK'
<1> SUFFICES ASSUME TypeOK, PhaseOK, [Next]_vars PROVE TypeOK'
  OBVIOUS
<1>. USE DEF TypeOK, Goto, Answer, Waiting, Replies
<1>1. ASSUME NEW r \in Requests, Submit(r) PROVE TypeOK'
  BY <1>1 DEF Submit
<1>2. ASSUME NEW r \in Requests, CheckExists(r) \/ CheckAgain(r) PROVE TypeOK'
  BY <1>2 DEF CheckExists, CheckAgain
<1>3. ASSUME NEW r \in Requests, Commit(r) PROVE TypeOK'
  <2>1. Registry!ServerOf(call[r], r) \in Registry!Server
    BY <1>3 DEF Commit, PhaseOK, Registry!ServerOf, Registry!Server, Registry!Keys
  <2>. QED
    BY <1>3, <2>1 DEF Commit
<1>4. ASSUME NEW r \in Requests, Refresh(r) \/ DatabaseError(r) PROVE TypeOK'
  BY <1>4 DEF Refresh, DatabaseError
<1>5. CASE Crash
  BY <1>5 DEF Crash
<1>6. CASE UNCHANGED vars
  BY <1>6 DEF vars
<1>. QED
  BY <1>1, <1>2, <1>3, <1>4, <1>5, <1>6 DEF Next, Step

-------------------------------------------------------------------------------
(* A truthful answer keeps the invariant.                                  *)
LEMMA AnswerKeeps ==
    ASSUME IInv, NEW r \in Requests, pc[r] \in Waiting,
           NEW response \in {"ok", "conflict", "error"},
           Answer(r, response), UNCHANGED <<servers, call>>,
           response = "ok" => HasRow(r),
           response = "conflict" =>
                pc[r] # "refreshing"
                /\ \E s \in servers : Registry!Clash(s, call[r])
    PROVE  RowsOK' /\ PhaseOK'
<1>. USE DEF IInv
<1>1. pc'[r] = "done" /\ reply'[r] = response
  BY DEF Answer, TypeOK
<1>2. ASSUME NEW q \in Requests, q # r
      PROVE  pc'[q] = pc[q] /\ reply'[q] = reply[q]
  BY <1>2 DEF Answer, TypeOK
<1>3. RowsOK'
  <2> SUFFICES ASSUME NEW s \in servers, s.by # Earlier
               PROVE  /\ s = Registry!ServerOf(call[s.by], s.by)
                      /\ pc'[s.by] \in {"refreshing", "done"}
                      /\ reply'[s.by] \notin {"conflict", "bad_request"}
    BY DEF RowsOK
  <2>1. s.by \in Requests
    BY DEF TypeOK, Registry!Server
  <2>2. CASE s.by = r
    BY <1>1, <2>2 DEF RowsOK, Waiting
  <2>3. CASE s.by # r
    BY <1>2, <2>1, <2>3 DEF RowsOK
  <2>. QED
    BY <2>2, <2>3
<1>4. PhaseOK'
  <2>1. \A q \in Requests : HasRow(q)' <=> HasRow(q)
    BY DEF HasRow
  <2>. QED
    BY <1>1, <1>2, <2>1 DEF PhaseOK, Waiting, Registry!Clash
<1>. QED
  BY <1>3, <1>4

LEMMA GotoKeeps ==
    ASSUME IInv, NEW r \in Requests, pc[r] \in Waiting \ {"refreshing"},
           NEW label \in Waiting \ {"refreshing"},
           Goto(r, label), UNCHANGED <<servers, call>>
    PROVE  RowsOK' /\ PhaseOK'
<1>. USE DEF IInv
<1>1. pc'[r] = label /\ UNCHANGED reply
  BY DEF Goto, TypeOK
<1>2. \A q \in Requests \ {r} : pc'[q] = pc[q]
  BY DEF Goto, TypeOK
<1>3. RowsOK'
  BY <1>1, <1>2 DEF RowsOK, TypeOK, Registry!Server, Waiting
<1>4. PhaseOK'
  <2>1. \A q \in Requests : HasRow(q)' <=> HasRow(q)
    BY DEF HasRow
  <2>. QED
    BY <1>1, <1>2, <2>1 DEF PhaseOK, Waiting, Registry!Clash
<1>. QED
  BY <1>3, <1>4

LEMMA NextRowsPhase == IInv /\ [Next]_vars => RowsOK' /\ PhaseOK'
<1> SUFFICES ASSUME IInv, [Next]_vars PROVE RowsOK' /\ PhaseOK'
  OBVIOUS
<1>. USE DEF IInv
<1>1. ASSUME NEW r \in Requests, Submit(r) PROVE RowsOK' /\ PhaseOK'
  BY <1>1 DEF Submit, Goto, Answer, RowsOK, PhaseOK, HasRow, TypeOK, Waiting,
              Replies, Registry!Server
<1>2. ASSUME NEW r \in Requests, CheckExists(r) \/ CheckAgain(r)
      PROVE  RowsOK' /\ PhaseOK'
  BY <1>2, AnswerKeeps, GotoKeeps DEF CheckExists, CheckAgain, exists, Waiting
<1>3. ASSUME NEW r \in Requests, Commit(r) PROVE RowsOK' /\ PhaseOK'
  <2>1. CASE UniqueViolation(r)
    BY <1>3, <2>1, AnswerKeeps DEF Commit, Waiting
  <2>2. CASE ~UniqueViolation(r)
    <3>1. /\ servers' = servers \union {Registry!ServerOf(call[r], r)}
          /\ pc[r] = "committing" /\ pc' = [pc EXCEPT ![r] = "refreshing"]
          /\ UNCHANGED <<call, reply>>
      BY <1>3, <2>2 DEF Commit, Goto
    <3>2. Registry!ServerOf(call[r], r).by = r
      BY DEF Registry!ServerOf
    <3>3. RowsOK'
      BY <3>1, <3>2 DEF RowsOK, PhaseOK, TypeOK, Registry!Server, Waiting
    <3>4. PhaseOK'
      BY <3>1, <3>2 DEF PhaseOK, HasRow, TypeOK, Waiting
    <3>. QED
      BY <3>3, <3>4
  <2>. QED
    BY <2>1, <2>2
<1>4. ASSUME NEW r \in Requests, Refresh(r) PROVE RowsOK' /\ PhaseOK'
  BY <1>4, AnswerKeeps DEF Refresh, PhaseOK, Waiting
<1>5. ASSUME NEW r \in Requests, DatabaseError(r) PROVE RowsOK' /\ PhaseOK'
  BY <1>5, AnswerKeeps DEF DatabaseError
<1>6. CASE Crash
  <2>1. /\ UNCHANGED <<servers, call>>
        /\ \A q \in Requests :
              /\ pc[q] \in Waiting => pc'[q] = "done" /\ reply'[q] = "lost"
              /\ pc[q] \notin Waiting => pc'[q] = pc[q] /\ reply'[q] = reply[q]
    BY <1>6 DEF Crash
  <2>2. RowsOK'
    BY <2>1 DEF RowsOK, TypeOK, Registry!Server, Waiting
  <2>3. \A q \in Requests : HasRow(q)' <=> HasRow(q)
    BY <2>1 DEF HasRow
  <2>4. PhaseOK'
    BY <2>1, <2>3 DEF PhaseOK, Waiting, Registry!Clash
  <2>. QED
    BY <2>2, <2>4
<1>7. CASE UNCHANGED vars
  BY <1>7 DEF vars, RowsOK, PhaseOK, HasRow
<1>. QED
  BY <1>1, <1>2, <1>3, <1>4, <1>5, <1>6, <1>7 DEF Next, Step

LEMMA NextRaces == IInv /\ [Next]_vars => RacesOK' /\ OnlyRacesFail'
<1> SUFFICES ASSUME IInv, [Next]_vars PROVE RacesOK' /\ OnlyRacesFail'
  OBVIOUS
<1>. USE DEF IInv
<1>1. ASSUME NEW r \in Requests, Submit(r) PROVE RacesOK' /\ OnlyRacesFail'
  BY <1>1 DEF Submit, Goto, Answer, RacesOK, OnlyRacesFail, PhaseOK, TypeOK
<1>2. ASSUME NEW r \in Requests, CheckExists(r) PROVE RacesOK' /\ OnlyRacesFail'
  BY <1>2 DEF CheckExists, exists, Goto, Answer, RacesOK, OnlyRacesFail, TypeOK
<1>3. ASSUME NEW r \in Requests, CheckAgain(r) PROVE RacesOK' /\ OnlyRacesFail'
  BY <1>3 DEF CheckAgain, exists, Goto, Answer, RacesOK, OnlyRacesFail, TypeOK
<1>4. ASSUME NEW r \in Requests, Commit(r) PROVE RacesOK' /\ OnlyRacesFail'
  <2>1. CASE UniqueViolation(r)
    <3>1. \E s \in servers : Registry!Clash(s, call[r]) /\ s.by \in Requests \ {r}
      <4>1. PICK s \in servers : Registry!Clash(s, call[r])
        BY <2>1 DEF UniqueViolation
      <4>2. s.by # Earlier /\ s.by # r
        BY <1>4, <4>1 DEF Commit, RacesOK, RowsOK
      <4>. QED
        BY <4>1, <4>2 DEF TypeOK, Registry!Server
    <3>. QED
      BY <1>4, <2>1, <3>1 DEF Commit, Answer, RacesOK, OnlyRacesFail, TypeOK
  <2>2. CASE ~UniqueViolation(r)
    <3>1. /\ servers' = servers \union {Registry!ServerOf(call[r], r)}
          /\ pc[r] = "committing" /\ pc' = [pc EXCEPT ![r] = "refreshing"]
          /\ UNCHANGED <<call, reply, failures>>
      BY <1>4, <2>2 DEF Commit, Goto
    <3>2. Registry!ServerOf(call[r], r).by # Earlier
      BY DEF Registry!ServerOf
    <3>. QED
      BY <3>1, <3>2 DEF RacesOK, OnlyRacesFail, TypeOK
  <2>. QED
    BY <2>1, <2>2
<1>5. ASSUME NEW r \in Requests, Refresh(r) PROVE RacesOK' /\ OnlyRacesFail'
  BY <1>5 DEF Refresh, Answer, RacesOK, OnlyRacesFail, TypeOK
<1>6. ASSUME NEW r \in Requests, DatabaseError(r)
      PROVE  RacesOK' /\ OnlyRacesFail'
  BY <1>6 DEF DatabaseError, Answer, RacesOK, OnlyRacesFail, TypeOK
<1>7. CASE Crash
  BY <1>7 DEF Crash, RacesOK, OnlyRacesFail, TypeOK
<1>8. CASE UNCHANGED vars
  BY <1>8 DEF vars, RacesOK, OnlyRacesFail
<1>. QED
  BY <1>1, <1>2, <1>3, <1>4, <1>5, <1>6, <1>7, <1>8 DEF Next, Step

(* The strengthening is inductive.                                         *)
THEOREM Inductive == Spec => []IInv
<1>1. IInv /\ [Next]_vars => IInv'
  BY NextTypeOK, NextRowsPhase, NextRaces DEF IInv
<1>. QED
  BY <1>1, InitIInv, PTL DEF Spec

(* Rows, keys and replies keep their shape; only validated keys get in.    *)
THEOREM TypeCorrect == Spec => []TypeOK
  BY Inductive, PTL DEF IInv

(* 201 and 409 are told truthfully, whatever races and whatever fails.     *)
THEOREM RepliesAreHonest == Spec => []RepliesHonest
<1>1. IInv => RepliesHonest
  <2> SUFFICES ASSUME IInv, NEW r \in Requests
               PROVE  /\ reply[r] = "ok" => Registry!ServerOf(call[r], r) \in servers
                      /\ reply[r] = "conflict" =>
                            \E s \in servers : Registry!Clash(s, call[r]) /\ s.by # r
    BY DEF RepliesHonest
  <2>1. CASE reply[r] = "ok"
    BY <2>1 DEF IInv, PhaseOK, RowsOK, HasRow
  <2>2. CASE reply[r] = "conflict"
    <3>1. \A s \in servers : s.by # r
      BY <2>2 DEF IInv, RowsOK
    <3>. QED
      BY <2>2, <3>1 DEF IInv, PhaseOK
  <2>. QED
    BY <2>1, <2>2
<1>. QED
  BY <1>1, Inductive, PTL

(* Without failures a 500 is only ever told to the loser of a race.        *)
THEOREM RacesExplainErrors == Spec => []OnlyRacesFail
  BY Inductive, PTL DEF IInv

(* Without failures, however many requests race, the keys of every valid   *)
(* request end up held by some server.                                     *)
THEOREM NotAllLose == Spec => []SomebodyWins
<1>1. IInv => SomebodyWins
  <2> SUFFICES ASSUME IInv, failures = 0, NEW r \in Requests,
                      pc[r] = "done", reply[r] # "bad_request"
               PROVE  \E s \in servers : Registry!Clash(s, call[r])
    BY DEF SomebodyWins
  <2>1. reply[r] \in {"ok", "conflict", "error"}
    BY DEF IInv, PhaseOK, RacesOK, TypeOK, Replies
  <2>2. CASE reply[r] = "ok"
    <3>1. Registry!ServerOf(call[r], r) \in servers
      BY <2>2 DEF IInv, PhaseOK, RowsOK, HasRow
    <3>. QED
      BY <3>1 DEF Registry!Clash, Registry!ServerOf
  <2>3. CASE reply[r] = "conflict"
    BY <2>3 DEF IInv, PhaseOK
  <2>4. CASE reply[r] = "error"
    BY <2>4 DEF IInv, OnlyRacesFail
  <2>. QED
    BY <2>1, <2>2, <2>3, <2>4
<1>. QED
  BY <1>1, Inductive, PTL

-------------------------------------------------------------------------------
(* What the refinement mapping makes of a request, phase by phase.         *)
LEMMA Outcomes ==
    ASSUME IInv, NEW r \in Requests
    PROVE  /\ pc[r] = "idle" => Outcome(r) = "none"
           /\ pc[r] \in {"checking", "saving", "committing"} =>
                    Outcome(r) = "pending"
           /\ HasRow(r) <=> Outcome(r) = "registered"
           /\ pc[r] = "done" /\ ~HasRow(r) =>
                Outcome(r) = IF reply[r] = "conflict" THEN "refused" ELSE "failed"
           /\ pc[r] = "refreshing" => Outcome(r) = "registered"
<1>1. pc[r] \in {"idle", "checking", "saving", "committing"} => ~HasRow(r)
  BY DEF IInv, RowsOK, HasRow
<1>2. pc[r] = "refreshing" => HasRow(r)
  BY DEF IInv, PhaseOK
<1>3. HasRow(r) => Outcome(r) = "registered"
  BY DEF Outcome
<1>4. ~HasRow(r) => /\ pc[r] = "idle" => Outcome(r) = "none"
                    /\ pc[r] \in {"checking", "saving", "committing"} =>
                            Outcome(r) = "pending"
                    /\ pc[r] = "done" => Outcome(r) =
                            IF reply[r] = "conflict" THEN "refused" ELSE "failed"
                    /\ Outcome(r) # "registered"
  BY DEF Outcome
<1>. QED
  BY <1>1, <1>2, <1>3, <1>4

(* A request that is not the one that moves keeps its outcome.             *)
LEMMA OutcomeFrame ==
    ASSUME NEW q \in Requests, pc'[q] = pc[q], reply'[q] = reply[q],
           HasRow(q)' <=> HasRow(q)
    PROVE  Outcome(q)' = Outcome(q)
  BY DEF Outcome, HasRow

(* A step about r that leaves the table alone changes no other outcome.    *)
LEMMA AboutOne ==
    ASSUME TypeOK, NEW r \in Requests, UNCHANGED servers,
           NEW label, NEW answer,
           pc' = [pc EXCEPT ![r] = label], reply' = [reply EXCEPT ![r] = answer]
    PROVE  [q \in Requests |-> Outcome(q)]' =
             [[q \in Requests |-> Outcome(q)] EXCEPT ![r] = Outcome(r)']
<1>1. ASSUME NEW q \in Requests, q # r PROVE Outcome(q)' = Outcome(q)
  BY <1>1, OutcomeFrame DEF TypeOK, HasRow
<1>. QED
  BY <1>1

(* Every step is a step of the atomic registry or none at all.  A request  *)
(* takes effect where it finds its key taken and where its row commits;    *)
(* what fails after the commit is no longer a failure.                     *)
LEMMA StepRefines ==
    IInv /\ IInv' /\ [Next]_vars => [Registry!Next]_(Registry!vars)
<1> SUFFICES ASSUME IInv, IInv', [Next]_vars
             PROVE  Registry!Next \/ UNCHANGED Registry!vars
  OBVIOUS
<1>. TypeOK
  BY DEF IInv
<1>1. ASSUME NEW r \in Requests, Submit(r)
      PROVE  Registry!Ask(r) \/ Registry!TurnAway(r)
  <2>1. Outcome(r) = "none" /\ ~HasRow(r)
    BY <1>1, Outcomes DEF Submit
  <2>2. CASE Goto(r, "checking")
    <3>1. /\ UNCHANGED servers
          /\ pc' = [pc EXCEPT ![r] = "checking"]
          /\ reply' = [reply EXCEPT ![r] = reply[r]]
          /\ \E k \in Registry!Keys : call' = [call EXCEPT ![r] = k]
      BY <1>1, <2>2 DEF Submit, Goto, Answer, TypeOK
    <3>2. Outcome(r)' = "pending"
      BY <3>1, Outcomes DEF Outcome, HasRow, IInv, RowsOK, TypeOK
    <3>. QED
      BY <2>1, <3>1, <3>2, AboutOne DEF Registry!Ask
  <2>3. CASE Answer(r, "bad_request") /\ UNCHANGED call
    <3>1. /\ UNCHANGED <<servers, call>>
          /\ pc' = [pc EXCEPT ![r] = "done"]
          /\ reply' = [reply EXCEPT ![r] = "bad_request"]
      BY <1>1, <2>3 DEF Submit, Answer
    <3>2. Outcome(r)' = "failed"
      BY <2>1, <3>1 DEF Outcome, HasRow, TypeOK
    <3>. QED
      BY <2>1, <3>1, <3>2, AboutOne DEF Registry!TurnAway
  <2>. QED
    BY <1>1, <2>2, <2>3 DEF Submit
<1>2. ASSUME NEW r \in Requests, CheckExists(r) \/ CheckAgain(r)
      PROVE  Registry!Refuse(r) \/ UNCHANGED Registry!vars
  <2>1. Outcome(r) = "pending" /\ ~HasRow(r) /\ UNCHANGED <<servers, call>>
    BY <1>2, Outcomes DEF CheckExists, CheckAgain
  <2>2. CASE exists(r)
    <3>1. /\ pc' = [pc EXCEPT ![r] = "done"]
          /\ reply' = [reply EXCEPT ![r] = "conflict"]
      BY <1>2, <2>2 DEF CheckExists, CheckAgain, Answer
    <3>2. Outcome(r)' = "refused"
      BY <2>1, <3>1 DEF Outcome, HasRow, TypeOK
    <3>3. \E s \in servers : Registry!Clash(s, call[r])
      BY <2>2 DEF exists
    <3>. QED
      BY <2>1, <3>1, <3>2, <3>3, AboutOne DEF Registry!Refuse, Registry!Decide
  <2>3. CASE ~exists(r)
    <3>1. PICK label \in {"saving", "committing"} :
              /\ pc' = [pc EXCEPT ![r] = label]
              /\ reply' = [reply EXCEPT ![r] = reply[r]]
      BY <1>2, <2>3 DEF CheckExists, CheckAgain, Goto, TypeOK
    <3>2. Outcome(r)' = "pending"
      BY <2>1, <3>1 DEF Outcome, HasRow, TypeOK
    <3>. QED
      BY <2>1, <3>1, <3>2, AboutOne DEF Registry!vars
  <2>. QED
    BY <2>2, <2>3
<1>3. ASSUME NEW r \in Requests, Commit(r)
      PROVE  Registry!Register(r) \/ Registry!Fail(r)
  <2>1. Outcome(r) = "pending" /\ ~HasRow(r) /\ UNCHANGED call
    BY <1>3, Outcomes DEF Commit
  <2>2. CASE UniqueViolation(r)
    <3>1. /\ UNCHANGED servers
          /\ pc' = [pc EXCEPT ![r] = "done"]
          /\ reply' = [reply EXCEPT ![r] = "error"]
      BY <1>3, <2>2 DEF Commit, Answer
    <3>2. Outcome(r)' = "failed"
      BY <2>1, <3>1 DEF Outcome, HasRow, TypeOK
    <3>. QED
      BY <2>1, <3>1, <3>2, AboutOne DEF Registry!Fail, Registry!Decide
  <2>3. CASE ~UniqueViolation(r)
    <3>1. /\ servers' = servers \union {Registry!ServerOf(call[r], r)}
          /\ pc' = [pc EXCEPT ![r] = "refreshing"] /\ UNCHANGED reply
      BY <1>3, <2>3 DEF Commit, Goto
    <3>2. Registry!ServerOf(call[r], r).by = r
      BY DEF Registry!ServerOf
    <3>3. Outcome(r)' = "registered"
      BY <3>1, <3>2 DEF Outcome, HasRow
    <3>4. ASSUME NEW q \in Requests, q # r PROVE Outcome(q)' = Outcome(q)
      BY <3>1, <3>2, <3>4, OutcomeFrame DEF HasRow, TypeOK
    <3>5. [q \in Requests |-> Outcome(q)]' =
             [[q \in Requests |-> Outcome(q)] EXCEPT ![r] = "registered"]
      BY <3>3, <3>4
    <3>6. \A s \in servers : ~Registry!Clash(s, call[r])
      BY <2>3 DEF UniqueViolation
    <3>. QED
      BY <2>1, <3>1, <3>5, <3>6 DEF Registry!Register, Registry!Decide
  <2>. QED
    BY <2>2, <2>3
<1>4. ASSUME NEW r \in Requests, Refresh(r) PROVE UNCHANGED Registry!vars
  <2>1. /\ Outcome(r) = "registered" /\ HasRow(r) /\ UNCHANGED <<servers, call>>
        /\ pc' = [pc EXCEPT ![r] = "done"] /\ reply' = [reply EXCEPT ![r] = "ok"]
    BY <1>4, Outcomes DEF Refresh, Answer
  <2>2. Outcome(r)' = "registered"
    BY <2>1 DEF Outcome, HasRow
  <2>. QED
    BY <2>1, <2>2, AboutOne DEF Registry!vars
<1>5. ASSUME NEW r \in Requests, DatabaseError(r)
      PROVE  Registry!Fail(r) \/ UNCHANGED Registry!vars
  <2>1. /\ UNCHANGED <<servers, call>>
        /\ pc' = [pc EXCEPT ![r] = "done"] /\ reply' = [reply EXCEPT ![r] = "error"]
    BY <1>5 DEF DatabaseError, Answer
  <2>2. CASE HasRow(r)
    <3>1. Outcome(r) = "registered" /\ Outcome(r)' = "registered"
      BY <2>1, <2>2 DEF Outcome, HasRow
    <3>. QED
      BY <2>1, <3>1, AboutOne DEF Registry!vars
  <2>3. CASE ~HasRow(r)
    <3>1. Outcome(r) = "pending"
      BY <1>5, <2>3, Outcomes DEF DatabaseError, Waiting
    <3>2. Outcome(r)' = "failed"
      BY <2>1, <2>3 DEF Outcome, HasRow, TypeOK
    <3>. QED
      BY <2>1, <3>1, <3>2, AboutOne DEF Registry!Fail, Registry!Decide
  <2>. QED
    BY <2>2, <2>3
<1>6. CASE Crash
  <2>1. UNCHANGED <<servers, call>>
    BY <1>6 DEF Crash
  <2>2. \A q \in Requests : Outcome(q) = "pending" <=>
            pc[q] \in Waiting /\ ~HasRow(q)
    BY Outcomes DEF TypeOK, Waiting
  <2>3. ASSUME NEW q \in Requests, Outcome(q) = "pending"
        PROVE  Outcome(q)' = "failed"
    <3>1. /\ ~HasRow(q)' /\ pc'[q] = "done" /\ reply'[q] = "lost"
      BY <1>6, <2>1, <2>2, <2>3 DEF Crash, HasRow
    <3>. QED
      BY <3>1 DEF Outcome, HasRow
  <2>4. ASSUME NEW q \in Requests, Outcome(q) # "pending"
        PROVE  Outcome(q)' = Outcome(q)
    <3>1. HasRow(q)' <=> HasRow(q)
      BY <2>1 DEF HasRow
    <3>2. CASE HasRow(q)
      BY <3>1, <3>2 DEF Outcome, HasRow
    <3>3. CASE pc[q] \notin Waiting
      BY <1>6, <3>1, <3>3, OutcomeFrame DEF Crash
    <3>. QED
      BY <2>2, <2>4, <3>2, <3>3
  <2>5. [q \in Requests |-> Outcome(q)]' =
          [q \in Requests |-> IF [p \in Requests |-> Outcome(p)][q] = "pending"
                              THEN "failed"
                              ELSE [p \in Requests |-> Outcome(p)][q]]
    BY <2>3, <2>4
  <2>6. CASE \E q \in Requests : Outcome(q) = "pending"
    BY <2>1, <2>5, <2>6 DEF Registry!Next, Registry!FailAll
  <2>7. CASE \A q \in Requests : Outcome(q) # "pending"
    BY <2>1, <2>4, <2>7 DEF Registry!vars
  <2>. QED
    BY <2>6, <2>7
<1>7. CASE UNCHANGED vars
  <2>1. \A q \in Requests : Outcome(q)' = Outcome(q)
    BY <1>7, OutcomeFrame DEF vars, HasRow
  <2>. QED
    BY <1>7, <2>1 DEF vars, Registry!vars
<1>. QED
  BY <1>1, <1>2, <1>3, <1>4, <1>5, <1>6, <1>7 DEF Next, Step, Registry!Next

(* Checking, checking again and inserting, without a lock and with every   *)
(* failure, is an atomic registration: it has effect at one instant, for   *)
(* one of the requests that race for a key.                                *)
THEOREM ImplementsAtomic == Spec => ImplementsAtomicRegistry
<1>1. Init => Registry!Init
  <2> SUFFICES ASSUME Init PROVE Registry!Init
    OBVIOUS
  <2>1. \A r \in Requests : Outcome(r) = "none"
    BY InitIInv, Outcomes DEF Init
  <2>. QED
    BY <2>1 DEF Init, Registry!Init
<1>. QED
  BY <1>1, Inductive, StepRefines, PTL
     DEF Spec, ImplementsAtomicRegistry, Registry!Spec
===============================================================================
