------------------------ MODULE InventoryServiceProofs ------------------------
(***************************************************************************)
(* Theorems about InventoryService, for every set of requests, servers and *)
(* keys, whatever assets are known, and any number of failures.            *)
(***************************************************************************)
EXTENDS InventoryService, TLAPS

USE NamesAssumption, MaxFailuresAssumption, KnownAssumption

(* Where a request is tells what it asked for and what it holds.           *)
PhaseOf(r) ==
    /\ pc[r] = "idle" => call[r] = NoCall
    /\ pc[r] \in {"discovering", "snapshotting", "checking", "inserting"} =>
          call[r] \in Runs
    /\ pc[r] \in {"checking", "inserting", "refreshing"} => call[r].kind = "promote"
    /\ pc[r] = "refreshing" => call[r].id \in Ids
    /\ pc[r] \in {"getting", "loading", "removing"} => call[r] \in Edits
    /\ pc[r] \in {"loading", "removing"} => call[r].kind = "delete"
    /\ pc[r] \in Carrying =>
          call[r].id \in Ids /\ call[r].kind \in {"promote", "update"}
    /\ pc[r] = "done" <=> reply[r] # "none"

PhaseOK == \A r \in Requests : PhaseOf(r)

(* Keys stand for one server, and servers have one asset.                  *)
KeysOK == OneAssetPerServer

Shows(row, run) == [server_id |-> row.server_id,
                    discovered_at |-> run] \in snapshots

(* A carried asset belongs under its key and has its snapshot; a new one   *)
(* is what the promotion built.                                            *)
CopyOf(r) ==
    /\ pc[r] \in Carrying =>
          /\ entity[r] \in Row
          /\ entity[r].server_id = keyOf[call[r].id]
          /\ Shows(entity[r], entity[r].last_discovered_at)
    /\ pc[r] = "inserting" => entity[r] = NewAsset(call[r].server_id, r)
    /\ pc[r] \in {"checking", "inserting"} => Shows(call[r], r)

CopiesOK == \A r \in Requests : CopyOf(r)

(* A copy nobody outdated is its row with this request's change applied.   *)
FreshOf(r) ==
    pc[r] \in Carrying =>
        LET row == inventory[call[r].id] IN
        /\ row # NoRow
        /\ entity[r] = IF call[r].kind = "promote"
                       THEN Rediscovered(r, row) ELSE Edited(r, row)
        /\ call[r].kind = "promote" => row.server_id = call[r].server_id
        /\ pc[r] = "committing" => loaded[r] = row

FreshOK == \A r \in Requests \ stale : FreshOf(r)

(* A request's values in an asset, or in another request's copy of one,    *)
(* are those of an edit that was confirmed; in its own copy, of an edit.   *)
Marked(row, r) == row.owner = r \/ r \in row.tags

Confirmed(r) == call[r].kind = "update" /\ reply[r] = "ok"

TraceOK ==
    \A r \in Requests :
        /\ \A i \in Ids :
              inventory[i] # NoRow /\ Marked(inventory[i], r) => Confirmed(r)
        /\ \A q \in Requests :
              pc[q] \in Carrying /\ Marked(entity[q], r) =>
                 Confirmed(r) \/ (q = r /\ call[r].kind = "update")

(* Without failures only stale copies make an edit fail.                   *)
ErrorsOK ==
    \A r \in Requests :
        call[r].kind = "update" /\ reply[r] = "error" /\ failures = 0 => r \in stale

IInv ==
    /\ TypeOK /\ PhaseOK /\ KeysOK /\ SnapshotBacked /\ CopiesOK
    /\ FreshOK /\ TraceOK /\ ErrorsOK

-------------------------------------------------------------------------------
(* The asset a discovery builds.                                           *)
LEMMA NewAssetFacts ==
    ASSUME NEW s \in Servers, NEW run \in Requests \union {Earlier}
    PROVE  /\ NewAsset(s, run) \in Row
           /\ NewAsset(s, run).server_id = s
           /\ NewAsset(s, run).last_discovered_at = run
           /\ NewAsset(s, run).owner = Null
           /\ NewAsset(s, run).tags = {}
  BY DEF NewAsset, Row, Value

(* A rediscovery keeps the metadata and counts the version up.             *)
LEMMA RediscoveredFacts ==
    ASSUME NEW r \in Requests, NEW row \in Row, call[r].server_id \in Servers
    PROVE  LET new == Rediscovered(r, row) IN
           /\ new \in Row
           /\ new.server_id = call[r].server_id
           /\ new.last_discovered_at = r
           /\ new.owner = row.owner /\ new.tags = row.tags
           /\ new.version = row.version + 1
<1> DEFINE new == Rediscovered(r, row)
           built == NewAsset(call[r].server_id, r)
<1>1. /\ row.owner \in Value /\ row.tags \in SUBSET Requests
      /\ row.version + 1 \in Nat
  BY DEF Row
<1>2. /\ built \in Row
      /\ built.server_id = call[r].server_id
      /\ built.last_discovered_at = r
  BY NewAssetFacts
<1>3. new = [built EXCEPT !.owner = row.owner, !.tags = row.tags,
                          !.version = row.version + 1]
  BY DEF Rediscovered
<1>. HIDE DEF new, built
<1>4. new = [server_id |-> call[r].server_id, last_discovered_at |-> r,
             owner |-> row.owner, tags |-> row.tags, version |-> row.version + 1]
  BY <1>2, <1>3 DEF Row
<1>5. new \in Row
  BY <1>1, <1>4 DEF Row
<1>. QED
  BY <1>4, <1>5 DEF new

(* An edit keeps the discovery, loses no tag and counts the version up.    *)
LEMMA EditedFacts ==
    ASSUME NEW r \in Requests, NEW row \in Row
    PROVE  LET new == Edited(r, row) IN
           /\ new \in Row
           /\ new.server_id = row.server_id
           /\ new.last_discovered_at = row.last_discovered_at
           /\ new.owner = IF "owner" \in call[r].fields THEN r ELSE row.owner
           /\ new.tags = IF "tags" \in call[r].fields
                         THEN row.tags \union {r} ELSE row.tags
           /\ new.version = row.version + 1
<1> DEFINE new == Edited(r, row)
           owner == IF "owner" \in call[r].fields THEN r ELSE row.owner
           tags == IF "tags" \in call[r].fields THEN row.tags \union {r} ELSE row.tags
<1>1. owner \in Value /\ tags \in SUBSET Requests /\ row.version + 1 \in Nat
  BY DEF Row, Value
<1>2. new = [row EXCEPT !.owner = owner, !.tags = tags, !.version = row.version + 1]
  BY DEF Edited
<1>. HIDE DEF owner, tags
<1>3. new = [server_id |-> row.server_id, last_discovered_at |-> row.last_discovered_at,
             owner |-> owner, tags |-> tags, version |-> row.version + 1]
  BY <1>2 DEF Row
<1>4. new \in Row
  BY <1>1, <1>3 DEF Row
<1>. QED
  BY <1>3, <1>4 DEF owner, tags

(* Each column of a flushed asset is the new one or the current one.       *)
LEMMA WrittenFacts ==
    ASSUME NEW new \in Row, NEW base \in Row, NEW current \in Row
    PROVE  LET row == Written(new, base, current) IN
           /\ row \in Row
           /\ row.server_id \in {new.server_id, current.server_id}
           /\ row.last_discovered_at \in
                 {new.last_discovered_at, current.last_discovered_at}
           /\ row.owner \in {new.owner, current.owner}
           /\ row.tags \in {new.tags, current.tags}
  BY DEF Written, Row

(* Flushing what was merged into an unchanged row writes the new asset.    *)
LEMMA WrittenFresh ==
    ASSUME NEW new \in Row, NEW base \in Row
    PROVE  Written(new, base, base) = new
  BY DEF Written, Row

-------------------------------------------------------------------------------
Calls == {NoCall} \union Edits \union
            [kind : {"discover", "promote"}, server_id : Servers,
             id : Ids \union {NoRow}, fields : {{}}]

LEMMA CallsFacts ==
    /\ \A c \in Runs : c \in Calls /\ c.server_id \in Servers
    /\ \A c \in Edits : c \in Calls /\ c.id \in Ids /\ c.kind \in {"update", "delete"}
    /\ \A c \in Runs, i \in Ids : [c EXCEPT !.id = i] \in Calls
    /\ \A c \in Calls : c.kind = "promote" => c.server_id \in Servers
    /\ \A c \in Calls : c.kind \in {"update", "delete"} => c \in Edits
    /\ NoCall.kind = "none"
  BY DEF Calls, Runs, Edits, NoCall

LEMMA InitTypeOK == Init => TypeOK
<1> SUFFICES ASSUME Init PROVE TypeOK
  OBVIOUS
<1>1. \A i \in Ids : Known[i] # NoRow => NewAsset(Known[i], Earlier) \in Row
  BY NewAssetFacts
<1>2. inventory \in [Ids -> Row \union {NoRow}]
  BY <1>1 DEF Init
<1>3. snapshots \subseteq Snapshot
  BY DEF Init, Snapshot
<1>4. failures \in 0 .. MaxFailures
  BY DEF Init
<1>. QED
  BY <1>2, <1>3, <1>4 DEF Init, TypeOK, Replies

(* A request moves on, or is answered.                                     *)
LEMMA MoveType ==
    ASSUME TypeOK, NEW r \in Requests,
           \/ \E label \in Waiting : Goto(r, label)
           \/ \E response \in Replies : Answer(r, response)
    PROVE  /\ pc' \in [Requests -> Waiting \union {"idle", "done"}]
           /\ reply' \in [Requests -> Replies]
  BY DEF TypeOK, Goto, Answer

LEMMA NextTypeOK == TypeOK /\ PhaseOK /\ CopiesOK /\ [Next]_vars => TypeOK'
<1> SUFFICES ASSUME TypeOK, PhaseOK, CopiesOK, [Next]_vars PROVE TypeOK'
  OBVIOUS
<1> USE DEF requestVars, histories
<1>1. ASSUME NEW r \in Requests, Submit(r) PROVE TypeOK'
  <2>1. PICK c \in Calls : call' = [call EXCEPT ![r] = c]
    BY <1>1, CallsFacts DEF Submit
  <2>2. call' \in [Requests -> Calls]
    BY <2>1 DEF TypeOK, Calls
  <2>3. /\ pc' \in [Requests -> Waiting \union {"idle", "done"}]
        /\ reply' \in [Requests -> Replies]
    BY <1>1, MoveType DEF Submit, Waiting
  <2>. QED
    BY <1>1, <2>2, <2>3 DEF Submit, TypeOK, Calls
<1>2. ASSUME NEW r \in Requests, Discover(r) PROVE TypeOK'
  <2>1. /\ pc' \in [Requests -> Waiting \union {"idle", "done"}]
        /\ reply' \in [Requests -> Replies]
    BY <1>2, MoveType DEF Discover, Waiting, Replies
  <2>. QED
    BY <1>2, <2>1 DEF Discover, TypeOK
<1>3. ASSUME NEW r \in Requests, SaveSnapshot(r) PROVE TypeOK'
  <2>1. /\ pc' \in [Requests -> Waiting \union {"idle", "done"}]
        /\ reply' \in [Requests -> Replies]
    BY <1>3, MoveType DEF SaveSnapshot, Waiting, Replies
  <2>2. call[r].server_id \in Servers
    BY <1>3, CallsFacts DEF SaveSnapshot, PhaseOK, PhaseOf
  <2>3. snapshots' \subseteq Snapshot
    BY <1>3, <2>2 DEF SaveSnapshot, TypeOK, Snapshot
  <2>. QED
    BY <1>3, <2>1, <2>3 DEF SaveSnapshot, TypeOK
<1>4. ASSUME NEW r \in Requests, CheckExisting(r) PROVE TypeOK'
  <2>1. /\ pc' \in [Requests -> Waiting \union {"idle", "done"}]
        /\ reply' \in [Requests -> Replies]
    BY <1>4, MoveType DEF CheckExisting, Waiting
  <2>2. call[r] \in Runs /\ call[r].server_id \in Servers
    BY <1>4, CallsFacts DEF CheckExisting, PhaseOK, PhaseOf
  <2>3. call' \in [Requests -> Calls]
    <3>1. CASE UNCHANGED call
      BY <3>1 DEF TypeOK, Calls
    <3>2. ASSUME NEW i \in Ids, call' = [call EXCEPT ![r].id = i]
          PROVE  call' \in [Requests -> Calls]
      <4>1. [call[r] EXCEPT !.id = i] \in Calls
        BY <2>2, CallsFacts
      <4>. QED
        BY <3>2, <4>1 DEF TypeOK, Calls
    <3>. QED
      BY <1>4, <3>1, <3>2 DEF CheckExisting
  <2>4. PICK row \in Row : entity' = [entity EXCEPT ![r] = row]
    <3>1. NewAsset(call[r].server_id, r) \in Row
      BY <2>2, NewAssetFacts
    <3>2. \A i \in Ids : inventory[i] # NoRow => Rediscovered(r, inventory[i]) \in Row
      BY <2>2, RediscoveredFacts DEF TypeOK
    <3>. QED
      BY <1>4, <3>1, <3>2 DEF CheckExisting
  <2>5. entity' \in [Requests -> Row \union {NoRow}]
    BY <2>4 DEF TypeOK
  <2>. QED
    BY <1>4, <2>1, <2>3, <2>5 DEF CheckExisting, TypeOK, Calls
<1>5. ASSUME NEW r \in Requests, Insert(r) PROVE TypeOK'
  <2>1. /\ pc' \in [Requests -> Waiting \union {"idle", "done"}]
        /\ reply' \in [Requests -> Replies]
    BY <1>5, MoveType DEF Insert, Waiting, Replies
  <2>2. /\ call[r] \in Runs /\ call[r].server_id \in Servers
        /\ entity[r] \in Row
    BY <1>5, CallsFacts, NewAssetFacts DEF Insert, PhaseOK, PhaseOf, CopiesOK, CopyOf
  <2>3. ASSUME NEW i \in Ids,
               inventory' = [inventory EXCEPT ![i] = entity[r]],
               keyOf' = [keyOf EXCEPT ![i] = call[r].server_id],
               call' = [call EXCEPT ![r].id = i]
        PROVE  /\ call' \in [Requests -> Calls]
               /\ inventory' \in [Ids -> Row \union {NoRow}]
               /\ keyOf' \in [Ids -> Servers \union {NoRow}]
    <3>1. [call[r] EXCEPT !.id = i] \in Calls
      BY <2>2, CallsFacts
    <3>2. call' \in [Requests -> Calls]
      BY <2>3, <3>1 DEF TypeOK, Calls
    <3>. QED
      BY <2>2, <2>3, <3>2 DEF TypeOK
  <2>4. /\ call' \in [Requests -> Calls]
        /\ inventory' \in [Ids -> Row \union {NoRow}]
        /\ keyOf' \in [Ids -> Servers \union {NoRow}]
    BY <1>5, <2>3 DEF Insert, TypeOK, Calls
  <2>. QED
    BY <1>5, <2>1, <2>4 DEF Insert, TypeOK, Calls
<1>6. ASSUME NEW r \in Requests, Refresh(r) PROVE TypeOK'
  <2>1. /\ pc' \in [Requests -> Waiting \union {"idle", "done"}]
        /\ reply' \in [Requests -> Replies]
    BY <1>6, MoveType DEF Refresh, Replies
  <2>. QED
    BY <1>6, <2>1 DEF Refresh, TypeOK
<1>7. ASSUME NEW r \in Requests, Get(r) PROVE TypeOK'
  <2>1. /\ pc' \in [Requests -> Waiting \union {"idle", "done"}]
        /\ reply' \in [Requests -> Replies]
    BY <1>7, MoveType DEF Get, Waiting, Replies
  <2>2. call[r].id \in Ids
    BY <1>7, CallsFacts DEF Get, PhaseOK, PhaseOf
  <2>3. inventory[call[r].id] # NoRow => Edited(r, inventory[call[r].id]) \in Row
    <3>1. inventory[call[r].id] # NoRow => inventory[call[r].id] \in Row
      BY <2>2 DEF TypeOK
    <3>. QED
      BY <3>1, EditedFacts
  <2>4. entity' \in [Requests -> Row \union {NoRow}]
    BY <1>7, <2>3 DEF Get, TypeOK
  <2>. QED
    BY <1>7, <2>1, <2>4 DEF Get, TypeOK
<1>8. ASSUME NEW r \in Requests, Merge(r) PROVE TypeOK'
  <2>1. /\ pc' \in [Requests -> Waiting \union {"idle", "done"}]
        /\ reply' \in [Requests -> Replies]
    BY <1>8, MoveType DEF Merge, Waiting
  <2>2. call[r].id \in Ids
    BY <1>8 DEF Merge, PhaseOK, PhaseOf, Carrying
  <2>3. loaded' \in [Requests -> Row \union {NoRow}]
    BY <1>8, <2>2 DEF Merge, TypeOK
  <2>. QED
    BY <1>8, <2>1, <2>3 DEF Merge, TypeOK
<1>9. ASSUME NEW r \in Requests, Commit(r) PROVE TypeOK'
  <2>1. /\ pc' \in [Requests -> Waiting \union {"idle", "done"}]
        /\ reply' \in [Requests -> Replies]
    BY <1>9, MoveType DEF Commit, Replies
  <2>2. call[r].id \in Ids /\ entity[r] \in Row
    BY <1>9 DEF Commit, PhaseOK, PhaseOf, CopiesOK, CopyOf, Carrying
  <2>3. loaded[r] # NoRow /\ inventory[call[r].id] # NoRow =>
          Written(entity[r], loaded[r], inventory[call[r].id]) \in Row
    BY <2>2, WrittenFacts DEF TypeOK
  <2>4. inventory' \in [Ids -> Row \union {NoRow}]
    BY <1>9, <2>2, <2>3 DEF Commit, TypeOK
  <2>5. stale' \subseteq Requests
    BY <1>9 DEF Commit, Outdate, TypeOK
  <2>. QED
    BY <1>9, <2>1, <2>4, <2>5 DEF Commit, TypeOK
<1>10. ASSUME NEW r \in Requests, LoadForDelete(r) PROVE TypeOK'
  <2>1. /\ pc' \in [Requests -> Waiting \union {"idle", "done"}]
        /\ reply' \in [Requests -> Replies]
    BY <1>10, MoveType DEF LoadForDelete, Waiting, Replies
  <2>2. call[r].id \in Ids
    BY <1>10, CallsFacts DEF LoadForDelete, PhaseOK, PhaseOf
  <2>. QED
    BY <1>10, <2>1, <2>2 DEF LoadForDelete, TypeOK
<1>11. ASSUME NEW r \in Requests, Remove(r) PROVE TypeOK'
  <2>1. /\ pc' \in [Requests -> Waiting \union {"idle", "done"}]
        /\ reply' \in [Requests -> Replies]
    BY <1>11, MoveType DEF Remove, Replies
  <2>2. call[r].id \in Ids
    BY <1>11, CallsFacts DEF Remove, PhaseOK, PhaseOf
  <2>3. stale' \subseteq Requests
    BY <1>11 DEF Remove, Outdate, TypeOK
  <2>. QED
    BY <1>11, <2>1, <2>2, <2>3 DEF Remove, TypeOK
<1>12. ASSUME NEW r \in Requests, DatabaseError(r) PROVE TypeOK'
  <2>1. /\ pc' \in [Requests -> Waiting \union {"idle", "done"}]
        /\ reply' \in [Requests -> Replies]
    BY <1>12, MoveType DEF DatabaseError, Replies
  <2>. QED
    BY <1>12, <2>1 DEF DatabaseError, TypeOK
<1>13. CASE Crash
  BY <1>13 DEF Crash, TypeOK, Waiting, Replies
<1>14. CASE UNCHANGED vars
  BY <1>14 DEF vars, TypeOK
<1>. QED
  BY <1>1, <1>2, <1>3, <1>4, <1>5, <1>6, <1>7, <1>8, <1>9, <1>10, <1>11,
     <1>12, <1>13, <1>14 DEF Next, Step

-------------------------------------------------------------------------------
(* A step of one request leaves what the others hold alone.                *)
LEMMA OthersKept ==
    ASSUME TypeOK, NEW r \in Requests, Submit(r) \/ Step(r) \/ DatabaseError(r),
           NEW q \in Requests \ {r}
    PROVE  /\ pc'[q] = pc[q] /\ call'[q] = call[q] /\ reply'[q] = reply[q]
           /\ entity'[q] = entity[q] /\ loaded'[q] = loaded[q]
<1> USE DEF TypeOK, Goto, Answer, requestVars
<1>1. CASE Submit(r)
  BY <1>1 DEF Submit
<1>2. CASE Discover(r) \/ SaveSnapshot(r) \/ Refresh(r)
  BY <1>2 DEF Discover, SaveSnapshot, Refresh
<1>3. CASE CheckExisting(r)
  BY <1>3 DEF CheckExisting
<1>4. CASE Insert(r)
  BY <1>4 DEF Insert
<1>5. CASE Get(r) \/ Merge(r)
  BY <1>5 DEF Get, Merge
<1>6. CASE Commit(r)
  BY <1>6 DEF Commit
<1>7. CASE LoadForDelete(r) \/ Remove(r) \/ DatabaseError(r)
  BY <1>7 DEF LoadForDelete, Remove, DatabaseError
<1>. QED
  BY <1>1, <1>2, <1>3, <1>4, <1>5, <1>6, <1>7 DEF Step

(* The requests end with the process; what they asked for is left.         *)
LEMMA CrashEffect ==
    ASSUME Crash, NEW q \in Requests
    PROVE  /\ pc'[q] = IF pc[q] \in Waiting THEN "done" ELSE pc[q]
           /\ reply'[q] = IF pc[q] \in Waiting THEN "lost" ELSE reply[q]
           /\ UNCHANGED <<inventory, snapshots, call, entity, loaded, keyOf,
                          stale, removed>>
  BY DEF Crash, requestVars, histories

LEMMA NextPhaseOK == TypeOK /\ PhaseOK /\ [Next]_vars => PhaseOK'
<1> SUFFICES ASSUME TypeOK, PhaseOK, [Next]_vars, NEW q \in Requests
             PROVE  PhaseOf(q)'
  BY DEF PhaseOK
<1>1. PhaseOf(q)
  BY DEF PhaseOK
<1>2. ASSUME NEW r \in Requests, Submit(r) \/ Step(r) \/ DatabaseError(r), r # q
      PROVE  PhaseOf(q)'
  BY <1>1, <1>2, OthersKept DEF PhaseOf
<1>3. CASE Submit(q)
  <2>1. PICK c \in Runs \union Edits :
          /\ call' = [call EXCEPT ![q] = c]
          /\ \/ c \in Runs /\ Goto(q, "discovering")
             \/ c \in Edits /\ Goto(q, "getting")
    BY <1>3 DEF Submit
  <2>. QED
    BY <1>1, <1>3, <2>1 DEF Submit, PhaseOf, Goto, TypeOK, Carrying
<1>4. CASE Discover(q)
  BY <1>1, <1>4 DEF Discover, PhaseOf, Goto, Answer, TypeOK, Carrying, requestVars
<1>5. CASE SaveSnapshot(q)
  <2>1. call[q].kind \in {"discover", "promote"} /\ call[q] \in Runs
    BY <1>1, <1>5 DEF SaveSnapshot, PhaseOf, Runs
  <2>. QED
    BY <1>1, <1>5, <2>1
       DEF SaveSnapshot, PhaseOf, Goto, Answer, TypeOK, Carrying, requestVars
<1>6. CASE CheckExisting(q)
  <2>1. call[q] \in Runs /\ call[q].kind = "promote"
    BY <1>1, <1>6 DEF CheckExisting, PhaseOf
  <2>2. ASSUME NEW i \in Ids, call' = [call EXCEPT ![q].id = i], Goto(q, "merging")
        PROVE  PhaseOf(q)'
    <3>1. call'[q].id = i /\ call'[q].kind = "promote"
      BY <2>1, <2>2 DEF TypeOK, Runs
    <3>. QED
      BY <1>1, <1>6, <2>2, <3>1
         DEF CheckExisting, PhaseOf, Goto, TypeOK, Carrying
  <2>3. ASSUME UNCHANGED call, Goto(q, "inserting")
        PROVE  PhaseOf(q)'
    BY <1>1, <1>6, <2>1, <2>3 DEF CheckExisting, PhaseOf, Goto, TypeOK, Carrying
  <2>. QED
    BY <1>6, <2>2, <2>3 DEF CheckExisting
<1>7. CASE Insert(q)
  <2>1. call[q] \in Runs /\ call[q].kind = "promote"
    BY <1>1, <1>7 DEF Insert, PhaseOf
  <2>2. ASSUME NEW i \in Ids, call' = [call EXCEPT ![q].id = i], Goto(q, "refreshing")
        PROVE  PhaseOf(q)'
    <3>1. call'[q].id = i /\ call'[q].kind = "promote"
      BY <2>1, <2>2 DEF TypeOK, Runs
    <3>. QED
      BY <1>1, <1>7, <2>2, <3>1 DEF Insert, PhaseOf, Goto, TypeOK, Carrying
  <2>3. ASSUME UNCHANGED call, Answer(q, "error")
        PROVE  PhaseOf(q)'
    BY <1>1, <1>7, <2>1, <2>3 DEF PhaseOf, Answer, TypeOK, Carrying
  <2>. QED
    BY <1>7, <2>2, <2>3 DEF Insert
<1>8. CASE Refresh(q)
  BY <1>1, <1>8 DEF Refresh, PhaseOf, Answer, TypeOK, Carrying, requestVars
<1>9. CASE Get(q)
  <2>1. call[q] \in Edits /\ call[q].id \in Ids
    BY <1>1, <1>9, CallsFacts DEF Get, PhaseOf
  <2>. QED
    BY <1>1, <1>9, <2>1 DEF Get, PhaseOf, Goto, Answer, TypeOK, Carrying
<1>10. CASE Merge(q)
  BY <1>1, <1>10 DEF Merge, PhaseOf, Goto, TypeOK, Carrying
<1>11. CASE Commit(q)
  BY <1>1, <1>11 DEF Commit, PhaseOf, Answer, TypeOK, Carrying, requestVars
<1>12. CASE LoadForDelete(q)
  BY <1>1, <1>12 DEF LoadForDelete, PhaseOf, Goto, Answer, TypeOK, Carrying, requestVars
<1>13. CASE Remove(q)
  BY <1>1, <1>13 DEF Remove, PhaseOf, Answer, TypeOK, Carrying, requestVars
<1>14. CASE DatabaseError(q)
  BY <1>1, <1>14 DEF DatabaseError, PhaseOf, Answer, TypeOK, Carrying, requestVars
<1>15. CASE Crash
  BY <1>1, <1>15, CrashEffect DEF PhaseOf, Carrying, Waiting
<1>16. CASE UNCHANGED vars
  BY <1>1, <1>16 DEF vars, requestVars, PhaseOf
<1>. QED
  BY <1>2, <1>3, <1>4, <1>5, <1>6, <1>7, <1>8, <1>9, <1>10, <1>11,
     <1>12, <1>13, <1>14, <1>15, <1>16 DEF Next, Step

-------------------------------------------------------------------------------
(* What a step does to the inventory table: a promotion inserts an asset   *)
(* under a new key, a request saves its copy, or a row is deleted.         *)
Inserts(r, i) ==
    /\ pc[r] = "inserting" /\ ~ServerTaken(call[r].server_id)
    /\ keyOf[i] = NoRow
    /\ inventory' = [inventory EXCEPT ![i] = entity[r]]
    /\ keyOf' = [keyOf EXCEPT ![i] = call[r].server_id]
    /\ UNCHANGED <<snapshots, stale>>

Saves(r, row) ==
    LET i == call[r].id IN
    /\ pc[r] = "committing"
    /\ \/ /\ inventory[i] = NoRow /\ ~ServerTaken(entity[r].server_id)
          /\ loaded[r] = NoRow /\ row = entity[r]
       \/ /\ inventory[i] # NoRow /\ loaded[r] # NoRow
          /\ row = Written(entity[r], loaded[r], inventory[i])
    /\ inventory' = [inventory EXCEPT ![i] = row]
    /\ Outdate(i, r) /\ Answer(r, "ok")
    /\ UNCHANGED <<keyOf, snapshots>>

Removes(r, i) ==
    /\ pc[r] = "removing" /\ i = call[r].id
    /\ inventory' = [inventory EXCEPT ![i] = NoRow]
    /\ Outdate(i, r)
    /\ UNCHANGED <<keyOf, snapshots>>

LEMMA TableEffect ==
    ASSUME [Next]_vars
    PROVE  \/ UNCHANGED <<inventory, keyOf, stale>> /\ snapshots \subseteq snapshots'
           \/ \E r \in Requests, i \in Ids : Inserts(r, i)
           \/ \E r \in Requests : \E row : Saves(r, row)
           \/ \E r \in Requests : Removes(r, call[r].id)
<1> DEFINE Same == UNCHANGED <<inventory, keyOf, stale>> /\ snapshots \subseteq snapshots'
<1> USE DEF requestVars, histories
<1>1. ASSUME NEW r \in Requests, Insert(r)
      PROVE  Same \/ \E i \in Ids : Inserts(r, i)
  BY <1>1 DEF Insert, Inserts
<1>2. ASSUME NEW r \in Requests, Commit(r)
      PROVE  Same \/ \E row : Saves(r, row)
  BY <1>2 DEF Commit, Saves
<1>3. ASSUME NEW r \in Requests, Remove(r) PROVE Removes(r, call[r].id)
  BY <1>3 DEF Remove, Removes
<1>4. ASSUME NEW r \in Requests,
             \/ Submit(r) \/ Discover(r) \/ SaveSnapshot(r) \/ CheckExisting(r)
             \/ Refresh(r) \/ Get(r) \/ Merge(r) \/ LoadForDelete(r)
             \/ DatabaseError(r)
      PROVE  Same
  BY <1>4 DEF Submit, Discover, SaveSnapshot, CheckExisting, Refresh, Get, Merge,
              LoadForDelete, DatabaseError
<1>5. CASE Crash \/ UNCHANGED vars
  BY <1>5 DEF Crash, vars
<1>. QED
  BY <1>1, <1>2, <1>3, <1>4, <1>5 DEF Next, Step

(* A saved asset belongs under its key, its discovery has its snapshot,    *)
(* and its metadata is the copy's or the row's.                            *)
LEMMA SavedRow ==
    ASSUME TypeOK, PhaseOK, KeysOK, SnapshotBacked, CopiesOK,
           NEW r \in Requests, NEW row, Saves(r, row)
    PROVE  LET i == call[r].id IN
           /\ i \in Ids
           /\ row \in Row /\ row.server_id = keyOf[i]
           /\ Shows(row, row.last_discovered_at)
           /\ entity[r] \in Row /\ entity[r].server_id = keyOf[i]
           /\ row.owner # entity[r].owner =>
                 inventory[i] # NoRow /\ row.owner = inventory[i].owner
           /\ row.tags # entity[r].tags =>
                 inventory[i] # NoRow /\ row.tags = inventory[i].tags
<1> DEFINE i == call[r].id
<1>1. /\ i \in Ids
      /\ entity[r] \in Row /\ entity[r].server_id = keyOf[i]
      /\ Shows(entity[r], entity[r].last_discovered_at)
  BY DEF Saves, PhaseOK, PhaseOf, CopiesOK, CopyOf, Carrying
<1>2. CASE row = entity[r]
  BY <1>1, <1>2
<1>3. CASE /\ inventory[i] # NoRow /\ loaded[r] # NoRow
           /\ row = Written(entity[r], loaded[r], inventory[i])
  <2>1. inventory[i] \in Row /\ loaded[r] \in Row
    BY <1>1, <1>3 DEF TypeOK
  <2>2. /\ inventory[i].server_id = keyOf[i]
        /\ Shows(inventory[i], inventory[i].last_discovered_at)
    BY <1>1, <1>3 DEF KeysOK, OneAssetPerServer, SnapshotBacked, Shows
  <2>3. /\ row \in Row
        /\ row.server_id \in {entity[r].server_id, inventory[i].server_id}
        /\ row.last_discovered_at \in
              {entity[r].last_discovered_at, inventory[i].last_discovered_at}
        /\ row.owner \in {entity[r].owner, inventory[i].owner}
        /\ row.tags \in {entity[r].tags, inventory[i].tags}
    BY <1>1, <1>3, <2>1, WrittenFacts
  <2>4. Shows(row, row.last_discovered_at)
    BY <1>1, <2>2, <2>3 DEF Shows
  <2>. QED
    BY <1>1, <1>3, <2>2, <2>3, <2>4
<1>. QED
  BY <1>2, <1>3 DEF Saves

(* A key in use was allocated, and is never allocated again.               *)
LEMMA KeysLast ==
    ASSUME TypeOK, KeysOK, [Next]_vars, NEW i \in Ids
    PROVE  /\ inventory[i] # NoRow => keyOf[i] \in Servers /\ keyOf[i] # NoRow
           /\ keyOf[i] # NoRow => keyOf'[i] = keyOf[i]
<1>1. inventory[i] # NoRow => keyOf[i] \in Servers /\ keyOf[i] # NoRow
  BY DEF TypeOK, KeysOK, OneAssetPerServer, Row
<1>2. \/ UNCHANGED keyOf
      \/ \E r \in Requests, j \in Ids : Inserts(r, j)
  BY TableEffect DEF Saves, Removes
<1>3. ASSUME NEW r \in Requests, NEW j \in Ids, Inserts(r, j)
      PROVE  keyOf[i] # NoRow => keyOf'[i] = keyOf[i]
  BY <1>3 DEF Inserts, TypeOK
<1>. QED
  BY <1>1, <1>2, <1>3

LEMMA SnapshotsGrow == [Next]_vars => snapshots \subseteq snapshots'
  BY TableEffect DEF Inserts, Saves, Removes

LEMMA NextKeysOK ==
    ASSUME TypeOK, PhaseOK, KeysOK, SnapshotBacked, CopiesOK, [Next]_vars
    PROVE  KeysOK'
<1>1. CASE UNCHANGED <<inventory, keyOf, stale>> /\ snapshots \subseteq snapshots'
  BY <1>1 DEF KeysOK, OneAssetPerServer
<1>2. ASSUME NEW r \in Requests, NEW i \in Ids, Inserts(r, i)
      PROVE  KeysOK'
  <2>1. /\ entity[r].server_id = call[r].server_id
        /\ \A j \in Ids : inventory[j] # NoRow =>
              inventory[j].server_id # call[r].server_id
    BY <1>2, CallsFacts, NewAssetFacts
       DEF Inserts, ServerTaken, PhaseOK, PhaseOf, CopiesOK, CopyOf
  <2>. QED
    BY <1>2, <2>1 DEF Inserts, TypeOK, KeysOK, OneAssetPerServer
<1>3. ASSUME NEW r \in Requests, NEW row, Saves(r, row)
      PROVE  KeysOK'
  <2> DEFINE i == call[r].id
  <2>1. /\ i \in Ids /\ row.server_id = keyOf[i]
        /\ entity[r].server_id = keyOf[i]
    BY <1>3, SavedRow
  <2>2. \A j \in Ids \ {i} : inventory[j] # NoRow =>
            inventory[j].server_id # keyOf[i]
    BY <1>3, <2>1 DEF Saves, ServerTaken, KeysOK, OneAssetPerServer
  <2>3. inventory' = [inventory EXCEPT ![i] = row] /\ UNCHANGED keyOf
    BY <1>3 DEF Saves
  <2>. HIDE DEF i
  <2>. QED
    BY <2>1, <2>2, <2>3 DEF TypeOK, KeysOK, OneAssetPerServer
<1>4. ASSUME NEW r \in Requests, Removes(r, call[r].id)
      PROVE  KeysOK'
  BY <1>4 DEF Removes, TypeOK, KeysOK, OneAssetPerServer
<1>. QED
  BY <1>1, <1>2, <1>3, <1>4, TableEffect

LEMMA NextSnapshotBacked ==
    ASSUME TypeOK, PhaseOK, KeysOK, SnapshotBacked, CopiesOK, [Next]_vars
    PROVE  SnapshotBacked'
<1> SUFFICES ASSUME NEW j \in Ids, inventory'[j] # NoRow
             PROVE  Shows(inventory[j], inventory[j].last_discovered_at)'
  BY DEF SnapshotBacked, Shows
<1>1. snapshots \subseteq snapshots'
  BY SnapshotsGrow
<1>2. ASSUME inventory'[j] = inventory[j]
      PROVE  Shows(inventory[j], inventory[j].last_discovered_at)'
  BY <1>1, <1>2 DEF SnapshotBacked, Shows
<1>3. CASE UNCHANGED <<inventory, keyOf, stale>> /\ snapshots \subseteq snapshots'
  BY <1>2, <1>3
<1>4. ASSUME NEW r \in Requests, NEW i \in Ids, Inserts(r, i)
      PROVE  Shows(inventory[j], inventory[j].last_discovered_at)'
  <2>1. /\ entity[r].server_id = call[r].server_id
        /\ entity[r].last_discovered_at = r
        /\ Shows(call[r], r)
    BY <1>4, CallsFacts, NewAssetFacts
       DEF Inserts, PhaseOK, PhaseOf, CopiesOK, CopyOf
  <2>2. inventory'[j] = inventory[j] \/ inventory'[j] = entity[r]
    BY <1>4 DEF Inserts, TypeOK
  <2>. QED
    BY <1>1, <1>2, <2>1, <2>2 DEF Shows
<1>5. ASSUME NEW r \in Requests, NEW row, Saves(r, row)
      PROVE  Shows(inventory[j], inventory[j].last_discovered_at)'
  <2>1. Shows(row, row.last_discovered_at)
    BY <1>5, SavedRow
  <2>2. inventory'[j] = inventory[j] \/ inventory'[j] = row
    BY <1>5 DEF Saves, TypeOK
  <2>. QED
    BY <1>1, <1>2, <2>1, <2>2 DEF Shows
<1>6. ASSUME NEW r \in Requests, Removes(r, call[r].id)
      PROVE  Shows(inventory[j], inventory[j].last_discovered_at)'
  BY <1>2, <1>6 DEF Removes, TypeOK
<1>. QED
  BY <1>3, <1>4, <1>5, <1>6, TableEffect

LEMMA NextCopiesOK ==
    ASSUME TypeOK, PhaseOK, KeysOK, SnapshotBacked, CopiesOK, [Next]_vars
    PROVE  CopiesOK'
<1> SUFFICES ASSUME NEW q \in Requests PROVE CopyOf(q)'
  BY DEF CopiesOK
<1>1. CopyOf(q) /\ PhaseOf(q) /\ snapshots \subseteq snapshots'
  BY SnapshotsGrow DEF CopiesOK, PhaseOK
<1>2. pc[q] \in Carrying =>
        /\ call[q].id \in Ids
        /\ keyOf[call[q].id] # NoRow
        /\ keyOf'[call[q].id] = keyOf[call[q].id]
  <2>1. pc[q] \in Carrying => call[q].id \in Ids /\ keyOf[call[q].id] \in Servers
    BY <1>1 DEF PhaseOf, CopyOf, Row
  <2>. QED
    BY <2>1, KeysLast
<1>3. ASSUME pc'[q] = pc[q], call'[q] = call[q], entity'[q] = entity[q]
      PROVE  CopyOf(q)'
  <2>1. \A row, run : Shows(row, run) => [server_id |-> row.server_id,
                                          discovered_at |-> run] \in snapshots'
    BY <1>1 DEF Shows
  <2>2. pc'[q] \in Carrying => keyOf'[call'[q].id] = keyOf[call[q].id]
    BY <1>2, <1>3
  <2>. QED
    BY <1>1, <1>3, <2>1, <2>2 DEF CopyOf, Shows
<1>4. ASSUME pc'[q] \notin Carrying \union {"checking", "inserting"}
      PROVE  CopyOf(q)'
  BY <1>4 DEF CopyOf
<1>5. ASSUME NEW r \in Requests, Submit(r) \/ Step(r) \/ DatabaseError(r), r # q
      PROVE  CopyOf(q)'
  BY <1>3, <1>5, OthersKept
<1>6. CASE Submit(q)
  BY <1>4, <1>6 DEF Submit, Goto, TypeOK, Carrying
<1>7. CASE Discover(q) \/ Insert(q) \/ Refresh(q) \/ Commit(q) \/ LoadForDelete(q)
           \/ Remove(q) \/ DatabaseError(q)
  <2>1. pc'[q] \in {"snapshotting", "refreshing", "removing", "done"}
    BY <1>7 DEF Discover, Insert, Refresh, Commit, LoadForDelete, Remove,
                DatabaseError, Goto, Answer, TypeOK
  <2>. QED
    BY <1>4, <2>1 DEF Carrying
<1>8. CASE SaveSnapshot(q)
  <2>1. /\ [server_id |-> call[q].server_id, discovered_at |-> q] \in snapshots'
        /\ call'[q] = call[q]
        /\ pc'[q] \in {"done", "checking"}
    BY <1>8 DEF SaveSnapshot, Goto, Answer, requestVars, TypeOK
  <2>. QED
    BY <2>1 DEF CopyOf, Shows, Carrying
<1>9. CASE CheckExisting(q)
  <2>1. call[q] \in Runs /\ call[q].server_id \in Servers /\ Shows(call[q], q)
    BY <1>1, <1>9, CallsFacts DEF CheckExisting, PhaseOf, CopyOf
  <2>2. UNCHANGED <<keyOf, snapshots>>
    BY <1>9 DEF CheckExisting, histories
  <2>3. ASSUME NEW i \in Ids, inventory[i] # NoRow,
               inventory[i].server_id = call[q].server_id,
               entity' = [entity EXCEPT ![q] = Rediscovered(q, inventory[i])],
               call' = [call EXCEPT ![q].id = i],
               Goto(q, "merging")
        PROVE  CopyOf(q)'
    <3>1. /\ entity'[q] \in Row
          /\ entity'[q].server_id = call[q].server_id
          /\ entity'[q].last_discovered_at = q
      <4>1. inventory[i] \in Row /\ entity'[q] = Rediscovered(q, inventory[i])
        BY <2>3 DEF TypeOK
      <4>. QED
        BY <2>1, <4>1, RediscoveredFacts
    <3>2. keyOf[i] = call[q].server_id
      BY <2>3 DEF KeysOK, OneAssetPerServer
    <3>3. call'[q].id = i /\ pc'[q] = "merging"
      BY <2>1, <2>3 DEF TypeOK, Goto, Runs
    <3>. QED
      BY <2>1, <2>2, <3>1, <3>2, <3>3 DEF CopyOf, Shows
  <2>4. ASSUME entity' = [entity EXCEPT ![q] = NewAsset(call[q].server_id, q)],
               UNCHANGED call, Goto(q, "inserting")
        PROVE  CopyOf(q)'
    BY <2>1, <2>2, <2>4 DEF CopyOf, Shows, TypeOK, Goto, Carrying
  <2>. QED
    BY <1>9, <2>3, <2>4 DEF CheckExisting
<1>10. CASE Get(q)
  <2> DEFINE row == inventory[call[q].id]
  <2>1. call[q].id \in Ids
    BY <1>1, <1>10, CallsFacts DEF Get, PhaseOf
  <2>2. CASE pc'[q] \in {"done", "loading"}
    BY <1>4, <2>2 DEF Carrying
  <2>3. ASSUME row # NoRow, entity' = [entity EXCEPT ![q] = Edited(q, row)],
               Goto(q, "merging")
        PROVE  CopyOf(q)'
    <3>1. /\ row \in Row /\ row.server_id = keyOf[call[q].id]
          /\ Shows(row, row.last_discovered_at)
      BY <2>1, <2>3 DEF TypeOK, KeysOK, OneAssetPerServer, SnapshotBacked, Shows
    <3>2. /\ entity'[q] \in Row
          /\ entity'[q].server_id = row.server_id
          /\ entity'[q].last_discovered_at = row.last_discovered_at
      <4>1. entity'[q] = Edited(q, row)
        BY <2>3 DEF TypeOK
      <4>2. row \in Row
        BY <3>1
      <4>. HIDE DEF row
      <4>3. /\ Edited(q, row) \in Row
            /\ Edited(q, row).server_id = row.server_id
            /\ Edited(q, row).last_discovered_at = row.last_discovered_at
        BY <4>2, EditedFacts
      <4>. QED
        BY <4>1, <4>3
    <3>3. pc'[q] = "merging" /\ UNCHANGED <<keyOf, snapshots, call>>
      BY <1>10, <2>3 DEF Get, histories, Goto, TypeOK
    <3>. QED
      BY <3>1, <3>2, <3>3 DEF CopyOf, Shows
  <2>. QED
    BY <1>10, <2>2, <2>3 DEF Get, Goto, Answer, TypeOK
<1>11. CASE Merge(q)
  <2>1. /\ pc[q] \in Carrying /\ pc'[q] = "committing"
        /\ UNCHANGED <<call, entity, keyOf, snapshots>>
    BY <1>11 DEF Merge, Goto, TypeOK, Carrying, histories
  <2>. QED
    BY <1>1, <2>1 DEF CopyOf, Shows
<1>12. CASE Crash
  <2>1. pc'[q] = "done" \/ (pc'[q] = pc[q] /\ UNCHANGED <<call, entity>>)
    BY <1>12, CrashEffect
  <2>. QED
    BY <1>3, <1>4, <2>1 DEF Carrying
<1>13. CASE UNCHANGED vars
  BY <1>3, <1>13 DEF vars, requestVars
<1>. QED
  BY <1>5, <1>6, <1>7, <1>8, <1>9, <1>10, <1>11, <1>12, <1>13 DEF Next, Step

-------------------------------------------------------------------------------
(* The row of a copy that stays fresh is not written.                      *)
LEMMA FreshRowKept ==
    ASSUME TypeOK, PhaseOK, KeysOK, FreshOK, [Next]_vars,
           NEW q \in Requests \ stale', pc[q] \in Carrying, pc'[q] # "done"
    PROVE  /\ q \notin stale
           /\ inventory[call[q].id] # NoRow
           /\ inventory'[call[q].id] = inventory[call[q].id]
<1> DEFINE k == call[q].id
<1>1. stale \subseteq stale'
  BY TableEffect DEF Inserts, Saves, Removes, Outdate
<1>2. q \notin stale /\ k \in Ids /\ inventory[k] # NoRow
  BY <1>1 DEF FreshOK, FreshOf, PhaseOK, PhaseOf
<1>3. keyOf[k] # NoRow
  BY <1>2, KeysLast
<1>. HIDE DEF k
<1>4. CASE UNCHANGED <<inventory, keyOf, stale>> /\ snapshots \subseteq snapshots'
  BY <1>2, <1>4 DEF k
<1>5. ASSUME NEW r \in Requests, NEW i \in Ids, Inserts(r, i)
      PROVE  inventory'[k] = inventory[k]
  BY <1>2, <1>3, <1>5 DEF Inserts, TypeOK
<1>6. ASSUME NEW r \in Requests, NEW row, Saves(r, row)
      PROVE  inventory'[k] = inventory[k]
  <2>1. r # q
    BY <1>6 DEF Saves, Answer, TypeOK
  <2>2. call[r].id # k
    BY <1>6, <2>1 DEF Saves, Outdate, Carrying, k
  <2>. QED
    BY <1>2, <1>6, <2>2 DEF Saves, TypeOK
<1>7. ASSUME NEW r \in Requests, Removes(r, call[r].id)
      PROVE  inventory'[k] = inventory[k]
  <2>1. r # q
    BY <1>7 DEF Removes, Carrying
  <2>2. call[r].id # k
    BY <1>7, <2>1 DEF Removes, Outdate, Carrying, k
  <2>. QED
    BY <1>2, <1>7, <2>2 DEF Removes, TypeOK
<1>. QED
  BY <1>2, <1>4, <1>5, <1>6, <1>7, TableEffect DEF k

LEMMA NextFreshOK ==
    ASSUME TypeOK, PhaseOK, KeysOK, FreshOK, [Next]_vars
    PROVE  FreshOK'
<1> SUFFICES ASSUME NEW q \in Requests \ stale' PROVE FreshOf(q)'
  BY DEF FreshOK
<1>1. PhaseOf(q) /\ q \in Requests
  BY DEF PhaseOK
<1>2. ASSUME pc'[q] \notin Carrying PROVE FreshOf(q)'
  BY <1>2 DEF FreshOf
<1>3. ASSUME pc'[q] = pc[q], call'[q] = call[q], entity'[q] = entity[q],
             loaded'[q] = loaded[q]
      PROVE  FreshOf(q)'
  <2> SUFFICES ASSUME pc[q] \in Carrying PROVE FreshOf(q)'
    BY <1>3 DEF FreshOf
  <2>1. /\ q \notin stale
        /\ inventory'[call[q].id] = inventory[call[q].id]
    BY <1>3, FreshRowKept DEF Carrying
  <2>2. FreshOf(q)
    BY <2>1 DEF FreshOK
  <2>3. \A row : /\ Rediscovered(q, row)' = Rediscovered(q, row)
                 /\ Edited(q, row)' = Edited(q, row)
    BY <1>3 DEF Rediscovered, Edited
  <2>. QED
    BY <1>3, <2>1, <2>2, <2>3 DEF FreshOf
<1>4. ASSUME NEW r \in Requests, Submit(r) \/ Step(r) \/ DatabaseError(r), r # q
      PROVE  FreshOf(q)'
  BY <1>3, <1>4, OthersKept
<1>5. CASE \/ Submit(q) \/ Discover(q) \/ SaveSnapshot(q) \/ Insert(q) \/ Refresh(q)
           \/ Commit(q) \/ LoadForDelete(q) \/ Remove(q) \/ DatabaseError(q)
  <2>1. pc'[q] \in {"discovering", "getting", "snapshotting", "checking",
                    "refreshing", "removing", "done"}
    BY <1>5 DEF Submit, Discover, SaveSnapshot, Insert, Refresh, Commit,
                LoadForDelete, Remove, DatabaseError, Goto, Answer, TypeOK
  <2>. QED
    BY <1>2, <2>1 DEF Carrying
<1>6. CASE CheckExisting(q)
  <2>1. call[q] \in Runs /\ call[q].kind = "promote" /\ UNCHANGED inventory
    BY <1>1, <1>6 DEF CheckExisting, PhaseOf
  <2>2. CASE pc'[q] = "inserting"
    BY <1>2, <2>2 DEF Carrying
  <2>3. ASSUME NEW i \in Ids, inventory[i] # NoRow,
               inventory[i].server_id = call[q].server_id,
               entity' = [entity EXCEPT ![q] = Rediscovered(q, inventory[i])],
               call' = [call EXCEPT ![q].id = i],
               Goto(q, "merging")
        PROVE  FreshOf(q)'
    <3>1. /\ call'[q].id = i /\ call'[q].kind = "promote"
          /\ call'[q].server_id = call[q].server_id
          /\ pc'[q] = "merging"
      BY <2>1, <2>3 DEF Runs, Goto, TypeOK
    <3>2. Rediscovered(q, inventory[i])' = Rediscovered(q, inventory[i])
      BY <2>1, <3>1 DEF Rediscovered
    <3>3. entity'[q] = Rediscovered(q, inventory[i])'
      BY <2>3, <3>2 DEF TypeOK
    <3>. QED
      BY <2>1, <2>3, <3>1, <3>3 DEF FreshOf
  <2>. QED
    BY <1>6, <2>2, <2>3 DEF CheckExisting, Goto, TypeOK
<1>7. CASE Get(q)
  <2> DEFINE row == inventory[call[q].id]
  <2>1. CASE pc'[q] \in {"done", "loading"}
    BY <1>2, <2>1 DEF Carrying
  <2>2. ASSUME row # NoRow, call[q].kind = "update",
               entity' = [entity EXCEPT ![q] = Edited(q, row)],
               Goto(q, "merging")
        PROVE  FreshOf(q)'
    <3>1. /\ pc'[q] = "merging" /\ UNCHANGED <<call, inventory>>
      BY <1>7, <2>2 DEF Get, Goto, TypeOK
    <3>2. entity'[q] = Edited(q, row)
      BY <2>2 DEF TypeOK
    <3>3. Edited(q, row)' = Edited(q, row)
      BY <3>1 DEF Edited
    <3>. QED
      BY <2>2, <3>1, <3>2, <3>3 DEF FreshOf
  <2>. QED
    BY <1>7, <2>1, <2>2 DEF Get, Goto, Answer, TypeOK
<1>8. CASE Merge(q)
  <2>1. /\ pc[q] = "merging" /\ pc'[q] = "committing"
        /\ loaded'[q] = inventory[call[q].id]
        /\ UNCHANGED <<call, entity, inventory, stale>>
    BY <1>8 DEF Merge, Goto, TypeOK, histories
  <2>2. FreshOf(q)
    BY <2>1 DEF FreshOK
  <2>3. \A row : /\ Rediscovered(q, row)' = Rediscovered(q, row)
                 /\ Edited(q, row)' = Edited(q, row)
    BY <2>1 DEF Rediscovered, Edited
  <2>. QED
    BY <2>1, <2>2, <2>3 DEF FreshOf, Carrying
<1>9. CASE Crash
  <2>1. \/ pc'[q] = "done"
        \/ pc'[q] = pc[q] /\ UNCHANGED <<call, entity, loaded>>
    BY <1>9, CrashEffect
  <2>. QED
    BY <1>2, <1>3, <2>1 DEF Carrying
<1>10. CASE UNCHANGED vars
  BY <1>3, <1>10 DEF vars, requestVars
<1>. QED
  BY <1>4, <1>5, <1>6, <1>7, <1>8, <1>9, <1>10 DEF Next, Step

-------------------------------------------------------------------------------
(* An answered request is over.                                            *)
LEMMA DoneKept ==
    ASSUME TypeOK, PhaseOK, [Next]_vars, NEW r \in Requests, reply[r] # "none"
    PROVE  pc'[r] = pc[r] /\ reply'[r] = reply[r] /\ call'[r] = call[r]
<1>1. pc[r] = "done"
  BY DEF PhaseOK, PhaseOf
<1>2. ~(Submit(r) \/ Step(r) \/ DatabaseError(r))
  BY <1>1 DEF Submit, Step, DatabaseError, Discover, SaveSnapshot, CheckExisting,
              Insert, Refresh, Get, Merge, Commit, LoadForDelete, Remove, Waiting
<1>3. CASE \E q \in Requests : Submit(q) \/ Step(q) \/ DatabaseError(q)
  BY <1>2, <1>3, OthersKept
<1>4. CASE Crash
  BY <1>1, <1>4, CrashEffect DEF Waiting
<1>5. CASE UNCHANGED vars
  BY <1>5 DEF vars, requestVars
<1>. QED
  BY <1>3, <1>4, <1>5 DEF Next

LEMMA ConfirmedKept ==
    ASSUME TypeOK, PhaseOK, [Next]_vars, NEW r \in Requests, Confirmed(r)
    PROVE  Confirmed(r)'
  BY DoneKept DEF Confirmed

(* A change of its own is all that marks the copy a request carries.       *)
LEMMA NewCopyMarks ==
    ASSUME TypeOK, PhaseOK, TraceOK, [Next]_vars,
           NEW q \in Requests, NEW r \in Requests,
           pc'[q] \in Carrying, Marked(entity'[q], r)
    PROVE  Confirmed(r) \/ (q = r /\ call'[r].kind = "update")
<1>1. PhaseOf(q)
  BY DEF PhaseOK
<1>2. \A i \in Ids : inventory[i] # NoRow /\ Marked(inventory[i], r) => Confirmed(r)
  BY DEF TraceOK
<1>3. ASSUME pc[q] \in Carrying, call'[q] = call[q], entity'[q] = entity[q]
      PROVE  Confirmed(r) \/ (q = r /\ call'[r].kind = "update")
  BY <1>3 DEF TraceOK
<1>4. ASSUME NEW p \in Requests, Submit(p) \/ Step(p) \/ DatabaseError(p), p # q
      PROVE  Confirmed(r) \/ (q = r /\ call'[r].kind = "update")
  BY <1>3, <1>4, OthersKept
<1>5. ASSUME \/ Submit(q) \/ Discover(q) \/ SaveSnapshot(q) \/ Insert(q) \/ Refresh(q)
             \/ Commit(q) \/ LoadForDelete(q) \/ Remove(q) \/ DatabaseError(q)
      PROVE  FALSE
  <2>1. pc'[q] \in {"discovering", "getting", "snapshotting", "checking",
                    "refreshing", "removing", "done"}
    BY <1>5 DEF Submit, Discover, SaveSnapshot, Insert, Refresh, Commit,
                LoadForDelete, Remove, DatabaseError, Goto, Answer, TypeOK
  <2>. QED
    BY <2>1 DEF Carrying
<1>6. CASE CheckExisting(q)
  <2>1. PICK i \in Ids : /\ inventory[i] # NoRow
                         /\ entity' = [entity EXCEPT ![q] = Rediscovered(q, inventory[i])]
    BY <1>6 DEF CheckExisting, Goto, TypeOK, Carrying
  <2>2. call[q].server_id \in Servers
    BY <1>1, <1>6, CallsFacts DEF CheckExisting, PhaseOf
  <2>3. /\ inventory[i] \in Row
        /\ entity'[q] = Rediscovered(q, inventory[i])
    BY <2>1 DEF TypeOK
  <2>4. /\ Rediscovered(q, inventory[i]).owner = inventory[i].owner
        /\ Rediscovered(q, inventory[i]).tags = inventory[i].tags
    BY <2>2, <2>3, RediscoveredFacts
  <2>5. Marked(inventory[i], r)
    BY <2>3, <2>4 DEF Marked
  <2>. QED
    BY <1>2, <2>1, <2>5
<1>7. CASE Get(q)
  <2> DEFINE row == inventory[call[q].id]
  <2>1. /\ row # NoRow /\ call[q].kind = "update" /\ UNCHANGED call
        /\ entity' = [entity EXCEPT ![q] = Edited(q, row)]
    BY <1>7 DEF Get, Goto, Answer, TypeOK, Carrying
  <2>2. call[q].id \in Ids /\ row \in Row
    BY <1>1, <1>7, <2>1, CallsFacts DEF Get, PhaseOf, TypeOK
  <2>3. entity'[q] = Edited(q, row)
    BY <2>1 DEF TypeOK
  <2>. HIDE DEF row
  <2>4. /\ Edited(q, row).owner = IF "owner" \in call[q].fields THEN q ELSE row.owner
        /\ Edited(q, row).tags = IF "tags" \in call[q].fields
                                 THEN row.tags \union {q} ELSE row.tags
    BY <2>2, EditedFacts
  <2>5. q = r \/ Marked(row, r)
    BY <2>3, <2>4 DEF Marked
  <2>. QED
    BY <1>2, <2>1, <2>2, <2>5 DEF row
<1>8. CASE Merge(q)
  BY <1>3, <1>8 DEF Merge, Carrying
<1>9. CASE Crash
  BY <1>3, <1>9, CrashEffect DEF Carrying, Waiting
<1>10. CASE UNCHANGED vars
  BY <1>3, <1>10 DEF vars, requestVars
<1>. QED
  BY <1>4, <1>5, <1>6, <1>7, <1>8, <1>9, <1>10 DEF Next, Step

LEMMA NextTraceOK ==
    ASSUME TypeOK, PhaseOK, KeysOK, SnapshotBacked, CopiesOK, TraceOK, [Next]_vars
    PROVE  TraceOK'
<1>1. ASSUME NEW r \in Requests, NEW q \in Requests,
             pc'[q] \in Carrying, Marked(entity'[q], r)
      PROVE  Confirmed(r)' \/ (q = r /\ call'[r].kind = "update")
  BY <1>1, NewCopyMarks, ConfirmedKept
<1>2. ASSUME NEW r \in Requests, NEW j \in Ids,
             inventory'[j] # NoRow, Marked(inventory'[j], r)
      PROVE  Confirmed(r)'
  <2>1. ASSUME NEW k \in Ids, inventory[k] # NoRow, Marked(inventory[k], r)
        PROVE  Confirmed(r)'
    BY <2>1, ConfirmedKept DEF TraceOK
  <2>2. ASSUME inventory'[j] = inventory[j] PROVE Confirmed(r)'
    BY <1>2, <2>1, <2>2
  <2>3. CASE UNCHANGED <<inventory, keyOf, stale>> /\ snapshots \subseteq snapshots'
    BY <2>2, <2>3
  <2>4. ASSUME NEW q \in Requests, NEW i \in Ids, Inserts(q, i)
        PROVE  Confirmed(r)'
    <3>1. entity[q].owner = Null /\ entity[q].tags = {}
      BY <2>4, CallsFacts, NewAssetFacts
         DEF Inserts, PhaseOK, PhaseOf, CopiesOK, CopyOf
    <3>2. ~Marked(entity[q], r)
      BY <3>1 DEF Marked
    <3>3. inventory'[j] = inventory[j] \/ inventory'[j] = entity[q]
      BY <2>4 DEF Inserts, TypeOK
    <3>. QED
      BY <1>2, <2>2, <3>2, <3>3
  <2>5. ASSUME NEW q \in Requests, NEW row, Saves(q, row)
        PROVE  Confirmed(r)'
    <3>1. CASE inventory'[j] = inventory[j]
      BY <2>2, <3>1
    <3>2. CASE inventory'[j] # inventory[j]
      <4>1. inventory'[j] = row
        BY <2>5, <3>2 DEF Saves, TypeOK
      <4>2. /\ call[q].id \in Ids
            /\ \/ Marked(entity[q], r)
               \/ inventory[call[q].id] # NoRow /\ Marked(inventory[call[q].id], r)
        BY <1>2, <2>5, <4>1, SavedRow DEF Marked
      <4>3. pc[q] \in Carrying /\ reply'[q] = "ok"
        BY <2>5 DEF Saves, Answer, Carrying, TypeOK
      <4>4. CASE Confirmed(r)
        BY <4>4, ConfirmedKept
      <4>5. CASE q = r /\ call[r].kind = "update"
        <5>1. call'[q] = call[q]
          <6>1. CASE \E p \in Requests : Submit(p) \/ Step(p) \/ DatabaseError(p)
            <7>1. PICK p \in Requests : Submit(p) \/ Step(p) \/ DatabaseError(p)
              BY <6>1
            <7>2. CASE p # q
              BY <7>1, <7>2, OthersKept
            <7>3. CASE p = q
              BY <4>3, <7>1, <7>3
                 DEF Submit, Step, DatabaseError, Discover, SaveSnapshot,
                     CheckExisting, Insert, Refresh, Get, Merge, Commit,
                     LoadForDelete, Remove, requestVars, Carrying
            <7>. QED
              BY <7>2, <7>3
          <6>2. CASE Crash \/ UNCHANGED vars
            BY <6>2, CrashEffect DEF vars, requestVars
          <6>. QED
            BY <6>1, <6>2 DEF Next
        <5>. QED
          BY <4>3, <4>5, <5>1 DEF Confirmed
      <4>6. CASE inventory[call[q].id] # NoRow /\ Marked(inventory[call[q].id], r)
        BY <2>1, <4>2, <4>6
      <4>. QED
        BY <4>2, <4>3, <4>4, <4>5, <4>6 DEF TraceOK
    <3>. QED
      BY <3>1, <3>2
  <2>6. ASSUME NEW q \in Requests, Removes(q, call[q].id)
        PROVE  Confirmed(r)'
    BY <1>2, <2>2, <2>6 DEF Removes, TypeOK
  <2>. QED
    BY <2>3, <2>4, <2>5, <2>6, TableEffect
<1>. QED
  BY <1>1, <1>2 DEF TraceOK

LEMMA NextErrorsOK ==
    ASSUME TypeOK, PhaseOK, FreshOK, ErrorsOK, [Next]_vars
    PROVE  ErrorsOK'
<1> SUFFICES ASSUME NEW r \in Requests, call'[r].kind = "update",
                    reply'[r] = "error", failures' = 0
             PROVE  r \in stale'
  BY DEF ErrorsOK
<1>1. stale \subseteq stale'
  BY TableEffect DEF Inserts, Saves, Removes, Outdate
<1>2. failures = 0 /\ ~\E q \in Requests : DatabaseError(q)
  <2>1. failures' = failures \/ failures' = failures + 1
    BY DEF Next, Step, Submit, DatabaseError, Crash, Discover, SaveSnapshot,
           CheckExisting, Insert, Refresh, Get, Merge, Commit, LoadForDelete,
           Remove, vars
  <2>2. failures \in Nat
    BY DEF TypeOK
  <2>. QED
    BY <2>1, <2>2 DEF DatabaseError
<1>3. CASE reply[r] # "none"
  BY <1>1, <1>2, <1>3, DoneKept DEF ErrorsOK
<1>4. CASE reply[r] = "none"
  <2>1. PhaseOf(r)
    BY DEF PhaseOK
  <2>2. ASSUME NEW q \in Requests, Submit(q) \/ Step(q) \/ DatabaseError(q)
        PROVE  q = r
    BY <1>4, <2>2, OthersKept
  <2>3. ASSUME Submit(r) \/ CheckExisting(r) \/ Merge(r)
        PROVE  FALSE
    BY <1>4, <2>3 DEF Submit, CheckExisting, Merge, Goto
  <2>4. ASSUME Discover(r) \/ SaveSnapshot(r) \/ Insert(r)
        PROVE  FALSE
    <3>1. call[r].kind \in {"discover", "promote"} /\ call[r] \in Runs
      BY <2>1, <2>4 DEF Discover, SaveSnapshot, Insert, PhaseOf, Runs
    <3>2. call'[r].kind = call[r].kind
      <4>1. \/ UNCHANGED call
            \/ \E i \in Ids : call' = [call EXCEPT ![r].id = i]
        BY <2>4 DEF Discover, SaveSnapshot, Insert, requestVars
      <4>. QED
        BY <3>1, <4>1 DEF TypeOK, Runs
    <3>. QED
      BY <3>1, <3>2
  <2>5. ASSUME Refresh(r) \/ LoadForDelete(r) \/ Remove(r)
        PROVE  FALSE
    <3>1. call[r].kind \in {"promote", "delete"} /\ UNCHANGED call
      BY <2>1, <2>5 DEF Refresh, LoadForDelete, Remove, PhaseOf, requestVars
    <3>. QED
      BY <3>1
  <2>6. ASSUME Get(r) PROVE FALSE
    BY <1>4, <2>6 DEF Get, Goto, Answer, TypeOK
  <2>7. CASE Commit(r)
    <3>1. loaded[r] = NoRow \/ inventory[call[r].id] = NoRow
      BY <2>7 DEF Commit, Answer, TypeOK
    <3>2. r \in stale
      BY <2>1, <2>7, <3>1 DEF Commit, FreshOK, FreshOf, Carrying
    <3>. QED
      BY <1>1, <3>2
  <2>8. CASE Crash
    BY <1>4, <2>8, CrashEffect
  <2>9. CASE UNCHANGED vars
    BY <1>4, <2>9 DEF vars
  <2>. QED
    BY <1>2, <2>2, <2>3, <2>4, <2>5, <2>6, <2>7, <2>8, <2>9 DEF Next, Step
<1>. QED
  BY <1>3, <1>4

-------------------------------------------------------------------------------
LEMMA InitIInv == Init => IInv
<1> SUFFICES ASSUME Init PROVE IInv
  OBVIOUS
<1>1. ASSUME NEW i \in Ids, inventory[i] # NoRow
      PROVE  /\ Known[i] # NoRow /\ Known[i] \in Servers
             /\ inventory[i] = NewAsset(Known[i], Earlier)
             /\ inventory[i].server_id = Known[i]
             /\ inventory[i].last_discovered_at = Earlier
             /\ inventory[i].owner = Null /\ inventory[i].tags = {}
  <2>1. Known[i] # NoRow /\ inventory[i] = NewAsset(Known[i], Earlier)
    BY <1>1 DEF Init
  <2>2. Known[i] \in Servers
    BY <2>1
  <2>. QED
    BY <2>1, <2>2, NewAssetFacts
<1>2. TypeOK
  BY InitTypeOK
<1>3. PhaseOK
  BY DEF Init, PhaseOK, PhaseOf, Carrying
<1>4. KeysOK
  BY <1>1 DEF Init, KeysOK, OneAssetPerServer
<1>5. SnapshotBacked
  BY <1>1 DEF Init, SnapshotBacked
<1>6. CopiesOK
  BY DEF Init, CopiesOK, CopyOf, Carrying
<1>7. FreshOK
  BY DEF Init, FreshOK, FreshOf, Carrying
<1>8. TraceOK
  BY <1>1 DEF Init, TraceOK, Marked, Carrying
<1>9. ErrorsOK
  BY DEF Init, ErrorsOK
<1>. QED
  BY <1>2, <1>3, <1>4, <1>5, <1>6, <1>7, <1>8, <1>9 DEF IInv

LEMMA NextIInv == IInv /\ [Next]_vars => IInv'
  BY NextTypeOK, NextPhaseOK, NextKeysOK, NextSnapshotBacked, NextCopiesOK,
     NextFreshOK, NextTraceOK, NextErrorsOK DEF IInv

(* The strengthening holds of every state the service reaches.             *)
THEOREM Inductive == Spec => []IInv
  BY InitIInv, NextIInv, PTL DEF Spec

(* Tables, requests and histories keep their types.                        *)
THEOREM Types == Spec => []TypeOK
  BY Inductive, PTL DEF IInv

(* InventoryService.create_from_discovery looks for an asset in one        *)
(* transaction and inserts in another, and merge() may insert an asset     *)
(* again that was deleted: even so, and however many requests race, no     *)
(* server has two assets and no key changes its server.                    *)
THEOREM ServersHaveOneAsset == Spec => []OneAssetPerServer
  BY Inductive, PTL DEF IInv, KeysOK

(* DiscoveryService saves the snapshot of a run before any asset shows it: *)
(* no crash, failed statement or stale merge leaves an asset whose         *)
(* discovery has no snapshot.                                              *)
THEOREM DiscoveriesHaveSnapshots == Spec => []SnapshotBacked
  BY Inductive, PTL DEF IInv

(* An edit that update_inventory_metadata_put answers with 404 or 500      *)
(* changed no asset, and without failures a 500 means that somebody else   *)
(* wrote the asset while it was edited.                                    *)
THEOREM FailedEditsWriteNothing == Spec => []FailedEditsLeaveNoTrace
<1>1. IInv => FailedEditsLeaveNoTrace
  BY DEF IInv, FailedEditsLeaveNoTrace, TraceOK, ErrorsOK, Marked, Confirmed
<1>. QED
  BY <1>1, Inductive, PTL

-------------------------------------------------------------------------------
(* A request that is answered ok while it commits did commit.              *)
LEMMA OnlyCommitEndsCommitting ==
    ASSUME TypeOK, [Next]_vars, NEW r \in Requests,
           pc[r] = "committing", pc'[r] = "done", reply'[r] = "ok"
    PROVE  Commit(r)
<1>1. ASSUME NEW q \in Requests, Submit(q) \/ Step(q) \/ DatabaseError(q)
      PROVE  q = r
  BY <1>1, OthersKept
<1>2. ~Crash /\ ~UNCHANGED vars
  BY CrashEffect DEF Waiting, vars
<1>3. ~DatabaseError(r)
  BY DEF DatabaseError, Answer, TypeOK
<1>4. ~Submit(r)
  BY DEF Submit
<1>5. Step(r)
  BY <1>1, <1>2, <1>3, <1>4 DEF Next
<1>. QED
  BY <1>5 DEF Step, Discover, SaveSnapshot, CheckExisting, Insert, Refresh, Get,
              Merge, LoadForDelete, Remove

(* update_metadata and create_from_discovery save an asset that nobody     *)
(* wrote since they read it exactly as they changed it: one version up, no *)
(* tag, owner or discovery of another request lost or brought back.        *)
THEOREM FreshSavesWriteTheChange == Spec => FreshSavesAreExact
<1> DEFINE Exact(r) ==
        LET was == inventory[call[r].id]
            is == inventory'[call[r].id]
        IN  /\ was # NoRow /\ is # NoRow
            /\ is.version = was.version + 1
            /\ was.tags \subseteq is.tags
            /\ call[r].kind = "promote" =>
                  /\ is.last_discovered_at = r
                  /\ is.owner = was.owner /\ is.tags = was.tags
            /\ call[r].kind = "update" =>
                  /\ is.last_discovered_at = was.last_discovered_at
                  /\ is.owner = IF "owner" \in call[r].fields THEN r ELSE was.owner
<1>1. ASSUME IInv, [Next]_vars, NEW r \in Requests \ stale,
             pc[r] = "committing", pc'[r] = "done", reply'[r] = "ok"
      PROVE  Exact(r)
  <2> DEFINE i == call[r].id
             was == inventory[i]
  <2>1. Commit(r)
    BY <1>1, OnlyCommitEndsCommitting DEF IInv
  <2>2. /\ i \in Ids /\ was # NoRow /\ was \in Row /\ loaded[r] = was
        /\ entity[r] \in Row /\ call[r].kind \in {"promote", "update"}
    BY <1>1 DEF IInv, TypeOK, PhaseOK, PhaseOf, FreshOK, FreshOf, CopiesOK, CopyOf,
                Carrying
  <2>3. ASSUME call[r].kind = "promote"
        PROVE  /\ entity[r].version = was.version + 1
               /\ entity[r].last_discovered_at = r
               /\ entity[r].owner = was.owner /\ entity[r].tags = was.tags
    <3>1. entity[r] = Rediscovered(r, was)
      BY <1>1, <2>3 DEF IInv, FreshOK, FreshOf, Carrying
    <3>2. call[r].server_id \in Servers
      BY <1>1, <2>2, <2>3 DEF IInv, FreshOK, FreshOf, Carrying, Row
    <3>. HIDE DEF was
    <3>. QED
      BY <2>2, <3>1, <3>2, RediscoveredFacts
  <2>4. ASSUME call[r].kind = "update"
        PROVE  /\ entity[r].version = was.version + 1
               /\ entity[r].last_discovered_at = was.last_discovered_at
               /\ was.tags \subseteq entity[r].tags
               /\ entity[r].owner = IF "owner" \in call[r].fields
                                    THEN r ELSE was.owner
    <3>1. entity[r] = Edited(r, was)
      BY <1>1, <2>4 DEF IInv, FreshOK, FreshOf, Carrying
    <3>2. was \in Row
      BY <2>2
    <3>. HIDE DEF was
    <3>3. /\ Edited(r, was).version = was.version + 1
          /\ Edited(r, was).last_discovered_at = was.last_discovered_at
          /\ Edited(r, was).tags = IF "tags" \in call[r].fields
                                   THEN was.tags \union {r} ELSE was.tags
          /\ Edited(r, was).owner = IF "owner" \in call[r].fields
                                    THEN r ELSE was.owner
      BY <3>2, EditedFacts
    <3>. QED
      BY <3>1, <3>3
  <2>5. entity[r].version = was.version + 1 /\ was.tags \subseteq entity[r].tags
    BY <2>2, <2>3, <2>4
  <2>6. entity[r] # was
    BY <2>2, <2>5 DEF Row
  <2>7. inventory'[i] = entity[r]
    <3>1. inventory' = [inventory EXCEPT ![i] = Written(entity[r], was, was)]
      BY <2>1, <2>2, <2>6 DEF Commit
    <3>. HIDE DEF i, was
    <3>2. Written(entity[r], was, was) = entity[r]
      BY <2>2, WrittenFresh
    <3>. QED
      BY <1>1, <2>2, <3>1, <3>2 DEF IInv, TypeOK
  <2>8. entity[r] # NoRow
    BY <2>2
  <2>. QED
    BY <2>2, <2>3, <2>4, <2>5, <2>7, <2>8
<1>2. IInv /\ [Next]_vars =>
        [\A r \in Requests \ stale :
           pc[r] = "committing" /\ pc'[r] = "done" /\ reply'[r] = "ok" => Exact(r)]_vars
  BY <1>1
<1>. QED
  BY <1>2, Inductive, PTL DEF Spec, FreshSavesAreExact
===============================================================================
