--------------------------- MODULE InventoryService ---------------------------
(***************************************************************************)
(* InventoryService and DiscoveryService over the inventory and            *)
(* discovery_snapshots tables, with the API handlers that call them.       *)
(*                                                                         *)
(*   discover  find server, run commands -> save snapshot                  *)
(*   promote   discover -> look for an asset -> merge, commit | insert     *)
(*   update    get -> merge -> commit                                      *)
(*   delete    get -> load -> remove                                       *)
(*                                                                         *)
(* Each arrow is an await at which other requests run.  An asset has a     *)
(* version, but no statement tests it.                                     *)
(***************************************************************************)
EXTENDS Naturals

CONSTANTS
    Requests,      \* API requests; a value a request writes is named after it
    Earlier,       \* names the values written before the behaviour starts
    Null,          \* SQL NULL
    Servers,       \* registered servers
    Ids,           \* primary keys the inventory table may allocate
    NoRow,         \* the table has no row with that key
    Known,         \* assets known before the behaviour starts, each server's key
    MaxFailures    \* bound on database errors and process crashes

ASSUME NamesAssumption == Null \notin Requests /\ Earlier \notin Requests \union {Null}
ASSUME MaxFailuresAssumption == MaxFailures \in Nat

Value == Requests \union {Earlier, Null}

(* An asset.  All the discovery columns are told by the run they come from *)
(* (last_discovered_at); owner stands for the metadata columns, tags for   *)
(* the JSON column that update_metadata extends, by a key per request.     *)
Row == [server_id : Servers, last_discovered_at : Requests \union {Earlier},
        owner : Value, tags : SUBSET Requests, version : Nat]

ASSUME KnownAssumption ==
    /\ NoRow \notin Row /\ NoRow \notin Servers
    /\ Known \in [Ids -> Servers \union {NoRow}]
    /\ \A i, j \in Ids : Known[i] = Known[j] /\ Known[i] # NoRow => i = j

VARIABLES
    inventory,   \* the inventory table
    snapshots,   \* the discovery_snapshots table
    pc,          \* where each request is
    call,        \* what each request asked for
    entity,      \* the detached asset the handler works on
    loaded,      \* what merge() found under the asset's key
    reply,       \* what the client was answered
    failures,    \* failures so far
    keyOf,       \* history: the server each key was allocated for
    stale,       \* history: requests whose asset was written since they read it
    removed      \* history: keys whose deletion was answered

requestVars == <<call, entity, loaded>>
histories == <<keyOf, stale, removed>>
vars == <<inventory, snapshots, pc, requestVars, reply, failures, histories>>

Snapshot == [server_id : Servers, discovered_at : Requests \union {Earlier}]

(* What DiscoveryMapper.to_inventory builds.                               *)
NewAsset(s, run) ==
    [server_id |-> s, last_discovered_at |-> run,
     owner |-> Null, tags |-> {}, version |-> 1]

Fields == {"owner", "tags"}
NoCall == [kind |-> "none", server_id |-> NoRow, id |-> NoRow, fields |-> {}]
Runs == [kind : {"discover", "promote"}, server_id : Servers, id : {NoRow}, fields : {{}}]
Edits == [kind : {"update"}, server_id : {NoRow}, id : Ids, fields : SUBSET Fields]
           \union [kind : {"delete"}, server_id : {NoRow}, id : Ids, fields : {{}}]

Waiting == {"discovering", "snapshotting", "checking", "inserting",
            "refreshing", "getting", "merging", "committing", "loading", "removing"}
Replies == {"none", "ok", "not_found", "error", "lost"}

Init ==
    /\ inventory = [i \in Ids |-> IF Known[i] = NoRow THEN NoRow
                                  ELSE NewAsset(Known[i], Earlier)]
    /\ snapshots = {[server_id |-> Known[i], discovered_at |-> Earlier] :
                        i \in {j \in Ids : Known[j] # NoRow}}
    /\ pc = [r \in Requests |-> "idle"]
    /\ call = [r \in Requests |-> NoCall]
    /\ entity = [r \in Requests |-> NoRow]
    /\ loaded = [r \in Requests |-> NoRow]
    /\ reply = [r \in Requests |-> "none"]
    /\ failures = 0
    /\ keyOf = Known
    /\ stale = {}
    /\ removed = {}

Goto(r, label) ==
    /\ pc' = [pc EXCEPT ![r] = label]
    /\ UNCHANGED reply

Answer(r, response) ==
    /\ pc' = [pc EXCEPT ![r] = "done"]
    /\ reply' = [reply EXCEPT ![r] = response]

(* Writing key i outdates the copies other requests carry of it.           *)
Outdate(i, r) ==
    stale' = stale \union
        {q \in Requests \ {r} : pc[q] \in {"merging", "committing"} /\ call[q].id = i}

Submit(r) ==
    /\ pc[r] = "idle"
    /\ \/ /\ \E c \in Runs : call' = [call EXCEPT ![r] = c]
          /\ Goto(r, "discovering")
       \/ /\ \E c \in Edits : call' = [call EXCEPT ![r] = c]
          /\ Goto(r, "getting")
    /\ UNCHANGED <<inventory, snapshots, entity, loaded, failures, histories>>

-------------------------------------------------------------------------------
(* discover_server up to its result: find the server, connect, run ten     *)
(* commands, disconnect, parse.  Other requests see none of it.  Whatever  *)
(* goes wrong after the server is found, the client is told 500.           *)
Discover(r) ==
    /\ pc[r] = "discovering"
    /\ Answer(r, "not_found") \/ Answer(r, "error") \/ Goto(r, "snapshotting")
    /\ UNCHANGED <<inventory, snapshots, requestVars, failures, histories>>

(* Mutant: a promotion keeps the result to itself.                         *)
SaveSnapshotOnlyIfDiscovering(r) ==
    /\ pc[r] = "snapshotting"
    /\ IF call[r].kind = "discover"
       THEN /\ Answer(r, "error")
            /\ snapshots' = snapshots \union
                  {[server_id |-> call[r].server_id, discovered_at |-> r]}
       ELSE Goto(r, "checking") /\ UNCHANGED snapshots
    /\ UNCHANGED <<inventory, requestVars, failures, histories>>

(* The snapshot is committed for either caller.  The discover endpoint     *)
(* then fails to validate the result as its response, which requires the   *)
(* snapshot's id and is given a result without one: the client is told 500.*)
SaveSnapshot(r) ==
    /\ pc[r] = "snapshotting"
    /\ snapshots' = snapshots \union
          {[server_id |-> call[r].server_id, discovered_at |-> r]}
    /\ IF call[r].kind = "discover" THEN Answer(r, "error") ELSE Goto(r, "checking")
    /\ UNCHANGED <<inventory, requestVars, failures, histories>>

(* Mutant: the metadata is taken over in the wrong order.                  *)
RediscoveredSwapped(r, row) ==
    [NewAsset(call[r].server_id, r) EXCEPT
        !.owner = row.tags, !.tags = row.owner, !.version = row.version + 1]

(* create_from_discovery on an asset that exists: its metadata is kept.    *)
Rediscovered(r, row) ==
    [NewAsset(call[r].server_id, r) EXCEPT
        !.owner = row.owner, !.tags = row.tags, !.version = row.version + 1]

(* The server's asset is read, or a new one is built.                      *)
CheckExisting(r) ==
    /\ pc[r] = "checking"
    /\ \/ \E i \in Ids :
            /\ inventory[i] # NoRow
            /\ inventory[i].server_id = call[r].server_id
            /\ entity' = [entity EXCEPT ![r] = Rediscovered(r, inventory[i])]
            /\ call' = [call EXCEPT ![r].id = i]
            /\ Goto(r, "merging")
       \/ /\ \A i \in Ids : inventory[i] # NoRow =>
                                inventory[i].server_id # call[r].server_id
          /\ entity' = [entity EXCEPT ![r] = NewAsset(call[r].server_id, r)]
          /\ UNCHANGED call
          /\ Goto(r, "inserting")
    /\ UNCHANGED <<inventory, snapshots, loaded, failures, histories>>

(* The unique index on server_id.                                          *)
ServerTaken(s) == \E i \in Ids : inventory[i] # NoRow /\ inventory[i].server_id = s

(* Mutant: the index on server_id is not unique.                           *)
InsertIndexed(r) ==
    /\ pc[r] = "inserting"
    /\ \E i \in Ids :
        /\ keyOf[i] = NoRow
        /\ inventory' = [inventory EXCEPT ![i] = entity[r]]
        /\ keyOf' = [keyOf EXCEPT ![i] = call[r].server_id]
        /\ call' = [call EXCEPT ![r].id = i]
    /\ Goto(r, "refreshing")
    /\ UNCHANGED <<snapshots, entity, loaded, failures, stale, removed>>

(* save() of an asset without id: add and commit.  The key is a new one.   *)
Insert(r) ==
    /\ pc[r] = "inserting"
    /\ \/ /\ ServerTaken(call[r].server_id)
          /\ Answer(r, "error")
          /\ UNCHANGED <<inventory, call, keyOf>>
       \/ /\ ~ServerTaken(call[r].server_id)
          /\ \E i \in Ids :
                /\ keyOf[i] = NoRow
                /\ inventory' = [inventory EXCEPT ![i] = entity[r]]
                /\ keyOf' = [keyOf EXCEPT ![i] = call[r].server_id]
                /\ call' = [call EXCEPT ![r].id = i]
          /\ Goto(r, "refreshing")
    /\ UNCHANGED <<snapshots, entity, loaded, failures, stale, removed>>

(* The refresh of the inserted row fails if it was deleted meanwhile.      *)
Refresh(r) ==
    /\ pc[r] = "refreshing"
    /\ Answer(r, IF inventory[call[r].id] = NoRow THEN "error" ELSE "ok")
    /\ UNCHANGED <<inventory, snapshots, requestVars, failures, histories>>

-------------------------------------------------------------------------------
(* Mutant: tags given replace the tags there were.                         *)
EditedReplacing(r, row) ==
    [row EXCEPT !.owner = IF "owner" \in call[r].fields THEN r ELSE @,
                !.tags = IF "tags" \in call[r].fields THEN {r} ELSE @,
                !.version = @ + 1]

(* update_metadata's change of the asset it read.                          *)
Edited(r, row) ==
    [row EXCEPT !.owner = IF "owner" \in call[r].fields THEN r ELSE @,
                !.tags = IF "tags" \in call[r].fields THEN @ \union {r} ELSE @,
                !.version = @ + 1]

(* get_by_id, then the change, or the first look of delete_inventory.      *)
Get(r) ==
    LET row == inventory[call[r].id] IN
    /\ pc[r] = "getting"
    /\ \/ /\ row = NoRow
          /\ Answer(r, "not_found")
          /\ UNCHANGED entity
       \/ /\ row # NoRow /\ call[r].kind = "update"
          /\ entity' = [entity EXCEPT ![r] = Edited(r, row)]
          /\ Goto(r, "merging")
       \/ /\ row # NoRow /\ call[r].kind = "delete"
          /\ Goto(r, "loading")
          /\ UNCHANGED entity
    /\ UNCHANGED <<inventory, snapshots, call, loaded, failures, histories>>

(* save() of an asset with id: session.merge selects the row once more.    *)
Merge(r) ==
    /\ pc[r] = "merging"
    /\ loaded' = [loaded EXCEPT ![r] = inventory[call[r].id]]
    /\ Goto(r, "committing")
    /\ UNCHANGED <<inventory, snapshots, call, entity, failures, histories>>

(* The flush writes the columns merge() changed.                           *)
Written(new, base, current) ==
    [c \in DOMAIN new |-> IF new[c] # base[c] THEN new[c] ELSE current[c]]

(* Mutant: save() goes on to refresh the object it gave to merge(), which  *)
(* raises.                                                                 *)
CommitRefreshing(r) ==
    LET i == call[r].id IN
    /\ pc[r] = "committing"
    /\ loaded[r] # NoRow /\ inventory[i] # NoRow
    /\ inventory' = [inventory EXCEPT ![i] = Written(entity[r], loaded[r], @)]
    /\ Outdate(i, r)
    /\ Answer(r, "error")
    /\ UNCHANGED <<snapshots, requestVars, failures, keyOf, removed>>

(* commit: what merge() found decides between INSERT and UPDATE.           *)
Commit(r) ==
    LET i == call[r].id
        new == entity[r]
        base == loaded[r]
        current == inventory[i]
    IN
    /\ pc[r] = "committing"
    /\ \/ /\ base = NoRow                      \* INSERT under the old key
          /\ current = NoRow /\ ~ServerTaken(new.server_id)
          /\ inventory' = [inventory EXCEPT ![i] = new]
          /\ Outdate(i, r)
          /\ Answer(r, "ok")
       \/ /\ base = NoRow                      \* IntegrityError
          /\ current # NoRow \/ ServerTaken(new.server_id)
          /\ Answer(r, "error")
          /\ UNCHANGED <<inventory, stale>>
       \/ /\ base # NoRow /\ new = base        \* nothing to flush
          /\ Answer(r, "ok")
          /\ UNCHANGED <<inventory, stale>>
       \/ /\ base # NoRow /\ new # base        \* UPDATE
          /\ current # NoRow
          /\ inventory' = [inventory EXCEPT ![i] = Written(new, base, current)]
          /\ Outdate(i, r)
          /\ Answer(r, "ok")
       \/ /\ base # NoRow /\ new # base        \* StaleDataError: no row matched
          /\ current = NoRow
          /\ Answer(r, "error")
          /\ UNCHANGED <<inventory, stale>>
    /\ UNCHANGED <<snapshots, requestVars, failures, keyOf, removed>>

(* repository.delete selects the row again; if it is gone meanwhile, False *)
(* is returned, which the handler drops: the client is told 204.           *)
LoadForDelete(r) ==
    /\ pc[r] = "loading"
    /\ IF inventory[call[r].id] = NoRow THEN Answer(r, "ok") ELSE Goto(r, "removing")
    /\ removed' = IF inventory[call[r].id] = NoRow
                  THEN removed \union {call[r].id} ELSE removed
    /\ UNCHANGED <<inventory, snapshots, requestVars, failures, keyOf, stale>>

(* DELETE and commit; a row that is gone already only causes a warning.    *)
Remove(r) ==
    /\ pc[r] = "removing"
    /\ inventory' = [inventory EXCEPT ![call[r].id] = NoRow]
    /\ Outdate(call[r].id, r)
    /\ removed' = removed \union {call[r].id}
    /\ Answer(r, "ok")
    /\ UNCHANGED <<snapshots, requestVars, failures, keyOf>>

-------------------------------------------------------------------------------
(* An await on the database raises.                                        *)
DatabaseError(r) ==
    /\ failures < MaxFailures
    /\ pc[r] \in Waiting
    /\ failures' = failures + 1
    /\ Answer(r, "error")
    /\ UNCHANGED <<inventory, snapshots, requestVars, histories>>

(* The API process dies and is started again.                              *)
Crash ==
    /\ failures < MaxFailures
    /\ \E r \in Requests : pc[r] \in Waiting
    /\ failures' = failures + 1
    /\ pc' = [r \in Requests |-> IF pc[r] \in Waiting THEN "done" ELSE pc[r]]
    /\ reply' = [r \in Requests |->
                    IF pc[r] \in Waiting THEN "lost" ELSE reply[r]]
    /\ UNCHANGED <<inventory, snapshots, requestVars, histories>>

Step(r) ==
    \/ Discover(r) \/ SaveSnapshot(r)
    \/ CheckExisting(r) \/ Insert(r) \/ Refresh(r)
    \/ Get(r) \/ Merge(r) \/ Commit(r)
    \/ LoadForDelete(r) \/ Remove(r)

Done == \A r \in Requests : pc[r] = "done"

Next ==
    \/ \E r \in Requests : Submit(r) \/ Step(r) \/ DatabaseError(r)
    \/ Crash
    \/ Done /\ UNCHANGED vars

Spec == Init /\ [][Next]_vars

-------------------------------------------------------------------------------
Carrying == {"merging", "committing"}

TypeOK ==
    /\ inventory \in [Ids -> Row \union {NoRow}]
    /\ snapshots \subseteq Snapshot
    /\ pc \in [Requests -> Waiting \union {"idle", "done"}]
    /\ call \in [Requests ->
          {NoCall} \union Edits \union
          [kind : {"discover", "promote"}, server_id : Servers,
           id : Ids \union {NoRow}, fields : {{}}]]
    /\ entity \in [Requests -> Row \union {NoRow}]
    /\ loaded \in [Requests -> Row \union {NoRow}]
    /\ reply \in [Requests -> Replies]
    /\ failures \in 0 .. MaxFailures
    /\ keyOf \in [Ids -> Servers \union {NoRow}]
    /\ stale \subseteq Requests
    /\ removed \subseteq Ids

(* However promotions, edits and deletions race, and though an edit may    *)
(* insert a deleted asset again, a server never has two assets, and a key  *)
(* only ever stands for the server it was allocated for.                   *)
OneAssetPerServer ==
    /\ \A i, j \in Ids :
          inventory[i] # NoRow /\ inventory[j] # NoRow
          /\ inventory[i].server_id = inventory[j].server_id => i = j
    /\ \A i \in Ids : inventory[i] # NoRow => inventory[i].server_id = keyOf[i]

(* The audit trail is complete: the discovery an asset shows, even one a   *)
(* stale merge brought back, has its snapshot.                             *)
SnapshotBacked ==
    \A i \in Ids : inventory[i] # NoRow =>
        [server_id |-> inventory[i].server_id,
         discovered_at |-> inventory[i].last_discovered_at] \in snapshots

(* Whoever saves an asset nobody wrote since it was read is right to: the  *)
(* version goes up by one, a rediscovery keeps the metadata, an edit keeps *)
(* the discovery, and no tag, owner or asset is lost or comes back.        *)
FreshSavesAreExact ==
    [][\A r \in Requests \ stale :
          pc[r] = "committing" /\ pc'[r] = "done" /\ reply'[r] = "ok" =>
            LET was == inventory[call[r].id]
                is == inventory'[call[r].id]
            IN  /\ was # NoRow /\ is # NoRow
                /\ is.version = was.version + 1
                /\ was.tags \subseteq is.tags
                /\ call[r].kind = "promote" =>
                      /\ is.last_discovered_at = r
                      /\ is.owner = was.owner /\ is.tags = was.tags
                /\ call[r].kind = "update" =>
                      /\ is.last_discovered_at = was.last_discovered_at
                      /\ is.owner = IF "owner" \in call[r].fields
                                    THEN r ELSE was.owner
      ]_vars

(* Only a conflict with another request fails an edit or a promotion that  *)
(* reached the database: without failures, an edit answered 500 carried a  *)
(* stale copy, and left no value of its own in any asset.                  *)
FailedEditsLeaveNoTrace ==
    \A r \in Requests :
        call[r].kind = "update" /\ reply[r] \in {"not_found", "error"}
        /\ failures = 0 =>
            /\ reply[r] = "error" => r \in stale
            /\ \A i \in Ids : inventory[i] # NoRow =>
                  inventory[i].owner # r /\ r \notin inventory[i].tags

-------------------------------------------------------------------------------
(* What delete_inventory promises: an asset whose deletion was confirmed   *)
(* is no longer among the records; only a new promotion, with a new key,   *)
(* brings the server back.                                                 *)
DeletedStaysDeleted == \A i \in removed : inventory[i] = NoRow
===============================================================================
