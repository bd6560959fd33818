--------------------------- MODULE TopicLifecycle ---------------------------
(***************************************************************************)
(* One topic as the portal manages it: its row and its environment rows in *)
(* the database, its node in every environment's ZooKeeper, which clients  *)
(* follow, and the topic on the clusters of every environment.  A request  *)
(* writes the three one after the other, environment by environment; a     *)
(* broker or ZooKeeper may refuse, and the portal may die in between.  A   *)
(* migration changes ZooKeeper at once and the database later, in a thread *)
(* of its own.                                                             *)
(***************************************************************************)
EXTENDS Integers, FiniteSets

CONSTANTS
  Envs,           \* environments
  Clusters,       \* clusters of an environment (all of one type)
  NoCluster,      \* no cluster: a null service_id, no node in ZooKeeper
  Absent,         \* no row for the environment
  Requests,       \* threads that serve the portal's requests
  IsKafka,        \* the clusters' type: Kafka or RocketMQ
  MaxPartitions,  \* bound: partitions asked for
  MaxFailures,    \* bound: refusals by a broker or ZooKeeper
  MaxCrashes,     \* bound: deaths of the portal
  MaxMigrations   \* bound: migrations

ASSUME TopicAssumption ==
  /\ NoCluster \notin Clusters /\ Absent \notin Clusters /\ NoCluster # Absent
  /\ Envs # {}
  /\ IsKafka \in BOOLEAN
  /\ {MaxPartitions, MaxFailures, MaxCrashes, MaxMigrations} \subseteq Nat

VARIABLES
  status,      \* topic.status: "none" before it is added
  partitions,  \* topic.partitions, 0 for null
  refs,        \* refs[e]: the service_id of the row of topic_environment_ref
  zk,          \* zk[e]: cluster the node of the topic names
  broker,      \* broker[e][c]: partitions of the topic on the cluster, 0 without it
  migrated,    \* updates of the database that migrations have handed to a thread
  req,         \* req[r]: the request the thread serves
  past,        \* what has happened that a property excludes (history)
  failures, crashes, migrations

dbVars == <<status, partitions, refs>>
counters == <<failures, crashes, migrations>>
vars == <<dbVars, zk, broker, migrated, req, past, counters>>

Updates == [env : Envs, src : Clusters, target : Clusters]
Ops == {"none", "edit", "approve", "sync", "delete", "migrate"}
Steps == {"insert", "next", "create", "update", "register", "updateCluster", "unregister", "drop"}
Request == [op : Ops, step : Steps, todo : SUBSET Envs, env : Envs,
            target : [Envs -> Clusters \cup {NoCluster}], parts : 0 .. MaxPartitions,
            new : BOOLEAN, old : 0 .. MaxPartitions,
            rows : [Envs -> Clusters \cup {NoCluster, Absent}], failed : SUBSET Envs]
NoRequest == [op |-> "none", step |-> "next", todo |-> {}, env |-> CHOOSE e \in Envs : TRUE,
              target |-> [e \in Envs |-> NoCluster], parts |-> 0, new |-> FALSE, old |-> 0,
              rows |-> [e \in Envs |-> Absent], failed |-> {}]
Events == {"overtaken", "half deleted", "inexact"}

TypeOK ==
  /\ status \in {"none", "new", "approved", "deleted"}
  /\ partitions \in 0 .. MaxPartitions
  /\ refs \in [Envs -> Clusters \cup {NoCluster, Absent}]
  /\ zk \in [Envs -> Clusters \cup {NoCluster}]
  /\ broker \in [Envs -> [Clusters -> 0 .. MaxPartitions]]
  /\ migrated \subseteq Updates
  /\ req \in [Requests -> Request]
  /\ past \subseteq Events
  /\ failures \in 0 .. MaxFailures /\ crashes \in 0 .. MaxCrashes
  /\ migrations \in 0 .. MaxMigrations

Init ==
  /\ status = "none" /\ partitions = 0
  /\ refs = [e \in Envs |-> Absent]
  /\ zk = [e \in Envs |-> NoCluster]
  /\ broker = [e \in Envs |-> [c \in Clusters |-> 0]]
  /\ migrated = {}
  /\ req = [r \in Requests |-> NoRequest]
  /\ past = {}
  /\ failures = 0 /\ crashes = 0 /\ migrations = 0

Idle == \A r \in Requests : req[r] = NoRequest
Known == {e \in Envs : refs[e] # Absent}
Placed == {e \in Envs : refs[e] \in Clusters}

\* Request r starts, perhaps before the database has heard of the last migration.
Start(r, request) ==
  /\ req[r] = NoRequest
  /\ req' = [req EXCEPT ![r] = request]
  /\ past' = past \cup IF migrated = {} THEN {} ELSE {"overtaken"}
End(r) == req' = [req EXCEPT ![r] = NoRequest]
Goto(r, step) == req' = [req EXCEPT ![r].step = step]
Done(r) == req' = [req EXCEPT ![r].step = "next", ![r].todo = @ \ {req[r].env}]
At(r, step) == req[r].op # "none" /\ req[r].step = step
Target(r) == req[r].target[req[r].env]

-----------------------------------------------------------------------------
(* Adding and editing a topic *)

\* In one transaction the topic and a row without a cluster for every environment chosen.
addTopic ==
  /\ status = "none"
  /\ status' = "new"
  /\ \E es \in SUBSET Envs \ {{}} :
       refs' = [e \in Envs |-> IF e \in es THEN NoCluster ELSE Absent]
  /\ UNCHANGED <<partitions, zk, broker, migrated, req, past, counters>>

\* Mutant: environments can be chosen again after the approval.
updateTopic_Approved(r) ==
  /\ status \in {"new", "approved"}
  /\ \E es \in SUBSET Envs \ {{}} :
       Start(r, [NoRequest EXCEPT !.op = "edit", !.step = "insert", !.todo = es])
  /\ refs' = [e \in Envs |-> Absent]
  /\ UNCHANGED <<status, partitions, zk, broker, migrated, counters>>

\* Editing a topic that is still new chooses its environments again: the rows are deleted
\* and inserted, without a transaction.
updateTopic(r) ==
  /\ status = "new"
  /\ \E es \in SUBSET Envs \ {{}} :
       Start(r, [NoRequest EXCEPT !.op = "edit", !.step = "insert", !.todo = es])
  /\ refs' = [e \in Envs |-> Absent]
  /\ UNCHANGED <<status, partitions, zk, broker, migrated, counters>>

installTopicEnvRef(r) ==
  /\ At(r, "insert")
  /\ \E e \in req[r].todo :
       /\ refs' = [refs EXCEPT ![e] = NoCluster]
       /\ IF req[r].todo = {e} THEN End(r) ELSE req' = [req EXCEPT ![r].todo = @ \ {e}]
  /\ UNCHANGED <<status, partitions, zk, broker, migrated, past, counters>>

-----------------------------------------------------------------------------
(* Approving, once or again, and synchronising to further environments *)

\* Mutant: the number of partitions is not checked.
approveTopic_Unchecked(r) ==
  /\ status \in {"new", "approved"}
  /\ Known # {}
  /\ \E parts \in 1 .. MaxPartitions + 1 :
       /\ Start(r, [NoRequest EXCEPT !.op = "approve", !.todo = Known, !.parts = parts,
                      !.new = (status = "new"), !.old = partitions, !.rows = refs])
       /\ partitions' = parts
  /\ UNCHANGED <<status, refs, zk, broker, migrated, counters>>

\* Mutant: the topic is read after its partitions have been written.
approveTopic_ReadLate(r) ==
  /\ status \in {"new", "approved"}
  /\ Known # {}
  /\ \E parts \in 1 .. MaxPartitions :
       /\ Start(r, [NoRequest EXCEPT !.op = "approve", !.todo = Known, !.parts = parts,
                      !.new = (status = "new"), !.old = parts, !.rows = refs])
       /\ partitions' = parts
  /\ UNCHANGED <<status, refs, zk, broker, migrated, counters>>

\* The rows and the topic are read, then the partitions asked for are written.
approveTopic(r) ==
  /\ status \in {"new", "approved"}
  /\ Known # {}
  /\ \E parts \in 1 .. MaxPartitions :
       /\ Start(r, [NoRequest EXCEPT !.op = "approve", !.todo = Known, !.parts = parts,
                      !.new = (status = "new"), !.old = partitions, !.rows = refs])
       /\ partitions' = parts
  /\ UNCHANGED <<status, refs, zk, broker, migrated, counters>>

\* initTopicResource for the next environment, with the cluster chosen for it: a new topic
\* or another cluster is created and registered, other partitions are updated, and
\* otherwise there is nothing to do.
initTopicResource(r) ==
  /\ At(r, "next")
  /\ req[r].op = "approve"
  /\ \E e \in req[r].todo, c \in Clusters :
       LET chosen == [req[r] EXCEPT !.env = e, !.target[e] = c]
       IN req' = [req EXCEPT ![r] =
            IF req[r].new \/ req[r].rows[e] # c THEN [chosen EXCEPT !.step = "create"]
            ELSE IF req[r].old # req[r].parts THEN [chosen EXCEPT !.step = "update"]
            ELSE [chosen EXCEPT !.todo = @ \ {e}]]
  /\ UNCHANGED <<dbVars, zk, broker, migrated, past, counters>>

\* Environments without a row get one, and then the approved topic.
syncTopic(r) ==
  /\ status = "approved"
  /\ \E es \in SUBSET (Envs \ Known) \ {{}} :
       /\ Start(r, [NoRequest EXCEPT !.op = "sync", !.todo = es, !.parts = partitions])
       /\ refs' = [e \in Envs |-> IF e \in es THEN NoCluster ELSE refs[e]]
  /\ UNCHANGED <<status, partitions, zk, broker, migrated, counters>>

nextEnvironment(r) ==
  /\ At(r, "next")
  /\ req[r].op = "sync"
  /\ \E e \in req[r].todo, c \in Clusters :
       req' = [req EXCEPT ![r] = [req[r] EXCEPT !.env = e, !.target[e] = c, !.step = "create"]]
  /\ UNCHANGED <<dbVars, zk, broker, migrated, past, counters>>

\* A Kafka topic that exists is left as it is; RocketMQ creates or updates.
Created(old, new) == IF IsKafka /\ old > 0 THEN old ELSE new

\* Mutant: the row is written before ZooKeeper.
createTopic_RowFirst(r) ==
  /\ At(r, "create")
  /\ refs' = [refs EXCEPT ![req[r].env] = Target(r)]
  /\ broker' = [broker EXCEPT ![req[r].env][Target(r)] = Created(@, req[r].parts)]
  /\ Goto(r, "register")
  /\ UNCHANGED <<status, partitions, past, zk, migrated, counters>>

createTopic(r) ==
  /\ At(r, "create")
  /\ broker' = [broker EXCEPT ![req[r].env][Target(r)] = Created(@, req[r].parts)]
  /\ Goto(r, "register")
  /\ past' = past \cup IF broker'[req[r].env][Target(r)] = req[r].parts THEN {} ELSE {"inexact"}
  /\ UNCHANGED <<dbVars, zk, migrated, counters>>

\* TopicService.updateTopic creates a topic that has gone; Kafka's partitions only grow.
\* The request to Kafka is sent and not awaited.
updatePartitions(r) ==
  /\ At(r, "update")
  /\ ~IsKafka \/ broker[req[r].env][Target(r)] <= req[r].parts
  /\ broker' = [broker EXCEPT ![req[r].env][Target(r)] = req[r].parts]
  /\ Goto(r, "updateCluster")
  /\ UNCHANGED <<dbVars, zk, migrated, past, counters>>

registerTopicToZk(r) ==
  /\ At(r, "register")
  /\ req[r].op # "migrate"
  /\ zk' = [zk EXCEPT ![req[r].env] = Target(r)]
  /\ Goto(r, "updateCluster")
  /\ UNCHANGED <<dbVars, broker, migrated, past, counters>>

updateCluster(r) ==
  /\ At(r, "updateCluster")
  /\ refs' = [refs EXCEPT ![req[r].env] = Target(r)]
  /\ Done(r)
  /\ UNCHANGED <<status, partitions, zk, broker, migrated, past, counters>>

\* The end of an approval: it counts unless it failed in every environment.
updateStatusById(r) ==
  /\ At(r, "next")
  /\ req[r].todo = {}
  /\ req[r].op \in {"approve", "sync"}
  /\ status' = IF req[r].op = "approve" /\ req[r].failed # {e \in Envs : req[r].rows[e] # Absent}
               THEN "approved" ELSE status
  /\ End(r)
  /\ UNCHANGED <<partitions, refs, zk, broker, migrated, past, counters>>

-----------------------------------------------------------------------------
(* Deleting *)

deleteTopic(r) ==
  /\ status \in {"new", "approved"}
  /\ Start(r, [NoRequest EXCEPT !.op = "delete", !.todo = Placed, !.rows = refs])
  /\ UNCHANGED <<dbVars, zk, broker, migrated, counters>>

\* Mutant: the node is left to whoever deletes the topic next.
checkPath_KeepNode(r) ==
  /\ At(r, "next")
  /\ req[r].op = "delete"
  /\ \E e \in req[r].todo :
       LET q == req[r]
       IN req' = [req EXCEPT ![r] =
            IF zk[e] = NoCluster THEN [q EXCEPT !.todo = @ \ {e}]
            ELSE [q EXCEPT !.env = e, !.target[e] = q.rows[e], !.step = "drop"]]
  /\ UNCHANGED <<dbVars, zk, broker, migrated, past, counters>>

\* Only environments with a node in ZooKeeper are cleaned: first the node ...
checkPath(r) ==
  /\ At(r, "next")
  /\ req[r].op = "delete"
  /\ \E e \in req[r].todo :
       LET q == req[r]
       IN req' = [req EXCEPT ![r] =
            IF zk[e] = NoCluster THEN [q EXCEPT !.todo = @ \ {e}]
            ELSE [q EXCEPT !.env = e, !.target[e] = q.rows[e], !.step = "unregister"]]
  /\ UNCHANGED <<dbVars, zk, broker, migrated, past, counters>>

deleteTopicInfo(r) ==
  /\ At(r, "unregister")
  /\ zk' = [zk EXCEPT ![req[r].env] = NoCluster]
  /\ Goto(r, "drop")
  /\ UNCHANGED <<dbVars, broker, migrated, past, counters>>

\* ... then the topic on the cluster of the row; Kafka refuses to delete what is not there.
dropTopic(r) ==
  /\ At(r, "drop")
  /\ ~IsKafka \/ broker[req[r].env][Target(r)] > 0
  /\ broker' = [broker EXCEPT ![req[r].env][Target(r)] = 0]
  /\ Done(r)
  /\ UNCHANGED <<dbVars, zk, migrated, past, counters>>

deleteById(r) ==
  /\ At(r, "next")
  /\ req[r].todo = {}
  /\ req[r].op = "delete"
  /\ status' = "deleted"
  /\ End(r)
  /\ UNCHANGED <<partitions, refs, zk, broker, migrated, past, counters>>

-----------------------------------------------------------------------------
(* Migrating the topic of an environment to another cluster *)

\* The row names the cluster to leave; the topic is first created on the other.
migrateTopics(r) ==
  /\ migrations < MaxMigrations
  /\ migrations' = migrations + 1
  /\ status = "approved"
  /\ \E e \in Known, c \in Clusters :
       Start(r, [NoRequest EXCEPT !.op = "migrate", !.step = "create", !.env = e, !.target[e] = c,
                   !.parts = partitions, !.rows = refs])
  /\ UNCHANGED <<dbVars, zk, broker, migrated, failures, crashes>>

\* The node is read and written with the other cluster's name (without a node the topic is
\* reported as failed), and a new thread is given the update of the database.
migrateInZk(r) ==
  /\ At(r, "register")
  /\ req[r].op = "migrate"
  /\ LET e == req[r].env
     IN IF zk[e] = NoCluster
        THEN UNCHANGED <<zk, migrated>>
        ELSE /\ zk' = [zk EXCEPT ![e] = Target(r)]
             /\ migrated' = migrated \cup
                  {u \in Updates : u.env = e /\ u.src = req[r].rows[e] /\ u.target = Target(r)}
  /\ End(r)
  /\ UNCHANGED <<dbVars, broker, past, counters>>

\* UPDATE ... SET service_id = target WHERE service_id = src.  (A null src has ended the
\* thread with a NullPointerException, which is logged.)
updateMigrateTopics ==
  /\ \E u \in migrated :
       /\ migrated' = migrated \ {u}
       /\ refs' = [refs EXCEPT ![u.env] = IF @ = u.src THEN u.target ELSE @]
  /\ UNCHANGED <<status, partitions, zk, broker, req, past, counters>>

-----------------------------------------------------------------------------
(* Refusals and the death of the portal *)

\* Mutant: initTopicResource logs the exception, and the row is written.
Raise_Swallow(r) ==
  /\ req' = [req EXCEPT ![r] = IF @.op = "approve" THEN [@ EXCEPT !.step = "updateCluster"]
                               ELSE NoRequest]
  /\ past' = past \cup {"inexact"}
                  \cup IF req[r].op = "delete" THEN {"half deleted"} ELSE {}

\* An exception: an approval goes on with the next environment, anything else is over.
Raise(r) ==
  /\ LET q == req[r]
     IN req' = [req EXCEPT ![r] =
          IF q.op = "approve"
          THEN [q EXCEPT !.failed = @ \cup {q.env}, !.step = "next", !.todo = @ \ {q.env}]
          ELSE NoRequest]
  /\ past' = past \cup {"inexact"}
                  \cup IF req[r].op = "delete" THEN {"half deleted"} ELSE {}

\* Kafka refuses fewer partitions, and to delete a topic that is not there.
refusedByKafka(r) ==
  /\ IsKafka
  /\ \/ At(r, "update") /\ broker[req[r].env][Target(r)] > req[r].parts
     \/ At(r, "drop") /\ broker[req[r].env][Target(r)] = 0
  /\ Raise(r)
  /\ UNCHANGED <<dbVars, zk, broker, migrated, counters>>

\* A broker's or ZooKeeper's error or timeout; a topic may have been created or dropped all the same.
fail(r) ==
  /\ failures < MaxFailures
  /\ failures' = failures + 1
  /\ req[r].op # "none"
  /\ req[r].step \in {"create", "update", "register", "unregister", "drop"}
  /\ \/ broker' = broker
     \/ /\ req[r].step = "create"
        /\ broker' = [broker EXCEPT ![req[r].env][Target(r)] = Created(@, req[r].parts)]
     \/ /\ req[r].step = "drop"
        /\ broker' = [broker EXCEPT ![req[r].env][Target(r)] = 0]
  /\ Raise(r)
  /\ UNCHANGED <<dbVars, zk, migrated, crashes, migrations>>

\* Kafka's refusal of createPartitions is never seen.
createPartitionsLost(r) ==
  /\ IsKafka
  /\ failures < MaxFailures
  /\ failures' = failures + 1
  /\ At(r, "update")
  /\ broker[req[r].env][Target(r)] \in 1 .. req[r].parts
  /\ Goto(r, "updateCluster")
  /\ past' = past \cup {"inexact"}
  /\ UNCHANGED <<dbVars, zk, broker, migrated, crashes, migrations>>

Crash ==
  /\ crashes < MaxCrashes
  /\ crashes' = crashes + 1
  /\ ~Idle \/ migrated # {}
  /\ req' = [r \in Requests |-> NoRequest]
  /\ migrated' = {}
  /\ past' = past \cup {"inexact"}
  /\ UNCHANGED <<dbVars, zk, broker, failures, migrations>>

-----------------------------------------------------------------------------
Serve(r) ==
  \/ updateTopic(r) \/ installTopicEnvRef(r)
  \/ approveTopic(r) \/ initTopicResource(r) \/ syncTopic(r) \/ nextEnvironment(r)
  \/ createTopic(r) \/ updatePartitions(r) \/ registerTopicToZk(r) \/ updateCluster(r)
  \/ updateStatusById(r)
  \/ deleteTopic(r) \/ checkPath(r) \/ deleteTopicInfo(r) \/ dropTopic(r) \/ deleteById(r)
  \/ migrateTopics(r) \/ migrateInZk(r)
  \/ refusedByKafka(r) \/ fail(r) \/ createPartitionsLost(r)

Next ==
  \/ addTopic \/ updateMigrateTopics \/ Crash
  \/ \E r \in Requests : Serve(r)

Spec == Init /\ [][Next]_vars
\* The threads of migrations go on; nothing else is forced.
FairSpec == Spec /\ WF_vars(updateMigrateTopics)

-----------------------------------------------------------------------------
(* Properties *)

\* Clients are never sent to a cluster without the topic: what a node in ZooKeeper names is
\* there, through refusals at every step, retries, deletions and deaths of the portal, as
\* long as one request is served at a time.
RegisteredExists == \A e \in Envs : zk[e] # NoCluster => broker[e][zk[e]] > 0

\* An approval that reports no failed environment has placed the topic everywhere where it
\* was asked to, whatever other approvals have failed before it.  (Not when a deletion or an
\* approval has stopped half-way, nor after a migration: then the row it compares with may
\* name another cluster than the node.)
ApprovalPlaces ==
  \A r \in Requests :
    At(r, "next") /\ req[r].op = "approve" /\ req[r].todo = {} /\ req[r].failed = {}
      /\ "half deleted" \notin past /\ crashes = 0 /\ migrations = 0
      => \A e \in Known : /\ refs[e] = req[r].target[e] /\ zk[e] = refs[e]
                          /\ broker[e][zk[e]] > 0

\* Unless the portal has died, what clients can see the portal can find: an environment
\* with a node in ZooKeeper has a row with a cluster, and a deleted topic has no node.
RegisteredIsKnown ==
  Idle /\ crashes = 0
    => \A e \in Envs : zk[e] # NoCluster => e \in Placed /\ status = "approved"

\* The database and ZooKeeper name the same cluster when nothing is under way, through
\* approvals, deletions and migrations that fail anywhere, unless the portal has died or a
\* request has overtaken the update of a migration.
DbNamesZkCluster ==
  Idle /\ migrated = {} /\ crashes = 0 /\ "overtaken" \notin past
    => \A e \in Placed : zk[e] \in {refs[e], NoCluster}

\* The partitions that the database shows are those of the clusters, as long as nothing has
\* failed and no topic was found on a cluster with another number.
PartitionsApplied ==
  Idle /\ status = "approved" /\ migrated = {} /\ "inexact" \notin past /\ "overtaken" \notin past
    => \A e \in Placed : broker[e][refs[e]] = partitions

\* The cluster of a migrated topic is brought up to date in the database: when requests and
\* migrations have ended, the row names the cluster that the node names.
DatabaseFollows ==
  \A e \in Envs : []<>(~Idle \/ migrated # {} \/ zk[e] = NoCluster \/ refs[e] = zk[e])
=============================================================================
