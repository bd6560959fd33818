------------------------ MODULE TopicLifecycleProofs ------------------------
(***************************************************************************)
(* Proofs about TopicLifecycle for any number of environments, clusters    *)
(* and partitions, any number of refusals and deaths of the portal, and    *)
(* either type of cluster.                                                 *)
(***************************************************************************)
EXTENDS TopicLifecycle, TLAPS

\* The bounds, without the rest of the assumption on the constants.
LEMMA Bounds == {MaxPartitions, MaxFailures, MaxCrashes, MaxMigrations} \subseteq Nat
BY TopicAssumption

LEMMA NoRequestIsRequest == NoRequest \in Request
<1>1. (CHOOSE e \in Envs : TRUE) \in Envs
  BY TopicAssumption
<1> QED
  BY <1>1, Bounds DEF NoRequest, Request, Ops, Steps

\* A deletion only visits environments whose row named a cluster when it was read.
DeletesPlaced ==
  \A r \in Requests : req[r].op = "delete" => \A e \in req[r].todo : req[r].rows[e] \in Clusters

TypeInv == TypeOK /\ DeletesPlaced

-----------------------------------------------------------------------------
(* What the helpers of the actions do to a request *)

\* The request of r becomes another one.
LEMMA RequestChanged ==
  ASSUME TypeOK, NEW r \in Requests, NEW request \in Request,
         req' = [req EXCEPT ![r] = request]
  PROVE  req' \in [Requests -> Request]
BY DEF TypeOK

LEMMA StartIsRequest ==
  ASSUME TypeOK, NEW r \in Requests, NEW request \in Request, Start(r, request)
  PROVE  req' \in [Requests -> Request] /\ past' \subseteq Events
<1>1. req' \in [Requests -> Request]
  BY RequestChanged DEF Start
<1>2. past' \subseteq Events
  BY DEF Start, TypeOK, Events
<1> QED
  BY <1>1, <1>2

LEMMA EndIsRequest ==
  ASSUME TypeOK, NEW r \in Requests, End(r)
  PROVE  req' \in [Requests -> Request]
BY RequestChanged, NoRequestIsRequest DEF End

\* A request at another step, or with other environments to do.
LEMMA StepIsRequest ==
  ASSUME NEW q \in Request, NEW step \in Steps
  PROVE  [q EXCEPT !.step = step] \in Request
BY Zenon DEF Request

LEMMA TodoIsRequest ==
  ASSUME NEW q \in Request, NEW es \in SUBSET Envs
  PROVE  [q EXCEPT !.todo = es] \in Request
BY Zenon DEF Request

LEMMA GotoIsRequest ==
  ASSUME TypeOK, NEW r \in Requests, NEW step \in Steps, Goto(r, step)
  PROVE  req' \in [Requests -> Request]
<1>1. [req[r] EXCEPT !.step = step] \in Request
  BY StepIsRequest DEF TypeOK
<1>2. req' = [req EXCEPT ![r] = [req[r] EXCEPT !.step = step]]
  BY DEF Goto, TypeOK
<1> QED
  BY <1>1, <1>2, RequestChanged

LEMMA DoneIsRequest ==
  ASSUME TypeOK, NEW r \in Requests, Done(r)
  PROVE  req' \in [Requests -> Request]
<1>0. "next" \in Steps /\ req[r] \in Request /\ req[r].todo \in SUBSET Envs
  BY DEF TypeOK, Request, Steps
<1>1. [req[r] EXCEPT !.step = "next", !.todo = @ \ {req[r].env}] \in Request
  <2>1. [req[r] EXCEPT !.step = "next"] \in Request
    BY <1>0, StepIsRequest
  <2>2. [[req[r] EXCEPT !.step = "next"] EXCEPT !.todo = req[r].todo \ {req[r].env}] \in Request
    BY <1>0, <2>1, TodoIsRequest
  <2>3. [req[r] EXCEPT !.step = "next", !.todo = @ \ {req[r].env}]
          = [[req[r] EXCEPT !.step = "next"] EXCEPT !.todo = req[r].todo \ {req[r].env}]
    BY <1>0 DEF Request
  <2> QED
    BY <2>2, <2>3
<1>2. req' = [req EXCEPT ![r] = [req[r] EXCEPT !.step = "next", !.todo = @ \ {req[r].env}]]
  BY DEF Done, TypeOK
<1> QED
  BY <1>1, <1>2, RequestChanged

LEMMA RaiseIsRequest ==
  ASSUME TypeOK, NEW r \in Requests, Raise(r)
  PROVE  req' \in [Requests -> Request] /\ past' \subseteq Events
<1> DEFINE q == req[r]
           failed == [q EXCEPT !.failed = @ \cup {q.env}, !.step = "next", !.todo = @ \ {q.env}]
<1>1. q \in Request
  BY DEF TypeOK
<1>2. failed \in Request
  <2> HIDE DEF q
  <2> QED
    BY <1>1 DEF Request, Steps
<1>3. req' = [req EXCEPT ![r] = IF q.op = "approve" THEN failed ELSE NoRequest]
  BY DEF Raise, TypeOK
<1>4. req' \in [Requests -> Request]
  <2> HIDE DEF q, failed
  <2>1. CASE q.op = "approve"
    BY <2>1, <1>2, <1>3, RequestChanged
  <2>2. CASE q.op # "approve"
    BY <2>2, <1>3, NoRequestIsRequest, RequestChanged
  <2> QED
    BY <2>1, <2>2
<1>5. past' \subseteq Events
  BY DEF Raise, TypeOK, Events
<1> QED
  BY <1>4, <1>5

\* The partitions of the topic on one cluster change.
LEMMA BrokerChanged ==
  ASSUME TypeOK, NEW e \in Envs, NEW c, NEW parts \in 0 .. MaxPartitions,
         broker' = [broker EXCEPT ![e][c] = parts]
  PROVE  broker' \in [Envs -> [Clusters -> 0 .. MaxPartitions]]
BY DEF TypeOK

LEMMA RequestFields ==
  ASSUME TypeOK, NEW r \in Requests
  PROVE  /\ req[r].env \in Envs
         /\ req[r].todo \subseteq Envs
         /\ Target(r) \in Clusters \cup {NoCluster}
         /\ req[r].parts \in 0 .. MaxPartitions
BY DEF TypeOK, Request, Target

-----------------------------------------------------------------------------
(* TypeOK *)

LEMMA TypeInit == Init => TypeInv
<1> SUFFICES ASSUME Init PROVE TypeInv
  OBVIOUS
<1>1. broker \in [Envs -> [Clusters -> 0 .. MaxPartitions]]
  BY Bounds DEF Init
<1>2. DeletesPlaced
  BY DEF Init, DeletesPlaced, NoRequest
<1>3. req \in [Requests -> Request]
  BY NoRequestIsRequest DEF Init
<1> QED
  BY <1>1, <1>2, <1>3, Bounds DEF Init, TypeInv, TypeOK

\* Each action leaves every variable in its type.
LEMMA TypeInvariance ==
  ASSUME TypeInv, [Next]_vars
  PROVE  TypeOK'
<1> USE DEF TypeInv
<1>1. CASE UNCHANGED vars
  BY <1>1 DEF vars, dbVars, counters, TypeOK
<1>2. CASE addTopic
  BY <1>2 DEF addTopic, counters, TypeOK
<1>3. CASE updateMigrateTopics
  <2>1. migrated' \subseteq Updates
    BY <1>3 DEF updateMigrateTopics, TypeOK
  <2>2. refs' \in [Envs -> Clusters \cup {NoCluster, Absent}]
    <3>1. PICK u \in migrated :
            refs' = [refs EXCEPT ![u.env] = IF refs[u.env] = u.src THEN u.target ELSE refs[u.env]]
      BY <1>3 DEF updateMigrateTopics
    <3>2. u.env \in Envs /\ u.target \in Clusters
      BY DEF TypeOK, Updates
    <3> QED
      BY <3>1, <3>2 DEF TypeOK
  <2> QED
    BY <1>3, <2>1, <2>2 DEF updateMigrateTopics, counters, TypeOK
<1>4. CASE Crash
  <2>1. req' \in [Requests -> Request]
    BY <1>4, NoRequestIsRequest DEF Crash
  <2>2. past' \subseteq Events
    BY <1>4 DEF Crash, TypeOK, Events
  <2>3. crashes' \in 0 .. MaxCrashes
    BY <1>4, Bounds DEF Crash, TypeOK
  <2>4. UNCHANGED <<status, partitions, refs, zk, broker, failures, migrations>> /\ migrated' = {}
    BY <1>4 DEF Crash, dbVars
  <2> QED
    BY <2>1, <2>2, <2>3, <2>4 DEF TypeOK
<1>5. ASSUME NEW r \in Requests, updateTopic(r)
      PROVE  TypeOK'
  <2>1. \A es \in SUBSET Envs :
          [NoRequest EXCEPT !.op = "edit", !.step = "insert", !.todo = es] \in Request
    BY NoRequestIsRequest DEF Request, Ops, Steps
  <2>2. req' \in [Requests -> Request] /\ past' \subseteq Events
    BY <1>5, <2>1, StartIsRequest DEF updateTopic
  <2> QED
    BY <1>5, <2>2 DEF updateTopic, counters, TypeOK
<1>6. ASSUME NEW r \in Requests, installTopicEnvRef(r)
      PROVE  TypeOK'
  <2>1. PICK e \in req[r].todo :
          /\ refs' = [refs EXCEPT ![e] = NoCluster]
          /\ \/ End(r)
             \/ req' = [req EXCEPT ![r] = [req[r] EXCEPT !.todo = @ \ {e}]]
    BY <1>6 DEF installTopicEnvRef, TypeOK
  <2>2. e \in Envs
    BY RequestFields
  <2>3. [req[r] EXCEPT !.todo = @ \ {e}] \in Request
    BY RequestFields, TodoIsRequest DEF TypeOK
  <2>4. req' \in [Requests -> Request]
    BY <2>1, <2>3, RequestChanged, EndIsRequest
  <2>5. refs' \in [Envs -> Clusters \cup {NoCluster, Absent}]
    BY <2>1, <2>2 DEF TypeOK
  <2> QED
    BY <1>6, <2>4, <2>5 DEF installTopicEnvRef, counters, TypeOK
<1>7. ASSUME NEW r \in Requests, approveTopic(r)
      PROVE  TypeOK'
  <2>1. PICK parts \in 1 .. MaxPartitions :
          /\ Start(r, [NoRequest EXCEPT !.op = "approve", !.todo = Known, !.parts = parts,
                         !.new = (status = "new"), !.old = partitions, !.rows = refs])
          /\ partitions' = parts
    BY <1>7 DEF approveTopic
  <2>2. parts \in 0 .. MaxPartitions /\ Known \subseteq Envs
    BY Bounds DEF Known
  <2>3. [NoRequest EXCEPT !.op = "approve", !.todo = Known, !.parts = parts,
           !.new = (status = "new"), !.old = partitions, !.rows = refs] \in Request
    BY <2>2, NoRequestIsRequest DEF Request, Ops, TypeOK
  <2>4. req' \in [Requests -> Request] /\ past' \subseteq Events
    BY <2>1, <2>3, StartIsRequest
  <2> QED
    BY <1>7, <2>1, <2>2, <2>4 DEF approveTopic, counters, TypeOK
<1>8. ASSUME NEW r \in Requests, initTopicResource(r)
      PROVE  TypeOK'
  <2> DEFINE q == req[r]
             chosen(e, c) == [q EXCEPT !.env = e, !.target[e] = c]
  <2>1. PICK e \in q.todo, c \in Clusters :
          req' = [req EXCEPT ![r] =
                    IF q.new \/ q.rows[e] # c THEN [chosen(e, c) EXCEPT !.step = "create"]
                    ELSE IF q.old # q.parts THEN [chosen(e, c) EXCEPT !.step = "update"]
                    ELSE [chosen(e, c) EXCEPT !.todo = @ \ {e}]]
    BY <1>8 DEF initTopicResource
  <2>2. q \in Request /\ e \in Envs
    BY RequestFields DEF TypeOK
  <2> HIDE DEF q
  <2>3. chosen(e, c) \in Request
    BY <2>2 DEF Request
  <2> HIDE DEF chosen
  <2>4. /\ [chosen(e, c) EXCEPT !.step = "create"] \in Request
        /\ [chosen(e, c) EXCEPT !.step = "update"] \in Request
        /\ [chosen(e, c) EXCEPT !.todo = @ \ {e}] \in Request
    BY <2>3 DEF Request, Steps
  <2>5. req' \in [Requests -> Request]
    BY <2>1, <2>4 DEF TypeOK
  <2> QED
    BY <1>8, <2>5 DEF initTopicResource, dbVars, counters, TypeOK
<1>9. ASSUME NEW r \in Requests, syncTopic(r)
      PROVE  TypeOK'
  <2>1. \A es \in SUBSET Envs :
          [NoRequest EXCEPT !.op = "sync", !.todo = es, !.parts = partitions] \in Request
    BY NoRequestIsRequest DEF Request, Ops, TypeOK
  <2>2. req' \in [Requests -> Request] /\ past' \subseteq Events
    BY <1>9, <2>1, StartIsRequest DEF syncTopic
  <2>3. refs' \in [Envs -> Clusters \cup {NoCluster, Absent}]
    BY <1>9 DEF syncTopic, TypeOK
  <2> QED
    BY <1>9, <2>2, <2>3 DEF syncTopic, counters, TypeOK
<1>10. ASSUME NEW r \in Requests, nextEnvironment(r)
       PROVE  TypeOK'
  <2> DEFINE q == req[r]
  <2>1. PICK e \in q.todo, c \in Clusters :
          req' = [req EXCEPT ![r] = [q EXCEPT !.env = e, !.target[e] = c, !.step = "create"]]
    BY <1>10 DEF nextEnvironment
  <2>2. q \in Request /\ e \in Envs
    BY RequestFields DEF TypeOK
  <2> HIDE DEF q
  <2>3. [q EXCEPT !.env = e, !.target[e] = c, !.step = "create"] \in Request
    BY <2>2 DEF Request, Steps
  <2>4. req' \in [Requests -> Request]
    BY <2>1, <2>3, RequestChanged
  <2> QED
    BY <1>10, <2>4 DEF nextEnvironment, dbVars, counters, TypeOK
<1>11. ASSUME NEW r \in Requests, createTopic(r)
       PROVE  TypeOK'
  <2>1. req' \in [Requests -> Request]
    BY <1>11, GotoIsRequest DEF createTopic, Steps
  <2>2. Created(broker[req[r].env][Target(r)], req[r].parts) \in 0 .. MaxPartitions
          \/ Target(r) \notin Clusters
    BY RequestFields DEF Created, TypeOK
  <2>3. broker' \in [Envs -> [Clusters -> 0 .. MaxPartitions]]
    BY <1>11, <2>2, RequestFields DEF createTopic, TypeOK
  <2>4. past' \subseteq Events
    BY <1>11 DEF createTopic, Events, TypeOK
  <2> QED
    BY <1>11, <2>1, <2>3, <2>4 DEF createTopic, dbVars, counters, TypeOK
<1>12. ASSUME NEW r \in Requests, updatePartitions(r)
       PROVE  TypeOK'
  <2>1. req' \in [Requests -> Request]
    BY <1>12, GotoIsRequest DEF updatePartitions, Steps
  <2>2. broker' \in [Envs -> [Clusters -> 0 .. MaxPartitions]]
    BY <1>12, RequestFields DEF updatePartitions, TypeOK
  <2> QED
    BY <1>12, <2>1, <2>2 DEF updatePartitions, dbVars, counters, TypeOK
<1>13. ASSUME NEW r \in Requests, registerTopicToZk(r)
       PROVE  TypeOK'
  <2>1. req' \in [Requests -> Request]
    BY <1>13, GotoIsRequest DEF registerTopicToZk, Steps
  <2>2. zk' \in [Envs -> Clusters \cup {NoCluster}]
    BY <1>13, RequestFields DEF registerTopicToZk, TypeOK
  <2> QED
    BY <1>13, <2>1, <2>2 DEF registerTopicToZk, dbVars, counters, TypeOK
<1>14. ASSUME NEW r \in Requests, updateCluster(r)
       PROVE  TypeOK'
  <2>1. req' \in [Requests -> Request]
    BY <1>14, DoneIsRequest DEF updateCluster
  <2>2. refs' \in [Envs -> Clusters \cup {NoCluster, Absent}]
    BY <1>14, RequestFields DEF updateCluster, TypeOK
  <2> QED
    BY <1>14, <2>1, <2>2 DEF updateCluster, counters, TypeOK
<1>15. ASSUME NEW r \in Requests, updateStatusById(r)
       PROVE  TypeOK'
  <2>1. req' \in [Requests -> Request]
    BY <1>15, EndIsRequest DEF updateStatusById
  <2>2. status' \in {"none", "new", "approved", "deleted"}
    BY <1>15 DEF updateStatusById, TypeOK
  <2> QED
    BY <1>15, <2>1, <2>2 DEF updateStatusById, counters, TypeOK
<1>16. ASSUME NEW r \in Requests, deleteTopic(r)
       PROVE  TypeOK'
  <2>1. [NoRequest EXCEPT !.op = "delete", !.todo = Placed, !.rows = refs] \in Request
    BY NoRequestIsRequest DEF Request, Ops, Placed, TypeOK
  <2>2. req' \in [Requests -> Request] /\ past' \subseteq Events
    BY <1>16, <2>1, StartIsRequest DEF deleteTopic
  <2> QED
    BY <1>16, <2>2 DEF deleteTopic, dbVars, counters, TypeOK
<1>17. ASSUME NEW r \in Requests, checkPath(r)
       PROVE  TypeOK'
  <2> DEFINE q == req[r]
             skipped(e) == [q EXCEPT !.todo = @ \ {e}]
             cleaned(e) == [q EXCEPT !.env = e, !.target[e] = q.rows[e], !.step = "unregister"]
  <2>1. PICK e \in q.todo :
          req' = [req EXCEPT ![r] = IF zk[e] = NoCluster THEN skipped(e) ELSE cleaned(e)]
    BY <1>17 DEF checkPath
  <2>2. q \in Request /\ e \in Envs
    BY RequestFields DEF TypeOK
  <2>3. q.rows[e] \in Clusters
    BY <1>17, <2>1 DEF checkPath, At, DeletesPlaced
  <2> HIDE DEF q
  <2>4. skipped(e) \in Request /\ cleaned(e) \in Request
    BY <2>2, <2>3 DEF Request, Steps
  <2> HIDE DEF skipped, cleaned
  <2>5. req' \in [Requests -> Request]
    BY <2>1, <2>4 DEF TypeOK
  <2> QED
    BY <1>17, <2>5 DEF checkPath, dbVars, counters, TypeOK
<1>18. ASSUME NEW r \in Requests, deleteTopicInfo(r)
       PROVE  TypeOK'
  <2>1. req' \in [Requests -> Request]
    BY <1>18, GotoIsRequest DEF deleteTopicInfo, Steps
  <2>2. zk' \in [Envs -> Clusters \cup {NoCluster}]
    BY <1>18 DEF deleteTopicInfo, TypeOK
  <2> QED
    BY <1>18, <2>1, <2>2 DEF deleteTopicInfo, dbVars, counters, TypeOK
<1>19. ASSUME NEW r \in Requests, dropTopic(r)
       PROVE  TypeOK'
  <2>1. req' \in [Requests -> Request]
    BY <1>19, DoneIsRequest DEF dropTopic
  <2>2. broker' \in [Envs -> [Clusters -> 0 .. MaxPartitions]]
    <3>1. 0 \in 0 .. MaxPartitions
      BY Bounds
    <3> QED
      BY <1>19, <3>1, RequestFields DEF dropTopic, TypeOK
  <2> QED
    BY <1>19, <2>1, <2>2 DEF dropTopic, dbVars, counters, TypeOK
<1>20. ASSUME NEW r \in Requests, deleteById(r)
       PROVE  TypeOK'
  <2>1. req' \in [Requests -> Request]
    BY <1>20, EndIsRequest DEF deleteById
  <2> QED
    BY <1>20, <2>1 DEF deleteById, counters, TypeOK
<1>21. ASSUME NEW r \in Requests, migrateTopics(r)
       PROVE  TypeOK'
  <2>1. PICK e \in Known, c \in Clusters :
          Start(r, [NoRequest EXCEPT !.op = "migrate", !.step = "create", !.env = e,
                      !.target[e] = c, !.parts = partitions, !.rows = refs])
    BY <1>21 DEF migrateTopics
  <2>2. e \in Envs
    BY DEF Known
  <2>3. [NoRequest EXCEPT !.op = "migrate", !.step = "create", !.env = e,
           !.target[e] = c, !.parts = partitions, !.rows = refs] \in Request
    BY <2>2, NoRequestIsRequest DEF Request, Ops, Steps, TypeOK
  <2>4. req' \in [Requests -> Request] /\ past' \subseteq Events
    BY <2>1, <2>3, StartIsRequest
  <2>5. migrations' \in 0 .. MaxMigrations
    BY <1>21, Bounds DEF migrateTopics, TypeOK
  <2>6. UNCHANGED <<status, partitions, refs, zk, broker, migrated, failures, crashes>>
    BY <1>21 DEF migrateTopics, dbVars
  <2> QED
    BY <2>4, <2>5, <2>6 DEF TypeOK
<1>22. ASSUME NEW r \in Requests, migrateInZk(r)
       PROVE  TypeOK'
  <2>1. req' \in [Requests -> Request]
    BY <1>22, EndIsRequest DEF migrateInZk
  <2>2. zk' \in [Envs -> Clusters \cup {NoCluster}]
    BY <1>22, RequestFields DEF migrateInZk, TypeOK
  <2>3. migrated' \subseteq Updates
    BY <1>22 DEF migrateInZk, TypeOK
  <2> QED
    BY <1>22, <2>1, <2>2, <2>3 DEF migrateInZk, dbVars, counters, TypeOK
<1>23. ASSUME NEW r \in Requests, refusedByKafka(r)
       PROVE  TypeOK'
  <2>1. req' \in [Requests -> Request] /\ past' \subseteq Events
    BY <1>23, RaiseIsRequest DEF refusedByKafka
  <2> QED
    BY <1>23, <2>1 DEF refusedByKafka, dbVars, counters, TypeOK
<1>24. ASSUME NEW r \in Requests, fail(r)
       PROVE  TypeOK'
  <2>1. req' \in [Requests -> Request] /\ past' \subseteq Events
    BY <1>24, RaiseIsRequest DEF fail
  <2>2. Created(broker[req[r].env][Target(r)], req[r].parts) \in 0 .. MaxPartitions
          \/ Target(r) \notin Clusters
    BY RequestFields DEF Created, TypeOK
  <2>3. broker' \in [Envs -> [Clusters -> 0 .. MaxPartitions]]
    <3>1. 0 \in 0 .. MaxPartitions
      BY Bounds
    <3>2. CASE broker' = broker
      BY <3>2 DEF TypeOK
    <3>3. CASE broker' = [broker EXCEPT ![req[r].env][Target(r)] = Created(@, req[r].parts)]
      BY <2>2, <3>3, RequestFields DEF TypeOK
    <3>4. CASE broker' = [broker EXCEPT ![req[r].env][Target(r)] = 0]
      BY <3>1, <3>4, RequestFields DEF TypeOK
    <3> QED
      BY <1>24, <3>2, <3>3, <3>4 DEF fail
  <2>4. failures' \in 0 .. MaxFailures
    BY <1>24, Bounds DEF fail, TypeOK
  <2>5. UNCHANGED <<status, partitions, refs, zk, migrated, crashes, migrations>>
    BY <1>24 DEF fail, dbVars
  <2> QED
    BY <2>1, <2>3, <2>4, <2>5 DEF TypeOK
<1>25. ASSUME NEW r \in Requests, createPartitionsLost(r)
       PROVE  TypeOK'
  <2>1. req' \in [Requests -> Request]
    BY <1>25, GotoIsRequest DEF createPartitionsLost, Steps
  <2>2. past' \subseteq Events
    BY <1>25 DEF createPartitionsLost, TypeOK, Events
  <2>3. failures' \in 0 .. MaxFailures
    BY <1>25, Bounds DEF createPartitionsLost, TypeOK
  <2>4. UNCHANGED <<status, partitions, refs, zk, broker, migrated, crashes, migrations>>
    BY <1>25 DEF createPartitionsLost, dbVars
  <2> QED
    BY <2>1, <2>2, <2>3, <2>4 DEF TypeOK
<1> QED
  BY <1>1, <1>2, <1>3, <1>4, <1>5, <1>6, <1>7, <1>8, <1>9, <1>10, <1>11, <1>12, <1>13, <1>14,
     <1>15, <1>16, <1>17, <1>18, <1>19, <1>20, <1>21, <1>22, <1>23, <1>24, <1>25
     DEF Next, Serve

\* A request becomes one that deletes where its row named a cluster, or does not delete.
LEMMA DeletesChanged ==
  ASSUME TypeInv, NEW r \in Requests, NEW q,
         req' = [req EXCEPT ![r] = q],
         q.op = "delete" => \A e \in q.todo : q.rows[e] \in Clusters
  PROVE  DeletesPlaced'
BY DEF TypeInv, TypeOK, DeletesPlaced

LEMMA DeletesSteps ==
  ASSUME TypeInv, NEW r \in Requests,
         (\E step \in Steps : Goto(r, step)) \/ Done(r) \/ End(r) \/ Raise(r)
  PROVE  DeletesPlaced'
<1> DEFINE q == req[r]
           failed == [q EXCEPT !.failed = @ \cup {q.env}, !.step = "next", !.todo = @ \ {q.env}]
<1>1. q \in Request /\ (q.op = "delete" => \A e \in q.todo : q.rows[e] \in Clusters)
  BY DEF TypeInv, TypeOK, DeletesPlaced
<1>2. ASSUME NEW step \in Steps, Goto(r, step)
      PROVE  DeletesPlaced'
  <2>1. req' = [req EXCEPT ![r] = [q EXCEPT !.step = step]]
    BY <1>2 DEF Goto, TypeInv, TypeOK
  <2> HIDE DEF q
  <2>2. [q EXCEPT !.step = step].op = "delete"
          => \A e \in [q EXCEPT !.step = step].todo : [q EXCEPT !.step = step].rows[e] \in Clusters
    BY <1>1 DEF Request
  <2> QED
    BY <2>1, <2>2, DeletesChanged
<1>3. CASE Done(r)
  <2> DEFINE p == [q EXCEPT !.step = "next", !.todo = @ \ {q.env}]
  <2>1. req' = [req EXCEPT ![r] = p]
    BY <1>3 DEF Done, TypeInv, TypeOK
  <2> HIDE DEF q
  <2>2. p.op = "delete" => \A e \in p.todo : p.rows[e] \in Clusters
    BY <1>1 DEF Request
  <2> HIDE DEF p
  <2> QED
    BY <2>1, <2>2, DeletesChanged
<1>4. CASE End(r)
  <2>1. NoRequest.op # "delete"
    BY DEF NoRequest
  <2> QED
    BY <1>4, <2>1, DeletesChanged DEF End
<1>5. CASE Raise(r)
  <2>1. req' = [req EXCEPT ![r] = IF q.op = "approve" THEN failed ELSE NoRequest]
    BY <1>5 DEF Raise, TypeInv, TypeOK
  <2>2. NoRequest.op # "delete"
    BY DEF NoRequest
  <2> HIDE DEF q
  <2>3. CASE q.op = "approve"
    <3>1. failed.op # "delete"
      BY <1>1, <2>3 DEF Request
    <3> HIDE DEF failed
    <3> QED
      BY <2>1, <2>3, <3>1, DeletesChanged
  <2>4. CASE q.op # "approve"
    BY <2>1, <2>2, <2>4, DeletesChanged
  <2> QED
    BY <2>3, <2>4
<1> QED
  BY <1>2, <1>3, <1>4, <1>5

LEMMA DeletesStart ==
  ASSUME TypeInv, NEW r \in Requests, NEW q \in Request, Start(r, q), q.op # "delete"
  PROVE  DeletesPlaced'
BY DeletesChanged DEF Start

LEMMA DeletesInvariance ==
  ASSUME TypeInv, [Next]_vars
  PROVE  DeletesPlaced'
<1>1. CASE UNCHANGED req
  BY <1>1 DEF TypeInv, DeletesPlaced
<1>2. CASE Crash
  <2>1. NoRequest.op # "delete"
    BY DEF NoRequest
  <2> QED
    BY <1>2, <2>1 DEF Crash, DeletesPlaced
<1>3. ASSUME NEW r \in Requests, updateTopic(r)
      PROVE  DeletesPlaced'
  <2>1. \A es : [NoRequest EXCEPT !.op = "edit", !.step = "insert", !.todo = es].op # "delete"
    BY DEF NoRequest
  <2> QED
    BY <1>3, <2>1, DeletesChanged DEF updateTopic, Start
<1>4. ASSUME NEW r \in Requests, installTopicEnvRef(r)
      PROVE  DeletesPlaced'
  <2>1. PICK e \in req[r].todo :
          End(r) \/ req' = [req EXCEPT ![r] = [req[r] EXCEPT !.todo = @ \ {e}]]
    BY <1>4 DEF installTopicEnvRef, TypeInv, TypeOK
  <2>2. [req[r] EXCEPT !.todo = @ \ {e}].op = "delete"
          => \A f \in [req[r] EXCEPT !.todo = @ \ {e}].todo :
               [req[r] EXCEPT !.todo = @ \ {e}].rows[f] \in Clusters
    BY DEF TypeInv, TypeOK, Request, DeletesPlaced
  <2> QED
    BY <2>1, <2>2, DeletesChanged, DeletesSteps
<1>5. ASSUME NEW r \in Requests, approveTopic(r)
      PROVE  DeletesPlaced'
  <2>1. PICK parts \in 1 .. MaxPartitions :
          Start(r, [NoRequest EXCEPT !.op = "approve", !.todo = Known, !.parts = parts,
                      !.new = (status = "new"), !.old = partitions, !.rows = refs])
    BY <1>5 DEF approveTopic
  <2>2. [NoRequest EXCEPT !.op = "approve", !.todo = Known, !.parts = parts,
           !.new = (status = "new"), !.old = partitions, !.rows = refs].op # "delete"
    BY DEF NoRequest
  <2> QED
    BY <2>1, <2>2, DeletesChanged DEF Start
<1>6. ASSUME NEW r \in Requests, initTopicResource(r)
      PROVE  DeletesPlaced'
  <2> DEFINE q == req[r]
             chosen(e, c) == [q EXCEPT !.env = e, !.target[e] = c]
  <2>1. PICK e \in q.todo, c \in Clusters :
          req' = [req EXCEPT ![r] =
                    IF q.new \/ q.rows[e] # c THEN [chosen(e, c) EXCEPT !.step = "create"]
                    ELSE IF q.old # q.parts THEN [chosen(e, c) EXCEPT !.step = "update"]
                    ELSE [chosen(e, c) EXCEPT !.todo = @ \ {e}]]
    BY <1>6 DEF initTopicResource
  <2>2. q \in Request /\ q.op = "approve"
    BY <1>6 DEF initTopicResource, TypeInv, TypeOK
  <2> HIDE DEF q
  <2>3. /\ [chosen(e, c) EXCEPT !.step = "create"].op # "delete"
        /\ [chosen(e, c) EXCEPT !.step = "update"].op # "delete"
        /\ [chosen(e, c) EXCEPT !.todo = @ \ {e}].op # "delete"
    BY <2>2 DEF Request
  <2> HIDE DEF chosen
  <2> QED
    BY <2>1, <2>3, DeletesChanged
<1>7. ASSUME NEW r \in Requests, syncTopic(r)
      PROVE  DeletesPlaced'
  <2>1. \A es : [NoRequest EXCEPT !.op = "sync", !.todo = es, !.parts = partitions].op # "delete"
    BY DEF NoRequest
  <2> QED
    BY <1>7, <2>1, DeletesChanged DEF syncTopic, Start
<1>8. ASSUME NEW r \in Requests, nextEnvironment(r)
      PROVE  DeletesPlaced'
  <2>1. PICK e \in req[r].todo, c \in Clusters :
          req' = [req EXCEPT ![r] = [req[r] EXCEPT !.env = e, !.target[e] = c, !.step = "create"]]
    BY <1>8 DEF nextEnvironment
  <2>2. [req[r] EXCEPT !.env = e, !.target[e] = c, !.step = "create"].op # "delete"
    BY <1>8 DEF nextEnvironment, TypeInv, TypeOK, Request
  <2> QED
    BY <2>1, <2>2, DeletesChanged
<1>9. ASSUME NEW r \in Requests, deleteTopic(r)
      PROVE  DeletesPlaced'
  <2> DEFINE q == [NoRequest EXCEPT !.op = "delete", !.todo = Placed, !.rows = refs]
  <2>1. \A e \in q.todo : q.rows[e] \in Clusters
    BY DEF NoRequest, Placed
  <2>2. req' = [req EXCEPT ![r] = q]
    BY <1>9 DEF deleteTopic, Start
  <2> HIDE DEF q
  <2> QED
    BY <2>1, <2>2, DeletesChanged
<1>10. ASSUME NEW r \in Requests, checkPath(r)
       PROVE  DeletesPlaced'
  <2> DEFINE q == req[r]
             skipped(e) == [q EXCEPT !.todo = @ \ {e}]
             cleaned(e) == [q EXCEPT !.env = e, !.target[e] = q.rows[e], !.step = "unregister"]
  <2>1. PICK e \in q.todo :
          req' = [req EXCEPT ![r] = IF zk[e] = NoCluster THEN skipped(e) ELSE cleaned(e)]
    BY <1>10 DEF checkPath
  <2>2. q \in Request /\ \A f \in q.todo : q.rows[f] \in Clusters
    BY <1>10 DEF checkPath, At, TypeInv, TypeOK, DeletesPlaced
  <2> HIDE DEF q
  <2>3. /\ \A f \in skipped(e).todo : skipped(e).rows[f] \in Clusters
        /\ \A f \in cleaned(e).todo : cleaned(e).rows[f] \in Clusters
    BY <2>2 DEF Request
  <2> HIDE DEF skipped, cleaned
  <2> QED
    BY <2>1, <2>3, DeletesChanged
<1>11. ASSUME NEW r \in Requests, migrateTopics(r)
       PROVE  DeletesPlaced'
  <2>1. PICK e \in Known, c \in Clusters :
          Start(r, [NoRequest EXCEPT !.op = "migrate", !.step = "create", !.env = e,
                      !.target[e] = c, !.parts = partitions, !.rows = refs])
    BY <1>11 DEF migrateTopics
  <2>2. [NoRequest EXCEPT !.op = "migrate", !.step = "create", !.env = e,
           !.target[e] = c, !.parts = partitions, !.rows = refs].op # "delete"
    BY DEF NoRequest
  <2> QED
    BY <2>1, <2>2, DeletesChanged DEF Start
<1>12. ASSUME NEW r \in Requests,
              \/ createTopic(r) \/ updatePartitions(r) \/ registerTopicToZk(r)
              \/ deleteTopicInfo(r) \/ createPartitionsLost(r)
       PROVE  DeletesPlaced'
  <2>1. \E step \in Steps : Goto(r, step)
    BY <1>12 DEF createTopic, updatePartitions, registerTopicToZk, deleteTopicInfo,
                 createPartitionsLost, Steps
  <2> QED
    BY <2>1, DeletesSteps
<1>13. ASSUME NEW r \in Requests,
              \/ updateCluster(r) \/ updateStatusById(r) \/ dropTopic(r) \/ deleteById(r)
              \/ migrateInZk(r) \/ refusedByKafka(r) \/ fail(r)
       PROVE  DeletesPlaced'
  BY <1>13, DeletesSteps DEF updateCluster, updateStatusById, dropTopic, deleteById, migrateInZk,
                             refusedByKafka, fail
<1>14. addTopic \/ updateMigrateTopics \/ UNCHANGED vars => UNCHANGED req
  BY DEF addTopic, updateMigrateTopics, vars
<1> QED
  BY <1>1, <1>2, <1>3, <1>4, <1>5, <1>6, <1>7, <1>8, <1>9, <1>10, <1>11, <1>12, <1>13, <1>14
     DEF Next, Serve

\* TypeOK at every step: a topic's rows, nodes, partitions and requests are of the values the
\* portal writes, whatever refuses and whenever it dies, however many requests it serves at
\* once.  (A deletion has a cluster for every environment it cleans: deleteTopic filters the
\* rows without one.)
THEOREM TopicTypeCorrect == Spec => []TypeOK
<1>1. Init => TypeInv
  BY TypeInit
<1>2. TypeInv /\ [Next]_vars => TypeInv'
  BY TypeInvariance, DeletesInvariance DEF TypeInv
<1>3. TypeInv => TypeOK
  BY DEF TypeInv
<1> QED
  BY <1>1, <1>2, <1>3, PTL DEF Spec

-----------------------------------------------------------------------------
(* RegisteredExists, for one request at a time *)

\* How far a request has come: it only creates, updates and registers with partitions on a
\* cluster, the topic is there when it registers it, and not registered when it drops it.
PlacedByRequest(r) ==
  /\ req[r].op \in {"approve", "sync", "migrate"} => req[r].parts > 0
  /\ req[r].op = "approve" => partitions > 0
  /\ At(r, "create") \/ At(r, "update") \/ At(r, "register")
       => req[r].op \in {"approve", "sync", "migrate"} /\ Target(r) \in Clusters
  /\ At(r, "register") => broker[req[r].env][Target(r)] > 0
  /\ At(r, "drop") => zk[req[r].env] = NoCluster

\* RegisteredExists is not inductive: between creating and registering, and between
\* unregistering and dropping, only the request knows what will be named.
RegisterInv ==
  /\ RegisteredExists
  /\ status = "approved" => partitions > 0
  /\ \A r \in Requests : PlacedByRequest(r)

OneAtATime == \A r, s \in Requests : r = s

LEMMA RegisterInit == Init => RegisterInv
BY DEF Init, RegisterInv, RegisteredExists, PlacedByRequest, At, NoRequest

\* Nothing asks more of a thread without a request.
LEMMA NoRequestPlaced ==
  ASSUME NEW r \in Requests, req'[r] = NoRequest
  PROVE  PlacedByRequest(r)'
BY DEF PlacedByRequest, At, NoRequest

\* A step that leaves brokers and ZooKeeper alone, and ends or moves the request where
\* nothing is created, registered or dropped.
LEMMA RestsPlaced ==
  ASSUME TypeInv, RegisterInv, OneAtATime, NEW r \in Requests, NEW q \in Request,
         req' = [req EXCEPT ![r] = q], UNCHANGED <<zk, broker>>,
         q.step \in {"insert", "next", "unregister", "updateCluster"} \/ q.op = "none",
         q.op \in {"approve", "sync", "migrate"} => q.parts > 0,
         q.op = "approve" => partitions' > 0,
         status' = "approved" => partitions' > 0
  PROVE  RegisterInv'
<1>1. req'[r] = q
  BY DEF TypeInv, TypeOK
<1>2. PlacedByRequest(r)'
  BY <1>1 DEF PlacedByRequest, At, Request
<1> QED
  BY <1>2 DEF OneAtATime, RegisterInv, RegisteredExists

\* The same when a topic has been put on a cluster.
LEMMA CreatedRegistered ==
  ASSUME TypeInv, RegisterInv, NEW e \in Envs, NEW c \in Clusters, NEW parts \in 0 .. MaxPartitions,
         broker' = [broker EXCEPT ![e][c] = parts], parts > 0, UNCHANGED zk
  PROVE  RegisteredExists' /\ broker'[e][c] > 0
<1>1. /\ broker'[e][c] = parts
      /\ \A f \in Envs, d \in Clusters : <<f, d>> # <<e, c>> => broker'[f][d] = broker[f][d]
  BY DEF TypeInv, TypeOK
<1>2. \A f \in Envs : zk[f] # NoCluster => zk[f] \in Clusters /\ broker[f][zk[f]] > 0
  BY DEF TypeInv, TypeOK, RegisterInv, RegisteredExists
<1>3. ASSUME NEW f \in Envs, zk'[f] # NoCluster
      PROVE  broker'[f][zk'[f]] > 0
  BY <1>1, <1>2, <1>3
<1> QED
  BY <1>1, <1>3 DEF RegisteredExists

\* The same when it has been dropped where no node names it.
LEMMA DroppedRegistered ==
  ASSUME TypeInv, RegisterInv, NEW e \in Envs, NEW c,
         broker' = [broker EXCEPT ![e][c] = 0], zk[e] = NoCluster, UNCHANGED zk
  PROVE  RegisteredExists'
<1>1. \A f \in Envs : f # e => broker'[f] = broker[f]
  BY DEF TypeInv, TypeOK
<1> QED
  BY <1>1 DEF RegisterInv, RegisteredExists

\* What RegisterInv says of a request, and that of the others there is nothing to say.
LEMMA OnlyRequest ==
  ASSUME OneAtATime, NEW r \in Requests, RegisteredExists', PlacedByRequest(r)',
         status' = "approved" => partitions' > 0
  PROVE  RegisterInv'
BY DEF OneAtATime, RegisterInv

\* A refused request is over, or goes on with the next environment.
LEMMA RaiseRegisters ==
  ASSUME TypeInv, RegisterInv, OneAtATime, NEW r \in Requests, Raise(r), RegisteredExists',
         UNCHANGED <<status, partitions>>
  PROVE  RegisterInv'
<1> DEFINE q == req[r]
           failed == [q EXCEPT !.failed = @ \cup {q.env}, !.step = "next", !.todo = @ \ {q.env}]
<1>1. req'[r] = IF q.op = "approve" THEN failed ELSE NoRequest
  BY DEF Raise, TypeInv, TypeOK
<1>2. CASE q.op = "approve"
  <2>1. q \in Request /\ q.parts > 0 /\ partitions > 0
    BY <1>2 DEF TypeInv, TypeOK, RegisterInv, PlacedByRequest
  <2> HIDE DEF q
  <2>2. failed.op = "approve" /\ failed.step = "next" /\ failed.parts > 0
    BY <1>2, <2>1 DEF Request
  <2> HIDE DEF failed
  <2>3. PlacedByRequest(r)'
    BY <1>1, <1>2, <2>1, <2>2 DEF PlacedByRequest, At
  <2> QED
    BY <2>3, OnlyRequest DEF RegisterInv
<1>3. CASE q.op # "approve"
  BY <1>1, <1>3, NoRequestPlaced, OnlyRequest DEF RegisterInv
<1> QED
  BY <1>2, <1>3

LEMMA RegisterInvariance ==
  ASSUME TypeInv, RegisterInv, OneAtATime, [Next]_vars
  PROVE  RegisterInv'
<1>1. CASE UNCHANGED vars
  BY <1>1 DEF vars, dbVars, RegisterInv, RegisteredExists, PlacedByRequest, At, Target
<1>2. CASE addTopic
  BY <1>2 DEF addTopic, RegisterInv, RegisteredExists, PlacedByRequest, At, Target
<1>3. CASE updateMigrateTopics
  BY <1>3 DEF updateMigrateTopics, RegisterInv, RegisteredExists, PlacedByRequest, At, Target
<1>4. CASE Crash
  <2>1. \A r \in Requests : PlacedByRequest(r)'
    BY <1>4, NoRequestPlaced DEF Crash
  <2> QED
    BY <1>4, <2>1 DEF Crash, dbVars, RegisterInv, RegisteredExists
<1>5. ASSUME NEW r \in Requests, updateTopic(r)
      PROVE  RegisterInv'
  <2>1. PICK es \in SUBSET Envs :
          Start(r, [NoRequest EXCEPT !.op = "edit", !.step = "insert", !.todo = es])
    BY <1>5 DEF updateTopic
  <2> DEFINE q == [NoRequest EXCEPT !.op = "edit", !.step = "insert", !.todo = es]
  <2>2. q \in Request /\ q.op = "edit" /\ q.step = "insert"
    BY NoRequestIsRequest DEF Request, Ops, Steps, NoRequest
  <2>3. req' = [req EXCEPT ![r] = q]
    BY <2>1 DEF Start
  <2> HIDE DEF q
  <2> QED
    BY <1>5, <2>2, <2>3, RestsPlaced DEF updateTopic, RegisterInv
<1>6. ASSUME NEW r \in Requests, installTopicEnvRef(r)
      PROVE  RegisterInv'
  <2>1. PICK e \in req[r].todo :
          End(r) \/ req' = [req EXCEPT ![r] = [req[r] EXCEPT !.todo = @ \ {e}]]
    BY <1>6 DEF installTopicEnvRef, TypeInv, TypeOK
  <2> DEFINE q == req[r]
             p == [q EXCEPT !.todo = @ \ {e}]
  <2>2. /\ q \in Request /\ q.step = "insert"
        /\ q.op \in {"approve", "sync", "migrate"} => q.parts > 0
        /\ q.op = "approve" => partitions > 0
    BY <1>6 DEF installTopicEnvRef, At, TypeInv, TypeOK, RegisterInv, PlacedByRequest
  <2>3. req'[r] = NoRequest \/ req'[r] = p
    BY <2>1 DEF End, TypeInv, TypeOK
  <2>4. UNCHANGED <<zk, broker, status, partitions>>
    BY <1>6 DEF installTopicEnvRef
  <2> HIDE DEF q
  <2>5. p.step = "insert" /\ p.op = q.op /\ p.parts = q.parts
    BY <2>2 DEF Request
  <2> HIDE DEF p
  <2>6. PlacedByRequest(r)'
    <3>1. CASE req'[r] = NoRequest
      BY <3>1, NoRequestPlaced
    <3>2. CASE req'[r] = p
      BY <3>2, <2>2, <2>4, <2>5 DEF PlacedByRequest, At
    <3> QED
      BY <2>3, <3>1, <3>2
  <2> QED
    BY <2>4, <2>6, OnlyRequest DEF RegisterInv, RegisteredExists
<1>7. ASSUME NEW r \in Requests, approveTopic(r)
      PROVE  RegisterInv'
  <2> DEFINE q(parts) == [NoRequest EXCEPT !.op = "approve", !.todo = Known, !.parts = parts,
                            !.new = (status = "new"), !.old = partitions, !.rows = refs]
  <2>1. PICK parts \in 1 .. MaxPartitions : Start(r, q(parts)) /\ partitions' = parts
    BY <1>7 DEF approveTopic
  <2>2. parts \in 0 .. MaxPartitions /\ parts > 0 /\ Known \subseteq Envs
    BY Bounds DEF Known
  <2>3. q(parts) \in Request /\ q(parts).step = "next" /\ q(parts).parts = parts
    BY <2>2, NoRequestIsRequest DEF Request, Ops, TypeInv, TypeOK, NoRequest
  <2>4. req' = [req EXCEPT ![r] = q(parts)] /\ UNCHANGED <<zk, broker>>
    BY <1>7, <2>1 DEF Start, approveTopic
  <2> HIDE DEF q
  <2> QED
    BY <2>1, <2>2, <2>3, <2>4, RestsPlaced
<1>8. ASSUME NEW r \in Requests, initTopicResource(r)
      PROVE  RegisterInv'
  <2> DEFINE q == req[r]
             chosen(e, c) == [q EXCEPT !.env = e, !.target[e] = c]
  <2>1. PICK e \in q.todo, c \in Clusters :
          req' = [req EXCEPT ![r] =
                    IF q.new \/ q.rows[e] # c THEN [chosen(e, c) EXCEPT !.step = "create"]
                    ELSE IF q.old # q.parts THEN [chosen(e, c) EXCEPT !.step = "update"]
                    ELSE [chosen(e, c) EXCEPT !.todo = @ \ {e}]]
    BY <1>8 DEF initTopicResource
  <2>2. /\ q \in Request /\ q.step = "next" /\ q.op = "approve" /\ q.parts > 0 /\ partitions > 0
        /\ e \in Envs
    BY <1>8, RequestFields
    DEF initTopicResource, At, TypeInv, TypeOK, RegisterInv, PlacedByRequest
  <2>3. UNCHANGED <<zk, broker, status, partitions>>
    BY <1>8 DEF initTopicResource, dbVars
  <2>4. \E p \in {[chosen(e, c) EXCEPT !.step = "create"], [chosen(e, c) EXCEPT !.step = "update"],
                  [chosen(e, c) EXCEPT !.todo = @ \ {e}]} : req'[r] = p
    BY <2>1 DEF TypeInv, TypeOK
  <2> HIDE DEF q
  <2>5. /\ chosen(e, c) \in Request /\ chosen(e, c).step = "next" /\ chosen(e, c).op = "approve"
        /\ chosen(e, c).parts > 0 /\ chosen(e, c).env = e /\ chosen(e, c).target[e] = c
    BY <2>2 DEF Request
  <2> HIDE DEF chosen
  <2>6. \A p \in {[chosen(e, c) EXCEPT !.step = "create"], [chosen(e, c) EXCEPT !.step = "update"],
                  [chosen(e, c) EXCEPT !.todo = @ \ {e}]} :
          /\ p.op = "approve" /\ p.parts > 0 /\ p.step \in {"create", "update", "next"}
          /\ p.target[p.env] = c
    BY <2>5 DEF Request
  <2>7. PlacedByRequest(r)'
    BY <2>2, <2>3, <2>4, <2>6 DEF PlacedByRequest, At, Target
  <2> QED
    BY <2>3, <2>7, OnlyRequest DEF RegisterInv, RegisteredExists
<1>9. ASSUME NEW r \in Requests, syncTopic(r)
      PROVE  RegisterInv'
  <2> DEFINE q(es) == [NoRequest EXCEPT !.op = "sync", !.todo = es, !.parts = partitions]
  <2>1. PICK es \in SUBSET Envs : Start(r, q(es))
    BY <1>9 DEF syncTopic
  <2>2. q(es) \in Request /\ q(es).op = "sync" /\ q(es).step = "next" /\ q(es).parts = partitions
    BY NoRequestIsRequest DEF Request, Ops, TypeInv, TypeOK, NoRequest
  <2>3. partitions > 0
    BY <1>9 DEF syncTopic, RegisterInv
  <2>4. req' = [req EXCEPT ![r] = q(es)] /\ UNCHANGED <<zk, broker, status, partitions>>
    BY <1>9, <2>1 DEF Start, syncTopic
  <2> HIDE DEF q
  <2> QED
    BY <2>2, <2>3, <2>4, RestsPlaced
<1>10. ASSUME NEW r \in Requests, nextEnvironment(r)
       PROVE  RegisterInv'
  <2> DEFINE q == req[r]
             p(e, c) == [q EXCEPT !.env = e, !.target[e] = c, !.step = "create"]
  <2>1. PICK e \in q.todo, c \in Clusters : req' = [req EXCEPT ![r] = p(e, c)]
    BY <1>10 DEF nextEnvironment
  <2>2. q \in Request /\ q.op = "sync" /\ q.parts > 0 /\ e \in Envs
    BY <1>10, RequestFields DEF nextEnvironment, TypeInv, TypeOK, RegisterInv, PlacedByRequest
  <2>3. UNCHANGED <<zk, broker, status, partitions>>
    BY <1>10 DEF nextEnvironment, dbVars
  <2>4. req'[r] = p(e, c)
    BY <2>1 DEF TypeInv, TypeOK
  <2> HIDE DEF q
  <2>5. p(e, c).op = "sync" /\ p(e, c).parts > 0 /\ p(e, c).step = "create"
          /\ p(e, c).target[p(e, c).env] = c
    BY <2>2 DEF Request
  <2> HIDE DEF p
  <2>6. PlacedByRequest(r)'
    BY <2>4, <2>5 DEF PlacedByRequest, At, Target
  <2> QED
    BY <2>3, <2>6, OnlyRequest DEF RegisterInv, RegisteredExists
<1>11. ASSUME NEW r \in Requests, createTopic(r)
       PROVE  RegisterInv'
  <2> DEFINE q == req[r]
             parts == Created(broker[q.env][Target(r)], q.parts)
  <2>1. /\ q \in Request /\ q.step = "create" /\ q.op \in {"approve", "sync", "migrate"}
        /\ q.parts > 0 /\ (q.op = "approve" => partitions > 0)
        /\ Target(r) \in Clusters /\ q.env \in Envs
    BY <1>11, RequestFields
    DEF createTopic, At, TypeInv, TypeOK, RegisterInv, PlacedByRequest
  <2>2. parts \in 0 .. MaxPartitions /\ parts > 0
    BY <2>1, RequestFields DEF Created, TypeInv, TypeOK
  <2>3. /\ broker' = [broker EXCEPT ![q.env][Target(r)] = parts]
        /\ UNCHANGED <<zk, status, partitions>>
    BY <1>11 DEF createTopic, dbVars
  <2>4. RegisteredExists' /\ broker'[q.env][Target(r)] > 0
    <3> HIDE DEF q, parts
    <3> QED
      BY <2>1, <2>2, <2>3, CreatedRegistered
  <2>5. req'[r] = [q EXCEPT !.step = "register"]
    BY <1>11 DEF createTopic, Goto, TypeInv, TypeOK
  <2>6. Target(r) = q.target[q.env]
    BY DEF Target
  <2> HIDE DEF q, parts
  <2>7. PlacedByRequest(r)'
    BY <2>1, <2>3, <2>4, <2>5, <2>6 DEF PlacedByRequest, At, Target, Request
  <2> QED
    BY <2>3, <2>4, <2>7, OnlyRequest DEF RegisterInv
<1>12. ASSUME NEW r \in Requests, updatePartitions(r)
       PROVE  RegisterInv'
  <2> DEFINE q == req[r]
  <2>1. /\ q \in Request /\ q.op \in {"approve", "sync", "migrate"} /\ q.parts \in 0 .. MaxPartitions
        /\ q.parts > 0 /\ (q.op = "approve" => partitions > 0)
        /\ Target(r) \in Clusters /\ q.env \in Envs
    BY <1>12, RequestFields
    DEF updatePartitions, At, TypeInv, TypeOK, RegisterInv, PlacedByRequest
  <2>2. /\ broker' = [broker EXCEPT ![q.env][Target(r)] = q.parts]
        /\ UNCHANGED <<zk, status, partitions>>
    BY <1>12 DEF updatePartitions, dbVars
  <2>3. req'[r] = [q EXCEPT !.step = "updateCluster"]
    BY <1>12 DEF updatePartitions, Goto, TypeInv, TypeOK
  <2> HIDE DEF q
  <2>4. RegisteredExists'
    BY <2>1, <2>2, CreatedRegistered
  <2>5. PlacedByRequest(r)'
    BY <2>1, <2>2, <2>3 DEF PlacedByRequest, At, Request
  <2> QED
    BY <2>2, <2>4, <2>5, OnlyRequest DEF RegisterInv
<1>13. ASSUME NEW r \in Requests, registerTopicToZk(r)
       PROVE  RegisterInv'
  <2> DEFINE q == req[r]
  <2>1. /\ q \in Request /\ q.parts > 0 /\ (q.op = "approve" => partitions > 0)
        /\ Target(r) \in Clusters /\ q.env \in Envs /\ broker[q.env][Target(r)] > 0
    BY <1>13, RequestFields
    DEF registerTopicToZk, At, TypeInv, TypeOK, RegisterInv, PlacedByRequest
  <2>2. zk' = [zk EXCEPT ![q.env] = Target(r)] /\ UNCHANGED <<broker, status, partitions>>
    BY <1>13 DEF registerTopicToZk, dbVars
  <2>3. req'[r] = [q EXCEPT !.step = "updateCluster"]
    BY <1>13 DEF registerTopicToZk, Goto, TypeInv, TypeOK
  <2> HIDE DEF q
  <2>4. RegisteredExists'
    BY <2>1, <2>2 DEF TypeInv, TypeOK, RegisterInv, RegisteredExists
  <2>5. PlacedByRequest(r)'
    BY <2>1, <2>2, <2>3 DEF PlacedByRequest, At, Request
  <2> QED
    BY <2>2, <2>4, <2>5, OnlyRequest DEF RegisterInv
<1>14. ASSUME NEW r \in Requests, updateCluster(r)
       PROVE  RegisterInv'
  <2> DEFINE q == req[r]
             p == [q EXCEPT !.step = "next", !.todo = @ \ {q.env}]
  <2>1. /\ q \in Request /\ (q.op = "approve" => partitions > 0)
        /\ q.op \in {"approve", "sync", "migrate"} => q.parts > 0
    BY DEF TypeInv, TypeOK, RegisterInv, PlacedByRequest
  <2>2. UNCHANGED <<zk, broker, status, partitions>> /\ req'[r] = p
    BY <1>14 DEF updateCluster, Done, TypeInv, TypeOK
  <2> HIDE DEF q
  <2>3. p.step = "next" /\ p.op = q.op /\ p.parts = q.parts
    BY <2>1 DEF Request
  <2> HIDE DEF p
  <2>4. PlacedByRequest(r)'
    BY <2>1, <2>2, <2>3 DEF PlacedByRequest, At
  <2> QED
    BY <2>2, <2>4, OnlyRequest DEF RegisterInv, RegisteredExists
<1>15. ASSUME NEW r \in Requests, updateStatusById(r)
       PROVE  RegisterInv'
  <2>1. req'[r] = NoRequest
    BY <1>15 DEF updateStatusById, End, TypeInv, TypeOK
  <2>2. status' = "approved" => partitions' > 0
    BY <1>15 DEF updateStatusById, RegisterInv, PlacedByRequest
  <2>3. RegisteredExists'
    BY <1>15 DEF updateStatusById, RegisterInv, RegisteredExists
  <2> QED
    BY <2>1, <2>2, <2>3, NoRequestPlaced, OnlyRequest
<1>16. ASSUME NEW r \in Requests, deleteTopic(r)
       PROVE  RegisterInv'
  <2> DEFINE q == [NoRequest EXCEPT !.op = "delete", !.todo = Placed, !.rows = refs]
  <2>1. q \in Request /\ q.op = "delete" /\ q.step = "next"
    BY NoRequestIsRequest DEF Request, Ops, Placed, TypeInv, TypeOK, NoRequest
  <2>2. req' = [req EXCEPT ![r] = q] /\ UNCHANGED <<zk, broker, status, partitions>>
    BY <1>16 DEF deleteTopic, Start, dbVars
  <2> HIDE DEF q
  <2> QED
    BY <2>1, <2>2, RestsPlaced DEF RegisterInv
<1>17. ASSUME NEW r \in Requests, checkPath(r)
       PROVE  RegisterInv'
  <2> DEFINE q == req[r]
             skipped(e) == [q EXCEPT !.todo = @ \ {e}]
             cleaned(e) == [q EXCEPT !.env = e, !.target[e] = q.rows[e], !.step = "unregister"]
  <2>1. PICK e \in q.todo :
          req' = [req EXCEPT ![r] = IF zk[e] = NoCluster THEN skipped(e) ELSE cleaned(e)]
    BY <1>17 DEF checkPath
  <2>2. q \in Request /\ q.op = "delete" /\ q.step = "next"
    BY <1>17 DEF checkPath, At, TypeInv, TypeOK
  <2>3. UNCHANGED <<zk, broker, status, partitions>>
    BY <1>17 DEF checkPath, dbVars
  <2>4. req'[r] = skipped(e) \/ req'[r] = cleaned(e)
    BY <2>1 DEF TypeInv, TypeOK
  <2> HIDE DEF q
  <2>5. /\ skipped(e).op = "delete" /\ skipped(e).step = "next"
        /\ cleaned(e).op = "delete" /\ cleaned(e).step = "unregister"
    BY <2>2 DEF Request
  <2> HIDE DEF skipped, cleaned
  <2>6. PlacedByRequest(r)'
    BY <2>4, <2>5 DEF PlacedByRequest, At
  <2> QED
    BY <2>3, <2>6, OnlyRequest DEF RegisterInv, RegisteredExists
<1>18. ASSUME NEW r \in Requests, deleteTopicInfo(r)
       PROVE  RegisterInv'
  <2> DEFINE q == req[r]
  <2>1. /\ q \in Request /\ q.env \in Envs /\ (q.op = "approve" => partitions > 0)
        /\ q.op \in {"approve", "sync", "migrate"} => q.parts > 0
    BY RequestFields DEF TypeInv, TypeOK, RegisterInv, PlacedByRequest
  <2>2. zk' = [zk EXCEPT ![q.env] = NoCluster] /\ UNCHANGED <<broker, status, partitions>>
    BY <1>18 DEF deleteTopicInfo, dbVars
  <2>3. req'[r] = [q EXCEPT !.step = "drop"]
    BY <1>18 DEF deleteTopicInfo, Goto, TypeInv, TypeOK
  <2> HIDE DEF q
  <2>4. RegisteredExists'
    BY <2>1, <2>2 DEF TypeInv, TypeOK, RegisterInv, RegisteredExists
  <2>5. zk'[q.env] = NoCluster
    BY <2>1, <2>2 DEF TypeInv, TypeOK
  <2>6. PlacedByRequest(r)'
    BY <2>1, <2>2, <2>3, <2>5 DEF PlacedByRequest, At, Request
  <2> QED
    BY <2>2, <2>4, <2>6, OnlyRequest DEF RegisterInv
<1>19. ASSUME NEW r \in Requests, dropTopic(r)
       PROVE  RegisterInv'
  <2> DEFINE q == req[r]
             p == [q EXCEPT !.step = "next", !.todo = @ \ {q.env}]
  <2>1. /\ q \in Request /\ q.env \in Envs /\ (q.op = "approve" => partitions > 0)
        /\ q.op \in {"approve", "sync", "migrate"} => q.parts > 0
        /\ zk[q.env] = NoCluster
    BY <1>19, RequestFields DEF dropTopic, TypeInv, TypeOK, RegisterInv, PlacedByRequest
  <2>2. /\ broker' = [broker EXCEPT ![q.env][Target(r)] = 0]
        /\ UNCHANGED <<zk, status, partitions>> /\ req'[r] = p
    BY <1>19 DEF dropTopic, dbVars, Done, TypeInv, TypeOK
  <2> HIDE DEF q
  <2>3. RegisteredExists'
    BY <2>1, <2>2, DroppedRegistered
  <2>4. p.step = "next" /\ p.op = q.op /\ p.parts = q.parts
    BY <2>1 DEF Request
  <2> HIDE DEF p
  <2>5. PlacedByRequest(r)'
    BY <2>1, <2>2, <2>4 DEF PlacedByRequest, At
  <2> QED
    BY <2>2, <2>3, <2>5, OnlyRequest DEF RegisterInv
<1>20. ASSUME NEW r \in Requests, deleteById(r)
       PROVE  RegisterInv'
  <2>1. req'[r] = NoRequest
    BY <1>20 DEF deleteById, End, TypeInv, TypeOK
  <2>2. RegisteredExists' /\ status' # "approved"
    BY <1>20 DEF deleteById, RegisterInv, RegisteredExists
  <2> QED
    BY <2>1, <2>2, NoRequestPlaced, OnlyRequest
<1>21. ASSUME NEW r \in Requests, migrateTopics(r)
       PROVE  RegisterInv'
  <2> DEFINE q(e, c) == [NoRequest EXCEPT !.op = "migrate", !.step = "create", !.env = e,
                           !.target[e] = c, !.parts = partitions, !.rows = refs]
  <2>1. PICK e \in Known, c \in Clusters : Start(r, q(e, c))
    BY <1>21 DEF migrateTopics
  <2>2. e \in Envs /\ partitions > 0
    BY <1>21 DEF Known, migrateTopics, RegisterInv
  <2>3. /\ q(e, c).op = "migrate" /\ q(e, c).step = "create" /\ q(e, c).parts > 0
        /\ q(e, c).target[q(e, c).env] = c
    BY <2>2 DEF NoRequest
  <2>4. req'[r] = q(e, c) /\ UNCHANGED <<zk, broker, status, partitions>>
    BY <1>21, <2>1 DEF Start, migrateTopics, dbVars, TypeInv, TypeOK
  <2> HIDE DEF q
  <2>5. PlacedByRequest(r)'
    BY <2>3, <2>4 DEF PlacedByRequest, At, Target
  <2> QED
    BY <2>4, <2>5, OnlyRequest DEF RegisterInv, RegisteredExists
<1>22. ASSUME NEW r \in Requests, migrateInZk(r)
       PROVE  RegisterInv'
  <2>1. req'[r] = NoRequest /\ UNCHANGED <<broker, status, partitions>>
    BY <1>22 DEF migrateInZk, dbVars, End, TypeInv, TypeOK
  <2>2. /\ req[r].env \in Envs /\ Target(r) \in Clusters
        /\ broker[req[r].env][Target(r)] > 0
    BY <1>22, RequestFields DEF migrateInZk, TypeInv, RegisterInv, PlacedByRequest
  <2>3. zk' = zk \/ zk' = [zk EXCEPT ![req[r].env] = Target(r)]
    BY <1>22 DEF migrateInZk
  <2>4. RegisteredExists'
    BY <2>1, <2>2, <2>3 DEF TypeInv, TypeOK, RegisterInv, RegisteredExists
  <2> QED
    BY <2>1, <2>4, NoRequestPlaced, OnlyRequest DEF RegisterInv
<1>23. ASSUME NEW r \in Requests, refusedByKafka(r)
       PROVE  RegisterInv'
  <2>1. RegisteredExists' /\ Raise(r) /\ UNCHANGED <<status, partitions>>
    BY <1>23 DEF refusedByKafka, dbVars, RegisterInv, RegisteredExists
  <2> QED
    BY <2>1, RaiseRegisters
<1>24. ASSUME NEW r \in Requests, fail(r)
       PROVE  RegisterInv'
  <2> DEFINE q == req[r]
             parts == Created(broker[q.env][Target(r)], q.parts)
  <2>1. Raise(r) /\ UNCHANGED <<zk, status, partitions>>
    BY <1>24 DEF fail, dbVars
  <2>2. q.env \in Envs
    BY RequestFields DEF TypeInv
  <2>3. CASE broker' = broker
    BY <2>1, <2>3, RaiseRegisters DEF RegisterInv, RegisteredExists
  <2>4. CASE q.step = "create" /\ broker' = [broker EXCEPT ![q.env][Target(r)] = parts]
    <3>1. Target(r) \in Clusters /\ q.parts > 0
      BY <1>24, <2>4 DEF fail, At, RegisterInv, PlacedByRequest
    <3>2. parts \in 0 .. MaxPartitions /\ parts > 0
      BY <2>2, <3>1, RequestFields DEF Created, TypeInv, TypeOK
    <3>3. RegisteredExists'
      <4> HIDE DEF q, parts
      <4> QED
        BY <2>1, <2>2, <2>4, <3>1, <3>2, CreatedRegistered
    <3> QED
      BY <2>1, <3>3, RaiseRegisters
  <2>5. CASE q.step = "drop" /\ broker' = [broker EXCEPT ![q.env][Target(r)] = 0]
    <3>1. zk[q.env] = NoCluster
      BY <1>24, <2>5 DEF fail, At, RegisterInv, PlacedByRequest
    <3>2. RegisteredExists'
      BY <2>1, <2>2, <2>5, <3>1, DroppedRegistered
    <3> QED
      BY <2>1, <3>2, RaiseRegisters
  <2> QED
    BY <1>24, <2>3, <2>4, <2>5 DEF fail
<1>25. ASSUME NEW r \in Requests, createPartitionsLost(r)
       PROVE  RegisterInv'
  <2> DEFINE q == req[r]
  <2>1. /\ q \in Request /\ (q.op = "approve" => partitions > 0)
        /\ q.op \in {"approve", "sync", "migrate"} => q.parts > 0
    BY DEF TypeInv, TypeOK, RegisterInv, PlacedByRequest
  <2>2. UNCHANGED <<zk, broker, status, partitions>>
    BY <1>25 DEF createPartitionsLost, dbVars
  <2>3. req'[r] = [q EXCEPT !.step = "updateCluster"]
    BY <1>25 DEF createPartitionsLost, Goto, TypeInv, TypeOK
  <2> HIDE DEF q
  <2>4. PlacedByRequest(r)'
    BY <2>1, <2>2, <2>3 DEF PlacedByRequest, At, Request
  <2> QED
    BY <2>2, <2>4, OnlyRequest DEF RegisterInv, RegisteredExists
<1> QED
  BY <1>1, <1>2, <1>3, <1>4, <1>5, <1>6, <1>7, <1>8, <1>9, <1>10, <1>11, <1>12, <1>13, <1>14,
     <1>15, <1>16, <1>17, <1>18, <1>19, <1>20, <1>21, <1>22, <1>23, <1>24, <1>25
     DEF Next, Serve

\* RegisteredExists at every step while the portal serves one request at a time: whatever
\* brokers and ZooKeeper refuse, wherever an approval, a deletion or a migration stops and
\* whatever request comes next, a topic's node never names a cluster without the topic.
\* (createTopic is called before registerTopicToZk, and zkRegister.deleteTopic before
\* topicService.deleteTopic.)
THEOREM RegisteredTopicExists ==
  ASSUME OneAtATime
  PROVE  Spec => []RegisteredExists
<1>1. Init => TypeInv /\ RegisterInv
  BY TypeInit, RegisterInit
<1>2. TypeInv /\ RegisterInv /\ [Next]_vars => (TypeInv /\ RegisterInv)'
  BY TypeInvariance, DeletesInvariance, RegisterInvariance DEF TypeInv
<1>3. RegisterInv => RegisteredExists
  BY DEF RegisterInv
<1> QED
  BY <1>1, <1>2, <1>3, PTL DEF Spec


-----------------------------------------------------------------------------
(* DbNamesZkCluster, for one request at a time *)

\* What the property is about: the portal has not died, and no request has started before
\* the database heard of the last migration.
InOrder == crashes = 0 /\ "overtaken" \notin past

\* An environment whose row and node differ is one whose row is still to be written: by the
\* thread of a migration or by the request.
Agrees(e) == refs[e] \in Clusters => zk[e] \in {refs[e], NoCluster}
Moved(e) == \E u \in migrated : u.env = e /\ u.src = refs[e]
Written(e) == \E r \in Requests : At(r, "updateCluster") /\ req[r].env = e
DbState ==
  /\ \A u, v \in migrated : u = v
  /\ \A u \in migrated : u.target = zk[u.env]
  /\ \A e \in Envs : Agrees(e) \/ Moved(e) \/ Written(e)

\* How far a request has come: what it has read of the rows still holds where it has not
\* been, and the row it is about to write is what the node names.
DbRequest(r) ==
  /\ req[r].op # "none" => migrated = {} /\ status # "none"
  /\ req[r].op = "approve" => \A e \in req[r].todo : req[r].rows[e] = refs[e]
  /\ req[r].op = "migrate" => /\ req[r].rows[req[r].env] = refs[req[r].env]
                             /\ req[r].step \in {"create", "register"}
  /\ At(r, "insert") => req[r].op = "edit"
  /\ At(r, "update") => refs[req[r].env] = Target(r)
  /\ At(r, "updateCluster") => zk[req[r].env] \in {Target(r), NoCluster}

DbInv == InOrder => DbState /\ \A r \in Requests : DbRequest(r)

LEMMA DbInit == Init => DbInv
<1>1. Init => DbState
  BY TopicAssumption DEF Init, DbState, Agrees
<1>2. Init => \A r \in Requests : DbRequest(r)
  BY DEF Init, DbRequest, At, NoRequest
<1> QED
  BY <1>1, <1>2 DEF DbInv

\* What happens out of order has happened for good.
LEMMA OrderLost ==
  ASSUME TypeInv, [Next]_vars, InOrder'
  PROVE  InOrder /\ ~Crash
<1>1. crashes \in Nat
  BY Bounds DEF TypeInv, TypeOK
<1>2. ~Crash
  BY <1>1 DEF Crash, InOrder
<1>3. crashes' = crashes /\ past \subseteq past'
  <2>1. CASE UNCHANGED vars
    BY <2>1 DEF vars, counters
  <2>2. CASE addTopic \/ updateMigrateTopics
    BY <2>2 DEF addTopic, updateMigrateTopics, counters
  <2>3. ASSUME NEW r \in Requests, \/ updateTopic(r) \/ installTopicEnvRef(r) \/ approveTopic(r)
                                   \/ initTopicResource(r) \/ syncTopic(r) \/ nextEnvironment(r)
        PROVE  crashes' = crashes /\ past \subseteq past'
    BY <2>3 DEF updateTopic, installTopicEnvRef, approveTopic, initTopicResource, syncTopic,
                nextEnvironment, Start, counters
  <2>4. ASSUME NEW r \in Requests, \/ createTopic(r) \/ updatePartitions(r) \/ registerTopicToZk(r)
                                   \/ updateCluster(r) \/ updateStatusById(r)
        PROVE  crashes' = crashes /\ past \subseteq past'
    BY <2>4 DEF createTopic, updatePartitions, registerTopicToZk, updateCluster, updateStatusById,
                counters
  <2>5. ASSUME NEW r \in Requests, \/ deleteTopic(r) \/ checkPath(r) \/ deleteTopicInfo(r)
                                   \/ dropTopic(r) \/ deleteById(r) \/ migrateTopics(r)
                                   \/ migrateInZk(r)
        PROVE  crashes' = crashes /\ past \subseteq past'
    BY <2>5 DEF deleteTopic, checkPath, deleteTopicInfo, dropTopic, deleteById, migrateTopics,
                migrateInZk, Start, counters
  <2>6. ASSUME NEW r \in Requests, refusedByKafka(r) \/ fail(r) \/ createPartitionsLost(r)
        PROVE  crashes' = crashes /\ past \subseteq past'
    BY <2>6 DEF refusedByKafka, fail, createPartitionsLost, Raise, counters
  <2> QED
    BY <1>2, <2>1, <2>2, <2>3, <2>4, <2>5, <2>6 DEF Next, Serve
<1> QED
  BY <1>2, <1>3 DEF InOrder

\* A request that is not about to write a row, rows and nodes left as they are.
LEMMA StateKept ==
  ASSUME DbState, OneAtATime, NEW r \in Requests, ~At(r, "updateCluster"),
         UNCHANGED <<refs, zk, migrated>>
  PROVE  DbState'
BY DEF DbState, OneAtATime, Agrees, Moved, Written

\* Rows that lose their cluster, or have none yet.
LEMMA RowsEmptied ==
  ASSUME DbState, OneAtATime, NEW r \in Requests, ~At(r, "updateCluster"),
         UNCHANGED <<zk, migrated>>, \A e \in Envs : refs'[e] = refs[e] \/ refs'[e] \notin Clusters
  PROVE  DbState'
BY DEF DbState, OneAtATime, Agrees, Moved, Written

\* A request that starts in order finds the database up to date.
LEMMA StartsInOrder ==
  ASSUME TypeInv, DbInv, [Next]_vars, InOrder', NEW r \in Requests, NEW q, Start(r, q)
  PROVE  /\ DbState /\ migrated = {} /\ req[r].op = "none" /\ req'[r] = q
         /\ ~At(r, "updateCluster")
<1>1. DbState
  BY OrderLost DEF DbInv
<1>2. migrated = {}
  BY DEF Start, InOrder
<1>3. req[r].op = "none" /\ req'[r] = q
  BY DEF Start, NoRequest, TypeInv, TypeOK
<1> QED
  BY <1>1, <1>2, <1>3 DEF At

LEMMA NoRequestDb ==
  ASSUME NEW r \in Requests, req'[r] = NoRequest
  PROVE  DbRequest(r)'
BY DEF DbRequest, At, NoRequest

\* What DbInv says of a request, and that of the others there is nothing to say.
LEMMA OnlyDbRequest ==
  ASSUME OneAtATime, NEW r \in Requests, DbState', DbRequest(r)'
  PROVE  DbInv'
BY DEF OneAtATime, DbInv


LEMMA RaiseDb ==
  ASSUME TypeInv, DbState, OneAtATime, NEW r \in Requests, DbRequest(r), Raise(r),
         ~At(r, "updateCluster"), UNCHANGED <<status, refs, zk, migrated>>
  PROVE  DbInv'
<1> DEFINE q == req[r]
           failed == [q EXCEPT !.failed = @ \cup {q.env}, !.step = "next", !.todo = @ \ {q.env}]
<1>1. req'[r] = IF q.op = "approve" THEN failed ELSE NoRequest
  BY DEF Raise, TypeInv, TypeOK
<1>2. DbState'
  BY StateKept
<1>3. CASE q.op = "approve"
  <2>1. q \in Request
    BY DEF TypeInv, TypeOK
  <2>2. migrated = {} /\ status # "none" /\ \A e \in q.todo : q.rows[e] = refs[e]
    BY <1>3 DEF DbRequest
  <2> HIDE DEF q
  <2>3. /\ failed.op = "approve" /\ failed.step = "next" /\ failed.todo \subseteq q.todo
        /\ failed.rows = q.rows
    BY <1>3, <2>1 DEF Request
  <2> HIDE DEF failed
  <2>4. DbRequest(r)'
    BY <1>1, <1>3, <2>2, <2>3 DEF DbRequest, At
  <2> QED
    BY <1>2, <2>4, OnlyDbRequest
<1>4. CASE q.op # "approve"
  BY <1>1, <1>2, <1>4, NoRequestDb, OnlyDbRequest
<1> QED
  BY <1>3, <1>4

\* The request moves on to its next step, rows and nodes left as they are.
LEMMA GoesOn ==
  ASSUME TypeInv, DbState, OneAtATime, NEW r \in Requests, DbRequest(r), ~At(r, "updateCluster"),
         Goto(r, "register"), UNCHANGED <<status, refs, zk, migrated>>
  PROVE  DbInv'
<1> DEFINE q == req[r]
<1>1. q \in Request /\ req'[r] = [q EXCEPT !.step = "register"]
  BY DEF TypeInv, TypeOK, Goto
<1> HIDE DEF q
<1>2. /\ [q EXCEPT !.step = "register"].op = q.op /\ [q EXCEPT !.step = "register"].todo = q.todo
      /\ [q EXCEPT !.step = "register"].rows = q.rows /\ [q EXCEPT !.step = "register"].env = q.env
      /\ [q EXCEPT !.step = "register"].step = "register"
  BY <1>1 DEF Request
<1>3. DbRequest(r)'
  BY <1>1, <1>2 DEF DbRequest, At, q
<1> QED
  BY <1>3, StateKept, OnlyDbRequest

\* The request is about to write the row of an environment whose node it may have written.
LEMMA AboutToWrite ==
  ASSUME TypeInv, DbState, OneAtATime, NEW r \in Requests, DbRequest(r),
         req[r].op \notin {"none", "migrate"},
         ~At(r, "updateCluster"), Goto(r, "updateCluster"),
         UNCHANGED <<status, refs, migrated>>,
         \A e \in Envs : e # req[r].env => zk'[e] = zk[e],
         zk'[req[r].env] \in {Target(r), NoCluster}
  PROVE  DbInv'
<1> DEFINE q == req[r]
           p == [q EXCEPT !.step = "updateCluster"]
<1>1. q \in Request /\ req'[r] = p /\ migrated = {} /\ q.env \in Envs
  BY RequestFields DEF TypeInv, TypeOK, Goto, DbRequest
<1>2. /\ p.op = q.op /\ p.todo = q.todo /\ p.rows = q.rows /\ p.env = q.env
      /\ p.target = q.target /\ p.step = "updateCluster"
  BY <1>1 DEF Request
<1> HIDE DEF p
<1>3. Target(r)' = Target(r)
  BY <1>1, <1>2 DEF Target
<1>4. DbRequest(r)'
  BY <1>1, <1>2, <1>3 DEF DbRequest, At
<1>5. DbState'
  <2>1. ASSUME NEW e \in Envs, e = q.env PROVE Written(e)'
    BY <1>1, <1>2, <2>1 DEF Written, At
  <2>2. ASSUME NEW e \in Envs, e # q.env PROVE Agrees(e)'
    <3>1. Agrees(e)
      BY <1>1 DEF DbState, Moved, Written, OneAtATime
    <3> QED
      BY <2>2, <3>1 DEF Agrees
  <2>3. \A e \in Envs : Agrees(e)' \/ Written(e)'
    BY <2>1, <2>2
  <2> QED
    BY <1>1, <2>3 DEF DbState
<1> QED
  BY <1>4, <1>5, OnlyDbRequest

\* One environment is done, and its row agrees with its node.
LEMMA EnvironmentDone ==
  ASSUME TypeInv, DbState, OneAtATime, NEW r \in Requests, DbRequest(r), Done(r),
         req[r].op \notin {"none", "migrate"},
         UNCHANGED <<status, zk, migrated>>,
         \A e \in Envs : IF e = req[r].env THEN Agrees(e)' ELSE refs'[e] = refs[e]
  PROVE  DbInv'
<1> DEFINE q == req[r]
           p == [q EXCEPT !.step = "next", !.todo = @ \ {q.env}]
<1>1. q \in Request /\ req'[r] = p /\ migrated = {} /\ q.env \in Envs /\ q.todo \subseteq Envs
  BY RequestFields DEF TypeInv, TypeOK, Done, DbRequest
<1>2. /\ p.op = q.op /\ p.todo = q.todo \ {q.env} /\ p.rows = q.rows /\ p.step = "next"
  BY <1>1 DEF Request
<1> HIDE DEF p
<1>3. DbRequest(r)'
  BY <1>1, <1>2 DEF DbRequest, At
<1>4. DbState'
  <2>1. ASSUME NEW e \in Envs, e # q.env PROVE Agrees(e)'
    <3>1. Agrees(e)
      BY <1>1, <2>1 DEF DbState, Moved, Written, OneAtATime
    <3> QED
      BY <2>1, <3>1 DEF Agrees
  <2>2. \A e \in Envs : Agrees(e)'
    BY <2>1
  <2> QED
    BY <1>1, <2>2 DEF DbState
<1> QED
  BY <1>3, <1>4, OnlyDbRequest


LEMMA DbInvariance ==
  ASSUME TypeInv, RegisterInv, DbInv, OneAtATime, [Next]_vars
  PROVE  DbInv'
<1> SUFFICES ASSUME InOrder' PROVE DbInv'
  BY DEF DbInv
<1>0. /\ DbState /\ \A r \in Requests : DbRequest(r)
      /\ ~Crash /\ (NoCluster \notin Clusters /\ Absent \notin Clusters)
  BY OrderLost, TopicAssumption DEF DbInv
<1>1. CASE UNCHANGED vars
  BY <1>0, <1>1 DEF vars, dbVars, DbInv, DbState, DbRequest, Agrees, Moved, Written, At, Target
<1>2. CASE addTopic
  <2>1. /\ \A r \in Requests : req[r].op = "none"
        /\ \A e \in Envs : refs'[e] \notin Clusters
        /\ UNCHANGED <<zk, migrated, req>>
    BY <1>0, <1>2 DEF addTopic, DbRequest
  <2>2. DbState'
    BY <1>0, <2>1 DEF DbState, Agrees
  <2>3. \A r \in Requests : DbRequest(r)'
    BY <2>1 DEF DbRequest, At
  <2> QED
    BY <2>2, <2>3 DEF DbInv
<1>3. CASE updateMigrateTopics
  <2>1. PICK u \in migrated : /\ migrated' = migrated \ {u}
                              /\ refs' = [refs EXCEPT ![u.env] = IF @ = u.src THEN u.target ELSE @]
    BY <1>3 DEF updateMigrateTopics
  <2>2. /\ \A r \in Requests : req[r].op = "none"
        /\ migrated' = {} /\ u.target = zk[u.env] /\ u.env \in Envs
        /\ UNCHANGED <<zk, req>>
    BY <1>0, <1>3, <2>1 DEF updateMigrateTopics, DbRequest, DbState, TypeInv, TypeOK, Updates
  <2>3. ASSUME NEW e \in Envs PROVE Agrees(e)'
    <3>1. ~Written(e)
      BY <2>2 DEF Written, At
    <3>2. CASE e = u.env /\ refs[e] = u.src
      <4>1. refs'[e] = zk[e]
        BY <2>1, <2>2, <3>2 DEF TypeInv, TypeOK
      <4> QED
        BY <2>2, <4>1 DEF Agrees
    <3>3. CASE ~(e = u.env /\ refs[e] = u.src)
      <4>1. refs'[e] = refs[e]
        BY <2>1, <3>3 DEF TypeInv, TypeOK
      <4>2. ~Moved(e)
        BY <1>0, <2>1, <3>3 DEF DbState, Moved
      <4>3. Agrees(e)
        BY <1>0, <3>1, <4>2 DEF DbState
      <4> QED
        BY <2>2, <4>1, <4>3 DEF Agrees
    <3> QED
      BY <3>2, <3>3
  <2>4. DbState'
    BY <2>2, <2>3 DEF DbState
  <2>5. \A r \in Requests : DbRequest(r)'
    BY <2>2 DEF DbRequest, At
  <2> QED
    BY <2>4, <2>5 DEF DbInv
<1>5. ASSUME NEW r \in Requests, updateTopic(r)
      PROVE  DbInv'
  <2>1. PICK es \in SUBSET Envs :
          Start(r, [NoRequest EXCEPT !.op = "edit", !.step = "insert", !.todo = es])
    BY <1>5 DEF updateTopic
  <2> DEFINE q == [NoRequest EXCEPT !.op = "edit", !.step = "insert", !.todo = es]
  <2>2. q.op = "edit" /\ q.step = "insert"
    BY DEF NoRequest
  <2> HIDE DEF q
  <2>3. DbState /\ migrated = {} /\ req'[r] = q /\ ~At(r, "updateCluster")
    BY <2>1, StartsInOrder DEF q
  <2>4. DbState'
    BY <1>0, <1>5, <2>3, RowsEmptied DEF updateTopic
  <2>5. DbRequest(r)'
    BY <1>5, <2>2, <2>3 DEF updateTopic, DbRequest, At
  <2> QED
    BY <2>4, <2>5, OnlyDbRequest
<1>6. ASSUME NEW r \in Requests, installTopicEnvRef(r)
      PROVE  DbInv'
  <2>1. PICK e \in req[r].todo :
          /\ refs' = [refs EXCEPT ![e] = NoCluster]
          /\ End(r) \/ req' = [req EXCEPT ![r] = [req[r] EXCEPT !.todo = @ \ {e}]]
    BY <1>6 DEF installTopicEnvRef, TypeInv, TypeOK
  <2> DEFINE q == req[r]
             p == [q EXCEPT !.todo = @ \ {e}]
  <2>2. /\ q \in Request /\ q.step = "insert" /\ q.op = "edit" /\ ~At(r, "updateCluster")
        /\ migrated = {} /\ status # "none"
        /\ UNCHANGED <<zk, migrated, status>>
    BY <1>0, <1>6 DEF installTopicEnvRef, At, TypeInv, TypeOK, DbRequest
  <2>3. req'[r] = NoRequest \/ req'[r] = p
    BY <2>1 DEF End, TypeInv, TypeOK
  <2>4. DbState'
    <3>1. \A f \in Envs : refs'[f] = refs[f] \/ refs'[f] \notin Clusters
      BY <1>0, <2>1 DEF TypeInv, TypeOK
    <3> QED
      BY <1>0, <2>2, <3>1, RowsEmptied
  <2> HIDE DEF q
  <2>5. p.step = "insert" /\ p.op = "edit"
    BY <2>2 DEF Request
  <2> HIDE DEF p
  <2>6. DbRequest(r)'
    <3>1. CASE req'[r] = NoRequest
      BY <3>1, NoRequestDb
    <3>2. CASE req'[r] = p
      BY <2>2, <2>5, <3>2 DEF DbRequest, At
    <3> QED
      BY <2>3, <3>1, <3>2
  <2> QED
    BY <2>4, <2>6, OnlyDbRequest
<1>7. ASSUME NEW r \in Requests, approveTopic(r)
      PROVE  DbInv'
  <2> DEFINE q(parts) == [NoRequest EXCEPT !.op = "approve", !.todo = Known, !.parts = parts,
                            !.new = (status = "new"), !.old = partitions, !.rows = refs]
  <2>1. PICK parts \in 1 .. MaxPartitions : Start(r, q(parts))
    BY <1>7 DEF approveTopic
  <2>2. q(parts).op = "approve" /\ q(parts).step = "next" /\ q(parts).rows = refs
    BY DEF NoRequest
  <2> HIDE DEF q
  <2>3. DbState /\ migrated = {} /\ req'[r] = q(parts) /\ ~At(r, "updateCluster")
    BY <2>1, StartsInOrder
  <2>4. UNCHANGED <<refs, zk, migrated, status>> /\ status # "none"
    BY <1>7 DEF approveTopic
  <2>5. DbState'
    BY <2>3, <2>4, StateKept
  <2>6. DbRequest(r)'
    BY <2>2, <2>3, <2>4 DEF DbRequest, At
  <2> QED
    BY <2>5, <2>6, OnlyDbRequest
<1>8. ASSUME NEW r \in Requests, initTopicResource(r)
      PROVE  DbInv'
  <2> DEFINE q == req[r]
             chosen(e, c) == [q EXCEPT !.env = e, !.target[e] = c]
  <2>1. PICK e \in q.todo, c \in Clusters :
          req' = [req EXCEPT ![r] =
                    IF q.new \/ q.rows[e] # c THEN [chosen(e, c) EXCEPT !.step = "create"]
                    ELSE IF q.old # q.parts THEN [chosen(e, c) EXCEPT !.step = "update"]
                    ELSE [chosen(e, c) EXCEPT !.todo = @ \ {e}]]
    BY <1>8 DEF initTopicResource
  <2>2. /\ q \in Request /\ q.step = "next" /\ q.op = "approve" /\ e \in Envs
        /\ migrated = {} /\ status # "none" /\ (\A f \in q.todo : q.rows[f] = refs[f])
        /\ ~At(r, "updateCluster")
    BY <1>0, <1>8, RequestFields DEF initTopicResource, At, TypeInv, TypeOK, DbRequest
  <2>3. UNCHANGED <<refs, zk, migrated, status>>
    BY <1>8 DEF initTopicResource, dbVars
  <2>4. \/ req'[r] = [chosen(e, c) EXCEPT !.step = "create"]
        \/ req'[r] = [chosen(e, c) EXCEPT !.step = "update"] /\ q.rows[e] = c
        \/ req'[r] = [chosen(e, c) EXCEPT !.todo = @ \ {e}]
    BY <2>1 DEF TypeInv, TypeOK
  <2> HIDE DEF q
  <2>5. /\ chosen(e, c) \in Request /\ chosen(e, c).step = "next" /\ chosen(e, c).op = "approve"
        /\ chosen(e, c).env = e /\ chosen(e, c).target[e] = c /\ chosen(e, c).rows = q.rows
        /\ chosen(e, c).todo = q.todo
    BY <2>2 DEF Request
  <2> HIDE DEF chosen
  <2>6. /\ req'[r].op = "approve" /\ req'[r].step \in {"create", "update", "next"}
        /\ req'[r].env = e /\ req'[r].target[e] = c /\ req'[r].rows = q.rows
        /\ req'[r].todo \subseteq q.todo
        /\ req'[r].step = "update" => q.rows[e] = c
    BY <2>4, <2>5 DEF Request
  <2>7. DbRequest(r)'
    BY <2>1, <2>2, <2>3, <2>6 DEF DbRequest, At, Target
  <2> QED
    BY <1>0, <2>2, <2>3, <2>7, StateKept, OnlyDbRequest
<1>9. ASSUME NEW r \in Requests, syncTopic(r)
      PROVE  DbInv'
  <2> DEFINE q(es) == [NoRequest EXCEPT !.op = "sync", !.todo = es, !.parts = partitions]
  <2>1. PICK es \in SUBSET Envs :
          Start(r, q(es)) /\ refs' = [e \in Envs |-> IF e \in es THEN NoCluster ELSE refs[e]]
    BY <1>9 DEF syncTopic
  <2>2. q(es).op = "sync" /\ q(es).step = "next"
    BY DEF NoRequest
  <2> HIDE DEF q
  <2>3. DbState /\ migrated = {} /\ req'[r] = q(es) /\ ~At(r, "updateCluster")
    BY <2>1, StartsInOrder
  <2>4. UNCHANGED <<zk, migrated, status>> /\ status # "none"
    BY <1>9 DEF syncTopic
  <2>5. DbState'
    BY <1>0, <2>1, <2>3, <2>4, RowsEmptied
  <2>6. DbRequest(r)'
    BY <2>2, <2>3, <2>4 DEF DbRequest, At
  <2> QED
    BY <2>5, <2>6, OnlyDbRequest
<1>10. ASSUME NEW r \in Requests, nextEnvironment(r)
       PROVE  DbInv'
  <2> DEFINE q == req[r]
             p(e, c) == [q EXCEPT !.env = e, !.target[e] = c, !.step = "create"]
  <2>1. PICK e \in q.todo, c \in Clusters : req' = [req EXCEPT ![r] = p(e, c)]
    BY <1>10 DEF nextEnvironment
  <2>2. /\ q \in Request /\ q.op = "sync" /\ migrated = {} /\ status # "none"
        /\ ~At(r, "updateCluster")
    BY <1>0, <1>10 DEF nextEnvironment, At, TypeInv, TypeOK, DbRequest
  <2>3. UNCHANGED <<refs, zk, migrated, status>>
    BY <1>10 DEF nextEnvironment, dbVars
  <2>4. req'[r] = p(e, c)
    BY <2>1 DEF TypeInv, TypeOK
  <2> HIDE DEF q
  <2>5. p(e, c).op = "sync" /\ p(e, c).step = "create"
    BY <2>2 DEF Request
  <2> HIDE DEF p
  <2>6. DbRequest(r)'
    BY <2>2, <2>3, <2>4, <2>5 DEF DbRequest, At
  <2> QED
    BY <1>0, <2>2, <2>3, <2>6, StateKept, OnlyDbRequest

<1>11. ASSUME NEW r \in Requests, createTopic(r) \/ deleteTopicInfo(r)
       PROVE  DbInv'
  <2>1. CASE createTopic(r)
    <3>1. /\ ~At(r, "updateCluster") /\ Goto(r, "register")
          /\ UNCHANGED <<status, refs, zk, migrated>>
      BY <2>1 DEF createTopic, At, dbVars
    <3> QED
      BY <1>0, <3>1, GoesOn
  <2>2. CASE deleteTopicInfo(r)
    <3> DEFINE q == req[r]
    <3>1. /\ q \in Request /\ req'[r] = [q EXCEPT !.step = "drop"] /\ q.op \notin {"none", "migrate"}
          /\ ~At(r, "updateCluster") /\ migrated = {} /\ status # "none" /\ q.env \in Envs
      BY <1>0, <2>2, RequestFields DEF deleteTopicInfo, Goto, At, TypeInv, TypeOK, DbRequest
    <3>2. zk' = [zk EXCEPT ![q.env] = NoCluster] /\ UNCHANGED <<refs, status, migrated>>
      BY <2>2 DEF deleteTopicInfo, dbVars
    <3> HIDE DEF q
    <3>3. /\ [q EXCEPT !.step = "drop"].op = q.op /\ [q EXCEPT !.step = "drop"].todo = q.todo
          /\ [q EXCEPT !.step = "drop"].rows = q.rows /\ [q EXCEPT !.step = "drop"].env = q.env
          /\ [q EXCEPT !.step = "drop"].step = "drop"
      BY <3>1 DEF Request
    <3>4. DbRequest(r)'
      BY <1>0, <3>1, <3>2, <3>3 DEF DbRequest, At, q
    <3>5. ASSUME NEW e \in Envs PROVE Agrees(e)'
      <4>1. Agrees(e)
        BY <1>0, <3>1 DEF DbState, Moved, Written, OneAtATime
      <4>2. zk'[e] = zk[e] \/ zk'[e] = NoCluster
        BY <3>2 DEF TypeInv, TypeOK
      <4> QED
        BY <3>2, <4>1, <4>2 DEF Agrees
    <3>6. DbState'
      BY <3>1, <3>2, <3>5 DEF DbState
    <3> QED
      BY <3>4, <3>6, OnlyDbRequest
  <2> QED
    BY <1>11, <2>1, <2>2
<1>12. ASSUME NEW r \in Requests, updatePartitions(r) \/ createPartitionsLost(r)
       PROVE  DbInv'
  <2>1. /\ At(r, "update") /\ Goto(r, "updateCluster") /\ UNCHANGED <<status, refs, zk, migrated>>
    BY <1>12 DEF updatePartitions, createPartitionsLost, dbVars
  <2>2. /\ req[r].op \notin {"none", "migrate"} /\ ~At(r, "updateCluster") /\ migrated = {}
        /\ refs[req[r].env] = Target(r) /\ Target(r) \in Clusters /\ req[r].env \in Envs
    <3>1. DbRequest(r) /\ PlacedByRequest(r) /\ req[r].env \in Envs
      BY <1>0, RequestFields DEF RegisterInv, TypeInv
    <3>2. Target(r) \in Clusters
      BY <2>1, <3>1 DEF PlacedByRequest
    <3> QED
      BY <2>1, <3>1, <3>2 DEF At, DbRequest
  <2>3. Agrees(req[r].env)
    BY <1>0, <2>2 DEF DbState, Moved, Written, OneAtATime
  <2> QED
    BY <1>0, <2>1, <2>2, <2>3, AboutToWrite DEF Agrees
<1>13. ASSUME NEW r \in Requests, registerTopicToZk(r)
       PROVE  DbInv'
  <2>1. /\ At(r, "register") /\ Goto(r, "updateCluster") /\ req[r].op # "migrate"
        /\ zk' = [zk EXCEPT ![req[r].env] = Target(r)] /\ UNCHANGED <<status, refs, migrated>>
    BY <1>13 DEF registerTopicToZk, dbVars
  <2>2. req[r].op # "none" /\ ~At(r, "updateCluster") /\ req[r].env \in Envs
    BY <2>1, RequestFields DEF At, TypeInv
  <2>3. zk'[req[r].env] = Target(r) /\ \A e \in Envs : e # req[r].env => zk'[e] = zk[e]
    BY <2>1, <2>2 DEF TypeInv, TypeOK
  <2> QED
    BY <1>0, <2>1, <2>2, <2>3, AboutToWrite
<1>14. ASSUME NEW r \in Requests, updateCluster(r)
       PROVE  DbInv'
  <2>1. /\ At(r, "updateCluster") /\ Done(r) /\ refs' = [refs EXCEPT ![req[r].env] = Target(r)]
        /\ UNCHANGED <<status, zk, migrated>>
    BY <1>14 DEF updateCluster
  <2>2. /\ req[r].op \notin {"none", "migrate"} /\ req[r].env \in Envs /\ zk[req[r].env] \in {Target(r), NoCluster}
        /\ migrated = {} /\ status # "none"
    BY <1>0, <2>1, RequestFields DEF At, TypeInv, DbRequest
  <2>3. ASSUME NEW e \in Envs
        PROVE  IF e = req[r].env THEN Agrees(e)' ELSE refs'[e] = refs[e]
    <3>1. refs'[e] = IF e = req[r].env THEN Target(r) ELSE refs[e]
      BY <2>1 DEF TypeInv, TypeOK
    <3> QED
      BY <2>1, <2>2, <3>1 DEF Agrees
  <2> QED
    BY <1>0, <2>1, <2>2, <2>3, EnvironmentDone
<1>15. ASSUME NEW r \in Requests, updateStatusById(r) \/ deleteById(r)
       PROVE  DbInv'
  <2>1. req'[r] = NoRequest /\ ~At(r, "updateCluster") /\ UNCHANGED <<refs, zk, migrated>>
    BY <1>15 DEF updateStatusById, deleteById, End, At, TypeInv, TypeOK
  <2> QED
    BY <1>0, <2>1, NoRequestDb, StateKept, OnlyDbRequest
<1>16. ASSUME NEW r \in Requests, deleteTopic(r)
       PROVE  DbInv'
  <2> DEFINE q == [NoRequest EXCEPT !.op = "delete", !.todo = Placed, !.rows = refs]
  <2>1. Start(r, q) /\ UNCHANGED <<refs, zk, migrated, status>> /\ status # "none"
    BY <1>16 DEF deleteTopic, dbVars
  <2>2. q.op = "delete" /\ q.step = "next"
    BY DEF NoRequest
  <2> HIDE DEF q
  <2>3. DbState /\ migrated = {} /\ req'[r] = q /\ ~At(r, "updateCluster")
    BY <2>1, StartsInOrder
  <2>4. DbRequest(r)'
    BY <2>1, <2>2, <2>3 DEF DbRequest, At
  <2> QED
    BY <2>1, <2>3, <2>4, StateKept, OnlyDbRequest
<1>17. ASSUME NEW r \in Requests, checkPath(r)
       PROVE  DbInv'
  <2> DEFINE q == req[r]
             skipped(e) == [q EXCEPT !.todo = @ \ {e}]
             cleaned(e) == [q EXCEPT !.env = e, !.target[e] = q.rows[e], !.step = "unregister"]
  <2>1. PICK e \in q.todo :
          req' = [req EXCEPT ![r] = IF zk[e] = NoCluster THEN skipped(e) ELSE cleaned(e)]
    BY <1>17 DEF checkPath
  <2>2. /\ q \in Request /\ q.op = "delete" /\ q.step = "next" /\ ~At(r, "updateCluster")
        /\ migrated = {} /\ status # "none" /\ UNCHANGED <<refs, zk, migrated, status>>
    BY <1>0, <1>17 DEF checkPath, At, dbVars, TypeInv, TypeOK, DbRequest
  <2>3. req'[r] = skipped(e) \/ req'[r] = cleaned(e)
    BY <2>1 DEF TypeInv, TypeOK
  <2> HIDE DEF q
  <2>4. /\ skipped(e).op = "delete" /\ skipped(e).step = "next"
        /\ cleaned(e).op = "delete" /\ cleaned(e).step = "unregister"
    BY <2>2 DEF Request
  <2> HIDE DEF skipped, cleaned
  <2>5. DbRequest(r)'
    BY <2>2, <2>3, <2>4 DEF DbRequest, At
  <2> QED
    BY <1>0, <2>2, <2>5, StateKept, OnlyDbRequest
<1>18. ASSUME NEW r \in Requests, dropTopic(r)
       PROVE  DbInv'
  <2>1. At(r, "drop") /\ Done(r) /\ UNCHANGED <<status, refs, zk, migrated>>
    BY <1>18 DEF dropTopic, dbVars
  <2>2. /\ req[r].op \notin {"none", "migrate"} /\ ~At(r, "updateCluster")
        /\ migrated = {} /\ req[r].env \in Envs
    BY <1>0, <2>1, RequestFields DEF At, TypeInv, DbRequest, RegisterInv, PlacedByRequest
  <2>3. ASSUME NEW e \in Envs
        PROVE  IF e = req[r].env THEN Agrees(e)' ELSE refs'[e] = refs[e]
    <3>1. Agrees(e)
      BY <1>0, <2>2 DEF DbState, Moved, Written, OneAtATime
    <3> QED
      BY <2>1, <3>1 DEF Agrees
  <2> QED
    BY <1>0, <2>1, <2>2, <2>3, EnvironmentDone
<1>19. ASSUME NEW r \in Requests, migrateTopics(r)
       PROVE  DbInv'
  <2> DEFINE q(e, c) == [NoRequest EXCEPT !.op = "migrate", !.step = "create", !.env = e,
                           !.target[e] = c, !.parts = partitions, !.rows = refs]
  <2>1. PICK e \in Known, c \in Clusters : Start(r, q(e, c))
    BY <1>19 DEF migrateTopics
  <2>2. UNCHANGED <<refs, zk, migrated, status>> /\ status # "none"
    BY <1>19 DEF migrateTopics, dbVars
  <2>3. q(e, c).op = "migrate" /\ q(e, c).step = "create" /\ q(e, c).rows = refs
    BY DEF NoRequest
  <2> HIDE DEF q
  <2>4. DbState /\ migrated = {} /\ req'[r] = q(e, c) /\ ~At(r, "updateCluster")
    BY <2>1, StartsInOrder
  <2>5. DbRequest(r)'
    BY <2>2, <2>3, <2>4 DEF DbRequest, At
  <2> QED
    BY <2>2, <2>4, <2>5, StateKept, OnlyDbRequest
<1>20. ASSUME NEW r \in Requests, migrateInZk(r)
       PROVE  DbInv'
  <2> DEFINE e == req[r].env
             handed == {u \in Updates : u.env = e /\ u.src = req[r].rows[e] /\ u.target = Target(r)}
  <2>1. /\ At(r, "register") /\ ~At(r, "updateCluster") /\ req'[r] = NoRequest
        /\ migrated = {} /\ e \in Envs /\ Target(r) \in Clusters /\ req[r].rows[e] = refs[e]
        /\ UNCHANGED refs
    BY <1>0, <1>20, RequestFields
    DEF migrateInZk, At, End, TypeInv, TypeOK, DbRequest, RegisterInv, PlacedByRequest, dbVars
  <2>2. CASE UNCHANGED <<zk, migrated>>
    BY <1>0, <2>1, <2>2, NoRequestDb, StateKept, OnlyDbRequest
  <2>3. CASE zk' = [zk EXCEPT ![e] = Target(r)] /\ migrated' = migrated \cup handed
    <3> DEFINE u0 == [env |-> e, src |-> refs[e], target |-> Target(r)]
    <3>1. /\ zk'[e] = Target(r)
          /\ \A f \in Envs : f # e => zk'[f] = zk[f]
      BY <2>1, <2>3 DEF TypeInv, TypeOK
    <3>2. handed \subseteq {u0} /\ (refs[e] \in Clusters => u0 \in handed)
      BY <2>1 DEF Updates
    <3>3. migrated' \subseteq {u0} /\ (refs[e] \in Clusters => u0 \in migrated')
      BY <2>1, <2>3, <3>2
    <3>4. u0.env = e /\ u0.src = refs[e] /\ u0.target = Target(r)
      OBVIOUS
    <3> HIDE DEF u0, e
    <3>5. ASSUME NEW f \in Envs PROVE Agrees(f)' \/ Moved(f)'
      <4>1. CASE f = e
        BY <2>1, <3>3, <3>4, <4>1 DEF Agrees, Moved
      <4>2. CASE f # e
        <5>1. Agrees(f)
          BY <1>0, <2>1 DEF DbState, Moved, Written, OneAtATime
        <5> QED
          BY <2>1, <3>1, <4>2, <5>1 DEF Agrees
      <4> QED
        BY <4>1, <4>2
    <3>6. (\A u, v \in migrated' : u = v) /\ \A u \in migrated' : u.target = zk'[u.env]
      BY <3>1, <3>3, <3>4
    <3>7. DbState'
      BY <3>5, <3>6 DEF DbState
    <3> QED
      BY <2>1, <3>7, NoRequestDb, OnlyDbRequest
  <2> QED
    BY <1>20, <2>2, <2>3 DEF migrateInZk
<1>21. ASSUME NEW r \in Requests, refusedByKafka(r) \/ fail(r)
       PROVE  DbInv'
  <2>1. Raise(r) /\ ~At(r, "updateCluster") /\ UNCHANGED <<status, refs, zk, migrated>>
    BY <1>21 DEF refusedByKafka, fail, At, dbVars
  <2> QED
    BY <1>0, <2>1, RaiseDb
<1> QED
  BY <1>0, <1>1, <1>2, <1>3, <1>5, <1>6, <1>7, <1>8, <1>9, <1>10, <1>11, <1>12, <1>13, <1>14,
     <1>15, <1>16, <1>17, <1>18, <1>19, <1>20, <1>21 DEF Next, Serve

\* While the portal serves one request at a time, none before the database has heard of the
\* last migration, and does not die, an environment's row and its node never name different
\* clusters once everything has ended: whatever brokers and ZooKeeper refuse on the way
\* (registerTopicToZk and updateCluster; migrateInZk and the thread of updateMigrateTopics).
THEOREM DatabaseNamesCluster ==
  ASSUME OneAtATime
  PROVE  Spec => []DbNamesZkCluster
<1>1. Init => TypeInv /\ RegisterInv /\ DbInv
  BY TypeInit, RegisterInit, DbInit
<1>2. TypeInv /\ RegisterInv /\ DbInv /\ [Next]_vars => (TypeInv /\ RegisterInv /\ DbInv)'
  BY TypeInvariance, DeletesInvariance, RegisterInvariance, DbInvariance DEF TypeInv
<1>3. DbInv => DbNamesZkCluster
  <2> SUFFICES ASSUME DbInv, Idle, migrated = {}, InOrder, NEW e \in Envs, refs[e] \in Clusters
               PROVE  zk[e] \in {refs[e], NoCluster}
    BY DEF DbNamesZkCluster, Placed, InOrder
  <2>1. \A r \in Requests : req[r].op = "none"
    <3>1. NoRequest.op = "none"
      BY DEF NoRequest
    <3> QED
      BY <3>1 DEF Idle
  <2>2. ~Written(e) /\ ~Moved(e)
    BY <2>1 DEF Written, Moved, At
  <2> QED
    BY <2>2 DEF DbInv, DbState, Agrees
<1> QED
  BY <1>1, <1>2, <1>3, PTL DEF Spec

-----------------------------------------------------------------------------
(* What an action makes of its request, field by field *)

LEMMA GotoEffect ==
  ASSUME TypeInv, NEW r \in Requests, NEW step, Goto(r, step)
  PROVE  /\ req'[r].step = step /\ req'[r].op = req[r].op /\ req'[r].todo = req[r].todo
         /\ req'[r].env = req[r].env /\ req'[r].target = req[r].target
         /\ req'[r].parts = req[r].parts /\ req'[r].old = req[r].old
         /\ req'[r].rows = req[r].rows /\ req'[r].failed = req[r].failed
         /\ Target(r)' = Target(r)
<1> DEFINE q == req[r]
<1>1. q \in Request /\ req'[r] = [q EXCEPT !.step = step]
  BY DEF Goto, TypeInv, TypeOK
<1>2. Target(r) = q.target[q.env] /\ Target(r)' = req'[r].target[req'[r].env]
  BY DEF Target
<1> HIDE DEF q
<1>3. /\ req'[r].step = step /\ req'[r].op = q.op /\ req'[r].todo = q.todo /\ req'[r].env = q.env
      /\ req'[r].target = q.target /\ req'[r].parts = q.parts /\ req'[r].old = q.old
      /\ req'[r].rows = q.rows /\ req'[r].failed = q.failed
  BY <1>1 DEF Request
<1> QED
  BY <1>2, <1>3 DEF q

LEMMA DoneEffect ==
  ASSUME TypeInv, NEW r \in Requests, Done(r)
  PROVE  /\ req'[r].step = "next" /\ req'[r].op = req[r].op
         /\ req'[r].todo = req[r].todo \ {req[r].env}
         /\ req'[r].target = req[r].target
         /\ req'[r].parts = req[r].parts /\ req'[r].old = req[r].old
         /\ req'[r].rows = req[r].rows /\ req'[r].failed = req[r].failed
<1> DEFINE q == req[r]
<1>1. q \in Request /\ req'[r] = [q EXCEPT !.step = "next", !.todo = @ \ {q.env}]
  BY DEF Done, TypeInv, TypeOK
<1> HIDE DEF q
<1>2. /\ req'[r].step = "next" /\ req'[r].op = q.op /\ req'[r].todo = q.todo \ {q.env}
      /\ req'[r].target = q.target /\ req'[r].parts = q.parts /\ req'[r].old = q.old
      /\ req'[r].rows = q.rows /\ req'[r].failed = q.failed
  BY <1>1 DEF Request
<1> QED
  BY <1>2 DEF q

LEMMA EndEffect ==
  ASSUME TypeInv, NEW r \in Requests, End(r)
  PROVE  req'[r].op = "none"
BY DEF End, TypeInv, TypeOK, NoRequest

LEMMA RaiseEffect ==
  ASSUME TypeInv, NEW r \in Requests, Raise(r)
  PROVE  \/ req'[r].op = "none" /\ req[r].op # "approve"
         \/ /\ req[r].op = "approve" /\ req'[r].op = "approve" /\ req'[r].step = "next"
            /\ req'[r].todo = req[r].todo \ {req[r].env}
            /\ req'[r].failed = req[r].failed \cup {req[r].env}
            /\ req'[r].target = req[r].target /\ req'[r].rows = req[r].rows
            /\ req'[r].parts = req[r].parts /\ req'[r].old = req[r].old
<1> DEFINE q == req[r]
           failed == [q EXCEPT !.failed = @ \cup {q.env}, !.step = "next", !.todo = @ \ {q.env}]
<1>1. q \in Request /\ req'[r] = IF q.op = "approve" THEN failed ELSE NoRequest
  BY DEF Raise, TypeInv, TypeOK
<1>2. NoRequest.op = "none"
  BY DEF NoRequest
<1> HIDE DEF q
<1>3. /\ failed.op = q.op /\ failed.step = "next" /\ failed.todo = q.todo \ {q.env}
      /\ failed.failed = q.failed \cup {q.env} /\ failed.target = q.target
      /\ failed.rows = q.rows /\ failed.parts = q.parts /\ failed.old = q.old
  BY <1>1 DEF Request
<1> HIDE DEF failed
<1> QED
  BY <1>1, <1>2, <1>3 DEF q

LEMMA StartEffect ==
  ASSUME TypeInv, NEW r \in Requests, NEW q, Start(r, q)
  PROVE  req'[r] = q /\ req[r].op = "none"
BY DEF Start, TypeInv, TypeOK, NoRequest

LEMMA EditEffect ==
  ASSUME TypeInv, NEW r \in Requests, updateTopic(r)
  PROVE  req[r].op = "none" /\ req'[r].op = "edit" /\ req'[r].step = "insert"
<1> DEFINE q(es) == [NoRequest EXCEPT !.op = "edit", !.step = "insert", !.todo = es]
<1>1. PICK es \in SUBSET Envs : Start(r, q(es))
  BY DEF updateTopic
<1>2. q(es).op = "edit" /\ q(es).step = "insert"
  BY DEF NoRequest
<1> HIDE DEF q
<1> QED
  BY <1>1, <1>2, StartEffect

LEMMA InsertEffect ==
  ASSUME TypeInv, NEW r \in Requests, installTopicEnvRef(r)
  PROVE  \/ req'[r].op = "none"
         \/ req'[r].op = req[r].op /\ req'[r].step = req[r].step /\ req'[r].parts = req[r].parts
<1>1. PICK e \in req[r].todo :
        End(r) \/ req' = [req EXCEPT ![r] = [req[r] EXCEPT !.todo = @ \ {e}]]
  BY DEF installTopicEnvRef, TypeInv, TypeOK
<1> DEFINE q == req[r]
<1>2. CASE req' = [req EXCEPT ![r] = [q EXCEPT !.todo = @ \ {e}]]
  <2>1. q \in Request /\ req'[r] = [q EXCEPT !.todo = @ \ {e}]
    BY <1>2 DEF TypeInv, TypeOK
  <2> HIDE DEF q
  <2>2. req'[r].op = q.op /\ req'[r].step = q.step /\ req'[r].parts = q.parts
    BY <2>1 DEF Request
  <2> QED
    BY <2>2 DEF q
<1> QED
  BY <1>1, <1>2, EndEffect

LEMMA ApproveEffect ==
  ASSUME TypeInv, NEW r \in Requests, approveTopic(r)
  PROVE  /\ req[r].op = "none" /\ req'[r].op = "approve" /\ req'[r].step = "next"
         /\ req'[r].todo = Known /\ req'[r].rows = refs /\ req'[r].failed = {}
         /\ req'[r].old = partitions /\ req'[r].parts = partitions'
<1> DEFINE q(parts) == [NoRequest EXCEPT !.op = "approve", !.todo = Known, !.parts = parts,
                          !.new = (status = "new"), !.old = partitions, !.rows = refs]
<1>1. PICK parts \in 1 .. MaxPartitions : Start(r, q(parts)) /\ partitions' = parts
  BY DEF approveTopic
<1>2. /\ q(parts).op = "approve" /\ q(parts).step = "next" /\ q(parts).todo = Known
      /\ q(parts).rows = refs /\ q(parts).failed = {} /\ q(parts).old = partitions
      /\ q(parts).parts = parts
  BY DEF NoRequest
<1> HIDE DEF q
<1> QED
  BY <1>1, <1>2, StartEffect

\* The next environment of an approval: its topic is created, updated, or as it should be.
LEMMA ChooseEffect ==
  ASSUME TypeInv, NEW r \in Requests, initTopicResource(r)
  PROVE  \E e \in req[r].todo, c \in Clusters :
           /\ req'[r].op = "approve" /\ req'[r].env = e
           /\ req'[r].target = [req[r].target EXCEPT ![e] = c]
           /\ Target(r)' = c
           /\ req'[r].parts = req[r].parts /\ req'[r].old = req[r].old
           /\ req'[r].rows = req[r].rows /\ req'[r].failed = req[r].failed
           /\ \/ req'[r].step = "create" /\ req'[r].todo = req[r].todo
              \/ req'[r].step = "update" /\ req'[r].todo = req[r].todo /\ req[r].rows[e] = c
              \/ /\ req'[r].step = "next" /\ req'[r].todo = req[r].todo \ {e}
                 /\ req[r].rows[e] = c /\ req[r].old = req[r].parts
<1> DEFINE q == req[r]
           chosen(e, c) == [q EXCEPT !.env = e, !.target[e] = c]
<1>1. PICK e \in q.todo, c \in Clusters :
        req' = [req EXCEPT ![r] =
                  IF q.new \/ q.rows[e] # c THEN [chosen(e, c) EXCEPT !.step = "create"]
                  ELSE IF q.old # q.parts THEN [chosen(e, c) EXCEPT !.step = "update"]
                  ELSE [chosen(e, c) EXCEPT !.todo = @ \ {e}]]
  BY DEF initTopicResource
<1>2. q \in Request /\ q.op = "approve" /\ q.step = "next" /\ e \in Envs
  BY RequestFields DEF initTopicResource, At, TypeInv, TypeOK
<1>3. req'[r] = IF q.new \/ q.rows[e] # c THEN [chosen(e, c) EXCEPT !.step = "create"]
                ELSE IF q.old # q.parts THEN [chosen(e, c) EXCEPT !.step = "update"]
                ELSE [chosen(e, c) EXCEPT !.todo = @ \ {e}]
  BY <1>1 DEF TypeInv, TypeOK
<1>4. Target(r)' = req'[r].target[req'[r].env]
  BY DEF Target
<1> HIDE DEF q
<1>5. /\ chosen(e, c) \in Request /\ chosen(e, c).op = "approve" /\ chosen(e, c).step = "next"
      /\ chosen(e, c).env = e /\ chosen(e, c).target = [q.target EXCEPT ![e] = c]
      /\ chosen(e, c).target[e] = c /\ chosen(e, c).todo = q.todo
      /\ chosen(e, c).parts = q.parts /\ chosen(e, c).old = q.old
      /\ chosen(e, c).rows = q.rows /\ chosen(e, c).failed = q.failed
  BY <1>2 DEF Request
<1> HIDE DEF chosen
<1>6. /\ req'[r].op = "approve" /\ req'[r].env = e /\ req'[r].target = [q.target EXCEPT ![e] = c]
      /\ req'[r].target[req'[r].env] = c /\ req'[r].parts = q.parts /\ req'[r].old = q.old
      /\ req'[r].rows = q.rows /\ req'[r].failed = q.failed
  BY <1>3, <1>5 DEF Request
<1>7. \/ req'[r].step = "create" /\ req'[r].todo = q.todo
      \/ req'[r].step = "update" /\ req'[r].todo = q.todo /\ q.rows[e] = c
      \/ req'[r].step = "next" /\ req'[r].todo = q.todo \ {e} /\ q.rows[e] = c /\ q.old = q.parts
  BY <1>3, <1>5 DEF Request
<1> QED
  BY <1>4, <1>6, <1>7 DEF q

LEMMA SyncEffect ==
  ASSUME TypeInv, NEW r \in Requests, syncTopic(r)
  PROVE  /\ req[r].op = "none" /\ req'[r].op = "sync" /\ req'[r].step = "next"
         /\ req'[r].parts = partitions
<1> DEFINE q(es) == [NoRequest EXCEPT !.op = "sync", !.todo = es, !.parts = partitions]
<1>1. PICK es \in SUBSET Envs : Start(r, q(es))
  BY DEF syncTopic
<1>2. q(es).op = "sync" /\ q(es).step = "next" /\ q(es).parts = partitions
  BY DEF NoRequest
<1> HIDE DEF q
<1> QED
  BY <1>1, <1>2, StartEffect

LEMMA NextEffect ==
  ASSUME TypeInv, NEW r \in Requests, nextEnvironment(r)
  PROVE  \E e \in req[r].todo, c \in Clusters :
           /\ req'[r].op = "sync" /\ req'[r].step = "create" /\ req'[r].env = e
           /\ req'[r].todo = req[r].todo /\ req'[r].parts = req[r].parts /\ Target(r)' = c
<1> DEFINE q == req[r]
<1>1. PICK e \in q.todo, c \in Clusters :
        req' = [req EXCEPT ![r] = [q EXCEPT !.env = e, !.target[e] = c, !.step = "create"]]
  BY DEF nextEnvironment
<1>2. /\ q \in Request /\ q.op = "sync" /\ e \in Envs
      /\ req'[r] = [q EXCEPT !.env = e, !.target[e] = c, !.step = "create"]
  BY <1>1, RequestFields DEF nextEnvironment, TypeInv, TypeOK
<1>3. Target(r)' = req'[r].target[req'[r].env]
  BY DEF Target
<1> HIDE DEF q
<1>4. /\ req'[r].op = "sync" /\ req'[r].step = "create" /\ req'[r].env = e
      /\ req'[r].todo = q.todo /\ req'[r].parts = q.parts /\ req'[r].target[req'[r].env] = c
  BY <1>2 DEF Request
<1> QED
  BY <1>3, <1>4 DEF q

LEMMA DeleteEffect ==
  ASSUME TypeInv, NEW r \in Requests, deleteTopic(r)
  PROVE  /\ req[r].op = "none" /\ req'[r].op = "delete" /\ req'[r].step = "next"
         /\ req'[r].todo = Placed
<1> DEFINE q == [NoRequest EXCEPT !.op = "delete", !.todo = Placed, !.rows = refs]
<1>1. Start(r, q)
  BY DEF deleteTopic
<1>2. q.op = "delete" /\ q.step = "next" /\ q.todo = Placed
  BY DEF NoRequest
<1> HIDE DEF q
<1> QED
  BY <1>1, <1>2, StartEffect

LEMMA CheckEffect ==
  ASSUME TypeInv, NEW r \in Requests, checkPath(r)
  PROVE  \E e \in req[r].todo :
           /\ req'[r].op = "delete"
           /\ \/ zk[e] = NoCluster /\ req'[r].step = "next" /\ req'[r].todo = req[r].todo \ {e}
              \/ req'[r].step = "unregister" /\ req'[r].todo = req[r].todo
<1> DEFINE q == req[r]
           skipped(e) == [q EXCEPT !.todo = @ \ {e}]
           cleaned(e) == [q EXCEPT !.env = e, !.target[e] = q.rows[e], !.step = "unregister"]
<1>1. PICK e \in q.todo :
        req' = [req EXCEPT ![r] = IF zk[e] = NoCluster THEN skipped(e) ELSE cleaned(e)]
  BY DEF checkPath
<1>2. /\ q \in Request /\ q.op = "delete" /\ q.step = "next"
      /\ req'[r] = IF zk[e] = NoCluster THEN skipped(e) ELSE cleaned(e)
  BY <1>1 DEF checkPath, At, TypeInv, TypeOK
<1> HIDE DEF q
<1>3. /\ skipped(e).op = "delete" /\ skipped(e).step = "next" /\ skipped(e).todo = q.todo \ {e}
      /\ cleaned(e).op = "delete" /\ cleaned(e).step = "unregister" /\ cleaned(e).todo = q.todo
  BY <1>2 DEF Request
<1> HIDE DEF skipped, cleaned
<1> QED
  BY <1>2, <1>3 DEF q

LEMMA MigrateEffect ==
  ASSUME TypeInv, NEW r \in Requests, migrateTopics(r)
  PROVE  /\ req[r].op = "none" /\ req'[r].op = "migrate" /\ req'[r].step = "create"
         /\ req'[r].parts = partitions /\ req'[r].env \in Known /\ Target(r)' \in Clusters
<1> DEFINE q(e, c) == [NoRequest EXCEPT !.op = "migrate", !.step = "create", !.env = e,
                         !.target[e] = c, !.parts = partitions, !.rows = refs]
<1>1. PICK e \in Known, c \in Clusters : Start(r, q(e, c))
  BY DEF migrateTopics
<1>2. req[r].op = "none" /\ req'[r] = q(e, c)
  <2> HIDE DEF q
  <2> QED
    BY <1>1, StartEffect
<1>3. /\ q(e, c).op = "migrate" /\ q(e, c).step = "create" /\ q(e, c).env = e
      /\ q(e, c).parts = partitions /\ q(e, c).target[q(e, c).env] = c
  BY DEF NoRequest, Known
<1> HIDE DEF q
<1> QED
  BY <1>1, <1>2, <1>3 DEF Target

-----------------------------------------------------------------------------
(* Where a request is while the portal serves one at a time *)

\* Which operation is at which step, in which status of the topic, and that the environment
\* it is working on is still to be done and has not failed.
ServedRequest(r) ==
  /\ req[r].op \in {"approve", "sync"} /\ req[r].step \in {"create", "update", "register", "updateCluster"}
       => req[r].env \in req[r].todo
  /\ At(r, "updateCluster") => req[r].op \in {"approve", "sync"} /\ Target(r) \in Clusters
  /\ At(r, "update") => req[r].op = "approve"
  /\ At(r, "insert") => req[r].op = "edit"
  /\ At(r, "unregister") \/ At(r, "drop") => req[r].op = "delete"
  /\ req[r].op = "edit" => status = "new"
  /\ req[r].op \in {"approve", "delete"} => status \in {"new", "approved"}
  /\ req[r].op \in {"sync", "migrate"} => status = "approved"
  /\ req[r].op \in {"approve", "sync", "migrate"} => req[r].parts = partitions
  /\ req[r].op = "approve" => \A e \in req[r].todo : req[r].rows[e] # Absent /\ e \notin req[r].failed

ServedInv == \A r \in Requests : ServedRequest(r)

LEMMA ServedInit == Init => ServedInv
BY DEF Init, ServedInv, ServedRequest, At, NoRequest

LEMMA IdleServed ==
  ASSUME NEW r \in Requests, req'[r].op = "none"
  PROVE  ServedRequest(r)'
BY DEF ServedRequest, At

LEMMA ServedInvariance ==
  ASSUME TypeInv, RegisterInv, ServedInv, OneAtATime, [Next]_vars
  PROVE  ServedInv'
<1>a. ASSUME NEW r \in Requests, ServedRequest(r)'
      PROVE  ServedInv'
  BY <1>a DEF OneAtATime, ServedInv
<1>b. \A r \in Requests : ServedRequest(r) /\ PlacedByRequest(r)
  BY DEF ServedInv, RegisterInv
<1>1. CASE UNCHANGED <<status, partitions, req>>
  BY <1>1 DEF ServedInv, ServedRequest, At, Target
<1>2. CASE addTopic
  <2>1. status = "none" /\ req' = req
    BY <1>2 DEF addTopic
  <2>2. ASSUME NEW r \in Requests
        PROVE  req[r].op = "none"
    <3>1. req[r].op \in Ops
      BY DEF TypeInv, TypeOK, Request
    <3> QED
      BY <1>b, <2>1, <3>1 DEF ServedRequest, Ops
  <2> QED
    BY <2>1, <2>2, IdleServed DEF ServedInv
<1>3. CASE Crash
  BY <1>3, IdleServed DEF Crash, ServedInv, NoRequest
<1>4. ASSUME NEW r \in Requests, updateTopic(r)
      PROVE  ServedInv'
  <2>1. req'[r].op = "edit" /\ req'[r].step = "insert" /\ status' = "new"
    BY <1>4, EditEffect DEF updateTopic
  <2>2. ServedRequest(r)'
    BY <2>1 DEF ServedRequest, At
  <2> QED
    BY <2>2, <1>a
<1>5. ASSUME NEW r \in Requests, installTopicEnvRef(r)
      PROVE  ServedInv'
  <2>1. req[r].op = "edit" /\ req[r].step = "insert" /\ status' = "new"
    BY <1>5, <1>b DEF installTopicEnvRef, At, ServedRequest
  <2>2. ServedRequest(r)'
    BY <1>5, <2>1, InsertEffect DEF ServedRequest, At
  <2> QED
    BY <2>2, <1>a
<1>6. ASSUME NEW r \in Requests, approveTopic(r)
      PROVE  ServedInv'
  <2>1. status' \in {"new", "approved"}
    BY <1>6 DEF approveTopic
  <2>2. ServedRequest(r)'
    BY <1>6, <2>1, ApproveEffect DEF ServedRequest, At, Known
  <2> QED
    BY <2>2, <1>a
<1>7. ASSUME NEW r \in Requests, initTopicResource(r)
      PROVE  ServedInv'
  <2>1. req[r].op = "approve" /\ UNCHANGED <<status, partitions>>
    BY <1>7 DEF initTopicResource, dbVars
  <2>2. PICK e \in req[r].todo, c \in Clusters :
          /\ req'[r].op = "approve" /\ req'[r].env = e /\ Target(r)' = c
          /\ req'[r].parts = req[r].parts /\ req'[r].rows = req[r].rows /\ req'[r].failed = req[r].failed
          /\ \/ req'[r].step \in {"create", "update"} /\ req'[r].todo = req[r].todo
             \/ req'[r].step = "next" /\ req'[r].todo = req[r].todo \ {e}
    BY <1>7, ChooseEffect
  <2>3. ServedRequest(r)'
    BY <1>b, <2>1, <2>2 DEF ServedRequest, At
  <2> QED
    BY <2>3, <1>a
<1>8. ASSUME NEW r \in Requests, syncTopic(r)
      PROVE  ServedInv'
  <2>1. status' = "approved" /\ partitions' = partitions
    BY <1>8 DEF syncTopic
  <2>2. ServedRequest(r)'
    BY <1>8, <2>1, SyncEffect DEF ServedRequest, At
  <2> QED
    BY <2>2, <1>a
<1>9. ASSUME NEW r \in Requests, nextEnvironment(r)
      PROVE  ServedInv'
  <2>1. req[r].op = "sync" /\ UNCHANGED <<status, partitions>>
    BY <1>9 DEF nextEnvironment, dbVars
  <2>2. ServedRequest(r)'
    BY <1>9, <1>b, <2>1, NextEffect DEF ServedRequest, At
  <2> QED
    BY <2>2, <1>a
<1>10. ASSUME NEW r \in Requests,
              \/ createTopic(r) \/ updatePartitions(r) \/ registerTopicToZk(r)
              \/ createPartitionsLost(r)
       PROVE  ServedInv'
  <2>1. /\ req[r].op \in {"approve", "sync", "migrate"} /\ Target(r) \in Clusters
        /\ req[r].step \in {"create", "update", "register"}
        /\ \/ Goto(r, "register")
           \/ req[r].op # "migrate" /\ Goto(r, "updateCluster")
    BY <1>10, <1>b DEF createTopic, updatePartitions, registerTopicToZk, createPartitionsLost, At,
       PlacedByRequest, ServedRequest
  <2>2. UNCHANGED <<status, partitions>>
    BY <1>10 DEF createTopic, updatePartitions, registerTopicToZk, createPartitionsLost, dbVars
  <2>3. /\ req'[r].step = "register" \/ (req'[r].step = "updateCluster" /\ req'[r].op # "migrate")
        /\ req'[r].op = req[r].op /\ req'[r].todo = req[r].todo /\ req'[r].env = req[r].env
        /\ req'[r].parts = req[r].parts /\ req'[r].rows = req[r].rows
        /\ req'[r].failed = req[r].failed /\ Target(r)' = Target(r)
    <3>1. ASSUME NEW step, Goto(r, step)
          PROVE  /\ req'[r].step = step /\ req'[r].op = req[r].op /\ req'[r].todo = req[r].todo
                 /\ req'[r].env = req[r].env /\ req'[r].parts = req[r].parts
                 /\ req'[r].rows = req[r].rows /\ req'[r].failed = req[r].failed
                 /\ Target(r)' = Target(r)
      BY <3>1, GotoEffect
    <3>2. CASE Goto(r, "register")
      BY <3>1, <3>2
    <3>3. CASE req[r].op # "migrate" /\ Goto(r, "updateCluster")
      BY <3>1, <3>3
    <3> QED
      BY <2>1, <3>2, <3>3
  <2>4. ServedRequest(r)'
    BY <1>b, <2>1, <2>2, <2>3 DEF ServedRequest, At
  <2> QED
    BY <2>4, <1>a
<1>11. ASSUME NEW r \in Requests, updateCluster(r) \/ dropTopic(r)
       PROVE  ServedInv'
  <2>1. Done(r) /\ UNCHANGED <<status, partitions>>
    BY <1>11 DEF updateCluster, dropTopic, dbVars
  <2>2. ServedRequest(r)'
    BY <1>b, <2>1, DoneEffect DEF ServedRequest, At
  <2> QED
    BY <2>2, <1>a
<1>12. ASSUME NEW r \in Requests, updateStatusById(r) \/ deleteById(r) \/ migrateInZk(r)
       PROVE  ServedInv'
  <2>1. End(r)
    BY <1>12 DEF updateStatusById, deleteById, migrateInZk
  <2> QED
    BY <2>1, <1>a, EndEffect, IdleServed
<1>13. ASSUME NEW r \in Requests, deleteTopic(r)
       PROVE  ServedInv'
  <2>1. status' \in {"new", "approved"}
    BY <1>13 DEF deleteTopic, dbVars
  <2>2. ServedRequest(r)'
    BY <1>13, <2>1, DeleteEffect DEF ServedRequest, At
  <2> QED
    BY <2>2, <1>a
<1>14. ASSUME NEW r \in Requests, checkPath(r)
       PROVE  ServedInv'
  <2>1. req[r].op = "delete" /\ UNCHANGED <<status, partitions>>
    BY <1>14 DEF checkPath, dbVars
  <2>2. req'[r].op = "delete" /\ req'[r].step \in {"next", "unregister"}
    BY <1>14, CheckEffect
  <2>3. ServedRequest(r)'
    BY <1>b, <2>1, <2>2 DEF ServedRequest, At
  <2> QED
    BY <2>3, <1>a
<1>15. ASSUME NEW r \in Requests, deleteTopicInfo(r)
       PROVE  ServedInv'
  <2>1. req[r].op = "delete" /\ Goto(r, "drop") /\ UNCHANGED <<status, partitions>>
    BY <1>15, <1>b DEF deleteTopicInfo, dbVars, ServedRequest
  <2>2. req'[r].op = "delete" /\ req'[r].step = "drop"
    BY <2>1, GotoEffect
  <2>3. ServedRequest(r)'
    BY <1>b, <2>1, <2>2 DEF ServedRequest, At
  <2> QED
    BY <2>3, <1>a
<1>16. ASSUME NEW r \in Requests, migrateTopics(r)
       PROVE  ServedInv'
  <2>1. status' = "approved" /\ partitions' = partitions
    BY <1>16 DEF migrateTopics, dbVars
  <2>2. ServedRequest(r)'
    BY <1>16, <2>1, MigrateEffect DEF ServedRequest, At
  <2> QED
    BY <2>2, <1>a
<1>17. ASSUME NEW r \in Requests, refusedByKafka(r) \/ fail(r)
       PROVE  ServedInv'
  <2>1. Raise(r) /\ UNCHANGED <<status, partitions>>
    BY <1>17 DEF refusedByKafka, fail, dbVars
  <2>2. ServedRequest(r)'
    BY <1>b, <2>1, RaiseEffect DEF ServedRequest, At
  <2> QED
    BY <2>2, <1>a
<1>18. CASE updateMigrateTopics \/ UNCHANGED vars
  BY <1>1, <1>18 DEF updateMigrateTopics, vars, dbVars
<1> QED
  BY <1>2, <1>3, <1>4, <1>5, <1>6, <1>7, <1>8, <1>9, <1>10, <1>11, <1>12, <1>13, <1>14, <1>15,
     <1>16, <1>17, <1>18 DEF Next, Serve

-----------------------------------------------------------------------------
(* RegisteredIsKnown, for one request at a time *)

\* Approval r has registered the topic in environment e, so it cannot fail everywhere.
Approving(r, e) ==
  /\ req[r].op = "approve" /\ req[r].rows[e] # Absent /\ e \notin req[r].failed
  /\ e \notin req[r].todo \/ (req[r].step = "updateCluster" /\ req[r].env = e)

\* An environment with a node has a row with a cluster, or is about to get one; the topic is
\* approved, or is about to be; and a deletion has the environment still to do.
KnownAt(e) ==
  /\ refs[e] \in Clusters \/ Written(e)
  /\ status = "approved" \/ \E r \in Requests : Approving(r, e)
  /\ \A r \in Requests : req[r].op = "delete" => e \in req[r].todo

KnownInv == crashes = 0 => \A e \in Envs : zk[e] # NoCluster => KnownAt(e)

LEMMA KnownInit == Init => KnownInv
BY DEF Init, KnownInv

\* A crash is counted for good.
LEMMA CrashCounted ==
  ASSUME TypeInv, [Next]_vars, crashes' = 0
  PROVE  crashes = 0 /\ ~Crash
<1>1. crashes \in Nat
  BY Bounds DEF TypeInv, TypeOK
<1>2. ~Crash
  BY <1>1 DEF Crash
<1>3. CASE UNCHANGED vars
  BY <1>2, <1>3 DEF vars, counters
<1>4. CASE addTopic \/ updateMigrateTopics
  BY <1>2, <1>4 DEF addTopic, updateMigrateTopics, counters
<1>5. ASSUME NEW r \in Requests, \/ updateTopic(r) \/ installTopicEnvRef(r) \/ approveTopic(r)
                                 \/ initTopicResource(r) \/ syncTopic(r) \/ nextEnvironment(r)
                                 \/ createTopic(r) \/ updatePartitions(r) \/ registerTopicToZk(r)
                                 \/ updateCluster(r) \/ updateStatusById(r)
      PROVE  crashes' = crashes
  BY <1>5 DEF updateTopic, installTopicEnvRef, approveTopic, initTopicResource, syncTopic,
     nextEnvironment, createTopic, updatePartitions, registerTopicToZk, updateCluster,
     updateStatusById, counters
<1>6. ASSUME NEW r \in Requests, \/ deleteTopic(r) \/ checkPath(r) \/ deleteTopicInfo(r)
                                 \/ dropTopic(r) \/ deleteById(r) \/ migrateTopics(r)
                                 \/ migrateInZk(r) \/ refusedByKafka(r) \/ fail(r)
                                 \/ createPartitionsLost(r)
      PROVE  crashes' = crashes
  BY <1>6 DEF deleteTopic, checkPath, deleteTopicInfo, dropTopic, deleteById, migrateTopics,
     migrateInZk, refusedByKafka, fail, createPartitionsLost, counters
<1> QED
  BY <1>2, <1>3, <1>4, <1>5, <1>6 DEF Next, Serve

LEMMA KnownInvariance ==
  ASSUME TypeInv, RegisterInv, ServedInv, KnownInv, OneAtATime, [Next]_vars
  PROVE  KnownInv'
<1> SUFFICES ASSUME crashes' = 0, NEW e \in Envs, zk'[e] # NoCluster
             PROVE  KnownAt(e)'
  BY DEF KnownInv
<1>a. ~Crash /\ (zk[e] # NoCluster => KnownAt(e))
  BY CrashCounted DEF KnownInv
<1>b. \A r \in Requests : ServedRequest(r) /\ PlacedByRequest(r)
  BY DEF ServedInv, RegisterInv
\* What holds of a node's environment while nobody writes its row
<1>c. ASSUME NEW r \in Requests, zk[e] # NoCluster, ~At(r, "updateCluster")
      PROVE  /\ refs[e] \in Clusters
             /\ req[r].op # "approve" => status = "approved"
             /\ status # "approved" => Approving(r, e) /\ e \notin req[r].todo
             /\ req[r].op = "delete" => e \in req[r].todo
  BY <1>a, <1>c DEF KnownAt, Written, Approving, OneAtATime, At
<1>1. CASE UNCHANGED <<status, refs, zk, req>>
  BY <1>a, <1>1 DEF KnownAt, Written, Approving, At
<1>2. CASE addTopic
  <2>1. status = "none" /\ zk' = zk
    BY <1>2 DEF addTopic
  <2> QED
    BY <1>a, <1>b, <2>1 DEF KnownAt, Approving, ServedRequest
<1>3. CASE updateMigrateTopics
  <2>1. PICK u \in migrated :
          refs' = [refs EXCEPT ![u.env] = IF @ = u.src THEN u.target ELSE @]
    BY <1>3 DEF updateMigrateTopics
  <2>2. UNCHANGED <<status, zk, req>>
    BY <1>3 DEF updateMigrateTopics
  <2>3. u.target \in Clusters
    BY DEF TypeInv, TypeOK, Updates
  <2>4. refs[e] \in Clusters => refs'[e] \in Clusters
    BY <2>1, <2>3 DEF TypeInv, TypeOK
  <2> QED
    BY <1>a, <2>2, <2>4 DEF KnownAt, Written, Approving, At
<1>4. ASSUME NEW r \in Requests, updateTopic(r) \/ installTopicEnvRef(r)
      PROVE  FALSE
  <2>1. status = "new" /\ req[r].op \in {"none", "edit"} /\ zk' = zk /\ ~At(r, "updateCluster")
    BY <1>4, <1>b, EditEffect DEF updateTopic, installTopicEnvRef, At, ServedRequest
  <2> QED
    BY <1>c, <2>1
<1>5. ASSUME NEW r \in Requests, approveTopic(r)
      PROVE  KnownAt(e)'
  <2>1. req[r].op = "none" /\ UNCHANGED <<status, refs, zk>> /\ req'[r].op = "approve"
    BY <1>5, ApproveEffect DEF approveTopic
  <2>2. refs[e] \in Clusters /\ status = "approved"
    BY <1>c, <2>1 DEF At
  <2> QED
    BY <2>1, <2>2 DEF KnownAt, OneAtATime
<1>6. ASSUME NEW r \in Requests, initTopicResource(r)
      PROVE  KnownAt(e)'
  <2>1. UNCHANGED <<status, refs, zk>> /\ At(r, "next")
    BY <1>6 DEF initTopicResource, dbVars
  <2>2. PICK f \in req[r].todo :
          /\ req'[r].op = "approve" /\ req'[r].rows = req[r].rows /\ req'[r].failed = req[r].failed
          /\ req'[r].todo \subseteq req[r].todo
    BY <1>6, ChooseEffect
  <2> QED
    BY <1>c, <2>1, <2>2 DEF KnownAt, Approving, OneAtATime, At
<1>7. ASSUME NEW r \in Requests, syncTopic(r)
      PROVE  KnownAt(e)'
  <2>1. /\ status = "approved" /\ UNCHANGED <<status, zk>> /\ req[r].op = "none"
        /\ req'[r].op = "sync"
    BY <1>7, SyncEffect DEF syncTopic
  <2>2. refs[e] \in Clusters
    BY <1>c, <2>1 DEF At
  <2>3. refs'[e] = refs[e]
    BY <1>7, <2>2, TopicAssumption DEF syncTopic, Known
  <2> QED
    BY <2>1, <2>2, <2>3 DEF KnownAt, OneAtATime
<1>8. ASSUME NEW r \in Requests, nextEnvironment(r)
      PROVE  KnownAt(e)'
  <2>1. /\ UNCHANGED <<status, refs, zk>> /\ At(r, "next") /\ req[r].op = "sync"
        /\ req'[r].op = "sync"
    BY <1>8, NextEffect DEF nextEnvironment, dbVars
  <2>2. refs[e] \in Clusters /\ status = "approved"
    BY <1>c, <2>1 DEF At
  <2> QED
    BY <2>1, <2>2 DEF KnownAt, OneAtATime
<1>9. ASSUME NEW r \in Requests, createTopic(r) \/ updatePartitions(r) \/ createPartitionsLost(r)
      PROVE  KnownAt(e)'
  <2>1. UNCHANGED <<status, refs, zk>> /\ ~At(r, "updateCluster") /\ req[r].op # "delete"
    BY <1>9, <1>b DEF createTopic, updatePartitions, createPartitionsLost, dbVars, At,
       PlacedByRequest, ServedRequest
  <2>2. /\ req'[r].op = req[r].op /\ req'[r].rows = req[r].rows /\ req'[r].failed = req[r].failed
        /\ req'[r].todo = req[r].todo
    BY <1>9, GotoEffect DEF createTopic, updatePartitions, createPartitionsLost
  <2> QED
    BY <1>c, <2>1, <2>2 DEF KnownAt, Approving, OneAtATime
<1>10. ASSUME NEW r \in Requests, registerTopicToZk(r)
       PROVE  KnownAt(e)'
  <2>1. /\ UNCHANGED <<status, refs>> /\ req[r].op \in {"approve", "sync"} /\ At(r, "register")
        /\ zk' = [zk EXCEPT ![req[r].env] = Target(r)]
    BY <1>10, <1>b DEF registerTopicToZk, dbVars, PlacedByRequest
  <2>2. /\ req'[r].op = req[r].op /\ req'[r].rows = req[r].rows /\ req'[r].failed = req[r].failed
        /\ req'[r].todo = req[r].todo /\ req'[r].env = req[r].env /\ req'[r].step = "updateCluster"
    BY <1>10, GotoEffect DEF registerTopicToZk
  <2>3. CASE e = req[r].env
    <3>1. Written(e)'
      BY <2>1, <2>2, <2>3 DEF Written, At
    <3>2. status = "approved" \/ Approving(r, e)'
      BY <1>b, <2>1, <2>2, <2>3 DEF Approving, ServedRequest, At
    <3> QED
      BY <2>1, <2>2, <3>1, <3>2 DEF KnownAt, OneAtATime
  <2>4. CASE e # req[r].env
    <3>1. zk[e] # NoCluster
      BY <2>1, <2>4 DEF TypeInv, TypeOK
    <3> QED
      BY <1>c, <2>1, <2>2, <3>1 DEF KnownAt, Approving, OneAtATime, At
  <2> QED
    BY <2>3, <2>4
<1>11. ASSUME NEW r \in Requests, updateCluster(r)
       PROVE  KnownAt(e)'
  <2>1. /\ UNCHANGED <<status, zk>> /\ req[r].op \in {"approve", "sync"} /\ At(r, "updateCluster")
        /\ refs' = [refs EXCEPT ![req[r].env] = Target(r)] /\ Target(r) \in Clusters
    BY <1>11, <1>b DEF updateCluster, ServedRequest
  <2>2. /\ req'[r].op = req[r].op /\ req'[r].rows = req[r].rows /\ req'[r].failed = req[r].failed
        /\ req'[r].todo = req[r].todo \ {req[r].env}
    BY <1>11, DoneEffect DEF updateCluster
  <2>3. KnownAt(e)
    BY <1>a, <2>1
  <2>4. refs'[e] \in Clusters
    BY <2>1, <2>3 DEF KnownAt, Written, OneAtATime, TypeInv, TypeOK
  <2>5. status = "approved" \/ Approving(r, e)'
    BY <2>2, <2>3 DEF KnownAt, Approving, OneAtATime
  <2> QED
    BY <2>1, <2>2, <2>4, <2>5 DEF KnownAt, OneAtATime
<1>12. ASSUME NEW r \in Requests, updateStatusById(r)
       PROVE  KnownAt(e)'
  <2>1. /\ UNCHANGED <<refs, zk>> /\ At(r, "next") /\ req'[r].op = "none"
        /\ status' = IF req[r].op = "approve" /\ req[r].failed # {f \in Envs : req[r].rows[f] # Absent}
                     THEN "approved" ELSE status
    BY <1>12, EndEffect DEF updateStatusById
  <2>2. status' = "approved"
    BY <1>c, <2>1 DEF Approving, At
  <2> QED
    BY <1>c, <2>1, <2>2 DEF KnownAt, OneAtATime, At
<1>13. ASSUME NEW r \in Requests, deleteTopic(r)
       PROVE  KnownAt(e)'
  <2>1. /\ UNCHANGED <<status, refs, zk>> /\ req[r].op = "none" /\ req'[r].op = "delete"
        /\ req'[r].todo = Placed
    BY <1>13, DeleteEffect DEF deleteTopic, dbVars
  <2>2. refs[e] \in Clusters /\ status = "approved"
    BY <1>c, <2>1 DEF At
  <2> QED
    BY <2>1, <2>2 DEF KnownAt, OneAtATime, Placed
<1>14. ASSUME NEW r \in Requests, checkPath(r)
       PROVE  KnownAt(e)'
  <2>1. UNCHANGED <<status, refs, zk>> /\ At(r, "next") /\ req[r].op = "delete"
    BY <1>14 DEF checkPath, dbVars
  <2>2. /\ req'[r].op = "delete"
        /\ req'[r].todo = req[r].todo \/ \E f \in Envs : zk[f] = NoCluster /\ req'[r].todo = req[r].todo \ {f}
    BY <1>14, CheckEffect, RequestFields DEF TypeInv
  <2>3. refs[e] \in Clusters /\ status = "approved" /\ e \in req[r].todo
    BY <1>c, <2>1 DEF At
  <2>4. e \in req'[r].todo
    BY <2>1, <2>2, <2>3
  <2> QED
    BY <2>1, <2>2, <2>3, <2>4 DEF KnownAt, OneAtATime
<1>15. ASSUME NEW r \in Requests, deleteTopicInfo(r) \/ dropTopic(r)
       PROVE  KnownAt(e)'
  <2>1. /\ UNCHANGED <<status, refs>> /\ req[r].op = "delete" /\ ~At(r, "updateCluster")
        /\ zk' = zk \/ zk' = [zk EXCEPT ![req[r].env] = NoCluster]
    BY <1>15, <1>b DEF deleteTopicInfo, dropTopic, dbVars, ServedRequest, At
  <2>2. zk[e] # NoCluster /\ e # req[r].env
    BY <1>15, <1>b, <2>1 DEF deleteTopicInfo, dropTopic, PlacedByRequest, TypeInv, TypeOK
  <2>3. /\ req'[r].op = req[r].op
        /\ req'[r].todo = req[r].todo \/ req'[r].todo = req[r].todo \ {req[r].env}
    BY <1>15, GotoEffect, DoneEffect DEF deleteTopicInfo, dropTopic
  <2> QED
    BY <1>c, <2>1, <2>2, <2>3 DEF KnownAt, OneAtATime
<1>16. ASSUME NEW r \in Requests, deleteById(r)
       PROVE  FALSE
  <2>1. zk' = zk /\ At(r, "next") /\ req[r].op = "delete" /\ req[r].todo = {}
    BY <1>16 DEF deleteById
  <2> QED
    BY <1>c, <2>1 DEF At
<1>17. ASSUME NEW r \in Requests, migrateTopics(r)
       PROVE  KnownAt(e)'
  <2>1. /\ UNCHANGED <<status, refs, zk>> /\ req[r].op = "none" /\ req'[r].op = "migrate"
    BY <1>17, MigrateEffect DEF migrateTopics, dbVars
  <2>2. refs[e] \in Clusters /\ status = "approved"
    BY <1>c, <2>1 DEF At
  <2> QED
    BY <2>1, <2>2 DEF KnownAt, OneAtATime
<1>18. ASSUME NEW r \in Requests, migrateInZk(r)
       PROVE  KnownAt(e)'
  <2>1. /\ UNCHANGED <<status, refs>> /\ req[r].op = "migrate" /\ At(r, "register")
        /\ req'[r].op = "none"
        /\ zk' = zk \/ (zk[req[r].env] # NoCluster /\ zk' = [zk EXCEPT ![req[r].env] = Target(r)])
    BY <1>18, EndEffect DEF migrateInZk, dbVars
  <2>2. zk[e] # NoCluster
    BY <2>1 DEF TypeInv, TypeOK
  <2> QED
    BY <1>c, <2>1, <2>2 DEF KnownAt, OneAtATime, At
<1>19. ASSUME NEW r \in Requests, refusedByKafka(r) \/ fail(r)
       PROVE  KnownAt(e)'
  <2>1. /\ UNCHANGED <<status, refs, zk>> /\ Raise(r)
        /\ req[r].step \in {"create", "update", "register", "unregister", "drop"}
        /\ req[r].op # "none"
    BY <1>19 DEF refusedByKafka, fail, dbVars, At
  <2>2. /\ refs[e] \in Clusters
        /\ req[r].op # "approve" => status = "approved"
        /\ status # "approved" => Approving(r, e) /\ e \notin req[r].todo
    BY <1>c, <2>1 DEF At
  <2>3. req'[r].op \in {"none", "approve"}
    BY <2>1, RaiseEffect
  <2>4. ASSUME status # "approved"
        PROVE  Approving(r, e)'
    <3>1. req[r].env \in req[r].todo
      BY <1>b, <2>1, <2>2, <2>4 DEF ServedRequest, Approving, At
    <3> QED
      BY <2>1, <2>2, <2>4, <3>1, RaiseEffect DEF Approving
  <2> QED
    BY <2>1, <2>2, <2>3, <2>4 DEF KnownAt, OneAtATime
<1>20. CASE UNCHANGED vars
  BY <1>1, <1>20 DEF vars, dbVars
<1> QED
  BY <1>a, <1>2, <1>3, <1>4, <1>5, <1>6, <1>7, <1>8, <1>9, <1>10, <1>11, <1>12, <1>13, <1>14, <1>15,
     <1>16, <1>17, <1>18, <1>19, <1>20 DEF Next, Serve

\* RegisteredIsKnown at every step while the portal serves one request at a time: unless it
\* has died, a topic's node is only ever left in ZooKeeper where the topic is approved and its
\* row names a cluster, so that a deletion finds it, wherever earlier requests have stopped.
\* (updateCluster follows registerTopicToZk with nothing in between that can be refused, an
\* approval only counts as failed where it has not registered, and deleteById comes last.)
THEOREM RegisteredTopicKnown ==
  ASSUME OneAtATime
  PROVE  Spec => []RegisteredIsKnown
<1> DEFINE Inv == TypeInv /\ RegisterInv /\ ServedInv /\ KnownInv
<1>1. Init => Inv
  BY TypeInit, RegisterInit, ServedInit, KnownInit
<1>2. Inv /\ [Next]_vars => Inv'
  BY TypeInvariance, DeletesInvariance, RegisterInvariance, ServedInvariance, KnownInvariance
     DEF TypeInv
<1>3. Inv => RegisteredIsKnown
  <2>1. Idle => \A r \in Requests : req[r].op = "none"
    <3>1. NoRequest.op = "none"
      BY DEF NoRequest
    <3> QED
      BY <3>1 DEF Idle
  <2>2. ASSUME Idle, NEW e \in Envs, KnownAt(e)
        PROVE  refs[e] \in Clusters /\ status = "approved"
    <3>1. ~Written(e) /\ \A r \in Requests : ~Approving(r, e)
      BY <2>1, <2>2 DEF Written, Approving, At
    <3> QED
      BY <2>2, <3>1 DEF KnownAt
  <2> QED
    BY <2>2 DEF KnownInv, RegisteredIsKnown, Placed
<1> QED
  BY <1>1, <1>2, <1>3, PTL DEF Spec

-----------------------------------------------------------------------------
(* ApprovalPlaces, for one request at a time *)

\* What has happened has happened for good, and migrations are counted.
LEMMA HistoryKept ==
  ASSUME [Next]_vars
  PROVE  /\ past \subseteq past'
         /\ migrations' = migrations \/ \E r \in Requests : migrateTopics(r)
<1>1. CASE UNCHANGED vars
  BY <1>1 DEF vars, counters
<1>2. CASE addTopic \/ updateMigrateTopics \/ Crash
  BY <1>2 DEF addTopic, updateMigrateTopics, Crash, counters
<1>3. ASSUME NEW r \in Requests, \/ updateTopic(r) \/ installTopicEnvRef(r) \/ approveTopic(r)
                                 \/ initTopicResource(r) \/ syncTopic(r) \/ nextEnvironment(r)
                                 \/ createTopic(r) \/ updatePartitions(r) \/ registerTopicToZk(r)
                                 \/ updateCluster(r) \/ updateStatusById(r)
      PROVE  past \subseteq past' /\ migrations' = migrations
  BY <1>3 DEF updateTopic, installTopicEnvRef, approveTopic, initTopicResource, syncTopic,
     nextEnvironment, createTopic, updatePartitions, registerTopicToZk, updateCluster,
     updateStatusById, Start, counters
<1>4. ASSUME NEW r \in Requests, \/ deleteTopic(r) \/ checkPath(r) \/ deleteTopicInfo(r)
                                 \/ dropTopic(r) \/ deleteById(r) \/ migrateInZk(r)
                                 \/ refusedByKafka(r) \/ fail(r) \/ createPartitionsLost(r)
      PROVE  past \subseteq past' /\ migrations' = migrations
  BY <1>4 DEF deleteTopic, checkPath, deleteTopicInfo, dropTopic, deleteById, migrateInZk,
     refusedByKafka, fail, createPartitionsLost, Start, Raise, counters
<1>5. ASSUME NEW r \in Requests, migrateTopics(r)
      PROVE  past \subseteq past'
  BY <1>5 DEF migrateTopics, Start
<1> QED
  BY <1>1, <1>2, <1>3, <1>4, <1>5 DEF Next, Serve

\* What ApprovalPlaces excludes has not happened.
Untroubled == "half deleted" \notin past /\ crashes = 0 /\ migrations = 0

\* How far an approval has come: where it has been, without failing, its row names the
\* cluster that was chosen.
PlacesAsAsked(r) ==
  /\ At(r, "updateCluster") => zk[req[r].env] = Target(r)
  /\ req[r].op = "approve" =>
       \A e \in Known : \/ e \in req[r].todo \cup req[r].failed
                        \/ refs[e] = req[r].target[e] /\ refs[e] \in Clusters

\* ApprovalPlaces is not inductive: an approval leaves the environments alone whose rows
\* name the cluster chosen, and relies on their nodes having been written by earlier ones.
PlaceInv == Untroubled =>
  /\ migrated = {} /\ "overtaken" \notin past
  /\ \A r \in Requests : req[r].op # "migrate" /\ PlacesAsAsked(r)
  /\ \/ status = "deleted" \/ \E r \in Requests : req[r].op = "delete"
     \/ \A e \in Envs : refs[e] \in Clusters => zk[e] = refs[e] \/ Written(e)

LEMMA PlaceInit == Init => PlaceInv
BY TopicAssumption DEF Init, PlaceInv, PlacesAsAsked, At, NoRequest

LEMMA PlaceInvariance ==
  ASSUME TypeInv, RegisterInv, DbInv, ServedInv, PlaceInv, OneAtATime, [Next]_vars
  PROVE  PlaceInv'
<1> SUFFICES ASSUME Untroubled' PROVE PlaceInv'
  BY DEF PlaceInv
<1>a. Untroubled /\ ~Crash /\ \A r \in Requests : ~migrateTopics(r)
  <2>1. migrations \in Nat
    BY Bounds DEF TypeInv, TypeOK
  <2>2. ASSUME NEW r \in Requests, migrateTopics(r)
        PROVE  FALSE
    <3>1. migrations' = migrations + 1
      BY <2>2 DEF migrateTopics
    <3>2. migrations' = 0
      BY DEF Untroubled
    <3> QED
      BY <2>1, <3>1, <3>2
  <2>3. past \subseteq past' /\ migrations' = migrations
    BY <2>2, HistoryKept
  <2>4. "half deleted" \notin past /\ migrations = 0 /\ crashes' = 0
    BY <2>3 DEF Untroubled
  <2>5. crashes = 0 /\ ~Crash
    BY <2>4, CrashCounted DEF TypeInv
  <2> QED
    BY <2>2, <2>4, <2>5 DEF Untroubled
<1>b. /\ migrated = {} /\ "overtaken" \notin past
      /\ \A r \in Requests : req[r].op # "migrate" /\ PlacesAsAsked(r)
      /\ \A r \in Requests : ServedRequest(r) /\ PlacedByRequest(r) /\ DbRequest(r)
  BY <1>a DEF PlaceInv, ServedInv, RegisterInv, DbInv, InOrder, Untroubled
<1>c. ASSUME NEW r \in Requests, status # "deleted", req[r].op # "delete",
             ~At(r, "updateCluster"), NEW e \in Envs, refs[e] \in Clusters
      PROVE  zk[e] = refs[e]
  BY <1>a, <1>c DEF PlaceInv, Written, OneAtATime
\* What there is to show of a request that leaves migrations alone
<1>d. ASSUME NEW r \in Requests, migrated' = migrated, "overtaken" \notin past',
             req'[r].op # "migrate", PlacesAsAsked(r)',
             \/ status' = "deleted" \/ req'[r].op = "delete"
             \/ \A e \in Envs : refs'[e] \in Clusters => zk'[e] = refs'[e] \/ Written(e)'
      PROVE  PlaceInv'
  BY <1>b, <1>d DEF PlaceInv, OneAtATime
<1>1. CASE UNCHANGED <<status, refs, zk, req, migrated, past>>
  BY <1>a, <1>1 DEF PlaceInv, PlacesAsAsked, Written, At, Target, Known
<1>2. CASE addTopic
  <2>1. /\ UNCHANGED <<zk, req, migrated, past>> /\ status = "none"
        /\ \A e \in Envs : refs'[e] \notin Clusters
    BY <1>2, TopicAssumption DEF addTopic
  <2>2. \A r \in Requests : PlacesAsAsked(r)'
    BY <1>b, <2>1 DEF PlacesAsAsked, ServedRequest, At, Target
  <2> QED
    BY <1>b, <2>1, <2>2 DEF PlaceInv
<1>3. CASE updateMigrateTopics
  BY <1>b, <1>3 DEF updateMigrateTopics
<1>4. ASSUME NEW r \in Requests, updateTopic(r)
      PROVE  PlaceInv'
  <2>1. /\ migrated' = migrated /\ "overtaken" \notin past' /\ req'[r].op = "edit"
        /\ req'[r].step = "insert" /\ \A e \in Envs : refs'[e] \notin Clusters
    BY <1>b, <1>4, EditEffect, TopicAssumption DEF updateTopic, Start
  <2> QED
    BY <1>d, <2>1 DEF PlacesAsAsked, At
<1>5. ASSUME NEW r \in Requests, installTopicEnvRef(r)
      PROVE  PlaceInv'
  <2>1. /\ UNCHANGED <<zk, migrated, past>> /\ req[r].op = "edit" /\ At(r, "insert")
        /\ status = "new"
    BY <1>b, <1>5 DEF installTopicEnvRef, ServedRequest
  <2>2. \A e \in Envs : refs'[e] = refs[e] \/ refs'[e] \notin Clusters
    BY <1>5, TopicAssumption DEF installTopicEnvRef, TypeInv, TypeOK
  <2>3. \/ req'[r].op = "none"
        \/ req'[r].op = "edit" /\ req'[r].step = "insert"
    BY <1>5, <2>1, InsertEffect DEF At
  <2>4. \A e \in Envs : refs'[e] \in Clusters => zk'[e] = refs'[e]
    BY <1>c, <2>1, <2>2 DEF At
  <2> QED
    BY <1>b, <1>d, <2>1, <2>3, <2>4 DEF PlacesAsAsked, At
<1>6. ASSUME NEW r \in Requests, approveTopic(r)
      PROVE  PlaceInv'
  <2>1. /\ UNCHANGED <<refs, zk, migrated>> /\ "overtaken" \notin past' /\ req[r].op = "none"
        /\ req'[r].op = "approve" /\ req'[r].step = "next" /\ req'[r].todo = Known
        /\ status # "deleted"
    BY <1>b, <1>6, ApproveEffect DEF approveTopic, Start
  <2>2. \A e \in Envs : refs'[e] \in Clusters => zk'[e] = refs'[e]
    BY <1>c, <2>1 DEF At
  <2>3. PlacesAsAsked(r)'
    BY <2>1 DEF PlacesAsAsked, At, Known
  <2> QED
    BY <1>d, <2>1, <2>2, <2>3
<1>7. ASSUME NEW r \in Requests, initTopicResource(r)
      PROVE  PlaceInv'
  <2>1. /\ UNCHANGED <<refs, zk, migrated, past>> /\ req[r].op = "approve" /\ At(r, "next")
        /\ status # "deleted"
    BY <1>b, <1>7 DEF initTopicResource, dbVars, ServedRequest
  <2>a. PICK f \in req[r].todo, c \in Clusters :
           /\ req'[r].op = "approve" /\ req'[r].env = f
           /\ req'[r].target = [req[r].target EXCEPT ![f] = c]
           /\ Target(r)' = c
           /\ req'[r].parts = req[r].parts /\ req'[r].old = req[r].old
           /\ req'[r].rows = req[r].rows /\ req'[r].failed = req[r].failed
           /\ \/ req'[r].step = "create" /\ req'[r].todo = req[r].todo
              \/ req'[r].step = "update" /\ req'[r].todo = req[r].todo /\ req[r].rows[f] = c
              \/ /\ req'[r].step = "next" /\ req'[r].todo = req[r].todo \ {f}
                 /\ req[r].rows[f] = c /\ req[r].old = req[r].parts
    BY <1>7, ChooseEffect
  <2>2. /\ req'[r].op = "approve" /\ req'[r].target = [req[r].target EXCEPT ![f] = c]
        /\ req'[r].failed = req[r].failed /\ req'[r].step # "updateCluster"
        /\ \/ req'[r].todo = req[r].todo
           \/ req'[r].todo = req[r].todo \ {f} /\ req[r].rows[f] = c
    BY <2>a
  <2>3. req[r].rows[f] = refs[f] /\ f \in Envs
    BY <1>b, <2>1, RequestFields DEF DbRequest, TypeInv
  <2>4. /\ \A e \in Envs : e # f => req'[r].target[e] = req[r].target[e]
        /\ req'[r].target[f] = c
    BY <2>2, <2>3 DEF TypeInv, TypeOK, Request
  <2>5. \A e \in Envs : refs'[e] \in Clusters => zk'[e] = refs'[e]
    BY <1>c, <2>1 DEF At
  <2>6. ASSUME NEW e \in Known
        PROVE  \/ e \in req'[r].todo \cup req'[r].failed
               \/ refs[e] = req'[r].target[e] /\ refs[e] \in Clusters
    <3>1. CASE e = f
      BY <2>2, <2>3, <2>4, <3>1
    <3>2. CASE e # f
      BY <1>b, <2>1, <2>2, <2>4, <3>2 DEF PlacesAsAsked, Known
    <3> QED
      BY <3>1, <3>2
  <2>7. PlacesAsAsked(r)'
    BY <2>1, <2>2, <2>6 DEF PlacesAsAsked, At, Known
  <2> QED
    BY <1>b, <1>d, <2>1, <2>2, <2>5, <2>7
<1>8. ASSUME NEW r \in Requests, syncTopic(r)
      PROVE  PlaceInv'
  <2>1. /\ UNCHANGED <<zk, migrated>> /\ "overtaken" \notin past' /\ req[r].op = "none"
        /\ req'[r].op = "sync" /\ req'[r].step = "next" /\ status # "deleted"
    BY <1>b, <1>8, SyncEffect DEF syncTopic, Start
  <2>2. \A e \in Envs : refs'[e] = refs[e] \/ refs'[e] \notin Clusters
    BY <1>8, TopicAssumption DEF syncTopic
  <2>3. \A e \in Envs : refs'[e] \in Clusters => zk'[e] = refs'[e]
    BY <1>c, <2>1, <2>2 DEF At
  <2> QED
    BY <1>d, <2>1, <2>3 DEF PlacesAsAsked, At
<1>9. ASSUME NEW r \in Requests, nextEnvironment(r)
      PROVE  PlaceInv'
  <2>1. /\ UNCHANGED <<refs, zk, migrated, past>> /\ req[r].op = "sync" /\ At(r, "next")
        /\ req'[r].op = "sync" /\ req'[r].step = "create" /\ status = "approved"
    BY <1>b, <1>9, NextEffect DEF nextEnvironment, dbVars, ServedRequest
  <2>2. \A e \in Envs : refs'[e] \in Clusters => zk'[e] = refs'[e]
    BY <1>c, <2>1 DEF At
  <2> QED
    BY <1>b, <1>d, <2>1, <2>2 DEF PlacesAsAsked, At
<1>10. ASSUME NEW r \in Requests, createTopic(r)
       PROVE  PlaceInv'
  <2>1. /\ UNCHANGED <<refs, zk, migrated>> /\ req[r].op \in {"approve", "sync"} /\ At(r, "create")
        /\ "overtaken" \notin past' /\ status # "deleted"
    BY <1>b, <1>10 DEF createTopic, dbVars, PlacedByRequest, ServedRequest
  <2>2. /\ req'[r].op = req[r].op /\ req'[r].step = "register" /\ req'[r].todo = req[r].todo
        /\ req'[r].failed = req[r].failed /\ req'[r].target = req[r].target
    BY <1>10, GotoEffect DEF createTopic
  <2>3. \A e \in Envs : refs'[e] \in Clusters => zk'[e] = refs'[e]
    BY <1>c, <2>1 DEF At
  <2>4. PlacesAsAsked(r)'
    BY <1>b, <2>1, <2>2 DEF PlacesAsAsked, At, Known
  <2> QED
    BY <1>d, <2>1, <2>2, <2>3, <2>4
<1>11. ASSUME NEW r \in Requests, updatePartitions(r) \/ createPartitionsLost(r)
       PROVE  PlaceInv'
  <2>1. /\ UNCHANGED <<refs, zk, migrated>> /\ req[r].op = "approve" /\ At(r, "update")
        /\ "overtaken" \notin past' /\ status # "deleted"
    BY <1>b, <1>11 DEF updatePartitions, createPartitionsLost, dbVars, ServedRequest
  <2>2. /\ req'[r].op = req[r].op /\ req'[r].step = "updateCluster" /\ req'[r].todo = req[r].todo
        /\ req'[r].failed = req[r].failed /\ req'[r].target = req[r].target
        /\ req'[r].env = req[r].env /\ Target(r)' = Target(r)
    BY <1>11, GotoEffect DEF updatePartitions, createPartitionsLost
  <2>3. \A e \in Envs : refs'[e] \in Clusters => zk'[e] = refs'[e]
    BY <1>c, <2>1 DEF At
  <2>4. req[r].env \in Envs /\ refs[req[r].env] = Target(r) /\ Target(r) \in Clusters
    BY <1>b, <2>1, RequestFields DEF DbRequest, PlacedByRequest, TypeInv
  <2>5. zk'[req'[r].env] = Target(r)'
    BY <2>1, <2>2, <2>3, <2>4
  <2>6. PlacesAsAsked(r)'
    BY <1>b, <2>1, <2>2, <2>5 DEF PlacesAsAsked, At, Known
  <2> QED
    BY <1>d, <2>1, <2>2, <2>3, <2>6
<1>12. ASSUME NEW r \in Requests, registerTopicToZk(r)
       PROVE  PlaceInv'
  <2>1. /\ UNCHANGED <<refs, migrated, past>> /\ req[r].op \in {"approve", "sync"}
        /\ At(r, "register") /\ zk' = [zk EXCEPT ![req[r].env] = Target(r)] /\ status # "deleted"
    BY <1>b, <1>12 DEF registerTopicToZk, dbVars, PlacedByRequest, ServedRequest
  <2>2. /\ req'[r].op = req[r].op /\ req'[r].step = "updateCluster" /\ req'[r].todo = req[r].todo
        /\ req'[r].failed = req[r].failed /\ req'[r].target = req[r].target
        /\ req'[r].env = req[r].env /\ Target(r)' = Target(r)
    BY <1>12, GotoEffect DEF registerTopicToZk
  <2>3. zk'[req[r].env] = Target(r) /\ \A e \in Envs : e # req[r].env => zk'[e] = zk[e]
    BY <2>1, RequestFields DEF TypeInv, TypeOK
  <2>4. ASSUME NEW e \in Envs, refs'[e] \in Clusters
        PROVE  zk'[e] = refs'[e] \/ Written(e)'
    <3>1. CASE e = req[r].env
      BY <2>1, <2>2, <3>1 DEF Written, At
    <3>2. CASE e # req[r].env
      BY <1>c, <2>1, <2>3, <2>4, <3>2 DEF At
    <3> QED
      BY <3>1, <3>2
  <2>5. PlacesAsAsked(r)'
    BY <1>b, <2>1, <2>2, <2>3 DEF PlacesAsAsked, At, Known
  <2> QED
    BY <1>b, <1>d, <2>1, <2>2, <2>4, <2>5
<1>13. ASSUME NEW r \in Requests, updateCluster(r)
       PROVE  PlaceInv'
  <2>1. /\ UNCHANGED <<zk, migrated, past>> /\ req[r].op \in {"approve", "sync"}
        /\ At(r, "updateCluster") /\ refs' = [refs EXCEPT ![req[r].env] = Target(r)]
        /\ status # "deleted" /\ Target(r) \in Clusters /\ zk[req[r].env] = Target(r)
    BY <1>b, <1>13 DEF updateCluster, ServedRequest, PlacesAsAsked
  <2>2. /\ req'[r].op = req[r].op /\ req'[r].step = "next"
        /\ req'[r].todo = req[r].todo \ {req[r].env}
        /\ req'[r].failed = req[r].failed /\ req'[r].target = req[r].target
    BY <1>13, DoneEffect DEF updateCluster
  <2>3. /\ refs'[req[r].env] = Target(r) /\ \A e \in Envs : e # req[r].env => refs'[e] = refs[e]
        /\ Target(r) = req[r].target[req[r].env]
    BY <2>1, RequestFields DEF TypeInv, TypeOK, Target
  <2>4. ASSUME NEW e \in Envs, refs'[e] \in Clusters
        PROVE  zk'[e] = refs'[e]
    <3>1. CASE e = req[r].env
      BY <2>1, <2>3, <3>1
    <3>2. CASE e # req[r].env
      <4>1. ~Written(e)
        BY <3>2 DEF Written, OneAtATime
      <4>2. zk[e] = refs[e]
        BY <1>a, <2>1, <2>3, <2>4, <3>2, <4>1 DEF PlaceInv, OneAtATime
      <4> QED
        BY <2>1, <2>3, <3>2, <4>2
    <3> QED
      BY <3>1, <3>2
  <2>5. ASSUME NEW e \in Known', req[r].op = "approve"
        PROVE  \/ e \in req'[r].todo \cup req'[r].failed
               \/ refs'[e] = req'[r].target[e] /\ refs'[e] \in Clusters
    <3>1. CASE e = req[r].env
      BY <2>1, <2>2, <2>3, <3>1
    <3>2. CASE e # req[r].env
      BY <1>b, <2>2, <2>3, <2>5, <3>2 DEF PlacesAsAsked, Known
    <3> QED
      BY <3>1, <3>2
  <2>6. PlacesAsAsked(r)'
    BY <2>2, <2>5 DEF PlacesAsAsked, At
  <2> QED
    BY <1>b, <1>d, <2>1, <2>2, <2>4, <2>6
<1>14. ASSUME NEW r \in Requests, updateStatusById(r)
       PROVE  PlaceInv'
  <2>1. /\ UNCHANGED <<refs, zk, migrated, past>> /\ req[r].op \in {"approve", "sync"}
        /\ At(r, "next") /\ req'[r].op = "none" /\ status # "deleted"
    BY <1>b, <1>14, EndEffect DEF updateStatusById, ServedRequest
  <2>2. \A e \in Envs : refs'[e] \in Clusters => zk'[e] = refs'[e]
    BY <1>c, <2>1 DEF At
  <2> QED
    BY <1>b, <1>d, <2>1, <2>2 DEF PlacesAsAsked, At
<1>15. ASSUME NEW r \in Requests, deleteTopic(r)
       PROVE  PlaceInv'
  <2>1. /\ migrated' = migrated /\ "overtaken" \notin past' /\ req'[r].op = "delete"
        /\ req'[r].step = "next"
    BY <1>b, <1>15, DeleteEffect DEF deleteTopic, Start
  <2> QED
    BY <1>d, <2>1 DEF PlacesAsAsked, At
<1>16. ASSUME NEW r \in Requests, checkPath(r) \/ deleteTopicInfo(r) \/ dropTopic(r)
       PROVE  PlaceInv'
  <2>1. migrated' = migrated /\ past' = past /\ req[r].op = "delete"
    BY <1>b, <1>16 DEF checkPath, deleteTopicInfo, dropTopic, ServedRequest
  <2>2. req'[r].op = "delete" /\ req'[r].step # "updateCluster"
    BY <1>16, <2>1, CheckEffect, GotoEffect, DoneEffect DEF deleteTopicInfo, dropTopic
  <2> QED
    BY <1>b, <1>d, <2>1, <2>2 DEF PlacesAsAsked, At
<1>17. ASSUME NEW r \in Requests, deleteById(r)
       PROVE  PlaceInv'
  <2>1. migrated' = migrated /\ past' = past /\ status' = "deleted" /\ req'[r].op = "none"
    BY <1>17, EndEffect DEF deleteById
  <2> QED
    BY <1>b, <1>d, <2>1 DEF PlacesAsAsked, At
<1>18. ASSUME NEW r \in Requests, migrateInZk(r)
       PROVE  FALSE
  BY <1>b, <1>18 DEF migrateInZk
<1>19. ASSUME NEW r \in Requests, refusedByKafka(r) \/ fail(r)
       PROVE  PlaceInv'
  <2>1. /\ UNCHANGED <<status, refs, zk, migrated>> /\ Raise(r) /\ req[r].op # "none"
        /\ req[r].step \in {"create", "update", "register", "unregister", "drop"}
    BY <1>19 DEF refusedByKafka, fail, dbVars, At
  <2>2. req[r].op \in {"approve", "sync"} /\ "overtaken" \notin past'
    BY <1>b, <2>1 DEF Raise, Untroubled, At, PlacedByRequest, ServedRequest
  <2>3. status # "deleted"
    BY <1>b, <2>2 DEF ServedRequest
  <2>4. \A e \in Envs : refs'[e] \in Clusters => zk'[e] = refs'[e]
    BY <1>c, <2>1, <2>2, <2>3 DEF At
  <2>5. PlacesAsAsked(r)' /\ req'[r].op # "migrate"
    BY <1>b, <2>1, <2>2, RaiseEffect DEF PlacesAsAsked, At, Known
  <2> QED
    BY <1>d, <2>1, <2>2, <2>4, <2>5
<1>20. CASE UNCHANGED vars
  BY <1>1, <1>20 DEF vars, dbVars
<1> QED
  BY <1>a, <1>2, <1>3, <1>4, <1>5, <1>6, <1>7, <1>8, <1>9, <1>10, <1>11, <1>12, <1>13, <1>14, <1>15,
     <1>16, <1>17, <1>18, <1>19, <1>20 DEF Next, Serve

\* ApprovalPlaces at every step while the portal serves one request at a time: an approval
\* that reports no failed environment has its topic on the cluster chosen, with its node and
\* its row, in every environment of the topic, those included that it found as they should be
\* because an approval before it had stopped half-way.
THEOREM ApprovalPlacesTopic ==
  ASSUME OneAtATime
  PROVE  Spec => []ApprovalPlaces
<1> DEFINE Inv == TypeInv /\ RegisterInv /\ DbInv /\ ServedInv /\ PlaceInv
<1>1. Init => Inv
  BY TypeInit, RegisterInit, DbInit, ServedInit, PlaceInit
<1>2. Inv /\ [Next]_vars => Inv'
  BY TypeInvariance, DeletesInvariance, RegisterInvariance, DbInvariance, ServedInvariance,
     PlaceInvariance DEF TypeInv
<1>3. ASSUME Inv PROVE ApprovalPlaces
  <2> SUFFICES ASSUME NEW r \in Requests, At(r, "next"), req[r].op = "approve", req[r].todo = {},
                      req[r].failed = {}, Untroubled, NEW e \in Known
               PROVE  refs[e] = req[r].target[e] /\ zk[e] = refs[e] /\ broker[e][zk[e]] > 0
    BY DEF ApprovalPlaces, Untroubled
  <2>1. e \in Envs /\ refs[e] = req[r].target[e] /\ refs[e] \in Clusters
    BY <1>3 DEF PlaceInv, PlacesAsAsked, Known
  <2>2. zk[e] = refs[e]
    BY <1>3, <2>1 DEF PlaceInv, ServedInv, ServedRequest, Written, OneAtATime, At
  <2>3. broker[e][zk[e]] > 0
    BY <1>3, <2>1, <2>2, TopicAssumption DEF RegisterInv, RegisteredExists
  <2> QED
    BY <2>1, <2>2, <2>3
<1> QED
  BY <1>1, <1>2, <1>3, PTL DEF Spec


-----------------------------------------------------------------------------
(* PartitionsApplied, for one request at a time *)

\* What PartitionsApplied excludes has not happened.
Exact == "inexact" \notin past /\ "overtaken" \notin past

\* The cluster of a row has the partitions of the topic's row, or an approval that has
\* written the topic's row has still to apply them there.
Shown(e) == refs[e] \in Clusters => broker[e][refs[e]] = partitions
Applying(r, e) ==
  /\ req[r].op = "approve" /\ e \in req[r].todo
  /\ \/ broker[e][refs[e]] = req[r].old
     \/ req[r].env = e /\ req[r].step \in {"register", "updateCluster"}
Applied(r) ==
  At(r, "register") \/ At(r, "updateCluster") => broker[req[r].env][Target(r)] = req[r].parts

\* PartitionsApplied is not inductive: an approval leaves an environment alone when the row
\* names the cluster chosen and the partitions asked for are those it has read, and relies on
\* the cluster having had those; and what a migration has created becomes the row's cluster
\* when the database hears of it.
ApplyInv == Exact =>
  /\ crashes = 0
  /\ \A u \in migrated : broker[u.env][u.target] = partitions
  /\ \A r \in Requests : Applied(r)
  /\ \/ status = "deleted" \/ \E r \in Requests : req[r].op = "delete"
     \/ \A e \in Envs : Shown(e) \/ \E r \in Requests : Applying(r, e)

LEMMA ApplyInit == Init => ApplyInv
BY TopicAssumption DEF Init, ApplyInv, Applied, Shown, At, NoRequest

\* A refused request or a death of the portal leaves partitions behind.
LEMMA ExactKept ==
  ASSUME [Next]_vars, Exact'
  PROVE  /\ Exact /\ ~Crash
         /\ \A r \in Requests : ~refusedByKafka(r) /\ ~fail(r) /\ ~createPartitionsLost(r)
<1>1. Exact
  BY HistoryKept DEF Exact
<1>2. ~Crash
  BY DEF Exact, Crash
<1>3. ASSUME NEW r \in Requests
      PROVE  ~refusedByKafka(r) /\ ~fail(r) /\ ~createPartitionsLost(r)
  BY DEF Exact, refusedByKafka, fail, createPartitionsLost, Raise
<1> QED
  BY <1>1, <1>2, <1>3

LEMMA ApplyInvariance ==
  ASSUME TypeInv, RegisterInv, DbInv, ServedInv, ApplyInv, OneAtATime, [Next]_vars
  PROVE  ApplyInv'
<1> SUFFICES ASSUME Exact' PROVE ApplyInv'
  BY DEF ApplyInv
<1>a. /\ Exact /\ ~Crash /\ crashes = 0
      /\ \A r \in Requests : ~refusedByKafka(r) /\ ~fail(r) /\ ~createPartitionsLost(r)
  BY ExactKept DEF ApplyInv
<1>b. /\ \A u \in migrated : broker[u.env][u.target] = partitions
      /\ \A r \in Requests : Applied(r) /\ ServedRequest(r) /\ PlacedByRequest(r) /\ DbRequest(r)
  BY <1>a DEF ApplyInv, ServedInv, RegisterInv, DbInv, InOrder, Exact
\* Of a topic that is neither deleted nor being deleted
<1>c. ASSUME NEW r \in Requests, status # "deleted", req[r].op # "delete", NEW e \in Envs
      PROVE  Shown(e) \/ Applying(r, e)
  BY <1>a, <1>c DEF ApplyInv, OneAtATime
\* What there is to show of a request
<1>d. ASSUME NEW r \in Requests, crashes' = 0,
             \A u \in migrated' : broker'[u.env][u.target] = partitions',
             Applied(r)',
             \/ status' = "deleted" \/ req'[r].op = "delete"
             \/ \A e \in Envs : Shown(e)' \/ Applying(r, e)'
      PROVE  ApplyInv'
  BY <1>d DEF ApplyInv, OneAtATime
<1>e. ASSUME NEW r \in Requests, \/ updateTopic(r) \/ approveTopic(r) \/ syncTopic(r)
                                 \/ deleteTopic(r) \/ migrateTopics(r)
      PROVE  /\ crashes' = 0 /\ migrated' = {} /\ broker' = broker /\ status' = status
             /\ req[r].op = "none" /\ status # "deleted"
  <2>1. migrated = {}
    BY <1>e DEF updateTopic, approveTopic, syncTopic, deleteTopic, migrateTopics, Start, Exact
  <2>2. req[r].op = "none"
    BY <1>e, EditEffect, ApproveEffect, SyncEffect, DeleteEffect, MigrateEffect
  <2> QED
    BY <1>a, <1>e, <2>1, <2>2 DEF updateTopic, approveTopic, syncTopic, deleteTopic,
       migrateTopics, dbVars, counters
<1>f. ASSUME NEW r \in Requests, req[r].op # "none"
      PROVE  migrated = {}
  BY <1>b, <1>f DEF DbRequest
<1>1. CASE UNCHANGED <<status, partitions, refs, broker, migrated, req, past, crashes>>
  BY <1>a, <1>1 DEF ApplyInv, Applied, Applying, Shown, At, Target
<1>2. CASE addTopic
  <2>1. /\ UNCHANGED <<partitions, broker, migrated, req, past, crashes>>
        /\ \A e \in Envs : refs'[e] \notin Clusters
    BY <1>2, TopicAssumption DEF addTopic, counters
  <2>2. \A r \in Requests : Applied(r)'
    BY <1>b, <2>1 DEF Applied, At, Target
  <2> QED
    BY <1>a, <1>b, <2>1, <2>2 DEF ApplyInv, Shown
<1>3. CASE updateMigrateTopics
  <2>1. PICK u \in migrated :
          /\ refs' = [refs EXCEPT ![u.env] = IF @ = u.src THEN u.target ELSE @]
          /\ migrated' = migrated \ {u}
    BY <1>3 DEF updateMigrateTopics
  <2>2. UNCHANGED <<status, partitions, broker, req, past, crashes>>
    BY <1>3 DEF updateMigrateTopics, counters
  <2>3. \A r \in Requests : req[r].op = "none"
    BY <1>f
  <2>4. ASSUME NEW e \in Envs, Shown(e)
        PROVE  Shown(e)'
    <3>1. CASE refs'[e] = refs[e]
      BY <2>2, <2>4, <3>1 DEF Shown
    <3>2. CASE e = u.env /\ refs'[e] = u.target
      BY <1>b, <2>2, <3>2 DEF Shown
    <3> QED
      BY <2>1, <3>1, <3>2 DEF TypeInv, TypeOK
  <2>5. \/ status = "deleted"
        \/ \A e \in Envs : Shown(e)
    BY <1>a, <2>3 DEF ApplyInv, Applying
  <2>6. \A r \in Requests : Applied(r)'
    BY <1>b, <2>2 DEF Applied, At, Target
  <2> QED
    BY <1>a, <1>b, <2>1, <2>2, <2>4, <2>5, <2>6 DEF ApplyInv
<1>4. ASSUME NEW r \in Requests, updateTopic(r)
      PROVE  ApplyInv'
  <2>1. /\ req'[r].op = "edit" /\ req'[r].step = "insert"
        /\ \A e \in Envs : refs'[e] \notin Clusters
    BY <1>4, EditEffect, TopicAssumption DEF updateTopic
  <2> QED
    BY <1>4, <1>d, <1>e, <2>1 DEF Applied, At, Shown
<1>5. ASSUME NEW r \in Requests, installTopicEnvRef(r)
      PROVE  ApplyInv'
  <2>1. /\ UNCHANGED <<partitions, broker, migrated, crashes>> /\ req[r].op = "edit"
        /\ req[r].step = "insert" /\ status = "new"
    BY <1>b, <1>5 DEF installTopicEnvRef, ServedRequest, At, counters
  <2>2. \A e \in Envs : refs'[e] = refs[e] \/ refs'[e] \notin Clusters
    BY <1>5, TopicAssumption DEF installTopicEnvRef, TypeInv, TypeOK
  <2>3. req'[r].op = "none" \/ req'[r].step = "insert"
    BY <1>5, <2>1, InsertEffect
  <2>4. \A e \in Envs : Shown(e)'
    BY <1>c, <2>1, <2>2 DEF Shown, Applying
  <2> QED
    BY <1>a, <1>b, <1>d, <2>1, <2>3, <2>4 DEF Applied, At
<1>6. ASSUME NEW r \in Requests, approveTopic(r)
      PROVE  ApplyInv'
  <2>1. /\ refs' = refs /\ req'[r].op = "approve" /\ req'[r].step = "next"
        /\ req'[r].todo = Known /\ req'[r].old = partitions
    BY <1>6, ApproveEffect DEF approveTopic
  <2>2. ASSUME NEW e \in Envs
        PROVE  Shown(e)' \/ Applying(r, e)'
    <3>1. Shown(e) /\ broker' = broker
      BY <1>6, <1>c, <1>e DEF Applying
    <3>2. refs[e] \in Clusters => e \in Known
      BY TopicAssumption DEF Known
    <3> QED
      BY <2>1, <3>1, <3>2 DEF Shown, Applying
  <2> QED
    BY <1>6, <1>d, <1>e, <2>1, <2>2 DEF Applied, At
<1>7. ASSUME NEW r \in Requests, initTopicResource(r)
      PROVE  ApplyInv'
  <2>1. /\ UNCHANGED <<status, partitions, refs, broker, migrated, crashes>>
        /\ req[r].op = "approve" /\ req[r].step = "next" /\ status # "deleted"
    BY <1>b, <1>7 DEF initTopicResource, dbVars, counters, ServedRequest, At
  <2>2. PICK f \in req[r].todo, c \in Clusters :
          /\ req'[r].op = "approve" /\ req'[r].old = req[r].old
          /\ req'[r].step \in {"create", "update", "next"}
          /\ \/ req'[r].todo = req[r].todo
             \/ /\ req'[r].todo = req[r].todo \ {f} /\ req[r].rows[f] = c
                /\ req[r].old = req[r].parts
    BY <1>7, ChooseEffect
  <2>3. req[r].rows[f] = refs[f] /\ req[r].parts = partitions
    BY <1>b, <2>1 DEF DbRequest, ServedRequest
  <2>4. ASSUME NEW e \in Envs
        PROVE  Shown(e)' \/ Applying(r, e)'
    <3>1. CASE Shown(e)
      BY <2>1, <3>1 DEF Shown
    <3>2. CASE e \in req[r].todo /\ broker[e][refs[e]] = req[r].old
      <4>1. CASE req'[r].todo = req[r].todo
        BY <2>1, <2>2, <3>2, <4>1 DEF Applying
      <4>2. CASE req'[r].todo = req[r].todo \ {f} /\ req[r].old = req[r].parts
        BY <2>1, <2>2, <2>3, <3>2, <4>2 DEF Applying, Shown
      <4> QED
        BY <2>2, <4>1, <4>2
    <3> QED
      BY <1>c, <2>1, <3>1, <3>2 DEF Applying
  <2>5. Applied(r)'
    BY <2>2 DEF Applied, At
  <2> QED
    BY <1>a, <1>b, <1>d, <2>1, <2>4, <2>5
<1>8. ASSUME NEW r \in Requests, syncTopic(r)
      PROVE  ApplyInv'
  <2>1. /\ req'[r].op = "sync" /\ req'[r].step = "next" /\ partitions' = partitions
        /\ \A e \in Envs : refs'[e] = refs[e] \/ refs'[e] \notin Clusters
    BY <1>8, SyncEffect, TopicAssumption DEF syncTopic
  <2>2. \A e \in Envs : Shown(e)'
    BY <1>8, <1>c, <1>e, <2>1 DEF Shown, Applying
  <2> QED
    BY <1>8, <1>d, <1>e, <2>1, <2>2 DEF Applied, At
<1>9. ASSUME NEW r \in Requests, nextEnvironment(r)
      PROVE  ApplyInv'
  <2>1. /\ UNCHANGED <<status, partitions, refs, broker, migrated, crashes>>
        /\ req[r].op = "sync" /\ req'[r].step = "create" /\ status = "approved"
    BY <1>b, <1>9, NextEffect DEF nextEnvironment, dbVars, counters, ServedRequest
  <2>2. \A e \in Envs : Shown(e)'
    BY <1>c, <2>1 DEF Shown, Applying
  <2> QED
    BY <1>a, <1>b, <1>d, <2>1, <2>2 DEF Applied, At
<1>10. ASSUME NEW r \in Requests, createTopic(r)
       PROVE  ApplyInv'
  <2> DEFINE f == req[r].env
  <2>1. /\ UNCHANGED <<status, partitions, refs, migrated, crashes>> /\ req[r].step = "create"
        /\ req[r].op \in {"approve", "sync", "migrate"} /\ status # "deleted"
        /\ req[r].parts = partitions /\ migrated = {}
        /\ req[r].op = "approve" => f \in req[r].todo
    BY <1>b, <1>f, <1>10 DEF createTopic, dbVars, counters, PlacedByRequest, ServedRequest, At
  <2>2. /\ req'[r].step = "register" /\ req'[r].op = req[r].op /\ req'[r].env = f
        /\ req'[r].todo = req[r].todo /\ req'[r].old = req[r].old /\ req'[r].parts = req[r].parts
        /\ Target(r)' = Target(r)
    BY <1>10, GotoEffect DEF createTopic
  <2>3. /\ f \in Envs /\ broker'[f][Target(r)] = req[r].parts
        /\ \A e \in Envs, c \in Clusters : <<e, c>> # <<f, Target(r)>> => broker'[e][c] = broker[e][c]
    BY <1>10, RequestFields DEF createTopic, Exact, TypeInv, TypeOK
  <2>4. ASSUME NEW e \in Envs
        PROVE  Shown(e)' \/ Applying(r, e)'
    <3>1. CASE e = f /\ req[r].op = "approve"
      BY <2>1, <2>2, <3>1 DEF Applying
    <3>2. CASE e # f /\ req[r].op = "approve" /\ ~Shown(e)
      <4>1. Applying(r, e) /\ broker'[e] = broker[e]
        BY <1>c, <1>10, <2>1, <3>2, RequestFields DEF createTopic, TypeInv, TypeOK
      <4> QED
        BY <2>1, <2>2, <4>1 DEF Applying
    <3>3. CASE Shown(e)
      BY <2>1, <2>3, <3>3 DEF Shown
    <3> QED
      BY <1>c, <2>1, <3>1, <3>2, <3>3 DEF Applying
  <2>5. Applied(r)'
    BY <2>2, <2>3 DEF Applied
  <2> QED
    BY <1>a, <1>d, <2>1, <2>4, <2>5
<1>11. ASSUME NEW r \in Requests, updatePartitions(r)
       PROVE  ApplyInv'
  <2> DEFINE f == req[r].env
  <2>1. /\ UNCHANGED <<status, partitions, refs, migrated, crashes>> /\ req[r].step = "update"
        /\ req[r].op = "approve" /\ status # "deleted" /\ migrated = {} /\ f \in req[r].todo
        /\ broker' = [broker EXCEPT ![f][Target(r)] = req[r].parts]
    BY <1>b, <1>f, <1>11 DEF updatePartitions, dbVars, counters, ServedRequest, At
  <2>2. /\ req'[r].step = "updateCluster" /\ req'[r].op = "approve" /\ req'[r].env = f
        /\ req'[r].todo = req[r].todo /\ req'[r].old = req[r].old /\ req'[r].parts = req[r].parts
        /\ Target(r)' = Target(r)
    BY <1>11, <2>1, GotoEffect DEF updatePartitions
  <2>3. /\ f \in Envs /\ Target(r) \in Clusters
    BY <1>b, <2>1, RequestFields DEF PlacedByRequest, At, TypeInv
  <2>4. broker'[f][Target(r)] = req[r].parts /\ \A e \in Envs : e # f => broker'[e] = broker[e]
    BY <2>1, <2>3 DEF TypeInv, TypeOK
  <2>5. ASSUME NEW e \in Envs
        PROVE  Shown(e)' \/ Applying(r, e)'
    <3>1. CASE e = f
      BY <2>1, <2>2, <3>1 DEF Applying
    <3>2. CASE e # f
      BY <1>c, <2>1, <2>2, <2>4, <3>2 DEF Applying, Shown
    <3> QED
      BY <3>1, <3>2
  <2>6. Applied(r)'
    BY <2>2, <2>4 DEF Applied
  <2> QED
    BY <1>a, <1>d, <2>1, <2>5, <2>6
<1>12. ASSUME NEW r \in Requests, registerTopicToZk(r)
       PROVE  ApplyInv'
  <2>1. /\ UNCHANGED <<status, partitions, refs, broker, migrated, crashes>>
        /\ req[r].op \in {"approve", "sync"} /\ req[r].step = "register" /\ status # "deleted"
        /\ broker[req[r].env][Target(r)] = req[r].parts
    BY <1>b, <1>12 DEF registerTopicToZk, dbVars, counters, PlacedByRequest, ServedRequest, Applied, At
  <2>2. /\ req'[r].step = "updateCluster" /\ req'[r].op = req[r].op /\ req'[r].env = req[r].env
        /\ req'[r].todo = req[r].todo /\ req'[r].old = req[r].old /\ req'[r].parts = req[r].parts
        /\ Target(r)' = Target(r)
    BY <1>12, GotoEffect DEF registerTopicToZk
  <2>3. \A e \in Envs : Shown(e)' \/ Applying(r, e)'
    BY <1>c, <2>1, <2>2 DEF Shown, Applying
  <2>4. Applied(r)'
    BY <2>1, <2>2 DEF Applied
  <2> QED
    BY <1>a, <1>b, <1>d, <2>1, <2>3, <2>4
<1>13. ASSUME NEW r \in Requests, updateCluster(r)
       PROVE  ApplyInv'
  <2> DEFINE f == req[r].env
  <2>1. /\ UNCHANGED <<status, partitions, broker, migrated, crashes>>
        /\ req[r].op \in {"approve", "sync"} /\ status # "deleted"
        /\ refs' = [refs EXCEPT ![f] = Target(r)]
        /\ broker[f][Target(r)] = partitions
    BY <1>b, <1>13 DEF updateCluster, counters, ServedRequest, Applied, At
  <2>2. /\ req'[r].step = "next" /\ req'[r].op = req[r].op /\ req'[r].todo = req[r].todo \ {f}
        /\ req'[r].old = req[r].old
    BY <1>13, DoneEffect DEF updateCluster
  <2>3. refs'[f] = Target(r) /\ \A e \in Envs : e # f => refs'[e] = refs[e]
    BY <2>1, RequestFields DEF TypeInv, TypeOK
  <2>4. ASSUME NEW e \in Envs
        PROVE  Shown(e)' \/ Applying(r, e)'
    <3>1. CASE e = f
      BY <2>1, <2>3, <3>1 DEF Shown
    <3>2. CASE e # f
      BY <1>c, <2>1, <2>2, <2>3, <3>2 DEF Applying, Shown
    <3> QED
      BY <3>1, <3>2
  <2>5. Applied(r)'
    BY <2>2 DEF Applied, At
  <2> QED
    BY <1>a, <1>b, <1>d, <2>1, <2>4, <2>5
<1>14. ASSUME NEW r \in Requests, updateStatusById(r)
       PROVE  ApplyInv'
  <2>1. /\ UNCHANGED <<partitions, refs, broker, migrated, crashes>> /\ req[r].todo = {}
        /\ req[r].op \in {"approve", "sync"} /\ req'[r].op = "none" /\ status # "deleted"
    BY <1>b, <1>14, EndEffect DEF updateStatusById, counters, ServedRequest
  <2>2. \A e \in Envs : Shown(e)'
    BY <1>c, <2>1 DEF Shown, Applying
  <2> QED
    BY <1>a, <1>b, <1>d, <2>1, <2>2 DEF Applied, At
<1>15. ASSUME NEW r \in Requests, deleteTopic(r)
       PROVE  ApplyInv'
  BY <1>15, <1>d, <1>e, DeleteEffect DEF Applied, At
<1>16. ASSUME NEW r \in Requests, checkPath(r) \/ deleteTopicInfo(r) \/ dropTopic(r)
       PROVE  ApplyInv'
  <2>1. migrated' = {} /\ crashes' = 0 /\ req[r].op = "delete"
    BY <1>a, <1>b, <1>f, <1>16 DEF checkPath, deleteTopicInfo, dropTopic, ServedRequest, counters, At
  <2>2. req'[r].op = "delete" /\ req'[r].step \in {"next", "unregister", "drop"}
    BY <1>16, <2>1, CheckEffect, GotoEffect, DoneEffect DEF deleteTopicInfo, dropTopic
  <2> QED
    BY <1>d, <2>1, <2>2 DEF Applied, At
<1>17. ASSUME NEW r \in Requests, deleteById(r)
       PROVE  ApplyInv'
  <2>1. migrated' = {} /\ crashes' = 0 /\ status' = "deleted" /\ req'[r].op = "none"
    BY <1>a, <1>f, <1>17, EndEffect DEF deleteById, counters
  <2> QED
    BY <1>d, <2>1 DEF Applied, At
<1>18. ASSUME NEW r \in Requests, migrateTopics(r)
       PROVE  ApplyInv'
  <2>1. UNCHANGED <<partitions, refs>> /\ req'[r].op = "migrate" /\ req'[r].step = "create"
    BY <1>18, MigrateEffect DEF migrateTopics, dbVars
  <2>2. \A e \in Envs : Shown(e)'
    BY <1>18, <1>c, <1>e, <2>1 DEF Shown, Applying
  <2> QED
    BY <1>18, <1>d, <1>e, <2>1, <2>2 DEF Applied, At
<1>19. ASSUME NEW r \in Requests, migrateInZk(r)
       PROVE  ApplyInv'
  <2>1. /\ UNCHANGED <<status, partitions, refs, broker, crashes>> /\ req[r].op = "migrate"
        /\ req'[r].op = "none" /\ status = "approved" /\ migrated = {}
        /\ broker[req[r].env][Target(r)] = partitions
    BY <1>b, <1>f, <1>19, EndEffect DEF migrateInZk, dbVars, counters, ServedRequest, Applied, At
  <2>2. \A u \in migrated' : u.env = req[r].env /\ u.target = Target(r)
    BY <1>19, <2>1 DEF migrateInZk
  <2>3. \A e \in Envs : Shown(e)'
    BY <1>c, <2>1 DEF Shown, Applying
  <2> QED
    BY <1>a, <1>d, <2>1, <2>2, <2>3 DEF Applied, At
<1>20. CASE UNCHANGED vars
  BY <1>1, <1>20 DEF vars, dbVars, counters
<1> QED
  BY <1>a, <1>2, <1>3, <1>4, <1>5, <1>6, <1>7, <1>8, <1>9, <1>10, <1>11, <1>12, <1>13, <1>14, <1>15,
     <1>16, <1>17, <1>18, <1>19, <1>20 DEF Next, Serve

\* PartitionsApplied at every step while the portal serves one request at a time: as long as
\* nothing has failed and no topic was found with another number, the partitions the database
\* shows of an approved topic are those of the cluster of every row, through repeated
\* approvals that only touch what has changed, synchronisations and migrations.
THEOREM PartitionsAreApplied ==
  ASSUME OneAtATime
  PROVE  Spec => []PartitionsApplied
<1> DEFINE Inv == TypeInv /\ RegisterInv /\ DbInv /\ ServedInv /\ ApplyInv
<1>1. Init => Inv
  BY TypeInit, RegisterInit, DbInit, ServedInit, ApplyInit
<1>2. Inv /\ [Next]_vars => Inv'
  BY TypeInvariance, DeletesInvariance, RegisterInvariance, DbInvariance, ServedInvariance,
     ApplyInvariance DEF TypeInv
<1>3. ASSUME Inv PROVE PartitionsApplied
  <2> SUFFICES ASSUME Idle, status = "approved", Exact, NEW e \in Placed
               PROVE  broker[e][refs[e]] = partitions
    BY DEF PartitionsApplied, Exact
  <2>1. NoRequest.op = "none"
    BY DEF NoRequest
  <2>2. \A r \in Requests : req[r].op = "none"
    BY <2>1 DEF Idle
  <2> QED
    BY <1>3, <2>2 DEF ApplyInv, Applying, Shown, Placed
<1> QED
  BY <1>1, <1>2, <1>3, PTL DEF Spec
=============================================================================
