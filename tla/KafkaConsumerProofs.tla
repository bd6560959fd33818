------------------------ MODULE KafkaConsumerProofs ------------------------
(***************************************************************************)
(* Proofs about KafkaConsumer for any number of members, partitions,       *)
(* records and threads, any batch size and any number of faults.           *)
(***************************************************************************)
EXTENDS KafkaConsumer, FunctionTheorems, FiniteSetTheorems, TLAPS

\* A request commits the successor of one of its offsets, or leaves the partition's
\* committed offset alone: what handleAcks, addOffset and buildCommits compute.
LEMMA CommitOfRequest ==
  ASSUME NEW p, NEW req, NEW old, NEW new, addOffset(p, req, old, new)
  PROVE  \/ new = old
         \/ \E r \in req : r.partition = p /\ new = r.offset + 1
BY DEF addOffset, OffsetsOf

\* The type invariant holds of every state the consumer group reaches.
LEMMA TypeInvariance ==
  ASSUME TypeOK, [Next]_vars
  PROVE  TypeOK'
<1> USE CapacityAssumption, BoundAssumption, RoleAssumption
        DEF TypeOK, brokerVars, groupVars, batchVars, faultVars
<1>1. CASE UNCHANGED vars
  BY <1>1 DEF vars
<1>2. ASSUME NEW p \in Partitions, Produce(p)
      PROVE  TypeOK'
  BY <1>2 DEF Produce
<1>3. CASE CompleteRebalance
  BY <1>3, \A c \in Consumers : <<>> \in Seq(SUBSET Records) DEF CompleteRebalance
<1>4. ASSUME NEW c \in Consumers, consumerStart(c)
      PROVE  TypeOK'
  BY <1>4 DEF consumerStart
<1>5. ASSUME NEW c \in Consumers, onPartitionsRevoked(c)
      PROVE  TypeOK'
  BY <1>5 DEF onPartitionsRevoked, commitOffsets
<1>6. ASSUME NEW c \in Consumers, onPartitionsAssigned(c)
      PROVE  TypeOK'
  BY <1>6 DEF onPartitionsAssigned
<1>7. ASSUME NEW c \in Consumers, poll(c)
      PROVE  TypeOK'
  BY <1>7 DEF poll
<1>8. ASSUME NEW c \in Consumers, pollNothing(c)
      PROVE  TypeOK'
  BY <1>8 DEF pollNothing, vars
<1>9. ASSUME NEW c \in Consumers, execute(c)
      PROVE  TypeOK'
  BY <1>9 DEF execute
<1>10. ASSUME NEW c \in Consumers, submitBatchRecords(c)
       PROVE  TypeOK'
  BY <1>10 DEF submitBatchRecords
<1>11. ASSUME NEW c \in Consumers, finishBatch(c)
       PROVE  TypeOK'
  BY <1>11 DEF finishBatch, commitOffsets
<1>12. ASSUME NEW c \in Consumers, onMessage(c)
       PROVE  TypeOK'
  BY <1>12 DEF onMessage
<1>13. ASSUME NEW c \in Consumers, offerAck(c)
       PROVE  TypeOK'
  <2>1. UNCHANGED <<brokerVars, groupVars, pc, assigned, position, unsubmitted, queued,
                    faultVars>>
    BY <1>13 DEF offerAck
  <2>2. CASE commitOffsets(c) /\ finished' = finished
    BY <2>1, <2>2 DEF commitOffsets
  <2>3. ASSUME NEW r \in finished[c],
               acks' = [acks EXCEPT ![c] = @ \cup {r}],
               finished' = [finished EXCEPT ![c] = @ \ {r}],
               commits' = commits
        PROVE  TypeOK'
    BY <2>1, <2>3
  <2> QED
    BY <1>13, <2>2, <2>3 DEF offerAck
<1>14. ASSUME NEW c \in Consumers, CompleteCommit(c)
       PROVE  TypeOK'
  BY <1>14 DEF CompleteCommit
<1>15. ASSUME NEW c \in Consumers, FailCommit(c)
       PROVE  TypeOK'
  BY <1>15 DEF FailCommit
<1>16. ASSUME NEW c \in Consumers, Expel(c)
       PROVE  TypeOK'
  BY <1>16 DEF Expel
<1>17. ASSUME NEW c \in Consumers, Crash(c) \/ consumerShutdown(c)
       PROVE  TypeOK'
  <2>1. Forget(c)
    BY <1>17 DEF Crash, consumerShutdown
  <2>2. members' \subseteq Consumers /\ joined' \subseteq Consumers /\ rebalancing' \in BOOLEAN
    BY <1>17 DEF Crash, consumerShutdown
  <2> QED
    BY <2>1, <2>2 DEF Forget
<1> QED
  BY <1>1, <1>2, <1>3, <1>4, <1>5, <1>6, <1>7, <1>8, <1>9, <1>10, <1>11, <1>12, <1>13,
     <1>14, <1>15, <1>16, <1>17 DEF Next, Step

LEMMA TypeInit == Init => TypeOK
<1> SUFFICES ASSUME Init PROVE TypeOK
  OBVIOUS
<1>1. /\ logEnd \in [Partitions -> 0 .. LogSize]
      /\ position \in [Consumers -> [Partitions -> 0 .. LogSize]]
      /\ committed \in [Partitions -> {NoOffset} \cup 0 .. LogSize]
      /\ owner \in [Partitions -> Consumers \cup {NoConsumer}]
  BY CapacityAssumption DEF Init
<1>2. commits \in [Consumers -> Seq(SUBSET Records)]
  BY \A c \in Consumers : <<>> \in Seq(SUBSET Records) DEF Init
<1> QED
  BY <1>1, <1>2 DEF Init, TypeOK

\* TypeOK at every step: offsets stay inside the log, batches and acknowledgements
\* are records of it, poll threads are where the poll loop can be.
THEOREM TypeCorrect == Spec => []TypeOK
<1>1. Init => TypeOK
  BY TypeInit
<1>2. TypeOK /\ [Next]_vars => TypeOK'
  BY TypeInvariance
<1> QED
  BY <1>1, <1>2, PTL DEF Spec

-----------------------------------------------------------------------------
(***************************************************************************)
(* Why a commit is safe.  CommitSafe is not inductive: it says nothing of  *)
(* what is still in the acks queue or on the wire.  What a commit rests on *)
(* is that everything below a proxy's fetch position was handled or is     *)
(* part of the batch in hand; the latch empties that batch before the poll *)
(* thread commits.                                                         *)
(***************************************************************************)
PositionSafe ==
  \A c \in Consumers : \A p \in assigned[c] : \A o \in 0 .. LogSize - 1 :
     o < position[c][p] => Record(p, o) \in handled \cup Outstanding(c)

BatchRead ==
  \A c \in Consumers : \A r \in Latched(c) \cup acks[c] :
     r.partition \in assigned[c] /\ r.offset < position[c][r.partition]

AcksHandled == \A c \in Consumers : finished[c] \cup acks[c] \subseteq handled

CommitsSafe ==
  \A c \in Consumers : \A i \in 1 .. Len(commits[c]) : \A r \in commits[c][i] :
     \A o \in 0 .. r.offset : Record(r.partition, o) \in handled

\* A record of the batch is in one place at a time, and the batch fits in a poll.
BatchDisjoint ==
  \A c \in Consumers :
     /\ unsubmitted[c] \cap (queued[c] \cup finished[c] \cup acks[c]) = {}
     /\ queued[c] \cap (finished[c] \cup acks[c]) = {}
     /\ finished[c] \cap acks[c] = {}
BatchFits ==
  \A c \in Consumers :
     /\ IsFiniteSet(Latched(c) \cup acks[c])
     /\ Cardinality(Latched(c) \cup acks[c]) <= MaxPoll

\* A batch listener is given all records before the first is acknowledged.
BatchTogether ==
  BatchListener => \A c \in Consumers :
                      /\ queued[c] = {}
                      /\ finished[c] \cup acks[c] # {} => unsubmitted[c] = {}

CommitInv ==
  /\ CommitSafe
  /\ PositionSafe
  /\ BatchRead
  /\ AcksHandled
  /\ CommitsSafe
  /\ NoStaleAcks
  /\ BatchDisjoint
  /\ BatchFits
  /\ BatchTogether

\* A commit of acknowledgements below which everything was handled keeps the
\* requests on the wire safe.
LEMMA CommitOffsetsSafe ==
  ASSUME TypeOK, NEW c \in Consumers, commitOffsets(c), CommitsSafe, handled' = handled,
         \A r \in acks[c] : \A o \in 0 .. r.offset : Record(r.partition, o) \in handled
  PROVE  CommitsSafe'
<1> SUFFICES ASSUME NEW d \in Consumers, NEW i \in 1 .. Len(commits'[d]),
                    NEW r \in commits'[d][i], NEW o \in 0 .. r.offset
             PROVE  Record(r.partition, o) \in handled
  BY DEF CommitsSafe
<1>1. commits[d] \in Seq(SUBSET Records)
  BY DEF TypeOK
<1>2. CASE commits'[d] = commits[d]
  BY <1>2 DEF CommitsSafe
<1>3. CASE commits'[d] # commits[d]
  <2>1. d = c /\ commits'[d] = Append(commits[c], acks[c])
    BY <1>3 DEF commitOffsets, TypeOK
  <2>2. CASE i = Len(commits[d]) + 1
    BY <1>1, <2>1, <2>2
  <2>3. CASE i \in 1 .. Len(commits[d])
    BY <1>1, <2>1, <2>3 DEF CommitsSafe
  <2> QED
    BY <1>1, <2>1, <2>2, <2>3
<1> QED
  BY <1>2, <1>3

\* An answered request leaves the others as they are.
LEMMA TailSafe ==
  ASSUME TypeOK, NEW c \in Consumers, commits[c] # <<>>, CommitsSafe, handled' = handled,
         commits' = [commits EXCEPT ![c] = Tail(@)]
  PROVE  CommitsSafe'
<1> SUFFICES ASSUME NEW d \in Consumers, NEW i \in 1 .. Len(commits'[d]),
                    NEW r \in commits'[d][i], NEW o \in 0 .. r.offset
             PROVE  Record(r.partition, o) \in handled
  BY DEF CommitsSafe
<1>1. commits[d] \in Seq(SUBSET Records)
  BY DEF TypeOK
<1>2. CASE d # c
  BY <1>2 DEF CommitsSafe, TypeOK
<1>3. CASE d = c
  <2>1. commits'[d] = Tail(commits[d]) /\ commits[d] # <<>>
    BY <1>3 DEF TypeOK
  <2>2. i + 1 \in 1 .. Len(commits[d]) /\ commits'[d][i] = commits[d][i + 1]
    <3> DEFINE q == commits[d]
    <3>1. q \in Seq(SUBSET Records) /\ q # <<>> /\ i \in 1 .. Len(Tail(q))
      BY <1>1, <2>1
    <3>2. i + 1 \in 1 .. Len(q) /\ Tail(q)[i] = q[i + 1]
      BY ONLY <3>1
    <3> QED
      BY <2>1, <3>2
  <2> QED
    BY <2>2 DEF CommitsSafe
<1> QED
  BY <1>2, <1>3

\* While a proxy's batch is handled completely, its acknowledgements may be committed.
LEMMA AcksSafe ==
  ASSUME TypeOK, PositionSafe, BatchRead, NEW c \in Consumers, Outstanding(c) = {}
  PROVE  \A r \in acks[c] : \A o \in 0 .. r.offset : Record(r.partition, o) \in handled
<1> SUFFICES ASSUME NEW r \in acks[c], NEW o \in 0 .. r.offset
             PROVE  Record(r.partition, o) \in handled
  OBVIOUS
<1>1. r.partition \in assigned[c] /\ r.offset < position[c][r.partition]
  BY DEF BatchRead
<1>2. r.offset \in 0 .. LogSize - 1 /\ position[c][r.partition] \in 0 .. LogSize
  BY <1>1, CapacityAssumption DEF TypeOK, Records
<1>3. o \in 0 .. LogSize - 1 /\ o < position[c][r.partition]
  BY <1>1, <1>2, CapacityAssumption
<1> QED
  BY <1>1, <1>3 DEF PositionSafe

\* Without a batch listener acks has room for every acknowledgement of the batch.
LEMMA AcksHaveRoom ==
  ASSUME TypeOK, NoOverflow, BatchFits, BatchDisjoint, ~BatchListener,
         NEW c \in Consumers, NEW r \in finished[c]
  PROVE  Cardinality(acks[c]) < AckCapacity
<1> DEFINE all == Latched(c) \cup acks[c]
<1>1. IsFiniteSet(all) /\ Cardinality(all) <= MaxPoll
  BY DEF BatchFits
<1>2. r \in all /\ r \notin acks[c] /\ acks[c] \subseteq all
  BY DEF BatchDisjoint, Latched
<1>3. Cardinality(acks[c]) <= Cardinality(all) /\ acks[c] # all
  BY <1>1, <1>2, FS_Subset
<1>4. Cardinality(acks[c]) # Cardinality(all)
  BY <1>1, <1>2, <1>3, FS_Subset
<1>5. Cardinality(all) \in Nat /\ Cardinality(acks[c]) \in Nat
  BY <1>1, <1>2, FS_CardinalityType, FS_Subset
<1> QED
  BY <1>1, <1>3, <1>4, <1>5, CapacityAssumption DEF NoOverflow

\* A batch that only loses records still fits.
LEMMA BatchShrinks ==
  ASSUME BatchFits,
         \A d \in Consumers : (Latched(d) \cup acks[d])' \subseteq Latched(d) \cup acks[d]
  PROVE  BatchFits'
<1> SUFFICES ASSUME NEW d \in Consumers
             PROVE  /\ IsFiniteSet((Latched(d) \cup acks[d])')
                    /\ Cardinality((Latched(d) \cup acks[d])') <= MaxPoll
  BY DEF BatchFits
<1>1. (Latched(d) \cup acks[d])' \subseteq Latched(d) \cup acks[d]
  OBVIOUS
<1>2. IsFiniteSet(Latched(d) \cup acks[d]) /\ Cardinality(Latched(d) \cup acks[d]) <= MaxPoll
  BY DEF BatchFits
<1> QED
  BY ONLY <1>1, <1>2, FS_Subset, FS_CardinalityType, CapacityAssumption

\* There are finitely many records.
LEMMA RecordsFinite == IsFiniteSet(Records)
<1> DEFINE offsets == 0 .. LogSize - 1
           pair == [x \in Partitions \X offsets |-> Record(x[1], x[2])]
<1>1. IsFiniteSet(Partitions \X offsets)
  <2>1. IsFiniteSet(offsets)
    BY FS_Interval, CapacityAssumption
  <2> QED
    BY <2>1, FS_Product, RoleAssumption
<1>2. pair \in Surjection(Partitions \X offsets, Records)
  <2>1. pair \in [Partitions \X offsets -> Records]
    BY DEF Records, Record
  <2>2. ASSUME NEW r \in Records
        PROVE  \E x \in Partitions \X offsets : pair[x] = r
    <3>1. <<r.partition, r.offset>> \in Partitions \X offsets
      BY DEF Records
    <3>2. pair[<<r.partition, r.offset>>] = r
      BY <3>1 DEF Records, Record
    <3> QED
      BY <3>1, <3>2
  <2> QED
    BY <2>1, <2>2, Fun_IsSurj
<1> QED
  BY <1>1, <1>2, FS_Surjection

-----------------------------------------------------------------------------
LEMMA CommitInvInit == Init => CommitInv
<1> SUFFICES ASSUME Init PROVE CommitInv
  OBVIOUS
<1>1. CommitSafe
  <2> SUFFICES ASSUME NEW p \in Partitions, NEW o \in 0 .. LogSize - 1, o < committed[p]
               PROVE  FALSE
    BY DEF CommitSafe
  <2> QED
    BY CapacityAssumption DEF Init, NoOffset
<1>2. BatchFits
  BY FS_EmptySet, CapacityAssumption DEF Init, BatchFits, Latched, Outstanding
<1>3. PositionSafe /\ BatchRead /\ AcksHandled /\ CommitsSafe /\ NoStaleAcks /\ BatchDisjoint /\ BatchTogether
  BY DEF Init, PositionSafe, BatchRead, AcksHandled, CommitsSafe, NoStaleAcks, BatchDisjoint, BatchTogether,
         Latched, Outstanding
<1> QED
  BY <1>1, <1>2, <1>3 DEF CommitInv

LEMMA CommitInvInvariance ==
  ASSUME NoOverflow, TypeOK, TypeOK', CommitInv, [Next]_vars
  PROVE  CommitInv'
<1> USE DEF brokerVars, groupVars, batchVars, faultVars, Latched, Outstanding
<1>a. /\ CommitSafe /\ PositionSafe /\ BatchRead /\ AcksHandled /\ CommitsSafe /\ NoStaleAcks
      /\ BatchDisjoint /\ BatchFits /\ BatchTogether
  BY DEF CommitInv
<1>1. CASE UNCHANGED vars
  BY <1>1, <1>a DEF vars, CommitInv, CommitSafe, PositionSafe, BatchRead, AcksHandled, CommitsSafe, NoStaleAcks,
     BatchDisjoint, BatchFits, BatchTogether
<1>2. ASSUME NEW p \in Partitions, Produce(p)
      PROVE  CommitInv'
  BY <1>2, <1>a DEF Produce, CommitInv, CommitSafe, PositionSafe, BatchRead, AcksHandled, CommitsSafe, NoStaleAcks,
     BatchDisjoint, BatchFits, BatchTogether
<1>3. CASE CompleteRebalance
  <2>1. UNCHANGED <<brokerVars, pc, assigned, position, batchVars>>
    BY <1>3 DEF CompleteRebalance
  <2>2. CommitsSafe'
    BY <1>3 DEF CompleteRebalance, CommitsSafe
  <2> QED
    BY <2>1, <2>2, <1>a DEF CommitInv, CommitSafe, PositionSafe, BatchRead, AcksHandled, NoStaleAcks,
       BatchDisjoint, BatchFits, BatchTogether
<1>4. ASSUME NEW c \in Consumers, consumerStart(c)
      PROVE  CommitInv'
  <2>1. UNCHANGED <<brokerVars, assigned, position, batchVars, commits>>
    BY <1>4 DEF consumerStart
  <2>2. NoStaleAcks'
    BY <1>4, <1>a DEF consumerStart, NoStaleAcks, TypeOK
  <2> QED
    BY <2>1, <2>2, <1>a DEF CommitInv, CommitSafe, PositionSafe, BatchRead, AcksHandled, CommitsSafe,
       BatchDisjoint, BatchFits, BatchTogether
<1>5. ASSUME NEW c \in Consumers, onPartitionsRevoked(c)
      PROVE  CommitInv'
  <2>1. acks[c] = {}
    BY <1>5, <1>a DEF onPartitionsRevoked, NoStaleAcks
  <2>2. UNCHANGED <<brokerVars, position, batchVars, commits>>
    BY <1>5, <2>1 DEF onPartitionsRevoked, commitOffsets, TypeOK
  <2>3. PositionSafe' /\ BatchRead' /\ AcksHandled' /\ NoStaleAcks'
    BY <1>5, <2>2, <1>a DEF onPartitionsRevoked, PositionSafe, BatchRead, AcksHandled, NoStaleAcks, TypeOK
  <2> QED
    BY <2>2, <2>3, <1>a DEF CommitInv, CommitSafe, CommitsSafe, BatchDisjoint, BatchFits,
       BatchTogether
<1>6. ASSUME NEW c \in Consumers, onPartitionsAssigned(c)
      PROVE  CommitInv'
  <2>1. UNCHANGED <<brokerVars, batchVars, commits>>
    BY <1>6 DEF onPartitionsAssigned
  <2>2. \A d \in Consumers : d # c => assigned'[d] = assigned[d] /\ position'[d] = position[d]
                                      /\ pc'[d] = pc[d]
    BY <1>6 DEF onPartitionsAssigned, TypeOK
  <2>3. \A p \in Partitions, o \in 0 .. LogSize - 1 :
           o < position'[c][p] => Record(p, o) \in handled
    BY <1>6, <1>a DEF onPartitionsAssigned, CommitSafe, TypeOK, NoOffset
  <2>4. PositionSafe'
    BY <2>1, <2>2, <2>3, <1>a DEF PositionSafe, TypeOK
  <2>5. BatchRead' /\ AcksHandled' /\ NoStaleAcks'
    BY <1>6, <2>1, <2>2, <1>a DEF onPartitionsAssigned, BatchRead, AcksHandled, NoStaleAcks, TypeOK
  <2> QED
    BY <2>1, <2>4, <2>5, <1>a DEF CommitInv, CommitSafe, CommitsSafe, BatchDisjoint, BatchFits,
       BatchTogether
<1>7. ASSUME NEW c \in Consumers, poll(c)
      PROVE  CommitInv'
  <2>1. UNCHANGED <<brokerVars, assigned, queued, finished, acks, commits>>
    BY <1>7 DEF poll
  <2>2. \A d \in Consumers : d # c => /\ position'[d] = position[d]
                                      /\ unsubmitted'[d] = unsubmitted[d]
                                      /\ pc'[d] = pc[d]
    BY <1>7 DEF poll, TypeOK
  <2>3. queued[c] = {} /\ finished[c] = {} /\ acks[c] = {} /\ unsubmitted[c] = {} /\ pc'[c] = "batch"
    BY <1>7, <1>a DEF poll, NoStaleAcks, TypeOK
  <2>4. PICK upTo \in [Partitions -> 0 .. LogSize] :
          /\ unsubmitted'[c] = {r \in Records : /\ r.partition \in assigned[c]
                                                /\ position[c][r.partition] <= r.offset
                                                /\ r.offset < upTo[r.partition]}
          /\ position'[c] = upTo
          /\ Cardinality(unsubmitted'[c]) <= MaxPoll
    BY <1>7 DEF poll, TypeOK
  <2>5. PositionSafe'
    <3> SUFFICES ASSUME NEW d \in Consumers, NEW p \in assigned[d], NEW o \in 0 .. LogSize - 1,
                        o < position'[d][p]
                 PROVE  Record(p, o) \in handled \cup unsubmitted'[d] \cup queued[d]
      BY <2>1 DEF PositionSafe
    <3>1. CASE d # c
      BY <2>2, <3>1, <1>a DEF PositionSafe
    <3>2. CASE d = c /\ o < position[c][p]
      BY <2>3, <3>2, <1>a DEF PositionSafe
    <3>3. CASE d = c /\ ~(o < position[c][p])
      <4>1. p \in Partitions /\ position[c][p] \in 0 .. LogSize /\ upTo[p] \in 0 .. LogSize
        BY <3>3 DEF TypeOK
      <4>2. Record(p, o) \in Records /\ position[c][p] <= o /\ o < upTo[p]
        BY <2>4, <3>3, <4>1, CapacityAssumption DEF Records, Record
      <4> QED
        BY <2>4, <3>3, <4>2 DEF Record
    <3> QED
      BY <3>1, <3>2, <3>3
  <2>6. BatchFits'
    <3>1. \A d \in Consumers : d # c => (Latched(d) \cup acks[d])' = Latched(d) \cup acks[d]
      BY <2>1, <2>2
    <3>2. (Latched(c) \cup acks[c])' = unsubmitted'[c] /\ unsubmitted'[c] \subseteq Records
      BY <2>1, <2>3, <2>4
    <3>3. IsFiniteSet(unsubmitted'[c])
      BY <3>2, RecordsFinite, FS_Subset
    <3> QED
      BY <2>4, <3>1, <3>2, <3>3, <1>a DEF BatchFits
  <2>7. BatchRead'
    BY <2>1, <2>2, <2>3, <2>4, <1>a DEF BatchRead, TypeOK
  <2>8. AcksHandled' /\ NoStaleAcks' /\ BatchDisjoint' /\ BatchTogether'
    BY <2>1, <2>2, <2>3, <1>a DEF AcksHandled, NoStaleAcks, BatchDisjoint, BatchTogether
  <2> QED
    BY <2>1, <2>5, <2>6, <2>7, <2>8, <1>a DEF CommitInv, CommitSafe, CommitsSafe
<1>8. ASSUME NEW c \in Consumers, execute(c)
      PROVE  CommitInv'
  <2>1. UNCHANGED <<brokerVars, pc, assigned, position, finished, acks, commits>>
    BY <1>8 DEF execute
  <2>2. PICK r \in unsubmitted[c] : /\ unsubmitted' = [unsubmitted EXCEPT ![c] = @ \ {r}]
                                    /\ queued' = [queued EXCEPT ![c] = @ \cup {r}]
    BY <1>8 DEF execute
  <2>3. \A d \in Consumers : unsubmitted'[d] \cup queued'[d] = unsubmitted[d] \cup queued[d]
    BY <2>2 DEF TypeOK
  <2>4. BatchDisjoint'
    BY <2>1, <2>2, <1>a DEF BatchDisjoint, TypeOK
  <2>5. BatchFits' /\ PositionSafe' /\ BatchRead' /\ AcksHandled'
    BY <2>1, <2>3, <1>a DEF BatchFits, PositionSafe, BatchRead, AcksHandled
  <2>6. pc[c] = "batch" /\ ~BatchListener
    BY <1>8 DEF execute
  <2>7. NoStaleAcks' /\ BatchTogether'
    BY <2>1, <2>2, <2>6, <1>a DEF NoStaleAcks, BatchTogether, TypeOK
  <2> QED
    BY <2>1, <2>4, <2>5, <2>7, <1>a DEF CommitInv, CommitSafe, CommitsSafe
<1>9. ASSUME NEW c \in Consumers, submitBatchRecords(c)
      PROVE  CommitInv'
  <2>1. UNCHANGED <<logEnd, committed, pc, assigned, position, queued, acks, commits>>
    BY <1>9 DEF submitBatchRecords
  <2>2. /\ finished' = [finished EXCEPT ![c] = unsubmitted[c]]
        /\ unsubmitted' = [unsubmitted EXCEPT ![c] = {}]
        /\ handled' = handled \cup unsubmitted[c]
        /\ pc[c] = "batch" /\ BatchListener /\ unsubmitted[c] # {}
    BY <1>9 DEF submitBatchRecords
  <2>3. queued[c] = {} /\ finished[c] = {} /\ acks[c] = {}
    BY <2>2, <1>a DEF BatchTogether
  <2>4. CommitSafe' /\ CommitsSafe'
    BY <2>1, <2>2, <1>a DEF CommitSafe, CommitsSafe
  <2>5. PositionSafe'
    BY <2>1, <2>2, <1>a DEF PositionSafe, TypeOK
  <2>6. BatchRead' /\ AcksHandled'
    <3>1. \A r \in unsubmitted[c] : r.partition \in assigned[c] /\ r.offset < position[c][r.partition]
      BY <1>a DEF BatchRead
    <3> QED
      BY <2>1, <2>2, <3>1, <1>a DEF BatchRead, AcksHandled, TypeOK
  <2>7. \A d \in Consumers : (Latched(d) \cup acks[d])' = Latched(d) \cup acks[d]
    BY <2>1, <2>2, <2>3 DEF TypeOK
  <2>8. BatchFits' /\ NoStaleAcks'
    BY <2>1, <2>7, <1>a DEF BatchFits, NoStaleAcks
  <2>9. BatchDisjoint' /\ BatchTogether'
    BY <2>1, <2>2, <2>3, <1>a DEF BatchDisjoint, BatchTogether, TypeOK
  <2> QED
    BY <2>4, <2>5, <2>6, <2>8, <2>9 DEF CommitInv
<1>10. ASSUME NEW c \in Consumers, finishBatch(c)
       PROVE  CommitInv'
  <2>1. UNCHANGED <<brokerVars, assigned, position, unsubmitted, queued, finished>>
        /\ Latched(c) = {} /\ commitOffsets(c) /\ pc' = [pc EXCEPT ![c] = "poll"]
    BY <1>10 DEF finishBatch
  <2>2. CommitsSafe'
    BY <2>1, <1>a, AcksSafe, CommitOffsetsSafe
  <2>3. acks' = [acks EXCEPT ![c] = {}]
    BY <2>1 DEF commitOffsets
  <2>4. BatchFits'
    <3>1. \A d \in Consumers : (Latched(d) \cup acks[d])' \subseteq Latched(d) \cup acks[d]
      BY <2>1, <2>3 DEF TypeOK
    <3> QED
      BY <3>1, <1>a, BatchShrinks
  <2>5. \A d \in Consumers : acks'[d] \subseteq acks[d] /\ acks'[c] = {}
    BY <2>3 DEF TypeOK
  <2>6. BatchRead' /\ AcksHandled'
    BY <2>1, <2>5, <1>a DEF BatchRead, AcksHandled
  <2>7. BatchDisjoint' /\ BatchTogether'
    BY <2>1, <2>5, <1>a DEF BatchDisjoint, BatchTogether
  <2>8. \A d \in Consumers : pc'[d] # "batch" => d = c \/ pc[d] # "batch"
    BY <2>1 DEF TypeOK
  <2>9. NoStaleAcks'
    BY <2>1, <2>5, <2>8, <1>a DEF NoStaleAcks
  <2> QED
    BY <2>1, <2>2, <2>4, <2>6, <2>7, <2>9, <1>a DEF CommitInv, CommitSafe, PositionSafe
<1>11. ASSUME NEW c \in Consumers, onMessage(c)
       PROVE  CommitInv'
  <2>1. UNCHANGED <<logEnd, committed, pc, assigned, position, unsubmitted, acks, commits>>
    BY <1>11 DEF onMessage
  <2>2. PICK r \in queued[c] : /\ queued' = [queued EXCEPT ![c] = @ \ {r}]
                               /\ finished' = [finished EXCEPT ![c] = @ \cup {r}]
                               /\ handled' = handled \cup {r}
    BY <1>11 DEF onMessage
  <2>3. CommitSafe' /\ CommitsSafe'
    BY <2>1, <2>2, <1>a DEF CommitSafe, CommitsSafe
  <2>4. PositionSafe'
    BY <2>1, <2>2, <1>a DEF PositionSafe, TypeOK
  <2>5. \A d \in Consumers : Latched(d)' = Latched(d)
    BY <2>1, <2>2 DEF TypeOK
  <2>6. BatchFits' /\ BatchRead'
    BY <2>1, <2>5, <1>a DEF BatchFits, BatchRead
  <2>7. AcksHandled' /\ BatchDisjoint'
    BY <2>1, <2>2, <1>a DEF AcksHandled, BatchDisjoint, TypeOK
  <2>8. NoStaleAcks' /\ BatchTogether'
    BY <2>1, <2>2, <2>5, <1>a DEF NoStaleAcks, BatchTogether, TypeOK
  <2> QED
    BY <2>3, <2>4, <2>6, <2>7, <2>8 DEF CommitInv
<1>12. ASSUME NEW c \in Consumers, offerAck(c)
       PROVE  CommitInv'
  <2>1. PICK r \in finished[c] :
          IF Cardinality(acks[c]) < AckCapacity
          THEN /\ acks' = [acks EXCEPT ![c] = @ \cup {r}]
               /\ finished' = [finished EXCEPT ![c] = @ \ {r}]
               /\ commits' = commits
          ELSE commitOffsets(c) /\ finished' = finished
    BY <1>12 DEF offerAck
  <2>2. UNCHANGED <<brokerVars, pc, assigned, position, unsubmitted, queued>>
    BY <1>12 DEF offerAck
  <2>3. CASE /\ acks' = [acks EXCEPT ![c] = @ \cup {r}]
             /\ finished' = [finished EXCEPT ![c] = @ \ {r}]
             /\ commits' = commits
    <3>1. \A d \in Consumers : (Latched(d) \cup acks[d])' = Latched(d) \cup acks[d]
      BY <2>2, <2>3 DEF TypeOK
    <3>2. BatchFits' /\ BatchRead' /\ NoStaleAcks'
      BY <2>2, <3>1, <1>a DEF BatchFits, BatchRead, NoStaleAcks
    <3>3. \A d \in Consumers : (finished[d] \cup acks[d])' = finished[d] \cup acks[d]
      BY <2>2, <2>3 DEF TypeOK
    <3>4. AcksHandled' /\ BatchTogether'
      BY <2>2, <3>3, <1>a DEF AcksHandled, BatchTogether
    <3>5. \A d \in Consumers : (finished[d] \cap acks[d])' = {}
      BY <2>2, <2>3, <1>a DEF BatchDisjoint, TypeOK
    <3>6. BatchDisjoint'
      BY <2>2, <3>3, <3>5, <1>a DEF BatchDisjoint
    <3> QED
      BY <2>2, <2>3, <3>2, <3>4, <3>6, <1>a DEF CommitInv, CommitSafe, PositionSafe, CommitsSafe
  <2>4. CASE ~(Cardinality(acks[c]) < AckCapacity) /\ commitOffsets(c) /\ finished' = finished
    <3>1. BatchListener
      BY <2>4, <1>a, AcksHaveRoom
    <3>2. Outstanding(c) = {}
      BY <3>1, <1>a DEF BatchTogether
    <3>3. CommitsSafe'
      BY <2>2, <2>4, <3>2, <1>a, AcksSafe, CommitOffsetsSafe
    <3>4. acks' = [acks EXCEPT ![c] = {}]
      BY <2>4 DEF commitOffsets
    <3>5. \A d \in Consumers : acks'[d] \subseteq acks[d]
      BY <3>4 DEF TypeOK
    <3>6. BatchFits'
      <4>1. \A d \in Consumers : (Latched(d) \cup acks[d])' \subseteq Latched(d) \cup acks[d]
        BY <2>2, <2>4, <3>5
      <4> QED
        BY <4>1, <1>a, BatchShrinks
    <3>7. BatchRead' /\ AcksHandled'
      BY <2>2, <2>4, <3>5, <1>a DEF BatchRead, AcksHandled
    <3>8. BatchDisjoint' /\ BatchTogether'
      BY <2>2, <2>4, <3>5, <1>a DEF BatchDisjoint, BatchTogether
    <3>9. NoStaleAcks'
      BY <2>2, <2>4, <3>5, <1>a DEF NoStaleAcks
    <3> QED
      BY <2>2, <2>4, <3>3, <3>6, <3>7, <3>8, <3>9, <1>a DEF CommitInv, CommitSafe, PositionSafe
  <2> QED
    BY <2>1, <2>3, <2>4
<1>13. ASSUME NEW c \in Consumers, CompleteCommit(c)
       PROVE  CommitInv'
  <2>1. UNCHANGED <<logEnd, handled, pc, assigned, position, batchVars>>
        /\ commits[c] # <<>> /\ commits' = [commits EXCEPT ![c] = Tail(@)]
    BY <1>13 DEF CompleteCommit
  <2>2. CommitsSafe'
    BY <2>1, <1>a, TailSafe
  <2>3. CommitSafe'
    <3> SUFFICES ASSUME NEW p \in Partitions, NEW o \in 0 .. LogSize - 1, o < committed'[p]
                 PROVE  Record(p, o) \in handled
      BY <2>1 DEF CommitSafe
    <3>1. CASE committed'[p] = committed[p]
      BY <3>1, <1>a DEF CommitSafe
    <3>2. CASE committed'[p] # committed[p]
      <4>1. addOffset(p, Head(commits[c]), committed[p], committed'[p])
        BY <1>13, <3>2 DEF CompleteCommit
      <4>2. PICK r \in Head(commits[c]) : r.partition = p /\ committed'[p] = r.offset + 1
        BY <3>2, <4>1, CommitOfRequest
      <4>3. 1 \in 1 .. Len(commits[c]) /\ Head(commits[c]) = commits[c][1]
            /\ commits[c][1] \in SUBSET Records
        BY <2>1 DEF TypeOK
      <4>4. r.offset \in Int /\ o \in 0 .. r.offset
        BY <4>2, <4>3, CapacityAssumption DEF Records
      <4> QED
        BY <4>2, <4>3, <4>4, <1>a DEF CommitsSafe
    <3> QED
      BY <3>1, <3>2
  <2> QED
    BY <2>1, <2>2, <2>3, <1>a DEF CommitInv, PositionSafe, BatchRead, AcksHandled, NoStaleAcks,
       BatchDisjoint, BatchFits, BatchTogether
<1>14. ASSUME NEW c \in Consumers, FailCommit(c)
       PROVE  CommitInv'
  <2>1. UNCHANGED <<brokerVars, pc, assigned, position, batchVars>>
        /\ commits[c] # <<>> /\ commits' = [commits EXCEPT ![c] = Tail(@)]
    BY <1>14 DEF FailCommit
  <2>2. CommitsSafe'
    BY <2>1, <1>a, TailSafe
  <2> QED
    BY <2>1, <2>2, <1>a DEF CommitInv, CommitSafe, PositionSafe, BatchRead, AcksHandled,
       NoStaleAcks, BatchDisjoint, BatchFits, BatchTogether
<1>15. ASSUME NEW c \in Consumers, Expel(c)
       PROVE  CommitInv'
  BY <1>15, <1>a DEF Expel, CommitInv, CommitSafe, PositionSafe, BatchRead, AcksHandled,
     CommitsSafe, NoStaleAcks, BatchDisjoint, BatchFits, BatchTogether
<1>16. ASSUME NEW c \in Consumers, Crash(c) \/ consumerShutdown(c)
       PROVE  CommitInv'
  <2>1. UNCHANGED <<brokerVars, position, commits>>
        /\ pc' = [pc EXCEPT ![c] = "down"] /\ assigned' = [assigned EXCEPT ![c] = {}]
        /\ unsubmitted' = [unsubmitted EXCEPT ![c] = {}] /\ queued' = [queued EXCEPT ![c] = {}]
        /\ finished' = [finished EXCEPT ![c] = {}] /\ acks' = [acks EXCEPT ![c] = {}]
    BY <1>16 DEF Crash, consumerShutdown, Forget
  <2>2. /\ assigned'[c] = {} /\ (Latched(c) \cup acks[c])' = {}
        /\ \A d \in Consumers : d # c => UNCHANGED <<pc[d], assigned[d], unsubmitted[d], queued[d],
                                                     finished[d], acks[d]>>
    BY <2>1 DEF TypeOK
  <2>3. BatchFits'
    <3>1. \A d \in Consumers : (Latched(d) \cup acks[d])' \subseteq Latched(d) \cup acks[d]
      BY <2>1 DEF TypeOK
    <3> QED
      BY <3>1, <1>a, BatchShrinks
  <2>4. PositionSafe' /\ BatchRead' /\ AcksHandled'
    BY <2>1, <2>2, <1>a DEF PositionSafe, BatchRead, AcksHandled
  <2>5. NoStaleAcks' /\ BatchDisjoint' /\ BatchTogether'
    BY <2>1, <2>2, <1>a DEF NoStaleAcks, BatchDisjoint, BatchTogether
  <2> QED
    BY <2>1, <2>3, <2>4, <2>5, <1>a DEF CommitInv, CommitSafe, CommitsSafe
<1>17. ASSUME NEW c \in Consumers, pollNothing(c)
       PROVE  CommitInv'
  BY <1>1, <1>17 DEF pollNothing
<1> QED
  BY <1>1, <1>2, <1>3, <1>4, <1>5, <1>6, <1>7, <1>8, <1>9, <1>10, <1>11, <1>12, <1>13,
     <1>14, <1>15, <1>16, <1>17 DEF Next, Step

\* As long as the acknowledgements of a batch fit into the acks queue, the committed
\* offset of a partition never passes a record that no listener was given, for any
\* number of members, threads, rebalances, crashes and failed commits.
THEOREM CommitSafety ==
  ASSUME NoOverflow
  PROVE  Spec => []CommitSafe
<1>1. Init => TypeOK /\ CommitInv
  BY TypeInit, CommitInvInit
<1>2. TypeOK /\ CommitInv /\ [Next]_vars => (TypeOK /\ CommitInv)'
  BY TypeInvariance, CommitInvInvariance
<1>3. CommitInv => CommitSafe
  BY DEF CommitInv
<1> QED
  BY <1>1, <1>2, <1>3, PTL DEF Spec

\* Under the same condition no batch starts with acknowledgements of another one: the latch
\* and the commit after it leave the acks queue empty, whatever happens to the batch.
THEOREM NoStaleAcknowledgements ==
  ASSUME NoOverflow
  PROVE  Spec => []NoStaleAcks
<1>1. Init => TypeOK /\ CommitInv
  BY TypeInit, CommitInvInit
<1>2. TypeOK /\ CommitInv /\ [Next]_vars => (TypeOK /\ CommitInv)'
  BY TypeInvariance, CommitInvInvariance
<1>3. CommitInv => NoStaleAcks
  BY DEF CommitInv
<1> QED
  BY <1>1, <1>2, <1>3, PTL DEF Spec

-----------------------------------------------------------------------------
(***************************************************************************)
(* Why an orderly group delivers in order.  The poll thread submits each   *)
(* partition upwards, so a queued record is below the records that are not *)
(* submitted; the record a single-thread executor takes has everything     *)
(* below it handled, because nothing below it is queued or unsubmitted.    *)
(***************************************************************************)
SubmittedUpwards ==
  \A c \in Consumers : \A q \in queued[c], u \in unsubmitted[c] :
     q.partition = u.partition => q.offset < u.offset

OrderInv == FirstDeliveryInOrder /\ SubmittedUpwards

LEMMA OrderInvInvariance ==
  ASSUME Threads = 1 \/ BatchListener, TypeOK, TypeOK', CommitInv, OrderInv, [Next]_vars
  PROVE  OrderInv'
<1> USE DEF brokerVars, groupVars, batchVars, faultVars
<1>a. FirstDeliveryInOrder /\ SubmittedUpwards /\ PositionSafe /\ BatchRead /\ NoStaleAcks
      /\ BatchDisjoint /\ BatchTogether
  BY DEF OrderInv, CommitInv
<1>1. CASE UNCHANGED <<handled, unsubmitted, queued>>
  BY <1>1, <1>a DEF OrderInv, FirstDeliveryInOrder, SubmittedUpwards
<1>2. ASSUME NEW c \in Consumers, poll(c)
      PROVE  OrderInv'
  <2>1. handled' = handled /\ queued' = queued
        /\ \A d \in Consumers : d # c => unsubmitted'[d] = unsubmitted[d]
    BY <1>2 DEF poll, TypeOK
  <2>2. queued[c] = {}
    BY <1>2, <1>a DEF poll, NoStaleAcks, Latched, Outstanding
  <2> QED
    BY <2>1, <2>2, <1>a DEF OrderInv, FirstDeliveryInOrder, SubmittedUpwards
<1>3. ASSUME NEW c \in Consumers, execute(c)
      PROVE  OrderInv'
  <2>1. handled' = handled
    BY <1>3 DEF execute
  <2>2. PICK r \in unsubmitted[c] : /\ First(r, unsubmitted[c])
                                    /\ unsubmitted' = [unsubmitted EXCEPT ![c] = @ \ {r}]
                                    /\ queued' = [queued EXCEPT ![c] = @ \cup {r}]
    BY <1>3 DEF execute
  <2>3. \A u \in unsubmitted[c] \ {r} : r.partition = u.partition => r.offset < u.offset
    <3> SUFFICES ASSUME NEW u \in unsubmitted[c] \ {r}, r.partition = u.partition
                 PROVE  r.offset < u.offset
      OBVIOUS
    <3>1. r \in Records /\ u \in Records /\ r # u
      BY DEF TypeOK
    <3>2. r.offset # u.offset /\ r.offset \in Int /\ u.offset \in Int
      BY <3>1, CapacityAssumption DEF Records
    <3> QED
      BY <2>2, <3>2 DEF First
  <2>4. SubmittedUpwards'
    BY <2>2, <2>3, <1>a DEF SubmittedUpwards, TypeOK
  <2> QED
    BY <2>1, <2>4, <1>a DEF OrderInv, FirstDeliveryInOrder
<1>4. ASSUME NEW c \in Consumers, NEW r \in Outstanding(c), NEW o \in 0 .. r.offset
      PROVE  Record(r.partition, o) \in handled \cup Outstanding(c)
  <2>1. r \in Records /\ r.partition \in assigned[c] /\ r.offset < position[c][r.partition]
    BY <1>a DEF BatchRead, TypeOK, Latched, Outstanding
  <2>2. r.offset \in 0 .. LogSize - 1 /\ position[c][r.partition] \in 0 .. LogSize
    BY <2>1, CapacityAssumption DEF Records, TypeOK
  <2>3. o \in 0 .. LogSize - 1 /\ o < position[c][r.partition]
    BY <2>1, <2>2, CapacityAssumption
  <2> QED
    BY <2>1, <2>3, <1>a DEF PositionSafe
<1>5. ASSUME NEW c \in Consumers, submitBatchRecords(c)
      PROVE  OrderInv'
  <2>1. /\ handled' = handled \cup unsubmitted[c] /\ queued' = queued
        /\ unsubmitted' = [unsubmitted EXCEPT ![c] = {}] /\ BatchListener
    BY <1>5 DEF submitBatchRecords
  <2>2. Outstanding(c) = unsubmitted[c]
    BY <2>1, <1>a DEF BatchTogether, Outstanding
  <2>3. FirstDeliveryInOrder'
    BY <2>1, <2>2, <1>4, <1>a DEF FirstDeliveryInOrder
  <2> QED
    BY <2>1, <2>3, <1>a DEF OrderInv, SubmittedUpwards, TypeOK
<1>6. ASSUME NEW c \in Consumers, onMessage(c)
      PROVE  OrderInv'
  <2>1. unsubmitted' = unsubmitted
    BY <1>6 DEF onMessage
  <2>2. PICK r \in queued[c] : /\ Threads = 1 => First(r, queued[c])
                               /\ queued' = [queued EXCEPT ![c] = @ \ {r}]
                               /\ handled' = handled \cup {r}
    BY <1>6 DEF onMessage
  <2>3. Threads = 1 /\ First(r, queued[c])
    BY <2>2, <1>a DEF BatchTogether
  <2>4. ASSUME NEW o \in 0 .. r.offset
        PROVE  Record(r.partition, o) \in handled'
    <3>1. r \in Records /\ r.offset \in Nat /\ o \in Nat
      BY CapacityAssumption DEF TypeOK, Records
    <3>2. CASE o = r.offset
      BY <2>2, <3>1, <3>2 DEF Record, Records
    <3>3. CASE o < r.offset
      <4>1. Record(r.partition, o) \notin queued[c]
        BY <2>3, <3>1, <3>3 DEF First, Record
      <4>2. Record(r.partition, o) \notin unsubmitted[c]
        BY <3>1, <3>3, <1>a DEF SubmittedUpwards, Record
      <4> QED
        BY <1>4, <2>2, <4>1, <4>2 DEF Outstanding
    <3> QED
      BY <3>1, <3>2, <3>3
  <2>5. FirstDeliveryInOrder'
    BY <2>2, <2>4, <1>a DEF FirstDeliveryInOrder
  <2>6. SubmittedUpwards'
    BY <2>1, <2>2, <1>a DEF SubmittedUpwards, TypeOK
  <2> QED
    BY <2>5, <2>6 DEF OrderInv
<1>7. ASSUME NEW c \in Consumers, Crash(c) \/ consumerShutdown(c)
      PROVE  OrderInv'
  <2>1. /\ handled' = handled
        /\ unsubmitted' = [unsubmitted EXCEPT ![c] = {}] /\ queued' = [queued EXCEPT ![c] = {}]
    BY <1>7 DEF Crash, consumerShutdown, Forget
  <2>2. SubmittedUpwards'
    BY <2>1, <1>a DEF SubmittedUpwards, TypeOK
  <2> QED
    BY <2>1, <2>2, <1>a DEF OrderInv, FirstDeliveryInOrder
<1>8. CASE CompleteRebalance \/ \E p \in Partitions : Produce(p)
  BY <1>1, <1>8 DEF CompleteRebalance, Produce
<1>9. ASSUME NEW c \in Consumers,
             \/ consumerStart(c) \/ onPartitionsRevoked(c) \/ onPartitionsAssigned(c)
             \/ pollNothing(c) \/ finishBatch(c) \/ offerAck(c)
             \/ CompleteCommit(c) \/ FailCommit(c) \/ Expel(c)
      PROVE  OrderInv'
  <2>1. UNCHANGED <<handled, unsubmitted, queued>>
    BY <1>9 DEF consumerStart, onPartitionsRevoked, onPartitionsAssigned, pollNothing, finishBatch,
       offerAck, CompleteCommit, FailCommit, Expel, vars
  <2> QED
    BY <1>1, <2>1
<1> QED
  BY <1>1, <1>2, <1>3, <1>5, <1>6, <1>7, <1>8, <1>9 DEF Next, Step, vars

\* With one thread per executor, or with a batch listener, a record is handed over for
\* the first time only after every record below it in its partition was, over all the
\* rebalances and restarts of the group.
THEOREM OrderlyDelivery ==
  ASSUME NoOverflow, Threads = 1 \/ BatchListener
  PROVE  Spec => []FirstDeliveryInOrder
<1>1. Init => TypeOK /\ CommitInv /\ OrderInv
  BY TypeInit, CommitInvInit DEF Init, OrderInv, FirstDeliveryInOrder, SubmittedUpwards
<1>2. TypeOK /\ CommitInv /\ OrderInv /\ [Next]_vars => (TypeOK /\ CommitInv /\ OrderInv)'
  BY TypeInvariance, CommitInvInvariance, OrderInvInvariance
<1>3. OrderInv => FirstDeliveryInOrder
  BY DEF OrderInv
<1> QED
  BY <1>1, <1>2, <1>3, PTL DEF Spec


-----------------------------------------------------------------------------
(***************************************************************************)
(* Why the group implements AtLeastOnce.  What is handed over exists, and  *)
(* a commit that is obeyed moves the committed offset forward: only the    *)
(* owner of a partition has a request for it on the wire, a member that    *)
(* joins a generation has none, it reads on from the committed offset, and *)
(* its requests cover one batch after the other.                           *)
(***************************************************************************)
InHand(c) == Latched(c) \cup acks[c]
InLog(r) == r.offset < logEnd[r.partition]
Below(r, s) == r.partition = s.partition => r.offset < s.offset

LogInv ==
  /\ \A p \in Partitions : committed[p] <= logEnd[p]
  /\ \A c \in Consumers : \A p \in Partitions : position[c][p] <= logEnd[p]
  /\ \A c \in Consumers : \A r \in InHand(c) : InLog(r)
  /\ \A c \in Consumers : \A i \in 1 .. Len(commits[c]) : \A r \in commits[c][i] : InLog(r)

\* Who has joined or is not polling owns nothing; what a member owns or commits is its own
\* in this generation; and what it had on the wire was void when the generation began.
GroupInv ==
  /\ \A c \in joined : pc[c] \in {"down", "start", "joining"}
  /\ \A c \in Consumers : pc[c] \notin {"poll", "batch"} => assigned[c] = {}
  /\ \A c \in members : \A p \in assigned[c] : owner[p] = c
  /\ \A c \in members : \A i \in 1 .. Len(commits[c]) : \A r \in commits[c][i] :
        owner[r.partition] = c
  /\ \A c \in members \ joined : pc[c] = "joining" => commits[c] = <<>>

\* What member c reads, holds and has on the wire lies above the committed offsets, each
\* request above the ones before it.
Ahead(c) ==
  /\ \A p \in assigned[c] : committed[p] <= position[c][p]
  /\ \A r \in InHand(c) : committed[r.partition] <= r.offset
  /\ \A i \in 1 .. Len(commits[c]) : \A r \in commits[c][i] :
       /\ committed[r.partition] <= r.offset
       /\ r.partition \in assigned[c] => r.offset < position[c][r.partition]
       /\ \A s \in InHand(c) : Below(r, s)
       /\ \A j \in 1 .. Len(commits[c]) : i < j => \A s \in commits[c][j] : Below(r, s)

\* A batch listener's records are acknowledged upwards, so a commit in mid-batch leaves
\* what lies above it.
AcksBelow ==
  BatchListener => \A c \in Consumers : \A a \in acks[c], f \in finished[c] : Below(a, f)

RiseInv == (\A c \in members : Ahead(c)) /\ AcksBelow

\* Offsets are integers, and records lie in partitions.
LEMMA Offsets ==
  ASSUME TypeOK
  PROVE  /\ \A p \in Partitions : committed[p] \in Int /\ logEnd[p] \in Int
         /\ \A c \in Consumers : \A p \in Partitions : position[c][p] \in Int
         /\ \A r \in Records : r.offset \in Nat /\ r.partition \in Partitions
         /\ \A c \in Consumers : InHand(c) \subseteq Records
         /\ \A c \in Consumers : \A i \in 1 .. Len(commits[c]) : commits[c][i] \subseteq Records
<1>1. /\ \A p \in Partitions : committed[p] \in Int /\ logEnd[p] \in Int
      /\ \A c \in Consumers : \A p \in Partitions : position[c][p] \in Int
  <2>1. NoOffset \in Int /\ 0 .. LogSize \subseteq Int
    BY CapacityAssumption DEF NoOffset
  <2> QED
    BY <2>1 DEF TypeOK
<1>2. \A r \in Records : r.offset \in Nat /\ r.partition \in Partitions
  BY CapacityAssumption DEF Records
<1>3. \A c \in Consumers : InHand(c) \subseteq Records
  BY DEF TypeOK, InHand, Latched, Outstanding
<1>4. ASSUME NEW c \in Consumers, NEW i \in 1 .. Len(commits[c])
      PROVE  commits[c][i] \subseteq Records
  <2>1. commits[c] \in Seq(SUBSET Records)
    BY DEF TypeOK
  <2> QED
    BY <2>1
<1> QED
  BY <1>1, <1>2, <1>3, <1>4

\* The requests on the wire after commitOffsets: those before, and one more at the end.
LEMMA AfterCommitOffsets ==
  ASSUME TypeOK, NEW c \in Consumers, commitOffsets(c), NEW d \in Consumers
  PROVE  \/ commits'[d] = commits[d]
         \/ /\ d = c /\ Len(commits'[d]) = Len(commits[d]) + 1 /\ Len(commits[d]) \in Nat
            /\ \A i \in 1 .. Len(commits[d]) : commits'[d][i] = commits[d][i]
            /\ commits'[d][Len(commits[d]) + 1] = acks[c]
<1>1. commits[d] \in Seq(SUBSET Records) /\ acks[c] \in SUBSET Records
  BY DEF TypeOK
<1>2. CASE commits'[d] # commits[d]
  <2>1. d = c /\ commits'[d] = Append(commits[d], acks[c])
    BY <1>2 DEF commitOffsets, TypeOK
  <2> DEFINE q == commits[d]
             a == acks[c]
  <2>2. q \in Seq(SUBSET Records) /\ a \in SUBSET Records
    BY <1>1
  <2> HIDE DEF q, a
  <2>3. /\ Len(Append(q, a)) = Len(q) + 1 /\ Len(q) \in Nat
        /\ \A i \in 1 .. Len(q) : Append(q, a)[i] = q[i]
        /\ Append(q, a)[Len(q) + 1] = a
    BY ONLY <2>2
  <2> QED
    BY <2>1, <2>3 DEF q, a
<1> QED
  BY <1>2

\* The requests on the wire after the oldest was answered.
LEMMA AfterAnswer ==
  ASSUME TypeOK, NEW c \in Consumers, commits[c] # <<>>,
         commits' = [commits EXCEPT ![c] = Tail(@)]
  PROVE  /\ \A d \in Consumers : d # c => commits'[d] = commits[d]
         /\ \A i \in 1 .. Len(commits'[c]) : /\ i + 1 \in 1 .. Len(commits[c])
                                            /\ commits'[c][i] = commits[c][i + 1]
<1> DEFINE q == commits[c]
<1>1. q \in Seq(SUBSET Records) /\ q # <<>> /\ commits'[c] = Tail(q)
  BY DEF TypeOK
<1>2. \A d \in Consumers : d # c => commits'[d] = commits[d]
  BY DEF TypeOK
<1> HIDE DEF q
<1>3. \A i \in 1 .. Len(Tail(q)) : i + 1 \in 1 .. Len(q) /\ Tail(q)[i] = q[i + 1]
  BY ONLY <1>1
<1> QED
  BY <1>1, <1>2, <1>3 DEF q

\* What one step makes of the log is for its records' good: the log only grows.
LEMMA LogStays ==
  ASSUME TypeOK, LogInv, NEW c \in Consumers,
         \A p \in Partitions : logEnd[p] <= logEnd'[p] /\ logEnd'[p] \in Int,
         committed' = committed, position' = position,
         \A d \in Consumers : InHand(d)' \subseteq InHand(d),
         \/ commits' = commits
         \/ commitOffsets(c)
         \/ commits[c] # <<>> /\ commits' = [commits EXCEPT ![c] = Tail(@)]
  PROVE  LogInv'
<1>1. \A r \in Records : InLog(r) => InLog(r)'
  BY Offsets DEF InLog
<1>2. \A d \in Consumers : \A r \in InHand(d) : r \in Records
  BY Offsets
<1>3. \A d \in Consumers : \A r \in InHand(d)' : InLog(r)'
  BY <1>1, <1>2 DEF LogInv
<1>4. \A p \in Partitions : committed'[p] <= logEnd'[p]
  BY Offsets DEF LogInv
<1>5. \A d \in Consumers : \A p \in Partitions : position'[d][p] <= logEnd'[p]
  BY Offsets DEF LogInv
<1>6. ASSUME NEW d \in Consumers, NEW i \in 1 .. Len(commits[d]), NEW r \in commits[d][i]
      PROVE  InLog(r)'
  BY <1>1, Offsets DEF LogInv
<1>7. ASSUME NEW d \in Consumers, NEW i \in 1 .. Len(commits'[d]), NEW r \in commits'[d][i]
      PROVE  InLog(r)'
  <2>1. CASE commits' = commits
    BY <1>6, <2>1
  <2>2. CASE commitOffsets(c)
    <3>1. CASE commits'[d] = commits[d]
      BY <1>6, <3>1
    <3>2. CASE commits'[d] # commits[d]
      <4>1. /\ Len(commits'[d]) = Len(commits[d]) + 1 /\ Len(commits[d]) \in Nat /\ d = c
            /\ \A k \in 1 .. Len(commits[d]) : commits'[d][k] = commits[d][k]
            /\ commits'[d][Len(commits[d]) + 1] = acks[c]
        BY <2>2, <3>2, AfterCommitOffsets
      <4>2. CASE i \in 1 .. Len(commits[d])
        BY <1>6, <4>1, <4>2
      <4>3. CASE i = Len(commits[d]) + 1
        BY <1>1, <1>2, <4>1, <4>3 DEF LogInv, InHand
      <4> QED
        BY <4>1, <4>2, <4>3
    <3> QED
      BY <3>1, <3>2
  <2>3. CASE commits[c] # <<>> /\ commits' = [commits EXCEPT ![c] = Tail(@)]
    BY <1>6, <2>3, AfterAnswer
  <2> QED
    BY <2>1, <2>2, <2>3
<1> QED
  BY <1>3, <1>4, <1>5, <1>7 DEF LogInv

LEMMA LogInvInit == Init => LogInv
<1> SUFFICES ASSUME Init PROVE LogInv
  OBVIOUS
<1>1. \A c \in Consumers : InHand(c) = {} /\ Len(commits[c]) = 0
  BY DEF Init, InHand, Latched, Outstanding
<1>2. \A p \in Partitions : committed[p] <= logEnd[p]
  BY DEF Init, NoOffset
<1>3. \A c \in Consumers : \A p \in Partitions : position[c][p] <= logEnd[p]
  BY DEF Init
<1> QED
  BY <1>1, <1>2, <1>3 DEF LogInv

LEMMA LogInvInvariance ==
  ASSUME TypeOK, TypeOK', LogInv, [Next]_vars
  PROVE  LogInv'
<1> USE DEF brokerVars, groupVars, batchVars, faultVars
<1>1. CASE UNCHANGED vars
  BY <1>1 DEF vars, LogInv, InHand, InLog, Latched, Outstanding
<1>2. ASSUME NEW p \in Partitions, Produce(p)
      PROVE  LogInv'
  <2>1. /\ UNCHANGED <<committed, position, batchVars, commits>>
        /\ \A q \in Partitions : logEnd[q] <= logEnd'[q] /\ logEnd'[q] \in Int
    BY <1>2, Offsets DEF Produce, TypeOK
  <2>2. \A c \in Consumers : InHand(c)' \subseteq InHand(c)
    BY <2>1 DEF InHand, Latched, Outstanding
  <2>3. \A r \in Records : InLog(r) => InLog(r)'
    BY <2>1, Offsets DEF InLog
  <2>4. \A q \in Partitions : committed'[q] <= logEnd'[q]
    BY <2>1, Offsets DEF LogInv
  <2>5. \A c \in Consumers : \A q \in Partitions : position'[c][q] <= logEnd'[q]
    BY <2>1, Offsets DEF LogInv
  <2>6. /\ \A c \in Consumers : \A r \in InHand(c)' : InLog(r)'
        /\ \A c \in Consumers : \A i \in 1 .. Len(commits'[c]) : \A r \in commits'[c][i] : InLog(r)'
    BY <2>1, <2>2, <2>3, Offsets DEF LogInv
  <2> QED
    BY <2>4, <2>5, <2>6 DEF LogInv
<1>3. CASE CompleteRebalance
  <2>1. /\ UNCHANGED <<brokerVars, position, batchVars>>
        /\ \A c \in Consumers : Len(commits'[c]) = 0
    BY <1>3 DEF CompleteRebalance
  <2> QED
    BY <2>1 DEF LogInv, InHand, InLog, Latched, Outstanding
<1>4. ASSUME NEW c \in Consumers, UNCHANGED <<logEnd, committed, position>>,
             \A d \in Consumers : InHand(d)' \subseteq InHand(d),
             \/ commits' = commits
             \/ commitOffsets(c)
             \/ commits[c] # <<>> /\ commits' = [commits EXCEPT ![c] = Tail(@)]
      PROVE  LogInv'
  <2>1. \A p \in Partitions : logEnd[p] <= logEnd'[p] /\ logEnd'[p] \in Int
    BY <1>4, Offsets
  <2> QED
    BY <1>4, <2>1, LogStays
<1>5. ASSUME NEW c \in Consumers, consumerStart(c) \/ Expel(c)
      PROVE  LogInv'
  BY <1>4, <1>5 DEF consumerStart, Expel, InHand, Latched, Outstanding
<1>6. ASSUME NEW c \in Consumers, onPartitionsRevoked(c) \/ finishBatch(c)
      PROVE  LogInv'
  <2>1. commitOffsets(c) /\ UNCHANGED <<brokerVars, position, unsubmitted, queued, finished>>
    BY <1>6 DEF onPartitionsRevoked, finishBatch
  <2>2. \A d \in Consumers : InHand(d)' \subseteq InHand(d)
    BY <2>1 DEF commitOffsets, InHand, Latched, Outstanding, TypeOK
  <2> QED
    BY <1>4, <2>1, <2>2
<1>7. ASSUME NEW c \in Consumers, onPartitionsAssigned(c)
      PROVE  LogInv'
  <2>1. /\ UNCHANGED <<brokerVars, batchVars, commits>>
        /\ \A d \in Consumers : d # c => position'[d] = position[d]
        /\ \A p \in Partitions : position'[c][p] = IF committed[p] = NoOffset THEN 0 ELSE committed[p]
    BY <1>7 DEF onPartitionsAssigned, TypeOK
  <2>2. \A p \in Partitions : 0 <= logEnd[p]
    BY CapacityAssumption DEF TypeOK
  <2>3. \A d \in Consumers : \A p \in Partitions : position'[d][p] <= logEnd'[p]
    BY <2>1, <2>2 DEF LogInv
  <2> QED
    BY <2>1, <2>3 DEF LogInv, InHand, InLog, Latched, Outstanding
<1>8. ASSUME NEW c \in Consumers, poll(c)
      PROVE  LogInv'
  <2>1. PICK upTo \in [Partitions -> 0 .. LogSize] :
          /\ \A p \in Partitions : upTo[p] <= IF p \in assigned[c] THEN logEnd[p] ELSE position[c][p]
          /\ unsubmitted' = [unsubmitted EXCEPT ![c] =
                {r \in Records : /\ r.partition \in assigned[c]
                                 /\ position[c][r.partition] <= r.offset
                                 /\ r.offset < upTo[r.partition]}]
          /\ position' = [position EXCEPT ![c] = upTo]
    BY <1>8 DEF poll
  <2>2. UNCHANGED <<brokerVars, queued, finished, acks, commits>>
    BY <1>8 DEF poll
  <2>3. \A p \in Partitions : upTo[p] \in Int /\ upTo[p] <= logEnd[p]
    BY <2>1, Offsets DEF LogInv
  <2>4. \A d \in Consumers : \A p \in Partitions : position'[d][p] <= logEnd'[p]
    BY <2>1, <2>2, <2>3 DEF LogInv, TypeOK
  <2>5. ASSUME NEW d \in Consumers, NEW r \in InHand(d)'
        PROVE  InLog(r)'
    <3>1. CASE r \in InHand(d)
      BY <2>2, <3>1 DEF LogInv, InLog
    <3>2. CASE d = c /\ r \in Records /\ r.offset < upTo[r.partition]
      BY <2>2, <2>3, <3>2, Offsets DEF InLog
    <3> QED
      BY <2>1, <2>2, <3>1, <3>2 DEF InHand, Latched, Outstanding, TypeOK
  <2> QED
    BY <2>2, <2>4, <2>5 DEF LogInv, InLog
<1>9. ASSUME NEW c \in Consumers, execute(c)
      PROVE  LogInv'
  <2>1. PICK r \in unsubmitted[c] : /\ unsubmitted' = [unsubmitted EXCEPT ![c] = @ \ {r}]
                                    /\ queued' = [queued EXCEPT ![c] = @ \cup {r}]
    BY <1>9 DEF execute
  <2>2. UNCHANGED <<brokerVars, position, finished, acks, commits>>
    BY <1>9 DEF execute
  <2>3. \A d \in Consumers : InHand(d)' \subseteq InHand(d)
    BY <2>1, <2>2 DEF InHand, Latched, Outstanding, TypeOK
  <2> QED
    BY <1>4, <2>2, <2>3
<1>10. ASSUME NEW c \in Consumers, submitBatchRecords(c)
       PROVE  LogInv'
  <2>1. \A d \in Consumers : InHand(d)' \subseteq InHand(d)
    BY <1>10 DEF submitBatchRecords, InHand, Latched, Outstanding, TypeOK
  <2> QED
    BY <1>4, <1>10, <2>1 DEF submitBatchRecords
<1>11. ASSUME NEW c \in Consumers, onMessage(c)
       PROVE  LogInv'
  <2>1. PICK r \in queued[c] : /\ queued' = [queued EXCEPT ![c] = @ \ {r}]
                               /\ finished' = [finished EXCEPT ![c] = @ \cup {r}]
    BY <1>11 DEF onMessage
  <2>2. UNCHANGED <<logEnd, committed, position, unsubmitted, acks, commits>>
    BY <1>11 DEF onMessage
  <2>3. \A d \in Consumers : InHand(d)' \subseteq InHand(d)
    BY <2>1, <2>2 DEF InHand, Latched, Outstanding, TypeOK
  <2> QED
    BY <1>4, <2>2, <2>3
<1>12. ASSUME NEW c \in Consumers, offerAck(c)
       PROVE  LogInv'
  <2>1. PICK r \in finished[c] :
          \/ /\ acks' = [acks EXCEPT ![c] = @ \cup {r}]
             /\ finished' = [finished EXCEPT ![c] = @ \ {r}]
             /\ commits' = commits
          \/ commitOffsets(c) /\ finished' = finished
    BY <1>12 DEF offerAck
  <2>2. UNCHANGED <<brokerVars, position, unsubmitted, queued>>
    BY <1>12 DEF offerAck
  <2>3. /\ unsubmitted'= unsubmitted /\ queued' = queued
        /\ \A d \in Consumers : finished'[d] \cup acks'[d] \subseteq finished[d] \cup acks[d]
    <3>1. CASE commitOffsets(c) /\ finished' = finished
      BY <2>2, <3>1 DEF commitOffsets, TypeOK
    <3>2. CASE /\ acks' = [acks EXCEPT ![c] = @ \cup {r}]
               /\ finished' = [finished EXCEPT ![c] = @ \ {r}]
      BY <2>2, <3>2 DEF TypeOK
    <3> QED
      BY <2>1, <3>1, <3>2
  <2>4. \A d \in Consumers : InHand(d)' \subseteq InHand(d)
    BY <2>3 DEF InHand, Latched, Outstanding
  <2> QED
    BY <1>4, <2>1, <2>2, <2>4
<1>13. ASSUME NEW c \in Consumers, CompleteCommit(c)
       PROVE  LogInv'
  <2>1. /\ UNCHANGED <<logEnd, position, batchVars>>
        /\ commits[c] # <<>> /\ commits' = [commits EXCEPT ![c] = Tail(@)]
    BY <1>13 DEF CompleteCommit
  <2>2. ASSUME NEW p \in Partitions
        PROVE  committed'[p] <= logEnd'[p]
    <3>1. CASE committed'[p] = committed[p]
      BY <2>1, <3>1 DEF LogInv
    <3>2. CASE committed'[p] # committed[p]
      <4>1. addOffset(p, Head(commits[c]), committed[p], committed'[p])
        BY <1>13, <3>2 DEF CompleteCommit
      <4>2. PICK r \in Head(commits[c]) : r.partition = p /\ committed'[p] = r.offset + 1
        BY <3>2, <4>1, CommitOfRequest
      <4>3. 1 \in 1 .. Len(commits[c]) /\ Head(commits[c]) = commits[c][1]
        BY <2>1 DEF TypeOK
      <4>4. InLog(r) /\ r.offset \in Int /\ logEnd[p] \in Int
        BY <4>2, <4>3, Offsets DEF LogInv
      <4> QED
        BY <2>1, <4>2, <4>4 DEF InLog
    <3> QED
      BY <3>1, <3>2
  <2>3. ASSUME NEW d \in Consumers, NEW i \in 1 .. Len(commits'[d]), NEW r \in commits'[d][i]
        PROVE  InLog(r)'
    BY <2>1, AfterAnswer DEF LogInv, InLog
  <2> QED
    BY <2>1, <2>2, <2>3 DEF LogInv, InHand, InLog, Latched, Outstanding
<1>14. ASSUME NEW c \in Consumers, FailCommit(c)
       PROVE  LogInv'
  BY <1>4, <1>14 DEF FailCommit, InHand, Latched, Outstanding
<1>15. ASSUME NEW c \in Consumers, Crash(c) \/ consumerShutdown(c)
       PROVE  LogInv'
  <2>1. Forget(c)
    BY <1>15 DEF Crash, consumerShutdown
  <2>2. \A d \in Consumers : InHand(d)' \subseteq InHand(d)
    BY <2>1 DEF Forget, InHand, Latched, Outstanding, TypeOK
  <2> QED
    BY <1>4, <2>1, <2>2 DEF Forget
<1>16. ASSUME NEW c \in Consumers, pollNothing(c)
       PROVE  LogInv'
  BY <1>1, <1>16 DEF pollNothing
<1> QED
  BY <1>1, <1>2, <1>3, <1>5, <1>6, <1>7, <1>8, <1>9, <1>10, <1>11, <1>12, <1>13, <1>14, <1>15,
     <1>16 DEF Next, Step

\* What a step appends to the wire of c is its own as far as it is a member.
LEMMA RequestsOwned ==
  ASSUME TypeOK, GroupInv, BatchRead, NEW c \in Consumers, UNCHANGED <<members, owner>>,
         \/ commits' = commits
         \/ commitOffsets(c)
         \/ commits[c] # <<>> /\ commits' = [commits EXCEPT ![c] = Tail(@)]
  PROVE  \A d \in members' : \A i \in 1 .. Len(commits'[d]) : \A r \in commits'[d][i] :
            owner'[r.partition] = d
<1> SUFFICES ASSUME NEW d \in members, NEW i \in 1 .. Len(commits'[d]), NEW r \in commits'[d][i]
             PROVE  owner[r.partition] = d
  OBVIOUS
<1>1. d \in Consumers
  BY DEF TypeOK
<1>2. \A k \in 1 .. Len(commits[d]) : \A s \in commits[d][k] : owner[s.partition] = d
  BY DEF GroupInv
<1>3. CASE commits'[d] = commits[d]
  BY <1>2, <1>3
<1>4. CASE commitOffsets(c) /\ commits'[d] # commits[d]
  <2>1. /\ d = c /\ Len(commits'[d]) = Len(commits[d]) + 1 /\ Len(commits[d]) \in Nat
        /\ \A k \in 1 .. Len(commits[d]) : commits'[d][k] = commits[d][k]
        /\ commits'[d][Len(commits[d]) + 1] = acks[c]
    BY <1>1, <1>4, AfterCommitOffsets
  <2>2. \A s \in acks[d] : owner[s.partition] = d
    BY <1>1 DEF BatchRead, GroupInv
  <2>3. CASE i \in 1 .. Len(commits[d])
    BY <1>2, <2>1, <2>3
  <2>4. CASE i = Len(commits[d]) + 1
    BY <2>1, <2>2, <2>4
  <2> QED
    BY <2>1, <2>3, <2>4
<1>5. CASE commits[c] # <<>> /\ commits' = [commits EXCEPT ![c] = Tail(@)]
  BY <1>1, <1>2, <1>3, <1>5, AfterAnswer
<1> QED
  BY <1>3, <1>4, <1>5

\* The clause of GroupInv about what is on the wire, when nobody joins and what is on the
\* wire only grows while a batch is in hand.
LEMMA FreshStays ==
  ASSUME TypeOK, GroupInv, NEW c \in Consumers, members' \subseteq members,
         joined \subseteq joined',
         \A d \in Consumers : d # c => commits'[d] = commits[d] /\ pc'[d] = pc[d],
         \/ pc'[c] # "joining" \/ c \in joined'
         \/ pc[c] = "joining" /\ (commits[c] = <<>> => commits'[c] = <<>>)
  PROVE  \A d \in members' \ joined' : pc'[d] = "joining" => commits'[d] = <<>>
BY DEF GroupInv, TypeOK

LEMMA GroupInvInvariance ==
  ASSUME TypeOK, TypeOK', CommitInv, GroupInv, [Next]_vars
  PROVE  GroupInv'
<1> USE DEF brokerVars, groupVars, batchVars, faultVars
<1>a. NoStaleAcks /\ BatchRead
  BY DEF CommitInv
<1>1. CASE UNCHANGED <<groupVars, pc, assigned, commits>>
  BY <1>1 DEF GroupInv
<1>2. CASE CompleteRebalance
  <2>1. /\ UNCHANGED <<pc, assigned>> /\ members' = joined /\ joined' = {}
        /\ commits' = [c \in Consumers |-> <<>>]
    BY <1>2 DEF CompleteRebalance
  <2>2. \A c \in Consumers : commits'[c] = <<>> /\ Len(commits'[c]) = 0
    BY <2>1
  <2>3. \A c \in joined : assigned[c] = {} /\ c \in Consumers
    BY DEF GroupInv, TypeOK
  <2> QED
    BY <2>1, <2>2, <2>3 DEF GroupInv
<1>3. ASSUME NEW c \in Consumers, onPartitionsRevoked(c)
      PROVE  GroupInv'
  <2>1. /\ commitOffsets(c) /\ pc' = [pc EXCEPT ![c] = "joining"]
        /\ assigned' = [assigned EXCEPT ![c] = {}] /\ joined' = joined \cup {c}
        /\ UNCHANGED <<members, owner>>
    BY <1>3 DEF onPartitionsRevoked
  <2>2. \A d \in members' : \A i \in 1 .. Len(commits'[d]) : \A r \in commits'[d][i] :
            owner'[r.partition] = d
    BY <1>a, <2>1, RequestsOwned
  <2>3. commits' = commits
    BY <1>3, <1>a, <2>1 DEF onPartitionsRevoked, NoStaleAcks, commitOffsets
  <2>4. \A d \in members' \ joined' : pc'[d] = "joining" => commits'[d] = <<>>
    BY <2>1, <2>3, FreshStays DEF TypeOK
  <2> QED
    BY <2>1, <2>2, <2>4 DEF GroupInv, TypeOK
<1>4. ASSUME NEW c \in Consumers, onPartitionsAssigned(c)
      PROVE  GroupInv'
  <2>1. /\ pc' = [pc EXCEPT ![c] = "poll"] /\ c \notin joined
        /\ assigned' = [assigned EXCEPT ![c] = {p \in Partitions : owner[p] = c}]
        /\ UNCHANGED <<groupVars, commits>>
    BY <1>4 DEF onPartitionsAssigned
  <2> QED
    BY <2>1 DEF GroupInv, TypeOK
<1>5. ASSUME NEW c \in Consumers, poll(c) \/ consumerStart(c)
      PROVE  GroupInv'
  <2>1. /\ UNCHANGED <<groupVars, commits, assigned>>
        /\ \/ pc[c] = "poll" /\ pc' = [pc EXCEPT ![c] = "batch"]
           \/ pc[c] = "down" /\ pc' = [pc EXCEPT ![c] = "start"]
    BY <1>5 DEF poll, consumerStart
  <2>2. \A d \in Consumers : d # c => pc'[d] = pc[d]
    BY <2>1 DEF TypeOK
  <2>3. \/ pc'[c] = "batch" /\ pc[c] = "poll"
        \/ pc'[c] = "start" /\ pc[c] = "down"
    BY <2>1 DEF TypeOK
  <2>4. c \in joined => pc'[c] = "start"
    BY <2>3 DEF GroupInv
  <2>5. \A d \in Consumers : pc'[d] \notin {"poll", "batch"} => assigned'[d] = {}
    BY <2>1, <2>2, <2>3 DEF GroupInv
  <2>6. \A d \in joined' : pc'[d] \in {"down", "start", "joining"}
    BY <2>1, <2>2, <2>4 DEF GroupInv, TypeOK
  <2>7. \A d \in members' \ joined' : pc'[d] = "joining" => commits'[d] = <<>>
    BY <2>1, <2>2, <2>3, FreshStays
  <2>8. \A d \in members' : /\ \A p \in assigned'[d] : owner'[p] = d
                           /\ \A i \in 1 .. Len(commits'[d]) : \A r \in commits'[d][i] :
                                owner'[r.partition] = d
    BY <2>1 DEF GroupInv
  <2> QED
    BY <2>5, <2>6, <2>7, <2>8 DEF GroupInv
<1>6. ASSUME NEW c \in Consumers, finishBatch(c)
      PROVE  GroupInv'
  <2>1. /\ commitOffsets(c) /\ pc[c] = "batch" /\ pc' = [pc EXCEPT ![c] = "poll"]
        /\ UNCHANGED <<groupVars, assigned>>
    BY <1>6 DEF finishBatch
  <2>2. \A d \in members' : \A i \in 1 .. Len(commits'[d]) : \A r \in commits'[d][i] :
            owner'[r.partition] = d
    BY <1>a, <2>1, RequestsOwned
  <2>3. \A d \in members' \ joined' : pc'[d] = "joining" => commits'[d] = <<>>
    BY <2>1, FreshStays DEF TypeOK, commitOffsets
  <2> QED
    BY <2>1, <2>2, <2>3 DEF GroupInv, TypeOK
<1>7. ASSUME NEW c \in Consumers, offerAck(c)
      PROVE  GroupInv'
  <2>1. /\ (commits' = commits \/ commitOffsets(c)) /\ finished[c] # {}
        /\ UNCHANGED <<groupVars, pc, assigned>>
    BY <1>7 DEF offerAck
  <2>2. \A d \in members' : \A i \in 1 .. Len(commits'[d]) : \A r \in commits'[d][i] :
            owner'[r.partition] = d
    BY <1>a, <2>1, RequestsOwned
  <2>3. pc[c] = "batch"
    BY <1>a, <2>1 DEF NoStaleAcks, Latched
  <2>4. \A d \in members' \ joined' : pc'[d] = "joining" => commits'[d] = <<>>
    BY <2>1, <2>3, FreshStays DEF TypeOK, commitOffsets
  <2> QED
    BY <2>1, <2>2, <2>4 DEF GroupInv
<1>8. ASSUME NEW c \in Consumers, CompleteCommit(c) \/ FailCommit(c)
      PROVE  GroupInv'
  <2>1. /\ commits[c] # <<>> /\ commits' = [commits EXCEPT ![c] = Tail(@)]
        /\ UNCHANGED <<groupVars, pc, assigned>>
    BY <1>8 DEF CompleteCommit, FailCommit
  <2>2. \A d \in members' : \A i \in 1 .. Len(commits'[d]) : \A r \in commits'[d][i] :
            owner'[r.partition] = d
    BY <1>a, <2>1, RequestsOwned
  <2>3. \A d \in members' \ joined' : pc'[d] = "joining" => commits'[d] = <<>>
    BY <2>1, FreshStays DEF TypeOK
  <2> QED
    BY <2>1, <2>2, <2>3 DEF GroupInv
<1>9. ASSUME NEW c \in Consumers, Expel(c)
      PROVE  GroupInv'
  <2>1. members' = members \ {c} /\ UNCHANGED <<joined, owner, pc, assigned, commits>>
    BY <1>9 DEF Expel
  <2> QED
    BY <2>1 DEF GroupInv
<1>10. ASSUME NEW c \in Consumers, Crash(c) \/ consumerShutdown(c)
       PROVE  GroupInv'
  <2>1. /\ pc' = [pc EXCEPT ![c] = "down"] /\ assigned' = [assigned EXCEPT ![c] = {}]
        /\ members' \subseteq members /\ joined' = joined /\ UNCHANGED <<owner, commits>>
    BY <1>10 DEF Crash, consumerShutdown, Forget
  <2> QED
    BY <2>1 DEF GroupInv, TypeOK
<1>11. CASE \E p \in Partitions : Produce(p)
  BY <1>1, <1>11 DEF Produce
<1>12. ASSUME NEW c \in Consumers,
              pollNothing(c) \/ execute(c) \/ submitBatchRecords(c) \/ onMessage(c)
       PROVE  GroupInv'
  BY <1>1, <1>12 DEF pollNothing, execute, submitBatchRecords, onMessage, vars
<1>13. CASE UNCHANGED vars
  BY <1>1, <1>13 DEF vars
<1> QED
  BY <1>2, <1>3, <1>4, <1>5, <1>6, <1>7, <1>8, <1>9, <1>10, <1>11, <1>12, <1>13 DEF Next, Step

\* Neither the committed offsets nor the wire of c change, and its batch gets no larger.
LEMMA AheadStays ==
  ASSUME NEW c \in Consumers, Ahead(c), committed' = committed, position'[c] = position[c],
         commits'[c] = commits[c], assigned'[c] \subseteq assigned[c],
         InHand(c)' \subseteq InHand(c)
  PROVE  Ahead(c)'
BY DEF Ahead, Below

\* A commit covers acknowledgements below all that is still in hand.
LEMMA AheadAfterCommit ==
  ASSUME TypeOK, BatchRead, NEW c \in Consumers, Ahead(c), commitOffsets(c),
         committed' = committed, position'[c] = position[c], assigned'[c] = assigned[c],
         InHand(c)' \subseteq InHand(c), \A a \in acks[c], s \in InHand(c)' : Below(a, s)
  PROVE  Ahead(c)'
<1> DEFINE n == Len(commits[c])
<1>1. CASE commits'[c] = commits[c]
  BY <1>1, AheadStays
<1>2. CASE commits'[c] # commits[c]
  <2>1. /\ Len(commits'[c]) = n + 1 /\ n \in Nat
        /\ \A i \in 1 .. n : commits'[c][i] = commits[c][i]
        /\ commits'[c][n + 1] = acks[c]
    BY <1>2, AfterCommitOffsets
  <2> HIDE DEF n
  <2>2. ASSUME NEW r \in acks[c]
        PROVE  /\ committed[r.partition] <= r.offset
               /\ r.offset < position[c][r.partition]
    BY DEF Ahead, InHand, BatchRead
  <2>3. ASSUME NEW i \in 1 .. n + 1, NEW r \in commits'[c][i]
        PROVE  /\ committed'[r.partition] <= r.offset
               /\ r.partition \in assigned'[c] => r.offset < position'[c][r.partition]
               /\ \A s \in InHand(c)' : Below(r, s)
    <3>1. CASE i \in 1 .. n
      BY <2>1, <2>3, <3>1 DEF Ahead, n
    <3>2. CASE i = n + 1
      BY <2>1, <2>2, <2>3, <3>2
    <3> QED
      BY <2>1, <3>1, <3>2
  <2>4. ASSUME NEW i \in 1 .. n + 1, NEW j \in 1 .. n + 1, i < j,
               NEW r \in commits'[c][i], NEW s \in commits'[c][j]
        PROVE  Below(r, s)
    <3>1. i \in 1 .. n /\ r \in commits[c][i]
      BY <2>1, <2>4
    <3>2. CASE j \in 1 .. n
      BY <2>1, <2>4, <3>1, <3>2 DEF Ahead, n
    <3>3. CASE j = n + 1
      <4>1. s \in InHand(c)
        BY <2>1, <2>4, <3>3 DEF InHand
      <4> QED
        BY <3>1, <4>1 DEF Ahead, n
    <3> QED
      BY <2>1, <3>2, <3>3
  <2>5. /\ \A p \in assigned'[c] : committed'[p] <= position'[c][p]
        /\ \A r \in InHand(c)' : committed'[r.partition] <= r.offset
    BY DEF Ahead
  <2>6. \A i \in 1 .. Len(commits'[c]) : \A r \in commits'[c][i] :
          /\ committed'[r.partition] <= r.offset
          /\ r.partition \in assigned'[c] => r.offset < position'[c][r.partition]
          /\ \A s \in InHand(c)' : Below(r, s)
          /\ \A j \in 1 .. Len(commits'[c]) : i < j => \A s \in commits'[c][j] : Below(r, s)
    BY <2>1, <2>3, <2>4
  <2> QED
    BY <2>5, <2>6 DEF Ahead, Below
<1> QED
  BY <1>1, <1>2

\* The oldest request is answered, and what was committed of it lies below everything else.
LEMMA AheadAfterAnswer ==
  ASSUME TypeOK, BatchRead, NEW c \in Consumers, Ahead(c), commits[c] # <<>>,
         commits' = [commits EXCEPT ![c] = Tail(@)],
         position' = position, assigned' = assigned, InHand(c)' = InHand(c),
         \A p \in Partitions : \/ committed'[p] = committed[p]
                               \/ \E r \in commits[c][1] : r.partition = p /\ committed'[p] = r.offset + 1
  PROVE  Ahead(c)'
<1>1. /\ 1 \in 1 .. Len(commits[c])
      /\ \A i \in 1 .. Len(commits'[c]) : /\ i + 1 \in 1 .. Len(commits[c]) /\ 1 < i + 1
                                         /\ commits'[c][i] = commits[c][i + 1]
  BY AfterAnswer DEF TypeOK
<1>2. ASSUME NEW s \in Records, committed[s.partition] <= s.offset,
             \A r \in commits[c][1] : Below(r, s)
      PROVE  committed'[s.partition] <= s.offset
  <2>1. s.partition \in Partitions /\ s.offset \in Int
    BY Offsets
  <2>2. CASE committed'[s.partition] = committed[s.partition]
    BY <1>2, <2>2
  <2>3. ASSUME NEW r \in commits[c][1], r.partition = s.partition,
               committed'[s.partition] = r.offset + 1
        PROVE  committed'[s.partition] <= s.offset
    <3>a. r \in Records
      BY <1>1, Offsets
    <3>1. r.offset < s.offset /\ r.offset \in Int
      BY <1>2, <2>3, <3>a, Offsets DEF Below
    <3> QED
      BY <2>1, <2>3, <3>1
  <2> QED
    BY <2>1, <2>2, <2>3
<1>3. ASSUME NEW p \in assigned[c]
      PROVE  committed'[p] <= position[c][p]
  <2>1. p \in Partitions /\ position[c][p] \in Int /\ committed[p] <= position[c][p]
    BY Offsets DEF TypeOK, Ahead
  <2>2. ASSUME NEW r \in commits[c][1], r.partition = p, committed'[p] = r.offset + 1
        PROVE  committed'[p] <= position[c][p]
    <3>a. r \in Records
      BY <1>1, Offsets
    <3>b. r.offset \in Int
      BY <3>a, Offsets
    <3>c. r.partition \in assigned[c] => r.offset < position[c][r.partition]
      BY <1>1 DEF Ahead
    <3>1. r.offset < position[c][p] /\ r.offset \in Int
      BY <2>2, <3>b, <3>c
    <3> QED
      BY <2>1, <2>2, <3>1
  <2> QED
    BY <2>1, <2>2
<1>4. ASSUME NEW r \in InHand(c)
      PROVE  committed'[r.partition] <= r.offset
  BY <1>1, <1>2, Offsets DEF Ahead
<1>5. ASSUME NEW i \in 1 .. Len(commits'[c]), NEW r \in commits'[c][i]
      PROVE  /\ committed'[r.partition] <= r.offset
             /\ r.partition \in assigned[c] => r.offset < position[c][r.partition]
             /\ \A s \in InHand(c) : Below(r, s)
             /\ \A j \in 1 .. Len(commits'[c]) : i < j => \A s \in commits'[c][j] : Below(r, s)
  <2>1. i + 1 \in 1 .. Len(commits[c]) /\ 1 < i + 1 /\ r \in commits[c][i + 1]
    BY <1>1
  <2>2. committed'[r.partition] <= r.offset
    BY <1>1, <1>2, <2>1, Offsets DEF Ahead
  <2>3. ASSUME NEW j \in 1 .. Len(commits'[c]), i < j, NEW s \in commits'[c][j]
        PROVE  Below(r, s)
    <3>a. j + 1 \in 1 .. Len(commits[c]) /\ s \in commits[c][j + 1]
      BY <1>1, <2>3
    <3>b. i + 1 < j + 1
      BY <2>3
    <3>1. j + 1 \in 1 .. Len(commits[c]) /\ i + 1 < j + 1 /\ s \in commits[c][j + 1]
      BY <3>a, <3>b
    <3>2. \A k \in 1 .. Len(commits[c]) : i + 1 < k => \A t \in commits[c][k] : Below(r, t)
      BY <2>1 DEF Ahead
    <3> QED
      BY <3>1, <3>2
  <2> QED
    BY <2>1, <2>2, <2>3 DEF Ahead
<1>6. ASSUME NEW i \in 1 .. Len(commits'[c]), NEW r \in commits'[c][i]
      PROVE  /\ committed'[r.partition] <= r.offset
             /\ r.partition \in assigned'[c] => r.offset < position'[c][r.partition]
             /\ \A s \in InHand(c)' : Below(r, s)
             /\ \A j \in 1 .. Len(commits'[c]) : i < j => \A s \in commits'[c][j] : Below(r, s)
  <2>1. /\ committed'[r.partition] <= r.offset
        /\ r.partition \in assigned[c] => r.offset < position[c][r.partition]
        /\ \A s \in InHand(c) : Below(r, s)
    BY <1>5
  <2>2. \A j \in 1 .. Len(commits'[c]) : i < j => \A s \in commits'[c][j] : Below(r, s)
    BY <1>5
  <2>3. /\ r.partition \in assigned'[c] => r.offset < position'[c][r.partition]
        /\ \A s \in InHand(c)' : Below(r, s)
    BY <2>1
  <2> QED
    BY <2>1, <2>2, <2>3
<1>7. \A i \in 1 .. Len(commits'[c]) : \A r \in commits'[c][i] :
        /\ committed'[r.partition] <= r.offset
        /\ r.partition \in assigned'[c] => r.offset < position'[c][r.partition]
        /\ \A s \in InHand(c)' : Below(r, s)
        /\ \A j \in 1 .. Len(commits'[c]) : i < j => \A s \in commits'[c][j] : Below(r, s)
  BY <1>6
<1> QED
  BY <1>3, <1>4, <1>7 DEF Ahead, Below

LEMMA RiseInvInit == Init => GroupInv /\ RiseInv
<1> SUFFICES ASSUME Init PROVE GroupInv /\ RiseInv
  OBVIOUS
<1>1. members = {} /\ joined = {} /\ \A c \in Consumers : assigned[c] = {} /\ acks[c] = {}
  BY DEF Init
<1> QED
  BY <1>1 DEF GroupInv, RiseInv, AcksBelow

LEMMA AcksBelowInvariance ==
  ASSUME TypeOK, CommitInv, AcksBelow, [Next]_vars
  PROVE  AcksBelow'
<1> USE DEF brokerVars, groupVars, batchVars, faultVars
<1>1. ASSUME \A d \in Consumers : acks'[d] \subseteq acks[d] /\ finished'[d] \subseteq finished[d]
      PROVE  AcksBelow'
  BY <1>1 DEF AcksBelow, Below
<1>2. ASSUME NEW c \in Consumers, commitOffsets(c), finished' = finished
      PROVE  AcksBelow'
  BY <1>1, <1>2 DEF commitOffsets, TypeOK
<1>3. CASE UNCHANGED <<acks, finished>>
  BY <1>1, <1>3
<1>4. ASSUME NEW c \in Consumers, onMessage(c)
      PROVE  AcksBelow'
  <2>1. ~BatchListener
    BY <1>4 DEF onMessage, CommitInv, BatchTogether
  <2> QED
    BY <2>1 DEF AcksBelow
<1>5. ASSUME NEW c \in Consumers, submitBatchRecords(c)
      PROVE  AcksBelow'
  <2>1. BatchListener /\ unsubmitted[c] # {} /\ acks' = acks
        /\ finished' = [finished EXCEPT ![c] = unsubmitted[c]]
    BY <1>5 DEF submitBatchRecords
  <2>2. acks[c] = {}
    BY <2>1 DEF CommitInv, BatchTogether
  <2>3. \A d \in Consumers : d # c => finished'[d] = finished[d]
    BY <2>1 DEF TypeOK
  <2> QED
    BY <2>1, <2>2, <2>3 DEF AcksBelow, Below
<1>6. ASSUME NEW c \in Consumers, offerAck(c)
      PROVE  AcksBelow'
  <2>1. PICK r \in finished[c] :
          /\ BatchListener => First(r, finished[c])
          /\ \/ /\ acks' = [acks EXCEPT ![c] = @ \cup {r}]
                /\ finished' = [finished EXCEPT ![c] = @ \ {r}]
             \/ commitOffsets(c) /\ finished' = finished
    BY <1>6 DEF offerAck
  <2>2. CASE commitOffsets(c) /\ finished' = finished
    BY <1>2, <2>2
  <2>3. CASE /\ acks' = [acks EXCEPT ![c] = @ \cup {r}]
             /\ finished' = [finished EXCEPT ![c] = @ \ {r}]
    <3>1. /\ acks'[c] = acks[c] \cup {r} /\ finished'[c] = finished[c] \ {r}
          /\ \A d \in Consumers : d # c => acks'[d] = acks[d] /\ finished'[d] = finished[d]
      BY <2>3 DEF TypeOK
    <3>2. ASSUME BatchListener, NEW f \in finished[c] \ {r}
          PROVE  Below(r, f)
      <4>1. r \in Records /\ f \in Records /\ r # f
        BY DEF TypeOK
      <4>2. r.partition = f.partition => r.offset # f.offset
        BY <4>1 DEF Records
      <4>3. r.offset \in Int /\ f.offset \in Int
        BY <4>1, CapacityAssumption DEF Records
      <4> QED
        BY <2>1, <3>2, <4>2, <4>3 DEF First, Below
    <3> QED
      BY <3>1, <3>2 DEF AcksBelow, Below
  <2> QED
    BY <2>1, <2>2, <2>3
<1>7. ASSUME NEW c \in Consumers, onPartitionsRevoked(c) \/ finishBatch(c)
      PROVE  AcksBelow'
  BY <1>2, <1>7 DEF onPartitionsRevoked, finishBatch
<1>8. ASSUME NEW c \in Consumers, Crash(c) \/ consumerShutdown(c)
      PROVE  AcksBelow'
  BY <1>1, <1>8 DEF Crash, consumerShutdown, Forget, TypeOK
<1>9. CASE CompleteRebalance \/ \E p \in Partitions : Produce(p)
  BY <1>3, <1>9 DEF CompleteRebalance, Produce
<1>10. ASSUME NEW c \in Consumers,
              \/ consumerStart(c) \/ onPartitionsAssigned(c) \/ poll(c) \/ pollNothing(c)
              \/ execute(c) \/ CompleteCommit(c) \/ FailCommit(c) \/ Expel(c)
       PROVE  AcksBelow'
  BY <1>3, <1>10 DEF consumerStart, onPartitionsAssigned, poll, pollNothing, execute,
     CompleteCommit, FailCommit, Expel, vars
<1> QED
  BY <1>3, <1>4, <1>5, <1>6, <1>7, <1>8, <1>9, <1>10 DEF Next, Step, vars

\* A partition that is not c's, whose committed offset moves, is nothing c has to do with.
LEMMA AheadElsewhere ==
  ASSUME TypeOK, GroupInv, BatchRead, NEW c \in members, Ahead(c), position' = position,
         assigned' = assigned, commits'[c] = commits[c], InHand(c)' = InHand(c),
         \A p \in Partitions : owner[p] = c => committed'[p] = committed[p]
  PROVE  Ahead(c)'
<1>1. c \in Consumers
  BY DEF TypeOK
<1>2. \A p \in assigned[c] : committed'[p] = committed[p]
  BY <1>1 DEF TypeOK, GroupInv
<1>3. \A r \in InHand(c) : committed'[r.partition] = committed[r.partition]
  BY <1>1, <1>2 DEF BatchRead, InHand
<1>4. ASSUME NEW i \in 1 .. Len(commits[c]), NEW r \in commits[c][i]
      PROVE  committed'[r.partition] = committed[r.partition]
  <2>1. r.partition \in Partitions /\ owner[r.partition] = c
    BY <1>1, Offsets DEF GroupInv
  <2> QED
    BY <2>1
<1> QED
  BY <1>2, <1>3, <1>4 DEF Ahead, Below

\* A member reads on: the new batch lies between the old position and the new one.
LEMMA AheadAfterPoll ==
  ASSUME TypeOK, TypeOK', NoStaleAcks, NEW c \in Consumers, Ahead(c), poll(c)
  PROVE  Ahead(c)'
<1>1. PICK upTo \in [Partitions -> 0 .. LogSize] :
        /\ \A p \in Partitions : position[c][p] <= upTo[p]
        /\ unsubmitted' = [unsubmitted EXCEPT ![c] =
              {r \in Records : /\ r.partition \in assigned[c]
                               /\ position[c][r.partition] <= r.offset
                               /\ r.offset < upTo[r.partition]}]
        /\ position' = [position EXCEPT ![c] = upTo]
  BY DEF poll
<1>2. UNCHANGED <<committed, assigned, queued, finished, acks, commits>>
  BY DEF poll, brokerVars
<1>3. /\ position'[c] = upTo
      /\ \A p \in Partitions : /\ committed[p] \in Int /\ position[c][p] \in Int
                               /\ upTo[p] \in Int /\ position[c][p] <= upTo[p]
  BY <1>1, Offsets DEF TypeOK
<1>4. assigned[c] \subseteq Partitions
  BY DEF TypeOK
<1>5. InHand(c) = {}
  BY DEF poll, NoStaleAcks, InHand
<1>6. \A s \in InHand(c)' : /\ s \in Records /\ s.partition \in assigned[c]
                            /\ position[c][s.partition] <= s.offset
  BY <1>1, <1>2, <1>5 DEF InHand, Latched, Outstanding, TypeOK
<1>7. \A p \in assigned'[c] : committed'[p] <= position'[c][p]
  BY <1>2, <1>3, <1>4 DEF Ahead
<1>8. ASSUME NEW s \in InHand(c)'
      PROVE  committed'[s.partition] <= s.offset
  <2>1. s.offset \in Int /\ s.partition \in Partitions /\ s.partition \in assigned[c]
        /\ position[c][s.partition] <= s.offset
    BY <1>6, Offsets
  <2>2. committed[s.partition] <= position[c][s.partition]
    BY <2>1 DEF Ahead
  <2> QED
    BY <1>2, <1>3, <2>1, <2>2
<1>9. ASSUME NEW i \in 1 .. Len(commits[c]), NEW r \in commits[c][i]
      PROVE  /\ r.partition \in assigned'[c] => r.offset < position'[c][r.partition]
             /\ \A s \in InHand(c)' : Below(r, s)
  <2>1. r.offset \in Int /\ r.partition \in Partitions
        /\ (r.partition \in assigned[c] => r.offset < position[c][r.partition])
    BY Offsets DEF Ahead
  <2>2. r.partition \in assigned'[c] => r.offset < position'[c][r.partition]
    BY <1>2, <1>3, <2>1
  <2>3. ASSUME NEW s \in InHand(c)', r.partition = s.partition
        PROVE  r.offset < s.offset
    <3>1. s.offset \in Int /\ s.partition \in assigned[c] /\ position[c][s.partition] <= s.offset
      BY <1>6, Offsets
    <3> QED
      BY <1>3, <2>1, <2>3, <3>1
  <2> QED
    BY <2>2, <2>3 DEF Below
<1>10. ASSUME NEW i \in 1 .. Len(commits'[c]), NEW r \in commits'[c][i]
       PROVE  /\ committed'[r.partition] <= r.offset
              /\ r.partition \in assigned'[c] => r.offset < position'[c][r.partition]
              /\ \A s \in InHand(c)' : Below(r, s)
              /\ \A j \in 1 .. Len(commits'[c]) : i < j => \A s \in commits'[c][j] : Below(r, s)
  <2>1. i \in 1 .. Len(commits[c]) /\ r \in commits[c][i]
    BY <1>2
  <2>2. committed[r.partition] <= r.offset
        /\ \A j \in 1 .. Len(commits[c]) : i < j => \A s \in commits[c][j] : Below(r, s)
    BY <2>1 DEF Ahead
  <2> QED
    BY <1>2, <1>9, <2>1, <2>2
<1> QED
  BY <1>7, <1>8, <1>10 DEF Ahead, Below

LEMMA RiseInvInvariance ==
  ASSUME NoOverflow, TypeOK, TypeOK', CommitInv, GroupInv, RiseInv, [Next]_vars
  PROVE  RiseInv'
<1> USE DEF brokerVars, groupVars, batchVars, faultVars
<1>a. NoStaleAcks /\ BatchRead /\ BatchDisjoint /\ BatchFits /\ BatchTogether
  BY DEF CommitInv
<1>b. (\A c \in members : c \in Consumers /\ Ahead(c)) /\ AcksBelow
  BY DEF RiseInv, TypeOK
<1>c. AcksBelow'
  BY <1>b, AcksBelowInvariance
\* c alone did something, and it is still ahead if it was
<1>d. ASSUME NEW c \in Consumers, committed' = committed, members' \subseteq members,
             c \in members' => Ahead(c)',
             \A d \in Consumers : d # c => /\ position'[d] = position[d] /\ commits'[d] = commits[d]
                                           /\ assigned'[d] = assigned[d] /\ InHand(d)' = InHand(d)
      PROVE  RiseInv'
  <2>1. \A d \in members' : Ahead(d)'
    BY <1>b, <1>d, AheadStays
  <2> QED
    BY <1>c, <2>1 DEF RiseInv
<1>1. ASSUME UNCHANGED <<committed, position, commits, assigned, batchVars>>,
             members' \subseteq members
      PROVE  RiseInv'
  <2>1. \A d \in members' : Ahead(d)'
    BY <1>b, <1>1, AheadStays DEF InHand, Latched, Outstanding
  <2> QED
    BY <1>c, <2>1 DEF RiseInv
<1>2. CASE CompleteRebalance
  <2>1. /\ UNCHANGED <<brokerVars, pc, assigned, position, batchVars>> /\ members' = joined
        /\ commits' = [c \in Consumers |-> <<>>]
    BY <1>2 DEF CompleteRebalance
  <2>2. ASSUME NEW c \in joined
        PROVE  Ahead(c)'
    <3>1. c \in Consumers /\ pc[c] # "batch" /\ assigned[c] = {}
      BY DEF GroupInv, TypeOK
    <3>2. InHand(c)' = {} /\ assigned'[c] = {} /\ Len(commits'[c]) = 0
      BY <1>a, <2>1, <3>1 DEF NoStaleAcks, InHand, Latched, Outstanding
    <3> QED
      BY <3>2 DEF Ahead
  <2> QED
    BY <1>c, <2>1, <2>2 DEF RiseInv
<1>3. ASSUME NEW c \in Consumers, onPartitionsRevoked(c)
      PROVE  RiseInv'
  <2>1. /\ commitOffsets(c) /\ assigned' = [assigned EXCEPT ![c] = {}] /\ pc[c] # "batch"
        /\ UNCHANGED <<committed, members, position, unsubmitted, queued, finished>>
    BY <1>3 DEF onPartitionsRevoked
  <2>2. acks[c] = {}
    BY <1>a, <2>1 DEF NoStaleAcks
  <2>3. commits' = commits /\ acks' = acks
    BY <2>1, <2>2 DEF commitOffsets, TypeOK
  <2>4. /\ \A d \in Consumers : InHand(d)' = InHand(d) /\ assigned'[d] \subseteq assigned[d]
        /\ \A d \in Consumers : d # c => assigned'[d] = assigned[d]
    BY <2>1, <2>3 DEF InHand, Latched, Outstanding, TypeOK
  <2>5. c \in members' => Ahead(c)'
    BY <1>b, <2>1, <2>3, <2>4, AheadStays
  <2> QED
    BY <1>d, <2>1, <2>3, <2>4, <2>5
<1>4. ASSUME NEW c \in Consumers, onPartitionsAssigned(c)
      PROVE  RiseInv'
  <2>1. /\ UNCHANGED <<brokerVars, groupVars, batchVars, commits>>
        /\ pc[c] = "joining" /\ c \in members \ joined
        /\ \A d \in Consumers : d # c => position'[d] = position[d] /\ assigned'[d] = assigned[d]
        /\ assigned'[c] \subseteq Partitions
        /\ position'[c] = [p \in Partitions |-> IF committed[p] = NoOffset THEN 0 ELSE committed[p]]
    BY <1>4 DEF onPartitionsAssigned, TypeOK
  <2>2. \A d \in Consumers : InHand(d)' = InHand(d)
    BY <2>1 DEF InHand, Latched, Outstanding
  <2>3. commits'[c] = <<>> /\ Len(commits'[c]) = 0
    BY <2>1 DEF GroupInv
  <2>4. InHand(c) = {}
    BY <1>a, <2>1 DEF NoStaleAcks, InHand
  <2>5. \A p \in Partitions : committed'[p] <= position'[c][p]
    BY <2>1, Offsets DEF NoOffset
  <2>6. Ahead(c)'
    BY <2>1, <2>2, <2>3, <2>4, <2>5 DEF Ahead
  <2> QED
    BY <1>d, <2>1, <2>2, <2>6
<1>5. ASSUME NEW c \in Consumers, poll(c)
      PROVE  RiseInv'
  <2>1. c \in members' => Ahead(c)'
    BY <1>a, <1>b, <1>5, AheadAfterPoll DEF poll
  <2>2. /\ UNCHANGED <<committed, members, commits, assigned>>
        /\ \A d \in Consumers : d # c => position'[d] = position[d] /\ InHand(d)' = InHand(d)
    BY <1>5 DEF poll, InHand, Latched, Outstanding, TypeOK
  <2> QED
    BY <1>d, <2>1, <2>2
<1>6. ASSUME NEW c \in Consumers, execute(c) \/ onMessage(c) \/ submitBatchRecords(c)
      PROVE  RiseInv'
  <2>1. UNCHANGED <<committed, position, commits, assigned, members, acks>>
    BY <1>6 DEF execute, onMessage, submitBatchRecords
  <2>2. \A d \in Consumers : Latched(d)' = Latched(d)
    <3>1. CASE execute(c)
      <4>1. finished' = finished /\
            \E r \in unsubmitted[c] : /\ unsubmitted' = [unsubmitted EXCEPT ![c] = @ \ {r}]
                                      /\ queued' = [queued EXCEPT ![c] = @ \cup {r}]
        BY <3>1 DEF execute
      <4> QED
        BY <4>1 DEF Latched, Outstanding, TypeOK
    <3>2. CASE onMessage(c)
      <4>1. unsubmitted' = unsubmitted /\
            \E r \in queued[c] : /\ queued' = [queued EXCEPT ![c] = @ \ {r}]
                                 /\ finished' = [finished EXCEPT ![c] = @ \cup {r}]
        BY <3>2 DEF onMessage
      <4> QED
        BY <4>1 DEF Latched, Outstanding, TypeOK
    <3>3. CASE submitBatchRecords(c)
      <4>1. /\ unsubmitted' = [unsubmitted EXCEPT ![c] = {}] /\ queued' = queued
            /\ finished' = [finished EXCEPT ![c] = unsubmitted[c]]
            /\ BatchListener /\ unsubmitted[c] # {}
        BY <3>3 DEF submitBatchRecords
      <4>2. finished[c] = {}
        BY <1>a, <4>1 DEF BatchTogether
      <4> QED
        BY <4>1, <4>2 DEF Latched, Outstanding, TypeOK
    <3> QED
      BY <1>6, <3>1, <3>2, <3>3
  <2>3. \A d \in Consumers : InHand(d)' = InHand(d)
    BY <2>1, <2>2 DEF InHand
  <2>4. c \in members' => Ahead(c)'
    BY <1>b, <2>1, <2>3, AheadStays
  <2> QED
    BY <1>d, <2>1, <2>3, <2>4
<1>7. ASSUME NEW c \in Consumers, finishBatch(c)
      PROVE  RiseInv'
  <2>1. /\ commitOffsets(c) /\ Latched(c) = {}
        /\ UNCHANGED <<committed, members, assigned, position, unsubmitted, queued, finished>>
    BY <1>7 DEF finishBatch
  <2>2. /\ InHand(c)' = {}
        /\ \A d \in Consumers : d # c => commits'[d] = commits[d] /\ InHand(d)' = InHand(d)
    BY <2>1 DEF commitOffsets, InHand, Latched, Outstanding, TypeOK
  <2>3. c \in members' => Ahead(c)'
    BY <1>a, <1>b, <2>1, <2>2, AheadAfterCommit
  <2> QED
    BY <1>d, <2>1, <2>2, <2>3
<1>8. ASSUME NEW c \in Consumers, offerAck(c)
      PROVE  RiseInv'
  <2>1. UNCHANGED <<committed, members, assigned, position, unsubmitted, queued>>
    BY <1>8 DEF offerAck
  <2>2. CASE \E r \in finished[c] : /\ acks' = [acks EXCEPT ![c] = @ \cup {r}]
                                    /\ finished' = [finished EXCEPT ![c] = @ \ {r}]
                                    /\ commits' = commits
    <3>1. \A d \in Consumers : InHand(d)' = InHand(d)
      <4>1. PICK r \in finished[c] : /\ acks' = [acks EXCEPT ![c] = @ \cup {r}]
                                     /\ finished' = [finished EXCEPT ![c] = @ \ {r}]
        BY <2>2
      <4>2. \A d \in Consumers : finished'[d] \cup acks'[d] = finished[d] \cup acks[d]
        BY <4>1 DEF TypeOK
      <4> QED
        BY <2>1, <4>2 DEF InHand, Latched, Outstanding
    <3>2. c \in members' => Ahead(c)'
      BY <1>b, <2>1, <2>2, <3>1, AheadStays
    <3> QED
      BY <1>d, <2>1, <2>2, <3>1, <3>2
  <2>3. CASE ~(\E r \in finished[c] : /\ acks' = [acks EXCEPT ![c] = @ \cup {r}]
                                      /\ finished' = [finished EXCEPT ![c] = @ \ {r}]
                                      /\ commits' = commits)
    <3>1. /\ commitOffsets(c) /\ finished' = finished
          /\ \E r \in finished[c] : ~(Cardinality(acks[c]) < AckCapacity)
      BY <1>8, <2>3 DEF offerAck
    <3>2. BatchListener
      BY <1>a, <3>1, AcksHaveRoom
    <3>3. /\ InHand(c)' = Latched(c)
          /\ \A d \in Consumers : d # c => commits'[d] = commits[d] /\ InHand(d)' = InHand(d)
      BY <2>1, <3>1 DEF commitOffsets, InHand, Latched, Outstanding, TypeOK
    <3>4. Latched(c) = finished[c]
      BY <1>a, <3>1, <3>2 DEF BatchTogether, Latched, Outstanding
    <3>5. \A a \in acks[c], s \in InHand(c)' : Below(a, s)
      BY <1>b, <3>2, <3>3, <3>4 DEF AcksBelow
    <3>6. InHand(c)' \subseteq InHand(c)
      BY <3>3 DEF InHand
    <3>7. c \in members' => Ahead(c)'
      BY <1>a, <1>b, <2>1, <3>1, <3>5, <3>6, AheadAfterCommit
    <3> QED
      BY <1>d, <2>1, <3>3, <3>7
  <2> QED
    BY <2>2, <2>3
<1>9. ASSUME NEW c \in Consumers, CompleteCommit(c) \/ FailCommit(c)
      PROVE  RiseInv'
  <2>1. /\ commits[c] # <<>> /\ commits' = [commits EXCEPT ![c] = Tail(@)]
        /\ UNCHANGED <<members, owner, assigned, position, batchVars>>
    BY <1>9 DEF CompleteCommit, FailCommit
  <2>2. 1 \in 1 .. Len(commits[c]) /\ Head(commits[c]) = commits[c][1]
    BY <2>1 DEF TypeOK
  <2>3. ASSUME NEW p \in Partitions, committed'[p] # committed[p]
        PROVE  c \in members /\ \E r \in commits[c][1] : r.partition = p /\ committed'[p] = r.offset + 1
    <3>1. c \in members /\ addOffset(p, commits[c][1], committed[p], committed'[p])
      BY <1>9, <2>2, <2>3 DEF CompleteCommit, FailCommit
    <3> QED
      BY <2>3, <3>1, CommitOfRequest
  <2>4. \A d \in Consumers : InHand(d)' = InHand(d)
    BY <2>1 DEF InHand, Latched, Outstanding
  <2>5. c \in members => Ahead(c)'
    BY <1>a, <1>b, <2>1, <2>3, <2>4, AheadAfterAnswer
  <2>6. ASSUME NEW d \in members, d # c
        PROVE  Ahead(d)'
    <3>1. commits'[d] = commits[d] /\ d \in Consumers
      BY <1>b, <2>1, <2>6, AfterAnswer
    <3>2. ASSUME NEW p \in Partitions, owner[p] = d
          PROVE  committed'[p] = committed[p]
      BY <2>2, <2>3, <2>6, <3>2 DEF GroupInv
    <3> QED
      BY <1>a, <1>b, <2>1, <2>4, <3>1, <3>2, AheadElsewhere
  <2> QED
    BY <1>c, <2>1, <2>5, <2>6 DEF RiseInv
<1>10. ASSUME NEW c \in Consumers, Crash(c) \/ consumerShutdown(c)
       PROVE  RiseInv'
  <2>1. Forget(c) /\ members' \subseteq members
    BY <1>10 DEF Crash, consumerShutdown
  <2>2. /\ UNCHANGED <<committed, position, commits>>
        /\ \A d \in Consumers : InHand(d)' \subseteq InHand(d) /\ assigned'[d] \subseteq assigned[d]
        /\ \A d \in Consumers : d # c => InHand(d)' = InHand(d) /\ assigned'[d] = assigned[d]
    BY <2>1 DEF Forget, InHand, Latched, Outstanding, TypeOK
  <2>3. c \in members' => Ahead(c)'
    BY <1>b, <2>1, <2>2, AheadStays
  <2> QED
    BY <1>d, <2>1, <2>2, <2>3
<1>11. CASE \E p \in Partitions : Produce(p)
  BY <1>1, <1>11 DEF Produce
<1>12. ASSUME NEW c \in Consumers, consumerStart(c) \/ pollNothing(c) \/ Expel(c)
       PROVE  RiseInv'
  BY <1>1, <1>12 DEF consumerStart, pollNothing, Expel, vars
<1>13. CASE UNCHANGED vars
  BY <1>1, <1>13 DEF vars
<1> QED
  BY <1>2, <1>3, <1>4, <1>5, <1>6, <1>7, <1>8, <1>9, <1>10, <1>11, <1>12, <1>13 DEF Next, Step

\* Every step of the group is a step of the promise, or none.
LEMMA StepImplementsPromise ==
  ASSUME TypeOK, TypeOK', LogInv, CommitInv, CommitInv', RiseInv, [Next]_vars
  PROVE  [Promise!Next]_(Promise!promiseVars)
<1> USE DEF brokerVars, groupVars, batchVars, faultVars
<1> DEFINE resume == [p \in Partitions |-> IF committed[p] = NoOffset THEN 0 ELSE committed[p]]
<1>a. ASSUME committed' = committed
      PROVE  resume' = resume
  BY <1>a
<1>1. CASE UNCHANGED <<logEnd, handled, committed>>
  BY <1>1 DEF Promise!promiseVars
<1>2. ASSUME NEW p \in Partitions, Produce(p)
      PROVE  Promise!Next
  <2>1. Promise!Append(p)
    BY <1>2, <1>a DEF Produce, Promise!Append
  <2> QED
    BY <2>1 DEF Promise!Next
<1>3. ASSUME NEW new \in SUBSET Records, \A r \in new : InLog(r), handled' = handled \cup new,
             UNCHANGED <<logEnd, committed>>
      PROVE  Promise!Next
  <2>1. new \in SUBSET {Promise!Record(p, o) : p \in Partitions, o \in 0 .. LogSize - 1}
    <3>1. ASSUME NEW r \in new
          PROVE  \E p \in Partitions, o \in 0 .. LogSize - 1 : r = Promise!Record(p, o)
      <4>1. r \in Records
        OBVIOUS
      <4>2. r = [partition |-> r.partition, offset |-> r.offset]
        BY <4>1 DEF Records
      <4>3. r.partition \in Partitions /\ r.offset \in 0 .. LogSize - 1
        BY <4>1 DEF Records
      <4> QED
        BY <4>2, <4>3 DEF Promise!Record
    <3> QED
      BY <3>1
  <2>2. Promise!Deliver
    BY <2>1, <1>3, <1>a DEF Promise!Deliver, InLog
  <2> QED
    BY <2>2 DEF Promise!Next
<1>4. ASSUME NEW c \in Consumers, onMessage(c)
      PROVE  Promise!Next
  <2>1. UNCHANGED <<logEnd, committed>>
    BY <1>4 DEF onMessage
  <2>2. PICK r \in queued[c] : handled' = handled \cup {r}
    BY <1>4 DEF onMessage
  <2>3. r \in Records /\ InLog(r)
    BY DEF TypeOK, LogInv, InHand, Latched, Outstanding
  <2>4. {r} \in SUBSET Records /\ \A s \in {r} : InLog(s)
    BY <2>3
  <2> QED
    BY <1>3, <2>1, <2>2, <2>4
<1>5. ASSUME NEW c \in Consumers, submitBatchRecords(c)
      PROVE  Promise!Next
  <2>1. UNCHANGED <<logEnd, committed>> /\ handled' = handled \cup unsubmitted[c]
    BY <1>5 DEF submitBatchRecords
  <2>2. unsubmitted[c] \in SUBSET Records /\ \A r \in unsubmitted[c] : InLog(r)
    BY DEF TypeOK, LogInv, InHand, Latched, Outstanding
  <2> QED
    BY <1>3, <2>1, <2>2
<1>6. ASSUME NEW c \in Consumers, CompleteCommit(c)
      PROVE  Promise!Next
  <2>1. commits[c] # <<>> /\ UNCHANGED <<logEnd, handled>>
    BY <1>6 DEF CompleteCommit
  <2>2. 1 \in 1 .. Len(commits[c]) /\ Head(commits[c]) = commits[c][1]
    BY <2>1 DEF TypeOK
  <2>3. ASSUME NEW p \in Partitions
        PROVE  committed[p] <= committed'[p]
    <3>1. CASE committed'[p] = committed[p]
      BY <3>1, Offsets
    <3>2. CASE committed'[p] # committed[p]
      <4>1. c \in members /\ addOffset(p, commits[c][1], committed[p], committed'[p])
        BY <1>6, <2>2, <3>2 DEF CompleteCommit
      <4>2. PICK r \in commits[c][1] : r.partition = p /\ committed'[p] = r.offset + 1
        BY <3>2, <4>1, CommitOfRequest
      <4>3. committed[p] <= r.offset /\ r.offset \in Int /\ committed[p] \in Int
        BY <2>2, <4>1, <4>2, Offsets DEF RiseInv, Ahead
      <4> QED
        BY <4>2, <4>3
    <3> QED
      BY <3>1, <3>2
  <2>4. \A p \in Partitions : committed[p] \in {NoOffset} \cup 0 .. LogSize
                              /\ committed'[p] \in {NoOffset} \cup 0 .. LogSize
    BY DEF TypeOK
  <2>5. resume' \in [Partitions -> 0 .. LogSize] /\ \A p \in Partitions : resume'[p] >= resume[p]
    BY <2>3, <2>4, CapacityAssumption DEF NoOffset
  <2>6. ASSUME NEW p \in Partitions, NEW o \in 0 .. resume'[p] - 1
        PROVE  Promise!Record(p, o) \in handled
    <3>1. o \in 0 .. LogSize - 1 /\ o < committed'[p]
      BY <2>4, <2>6, CapacityAssumption DEF NoOffset
    <3> QED
      BY <2>1, <3>1 DEF CommitInv, CommitSafe, Record, Promise!Record
  <2>7. Promise!Commit
    BY <2>1, <2>5, <2>6 DEF Promise!Commit
  <2> QED
    BY <2>7 DEF Promise!Next
<1>7. ASSUME NEW c \in Consumers,
             \/ consumerStart(c) \/ onPartitionsRevoked(c) \/ onPartitionsAssigned(c) \/ poll(c)
             \/ pollNothing(c) \/ execute(c) \/ finishBatch(c) \/ offerAck(c) \/ FailCommit(c)
             \/ Expel(c) \/ Crash(c) \/ consumerShutdown(c)
      PROVE  UNCHANGED <<logEnd, handled, committed>>
  BY <1>7 DEF consumerStart, onPartitionsRevoked, onPartitionsAssigned, poll, pollNothing, execute,
     finishBatch, offerAck, FailCommit, Expel, Crash, consumerShutdown, Forget, vars
<1>8. CASE CompleteRebalance
  BY <1>1, <1>8 DEF CompleteRebalance
<1>9. CASE UNCHANGED vars
  BY <1>1, <1>9 DEF vars
<1> QED
  BY <1>1, <1>2, <1>4, <1>5, <1>6, <1>7, <1>8, <1>9 DEF Next, Step

\* Under the condition of CommitSafety the group implements AtLeastOnce: what is handed over
\* is in the log, and the offset a new owner resumes at only moves forward, over records that
\* were handed over, whatever is expelled, rebalanced, lost or committed in mid-batch.
THEOREM GroupImplementsPromise ==
  ASSUME NoOverflow
  PROVE  Spec => ImplementsPromise
<1> DEFINE Inv == TypeOK /\ CommitInv /\ LogInv /\ GroupInv /\ RiseInv
<1>1. Init => Inv
  BY TypeInit, CommitInvInit, LogInvInit, RiseInvInit
<1>2. Inv /\ [Next]_vars => Inv'
  BY TypeInvariance, CommitInvInvariance, LogInvInvariance, GroupInvInvariance, RiseInvInvariance
<1>3. Init => Promise!Init
  BY DEF Init, Promise!Init
<1>4. Inv /\ Inv' /\ [Next]_vars => [Promise!Next]_(Promise!promiseVars)
  BY StepImplementsPromise
<1> QED
  BY <1>1, <1>2, <1>3, <1>4, PTL DEF Spec, ImplementsPromise, Promise!Safety
=============================================================================
