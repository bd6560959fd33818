--------------------------- MODULE KafkaConsumer ---------------------------
(***************************************************************************)
(* The Kafka consumer of the ZMS client (KafkaConsumerProxy): a group of   *)
(* proxies, one per process, that share the partitions of the bound topic. *)
(* Each proxy has one poll thread, which polls a batch, gives its records  *)
(* to pool threads, waits on a latch until each of them was acknowledged   *)
(* and commits the highest acknowledged offset of each partition; the      *)
(* listener's result plays no part in the acknowledgement.                 *)
(*                                                                         *)
(* The broker (log, committed offsets, group coordinator with generations) *)
(* is external and modelled from how the proxy uses it.  Processes crash   *)
(* and restart, members are expelled while they handle a batch, commits    *)
(* are asynchronous, may fail, and are rejected from an old generation.    *)
(*                                                                         *)
(* Only one incarnation of a proxy is followed here; what a restart inside *)
(* the process leaves behind is the subject of ConsumerRestart.            *)
(***************************************************************************)
EXTENDS Integers, Sequences, FiniteSets

CONSTANTS
  Consumers,      \* processes that subscribe to the consumer group
  NoConsumer,     \* owner of a partition before the first rebalance
  Partitions,     \* partitions of the bound topic
  Executors,      \* the single-thread pools (orderly), or the one shared pool
  ExecutorOf,     \* partition -> the executor partition % executors.size() picks
  Threads,        \* threads of an executor: 1 when orderly, threadsNumMax otherwise
  QueueCapacity,  \* of an executor's ArrayBlockingQueue: 1000, or 10000
  MaxPoll,        \* max.poll.records
  AckCapacity,    \* of the acks queue: 100000
  BatchListener,  \* TRUE iff the listener is a KafkaBatchMsgListener
  LogSize,        \* bound: records producers append to one partition
  MaxFaults,      \* bound: crashes, poll errors and expulsions of live members
  MaxCommitFailures, \* bound: asynchronous commits that fail although the member is current
  MaxInFlight     \* bound: commit requests of one member on the wire

ASSUME CapacityAssumption ==
  /\ MaxPoll \in Nat \ {0}
  /\ AckCapacity \in Nat \ {0}
  /\ QueueCapacity \in Nat
  /\ Threads \in Nat \ {0}
  /\ LogSize \in Nat
ASSUME BoundAssumption ==
  /\ MaxFaults \in Nat
  /\ MaxCommitFailures \in Nat
  /\ MaxInFlight \in Nat
ASSUME RoleAssumption ==
  /\ NoConsumer \notin Consumers
  /\ IsFiniteSet(Partitions)
  /\ ExecutorOf \in [Partitions -> Executors]
  /\ BatchListener \in BOOLEAN

Record(p, o) == [partition |-> p, offset |-> o]
Records == [partition : Partitions, offset : 0 .. LogSize - 1]
NoOffset == -1          \* consumer.committed(partition) == null

VARIABLES
  \* the broker
  logEnd,         \* logEnd[p]: number of records in p
  committed,      \* the group's committed offset of p
  handled,        \* records some listener has been given (history)
  members,        \* members of the current generation
  joined,         \* members whose JoinGroup request waits for the rebalance to end
  rebalancing,    \* TRUE while the coordinator prepares a new generation
  owner,          \* partition -> member, in the current generation
  \* each proxy
  pc,             \* where its poll thread is
  assigned,       \* partitions its consumer believes it owns
  position,       \* fetch position of each assigned partition
  unsubmitted,    \* records of the polled batch not given to an executor yet
  queued,         \* records in the executors' queues
  finished,       \* the listener has returned, acks.offer has not succeeded yet
  acks,           \* the acks queue
  commits,        \* commitAsync requests on the wire, oldest first
  \* budgets
  faults, commitFailures

brokerVars == <<logEnd, committed, handled>>
groupVars  == <<members, joined, rebalancing, owner>>
batchVars  == <<unsubmitted, queued, finished, acks>>
faultVars  == <<faults, commitFailures>>
vars == <<brokerVars, groupVars, pc, assigned, position, batchVars, commits, faultVars>>

\* Records of the batch whose listener call is still to come.
Outstanding(c) == unsubmitted[c] \cup queued[c]
\* The records the latch still counts.
Latched(c) == Outstanding(c) \cup finished[c]

OffsetsOf(p, s) == {r.offset : r \in {q \in s : q.partition = p}}
First(r, s) == \A q \in s : q.partition = r.partition => r.offset <= q.offset

TypeOK ==
  /\ logEnd \in [Partitions -> 0 .. LogSize]
  /\ committed \in [Partitions -> {NoOffset} \cup 0 .. LogSize]
  /\ handled \subseteq Records
  /\ members \subseteq Consumers
  /\ joined \subseteq Consumers
  /\ rebalancing \in BOOLEAN
  /\ owner \in [Partitions -> Consumers \cup {NoConsumer}]
  /\ pc \in [Consumers -> {"down", "start", "joining", "poll", "batch"}]
  /\ assigned \in [Consumers -> SUBSET Partitions]
  /\ position \in [Consumers -> [Partitions -> 0 .. LogSize]]
  /\ unsubmitted \in [Consumers -> SUBSET Records]
  /\ queued \in [Consumers -> SUBSET Records]
  /\ finished \in [Consumers -> SUBSET Records]
  /\ acks \in [Consumers -> SUBSET Records]
  /\ commits \in [Consumers -> Seq(SUBSET Records)]
  /\ faults \in Nat
  /\ commitFailures \in Nat

Init ==
  /\ logEnd = [p \in Partitions |-> 0]
  /\ committed = [p \in Partitions |-> NoOffset]
  /\ handled = {}
  /\ members = {} /\ joined = {} /\ rebalancing = FALSE
  /\ owner = [p \in Partitions |-> NoConsumer]
  /\ pc = [c \in Consumers |-> "down"]
  /\ assigned = [c \in Consumers |-> {}]
  /\ position = [c \in Consumers |-> [p \in Partitions |-> 0]]
  /\ unsubmitted = [c \in Consumers |-> {}]
  /\ queued = [c \in Consumers |-> {}]
  /\ finished = [c \in Consumers |-> {}]
  /\ acks = [c \in Consumers |-> {}]
  /\ commits = [c \in Consumers |-> <<>>]
  /\ faults = 0 /\ commitFailures = 0

-----------------------------------------------------------------------------
\* Mutant: handleAcks looks at the acks instead of taking them out.
commitOffsets_Peek(c) ==
  /\ acks' = acks
  /\ commits' = IF acks[c] = {} THEN commits
                ELSE [commits EXCEPT ![c] = Append(@, acks[c])]

(***************************************************************************)
(* commitOffsets, synchronized: handleAcks drains the acks queue into the  *)
(* highest offset of each partition, buildCommits turns those into a       *)
(* request and forgets them, commitAsync sends the request.  A request is  *)
(* represented by the records it was built from.                           *)
(***************************************************************************)
commitOffsets(c) ==
  /\ acks' = [acks EXCEPT ![c] = {}]
  /\ commits' = IF acks[c] = {} THEN commits
                ELSE [commits EXCEPT ![c] = Append(@, acks[c])]

\* What a request built from the records of req makes of p's committed offset.
addOffset(p, req, old, new) ==
  IF OffsetsOf(p, req) = {} THEN new = old
  ELSE \E o \in OffsetsOf(p, req) : /\ \A other \in OffsetsOf(p, req) : other <= o
                                    /\ new = o + 1

-----------------------------------------------------------------------------
(* The broker *)

Produce(p) ==
  /\ logEnd[p] < LogSize
  /\ logEnd' = [logEnd EXCEPT ![p] = @ + 1]
  /\ UNCHANGED <<committed, handled, groupVars, pc, assigned, position, batchVars,
                 commits, faultVars>>

\* The coordinator answers the oldest commit: a member of the current generation
\* is obeyed; anybody else is told ILLEGAL_GENERATION, which
\* LoggingCommitCallback logs.
CompleteCommit(c) ==
  /\ commits[c] # <<>>
  /\ commits' = [commits EXCEPT ![c] = Tail(@)]
  /\ IF c \in members
     THEN /\ committed' \in [Partitions -> {NoOffset} \cup 0 .. LogSize]
          /\ \A p \in Partitions :
               addOffset(p, Head(commits[c]), committed[p], committed'[p])
     ELSE committed' = committed
  /\ UNCHANGED <<logEnd, handled, groupVars, pc, assigned, position, batchVars, faultVars>>

\* A commit is lost or refused for another reason; commitAsync does not retry it
\* and LoggingCommitCallback only logs the exception.
FailCommit(c) ==
  /\ commits[c] # <<>>
  /\ commitFailures < MaxCommitFailures
  /\ commitFailures' = commitFailures + 1
  /\ commits' = [commits EXCEPT ![c] = Tail(@)]
  /\ UNCHANGED <<brokerVars, groupVars, pc, assigned, position, batchVars, faults>>

\* Every member of the old generation has rejoined or was expelled: the next
\* generation owns the partitions, and what the old one has on the wire is void.
CompleteRebalance ==
  /\ rebalancing
  /\ joined # {}
  /\ members \subseteq joined
  /\ members' = joined
  /\ joined' = {}
  /\ rebalancing' = FALSE
  /\ owner' \in [Partitions -> joined]
  /\ commits' = [c \in Consumers |-> <<>>]
  /\ UNCHANGED <<brokerVars, pc, assigned, position, batchVars, faultVars>>

\* session.timeout.ms of a dead member, or max.poll.interval.ms of one whose
\* poll thread waits on the latch of a slow batch.
Expel(c) ==
  /\ c \in members \ joined
  /\ \/ pc[c] \in {"down", "start"} /\ faults' = faults
     \/ pc[c] \in {"poll", "joining", "batch"} /\ faults < MaxFaults /\ faults' = faults + 1
  /\ members' = members \ {c}
  /\ rebalancing' = TRUE
  /\ UNCHANGED <<brokerVars, joined, owner, pc, assigned, position, batchVars, commits,
                 commitFailures>>

-----------------------------------------------------------------------------
(* The poll thread *)

\* consumerStart and register: a KafkaConsumer that subscribes to the topic and
\* a poll thread that has not polled yet.
consumerStart(c) ==
  /\ pc[c] = "down"
  /\ pc' = [pc EXCEPT ![c] = "start"]
  /\ UNCHANGED <<brokerVars, groupVars, assigned, position, batchVars, commits, faultVars>>

\* A poll that finds itself outside the current generation gives its partitions
\* up (onPartitionsRevoked, which commits) and asks to join the next one.
onPartitionsRevoked(c) ==
  /\ \/ pc[c] = "start"
     \/ pc[c] = "poll" /\ (c \notin members \/ rebalancing)
     \/ pc[c] = "joining" /\ c \notin members \cup joined
  /\ commitOffsets(c)
  /\ pc' = [pc EXCEPT ![c] = "joining"]
  /\ assigned' = [assigned EXCEPT ![c] = {}]
  /\ joined' = joined \cup {c}
  /\ rebalancing' = TRUE
  /\ UNCHANGED <<brokerVars, members, owner, position, unsubmitted, queued, finished,
                 faultVars>>

\* Mutant: the offset of a partition nobody committed is used without the null check.
onPartitionsAssigned_NoNullCheck(c) ==
  /\ pc[c] = "joining"
  /\ c \in members \ joined
  /\ pc' = [pc EXCEPT ![c] = "poll"]
  /\ assigned' = [assigned EXCEPT ![c] = {p \in Partitions : owner[p] = c}]
  /\ position' = [position EXCEPT ![c] = committed]
  /\ UNCHANGED <<brokerVars, groupVars, batchVars, commits, faultVars>>

\* Mutant: every assigned partition is sought to 0, the committed ones too.
onPartitionsAssigned_AlwaysSeek(c) ==
  /\ pc[c] = "joining"
  /\ c \in members \ joined
  /\ pc' = [pc EXCEPT ![c] = "poll"]
  /\ assigned' = [assigned EXCEPT ![c] = {p \in Partitions : owner[p] = c}]
  /\ position' = [position EXCEPT ![c] = [p \in Partitions |-> 0]]
  /\ UNCHANGED <<brokerVars, groupVars, batchVars, commits, faultVars>>

\* The new generation's partitions are read from the committed offset on.  A
\* partition without one is read from 0: EARLIEST by auto.offset.reset, LATEST by
\* the listener's seek(partition, 0).
onPartitionsAssigned(c) ==
  /\ pc[c] = "joining"
  /\ c \in members \ joined
  /\ pc' = [pc EXCEPT ![c] = "poll"]
  /\ assigned' = [assigned EXCEPT ![c] = {p \in Partitions : owner[p] = c}]
  /\ position' = [position EXCEPT ![c] = [p \in Partitions |->
                    IF committed[p] = NoOffset THEN 0 ELSE committed[p]]]
  /\ UNCHANGED <<brokerVars, groupVars, batchVars, commits, faultVars>>

\* poll returns a batch: from each assigned partition the records at its position,
\* at most MaxPoll of them together.  submitRecords sets the latch to their number.
\* (A member that was expelled may not know it yet and still return records.)
poll(c) ==
  /\ pc[c] = "poll"
  /\ \E upTo \in [Partitions -> 0 .. LogSize] :
       LET batch == {r \in Records : /\ r.partition \in assigned[c]
                                     /\ position[c][r.partition] <= r.offset
                                     /\ r.offset < upTo[r.partition]}
       IN /\ \A p \in Partitions : /\ position[c][p] <= upTo[p]
                                   /\ upTo[p] <= IF p \in assigned[c] THEN logEnd[p]
                                                                      ELSE position[c][p]
          /\ batch # {}
          /\ Cardinality(batch) <= MaxPoll
          /\ unsubmitted' = [unsubmitted EXCEPT ![c] = batch]
          /\ position' = [position EXCEPT ![c] = upTo]
  /\ pc' = [pc EXCEPT ![c] = "batch"]
  /\ UNCHANGED <<brokerVars, groupVars, assigned, queued, finished, acks, commits, faultVars>>

\* poll times out with no records: there is nothing to submit and nothing to commit.
pollNothing(c) ==
  /\ pc[c] = "poll"
  /\ c \in members
  /\ ~rebalancing
  /\ acks[c] = {}
  /\ UNCHANGED vars

\* Mutant: a record the executor rejects is skipped instead of submitted again.
execute_DropRejected(c) ==
  /\ pc[c] = "batch"
  /\ ~BatchListener
  /\ \E r \in unsubmitted[c] :
       /\ First(r, unsubmitted[c])
       /\ unsubmitted' = [unsubmitted EXCEPT ![c] = @ \ {r}]
       /\ queued' = IF Cardinality(queued[c] \cup finished[c]) < QueueCapacity + Threads
                    THEN [queued EXCEPT ![c] = @ \cup {r}] ELSE queued
  /\ UNCHANGED <<brokerVars, groupVars, pc, assigned, position, finished, acks, commits,
                 faultVars>>

\* executor.execute(task): accepted by a free thread or the queue, otherwise
\* rejected and tried again 50 ms later.
execute(c) ==
  /\ pc[c] = "batch"
  /\ ~BatchListener
  /\ \E r \in unsubmitted[c] :
       LET mine(s) == {q \in s : ExecutorOf[q.partition] = ExecutorOf[r.partition]}
       IN /\ First(r, unsubmitted[c])
          /\ Cardinality(mine(queued[c] \cup finished[c])) < QueueCapacity + Threads
          /\ unsubmitted' = [unsubmitted EXCEPT ![c] = @ \ {r}]
          /\ queued' = [queued EXCEPT ![c] = @ \cup {r}]
  /\ UNCHANGED <<brokerVars, groupVars, pc, assigned, position, finished, acks, commits,
                 faultVars>>

\* Mutant: the poll thread does not wait for the latch.
finishBatch_NoAwait(c) ==
  /\ pc[c] = "batch"
  /\ unsubmitted[c] = {}
  /\ Len(commits[c]) < MaxInFlight
  /\ commitOffsets(c)
  /\ pc' = [pc EXCEPT ![c] = "poll"]
  /\ UNCHANGED <<brokerVars, groupVars, assigned, position, unsubmitted, queued, finished,
                 faultVars>>

\* Mutant: the poll loop leaves the commit to the next rebalance.
finishBatch_NoCommit(c) ==
  /\ pc[c] = "batch"
  /\ Latched(c) = {}
  /\ pc' = [pc EXCEPT ![c] = "poll"]
  /\ UNCHANGED <<brokerVars, groupVars, assigned, position, batchVars, commits, faultVars>>

\* The last poll's batch is acknowledged: commitOffsets, and back to poll.  Only
\* the poll thread gets here, when the latch (or the batch listener) lets it.
finishBatch(c) ==
  /\ pc[c] = "batch"
  /\ Latched(c) = {}
  /\ Len(commits[c]) < MaxInFlight
  /\ commitOffsets(c)
  /\ pc' = [pc EXCEPT ![c] = "poll"]
  /\ UNCHANGED <<brokerVars, groupVars, assigned, position, unsubmitted, queued, finished,
                 faultVars>>

-----------------------------------------------------------------------------
(* The listener and the acknowledgements *)

\* Mutant: an orderly consumer's executors have several threads.
onMessage_ManyThreads(c) ==
  /\ \E r \in queued[c] :
       /\ queued' = [queued EXCEPT ![c] = @ \ {r}]
       /\ finished' = [finished EXCEPT ![c] = @ \cup {r}]
       /\ handled' = handled \cup {r}
  /\ UNCHANGED <<logEnd, committed, groupVars, pc, assigned, position, unsubmitted, acks,
                 commits, faultVars>>

\* A thread of the executor takes a task and calls the listener.  The queue is
\* first in, first out and the poll thread submits a partition in offset order, so
\* with one thread a partition's records are taken in that order.  (Between the
\* partitions of an executor any order is allowed.)
onMessage(c) ==
  /\ \E r \in queued[c] :
       LET mine(s) == {q \in s : ExecutorOf[q.partition] = ExecutorOf[r.partition]}
       IN /\ Threads = 1 => First(r, queued[c])
          /\ Cardinality(mine(finished[c])) < Threads
          /\ queued' = [queued EXCEPT ![c] = @ \ {r}]
          /\ finished' = [finished EXCEPT ![c] = @ \cup {r}]
          /\ handled' = handled \cup {r}
  /\ UNCHANGED <<logEnd, committed, groupVars, pc, assigned, position, unsubmitted, acks,
                 commits, faultVars>>

\* Mutant: the listener is given one record of the batch, and all are acknowledged.
submitBatchRecords_OneRecord(c) ==
  /\ pc[c] = "batch"
  /\ BatchListener
  /\ \E r \in unsubmitted[c] : handled' = handled \cup {r}
  /\ finished' = [finished EXCEPT ![c] = unsubmitted[c]]
  /\ unsubmitted' = [unsubmitted EXCEPT ![c] = {}]
  /\ UNCHANGED <<logEnd, committed, groupVars, pc, assigned, position, queued, acks, commits,
                 faultVars>>

\* submitBatchRecords: the poll thread itself gives the listener the whole batch.
submitBatchRecords(c) ==
  /\ pc[c] = "batch"
  /\ BatchListener
  /\ unsubmitted[c] # {}
  /\ handled' = handled \cup unsubmitted[c]
  /\ finished' = [finished EXCEPT ![c] = unsubmitted[c]]
  /\ unsubmitted' = [unsubmitted EXCEPT ![c] = {}]
  /\ UNCHANGED <<logEnd, committed, groupVars, pc, assigned, position, queued, acks, commits,
                 faultVars>>

\* Mutant: a worker that finds acks full offers again without committing.
offerAck_Spin(c) ==
  /\ \E r \in finished[c] :
       /\ Cardinality(acks[c]) < AckCapacity
       /\ acks' = [acks EXCEPT ![c] = @ \cup {r}]
       /\ finished' = [finished EXCEPT ![c] = @ \ {r}]
  /\ UNCHANGED <<brokerVars, groupVars, pc, assigned, position, unsubmitted, queued, commits,
                 faultVars>>

\* The finally block: offer the record to acks and count the latch down, whatever
\* the listener returned or threw; when acks is full, commit what it holds and
\* offer again.  (A batch listener's records are offered in their order.)
offerAck(c) ==
  /\ \E r \in finished[c] :
       /\ BatchListener => First(r, finished[c])
       /\ IF Cardinality(acks[c]) < AckCapacity
          THEN /\ acks' = [acks EXCEPT ![c] = @ \cup {r}]
               /\ finished' = [finished EXCEPT ![c] = @ \ {r}]
               /\ commits' = commits
          ELSE /\ Len(commits[c]) < MaxInFlight
               /\ commitOffsets(c)
               /\ finished' = finished
  /\ UNCHANGED <<brokerVars, groupVars, pc, assigned, position, unsubmitted, queued, faultVars>>

-----------------------------------------------------------------------------
(* Faults *)

Forget(c) ==
  /\ faults < MaxFaults
  /\ faults' = faults + 1
  /\ pc' = [pc EXCEPT ![c] = "down"]
  /\ assigned' = [assigned EXCEPT ![c] = {}]
  /\ unsubmitted' = [unsubmitted EXCEPT ![c] = {}]
  /\ queued' = [queued EXCEPT ![c] = {}]
  /\ finished' = [finished EXCEPT ![c] = {}]
  /\ acks' = [acks EXCEPT ![c] = {}]
  /\ UNCHANGED <<brokerVars, owner, position, commits, commitFailures>>

\* The process dies; the coordinator finds out later, and commits it has on the
\* wire still arrive.
Crash(c) ==
  /\ pc[c] # "down"
  /\ Forget(c)
  /\ UNCHANGED <<members, joined, rebalancing>>

\* poll throws (or shutdown wakes it up): the finally block of the poll thread closes
\* the consumer, which leaves the group.
consumerShutdown(c) ==
  /\ pc[c] = "poll"
  /\ Forget(c)
  /\ members' = members \ {c}
  /\ rebalancing' = TRUE
  /\ UNCHANGED joined

-----------------------------------------------------------------------------
Step(c) ==
  \/ consumerStart(c) \/ onPartitionsRevoked(c) \/ onPartitionsAssigned(c)
  \/ poll(c) \/ pollNothing(c) \/ execute(c) \/ submitBatchRecords(c) \/ finishBatch(c)
  \/ onMessage(c) \/ offerAck(c)

Next ==
  \/ \E p \in Partitions : Produce(p)
  \/ CompleteRebalance
  \/ \E c \in Consumers :
       \/ Step(c)
       \/ CompleteCommit(c) \/ FailCommit(c)
       \/ Expel(c) \/ Crash(c) \/ consumerShutdown(c)

(***************************************************************************)
(* Fairness.  The poll thread runs `while (running)`, pool threads run      *)
(* what they are given and listeners return; a dead process is restarted;   *)
(* the coordinator answers, ends rebalances and expels the dead.  Every     *)
(* call of poll drives the group protocol, so a member that polls again and *)
(* again while a rebalance is due joins it: strong fairness.                *)
(***************************************************************************)
Fairness ==
  /\ WF_vars(CompleteRebalance)
  /\ \A c \in Consumers :
       /\ WF_vars(consumerStart(c)) /\ WF_vars(onPartitionsAssigned(c))
       /\ WF_vars(poll(c)) /\ WF_vars(execute(c)) /\ WF_vars(submitBatchRecords(c))
       /\ WF_vars(finishBatch(c)) /\ WF_vars(onMessage(c)) /\ WF_vars(offerAck(c))
       /\ WF_vars(CompleteCommit(c))
       /\ WF_vars(Expel(c) /\ pc[c] \in {"down", "start"})
       /\ SF_vars(onPartitionsRevoked(c))

Spec == Init /\ [][Next]_vars
FairSpec == Spec /\ Fairness

-----------------------------------------------------------------------------
(* Properties *)

\* The committed offset of a partition never passes a record no listener was given
\* (finishBatch commits the highest acknowledged offset, whatever lies below it).
CommitSafe ==
  \A p \in Partitions, o \in 0 .. LogSize - 1 :
     o < committed[p] => Record(p, o) \in handled

\* With one thread per executor and partition % size, a group delivers the records of
\* a partition for the first time in their order, over rebalances and restarts too.
FirstDeliveryInOrder ==
  \A r \in handled : \A o \in 0 .. r.offset : Record(r.partition, o) \in handled

\* When the acknowledgements of a batch fit into the acks queue: the default of
\* max.poll.records is 500 and the queue holds 100000, but the user's
\* consumeMessagesSize is not checked.  A batch listener's need not fit.
NoOverflow == BatchListener \/ MaxPoll <= AckCapacity

\* A member never starts a batch with acknowledgements of another one left in acks.
NoStaleAcks ==
  \A c \in Consumers : pc[c] # "batch" => Latched(c) \cup acks[c] = {}

\* The group implements the promise: with the refinement mapping below, every step is
\* a step of AtLeastOnce (or none), and every appended record is delivered.
Promise == INSTANCE AtLeastOnce WITH
  committed <- [p \in Partitions |-> IF committed[p] = NoOffset THEN 0 ELSE committed[p]]
ImplementsPromise == Promise!Safety
Delivered == Promise!Delivered

\* When no commit fails, the group's offsets reach the end of the log for good.
EventuallyCommitted ==
  \A p \in Partitions, n \in 1 .. LogSize : (logEnd[p] = n) ~> (committed[p] >= n)
=============================================================================
