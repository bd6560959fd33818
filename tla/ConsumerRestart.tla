-------------------------- MODULE ConsumerRestart --------------------------
(***************************************************************************)
(* One Kafka consumer proxy inside one process, thread by thread: the      *)
(* application thread that subscribes and later calls Zms.stopConsumer,    *)
(* the ZooKeeper event thread that restarts the proxy when the metadata of *)
(* its consumer group changes, the poll threads (one for every start) and  *)
(* the pool threads.  They share, without a lock, the proxy's fields:      *)
(* metadata, running, consumer, executors, acks, and the factory's cache.  *)
(*                                                                         *)
(* Offsets are left to KafkaConsumer; a batch here is a number of tasks.   *)
(* A poll thread, its KafkaConsumer and its pool carry the number of the   *)
(* start that made them.                                                   *)
(***************************************************************************)
EXTENDS Integers, Sequences, FiniteSets

CONSTANTS
  User,         \* the application's thread
  Zk,           \* the event thread of ZkClient
  MaxStarts,    \* bound: how often the proxy is started
  MaxChanges,   \* bound: changes of the group's metadata in ZooKeeper
  TopicChange,  \* TRUE: a change names another topic; FALSE: another cluster
  Partitions,   \* partitions of the topic
  BatchSize,    \* records of a polled batch
  MaxBatches,   \* bound: batches that all polls return together
  MaxErrors     \* bound: polls that throw

Starts == 1 .. MaxStarts          \* poll threads, KafkaConsumers and pools
Callers == {User, Zk}
Actors == Starts \cup Callers
None == 0

ASSUME RestartAssumption ==
  /\ User # Zk /\ Callers \cap Starts = {}
  /\ MaxStarts \in Nat \ {0}
  /\ Partitions \subseteq Nat /\ Partitions # {}
  /\ BatchSize \in Nat \ {0}
  /\ {MaxChanges, MaxBatches, MaxErrors} \subseteq Nat
  /\ TopicChange \in BOOLEAN

VARIABLES
  zkMetadata,  \* version of the group's metadata in ZooKeeper
  notified,    \* a data change is queued for this proxy in the event thread
  watched,     \* the proxy is subscribed to data changes
  metadata,    \* version the proxy holds
  running,     \* ZmsProxy.running
  cached,      \* ConsumerFactory.consumers holds the proxy
  consumer,    \* the field: start number of the current KafkaConsumer
  version,     \* version[g]: metadata the consumer of start g was built from
  inside,      \* inside[g]: the poll thread inside consumer g's poll, or None
  woken,       \* consumers with a pending wakeup()
  closed,      \* closed consumers
  executors,   \* the list of pools
  pool,        \* pool[g] of start g: "none", "up", "down"
  queue,       \* queue[g]: its tasks, each named by the poll thread that waits for it
  busy,        \* busy[g]: the task it runs, or None
  acks,        \* acknowledgements, each named by the poll thread it belongs to
  pc,          \* where each thread is
  latch,       \* latch[t]: records the poll thread's batch still waits for
  unsubmitted, \* unsubmitted[t]: records it has not submitted yet
  first,       \* first[t]: the latch of register is down: its start() goes on
  err,         \* err[t]: the poll thread caught something
  rounds,      \* rounds[t]: it has finished a round of the poll loop (history)
  iter,        \* iter[x]: cursor of x's iteration over executors
  dirty,       \* threads whose iterator a change of executors has invalidated
  draining,    \* draining[x]: the pool x is shutting down
  dropped,     \* poll threads whose latch counts a record nobody handles (history)
  partition,   \* partition[t]: the partition of the records in t's batch
  batches, errors

proxyVars == <<metadata, running, cached, watched>>
zkVars    == <<zkMetadata, notified>>
kafkaVars == <<consumer, version, inside, woken, closed>>
poolVars  == <<executors, pool, queue, busy, iter, dirty, draining, dropped>>
batchVars == <<latch, unsubmitted, partition, acks>>
firstVars == <<first, err, rounds>>
counters  == <<batches, errors>>
vars == <<zkVars, proxyVars, kafkaVars, poolVars, batchVars, firstVars, pc, counters>>

TypeOK ==
  /\ zkMetadata \in 0 .. MaxChanges /\ metadata \in 0 .. MaxChanges
  /\ {notified, watched, running, cached} \subseteq BOOLEAN
  /\ consumer \in 0 .. MaxStarts
  /\ version \in [Starts -> 0 .. MaxChanges]
  /\ inside \in [Starts -> Starts \cup {None}]
  /\ woken \subseteq Starts /\ closed \subseteq Starts /\ dropped \subseteq Starts
  /\ executors \in Seq(Starts)
  /\ pool \in [Starts -> {"none", "up", "down"}]
  /\ queue \in [Starts -> Seq(Starts)]
  /\ busy \in [Starts -> Starts \cup {None}]
  /\ acks \subseteq Starts
  /\ pc \in [Actors -> {"none", "loop", "poll", "polling", "submit", "await", "commit", "finally",
                        "unset", "close", "pools", "drain", "dead",
                        "idle", "stop", "unwatch", "start", "watch", "register", "first", "failed", "stopped", "aborted"}]
  /\ latch \in [Starts -> 0 .. BatchSize]
  /\ unsubmitted \in [Starts -> 0 .. BatchSize]
  /\ partition \in [Starts -> Partitions]
  /\ first \in [Starts -> BOOLEAN] /\ err \in [Starts -> BOOLEAN] /\ rounds \in [Starts -> BOOLEAN]
  /\ iter \in [Actors -> Nat]
  /\ dirty \subseteq Actors
  /\ draining \in [Actors -> Starts \cup {None}]
  /\ batches \in 0 .. MaxBatches /\ errors \in 0 .. MaxErrors

\* The application has called subscribe, which found no proxy in the cache and is
\* inside the constructor of a new one.
Init ==
  /\ zkMetadata = 0 /\ metadata = 0 /\ notified = FALSE /\ watched = FALSE
  /\ running = FALSE /\ cached = FALSE
  /\ consumer = None /\ version = [g \in Starts |-> 0]
  /\ inside = [g \in Starts |-> None] /\ woken = {} /\ closed = {}
  /\ executors = <<>> /\ pool = [g \in Starts |-> "none"]
  /\ queue = [g \in Starts |-> <<>>] /\ busy = [g \in Starts |-> None]
  /\ acks = {} /\ dropped = {}
  /\ pc = [x \in Actors |-> CASE x = User -> "start" [] x = Zk -> "idle" [] OTHER -> "none"]
  /\ latch = [t \in Starts |-> 0] /\ unsubmitted = [t \in Starts |-> 0]
  /\ partition = [t \in Starts |-> CHOOSE p \in Partitions : TRUE]
  /\ first = [t \in Starts |-> FALSE] /\ err = [t \in Starts |-> FALSE] /\ rounds = [t \in Starts |-> FALSE]
  /\ iter = [x \in Actors |-> 1] /\ dirty = {} /\ draining = [x \in Actors |-> None]
  /\ batches = 0 /\ errors = 0

Goto(x, label) == pc' = [pc EXCEPT ![x] = label]
\* Threads that are iterating over executors while x changes the list.
Iterating(x) == {y \in Actors \ {x} : pc[y] = "drain" \/ (pc[y] = "pools" /\ iter[y] > 1)}

-----------------------------------------------------------------------------
(* start(): consumerStart, super.start, register *)

\* `if (running)` return, else consumerStart: a KafkaConsumer for the metadata the
\* proxy holds now, and a pool at the end of the list.
consumerStart(x) ==
  /\ pc[x] = "start"
  /\ IF running
     THEN /\ Goto(x, "idle")
          /\ UNCHANGED <<kafkaVars, poolVars>>
     ELSE /\ consumer < MaxStarts
          /\ consumer' = consumer + 1
          /\ version' = [version EXCEPT ![consumer'] = metadata]
          /\ pool' = [pool EXCEPT ![consumer'] = "up"]
          /\ executors' = Append(executors, consumer')
          /\ dirty' = dirty \cup Iterating(x)
          /\ Goto(x, "watch")
          /\ UNCHANGED <<inside, woken, closed, queue, busy, iter, draining, dropped>>
  /\ UNCHANGED <<zkVars, proxyVars, batchVars, firstVars, counters>>

\* The start made by x: once the application's own start watches the metadata, only
\* the event thread starts.
Mine(x) == IF x = User THEN 1 ELSE consumer

\* super.start first watches the metadata node, so that a change can restart the proxy
\* before its start has set running.
registerWatcher(x) ==
  /\ pc[x] = "watch"
  /\ watched' = TRUE
  /\ Goto(x, "register")
  /\ UNCHANGED <<zkVars, metadata, running, cached, kafkaVars, poolVars, batchVars, firstVars,
                 counters>>

\* running = true, and register starts the poll thread and waits for its first round.
register(x) ==
  /\ pc[x] = "register"
  /\ running' = TRUE
  /\ pc' = [pc EXCEPT ![x] = "first", ![Mine(x)] = "loop"]
  /\ UNCHANGED <<zkVars, metadata, cached, watched, kafkaVars, poolVars, batchVars, firstVars,
                 counters>>

\* The first latch is down: start returns, or throws what the poll thread caught.  The
\* factory caches a proxy whose constructor returns; nobody caches a restarted one,
\* and what restart throws is logged by the event thread.
startReturns(x) ==
  /\ pc[x] = "first"
  /\ first[Mine(x)]
  /\ Goto(x, IF x = User /\ err[Mine(x)] THEN "failed" ELSE "idle")
  /\ cached' = (cached \/ (x = User /\ ~err[Mine(x)]))
  /\ UNCHANGED <<zkVars, metadata, running, watched, kafkaVars, poolVars, batchVars, firstVars,
                 counters>>

-----------------------------------------------------------------------------
(* Metadata changes and shutdown *)

\* The portal writes new metadata for the group.
ChangeMetadata ==
  /\ zkMetadata < MaxChanges
  /\ zkMetadata' = zkMetadata + 1
  /\ notified' = (notified \/ watched)
  /\ UNCHANGED <<proxyVars, kafkaVars, poolVars, batchVars, firstVars, pc, counters>>

\* Reads the metadata; when it differs, holds the new one from here on and restarts,
\* shutdown first.
handleDataChange ==
  /\ pc[Zk] = "idle"
  /\ notified
  /\ notified' = FALSE
  /\ metadata' = zkMetadata
  /\ Goto(Zk, IF metadata = zkMetadata THEN "idle" ELSE "stop")
  /\ UNCHANGED <<zkMetadata, running, cached, watched, kafkaVars, poolVars, batchVars, firstVars,
                 counters>>

\* Zms.stopConsumer: ConsumerFactory.shutdown(group) stops the proxy the cache holds.
stopConsumer ==
  /\ pc[User] = "idle"
  /\ Goto(User, IF cached THEN "stop" ELSE "stopped")
  /\ UNCHANGED <<zkVars, proxyVars, kafkaVars, poolVars, batchVars, firstVars, counters>>

\* What a caller does after shutdown: restart starts again (after a random sleep),
\* stopConsumer is done.
AfterShutdown(x) == IF x = Zk THEN "start" ELSE "stopped"

\* shutdown(): nothing when it does not run; else running = false ...
shutdown(x) ==
  /\ pc[x] = "stop"
  /\ running' = FALSE
  /\ Goto(x, IF running THEN "unwatch" ELSE AfterShutdown(x))
  /\ UNCHANGED <<zkVars, metadata, cached, watched, kafkaVars, poolVars, batchVars, firstVars,
                 counters>>

\* ... no more watching, and then consumerShutdown.
unregisterWatcher(x) ==
  /\ pc[x] = "unwatch"
  /\ watched' = FALSE
  /\ Goto(x, "close")
  /\ UNCHANGED <<zkVars, metadata, running, cached, kafkaVars, poolVars, batchVars, firstVars,
                 counters>>

-----------------------------------------------------------------------------
(* consumerShutdown, run by a caller of shutdown or by a dying poll thread *)

\* consumer.close(): a consumer another thread is inside throws
\* ConcurrentModificationException and is woken up instead.
close(x) ==
  /\ pc[x] = "close"
  /\ IF inside[consumer] = None
     THEN closed' = closed \cup {consumer} /\ woken' = woken
     ELSE woken' = woken \cup {consumer} /\ closed' = closed
  /\ Goto(x, "pools")
  /\ UNCHANGED <<zkVars, proxyVars, consumer, version, inside, poolVars, batchVars, firstVars,
                 counters>>

\* The loop over executors, an ArrayList, and executors.clear() after it.  hasNext
\* compares the cursor with the size; next throws ConcurrentModificationException
\* when another thread has changed the list meanwhile.  The exception ends a poll
\* thread, stopConsumer and a restart alike.
nextPool(x) ==
  /\ pc[x] = "pools"
  /\ \/ /\ iter[x] = Len(executors) + 1
        /\ executors' = <<>>
        /\ dirty' = (dirty \cup Iterating(x)) \ {x}
        /\ Goto(x, IF x \in Starts THEN "dead" ELSE AfterShutdown(x))
        /\ cached' = (cached /\ x \in Starts)
        /\ iter' = [iter EXCEPT ![x] = 1]
        /\ UNCHANGED <<pool, draining>>
     \/ /\ iter[x] # Len(executors) + 1
        /\ x \in dirty
        /\ Goto(x, CASE x \in Starts -> "dead" [] x = Zk -> "idle" [] OTHER -> "aborted")
        /\ iter' = [iter EXCEPT ![x] = 1]
        /\ dirty' = dirty \ {x}
        /\ UNCHANGED <<executors, cached, pool, draining>>
     \/ /\ iter[x] # Len(executors) + 1
        /\ x \notin dirty
        /\ pool' = [pool EXCEPT ![executors[iter[x]]] = "down"]
        /\ draining' = [draining EXCEPT ![x] = executors[iter[x]]]
        /\ Goto(x, "drain")
        /\ UNCHANGED <<executors, dirty, cached, iter>>
  /\ UNCHANGED <<zkVars, metadata, running, watched, kafkaVars, queue, busy, dropped, batchVars,
                 firstVars, counters>>

\* gracefullyShutdown: the pool ends by itself, or after a second shutdownNow drops
\* what is still in its queue (and the latch of the batch never goes down).
drain(x) ==
  /\ pc[x] = "drain"
  /\ dropped' = dropped \cup {queue[draining[x]][i] : i \in 1 .. Len(queue[draining[x]])}
  /\ queue' = [queue EXCEPT ![draining[x]] = <<>>]
  /\ iter' = [iter EXCEPT ![x] = @ + 1]
  /\ draining' = [draining EXCEPT ![x] = None]
  /\ Goto(x, "pools")
  /\ UNCHANGED <<zkVars, proxyVars, kafkaVars, executors, pool, busy, dirty, batchVars, firstVars,
                 counters>>

-----------------------------------------------------------------------------
(* The poll thread *)

\* Mutant: the exception is only logged.
Throw_NoErr(t) ==
  /\ err' = err
  /\ Goto(t, "finally")

\* An exception in the loop: it is kept for start(), and the finally block runs.
Throw(t) ==
  /\ err' = [err EXCEPT ![t] = TRUE]
  /\ Goto(t, "finally")

\* while (running)
loop(t) ==
  /\ pc[t] = "loop"
  /\ Goto(t, IF running THEN "poll" ELSE "finally")
  /\ UNCHANGED <<zkVars, proxyVars, kafkaVars, poolVars, batchVars, firstVars, counters>>

\* consumer.poll on the consumer the field holds now; a closed one and one that another
\* thread is inside throw.
poll(t) ==
  /\ pc[t] = "poll"
  /\ IF consumer \in closed \/ inside[consumer] # None
     THEN Throw(t) /\ inside' = inside
     ELSE /\ inside' = [inside EXCEPT ![consumer] = t]
          /\ Goto(t, "polling")
          /\ err' = err
  /\ UNCHANGED <<zkVars, proxyVars, consumer, version, woken, closed, poolVars, batchVars, first,
                 rounds, counters>>

\* poll returns nothing, or a batch: the latch counts all its records, the records to
\* submit are those of the topic the metadata names now.
pollReturns(t) ==
  /\ pc[t] = "polling"
  /\ \E g \in Starts :
       /\ inside[g] = t
       /\ inside' = [inside EXCEPT ![g] = None]
       /\ \/ /\ g \notin woken
             /\ Goto(t, "commit")
             /\ UNCHANGED <<latch, unsubmitted, partition, dropped, batches>>
          \/ /\ batches < MaxBatches
             /\ batches' = batches + 1
             /\ latch' = [latch EXCEPT ![t] = BatchSize]
             /\ \E p \in Partitions : partition' = [partition EXCEPT ![t] = p]
             /\ LET sameTopic == TopicChange => version[g] = metadata
                IN /\ unsubmitted' = [unsubmitted EXCEPT ![t] = IF sameTopic THEN BatchSize ELSE 0]
                   /\ dropped' = IF sameTopic THEN dropped ELSE dropped \cup {t}
             /\ Goto(t, "submit")
  /\ UNCHANGED <<zkVars, proxyVars, consumer, version, woken, closed, executors, pool, queue, busy,
                 iter, dirty, draining, acks, firstVars, errors>>

\* poll throws: a WakeupException, or (bounded) any other exception.
pollThrows(t) ==
  /\ pc[t] = "polling"
  /\ \E g \in Starts :
       /\ inside[g] = t
       /\ inside' = [inside EXCEPT ![g] = None]
       /\ \/ g \in woken /\ woken' = woken \ {g} /\ errors' = errors
          \/ errors < MaxErrors /\ errors' = errors + 1 /\ woken' = woken
  /\ Throw(t)
  /\ UNCHANGED <<zkVars, proxyVars, consumer, version, closed, poolVars, batchVars, first, rounds,
                 batches>>

\* executors.get(partition % executors.size()).execute(task): an empty list is a
\* division by zero; a pool that is shut down rejects, and the loop tries again.
submit(t) ==
  /\ pc[t] = "submit"
  /\ unsubmitted[t] > 0
  /\ IF executors = <<>>
     THEN Throw(t) /\ UNCHANGED <<queue, unsubmitted>>
     ELSE LET g == executors[(partition[t] % Len(executors)) + 1]
          IN /\ pool[g] = "up"
             /\ queue' = [queue EXCEPT ![g] = Append(@, t)]
             /\ unsubmitted' = [unsubmitted EXCEPT ![t] = @ - 1]
             /\ UNCHANGED <<pc, err>>
  /\ UNCHANGED <<zkVars, proxyVars, kafkaVars, executors, pool, busy, iter, dirty, draining,
                 dropped, latch, partition, acks, first, rounds, counters>>

\* countDownLatch.await()
await(t) ==
  /\ pc[t] = "submit"
  /\ unsubmitted[t] = 0
  /\ latch[t] = 0
  /\ Goto(t, "commit")
  /\ UNCHANGED <<zkVars, proxyVars, kafkaVars, poolVars, batchVars, firstVars, counters>>

\* commitOffsets takes all acknowledgements and commits them with the consumer the field
\* holds now; then the first round is over and the loop goes on.
commitOffsets(t) ==
  /\ pc[t] = "commit"
  /\ acks' = {}
  /\ IF acks # {} /\ (consumer \in closed \/ inside[consumer] # None)
     THEN Throw(t) /\ UNCHANGED <<first, rounds>>
     ELSE /\ Goto(t, "loop")
          /\ first' = [first EXCEPT ![t] = TRUE]
          /\ rounds' = [rounds EXCEPT ![t] = TRUE]
          /\ err' = err
  /\ UNCHANGED <<zkVars, proxyVars, kafkaVars, poolVars, latch, unsubmitted, partition, counters>>

\* Mutant: only the loop counts the first latch down.
finally_NoLatch(t) ==
  /\ pc[t] = "finally"
  /\ Goto(t, "unset")
  /\ UNCHANGED <<zkVars, proxyVars, kafkaVars, poolVars, batchVars, firstVars, counters>>

\* The finally block: the first latch, setRunning(false), consumerShutdown.
finally(t) ==
  /\ pc[t] = "finally"
  /\ first' = [first EXCEPT ![t] = TRUE]
  /\ Goto(t, "unset")
  /\ UNCHANGED <<zkVars, proxyVars, kafkaVars, poolVars, batchVars, err, rounds, counters>>

\* Mutant: the proxy still says it runs.
setRunning_Keep(t) ==
  /\ pc[t] = "unset"
  /\ Goto(t, "close")
  /\ UNCHANGED <<zkVars, proxyVars, kafkaVars, poolVars, batchVars, firstVars, counters>>

\* Mutant: the consumer is left to whoever calls shutdown.
setRunning_NoShutdown(t) ==
  /\ pc[t] = "unset"
  /\ running' = FALSE
  /\ Goto(t, "dead")
  /\ UNCHANGED <<zkVars, metadata, cached, watched, kafkaVars, poolVars, batchVars, firstVars,
                 counters>>

setRunning(t) ==
  /\ pc[t] = "unset"
  /\ running' = FALSE
  /\ Goto(t, "close")
  /\ UNCHANGED <<zkVars, metadata, cached, watched, kafkaVars, poolVars, batchVars, firstVars,
                 counters>>

-----------------------------------------------------------------------------
(* The pool thread of pool g; shutdown lets it finish what it has *)

takeTask(g) ==
  /\ busy[g] = None
  /\ queue[g] # <<>>
  /\ busy' = [busy EXCEPT ![g] = Head(queue[g])]
  /\ queue' = [queue EXCEPT ![g] = Tail(@)]
  /\ UNCHANGED <<zkVars, proxyVars, kafkaVars, executors, pool, iter, dirty, draining, dropped,
                 batchVars, firstVars, pc, counters>>

\* Mutant: countDown only when the listener returns, in the last batch it throws.
finishTask_NoCountDown(g) ==
  /\ busy[g] # None
  /\ acks' = acks \cup {busy[g]}
  /\ latch' = [latch EXCEPT ![busy[g]] = IF batches = MaxBatches THEN @ ELSE @ - 1]
  /\ busy' = [busy EXCEPT ![g] = None]
  /\ UNCHANGED <<zkVars, proxyVars, kafkaVars, executors, pool, queue, iter, dirty, draining,
                 dropped, unsubmitted, partition, firstVars, pc, counters>>

\* Mutant: countDown in the catch block and in the finally block.
finishTask_CountDownTwice(g) ==
  /\ busy[g] # None
  /\ acks' = acks \cup {busy[g]}
  /\ latch' = [latch EXCEPT ![busy[g]] = @ - 2]
  /\ busy' = [busy EXCEPT ![g] = None]
  /\ UNCHANGED <<zkVars, proxyVars, kafkaVars, executors, pool, queue, iter, dirty, draining,
                 dropped, unsubmitted, partition, firstVars, pc, counters>>

\* The listener has returned or thrown (interrupted or not): acknowledge, count down.
finishTask(g) ==
  /\ busy[g] # None
  /\ acks' = acks \cup {busy[g]}
  /\ latch' = [latch EXCEPT ![busy[g]] = @ - 1]
  /\ busy' = [busy EXCEPT ![g] = None]
  /\ UNCHANGED <<zkVars, proxyVars, kafkaVars, executors, pool, queue, iter, dirty, draining,
                 dropped, unsubmitted, partition, firstVars, pc, counters>>

-----------------------------------------------------------------------------
PollThread(t) ==
  \/ loop(t) \/ poll(t) \/ pollReturns(t) \/ pollThrows(t) \/ submit(t) \/ await(t)
  \/ commitOffsets(t) \/ finally(t) \/ setRunning(t)
Caller(x) ==
  \/ consumerStart(x) \/ registerWatcher(x) \/ register(x) \/ startReturns(x)
  \/ shutdown(x) \/ unregisterWatcher(x)
ConsumerShutdown(x) == close(x) \/ nextPool(x) \/ drain(x)
PoolThread(g) == takeTask(g) \/ finishTask(g)

Next ==
  \/ ChangeMetadata \/ handleDataChange \/ stopConsumer
  \/ \E t \in Starts : PollThread(t) \/ PoolThread(t)
  \/ \E x \in Callers : Caller(x)
  \/ \E x \in Actors : ConsumerShutdown(x)

\* Threads run: every poll returns or throws within its timeout, listeners return,
\* pools are waited for at most two seconds.  Nothing forces a change or a stop.
Fairness ==
  /\ WF_vars(handleDataChange)
  /\ \A t \in Starts :
       /\ WF_vars(PollThread(t)) /\ WF_vars(takeTask(t)) /\ WF_vars(finishTask(t))
  /\ \A x \in Callers : WF_vars(Caller(x))
  /\ \A x \in Actors : WF_vars(ConsumerShutdown(x))

Spec == Init /\ [][Next]_vars
FairSpec == Spec /\ Fairness

-----------------------------------------------------------------------------
(* Properties *)

\* subscribe returns, and the factory caches the proxy, only after the poll thread has
\* finished a round without an exception (the latch and err of register).
CachedHasPolled == cached => rounds[1]

\* Anything that runs is polled: while running is TRUE (and start() refuses to start the
\* proxy again) a poll thread lives.
RunningIsPolled == running => \E t \in Starts : pc[t] \notin {"none", "dead"}

\* What can hold up a poll thread forever: a record of its batch that nobody will handle
\* (dropped by shutdownNow, or of a topic the metadata no longer names), or a pool that
\* is shut down, still in executors, and rejects its records.
Stuck(t) ==
  /\ pc[t] = "submit"
  /\ \/ t \in dropped
     \/ executors # <<>> /\ pool[executors[(partition[t] % Len(executors)) + 1]] = "down"

\* A batch comes to its end in every other case: whatever the listener does, whoever
\* restarts or stops the proxy meanwhile.
BatchEnds == \A t \in Starts : []<>(pc[t] # "submit") \/ <>[]Stuck(t)

\* The event thread of ZkClient, which every proxy of the process shares, comes back from
\* every restart unless a poll thread is stuck.
EventThreadReturns == []<>(pc[Zk] = "idle") \/ \E t \in Starts : <>[]Stuck(t)

\* Without restarts, Zms.stopConsumer closes the consumer, unless shutting the pools down
\* dropped a record that the poll thread waits for.
StopCloses == (pc[User] = "stopped") ~> (consumer \in closed \/ dropped # {})

\* Zms.stopConsumer closes the consumer of the group.
StopConsumerStops == (pc[User] = "stopped") ~> (consumer \in closed)

\* A change the client is notified of takes effect: the proxy comes to poll a consumer of
\* the new cluster or topic (unless the application stops the consumer meanwhile).
Consuming == /\ consumer # None
             /\ version[consumer] = zkMetadata
             /\ inside[consumer] # None
ChangeTakesEffect ==
  (notified /\ pc[User] = "idle") ~> (Consuming \/ pc[User] # "idle")
=============================================================================
