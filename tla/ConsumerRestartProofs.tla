----------------------- MODULE ConsumerRestartProofs -----------------------
(***************************************************************************)
(* Proofs about ConsumerRestart for any number of starts, changes of the   *)
(* metadata, partitions, batches and errors.                               *)
(***************************************************************************)
EXTENDS ConsumerRestart, FiniteSetTheorems, TLAPS

LEMMA Threads ==
  /\ User \in Callers /\ Zk \in Callers /\ User # Zk /\ Callers \subseteq Actors
  /\ Starts \subseteq Actors /\ Callers \cap Starts = {}
  /\ Actors = Starts \cup Callers
  /\ 1 \in Starts /\ Starts = 1 .. MaxStarts /\ MaxStarts \in Nat \ {0}
BY RestartAssumption DEF Callers, Actors, Starts

\* Where the threads are at first.
LEMMA FirstPlaces ==
  ASSUME Init
  PROVE  /\ DOMAIN pc = Actors /\ pc = [x \in Actors |-> pc[x]]
         /\ pc[User] = "start" /\ pc[Zk] = "idle" /\ \A t \in Starts : pc[t] = "none"
<1> USE Threads
<1>1. pc = [x \in Actors |-> CASE x = User -> "start" [] x = Zk -> "idle" [] OTHER -> "none"]
  BY DEF Init
<1>2. pc[User] = "start"
  BY <1>1
<1>3. pc[Zk] = "idle"
  BY <1>1
<1>4. ASSUME NEW t \in Starts PROVE pc[t] = "none"
  <2>1. t # User /\ t # Zk /\ t \in Actors
    OBVIOUS
  <2> QED BY <1>1, <2>1, Zenon
<1> QED BY <1>1, <1>2, <1>3, <1>4

\* Where a poll thread is before it clears running, and where it is afterwards.
Working == {"loop", "poll", "polling", "submit", "commit", "finally", "unset"}
Shutting == {"close", "pools", "drain"}
\* Where a caller is between making a consumer and the end of its start.
Starting == {"watch", "register", "first"}

(***************************************************************************)
(* RunningIsPolled is not inductive: a poll thread that is about to end    *)
(* its shutdown may be the last one.  It is past setRunning by then, so    *)
(* what runs has a thread that still works.                                *)
(***************************************************************************)
PollLabels == Working \cup Shutting \cup {"none", "dead"}
CallerLabels ==
  Starting \cup Shutting \cup {"idle", "stop", "unwatch", "start", "failed", "stopped", "aborted"}
Labels ==
  /\ pc \in [Actors -> PollLabels \cup CallerLabels]
  /\ \A t \in Starts : pc[t] \in PollLabels
  /\ \A x \in Callers : pc[x] \in CallerLabels

PolledInv ==
  /\ Labels
  /\ consumer \in 0 .. MaxStarts
  /\ \A x \in Callers : pc[x] \in Starting => consumer # None
  /\ running => \E t \in Starts : pc[t] \in Working

LEMMA PolledInit == Init => PolledInv
<1> SUFFICES ASSUME Init PROVE PolledInv
  OBVIOUS
<1> USE Threads
<1>1. /\ DOMAIN pc = Actors /\ pc = [x \in Actors |-> pc[x]]
      /\ pc[User] = "start" /\ pc[Zk] = "idle" /\ \A t \in Starts : pc[t] = "none"
  BY FirstPlaces
<1>2. Callers = {User, Zk}
  BY DEF Callers
<1>3. Labels
  BY <1>1, <1>2 DEF Labels, PollLabels, CallerLabels
<1>4. /\ consumer = 0 /\ running = FALSE
      /\ \A x \in Callers : pc[x] \notin Starting
  BY <1>1, <1>2 DEF Init, None, Starting
<1> QED BY <1>3, <1>4 DEF PolledInv

\* A step of one thread that leaves the others where they are.
LEMMA OneMoves ==
  ASSUME PolledInv, NEW x \in Actors, NEW label, Goto(x, label),
         \/ x \in Starts /\ label \in PollLabels
         \/ x \in Callers /\ label \in CallerLabels /\ (label \in Starting => consumer' # None),
         consumer' \in 0 .. MaxStarts, consumer # None => consumer' # None,
         running' => running /\ (pc[x] \notin Working \/ label \in Working)
  PROVE  PolledInv'
<1> USE Threads DEF PolledInv
<1>1. Labels'
  BY DEF Labels, Goto
<1>2. \A y \in Callers : pc'[y] \in Starting => consumer' # None
  BY DEF Labels, Goto
<1>3. ASSUME running' PROVE \E t \in Starts : pc'[t] \in Working
  <2>1. PICK t \in Starts : pc[t] \in Working
    BY <1>3
  <2>2. pc'[t] \in Working
    BY <1>3, <2>1 DEF Goto, Labels
  <2> QED BY <2>2
<1> QED BY <1>1, <1>2, <1>3

LEMMA CallerMoves ==
  ASSUME PolledInv, NEW x \in Callers, NEW label \in CallerLabels, Goto(x, label),
         label \in Starting => consumer' # None,
         consumer' \in 0 .. MaxStarts, consumer # None => consumer' # None, running' => running
  PROVE  PolledInv'
<1>1. pc[x] \in CallerLabels
  BY DEF PolledInv, Labels
<1>2. pc[x] \notin Working
  BY <1>1 DEF CallerLabels, Starting, Shutting, Working
<1> QED BY <1>2, OneMoves, Threads

LEMMA ThreadMoves ==
  ASSUME PolledInv, NEW t \in Starts, NEW label \in PollLabels, Goto(t, label),
         consumer' = consumer, running' => running /\ (pc[t] \notin Working \/ label \in Working)
  PROVE  PolledInv'
BY OneMoves, Threads DEF PolledInv

LEMMA PolledCallers ==
  ASSUME PolledInv, NEW x \in Callers, Caller(x)
  PROVE  PolledInv'
<1> USE Threads
<1>1. CASE consumerStart(x)
  <2>1. CASE running
    <3>1. Goto(x, "idle") /\ consumer' = consumer /\ running' = running
      BY <1>1, <2>1 DEF consumerStart, kafkaVars, proxyVars
    <3>2. "idle" \in CallerLabels /\ "idle" \notin Starting
      BY DEF CallerLabels, Starting
    <3> QED BY <3>1, <3>2, CallerMoves DEF PolledInv
  <2>2. CASE ~running
    <3>1. /\ Goto(x, "watch") /\ running' = running
          /\ consumer' = consumer + 1 /\ consumer < MaxStarts
      BY <1>1, <2>2 DEF consumerStart, proxyVars
    <3>2. consumer' \in 0 .. MaxStarts /\ consumer' # None
      BY <3>1 DEF PolledInv, None
    <3>3. "watch" \in CallerLabels
      BY DEF CallerLabels, Starting
    <3> QED BY <3>1, <3>2, <3>3, CallerMoves
  <2> QED BY <2>1, <2>2
<1>2. CASE registerWatcher(x)
  <2>1. /\ Goto(x, "register") /\ consumer' = consumer /\ running' = running /\ pc[x] = "watch"
    BY <1>2 DEF registerWatcher, kafkaVars
  <2>2. {"watch", "register"} \subseteq Starting /\ "register" \in CallerLabels
    BY DEF Starting, CallerLabels
  <2> QED BY <2>1, <2>2, CallerMoves DEF PolledInv
<1>3. CASE register(x)
  <2>1. /\ consumer' = consumer /\ pc[x] = "register"
        /\ pc' = [pc EXCEPT ![x] = "first", ![Mine(x)] = "loop"]
    BY <1>3 DEF register, kafkaVars
  <2>2. consumer # None
    BY <2>1 DEF PolledInv, Starting
  <2>3. Mine(x) \in Starts
    BY <2>2 DEF Mine, PolledInv, None
  <2>4. /\ "first" \in CallerLabels /\ "loop" \in PollLabels /\ "loop" \in Working
    BY DEF CallerLabels, PollLabels, Starting, Working
  <2> HIDE DEF Mine
  <2>5. Labels' /\ pc'[Mine(x)] = "loop"
    BY <2>1, <2>3, <2>4 DEF PolledInv, Labels
  <2> QED BY <2>1, <2>2, <2>3, <2>4, <2>5 DEF PolledInv
<1>4. CASE startReturns(x)
  <2>1. PICK label \in {"failed", "idle"} : Goto(x, label)
    BY <1>4 DEF startReturns
  <2>2. consumer' = consumer /\ running' = running
    BY <1>4 DEF startReturns, kafkaVars
  <2>3. label \in CallerLabels /\ label \notin Starting
    BY <2>1 DEF CallerLabels, Starting
  <2> QED BY <2>1, <2>2, <2>3, CallerMoves DEF PolledInv
<1>5. CASE shutdown(x)
  <2>1. PICK label \in {"unwatch", "start", "stopped"} : Goto(x, label)
    BY <1>5 DEF shutdown, AfterShutdown
  <2>2. consumer' = consumer /\ ~running'
    BY <1>5 DEF shutdown, kafkaVars
  <2>3. label \in CallerLabels /\ label \notin Starting
    BY <2>1 DEF CallerLabels, Starting
  <2> QED BY <2>1, <2>2, <2>3, CallerMoves DEF PolledInv
<1>6. CASE unregisterWatcher(x)
  <2>1. Goto(x, "close") /\ consumer' = consumer /\ running' = running
    BY <1>6 DEF unregisterWatcher, kafkaVars
  <2>2. "close" \in CallerLabels /\ "close" \notin Starting
    BY DEF CallerLabels, Shutting, Starting
  <2> QED BY <2>1, <2>2, CallerMoves DEF PolledInv
<1> QED BY <1>1, <1>2, <1>3, <1>4, <1>5, <1>6 DEF Caller

LEMMA PolledThreads ==
  ASSUME PolledInv, NEW t \in Starts, PollThread(t)
  PROVE  PolledInv'
<1> USE Threads
<1>1. Working \subseteq PollLabels /\ "close" \in PollLabels
  BY DEF PollLabels, Shutting
<1>2. /\ {"loop", "poll", "polling", "submit", "commit", "finally", "unset"} = Working
  BY DEF Working
<1>3. ASSUME consumer' = consumer, running' = running, NEW label \in Working, Goto(t, label)
      PROVE  PolledInv'
  BY <1>1, <1>3, ThreadMoves
<1>4. CASE loop(t) \/ await(t) \/ finally(t)
  <2>1. consumer' = consumer /\ running' = running /\ \E label \in Working : Goto(t, label)
    BY <1>2, <1>4 DEF loop, await, finally, proxyVars, kafkaVars
  <2> QED BY <1>3, <2>1
<1>5. CASE poll(t) \/ pollReturns(t) \/ pollThrows(t)
  <2>1. consumer' = consumer /\ running' = running /\ \E label \in Working : Goto(t, label)
    BY <1>2, <1>5 DEF poll, pollReturns, pollThrows, Throw, proxyVars
  <2> QED BY <1>3, <2>1
<1>6. CASE submit(t) \/ commitOffsets(t)
  <2>1. /\ consumer' = consumer /\ running' = running
        /\ pc' = pc \/ \E label \in Working : Goto(t, label)
    BY <1>2, <1>6 DEF submit, commitOffsets, Throw, proxyVars, kafkaVars
  <2>2. CASE pc' = pc
    BY <2>1, <2>2 DEF PolledInv, Labels
  <2> QED BY <1>3, <2>1, <2>2
<1>7. CASE setRunning(t)
  <2>1. consumer' = consumer /\ ~running' /\ Goto(t, "close")
    BY <1>7 DEF setRunning, kafkaVars
  <2> QED BY <1>1, <2>1, ThreadMoves
<1> QED BY <1>4, <1>5, <1>6, <1>7 DEF PollThread

\* consumerShutdown is run by callers and by poll threads that work no more.
LEMMA PolledShutdown ==
  ASSUME PolledInv, NEW x \in Actors, ConsumerShutdown(x)
  PROVE  PolledInv'
<1> USE Threads
<1>1. /\ consumer' = consumer /\ running' = running /\ pc[x] \in Shutting
      /\ \E label \in Shutting \cup {"dead", "idle", "aborted", "start", "stopped"} :
           /\ Goto(x, label)
           /\ x \in Starts => label \in Shutting \cup {"dead"}
           /\ x \notin Starts => label # "dead"
  BY DEF ConsumerShutdown, close, nextPool, drain, AfterShutdown, proxyVars, kafkaVars, Shutting
<1>2. PICK label \in Shutting \cup {"dead", "idle", "aborted", "start", "stopped"} :
        /\ Goto(x, label)
        /\ x \in Starts => label \in Shutting \cup {"dead"}
        /\ x \notin Starts => label # "dead"
  BY <1>1
<1>3. pc[x] \notin Working /\ label \notin Starting
  BY <1>1, <1>2 DEF Shutting, Working, Starting
<1>4. CASE x \in Starts
  BY <1>1, <1>2, <1>3, <1>4, ThreadMoves DEF PollLabels
<1>5. CASE x \in Callers
  BY <1>1, <1>2, <1>3, <1>5, CallerMoves DEF CallerLabels, PolledInv
<1> QED BY <1>4, <1>5

LEMMA PolledInductive == Spec => []PolledInv
<1>1. PolledInv /\ [Next]_vars => PolledInv'
  <2> SUFFICES ASSUME PolledInv, [Next]_vars PROVE PolledInv'
    OBVIOUS
  <2> USE Threads
  <2>1. ASSUME pc' = pc, consumer' = consumer, running' = running
        PROVE  PolledInv'
    BY <2>1 DEF PolledInv, Labels
  <2>2. CASE UNCHANGED vars \/ ChangeMetadata \/ \E t \in Starts : PoolThread(t)
    BY <2>1, <2>2 DEF vars, ChangeMetadata, PoolThread, takeTask, finishTask, proxyVars, kafkaVars
  <2>3. CASE handleDataChange
    <3>1. PICK label \in {"idle", "stop"} : Goto(Zk, label)
      BY <2>3 DEF handleDataChange
    <3>2. label \in CallerLabels /\ label \notin Starting
      BY <3>1 DEF CallerLabels, Starting
    <3> QED BY <2>3, <3>1, <3>2, CallerMoves DEF handleDataChange, kafkaVars, PolledInv
  <2>4. CASE stopConsumer
    <3>1. PICK label \in {"stop", "stopped"} : Goto(User, label)
      BY <2>4 DEF stopConsumer
    <3>2. label \in CallerLabels /\ label \notin Starting
      BY <3>1 DEF CallerLabels, Starting
    <3> QED BY <2>4, <3>1, <3>2, CallerMoves DEF stopConsumer, kafkaVars, proxyVars, PolledInv
  <2>5. CASE \E t \in Starts : PollThread(t)
    BY <2>5, PolledThreads
  <2>6. CASE \E x \in Callers : Caller(x)
    BY <2>6, PolledCallers
  <2>7. CASE \E x \in Actors : ConsumerShutdown(x)
    BY <2>7, PolledShutdown
  <2> QED BY <2>2, <2>3, <2>4, <2>5, <2>6, <2>7 DEF Next
<1> QED BY <1>1, PolledInit, PTL DEF Spec

\* While a proxy says it runs, and so refuses to be started, a poll thread lives: however
\* often changes restart it while poll threads die of exceptions and the application stops
\* it (ZmsProxy.start, KafkaConsumerProxy's finally block).
THEOREM RunningHasThread == Spec => []RunningIsPolled
<1>1. PolledInv => RunningIsPolled
  BY DEF PolledInv, RunningIsPolled, Working
<1> QED BY <1>1, PolledInductive, PTL


(***************************************************************************)
(* Without changes of the metadata there is one start, the application's.  *)
(* CachedHasPolled is not inductive: it is decided when the first latch is *)
(* down and start returns.  A change can restart the proxy in between, and *)
(* then a poll thread that has polled nothing counts the latch down.       *)
(***************************************************************************)
Before == {"start", "watch", "register"}

\* Nothing has ever been changed, and nobody but the application starts anything.
Undisturbed ==
  /\ zkMetadata = 0 /\ ~notified /\ pc[Zk] = "idle"
  /\ \A t \in Starts : t # 1 => pc[t] = "none"

\* The application's start waits for the first latch of its poll thread, which goes down
\* before that thread clears running.
Subscribing ==
  \/ pc[User] \in Before /\ ~running /\ pc[1] = "none" /\ ~first[1]
  \/ pc[User] = "first" /\ pc[1] # "none" /\ (running \/ first[1])
  \/ pc[User] \notin Before \cup {"first"} /\ pc[1] # "none" /\ first[1]

\* The latch goes down after a round or after something was caught.
LatchDown ==
  /\ pc[1] \in Shutting \cup {"unset", "dead"} => first[1]
  /\ pc[1] = "finally" \/ first[1] => err[1] \/ rounds[1]

CachedInv ==
  /\ first \in [Starts -> BOOLEAN] /\ err \in [Starts -> BOOLEAN] /\ rounds \in [Starts -> BOOLEAN]
  /\ Undisturbed /\ Subscribing /\ LatchDown
  /\ CachedHasPolled

LEMMA CachedInit == Init => CachedInv
<1> SUFFICES ASSUME Init PROVE CachedInv
  OBVIOUS
<1> USE Threads
<1>1. pc[User] = "start" /\ pc[Zk] = "idle" /\ \A t \in Starts : pc[t] = "none"
  BY FirstPlaces
<1> QED BY <1>1 DEF Init, CachedInv, Undisturbed, Subscribing, LatchDown, Before, Shutting, CachedHasPolled

\* The application's thread: nothing but its start touches what the cache relies on.
LEMMA CachedUser ==
  ASSUME PolledInv, CachedInv, Caller(User)
  PROVE  CachedInv'
<1> USE Threads
<1> pc \in [Actors -> PollLabels \cup CallerLabels]
  BY DEF PolledInv, Labels
<1>1. CASE consumerStart(User)
  <2>1. pc[User] = "start" /\ ~running
    BY <1>1 DEF consumerStart, CachedInv, Subscribing, Before
  <2>2. /\ pc' = [pc EXCEPT ![User] = "watch"]
        /\ UNCHANGED <<zkMetadata, notified, running, first, err, rounds, cached>>
    BY <1>1, <2>1 DEF consumerStart, Goto, zkVars, proxyVars, firstVars
  <2> QED BY <2>1, <2>2
       DEF CachedInv, Undisturbed, Subscribing, LatchDown, Before, CachedHasPolled
<1>2. CASE registerWatcher(User)
  <2>1. /\ pc[User] = "watch" /\ pc' = [pc EXCEPT ![User] = "register"]
        /\ UNCHANGED <<zkMetadata, notified, running, first, err, rounds, cached>>
    BY <1>2 DEF registerWatcher, Goto, zkVars, firstVars
  <2> QED BY <2>1 DEF CachedInv, Undisturbed, Subscribing, LatchDown, Before, CachedHasPolled
<1>3. CASE register(User)
  <2>1. /\ pc[User] = "register" /\ pc' = [pc EXCEPT ![User] = "first", ![1] = "loop"] /\ running'
        /\ UNCHANGED <<zkMetadata, notified, first, err, rounds, cached>>
    BY <1>3 DEF register, Mine, zkVars, firstVars
  <2>2. /\ pc'[User] = "first" /\ pc'[1] = "loop"
        /\ \A x \in Actors : x # User /\ x # 1 => pc'[x] = pc[x]
    BY <2>1
  <2> QED BY <2>1, <2>2
       DEF CachedInv, Undisturbed, Subscribing, LatchDown, Before, Shutting, CachedHasPolled
<1>4. CASE startReturns(User)
  <2>1. /\ pc[User] = "first" /\ first[1]
        /\ cached' = (cached \/ ~err[1])
        /\ UNCHANGED <<zkMetadata, notified, running, first, err, rounds>>
    BY <1>4 DEF startReturns, Mine, zkVars, firstVars
  <2>2. PICK label \in {"failed", "idle"} : pc' = [pc EXCEPT ![User] = label]
    BY <1>4 DEF startReturns, Goto
  <2> QED BY <2>1, <2>2 DEF CachedInv, Undisturbed, Subscribing, LatchDown, Before, CachedHasPolled
<1>5. CASE shutdown(User) \/ unregisterWatcher(User)
  <2>1. /\ pc[User] \in {"stop", "unwatch"}
        /\ UNCHANGED <<zkMetadata, notified, first, err, rounds, cached>>
    BY <1>5 DEF shutdown, unregisterWatcher, zkVars, firstVars
  <2>2. PICK label \in {"unwatch", "stopped", "close"} : pc' = [pc EXCEPT ![User] = label]
    BY <1>5 DEF shutdown, unregisterWatcher, AfterShutdown, Goto
  <2> QED BY <2>1, <2>2 DEF CachedInv, Undisturbed, Subscribing, LatchDown, Before, CachedHasPolled
<1> QED BY <1>1, <1>2, <1>3, <1>4, <1>5 DEF Caller

LEMMA CachedThread ==
  ASSUME PolledInv, CachedInv, PollThread(1)
  PROVE  CachedInv'
<1> USE Threads
<1> pc \in [Actors -> PollLabels \cup CallerLabels]
  BY DEF PolledInv, Labels
<1>1. /\ pc[1] \in Working
      /\ UNCHANGED <<zkMetadata, notified, cached>>
  BY DEF PollThread, loop, poll, pollReturns, pollThrows, submit, await, commitOffsets, finally,
         setRunning, Working, zkVars, proxyVars
<1>2. pc[1] # "none"
  BY <1>1 DEF Working
<1>3. ASSUME NEW label \in Working, pc' = [pc EXCEPT ![1] = label],
             label = "finally" => err'[1] \/ rounds'[1],
             label = "unset" => first'[1],
             running' = running, err' \in [Starts -> BOOLEAN], err[1] => err'[1],
             \/ UNCHANGED <<first, rounds>>
             \/ first' = [first EXCEPT ![1] = TRUE] /\ rounds' = [rounds EXCEPT ![1] = TRUE]
             \/ first' = [first EXCEPT ![1] = TRUE] /\ rounds' = rounds /\ (err'[1] \/ rounds'[1])
      PROVE  CachedInv'
  <2>1. label \notin Shutting \cup {"none", "dead"}
    BY <1>3 DEF Working, Shutting
  <2>2. /\ first' \in [Starts -> BOOLEAN] /\ rounds' \in [Starts -> BOOLEAN]
        /\ first[1] => first'[1]
        /\ rounds[1] => rounds'[1]
        /\ first'[1] => err'[1] \/ rounds'[1]
    BY <1>3 DEF CachedInv, LatchDown
  <2>3. /\ pc'[1] = label
        /\ \A x \in Actors : x # 1 => pc'[x] = pc[x]
    BY <1>3
  <2>4. Undisturbed' /\ CachedHasPolled'
    BY <1>1, <2>2, <2>3 DEF CachedInv, Undisturbed, CachedHasPolled
  <2>5. LatchDown'
    BY <1>3, <2>1, <2>2, <2>3 DEF LatchDown
  <2>6. Subscribing'
    BY <1>2, <1>3, <2>1, <2>2, <2>3 DEF CachedInv, Subscribing
  <2> QED BY <1>3, <2>2, <2>4, <2>5, <2>6 DEF CachedInv
<1>4. {"loop", "poll", "polling", "submit", "commit", "finally", "unset"} = Working
  BY DEF Working
<1>5. CASE loop(1)
  <2>1. /\ pc[1] = "loop" /\ UNCHANGED <<running, first, err, rounds>>
        /\ pc' = [pc EXCEPT ![1] = IF running THEN "poll" ELSE "finally"]
    BY <1>5 DEF loop, Goto, proxyVars, firstVars
  <2>2. ~running => first[1] /\ (err[1] \/ rounds[1])
    BY <1>2 DEF CachedInv, Subscribing, LatchDown
  <2> QED BY <1>3, <1>4, <2>1, <2>2 DEF CachedInv
<1>6. CASE await(1)
  BY <1>3, <1>4, <1>6 DEF await, Goto, proxyVars, firstVars, CachedInv
<1>7. CASE finally(1)
  <2>1. /\ pc[1] = "finally" /\ pc' = [pc EXCEPT ![1] = "unset"]
        /\ first' = [first EXCEPT ![1] = TRUE] /\ UNCHANGED <<running, err, rounds>>
    BY <1>7 DEF finally, Goto, proxyVars
  <2> QED BY <1>3, <1>4, <2>1 DEF CachedInv, LatchDown
<1>8. CASE commitOffsets(1)
  <2>1. CASE Throw(1) /\ UNCHANGED <<first, rounds>>
    BY <1>3, <1>4, <1>8, <2>1 DEF commitOffsets, Throw, Goto, proxyVars, CachedInv
  <2>2. CASE /\ Goto(1, "loop") /\ first' = [first EXCEPT ![1] = TRUE]
             /\ rounds' = [rounds EXCEPT ![1] = TRUE] /\ err' = err
    BY <1>3, <1>4, <1>8, <2>2 DEF commitOffsets, Goto, proxyVars, CachedInv
  <2> QED BY <1>8, <2>1, <2>2 DEF commitOffsets
<1>9. CASE poll(1) \/ pollReturns(1) \/ pollThrows(1) \/ submit(1)
  <2>1. UNCHANGED <<running, first, rounds>>
    BY <1>9 DEF poll, pollReturns, pollThrows, submit, proxyVars, firstVars
  <2>2. \/ Throw(1)
        \/ err' = err /\ pc' = pc
        \/ err' = err /\ \E label \in Working \ {"finally", "unset"} : Goto(1, label)
    BY <1>4, <1>9 DEF poll, pollReturns, pollThrows, submit, firstVars
  <2>3. CASE Throw(1)
    BY <1>3, <1>4, <2>1, <2>3 DEF Throw, Goto, CachedInv
  <2>4. CASE err' = err /\ pc' = pc
    BY <1>1, <2>1, <2>4 DEF CachedInv, Undisturbed, Subscribing, LatchDown, CachedHasPolled
  <2>5. CASE err' = err /\ \E label \in Working \ {"finally", "unset"} : Goto(1, label)
    BY <1>3, <2>1, <2>5 DEF Goto, CachedInv
  <2> QED BY <2>2, <2>3, <2>4, <2>5
<1>10. CASE setRunning(1)
  <2>1. /\ pc[1] = "unset" /\ pc' = [pc EXCEPT ![1] = "close"] /\ UNCHANGED <<first, err, rounds>>
    BY <1>10 DEF setRunning, Goto, firstVars
  <2>2. first[1]
    BY <2>1 DEF CachedInv, LatchDown
  <2> QED BY <1>1, <1>2, <2>1, <2>2
       DEF CachedInv, Undisturbed, Subscribing, LatchDown, Before, CachedHasPolled
<1> QED BY <1>5, <1>6, <1>7, <1>8, <1>9, <1>10 DEF PollThread

LEMMA CachedShutdown ==
  ASSUME PolledInv, CachedInv, NEW x \in {1, User}, ConsumerShutdown(x)
  PROVE  CachedInv'
<1> USE Threads
<1> pc \in [Actors -> PollLabels \cup CallerLabels]
  BY DEF PolledInv, Labels
<1>1. /\ pc[x] \in Shutting /\ (cached' => cached)
      /\ UNCHANGED <<zkMetadata, notified, running, first, err, rounds>>
  <2>1. UNCHANGED <<zkMetadata, notified, running, first, err, rounds>>
    BY DEF ConsumerShutdown, close, nextPool, drain, zkVars, proxyVars, firstVars
  <2>2. pc[x] \in Shutting
    BY DEF ConsumerShutdown, close, nextPool, drain, Shutting
  <2>3. cached' => cached
    <3>1. close(x) \/ drain(x) => cached' = cached
      BY DEF close, drain, proxyVars
    <3>2. nextPool(x) => cached' = cached \/ cached' = (cached /\ x \in Starts)
      BY Zenon DEF nextPool
    <3> QED BY <3>1, <3>2, Zenon DEF ConsumerShutdown
  <2> QED BY <2>1, <2>2, <2>3
<1>2. PICK label \in Shutting \cup {"dead", "idle", "stopped", "aborted"} :
        pc' = [pc EXCEPT ![x] = label]
  <2>1. x # Zk /\ AfterShutdown(x) = "stopped"
    BY DEF AfterShutdown
  <2>2. \E label \in Shutting \cup {"dead", "idle", "stopped", "aborted"} : Goto(x, label)
    BY <2>1 DEF ConsumerShutdown, close, nextPool, drain, Shutting
  <2> QED BY <2>2 DEF Goto
<1>3. CASE x = 1
  <2>1. first[1] /\ pc[1] # "none"
    BY <1>1, <1>3 DEF CachedInv, LatchDown, Shutting
  <2>2. label # "none" /\ label # "finally"
    BY <1>2 DEF Shutting
  <2> QED BY <1>1, <1>2, <1>3, <2>1, <2>2
       DEF CachedInv, Undisturbed, Subscribing, LatchDown, CachedHasPolled
<1>4. CASE x = User
  <2>1. pc[User] \notin Before \cup {"first"} /\ label \notin Before \cup {"first"}
    BY <1>1, <1>2, <1>4 DEF Before, Shutting
  <2> QED BY <1>1, <1>2, <1>4, <2>1
       DEF CachedInv, Undisturbed, Subscribing, LatchDown, CachedHasPolled
<1> QED BY <1>3, <1>4

LEMMA CachedInductive ==
  ASSUME MaxChanges = 0
  PROVE  Spec => []CachedInv
<1>1. PolledInv /\ CachedInv /\ [Next]_vars => CachedInv'
  <2> SUFFICES ASSUME PolledInv, CachedInv, [Next]_vars PROVE CachedInv'
    OBVIOUS
  <2> USE Threads
  <2>1. ASSUME UNCHANGED <<pc, zkMetadata, notified, running, cached, first, err, rounds>>
        PROVE  CachedInv'
    BY <2>1 DEF CachedInv, Undisturbed, Subscribing, LatchDown, CachedHasPolled
  <2>2. CASE UNCHANGED vars \/ \E t \in Starts : PoolThread(t)
    BY <2>1, <2>2 DEF vars, PoolThread, takeTask, finishTask, zkVars, proxyVars, firstVars
  <2>3. ~ChangeMetadata /\ ~handleDataChange
    BY DEF ChangeMetadata, handleDataChange, CachedInv, Undisturbed
  <2>4. CASE stopConsumer
    <3>1. /\ pc[User] = "idle" /\ UNCHANGED <<zkMetadata, notified, running, cached, first, err, rounds>>
      BY <2>4 DEF stopConsumer, zkVars, proxyVars, firstVars
    <3>2. PICK label \in {"stop", "stopped"} : pc' = [pc EXCEPT ![User] = label]
      BY <2>4 DEF stopConsumer, Goto
    <3>3. pc \in [Actors -> PollLabels \cup CallerLabels]
      BY DEF PolledInv, Labels
    <3> QED BY <3>1, <3>2, <3>3
         DEF CachedInv, Undisturbed, Subscribing, LatchDown, Before, CachedHasPolled
  <2>5. ASSUME NEW t \in Starts, PollThread(t) PROVE CachedInv'
    <3>1. pc[t] # "none"
      BY <2>5 DEF PollThread, loop, poll, pollReturns, pollThrows, submit, await, commitOffsets,
                  finally, setRunning
    <3>2. t = 1
      BY <3>1 DEF CachedInv, Undisturbed
    <3> QED BY <2>5, <3>2, CachedThread
  <2>6. ASSUME NEW x \in Callers, Caller(x) PROVE CachedInv'
    <3>1. pc[x] # "idle"
      BY <2>6 DEF Caller, consumerStart, registerWatcher, register, startReturns, shutdown,
                  unregisterWatcher
    <3>2. x = User
      BY <3>1 DEF CachedInv, Undisturbed, Callers
    <3> QED BY <2>6, <3>2, CachedUser
  <2>7. ASSUME NEW x \in Actors, ConsumerShutdown(x) PROVE CachedInv'
    <3>1. pc[x] # "idle" /\ pc[x] # "none"
      BY <2>7 DEF ConsumerShutdown, close, nextPool, drain
    <3>2. x \in {1, User}
      BY <3>1 DEF CachedInv, Undisturbed, Callers
    <3> QED BY <2>7, <3>2, CachedShutdown
  <2> QED BY <2>2, <2>3, <2>4, <2>5, <2>6, <2>7 DEF Next
<1> QED BY <1>1, CachedInit, PolledInductive, PTL DEF Spec

\* Without changes of the metadata, the factory caches only a proxy that has finished a round
\* of polling without an exception, whenever it polls, fails and is stopped (register's
\* latch and the exception that start throws, KafkaConsumerProxy; ConsumerFactory).
THEOREM CachedAfterPoll == MaxChanges = 0 => (Spec => []CachedHasPolled)
<1> SUFFICES ASSUME MaxChanges = 0 PROVE Spec => []CachedHasPolled
  OBVIOUS
<1>1. Spec => []CachedInv
  BY CachedInductive
<1>2. CachedInv => CachedHasPolled
  BY DEF CachedInv
<1> QED BY <1>1, <1>2, PTL


(***************************************************************************)
(* TypeOK is not inductive: a latch may only be counted down by tasks it   *)
(* counts, consumerShutdown needs a consumer to close, and its loop a pool *)
(* under the cursor.  The first rests on how tasks and latches correspond, *)
(* the second on who starts what, the third on the iterators that a change *)
(* of the list invalidates.                                                *)
(***************************************************************************)

\* The application starts the proxy once, as number 1 and before anything else can happen;
\* after that only the event thread makes further starts, and each has a thread of its own.
Quiet == ~watched /\ ~notified /\ ~running /\ pc[Zk] = "idle"
StartInv ==
  /\ pc[User] = "start" <=> consumer = None
  /\ pc[User] \in {"start", "watch"} => Quiet
  /\ pc[User] \in {"start", "watch", "register"} => pc[1] = "none"
  /\ pc[Zk] \in {"watch", "register"} => consumer > 1 /\ pc[consumer] = "none"
  /\ \A t \in Starts : t > consumer => pc[t] = "none"

\* An iterator that is still valid has not run past the end of the list.
CursorInv ==
  /\ executors \in Seq(Starts) /\ pool \in [Starts -> {"none", "up", "down"}]
  /\ iter \in [Actors -> Nat \ {0}] /\ dirty \subseteq Actors
  /\ draining \in [Actors -> Starts \cup {None}]
  /\ \A x \in Actors :
       /\ pc[x] \notin {"pools", "drain"} => iter[x] = 1 /\ x \notin dirty
       /\ pc[x] = "pools" => x \in dirty \/ iter[x] <= Len(executors) + 1
       /\ pc[x] = "drain" => draining[x] \in Starts /\ (x \in dirty \/ iter[x] <= Len(executors))

\* The tasks of poll thread t in the pools with queues q and running tasks b, by their
\* places; the one that runs is at 0.
Places(q, b, t, g) == {i \in 0 .. Len(q[g]) : (IF i = 0 THEN b[g] ELSE q[g][i]) = t}
Tasks(q, b, t) == UNION {{g} \X Places(q, b, t, g) : g \in Starts}

\* A latch counts at least the tasks of its batch and the records still to be submitted, and
\* a thread that polls has none of either.
Counted(q, b, n, m, t) ==
  /\ IsFiniteSet(Tasks(q, b, t))
  /\ Cardinality(Tasks(q, b, t)) + m <= n
Unladen == {"none", "loop", "poll", "polling", "commit"}
TaskInv ==
  /\ queue \in [Starts -> Seq(Starts)] /\ busy \in [Starts -> Starts \cup {None}]
  /\ latch \in [Starts -> 0 .. BatchSize] /\ unsubmitted \in [Starts -> 0 .. BatchSize]
  /\ partition \in [Starts -> Partitions]
  /\ \A t \in Starts :
       /\ Counted(queue, busy, latch[t], unsubmitted[t], t)
       /\ pc[t] \in Unladen => latch[t] = 0

\* What is left of TypeOK.
RestInv ==
  /\ zkMetadata \in 0 .. MaxChanges /\ metadata \in 0 .. MaxChanges
  /\ notified \in BOOLEAN /\ watched \in BOOLEAN /\ running \in BOOLEAN /\ cached \in BOOLEAN
  /\ version \in [Starts -> 0 .. MaxChanges]
  /\ inside \in [Starts -> Starts \cup {None}]
  /\ woken \subseteq Starts /\ closed \subseteq Starts /\ dropped \subseteq Starts
  /\ acks \subseteq Starts
  /\ first \in [Starts -> BOOLEAN] /\ err \in [Starts -> BOOLEAN] /\ rounds \in [Starts -> BOOLEAN]
  /\ batches \in 0 .. MaxBatches /\ errors \in 0 .. MaxErrors

-----------------------------------------------------------------------------
(* Who starts what *)

LEMMA StartBegins == Init => StartInv
<1> SUFFICES ASSUME Init PROVE StartInv
  OBVIOUS
<1>1. pc[User] = "start" /\ pc[Zk] = "idle" /\ \A t \in Starts : pc[t] = "none"
  BY FirstPlaces
<1>2. consumer = None /\ ~watched /\ ~notified /\ ~running
  BY DEF Init
<1> QED BY <1>1, <1>2, Threads DEF StartInv, Quiet

\* A poll thread that has been started moves.
LEMMA ThreadKeepsStarts ==
  ASSUME PolledInv, StartInv, NEW t \in Starts, pc[t] # "none", NEW label,
         Goto(t, label) \/ pc' = pc, UNCHANGED <<consumer, watched, notified>>, running' => running
  PROVE  StartInv'
<1> USE Threads
<1>1. \A x \in Actors : x # t => pc'[x] = pc[x]
  BY DEF Goto, PolledInv, Labels
<1>2. pc'[User] = pc[User] /\ pc'[Zk] = pc[Zk]
  BY <1>1
<1>3. consumer \in Nat
  BY DEF PolledInv
<1>4. \A g \in Starts : pc[g] = "none" => pc'[g] = "none"
  BY <1>1
<1>5. pc[Zk] \in {"watch", "register"} => consumer \in Starts
  BY <1>3 DEF PolledInv, StartInv
<1> QED BY <1>2, <1>3, <1>4, <1>5 DEF StartInv, Quiet

\* A caller that is not starting anything moves.
LEMMA CallerKeepsStarts ==
  ASSUME PolledInv, StartInv, NEW x \in Callers, NEW label, Goto(x, label),
         label \notin {"watch", "register"}, x = User => label # "start",
         pc[User] \notin {"start", "watch"}, consumer' = consumer
  PROVE  StartInv'
<1> USE Threads
<1>1. x \in {User, Zk} /\ x \notin Starts
  BY DEF Callers
<1>2. \A y \in Actors : pc'[y] = IF y = x THEN label ELSE pc[y]
  BY DEF Goto, PolledInv, Labels
<1>3. \A t \in Starts : pc'[t] = pc[t]
  BY <1>1, <1>2
<1>4. CASE x = User
  <2>1. pc'[User] = label /\ pc'[Zk] = pc[Zk]
    BY <1>2, <1>4
  <2>2. pc[Zk] \in {"watch", "register"} => consumer \in Starts
    BY DEF PolledInv, StartInv
  <2> QED BY <1>3, <1>4, <2>1, <2>2 DEF StartInv
<1>5. CASE x = Zk
  <2>1. pc'[User] = pc[User] /\ pc'[Zk] = label
    BY <1>2, <1>5
  <2> QED BY <1>3, <1>5, <2>1 DEF StartInv
<1> QED BY <1>1, <1>4, <1>5

LEMMA CallersKeepStarts ==
  ASSUME PolledInv, StartInv, NEW x \in Callers, Caller(x)
  PROVE  StartInv'
<1> USE Threads
<1>1. /\ x \in {User, Zk} /\ User \notin Starts /\ Zk \notin Starts
      /\ consumer \in Nat /\ pc \in [Actors -> PollLabels \cup CallerLabels]
  BY DEF Callers, PolledInv, Labels
<1>2. CASE consumerStart(x) /\ running
  <2>1. Goto(x, "idle") /\ consumer' = consumer /\ pc[User] \notin {"start", "watch"}
    BY <1>2 DEF consumerStart, kafkaVars, StartInv, Quiet
  <2> QED BY <2>1, CallerKeepsStarts
<1>3. CASE consumerStart(x) /\ ~running
  <2>1. /\ pc[x] = "start" /\ Goto(x, "watch") /\ consumer' = consumer + 1
        /\ UNCHANGED <<watched, notified, running>>
    BY <1>3 DEF consumerStart, zkVars, proxyVars
  <2>2. \A y \in Actors : pc'[y] = IF y = x THEN "watch" ELSE pc[y]
    BY <1>1, <2>1 DEF Goto
  <2>3. CASE x = User
    <3>1. pc[User] = "start" /\ consumer = None /\ Quiet
      BY <2>1, <2>3 DEF StartInv
    <3>2. pc'[User] = "watch" /\ pc'[Zk] = pc[Zk] /\ \A t \in Starts : pc'[t] = pc[t]
      BY <1>1, <2>2, <2>3
    <3> QED BY <2>1, <3>1, <3>2 DEF StartInv, Quiet, None
  <2>4. CASE x = Zk
    <3>1. pc[User] \notin {"start", "watch"} /\ consumer # None
      BY <2>1, <2>4 DEF StartInv, Quiet
    <3>2. pc'[Zk] = "watch" /\ pc'[User] = pc[User] /\ \A t \in Starts : pc'[t] = pc[t]
      BY <1>1, <2>2, <2>4
    <3>3. consumer' \in Starts /\ consumer' > 1 /\ consumer' > consumer
      BY <1>1, <1>3, <2>1, <3>1 DEF None, consumerStart
    <3> QED BY <1>1, <2>1, <3>1, <3>2, <3>3 DEF StartInv, None
  <2> QED BY <1>1, <2>3, <2>4
<1>4. CASE registerWatcher(x)
  <2>1. /\ pc[x] = "watch" /\ Goto(x, "register") /\ consumer' = consumer
        /\ UNCHANGED <<notified, running>>
    BY <1>4 DEF registerWatcher, kafkaVars, zkVars
  <2>2. \A y \in Actors : pc'[y] = IF y = x THEN "register" ELSE pc[y]
    BY <1>1, <2>1 DEF Goto
  <2>3. \A t \in Starts : pc'[t] = pc[t]
    BY <1>1, <2>2
  <2>4. CASE x = User
    <3>1. pc'[User] = "register" /\ pc'[Zk] = pc[Zk] /\ pc[User] = "watch"
      BY <2>1, <2>2, <2>4
    <3>2. pc[Zk] = "idle"
      BY <3>1 DEF StartInv, Quiet
    <3> QED BY <2>1, <2>3, <3>1, <3>2 DEF StartInv
  <2>5. CASE x = Zk
    <3>1. pc'[Zk] = "register" /\ pc'[User] = pc[User] /\ pc[Zk] = "watch"
      BY <2>1, <2>2, <2>5
    <3>2. pc[User] \notin {"start", "watch"} /\ consumer > 1 /\ pc[consumer] = "none"
      BY <3>1 DEF StartInv, Quiet
    <3>3. consumer \in Starts
      BY <1>1, <3>2 DEF PolledInv
    <3> QED BY <2>1, <2>3, <3>1, <3>2, <3>3 DEF StartInv
  <2> QED BY <1>1, <2>4, <2>5
<1>5. CASE register(x)
  <2>1. /\ pc[x] = "register" /\ pc' = [pc EXCEPT ![x] = "first", ![Mine(x)] = "loop"]
        /\ consumer' = consumer
    BY <1>5 DEF register, kafkaVars
  <2>2. consumer # None /\ consumer \in Starts
    BY <1>1, <2>1 DEF PolledInv, Starting, None
  <2>3. pc[User] \notin {"start", "watch"}
    BY <1>1, <2>1 DEF StartInv, Quiet
  <2>4. CASE x = User
    <3>1. Mine(x) = 1
      BY <2>4 DEF Mine
    <3>2. /\ pc'[User] = "first" /\ pc'[1] = "loop" /\ pc'[Zk] = pc[Zk]
          /\ \A t \in Starts : t # 1 => pc'[t] = pc[t]
      BY <1>1, <2>1, <2>4, <3>1
    <3> QED BY <1>1, <2>1, <2>2, <2>3, <3>2 DEF StartInv, None
  <2>5. CASE x = Zk
    <3>1. Mine(x) = consumer
      BY <2>5 DEF Mine
    <3>2. /\ pc'[Zk] = "first" /\ pc'[consumer] = "loop" /\ pc'[User] = pc[User]
          /\ \A t \in Starts : t # consumer => pc'[t] = pc[t]
      BY <1>1, <2>1, <2>2, <2>5, <3>1
    <3>3. consumer > 1
      BY <2>1, <2>5 DEF StartInv
    <3> QED BY <1>1, <2>1, <2>2, <2>3, <3>2, <3>3 DEF StartInv, None
  <2> QED BY <1>1, <2>4, <2>5
<1>6. CASE startReturns(x) \/ shutdown(x) \/ unregisterWatcher(x)
  <2>1. /\ pc[x] \in {"first", "stop", "unwatch"} /\ consumer' = consumer
        /\ \E label \in {"failed", "idle", "unwatch", "start", "stopped", "close"} :
             Goto(x, label) /\ (x = User => label # "start")
    BY <1>6 DEF startReturns, shutdown, unregisterWatcher, AfterShutdown, kafkaVars
  <2>2. pc[User] \notin {"start", "watch"}
    BY <1>1, <2>1 DEF StartInv, Quiet
  <2> QED BY <2>1, <2>2, CallerKeepsStarts
<1> QED BY <1>2, <1>3, <1>4, <1>5, <1>6 DEF Caller

LEMMA StartInvInductive == Spec => []StartInv
<1>1. PolledInv /\ StartInv /\ [Next]_vars => StartInv'
  <2> SUFFICES ASSUME PolledInv, StartInv, [Next]_vars PROVE StartInv'
    OBVIOUS
  <2> USE Threads
  <2>1. CASE UNCHANGED vars \/ ChangeMetadata \/ \E t \in Starts : PoolThread(t)
    <3>1. UNCHANGED <<pc, consumer, running, watched>>
      BY <2>1 DEF vars, ChangeMetadata, PoolThread, takeTask, finishTask, proxyVars, kafkaVars
    <3>2. notified' = notified \/ notified' = (notified \/ watched)
      BY <2>1 DEF vars, ChangeMetadata, PoolThread, takeTask, finishTask, zkVars
    <3>3. Quiet => ~notified'
      BY <3>2, Zenon DEF Quiet
    <3> QED BY <3>1, <3>3 DEF StartInv, Quiet
  <2>2. CASE handleDataChange
    <3>1. PICK label \in {"idle", "stop"} : Goto(Zk, label)
      BY <2>2 DEF handleDataChange
    <3>2. pc[User] \notin {"start", "watch"} /\ consumer' = consumer
      BY <2>2 DEF handleDataChange, StartInv, Quiet, kafkaVars
    <3> QED BY <3>1, <3>2, CallerKeepsStarts
  <2>3. CASE stopConsumer
    <3>1. PICK label \in {"stop", "stopped"} : Goto(User, label)
      BY <2>3 DEF stopConsumer
    <3>2. pc[User] \notin {"start", "watch"} /\ consumer' = consumer
      BY <2>3 DEF stopConsumer, kafkaVars
    <3> QED BY <3>1, <3>2, CallerKeepsStarts
  <2>4. ASSUME NEW t \in Starts, PollThread(t) PROVE StartInv'
    <3>1. pc[t] # "none" /\ UNCHANGED <<consumer, watched, notified>> /\ (running' => running)
      BY <2>4 DEF PollThread, loop, poll, pollReturns, pollThrows, submit, await, commitOffsets,
                  finally, setRunning, zkVars, proxyVars, kafkaVars
    <3>2. (\E label : Goto(t, label)) \/ pc' = pc
      BY <2>4 DEF PollThread, loop, poll, pollReturns, pollThrows, submit, await, commitOffsets,
                  finally, setRunning, Throw
    <3> QED BY <3>1, <3>2, ThreadKeepsStarts
  <2>5. CASE \E x \in Callers : Caller(x)
    BY <2>5, CallersKeepStarts
  <2>6. ASSUME NEW x \in Actors, ConsumerShutdown(x) PROVE StartInv'
    <3>1. /\ pc[x] \in Shutting /\ UNCHANGED <<consumer, watched, notified, running>>
      BY <2>6 DEF ConsumerShutdown, close, nextPool, drain, zkVars, proxyVars, kafkaVars, Shutting
    <3>2. PICK label : /\ Goto(x, label) /\ label \notin {"watch", "register"}
                       /\ x = User => label # "start"
      BY <2>6 DEF ConsumerShutdown, close, nextPool, drain, AfterShutdown
    <3>3. CASE x \in Starts
      <4>1. pc[x] # "none"
        BY <3>1 DEF Shutting
      <4> QED BY <3>1, <3>2, <3>3, <4>1, ThreadKeepsStarts
    <3>4. CASE x \in Callers
      <4>1. x \in {User, Zk}
        BY <3>4 DEF Callers
      <4>2. pc[User] \notin {"start", "watch"}
        BY <3>1, <4>1 DEF StartInv, Quiet, Shutting
      <4> QED BY <3>1, <3>2, <3>4, <4>2, CallerKeepsStarts
    <3> QED BY <3>3, <3>4
  <2> QED BY <2>1, <2>2, <2>3, <2>4, <2>5, <2>6 DEF Next
<1> QED BY <1>1, StartBegins, PolledInductive, PTL DEF Spec

-----------------------------------------------------------------------------
(* The cursors of consumerShutdown *)

LEMMA CursorBegins == Init => CursorInv
<1> SUFFICES ASSUME Init PROVE CursorInv
  OBVIOUS
<1>1. \A x \in Actors : pc[x] \in {"start", "idle", "none"}
  BY FirstPlaces, Threads DEF Callers
<1>2. /\ executors = <<>> /\ pool = [g \in Starts |-> "none"] /\ iter = [x \in Actors |-> 1]
      /\ dirty = {} /\ draining = [x \in Actors |-> None]
  BY DEF Init
<1> QED BY <1>1, <1>2 DEF CursorInv

\* Who enters the loop begins at its first pool.
LEMMA CursorKept ==
  ASSUME CursorInv, UNCHANGED <<executors, pool, iter, dirty, draining>>,
         \A y \in Actors : \/ pc'[y] = pc[y]
                           \/ pc[y] \notin {"pools", "drain"} /\ pc'[y] # "drain"
  PROVE  CursorInv'
<1>1. Len(executors) \in Nat
  BY DEF CursorInv
<1>2. ASSUME NEW x \in Actors
      PROVE  /\ pc'[x] \notin {"pools", "drain"} => iter'[x] = 1 /\ x \notin dirty'
             /\ pc'[x] = "pools" => x \in dirty' \/ iter'[x] <= Len(executors') + 1
             /\ pc'[x] = "drain" => /\ draining'[x] \in Starts
                                    /\ x \in dirty' \/ iter'[x] <= Len(executors')
  BY <1>1 DEF CursorInv
<1> QED BY <1>2 DEF CursorInv

LEMMA OneMoved ==
  ASSUME PolledInv, NEW x \in Actors, NEW label, Goto(x, label)
  PROVE  \A y \in Actors : pc'[y] = IF y = x THEN label ELSE pc[y]
BY DEF Goto, PolledInv, Labels

\* A change of the list leaves those that have not begun where they are and invalidates the
\* others' iterators.
LEMMA ListChanged ==
  ASSUME PolledInv, CursorInv, NEW x \in Actors, NEW label, Goto(x, label),
         label \notin {"pools", "drain"}, NEW list \in Seq(Starts), executors' = list,
         dirty' = (dirty \cup Iterating(x)) \ {x},
         iter' \in [Actors -> Nat \ {0}], iter'[x] = 1, \A y \in Actors : y # x => iter'[y] = iter[y],
         pool' \in [Starts -> {"none", "up", "down"}], draining' = draining
  PROVE  CursorInv'
<1>1. \A y \in Actors : pc'[y] = IF y = x THEN label ELSE pc[y]
  BY OneMoved
<1>2. Len(list) \in Nat
  OBVIOUS
<1>3. dirty' \subseteq Actors
  BY DEF CursorInv, Iterating
<1>4. ASSUME NEW y \in Actors
      PROVE  /\ pc'[y] \notin {"pools", "drain"} => iter'[y] = 1 /\ y \notin dirty'
             /\ pc'[y] = "pools" => y \in dirty' \/ iter'[y] <= Len(list) + 1
             /\ pc'[y] = "drain" => /\ draining'[y] \in Starts
                                    /\ y \in dirty' \/ iter'[y] <= Len(list)
  <2>1. CASE y = x
    BY <1>1, <2>1
  <2>2. CASE y # x
    <3>1. pc'[y] = pc[y] /\ iter'[y] = iter[y] /\ iter[y] \in Nat \ {0}
      BY <1>1, <2>2 DEF CursorInv
    <3>2. y \in dirty' <=> y \in dirty \cup Iterating(x)
      BY <2>2
    <3>3. pc[y] = "drain" => y \in dirty'
      BY <2>2, <3>2 DEF Iterating
    <3>4. pc[y] = "pools" => y \in dirty' \/ iter[y] = 1
      BY <2>2, <3>1, <3>2 DEF Iterating
    <3>5. pc[y] \notin {"pools", "drain"} => iter[y] = 1 /\ y \notin dirty'
      BY <3>2 DEF CursorInv, Iterating
    <3>6. pc[y] = "drain" => draining[y] \in Starts
      BY DEF CursorInv
    <3> QED BY <1>2, <3>1, <3>3, <3>4, <3>5, <3>6
  <2> QED BY <2>1, <2>2
<1> QED BY <1>3, <1>4 DEF CursorInv

\* A step of one thread that leaves the list and the others' iterators alone.
LEMMA CursorMoves ==
  ASSUME PolledInv, CursorInv, NEW x \in Actors, NEW label, Goto(x, label), executors' = executors,
         pool' \in [Starts -> {"none", "up", "down"}], dirty' \in {dirty, dirty \ {x}},
         NEW n \in Nat \ {0}, iter' = [iter EXCEPT ![x] = n],
         NEW g \in Starts \cup {None}, draining' = [draining EXCEPT ![x] = g],
         label \notin {"pools", "drain"} => n = 1 /\ x \notin dirty',
         label = "pools" => x \in dirty' \/ n <= Len(executors) + 1,
         label = "drain" => g \in Starts /\ (x \in dirty' \/ n <= Len(executors))
  PROVE  CursorInv'
<1>1. \A y \in Actors : pc'[y] = IF y = x THEN label ELSE pc[y]
  BY OneMoved
<1>2. /\ iter' \in [Actors -> Nat \ {0}] /\ draining' \in [Actors -> Starts \cup {None}]
      /\ dirty' \subseteq Actors
      /\ iter'[x] = n /\ draining'[x] = g
      /\ \A y \in Actors : y # x => /\ iter'[y] = iter[y] /\ draining'[y] = draining[y]
                                    /\ y \in dirty' <=> y \in dirty
  BY DEF CursorInv
<1>3. ASSUME NEW y \in Actors
      PROVE  /\ pc'[y] \notin {"pools", "drain"} => iter'[y] = 1 /\ y \notin dirty'
             /\ pc'[y] = "pools" => y \in dirty' \/ iter'[y] <= Len(executors) + 1
             /\ pc'[y] = "drain" => /\ draining'[y] \in Starts
                                    /\ y \in dirty' \/ iter'[y] <= Len(executors)
  <2>1. CASE y = x
    BY <1>1, <1>2, <2>1
  <2>2. CASE y # x
    BY <1>1, <1>2, <2>2 DEF CursorInv
  <2> QED BY <2>1, <2>2
<1> QED BY <1>2, <1>3 DEF CursorInv

LEMMA CallersKeepCursors ==
  ASSUME PolledInv, StartInv, CursorInv, NEW x \in Callers, Caller(x)
  PROVE  CursorInv'
<1> USE Threads
<1> x \in Actors
  OBVIOUS
<1>1. CASE consumerStart(x) /\ ~running
  <2>1. /\ pc[x] = "start" /\ Goto(x, "watch") /\ consumer < MaxStarts /\ consumer' = consumer + 1
        /\ pool' = [pool EXCEPT ![consumer'] = "up"] /\ executors' = Append(executors, consumer')
        /\ dirty' = dirty \cup Iterating(x) /\ UNCHANGED <<iter, draining>>
    BY <1>1 DEF consumerStart
  <2>2. consumer' \in Starts
    BY <2>1 DEF PolledInv
  <2>3. Append(executors, consumer') \in Seq(Starts) /\ pool' \in [Starts -> {"none", "up", "down"}]
    BY <2>1, <2>2 DEF CursorInv
  <2>4. iter[x] = 1 /\ x \notin dirty /\ x \notin Iterating(x)
    BY <2>1 DEF CursorInv, Iterating
  <2>5. dirty' = (dirty \cup Iterating(x)) \ {x}
    BY <2>1, <2>4
  <2>6. iter' \in [Actors -> Nat \ {0}] /\ iter'[x] = 1 /\ \A y \in Actors : iter'[y] = iter[y]
    BY <2>1, <2>4 DEF CursorInv
  <2> HIDE DEF CursorInv
  <2> QED BY <2>1, <2>3, <2>5, <2>6, ListChanged
<1>2. CASE register(x)
  <2>1. /\ pc[x] = "register" /\ pc' = [pc EXCEPT ![x] = "first", ![Mine(x)] = "loop"]
        /\ UNCHANGED <<executors, pool, iter, dirty, draining>>
    BY <1>2 DEF register, poolVars
  <2>2. Mine(x) \in Starts /\ pc[Mine(x)] = "none"
    <3>1. x \in {User, Zk} /\ consumer # None
      BY <2>1 DEF Callers, PolledInv, Starting
    <3> QED BY <2>1, <3>1 DEF Mine, StartInv, PolledInv, None
  <2>3. \A y \in Actors : pc'[y] = pc[y] \/ (pc[y] \notin {"pools", "drain"} /\ pc'[y] # "drain")
    BY <2>1, <2>2 DEF PolledInv, Labels
  <2> QED BY <2>1, <2>3, CursorKept
<1>3. CASE \/ consumerStart(x) /\ running
           \/ registerWatcher(x) \/ startReturns(x) \/ shutdown(x) \/ unregisterWatcher(x)
  <2>1. /\ UNCHANGED <<executors, pool, iter, dirty, draining>>
        /\ pc[x] \notin {"pools", "drain"}
        /\ \E label : label # "drain" /\ Goto(x, label)
    BY <1>3 DEF consumerStart, registerWatcher, startReturns, shutdown, unregisterWatcher,
                AfterShutdown, poolVars
  <2>2. \A y \in Actors : pc'[y] = pc[y] \/ (pc[y] \notin {"pools", "drain"} /\ pc'[y] # "drain")
    BY <2>1, OneMoved
  <2> QED BY <2>1, <2>2, CursorKept
<1> QED BY <1>1, <1>2, <1>3 DEF Caller

LEMMA ShutdownKeepsCursors ==
  ASSUME PolledInv, CursorInv, NEW x \in Actors, ConsumerShutdown(x)
  PROVE  CursorInv'
<1> USE Threads
<1> Len(executors) \in Nat /\ iter[x] \in Nat \ {0}
  BY DEF CursorInv
<1>1. CASE close(x)
  <2>1. /\ UNCHANGED <<executors, pool, iter, dirty, draining>>
        /\ pc[x] = "close" /\ Goto(x, "pools")
    BY <1>1 DEF close, poolVars
  <2>2. \A y \in Actors : pc'[y] = pc[y] \/ (pc[y] \notin {"pools", "drain"} /\ pc'[y] # "drain")
    BY <2>1, OneMoved
  <2> QED BY <2>1, <2>2, CursorKept
<1>2. CASE nextPool(x) /\ iter[x] = Len(executors) + 1
  <2>1. /\ executors' = <<>> /\ dirty' = (dirty \cup Iterating(x)) \ {x}
        /\ iter' = [iter EXCEPT ![x] = 1] /\ UNCHANGED <<pool, draining>>
        /\ \E label \in {"dead", "start", "stopped"} : Goto(x, label)
    BY <1>2 DEF nextPool, AfterShutdown
  <2>2. PICK label \in {"dead", "start", "stopped"} : Goto(x, label)
    BY <2>1
  <2>3. /\ <<>> \in Seq(Starts) /\ pool' \in [Starts -> {"none", "up", "down"}]
        /\ iter' \in [Actors -> Nat \ {0}] /\ iter'[x] = 1
        /\ \A y \in Actors : y # x => iter'[y] = iter[y]
    BY <2>1 DEF CursorInv
  <2> QED BY <2>1, <2>2, <2>3, ListChanged
<1>3. CASE nextPool(x) /\ iter[x] # Len(executors) + 1 /\ x \in dirty
  <2>1. /\ dirty' = dirty \ {x} /\ iter' = [iter EXCEPT ![x] = 1]
        /\ UNCHANGED <<executors, pool, draining>>
        /\ \E label \in {"dead", "idle", "aborted"} : Goto(x, label)
    BY <1>3 DEF nextPool
  <2>2. PICK label \in {"dead", "idle", "aborted"} : Goto(x, label)
    BY <2>1
  <2>3. /\ pool' \in [Starts -> {"none", "up", "down"}] /\ draining[x] \in Starts \cup {None}
        /\ draining' = [draining EXCEPT ![x] = draining[x]]
    BY <2>1 DEF CursorInv
  <2>4. 1 \in Nat \ {0} /\ x \notin dirty' /\ label \notin {"pools", "drain"}
    BY <2>1, <2>2
  <2> QED BY <2>1, <2>2, <2>3, <2>4, CursorMoves
<1>4. CASE nextPool(x) /\ iter[x] # Len(executors) + 1 /\ x \notin dirty
  <2>1. /\ pc[x] = "pools" /\ Goto(x, "drain")
        /\ pool' = [pool EXCEPT ![executors[iter[x]]] = "down"]
        /\ draining' = [draining EXCEPT ![x] = executors[iter[x]]]
        /\ UNCHANGED <<executors, dirty, iter>>
    BY <1>4 DEF nextPool
  <2>a. /\ executors \in Seq(Starts) /\ iter[x] \in Nat \ {0}
        /\ iter[x] <= Len(executors) + 1
    BY <1>4, <2>1 DEF CursorInv
  <2>2. iter[x] \in 1 .. Len(executors)
    BY <1>4, <2>a
  <2>3. executors[iter[x]] \in Starts
    BY <2>2, <2>a
  <2>4. iter' = [iter EXCEPT ![x] = iter[x]] /\ pool' \in [Starts -> {"none", "up", "down"}]
    BY <2>1 DEF CursorInv
  <2> DEFINE n == iter[x]
             g == executors[iter[x]]
  <2>5. n \in Nat \ {0} /\ n <= Len(executors) /\ g \in Starts \cup {None} /\ g \in Starts
    BY <2>2, <2>3
  <2>6. iter' = [iter EXCEPT ![x] = n] /\ draining' = [draining EXCEPT ![x] = g]
    BY <2>1, <2>4
  <2> HIDE DEF n, g
  <2>7. "drain" \in {"pools", "drain"} /\ "drain" # "pools" /\ dirty' \in {dirty, dirty \ {x}}
    BY <2>1
  <2>8. /\ Goto(x, "drain") /\ executors' = executors
        /\ pool' \in [Starts -> {"none", "up", "down"}]
    BY <2>1, <2>4
  <2>9. x \in dirty' \/ n <= Len(executors)
    BY <2>5
  <2> DEFINE label == "drain"
  <2>10. /\ label \notin {"pools", "drain"} => n = 1 /\ x \notin dirty'
         /\ label = "pools" => x \in dirty' \/ n <= Len(executors) + 1
         /\ label = "drain" => g \in Starts /\ (x \in dirty' \/ n <= Len(executors))
         /\ Goto(x, label)
    BY <2>5, <2>7, <2>8, <2>9
  <2> HIDE DEF label
  <2> QED BY <2>5, <2>6, <2>7, <2>8, <2>10, CursorMoves
<1>5. CASE drain(x)
  <2>1. /\ pc[x] = "drain" /\ Goto(x, "pools") /\ iter' = [iter EXCEPT ![x] = @ + 1]
        /\ draining' = [draining EXCEPT ![x] = None] /\ UNCHANGED <<executors, pool, dirty>>
    BY <1>5 DEF drain
  <2>a. /\ iter \in [Actors -> Nat \ {0}] /\ executors \in Seq(Starts)
        /\ x \in dirty \/ iter[x] <= Len(executors)
        /\ pool \in [Starts -> {"none", "up", "down"}]
    BY <2>1 DEF CursorInv
  <2>b. iter[x] \in Nat \ {0} /\ Len(executors) \in Nat
    BY <2>a
  <2>2. /\ iter[x] + 1 \in Nat \ {0} /\ iter' = [iter EXCEPT ![x] = iter[x] + 1]
        /\ pool' \in [Starts -> {"none", "up", "down"}]
    BY <2>1, <2>a, <2>b
  <2>3. x \in dirty' \/ iter[x] + 1 <= Len(executors) + 1
    BY <2>1, <2>a, <2>b
  <2> DEFINE n == iter[x] + 1
  <2>4. n \in Nat \ {0} /\ (x \in dirty' \/ n <= Len(executors) + 1) /\ None \in Starts \cup {None}
    BY <2>2, <2>3
  <2>5. iter' = [iter EXCEPT ![x] = n]
    BY <2>2
  <2> HIDE DEF n
  <2>6. "pools" \in {"pools", "drain"} /\ "drain" # "pools" /\ dirty' \in {dirty, dirty \ {x}}
    BY <2>1
  <2> QED BY <2>1, <2>2, <2>4, <2>5, <2>6, CursorMoves
<1> QED BY <1>1, <1>2, <1>3, <1>4, <1>5 DEF ConsumerShutdown

LEMMA CursorInvInductive == Spec => []CursorInv
<1>1. PolledInv /\ StartInv /\ CursorInv /\ [Next]_vars => CursorInv'
  <2> SUFFICES ASSUME PolledInv, StartInv, CursorInv, [Next]_vars PROVE CursorInv'
    OBVIOUS
  <2> USE Threads
  <2>1. CASE UNCHANGED vars \/ ChangeMetadata \/ \E t \in Starts : PoolThread(t)
    <3>1. UNCHANGED <<pc, executors, pool, iter, dirty, draining>>
      BY <2>1 DEF vars, ChangeMetadata, PoolThread, takeTask, finishTask, poolVars
    <3> QED BY <3>1, CursorKept
  <2>2. CASE handleDataChange \/ stopConsumer
    <3>1. /\ UNCHANGED <<executors, pool, iter, dirty, draining>>
          /\ \E x \in Callers : \E label : /\ pc[x] = "idle" /\ label # "drain" /\ Goto(x, label)
      BY <2>2 DEF handleDataChange, stopConsumer, poolVars
    <3>2. \A y \in Actors : pc'[y] = pc[y] \/ (pc[y] \notin {"pools", "drain"} /\ pc'[y] # "drain")
      BY <3>1, OneMoved
    <3> QED BY <3>1, <3>2, CursorKept
  <2>3. ASSUME NEW t \in Starts, PollThread(t) PROVE CursorInv'
    <3>1. UNCHANGED <<executors, pool, iter, dirty, draining>>
      BY <2>3 DEF PollThread, loop, poll, pollReturns, pollThrows, submit, await, commitOffsets,
                  finally, setRunning, poolVars
    <3>2. pc[t] \notin {"pools", "drain"} /\ ((\E label : label # "drain" /\ Goto(t, label)) \/ pc' = pc)
      BY <2>3 DEF PollThread, loop, poll, pollReturns, pollThrows, submit, await, commitOffsets,
                  finally, setRunning, Throw
    <3>3. \A y \in Actors : pc'[y] = pc[y] \/ (pc[y] \notin {"pools", "drain"} /\ pc'[y] # "drain")
      BY <3>2, OneMoved
    <3> QED BY <3>1, <3>3, CursorKept
  <2>4. CASE \E x \in Callers : Caller(x)
    BY <2>4, CallersKeepCursors
  <2>5. CASE \E x \in Actors : ConsumerShutdown(x)
    BY <2>5, ShutdownKeepsCursors
  <2> QED BY <2>1, <2>2, <2>3, <2>4, <2>5 DEF Next
<1> QED BY <1>1, CursorBegins, PolledInductive, StartInvInductive, PTL DEF Spec

-----------------------------------------------------------------------------
(* Tasks and the latches that count them *)

LEMMA TasksAre ==
  ASSUME NEW q, NEW b, NEW t, NEW p
  PROVE  p \in Tasks(q, b, t) <=> \E g \in Starts : \E i \in 0 .. Len(q[g]) :
                                     p = <<g, i>> /\ (IF i = 0 THEN b[g] ELSE q[g][i]) = t
BY DEF Tasks, Places

LEMMA FewerTasks ==
  ASSUME NEW q, NEW b, NEW n \in Nat, NEW m \in Nat, NEW t, Counted(q, b, n, m, t),
         NEW q2, NEW b2, Tasks(q2, b2, t) \subseteq Tasks(q, b, t)
  PROVE  Counted(q2, b2, n, m, t)
<1>1. /\ IsFiniteSet(Tasks(q2, b2, t))
      /\ Cardinality(Tasks(q2, b2, t)) <= Cardinality(Tasks(q, b, t))
  BY FS_Subset DEF Counted
<1>2. Cardinality(Tasks(q2, b2, t)) \in Nat /\ Cardinality(Tasks(q, b, t)) \in Nat
  BY <1>1, FS_CardinalityType DEF Counted
<1> QED BY <1>1, <1>2 DEF Counted

LEMMA OneTaskLess ==
  ASSUME NEW q, NEW b, NEW n \in Nat, NEW m \in Nat, NEW t, Counted(q, b, n, m, t),
         NEW q2, NEW b2, NEW p \in Tasks(q, b, t), Tasks(q2, b2, t) \subseteq Tasks(q, b, t) \ {p}
  PROVE  n > 0 /\ Counted(q2, b2, n - 1, m, t)
<1>1. /\ IsFiniteSet(Tasks(q, b, t) \ {p})
      /\ Cardinality(Tasks(q, b, t) \ {p}) = Cardinality(Tasks(q, b, t)) - 1
  BY FS_RemoveElement DEF Counted
<1>2. /\ IsFiniteSet(Tasks(q2, b2, t))
      /\ Cardinality(Tasks(q2, b2, t)) <= Cardinality(Tasks(q, b, t) \ {p})
  BY <1>1, FS_Subset
<1>3. /\ Cardinality(Tasks(q2, b2, t)) \in Nat /\ Cardinality(Tasks(q, b, t)) \in Nat
      /\ Cardinality(Tasks(q, b, t) \ {p}) \in Nat
  BY <1>1, <1>2, FS_CardinalityType DEF Counted
<1>4. Cardinality(Tasks(q, b, t)) + m <= n
  BY DEF Counted
<1> QED BY <1>1, <1>2, <1>3, <1>4 DEF Counted

LEMMA OneTaskMore ==
  ASSUME NEW q, NEW b, NEW n \in Nat, NEW m \in Nat \ {0}, NEW t, Counted(q, b, n, m, t),
         NEW q2, NEW b2, NEW p, Tasks(q2, b2, t) \subseteq Tasks(q, b, t) \cup {p}
  PROVE  Counted(q2, b2, n, m - 1, t)
<1>1. /\ IsFiniteSet(Tasks(q, b, t) \cup {p})
      /\ Cardinality(Tasks(q, b, t) \cup {p})
           \in {Cardinality(Tasks(q, b, t)), Cardinality(Tasks(q, b, t)) + 1}
  BY FS_AddElement DEF Counted
<1>2. /\ IsFiniteSet(Tasks(q2, b2, t))
      /\ Cardinality(Tasks(q2, b2, t)) <= Cardinality(Tasks(q, b, t) \cup {p})
  BY <1>1, FS_Subset
<1>3. Cardinality(Tasks(q2, b2, t)) \in Nat /\ Cardinality(Tasks(q, b, t)) \in Nat
  BY <1>2, FS_CardinalityType DEF Counted
<1>4. Cardinality(Tasks(q, b, t)) + m <= n
  BY DEF Counted
<1> QED BY <1>1, <1>2, <1>3, <1>4 DEF Counted

\* A pool thread takes the first task of its queue: all others move up by one place.
LEMMA TaskTaken ==
  ASSUME NEW q \in [Starts -> Seq(Starts)], NEW b \in [Starts -> Starts \cup {None}],
         NEW n \in Nat, NEW m \in Nat, NEW t \in Starts, Counted(q, b, n, m, t),
         NEW g \in Starts, q[g] # <<>>
  PROVE  Counted([q EXCEPT ![g] = Tail(q[g])], [b EXCEPT ![g] = Head(q[g])], n, m, t)
<1> DEFINE q2 == [q EXCEPT ![g] = Tail(q[g])]
           b2 == [b EXCEPT ![g] = Head(q[g])]
           S == Tasks(q2, b2, t)
           F == [p \in S |-> IF p[1] = g THEN <<g, p[2] + 1>> ELSE p]
<1>1. /\ Len(q2[g]) = Len(q[g]) - 1 /\ Len(q[g]) \in Nat \ {0}
      /\ b2[g] = q[g][1] /\ \A i \in 1 .. Len(q2[g]) : q2[g][i] = q[g][i + 1]
  <2>1. q[g] \in Seq(Starts)
    OBVIOUS
  <2>2. Len(q[g]) \in Nat \ {0} /\ Len(Tail(q[g])) = Len(q[g]) - 1 /\ Head(q[g]) = q[g][1]
    BY <2>1
  <2>3. \A i \in 1 .. Len(q[g]) - 1 : Tail(q[g])[i] = q[g][i + 1]
    BY <2>1
  <2> QED BY <2>2, <2>3
<1>2. \A h \in Starts : h # g => q2[h] = q[h] /\ b2[h] = b[h]
  OBVIOUS
<1> HIDE DEF q2, b2
<1>3. ASSUME NEW p \in S
      PROVE  /\ p = <<p[1], p[2]>> /\ p[2] \in Nat
             /\ F[p] \in Tasks(q, b, t)
  <2>1. PICK h \in Starts : \E i \in 0 .. Len(q2[h]) :
          p = <<h, i>> /\ (IF i = 0 THEN b2[h] ELSE q2[h][i]) = t
    BY TasksAre
  <2>2. PICK i \in 0 .. Len(q2[h]) : p = <<h, i>> /\ (IF i = 0 THEN b2[h] ELSE q2[h][i]) = t
    BY <2>1
  <2>3. p[1] = h /\ p[2] = i /\ i \in Nat
    BY <2>2
  <2>4. F[p] = IF h = g THEN <<g, i + 1>> ELSE p
    BY <2>3
  <2>5. CASE h = g
    <3>1. i + 1 \in 1 .. Len(q[g])
      BY <1>1, <2>3, <2>5
    <3>2. q[g][i + 1] = t
      <4>1. i = 0 => q[g][i + 1] = t
        BY <1>1, <2>2, <2>5
      <4>2. i # 0 => i \in 1 .. Len(q2[g])
        BY <2>3, <2>5
      <4> QED BY <1>1, <2>2, <2>5, <4>1, <4>2
    <3>3. <<g, i + 1>> \in Tasks(q, b, t)
      BY <2>3, <3>1, <3>2, TasksAre
    <3> QED BY <2>2, <2>3, <2>4, <2>5, <3>3
  <2>6. CASE h # g
    <3>1. i \in 0 .. Len(q[h]) /\ (IF i = 0 THEN b[h] ELSE q[h][i]) = t
      BY <1>2, <2>2, <2>6
    <3>2. p \in Tasks(q, b, t)
      BY <2>2, <3>1, TasksAre
    <3> QED BY <2>2, <2>3, <2>4, <2>6, <3>2
  <2> QED BY <2>5, <2>6
<1>4. ASSUME NEW p \in S, NEW r \in S, F[p] = F[r] PROVE p = r
  <2>1. /\ p = <<p[1], p[2]>> /\ r = <<r[1], r[2]>> /\ p[2] \in Nat /\ r[2] \in Nat
    BY <1>3
  <2>2. p[1] = r[1] /\ p[2] = r[2]
    BY <1>4, <2>1
  <2> QED BY <2>1, <2>2
<1>5. F \in Injection(S, Tasks(q, b, t))
  <2>1. F \in [S -> Tasks(q, b, t)]
    BY <1>3
  <2> HIDE DEF F
  <2> QED BY <1>4, <2>1 DEF Injection, IsInjective
<1>6. IsFiniteSet(S) /\ Cardinality(S) <= Cardinality(Tasks(q, b, t))
  BY <1>5, FS_Injection DEF Counted
<1>7. Cardinality(S) \in Nat /\ Cardinality(Tasks(q, b, t)) \in Nat
  BY <1>6, FS_CardinalityType DEF Counted
<1>8. Counted(q2, b2, n, m, t)
  BY <1>6, <1>7 DEF Counted
<1> QED BY <1>8 DEF q2, b2

LEMMA TasksBegin == Init => TaskInv
<1> SUFFICES ASSUME Init PROVE TaskInv
  OBVIOUS
<1> USE Threads, RestartAssumption
<1>1. /\ queue = [g \in Starts |-> <<>>] /\ busy = [g \in Starts |-> None]
      /\ latch = [t \in Starts |-> 0] /\ unsubmitted = [t \in Starts |-> 0]
      /\ partition = [t \in Starts |-> CHOOSE p \in Partitions : TRUE]
  BY DEF Init
<1>2. (CHOOSE p \in Partitions : TRUE) \in Partitions
  OBVIOUS
<1>3. ASSUME NEW t \in Starts PROVE Counted(queue, busy, latch[t], unsubmitted[t], t)
  <2>1. ASSUME NEW p \in Tasks(queue, busy, t) PROVE FALSE
    <3>1. PICK g \in Starts : \E i \in 0 .. Len(queue[g]) :
            p = <<g, i>> /\ (IF i = 0 THEN busy[g] ELSE queue[g][i]) = t
      BY <2>1, TasksAre
    <3>2. Len(queue[g]) = 0 /\ busy[g] = 0 /\ t # 0
      BY <1>1 DEF None
    <3> QED BY <3>1, <3>2
  <2>2. Tasks(queue, busy, t) = {}
    BY <2>1
  <2>3. IsFiniteSet(Tasks(queue, busy, t)) /\ Cardinality(Tasks(queue, busy, t)) = 0
    BY <2>2, FS_EmptySet
  <2>4. latch[t] = 0 /\ unsubmitted[t] = 0
    BY <1>1
  <2> QED BY <2>3, <2>4 DEF Counted
<1>4. <<>> \in Seq(Starts) /\ 0 \in 0 .. BatchSize
  OBVIOUS
<1> QED BY <1>1, <1>2, <1>3, <1>4 DEF TaskInv

LEMMA Updated ==
  ASSUME NEW S, NEW T, NEW f \in [S -> T], NEW x \in S, NEW v \in T
  PROVE  /\ [f EXCEPT ![x] = v] \in [S -> T] /\ [f EXCEPT ![x] = v][x] = v
         /\ \A y \in S : y # x => [f EXCEPT ![x] = v][y] = f[y]
OBVIOUS

LEMMA TasksKept ==
  ASSUME TaskInv, UNCHANGED <<queue, busy, latch, unsubmitted, partition>>,
         \A t \in Starts : pc'[t] \in Unladen => pc[t] \in Unladen \/ latch[t] = 0
  PROVE  TaskInv'
BY DEF TaskInv

\* poll returns a batch to a thread that waits for nothing.
LEMMA BatchPolled ==
  ASSUME PolledInv, TaskInv, NEW t \in Starts, pollReturns(t)
  PROVE  TaskInv'
<1> USE Threads
<1> BatchSize \in Nat \ {0}
  BY RestartAssumption
<1>1. pc[t] = "polling" /\ UNCHANGED <<queue, busy>> /\ latch[t] = 0
  BY DEF pollReturns, TaskInv, Unladen
<1>2. CASE Goto(t, "commit") /\ UNCHANGED <<latch, unsubmitted, partition>>
  <2>1. \A s \in Starts : pc'[s] \in Unladen => pc[s] \in Unladen
    BY <1>1, <1>2, OneMoved DEF Unladen
  <2> QED BY <1>1, <1>2, <2>1, TasksKept
<1>3. CASE /\ Goto(t, "submit") /\ latch' = [latch EXCEPT ![t] = BatchSize]
           /\ \E p \in Partitions : partition' = [partition EXCEPT ![t] = p]
           /\ \E m \in {BatchSize, 0} : unsubmitted' = [unsubmitted EXCEPT ![t] = m]
  <2>1. PICK m \in {BatchSize, 0} : unsubmitted' = [unsubmitted EXCEPT ![t] = m]
    BY <1>3
  <2>2. /\ latch' \in [Starts -> 0 .. BatchSize] /\ unsubmitted' \in [Starts -> 0 .. BatchSize]
        /\ partition' \in [Starts -> Partitions]
    <3>1. BatchSize \in 0 .. BatchSize /\ m \in 0 .. BatchSize
      BY <2>1
    <3>2. /\ latch \in [Starts -> 0 .. BatchSize] /\ unsubmitted \in [Starts -> 0 .. BatchSize]
          /\ partition \in [Starts -> Partitions]
      BY DEF TaskInv
    <3> QED BY <1>3, <2>1, <3>1, <3>2, Updated
  <2>3. \A s \in Starts : pc'[s] = IF s = t THEN "submit" ELSE pc[s]
    BY <1>3, OneMoved
  <2>4. ASSUME NEW s \in Starts
        PROVE  /\ Counted(queue', busy', latch'[s], unsubmitted'[s], s)
               /\ pc'[s] \in Unladen => latch'[s] = 0
    <3>1. CASE s = t
      <4>1. IsFiniteSet(Tasks(queue, busy, t)) /\ Cardinality(Tasks(queue, busy, t)) + unsubmitted[t] <= 0
        BY <1>1 DEF TaskInv, Counted
      <4>2. Cardinality(Tasks(queue, busy, t)) \in Nat /\ unsubmitted[t] \in Nat
        BY <4>1, FS_CardinalityType DEF TaskInv
      <4>3. latch'[t] = BatchSize /\ unsubmitted'[t] \in {BatchSize, 0}
        BY <1>3, <2>1 DEF TaskInv
      <4> QED BY <1>1, <2>3, <3>1, <4>1, <4>2, <4>3 DEF Counted, Unladen
    <3>2. CASE s # t
      BY <1>1, <1>3, <2>1, <2>3, <3>2 DEF TaskInv
    <3> QED BY <3>1, <3>2
  <2> QED BY <1>1, <2>2, <2>4 DEF TaskInv
<1> QED BY <1>2, <1>3 DEF pollReturns

LEMMA InRange ==
  ASSUME NEW n \in Nat, NEW k \in Nat \ {0}
  PROVE  (n % k) + 1 \in 1 .. k
OBVIOUS

\* A record becomes a task.
LEMMA RecordSubmitted ==
  ASSUME PolledInv, CursorInv, TaskInv, NEW t \in Starts, submit(t)
  PROVE  TaskInv'
<1> USE Threads
<1> BatchSize \in Nat \ {0}
  BY RestartAssumption
<1>1. CASE executors = <<>>
  <2>1. Goto(t, "finally") /\ UNCHANGED <<queue, busy, latch, unsubmitted, partition>>
    BY <1>1 DEF submit, Throw
  <2>2. \A s \in Starts : pc'[s] \in Unladen => pc[s] \in Unladen
    BY <2>1, OneMoved DEF Unladen
  <2> QED BY <2>1, <2>2, TasksKept
<1>2. CASE executors # <<>>
  <2> DEFINE g == executors[(partition[t] % Len(executors)) + 1]
  <2>1. /\ queue' = [queue EXCEPT ![g] = Append(queue[g], t)]
        /\ unsubmitted' = [unsubmitted EXCEPT ![t] = unsubmitted[t] - 1]
        /\ unsubmitted[t] > 0 /\ UNCHANGED <<pc, busy, latch, partition>>
    BY <1>2 DEF submit
  <2>2. g \in Starts
    <3>1. Len(executors) \in Nat \ {0} /\ executors \in Seq(Starts)
      BY <1>2 DEF CursorInv
    <3>2. partition[t] \in Nat
      BY RestartAssumption DEF TaskInv
    <3>3. (partition[t] % Len(executors)) + 1 \in 1 .. Len(executors)
      BY <3>1, <3>2, InRange
    <3> QED BY <3>1, <3>3
  <2> HIDE DEF g
  <2>3. /\ queue[g] \in Seq(Starts) /\ queue'[g] = Append(queue[g], t)
        /\ \A h \in Starts : h # g => queue'[h] = queue[h]
    BY <2>1, <2>2 DEF TaskInv
  <2>4. /\ queue' \in [Starts -> Seq(Starts)]
        /\ unsubmitted' \in [Starts -> 0 .. BatchSize] /\ unsubmitted'[t] = unsubmitted[t] - 1
        /\ \A s \in Starts : s # t => unsubmitted'[s] = unsubmitted[s]
    <3>1. /\ queue \in [Starts -> Seq(Starts)] /\ unsubmitted \in [Starts -> 0 .. BatchSize]
      BY DEF TaskInv
    <3>2. Append(queue[g], t) \in Seq(Starts)
      BY <2>3
    <3>3. unsubmitted[t] - 1 \in 0 .. BatchSize
      BY <2>1, <3>1
    <3> QED BY <2>1, <2>2, <3>1, <3>2, <3>3, Updated
  <2>5. /\ Len(queue'[g]) = Len(queue[g]) + 1 /\ Len(queue[g]) \in Nat
        /\ queue'[g][Len(queue[g]) + 1] = t
        /\ \A i \in 1 .. Len(queue[g]) : queue'[g][i] = queue[g][i]
    BY <2>3
  <2> DEFINE p == <<g, Len(queue[g]) + 1>>
  <2>6. ASSUME NEW s \in Starts, NEW r \in Tasks(queue', busy, s), r # p \/ s # t
        PROVE  r \in Tasks(queue, busy, s)
    <3>1. PICK h \in Starts : \E i \in 0 .. Len(queue'[h]) :
            r = <<h, i>> /\ (IF i = 0 THEN busy[h] ELSE queue'[h][i]) = s
      BY TasksAre
    <3>2. PICK i \in 0 .. Len(queue'[h]) :
            r = <<h, i>> /\ (IF i = 0 THEN busy[h] ELSE queue'[h][i]) = s
      BY <3>1
    <3>3. CASE h # g
      <4>1. i \in 0 .. Len(queue[h]) /\ (IF i = 0 THEN busy[h] ELSE queue[h][i]) = s
        BY <2>3, <3>2, <3>3
      <4> QED BY <3>2, <4>1, TasksAre
    <3>4. CASE h = g
      <4>1. i # Len(queue[g]) + 1
        BY <2>5, <2>6, <3>2, <3>4
      <4>2. i \in 0 .. Len(queue[g])
        BY <2>5, <3>4, <4>1
      <4>3. (IF i = 0 THEN busy[g] ELSE queue[g][i]) = s
        <5>1. i # 0 => i \in 1 .. Len(queue[g])
          BY <2>5, <4>2
        <5> QED BY <2>5, <3>2, <3>4, <5>1
      <4> QED BY <3>2, <3>4, <4>2, <4>3, TasksAre
    <3> QED BY <3>3, <3>4
  <2> HIDE DEF p
  <2>7. ASSUME NEW s \in Starts
        PROVE  Counted(queue', busy', latch'[s], unsubmitted'[s], s)
    <3>1. /\ latch[s] \in Nat /\ unsubmitted[s] \in Nat
          /\ Counted(queue, busy, latch[s], unsubmitted[s], s)
      BY DEF TaskInv
    <3>2. CASE s = t
      <4>1. Tasks(queue', busy, t) \subseteq Tasks(queue, busy, t) \cup {p}
        BY <2>6
      <4>2. unsubmitted[t] \in Nat \ {0}
        BY <2>1, <3>1, <3>2
      <4>3. Counted(queue', busy, latch[t], unsubmitted[t] - 1, t)
        BY <3>1, <3>2, <4>1, <4>2, OneTaskMore
      <4> QED BY <2>1, <2>4, <3>2, <4>3
    <3>3. CASE s # t
      <4>1. Tasks(queue', busy, s) \subseteq Tasks(queue, busy, s)
        BY <2>6, <3>3
      <4>2. Counted(queue', busy, latch[s], unsubmitted[s], s)
        BY <3>1, <4>1, FewerTasks
      <4> QED BY <2>1, <2>4, <3>3, <4>2
    <3> QED BY <3>2, <3>3
  <2>8. \A s \in Starts : pc'[s] \in Unladen => latch'[s] = 0
    BY <2>1 DEF TaskInv
  <2> QED BY <2>1, <2>4, <2>7, <2>8 DEF TaskInv
<1> QED BY <1>1, <1>2

\* What is in the queue of a pool that is shut down is nobody's task any more.
LEMMA PoolDrained ==
  ASSUME PolledInv, CursorInv, TaskInv, NEW x \in Actors, drain(x)
  PROVE  TaskInv'
<1> USE Threads
<1> DEFINE g == draining[x]
<1>1. /\ queue' = [queue EXCEPT ![g] = <<>>] /\ UNCHANGED <<busy, latch, unsubmitted, partition>>
      /\ Goto(x, "pools") /\ g \in Starts
  BY DEF drain, CursorInv, batchVars
<1> HIDE DEF g
<1>2. /\ queue' \in [Starts -> Seq(Starts)] /\ queue'[g] = <<>>
      /\ \A h \in Starts : h # g => queue'[h] = queue[h]
  <2>1. queue \in [Starts -> Seq(Starts)] /\ <<>> \in Seq(Starts)
    BY DEF TaskInv
  <2> QED BY <1>1, <2>1, Updated
<1>3. ASSUME NEW s \in Starts PROVE Counted(queue', busy', latch'[s], unsubmitted'[s], s)
  <2>1. ASSUME NEW r \in Tasks(queue', busy, s) PROVE r \in Tasks(queue, busy, s)
    <3>1. PICK h \in Starts : \E i \in 0 .. Len(queue'[h]) :
            r = <<h, i>> /\ (IF i = 0 THEN busy[h] ELSE queue'[h][i]) = s
      BY TasksAre
    <3>2. PICK i \in 0 .. Len(queue'[h]) :
            r = <<h, i>> /\ (IF i = 0 THEN busy[h] ELSE queue'[h][i]) = s
      BY <3>1
    <3>3. CASE h # g
      <4>1. i \in 0 .. Len(queue[h]) /\ (IF i = 0 THEN busy[h] ELSE queue[h][i]) = s
        BY <1>2, <3>2, <3>3
      <4> QED BY <3>2, <4>1, TasksAre
    <3>4. CASE h = g
      <4>1. Len(queue[g]) \in Nat
        BY <1>1 DEF TaskInv
      <4>2. i = 0
        BY <1>2, <3>4
      <4>3. i \in 0 .. Len(queue[g]) /\ (IF i = 0 THEN busy[g] ELSE queue[g][i]) = s
        BY <3>2, <3>4, <4>1, <4>2
      <4> QED BY <3>2, <3>4, <4>3, TasksAre
    <3> QED BY <3>3, <3>4
  <2>2. Tasks(queue', busy, s) \subseteq Tasks(queue, busy, s)
    BY <2>1
  <2>3. /\ latch[s] \in Nat /\ unsubmitted[s] \in Nat
        /\ Counted(queue, busy, latch[s], unsubmitted[s], s)
    BY RestartAssumption DEF TaskInv
  <2>4. Counted(queue', busy, latch[s], unsubmitted[s], s)
    BY <2>2, <2>3, FewerTasks
  <2> QED BY <1>1, <2>4
<1>4. \A s \in Starts : pc'[s] \in Unladen => latch'[s] = 0
  <2>1. \A y \in Actors : pc'[y] = IF y = x THEN "pools" ELSE pc[y]
    BY <1>1, OneMoved
  <2> QED BY <1>1, <2>1 DEF TaskInv, Unladen
<1> QED BY <1>1, <1>2, <1>3, <1>4 DEF TaskInv

LEMMA TaskBegun ==
  ASSUME TaskInv, NEW g \in Starts, takeTask(g)
  PROVE  TaskInv'
<1> USE Threads
<1>1. /\ queue \in [Starts -> Seq(Starts)] /\ busy \in [Starts -> Starts \cup {None}]
      /\ queue[g] # <<>> /\ queue[g] \in Seq(Starts)
  BY DEF TaskInv, takeTask
<1>2. /\ queue' = [queue EXCEPT ![g] = Tail(queue[g])]
      /\ busy' = [busy EXCEPT ![g] = Head(queue[g])]
      /\ UNCHANGED <<latch, unsubmitted, partition, pc>>
  BY DEF takeTask, batchVars
<1>3. Tail(queue[g]) \in Seq(Starts) /\ Head(queue[g]) \in Starts \cup {None}
  BY <1>1
<1>4. queue' \in [Starts -> Seq(Starts)] /\ busy' \in [Starts -> Starts \cup {None}]
  BY <1>1, <1>2, <1>3, Updated
<1>5. ASSUME NEW s \in Starts PROVE Counted(queue', busy', latch'[s], unsubmitted'[s], s)
  <2>1. /\ latch[s] \in Nat /\ unsubmitted[s] \in Nat
        /\ Counted(queue, busy, latch[s], unsubmitted[s], s)
    BY RestartAssumption DEF TaskInv
  <2>2. Counted([queue EXCEPT ![g] = Tail(queue[g])], [busy EXCEPT ![g] = Head(queue[g])],
                latch[s], unsubmitted[s], s)
    BY <1>1, <2>1, TaskTaken
  <2> QED BY <1>2, <2>2
<1> QED BY <1>2, <1>4, <1>5 DEF TaskInv

\* Every countDown is the end of a task the latch counts.
LEMMA TaskFinished ==
  ASSUME TaskInv, NEW g \in Starts, finishTask(g)
  PROVE  TaskInv'
<1> USE Threads
<1> DEFINE t == busy[g]
           p == <<g, 0>>
<1>1. /\ busy' = [busy EXCEPT ![g] = None] /\ latch' = [latch EXCEPT ![t] = latch[t] - 1]
      /\ t \in Starts /\ UNCHANGED <<queue, unsubmitted, partition, pc>>
  BY DEF finishTask, TaskInv
<1>2. /\ busy' \in [Starts -> Starts \cup {None}] /\ busy'[g] = None
      /\ \A h \in Starts : h # g => busy'[h] = busy[h]
  <2>1. busy \in [Starts -> Starts \cup {None}] /\ None \in Starts \cup {None}
    BY DEF TaskInv
  <2> QED BY <1>1, <2>1, Updated
<1>3. p \in Tasks(queue, busy, t)
  <2>1. Len(queue[g]) \in Nat
    BY DEF TaskInv
  <2>2. 0 \in 0 .. Len(queue[g])
    BY <2>1
  <2> QED BY <2>2, TasksAre
<1> HIDE DEF t
<1>4. ASSUME NEW s \in Starts, NEW r \in Tasks(queue, busy', s)
      PROVE  r \in Tasks(queue, busy, s) /\ r # p
  <2>1. PICK h \in Starts : \E i \in 0 .. Len(queue[h]) :
          r = <<h, i>> /\ (IF i = 0 THEN busy'[h] ELSE queue[h][i]) = s
    BY <1>4, TasksAre
  <2>2. PICK i \in 0 .. Len(queue[h]) :
          r = <<h, i>> /\ (IF i = 0 THEN busy'[h] ELSE queue[h][i]) = s
    BY <2>1
  <2>3. None \notin Starts
    BY DEF None
  <2>4. h = g => i # 0
    BY <1>2, <2>2, <2>3
  <2>5. (IF i = 0 THEN busy[h] ELSE queue[h][i]) = s
    BY <1>2, <2>2, <2>4
  <2> QED BY <2>2, <2>4, <2>5, TasksAre
<1> HIDE DEF p
<1>5. ASSUME NEW s \in Starts
      PROVE  /\ Counted(queue, busy, latch[s], unsubmitted[s], s)
             /\ latch[s] \in Nat /\ unsubmitted[s] \in Nat /\ latch[s] <= BatchSize
  BY RestartAssumption DEF TaskInv
<1>6. latch[t] > 0 /\ Counted(queue, busy', latch[t] - 1, unsubmitted[t], t)
  <2>1. Tasks(queue, busy', t) \subseteq Tasks(queue, busy, t) \ {p}
    BY <1>1, <1>4
  <2>2. /\ Counted(queue, busy, latch[t], unsubmitted[t], t)
        /\ latch[t] \in Nat /\ unsubmitted[t] \in Nat
    BY <1>1, <1>5
  <2> QED BY <1>3, <2>1, <2>2, OneTaskLess
<1>7. /\ latch' \in [Starts -> 0 .. BatchSize] /\ latch'[t] = latch[t] - 1
      /\ \A s \in Starts : s # t => latch'[s] = latch[s]
  <2>1. latch \in [Starts -> 0 .. BatchSize]
    BY DEF TaskInv
  <2>2. latch[t] - 1 \in 0 .. BatchSize
    BY <1>1, <1>5, <1>6, RestartAssumption
  <2> QED BY <1>1, <2>1, <2>2, Updated
<1>8. ASSUME NEW s \in Starts PROVE Counted(queue', busy', latch'[s], unsubmitted'[s], s)
  <2>1. CASE s = t
    BY <1>1, <1>6, <1>7, <2>1
  <2>2. CASE s # t
    <3>1. Tasks(queue, busy', s) \subseteq Tasks(queue, busy, s)
      BY <1>4
    <3>2. Counted(queue, busy', latch[s], unsubmitted[s], s)
      BY <1>5, <3>1, FewerTasks
    <3> QED BY <1>1, <1>7, <2>2, <3>2
  <2> QED BY <2>1, <2>2
<1>9. ASSUME NEW s \in Starts, pc'[s] \in Unladen PROVE latch'[s] = 0
  <2>1. pc[s] \in Unladen
    BY <1>1, <1>9
  <2>2. latch[s] = 0
    BY <2>1 DEF TaskInv
  <2>3. s # t
    BY <1>6, <2>2
  <2> QED BY <1>7, <2>2, <2>3
<1> QED BY <1>1, <1>2, <1>7, <1>8, <1>9 DEF TaskInv

LEMMA TaskInvInductive == Spec => []TaskInv
<1>1. PolledInv /\ StartInv /\ CursorInv /\ TaskInv /\ [Next]_vars => TaskInv'
  <2> SUFFICES ASSUME PolledInv, StartInv, CursorInv, TaskInv, [Next]_vars PROVE TaskInv'
    OBVIOUS
  <2> USE Threads
  <2>1. CASE UNCHANGED vars \/ ChangeMetadata
    <3>1. UNCHANGED <<pc, queue, busy, latch, unsubmitted, partition>>
      BY <2>1 DEF vars, ChangeMetadata, poolVars, batchVars
    <3> QED BY <3>1, TasksKept
  <2>2. CASE handleDataChange \/ stopConsumer
    <3>1. /\ UNCHANGED <<queue, busy, latch, unsubmitted, partition>>
          /\ \E x \in Callers : \E label : Goto(x, label)
      BY <2>2 DEF handleDataChange, stopConsumer, poolVars, batchVars
    <3>2. PICK x \in Callers : \E label : Goto(x, label)
      BY <3>1
    <3>3. PICK label : Goto(x, label)
      BY <3>2
    <3>4. \A y \in Actors : pc'[y] = IF y = x THEN label ELSE pc[y]
      BY <3>3, OneMoved
    <3>5. \A t \in Starts : pc'[t] = pc[t]
      BY <3>4
    <3> QED BY <3>1, <3>5, TasksKept
  <2>3. ASSUME NEW t \in Starts, PollThread(t) PROVE TaskInv'
    <3>1. CASE pollReturns(t)
      BY <3>1, BatchPolled
    <3>2. CASE submit(t)
      BY <3>2, RecordSubmitted
    <3>3. CASE \/ loop(t) \/ poll(t) \/ pollThrows(t) \/ await(t)
               \/ commitOffsets(t) \/ finally(t) \/ setRunning(t)
      <4>1. UNCHANGED <<queue, busy, latch, unsubmitted, partition>>
        BY <3>3 DEF loop, poll, pollThrows, await, commitOffsets, finally, setRunning, poolVars,
                    batchVars
      <4>2. PICK label : /\ Goto(t, label)
                         /\ label \in Unladen => pc[t] \in Unladen \/ latch[t] = 0
        BY <3>3 DEF loop, poll, pollThrows, await, commitOffsets, finally, setRunning, Throw,
                    Unladen
      <4>3. \A s \in Starts : pc'[s] \in Unladen => pc[s] \in Unladen \/ latch[s] = 0
        BY <4>2, OneMoved
      <4> QED BY <4>1, <4>3, TasksKept
    <3> QED BY <2>3, <3>1, <3>2, <3>3 DEF PollThread
  <2>4. ASSUME NEW g \in Starts, PoolThread(g) PROVE TaskInv'
    BY <2>4, TaskBegun, TaskFinished DEF PoolThread
  <2>5. ASSUME NEW x \in Callers, Caller(x) PROVE TaskInv'
    <3>1. UNCHANGED <<queue, busy, latch, unsubmitted, partition>>
      BY <2>5 DEF Caller, consumerStart, registerWatcher, register, startReturns, shutdown,
                  unregisterWatcher, poolVars, batchVars
    <3>2. CASE register(x)
      <4>1. Mine(x) \in Starts /\ pc[Mine(x)] = "none"
        <5>1. x \in {User, Zk} /\ consumer # None /\ pc[x] = "register"
          BY <3>2 DEF register, Callers, PolledInv, Starting
        <5> QED BY <5>1 DEF Mine, StartInv, PolledInv, None
      <4>2. \A t \in Starts : t # Mine(x) => pc'[t] = pc[t]
        BY <3>2, <4>1 DEF register, PolledInv, Labels
      <4>3. \A t \in Starts : pc'[t] \in Unladen => pc[t] \in Unladen
        BY <4>1, <4>2 DEF Unladen
      <4> QED BY <3>1, <4>3, TasksKept
    <3>3. CASE \/ consumerStart(x) \/ registerWatcher(x) \/ startReturns(x) \/ shutdown(x)
               \/ unregisterWatcher(x)
      <4>1. PICK label : Goto(x, label)
        BY <3>3 DEF consumerStart, registerWatcher, startReturns, shutdown, unregisterWatcher
      <4>2. \A t \in Starts : pc'[t] = pc[t]
        BY <4>1, OneMoved
      <4> QED BY <3>1, <4>2, TasksKept
    <3> QED BY <2>5, <3>2, <3>3 DEF Caller
  <2>6. ASSUME NEW x \in Actors, ConsumerShutdown(x) PROVE TaskInv'
    <3>1. CASE drain(x)
      BY <3>1, PoolDrained
    <3>2. CASE close(x) \/ nextPool(x)
      <4>1. UNCHANGED <<queue, busy, latch, unsubmitted, partition>>
        BY <3>2 DEF close, nextPool, poolVars, batchVars
      <4>2. PICK label : Goto(x, label) /\ label \notin Unladen
        BY <3>2 DEF close, nextPool, AfterShutdown, Unladen
      <4>3. \A t \in Starts : pc'[t] \in Unladen => pc[t] \in Unladen
        <5>1. \A y \in Actors : pc'[y] = IF y = x THEN label ELSE pc[y]
          BY <4>2, OneMoved
        <5> QED BY <4>2, <5>1
      <4> QED BY <4>1, <4>3, TasksKept
    <3> QED BY <2>6, <3>1, <3>2 DEF ConsumerShutdown
  <2> QED BY <2>1, <2>2, <2>3, <2>4, <2>5, <2>6 DEF Next
<1> QED BY <1>1, TasksBegin, PolledInductive, StartInvInductive, CursorInvInductive, PTL DEF Spec

-----------------------------------------------------------------------------
(* The rest *)

LEMMA RestBegins == Init => RestInv
<1> SUFFICES ASSUME Init PROVE RestInv
  OBVIOUS
<1>1. 0 \in 0 .. MaxChanges /\ 0 \in 0 .. MaxBatches /\ 0 \in 0 .. MaxErrors
  BY RestartAssumption
<1>2. /\ zkMetadata = 0 /\ metadata = 0 /\ batches = 0 /\ errors = 0
      /\ notified = FALSE /\ watched = FALSE /\ running = FALSE /\ cached = FALSE
      /\ version = [g \in Starts |-> 0] /\ inside = [g \in Starts |-> None]
      /\ woken = {} /\ closed = {} /\ dropped = {} /\ acks = {}
      /\ first = [t \in Starts |-> FALSE] /\ err = [t \in Starts |-> FALSE]
      /\ rounds = [t \in Starts |-> FALSE]
  BY DEF Init
<1> QED BY <1>1, <1>2 DEF RestInv

\* What the environment and the callers write.
LEMMA CallersKeepRest ==
  ASSUME PolledInv, RestInv, \/ ChangeMetadata \/ handleDataChange \/ stopConsumer
                             \/ \E x \in Callers : Caller(x)
  PROVE  RestInv'
<1> USE Threads
<1>1. CASE ChangeMetadata
  <2>1. /\ zkMetadata' = zkMetadata + 1 /\ zkMetadata < MaxChanges /\ UNCHANGED <<proxyVars, kafkaVars>>
        /\ UNCHANGED <<dropped, acks, firstVars, counters>>
    BY <1>1 DEF ChangeMetadata, poolVars, batchVars
  <2>2. notified' \in BOOLEAN
    <3>1. notified' = (notified \/ watched)
      BY <1>1 DEF ChangeMetadata
    <3> QED BY <3>1, Zenon
  <2>3. zkMetadata' \in 0 .. MaxChanges
    BY <2>1, RestartAssumption DEF RestInv
  <2> QED BY <2>1, <2>2, <2>3 DEF RestInv, proxyVars, kafkaVars, firstVars, counters
<1>2. CASE handleDataChange
  <2>1. /\ notified' = FALSE /\ metadata' = zkMetadata
        /\ UNCHANGED <<zkMetadata, running, cached, watched, kafkaVars, dropped, acks, firstVars, counters>>
    BY <1>2 DEF handleDataChange, poolVars, batchVars
  <2> QED BY <2>1 DEF RestInv, kafkaVars, firstVars, counters
<1>3. CASE stopConsumer
  BY <1>3 DEF stopConsumer, RestInv, zkVars, proxyVars, kafkaVars, poolVars, batchVars, firstVars,
              counters
<1>4. ASSUME NEW x \in Callers, consumerStart(x) PROVE RestInv'
  <2>1. /\ UNCHANGED <<zkVars, proxyVars, inside, woken, closed, dropped, acks, firstVars, counters>>
        /\ \/ version' = version
           \/ consumer < MaxStarts /\ version' = [version EXCEPT ![consumer + 1] = metadata]
    BY <1>4 DEF consumerStart, kafkaVars, poolVars, batchVars
  <2>2. version' \in [Starts -> 0 .. MaxChanges]
    <3>1. consumer < MaxStarts => consumer + 1 \in Starts
      BY DEF PolledInv
    <3>2. version \in [Starts -> 0 .. MaxChanges] /\ metadata \in 0 .. MaxChanges
      BY DEF RestInv
    <3> QED BY <2>1, <3>1, <3>2, Updated
  <2> QED BY <2>1, <2>2 DEF RestInv, zkVars, proxyVars, firstVars, counters
<1>5. ASSUME NEW x \in Callers,
             registerWatcher(x) \/ register(x) \/ shutdown(x) \/ unregisterWatcher(x)
      PROVE  RestInv'
  <2>1. /\ UNCHANGED <<zkVars, metadata, cached, kafkaVars, dropped, acks, firstVars, counters>>
        /\ watched' \in {watched, TRUE, FALSE} /\ running' \in {running, TRUE, FALSE}
    BY <1>5 DEF registerWatcher, register, shutdown, unregisterWatcher, poolVars, batchVars
  <2> QED BY <2>1 DEF RestInv, zkVars, kafkaVars, firstVars, counters
<1>6. ASSUME NEW x \in Callers, startReturns(x) PROVE RestInv'
  <2>1. UNCHANGED <<zkVars, metadata, running, watched, kafkaVars, dropped, acks, firstVars, counters>>
    BY <1>6 DEF startReturns, poolVars, batchVars
  <2>2. cached' \in BOOLEAN
    <3>1. cached' = (cached \/ (x = User /\ ~err[Mine(x)]))
      BY <1>6 DEF startReturns
    <3> QED BY <3>1, Zenon
  <2> QED BY <2>1, <2>2 DEF RestInv, zkVars, kafkaVars, firstVars, counters
<1> QED BY <1>1, <1>2, <1>3, <1>4, <1>5, <1>6 DEF Caller

LEMMA ThreadsKeepRest ==
  ASSUME PolledInv, TaskInv, RestInv, NEW t \in Starts, PollThread(t) \/ PoolThread(t)
  PROVE  RestInv'
<1> USE Threads
<1>1. CASE loop(t) \/ await(t)
  BY <1>1 DEF loop, await, RestInv, zkVars, proxyVars, kafkaVars, poolVars, batchVars, firstVars,
              counters
<1>2. CASE poll(t) \/ submit(t)
  <2>1. /\ UNCHANGED <<zkVars, proxyVars, version, woken, closed, dropped, acks, first, rounds, counters>>
        /\ inside' = inside \/ inside' = [inside EXCEPT ![consumer] = t]
        /\ err' = err \/ err' = [err EXCEPT ![t] = TRUE]
    BY <1>2 DEF poll, submit, Throw, kafkaVars, poolVars, batchVars
  <2>2. inside' \in [Starts -> Starts \cup {None}] /\ err' \in [Starts -> BOOLEAN]
    BY <2>1 DEF RestInv
  <2> QED BY <2>1, <2>2 DEF RestInv, zkVars, proxyVars, counters
<1>3. CASE pollReturns(t)
  <2>1. /\ UNCHANGED <<zkVars, proxyVars, version, woken, closed, acks, firstVars, errors>>
        /\ \E g \in Starts : inside' = [inside EXCEPT ![g] = None]
        /\ batches' = batches \/ (batches < MaxBatches /\ batches' = batches + 1)
        /\ dropped' = dropped \/ dropped' = dropped \cup {t}
    BY <1>3 DEF pollReturns
  <2>2. inside' \in [Starts -> Starts \cup {None}]
    BY <2>1 DEF RestInv
  <2>a. batches \in 0 .. MaxBatches
    BY DEF RestInv
  <2>3. batches' \in 0 .. MaxBatches
    BY <2>1, <2>a, RestartAssumption
  <2> QED BY <2>1, <2>2, <2>3 DEF RestInv, zkVars, proxyVars, firstVars
<1>4. CASE pollThrows(t)
  <2>1. /\ UNCHANGED <<zkVars, proxyVars, version, closed, dropped, acks, first, rounds, batches>>
        /\ err' = [err EXCEPT ![t] = TRUE]
        /\ \E g \in Starts : inside' = [inside EXCEPT ![g] = None]
        /\ errors' = errors \/ (errors < MaxErrors /\ errors' = errors + 1)
        /\ woken' \subseteq woken
    BY <1>4 DEF pollThrows, Throw, poolVars, batchVars
  <2>2. inside' \in [Starts -> Starts \cup {None}] /\ err' \in [Starts -> BOOLEAN]
    BY <2>1 DEF RestInv
  <2>a. errors \in 0 .. MaxErrors
    BY DEF RestInv
  <2>3. errors' \in 0 .. MaxErrors
    BY <2>1, <2>a, RestartAssumption
  <2> QED BY <2>1, <2>2, <2>3 DEF RestInv, zkVars, proxyVars
<1>5. CASE commitOffsets(t) \/ finally(t)
  <2>1. /\ UNCHANGED <<zkVars, proxyVars, kafkaVars, dropped, counters>>
        /\ acks' \subseteq acks
        /\ first' = first \/ first' = [first EXCEPT ![t] = TRUE]
        /\ rounds' = rounds \/ rounds' = [rounds EXCEPT ![t] = TRUE]
        /\ err' = err \/ err' = [err EXCEPT ![t] = TRUE]
    BY <1>5 DEF commitOffsets, finally, Throw, poolVars, batchVars
  <2>2. /\ first' \in [Starts -> BOOLEAN] /\ rounds' \in [Starts -> BOOLEAN]
        /\ err' \in [Starts -> BOOLEAN]
    BY <2>1 DEF RestInv
  <2> QED BY <2>1, <2>2 DEF RestInv, zkVars, proxyVars, kafkaVars, counters
<1>6. CASE setRunning(t)
  <2>1. /\ UNCHANGED <<zkVars, metadata, cached, watched, kafkaVars, dropped, acks, firstVars, counters>>
        /\ running' = FALSE
    BY <1>6 DEF setRunning, poolVars, batchVars
  <2> QED BY <2>1 DEF RestInv, zkVars, kafkaVars, firstVars, counters
<1>7. CASE PoolThread(t)
  <2>1. /\ UNCHANGED <<zkVars, proxyVars, kafkaVars, dropped, firstVars, counters>>
        /\ acks' = acks \/ (busy[t] # None /\ acks' = acks \cup {busy[t]})
    BY <1>7 DEF PoolThread, takeTask, finishTask, batchVars
  <2>2. acks \subseteq Starts /\ busy[t] \in Starts \cup {None}
    BY DEF TaskInv, RestInv
  <2>3. acks' \subseteq Starts
    BY <2>1, <2>2
  <2> QED BY <2>1, <2>3 DEF RestInv, zkVars, proxyVars, kafkaVars, firstVars, counters
<1> QED BY <1>1, <1>2, <1>3, <1>4, <1>5, <1>6, <1>7 DEF PollThread

LEMMA ShutdownKeepsRest ==
  ASSUME PolledInv, StartInv, CursorInv, TaskInv, RestInv, NEW x \in Actors, ConsumerShutdown(x)
  PROVE  RestInv'
<1> USE Threads
<1>1. CASE close(x)
  <2>1. /\ UNCHANGED <<zkVars, proxyVars, version, inside, dropped, acks, firstVars, counters>>
        /\ woken' \subseteq woken \cup {consumer} /\ closed' \subseteq closed \cup {consumer}
        /\ pc[x] = "close"
    BY <1>1 DEF close, poolVars, batchVars
  <2>2. consumer \in Starts
    <3>1. consumer \in 0 .. MaxStarts
      BY DEF PolledInv
    <3>2. consumer # None
      <4>1. pc[User] = "start" => pc[Zk] = "idle" /\ \A t \in Starts : consumer = None => pc[t] = "none"
        BY DEF StartInv, Quiet, None
      <4>2. x = User \/ x = Zk \/ x \in Starts
        BY DEF Callers
      <4> QED BY <2>1, <4>1, <4>2 DEF StartInv
    <3> QED BY <3>1, <3>2 DEF None
  <2> QED BY <2>1, <2>2 DEF RestInv, zkVars, proxyVars, firstVars, counters
<1>2. CASE nextPool(x)
  <2>1. UNCHANGED <<zkVars, metadata, running, watched, kafkaVars, dropped, acks, firstVars, counters>>
    BY <1>2 DEF nextPool, batchVars
  <2>2. cached' \in BOOLEAN
    <3>1. cached' = cached \/ cached' = (cached /\ x \in Starts)
      BY <1>2 DEF nextPool
    <3>2. cached \in BOOLEAN /\ (cached /\ x \in Starts) \in BOOLEAN
      BY Zenon DEF RestInv
    <3> QED BY <3>1, <3>2, Zenon
  <2> QED BY <2>1, <2>2 DEF RestInv, zkVars, kafkaVars, firstVars, counters
<1>3. CASE drain(x)
  <2> DEFINE Q == queue[draining[x]]
  <2>1. /\ UNCHANGED <<zkVars, proxyVars, kafkaVars, acks, firstVars, counters>>
        /\ dropped' = dropped \cup {Q[i] : i \in 1 .. Len(Q)} /\ draining[x] \in Starts
    BY <1>3 DEF drain, batchVars, CursorInv
  <2>2. Q \in Seq(Starts)
    BY <2>1 DEF TaskInv
  <2> HIDE DEF Q
  <2>3. dropped' \subseteq Starts
    <3>1. ASSUME NEW i \in 1 .. Len(Q) PROVE Q[i] \in Starts
      BY <2>2
    <3>2. dropped \subseteq Starts
      BY DEF RestInv
    <3> QED BY <2>1, <3>1, <3>2
  <2> QED BY <2>1, <2>3 DEF RestInv, zkVars, proxyVars, kafkaVars, firstVars, counters
<1> QED BY <1>1, <1>2, <1>3 DEF ConsumerShutdown

LEMMA RestInvInductive == Spec => []RestInv
<1>1. PolledInv /\ StartInv /\ CursorInv /\ TaskInv /\ RestInv /\ [Next]_vars => RestInv'
  <2> SUFFICES ASSUME PolledInv, StartInv, CursorInv, TaskInv, RestInv, [Next]_vars PROVE RestInv'
    OBVIOUS
  <2>1. CASE UNCHANGED vars
    BY <2>1 DEF vars, RestInv, zkVars, proxyVars, kafkaVars, poolVars, batchVars, firstVars,
                counters
  <2> QED BY <2>1, CallersKeepRest, ThreadsKeepRest, ShutdownKeepsRest DEF Next
<1> QED BY <1>1, RestBegins, PolledInductive, StartInvInductive, CursorInvInductive,
           TaskInvInductive, PTL DEF Spec

\* TypeOK, however the threads interleave and however often the proxy is restarted: no latch
\* is counted down below zero, and consumerShutdown always has a consumer to close and, unless
\* its iterator throws, a pool under its cursor.
THEOREM RestartTypeCorrect == Spec => []TypeOK
<1>1. PolledInv /\ CursorInv /\ TaskInv /\ RestInv => TypeOK
  <2> SUFFICES ASSUME PolledInv, CursorInv, TaskInv, RestInv PROVE TypeOK
    OBVIOUS
  <2>1. pc \in [Actors -> {"none", "loop", "poll", "polling", "submit", "await", "commit", "finally",
                           "unset", "close", "pools", "drain", "dead", "idle", "stop", "unwatch",
                           "start", "watch", "register", "first", "failed", "stopped", "aborted"}]
    BY DEF PolledInv, Labels, PollLabels, CallerLabels, Working, Shutting, Starting
  <2>2. consumer \in 0 .. MaxStarts
    BY DEF PolledInv
  <2>3. /\ executors \in Seq(Starts) /\ pool \in [Starts -> {"none", "up", "down"}]
        /\ iter \in [Actors -> Nat] /\ dirty \subseteq Actors
        /\ draining \in [Actors -> Starts \cup {None}]
    BY DEF CursorInv
  <2>4. /\ queue \in [Starts -> Seq(Starts)] /\ busy \in [Starts -> Starts \cup {None}]
        /\ latch \in [Starts -> 0 .. BatchSize] /\ unsubmitted \in [Starts -> 0 .. BatchSize]
        /\ partition \in [Starts -> Partitions]
    BY DEF TaskInv
  <2> QED BY <2>1, <2>2, <2>3, <2>4 DEF TypeOK, RestInv
<1> QED BY <1>1, PolledInductive, CursorInvInductive, TaskInvInductive, RestInvInductive, PTL

\* A poll thread whose batch is not being handled is nobody's: no pool runs or holds a record
\* of a thread that commits, or that polls again.
BatchHandled ==
  \A t \in Starts : pc[t] \in {"loop", "poll", "polling", "commit"} =>
    \A g \in Starts : /\ busy[g] # t
                      /\ \A i \in 1 .. Len(queue[g]) : queue[g][i] # t

\* commitOffsets comes after the listener has returned or thrown for every record of the
\* batch that a pool has taken: the latch is down only when no task of the batch is left in a
\* queue or a pool thread, whoever shuts the pools down and restarts the proxy meanwhile.
THEOREM CommitsHandledBatch == Spec => []BatchHandled
<1>1. TaskInv => BatchHandled
  <2> SUFFICES ASSUME TaskInv, NEW t \in Starts, pc[t] \in {"loop", "poll", "polling", "commit"},
                      NEW g \in Starts
               PROVE  busy[g] # t /\ \A i \in 1 .. Len(queue[g]) : queue[g][i] # t
    BY DEF BatchHandled
  <2>1. IsFiniteSet(Tasks(queue, busy, t)) /\ Cardinality(Tasks(queue, busy, t)) + unsubmitted[t] <= 0
    BY DEF TaskInv, Counted, Unladen
  <2>2. Cardinality(Tasks(queue, busy, t)) \in Nat /\ unsubmitted[t] \in Nat
    BY <2>1, FS_CardinalityType, RestartAssumption DEF TaskInv
  <2>3. Tasks(queue, busy, t) = {}
    BY <2>1, <2>2, FS_EmptySet
  <2>4. Len(queue[g]) \in Nat
    BY DEF TaskInv
  <2>5. ASSUME NEW i \in 0 .. Len(queue[g]) PROVE (IF i = 0 THEN busy[g] ELSE queue[g][i]) # t
    <3>1. <<g, i>> \notin Tasks(queue, busy, t)
      BY <2>3
    <3> QED BY <3>1, TasksAre
  <2>6. 0 \in 0 .. Len(queue[g]) /\ \A i \in 1 .. Len(queue[g]) : i \in 0 .. Len(queue[g]) /\ i # 0
    BY <2>4
  <2> QED BY <2>5, <2>6
<1> QED BY <1>1, TaskInvInductive, PTL
=============================================================================
