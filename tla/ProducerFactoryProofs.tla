----------------------- MODULE ProducerFactoryProofs -----------------------
(***************************************************************************)
(* Proofs about ProducerFactory for any number of sending threads,         *)
(* proxies, changes of the metadata and calls of stopProducer.             *)
(***************************************************************************)
EXTENDS ProducerFactory, TLAPS

\* The bounds and the roles of the threads, without the rest of the assumption.
LEMMA Bounds == {MaxProxies, MaxChanges, MaxStops} \subseteq Nat
BY ProducerAssumption

LEMMA Roles == /\ Senders \subseteq Actors /\ {Zk, Stopper} \subseteq Actors
               /\ Zk \notin Senders /\ Stopper \notin Senders /\ Zk # Stopper
BY ProducerAssumption DEF Actors

LEMMA NoneIsNobody == None \notin Actors
BY ProducerAssumption

(***************************************************************************)
(* RunningIsOpen is not inductive: a thread sets running some steps after  *)
(* it made the client, and closes a client some steps after it cleared     *)
(* running.  In between, nobody else may close the one or set the other.   *)
(***************************************************************************)

\* Proxies are numbered in the order they are made.
Numbered ==
  /\ \A p \in notified \cup open \cup running \cup watched : p <= made
  /\ cache <= made
  /\ \A a \in Actors : mine[a] <= made

\* A proxy that is being started has its client, and no other thread starts it or has
\* begun to shut it down.
Unshared ==
  \A s \in Actors : pc[s] \in {"watch", "run"} =>
     /\ mine[s] \in open
     /\ mine[s] \notin running
     /\ \A a \in Actors \ {s} :
          pc[a] \in {"watch", "run", "unset", "unwatch", "close"} => mine[a] # mine[s]

\* A proxy whose client is about to be closed does not run any more.
Cleared == \A a \in Actors : pc[a] \in {"unwatch", "close"} => mine[a] \notin running

OpenInv == RunningIsOpen /\ Numbered /\ Unshared /\ Cleared

LEMMA OpenInit == Init => TypeOK /\ OpenInv
<1>1. ASSUME Init PROVE TypeOK
  <2>1. /\ 0 \in 0 .. MaxProxies /\ 0 \in 0 .. MaxChanges /\ 0 \in 0 .. MaxStops
        /\ "idle" \in SenderPC
    BY Bounds DEF SenderPC
  <2> QED
    BY <1>1, <2>1, Zenon DEF Init, TypeOK
<1>2. ASSUME Init PROVE OpenInv
  BY <1>2 DEF Init, OpenInv, RunningIsOpen, Numbered, Unshared, Cleared, None
<1> QED
  BY <1>1, <1>2

\* A thread only watches and runs what is a proxy.
LEMMA TypeInvariance ==
  ASSUME TypeOK, Unshared, [Next]_vars
  PROVE  TypeOK'
<1> USE Bounds, Roles
    DEF TypeOK, SenderPC, CallerPC, Proxies, Monitors, zkVars, proxyVars,
        Goto, Enter, Leave, MonitorOf
<1>1. CASE UNCHANGED vars
  BY <1>1 DEF vars
<1>2. ASSUME NEW s \in Senders, send(s)
      PROVE  TypeOK'
  BY <1>2 DEF send
<1>3. ASSUME NEW s \in Senders, lookup(s)
      PROVE  TypeOK'
  BY <1>3 DEF lookup
<1>4. ASSUME NEW s \in Senders, get(s)
      PROVE  TypeOK'
  BY <1>4 DEF get, None
<1>5. ASSUME NEW s \in Senders, enterMonitor(s)
      PROVE  TypeOK'
  BY <1>5 DEF enterMonitor
<1>6. ASSUME NEW s \in Senders, recheck(s)
      PROVE  TypeOK'
  BY <1>6 DEF recheck, None
<1>7. ASSUME NEW s \in Senders, startProducer(s)
      PROVE  TypeOK'
  BY <1>7 DEF startProducer
<1>8. ASSUME NEW s \in Senders, registerWatcher(s)
      PROVE  TypeOK'
  BY <1>8 DEF registerWatcher, Unshared
<1>9. ASSUME NEW s \in Senders, run(s)
      PROVE  TypeOK'
  BY <1>9 DEF run, Unshared
<1>10. ASSUME NEW s \in Senders, putIfAbsent(s)
      PROVE  TypeOK'
  BY <1>10 DEF putIfAbsent
<1>11. ASSUME NEW s \in Senders, use(s)
      PROVE  TypeOK'
  BY <1>11 DEF use
<1>12. ASSUME NEW s \in Senders, clientSend(s)
      PROVE  TypeOK'
  BY <1>12 DEF clientSend
<1>13. ASSUME NEW s \in Senders, Sender(s)
      PROVE  TypeOK'
  BY <1>13, <1>2, <1>3, <1>4, <1>5, <1>6, <1>7, <1>8, <1>9, <1>10, <1>11, <1>12 DEF Sender
<1>14. ASSUME NEW a \in {Zk, Stopper}, check(a)
       PROVE  TypeOK'
  BY <1>14 DEF check
<1>15. ASSUME NEW a \in {Zk, Stopper}, unset(a)
       PROVE  TypeOK'
  BY <1>15 DEF unset
<1>16. ASSUME NEW a \in {Zk, Stopper}, unregisterWatcher(a)
       PROVE  TypeOK'
  BY <1>16 DEF unregisterWatcher
<1>17. ASSUME NEW a \in {Zk, Stopper}, shutdownProducer(a)
       PROVE  TypeOK'
  BY <1>17 DEF shutdownProducer
<1>18. ASSUME NEW a \in {Zk, Stopper}, recycle(a)
       PROVE  TypeOK'
  BY <1>18 DEF recycle
<1>19. ASSUME NEW a \in {Zk, Stopper}, shutdown(a)
       PROVE  TypeOK'
  BY <1>19, <1>14, <1>15, <1>16, <1>17, <1>18 DEF shutdown
<1>20. CASE ChangeMetadata
  BY <1>20 DEF ChangeMetadata
<1>21. CASE handleDataChange
  <2>1. PICK p \in notified :
          /\ notified' = notified \ {p}
          /\ metadata' = [metadata EXCEPT ![p] = zkMetadata]
          /\ IF metadata[p] = zkMetadata
             THEN UNCHANGED <<pc, mine>>
             ELSE Goto(Zk, "check") /\ mine' = [mine EXCEPT ![Zk] = p]
    BY <1>21 DEF handleDataChange
  <2>2. pc' \in [Actors -> SenderPC \cup CallerPC] /\ mine' \in [Actors -> Proxies \cup {None}]
    BY <2>1
  <2>3. metadata' \in [Proxies -> 0 .. MaxChanges] /\ notified' \subseteq Proxies
    BY <2>1
  <2> QED
    BY <1>21, <2>2, <2>3 DEF handleDataChange
<1>22. CASE restarted
  BY <1>22 DEF restarted
<1>23. CASE stopProducer
  BY <1>23 DEF stopProducer
<1>24. CASE stop
  BY <1>24 DEF stop
<1>25. CASE shutdownCached
  BY <1>25 DEF shutdownCached
<1>26. CASE leave
  BY <1>26 DEF leave
<1>27. CASE endZms
  BY <1>27 DEF endZms
<1> QED
  BY <1>1, <1>13, <1>19, <1>20, <1>21, <1>22, <1>23, <1>24, <1>25, <1>26, <1>27
     DEF Next, ZkThread, StopThread

LEMMA OpenInvariance ==
  ASSUME TypeOK, OpenInv, [Next]_vars
  PROVE  OpenInv'
<1> USE Bounds, Roles
    DEF TypeOK, Proxies, None, OpenInv, RunningIsOpen, Numbered, Unshared, Cleared, zkVars,
        proxyVars, Goto
<1>1. CASE UNCHANGED vars
  BY <1>1 DEF vars
<1>2. ASSUME NEW s \in Senders, send(s)
      PROVE  OpenInv'
  BY <1>2 DEF send
<1>3. ASSUME NEW s \in Senders, lookup(s)
      PROVE  OpenInv'
  BY <1>3 DEF lookup
<1>4. ASSUME NEW s \in Senders, get(s)
      PROVE  OpenInv'
  BY <1>4 DEF get
<1>5. ASSUME NEW s \in Senders, enterMonitor(s)
      PROVE  OpenInv'
  BY <1>5 DEF enterMonitor
<1>6. ASSUME NEW s \in Senders, recheck(s)
      PROVE  OpenInv'
  BY <1>6 DEF recheck
<1>7. ASSUME NEW s \in Senders, startProducer(s)
      PROVE  OpenInv'
  BY <1>7 DEF startProducer
<1>8. ASSUME NEW s \in Senders, registerWatcher(s)
      PROVE  OpenInv'
  BY <1>8 DEF registerWatcher
<1>9. ASSUME NEW s \in Senders, run(s)
      PROVE  OpenInv'
  <2>1. /\ running' = running \cup {mine[s]}
        /\ pc' = [pc EXCEPT ![s] = "put"]
        /\ pc[s] = "run"
        /\ UNCHANGED <<notified, cache, made, open, watched, mine>>
    BY <1>9 DEF run
  <2>2. mine[s] \in open
    BY <2>1
  <2>3. (RunningIsOpen /\ Numbered)'
    BY <2>1, <2>2
  <2>4. \A a \in Actors : pc'[a] \in {"watch", "run", "unset", "unwatch", "close"}
                           => pc'[a] = pc[a] /\ mine[a] # mine[s] /\ a # s
    BY <2>1
  <2>5. Unshared'
    BY <2>1, <2>4
  <2>6. Cleared'
    BY <2>1, <2>4
  <2> QED
    BY <2>3, <2>5, <2>6
<1>10. ASSUME NEW s \in Senders, putIfAbsent(s)
      PROVE  OpenInv'
  BY <1>10 DEF putIfAbsent
<1>11. ASSUME NEW s \in Senders, use(s)
      PROVE  OpenInv'
  <2>1. CASE Goto(s, "sending") /\ mine' = mine
    BY <1>11, <2>1 DEF use
  <2>2. CASE Goto(s, "idle") /\ mine' = [mine EXCEPT ![s] = None]
    BY <1>11, <2>2 DEF use
  <2> QED
    BY <1>11, <2>1, <2>2 DEF use
<1>12. ASSUME NEW s \in Senders, clientSend(s)
      PROVE  OpenInv'
  BY <1>12 DEF clientSend
<1>13. ASSUME NEW s \in Senders, Sender(s)
      PROVE  OpenInv'
  BY <1>13, <1>2, <1>3, <1>4, <1>5, <1>6, <1>7, <1>8, <1>9, <1>10, <1>11, <1>12 DEF Sender
<1>14. ASSUME NEW a \in {Zk, Stopper}, check(a)
       PROVE  OpenInv'
  BY <1>14 DEF check
<1>15. ASSUME NEW a \in {Zk, Stopper}, unset(a)
       PROVE  OpenInv'
  BY <1>15 DEF unset
<1>16. ASSUME NEW a \in {Zk, Stopper}, unregisterWatcher(a)
       PROVE  OpenInv'
  BY <1>16 DEF unregisterWatcher
<1>17. ASSUME NEW a \in {Zk, Stopper}, shutdownProducer(a)
       PROVE  OpenInv'
  BY <1>17 DEF shutdownProducer
<1>18. ASSUME NEW a \in {Zk, Stopper}, recycle(a)
       PROVE  OpenInv'
  BY <1>18 DEF recycle
<1>19. ASSUME NEW a \in {Zk, Stopper}, shutdown(a)
       PROVE  OpenInv'
  BY <1>19, <1>14, <1>15, <1>16, <1>17, <1>18 DEF shutdown
<1>20. CASE ChangeMetadata
  BY <1>20 DEF ChangeMetadata
<1>21. CASE handleDataChange
  <2>1. PICK p \in notified :
          /\ notified' = notified \ {p}
          /\ IF metadata[p] = zkMetadata
             THEN UNCHANGED <<pc, mine>>
             ELSE Goto(Zk, "check") /\ mine' = [mine EXCEPT ![Zk] = p]
    BY <1>21 DEF handleDataChange
  <2>2. /\ UNCHANGED <<cache, made, open, running, watched>>
        /\ pc[Zk] = "idle"
    BY <1>21 DEF handleDataChange
  <2>3. Numbered'
    BY <2>1, <2>2
  <2>4. \A a \in Actors : \/ pc'[a] = pc[a] /\ mine'[a] = mine[a]
                          \/ pc'[a] = "check"
    BY <2>1
  <2> QED
    BY <2>2, <2>3, <2>4
<1>22. CASE restarted
  BY <1>22 DEF restarted
<1>23. CASE stopProducer
  BY <1>23 DEF stopProducer
<1>24. CASE stop
  BY <1>24 DEF stop
<1>25. CASE shutdownCached
  BY <1>25 DEF shutdownCached
<1>26. CASE leave
  BY <1>26 DEF leave
<1>27. CASE endZms
  BY <1>27 DEF endZms
<1> QED
  BY <1>1, <1>13, <1>19, <1>20, <1>21, <1>22, <1>23, <1>24, <1>25, <1>26, <1>27
     DEF Next, ZkThread, StopThread

\* Every reachable state of a factory is well typed.
THEOREM ProducerTypeCorrect == Spec => []TypeOK
<1>1. TypeOK /\ OpenInv /\ [Next]_vars => (TypeOK /\ OpenInv)'
  BY TypeInvariance, OpenInvariance DEF OpenInv
<1> QED
  BY OpenInit, <1>1, PTL DEF Spec

\* A proxy that says it runs has an open client: shutdown() clears running before it closes
\* the client, and start() makes the client before it sets running.
THEOREM RunningProducerIsOpen == Spec => []RunningIsOpen
<1>1. TypeOK /\ OpenInv /\ [Next]_vars => (TypeOK /\ OpenInv)'
  BY TypeInvariance, OpenInvariance DEF OpenInv
<1>2. OpenInv => RunningIsOpen
  BY DEF OpenInv
<1> QED
  BY OpenInit, <1>1, <1>2, PTL DEF Spec

-----------------------------------------------------------------------------
(***************************************************************************)
(* OneProducer and RunningIsReachable, until the application stops the     *)
(* producer and with one monitor: a thread builds under the monitor after  *)
(* it has seen an empty cache, and then nothing runs.                      *)
(***************************************************************************)
Quiet == stops = 0 /\ ~ending
OneMonitor == \A s, t \in Senders : MonitorOf(s) = MonitorOf(t)

\* The application's stopping thread has done nothing yet.
StopperIdle == pc[Stopper] = "idle"

\* One thread at a time is inside the monitor.
Exclusive ==
  \A s \in Senders : pc[s] \in {"recheck", "read", "watch", "run", "put"}
                       => monitor[MonitorOf(s)] = s

Building == {"read", "watch", "run"}
\* While a producer is built there is neither another in the cache nor one that runs, and
\* before it is cached no other runs.
Alone ==
  \A s \in Senders :
    /\ pc[s] \in Building => cache = None /\ running = {}
    /\ pc[s] = "put" => cache = None /\ running \subseteq {mine[s]} /\ mine[s] # None

\* What runs is cached, or is about to be.
Held == \A p \in running : cache = p \/ \E s \in Senders : pc[s] = "put" /\ mine[s] = p

\* What the event thread shuts down is in the cache, or is about to be: recycle
\* removes the proxy it means, or nothing.
Recycled ==
  pc[Zk] \in {"unset", "unwatch", "close", "recycle"} =>
    /\ mine[Zk] # None
    /\ \/ cache = mine[Zk]
       \/ \E s \in Senders : pc[s] = "put" /\ mine[s] = mine[Zk]
\* Once the event thread has cleared running, nothing runs until it has recycled.
Stopped == pc[Zk] \in {"unwatch", "close", "recycle"} => running = {}

Single == StopperIdle /\ Exclusive /\ Alone /\ Held /\ Recycled /\ Stopped
SingleInv == Quiet => Single

LEMMA SingleInit == Init => SingleInv
BY Roles DEF Init, SingleInv, Single, StopperIdle, Exclusive, Alone, Held, Recycled, Stopped, Building

\* Nothing takes a call of stopProducer or stop back.
LEMMA StopsStay ==
  ASSUME TypeOK, [Next]_vars, Quiet'
  PROVE  Quiet
<1>1. CASE stopProducer
  BY <1>1 DEF stopProducer, Quiet, TypeOK
<1>2. CASE stop
  BY <1>2 DEF stop, Quiet
<1>3. CASE UNCHANGED <<stops, ending>>
  BY <1>3 DEF Quiet
<1>4. ASSUME NEW s \in Senders, Sender(s)
      PROVE  UNCHANGED <<stops, ending>>
  BY <1>4 DEF Sender, send, lookup, get, enterMonitor, recheck, startProducer, registerWatcher, run,
              putIfAbsent, use, clientSend
<1>5. ASSUME NEW a \in Actors, shutdown(a)
      PROVE  UNCHANGED <<stops, ending>>
  BY <1>5 DEF shutdown, check, unset, unregisterWatcher, shutdownProducer, recycle
<1>6. CASE handleDataChange \/ restarted \/ shutdownCached \/ leave \/ endZms \/ ChangeMetadata
  BY <1>6, <1>3 DEF handleDataChange, restarted, shutdownCached, leave, endZms, ChangeMetadata
<1> QED
  BY <1>1, <1>2, <1>3, <1>4, <1>5, <1>6, Roles DEF Next, ZkThread, StopThread, vars

LEMMA SingleInvariance ==
  ASSUME OneMonitor, TypeOK, OpenInv, SingleInv, [Next]_vars
  PROVE  SingleInv'
<1> SUFFICES ASSUME Quiet'
             PROVE  Single'
  BY DEF SingleInv
<1>0. Quiet /\ Single
  BY StopsStay DEF SingleInv
<1> USE <1>0, Bounds, Roles
    DEF TypeOK, None, Single, StopperIdle, Exclusive, Alone, Held, Recycled, Stopped, Quiet, OneMonitor,
        Building, zkVars, proxyVars, Goto
<1>1. CASE UNCHANGED vars
  BY <1>1 DEF vars
<1>2. ASSUME NEW s \in Senders, send(s)
      PROVE  Single'
  BY <1>2 DEF send
<1>3. ASSUME NEW s \in Senders, lookup(s)
      PROVE  Single'
  BY <1>3 DEF lookup
<1>4. ASSUME NEW s \in Senders, get(s)
      PROVE  Single'
  BY <1>4 DEF get
<1>5. ASSUME NEW s \in Senders, enterMonitor(s)
      PROVE  Single'
  <2>1. MonitorOf(s) \in Monitors
    BY DEF MonitorOf, Monitors
  <2>2. \A t \in Senders : pc[t] \notin {"recheck", "read", "watch", "run", "put"}
    BY <1>5, <2>1, NoneIsNobody DEF enterMonitor, Enter
  <2>3. /\ pc' = [pc EXCEPT ![s] = "recheck"]
        /\ monitor'[MonitorOf(s)] = s
        /\ UNCHANGED <<cache, running, mine>>
        /\ pc[s] = "enter"
    BY <1>5, <2>1 DEF enterMonitor, Enter
  <2> QED
    BY <2>2, <2>3
<1>6. ASSUME NEW s \in Senders, recheck(s)
      PROVE  Single'
  <2>1. MonitorOf(s) \in Monitors
    BY DEF MonitorOf, Monitors
  <2>2. \A t \in Senders : pc[t] \in {"recheck", "read", "watch", "run", "put"} => t = s
    BY <1>6, <2>1 DEF recheck
  <2>3. CASE cache = None
    <3>1. running = {}
      BY <1>6, <2>2, <2>3 DEF recheck, Proxies
    <3> QED
      BY <1>6, <2>2, <2>3, <3>1 DEF recheck
  <2>4. CASE cache # None
    BY <1>6, <2>1, <2>2, <2>4 DEF recheck, Leave
  <2> QED
    BY <2>3, <2>4
<1>7. ASSUME NEW s \in Senders, startProducer(s)
      PROVE  Single'
  BY <1>7 DEF startProducer
<1>8. ASSUME NEW s \in Senders, registerWatcher(s)
      PROVE  Single'
  BY <1>8 DEF registerWatcher
<1>9. ASSUME NEW s \in Senders, run(s)
      PROVE  Single'
  <2>1. mine[s] \in Proxies
    BY <1>9 DEF run, OpenInv, Unshared
  <2>2. /\ pc[s] = "run"
        /\ pc' = [pc EXCEPT ![s] = "put"]
        /\ running' = running \cup {mine[s]}
        /\ UNCHANGED <<cache, monitor, mine>>
    BY <1>9 DEF run
  <2>3. cache = None /\ running = {}
    BY <2>2
  <2>4. \A t \in Senders : pc[t] \in {"recheck", "read", "watch", "run", "put"} => t = s
    BY <2>2
  <2>5. pc[Zk] \notin {"unset", "unwatch", "close", "recycle"}
    BY <2>2, <2>3, <2>4
  <2> QED
    BY <2>1, <2>2, <2>3, <2>4, <2>5 DEF Proxies
<1>10. ASSUME NEW s \in Senders, putIfAbsent(s)
      PROVE  Single'
  BY <1>10 DEF putIfAbsent, Leave
<1>11. ASSUME NEW s \in Senders, use(s)
      PROVE  Single'
  BY <1>11 DEF use
<1>12. ASSUME NEW s \in Senders, clientSend(s)
      PROVE  Single'
  BY <1>12 DEF clientSend
<1>13. ASSUME NEW s \in Senders, Sender(s)
       PROVE  Single'
  BY <1>13, <1>2, <1>3, <1>4, <1>5, <1>6, <1>7, <1>8, <1>9, <1>10, <1>11, <1>12 DEF Sender
<1>14. CASE check(Zk)
  BY <1>14 DEF check, Proxies
<1>15. CASE unset(Zk)
  BY <1>15 DEF unset
<1>16. CASE unregisterWatcher(Zk)
  BY <1>16 DEF unregisterWatcher
<1>17. CASE shutdownProducer(Zk)
  BY <1>17 DEF shutdownProducer
<1>18. CASE recycle(Zk)
  BY <1>18 DEF recycle
<1>19. CASE shutdown(Zk)
  BY <1>19, <1>14, <1>15, <1>16, <1>17, <1>18 DEF shutdown
<1>20. ~StopThread /\ ~stopProducer /\ ~stop
  BY DEF StopThread, shutdownCached, shutdown, check, unset, unregisterWatcher, shutdownProducer,
         recycle, leave, endZms, stopProducer, stop
<1>21. CASE ChangeMetadata
  BY <1>21 DEF ChangeMetadata
<1>22. CASE handleDataChange
  BY <1>22 DEF handleDataChange
<1>23. CASE restarted
  BY <1>23 DEF restarted
<1> QED
  BY <1>1, <1>13, <1>19, <1>20, <1>21, <1>22, <1>23 DEF Next, ZkThread

\* Until a stop, and with one monitor for all sends, a topic never has two running producers:
\* the monitor and the second look at the cache do their work whatever is recycled meanwhile.
THEOREM SingleProducer ==
  ASSUME OneMonitor
  PROVE  Spec => []OneProducer
<1>1. TypeOK /\ OpenInv /\ SingleInv /\ [Next]_vars => (TypeOK /\ OpenInv /\ SingleInv)'
  BY TypeInvariance, OpenInvariance, SingleInvariance DEF OpenInv
<1>2. SingleInv => OneProducer
  BY DEF SingleInv, Single, Quiet, OneProducer, Held, Alone, Exclusive, OneMonitor
<1> QED
  BY OpenInit, SingleInit, <1>1, <1>2, PTL DEF Spec

\* Under the same conditions a running producer is never lost.
THEOREM ProducerReachable ==
  ASSUME OneMonitor
  PROVE  Spec => []RunningIsReachable
<1>1. TypeOK /\ OpenInv /\ SingleInv /\ [Next]_vars => (TypeOK /\ OpenInv /\ SingleInv)'
  BY TypeInvariance, OpenInvariance, SingleInvariance DEF OpenInv
<1>2. SingleInv => RunningIsReachable
  BY Roles DEF SingleInv, Single, Quiet, RunningIsReachable, Held
<1> QED
  BY OpenInit, SingleInit, <1>1, <1>2, PTL DEF Spec
=============================================================================
