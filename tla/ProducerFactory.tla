-------------------------- MODULE ProducerFactory --------------------------
(***************************************************************************)
(* The producers of one topic inside one process: application threads that *)
(* send and create the topic's producer proxy on demand, the application's *)
(* thread that calls Zms.stopProducer and Zms.stop, and the ZooKeeper      *)
(* event thread that shuts a proxy down when the topic's metadata changes, *)
(* so that the next send creates another one.                              *)
(*                                                                         *)
(* A send with properties creates under the monitor of the class, a send   *)
(* without under the monitor of the map.                                   *)
(***************************************************************************)
EXTENDS Integers, FiniteSets

CONSTANTS
  PlainSenders,     \* threads that send without properties
  PropertySenders,  \* threads that send with properties
  Stopper,          \* the thread that calls stopProducer and stop
  Zk,               \* the event thread of ZkClient
  MaxProxies,       \* bound: proxies ever created
  MaxChanges,       \* bound: changes of the topic's metadata in ZooKeeper
  MaxStops,         \* bound: calls of stopProducer
  StopsZms          \* whether the application calls Zms.stop

Senders == PlainSenders \cup PropertySenders
Actors == Senders \cup {Stopper, Zk}
Proxies == 1 .. MaxProxies
Monitors == {"class", "map"}
None == 0

ASSUME ProducerAssumption ==
  /\ PlainSenders \cap PropertySenders = {}
  /\ Stopper # Zk /\ {Stopper, Zk} \cap Senders = {}
  /\ None \notin Actors
  /\ {MaxProxies, MaxChanges, MaxStops} \subseteq Nat
  /\ StopsZms \in BOOLEAN

VARIABLES
  zkMetadata,  \* version of the topic's metadata in ZooKeeper
  notified,    \* proxies for which a data change is queued in the event thread
  zms,         \* Zms.running
  cache,       \* topicProducers: the topic's proxy, or None
  made,        \* proxies created so far
  metadata,    \* metadata[p]: version the proxy holds
  cluster,     \* cluster[p]: version its client was built from
  open,        \* proxies whose client is started and not closed
  running,     \* proxies with running = true
  watched,     \* proxies subscribed to data changes
  monitor,     \* monitor[m]: the thread inside, or None
  pc,          \* where each thread is
  mine,        \* mine[a]: the proxy thread a works with
  stops,       \* calls of stopProducer so far
  ending       \* Zms.stop has been called

zkVars    == <<zkMetadata, notified>>
proxyVars == <<made, metadata, cluster, open, running, watched>>
vars == <<zkVars, zms, cache, proxyVars, monitor, pc, mine, stops, ending>>

SenderPC == {"idle", "lookup", "get", "enter", "recheck", "read", "watch", "run", "put", "use",
             "sending"}
CallerPC == {"idle", "cached", "check", "unset", "unwatch", "close", "recycle", "leave", "end",
             "stopped"}

TypeOK ==
  /\ zkMetadata \in 0 .. MaxChanges
  /\ zms \in BOOLEAN
  /\ cache \in Proxies \cup {None}
  /\ made \in 0 .. MaxProxies
  /\ metadata \in [Proxies -> 0 .. MaxChanges] /\ cluster \in [Proxies -> 0 .. MaxChanges]
  /\ notified \subseteq Proxies /\ open \subseteq Proxies
  /\ running \subseteq Proxies /\ watched \subseteq Proxies
  /\ monitor \in [Monitors -> Actors \cup {None}]
  /\ pc \in [Actors -> SenderPC \cup CallerPC]
  /\ mine \in [Actors -> Proxies \cup {None}]
  /\ stops \in 0 .. MaxStops
  /\ ending \in BOOLEAN

Init ==
  /\ zkMetadata = 0 /\ notified = {}
  /\ zms = TRUE
  /\ cache = None
  /\ made = 0
  /\ metadata = [p \in Proxies |-> 0] /\ cluster = [p \in Proxies |-> 0]
  /\ open = {} /\ running = {} /\ watched = {}
  /\ monitor = [m \in Monitors |-> None]
  /\ pc = [a \in Actors |-> "idle"]
  /\ mine = [a \in Actors |-> None]
  /\ stops = 0
  /\ ending = FALSE

Goto(a, label) == pc' = [pc EXCEPT ![a] = label]
MonitorOf(s) == IF s \in PropertySenders THEN "class" ELSE "map"
Enter(a, m) == monitor[m] = None /\ monitor' = [monitor EXCEPT ![m] = a]
Leave(m) == monitor' = [monitor EXCEPT ![m] = None]

-----------------------------------------------------------------------------
(* A sending thread: Zms.send*, then ProducerFactory.doGetProducer *)

\* doSendSync and the others: nothing is sent when Zms does not run.
send(s) ==
  /\ pc[s] = "idle"
  /\ zms
  /\ Goto(s, "lookup")
  /\ UNCHANGED <<zkVars, zms, cache, proxyVars, monitor, mine, stops, ending>>

\* The cache is read once to see whether there is a proxy ...
lookup(s) ==
  /\ pc[s] = "lookup"
  /\ Goto(s, IF cache = None THEN "enter" ELSE "get")
  /\ UNCHANGED <<zkVars, zms, cache, proxyVars, monitor, mine, stops, ending>>

\* ... and a second time to get it; when it has gone meanwhile the send fails with a
\* NullPointerException.
get(s) ==
  /\ pc[s] = "get"
  /\ mine' = [mine EXCEPT ![s] = cache]
  /\ Goto(s, IF cache = None THEN "idle" ELSE "use")
  /\ UNCHANGED <<zkVars, zms, cache, proxyVars, monitor, stops, ending>>

enterMonitor(s) ==
  /\ pc[s] = "enter"
  /\ Enter(s, MonitorOf(s))
  /\ Goto(s, "recheck")
  /\ UNCHANGED <<zkVars, zms, cache, proxyVars, mine, stops, ending>>

\* Mutant: no second look inside the monitor.
recheck_Trust(s) ==
  /\ pc[s] = "recheck"
  /\ Goto(s, "read") /\ monitor' = monitor
  /\ UNCHANGED <<zkVars, zms, cache, proxyVars, mine, stops, ending>>

\* Mutant: the early return keeps the monitor (a Lock without its finally).
recheck_Keep(s) ==
  /\ pc[s] = "recheck"
  /\ Goto(s, IF cache = None THEN "read" ELSE "get")
  /\ monitor' = monitor
  /\ UNCHANGED <<zkVars, zms, cache, proxyVars, mine, stops, ending>>

recheck(s) ==
  /\ pc[s] = "recheck"
  /\ IF cache = None
     THEN Goto(s, "read") /\ monitor' = monitor
     ELSE Goto(s, "get") /\ Leave(MonitorOf(s))
  /\ UNCHANGED <<zkVars, zms, cache, proxyVars, mine, stops, ending>>

\* Mutant: an error while reading the metadata is only logged.
startProducer_Swallow(s) ==
  /\ pc[s] = "read"
  /\ Goto(s, "watch")
  /\ UNCHANGED <<zkVars, zms, cache, proxyVars, monitor, mine, stops, ending>>

\* Reads the topic's metadata and constructs a proxy, whose start() first makes the
\* client (startProducer) ...
startProducer(s) ==
  /\ pc[s] = "read"
  /\ made < MaxProxies
  /\ made' = made + 1
  /\ metadata' = [metadata EXCEPT ![made'] = zkMetadata]
  /\ cluster' = [cluster EXCEPT ![made'] = zkMetadata]
  /\ open' = open \cup {made'}
  /\ mine' = [mine EXCEPT ![s] = made']
  /\ Goto(s, "watch")
  /\ UNCHANGED <<zkVars, zms, cache, running, watched, monitor, stops, ending>>

\* ... then watches the metadata ...
registerWatcher(s) ==
  /\ pc[s] = "watch"
  /\ watched' = watched \cup {mine[s]}
  /\ Goto(s, "run")
  /\ UNCHANGED <<zkVars, zms, cache, made, metadata, cluster, open, running, monitor, mine, stops, ending>>

\* ... and sets running.
run(s) ==
  /\ pc[s] = "run"
  /\ running' = running \cup {mine[s]}
  /\ Goto(s, "put")
  /\ UNCHANGED <<zkVars, zms, cache, made, metadata, cluster, open, watched, monitor, mine, stops, ending>>

\* Mutant: the map is never filled.
putIfAbsent_Forget(s) ==
  /\ pc[s] = "put"
  /\ Leave(MonitorOf(s))
  /\ Goto(s, "use")
  /\ UNCHANGED <<zkVars, zms, cache, proxyVars, mine, stops, ending>>

\* putIfAbsent; the thread returns the proxy it made whether or not it was put.
putIfAbsent(s) ==
  /\ pc[s] = "put"
  /\ cache' = IF cache = None THEN mine[s] ELSE cache
  /\ Leave(MonitorOf(s))
  /\ Goto(s, "use")
  /\ UNCHANGED <<zkVars, zms, proxyVars, mine, stops, ending>>

\* syncSend gives FAILURE_NOTRUNNING when the proxy does not run; asyncSend and oneway do
\* not look.
use(s) ==
  /\ pc[s] = "use"
  /\ \/ Goto(s, "sending") /\ mine' = mine
     \/ /\ mine[s] \notin running
        /\ Goto(s, "idle")
        /\ mine' = [mine EXCEPT ![s] = None]
  /\ UNCHANGED <<zkVars, zms, cache, proxyVars, monitor, stops, ending>>

\* The client takes the message, or throws because it is closed.
clientSend(s) ==
  /\ pc[s] = "sending"
  /\ Goto(s, "idle")
  /\ mine' = [mine EXCEPT ![s] = None]
  /\ UNCHANGED <<zkVars, zms, cache, proxyVars, monitor, stops, ending>>

-----------------------------------------------------------------------------
(* Metadata changes *)

\* The portal writes new metadata for the topic.
ChangeMetadata ==
  /\ zkMetadata < MaxChanges
  /\ zkMetadata' = zkMetadata + 1
  /\ notified' = notified \cup watched
  /\ UNCHANGED <<zms, cache, proxyVars, monitor, pc, mine, stops, ending>>

\* The proxy takes the new metadata and restarts, which is a shutdown of a proxy that runs.
handleDataChange ==
  /\ pc[Zk] = "idle"
  /\ \E p \in notified :
       /\ notified' = notified \ {p}
       /\ metadata' = [metadata EXCEPT ![p] = zkMetadata]
       /\ IF metadata[p] = zkMetadata
          THEN UNCHANGED <<pc, mine>>
          ELSE Goto(Zk, "check") /\ mine' = [mine EXCEPT ![Zk] = p]
  /\ UNCHANGED <<zkMetadata, zms, cache, made, cluster, open, running, watched, monitor, stops, ending>>

-----------------------------------------------------------------------------
(* shutdown() of a proxy, by the event thread or by the application's *)

\* if (!running) return
check(a) ==
  /\ pc[a] = "check"
  /\ Goto(a, IF mine[a] \in running THEN "unset" ELSE "leave")
  /\ UNCHANGED <<zkVars, zms, cache, proxyVars, monitor, mine, stops, ending>>

\* Mutant: running is cleared by super.shutdown only.
unset_Late(a) ==
  /\ pc[a] = "unset"
  /\ Goto(a, "unwatch")
  /\ UNCHANGED <<zkVars, zms, cache, proxyVars, monitor, mine, stops, ending>>

\* running = false
unset(a) ==
  /\ pc[a] = "unset"
  /\ running' = running \ {mine[a]}
  /\ Goto(a, "unwatch")
  /\ UNCHANGED <<zkVars, zms, cache, made, metadata, cluster, open, watched, monitor, mine, stops, ending>>

\* super.shutdown: unregisterWatcher
unregisterWatcher(a) ==
  /\ pc[a] = "unwatch"
  /\ watched' = watched \ {mine[a]}
  /\ Goto(a, "close")
  /\ UNCHANGED <<zkVars, zms, cache, made, metadata, cluster, open, running, monitor, mine, stops, ending>>

\* shutdownProducer closes the client.
shutdownProducer(a) ==
  /\ pc[a] = "close"
  /\ open' = open \ {mine[a]}
  /\ Goto(a, "recycle")
  /\ UNCHANGED <<zkVars, zms, cache, made, metadata, cluster, running, watched, monitor, mine,
                 stops, ending>>

\* Mutant: only a stop removes the proxy from the map.
recycle_Not(a) ==
  /\ pc[a] = "recycle"
  /\ Goto(a, "leave")
  /\ UNCHANGED <<zkVars, zms, cache, proxyVars, monitor, mine, stops, ending>>

\* ProducerFactory.recycle removes what the map holds under the topic's key.
recycle(a) ==
  /\ pc[a] = "recycle"
  /\ cache' = None
  /\ Goto(a, "leave")
  /\ UNCHANGED <<zkVars, zms, proxyVars, monitor, mine, stops, ending>>

\* The event thread has restarted the proxy: nothing starts it again.
restarted ==
  /\ pc[Zk] = "leave"
  /\ Goto(Zk, "idle")
  /\ mine' = [mine EXCEPT ![Zk] = None]
  /\ UNCHANGED <<zkVars, zms, cache, proxyVars, monitor, stops, ending>>

-----------------------------------------------------------------------------
(* Zms.stopProducer and Zms.stop: synchronized static methods of the factory *)

\* shutdown(topic) enters the monitor of the class.
stopProducer ==
  /\ pc[Stopper] = "idle"
  /\ stops < MaxStops
  /\ stops' = stops + 1
  /\ Enter(Stopper, "class")
  /\ Goto(Stopper, "cached")
  /\ UNCHANGED <<zkVars, zms, cache, proxyVars, mine, ending>>

\* shutdown() does too; its caller ends Zms.
stop ==
  /\ pc[Stopper] = "idle"
  /\ StopsZms
  /\ ending' = TRUE
  /\ Enter(Stopper, "class")
  /\ Goto(Stopper, "cached")
  /\ UNCHANGED <<zkVars, zms, cache, proxyVars, mine, stops>>

\* Both shut down the proxy that the map holds, if it does.  (When a recycle comes between
\* containsKey and get, shutdown(topic) throws, which also leaves the monitor.)
shutdownCached ==
  /\ pc[Stopper] = "cached"
  /\ mine' = [mine EXCEPT ![Stopper] = cache]
  /\ Goto(Stopper, IF cache = None THEN "leave" ELSE "check")
  /\ UNCHANGED <<zkVars, zms, cache, proxyVars, monitor, stops, ending>>

\* shutdown() also clears the map.
leave ==
  /\ pc[Stopper] = "leave"
  /\ cache' = IF ending THEN None ELSE cache
  /\ mine' = [mine EXCEPT ![Stopper] = None]
  /\ Leave("class")
  /\ Goto(Stopper, IF ending THEN "end" ELSE "idle")
  /\ UNCHANGED <<zkVars, zms, proxyVars, stops, ending>>

\* Zms.shutdown closes the ZooKeeper client and, last, sets running = false.
endZms ==
  /\ pc[Stopper] = "end"
  /\ zms' = FALSE
  /\ watched' = {} /\ notified' = {}
  /\ Goto(Stopper, "stopped")
  /\ UNCHANGED <<zkMetadata, cache, made, metadata, cluster, open, running, monitor, mine, stops,
                 ending>>

-----------------------------------------------------------------------------
Sender(s) ==
  \/ send(s) \/ lookup(s) \/ get(s) \/ enterMonitor(s) \/ recheck(s) \/ startProducer(s)
  \/ registerWatcher(s) \/ run(s) \/ putIfAbsent(s) \/ use(s) \/ clientSend(s)
shutdown(a) ==
  check(a) \/ unset(a) \/ unregisterWatcher(a) \/ shutdownProducer(a) \/ recycle(a)
ZkThread == handleDataChange \/ shutdown(Zk) \/ restarted
StopThread == shutdownCached \/ shutdown(Stopper) \/ leave \/ endZms

Next ==
  \/ \E s \in Senders : Sender(s)
  \/ ZkThread
  \/ StopThread \/ stopProducer \/ stop
  \/ ChangeMetadata

\* Threads run and monitors are handed over; the application goes on sending.  Nothing
\* forces a change of metadata or a stop.
Fairness ==
  /\ \A s \in Senders : WF_vars(Sender(s)) /\ SF_vars(enterMonitor(s))
  /\ WF_vars(ZkThread) /\ WF_vars(StopThread)

Spec == Init /\ [][Next]_vars
FairSpec == Spec /\ Fairness

-----------------------------------------------------------------------------
(* Properties *)

\* A proxy that says it runs has an open client: a syncSend that finds running true has
\* at that moment a client to send with, whoever shuts the proxy down.
RunningIsOpen == running \subseteq open

\* Until the application calls stopProducer or stop, and when all sends use the same monitor, the
\* topic never has two running producers, whatever the event thread recycles meanwhile.
OneProducer == stops = 0 /\ ~ending => \A p, q \in running : p = q

\* Under the same conditions a running producer is never lost: the map holds it, for
\* stopProducer to find, or a thread is still working on it.
RunningIsReachable ==
  stops = 0 /\ ~ending => \A p \in running : cache = p \/ \E a \in Actors : mine[a] = p

\* Every send comes to an end.
Answered == \A s \in Senders : (pc[s] # "idle") ~> (pc[s] = "idle")

Delivers(s) == pc[s] = "sending" /\ mine[s] \in open
\* While Zms runs and the metadata does not change, messages keep reaching the cluster,
\* through any number of calls of stopProducer: the next send makes a new producer.
KeepsSending ==
  [](zkMetadata = 0) => []<>(\E s \in Senders : Delivers(s)) \/ <>~zms

\* A change of the metadata reaches the senders: messages come to be sent to the cluster it
\* names.
MigrationReachesProducer ==
  []<>(\E s \in Senders : Delivers(s) /\ cluster[mine[s]] = zkMetadata)

\* A proxy that was shut down does not stay in the cache.
DeadProxyReplaced ==
  \A p \in Proxies : (cache = p /\ p \notin running) ~> (cache # p)
=============================================================================
