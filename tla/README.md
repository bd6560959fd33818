# ZMS in TLA+

ZMS is a message service on top of Kafka and RocketMQ: applications send to and
consume from *topics* and *consumer groups* by name, a portal decides on which
cluster each of them lives, and ZooKeeper carries that decision to the clients,
which follow it while they run.  People work with the portal through a web
interface, a single-page application.  This directory holds TLA+ modules of the parts
whose correctness depends on the order of events, the TLC configurations that
check them on small instances, and proofs of their main safety properties that
TLAPS checks for every instance.

    tlc -config KafkaShared.cfg MCKafkaConsumer      # any row of "Runs"
    tlapm KafkaConsumerProofs.tla                    # any module named *Proofs

`PROJECT.json` maps every definition to the lines it models, and lists the
runs, a mutant of the code for each property, the hazards and the findings.

Paths below are relative to `src/`; `client/` stands for
`zms-client/src/main/java/com/zto/zms/client/`, `portal/` for
`zms-portal/src/main/java/com/zto/zms/portal/`, `web/` for
`zms-portal/src/main/webapp-src/src/`.

## 1. Inventory

| component | state it keeps | operations | talks to |
|---|---|---|---|
| Kafka consumer proxy (`client/consumer/KafkaConsumerProxy.java`) | position and batch of the poll thread, pools, acks queue, offsets to commit | poll, submit, acknowledge, commit, give up and take partitions | Kafka's group coordinator; the listener |
| consumer lifecycle (`ConsumerFactory`, `ZmsConsumerProxy`, `ZmsProxy`) | cache of proxies; `running`, `metadata`, `consumer`, `executors` of a proxy | subscribe, restart on a metadata change, stopConsumer, stop | ZooKeeper watches; poll and pool threads |
| producer factory and proxies (`client/producer/`) | cache of proxies; `running`, client, metadata of a proxy | send, build on demand, shut down on a change, stopProducer, stop | ZooKeeper watches; Kafka and RocketMQ clients |
| RocketMQ proxies | the RocketMQ client | send; the listener's result becomes the consume status | RocketMQ client |
| client statistics (`client/metrics/`) | counters | periodic report through a producer of its own | producer factory |
| ZooKeeper client and metadata (`zms-common/`) | nodes of topics, groups, clusters | read, write (create, then write), watch | everything |
| portal: topics (`portal/service/topic/`) | rows `topic`, `topic_environment_ref`; nodes; topics on clusters | add, edit, approve, synchronise, delete | database, ZooKeeper of every environment, admin clients |
| portal: consumer groups (`portal/service/ConsumerMapperService.java`) | the same for groups | add, edit, approve, copy, delete | the same |
| portal: migration (`portal/service/MigrationService.java`) | an executor for database updates | migrate topics and groups | the same |
| admin clients (`zms-service/.../manager/`) | map of admin clients by cluster | create, update, delete a topic or a group | Kafka, RocketMQ |
| portal: processes and services; agent (`portal/service/serve/`, `zms-agent/`) | status of services, instances and processes; the supervisor's programs | start, stop, report, recover | HTTP between portal and agent, XML-RPC to the supervisor |
| metadata backup (`zms-backup-cluster/`) | names already seen under a ZooKeeper path | list, listen, ask the portal to copy | two ZooKeepers, the portal |
| collector, alerts (`zms-collector/`, `zms-alert/`) | schedules; a map of alert rules | read metrics, write them; apply rule messages | InfluxDB, Kafka, RocketMQ |
| portal: users, hosts, environments; mappers (`zms-dal/`) | tables | queries and forms | database |
| web: session, routes, menu (`web/permission.js`, `web/store/`, `web/utils/`, `web/router/`) | the cookie, shared by tabs; a tab's user, permissions, routes, menu | log in and out, navigate, ask who the user is, expel | the portal over HTTP |
| web: list pages (`web/views/{theme,consumer,notice,host,devops,common,env}`, `web/mixins/`, `web/modules/`) | rows, masks, dialogs and their forms, requests under way, ids kept between handlers | search, select, open, save, delete, approve, configure, copy, migrate | the same |
| web: consoles and delays (`web/views/devops/{rocketmq,kafka,messageSearch}`, `web/views/notice/consumedelay`) | a chain of selects, the result of the last search | choose, search, change, reset offsets | the same |
| web: services and instances (`web/views/service/`) | the list of instances, the run shown and its timer, the tabs of two wizards | start, stop, restart, delete, add, poll progress, read logs | the same, which asks the agents |

### What is hard

* **Threads of one client.** A consumer proxy is touched by the application's
  thread, the only event thread of its ZooKeeper client, one poll thread for
  every start, and pool threads.  They share `running`, `consumer`, `executors`
  and `acks` without a lock; shutting down runs in two of them at once.  A
  producer proxy is found, built, used and shut down by as many.
* **The group protocol.** Rebalances, expulsion of a member that is slow but
  alive, commits that are asynchronous and not repeated, a position that moves
  ahead of what is committed.
* **Notifications.** A watch fires only for those who watch: a change between
  reading metadata and watching it, or between unwatching and watching again,
  is not notified.
* **Three stores and no transaction.** A request of the portal writes the
  database, ZooKeeper and a cluster, environment by environment.  A broker may
  refuse, an answer may be lost, the portal may die, and a migration updates
  the database later, in another thread, by what was read before.
* **Answers to a page.**  Every handler of the web interface runs to its `await`
  and the rest of it when the answer comes: to a page that has gone on, has
  another dialog open, other values in its form, or waits for a second answer to
  the same question.  A timer polls a run without waiting for the last poll, and
  no failure is caught, so that whatever a handler meant to undo stays done.
* **What a tab remembers.**  The routes, permissions and menu of a user are made
  once and kept in objects of the module until the page is loaded again, while
  the session behind them ends, changes hands or belongs to another tab.

### What makes the components correct

* consumer group: a committed offset never passes a record no listener was
  given, so a record is delivered at least once whatever dies; with an orderly
  listener a partition is first delivered in order;
* consumer lifecycle: what is cached has polled, what runs is polled, a stop
  closes, a change takes effect, and the shared event thread always comes back;
* producers: one running producer for a topic, never lost while it runs, with an
  open client while it says it runs; every send ends; messages go to the cluster
  that the metadata names;
* topics: clients are never sent to a cluster without the topic; what clients
  see the portal knows; an approval that reports success has placed the topic;
  database, ZooKeeper and clusters agree when nothing is under way;
* web interface: a tab offers its user what that user was granted and nothing
  else; a request names the rows its dialog shows, once; a mask is lifted unless
  something failed; no search carries a value chosen under another environment; a
  run is complete when, and only when, all its processes have come to an end, and
  then all its results are shown; a wizard adds once.

The hazards in `PROJECT.json` list, line by line, where these can go wrong, with
the property that would show it.

## 2. Modules

| module | component | role |
|---|---|---|
| `AtLeastOnce` | consumer group | abstract promise: append, deliver, commit over what was delivered |
| `KafkaConsumer` | Kafka consumer proxy | a group of proxies with the coordinator; refines `AtLeastOnce` |
| `MCKafkaConsumer` | | instances for TLC |
| `KafkaConsumerProofs` | | theorems about `KafkaConsumer` |
| `ConsumerRestart` | consumer lifecycle | one proxy inside one process, thread by thread |
| `ConsumerRestartProofs` | | theorems about `ConsumerRestart` |
| `ProducerFactory` | producers | one topic's producers inside one process, thread by thread |
| `ProducerFactoryProofs` | | theorems about `ProducerFactory` |
| `TopicLifecycle` | portal: topics, migration | one topic over database, ZooKeeper and clusters |
| `MCTopicLifecycle`, `TopicLifecycleProofs` | | instances and theorems |
| `PortalRoutes` | web: routes, roles, menu | the route table and the functions on it |
| `Visit` | web: session | abstract promise to the pages: one user, pages that user was granted |
| `PortalSession` | web: session | cookie, server session and tabs; refines `Visit` |
| `PortalSessionProofs` | | theorems about `PortalSession` |
| `PortalApi` | web: `web/api/` | how every request names what it is about |
| `PageParts` | web: list pages | table, dialogs, requests under way: what pages are made of |
| `HomePage`, `ThemePage`, `ConsumerPage`, `AlertPage`, `HostPage`, `TransferPages` | web: list pages | the pages of environments, topics, groups, alerts, hosts, and the three of migrations |
| `QueryPages` | web: consoles and delays | eleven search forms and what can be changed from their results |
| `RunState` | web: services | the component that shows a run, with its polls |
| `InstanceList`, `ServiceWizard` | web: services | the list of instances; the wizards that add a service or instances |
| `ServiceConsole` | web: services | the three pages with the run each shows |
| `ServiceConsoleProofs` | | theorems about `ServiceConsole` |
| `PortalPages` | web | one tab: a visit and all pages; implements `ServiceConsole` |
| `MCPortalPages`, `PortalPagesProofs`, `PortalTableProofs` | | instance and theorems |

The client modules and `TopicLifecycle` meet in a topic's node in ZooKeeper: the
version that `ChangeMetadata` of the client modules increments is what
`registerTopicToZk` and `migrateInZk` write.

### KafkaConsumer

A member's poll thread is `pc`: `start` (subscribed), `joining` (its `poll` is
inside the group protocol), `poll`, `batch` (between the latch being set and the
last record being acknowledged).  A record of a batch is in one of
`unsubmitted` (the loop over records), `queued` (an executor's queue),
`finished` (the listener has returned, the offer to `acks` has not succeeded)
and `acks`; the latch is what the first three hold.  One action is one step of
one thread: `execute` is an accepted `executor.execute`, `onMessage` a pool
thread that takes a task and calls the listener, `offerAck` its `finally` block,
in which a full queue makes the *pool* thread commit.  `submitBatchRecords` is the
batch listener, called by the poll thread itself.  `commitOffsets` empties
`acks` into a request; `CompleteCommit` and `FailCommit` are the broker's
answers.  `onPartitionsRevoked` and `onPartitionsAssigned` are the rebalance
callbacks; `CompleteRebalance`, `Expel` and `Produce` are external.

Abstractions: a commit request is the set of records it was built from;
partitions are any set and `ExecutorOf` any function, of which
`partition % executors.size()` is one; a batch takes any prefix of each
partition that fits into `max.poll.records`; the listener's result is left out
because the code acknowledges whatever it is.  A request on the wire does not
survive the next generation (it would be refused).

### ConsumerRestart

Every thread has a `pc`: the application's (`User`: subscribe, later
`Zms.stopConsumer`), the event thread (`Zk`) and a poll thread for every start.
A poll thread, its `KafkaConsumer` and its pool carry the start's number, so that
the model can tell an old thread that works with a new consumer.  What
`consumerShutdown` does is split where another thread can come in: `close`
(a consumer that another thread is inside throws, and is woken up instead),
`nextPool` (one round of the loop over `executors`, an `ArrayList`, with the
iterator's check for concurrent changes, and `clear` at its end), `drain`
(waiting for a pool and dropping what is left in its queue).  Offsets are left
out; a batch is a number of tasks and a partition.

### ProducerFactory

A sender walks through `doGetProducer`: `lookup`, `enterMonitor`, `recheck`,
`startProducer` (metadata read, client made), `registerWatcher`, `run`,
`putIfAbsent`, and then `use` and `clientSend`.  The event thread and the thread
that stops walk through `shutdown`: `check`, `unset`, `unregisterWatcher`,
`shutdownProducer`, `recycle`.  The monitors of the class and of the map are
both modelled (`PropertySenders` use the first, `PlainSenders` the second).

### TopicLifecycle

The database is `status`, `partitions` and `refs` (a row's cluster for every
environment), ZooKeeper is `zk`, the clusters are `broker`.  A request is a record
of what its thread holds in local variables: what it has read (`rows`, `old`,
`new`), the environments still to do, the step inside the current one.  Each write
to one of the three stores is an action.  `fail` is a refusal by a broker or
ZooKeeper (with or without effect, when an answer is lost), `refusedByKafka` are
the refusals that Kafka's rules make certain, `createPartitionsLost` is the
request whose answer nobody reads, `Crash` ends every request and every pending
database update.  `past` remembers what a property excludes.

Assumptions that are not in the code's text: the database does not fail (each
statement is atomic); a node is created and written in one step; only approved
topics are synchronised (the web interface offers it for no other); editing an
approved topic changes nothing that is modelled; gated clusters are left out.

### PortalRoutes, PortalSession, Visit

The route table is a set of routes with a role and the nodes above them;
`RolesAbove`, `fillPerms`, `filterAsyncRouter`, `menuTree` are the functions of
`web/utils/route-menu.js` on it.  `filterAsyncRouter` removes children from the
tree it is given, and `preRouteArr` is called again for every user: `tree` and
`permissions` of a tab are what the module-global `RouteMenu` has become.
`beforeEach` is the guard of every navigation; one without permissions waits in
`asks` for `getUserInfo`, whose answer resumes it, whose refusal expels the tab
(status code 1000) and whose failure leaves it waiting for ever.  The cookie and
the server's session are separate, and an answer to a login or a logout can be
lost after the server has acted.

### PageParts and the pages

`dlg[d]` is dialog `d` with the rows whose values its form shows; `calls` are the
requests under way, each with the ids it names (`ids`), the rows whose values it
carries (`of`) and who waits for it (`d`).  `With` adds one beside equal ones, so
that a double click is two requests.  `kept` is what a page keeps between two
handlers (`id`, `envId`, `hostIds`), `picked` the selection, `envList` the store's
list, asked for once.  A page's `...User` are its handlers up to their `await`,
its `...Answer(c)` what follows; `CallFails` is a refusal, a lost answer or an
empty result, which ends the handler.  `Uncovered` and `RowsReachable` are what
dialogs and masks leave to click on.  `PortalApi` says for every request whether
the server is told what it is about by the address or by the body, which
differs: a save whose body names an old id may still be addressed to the right row.

### QueryPages

A form is a chain of selects (environment, cluster, then topic, group or broker).
The value of a field is `own` (an offer of the choices above it), `other` (one that
came late, for a choice made before) or `left` (chosen, then left in the form when
a choice above it changed).  `Cleared` is what the page's watchers empty, which
two pages do not do.

### RunState, InstanceList, ServiceWizard, ServiceConsole

`run` is the data of `web/views/service/instance/run-state.vue`: `processIds` still
polled, `shown` results, `runStatus`, the interval.  Each poll has a slot with its
own `at`: it waits for the statuses (`Polled`), then, a process after another, for the logs
(`tailProcessLogs`); what it has taken out of `processIds` and not shown yet is in its
hands.  Polls overlap.  `proc` is the progress on the server.  The list opens a run
after a confirmation, the wizards on their last tab; `complete` lets the user
finish (`nextDisable`).  `late` remembers that an answer to a check of the name moved
the tabs after the user had gone on.

### PortalPages

`Turn` is a step of the visit (`Enter`, `Go`, `Leave`): the page shown is destroyed with
its data and its timers, the next is mounted (`Fresh`, `Mounted`).  An answer that comes
after that writes to an object nobody shows, so the requests are dropped.
`Operate` is a handler, `Answer` the rest of one, `ServicePages` the pages of services.

Abstractions of the web interface: rows are two kinds of values and an applicant;
forms are valid when they have to be; a confirmation is part of the handler where
nothing that it reads can change behind it; messages, charts, formatting, sizes and
positions are left out, as is what the server does with a request.

## 3. Runs

| run | module, cfg | question |
|---|---|---|
| `kafka_orderly` | `MCKafkaConsumer`, `KafkaOrderly` | is a partition first delivered in order, and does no batch start with another's acknowledgements? |
| `kafka_shared_pool` | `KafkaShared` | with batches finished out of order: are commits safe, is the promise implemented, is every record delivered? |
| `kafka_batch_listener` | `KafkaBatch` | the same promise with a batch listener and an acks queue smaller than the batch; do the commits reach the end of the log? |
| `consumer_stop` | `ConsumerRestart`, `ConsumerStop` | one start, polls that throw, a stop at any moment |
| `consumer_restart` | `ConsumerRestart` | a restart while the old threads are still there: is what runs polled, can anything hang? |
| `migration_unnoticed` | `ConsumerMigrate` | finding 1: is a metadata change always followed? |
| `producer_lifecycle` | `ProducerFactory`, `ProducerAll` | senders, a metadata change, stopProducer and stop together |
| `producer_stale_cluster` | `ProducerMigrate` | finding 2: do sends end up on the cluster the metadata names? |
| `topic_portal` | `MCTopicLifecycle`, `TopicPortal` | every request on a topic, with refusals, a death of the portal and a migration |
| `portal_session` | `PortalSession` | does a tab show a user what that user was granted, through logins, expiries and lost answers, and so keep `Visit`'s promise? |
| `portal_pages` | `MCPortalPages`, `PortalPages` | every page of one tab: what is saved, how often, what stays masked, what a search carries, when a run is complete |
| `host_accumulates` | `MCPortalPages`, `HostAccumulates` | finding 3: are the hosts sent those confirmed? |

### Bounds

* *Kafka.* Two members are enough for a rebalance, for a member that holds an old
  generation's batch and for a takeover.  `kafka_orderly` has two partitions with
  an executor each and two records each; the other runs have one partition with
  three records, so that a batch can come back with its last record first and
  leave a hole of more than one record.  Two threads and no queue make `execute`
  be rejected.  The batch run's `AckCapacity = 1` makes the acknowledging thread
  commit in mid-batch twice.  One fault (crash, poll error or expulsion of a
  living member, at any point) exercises each recovery; a crashed or newly started
  member can be expelled without using the budget.  `kafka_shared_pool` adds a
  commit that fails.  `MaxInFlight` bounds the requests on the wire.
* *ConsumerRestart.* Two starts and one change: the first start and the restarted
  one.  Two partitions, so that a record can be given to the new or to the old pool
  in a list of two.  Batches of two records in the stop run, so that one can be
  running and one queued when a pool is shut down.
* *ProducerFactory.* Two senders race for the monitor while the event thread and
  the stopper shut down.  `MaxProxies` is above what one change, one `stopProducer`
  and one `stop` can make senders build.
* *TopicLifecycle.* Two environments (an approval that fails in one and succeeds in
  the other), two clusters in each (a change of cluster), partitions 1 or 2 (an
  increase and a refused decrease), one refusal, one death, one migration, requests
  without bound one after the other.  One request at a time: two concurrent
  requests about one topic can interleave badly, and nothing in the code claims
  otherwise.
* *PortalSession.* An admin and a developer take turns in one tab.  `Patient`: users
  do not navigate while their login form is being answered, and do not log in while a
  navigation waits.  Both bounds are needed: with two tabs, or with an answer about the
  old user that comes after the new one has logged in, `OwnPermissions` fails, since a
  tab forgets nothing until it is loaded again (and with two tabs also
  `RoutesOfTheSession`, the comment at `web/permission.js:42`).  The three targets are one page of
  each role and the home page.
* *PortalPages.* Two rows, an approved one of the admin's and one of the developer's; two requests
  under way (`MaxCalls`) are what it takes for answers to come in the wrong order or a
  click to be repeated; a dialog remembers up to two saves.  `Hubs`: ways between
  two pages lead over the home page or the login form, which keeps the pages'
  products apart and loses nothing, as a page leaves nothing behind but `envList`.
  Two instances, two overlapping polls (`MaxPolls`): one that ends in the hands of the other.
  `MaxLoads` and `MaxChecks` bound loads of the list and checks of a name under way.

Symmetry is used in three runs without liveness properties: the members in
`kafka_orderly`, the clusters in `topic_portal`, the instances in `portal_pages`.  `CHECK_DEADLOCK FALSE` is set
where the system may stop (a stopped client; a deleted topic; a thread that hangs,
which the liveness properties look at).

### Properties

Safety of the group: `CommitSafe`, `FirstDeliveryInOrder`, `NoStaleAcks`.
`ImplementsPromise` is the refinement: `AtLeastOnce` instantiated with the
committed offsets (none is 0) and checked as a property, so every step of the
group appends, delivers, moves committed offsets forward over delivered records,
or changes nothing of these.  It says more than `CommitSafe`: an offset never
moves back, also by a commit of an old owner.  `Delivered` and `EventuallyCommitted`
are its liveness; the latter is checked without failed commits, because a failed
commit is repeated only by the next record's, which a bounded log does not have.

`RunningIsPolled` (safety), `CachedHasPolled`, `StopCloses`, `BatchEnds` and
`EventThreadReturns` speak of the proxy's threads.  `Stuck` names the only two ways
found in which a poll thread can hang; `BatchEnds` says that there is no other.

`OneProducer` and `RunningIsReachable` together: no producer leaks until the
application stops one.  They speak of sends through one monitor; with both in use
for the same topic they fail, which only the statistics topics could bring about.
`RunningIsOpen` is the order inside `shutdown`, `Answered` excludes a hang on a
monitor, `KeepsSending` a factory that stops building.

For topics, `RegisteredExists` is what clients depend on and holds without
further conditions.  The other four have them, and each condition was found to be needed:
`ApprovalPlaces` fails after a deletion that stopped half-way, because a later
approval compares the row and not the node; `DbNamesZkCluster` when a request
overtakes a migration's database update; `PartitionsApplied` once anything was
refused, because the partitions are written before anything is asked.

For a tab, `OwnPermissions` ties what it remembers to who is logged in, and
`GrantedPagesRegistered` says that filtering one tree again and again loses nothing.
`VisitImplemented` is the refinement by which the pages can be checked without the
session: `PortalPages` starts from `Visit`.

For the pages, `SavesTheShownRow` compares a request's target with the row whose
values it carries.  The saves of groups and of environments are left out
of it where the id is the page's and not the dialog's: their addresses are right,
their bodies may name another row.  `OneSavePerOpening` holds where a dialog is
masked while it saves, which only the topics' dialogs are; pages that save
without a mask send a second request at a second click.  `MaskedOnlyByFailure`
is the reverse of a mask that is never lifted: it happens after failures, and only then.
`NothingLeftOver` names the two pages that do not clear what was chosen below.

For runs, `CompleteMeansFinished` and `CompleteShowsResults` say that overlapping polls
neither end a run early nor lose a result.  `RunsOnOnlyAfterFailure` is the safety
half of "a run completes": if all polls have come back and the run still turns, a
request had failed or there was no process to look at.  `FinishesAfterCompletion` and
`AddsOnce` are about going back and forth in the wizards.

## 4. Fairness

* *Kafka.* Weak fairness of every step of a proxy's threads (the poll loop runs,
  pool threads run what they are given, listeners return), of the start of a dead
  process (it is supervised), of the coordinator's answers, of the end of a
  rebalance and of expelling a dead member (`session.timeout.ms`).  Strong fairness
  of `onPartitionsRevoked`: each call of `poll` drives the protocol, so a member
  that polls again and again while a rebalance is due joins it.  None for crashes,
  errors, failures and producers.
* *ConsumerRestart.* Each thread runs (`poll` has a timeout; pools are waited for at
  most two seconds; listeners return) and a queued notification is handled.  None for
  changes and stops.
* *ProducerFactory.* Each thread runs; a monitor that is free again and again is
  entered (strong fairness of `enterMonitor`: the JVM does not starve a thread for
  ever); the application goes on sending.
* *TopicLifecycle.* Only the migration's database thread runs on.
* *Web interface.* None: users may stop at any time, and no request has a timeout.

## 5. What is proved

`KafkaConsumerProofs`, for any members, partitions, executors, log size and
budgets, from `CapacityAssumption`, `BoundAssumption` and `RoleAssumption`:

* `TypeCorrect`: `Spec => []TypeOK`; `TypeOK` is inductive.
* `CommitSafety`: `NoOverflow => (Spec => []CommitSafe)`.  `CommitSafe` is not
  inductive: it says nothing about commits on the wire or acknowledgements.
  `CommitInv` adds that a position never passes a record that is neither handled
  nor in the member's batch (`PositionSafe`); that what is finished or
  acknowledged was handled (`AcksHandled`); that a request on the wire covers only
  handled records below each of its offsets (`CommitsSafe`); that a batch was read
  from assigned partitions below the position (`BatchRead`); and that its records
  are in one stage at a time (`BatchDisjoint`, `BatchTogether`).  The subtle case is the pool thread's commit in mid-batch, which
  would cover an unhandled record; `BatchFits` with `NoOverflow` (the batch fits
  into the acks queue, or the listener takes batches, whose records are all handled
  before the first is acknowledged) excludes it.  The default of
  `consumeMessagesSize` satisfies this by far, but the code does not check it.
* `NoStaleAcknowledgements`: `NoOverflow => (Spec => []NoStaleAcks)`, a part of `CommitInv`.
* `OrderlyDelivery`: with one thread for each executor, or a batch listener,
  `Spec => []FirstDeliveryInOrder` (under `NoOverflow`).  `OrderInv` adds
  `SubmittedUpwards`: what is queued lies below what is still to submit.
* `GroupImplementsPromise`: `NoOverflow => (Spec => ImplementsPromise)`, the refinement of
  `AtLeastOnce`: each step of a group appends, handles, commits or is a stutter of the promise.
  The only difficult step is a commit that the broker obeys: that it covers handled records is
  `CommitInv`, that it moves the committed offset forward needs three invariants more.
  `LogInv` keeps every offset within the log; `GroupInv` says that a request which will be
  obeyed is of the partition's owner (a member that has joined has none left from before);
  `RiseInv` that what a member reads, holds and has on the wire lies above the committed
  offsets, each request above the ones before it (`Ahead`).

`TopicLifecycleProofs`, for any environments, clusters, partitions and budgets,
from `TopicAssumption`:

* `TopicTypeCorrect`: `Spec => []TypeOK` for any number of concurrent requests.
  `TypeOK` is not inductive: a deletion takes its target from a row, which must
  have named a cluster when it was read (`DeletesPlaced`).
* `RegisteredTopicExists`: `OneAtATime => (Spec => []RegisteredExists)`, Kafka or
  RocketMQ.  `RegisterInv` adds that an approved topic has partitions (creating it
  with zero would register nothing) and what the request under way has already
  done (`PlacedByRequest`): a request that is about to register has created the
  topic where it will, one that is about to drop it has removed the node.
  `OneAtATime` is needed: an approval between create and register, and a deletion
  that drops the topic meanwhile, leave a node without a topic.

* `DatabaseNamesCluster`: `OneAtATime => (Spec => []DbNamesZkCluster)`.  The property speaks of
  the end of all requests; `DbInv` says what holds on the way, as long as the portal lives and
  no request overtakes a migration's update: an environment whose row and node name
  different clusters is one that the thread of a migration (`Moved`) or the request
  (`Written`) is still to write, there is at most one such update and it carries what the node
  names, and what a request has read of the rows still holds where it has not been
  (`DbRequest`), since an approval leaves alone what its reading calls unchanged.
* `RegisteredTopicKnown`: `OneAtATime => (Spec => []RegisteredIsKnown)`.  `KnownInv`: while the
  portal lives, a node's environment has a row with a cluster or is about to get one, the topic
  is approved or about to be, and a deletion under way has the environment still to do.
* `ApprovalPlacesTopic`: `OneAtATime => (Spec => []ApprovalPlaces)`.  An approval leaves an
  environment alone whose row names the cluster chosen; `PlaceInv` says that its node names
  that cluster too, unless something has failed or a migration has changed it.
* `PartitionsAreApplied`: `OneAtATime => (Spec => []PartitionsApplied)`.  An approval skips the
  partitions as well if they are those it has read, so `ApplyInv` relates three counts: the
  approved one, the one the request carries, and the broker's for each cluster that a row
  names, or will name when the thread of a migration gets to write it.
  These three also need to know what a request of each kind may be doing (`ServedInv`).

`ConsumerRestartProofs`, for any starts, changes, partitions, batches and errors, from
`RestartAssumption`:

* `RunningHasThread`: `Spec => []RunningIsPolled`.  Not inductive: the last poll thread's
  shutdown might end while the proxy runs.  `PolledInv` says that what runs has a thread before
  `setRunning` (`Working`): a thread past it has cleared `running`, and whoever sets it has
  made a consumer and starts a thread with it.
* `CachedAfterPoll`: `MaxChanges = 0 => (Spec => []CachedHasPolled)`.  `CachedInv` follows the one
  poll thread there is without changes: it lowers its first latch only after a round or after
  it caught something (`LatchDown`), and the application waits for that before it looks at
  what was caught (`Subscribing`).
* `RestartTypeCorrect`: `Spec => []TypeOK`.  Far from inductive: the latch must not count below
  zero, a start needs a number, `consumerShutdown` a consumer to close and its loop a pool under
  the iterator.  `TaskInv` has the latch of a batch count at least its tasks in all pools and
  the records still to submit; `StartInv` has one start by the application, before anything
  else, and a thread for each; `CursorInv` keeps an iterator inside the list unless the list
  has changed under it.
* `CommitsHandledBatch`: `Spec => []BatchHandled`, from `TaskInv`: a poll thread commits, or polls
  again, only when no pool holds or runs a record of its batch, whoever shuts pools down and
  restarts the proxy meanwhile.

`ProducerFactoryProofs`, for any senders, proxies, changes and stops, from
`ProducerAssumption`:

* `ProducerTypeCorrect` and `RunningProducerIsOpen`: `Spec => []TypeOK` and
  `Spec => []RunningIsOpen`.  Neither is inductive.  `OpenInv` adds that proxies are
  numbered as they are made (`Numbered`), that a proxy being started has its client,
  does not run and is in no other thread's hands (`Unshared`), and that a proxy about
  to be closed does not run (`Cleared`); without them `run` could set `running` on a
  closed client.
* `SingleProducer` and `ProducerReachable`: `OneMonitor => (Spec => []OneProducer)` and
  the same for `RunningIsReachable`.  `SingleInv` says, until a stop: one thread is
  inside the monitor; while it builds, the cache is empty and nothing runs; what runs
  is cached or about to be; what the event thread shuts down is cached or about to be,
  so `recycle` removes the proxy it means; and from clearing `running` to recycling
  nothing runs.  `OneMonitor` is needed: with two monitors two threads build at once.

`ServiceConsoleProofs`, for any instances and any number of polls, loads and checks, from
`RunAssumption`, `ListAssumption` and `WizardAssumption`:

* `Completion`, `Results`, `Endings`: `CompleteMeansFinished`, `CompleteShowsResults` and
  `RunsOnOnlyAfterFailure`.  None is inductive, as they say nothing about polls under
  way.  `RunInv` adds that before the processes are known nothing is polled
  (`Unbegun`); that what is polled no more has ended, and so has what a poll still has in
  its hands (`LookedAt`, `Awaited`); that a complete run polls nothing
  (`CompleteIsEmpty`); that whatever is neither polled nor shown is in some poll's hands
  (`ResultsHeld`); and that while nothing is polled and the run turns, a poll is still out
  that will look whether it is complete (`Watched`).  The step that matters is
  a poll's next (`ContinueKeeps`): it gives what it holds to the shown results and
  completes the run only if nothing is polled and no other poll holds anything.
* `Finishing`, `Adding`: `FinishesAfterCompletion` and `AddsOnce`.  `PagesInv` adds that a
  service is being added before its run is asked for, that the last tab's button waits
  for the run, and that what was added shows on the last tab (unless `late`).

`PortalPagesProofs`, for any rows, users and instances:

* `PagesImplementConsole`: `Spec => ConsoleSpec`, a refinement: every step of the pages is a step
  of `ServiceConsole` or leaves its state alone.
* `PagesShowRuns`: so the five properties above hold of the whole interface.
* `ShownRowsSaved`, `SavedOncePerOpening`: `Spec => []SavesTheShownRow` and
  `Spec => []OneSavePerOpening`.  `DialogsInv` says for every request on any page that it names
  the rows of the dialog it was sent from (`Bound`), and for every dialog what that needs
  (`Fits`): on the pages that migrate a visible dialog shows the rows kept, on the page of alerts
  the form holds the row kept or nothing, on the page of topics nothing has been sent from a
  dialog that is open without a mask.
* `PortalTypesCorrect`: `Spec => []PortalTypeOK`, from `DialogsInv`, `TableInv` and `ConsoleInv`.

`PortalTableProofs`, for any rows, users, hubs and requests under way:

* `TablesUnmasked`: `Spec => []MaskedOnlyByFailure`.  `Careful` is what every handler and
  every answer of every page is shown to do: leave the table alone and keep what it waits for
  (`Waits`), ask for rows or a deletion (`Asks`), or lift the mask or fail (`Settles`).
  The invariant `TableInv` also says (`OwnRows`) that the dialog of a topic's groups asks
  for itself and not for the table, with a request that masks the table of another page.
* `SearchesFit`: `Spec => []NothingLeftOver`.  `TableInv` adds that nothing is left over in a form
  whose watchers clear everything below a choice (`Fitting`, `FieldsAre`), so nothing a
  request carries is (`Well`).  An offer that arrives for an earlier choice is why a value
  has to be told apart from the offer it was taken from.

`PortalSessionProofs`, for any users, admins, targets and tabs, from `SessionAssumption`.  What
it needs of the route table is proved of the table (`TreeFacts`, `GrantsAre`, `GrantedPages`): the
home page is in it, what is above a node is above its children, every user is granted
something, and a route whose role is granted has only granted routes above it.

* `SessionTypeCorrect`: `SessionSpec => []SessionTypeOK`.
* `OwnPagesOnly`: `OneTab => (SessionSpec => []OwnPermissions)`.  `OwnInv` says that a tab
  without a user remembers nothing and one with a user exactly what that user is granted (the
  permissions, the tree, the routes and the menu), and that without a cookie no tab has one.  `FilterTwice` is why a tree may be filtered again.
  `OneTab` (and `Patient`) are needed, see the bounds.
* `GrantedPagesThere`: `OneTab => (SessionSpec => []GrantedPagesRegistered)`, from `OwnInv` and
  `GrantedPages`.
* `TabImplementsVisit`: `OneTab => (SessionSpec => VisitImplemented)`, the refinement on which
  the pages stand: a step of one tab is a step of `Visit` or a stutter.  `VisitInv` adds that
  a page shown is one some target leads its user to (`SeenTab`), and so are those that
  wait for the answer about the user.

Proofs are laid out with one step for each action and lemmas for the helpers
(`Start`, `Goto`, `Done`, `Raise`, `commitOffsets`, `Tail` of the requests).

Only model-checked: every liveness property (fairness is out of the prover's reach):
`EventuallyCommitted`, `Delivered`, `BatchEnds`, `EventThreadReturns`, `StopCloses`, `Answered` and
`KeepsSending`, with those the runs refute.  Every other property of a passing run
is stated by a theorem.

## 6. Findings

1. A metadata change may stop a consumer for good: the restart and the dying poll
   thread iterate the same `executors` and clear it, and the slower one's iterator
   throws out of the restart before `start()` (`migration_unnoticed`).
2. A producer may go on sending to the cluster that a topic has left: the metadata
   is read before it is watched (`producer_stale_cluster`).
3. Enabling or disabling hosts sends more hosts than were confirmed: the handlers
   empty `hostId`, collect into `hostIds`, and nothing empties that, so a cancelled or an
   earlier operation's hosts are sent again (`host_accumulates`,
   `web/views/host/list.vue:208`).

Findings 1 and 2 contradict the README's promise that clients do not notice a
migration (`src/README.md:25`), finding 3 the text of the confirmation itself.

Three more properties are stated in the modules and fail, without a run that shows it
here: `StopConsumerStops` of `ConsumerRestart` (`Zms.stopConsumer` may return and leave
the consumer open: a batch that `poll` returns after the wake-up loses a queued
record, and the thread that should close the consumer waits for its latch);
`DeadProxyReplaced` of `ProducerFactory` (a change handled between `start()` and
`putIfAbsent` recycles nothing, so a closed proxy stays in the cache); and
`DatabaseFollows` of `TopicLifecycle` (the second of two quick migrations reads the row
before the first one's update and leaves the database naming the wrong cluster).

## 7. Not modelled

* *RocketMQ proxies*: a send is the client's call; the consumer's two hazards (the last
  message of a batch decides its status, an exception of `asyncSend` reaches no
  callback) are one branch each, in code that is sequential around a library.
* *Portal beyond topics and migration*: consumer groups follow the shape of
  `TopicLifecycle` with one store less; processes, users, hosts and environments
  are queries, forms and calls to an agent.  Two concurrent requests about one
  topic are left out (see the bounds), and so are gated clusters.
* *Agent, metadata backup, collector, alerts, statistics, admin clients, mappers*: I/O,
  schedules and conversions around libraries.  Two hazards of theirs are listed without
  a property.
* *Client*: broadcast groups, the expiry of a ZooKeeper session, a node that is read
  between its creation and its first write, the portal's own cache of producers.
* *Web interface*: pages that only show (details, charts, the home page's statistics),
  the form of a service's configuration (`web/views/service/instance/config.vue`,
  `add-service.vue`) except for when it may be left, the tabs of the layout, pagination of
  rows already loaded.  `PageIsGranted` of `Visit` follows from its definitions and
  is in no run.
* *Composition*: clients and portal meet in a node whose version both modules count, but
  are checked apart; so are the web interface and the portal, whose answers are
  any the interface can receive.
