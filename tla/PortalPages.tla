----------------------------- MODULE PortalPages -----------------------------
(***************************************************************************)
(* One tab of the portal: the visit of a user and the page that is shown.  *)
(* A step of the visit that changes the route unmounts the page with       *)
(* everything it waits for and mounts the next one.                        *)
(***************************************************************************)
EXTENDS HomePage, ThemePage, ConsumerPage, AlertPage, HostPage, TransferPages, QueryPages,
        ServiceConsole

CONSTANT Hubs  \* bound: every way from a page to another leads over one of these

ASSUME HubsAssumption == {"login", "Welcome"} \subseteq Hubs

vars == <<visitVars, pageVars, envList, queryVars, consoleVars>>

\* What a page asks for when it is mounted.
PageQueries ==
  LET own == [Welcome |-> HomeQueries, themeList |-> ThemeQueries,
              consumerList |-> ConsumerQueries, noticeList |-> AlertQueries,
              hostList |-> HostQueries, noticeDelay |-> {"listEnvironment"}]
  IN  [p \in DOMAIN own \cup DOMAIN TransferQueries |->
         IF p \in DOMAIN own THEN own[p] ELSE {TransferQueries[p]}]
QueriesOf(route) == IF route \in DOMAIN PageQueries THEN PageQueries[route] ELSE {}
Queries == (UNION {PageQueries[p] : p \in DOMAIN PageQueries}) \ {"listEnvironment"}

\* What the pages of services show of runs.
PlaceOf(route) ==
  CASE route = "serviceHome" -> "list" [] route = "serviceAddHome" -> "addService"
    [] route = "instanceAddHome" -> "addInstances" [] OTHER -> "none"

Init ==
  /\ VisitInit
  /\ table = [loading |-> FALSE, failed |-> FALSE]
  /\ dlg = [d \in Dialogs |-> Shut]
  /\ calls = {} /\ kept = {} /\ picked = {}
  /\ envList = FALSE
  /\ form = [f \in Fields |-> "none"] /\ options = [f \in Fields |-> "none"] /\ found = FALSE
  /\ ConsoleInit

\* Another page is mounted; the store lives until the page is loaded again.  As nothing else
\* of a page survives, a detour over a hub shows whatever a direct way shows.
Turn ==
  /\ VisitNext
  /\ page \in Hubs \/ page' \in Hubs
  /\ Fresh(QueriesOf(page'))
  /\ NoForm /\ Mounted(PlaceOf(page'))
  /\ envList' = (envList /\ user' # Nobody)

\* The operations of the list of instances are offered to admins only.
ServicePages ==
  /\ place # "none" /\ ConsoleStep
  /\ ~isAdmin => confirming' = "none"
  /\ UNCHANGED <<visitVars, pageVars, envList, queryVars>>

Operate ==
  /\ \/ /\ \/ OnHome /\ HomeUser
           \/ OnThemes /\ ThemeUser
           \/ OnConsumers /\ ConsumerUser
           \/ OnAlerts /\ AlertUser
           \/ OnHosts /\ HostUser
           \/ TransferUser
           \/ \E d \in Dialogs : closeHandle(d)
        /\ UNCHANGED queryVars
     \/ OnQuery /\ QueryUser
  /\ UNCHANGED <<visitVars, consoleVars>>

\* What masks the table until it is answered.
Masking == Queries \cup SearchQueries \cup {"deleteTheme", "consumeDelete", "deleteAlert"}

Answer(c) ==
  /\ \/ /\ \/ OnHome /\ HomeAnswer(c)
           \/ OnThemes /\ ThemeAnswer(c)
           \/ OnConsumers /\ ConsumerAnswer(c)
           \/ OnAlerts /\ AlertAnswer(c)
           \/ OnHosts /\ HostAnswer(c)
           \/ transferred(c)
           \/ c.op \in Queries /\ RowsLoaded(c)
           \/ c.op \notin {"hostListQuery", "options"} /\ CallFails(c, Masking)
        /\ UNCHANGED queryVars
     \/ OnQuery /\ QueryAnswer(c)
  /\ UNCHANGED <<visitVars, consoleVars>>

Next == Turn \/ Operate \/ ServicePages \/ \E c \in calls : Answer(c)

Spec == Init /\ [][Next]_vars

PortalTypeOK == VisitTypeOK /\ PartsTypeOK /\ QueryTypeOK /\ ConsoleTypeOK

-----------------------------------------------------------------------------
(* Properties *)

\* A save, an approval, a migration is sent for the very rows its dialog shows, whatever
\* was opened, closed or answered since: topics save under the id of currentFormValue
\* (theme/list-operate.js:226), migrations under the ids kept with the dialog, and an alert
\* names no other alert than the one in its form (notice/alert/list-operate.js:338).
BoundToDialog ==
  {"editThemeSave", "approvalTheme", "configureTheme", "syncTheme", "approvalConsumer",
   "consumerSync"} \cup Migrations
SavesTheShownRow ==
  \A c \in calls : /\ c.op \in BoundToDialog => c.ids = c.of
                   /\ c.op = "editAlertSave" => c.ids \subseteq c.of

\* A dialog of a topic is saved once for every time it is opened: its mask covers the button
\* until the answer closes it (theme/list-operate.js:224, OpFreight.vue).  The form of a new
\* topic is left out, whose name is checked before the mask is shown.
OneSavePerOpening ==
  page = "themeList" => \A d \in Dialogs \ {"dia"} : dlg[d].sent <= 1

\* A table stays masked only while an answer is due that will lift the mask, or after one
\* that failed: no order of searches, deletions and saves forgets it (theme/list.vue:360).
MaskedOnlyByFailure ==
  table.loading /\ (\A c \in calls : c.op \notin Masking \/ c.d # "table") => table.failed

\* No search carries a value that was chosen under another environment or cluster, except on
\* the two pages whose watchers clear less (list-search.js of the consoles' pages).
NothingLeftOver ==
  \A c \in calls : c.op \in SearchQueries /\ "left" \in c.carries =>
    page \in {"ConsumerSummary", "noticeDelay"}

\* What is enabled or disabled are the hosts the confirmation names.
SendsConfirmedHosts ==
  \A c \in calls : c.op \in HostToggles => c.ids = c.of
=============================================================================
