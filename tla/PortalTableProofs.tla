------------------------- MODULE PortalTableProofs -------------------------
(***************************************************************************)
(* What the pages show while they wait for rows, and what their searches   *)
(* ask for: proofs for any users, rows and number of requests under way.   *)
(***************************************************************************)
EXTENDS PortalPages, TLAPS

-----------------------------------------------------------------------------
(* Requests *)

\* A request added is one more beside those under way, whatever number it is given.
LEMMA WithAdds ==
  ASSUME NEW cs, NEW c, {"op", "d", "carries"} \subseteq DOMAIN c
  PROVE  /\ cs \subseteq With(cs, c)
         /\ \E x \in With(cs, c) : x.op = c.op /\ x.d = c.d
         /\ \A x \in With(cs, c) :
              x \in cs \/ (x.op = c.op /\ x.d = c.d /\ x.carries = c.carries /\ DOMAIN x = DOMAIN c)
<1> DEFINE ok(n) == /\ [c EXCEPT !.n = n] \notin cs
                    /\ \A m \in 1 .. n - 1 : [c EXCEPT !.n = m] \in cs
<1> DEFINE k == CHOOSE n \in 1 .. MaxCalls + 1 : ok(n)
<1>1. With(cs, c) = cs \cup {[c EXCEPT !.n = k]}
  BY DEF With
<1> HIDE DEF k
<1>2. /\ [c EXCEPT !.n = k].op = c.op /\ [c EXCEPT !.n = k].d = c.d
      /\ [c EXCEPT !.n = k].carries = c.carries /\ DOMAIN [c EXCEPT !.n = k] = DOMAIN c
  OBVIOUS
<1> QED BY <1>1, <1>2

LEMMA RequestFields ==
  ASSUME NEW op, NEW d, NEW ids
  PROVE  LET c == Request(op, d, ids)
         IN  /\ c.op = op /\ c.d = d /\ c.carries = {}
             /\ DOMAIN c = {"op", "d", "ids", "of", "carries", "n"}
BY DEF Request

-----------------------------------------------------------------------------
(* Which requests mask a table *)

Deletions == {"deleteTheme", "consumeDelete", "deleteAlert"}
Listings == {"getListService", "themeQuery", "consumerQuery", "alertsQuery", "hostListQuery",
             "queryClusters"}
Consoles == {"statsAll", "getPerm", "topicStatus", "getBrokerConfig", "consumerStatusAll",
             "cmdClusterList", "topicInMsgTop", "topicSummary", "consumerSummary",
             "viewByKey", "viewByMsgId", "delayRocketQuery", "delayKafkaQuery", "allDelayQuery"}

LEMMA QueriesAre == Queries = Listings
<1> DEFINE own == [Welcome |-> HomeQueries, themeList |-> ThemeQueries,
                   consumerList |-> ConsumerQueries, noticeList |-> AlertQueries,
                   hostList |-> HostQueries, noticeDelay |-> {"listEnvironment"}]
           Own == {"Welcome", "themeList", "consumerList", "noticeList", "hostList", "noticeDelay"}
           Moved == {"clusterTransfer", "themeTransfer", "consumerTransfer"}
<1>1. /\ DOMAIN TransferQueries = Moved
      /\ TransferQueries["clusterTransfer"] = "queryClusters"
      /\ TransferQueries["themeTransfer"] = "themeQuery"
      /\ TransferQueries["consumerTransfer"] = "consumerQuery"
  BY DEF TransferQueries
<1>2. /\ DOMAIN own = Own
      /\ own["Welcome"] = {"getListService"} /\ own["themeList"] = {"themeQuery"}
      /\ own["consumerList"] = {"consumerQuery"} /\ own["noticeList"] = {"alertsQuery"}
      /\ own["hostList"] = {"hostListQuery"} /\ own["noticeDelay"] = {"listEnvironment"}
  BY DEF HomeQueries, ThemeQueries, ConsumerQueries, AlertQueries, HostQueries
<1>3. PageQueries = [p \in DOMAIN own \cup DOMAIN TransferQueries |->
                       IF p \in DOMAIN own THEN own[p] ELSE {TransferQueries[p]}]
  BY DEF PageQueries
<1> HIDE DEF own
<1>4. /\ DOMAIN PageQueries = Own \cup Moved
      /\ \A p \in Own : PageQueries[p] = own[p]
      /\ \A p \in Moved : PageQueries[p] = {TransferQueries[p]}
  BY <1>1, <1>2, <1>3
<1>5. /\ PageQueries["Welcome"] = {"getListService"} /\ PageQueries["themeList"] = {"themeQuery"}
      /\ PageQueries["consumerList"] = {"consumerQuery"}
      /\ PageQueries["noticeList"] = {"alertsQuery"} /\ PageQueries["hostList"] = {"hostListQuery"}
      /\ PageQueries["noticeDelay"] = {"listEnvironment"}
      /\ PageQueries["clusterTransfer"] = {"queryClusters"}
      /\ PageQueries["themeTransfer"] = {"themeQuery"}
      /\ PageQueries["consumerTransfer"] = {"consumerQuery"}
  BY <1>1, <1>2, <1>4
<1>6. ASSUME NEW q
      PROVE  (\E p \in DOMAIN PageQueries : q \in PageQueries[p])
               <=> q \in Listings \cup {"listEnvironment"}
  BY <1>4, <1>5 DEF Listings
<1>7. ASSUME NEW q
      PROVE  q \in Queries <=> q \in Listings
  <2>1. q \in Queries <=> q # "listEnvironment" /\ \E p \in DOMAIN PageQueries : q \in PageQueries[p]
    BY DEF Queries
  <2> QED BY <1>6, <2>1 DEF Listings
<1> QED BY <1>7

LEMMA SearchQueriesAre ==
  /\ SearchQueries \subseteq Consoles
  /\ \A r \in QueryRoutes : Searches[r] \subseteq SearchQueries
  /\ DelayQueries \subseteq SearchQueries
  /\ Searches["TopicSummary"] = {"topicSummary"}
<1>1. QueryRoutes = DOMAIN Searches /\ "TopicSummary" \in DOMAIN Searches
  BY DEF QueryRoutes, Forms, Searches
<1>2. \A r \in DOMAIN Searches : Searches[r] \subseteq Consoles
  BY DEF Searches, Consoles, StatsAllQueries, PermQueries, TopicStatusQueries, BrokerConfigQueries,
         ConsumerStatusQueries, ClusterListQueries, InMsgTopQueries, TopicSummaryQueries,
         ConsumerSummaryQueries, MessageQueries, DelayQueries
<1>3. Searches["TopicSummary"] = {"topicSummary"}
  BY DEF Searches, TopicSummaryQueries
<1>4. "noticeDelay" \in DOMAIN Searches /\ Searches["noticeDelay"] = DelayQueries
  BY DEF Searches
<1> QED BY <1>1, <1>2, <1>3, <1>4 DEF SearchQueries

\* What lifts the mask, and what does not.
LEMMA MaskingIs ==
  /\ Listings \cup Deletions \cup DelayQueries \subseteq Masking
  /\ Masking \subseteq Listings \cup Deletions \cup Consoles
  /\ \A r \in QueryRoutes : Searches[r] \subseteq Masking
BY QueriesAre, SearchQueriesAre DEF Masking, Deletions

LEMMA OthersDoNotMask ==
  \A op \in {"envList", "validCode", "sendThemeMsg", "getInstallUrl", "listByEnvIdAndServiceType",
             "uniqueCheck", "options", "updatePerm", "resetOffset"} \cup NameQueries :
    op \notin Masking
BY MaskingIs DEF Listings, Deletions, Consoles, NameQueries

-----------------------------------------------------------------------------
(* What a step may do to the mask *)

\* A request whose answer lifts the table's mask.
Lifts(c) == c.op \in Masking /\ c.d = "table"

\* The table is left alone, and what was awaited still is.
Waits == table' = table /\ \A c \in calls : Lifts(c) => \E x \in calls' : Lifts(x)
\* The rows are asked for, or a row's deletion is.
Asks == table' \in Table /\ \E x \in calls' : Lifts(x)
\* The mask is lifted, or something has failed.
Settles == table' \in Table /\ (table'.loading => table'.failed)

\* Pages whose watchers leave a value in the form that was chosen under another choice.
Leaving == {"ConsumerSummary", "noticeDelay"}

\* A request as the pages make them: what it carries was not left over.
Well(c) == /\ {"op", "d", "carries"} \subseteq DOMAIN c
           /\ page \notin Leaving => "left" \notin c.carries
Plain == \A x \in calls' : x \in calls \/ Well(x)
Careful == (Waits \/ Asks \/ Settles) /\ Plain

LEMMA AddingWaits ==
  ASSUME NEW cs \in SUBSET calls, \A x \in calls : Lifts(x) => x \in cs,
         NEW c, Well(c), calls' = With(cs, c), table' = table
  PROVE  Waits /\ Plain
BY WithAdds DEF Waits, Plain, Well

LEMMA MaskingAsks ==
  ASSUME table \in Table, NEW cs \in SUBSET calls, NEW c, Well(c), Lifts(c),
         calls' = With(cs, c), table' = [table EXCEPT !.loading = TRUE]
  PROVE  Asks /\ Plain
<1>1. table' \in Table
  BY DEF Table
<1> QED BY <1>1, WithAdds DEF Asks, Lifts, Plain, Well

LEMMA LoadingAsks ==
  ASSUME table \in Table, NEW cs \in SUBSET calls, NEW query \in Masking, Loading(cs, query)
  PROVE  Asks /\ Plain
<1>1. Lifts(Request(query, "table", {})) /\ Well(Request(query, "table", {}))
  BY RequestFields DEF Lifts, Well
<1> QED BY <1>1, MaskingAsks DEF Loading

LEMMA SavingWaits ==
  ASSUME NEW cs \in SUBSET calls, \A x \in calls : Lifts(x) => x \in cs, NEW d,
         NEW c, Well(c), NEW masks, Saving(cs, d, c, masks),
         table' = table
  PROVE  Waits /\ Plain
BY AddingWaits DEF Saving

LEMMA OpeningWaits ==
  ASSUME NEW d, NEW ids, NEW locked, OpenWithEnvList(d, ids, locked), table' = table
  PROVE  Waits /\ Plain
<1>1. Well(Request("envList", d, ids))
  BY RequestFields DEF Well
<1>2. CASE UNCHANGED calls
  BY <1>2 DEF Waits, Plain
<1>3. CASE calls' = With(calls, Request("envList", d, ids))
  BY <1>1, <1>3, AddingWaits
<1> QED BY <1>2, <1>3 DEF OpenWithEnvList

\* An answer the mask does not wait for.
LEMMA AnswerWaits ==
  ASSUME NEW c, ~Lifts(c), calls' = calls \ {c}, table' = table
  PROVE  Waits /\ Plain
BY DEF Waits, Plain

LEMMA PartsCareful ==
  ASSUME table \in Table
  PROVE  /\ \A query \in Masking : Search(query) => Careful
         /\ \A ids : Select(ids) => Careful
         /\ \A d : closeHandle(d) => Careful
         /\ \A c : RowsLoaded(c) => Careful
         /\ \A c \in calls : CallFails(c, Masking) => Careful
<1>1. \A query \in Masking : Search(query) => Careful
  BY LoadingAsks DEF Search, Careful
<1>2. \A ids : Select(ids) => Careful
  BY DEF Select, Careful, Waits, Plain
<1>3. \A d : closeHandle(d) => Careful
  BY DEF closeHandle, Careful, Waits, Plain
<1>4. \A c : RowsLoaded(c) => Careful
  BY DEF RowsLoaded, Careful, Settles, Table, Plain
<1>5. ASSUME NEW c \in calls, CallFails(c, Masking) PROVE Careful
  <2>1. CASE c.op \in Masking
    BY <1>5, <2>1 DEF CallFails, Careful, Settles, Table, Plain
  <2>2. CASE c.op \notin Masking
    BY <1>5, <2>2, AnswerWaits DEF CallFails, Careful, Lifts
  <2> QED BY <2>1, <2>2
<1> QED BY <1>1, <1>2, <1>3, <1>4, <1>5

-----------------------------------------------------------------------------
(* The list pages *)

LEMMA SaveFields ==
  /\ \A op, d, ids : Well(Request(op, d, ids))
  /\ \A op, d : /\ Well(themeSave(op, d))
                /\ Well(consumerSave(op, d))
                /\ Well(envSave(op, d))
  /\ \A op : /\ Well(alertSave(op))
             /\ Well(transferRequest(op))
<1>1. \A op, d, ids : DOMAIN Request(op, d, ids) = {"op", "d", "ids", "of", "carries", "n"}
  BY RequestFields
<1>2. \A op, d, ids : Request(op, d, ids).carries = {}
  BY RequestFields
<1> QED BY <1>1, <1>2 DEF Well, themeSave, consumerSave, envSave, alertSave, transferRequest

\* A row is deleted: the table is masked until it is gone and the rows are loaded again.
LEMMA DeletingAsks ==
  ASSUME table \in Table, NEW op \in Deletions, NEW ids,
         calls' = With(calls, Request(op, "table", ids)), table' = [table EXCEPT !.loading = TRUE]
  PROVE  Asks /\ Plain
<1>1. Lifts(Request(op, "table", ids)) /\ Well(Request(op, "table", ids))
  BY RequestFields, MaskingIs DEF Lifts, Well
<1> QED BY <1>1, MaskingAsks

LEMMA HomeCareful ==
  ASSUME table \in Table
  PROVE  (HomeUser => Careful) /\ \A c \in calls : HomeAnswer(c) => Careful
<1>1. HomeUser => Waits /\ Plain
  <2>1. ASSUME openAddEnv PROVE Waits /\ Plain
    BY <2>1 DEF openAddEnv, Waits, Plain
  <2>2. ASSUME NEW env, openRenameEnv(env) PROVE Waits /\ Plain
    BY <2>2 DEF openRenameEnv, Waits, Plain
  <2>3. ASSUME NEW env, openDatabaseEnv(env) \/ addHostTo(env) \/ handleDeleteService(env) PROVE Waits /\ Plain
    BY <2>3, SaveFields, AddingWaits DEF openDatabaseEnv, addHostTo, handleDeleteService
  <2>4. ASSUME NEW op, NEW d, saveEnv(op, d) PROVE Waits /\ Plain
    BY <2>4, SaveFields, SavingWaits DEF saveEnv
  <2> QED BY <2>1, <2>2, <2>3, <2>4 DEF HomeUser
<1>2. ASSUME NEW c \in calls, HomeAnswer(c) PROVE Careful
  <2>1. CASE databaseServices(c) \/ installUrlOf(c)
    <3>1. ~Lifts(c)
      BY <2>1, OthersDoNotMask DEF databaseServices, installUrlOf, Lifts
    <3> QED BY <2>1, <3>1, AnswerWaits DEF databaseServices, installUrlOf, Careful
  <2>2. CASE serviceDeleted(c) \/ envSaved(c)
    BY <2>2, LoadingAsks, MaskingIs DEF serviceDeleted, envSaved, Listings, Careful
  <2> QED BY <1>2, <2>1, <2>2 DEF HomeAnswer
<1> QED BY <1>1, <1>2 DEF Careful

LEMMA ThemeCareful ==
  ASSUME table \in Table
  PROVE  (ThemeUser => Careful) /\ \A c \in calls : ThemeAnswer(c) => Careful
<1> "themeQuery" \in Masking
  BY MaskingIs DEF Listings
<1>1. ASSUME ThemeUser PROVE Careful
  <2>1. CASE themeSearch
    BY <2>1, PartsCareful DEF themeSearch
  <2>2. ASSUME NEW row, themeDelete(row) PROVE Careful
    BY <2>2, DeletingAsks DEF themeDelete, Deletions, Careful
  <2>3. CASE themeOperateOpen \/ handleSendMsg
    BY <2>3, OpeningWaits DEF themeOperateOpen, handleSendMsg, Careful
  <2>4. ASSUME NEW row, \/ themeOperateEdit(row) \/ themeApproval(row) \/ themeConfigure(row)
                        \/ handleSynchronization(row)
        PROVE  Careful
    BY <2>4, OpeningWaits
       DEF themeOperateEdit, themeApproval, themeConfigure, handleSynchronization, Careful
  <2>5. CASE themeSaveData
    BY <2>5, SaveFields, SavingWaits, AddingWaits DEF themeSaveData, Careful
  <2>6. CASE saveApprovalTheme \/ saveConfigTheme \/ saveMsgData
    BY <2>6, SaveFields, SavingWaits DEF saveApprovalTheme, saveConfigTheme, saveMsgData, Careful
  <2>7. CASE saveSynchronizationData
    <3>1. CASE Saving(calls, "sync", themeSave("syncTheme", "sync"), TRUE)
      BY <2>7, <3>1, SaveFields, SavingWaits DEF saveSynchronizationData, Careful
    <3>2. CASE UNCHANGED calls
      BY <2>7, <3>2 DEF saveSynchronizationData, Careful, Waits, Plain
    <3> QED BY <2>7, <3>1, <3>2 DEF saveSynchronizationData
  <2> QED BY <1>1, <2>1, <2>2, <2>3, <2>4, <2>5, <2>6, <2>7 DEF ThemeUser
<1>2. ASSUME NEW c \in calls, ThemeAnswer(c) PROVE Careful
  <2>1. CASE themeEnvList(c) \/ themeMsgSent(c)
    <3>1. ~Lifts(c)
      BY <2>1, OthersDoNotMask DEF themeEnvList, themeMsgSent, Lifts
    <3> QED BY <2>1, <3>1, AnswerWaits DEF themeEnvList, themeMsgSent, Careful
  <2>2. CASE themeNameValid(c)
    <3>1. ~Lifts(c)
      BY <2>2, OthersDoNotMask DEF themeNameValid, Lifts
    <3>2. \A x \in calls : Lifts(x) => x \in calls \ {c}
      BY <3>1
    <3> QED BY <2>2, <3>2, SaveFields, SavingWaits DEF themeNameValid, Careful
  <2>3. CASE themeDeleted(c) \/ themeSaved(c)
    BY <2>3, LoadingAsks DEF themeDeleted, themeSaved, Careful
  <2> QED BY <1>2, <2>1, <2>2, <2>3 DEF ThemeAnswer
<1> QED BY <1>1, <1>2

LEMMA ConsumerCareful ==
  ASSUME table \in Table
  PROVE  (ConsumerUser => Careful) /\ \A c \in calls : ConsumerAnswer(c) => Careful
<1> "consumerQuery" \in Masking
  BY MaskingIs DEF Listings
<1>1. ASSUME ConsumerUser PROVE Careful
  <2>1. CASE consumerSearch
    BY <2>1, PartsCareful DEF consumerSearch
  <2>2. CASE consumerOperateOpen
    BY <2>2 DEF consumerOperateOpen, Careful, Waits, Plain
  <2>3. CASE syncOpen
    BY <2>3, SaveFields, AddingWaits DEF syncOpen, Careful
  <2>4. ASSUME NEW row, consumerDelete(row) PROVE Careful
    BY <2>4, DeletingAsks DEF consumerDelete, Deletions, Careful
  <2>5. ASSUME NEW row, consumerOperateEdit(row) PROVE Careful
    BY <2>5 DEF consumerOperateEdit, Careful, Waits, Plain
  <2>6. ASSUME NEW row, approvalConsumer(row) \/ handleConfig(row) PROVE Careful
    BY <2>6, OpeningWaits DEF approvalConsumer, handleConfig, Careful
  <2>7. ASSUME NEW ids, consumerSelect(ids) PROVE Careful
    BY <2>7, PartsCareful DEF consumerSelect
  <2>8. CASE consumerSaveData
    BY <2>8, SaveFields, SavingWaits, AddingWaits DEF consumerSaveData, Careful
  <2>9. CASE saveApprovalConsumer \/ saveConfigConsumer \/ beginSync
    BY <2>9, SaveFields, SavingWaits
       DEF saveApprovalConsumer, saveConfigConsumer, beginSync, consumerApprove, Careful
  <2> QED BY <1>1, <2>1, <2>2, <2>3, <2>4, <2>5, <2>6, <2>7, <2>8, <2>9 DEF ConsumerUser
<1>2. ASSUME NEW c \in calls, ConsumerAnswer(c) PROVE Careful
  <2>1. CASE consumerEnvList(c) \/ syncEnvList(c)
    <3>1. ~Lifts(c)
      BY <2>1, OthersDoNotMask DEF consumerEnvList, syncEnvList, Lifts
    <3> QED BY <2>1, <3>1, AnswerWaits DEF consumerEnvList, syncEnvList, Careful
  <2>2. CASE consumerNameValid(c)
    <3>1. ~Lifts(c)
      BY <2>2, OthersDoNotMask DEF consumerNameValid, Lifts
    <3>2. \A x \in calls : Lifts(x) => x \in calls \ {c}
      BY <3>1
    <3> QED BY <2>2, <3>2, SaveFields, SavingWaits DEF consumerNameValid, Careful
  <2>3. CASE consumerDeleted(c) \/ consumerSaved(c)
    BY <2>3, LoadingAsks DEF consumerDeleted, consumerSaved, Careful
  <2> QED BY <1>2, <2>1, <2>2, <2>3 DEF ConsumerAnswer
<1> QED BY <1>1, <1>2

LEMMA AlertCareful ==
  ASSUME table \in Table
  PROVE  (AlertUser => Careful) /\ \A c \in calls : AlertAnswer(c) => Careful
<1> "alertsQuery" \in Masking
  BY MaskingIs DEF Listings
<1>1. ASSUME AlertUser PROVE Careful
  <2>1. CASE alertSearch
    BY <2>1, PartsCareful DEF alertSearch
  <2>2. CASE alertOperateOpen
    BY <2>2 DEF alertOperateOpen, Careful, Waits, Plain
  <2>3. CASE nameSelect \/ alertSaveData
    BY <2>3, SaveFields, AddingWaits DEF nameSelect, alertSaveData, Careful
  <2>4. ASSUME NEW row, alertDelete(row) PROVE Careful
    BY <2>4, DeletingAsks DEF alertDelete, Deletions, Careful
  <2>5. ASSUME NEW row, NEW option, alertOperateEdit(row, option) PROVE Careful
    BY <2>5, SaveFields, AddingWaits DEF alertOperateEdit, Careful
  <2> QED BY <1>1, <2>1, <2>2, <2>3, <2>4, <2>5 DEF AlertUser
<1>2. ASSUME NEW c \in calls, AlertAnswer(c) PROVE Careful
  <2>1. CASE alertEnvironments(c)
    <3>1. ~Lifts(c)
      BY <2>1, OthersDoNotMask DEF alertEnvironments, Lifts
    <3> QED BY <2>1, <3>1, AnswerWaits DEF alertEnvironments, Careful
  <2>2. CASE alertUnique(c)
    <3>1. ~Lifts(c)
      BY <2>2, OthersDoNotMask DEF alertUnique, Lifts
    <3>2. \A x \in calls : Lifts(x) => x \in calls \ {c}
      BY <3>1
    <3> QED BY <2>2, <3>2, SaveFields, SavingWaits DEF alertUnique, Careful
  <2>3. CASE alertDeleted(c) \/ alertSaved(c)
    BY <2>3, LoadingAsks DEF alertDeleted, alertSaved, Careful
  <2> QED BY <1>2, <2>1, <2>2, <2>3 DEF AlertAnswer
<1> QED BY <1>1, <1>2

LEMMA HostCareful ==
  ASSUME table \in Table
  PROVE  (HostUser => Careful) /\ \A c \in calls : HostAnswer(c) => Careful
<1> "hostListQuery" \in Masking
  BY MaskingIs DEF Listings
<1>1. ASSUME HostUser PROVE Careful
  <2>1. CASE hostSearch
    BY <2>1, PartsCareful DEF hostSearch
  <2>2. CASE addHost
    BY <2>2, SaveFields, AddingWaits DEF addHost, Careful
  <2>3. ASSUME NEW ids, hostSelect(ids) PROVE Careful
    BY <2>3, PartsCareful DEF hostSelect
  <2>4. ASSUME NEW op, handleToggle(op) PROVE Careful
    BY <2>4 DEF handleToggle, Careful, Waits, Plain
  <2>5. ASSUME NEW op, hostConfirmed(op) PROVE Careful
    <3>1. Well([Request(op, op, dlg[op].rows) EXCEPT !.ids = kept])
      BY RequestFields DEF Well
    <3> QED BY <2>5, <3>1, AddingWaits DEF hostConfirmed, Careful
  <2> QED BY <1>1, <2>1, <2>2, <2>3, <2>4, <2>5 DEF HostUser
<1>2. ASSUME NEW c \in calls, HostAnswer(c) PROVE Careful
  <2>1. CASE installUrl(c)
    <3>1. ~Lifts(c)
      BY <2>1, OthersDoNotMask DEF installUrl, Lifts
    <3> QED BY <2>1, <3>1, AnswerWaits DEF installUrl, Careful
  <2>2. CASE hostToggled(c)
    BY <2>2, LoadingAsks DEF hostToggled, Careful
  <2>3. CASE hostListFails(c)
    BY <2>3 DEF hostListFails, Careful, Settles, Table, Plain
  <2> QED BY <1>2, <2>1, <2>2, <2>3 DEF HostAnswer
<1> QED BY <1>1, <1>2

LEMMA TransferCareful ==
  ASSUME table \in Table
  PROVE  (TransferUser => Careful) /\ \A c \in calls : transferred(c) => Careful
<1>1. \A p \in DOMAIN TransferQueries : TransferQueries[p] \in Masking
  BY MaskingIs DEF TransferQueries, Listings
<1>2. ASSUME NEW op, beginTransfer(op) PROVE Careful
  BY <1>2, SaveFields, SavingWaits DEF beginTransfer, Careful
<1>3. ASSUME NEW ids, transferOpen(ids) PROVE Careful
  BY <1>3 DEF transferOpen, Careful, Waits, Plain
<1>4. /\ "queryClusters" \in Masking /\ "themeQuery" \in Masking /\ "consumerQuery" \in Masking
  BY MaskingIs DEF Listings
<1>5. TransferUser => Careful
  BY <1>2, <1>3, <1>4, PartsCareful
     DEF TransferUser, clusterTransfer, themeTransfer, consumerTransfer, clusterTransferOpen
<1>6. \A c \in calls : transferred(c) => Careful
  BY <1>1, LoadingAsks DEF transferred, Careful
<1> QED BY <1>5, <1>6

-----------------------------------------------------------------------------
(* The pages with a search form *)

\* The table of TopicSummary is masked by its own search only: the rows of its dialog are
\* asked for with a request that another page's search makes.
OwnRows(cs) == page = "TopicSummary" => \A c \in cs : c.op = "consumerSummary" => c.d # "table"
\* What a form holds was chosen under the choices above it, unless its page leaves values.
Fitting(f) == page \notin Leaving => \A g \in Fields : f[g] # "left"

TableInv ==
  /\ table \in Table
  /\ table.loading => table.failed \/ \E c \in calls : Lifts(c)
  /\ \A c \in calls : Well(c)
  /\ QueryTypeOK
  /\ OwnRows(calls) /\ Fitting(form)

LEMMA CarryingFields ==
  ASSUME NEW op, NEW d, NEW values
  PROVE  LET c == Carrying(op, d, values)
         IN  /\ c.op = op /\ c.d = d /\ c.carries = values
             /\ {"op", "d", "carries"} \subseteq DOMAIN c
BY DEF Carrying, Request

LEMMA FieldsAre ==
  /\ \A r \in QueryRoutes : FieldsOf(r) \subseteq Fields
  /\ \A r \in QueryRoutes \ Leaving, f \in Fields : Cleared(r, f) = Below(r, f)
<1>1. \A r \in QueryRoutes : FieldsOf(r) \subseteq Fields
  <2>1. /\ StatsAllForm.chain \in Seq(Fields) /\ UpdatePermForm.chain \in Seq(Fields)
        /\ TopicStatusForm.chain \in Seq(Fields) /\ TopicSummaryForm.chain \in Seq(Fields)
    BY DEF StatsAllForm, UpdatePermForm, TopicStatusForm, TopicSummaryForm, Form, Topics, Fields
  <2>2. /\ BrokerConfigForm.chain \in Seq(Fields) /\ ConsumerStatusForm.chain \in Seq(Fields)
        /\ ClusterListForm.chain \in Seq(Fields) /\ InMsgTopForm.chain \in Seq(Fields)
    BY DEF BrokerConfigForm, ConsumerStatusForm, ClusterListForm, InMsgTopForm, Form, Fields
  <2>3. /\ MessageSearchForm.chain \in Seq(Fields) /\ ConsumerSummaryForm.chain \in Seq(Fields)
        /\ DelayForm.chain \in Seq(Fields)
    BY DEF MessageSearchForm, ConsumerSummaryForm, DelayForm, Form, Fields
  <2>4. \A r \in QueryRoutes : Forms[r].chain \in Seq(Fields)
    BY <2>1, <2>2, <2>3 DEF QueryRoutes, Forms
  <2>5. ASSUME NEW r \in QueryRoutes PROVE FieldsOf(r) \subseteq Fields
    <3>1. Chain[r] \in Seq(Fields)
      BY <2>4 DEF Chain
    <3>2. \A i \in DOMAIN Chain[r] : Chain[r][i] \in Fields
      BY <3>1
    <3> QED BY <3>2 DEF FieldsOf
  <2> QED BY <2>5
<1>2. \A r \in QueryRoutes \ Leaving : Forms[r].uncleared = {}
  BY DEF Leaving, QueryRoutes, Forms, Form, StatsAllForm, UpdatePermForm,
         TopicStatusForm, BrokerConfigForm, ConsumerStatusForm, ClusterListForm, InMsgTopForm,
         TopicSummaryForm, ConsumerSummaryForm, MessageSearchForm, DelayForm
<1> QED BY <1>1, <1>2 DEF Cleared

\* A request added keeps the rows of TopicSummary apart.
LEMMA AddingOwn ==
  ASSUME TableInv, NEW cs \in SUBSET calls, NEW c, {"op", "d", "carries"} \subseteq DOMAIN c,
         page = "TopicSummary" => c.op # "consumerSummary" \/ c.d # "table", calls' = With(cs, c)
  PROVE  OwnRows(calls')
BY WithAdds DEF TableInv, OwnRows

LEMMA FewerOwn ==
  ASSUME TableInv, calls' \subseteq calls
  PROVE  OwnRows(calls')
BY DEF TableInv, OwnRows

LEMMA SearchingAsks ==
  ASSUME TableInv, OnQuery, NEW cs \in SUBSET calls, Searching(cs)
  PROVE  Asks /\ Plain /\ OwnRows(calls')
<1>1. PICK op \in Searches[page] : calls' = With(cs, searchRequest(op))
  BY DEF Searching
<1>2. /\ searchRequest(op).op = op /\ searchRequest(op).d = "table"
      /\ searchRequest(op).carries = {form[f] : f \in FieldsOf(page)} \ {"none"}
      /\ {"op", "d", "carries"} \subseteq DOMAIN searchRequest(op)
  BY CarryingFields DEF searchRequest
<1>3. Well(searchRequest(op))
  BY <1>2, FieldsAre DEF Well, TableInv, Fitting, OnQuery
<1>4. Lifts(searchRequest(op))
  BY <1>2, MaskingIs DEF Lifts, OnQuery
<1>5. OwnRows(calls')
  <2>1. page = "TopicSummary" => op = "topicSummary"
    BY <1>1, SearchQueriesAre
  <2> QED BY <1>1, <1>2, <2>1, AddingOwn
<1> QED BY <1>1, <1>3, <1>4, <1>5, MaskingAsks DEF Searching, TableInv

\* The page of delays searches with what it has been given.
LEMMA DelaySearchAsks ==
  ASSUME TableInv, page = "noticeDelay", NEW cs \in SUBSET calls, NEW op \in DelayQueries, NEW values,
         calls' = With(cs, Carrying(op, "table", values)), table' = [table EXCEPT !.loading = TRUE]
  PROVE  Asks /\ Plain /\ OwnRows(calls')
<1>1. Well(Carrying(op, "table", values)) /\ Lifts(Carrying(op, "table", values))
  BY CarryingFields, MaskingIs DEF Well, Lifts, Leaving
<1>2. OwnRows(calls')
  BY DEF OwnRows
<1> QED BY <1>1, <1>2, MaskingAsks DEF TableInv

LEMMA ChosenFits ==
  ASSUME TableInv, OnQuery, NEW f \in FieldsOf(page), options[f] # "none", Chosen(f, options[f]),
         table' = table
  PROVE  /\ Waits /\ Plain /\ OwnRows(calls')
         /\ form' \in [Fields -> Values] /\ options' \in [Fields -> Offers] /\ Fitting(form')
<1> DEFINE below == Below(page, f)
           stale(c) == c.op = "options" /\ c.d \in below
           moved(c) == IF stale(c) THEN [c EXCEPT !.carries = {"other"}] ELSE c
           lower == [g \in Fields |-> IF g \in Cleared(page, f) THEN "none"
                                      ELSE IF g \in below /\ form[g] # "none" THEN "left"
                                           ELSE form[g]]
<1>1. calls' = {moved(c) : c \in calls}
  BY DEF Chosen
<1>2. \A c \in calls : Well(c) /\ (Lifts(c) => moved(c) = c)
  BY OthersDoNotMask DEF TableInv, Lifts
<1>3. \A c \in calls : /\ moved(c).op = c.op /\ moved(c).d = c.d
                       /\ moved(c) = c \/ Well(moved(c))
  BY <1>2 DEF Well
<1> HIDE DEF moved
<1>4. Waits
  BY <1>1, <1>2 DEF Waits
<1>5. Plain
  BY <1>1, <1>3 DEF Plain
<1>6. OwnRows(calls')
  BY <1>1, <1>3 DEF TableInv, OwnRows
<1>7. options \in [Fields -> Offers] /\ form \in [Fields -> Values]
  BY DEF TableInv, QueryTypeOK
<1>8. options' \in [Fields -> Offers]
  BY <1>7 DEF Chosen, Offers
<1>9. form' = [lower EXCEPT ![f] = options[f]]
  BY DEF Chosen
<1>10. f \in Fields /\ Cleared(page, f) \subseteq below
  BY FieldsAre DEF OnQuery, Cleared
<1>11. options[f] \in Offers
  BY <1>7, <1>10
<1>12. options[f] \in Values /\ options[f] # "left"
  BY <1>11 DEF Offers, Values
<1>13. /\ lower \in [Fields -> Values]
       /\ page \notin Leaving => \A g \in Fields : lower[g] # "left"
  <2>1. ASSUME NEW g \in Fields
        PROVE  /\ form[g] \in Values
               /\ page \notin Leaving => form[g] # "left" /\ Cleared(page, f) = below
    BY <1>7, <1>10, FieldsAre DEF OnQuery, TableInv, Fitting
  <2> HIDE DEF below
  <2> QED BY <1>10, <2>1 DEF Values
<1> HIDE DEF lower
<1>14. form' \in [Fields -> Values] /\ Fitting(form')
  BY <1>9, <1>12, <1>13 DEF Fitting
<1> QED BY <1>4, <1>5, <1>6, <1>8, <1>14

-----------------------------------------------------------------------------
(* The steps of a page with a search form *)

Keeps == Careful /\ OwnRows(calls') /\ QueryTypeOK' /\ Fitting(form')

LEMMA FormKept ==
  ASSUME TableInv, UNCHANGED queryVars
  PROVE  QueryTypeOK' /\ Fitting(form')
BY DEF TableInv, queryVars, QueryTypeOK, Fitting

LEMMA QueryUserKeeps ==
  ASSUME TableInv, OnQuery, QueryUser
  PROVE  Keeps
<1> table \in Table /\ \A c \in calls : Well(c)
  BY DEF TableInv
<1>1. ASSUME NEW f, focusSelect(f) PROVE Keeps
  <2>1. Well(Carrying("options", f, {"own"}))
    BY CarryingFields DEF Well
  <2>2. Waits /\ Plain
    BY <1>1, <2>1, AddingWaits DEF focusSelect
  <2>3. OwnRows(calls')
    BY <1>1, CarryingFields, AddingOwn DEF focusSelect
  <2> QED BY <1>1, <2>2, <2>3, FormKept DEF focusSelect, Keeps, Careful
<1>2. ASSUME NEW f, choose(f) PROVE Keeps
  <2>1. /\ Waits /\ Plain /\ OwnRows(calls')
        /\ form' \in [Fields -> Values] /\ options' \in [Fields -> Offers] /\ Fitting(form')
    BY <1>2, ChosenFits DEF choose
  <2> QED BY <1>2, <2>1 DEF choose, Keeps, Careful, TableInv, QueryTypeOK
<1>3. CASE onReset
  <2>1. /\ Waits /\ Plain /\ OwnRows(calls') /\ options' \in [Fields -> Offers] /\ found' \in BOOLEAN
    BY <1>3 DEF onReset, Waits, Plain, OwnRows, TableInv, QueryTypeOK
  <2>2. form' \in [Fields -> Values] /\ Fitting(form')
    BY <1>3 DEF onReset, TableInv, QueryTypeOK, Values, Fitting
  <2> QED BY <2>1, <2>2 DEF Keeps, Careful, QueryTypeOK
<1>4. CASE searchHandler
  BY <1>4, SearchingAsks, FormKept DEF searchHandler, Keeps, Careful
<1>5. CASE delayPage
  <2>1. PICK op \in DelayQueries : calls' = With(calls, Carrying(op, "table", {form["envId"]}))
    BY <1>5 DEF delayPage
  <2>2. Asks /\ Plain /\ OwnRows(calls')
    BY <1>5, <2>1, DelaySearchAsks DEF delayPage
  <2> QED BY <1>5, <2>2, FormKept DEF delayPage, Keeps, Careful
<1>6. ASSUME NEW row, editPerm(row) \/ showMessage(row) PROVE Keeps
  BY <1>6, FormKept, FewerOwn DEF editPerm, showMessage, Detail, Keeps, Careful, Waits, Plain
<1>7. CASE resetOffsetOpen \/ resetKafkaOffsetOpen
  BY <1>7, FormKept, FewerOwn
     DEF resetOffsetOpen, resetKafkaOffsetOpen, ResetOpen, Keeps, Careful, Waits, Plain
<1>8. CASE showSummary
  <2>1. Waits /\ Plain
    BY <1>8, SaveFields, AddingWaits DEF showSummary
  <2>2. OwnRows(calls')
    BY <1>8, RequestFields, AddingOwn DEF showSummary
  <2> QED BY <1>8, <2>1, <2>2, FormKept DEF showSummary, Keeps, Careful
<1>9. ASSUME NEW p, NEW op, op # "consumerSummary", saveChange(p, op) PROVE Keeps
  <2>1. calls' = With(calls, Request(op, "dia", dlg["dia"].rows)) /\ table' = table
    BY <1>9 DEF saveChange, Saving
  <2>2. Waits /\ Plain
    BY <2>1, SaveFields, AddingWaits
  <2>3. OwnRows(calls')
    BY <1>9, <2>1, RequestFields, AddingOwn
  <2> QED BY <1>9, <2>2, <2>3, FormKept DEF saveChange, Keeps, Careful
<1>10. CASE savePerm \/ resetOffset \/ resetKafkaOffset
  BY <1>9, <1>10 DEF savePerm, resetOffset, resetKafkaOffset
<1> QED BY <1>1, <1>2, <1>3, <1>4, <1>5, <1>6, <1>7, <1>8, <1>10 DEF QueryUser

LEMMA QueryAnswerKeeps ==
  ASSUME TableInv, OnQuery, NEW c \in calls, QueryAnswer(c)
  PROVE  Keeps
<1> table \in Table /\ Well(c)
  BY DEF TableInv
<1>1. CASE optionsLoaded(c)
  <2>1. Waits /\ Plain
    BY <1>1, OthersDoNotMask, AnswerWaits DEF optionsLoaded, Lifts
  <2>2. options' \in [Fields -> Offers]
    BY <1>1 DEF optionsLoaded, TableInv, QueryTypeOK, Offers
  <2>3. form' \in [Fields -> Values] /\ found' \in BOOLEAN /\ Fitting(form')
    BY <1>1 DEF optionsLoaded, TableInv, QueryTypeOK, Fitting
  <2> QED BY <1>1, <2>1, <2>2, <2>3, FewerOwn DEF optionsLoaded, Keeps, Careful, QueryTypeOK
<1>2. CASE searched(c)
  <2>1. Careful /\ calls' \subseteq calls
    BY <1>2, PartsCareful DEF searched, RowsLoaded
  <2>2. QueryTypeOK' /\ Fitting(form')
    BY <1>2 DEF searched, TableInv, QueryTypeOK, Fitting
  <2> QED BY <2>1, <2>2, FewerOwn DEF Keeps
<1>3. CASE delayEnvironments(c)
  <2>1. Asks /\ Plain /\ OwnRows(calls')
    <3>1. "delayRocketQuery" \in DelayQueries
      BY DEF DelayQueries
    <3> QED BY <1>3, <3>1, DelaySearchAsks DEF delayEnvironments
  <2>2. QueryTypeOK' /\ Fitting(form')
    BY <1>3 DEF delayEnvironments, TableInv, QueryTypeOK, Fitting, Values, Offers, Fields, Leaving
  <2> QED BY <2>1, <2>2 DEF Keeps, Careful
<1>4. CASE summaryShown(c)
  <2>1. ~Lifts(c)
    BY <1>4 DEF summaryShown, TableInv, OwnRows, Lifts
  <2> QED BY <1>4, <2>1, AnswerWaits, FormKept, FewerOwn DEF summaryShown, Keeps, Careful
<1>5. CASE changed(c)
  <2>1. CASE Searching(calls \ {c})
    BY <1>5, <2>1, SearchingAsks, FormKept DEF changed, Keeps, Careful
  <2>2. CASE calls' = calls \ {c} /\ UNCHANGED table
    <3>1. ~Lifts(c)
      BY <1>5, OthersDoNotMask DEF changed, Lifts
    <3> QED BY <1>5, <2>2, <3>1, AnswerWaits, FormKept, FewerOwn DEF changed, Keeps, Careful
  <2> QED BY <1>5, <2>1, <2>2 DEF changed
<1> QED BY <1>1, <1>2, <1>3, <1>4, <1>5 DEF QueryAnswer

-----------------------------------------------------------------------------
(* All pages *)

\* A mounted page waits for the rows it asks for.
LEMMA TurnKeeps == Turn => TableInv'
<1> SUFFICES ASSUME Turn PROVE TableInv'
  OBVIOUS
<1> DEFINE asked == QueriesOf(page')
<1>1. /\ table' = [loading |-> asked \ {"listEnvironment"} # {}, failed |-> FALSE]
      /\ calls' = {Request(q, "table", {}) : q \in asked}
  BY DEF Turn, Fresh
<1>2. asked \subseteq Listings \cup {"listEnvironment"}
  <2>1. asked \subseteq UNION {PageQueries[p] : p \in DOMAIN PageQueries}
    BY DEF QueriesOf
  <2> QED BY <2>1, QueriesAre DEF Queries
<1> HIDE DEF asked
<1>3. table' \in Table
  BY <1>1 DEF Table
<1>4. table'.loading => \E c \in calls' : Lifts(c)
  <2>1. ASSUME NEW q \in asked \ {"listEnvironment"} PROVE Lifts(Request(q, "table", {}))
    BY <1>2, <2>1, RequestFields, MaskingIs DEF Lifts
  <2> QED BY <1>1, <2>1
<1>5. ASSUME NEW c \in calls' PROVE Well(c)' /\ c.op # "consumerSummary"
  <2>1. PICK q \in asked : c = Request(q, "table", {})
    BY <1>1
  <2> QED BY <1>2, <2>1, RequestFields DEF Well, Listings
<1>6. QueryTypeOK' /\ Fitting(form)'
  BY DEF Turn, NoForm, QueryTypeOK, Fitting, Values, Offers
<1> QED BY <1>3, <1>4, <1>5, <1>6 DEF TableInv, OwnRows, Lifts

\* What a page does to itself.
LEMMA KeepsTableInv ==
  ASSUME TableInv, Keeps, page' = page
  PROVE  TableInv'
<1>1. table' \in Table
  BY DEF Keeps, Careful, Waits, Asks, Settles, TableInv
<1>2. table'.loading => table'.failed \/ \E c \in calls' : Lifts(c)
  BY DEF Keeps, Careful, Waits, Asks, Settles, TableInv
<1>3. \A c \in calls' : Well(c)
  BY DEF Keeps, Careful, Plain, TableInv
<1>4. \A c \in calls' : Well(c)'
  BY <1>3 DEF Well
<1> QED BY <1>1, <1>2, <1>4 DEF Keeps, TableInv, OwnRows, Fitting, Lifts

LEMMA ListPages ==
  OnHome \/ OnThemes \/ OnConsumers \/ OnAlerts \/ OnHosts \/ TransferUser
    \/ (\E c \in calls : transferred(c)) => page # "TopicSummary"
<1>1. TransferUser => page # "TopicSummary"
  BY DEF TransferUser, clusterTransfer, themeTransfer, consumerTransfer, On
<1>2. ASSUME NEW c \in calls, transferred(c) PROVE page # "TopicSummary"
  BY <1>2 DEF transferred, TransferQueries
<1> QED BY <1>1, <1>2 DEF OnHome, OnThemes, OnConsumers, OnAlerts, OnHosts, On

LEMMA OperateKeeps ==
  ASSUME TableInv, Operate
  PROVE  TableInv'
<1> table \in Table
  BY DEF TableInv
<1>1. page' = page
  BY DEF Operate, visitVars
<1>2. CASE OnQuery /\ QueryUser
  BY <1>1, <1>2, QueryUserKeeps, KeepsTableInv
<1> DEFINE listed == \/ OnHome /\ HomeUser
                     \/ OnThemes /\ ThemeUser
                     \/ OnConsumers /\ ConsumerUser
                     \/ OnAlerts /\ AlertUser
                     \/ OnHosts /\ HostUser
                     \/ TransferUser
                     \/ \E d \in Dialogs : closeHandle(d)
<1>3. CASE listed /\ UNCHANGED queryVars
  <2>1. Careful
    BY <1>3, HomeCareful, ThemeCareful, ConsumerCareful, AlertCareful, HostCareful,
       TransferCareful, PartsCareful
  <2>2. page # "TopicSummary" \/ calls' = calls
    <3>1. (\E d \in Dialogs : closeHandle(d)) => calls' = calls
      BY DEF closeHandle
    <3> QED BY <1>3, <3>1, ListPages
  <2> QED BY <1>1, <1>3, <2>1, <2>2, FormKept, KeepsTableInv DEF Keeps, OwnRows, TableInv
<1>4. (OnQuery /\ QueryUser) \/ (listed /\ UNCHANGED queryVars)
  BY Zenon DEF Operate
<1> QED BY <1>2, <1>3, <1>4

LEMMA AnswerKeeps ==
  ASSUME TableInv, NEW c \in calls, Answer(c)
  PROVE  TableInv'
<1> table \in Table
  BY DEF TableInv
<1>1. page' = page
  BY DEF Answer, visitVars
<1>2. CASE OnQuery /\ QueryAnswer(c)
  BY <1>1, <1>2, QueryAnswerKeeps, KeepsTableInv
<1> DEFINE listed == \/ OnHome /\ HomeAnswer(c)
                     \/ OnThemes /\ ThemeAnswer(c)
                     \/ OnConsumers /\ ConsumerAnswer(c)
                     \/ OnAlerts /\ AlertAnswer(c)
                     \/ OnHosts /\ HostAnswer(c)
                     \/ transferred(c)
                     \/ c.op \in Queries /\ RowsLoaded(c)
                     \/ c.op \notin {"hostListQuery", "options"} /\ CallFails(c, Masking)
<1>3. CASE listed /\ UNCHANGED queryVars
  <2>1. Careful
    BY <1>3, HomeCareful, ThemeCareful, ConsumerCareful, AlertCareful, HostCareful,
       TransferCareful, PartsCareful
  <2>2. page # "TopicSummary" \/ calls' \subseteq calls
    <3>1. RowsLoaded(c) \/ CallFails(c, Masking) => calls' \subseteq calls
      BY DEF RowsLoaded, CallFails
    <3> QED BY <1>3, <3>1, ListPages
  <2>3. OwnRows(calls')
    BY <1>1, <2>2, FewerOwn DEF OwnRows
  <2> QED BY <1>1, <1>3, <2>1, <2>3, FormKept, KeepsTableInv DEF Keeps
<1>4. (OnQuery /\ QueryAnswer(c)) \/ (listed /\ UNCHANGED queryVars)
  BY Zenon DEF Answer
<1> QED BY <1>2, <1>3, <1>4

LEMMA TableInvInductive == Spec => []TableInv
<1>1. ASSUME Init PROVE TableInv
  <2>1. table \in Table /\ ~table.loading /\ calls = {}
    BY <1>1 DEF Init, Table
  <2>2. QueryTypeOK /\ Fitting(form)
    BY <1>1 DEF Init, QueryTypeOK, Fitting, Values, Offers
  <2> QED BY <2>1, <2>2 DEF TableInv, OwnRows
<1>2. TableInv /\ [Next]_vars => TableInv'
  <2> SUFFICES ASSUME TableInv, [Next]_vars PROVE TableInv'
    OBVIOUS
  <2>1. CASE UNCHANGED <<visitVars, pageVars, queryVars>>
    <3>1. page' = page /\ table' = table /\ calls' = calls
      BY <2>1 DEF visitVars, pageVars
    <3>2. Keeps
      BY <3>1, <2>1, FormKept DEF Keeps, Careful, Waits, Plain, TableInv, OwnRows
    <3> QED BY <3>1, <3>2, KeepsTableInv
  <2>2. CASE Turn
    BY <2>2, TurnKeeps
  <2>3. CASE Operate
    BY <2>3, OperateKeeps
  <2>4. CASE ServicePages
    BY <2>1, <2>4 DEF ServicePages
  <2>5. CASE \E c \in calls : Answer(c)
    BY <2>5, AnswerKeeps
  <2> QED BY <2>1, <2>2, <2>3, <2>4, <2>5 DEF Next, vars
<1> QED BY <1>1, <1>2, PTL DEF Spec

\* However searches, deletions, saves and their answers follow one another on any page, its
\* table is masked only while an answer is due that lifts the mask, or after one that failed
\* (loadTabledata of theme/list.vue, consumer/list.vue, host/list.vue, the consoles' lists).
THEOREM TablesUnmasked == Spec => []MaskedOnlyByFailure
<1>1. TableInv => MaskedOnlyByFailure
  BY DEF TableInv, MaskedOnlyByFailure, Lifts
<1> QED BY <1>1, TableInvInductive, PTL

\* The watchers that clear the selects below a choice keep every search to values chosen
\* together, on all pages but the two whose watchers clear less (list-search.js).
THEOREM SearchesFit == Spec => []NothingLeftOver
<1>1. TableInv => NothingLeftOver
  BY DEF TableInv, NothingLeftOver, Well, Leaving
<1> QED BY <1>1, TableInvInductive, PTL
=============================================================================
