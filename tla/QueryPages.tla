----------------------------- MODULE QueryPages -----------------------------
(***************************************************************************)
(* The consoles' pages (views/devops/rocketmq, kafka, messageSearch) and   *)
(* the page of consumer delays: a chain of selects, each offering what     *)
(* belongs to the choice above it, and a table that is loaded only by a    *)
(* search.  Three of them also change what the table shows.                *)
(***************************************************************************)
EXTENDS PageParts, Sequences

VARIABLES
  form,     \* form[f]: the value of select f
  options,  \* options[f]: what select f offers
  found     \* a search has brought rows, or a row's detail can be asked for

queryVars == <<form, options, found>>

\* A value or an offer is the present choice's own, was loaded for another choice above it,
\* or, for a value, was chosen under another choice and left in the form.
Fields == {"envId", "clusterName", "topicName", "consumerName", "consumerId", "brokerAddr", "name"}
Values == {"none", "own", "other", "left"}
Offers == {"none", "own", "other"}

(* The forms: the chain of selects, those a search does not ask for, and the pairs of an
   upper and a lower select whose watcher leaves the lower one as it is. *)
Form(chain, optional, uncleared) ==
  [chain |-> chain, optional |-> optional, uncleared |-> uncleared]
Topics == <<"envId", "clusterName", "topicName">>

StatsAllForm == Form(Append(Topics, "consumerName"), {"topicName", "consumerName"}, {})
UpdatePermForm == Form(Topics, {}, {})
TopicStatusForm == Form(Topics, {"topicName"}, {})
BrokerConfigForm == Form(<<"envId", "clusterName", "brokerAddr">>, {}, {})
ConsumerStatusForm == Form(<<"envId", "clusterName", "consumerName">>, {}, {})
ClusterListForm == Form(<<"envId", "clusterName">>, {}, {})
InMsgTopForm == Form(<<"envId", "clusterName">>, {}, {})
TopicSummaryForm == Form(Topics, {}, {})
MessageSearchForm == Form(<<"envId", "topicName">>, {}, {})

\* Its watchers clear consumerName, which no select shows, and not consumerId.
ConsumerSummaryForm ==
  Form(<<"envId", "clusterName", "consumerId">>, {},
       {"envId", "clusterName"} \X {"consumerId"})

\* Its watcher of the environment clears nothing.
DelayForm ==
  Form(<<"envId", "clusterName", "name">>, {"clusterName", "name"},
       {"envId"} \X {"clusterName", "name"})

Forms ==
  [statsAll |-> StatsAllForm, updatePerm |-> UpdatePermForm, topicStatus |-> TopicStatusForm,
   getBrokerConfig |-> BrokerConfigForm, consumerStatusAll |-> ConsumerStatusForm,
   clusterList |-> ClusterListForm, InMsg24HourTop |-> InMsgTopForm,
   TopicSummary |-> TopicSummaryForm, ConsumerSummary |-> ConsumerSummaryForm,
   messageSearch |-> MessageSearchForm, noticeDelay |-> DelayForm]
QueryRoutes == DOMAIN Forms
OnQuery == page \in QueryRoutes

Chain == [r \in QueryRoutes |-> Forms[r].chain]
FieldsOf(route) == {Chain[route][i] : i \in DOMAIN Chain[route]}
Required == [r \in QueryRoutes |-> FieldsOf(r) \ Forms[r].optional]
Below(route, f) ==
  {Chain[route][i] : i \in {j \in DOMAIN Chain[route] :
                             \E k \in 1 .. j - 1 : Chain[route][k] = f}}

\* Mutant: the watcher of the environment clears the cluster only.
Cleared_ClusterOnly(route, f) == Below(route, f) \cap {"clusterName"}

\* What the watchers clear when f changes.
Cleared(route, f) == {g \in Below(route, f) : <<f, g>> \notin Forms[route].uncleared}

\* What the tables of the pages ask for, each in loadTabledata of its list.vue.
StatsAllQueries == {"statsAll"}
PermQueries == {"getPerm"}
TopicStatusQueries == {"topicStatus"}
BrokerConfigQueries == {"getBrokerConfig"}
ConsumerStatusQueries == {"consumerStatusAll"}
ClusterListQueries == {"cmdClusterList"}
InMsgTopQueries == {"topicInMsgTop"}
TopicSummaryQueries == {"topicSummary"}
ConsumerSummaryQueries == {"consumerSummary"}
MessageQueries == {"viewByKey", "viewByMsgId"}
DelayQueries == {"delayRocketQuery", "delayKafkaQuery", "allDelayQuery"}
Searches ==
  [statsAll |-> StatsAllQueries, updatePerm |-> PermQueries, topicStatus |-> TopicStatusQueries,
   getBrokerConfig |-> BrokerConfigQueries, consumerStatusAll |-> ConsumerStatusQueries,
   clusterList |-> ClusterListQueries, InMsg24HourTop |-> InMsgTopQueries,
   TopicSummary |-> TopicSummaryQueries, ConsumerSummary |-> ConsumerSummaryQueries,
   messageSearch |-> MessageQueries, noticeDelay |-> DelayQueries]
SearchQueries == UNION {Searches[r] : r \in QueryRoutes}

\* A request of these pages says which values of the form it was made for.
Carrying(op, d, values) == [Request(op, d, {}) EXCEPT !.carries = values]

NoForm == /\ form' = [f \in Fields |-> "none"] /\ found' = FALSE
          /\ options' = [f \in Fields |-> "none"]

-----------------------------------------------------------------------------
(* The selects *)

\* A select is masked while the offer it has asked for is on its way; one that fails never
\* comes, which a request that stays unanswered shows.
Masked(f) == \E c \in calls : c.d = f

\* Focus asks for the offer.  The guard looks at the environment only: an empty cluster is
\* not null.
focusSelect(f) ==
  /\ OnQuery /\ f \in FieldsOf(page) /\ Uncovered /\ Room /\ ~Masked(f)
  /\ page # "messageSearch" /\ f # "envId" => form["envId"] # "none"
  /\ calls' = With(calls, Carrying("options", f, {"own"}))
  /\ UNCHANGED <<table, dlg, kept, picked, envList, queryVars>>

\* The offer replaces the one shown, whatever choice it was asked for.
optionsLoaded(c) ==
  /\ OnQuery /\ c.op = "options"
  /\ options' = [options EXCEPT ![c.d] = IF "own" \in c.carries THEN "own" ELSE "other"]
  /\ calls' = calls \ {c}
  /\ UNCHANGED <<table, dlg, kept, picked, envList, form, found>>

\* A value is chosen: the watchers clear what they name below it, the rest is left over; the
\* offers below and those under way belong to another choice from now on.
Chosen(f, value) ==
  LET below == Below(page, f)
      stale(c) == c.op = "options" /\ c.d \in below
      lower == [g \in Fields |-> IF g \in Cleared(page, f) THEN "none"
                                 ELSE IF g \in below /\ form[g] # "none" THEN "left" ELSE form[g]]
  IN  /\ form' = [lower EXCEPT ![f] = value]
      /\ options' = [g \in Fields |-> IF g \in below /\ options[g] = "own" THEN "other"
                                      ELSE options[g]]
      /\ calls' = {IF stale(c) THEN [c EXCEPT !.carries = {"other"}] ELSE c : c \in calls}
choose(f) ==
  /\ OnQuery /\ f \in FieldsOf(page) /\ Uncovered /\ ~Masked(f)
  /\ options[f] # "none"
  /\ Chosen(f, options[f])
  /\ UNCHANGED <<table, dlg, kept, picked, envList, found>>

\* Mutant: the reset puts null where the selects and their guards have an empty text.
onReset_Null ==
  /\ OnQuery /\ Uncovered /\ page # "ConsumerSummary"
  /\ form' = [f \in Fields |-> "null"]
  /\ UNCHANGED <<table, dlg, calls, kept, picked, envList, options, found>>

\* The button that empties the form; ConsumerSummary has none.
onReset ==
  /\ OnQuery /\ Uncovered /\ page # "ConsumerSummary"
  /\ form' = [f \in Fields |-> IF page = "noticeDelay" /\ f = "envId" THEN form[f] ELSE "none"]
  /\ UNCHANGED <<table, dlg, calls, kept, picked, envList, options, found>>

-----------------------------------------------------------------------------
(* Searches *)

Valid == \A f \in Required[page] : form[f] # "none"
searchRequest(op) ==
  Carrying(op, "table", {form[f] : f \in FieldsOf(page)} \ {"none"})
Searching(cs) ==
  /\ \E op \in Searches[page] : calls' = With(cs, searchRequest(op))
  /\ table' = [table EXCEPT !.loading = TRUE]

\* Not under the table's mask: a search can be repeated at once.
searchHandler ==
  /\ OnQuery /\ Uncovered /\ Room /\ Valid
  /\ Searching(calls)
  /\ UNCHANGED <<dlg, kept, picked, envList, queryVars>>
searched(c) ==
  /\ OnQuery /\ c.op \in Searches[page]
  /\ RowsLoaded(c)
  /\ found' = TRUE
  /\ UNCHANGED <<form, options>>

\* The page of delays asks for the environments first, takes the first one and searches.
delayEnvironments(c) ==
  /\ page = "noticeDelay" /\ c.op = "listEnvironment"
  /\ form' = [form EXCEPT !["envId"] = "own"]
  /\ options' = [options EXCEPT !["envId"] = "own"]
  /\ calls' = With(calls \ {c}, Carrying("delayRocketQuery", "table", {"own"}))
  /\ table' = [table EXCEPT !.loading = TRUE]
  /\ UNCHANGED <<dlg, kept, picked, envList, found>>

\* Another kind of delay or another page: only the environment is sent, not the form.
delayPage ==
  /\ page = "noticeDelay" /\ Uncovered /\ Room /\ form["envId"] # "none"
  /\ \E op \in DelayQueries : calls' = With(calls, Carrying(op, "table", {form["envId"]}))
  /\ table' = [table EXCEPT !.loading = TRUE]
  /\ UNCHANGED <<dlg, kept, picked, envList, queryVars>>

-----------------------------------------------------------------------------
(* Details and changes *)

Detail(p, row) ==
  /\ page = p /\ RowsReachable /\ found
  /\ dlg' = Opened(dlg, "dia", {row}, FALSE)
  /\ UNCHANGED <<table, calls, kept, picked, envList, queryVars>>
editPerm(row) == Detail("updatePerm", row)
showMessage(row) == Detail("messageSearch", row)

\* Offsets are reset in a dialog with a chain of selects of its own.
ResetOpen(p) ==
  /\ page = p /\ Uncovered
  /\ dlg' = Opened(dlg, "dia", {}, FALSE)
  /\ UNCHANGED <<table, calls, kept, picked, envList, queryVars>>
resetOffsetOpen == ResetOpen("consumerStatusAll")
resetKafkaOffsetOpen == ResetOpen("ConsumerSummary")

\* The groups of a Kafka topic: the dialog is shown before its rows have come.
showSummary ==
  /\ page = "TopicSummary" /\ RowsReachable /\ found /\ Room
  /\ dlg' = Opened(dlg, "dia", {}, FALSE)
  /\ calls' = With(calls, Request("consumerSummary", "dia", {}))
  /\ UNCHANGED <<table, kept, picked, envList, queryVars>>
summaryShown(c) ==
  /\ page = "TopicSummary" /\ c.op = "consumerSummary"
  /\ calls' = calls \ {c}
  /\ UNCHANGED <<table, dlg, kept, picked, envList, queryVars>>

\* A change names the row or the values of its dialog, never the search form.  No mask: a
\* second click sends it again.
saveChange(p, op) ==
  /\ page = p /\ dlg["dia"].visible /\ Room
  /\ Saving(calls, "dia", Request(op, "dia", dlg["dia"].rows), FALSE)
  /\ UNCHANGED <<table, kept, picked, envList, queryVars>>
savePerm == saveChange("updatePerm", "updatePerm")
resetOffset == saveChange("consumerStatusAll", "resetOffset")
resetKafkaOffset == saveChange("ConsumerSummary", "resetOffset")

\* The dialog closes, and the search is made again with what the form holds by then.
changed(c) ==
  /\ OnQuery /\ c.op \in {"updatePerm", "resetOffset"}
  /\ dlg' = Closed(dlg, "dia", calls \ {c})
  /\ \/ Valid /\ Searching(calls \ {c})
     \/ ~Valid /\ calls' = calls \ {c} /\ UNCHANGED table
  /\ UNCHANGED <<kept, picked, envList, queryVars>>

QueryUser ==
  \/ \E f \in Fields : focusSelect(f) \/ choose(f)
  \/ onReset \/ searchHandler \/ delayPage
  \/ \E row \in Rows : editPerm(row) \/ showMessage(row)
  \/ resetOffsetOpen \/ resetKafkaOffsetOpen \/ showSummary
  \/ savePerm \/ resetOffset \/ resetKafkaOffset
QueryAnswer(c) ==
  \/ optionsLoaded(c) \/ searched(c) \/ delayEnvironments(c) \/ summaryShown(c) \/ changed(c)

QueryTypeOK ==
  /\ form \in [Fields -> Values]
  /\ options \in [Fields -> Offers]
  /\ found \in BOOLEAN
=============================================================================
