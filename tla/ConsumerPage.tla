----------------------------- MODULE ConsumerPage -----------------------------
(***************************************************************************)
(* The page of consumer groups (views/consumer).  Its dialogs have a mask  *)
(* only while they wait for environments, and most saves name the group by *)
(* the page's own id, which every click on a row's button sets.            *)
(***************************************************************************)
EXTENDS PageParts

ConsumerQueries == {"consumerQuery"}
ConsumerSaves ==
  {"createConsumerSave", "editConsumerSave", "approvalConsumer", "configUpdateGated",
   "consumerSync"}

OnConsumers == On("consumerList")

mayChangeConsumer(row) == isAdmin \/ checkUser(Applicant[row])
mayConfigureConsumer(row) == isAdmin /\ row \in Approved

consumerSearch == OnConsumers /\ Search("consumerQuery")

consumerDelete(row) ==
  /\ OnConsumers /\ RowsReachable /\ Room /\ mayChangeConsumer(row)
  /\ calls' = With(calls, Request("consumeDelete", "table", {row}))
  /\ table' = [table EXCEPT !.loading = TRUE]
  /\ UNCHANGED <<dlg, kept, picked, envList>>
consumerDeleted(c) ==
  /\ OnConsumers /\ c.op = "consumeDelete"
  /\ Loading(calls \ {c}, "consumerQuery")
  /\ UNCHANGED <<dlg, kept, picked, envList>>

\* A new group: the page's id stays what the last row's button made it.
consumerOperateOpen ==
  /\ OnConsumers /\ Uncovered
  /\ dlg' = Opened(dlg, "dia", {}, FALSE)
  /\ UNCHANGED <<table, calls, kept, picked, envList>>

\* An edit opens at once; name and topic are disabled.
consumerOperateEdit(row) ==
  /\ OnConsumers /\ RowsReachable /\ mayChangeConsumer(row)
  /\ kept' = {row}
  /\ dlg' = Opened(dlg, "dia", {row}, TRUE)
  /\ UNCHANGED <<table, calls, picked, envList>>

\* Approval and configuration may first wait for the environments.
approvalConsumer(row) ==
  /\ OnConsumers /\ RowsReachable /\ isAdmin
  /\ OpenWithEnvList("approval", {row}, FALSE)
  /\ kept' = {row}
  /\ UNCHANGED <<table, picked, envList>>
handleConfig(row) ==
  /\ OnConsumers /\ RowsReachable /\ mayConfigureConsumer(row)
  /\ OpenWithEnvList("config", {row}, FALSE)
  /\ kept' = {row}
  /\ UNCHANGED <<table, picked, envList>>
consumerEnvList(c) ==
  /\ OnConsumers /\ c.op = "envList" /\ c.d # "sync"
  /\ envList' = TRUE
  /\ calls' = calls \ {c}
  /\ dlg' = Opened(dlg, c.d, c.ids, FALSE)
  /\ UNCHANGED <<table, kept, picked>>

\* Selecting rows, and copying the groups selected to other environments: the page asks for
\* the environments every time and looks at the selection when they have come.
consumerSelect(rows) == OnConsumers /\ Select(rows)
syncOpen ==
  /\ OnConsumers /\ Uncovered /\ isAdmin /\ Room
  /\ calls' = With(calls, Request("envList", "sync", {}))
  /\ UNCHANGED <<table, dlg, kept, picked, envList>>
syncEnvList(c) ==
  /\ OnConsumers /\ c.op = "envList" /\ c.d = "sync"
  /\ calls' = calls \ {c}
  /\ dlg' = IF picked = {} THEN dlg ELSE Opened(dlg, "sync", picked, FALSE)
  /\ UNCHANGED <<table, kept, picked, envList>>

\* Saves: no mask, so a second click sends a second request.  The body's id is the page's.
consumerSave(op, d) ==
  [Request(op, d, dlg[d].rows) EXCEPT !.ids = Named(op, dlg[d].rows, kept)]

\* A new name is checked by the server first.
consumerSaveData ==
  /\ OnConsumers /\ dlg["dia"].visible /\ Room
  /\ \/ /\ dlg["dia"].rows = {}
        /\ calls' = With(calls, Request("validCode", "dia", {}))
        /\ UNCHANGED dlg
     \/ /\ dlg["dia"].rows # {}
        /\ Saving(calls, "dia", consumerSave("editConsumerSave", "dia"), FALSE)
  /\ UNCHANGED <<table, kept, picked, envList>>
consumerNameValid(c) ==
  /\ OnConsumers /\ c.op = "validCode"
  /\ LET op == IF dlg["dia"].rows = {} THEN "createConsumerSave" ELSE "editConsumerSave"
     IN  Saving(calls \ {c}, "dia", consumerSave(op, "dia"), FALSE)
  /\ UNCHANGED <<table, kept, picked, envList>>

\* An approval is the one save that puts the id of the row shown into the body.
consumerApprove(d) == Request("approvalConsumer", d, dlg[d].rows)
saveApprovalConsumer ==
  /\ OnConsumers /\ dlg["approval"].visible /\ Room
  /\ Saving(calls, "approval", consumerApprove("approval"), FALSE)
  /\ UNCHANGED <<table, kept, picked, envList>>
saveConfigConsumer ==
  /\ OnConsumers /\ dlg["config"].visible /\ Room
  /\ Saving(calls, "config", consumerSave("configUpdateGated", "config"), FALSE)
  /\ UNCHANGED <<table, kept, picked, envList>>
beginSync ==
  /\ OnConsumers /\ dlg["sync"].visible /\ Room
  /\ Saving(calls, "sync", Request("consumerSync", "sync", dlg["sync"].rows), FALSE)
  /\ UNCHANGED <<table, kept, picked, envList>>
consumerSaved(c) ==
  /\ OnConsumers /\ c.op \in ConsumerSaves
  /\ Loading(calls \ {c}, "consumerQuery")
  /\ dlg' = Closed(dlg, c.d, calls \ {c})
  /\ UNCHANGED <<kept, picked, envList>>

ConsumerUser ==
  \/ consumerSearch \/ consumerOperateOpen \/ syncOpen
  \/ \E row \in Rows : \/ consumerDelete(row) \/ consumerOperateEdit(row)
                       \/ approvalConsumer(row) \/ handleConfig(row)
  \/ \E rows \in SUBSET Rows : consumerSelect(rows)
  \/ consumerSaveData \/ saveApprovalConsumer \/ saveConfigConsumer \/ beginSync
ConsumerAnswer(c) ==
  \/ consumerDeleted(c) \/ consumerEnvList(c) \/ syncEnvList(c)
  \/ consumerNameValid(c) \/ consumerSaved(c)
=============================================================================
