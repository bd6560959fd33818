------------------------------ MODULE AlertPage ------------------------------
(***************************************************************************)
(* The page of alerts (views/notice/alert).  An alert is copied or edited  *)
(* in a form whose environments are asked for by the name chosen; every    *)
(* save asks the server first whether the alert is unique.                 *)
(***************************************************************************)
EXTENDS PageParts

AlertQueries == {"alertsQuery"}
AlertSaves == {"createAlertSave", "editAlertSave"}
NameQueries == {"queryEnvironmentRefByTopicName", "queryEnvironmentRefByConsumerName"}

OnAlerts == On("noticeList")
mayEditAlert(row) == isAdmin \/ checkUser(Applicant[row])

alertSearch == OnAlerts /\ Search("alertsQuery")

alertDelete(row) ==
  /\ OnAlerts /\ RowsReachable /\ Room /\ isAdmin
  /\ calls' = With(calls, Request("deleteAlert", "table", {row}))
  /\ table' = [table EXCEPT !.loading = TRUE]
  /\ UNCHANGED <<dlg, kept, picked, envList>>
alertDeleted(c) ==
  /\ OnAlerts /\ c.op = "deleteAlert"
  /\ Loading(calls \ {c}, "alertsQuery")
  /\ UNCHANGED <<dlg, kept, picked, envList>>

\* The dialog is locked while its status is 1: it edits, it does not add a copy.  kept is
\* the row whose values the form holds, dlg's rows what is left of it in currentFormValue.
alertOperateOpen ==
  /\ OnAlerts /\ Uncovered
  /\ dlg' = Opened(dlg, "dia", {}, FALSE)
  /\ kept' = {}
  /\ UNCHANGED <<table, calls, picked, envList>>
alertOperateEdit(row, option) ==
  /\ OnAlerts /\ RowsReachable /\ Room
  /\ option => mayEditAlert(row)
  /\ dlg' = Opened(dlg, "dia", {row}, option)
  /\ kept' = {row}
  /\ \E op \in NameQueries : calls' = With(calls, Request(op, "dia", {row}))
  /\ UNCHANGED <<table, picked, envList>>

\* Another name is chosen: its environments are asked for.
nameSelect ==
  /\ OnAlerts /\ dlg["dia"].visible /\ Room
  /\ \E op \in NameQueries : calls' = With(calls, Request(op, "dia", {}))
  /\ UNCHANGED <<table, dlg, kept, picked, envList>>

\* If there is exactly one environment it takes the place of the form's value, id and all,
\* whichever row the dialog shows by then.
alertEnvironments(c) ==
  /\ OnAlerts /\ c.op \in NameQueries
  /\ calls' = calls \ {c}
  /\ \/ UNCHANGED dlg
     \/ dlg' = [dlg EXCEPT !["dia"].rows = {}]
  /\ UNCHANGED <<table, kept, picked, envList>>

\* No mask: the form can be saved again before the first answer.
alertSaveData ==
  /\ OnAlerts /\ dlg["dia"].visible /\ Room
  /\ calls' = With(calls, Request("uniqueCheck", "dia", {}))
  /\ UNCHANGED <<table, dlg, kept, picked, envList>>
alertSave(op) ==
  [Request(op, "dia", dlg["dia"].rows) EXCEPT !.ids = Named(op, dlg["dia"].rows, {}), !.of = kept]
alertUnique(c) ==
  /\ OnAlerts /\ c.op = "uniqueCheck"
  /\ LET op == IF dlg["dia"].locked THEN "editAlertSave" ELSE "createAlertSave"
     IN  Saving(calls \ {c}, "dia", alertSave(op), FALSE)
  /\ UNCHANGED <<table, kept, picked, envList>>
alertSaved(c) ==
  /\ OnAlerts /\ c.op \in AlertSaves
  /\ Loading(calls \ {c}, "alertsQuery")
  /\ dlg' = Closed(dlg, "dia", calls \ {c})
  /\ UNCHANGED <<kept, picked, envList>>

AlertUser ==
  \/ alertSearch \/ alertOperateOpen \/ nameSelect \/ alertSaveData
  \/ \E row \in Rows : alertDelete(row) \/ \E option \in BOOLEAN : alertOperateEdit(row, option)
AlertAnswer(c) ==
  alertDeleted(c) \/ alertEnvironments(c) \/ alertUnique(c) \/ alertSaved(c)
=============================================================================
