------------------------------ MODULE ThemePage ------------------------------
(***************************************************************************)
(* The page of topics (views/theme): adding and editing, approval, gated   *)
(* configuration, synchronisation to other environments, test messages and *)
(* deletion.  Every dialog reads the id it saves under from its form.      *)
(***************************************************************************)
EXTENDS PageParts

ThemeQueries == {"themeQuery"}
ThemeSaves == {"createThemeSave", "editThemeSave", "approvalTheme", "configureTheme", "syncTheme"}

OnThemes == On("themeList")

\* What the buttons of a row offer.
mayChangeTheme(row) == isAdmin \/ checkUser(Applicant[row])
mayConfigureTheme(row) == isAdmin /\ row \in Approved

themeSearch == OnThemes /\ Search("themeQuery")

\* Deleting masks the table until the rows are loaded again.
themeDelete(row) ==
  /\ OnThemes /\ RowsReachable /\ Room /\ mayChangeTheme(row)
  /\ calls' = With(calls, Request("deleteTheme", "table", {row}))
  /\ table' = [table EXCEPT !.loading = TRUE]
  /\ UNCHANGED <<dlg, kept, picked, envList>>

themeDeleted(c) ==
  /\ OnThemes /\ c.op = "deleteTheme"
  /\ Loading(calls \ {c}, "themeQuery")
  /\ UNCHANGED <<dlg, kept, picked, envList>>

\* The name and the environments of an approved topic cannot be edited.
themeLocked(rows) == rows # {} /\ rows \subseteq Approved

themeOperateOpen ==
  /\ OnThemes /\ Uncovered
  /\ OpenWithEnvList("dia", {}, FALSE)
  /\ UNCHANGED <<table, kept, picked, envList>>
themeOperateEdit(row) ==
  /\ OnThemes /\ RowsReachable /\ mayChangeTheme(row)
  /\ OpenWithEnvList("dia", {row}, themeLocked({row}))
  /\ UNCHANGED <<table, kept, picked, envList>>
themeApproval(row) ==
  /\ OnThemes /\ RowsReachable /\ isAdmin
  /\ OpenWithEnvList("approval", {row}, FALSE)
  /\ UNCHANGED <<table, kept, picked, envList>>
themeConfigure(row) ==
  /\ OnThemes /\ RowsReachable /\ mayConfigureTheme(row)
  /\ OpenWithEnvList("config", {row}, FALSE)
  /\ UNCHANGED <<table, kept, picked, envList>>
handleSynchronization(row) ==
  /\ OnThemes /\ RowsReachable /\ mayConfigureTheme(row)
  /\ OpenWithEnvList("sync", {row}, FALSE)
  /\ UNCHANGED <<table, kept, picked, envList>>
handleSendMsg ==
  /\ OnThemes /\ Uncovered
  /\ OpenWithEnvList("msg", {}, FALSE)
  /\ UNCHANGED <<table, kept, picked, envList>>

\* The list has come: every opening that waited for it shows its dialog, over others too.
themeEnvList(c) ==
  /\ OnThemes /\ c.op = "envList"
  /\ envList' = TRUE
  /\ calls' = calls \ {c}
  /\ dlg' = Opened(dlg, c.d, c.ids, c.d = "dia" /\ themeLocked(c.ids))
  /\ UNCHANGED <<table, kept, picked>>

\* The request of a dialog's save: the form's values under the id of currentFormValue.
themeSave(op, d) ==
  [Request(op, d, dlg[d].rows) EXCEPT !.ids = Named(op, dlg[d].rows, {})]

Filled(d) == dlg[d].visible /\ ~dlg[d].loading

\* A new or changed name is first checked by the server; the form is not masked meanwhile.
themeSaveData ==
  /\ OnThemes /\ Filled("dia") /\ Room
  /\ \/ /\ dlg["dia"].rows = {} \/ ~dlg["dia"].locked
        /\ calls' = With(calls, Request("validCode", "dia", {}))
        /\ UNCHANGED dlg
     \/ /\ dlg["dia"].rows # {}
        /\ Saving(calls, "dia", themeSave("editThemeSave", "dia"), TRUE)
  /\ UNCHANGED <<table, kept, picked, envList>>

\* The name is free: what is saved is what the dialog holds now, as its status says.
themeNameValid(c) ==
  /\ OnThemes /\ c.op = "validCode"
  /\ LET cs == calls \ {c}
         new == dlg["dia"].rows = {}
         op == IF new THEN "createThemeSave" ELSE "editThemeSave"
     IN  Saving(cs, "dia", themeSave(op, "dia"), TRUE)
  /\ UNCHANGED <<table, kept, picked, envList>>

saveApprovalTheme ==
  /\ OnThemes /\ Filled("approval") /\ Room
  /\ Saving(calls, "approval", themeSave("approvalTheme", "approval"), TRUE)
  /\ UNCHANGED <<table, kept, picked, envList>>
saveConfigTheme ==
  /\ OnThemes /\ Filled("config") /\ Room
  /\ Saving(calls, "config", themeSave("configureTheme", "config"), TRUE)
  /\ UNCHANGED <<table, kept, picked, envList>>
saveMsgData ==
  /\ OnThemes /\ Filled("msg") /\ Room
  /\ Saving(calls, "msg", themeSave("sendThemeMsg", "msg"), TRUE)
  /\ UNCHANGED <<table, kept, picked, envList>>

\* Without an environment chosen nothing is sent, and the dialog closes all the same.
saveSynchronizationData ==
  /\ OnThemes /\ Filled("sync")
  /\ \/ Room /\ Saving(calls, "sync", themeSave("syncTheme", "sync"), TRUE)
     \/ dlg' = Closed(dlg, "sync", calls) /\ UNCHANGED calls
  /\ UNCHANGED <<table, kept, picked, envList>>

\* A save has been answered: the mask is lifted, the dialog closes whatever it shows by
\* then, and the rows are loaded again.
themeSaved(c) ==
  /\ OnThemes /\ c.op \in ThemeSaves
  /\ Loading(calls \ {c}, "themeQuery")
  /\ dlg' = Closed(dlg, c.d, calls \ {c})
  /\ UNCHANGED <<kept, picked, envList>>
themeMsgSent(c) ==
  /\ OnThemes /\ c.op = "sendThemeMsg"
  /\ calls' = calls \ {c}
  /\ dlg' = Closed(dlg, "msg", calls \ {c})
  /\ UNCHANGED <<table, kept, picked, envList>>

ThemeUser ==
  \/ themeSearch \/ themeOperateOpen \/ handleSendMsg
  \/ \E row \in Rows : \/ themeDelete(row) \/ themeOperateEdit(row) \/ themeApproval(row)
                       \/ themeConfigure(row) \/ handleSynchronization(row)
  \/ themeSaveData \/ saveApprovalTheme \/ saveConfigTheme \/ saveSynchronizationData
  \/ saveMsgData
ThemeAnswer(c) ==
  themeDeleted(c) \/ themeEnvList(c) \/ themeNameValid(c) \/ themeSaved(c) \/ themeMsgSent(c)
=============================================================================
