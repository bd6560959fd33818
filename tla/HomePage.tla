------------------------------ MODULE HomePage ------------------------------
(***************************************************************************)
(* The portal's home page (views/common/welcome, views/env): the list of   *)
(* environments with their services, and the dialogs that add, rename and  *)
(* configure an environment.  Renaming and configuring share the page's    *)
(* envId.                                                                  *)
(***************************************************************************)
EXTENDS PageParts

HomeQueries == {"getListService"}
HomeSaves == {"addEnv", "renameEnv", "loadDatabase"}

OnHome == On("Welcome")

\* Adding an environment, and renaming one, open at once.
openAddEnv ==
  /\ OnHome /\ Uncovered /\ isAdmin
  /\ dlg' = Opened(dlg, "dia", {}, FALSE)
  /\ UNCHANGED <<table, calls, kept, picked, envList>>
openRenameEnv(env) ==
  /\ OnHome /\ RowsReachable /\ isAdmin
  /\ kept' = {env}
  /\ dlg' = Opened(dlg, "rename", {env}, FALSE)
  /\ UNCHANGED <<table, calls, picked, envList>>

\* The dialog of the data sources waits for the services to choose from; envId is set before.
openDatabaseEnv(env) ==
  /\ OnHome /\ RowsReachable /\ isAdmin /\ Room
  /\ kept' = {env}
  /\ calls' = With(calls, Request("listByEnvIdAndServiceType", "database", {env}))
  /\ UNCHANGED <<table, dlg, picked, envList>>
databaseServices(c) ==
  /\ OnHome /\ c.op = "listByEnvIdAndServiceType"
  /\ calls' = calls \ {c}
  /\ dlg' = Opened(dlg, "database", c.ids, FALSE)
  /\ UNCHANGED <<table, kept, picked, envList>>

\* The script that adds a host to an environment.
addHostTo(env) ==
  /\ OnHome /\ RowsReachable /\ isAdmin /\ Room
  /\ calls' = With(calls, Request("getInstallUrl", "msg", {env}))
  /\ UNCHANGED <<table, dlg, kept, picked, envList>>
installUrlOf(c) ==
  /\ OnHome /\ c.op = "getInstallUrl"
  /\ calls' = calls \ {c}
  /\ dlg' = Opened(dlg, "msg", {}, FALSE)
  /\ UNCHANGED <<table, kept, picked, envList>>

\* A service is deleted after a confirmation; nothing is masked.
handleDeleteService(env) ==
  /\ OnHome /\ RowsReachable /\ isAdmin /\ Room
  /\ calls' = With(calls, Request("deleteService", "table", {env}))
  /\ UNCHANGED <<table, dlg, kept, picked, envList>>
serviceDeleted(c) ==
  /\ OnHome /\ c.op = "deleteService"
  /\ Loading(calls \ {c}, "getListService")
  /\ UNCHANGED <<dlg, kept, picked, envList>>

\* Saves: no mask, under the page's envId.
envSave(op, d) == [Request(op, d, dlg[d].rows) EXCEPT !.ids = Named(op, kept, {})]
saveEnv(op, d) ==
  /\ OnHome /\ dlg[d].visible /\ Room
  /\ Saving(calls, d, envSave(op, d), FALSE)
  /\ UNCHANGED <<table, kept, picked, envList>>

\* The list is emptied before it is asked for again.
envSaved(c) ==
  /\ OnHome /\ c.op \in HomeSaves
  /\ Loading(calls \ {c}, "getListService")
  /\ dlg' = Closed(dlg, c.d, calls \ {c})
  /\ UNCHANGED <<kept, picked, envList>>

HomeUser ==
  \/ openAddEnv
  \/ \E env \in Rows : openRenameEnv(env) \/ openDatabaseEnv(env) \/ addHostTo(env)
                       \/ handleDeleteService(env)
  \/ saveEnv("addEnv", "dia") \/ saveEnv("renameEnv", "rename")
  \/ saveEnv("loadDatabase", "database")
HomeAnswer(c) == databaseServices(c) \/ installUrlOf(c) \/ serviceDeleted(c) \/ envSaved(c)
=============================================================================
