---------------------------- MODULE InstanceList ----------------------------
(***************************************************************************)
(* The list of a service's instances (service/instance-list): those that   *)
(* are selected are started, stopped, restarted or deleted, as far as the  *)
(* statuses shown allow it, after a confirmation.  The dialog of an        *)
(* operation holds a RunState.                                             *)
(***************************************************************************)
EXTENDS RunState

CONSTANT MaxLoads  \* bound: loads of the list under way

ASSUME ListAssumption == MaxLoads \in Nat \ {0}

VARIABLES
  rows,        \* rows[i]: the status shown of instance i
  selected,    \* instances selected
  masked,      \* the table is masked
  loads,       \* loads of the list under way
  deletions,   \* deletions under way
  confirming,  \* the operation whose confirmation is shown
  instanceIds, \* the instances it was asked for
  compared     \* restart: the comparison of the configurations has come

listVars == <<rows, selected, masked, loads, deletions, confirming, instanceIds, compared>>

Status == {"START", "STOP", "STARTING"}
Operations == {"start", "stop", "restart"}
Asking == {"none", "delete"} \cup Operations

ListInit ==
  /\ rows = [i \in Instances |-> "STOP"] /\ selected = {} /\ masked = FALSE
  /\ loads = 0 /\ deletions = 0 /\ confirming = "none" /\ instanceIds = {} /\ compared = FALSE

\* A dialog is shown; confirmations and dialogs cover the page.
OnList == place = "list"
InDialog == OnList /\ run.kind \in Operations
ListFree == OnList /\ ~InDialog /\ confirming = "none"

\* loadTabledata: asked for after an operation's dialog is closed and after a deletion.
\* The rows replace those shown; what they say is what the agents have reported by then.
listLoaded ==
  /\ OnList /\ loads > 0
  /\ rows' \in [Instances -> Status]
  /\ loads' = loads - 1 /\ masked' = FALSE
  /\ selected' = {}
  /\ UNCHANGED <<deletions, confirming, instanceIds, compared, runVars>>

\* Without a result the list and its mask stay as they are.
listFails ==
  /\ OnList /\ loads > 0 /\ loads' = loads - 1
  /\ UNCHANGED <<rows, selected, masked, deletions, confirming, instanceIds, compared, runVars>>

\* The mask covers the rows while the list is loaded, not the menu of operations.
selectInstances(is) ==
  /\ ListFree /\ ~masked /\ is # selected
  /\ selected' = is
  /\ UNCHANGED <<rows, masked, loads, deletions, confirming, instanceIds, compared, runVars>>

\* The statuses in which an operation is offered.
Allows(op) == CASE op = "start" -> {"STOP"} [] op = "stop" -> {"START", "STARTING"}
                [] op = "restart" -> {"START"} [] op = "delete" -> {"STOP", "STARTING"}

\* handleStart, handleStop, handleReStart, handleDelete up to the confirmation.
handleOperation(op) ==
  /\ ListFree
  /\ selected # {} /\ \A i \in selected : rows[i] \in Allows(op)
  /\ confirming' = op /\ instanceIds' = selected
  /\ UNCHANGED <<rows, selected, masked, loads, deletions, compared, runVars>>

\* The confirmation is cancelled; or confirmed, and the dialog is created: a start and a
\* stop send their request at once, a restart first asks for the changes it would deploy.
notConfirmed ==
  /\ OnList /\ confirming # "none" /\ confirming' = "none"
  /\ UNCHANGED <<rows, selected, masked, loads, deletions, instanceIds, compared, runVars>>
confirmed ==
  /\ OnList /\ confirming \in Operations
  /\ confirming' = "none" /\ compared' = FALSE
  /\ IF confirming = "restart" THEN Show(RunOf("restart", "new", {}))
                               ELSE Show(RunOf(confirming, "asked", instanceIds))
  /\ UNCHANGED <<rows, selected, masked, loads, deletions, instanceIds, place>>
deleteConfirmed ==
  /\ OnList /\ confirming = "delete" /\ confirming' = "none"
  /\ deletions < MaxLoads /\ deletions' = deletions + 1
  /\ UNCHANGED <<rows, selected, masked, loads, instanceIds, compared, runVars>>
instancesDeleted ==
  /\ OnList /\ deletions > 0 /\ loads < MaxLoads
  /\ deletions' = deletions - 1 /\ loads' = loads + 1 /\ masked' = TRUE
  /\ UNCHANGED <<rows, selected, confirming, instanceIds, compared, runVars>>
deletionFails ==
  /\ OnList /\ deletions > 0 /\ deletions' = deletions - 1
  /\ UNCHANGED <<rows, selected, masked, loads, confirming, instanceIds, compared, runVars>>

loadServiceProperty ==
  /\ InDialog /\ run.kind = "restart" /\ ~compared
  /\ compared' = TRUE
  /\ UNCHANGED <<rows, selected, masked, loads, deletions, confirming, instanceIds, runVars>>

\* The button of the dialog sends the instances of the comparison: none before it has come,
\* which the server refuses.  A restart is sent once; the component of the run is created.
confirmRestart ==
  /\ InDialog /\ run.kind = "restart" /\ run.phase = "new"
  /\ Show(RunOf("restart", "asked", IF compared THEN instanceIds ELSE {}))
  /\ UNCHANGED <<listVars, place>>

\* Closing destroys the dialog with its run and loads the list again.
closeOperation ==
  /\ InDialog /\ loads < MaxLoads
  /\ Show(NoRun)
  /\ loads' = loads + 1 /\ masked' = TRUE
  /\ UNCHANGED <<rows, selected, deletions, confirming, instanceIds, compared, place>>

ListStep ==
  \/ listLoaded \/ listFails
  \/ \E is \in SUBSET Instances : selectInstances(is)
  \/ \E op \in Asking \ {"none"} : handleOperation(op)
  \/ notConfirmed \/ confirmed \/ deleteConfirmed \/ instancesDeleted \/ deletionFails
  \/ loadServiceProperty \/ confirmRestart \/ closeOperation

ListTypeOK ==
  /\ rows \in [Instances -> Status]
  /\ selected \subseteq Instances /\ masked \in BOOLEAN /\ instanceIds \subseteq Instances
  /\ loads \in 0 .. MaxLoads /\ deletions \in 0 .. MaxLoads
  /\ confirming \in Asking /\ compared \in BOOLEAN
=============================================================================
