---------------------------- MODULE ServiceWizard ----------------------------
(***************************************************************************)
(* The two wizards that add a service (service/add) and instances to a     *)
(* service (service/addInstance): tabs for the kind, the name, the hosts   *)
(* and the configuration, and the one that adds and starts, which holds a  *)
(* RunState.                                                               *)
(***************************************************************************)
EXTENDS RunState

CONSTANT MaxChecks  \* bound: checks of the name under way

ASSUME WizardAssumption == MaxChecks \in Nat \ {0}

VARIABLES
  activeTabName,
  nextDisable,
  created,      \* the tabs whose component exists (addNameFlg, ...)
  checks,       \* checks of the name under way
  instanceList, \* the instances chosen
  adding,       \* addService or addServiceInstance is under way
  added,        \* how often it has been sent (history)
  late          \* a check of the name was answered on another tab (history)

wizardVars ==
  <<activeTabName, nextDisable, created, checks, instanceList, adding, added, late>>

Tabs == {"option", "name", "instance", "service", "run"}
Wizards == {"addService", "addInstances"}

WizardInit ==
  /\ activeTabName = "option" /\ nextDisable = TRUE
  /\ created = {} /\ checks = 0 /\ instanceList = {} /\ adding = FALSE
  /\ added = 0 /\ late = FALSE

InWizard == place \in Wizards
AtTab(tab) == InWizard /\ activeTabName = tab

\* Choosing a kind of service, again if need be: all the tabs after it start anew.
changeNextDisable ==
  /\ AtTab("option")
  /\ nextDisable' = FALSE /\ created' = {} /\ adding' = FALSE
  /\ Show(NoRun)
  /\ UNCHANGED <<activeTabName, checks, instanceList, added, late, place>>

\* The next tab, which is created the first time.
To(tab) == activeTabName' = tab /\ created' = created \cup {tab}
NextAt(tab) == AtTab(tab) /\ ~nextDisable

nextFromOption ==
  /\ NextAt("option") /\ To("name")
  /\ UNCHANGED <<nextDisable, checks, instanceList, adding, added, late, runVars>>

\* The name is checked by the server; the button is not disabled meanwhile.
nextFromName ==
  /\ NextAt("name") /\ checks < MaxChecks
  /\ checks' = checks + 1
  /\ UNCHANGED <<activeTabName, nextDisable, created, instanceList, adding, added, late,
                 runVars>>

\* The name is free: the hosts come next, whichever tab is shown by then, with the name
\* the form holds by then.  Without the form, or with a name taken, nothing happens.
nameChecked ==
  /\ InWizard /\ checks > 0 /\ checks' = checks - 1
  /\ IF "name" \in created THEN To("instance") /\ late' = (late \/ activeTabName # "name")
                           ELSE UNCHANGED <<activeTabName, created, late>>
  /\ UNCHANGED <<nextDisable, instanceList, adding, added, runVars>>
nameRefused ==
  /\ InWizard /\ checks > 0 /\ checks' = checks - 1
  /\ UNCHANGED <<activeTabName, nextDisable, created, instanceList, adding, added, late,
                 runVars>>

nextFromInstance(is) ==
  /\ NextAt("instance") /\ is # {} /\ To("service")
  /\ instanceList' = is
  /\ UNCHANGED <<nextDisable, checks, adding, added, late, runVars>>

\* Mutant: the button that leads on is not disabled while the service is added and started.
nextFromService_Enabled ==
  /\ NextAt("service") /\ To("run")
  /\ IF "run" \in created THEN UNCHANGED <<adding, added, run, polls, proc>>
     ELSE /\ adding' = TRUE /\ added' = IF added < 2 THEN added + 1 ELSE 2
          /\ Show(RunOf("firstRun", "new", instanceList))
  /\ UNCHANGED <<nextDisable, checks, instanceList, late, place>>

\* The configuration is valid: the last tab is created and adds the service.
nextFromService ==
  /\ NextAt("service") /\ To("run")
  /\ nextDisable' = TRUE
  /\ IF "run" \in created THEN UNCHANGED <<adding, added, run, polls, proc>>
     ELSE /\ adding' = TRUE /\ added' = IF added < 2 THEN added + 1 ELSE 2
          /\ Show(RunOf("firstRun", "new", instanceList))
  /\ UNCHANGED <<checks, instanceList, late, place>>

\* saveService: what was added is started; without a result the run has failed.
serviceAdded ==
  /\ InWizard /\ adding /\ adding' = FALSE
  /\ run' \in {[run EXCEPT !.phase = "asked"],
               [run EXCEPT !.phase = "known", !.runStatus = "failed"],
               [run EXCEPT !.phase = "known", !.lost = TRUE]}
  /\ UNCHANGED <<activeTabName, nextDisable, created, checks, instanceList, added, late,
                 place, proc, polls>>

\* Mutant: the tab that runs can be left like the others.
Back_Always == [name |-> "option", instance |-> "name", service |-> "instance", run |-> "service"]

\* The tab before; the button is disabled on the tab that runs, and the first tab leaves
\* the page.
Back == [name |-> "option", instance |-> "name", service |-> "instance"]
backService ==
  /\ InWizard /\ activeTabName \in DOMAIN Back
  /\ place = "addInstances" => activeTabName # "instance"
  /\ activeTabName' = Back[activeTabName]
  /\ UNCHANGED <<nextDisable, created, checks, instanceList, adding, added, late, runVars>>

\* run-state emits runComplete at the end of every poll that leaves nothing to poll.
runComplete(p) ==
  nextDisable' = IF polls'[p].at = "free" /\ run'.processIds = {} THEN FALSE ELSE nextDisable

WizardStep ==
  \/ changeNextDisable \/ nextFromOption \/ nextFromName \/ nameChecked \/ nameRefused
  \/ \E is \in SUBSET Instances : nextFromInstance(is)
  \/ nextFromService \/ serviceAdded \/ backService

WizardTypeOK ==
  /\ activeTabName \in Tabs /\ nextDisable \in BOOLEAN
  /\ created \subseteq Tabs /\ checks \in 0 .. MaxChecks
  /\ instanceList \subseteq Instances /\ adding \in BOOLEAN
  /\ added \in 0 .. 2 /\ late \in BOOLEAN

-----------------------------------------------------------------------------
(* Properties *)

\* The wizard lets the user finish only when everything it has started has come to its end:
\* no detour over the tabs, no late answer and no poll of an earlier run enables the button
\* on the last tab (add/index.vue:114, 153).
FinishesAfterCompletion ==
  AtTab("run") /\ ~nextDisable =>
    run.runStatus = "complete" /\ \A i \in run.named : proc[i] # "going"

\* Going back and forth adds a service once, unless the answer to a check of the name moved
\* the tabs under the user's hands (add/index.vue:44, 127-135).
AddsOnce == added > 1 => late
=============================================================================
