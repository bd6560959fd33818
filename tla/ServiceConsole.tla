--------------------------- MODULE ServiceConsole ---------------------------
(***************************************************************************)
(* The pages that run service instances: their list, the wizard that adds  *)
(* a service and the one that adds instances, each with the run it shows.  *)
(***************************************************************************)
EXTENDS InstanceList, ServiceWizard

consoleVars == <<runVars, listVars, wizardVars>>

ConsoleInit == RunInit /\ ListInit /\ WizardInit

\* A page is mounted: the list asks for its rows, the wizards start on their first tab.
Mounted(p) ==
  /\ place' = p /\ Show(NoRun)
  /\ rows' = [i \in Instances |-> "STOP"] /\ selected' = {}
  /\ masked' = (p = "list") /\ loads' = (IF p = "list" THEN 1 ELSE 0) /\ deletions' = 0
  /\ confirming' = "none" /\ instanceIds' = {} /\ compared' = FALSE
  /\ activeTabName' = (IF p = "addInstances" THEN "instance" ELSE "option")
  /\ nextDisable' = (p # "addInstances")
  /\ created' = (IF p = "addInstances" THEN {"instance"} ELSE {})
  /\ checks' = 0 /\ instanceList' = {} /\ adding' = FALSE /\ added' = 0 /\ late' = FALSE

Polling(p) ==
  \/ /\ Polled(p) \/ tailProcessLogs(p)
     /\ runComplete(p)
     /\ UNCHANGED <<activeTabName, created, checks, instanceList, adding, added, late, listVars>>
  \/ pollFails(p) /\ UNCHANGED <<listVars, wizardVars>>

ConsoleStep ==
  \/ RunStep /\ UNCHANGED <<listVars, wizardVars>>
  \/ \E p \in Slots : Polling(p)
  \/ ListStep /\ UNCHANGED wizardVars
  \/ WizardStep /\ UNCHANGED listVars

ConsoleNext == ConsoleStep \/ \E p \in Places : Mounted(p)
ConsoleSpec == ConsoleInit /\ [][ConsoleNext]_consoleVars

ConsoleTypeOK == RunTypeOK /\ ListTypeOK /\ WizardTypeOK
=============================================================================
