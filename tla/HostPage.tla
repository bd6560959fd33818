------------------------------- MODULE HostPage -------------------------------
(***************************************************************************)
(* The page of an environment's hosts (views/host): enabling and disabling *)
(* the hosts selected, after a confirmation that lists them, and the       *)
(* script that adds a host.                                                *)
(***************************************************************************)
EXTENDS PageParts

HostQueries == {"hostListQuery"}
HostToggles == {"hostEnabled", "hostDisabled"}

OnHosts == On("hostList")

\* Every letter of the search and every page asks again.
hostSearch == OnHosts /\ Search("hostListQuery")
hostSelect(rows) == OnHosts /\ Select(rows)

\* hostIds takes in the hosts selected and is never emptied; the confirmation lists the
\* hosts selected now.
handleToggle(op) ==
  /\ OnHosts /\ Uncovered /\ isAdmin /\ picked # {}
  /\ kept' = kept \cup picked
  /\ dlg' = Opened(dlg, op, picked, FALSE)
  /\ UNCHANGED <<table, calls, picked, envList>>

\* Confirmed: all of hostIds is sent.
hostConfirmed(op) ==
  /\ OnHosts /\ dlg[op].visible /\ Room
  /\ calls' = With(calls, [Request(op, op, dlg[op].rows) EXCEPT !.ids = kept])
  /\ dlg' = Closed(dlg, op, calls)
  /\ UNCHANGED <<table, kept, picked, envList>>
hostToggled(c) ==
  /\ OnHosts /\ c.op \in HostToggles
  /\ Loading(calls \ {c}, "hostListQuery")
  /\ UNCHANGED <<dlg, kept, picked, envList>>

\* A list that does not come, or without rows, lifts the mask and leaves the old rows.
hostListFails(c) ==
  /\ OnHosts /\ c.op = "hostListQuery"
  /\ calls' = calls \ {c}
  /\ table' = [loading |-> FALSE, failed |-> TRUE]
  /\ UNCHANGED <<dlg, kept, picked, envList>>

\* The dialog with the script opens when its address has come, over another one if need be.
addHost ==
  /\ OnHosts /\ Uncovered /\ isAdmin /\ Room
  /\ calls' = With(calls, Request("getInstallUrl", "msg", {}))
  /\ UNCHANGED <<table, dlg, kept, picked, envList>>
installUrl(c) ==
  /\ OnHosts /\ c.op = "getInstallUrl"
  /\ calls' = calls \ {c}
  /\ dlg' = Opened(dlg, "msg", {}, FALSE)
  /\ UNCHANGED <<table, kept, picked, envList>>

HostUser ==
  \/ hostSearch \/ addHost
  \/ \E rows \in SUBSET Rows : hostSelect(rows)
  \/ \E op \in HostToggles : handleToggle(op) \/ hostConfirmed(op)
HostAnswer(c) == hostToggled(c) \/ installUrl(c) \/ hostListFails(c)
=============================================================================
