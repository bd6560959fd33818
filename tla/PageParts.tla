------------------------------ MODULE PageParts ------------------------------
(***************************************************************************)
(* What the portal's list pages are made of: a table that loads its rows,  *)
(* dialogs with a form, requests under way, and the list of environments   *)
(* in the store.  A page is mounted when its route is shown and forgotten  *)
(* when it is left.  Handlers run up to their await; the answer runs the   *)
(* rest, on whatever the page holds by then.                               *)
(***************************************************************************)
EXTENDS Visit, PortalApi

CONSTANTS
  Rows,       \* rows of the table
  Approved,   \* rows whose status is approved (1)
  Applicant,  \* Applicant[r]: the user that applied for row r
  MaxCalls    \* bound: requests of the page under way

ASSUME PagesAssumption ==
  /\ Approved \subseteq Rows
  /\ Applicant \in [Rows -> Users]
  /\ MaxCalls \in Nat \ {0}

VARIABLES
  table,    \* the page's table
  dlg,      \* dlg[d]: dialog d of the page
  calls,    \* requests under way
  envList,  \* the store holds the list of environments
  kept,     \* ids the page itself keeps between handlers (id, hostIds, selections)
  picked    \* rows selected in the table

pageVars == <<table, dlg, calls, kept, picked>>

Dialogs == {"dia", "approval", "config", "sync", "msg", "hostEnabled", "hostDisabled", "rename",
            "database"}
Dialog == [visible : BOOLEAN, loading : BOOLEAN,
           rows : SUBSET Rows,     \* currentFormValue; empty for a new one
           locked : BOOLEAN,       \* it edits a row whose name stays as it is
           sent : 0 .. 2]          \* masked saves sent since it was opened (history)
Shut == [visible |-> FALSE, loading |-> FALSE, rows |-> {}, locked |-> FALSE, sent |-> 0]

\* failed: the last load or delete was refused or brought nothing (history).
Table == [loading : BOOLEAN, failed : BOOLEAN]

\* A request: its name in api/, who waits for it, the ids it names, the rows whose values
\* it carries, the kinds of values of a search form it carries, a number for equal ones.
Request(op, d, ids) ==
  [op |-> op, d |-> d, ids |-> ids, of |-> ids, carries |-> {}, n |-> 1]
With(cs, c) ==
  cs \cup {[c EXCEPT !.n = CHOOSE n \in 1 .. MaxCalls + 1 :
                             /\ [c EXCEPT !.n = n] \notin cs
                             /\ \A m \in 1 .. n - 1 : [c EXCEPT !.n = m] \in cs]}
Room == Cardinality(calls) < MaxCalls

On(route) == page = route
isAdmin == checkPerm(GrantedTo[(user \in Admins)], {"admin"})
checkUser(name) == user = name

-----------------------------------------------------------------------------
(* Dialogs *)

\* An open dialog covers the page, and a table's mask covers its rows.
Uncovered == \A d \in Dialogs : ~dlg[d].visible
RowsReachable == Uncovered /\ ~table.loading

\* handleDia: the dialog shows the row, and its form is set to the row's values.
Opened(ds, d, rows, locked) ==
  [ds EXCEPT ![d] = [Shut EXCEPT !.visible = TRUE, !.rows = rows, !.locked = locked]]

\* A dialog that is closed keeps its row for a validation that is still under way.
Checks == {"validCode", "uniqueCheck"}
Closed(ds, d, cs) ==
  [ds EXCEPT ![d] = IF \E c \in cs : c.op \in Checks /\ c.d = d
                    THEN [@ EXCEPT !.visible = FALSE, !.loading = FALSE] ELSE Shut]

\* The cross and the cancel button; the cross is not under the dialog's mask.
closeHandle(d) ==
  /\ dlg[d].visible
  /\ dlg' = Closed(dlg, d, calls)
  /\ UNCHANGED <<table, calls, kept, picked, envList>>

\* Opening waits for the list of environments once: the store keeps it from then on.
OpenWithEnvList(d, rows, locked) ==
  \/ envList /\ dlg' = Opened(dlg, d, rows, locked) /\ UNCHANGED calls
  \/ ~envList /\ Room /\ calls' = With(calls, Request("envList", d, rows)) /\ UNCHANGED dlg

\* Mutant: a dialog does not cover its form while a save is under way.
Saving_Unmasked(cs, d, c, masks) ==
  /\ calls' = With(cs, c)
  /\ dlg' = IF masks THEN [dlg EXCEPT ![d].sent = IF @ < 2 THEN @ + 1 ELSE 2] ELSE dlg

\* A save is sent; a dialog with a mask covers its form until it is answered.
Saving(cs, d, c, masks) ==
  /\ calls' = With(cs, c)
  /\ dlg' = IF masks THEN [dlg EXCEPT ![d].loading = TRUE, ![d].sent = IF @ < 2 THEN @ + 1 ELSE 2]
            ELSE dlg

-----------------------------------------------------------------------------
(* Tables *)

\* Mutant: nothing reloads the table.
Loading_Never(cs, query) == calls' = cs /\ table' = [table EXCEPT !.loading = TRUE]

\* loadTabledata up to its await: the table is masked and asks for a page of rows.
Loading(cs, query) ==
  /\ calls' = With(cs, Request(query, "table", {}))
  /\ table' = [table EXCEPT !.loading = TRUE]

\* A search, another status or another page: the controls are not under the mask.
Search(query) ==
  /\ Uncovered /\ Room
  /\ Loading(calls, query)
  /\ UNCHANGED <<dlg, kept, picked, envList>>

\* The rows replace those shown, however old the question is; nothing else lifts the mask.
RowsLoaded(c) ==
  /\ calls' = calls \ {c}
  /\ table' = [loading |-> FALSE, failed |-> FALSE]
  /\ picked' = {}
  /\ UNCHANGED <<dlg, kept, envList>>

\* Selecting rows with their check boxes.
Select(rows) ==
  /\ RowsReachable /\ rows # picked
  /\ picked' = rows
  /\ UNCHANGED <<table, dlg, calls, kept, envList>>

\* A page that has just been mounted shows nothing and loads its rows at once, if it has any.
Fresh(query) ==
  /\ table' = [loading |-> query \ {"listEnvironment"} # {}, failed |-> FALSE]
  /\ dlg' = [d \in Dialogs |-> Shut]
  /\ calls' = {Request(q, "table", {}) : q \in query}
  /\ kept' = {} /\ picked' = {}

\* Whatever fails, or is answered without a result, is forgotten with its continuation: masks
\* stay as they are.
CallFails(c, masking) ==
  /\ calls' = calls \ {c}
  /\ table' = IF c.op \in masking THEN [table EXCEPT !.failed = TRUE] ELSE table
  /\ UNCHANGED <<dlg, kept, picked, envList>>

PartsTypeOK ==
  /\ table \in Table
  /\ dlg \in [Dialogs -> Dialog]
  /\ Cardinality(calls) <= MaxCalls
  /\ envList \in BOOLEAN
  /\ kept \subseteq Rows /\ picked \subseteq Rows
=============================================================================
