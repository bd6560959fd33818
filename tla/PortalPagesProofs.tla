------------------------- MODULE PortalPagesProofs -------------------------
(***************************************************************************)
(* Proofs about all pages of a tab, for any users, rows, instances and     *)
(* number of requests under way: the runs of services, what the dialogs    *)
(* save, and types.                                                        *)
(***************************************************************************)
EXTENDS PortalTableProofs, ServiceConsoleProofs, FiniteSetTheorems

-----------------------------------------------------------------------------
(* The pages of services among the others *)

LEMMA PlaceTypes == \A route : PlaceOf(route) \in Places
BY DEF PlaceOf, Places

\* Whatever page is shown, the state of the pages that run services changes as ServiceConsole
\* says: they are mounted with every turn of the visit and work alone otherwise.
THEOREM PagesImplementConsole == Spec => ConsoleSpec
<1>1. Init => ConsoleInit
  BY DEF Init
<1>2. [Next]_vars => [ConsoleNext]_consoleVars
  <2> SUFFICES ASSUME [Next]_vars PROVE [ConsoleNext]_consoleVars
    OBVIOUS
  <2>1. CASE UNCHANGED vars
    BY <2>1 DEF vars
  <2>2. CASE Turn
    BY <2>2, PlaceTypes DEF Turn, ConsoleNext
  <2>3. CASE Operate
    BY <2>3 DEF Operate
  <2>4. CASE ServicePages
    BY <2>4 DEF ServicePages, ConsoleNext
  <2>5. CASE \E c \in calls : Answer(c)
    BY <2>5 DEF Answer
  <2> QED BY <2>1, <2>2, <2>3, <2>4, <2>5 DEF Next
<1> QED BY <1>1, <1>2, PTL DEF Spec, ConsoleSpec

\* So a visit of all pages in any order shows of a run what ServiceConsole promises
\* (run-state.vue, add/index.vue, addInstance/index.vue).
THEOREM PagesShowRuns ==
  Spec => [](/\ CompleteMeansFinished /\ CompleteShowsResults /\ RunsOnOnlyAfterFailure
             /\ FinishesAfterCompletion /\ AddsOnce)
BY PagesImplementConsole, Completion, Results, Endings, Finishing, Adding, PTL

-----------------------------------------------------------------------------
(* What the dialogs hold and the requests name *)

Transfers == {"clusterTransfer", "themeTransfer", "consumerTransfer"}

\* Dialog d of page p with the ids k the page keeps.  On the page of topics a mask covers it
\* from the first save on; on the page of alerts it holds nothing but the row whose values
\* fill the form; on the pages that migrate it shows the rows kept.
Fits(p, d, x, k) ==
  /\ p = "themeList" /\ d # "dia" => x.sent <= 1 /\ (x.visible /\ ~x.loading => x.sent = 0)
  /\ p = "noticeList" /\ d = "dia" => x.rows \subseteq k
  /\ p \in Transfers /\ d = "sync" /\ x.visible => x.rows = k
DialogInv(p, ds, k) ==
  ds \in [Dialogs -> Dialog] /\ \A d \in Dialogs : Fits(p, d, ds[d], k)

\* A request that is sent for the rows its dialog shows.
Bound(c) ==
  /\ DOMAIN c = {"op", "d", "ids", "of", "carries", "n"}
  /\ c.ids \subseteq Rows /\ c.of \subseteq Rows
  /\ c.op \in BoundToDialog => c.ids = c.of
  /\ c.op = "editAlertSave" => c.ids \subseteq c.of
CallsInv(cs) ==
  IsFiniteSet(cs) /\ Cardinality(cs) <= MaxCalls /\ \A c \in cs : Bound(c)

\* All that the pages but their forms and tables hold.
Held(p, ds, cs, k, sel, env) ==
  /\ DialogInv(p, ds, k) /\ CallsInv(cs)
  /\ k \subseteq Rows /\ sel \subseteq Rows /\ env \in BOOLEAN
DialogsInv == Held(page, dlg, calls, kept, picked, envList)

-----------------------------------------------------------------------------
(* Requests *)

\* A request added, to all there are while there is room or in the place of one answered.
LEMMA WithBound ==
  ASSUME NEW cs, CallsInv(cs), NEW c, Bound(c), Cardinality(cs) < MaxCalls
  PROVE  CallsInv(With(cs, c))
<1> DEFINE k == CHOOSE n \in 1 .. MaxCalls + 1 : /\ [c EXCEPT !.n = n] \notin cs
                                                 /\ \A m \in 1 .. n - 1 : [c EXCEPT !.n = m] \in cs
           x == [c EXCEPT !.n = k]
<1>1. With(cs, c) = cs \cup {x}
  BY DEF With
<1>2. /\ x.op = c.op /\ x.ids = c.ids /\ x.of = c.of
      /\ DOMAIN x = {"op", "d", "ids", "of", "carries", "n"}
  <2> HIDE DEF k
  <2> QED BY DEF Bound
<1> HIDE DEF x
<1>3. Bound(x)
  BY <1>2 DEF Bound
<1>4. IsFiniteSet(cs) /\ Cardinality(cs) \in Nat /\ MaxCalls \in Nat
  BY FS_CardinalityType, PagesAssumption DEF CallsInv
<1>5. /\ IsFiniteSet(cs \cup {x})
      /\ Cardinality(cs \cup {x}) = IF x \in cs THEN Cardinality(cs) ELSE Cardinality(cs) + 1
  BY <1>4, FS_AddElement
<1>6. Cardinality(cs \cup {x}) <= MaxCalls
  BY <1>4, <1>5
<1> QED BY <1>1, <1>3, <1>5, <1>6 DEF CallsInv

LEMMA FewerBound ==
  ASSUME NEW cs, CallsInv(cs), NEW fewer \in SUBSET cs
  PROVE  CallsInv(fewer)
<1>1. IsFiniteSet(fewer) /\ Cardinality(fewer) <= Cardinality(cs)
  BY FS_Subset DEF CallsInv
<1>2. Cardinality(fewer) \in Nat /\ Cardinality(cs) \in Nat /\ MaxCalls \in Nat
  BY <1>1, FS_CardinalityType, PagesAssumption DEF CallsInv
<1> QED BY <1>1, <1>2 DEF CallsInv

LEMMA AnsweredRoom ==
  ASSUME NEW cs, CallsInv(cs), NEW c \in cs
  PROVE  CallsInv(cs \ {c}) /\ Cardinality(cs \ {c}) < MaxCalls
<1>1. CallsInv(cs \ {c})
  BY FewerBound
<1>2. Cardinality(cs \ {c}) = Cardinality(cs) - 1
  BY FS_RemoveElement DEF CallsInv
<1>3. Cardinality(cs) \in Nat /\ MaxCalls \in Nat /\ Cardinality(cs) <= MaxCalls
  BY FS_CardinalityType, PagesAssumption DEF CallsInv
<1> QED BY <1>1, <1>2, <1>3

LEMMA RequestBound ==
  ASSUME NEW op, NEW d, NEW ids \in SUBSET Rows
  PROVE  Bound(Request(op, d, ids))
BY DEF Request, Bound

-----------------------------------------------------------------------------
(* Dialogs *)

\* A page where Fits asks nothing of the ids the page keeps.
Loose(p) == p # "noticeList" /\ p \notin Transfers

LEMMA OpenedTypes ==
  ASSUME NEW ds \in [Dialogs -> Dialog], NEW d, NEW ids \in SUBSET Rows, NEW locked \in BOOLEAN
  PROVE  /\ Opened(ds, d, ids, locked) \in [Dialogs -> Dialog]
         /\ \A e \in Dialogs \ {d} : Opened(ds, d, ids, locked)[e] = ds[e]
         /\ d \in Dialogs => /\ Opened(ds, d, ids, locked)[d].visible
                             /\ Opened(ds, d, ids, locked)[d].rows = ids
                             /\ Opened(ds, d, ids, locked)[d].sent = 0
<1> DEFINE x == [Shut EXCEPT !.visible = TRUE, !.rows = ids, !.locked = locked]
<1>1. x \in Dialog /\ x.visible /\ x.rows = ids /\ x.sent = 0
  <2>1. Shut \in Dialog /\ Shut.sent = 0
    BY DEF Shut, Dialog
  <2> HIDE DEF Shut
  <2> QED BY <2>1 DEF Dialog
<1>2. Opened(ds, d, ids, locked) = [ds EXCEPT ![d] = x]
  BY DEF Opened
<1> HIDE DEF x
<1>3. [ds EXCEPT ![d] = x] \in [Dialogs -> Dialog] /\ \A e \in Dialogs \ {d} : [ds EXCEPT ![d] = x][e] = ds[e]
  BY <1>1
<1>4. d \in Dialogs => [ds EXCEPT ![d] = x][d] = x
  OBVIOUS
<1> QED BY <1>1, <1>2, <1>3, <1>4

\* Where the ids kept do not matter, and where they are those the dialog shows.
LEMMA OpenedFits ==
  ASSUME NEW p, NEW ds, NEW k, DialogInv(p, ds, k), NEW d, NEW ids \in SUBSET Rows,
         NEW locked \in BOOLEAN, NEW newk,
         Loose(p) \/ (p = "noticeList" /\ d = "dia" /\ ids \subseteq newk)
           \/ (p \in Transfers /\ d = "sync" /\ ids = newk)
  PROVE  DialogInv(p, Opened(ds, d, ids, locked), newk)
<1> DEFINE new == Opened(ds, d, ids, locked)
<1>1. /\ new \in [Dialogs -> Dialog] /\ \A e \in Dialogs \ {d} : new[e] = ds[e]
      /\ d \in Dialogs => new[d].visible /\ new[d].rows = ids /\ new[d].sent = 0
  BY OpenedTypes DEF DialogInv
<1> HIDE DEF new
<1>2. ASSUME NEW e \in Dialogs PROVE Fits(p, e, new[e], newk)
  <2>1. CASE e = d
    BY <1>1, <2>1 DEF Fits, Loose, Transfers
  <2>2. CASE e # d
    BY <1>1, <2>2 DEF DialogInv, Fits, Loose, Transfers
  <2> QED BY <2>1, <2>2
<1>3. DialogInv(p, new, newk)
  BY <1>1, <1>2 DEF DialogInv
<1> QED BY <1>3 DEF new

LEMMA ClosedFits ==
  ASSUME NEW p, NEW ds, NEW k, DialogInv(p, ds, k), NEW d, NEW cs
  PROVE  DialogInv(p, Closed(ds, d, cs), k)
<1> DEFINE hidden == [ds[d] EXCEPT !.visible = FALSE, !.loading = FALSE]
           x == IF \E c \in cs : c.op \in Checks /\ c.d = d THEN hidden ELSE Shut
           new == [ds EXCEPT ![d] = x]
<1>1. Closed(ds, d, cs) = new
  BY DEF Closed, DialogInv
<1>2. Shut \in Dialog /\ ~Shut.visible /\ Shut.sent = 0 /\ Shut.rows = {}
  BY DEF Shut, Dialog
<1>3. ASSUME d \in Dialogs
      PROVE  hidden \in Dialog /\ ~hidden.visible /\ hidden.sent = ds[d].sent /\ hidden.rows = ds[d].rows
  BY <1>3 DEF DialogInv, Dialog
<1> HIDE DEF hidden
<1>4. ASSUME d \in Dialogs
      PROVE  x \in Dialog /\ ~x.visible /\ x.sent \in {0, ds[d].sent} /\ x.rows \in {{}, ds[d].rows}
  BY <1>2, <1>3, <1>4
<1> HIDE DEF x
<1>5. new \in [Dialogs -> Dialog]
  BY <1>4 DEF DialogInv
<1>6. ASSUME NEW e \in Dialogs PROVE Fits(p, e, new[e], k)
  <2>1. CASE e = d
    BY <1>4, <2>1 DEF DialogInv, Fits
  <2>2. CASE e # d
    BY <2>2 DEF DialogInv, Fits
  <2> QED BY <2>1, <2>2
<1> QED BY <1>1, <1>5, <1>6 DEF DialogInv

\* A masked save is counted; the button it is sent with is under no mask, but on the form of a
\* new topic.
LEMMA MaskedFits ==
  ASSUME NEW p, NEW ds, NEW k, DialogInv(p, ds, k), NEW d \in Dialogs,
         d = "dia" \/ (ds[d].visible /\ ~ds[d].loading), p = "themeList"
  PROVE  DialogInv(p, [ds EXCEPT ![d].loading = TRUE, ![d].sent = IF @ < 2 THEN @ + 1 ELSE 2], k)
<1> DEFINE more == IF ds[d].sent < 2 THEN ds[d].sent + 1 ELSE 2
           x == [ds[d] EXCEPT !.loading = TRUE, !.sent = more]
           new == [ds EXCEPT ![d] = x]
<1>1. ds[d] \in Dialog /\ ds[d].sent \in 0 .. 2
  BY DEF DialogInv, Dialog
<1>2. /\ x \in Dialog /\ x.visible = ds[d].visible /\ x.loading
      /\ x.sent = IF ds[d].sent < 2 THEN ds[d].sent + 1 ELSE 2
  <2>1. more \in 0 .. 2
    BY <1>1
  <2> HIDE DEF more
  <2>2. x \in Dialog /\ x.visible = ds[d].visible /\ x.loading /\ x.sent = more
    BY <1>1, <2>1 DEF Dialog
  <2> QED BY <2>2 DEF more
<1>3. [ds EXCEPT ![d].loading = TRUE, ![d].sent = IF @ < 2 THEN @ + 1 ELSE 2] = new
  BY DEF DialogInv
<1> HIDE DEF x
<1>4. new \in [Dialogs -> Dialog]
  BY <1>2 DEF DialogInv
<1>5. ASSUME NEW e \in Dialogs PROVE Fits(p, e, new[e], k)
  <2>1. CASE e = d
    BY <1>2, <2>1 DEF DialogInv, Fits, Transfers
  <2>2. CASE e # d
    BY <2>2 DEF DialogInv, Fits
  <2> QED BY <2>1, <2>2
<1> QED BY <1>3, <1>4, <1>5 DEF DialogInv

-----------------------------------------------------------------------------
(* What pages are made of *)

\* What a handler of the page shown leaves behind.
Sound == Held(page, dlg', calls', kept', picked', envList')

LEMMA LooseKept ==
  ASSUME NEW p, Loose(p), NEW ds, NEW k, NEW newk, DialogInv(p, ds, k)
  PROVE  DialogInv(p, ds, newk)
BY DEF DialogInv, Fits, Loose

\* Handlers that only send, and answers that only ask for the rows again or for nothing.
LEMMA SendingSound ==
  ASSUME DialogsInv
  PROVE  /\ \A c : Room /\ Bound(c) => CallsInv(With(calls, c))
         /\ \A c \in calls : /\ CallsInv(calls \ {c})
                             /\ \A x : Bound(x) => CallsInv(With(calls \ {c}, x))
         /\ \A c \in calls : \A query : Loading(calls \ {c}, query) => CallsInv(calls')
<1> CallsInv(calls)
  BY DEF DialogsInv, Held
<1>1. ASSUME NEW c, Room, Bound(c) PROVE CallsInv(With(calls, c))
  BY <1>1, WithBound DEF Room
<1>2. ASSUME NEW c \in calls PROVE CallsInv(calls \ {c}) /\ Cardinality(calls \ {c}) < MaxCalls
  BY <1>2, AnsweredRoom
<1>3. ASSUME NEW c \in calls, NEW x, Bound(x) PROVE CallsInv(With(calls \ {c}, x))
  BY <1>2, <1>3, WithBound
<1>4. ASSUME NEW c \in calls, NEW query, Loading(calls \ {c}, query) PROVE CallsInv(calls')
  BY <1>3, <1>4, RequestBound DEF Loading
<1> QED BY <1>1, <1>2, <1>3, <1>4

\* The dialog of a row is shown, at once or when the environments have come.
LEMMA OpeningSound ==
  ASSUME DialogsInv, Loose(page), NEW d, NEW ids \in SUBSET Rows, NEW locked \in BOOLEAN, NEW k
  PROVE  /\ DialogInv(page, Opened(dlg, d, ids, locked), k)
         /\ OpenWithEnvList(d, ids, locked) => DialogInv(page, dlg', k) /\ CallsInv(calls')
<1> DialogInv(page, dlg, kept) /\ CallsInv(calls)
  BY DEF DialogsInv, Held
<1>1. DialogInv(page, Opened(dlg, d, ids, locked), k)
  BY OpenedFits
<1>2. DialogInv(page, dlg, k)
  BY LooseKept
<1>3. Room => CallsInv(With(calls, Request("envList", d, ids)))
  BY SendingSound, RequestBound
<1> QED BY <1>1, <1>2, <1>3 DEF OpenWithEnvList

\* A save without a mask, by a click or when a validation has come.
LEMMA UnmaskedSound ==
  ASSUME DialogsInv, NEW cs, CallsInv(cs), Cardinality(cs) < MaxCalls, NEW d, NEW c, Bound(c),
         Saving(cs, d, c, FALSE), UNCHANGED <<kept, picked, envList>>
  PROVE  Sound
<1>1. dlg' = dlg /\ calls' = With(cs, c)
  BY DEF Saving
<1>2. CallsInv(calls')
  BY <1>1, WithBound
<1> QED BY <1>1, <1>2 DEF DialogsInv, Held, Sound

LEMMA MaskedSound ==
  ASSUME DialogsInv, NEW cs, CallsInv(cs), Cardinality(cs) < MaxCalls, NEW d \in Dialogs,
         NEW c, Bound(c), d = "dia" \/ Filled(d), page = "themeList",
         Saving(cs, d, c, TRUE), UNCHANGED <<kept, picked, envList>>
  PROVE  Sound
<1>1. /\ dlg' = [dlg EXCEPT ![d].loading = TRUE, ![d].sent = IF @ < 2 THEN @ + 1 ELSE 2]
      /\ calls' = With(cs, c)
  BY DEF Saving
<1>2. CallsInv(calls')
  BY <1>1, WithBound
<1>3. DialogInv(page, dlg', kept)
  BY <1>1, MaskedFits DEF DialogsInv, Held, Filled
<1> QED BY <1>2, <1>3 DEF DialogsInv, Held, Sound

LEMMA PartsSound ==
  ASSUME DialogsInv
  PROVE  /\ \A query : Search(query) => Sound
         /\ \A ids \in SUBSET Rows : Select(ids) => Sound
         /\ \A d : closeHandle(d) => Sound
         /\ \A c \in calls : RowsLoaded(c) => Sound
         /\ \A c \in calls : \A masking : CallFails(c, masking) => Sound
<1>1. ASSUME NEW query, Search(query) PROVE Sound
  <2>1. CallsInv(calls')
    BY <1>1, SendingSound, RequestBound DEF Search, Loading
  <2> QED BY <1>1, <2>1 DEF Search, DialogsInv, Held, Sound
<1>2. ASSUME NEW ids \in SUBSET Rows, Select(ids) PROVE Sound
  BY <1>2 DEF Select, DialogsInv, Held, Sound
<1>3. ASSUME NEW d, closeHandle(d) PROVE Sound
  BY <1>3, ClosedFits DEF closeHandle, DialogsInv, Held, Sound
<1>4. ASSUME NEW c \in calls, RowsLoaded(c) \/ \E masking : CallFails(c, masking) PROVE Sound
  BY <1>4, SendingSound DEF RowsLoaded, CallFails, DialogsInv, Held, Sound
<1> QED BY <1>1, <1>2, <1>3, <1>4

-----------------------------------------------------------------------------
(* The list pages *)

LEMMA RetargetedBound ==
  ASSUME NEW op, op \notin BoundToDialog, op # "editAlertSave", NEW d, NEW ids \in SUBSET Rows,
         NEW others \in SUBSET Rows
  PROVE  Bound([Request(op, d, ids) EXCEPT !.ids = others])
BY DEF Request, Bound

LEMMA DialogRows ==
  ASSUME DialogsInv, NEW d \in Dialogs
  PROVE  dlg[d].rows \in SUBSET Rows
BY DEF DialogsInv, Held, DialogInv, Dialog

LEMMA NamedRows ==
  ASSUME NEW op, NEW address \in SUBSET Rows, NEW body \in SUBSET Rows
  PROVE  Named(op, address, body) \in SUBSET Rows
BY DEF Named

LEMMA HomeSound ==
  ASSUME DialogsInv
  PROVE  (HomeUser => Sound) /\ \A c \in calls : HomeAnswer(c) => Sound
<1> DialogInv(page, dlg, kept) /\ CallsInv(calls) /\ kept \in SUBSET Rows /\ {} \in SUBSET Rows
  BY DEF DialogsInv, Held
<1>1. ASSUME HomeUser PROVE Sound
  <2>1. Loose(page)
    BY <1>1 DEF HomeUser, openAddEnv, openRenameEnv, openDatabaseEnv, addHostTo,
       handleDeleteService, saveEnv, OnHome, On, Loose, Transfers
  <2>2. CASE openAddEnv
    BY <2>1, <2>2, OpeningSound DEF openAddEnv, DialogsInv, Held, Sound
  <2>3. ASSUME NEW env \in Rows, openRenameEnv(env) PROVE Sound
    <3>1. {env} \in SUBSET Rows
      OBVIOUS
    <3> QED BY <2>1, <2>3, <3>1, OpeningSound DEF openRenameEnv, DialogsInv, Held, Sound
  <2>4. ASSUME NEW env \in Rows, openDatabaseEnv(env) \/ addHostTo(env) \/ handleDeleteService(env)
        PROVE  Sound
    <3>1. {env} \in SUBSET Rows
      OBVIOUS
    <3>2. CallsInv(calls')
      BY <2>4, <3>1, SendingSound, RequestBound
         DEF openDatabaseEnv, addHostTo, handleDeleteService
    <3>3. dlg' = dlg /\ kept' \in SUBSET Rows /\ picked' = picked /\ envList' = envList
      BY <2>4, <3>1 DEF openDatabaseEnv, addHostTo, handleDeleteService
    <3> QED BY <2>1, <3>2, <3>3, LooseKept DEF DialogsInv, Held, Sound
  <2>5. ASSUME NEW op \in HomeSaves, NEW d \in Dialogs, saveEnv(op, d) PROVE Sound
    <3>1. Bound(envSave(op, d))
      BY RetargetedBound, DialogRows, NamedRows DEF envSave, HomeSaves, BoundToDialog, Migrations
    <3> QED BY <2>5, <3>1, UnmaskedSound DEF saveEnv, Room
  <2> QED BY <1>1, <2>2, <2>3, <2>4, <2>5 DEF HomeUser, HomeSaves, Dialogs
<1>2. ASSUME NEW c \in calls, HomeAnswer(c) PROVE Sound
  <2>1. Loose(page) /\ c.ids \in SUBSET Rows
    BY <1>2 DEF HomeAnswer, databaseServices, installUrlOf, serviceDeleted, envSaved, OnHome, On,
       Loose, Transfers, CallsInv, Bound
  <2>2. CallsInv(calls \ {c})
    BY SendingSound
  <2>3. CASE databaseServices(c) \/ installUrlOf(c)
    BY <2>1, <2>2, <2>3, OpeningSound DEF databaseServices, installUrlOf, DialogsInv, Held, Sound
  <2>4. CASE serviceDeleted(c)
    BY <2>4, SendingSound DEF serviceDeleted, DialogsInv, Held, Sound
  <2>5. CASE envSaved(c)
    BY <2>5, SendingSound, ClosedFits DEF envSaved, DialogsInv, Held, Sound
  <2> QED BY <1>2, <2>3, <2>4, <2>5 DEF HomeAnswer
<1> QED BY <1>1, <1>2

\* The saves of topics name the topic in the address.
LEMMA ThemeAddressed ==
  ASSUME NEW op \in {"editThemeSave", "approvalTheme", "configureTheme", "syncTheme"},
         NEW address, NEW body
  PROVE  Named(op, address, body) = address
<1>1. <<op, PutAt>> \in ThemeApi
  BY DEF ThemeApi, All
<1>2. ThemeApi \subseteq Api
  BY DEF Api
<1> QED BY <1>1, <1>2 DEF Named, Addressed

LEMMA ThemeSaveBound ==
  ASSUME DialogsInv, NEW d \in Dialogs, NEW op \in ThemeSaves \cup {"sendThemeMsg"}
  PROVE  Bound(themeSave(op, d))
<1> DEFINE chosen == dlg[d].rows
<1>1. chosen \in SUBSET Rows /\ {} \in SUBSET Rows
  BY DialogRows
<1>2. CASE op \in {"createThemeSave", "sendThemeMsg"}
  <2>1. Named(op, chosen, {}) \in SUBSET Rows
    BY <1>1, NamedRows
  <2>2. op \notin BoundToDialog /\ op # "editAlertSave"
    BY <1>2 DEF BoundToDialog, Migrations
  <2> QED BY <1>1, <2>1, <2>2, RetargetedBound DEF themeSave
<1>3. CASE op \in {"editThemeSave", "approvalTheme", "configureTheme", "syncTheme"}
  <2>1. Named(op, chosen, {}) = chosen
    BY <1>3, ThemeAddressed
  <2>2. themeSave(op, d) = [Request(op, d, chosen) EXCEPT !.ids = chosen]
    BY <2>1 DEF themeSave
  <2>3. [Request(op, d, chosen) EXCEPT !.ids = chosen] = Request(op, d, chosen)
    BY DEF Request
  <2> QED BY <1>1, <2>2, <2>3, RequestBound
<1> QED BY <1>2, <1>3 DEF ThemeSaves

\* The dialog of a row of a page whose dialogs may wait for the environments.
LEMMA OpenSound ==
  ASSUME DialogsInv, Loose(page), NEW d, NEW ids \in SUBSET Rows, NEW locked \in BOOLEAN,
         OpenWithEnvList(d, ids, locked), kept' \in SUBSET Rows, UNCHANGED <<picked, envList>>
  PROVE  Sound
<1>1. DialogInv(page, dlg', kept') /\ CallsInv(calls')
  BY OpeningSound
<1> QED BY <1>1 DEF DialogsInv, Held, Sound

\* What waited for the environments is shown, and the store keeps them.
LEMMA EnvListSound ==
  ASSUME DialogsInv, Loose(page), NEW c \in calls, NEW locked \in BOOLEAN,
         calls' = calls \ {c}, dlg' = Opened(dlg, c.d, c.ids, locked),
         envList' \in BOOLEAN, UNCHANGED <<kept, picked>>
  PROVE  Sound
<1>1. c.ids \in SUBSET Rows
  BY DEF DialogsInv, Held, CallsInv, Bound
<1>2. DialogInv(page, dlg', kept) /\ CallsInv(calls')
  BY <1>1, OpeningSound, SendingSound
<1> QED BY <1>2 DEF DialogsInv, Held, Sound

\* A request alone: the deletion of a row, the check of a name, a question.
LEMMA SentSound ==
  ASSUME DialogsInv, NEW c, Bound(c), Room, calls' = With(calls, c),
         UNCHANGED <<dlg, kept, picked, envList>>
  PROVE  Sound
<1>1. CallsInv(calls')
  BY SendingSound
<1> QED BY <1>1 DEF DialogsInv, Held, Sound

\* The answer of a save: the dialog closes and the rows are loaded again, or nothing is.
LEMMA SavedSound ==
  ASSUME DialogsInv, NEW c \in calls, NEW query,
         Loading(calls \ {c}, query) \/ calls' = calls \ {c},
         dlg' = dlg \/ \E d, cs : dlg' = Closed(dlg, d, cs), UNCHANGED <<kept, picked, envList>>
  PROVE  Sound
<1>1. CallsInv(calls')
  BY SendingSound
<1>2. DialogInv(page, dlg', kept)
  BY ClosedFits DEF DialogsInv, Held
<1> QED BY <1>1, <1>2 DEF DialogsInv, Held, Sound

LEMMA ThemeSound ==
  ASSUME DialogsInv
  PROVE  (ThemeUser => Sound) /\ \A c \in calls : OnThemes /\ ThemeAnswer(c) => Sound
<1> CallsInv(calls) /\ {} \in SUBSET Rows /\ kept \in SUBSET Rows
  BY DEF DialogsInv, Held
<1>l. OnThemes => Loose(page) /\ page = "themeList"
  BY DEF OnThemes, On, Loose, Transfers
<1>1. ASSUME ThemeUser PROVE Sound
  <2>1. CASE themeSearch
    BY <2>1, PartsSound DEF themeSearch
  <2>2. CASE themeOperateOpen \/ handleSendMsg
    BY <2>2, <1>l, OpenSound DEF themeOperateOpen, handleSendMsg
  <2>3. ASSUME NEW row \in Rows, themeDelete(row) PROVE Sound
    <3>1. Bound(Request("deleteTheme", "table", {row}))
      BY RequestBound
    <3> QED BY <2>3, <3>1, SentSound DEF themeDelete
  <2>4. ASSUME NEW row \in Rows,
               \/ themeOperateEdit(row) \/ themeApproval(row)
               \/ themeConfigure(row) \/ handleSynchronization(row)
        PROVE  Sound
    <3>1. {row} \in SUBSET Rows /\ themeLocked({row}) \in BOOLEAN
      BY DEF themeLocked
    <3>2. OnThemes /\ UNCHANGED <<kept, picked, envList>>
      BY <2>4 DEF themeOperateEdit, themeApproval, themeConfigure, handleSynchronization
    <3>3. \E d, locked : locked \in BOOLEAN /\ OpenWithEnvList(d, {row}, locked)
      BY <2>4, <3>1 DEF themeOperateEdit, themeApproval, themeConfigure, handleSynchronization
    <3>4. kept' \in SUBSET Rows
      BY <3>2
    <3> QED BY <1>l, <3>1, <3>2, <3>3, <3>4, OpenSound
  <2>5. CASE themeSaveData
    <3>1. CASE calls' = With(calls, Request("validCode", "dia", {})) /\ UNCHANGED dlg
      BY <2>5, <3>1, RequestBound, SentSound DEF themeSaveData
    <3>2. CASE Saving(calls, "dia", themeSave("editThemeSave", "dia"), TRUE)
      <4>1. Bound(themeSave("editThemeSave", "dia")) /\ "dia" \in Dialogs
        BY ThemeSaveBound DEF ThemeSaves, Dialogs
      <4> QED BY <1>l, <2>5, <3>2, <4>1, MaskedSound DEF themeSaveData, Room
    <3> QED BY <2>5, <3>1, <3>2 DEF themeSaveData
  <2>6. CASE \/ saveApprovalTheme \/ saveConfigTheme \/ saveMsgData
             \/ (saveSynchronizationData /\ ~\E d, cs : dlg' = Closed(dlg, d, cs))
    <3>1. \E d \in Dialogs, op \in ThemeSaves \cup {"sendThemeMsg"} :
            Filled(d) /\ Saving(calls, d, themeSave(op, d), TRUE)
      BY <2>6 DEF saveApprovalTheme, saveConfigTheme, saveMsgData, saveSynchronizationData,
         ThemeSaves, Dialogs
    <3>2. OnThemes /\ Room /\ UNCHANGED <<kept, picked, envList>>
      BY <2>6 DEF saveApprovalTheme, saveConfigTheme, saveMsgData, saveSynchronizationData
    <3>3. PICK d \in Dialogs, op \in ThemeSaves \cup {"sendThemeMsg"} :
            Filled(d) /\ Saving(calls, d, themeSave(op, d), TRUE)
      BY <3>1
    <3>4. Bound(themeSave(op, d))
      BY ThemeSaveBound
    <3> QED BY <1>l, <3>2, <3>3, <3>4, MaskedSound DEF Room
  <2>7. CASE saveSynchronizationData /\ \E d, cs : dlg' = Closed(dlg, d, cs)
    <3>1. CASE UNCHANGED calls
      BY <2>7, <3>1, ClosedFits DEF saveSynchronizationData, DialogsInv, Held, Sound
    <3>2. CASE Room /\ Saving(calls, "sync", themeSave("syncTheme", "sync"), TRUE)
      <4>1. Bound(themeSave("syncTheme", "sync")) /\ "sync" \in Dialogs
        BY ThemeSaveBound DEF ThemeSaves, Dialogs
      <4> QED BY <1>l, <2>7, <3>2, <4>1, MaskedSound DEF saveSynchronizationData, Room
    <3> QED BY <2>7, <3>1, <3>2 DEF saveSynchronizationData
  <2> QED BY <1>1, <2>1, <2>2, <2>3, <2>4, <2>5, <2>6, <2>7 DEF ThemeUser
<1>2. ASSUME NEW c \in calls, OnThemes, ThemeAnswer(c) PROVE Sound
  <2>1. CASE themeDeleted(c)
    BY <2>1, SavedSound DEF themeDeleted
  <2>2. CASE themeEnvList(c)
    <3>1. (c.d = "dia" /\ themeLocked(c.ids)) \in BOOLEAN
      OBVIOUS
    <3> QED BY <1>l, <2>2, <3>1, EnvListSound DEF themeEnvList
  <2>3. CASE themeNameValid(c)
    <3>1. PICK op \in ThemeSaves : Saving(calls \ {c}, "dia", themeSave(op, "dia"), TRUE)
      BY <2>3 DEF themeNameValid, ThemeSaves
    <3>2. Bound(themeSave(op, "dia")) /\ "dia" \in Dialogs
      BY ThemeSaveBound DEF Dialogs
    <3>3. CallsInv(calls \ {c}) /\ Cardinality(calls \ {c}) < MaxCalls
      BY AnsweredRoom
    <3> QED BY <1>l, <1>2, <2>3, <3>1, <3>2, <3>3, MaskedSound DEF themeNameValid
  <2>4. CASE themeSaved(c) \/ themeMsgSent(c)
    BY <2>4, SavedSound DEF themeSaved, themeMsgSent
  <2> QED BY <1>2, <2>1, <2>2, <2>3, <2>4 DEF ThemeAnswer
<1> QED BY <1>1, <1>2

LEMMA ConsumerSaveBound ==
  ASSUME DialogsInv, NEW d \in Dialogs,
         NEW op \in {"createConsumerSave", "editConsumerSave", "configUpdateGated"}
  PROVE  Bound(consumerSave(op, d))
<1>1. Named(op, dlg[d].rows, kept) \in SUBSET Rows /\ dlg[d].rows \in SUBSET Rows
  BY DialogRows, NamedRows DEF DialogsInv, Held
<1>2. op \notin BoundToDialog /\ op # "editAlertSave"
  BY DEF BoundToDialog, Migrations
<1> QED BY <1>1, <1>2, RetargetedBound DEF consumerSave

\* A save of a dialog without a mask.
LEMMA SaveSound ==
  ASSUME DialogsInv, NEW d, NEW c, Bound(c), Room, Saving(calls, d, c, FALSE),
         UNCHANGED <<kept, picked, envList>>
  PROVE  Sound
<1>1. CallsInv(calls)
  BY DEF DialogsInv, Held
<1> QED BY <1>1, UnmaskedSound DEF Room

LEMMA ConsumerSound ==
  ASSUME DialogsInv
  PROVE  (ConsumerUser => Sound) /\ \A c \in calls : OnConsumers /\ ConsumerAnswer(c) => Sound
<1> CallsInv(calls) /\ {} \in SUBSET Rows /\ kept \in SUBSET Rows /\ picked \in SUBSET Rows
  BY DEF DialogsInv, Held
<1>l. OnConsumers => Loose(page)
  BY DEF OnConsumers, On, Loose, Transfers
<1>d. {"dia", "approval", "config", "sync"} \subseteq Dialogs
  BY DEF Dialogs
<1>1. ASSUME ConsumerUser PROVE Sound
  <2>1. CASE consumerSearch \/ \E chosen \in SUBSET Rows : consumerSelect(chosen)
    BY <2>1, PartsSound DEF consumerSearch, consumerSelect
  <2>2. CASE consumerOperateOpen
    <3>1. DialogInv(page, dlg', kept)
      BY <1>l, <2>2, OpeningSound DEF consumerOperateOpen
    <3> QED BY <2>2, <3>1 DEF consumerOperateOpen, DialogsInv, Held, Sound
  <2>3. ASSUME NEW row \in Rows, consumerDelete(row) PROVE Sound
    <3>1. Bound(Request("consumeDelete", "table", {row}))
      BY RequestBound
    <3> QED BY <2>3, <3>1, SentSound DEF consumerDelete
  <2>4. CASE syncOpen
    BY <2>4, RequestBound, SentSound DEF syncOpen
  <2>5. ASSUME NEW row \in Rows,
               consumerOperateEdit(row) \/ approvalConsumer(row) \/ handleConfig(row)
        PROVE  Sound
    <3>1. {row} \in SUBSET Rows
      OBVIOUS
    <3>2. CASE consumerOperateEdit(row)
      <4>1. DialogInv(page, dlg', {row})
        BY <1>l, <3>1, <3>2, OpeningSound DEF consumerOperateEdit
      <4> QED BY <3>1, <3>2, <4>1 DEF consumerOperateEdit, DialogsInv, Held, Sound
    <3>3. CASE approvalConsumer(row) \/ handleConfig(row)
      BY <1>l, <3>1, <3>3, OpenSound DEF approvalConsumer, handleConfig
    <3> QED BY <2>5, <3>2, <3>3
  <2>6. CASE consumerSaveData
    <3>1. CASE calls' = With(calls, Request("validCode", "dia", {})) /\ UNCHANGED dlg
      BY <2>6, <3>1, RequestBound, SentSound DEF consumerSaveData
    <3>2. CASE Saving(calls, "dia", consumerSave("editConsumerSave", "dia"), FALSE)
      BY <1>d, <2>6, <3>2, ConsumerSaveBound, SaveSound DEF consumerSaveData
    <3> QED BY <2>6, <3>1, <3>2 DEF consumerSaveData
  <2>7. CASE saveApprovalConsumer
    <3>1. Bound(consumerApprove("approval"))
      BY <1>d, DialogRows, RequestBound DEF consumerApprove
    <3> QED BY <2>7, <3>1, SaveSound DEF saveApprovalConsumer
  <2>8. CASE saveConfigConsumer
    BY <1>d, <2>8, ConsumerSaveBound, SaveSound DEF saveConfigConsumer
  <2>9. CASE beginSync
    <3>1. Bound(Request("consumerSync", "sync", dlg["sync"].rows))
      BY <1>d, DialogRows, RequestBound
    <3> QED BY <2>9, <3>1, SaveSound DEF beginSync
  <2> QED BY <1>1, <2>1, <2>2, <2>3, <2>4, <2>5, <2>6, <2>7, <2>8, <2>9 DEF ConsumerUser
<1>2. ASSUME NEW c \in calls, OnConsumers, ConsumerAnswer(c) PROVE Sound
  <2>1. CASE consumerDeleted(c) \/ consumerSaved(c)
    BY <2>1, SavedSound DEF consumerDeleted, consumerSaved
  <2>2. CASE consumerEnvList(c)
    BY <1>l, <1>2, <2>2, EnvListSound DEF consumerEnvList
  <2>3. CASE syncEnvList(c)
    <3>1. DialogInv(page, dlg', kept)
      BY <1>l, <1>2, <2>3, OpeningSound DEF syncEnvList, DialogsInv, Held
    <3> QED BY <2>3, <3>1, SendingSound DEF syncEnvList, DialogsInv, Held, Sound
  <2>4. CASE consumerNameValid(c)
    <3>1. PICK op \in {"createConsumerSave", "editConsumerSave"} :
            Saving(calls \ {c}, "dia", consumerSave(op, "dia"), FALSE)
      BY <2>4 DEF consumerNameValid
    <3>2. Bound(consumerSave(op, "dia"))
      BY <1>d, <3>1, ConsumerSaveBound
    <3>3. CallsInv(calls \ {c}) /\ Cardinality(calls \ {c}) < MaxCalls
      BY AnsweredRoom
    <3> QED BY <2>4, <3>1, <3>2, <3>3, UnmaskedSound DEF consumerNameValid
  <2> QED BY <1>2, <2>1, <2>2, <2>3, <2>4 DEF ConsumerAnswer
<1> QED BY <1>1, <1>2

\* An alert that is saved is the one whose values the form holds, or a new one.
LEMMA AlertSaveBound ==
  ASSUME DialogsInv, page = "noticeList", NEW op \in AlertSaves
  PROVE  Bound(alertSave(op))
<1> DEFINE chosen == dlg["dia"].rows
           x == [Request(op, "dia", chosen) EXCEPT !.ids = Named(op, chosen, {})]
<1>1. "dia" \in Dialogs
  BY DEF Dialogs
<1>2. chosen \in SUBSET Rows /\ chosen \subseteq kept /\ kept \in SUBSET Rows
  BY <1>1, DialogRows DEF DialogsInv, Held, DialogInv, Fits
<1>3. Named(op, chosen, {}) \in SUBSET Rows /\ Named(op, chosen, {}) \subseteq kept
  BY <1>2 DEF Named
<1> HIDE DEF chosen
<1>4. /\ DOMAIN x = {"op", "d", "ids", "of", "carries", "n"}
      /\ x.op = op /\ x.ids = Named(op, chosen, {})
  BY DEF Request
<1>5. alertSave(op) = [x EXCEPT !.of = kept]
  BY DEF alertSave, chosen
<1> HIDE DEF x
<1>6. op \notin BoundToDialog
  BY DEF AlertSaves, BoundToDialog, Migrations
<1> QED BY <1>2, <1>3, <1>4, <1>5, <1>6 DEF Bound

LEMMA AlertSound ==
  ASSUME DialogsInv
  PROVE  (AlertUser => Sound) /\ \A c \in calls : OnAlerts /\ AlertAnswer(c) => Sound
<1> /\ CallsInv(calls) /\ {} \in SUBSET Rows /\ kept \in SUBSET Rows
    /\ DialogInv(page, dlg, kept)
  BY DEF DialogsInv, Held
<1>l. OnAlerts => page = "noticeList"
  BY DEF OnAlerts, On
<1>1. ASSUME AlertUser PROVE Sound
  <2>1. CASE alertSearch
    BY <2>1, PartsSound DEF alertSearch
  <2>2. CASE alertOperateOpen
    <3>1. DialogInv(page, dlg', kept')
      BY <1>l, <2>2, OpenedFits DEF alertOperateOpen
    <3> QED BY <2>2, <3>1 DEF alertOperateOpen, DialogsInv, Held, Sound
  <2>3. CASE nameSelect \/ alertSaveData
    <3>1. \E op : calls' = With(calls, Request(op, "dia", {}))
      BY <2>3 DEF nameSelect, alertSaveData
    <3> QED BY <2>3, <3>1, RequestBound, SentSound DEF nameSelect, alertSaveData
  <2>4. ASSUME NEW row \in Rows, alertDelete(row) PROVE Sound
    <3>1. Bound(Request("deleteAlert", "table", {row}))
      BY RequestBound
    <3> QED BY <2>4, <3>1, SentSound DEF alertDelete
  <2>5. ASSUME NEW row \in Rows, NEW option \in BOOLEAN, alertOperateEdit(row, option) PROVE Sound
    <3>1. {row} \in SUBSET Rows
      OBVIOUS
    <3>2. DialogInv(page, dlg', kept')
      BY <1>l, <2>5, <3>1, OpenedFits DEF alertOperateEdit
    <3>3. CallsInv(calls')
      BY <2>5, <3>1, SendingSound, RequestBound DEF alertOperateEdit
    <3> QED BY <2>5, <3>1, <3>2, <3>3 DEF alertOperateEdit, DialogsInv, Held, Sound
  <2> QED BY <1>1, <2>1, <2>2, <2>3, <2>4, <2>5 DEF AlertUser
<1>2. ASSUME NEW c \in calls, OnAlerts, AlertAnswer(c) PROVE Sound
  <2>1. CASE alertDeleted(c) \/ alertSaved(c)
    BY <2>1, SavedSound DEF alertDeleted, alertSaved
  <2>2. CASE alertEnvironments(c)
    <3>1. CASE UNCHANGED dlg
      BY <2>2, <3>1, SavedSound DEF alertEnvironments
    <3>2. CASE dlg' = [dlg EXCEPT !["dia"].rows = {}]
      <4>1. "dia" \in Dialogs
        BY DEF Dialogs
      <4> DEFINE x == [dlg["dia"] EXCEPT !.rows = {}]
      <4>2. x \in Dialog /\ x.rows = {}
        BY <4>1 DEF DialogInv, Dialog
      <4>3. dlg' = [dlg EXCEPT !["dia"] = x]
        BY <3>2 DEF DialogInv
      <4> HIDE DEF x
      <4>4. DialogInv(page, dlg', kept)
        BY <1>l, <1>2, <4>1, <4>2, <4>3 DEF DialogInv, Fits, Transfers
      <4> QED BY <2>2, <4>4, SendingSound DEF alertEnvironments, DialogsInv, Held, Sound
    <3> QED BY <2>2, <3>1, <3>2 DEF alertEnvironments
  <2>3. CASE alertUnique(c)
    <3>1. PICK op \in AlertSaves : Saving(calls \ {c}, "dia", alertSave(op), FALSE)
      BY <2>3 DEF alertUnique, AlertSaves
    <3>2. Bound(alertSave(op))
      BY <1>l, <1>2, AlertSaveBound
    <3>3. CallsInv(calls \ {c}) /\ Cardinality(calls \ {c}) < MaxCalls
      BY AnsweredRoom
    <3> QED BY <2>3, <3>1, <3>2, <3>3, UnmaskedSound DEF alertUnique
  <2> QED BY <1>2, <2>1, <2>2, <2>3 DEF AlertAnswer
<1> QED BY <1>1, <1>2

LEMMA HostSound ==
  ASSUME DialogsInv
  PROVE  (HostUser => Sound) /\ \A c \in calls : OnHosts /\ HostAnswer(c) => Sound
<1> /\ CallsInv(calls) /\ {} \in SUBSET Rows /\ kept \in SUBSET Rows /\ picked \in SUBSET Rows
    /\ DialogInv(page, dlg, kept)
  BY DEF DialogsInv, Held
<1>l. OnHosts => Loose(page)
  BY DEF OnHosts, On, Loose, Transfers
<1>1. ASSUME HostUser PROVE Sound
  <2>1. CASE hostSearch \/ \E chosen \in SUBSET Rows : hostSelect(chosen)
    BY <2>1, PartsSound DEF hostSearch, hostSelect
  <2>2. CASE addHost
    BY <2>2, RequestBound, SentSound DEF addHost
  <2>3. ASSUME NEW op \in HostToggles, handleToggle(op) PROVE Sound
    <3>1. DialogInv(page, dlg', kept')
      BY <1>l, <2>3, OpeningSound DEF handleToggle
    <3> QED BY <2>3, <3>1 DEF handleToggle, DialogsInv, Held, Sound
  <2>4. ASSUME NEW op \in HostToggles, hostConfirmed(op) PROVE Sound
    <3>1. op \in Dialogs /\ op \notin BoundToDialog /\ op # "editAlertSave"
      BY DEF HostToggles, Dialogs, BoundToDialog, Migrations
    <3>2. Bound([Request(op, op, dlg[op].rows) EXCEPT !.ids = kept])
      BY <3>1, DialogRows, RetargetedBound
    <3>3. CallsInv(calls')
      BY <2>4, <3>2, SendingSound DEF hostConfirmed
    <3>4. DialogInv(page, dlg', kept)
      BY <2>4, ClosedFits DEF hostConfirmed
    <3> QED BY <2>4, <3>3, <3>4 DEF hostConfirmed, DialogsInv, Held, Sound
  <2> QED BY <1>1, <2>1, <2>2, <2>3, <2>4 DEF HostUser
<1>2. ASSUME NEW c \in calls, OnHosts, HostAnswer(c) PROVE Sound
  <2>1. CASE hostToggled(c) \/ hostListFails(c)
    BY <2>1, SavedSound DEF hostToggled, hostListFails
  <2>2. CASE installUrl(c)
    <3>1. DialogInv(page, dlg', kept)
      BY <1>l, <1>2, <2>2, OpeningSound DEF installUrl
    <3> QED BY <2>2, <3>1, SendingSound DEF installUrl, DialogsInv, Held, Sound
  <2> QED BY <1>2, <2>1, <2>2 DEF HostAnswer
<1> QED BY <1>1, <1>2

\* What is migrated are the rows the dialog shows.
LEMMA TransferSound ==
  ASSUME DialogsInv
  PROVE  (TransferUser => Sound) /\ \A c \in calls : transferred(c) => Sound
<1> /\ CallsInv(calls) /\ kept \in SUBSET Rows /\ picked \in SUBSET Rows
    /\ DialogInv(page, dlg, kept) /\ "sync" \in Dialogs
  BY DEF DialogsInv, Held, Dialogs
<1>1. ASSUME TransferUser PROVE Sound
  <2>1. page \in Transfers
    BY <1>1 DEF TransferUser, clusterTransfer, themeTransfer, consumerTransfer, On, Transfers
  <2>2. CASE (\E query : Search(query)) \/ \E chosen \in SUBSET Rows : Select(chosen)
    BY <2>2, PartsSound
  <2>3. CASE transferOpen(picked)
    <3>1. DialogInv(page, dlg', picked)
      BY <2>1, <2>3, OpenedFits DEF transferOpen
    <3> QED BY <2>3, <3>1 DEF transferOpen, DialogsInv, Held, Sound
  <2>4. ASSUME NEW op \in Migrations, beginTransfer(op) PROVE Sound
    <3>1. dlg["sync"].rows = kept
      BY <2>1, <2>4 DEF beginTransfer, DialogInv, Fits
    <3>2. transferRequest(op) = Request(op, "sync", kept)
      BY <3>1 DEF transferRequest, Request
    <3>3. Bound(transferRequest(op))
      BY <3>2, RequestBound
    <3> QED BY <2>4, <3>3, SaveSound DEF beginTransfer
  <2>5. {"migrateClusterTopicZk", "migrateClusterConsumerZk", "migrateZk"} = Migrations
    BY DEF Migrations
  <2> QED BY <1>1, <2>2, <2>3, <2>4, <2>5 DEF TransferUser, clusterTransfer, themeTransfer,
             consumerTransfer, clusterTransferOpen
<1>2. ASSUME NEW c \in calls, transferred(c) PROVE Sound
  BY <1>2, SavedSound DEF transferred
<1> QED BY <1>1, <1>2

-----------------------------------------------------------------------------
(* The pages of the consoles *)

LEMMA CarryingBound ==
  ASSUME NEW op, NEW d, NEW values
  PROVE  Bound(Carrying(op, d, values))
<1>1. Carrying(op, d, values) = [op |-> op, d |-> d, ids |-> {}, of |-> {}, carries |-> values, n |-> 1]
  BY DEF Carrying, Request
<1> QED BY <1>1 DEF Bound

LEMMA SearchingBound ==
  ASSUME DialogsInv
  PROVE  /\ Room /\ Searching(calls) => CallsInv(calls')
         /\ \A c \in calls : Searching(calls \ {c}) => CallsInv(calls')
BY SendingSound, CarryingBound DEF Searching, searchRequest

\* What a choice does to the requests under way for offers.
LEMMA StaleBound ==
  ASSUME DialogsInv, NEW f, NEW value, Chosen(f, value)
  PROVE  CallsInv(calls')
<1> DEFINE stale(c) == c.op = "options" /\ c.d \in Below(page, f)
           F == [c \in calls |-> IF stale(c) THEN [c EXCEPT !.carries = {"other"}] ELSE c]
<1>1. calls' = {F[c] : c \in calls}
  BY DEF Chosen
<1>2. CallsInv(calls)
  BY DEF DialogsInv, Held
<1>3. ASSUME NEW c \in calls PROVE Bound(F[c])
  <2>1. Bound(c)
    BY <1>2 DEF CallsInv
  <2> DEFINE x == [c EXCEPT !.carries = {"other"}]
  <2>2. Bound(x)
    BY <2>1 DEF Bound
  <2> HIDE DEF x
  <2> QED BY <2>1, <2>2 DEF x
<1> HIDE DEF F
<1>4. ASSUME NEW x \in calls' PROVE Bound(x)
  BY <1>1, <1>3
<1>5. F \in Surjection(calls, calls')
  BY <1>1 DEF Surjection, F
<1>6. IsFiniteSet(calls') /\ Cardinality(calls') <= Cardinality(calls)
  BY <1>2, <1>5, FS_Surjection DEF CallsInv
<1>7. Cardinality(calls') \in Nat /\ Cardinality(calls) \in Nat /\ MaxCalls \in Nat
  BY <1>2, <1>6, FS_CardinalityType, PagesAssumption DEF CallsInv
<1> QED BY <1>2, <1>4, <1>6, <1>7 DEF CallsInv

LEMMA QuerySound ==
  ASSUME DialogsInv, OnQuery
  PROVE  (QueryUser => Sound) /\ \A c \in calls : QueryAnswer(c) => Sound
<1> /\ CallsInv(calls) /\ {} \in SUBSET Rows /\ kept \in SUBSET Rows /\ picked \in SUBSET Rows
    /\ DialogInv(page, dlg, kept) /\ "dia" \in Dialogs
  BY DEF DialogsInv, Held, Dialogs
<1>l. Loose(page)
  BY DEF OnQuery, QueryRoutes, Forms, Loose, Transfers
<1>1. ASSUME QueryUser PROVE Sound
  <2>1. ASSUME NEW f \in Fields, focusSelect(f) PROVE Sound
    BY <2>1, CarryingBound, SentSound DEF focusSelect
  <2>2. ASSUME NEW f \in Fields, choose(f) PROVE Sound
    BY <2>2, StaleBound DEF choose, DialogsInv, Held, Sound
  <2>3. CASE onReset
    BY <2>3 DEF onReset, DialogsInv, Held, Sound
  <2>4. CASE searchHandler
    BY <2>4, SearchingBound DEF searchHandler, DialogsInv, Held, Sound
  <2>5. CASE delayPage
    <3>1. PICK op : calls' = With(calls, Carrying(op, "table", {form["envId"]}))
      BY <2>5 DEF delayPage
    <3> QED BY <2>5, <3>1, CarryingBound, SentSound DEF delayPage
  <2>6. ASSUME NEW row \in Rows, editPerm(row) \/ showMessage(row) PROVE Sound
    <3>1. {row} \in SUBSET Rows
      OBVIOUS
    <3>2. DialogInv(page, dlg', kept)
      BY <1>l, <2>6, <3>1, OpeningSound DEF editPerm, showMessage, Detail
    <3> QED BY <2>6, <3>2 DEF editPerm, showMessage, Detail, DialogsInv, Held, Sound
  <2>7. CASE resetOffsetOpen \/ resetKafkaOffsetOpen
    <3>1. DialogInv(page, dlg', kept)
      BY <1>l, <2>7, OpeningSound DEF resetOffsetOpen, resetKafkaOffsetOpen, ResetOpen
    <3> QED BY <2>7, <3>1 DEF resetOffsetOpen, resetKafkaOffsetOpen, ResetOpen, DialogsInv, Held, Sound
  <2>8. CASE showSummary
    <3>1. DialogInv(page, dlg', kept)
      BY <1>l, <2>8, OpeningSound DEF showSummary
    <3>2. CallsInv(calls')
      BY <2>8, SendingSound, RequestBound DEF showSummary
    <3> QED BY <2>8, <3>1, <3>2 DEF showSummary, DialogsInv, Held, Sound
  <2>9. CASE savePerm \/ resetOffset \/ resetKafkaOffset
    <3>1. PICK op : Saving(calls, "dia", Request(op, "dia", dlg["dia"].rows), FALSE)
      BY <2>9 DEF savePerm, resetOffset, resetKafkaOffset, saveChange
    <3>2. Bound(Request(op, "dia", dlg["dia"].rows))
      BY DialogRows, RequestBound
    <3> QED BY <2>9, <3>1, <3>2, SaveSound DEF savePerm, resetOffset, resetKafkaOffset, saveChange
  <2> QED BY <1>1, <2>1, <2>2, <2>3, <2>4, <2>5, <2>6, <2>7, <2>8, <2>9 DEF QueryUser
<1>2. ASSUME NEW c \in calls, QueryAnswer(c) PROVE Sound
  <2>1. CASE optionsLoaded(c) \/ summaryShown(c)
    BY <2>1, SavedSound DEF optionsLoaded, summaryShown
  <2>2. CASE searched(c)
    BY <2>2, PartsSound DEF searched
  <2>3. CASE delayEnvironments(c)
    BY <2>3, SendingSound, CarryingBound DEF delayEnvironments, DialogsInv, Held, Sound
  <2>4. CASE changed(c)
    <3>1. CallsInv(calls')
      BY <2>4, SearchingBound, SendingSound DEF changed
    <3>2. DialogInv(page, dlg', kept)
      BY <2>4, ClosedFits DEF changed
    <3> QED BY <2>4, <3>1, <3>2 DEF changed, DialogsInv, Held, Sound
  <2> QED BY <1>2, <2>1, <2>2, <2>3, <2>4 DEF QueryAnswer
<1> QED BY <1>1, <1>2

-----------------------------------------------------------------------------
(* All pages *)

\* A page asks for at most one thing when it is mounted.
LEMMA OneQuery == \A route : \E q : QueriesOf(route) \subseteq {q}
<1> DEFINE own == [Welcome |-> HomeQueries, themeList |-> ThemeQueries,
                   consumerList |-> ConsumerQueries, noticeList |-> AlertQueries,
                   hostList |-> HostQueries, noticeDelay |-> {"listEnvironment"}]
<1>1. ASSUME NEW p \in DOMAIN own PROVE \E q : own[p] = {q}
  BY <1>1 DEF HomeQueries, ThemeQueries, ConsumerQueries, AlertQueries, HostQueries
<1>2. PageQueries = [p \in DOMAIN own \cup DOMAIN TransferQueries |->
                       IF p \in DOMAIN own THEN own[p] ELSE {TransferQueries[p]}]
  BY DEF PageQueries
<1> HIDE DEF own
<1>3. ASSUME NEW p \in DOMAIN PageQueries PROVE \E q : PageQueries[p] = {q}
  BY <1>1, <1>2
<1> QED BY <1>3 DEF QueriesOf

LEMMA NothingHeld ==
  ASSUME NEW p, NEW ds, ds = [d \in Dialogs |-> Shut]
  PROVE  DialogInv(p, ds, {})
<1>1. Shut \in Dialog /\ ~Shut.visible /\ Shut.sent = 0 /\ Shut.rows = {}
  BY DEF Shut, Dialog
<1> QED BY <1>1 DEF DialogInv, Fits

LEMMA TurnHolds ==
  ASSUME DialogsInv, Turn
  PROVE  DialogsInv'
<1>1. PICK q : QueriesOf(page') \subseteq {q}
  BY OneQuery
<1>2. calls' = {Request(x, "table", {}) : x \in QueriesOf(page')}
  BY DEF Turn, Fresh
<1>3. calls' \subseteq {Request(q, "table", {})} /\ \A c \in calls' : Bound(c)
  BY <1>1, <1>2, RequestBound
<1>4. CallsInv(calls')
  <2>1. /\ IsFiniteSet({Request(q, "table", {})})
        /\ Cardinality({Request(q, "table", {})}) = 1
    BY FS_Singleton
  <2>2. IsFiniteSet(calls') /\ Cardinality(calls') <= 1
    BY <1>3, <2>1, FS_Subset
  <2>3. Cardinality(calls') <= MaxCalls
    BY <2>2, FS_CardinalityType, PagesAssumption
  <2> QED BY <1>3, <2>2, <2>3 DEF CallsInv
<1>5. DialogInv(page', dlg', {}) /\ kept' = {} /\ picked' = {} /\ envList' \in BOOLEAN
  BY NothingHeld DEF Turn, Fresh
<1>6. Held(page', dlg', calls', kept', picked', envList')
  BY <1>4, <1>5 DEF Held
<1> QED BY <1>6 DEF DialogsInv

LEMMA HandlersSound ==
  ASSUME DialogsInv
  PROVE  (Operate => Sound) /\ \A c \in calls : Answer(c) => Sound
<1>1. ASSUME Operate PROVE Sound
  <2> DEFINE listed == \/ OnHome /\ HomeUser
                       \/ OnThemes /\ ThemeUser
                       \/ OnConsumers /\ ConsumerUser
                       \/ OnAlerts /\ AlertUser
                       \/ OnHosts /\ HostUser
                       \/ TransferUser
                       \/ \E d \in Dialogs : closeHandle(d)
  <2>1. (OnQuery /\ QueryUser) \/ listed
    BY <1>1, Zenon DEF Operate
  <2> QED BY <2>1, HomeSound, ThemeSound, ConsumerSound, AlertSound, HostSound, TransferSound,
             QuerySound, PartsSound
<1>2. ASSUME NEW c \in calls, Answer(c) PROVE Sound
  <2> DEFINE listed == \/ OnHome /\ HomeAnswer(c)
                       \/ OnThemes /\ ThemeAnswer(c)
                       \/ OnConsumers /\ ConsumerAnswer(c)
                       \/ OnAlerts /\ AlertAnswer(c)
                       \/ OnHosts /\ HostAnswer(c)
                       \/ transferred(c)
                       \/ c.op \in Queries /\ RowsLoaded(c)
                       \/ c.op \notin {"hostListQuery", "options"} /\ CallFails(c, Masking)
  <2>1. (OnQuery /\ QueryAnswer(c)) \/ listed
    BY <1>2, Zenon DEF Answer
  <2> QED BY <2>1, HomeSound, ThemeSound, ConsumerSound, AlertSound, HostSound, TransferSound,
             QuerySound, PartsSound
<1> QED BY <1>1, <1>2

LEMMA DialogsInvInductive == Spec => []DialogsInv
<1>1. ASSUME Init PROVE DialogsInv
  <2>1. CallsInv(calls)
    BY <1>1, FS_EmptySet, PagesAssumption DEF Init, CallsInv
  <2>2. DialogInv(page, dlg, kept) /\ kept = {} /\ picked = {} /\ envList = FALSE
    BY <1>1, NothingHeld DEF Init
  <2> QED BY <2>1, <2>2 DEF DialogsInv, Held
<1>2. DialogsInv /\ [Next]_vars => DialogsInv'
  <2> SUFFICES ASSUME DialogsInv, [Next]_vars PROVE DialogsInv'
    OBVIOUS
  <2>1. CASE UNCHANGED <<visitVars, pageVars, envList>>
    <3>1. /\ page' = page /\ dlg' = dlg /\ calls' = calls /\ kept' = kept /\ picked' = picked
          /\ envList' = envList
      BY <2>1 DEF visitVars, pageVars
    <3> QED BY <3>1 DEF DialogsInv
  <2>2. CASE Turn
    BY <2>2, TurnHolds
  <2>3. CASE Operate \/ \E c \in calls : Answer(c)
    <3>1. page' = page
      BY <2>3 DEF Operate, Answer, visitVars
    <3>2. Sound
      BY <2>3, HandlersSound
    <3> QED BY <3>1, <3>2 DEF Sound, DialogsInv
  <2>4. CASE ServicePages
    BY <2>1, <2>4 DEF ServicePages
  <2> QED BY <2>1, <2>2, <2>3, <2>4 DEF Next, vars
<1> QED BY <1>1, <1>2, PTL DEF Spec

-----------------------------------------------------------------------------
(* What a tab shows, saves and holds *)

\* Whatever was opened, closed or answered since, a request that saves, approves,
\* synchronises or migrates names exactly the rows its dialog showed, and an alert that is
\* changed is the one in its form (theme/list-operate.js, notice/alert/list-operate.js and the
\* list-operate.js of views/devops).
THEOREM ShownRowsSaved == Spec => []SavesTheShownRow
<1>1. DialogsInv => SavesTheShownRow
  BY DEF DialogsInv, Held, CallsInv, Bound, SavesTheShownRow
<1> QED BY <1>1, DialogsInvInductive, PTL

\* The mask of a topic's dialog lets one save through until the dialog is opened again,
\* however slow the answers are (theme/list-operate.js, OpFreight.vue).
THEOREM SavedOncePerOpening == Spec => []OneSavePerOpening
<1>1. DialogsInv => OneSavePerOpening
  BY DEF DialogsInv, Held, DialogInv, Fits, OneSavePerOpening
<1> QED BY <1>1, DialogsInvInductive, PTL

LEMMA VisitTypes == Spec => []VisitTypeOK
<1>1. Init => VisitTypeOK
  BY DEF Init, VisitInit, VisitTypeOK, constantRouterMap
<1>2. ASSUME NEW u, NEW to PROVE Shown(u, to) \in AllRoutes \cup constantRouterMap
  <2>1. RoutesOf[(u \in Admins)] \subseteq AllRoutes
    BY DEF RoutesOf, filterAsyncRouter
  <2>2. "Welcome" \in AllRoutes
    <3>1. [name |-> "Welcome", up |-> "home", role |-> NoRole, label |-> TRUE, hidden |-> FALSE]
            \in RouteTable
      BY DEF RouteTable, CommonRoutes, Routes
    <3> QED BY <3>1 DEF AllRoutes
  <2> QED BY <2>1, <2>2 DEF Shown, constantRouterMap
<1>3. VisitTypeOK /\ [Next]_vars => VisitTypeOK'
  <2> SUFFICES ASSUME VisitTypeOK, [Next]_vars PROVE VisitTypeOK'
    OBVIOUS
  <2>1. CASE UNCHANGED visitVars
    BY <2>1 DEF visitVars, VisitTypeOK
  <2>2. CASE VisitNext
    BY <1>2, <2>2 DEF VisitNext, Enter, Go, Leave, VisitTypeOK, constantRouterMap
  <2>3. VisitNext \/ UNCHANGED visitVars
    BY DEF Next, Turn, Operate, ServicePages, Answer, vars
  <2> QED BY <2>1, <2>2, <2>3
<1> QED BY <1>1, <1>3, PTL DEF Spec

\* Types of all pages: the route shown is one of the table's or a fixed one, dialogs and
\* selections hold rows of the table, no more requests are under way than the bound, and the
\* selects and the runs of services hold what they may (the data functions of the pages).
THEOREM PortalTypesCorrect == Spec => []PortalTypeOK
<1>1. DialogsInv /\ TableInv => PartsTypeOK /\ QueryTypeOK
  BY DEF DialogsInv, Held, DialogInv, CallsInv, TableInv, PartsTypeOK
<1>2. ConsoleInv => ConsoleTypeOK
  BY DEF ConsoleInv, RunInv, PagesInv, ConsoleTypeOK
<1>3. Spec => []ConsoleInv
  BY PagesImplementConsole, ConsoleInvariance, PTL
<1> QED BY <1>1, <1>2, <1>3, VisitTypes, TableInvInductive, DialogsInvInductive, PTL DEF PortalTypeOK
=============================================================================
