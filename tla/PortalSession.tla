--------------------------- MODULE PortalSession ---------------------------
(***************************************************************************)
(* Who is logged in: the server's session and the cookie 'login', which    *)
(* all tabs of a browser share, and in every tab what the router and the   *)
(* store remember of a user until the page is loaded again.                *)
(***************************************************************************)
EXTENDS PortalRoutes

CONSTANTS
  Tabs,     \* tabs of the browser
  Users,    \* users that log in
  Admins,   \* those the portal calls admin
  Nobody,   \* no session, no user
  Targets,  \* routes users navigate to
  Patient   \* bound: users wait for what the login form they have sent leads to

ASSUME SessionAssumption ==
  /\ Admins \subseteq Users /\ Nobody \notin Users
  /\ Targets \subseteq AllRoutes
  /\ "home" \in Targets  \* the guard itself leads there (permission.js)
  /\ Patient \in BOOLEAN

VARIABLES
  cookie,   \* the cookie is set
  session,  \* the user of the server's session
  tab       \* tab[t]: what the page loaded in tab t remembers

sessionVars == <<cookie, session, tab>>

Places == AllRoutes \cup constantRouterMap \cup {"blank"}
Tab == [at : Places,                  \* the route shown
        asks : SUBSET Places,         \* navigations that wait for getUserInfo
        who : Users \cup {Nobody},    \* userInfo
        permissions : SUBSET Roles,   \* of the RouteMenu, which only collects
        tree : SUBSET AllRoutes,      \* originRouteArr: filtering it removes children for good
        routes : SUBSET AllRoutes,    \* added to the router
        menus : SUBSET AllRoutes,
        reSubmit : BOOLEAN,           \* the login form has sent a request
        hasError : BOOLEAN,           \* and shows that it failed
        leaving : BOOLEAN]            \* a logout is under way

\* A page that has just been loaded.
Loaded == [at |-> "blank", asks |-> {}, who |-> Nobody, permissions |-> {},
           tree |-> AllRoutes, routes |-> {}, menus |-> {}, reSubmit |-> FALSE,
           hasError |-> FALSE, leaving |-> FALSE]

SessionTypeOK ==
  /\ cookie \in BOOLEAN
  /\ session \in Users \cup {Nobody}
  /\ tab \in [Tabs -> Tab]

SessionInit ==
  /\ cookie = FALSE /\ session = Nobody
  /\ tab = [t \in Tabs |-> [Loaded EXCEPT !.at = "login"]]

\* Mutant: every route of the portal is added, and the menu alone hides what is not granted.
Resolve_Any(page, to) == IF to = "home" THEN "Welcome" ELSE to

\* What the router shows for an address: "*" stands for all that is not registered.
Resolve(page, to) ==
  IF to = "home" THEN "Welcome"
  ELSE IF to \in page.routes \cup constantRouterMap THEN to ELSE "404"

\* The guard of every navigation.  Without permissions it asks the server for them first.
beforeEach(hasLogin, page, to) ==
  LET next == IF to = "login" THEN "home" ELSE to
  IN  CASE ~hasLogin -> [page EXCEPT !.at = "login", !.hasError = FALSE]
        [] hasLogin /\ page.permissions # {} -> [page EXCEPT !.at = Resolve(page, next)]
        [] OTHER -> [page EXCEPT !.asks = @ \cup {next}]

Move(t, page) == tab' = [tab EXCEPT ![t] = page]

\* A link of the page, the menu or an address typed in.
Navigate(t, to) ==
  /\ tab[t].at # to
  /\ Patient => ~tab[t].reSubmit
  /\ Move(t, beforeEach(cookie, tab[t], to))
  /\ UNCHANGED <<cookie, session>>

\* The page is loaded again: its memory is gone, the address stays.
Reload(t) ==
  /\ tab[t].at # "blank"
  /\ Patient => ~tab[t].reSubmit
  /\ Move(t, beforeEach(cookie, Loaded, tab[t].at))
  /\ UNCHANGED <<cookie, session>>

\* Mutant: the page is not loaded again.
Expelled_InPlace(page) == [page EXCEPT !.at = "login", !.leaving = FALSE]

\* The address becomes the login form's, and the page is loaded again.
Expelled(page) == [Loaded EXCEPT !.at = "login"]

\* removeLogin and a page load at the login form: the end of a logout, and what every
\* answer with status code 1000 (no session) does.
Expel(t) == cookie' = FALSE /\ Move(t, Expelled(tab[t]))

-----------------------------------------------------------------------------
(* User information *)

\* The mutations SET_USER_INFO, SET_PERMISSIONS and SET_MENU, and addRoutes.
SET_USER_INFO(page, user) == [page EXCEPT !.who = user]
SET_PERMISSIONS(page, admin) ==
  LET perms == page.permissions \cup Granted(admin)
      tree == filterAsyncRouter(page.tree, perms)
  IN  [page EXCEPT !.permissions = perms, !.tree = tree, !.routes = @ \cup tree]

\* Mutant: the menu takes in the routes that ask for no login.
SET_MENU_Common(page) ==
  [page EXCEPT !.menus = menuTree(page.tree, page.permissions) \cup constantRouterMap]

\* The menu: what filtering has left, without what is hidden.
SET_MENU(page) == [page EXCEPT !.menus = menuTree(page.tree, page.permissions)]

Informed(page, user) == SET_MENU(SET_PERMISSIONS(SET_USER_INFO(page, user), user \in Admins))

\* The answer resumes the navigation that asked, also when the user has gone on since: the
\* router follows a redirection of a navigation it has given up.
getUserInfo(t, to) ==
  /\ to \in tab[t].asks /\ session # Nobody
  /\ Move(t, beforeEach(cookie, Informed([tab[t] EXCEPT !.asks = @ \ {to}], session), to))
  /\ UNCHANGED <<cookie, session>>

\* No session: status code 1000.
getUserInfoRefused(t, to) ==
  /\ to \in tab[t].asks /\ session = Nobody
  /\ Expel(t)
  /\ UNCHANGED session

\* Nobody catches another failure: the navigation is never resumed.
getUserInfoFails(t, to) ==
  /\ to \in tab[t].asks
  /\ Move(t, [tab[t] EXCEPT !.asks = @ \ {to}])
  /\ UNCHANGED <<cookie, session>>

-----------------------------------------------------------------------------
(* Login and logout *)

\* reSubmit keeps the form from being sent again before it is answered.
handleLogin(t) ==
  /\ tab[t].at = "login" /\ ~tab[t].reSubmit
  /\ Patient => tab[t].asks = {}
  /\ Move(t, [tab[t] EXCEPT !.reSubmit = TRUE])
  /\ UNCHANGED <<cookie, session>>

\* The server has made a session for the user; the address the guard had kept comes next.
loginAnswered(t, user, to) ==
  /\ tab[t].reSubmit
  /\ session' = user /\ cookie' = TRUE
  /\ Move(t, beforeEach(TRUE, [tab[t] EXCEPT !.reSubmit = FALSE], to))

\* A wrong password, or the answer is lost.
loginFailed(t) ==
  /\ tab[t].reSubmit
  /\ Move(t, [tab[t] EXCEPT !.reSubmit = FALSE, !.hasError = tab[t].at = "login"])
  /\ session' \in Users \cup {session}
  /\ UNCHANGED cookie

logout(t) ==
  /\ tab[t].at \notin {"blank", "login"} /\ ~tab[t].leaving
  /\ Move(t, [tab[t] EXCEPT !.leaving = TRUE])
  /\ UNCHANGED <<cookie, session>>

clearSysSession(t) ==
  /\ tab[t].leaving
  /\ session' = Nobody
  /\ Expel(t)

\* The answer is lost: only the server may have logged the user out.
clearSysSessionFails(t) ==
  /\ tab[t].leaving
  /\ session' \in {Nobody, session}
  /\ Move(t, [tab[t] EXCEPT !.leaving = FALSE])
  /\ UNCHANGED cookie

\* The server forgets a session that has not been used for long.
SessionExpires ==
  /\ session # Nobody
  /\ session' = Nobody
  /\ UNCHANGED <<cookie, tab>>

SessionStep(t) ==
  \/ \E to \in Targets : Navigate(t, to)
  \/ Reload(t)
  \/ \E to \in tab[t].asks : getUserInfo(t, to) \/ getUserInfoRefused(t, to) \/ getUserInfoFails(t, to)
  \/ handleLogin(t) \/ loginFailed(t)
  \/ \E user \in Users, to \in Targets : loginAnswered(t, user, to)
  \/ logout(t) \/ clearSysSession(t) \/ clearSysSessionFails(t)
SessionNext == SessionExpires \/ \E t \in Tabs : SessionStep(t)
SessionSpec == SessionInit /\ [][SessionNext]_sessionVars

-----------------------------------------------------------------------------
(* Properties *)

\* A tab never offers one user what another was granted: what it remembers is exactly
\* what the user it shows is granted, and nobody else is logged in (permission.js,
\* user.js; only a page load empties the RouteMenu).
OwnPermissions ==
  \A t \in Tabs : tab[t].who # Nobody =>
    /\ session \in {tab[t].who, Nobody}
    /\ tab[t].permissions = Granted(tab[t].who \in Admins)
    /\ tab[t].routes = filterAsyncRouter(AllRoutes, tab[t].permissions)

\* Every page that asks for a role the user has is registered and in the menu: the roles of
\* the nodes above it were filled in, and filtering never removed it (route-menu.js).
GrantedPagesRegistered ==
  \A t \in Tabs, r \in AllRoutes :
    RoleOf(r) \in tab[t].permissions => r \in tab[t].routes /\ r \in tab[t].menus

\* "The routes there are now are all ones the user may visit" (permission.js:42).
RoutesOfTheSession ==
  \A t \in Tabs : session # Nobody /\ tab[t].at \in AllRoutes =>
    tab[t].routes \subseteq filterAsyncRouter(AllRoutes, Granted(session \in Admins))

\* The tab whose visit is followed: a user and a page from the answer about the user to the
\* page load that forgets both.
Me == CHOOSE t \in Tabs : TRUE
visiting == tab[Me].who # Nobody
V == INSTANCE Visit WITH user <- tab[Me].who,
                         page <- IF visiting THEN tab[Me].at ELSE "login"

\* A tab shows its user only what that user was granted, from the answer about the user on
\* until the page is loaded again: the visits the pages rely on.
VisitImplemented == V!VisitSpec
=============================================================================
