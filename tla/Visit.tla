-------------------------------- MODULE Visit --------------------------------
(***************************************************************************)
(* What a tab of the portal promises the pages: while it shows one, one    *)
(* user is known, and it shows nothing that user was not granted.          *)
(***************************************************************************)
EXTENDS PortalRoutes

CONSTANTS
  Users,    \* users that log in
  Admins,   \* those the portal calls admin
  Nobody,   \* no user
  Targets   \* routes users navigate to

ASSUME VisitAssumption ==
  /\ Admins \subseteq Users /\ Nobody \notin Users
  /\ Targets \subseteq AllRoutes

VARIABLES
  user,   \* the user the pages work for
  page    \* the route shown; "login" without a user

visitVars == <<user, page>>

GrantedTo == [admin \in BOOLEAN |-> Granted(admin)]
RoutesOf == [admin \in BOOLEAN |-> filterAsyncRouter(AllRoutes, GrantedTo[admin])]

\* What an address shows to a user.
Shown(u, to) ==
  IF to = "home" THEN "Welcome"
  ELSE IF to \in RoutesOf[(u \in Admins)] \cup constantRouterMap THEN to ELSE "404"

VisitInit == user = Nobody /\ page = "login"

Enter(u, to) == user = Nobody /\ user' = u /\ page' = Shown(u, to)
Go(to) == user # Nobody /\ page' = Shown(user, to) /\ page' # page /\ UNCHANGED user
Leave == user # Nobody /\ user' = Nobody /\ page' = "login"

VisitNext ==
  \/ \E u \in Users, to \in Targets : Enter(u, to)
  \/ \E to \in Targets : Go(to)
  \/ Leave
VisitSpec == VisitInit /\ [][VisitNext]_visitVars

VisitTypeOK ==
  user \in Users \cup {Nobody} /\ page \in AllRoutes \cup constantRouterMap

\* The page shown asks for no role its user has not.
PageIsGranted ==
  IF user = Nobody THEN page = "login"
  ELSE page \in RoutesOf[(user \in Admins)] \cup constantRouterMap
=============================================================================
