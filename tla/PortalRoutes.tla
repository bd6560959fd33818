---------------------------- MODULE PortalRoutes ----------------------------
(***************************************************************************)
(* The portal's table of routes (router/main) and the pure part of         *)
(* RouteMenu: which permissions a user gets, which routes are registered   *)
(* for them and which of those the menu offers.                            *)
(***************************************************************************)
EXTENDS Integers, FiniteSets

Top == "top"        \* the parent of a route of the first level
NoRole == "none"    \* a route without meta.role

\* Routes with one parent: the role they ask for, whether they have a label.
Routes(names, up, role, label) ==
  {[name |-> n, up |-> up, role |-> role, label |-> label, hidden |-> FALSE] : n \in names}

CommonRoutes ==
  Routes({"home"}, Top, NoRole, FALSE) \cup Routes({"Welcome"}, "home", NoRole, TRUE)
  \cup Routes({"envHome", "serviceHome", "instanceHome", "serviceAddHome", "instanceAddHome"},
              "home", NoRole, FALSE)

ThemeRoutes ==
  Routes({"theme"}, Top, NoRole, FALSE) \cup Routes({"themeNest"}, "theme", NoRole, FALSE)
  \cup Routes({"themeList"}, "themeNest", NoRole, TRUE)
  \cup Routes({"themeDetail"}, "themeNest", NoRole, FALSE)

ConsumerRoutes ==
  Routes({"consumer"}, Top, NoRole, FALSE) \cup Routes({"consumerNest"}, "consumer", NoRole, FALSE)
  \cup Routes({"consumerList"}, "consumerNest", NoRole, TRUE)
  \cup Routes({"consumerDetail"}, "consumerNest", NoRole, FALSE)

NoticeRoutes ==
  Routes({"notice"}, Top, NoRole, TRUE) \cup Routes({"noticeNest"}, "notice", NoRole, FALSE)
  \cup Routes({"noticeList", "noticeDelay"}, "noticeNest", NoRole, TRUE)

HostRoutes ==
  Routes({"host"}, Top, NoRole, FALSE) \cup Routes({"hostNest"}, "host", NoRole, FALSE)
  \cup Routes({"hostList", "hostDetail"}, "hostNest", NoRole, FALSE)

\* The consoles' pages ask for admin, and the node above them for a role nobody is given.
RocketmqRoutes ==
  Routes({"rocketmqcmd"}, "devopsNest", "me_rocketmq_node", TRUE)
  \cup Routes({"statsAll", "updatePerm", "getBrokerConfig", "consumerStatusAll", "clusterList",
               "topicStatus", "InMsg24HourTop"}, "rocketmqcmd", "admin", TRUE)
KafkaRoutes ==
  Routes({"kafkacmd"}, "devopsNest", "me_kafka_node", TRUE)
  \cup Routes({"ConsumerSummary", "TopicSummary"}, "kafkacmd", "admin", TRUE)

DevopsRoutes ==
  Routes({"devops"}, Top, NoRole, TRUE) \cup Routes({"devopsNest"}, "devops", NoRole, FALSE)
  \cup Routes({"messageSearch"}, "devopsNest", NoRole, TRUE)
  \cup Routes({"clusterTransfer", "themeTransfer", "consumerTransfer"}, "devopsNest", "admin", TRUE)
  \cup RocketmqRoutes \cup KafkaRoutes

\* Everything is in the table, ended by the route that sends unknown addresses to /404.
RouteTable ==
  CommonRoutes \cup ThemeRoutes \cup ConsumerRoutes \cup NoticeRoutes \cup DevopsRoutes
  \cup HostRoutes
  \cup {[name |-> "star", up |-> Top, role |-> NoRole, label |-> FALSE, hidden |-> TRUE]}

AllRoutes == {r.name : r \in RouteTable}
asyncRouterMap == [n \in AllRoutes |-> CHOOSE r \in RouteTable : r.name = n]
constantRouterMap == {"login", "403", "404", "500"}

RoleOf(r) == asyncRouterMap[r].role
Roles == {RoleOf(r) : r \in AllRoutes} \cup {"commonUser"}

\* Mutant: a role is granted without the roles of the nodes above its routes.
RolesAbove_None(role) == {}

\* The roles of the parents of the routes that ask for role, if those parents ask for one.
RolesAbove(role) ==
  {asyncRouterMap[asyncRouterMap[r].up].role :
     r \in {x \in AllRoutes : RoleOf(x) = role /\ asyncRouterMap[x].up # Top}} \ {NoRole}

\* The role and, upwards, the roles of all nodes above a route that asks for it.
fillPerms[role \in Roles] == {role} \cup UNION {fillPerms[above] : above \in RolesAbove(role)}

Ancestors[r \in AllRoutes] ==
  LET up == asyncRouterMap[r].up IN IF up = Top THEN {} ELSE {up} \cup Ancestors[up]

hasPermission(perms, r) == RoleOf(r) = NoRole \/ RoleOf(r) \in perms

\* The routes of a tree a user may reach: a route goes with the node above it.
filterAsyncRouter(tree, perms) ==
  {r \in tree : \A x \in {r} \cup Ancestors[r] : x \in tree /\ hasPermission(perms, x)}

\* The entries of the menu: labelled routes, none hidden or forbidden on the way to them.
menuTree(tree, perms) ==
  {r \in tree : /\ asyncRouterMap[r].label
                /\ \A x \in {r} \cup Ancestors[r] :
                     x \in tree /\ ~asyncRouterMap[x].hidden /\ hasPermission(perms, x)}

\* How deep the tree is; a flat one counts as two levels.
getFloor(tree) ==
  LET deepest == CHOOSE n \in 1 .. 6 : /\ \E r \in tree : Cardinality(Ancestors[r]) + 1 = n
                                       /\ \A r \in tree : Cardinality(Ancestors[r]) + 1 <= n
  IN  IF deepest = 1 THEN 2 ELSE deepest

\* What SET_PERMISSIONS gives a user: everybody is a commonUser.
Granted(admin) ==
  fillPerms["commonUser"] \cup IF admin THEN fillPerms["admin"] ELSE {}

checkPerm(perms, wanted) == wanted # {} /\ perms \cap wanted # {}
=============================================================================
