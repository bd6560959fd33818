------------------------ MODULE PortalSessionProofs ------------------------
(***************************************************************************)
(* Proofs about PortalSession for any users, admins and routes they go to, *)
(* and for the single tab of a browser.                                    *)
(***************************************************************************)
EXTENDS PortalSession, TLAPS

-----------------------------------------------------------------------------
(* The table of routes *)

\* The nodes with routes below them: those of the first level, and those inside these.
Sections == {"home", "theme", "consumer", "notice", "host", "devops"}
Nests == {"themeNest", "consumerNest", "noticeNest", "hostNest", "devopsNest"}
Consoles == {"rocketmqcmd", "kafkacmd"}
Nodes == Sections \cup Nests \cup Consoles
AboveNest == {<<"themeNest", "theme">>, <<"consumerNest", "consumer">>, <<"noticeNest", "notice">>,
              <<"hostNest", "host">>, <<"devopsNest", "devops">>}
NodeRoles == {"me_rocketmq_node", "me_kafka_node"}

\* What the table says of a node, of the home page and of a route that asks for a role.
Listed(r) ==
  /\ r.up \in Nodes \cup {Top}
  /\ r.name \in Sections => r.up = Top
  /\ r.name \in Nests => <<r.name, r.up>> \in AboveNest
  /\ r.name \in Consoles => r.up = "devopsNest"
  /\ r.name \in Nodes => r.hidden = FALSE
  /\ r.name \in Sections \cup Nests => r.role = NoRole
  /\ r.name = "Welcome" => r.up = "home" /\ r.role = NoRole
  /\ r.role \in {NoRole, "admin"} \cup NodeRoles
  /\ r.role = "me_rocketmq_node" <=> r.name = "rocketmqcmd"
  /\ r.role = "me_kafka_node" <=> r.name = "kafkacmd"
  /\ r.role = "admin" => r.up \in {"devopsNest"} \cup Consoles
  /\ r.up \in Consoles => r.role = "admin"
  /\ r.role # NoRole => r.label = TRUE /\ r.hidden = FALSE
  /\ r.name = "statsAll" => r.up = "rocketmqcmd"
  /\ r.name = "TopicSummary" => r.up = "kafkacmd"

LEMMA RowsListed == \A r \in RouteTable : Listed(r)
<1> USE DEF Listed, Sections, Nests, Consoles, Nodes, AboveNest, NodeRoles, Top, NoRole
<1>1. \A r \in CommonRoutes : Listed(r)
  BY DEF Routes, CommonRoutes
<1>2. \A r \in ThemeRoutes : Listed(r)
  BY DEF Routes, ThemeRoutes
<1>3. \A r \in ConsumerRoutes : Listed(r)
  BY DEF Routes, ConsumerRoutes
<1>4. \A r \in NoticeRoutes : Listed(r)
  BY DEF Routes, NoticeRoutes
<1>5. \A r \in HostRoutes : Listed(r)
  BY DEF Routes, HostRoutes
<1>6. \A r \in RocketmqRoutes : Listed(r)
  BY DEF Routes, RocketmqRoutes
<1>7. \A r \in KafkaRoutes : Listed(r)
  BY DEF Routes, KafkaRoutes
<1> QED BY <1>1, <1>2, <1>3, <1>4, <1>5, <1>6, <1>7 DEF Routes, RouteTable, DevopsRoutes

LEMMA RowOf ==
  ASSUME NEW n \in AllRoutes
  PROVE  asyncRouterMap[n].name = n /\ Listed(asyncRouterMap[n])
<1>1. \E r \in RouteTable : r.name = n
  BY DEF AllRoutes
<1>2. asyncRouterMap[n] = CHOOSE r \in RouteTable : r.name = n
  BY DEF asyncRouterMap
<1>3. asyncRouterMap[n] \in RouteTable /\ asyncRouterMap[n].name = n
  BY <1>1, <1>2
<1> QED BY <1>3, RowsListed

LEMMA NodesAreRoutes == Nodes \cup {"Welcome", "statsAll", "TopicSummary"} \subseteq AllRoutes
<1> DEFINE row(n, up, role, label) ==
             [name |-> n, up |-> up, role |-> role, label |-> label, hidden |-> FALSE]
<1> USE DEF Routes
<1>1. /\ row("home", Top, NoRole, FALSE) \in RouteTable
      /\ row("Welcome", "home", NoRole, TRUE) \in RouteTable
  BY DEF RouteTable, CommonRoutes
<1>2. /\ row("theme", Top, NoRole, FALSE) \in RouteTable
      /\ row("themeNest", "theme", NoRole, FALSE) \in RouteTable
  BY DEF RouteTable, ThemeRoutes
<1>3. /\ row("consumer", Top, NoRole, FALSE) \in RouteTable
      /\ row("consumerNest", "consumer", NoRole, FALSE) \in RouteTable
  BY DEF RouteTable, ConsumerRoutes
<1>4. /\ row("notice", Top, NoRole, TRUE) \in RouteTable
      /\ row("noticeNest", "notice", NoRole, FALSE) \in RouteTable
  BY DEF RouteTable, NoticeRoutes
<1>5. /\ row("host", Top, NoRole, FALSE) \in RouteTable
      /\ row("hostNest", "host", NoRole, FALSE) \in RouteTable
  BY DEF RouteTable, HostRoutes
<1>6. /\ row("devops", Top, NoRole, TRUE) \in RouteTable
      /\ row("devopsNest", "devops", NoRole, FALSE) \in RouteTable
  BY DEF RouteTable, DevopsRoutes
<1>7. /\ row("rocketmqcmd", "devopsNest", "me_rocketmq_node", TRUE) \in RouteTable
      /\ row("statsAll", "rocketmqcmd", "admin", TRUE) \in RouteTable
  BY DEF RouteTable, DevopsRoutes, RocketmqRoutes
<1>8. /\ row("kafkacmd", "devopsNest", "me_kafka_node", TRUE) \in RouteTable
      /\ row("TopicSummary", "kafkacmd", "admin", TRUE) \in RouteTable
  BY DEF RouteTable, DevopsRoutes, KafkaRoutes
<1>9. {"home", "Welcome", "theme", "themeNest", "consumer", "consumerNest"} \subseteq AllRoutes
  BY <1>1, <1>2, <1>3 DEF AllRoutes
<1>10. {"notice", "noticeNest", "host", "hostNest", "devops", "devopsNest"} \subseteq AllRoutes
  BY <1>4, <1>5, <1>6 DEF AllRoutes
<1>11. {"rocketmqcmd", "statsAll", "kafkacmd", "TopicSummary"} \subseteq AllRoutes
  BY <1>7, <1>8 DEF AllRoutes
<1> QED BY <1>9, <1>10, <1>11 DEF Nodes, Sections, Nests, Consoles

\* The nodes from u upwards.
Upwards(u) ==
  {x \in Nodes : \/ x = u \/ <<u, x>> \in AboveNest
                 \/ u \in Consoles /\ x \in {"devopsNest", "devops"}}

\* Ancestors is defined by recursion; the tree is four levels deep.
LEMMA AncestorsAre == \A r \in AllRoutes : Ancestors[r] = Upwards(asyncRouterMap[r].up)
<1> DEFINE up(r) == asyncRouterMap[r].up
<1> USE NodesAreRoutes
<1>1. \A r \in AllRoutes : up(r) \in Nodes \cup {Top}
  BY RowOf DEF Listed
<1>2. ASSUME NEW u \in Nodes
      PROVE  /\ u \in Sections => up(u) = Top
             /\ u \in Nests => <<u, up(u)>> \in AboveNest
             /\ u \in Consoles => up(u) = "devopsNest"
  <2>1. asyncRouterMap[u].name = u /\ Listed(asyncRouterMap[u])
    BY RowOf
  <2> QED BY <2>1 DEF Listed
<1> HIDE DEF up
<1>3. Top \notin Nodes /\ Upwards(Top) = {}
  BY DEF Upwards, AboveNest, Top, Nodes, Sections, Nests, Consoles
<1>4. ASSUME NEW u \in Nodes PROVE Upwards(u) = {u} \cup Upwards(up(u))
  <2> USE DEF Upwards, AboveNest, Sections, Nests, Consoles, Nodes
  <2>1. CASE u \in Sections
    BY <1>2, <1>3, <2>1 DEF Top
  <2>2. CASE u \in Nests
    BY <1>2, <2>2
  <2>3. CASE u \in Consoles
    BY <1>2, <2>3
  <2> QED BY <2>1, <2>2, <2>3
<1> DEFINE w == [r \in AllRoutes |-> Upwards(up(r))]
<1>5. \A r \in AllRoutes : w[r] = IF up(r) = Top THEN {} ELSE {up(r)} \cup w[up(r)]
  BY <1>1, <1>3, <1>4
<1>6. w = [r \in AllRoutes |-> LET u == asyncRouterMap[r].up
                               IN  IF u = Top THEN {} ELSE {u} \cup w[u]]
  BY <1>5 DEF up
<1> HIDE DEF w
<1>7. Ancestors = [r \in AllRoutes |-> LET u == asyncRouterMap[r].up
                                       IN  IF u = Top THEN {} ELSE {u} \cup Ancestors[u]]
  BY <1>6, Zenon DEF Ancestors
<1>8. \A r \in AllRoutes : Ancestors[r] = IF up(r) = Top THEN {} ELSE {up(r)} \cup Ancestors[up(r)]
  BY <1>7 DEF up
<1>9. ASSUME NEW r \in AllRoutes, up(r) # Top, Ancestors[up(r)] = Upwards(up(up(r)))
      PROVE  Ancestors[r] = Upwards(up(r))
  BY <1>1, <1>4, <1>8, <1>9
<1>10. ASSUME NEW r \in AllRoutes, up(r) = Top PROVE Ancestors[r] = Upwards(up(r))
  BY <1>3, <1>8, <1>10
<1>11. ASSUME NEW u \in Sections PROVE Ancestors[u] = Upwards(up(u))
  BY <1>2, <1>10 DEF Nodes
<1>12. ASSUME NEW u \in Nests PROVE Ancestors[u] = Upwards(up(u))
  <2>1. up(u) \in Sections /\ up(u) # Top /\ u \in AllRoutes
    BY <1>2 DEF AboveNest, Sections, Nodes, Top
  <2> QED BY <1>9, <1>11, <2>1
<1>13. ASSUME NEW u \in Consoles PROVE Ancestors[u] = Upwards(up(u))
  <2>1. up(u) \in Nests /\ up(u) # Top /\ u \in AllRoutes
    BY <1>2 DEF Nests, Nodes, Top
  <2> QED BY <1>9, <1>12, <2>1
<1>14. ASSUME NEW r \in AllRoutes PROVE Ancestors[r] = Upwards(up(r))
  BY <1>1, <1>9, <1>10, <1>11, <1>12, <1>13 DEF Nodes
<1> QED BY <1>14 DEF up

\* Everybody comes to the home page; the nodes above a route are routes, and those above them
\* are above it too.
LEMMA TreeFacts ==
  /\ {"home", "Welcome"} \subseteq AllRoutes
  /\ \A x \in {"Welcome"} \cup Ancestors["Welcome"] : RoleOf(x) = NoRole
  /\ \A r \in AllRoutes : /\ Ancestors[r] \subseteq AllRoutes
                          /\ \A x \in Ancestors[r] : Ancestors[x] \subseteq Ancestors[r]
<1> USE NodesAreRoutes
<1>1. ASSUME NEW r \in AllRoutes, NEW x \in Ancestors[r]
      PROVE  x \in AllRoutes /\ Ancestors[x] \subseteq Ancestors[r]
  <2>1. x \in Nodes /\ x \in Upwards(asyncRouterMap[r].up)
    BY AncestorsAre DEF Upwards
  <2>2. asyncRouterMap[x].name = x /\ Listed(asyncRouterMap[x])
    BY <2>1, RowOf
  <2>3. Upwards(asyncRouterMap[x].up) \subseteq Upwards(x)
    BY <2>1, <2>2 DEF Listed, Upwards, AboveNest, Nodes, Sections, Nests, Consoles, Top
  <2>4. Upwards(x) \subseteq Upwards(asyncRouterMap[r].up)
    BY <2>1 DEF Upwards, AboveNest, Consoles
  <2> QED BY <2>1, <2>3, <2>4, AncestorsAre
<1>2. "home" \in AllRoutes /\ "Welcome" \in AllRoutes
  BY DEF Nodes, Sections
<1>3. /\ asyncRouterMap["Welcome"].up = "home" /\ RoleOf("Welcome") = NoRole
      /\ RoleOf("home") = NoRole
  BY <1>2, RowOf DEF Listed, RoleOf, Sections
<1>4. Ancestors["Welcome"] \subseteq {"home"}
  BY <1>2, <1>3, AncestorsAre DEF Upwards, AboveNest, Consoles
<1> QED BY <1>1, <1>2, <1>3, <1>4

\* fillPerms is defined by recursion too, along the roles of the nodes above.
LEMMA GrantsAre ==
  /\ Roles = {NoRole, "admin", "commonUser"} \cup NodeRoles
  /\ Granted(FALSE) = {"commonUser"}
  /\ Granted(TRUE) = {"commonUser", "admin"} \cup NodeRoles
<1> USE NodesAreRoutes DEF NodeRoles, NoRole
<1>1. ASSUME NEW r \in AllRoutes
      PROVE  /\ asyncRouterMap[r].name = r /\ Listed(asyncRouterMap[r])
             /\ RoleOf(r) = asyncRouterMap[r].role
  BY RowOf DEF RoleOf
<1>2. /\ RoleOf("rocketmqcmd") = "me_rocketmq_node" /\ RoleOf("kafkacmd") = "me_kafka_node"
      /\ RoleOf("home") = NoRole
  <2>1. {"rocketmqcmd", "kafkacmd", "home"} \subseteq AllRoutes
    BY DEF Nodes, Sections, Consoles
  <2>2. ASSUME NEW r \in {"rocketmqcmd", "kafkacmd", "home"}
        PROVE  /\ Listed(asyncRouterMap[r]) /\ asyncRouterMap[r].name = r
               /\ RoleOf(r) = asyncRouterMap[r].role
    BY <1>1, <2>1
  <2> QED BY <2>2 DEF Listed, Sections
<1>3. /\ RoleOf("statsAll") = "admin" /\ asyncRouterMap["statsAll"].up = "rocketmqcmd"
      /\ RoleOf("TopicSummary") = "admin" /\ asyncRouterMap["TopicSummary"].up = "kafkacmd"
  <2>1. ASSUME NEW r \in {"statsAll", "TopicSummary"}
        PROVE  /\ Listed(asyncRouterMap[r]) /\ asyncRouterMap[r].name = r
               /\ RoleOf(r) = asyncRouterMap[r].role
    BY <1>1
  <2> QED BY <2>1 DEF Listed, Consoles
<1>4. Roles = {NoRole, "admin", "commonUser"} \cup NodeRoles
  <2>1. {"rocketmqcmd", "kafkacmd", "home", "statsAll"} \subseteq AllRoutes
    BY DEF Nodes, Sections, Consoles
  <2>2. \A r \in AllRoutes : RoleOf(r) \in {NoRole, "admin"} \cup NodeRoles
    BY <1>1 DEF Listed
  <2> QED BY <1>2, <1>3, <2>1, <2>2 DEF Roles
<1>5. \A role : RolesAbove(role) = IF role = "admin" THEN NodeRoles ELSE {}
  <2> TAKE role
  <2>1. ASSUME NEW r \in AllRoutes, RoleOf(r) = role, asyncRouterMap[r].up # Top
        PROVE  LET up == asyncRouterMap[r].up
               IN  RoleOf(up) = NoRole \/ (role = "admin" /\ RoleOf(up) \in NodeRoles)
    <3>1. asyncRouterMap[r].up \in Nodes /\ (asyncRouterMap[r].up \in Consoles => role = "admin")
      BY <1>1, <2>1 DEF Listed
    <3>2. ASSUME NEW u \in Nodes
          PROVE  RoleOf(u) = NoRole \/ (u \in Consoles /\ RoleOf(u) \in NodeRoles)
      <4>1. CASE u \in Consoles
        BY <1>2, <4>1 DEF Consoles
      <4>2. CASE u \in Sections \cup Nests
        <5>1. /\ asyncRouterMap[u].name = u /\ Listed(asyncRouterMap[u])
              /\ RoleOf(u) = asyncRouterMap[u].role
          BY <1>1
        <5> QED BY <4>2, <5>1 DEF Listed
      <4> QED BY <4>1, <4>2 DEF Nodes
    <3> QED BY <3>1, <3>2
  <2>2. RolesAbove(role) \subseteq IF role = "admin" THEN NodeRoles ELSE {}
    BY <2>1 DEF RolesAbove, RoleOf
  <2>3. "me_rocketmq_node" \in RolesAbove("admin")
    <3>1. "statsAll" \in {x \in AllRoutes : RoleOf(x) = "admin" /\ asyncRouterMap[x].up # Top}
      BY <1>3 DEF Top
    <3> QED BY <1>2, <1>3, <3>1 DEF RolesAbove, RoleOf
  <2>4. "me_kafka_node" \in RolesAbove("admin")
    <3>1. "TopicSummary" \in {x \in AllRoutes : RoleOf(x) = "admin" /\ asyncRouterMap[x].up # Top}
      BY <1>3 DEF Top
    <3> QED BY <1>2, <1>3, <3>1 DEF RolesAbove, RoleOf
  <2> QED BY <2>2, <2>3, <2>4
<1> DEFINE w == [role \in Roles |-> IF role = "admin" THEN {"admin"} \cup NodeRoles ELSE {role}]
<1>6. w = [role \in Roles |-> {role} \cup UNION {w[above] : above \in RolesAbove(role)}]
  <2>1. ASSUME NEW role \in Roles
        PROVE  w[role] = {role} \cup UNION {w[above] : above \in RolesAbove(role)}
    <3>1. CASE role = "admin"
      <4>1. \A above \in NodeRoles : w[above] = {above}
        BY <1>4
      <4> HIDE DEF w
      <4>2. UNION {w[above] : above \in NodeRoles} = NodeRoles
        BY <4>1
      <4> QED BY <1>5, <3>1, <4>2 DEF w
    <3>2. CASE role # "admin"
      BY <1>5, <3>2
    <3> QED BY <3>1, <3>2
  <2> QED BY <2>1
<1> HIDE DEF w
<1>7. fillPerms = [role \in Roles |-> {role} \cup UNION {fillPerms[above] : above \in RolesAbove(role)}]
  BY <1>6, Zenon DEF fillPerms
<1>8. \A role \in Roles : role # "admin" => fillPerms[role] = {role}
  BY <1>5, <1>7
<1>9. fillPerms["admin"] = {"admin"} \cup NodeRoles
  <2>1. fillPerms["admin"] = {"admin"} \cup UNION {fillPerms[above] : above \in NodeRoles}
    BY <1>4, <1>5, <1>7
  <2>2. \A above \in NodeRoles : fillPerms[above] = {above}
    BY <1>4, <1>8
  <2>3. UNION {fillPerms[above] : above \in NodeRoles} = NodeRoles
    BY <2>2
  <2> QED BY <2>1, <2>3
<1> QED BY <1>4, <1>8, <1>9 DEF Granted

\* Who has the role of a page has the roles of the nodes above it, and nothing hides the page.
LEMMA GrantedPages ==
  ASSUME NEW admin \in BOOLEAN, NEW r \in AllRoutes, RoleOf(r) \in Granted(admin),
         NEW tree, tree = filterAsyncRouter(AllRoutes, Granted(admin))
  PROVE  r \in tree /\ r \in menuTree(tree, Granted(admin))
<1> DEFINE perms == Granted(admin)
<1>1. asyncRouterMap[r].name = r /\ Listed(asyncRouterMap[r]) /\ RoleOf(r) = asyncRouterMap[r].role
  BY RowOf DEF RoleOf
<1>2. perms = {"commonUser", "admin"} \cup NodeRoles
  <2>1. RoleOf(r) # "commonUser"
    BY <1>1 DEF Listed, NodeRoles, NoRole
  <2>2. admin = TRUE
    BY <2>1, GrantsAre
  <2> QED BY <2>2, GrantsAre
<1> HIDE DEF perms
<1>3. ASSUME NEW x \in {r} \cup Ancestors[r]
      PROVE  /\ x \in AllRoutes /\ hasPermission(perms, x) /\ asyncRouterMap[x].hidden = FALSE
  <2>1. CASE x = r
    <3>1. RoleOf(r) \in perms /\ RoleOf(r) # NoRole
      BY <1>2 DEF perms, NodeRoles, NoRole
    <3> QED BY <1>1, <2>1, <3>1 DEF Listed, hasPermission
  <2>2. CASE x \in Ancestors[r]
    <3>1. x \in Nodes /\ x \in AllRoutes
      BY <2>2, AncestorsAre, NodesAreRoutes DEF Upwards
    <3>2. /\ asyncRouterMap[x].name = x /\ Listed(asyncRouterMap[x])
          /\ RoleOf(x) = asyncRouterMap[x].role
      BY <3>1, RowOf DEF RoleOf
    <3>3. RoleOf(x) \in {NoRole} \cup NodeRoles
      BY <3>1, <3>2 DEF Listed, Nodes, NodeRoles, Consoles
    <3> QED BY <1>2, <3>1, <3>2, <3>3 DEF Listed, hasPermission
  <2> QED BY <2>1, <2>2
<1>4. asyncRouterMap[r].label = TRUE
  BY <1>1, <1>2 DEF Listed, perms, NodeRoles, NoRole
<1>5. \A x \in {r} \cup Ancestors[r] : x \in tree
  <2> TAKE x \in {r} \cup Ancestors[r]
  <2>1. x \in AllRoutes /\ {x} \cup Ancestors[x] \subseteq {r} \cup Ancestors[r]
    BY <1>3, TreeFacts
  <2> QED BY <1>3, <2>1 DEF filterAsyncRouter, perms
<1> QED BY <1>3, <1>4, <1>5 DEF menuTree, perms

-----------------------------------------------------------------------------
(* Filtering *)

\* Filtering a tree twice with the same permissions removes nothing more: a route goes with
\* the nodes above it.
LEMMA FilterTwice ==
  ASSUME NEW perms
  PROVE  LET tree == filterAsyncRouter(AllRoutes, perms)
         IN  filterAsyncRouter(tree, perms) = tree /\ tree \subseteq AllRoutes
<1> DEFINE tree == filterAsyncRouter(AllRoutes, perms)
<1>1. ASSUME NEW r \in tree, NEW x \in {r} \cup Ancestors[r]
      PROVE  x \in tree /\ hasPermission(perms, x)
  <2>1. r \in AllRoutes /\ x \in AllRoutes /\ {x} \cup Ancestors[x] \subseteq {r} \cup Ancestors[r]
    BY <1>1, TreeFacts DEF filterAsyncRouter
  <2> QED BY <1>1, <2>1 DEF filterAsyncRouter
<1> QED BY <1>1 DEF filterAsyncRouter

\* What filtering and the menu keep are routes of the tree.
LEMMA FilterTypes ==
  ASSUME NEW tree \in SUBSET AllRoutes, NEW perms
  PROVE  /\ filterAsyncRouter(tree, perms) \in SUBSET AllRoutes
         /\ menuTree(tree, perms) \in SUBSET AllRoutes
BY DEF filterAsyncRouter, menuTree

-----------------------------------------------------------------------------
(* Types *)

LEMMA BeforeEachTypes ==
  ASSUME NEW x \in Tab, NEW to \in Places, NEW hasLogin \in BOOLEAN
  PROVE  beforeEach(hasLogin, x, to) \in Tab
<1> DEFINE next == IF to = "login" THEN "home" ELSE to
<1>1. next \in Places /\ "login" \in Places
  BY TreeFacts DEF Places, constantRouterMap
<1>2. Resolve(x, next) \in Places
  BY <1>1, TreeFacts DEF Resolve, Places, constantRouterMap
<1>3. /\ [x EXCEPT !.at = "login", !.hasError = FALSE] \in Tab
      /\ [x EXCEPT !.at = Resolve(x, next)] \in Tab
      /\ [x EXCEPT !.asks = @ \cup {next}] \in Tab
  BY <1>1, <1>2 DEF Tab
<1>4. \/ beforeEach(hasLogin, x, to) = [x EXCEPT !.at = "login", !.hasError = FALSE]
      \/ beforeEach(hasLogin, x, to) = [x EXCEPT !.at = Resolve(x, next)]
      \/ beforeEach(hasLogin, x, to) = [x EXCEPT !.asks = @ \cup {next}]
  BY DEF beforeEach
<1> QED BY <1>3, <1>4

LEMMA LoadedTypes == Loaded \in Tab /\ [Loaded EXCEPT !.at = "login"] \in Tab
BY DEF Loaded, Tab, Places, constantRouterMap

\* A user is granted some of the roles there are.
LEMMA GrantedTypes ==
  ASSUME NEW user
  PROVE  Granted(user \in Admins) \subseteq Roles /\ Granted(user \in Admins) # {}
<1>1. (user \in Admins) \in BOOLEAN
  OBVIOUS
<1>2. \A admin \in BOOLEAN : Granted(admin) \subseteq Roles /\ Granted(admin) # {}
  BY GrantsAre
<1> QED BY <1>1, <1>2, Zenon

\* What the answer about a user makes a page remember.
LEMMA InformedFields ==
  ASSUME NEW x \in Tab, NEW user \in Users
  PROVE  /\ Informed(x, user) \in Tab
         /\ Informed(x, user).who = user
         /\ Informed(x, user).permissions = x.permissions \cup Granted(user \in Admins)
         /\ Informed(x, user).tree = filterAsyncRouter(x.tree, Informed(x, user).permissions)
         /\ Informed(x, user).routes = x.routes \cup Informed(x, user).tree
         /\ Informed(x, user).menus
              = menuTree(Informed(x, user).tree, Informed(x, user).permissions)
         /\ Informed(x, user).at = x.at /\ Informed(x, user).asks = x.asks
         /\ Informed(x, user).reSubmit = x.reSubmit
<1> DEFINE known == SET_USER_INFO(x, user)
           perms == x.permissions \cup Granted(user \in Admins)
           tree == filterAsyncRouter(x.tree, perms)
           permitted == [known EXCEPT !.permissions = perms, !.tree = tree, !.routes = @ \cup tree]
<1>1. known \in Tab /\ known = [x EXCEPT !.who = user]
  BY DEF SET_USER_INFO, Tab
<1>2. perms \in SUBSET Roles
  BY GrantedTypes DEF Tab
<1>3. tree \in SUBSET AllRoutes
  BY FilterTypes DEF Tab
<1>4. permitted = SET_PERMISSIONS(known, user \in Admins)
  BY <1>1 DEF SET_PERMISSIONS, Tab
<1> HIDE DEF perms, tree, known
<1>5. /\ permitted \in Tab
      /\ permitted.who = user /\ permitted.permissions = perms /\ permitted.tree = tree
      /\ permitted.routes = x.routes \cup tree /\ permitted.at = x.at /\ permitted.asks = x.asks
      /\ permitted.reSubmit = x.reSubmit
  BY <1>1, <1>2, <1>3 DEF Tab
<1>6. menuTree(tree, perms) \in SUBSET AllRoutes
  BY <1>3, FilterTypes
<1> HIDE DEF permitted
<1>7. Informed(x, user) = [permitted EXCEPT !.menus = menuTree(tree, perms)]
  BY <1>4, <1>5 DEF Informed, SET_MENU, known
<1> QED BY <1>5, <1>6, <1>7 DEF Tab, tree, perms

LEMMA SessionTypes ==
  ASSUME SessionTypeOK, [SessionNext]_sessionVars
  PROVE  SessionTypeOK'
<1> USE SessionAssumption DEF SessionTypeOK, Move
<1>1. CASE UNCHANGED sessionVars
  BY <1>1 DEF sessionVars
<1>2. CASE SessionExpires
  BY <1>2 DEF SessionExpires
<1> SUFFICES ASSUME NEW t \in Tabs, SessionStep(t) PROVE SessionTypeOK'
  BY <1>1, <1>2 DEF SessionNext
<1>3. Targets \subseteq Places
  BY DEF Places
<1>4. tab[t] \in Tab /\ tab[t].at \in Places /\ tab[t].asks \subseteq Places
  BY DEF Tab
<1>5. ASSUME NEW x \in Tab, tab' = [tab EXCEPT ![t] = x] PROVE tab' \in [Tabs -> Tab]
  BY <1>5
<1>6. ASSUME NEW to \in Targets, Navigate(t, to)
      PROVE  SessionTypeOK'
  BY <1>3, <1>4, <1>5, <1>6, BeforeEachTypes DEF Navigate
<1>7. CASE Reload(t)
  BY <1>4, <1>5, <1>7, BeforeEachTypes, LoadedTypes DEF Reload
<1>8. CASE Expel(t) /\ session' \in {session, Nobody}
  BY <1>5, <1>8, LoadedTypes DEF Expel, Expelled
<1>9. ASSUME NEW to \in tab[t].asks, getUserInfo(t, to)
      PROVE  SessionTypeOK'
  <2>1. [tab[t] EXCEPT !.asks = @ \ {to}] \in Tab
    BY <1>4 DEF Tab
  <2>2. session \in Users /\ to \in Places
    BY <1>4, <1>9 DEF getUserInfo
  <2>3. Informed([tab[t] EXCEPT !.asks = @ \ {to}], session) \in Tab
    BY <2>1, <2>2, InformedFields
  <2>4. beforeEach(cookie, Informed([tab[t] EXCEPT !.asks = @ \ {to}], session), to) \in Tab
    BY <2>2, <2>3, BeforeEachTypes
  <2> QED BY <1>5, <1>9, <2>4 DEF getUserInfo
<1>10. ASSUME NEW to \in tab[t].asks, getUserInfoFails(t, to)
       PROVE  SessionTypeOK'
  <2>1. [tab[t] EXCEPT !.asks = @ \ {to}] \in Tab
    BY <1>4 DEF Tab
  <2> QED BY <1>5, <1>10, <2>1 DEF getUserInfoFails
<1>11. CASE handleLogin(t)
  <2>1. [tab[t] EXCEPT !.reSubmit = TRUE] \in Tab
    BY <1>4 DEF Tab
  <2> QED BY <1>5, <1>11, <2>1 DEF handleLogin
<1>12. ASSUME NEW user \in Users, NEW to \in Targets, loginAnswered(t, user, to)
       PROVE  SessionTypeOK'
  <2>1. [tab[t] EXCEPT !.reSubmit = FALSE] \in Tab
    BY <1>4 DEF Tab
  <2>2. beforeEach(TRUE, [tab[t] EXCEPT !.reSubmit = FALSE], to) \in Tab
    BY <1>3, <2>1, BeforeEachTypes
  <2> QED BY <1>5, <1>12, <2>2 DEF loginAnswered
<1>13. CASE loginFailed(t)
  <2>1. [tab[t] EXCEPT !.reSubmit = FALSE, !.hasError = tab[t].at = "login"] \in Tab
    BY <1>4 DEF Tab
  <2> QED BY <1>5, <1>13, <2>1 DEF loginFailed
<1>14. CASE logout(t)
  <2>1. [tab[t] EXCEPT !.leaving = TRUE] \in Tab
    BY <1>4 DEF Tab
  <2> QED BY <1>5, <1>14, <2>1 DEF logout
<1>15. CASE clearSysSessionFails(t)
  <2>1. [tab[t] EXCEPT !.leaving = FALSE] \in Tab
    BY <1>4 DEF Tab
  <2> QED BY <1>5, <1>15, <2>1 DEF clearSysSessionFails
<1>16. ASSUME NEW to \in tab[t].asks, getUserInfoRefused(t, to)
       PROVE  SessionTypeOK'
  BY <1>8, <1>16 DEF getUserInfoRefused
<1>17. CASE clearSysSession(t)
  BY <1>8, <1>17 DEF clearSysSession
<1> QED BY <1>6, <1>7, <1>9, <1>10, <1>11, <1>12, <1>13, <1>14, <1>15, <1>16, <1>17 DEF SessionStep

\* The type invariant holds of every state a browser reaches.
THEOREM SessionTypeCorrect == SessionSpec => []SessionTypeOK
<1>1. SessionInit => SessionTypeOK
  <2> SUFFICES ASSUME SessionInit PROVE SessionTypeOK
    OBVIOUS
  <2> QED BY LoadedTypes DEF SessionInit, SessionTypeOK
<1> QED BY <1>1, SessionTypes, PTL DEF SessionSpec

-----------------------------------------------------------------------------
(* Whose pages a tab shows *)

\* A browser with one tab, whose user waits for what the login form leads to.
OneTab == Patient /\ \E t : Tabs = {t}

\* A page knows no user and has nothing of one; or it knows one, and then the cookie is set,
\* the login form is not shown and it remembers exactly what this user is granted.
Anonymous(x) ==
  x.who = Nobody /\ x.permissions = {} /\ x.tree = AllRoutes /\ x.routes = {}
Personal(x) ==
  /\ x.who \in Users
  /\ x.permissions = Granted(x.who \in Admins)
  /\ x.tree = filterAsyncRouter(AllRoutes, x.permissions) /\ x.routes = x.tree
  /\ x.menus = menuTree(x.tree, x.permissions)
  /\ x.at # "login" /\ ~x.reSubmit
OwnTab(x) ==
  /\ Anonymous(x) \/ (Personal(x) /\ cookie /\ session \in {x.who, Nobody})
  /\ x.reSubmit => x.asks = {}
  /\ x.asks # {} => cookie
OwnInv == SessionTypeOK /\ \A t \in Tabs : OwnTab(tab[t])

\* Where the guard leads to with a cookie: never to the login form.
LEMMA BeforeEachFields ==
  ASSUME NEW x \in Tab, NEW to \in Places, NEW hasLogin \in BOOLEAN,
         NEW y, y = beforeEach(hasLogin, x, to)
  PROVE  /\ y.who = x.who /\ y.permissions = x.permissions /\ y.tree = x.tree
         /\ y.routes = x.routes /\ y.menus = x.menus /\ y.reSubmit = x.reSubmit
         /\ y.asks # x.asks => hasLogin /\ x.permissions = {}
         /\ hasLogin /\ x.permissions # {} => y.at # "login"
         /\ hasLogin /\ x.permissions = {} => y.at = x.at
         /\ ~hasLogin => y.asks = x.asks
<1> DEFINE next == IF to = "login" THEN "home" ELSE to
<1>1. Resolve(x, next) # "login"
  BY DEF Resolve, constantRouterMap
<1>2. CASE ~hasLogin
  <2>1. y = [x EXCEPT !.at = "login", !.hasError = FALSE]
    BY <1>2 DEF beforeEach
  <2> QED BY <1>2, <2>1 DEF Tab
<1>3. CASE hasLogin /\ x.permissions # {}
  <2>1. y = [x EXCEPT !.at = Resolve(x, next)]
    BY <1>3 DEF beforeEach
  <2> QED BY <1>1, <1>3, <2>1 DEF Tab
<1>4. CASE hasLogin /\ x.permissions = {}
  <2>1. y = [x EXCEPT !.asks = @ \cup {next}]
    BY <1>4 DEF beforeEach
  <2> QED BY <1>4, <2>1 DEF Tab
<1> QED BY <1>2, <1>3, <1>4

\* What it does with a cookie.
LEMMA LoggedIn ==
  ASSUME NEW x \in Tab, NEW to \in Places,
         NEW next, next = IF to = "login" THEN "home" ELSE to
  PROVE  /\ beforeEach(TRUE, x, to).who = x.who
         /\ beforeEach(TRUE, x, to).permissions = x.permissions
         /\ beforeEach(TRUE, x, to).tree = x.tree
         /\ beforeEach(TRUE, x, to).routes = x.routes
         /\ beforeEach(TRUE, x, to).menus = x.menus
         /\ beforeEach(TRUE, x, to).reSubmit = x.reSubmit
         /\ x.permissions # {} => /\ beforeEach(TRUE, x, to).at # "login"
                                 /\ beforeEach(TRUE, x, to).at = Resolve(x, next)
                                 /\ beforeEach(TRUE, x, to).asks = x.asks
         /\ x.permissions = {} => /\ beforeEach(TRUE, x, to).at = x.at
                                 /\ beforeEach(TRUE, x, to).asks = x.asks \cup {next}
<1>1. Resolve(x, next) # "login"
  BY DEF Resolve, constantRouterMap
<1>2. CASE x.permissions # {}
  <2>1. beforeEach(TRUE, x, to) = [x EXCEPT !.at = Resolve(x, next)]
    BY <1>2 DEF beforeEach
  <2>2. beforeEach(TRUE, x, to).at = Resolve(x, next) /\ beforeEach(TRUE, x, to).asks = x.asks
    BY <2>1 DEF Tab
  <2>3. /\ beforeEach(TRUE, x, to).who = x.who
        /\ beforeEach(TRUE, x, to).permissions = x.permissions
        /\ beforeEach(TRUE, x, to).tree = x.tree /\ beforeEach(TRUE, x, to).routes = x.routes
        /\ beforeEach(TRUE, x, to).reSubmit = x.reSubmit
        /\ beforeEach(TRUE, x, to).menus = x.menus
    BY <2>1 DEF Tab
  <2> QED BY <1>1, <1>2, <2>2, <2>3
<1>3. CASE x.permissions = {}
  <2>1. beforeEach(TRUE, x, to) = [x EXCEPT !.asks = @ \cup {next}]
    BY <1>3 DEF beforeEach
  <2> QED BY <1>3, <2>1 DEF Tab
<1> QED BY <1>2, <1>3

\* The guard keeps what a tab holds its own.
LEMMA BeforeEachOwn ==
  ASSUME NEW x \in Tab, NEW to \in Places, cookie \in BOOLEAN, OwnTab(x), ~x.reSubmit
  PROVE  OwnTab(beforeEach(cookie, x, to))
<1> DEFINE y == beforeEach(cookie, x, to)
<1>1. /\ y.who = x.who /\ y.permissions = x.permissions /\ y.tree = x.tree
      /\ y.routes = x.routes /\ y.menus = x.menus /\ y.reSubmit = x.reSubmit
      /\ y.asks # x.asks => cookie
      /\ cookie /\ x.permissions # {} => y.at # "login"
  BY BeforeEachFields
<1> HIDE DEF y
<1>2. Personal(x) => x.permissions # {}
  BY GrantedTypes DEF Personal
<1>3. Anonymous(x) => Anonymous(y)
  BY <1>1 DEF Anonymous
<1>4. Personal(x) /\ cookie => Personal(y)
  BY <1>1, <1>2 DEF Personal
<1>5. OwnTab(y)
  BY <1>1, <1>3, <1>4 DEF OwnTab
<1> QED BY <1>5 DEF y

LEMMA OwnSteps ==
  ASSUME OneTab, OwnInv, [SessionNext]_sessionVars
  PROVE  OwnInv'
<1> USE SessionAssumption DEF Move
<1>1. SessionTypeOK /\ SessionTypeOK'
  BY SessionTypes DEF OwnInv
<1>2. CASE UNCHANGED sessionVars
  BY <1>1, <1>2 DEF OwnInv, OwnTab, sessionVars
<1>3. CASE SessionExpires
  BY <1>1, <1>3 DEF OwnInv, OwnTab, SessionExpires
<1> SUFFICES ASSUME NEW t \in Tabs, SessionStep(t) PROVE OwnInv'
  BY <1>2, <1>3 DEF SessionNext
<1> DEFINE x == tab[t]
<1>4. Tabs = {t}
  BY DEF OneTab
<1>5. x \in Tab /\ x.at \in Places /\ cookie \in BOOLEAN /\ OwnTab(x) /\ Targets \subseteq Places
  BY <1>1 DEF SessionTypeOK, Tab, Places, OwnInv
<1>6. ASSUME NEW y, tab' = [tab EXCEPT ![t] = y], OwnTab(y)'
      PROVE  OwnInv'
  BY <1>1, <1>4, <1>6 DEF OwnInv, SessionTypeOK, OwnTab
<1>7. ASSUME NEW y \in Tab, tab' = [tab EXCEPT ![t] = y], OwnTab(y), UNCHANGED <<cookie, session>>
      PROVE  OwnInv'
  BY <1>1, <1>4, <1>7 DEF OwnInv, SessionTypeOK, OwnTab
<1>8. Anonymous(Loaded) /\ ~Loaded.reSubmit /\ Loaded.asks = {} /\ Loaded \in Tab
  BY LoadedTypes DEF Anonymous, Loaded
<1>9. ASSUME NEW to \in Targets, Navigate(t, to)
      PROVE  OwnInv'
  <2>1. ~x.reSubmit /\ to \in Places
    BY <1>5, <1>9 DEF Navigate, OneTab
  <2>2. OwnTab(beforeEach(cookie, x, to)) /\ beforeEach(cookie, x, to) \in Tab
    BY <1>5, <2>1, BeforeEachOwn, BeforeEachTypes
  <2> QED BY <1>7, <1>9, <2>2 DEF Navigate
<1>10. CASE Reload(t)
  <2>1. OwnTab(Loaded)
    BY <1>8 DEF OwnTab
  <2>2. OwnTab(beforeEach(cookie, Loaded, x.at)) /\ beforeEach(cookie, Loaded, x.at) \in Tab
    BY <1>5, <1>8, <2>1, BeforeEachOwn, BeforeEachTypes
  <2> QED BY <1>7, <1>10, <2>2 DEF Reload
<1>11. ASSUME Expel(t)
       PROVE  OwnInv'
  <2>1. tab' = [tab EXCEPT ![t] = [Loaded EXCEPT !.at = "login"]]
    BY <1>11 DEF Expel, Expelled
  <2>2. tab'[t].who = Nobody /\ tab'[t].permissions = {} /\ tab'[t].tree = AllRoutes
        /\ tab'[t].routes = {} /\ ~tab'[t].reSubmit /\ tab'[t].asks = {}
    BY <1>1, <2>1 DEF Loaded, SessionTypeOK
  <2> QED BY <1>1, <1>4, <2>2 DEF OwnInv, OwnTab, Anonymous
<1>12. ASSUME NEW to \in x.asks, getUserInfo(t, to)
       PROVE  OwnInv'
  <2> DEFINE a == [x EXCEPT !.asks = @ \ {to}]
             b == Informed(a, session)
  <2>1. /\ a \in Tab /\ a.who = x.who /\ a.permissions = x.permissions /\ a.tree = x.tree
        /\ a.routes = x.routes /\ a.at = x.at /\ a.reSubmit = x.reSubmit
    BY <1>5 DEF Tab
  <2>2. session \in Users /\ to \in Places /\ cookie /\ ~x.reSubmit
    BY <1>1, <1>5, <1>12 DEF getUserInfo, SessionTypeOK, Tab, OwnTab
  <2> HIDE DEF a
  <2>3. /\ b \in Tab /\ b.who = session
        /\ b.permissions = x.permissions \cup Granted(session \in Admins)
        /\ b.tree = filterAsyncRouter(x.tree, b.permissions) /\ b.routes = x.routes \cup b.tree
        /\ b.reSubmit = x.reSubmit
        /\ b.menus = menuTree(b.tree, b.permissions)
    BY <2>1, <2>2, InformedFields
  <2> HIDE DEF b
  <2>4. /\ b.permissions = Granted(session \in Admins)
        /\ b.tree = filterAsyncRouter(AllRoutes, b.permissions) /\ b.routes = b.tree
    <3>1. CASE Anonymous(x)
      BY <2>3, <3>1 DEF Anonymous
    <3>2. CASE Personal(x) /\ session \in {x.who, Nobody}
      <4>1. session = x.who /\ b.permissions = x.permissions
        BY <2>2, <2>3, <3>2 DEF Personal
      <4>2. b.tree = x.tree
        BY <2>3, <3>2, <4>1, FilterTwice DEF Personal
      <4> QED BY <2>3, <3>2, <4>1, <4>2 DEF Personal
    <3> QED BY <1>5, <3>1, <3>2 DEF OwnTab
  <2> DEFINE y == beforeEach(cookie, b, to)
  <2>5. b.permissions # {}
    BY <2>4, GrantedTypes
  <2>6. /\ y.who = b.who /\ y.permissions = b.permissions /\ y.tree = b.tree
        /\ y.routes = b.routes /\ y.menus = b.menus /\ y.reSubmit = b.reSubmit
        /\ y.at # "login"
    <3>1. b \in Tab /\ to \in Places /\ b.permissions # {}
      BY <1>5, <2>2, <2>3, <2>5
    <3>2. cookie = TRUE
      BY <1>5, <2>2
    <3> QED BY <3>1, <3>2, LoggedIn
  <2>7. y \in Tab
    BY <1>5, <2>2, <2>3, BeforeEachTypes
  <2>8. tab' = [tab EXCEPT ![t] = y] /\ UNCHANGED <<cookie, session>>
    BY <1>12 DEF getUserInfo, a, b
  <2> HIDE DEF y
  <2>9. Personal(y) /\ y.who = session
    BY <2>2, <2>3, <2>4, <2>6 DEF Personal
  <2>10. OwnTab(y)
    BY <2>2, <2>3, <2>6, <2>9 DEF OwnTab, Personal
  <2> QED BY <1>7, <2>7, <2>8, <2>10
<1>13. ASSUME NEW to \in x.asks, getUserInfoFails(t, to)
       PROVE  OwnInv'
  <2> DEFINE y == [x EXCEPT !.asks = @ \ {to}]
  <2>1. y \in Tab /\ OwnTab(y)
    BY <1>5 DEF Tab, OwnTab, Anonymous, Personal
  <2> QED BY <1>7, <1>13, <2>1 DEF getUserInfoFails
<1>14. CASE handleLogin(t)
  <2> DEFINE y == [x EXCEPT !.reSubmit = TRUE]
  <2>1. Anonymous(x) /\ x.asks = {}
    BY <1>5, <1>14 DEF handleLogin, OneTab, OwnTab, Personal
  <2>2. y \in Tab /\ OwnTab(y)
    BY <1>5, <2>1 DEF Tab, OwnTab, Anonymous
  <2> QED BY <1>7, <1>14, <2>2 DEF handleLogin
<1>15. ASSUME NEW user \in Users, NEW to \in Targets, loginAnswered(t, user, to)
       PROVE  OwnInv'
  <2> DEFINE a == [x EXCEPT !.reSubmit = FALSE]
             y == beforeEach(TRUE, a, to)
  <2>1. Anonymous(x) /\ x.reSubmit
    BY <1>5, <1>15 DEF loginAnswered, OwnTab, Personal
  <2>2. a \in Tab /\ Anonymous(a) /\ ~a.reSubmit
    BY <1>5, <2>1 DEF Tab, Anonymous
  <2> HIDE DEF a
  <2>3. y.who = a.who /\ y.permissions = a.permissions /\ y.tree = a.tree
        /\ y.routes = a.routes /\ y.reSubmit = a.reSubmit
    <3>1. a \in Tab /\ to \in Places
      BY <1>5, <2>2
    <3> QED BY <3>1, LoggedIn
  <2>4. tab' = [tab EXCEPT ![t] = y] /\ cookie' = TRUE
    BY <1>15 DEF loginAnswered, a
  <2> HIDE DEF y
  <2>5. tab'[t] = y /\ Anonymous(y) /\ ~y.reSubmit
    BY <1>1, <2>2, <2>3, <2>4 DEF Anonymous, SessionTypeOK
  <2> QED BY <1>1, <1>4, <2>4, <2>5 DEF OwnInv, OwnTab, Anonymous
<1>16. CASE loginFailed(t)
  <2>1. Anonymous(x)
    BY <1>5, <1>16 DEF loginFailed, OwnTab, Personal
  <2> DEFINE y == [x EXCEPT !.reSubmit = FALSE, !.hasError = x.at = "login"]
  <2>2. Anonymous(y) /\ ~y.reSubmit /\ y.asks = x.asks
    BY <1>5, <2>1 DEF Tab, Anonymous
  <2>3. tab'[t] = y /\ cookie' = cookie
    BY <1>1, <1>16 DEF loginFailed, SessionTypeOK
  <2> HIDE DEF y
  <2> QED BY <1>1, <1>4, <1>5, <2>2, <2>3 DEF OwnInv, OwnTab, Anonymous
<1>17. CASE logout(t)
  <2> DEFINE y == [x EXCEPT !.leaving = TRUE]
  <2>1. y \in Tab /\ OwnTab(y)
    BY <1>5 DEF Tab, OwnTab, Anonymous, Personal
  <2> QED BY <1>7, <1>17, <2>1 DEF logout
<1>18. CASE clearSysSessionFails(t)
  <2> DEFINE y == [x EXCEPT !.leaving = FALSE]
  <2>1. /\ y.who = x.who /\ y.permissions = x.permissions /\ y.tree = x.tree
        /\ y.routes = x.routes /\ y.menus = x.menus /\ y.at = x.at
        /\ y.reSubmit = x.reSubmit /\ y.asks = x.asks
    BY <1>5 DEF Tab
  <2>2. tab'[t] = y /\ cookie' = cookie /\ session' \in {session, Nobody}
    BY <1>1, <1>18 DEF clearSysSessionFails, SessionTypeOK
  <2> HIDE DEF y
  <2> QED BY <1>1, <1>4, <1>5, <2>1, <2>2 DEF OwnInv, OwnTab, Anonymous, Personal
<1>19. ASSUME NEW to \in x.asks, getUserInfoRefused(t, to)
       PROVE  OwnInv'
  BY <1>11, <1>19 DEF getUserInfoRefused
<1>20. CASE clearSysSession(t)
  BY <1>11, <1>20 DEF clearSysSession
<1> QED BY <1>9, <1>10, <1>12, <1>13, <1>14, <1>15, <1>16, <1>17, <1>18, <1>19, <1>20
        DEF SessionStep

\* At first no tab knows anybody.
LEMMA OwnAtFirst ==
  ASSUME SessionInit
  PROVE  OwnInv
<1>1. SessionTypeOK
  BY LoadedTypes DEF SessionInit, SessionTypeOK
<1>2. \A t \in Tabs : tab[t] = [Loaded EXCEPT !.at = "login"]
  BY DEF SessionInit
<1> QED BY <1>1, <1>2 DEF OwnInv, OwnTab, Anonymous, Loaded

\* One tab never offers a user what another was granted, and shows a user only while nobody
\* else is logged in (permission.js:43, route-menu.js): whoever logs in, however sessions
\* expire and answers are lost.
THEOREM OwnPagesOnly == OneTab => (SessionSpec => []OwnPermissions)
<1> SUFFICES ASSUME OneTab PROVE SessionSpec => []OwnPermissions
  OBVIOUS
<1>1. SessionInit => OwnInv
  BY OwnAtFirst
<1>2. OwnInv /\ [SessionNext]_sessionVars => OwnInv'
  BY OwnSteps
<1>3. OwnInv => OwnPermissions
  <2> SUFFICES ASSUME OwnInv, NEW t \in Tabs, tab[t].who # Nobody
               PROVE  /\ session \in {tab[t].who, Nobody}
                      /\ tab[t].permissions = Granted(tab[t].who \in Admins)
                      /\ tab[t].routes = filterAsyncRouter(AllRoutes, tab[t].permissions)
    BY DEF OwnPermissions
  <2>1. Personal(tab[t]) /\ session \in {tab[t].who, Nobody}
    BY DEF OwnInv, OwnTab, Anonymous
  <2> QED BY <2>1 DEF Personal
<1> QED BY <1>1, <1>2, <1>3, PTL DEF SessionSpec

\* Every page that asks for a role the user has is registered and in the menu: SET_PERMISSIONS
\* filters a tree for this user only, and fillPerms has granted the roles of all nodes above
\* the page (route-menu.js:51-65, 74-121).
THEOREM GrantedPagesThere == OneTab => (SessionSpec => []GrantedPagesRegistered)
<1> SUFFICES ASSUME OneTab PROVE SessionSpec => []GrantedPagesRegistered
  OBVIOUS
<1>1. SessionInit => OwnInv
  BY OwnAtFirst
<1>2. OwnInv /\ [SessionNext]_sessionVars => OwnInv'
  BY OwnSteps
<1>3. OwnInv => GrantedPagesRegistered
  <2> SUFFICES ASSUME OwnInv, NEW t \in Tabs, NEW r \in AllRoutes,
                      RoleOf(r) \in tab[t].permissions
               PROVE  r \in tab[t].routes /\ r \in tab[t].menus
    BY DEF GrantedPagesRegistered
  <2> DEFINE x == tab[t]
  <2>1. Personal(x)
    BY DEF OwnInv, OwnTab, Anonymous
  <2>2. /\ x.permissions = Granted(x.who \in Admins) /\ x.routes = x.tree
        /\ x.tree = filterAsyncRouter(AllRoutes, x.permissions)
        /\ x.menus = menuTree(x.tree, x.permissions)
    BY <2>1 DEF Personal
  <2>3. (x.who \in Admins) \in BOOLEAN
    OBVIOUS
  <2>4. RoleOf(r) \in Granted(x.who \in Admins)
    BY <2>2
  <2>5. x.tree = filterAsyncRouter(AllRoutes, Granted(x.who \in Admins))
    BY <2>2
  <2>6. r \in x.tree /\ r \in menuTree(x.tree, Granted(x.who \in Admins))
    BY <2>3, <2>4, <2>5, GrantedPages
  <2> QED BY <2>2, <2>6
<1> QED BY <1>1, <1>2, <1>3, PTL DEF SessionSpec

-----------------------------------------------------------------------------
(* A tab implements the visits the pages rely on *)

\* The instance of Visit looks at the same table of routes.
LEMMA SameTable ==
  /\ V!constantRouterMap = constantRouterMap
  /\ V!AllRoutes = AllRoutes
  /\ \A x : V!RoleOf(x) = RoleOf(x)
  /\ V!NoRole = NoRole
<1>1. V!asyncRouterMap = asyncRouterMap
  BY Zenon DEF V!asyncRouterMap, asyncRouterMap, V!CommonRoutes, CommonRoutes, V!ThemeRoutes,
     ThemeRoutes, V!ConsumerRoutes, ConsumerRoutes, V!NoticeRoutes, NoticeRoutes, V!DevopsRoutes,
     DevopsRoutes, V!HostRoutes, HostRoutes, V!RocketmqRoutes, RocketmqRoutes, V!KafkaRoutes,
     KafkaRoutes, V!RouteTable, RouteTable, V!Routes, Routes, V!Top, Top, V!NoRole, NoRole,
     V!AllRoutes, AllRoutes
<1>2. V!constantRouterMap = constantRouterMap /\ V!NoRole = NoRole
  BY Zenon DEF V!constantRouterMap, constantRouterMap, V!NoRole, NoRole
<1>3. V!AllRoutes = AllRoutes
  BY Zenon DEF V!AllRoutes, AllRoutes, V!CommonRoutes, CommonRoutes, V!ThemeRoutes,
     ThemeRoutes, V!ConsumerRoutes, ConsumerRoutes, V!NoticeRoutes, NoticeRoutes, V!DevopsRoutes,
     DevopsRoutes, V!HostRoutes, HostRoutes, V!RocketmqRoutes, RocketmqRoutes, V!KafkaRoutes,
     KafkaRoutes, V!RouteTable, RouteTable, V!Routes, Routes, V!Top, Top, V!NoRole, NoRole
<1>4. \A x : V!RoleOf(x) = RoleOf(x)
  BY Zenon, <1>1 DEF V!RoleOf, RoleOf
<1> QED
  BY <1>2, <1>3, <1>4

\* The nodes above a route, and what is granted with a role, are defined alike.
LEMMA SameAbove == V!Ancestors = Ancestors
BY Zenon DEF V!Ancestors, Ancestors, V!AllRoutes, AllRoutes, V!asyncRouterMap, asyncRouterMap,
   V!CommonRoutes, CommonRoutes, V!ThemeRoutes, ThemeRoutes, V!ConsumerRoutes, ConsumerRoutes,
   V!NoticeRoutes, NoticeRoutes, V!DevopsRoutes, DevopsRoutes, V!HostRoutes, HostRoutes,
   V!RocketmqRoutes, RocketmqRoutes, V!KafkaRoutes, KafkaRoutes, V!RouteTable, RouteTable,
   V!Routes, Routes, V!Top, Top, V!NoRole, NoRole

LEMMA SameGrants == \A admin : V!Granted(admin) = Granted(admin)
<1>1. V!fillPerms = fillPerms
  BY Zenon DEF V!fillPerms, fillPerms, V!Roles, Roles, V!RolesAbove, RolesAbove, V!RoleOf, RoleOf,
     V!AllRoutes, AllRoutes, V!asyncRouterMap, asyncRouterMap, V!CommonRoutes, CommonRoutes,
     V!ThemeRoutes, ThemeRoutes, V!ConsumerRoutes, ConsumerRoutes, V!NoticeRoutes, NoticeRoutes,
     V!DevopsRoutes, DevopsRoutes, V!HostRoutes, HostRoutes, V!RocketmqRoutes, RocketmqRoutes,
     V!KafkaRoutes, KafkaRoutes, V!RouteTable, RouteTable, V!Routes, Routes, V!Top, Top, V!NoRole,
     NoRole
<1> QED
  BY Zenon, <1>1 DEF V!Granted, Granted

\* What an address shows to a user.
ShownTo(u, to) ==
  IF to = "home" THEN "Welcome"
  ELSE IF to \in filterAsyncRouter(AllRoutes, Granted(u \in Admins)) \cup constantRouterMap
       THEN to ELSE "404"

LEMMA ShownSame == \A u, to : V!Shown(u, to) = ShownTo(u, to)
<1>1. ASSUME NEW perms
      PROVE  V!filterAsyncRouter(V!AllRoutes, perms) = filterAsyncRouter(AllRoutes, perms)
  BY SameTable, SameAbove DEF V!filterAsyncRouter, filterAsyncRouter, V!hasPermission, hasPermission
<1>2. ASSUME NEW u
      PROVE  V!RoutesOf[(u \in Admins)] = filterAsyncRouter(AllRoutes, Granted(u \in Admins))
  <2>1. (u \in Admins) \in BOOLEAN
    OBVIOUS
  <2>2. V!GrantedTo[(u \in Admins)] = Granted(u \in Admins)
    BY <2>1, SameGrants DEF V!GrantedTo
  <2>3. V!RoutesOf[(u \in Admins)] = V!filterAsyncRouter(V!AllRoutes, V!GrantedTo[(u \in Admins)])
    BY <2>1 DEF V!RoutesOf
  <2> QED
    BY <1>1, <2>2, <2>3
<1> QED
  BY <1>2, SameTable DEF V!Shown, ShownTo

\* What a user's navigations lead to.
Reach(u) == {ShownTo(u, to) : to \in Targets}

\* The address of what is shown leads to it again.
LEMMA ShownAgain ==
  ASSUME NEW u, NEW page \in Reach(u)
  PROVE  ShownTo(u, page) = page
<1> PICK to \in Targets : page = ShownTo(u, to)
  BY DEF Reach
<1> DEFINE routes == filterAsyncRouter(AllRoutes, Granted(u \in Admins))
<1>1. "Welcome" \in routes
  BY TreeFacts DEF filterAsyncRouter, hasPermission
<1>2. CASE to = "home"
  <2>1. page = "Welcome"
    BY <1>2 DEF ShownTo
  <2> QED BY <1>1, <2>1 DEF ShownTo
<1>3. CASE to # "home" /\ to \in routes \cup constantRouterMap
  <2>1. page = to
    BY <1>3 DEF ShownTo
  <2> QED BY <1>3, <2>1 DEF ShownTo
<1>4. CASE to # "home" /\ to \notin routes \cup constantRouterMap
  <2>1. page = "404"
    BY <1>4 DEF ShownTo
  <2> QED BY <2>1 DEF ShownTo, constantRouterMap
<1> QED BY <1>2, <1>3, <1>4

\* Where the guard leads to.
LEMMA GuardLeads ==
  ASSUME NEW x \in Tab, NEW to \in Places, NEW hasLogin \in BOOLEAN,
         NEW next, next = IF to = "login" THEN "home" ELSE to,
         NEW y, y = beforeEach(hasLogin, x, to)
  PROVE  /\ y.who = x.who
         /\ ~hasLogin => y.at = "login" /\ y.asks = x.asks
         /\ hasLogin /\ x.permissions = {} => y.at = x.at /\ y.asks = x.asks \cup {next}
         /\ hasLogin /\ x.permissions # {} => y.at = Resolve(x, next) /\ y.asks = x.asks
<1>1. CASE ~hasLogin
  <2>1. y = [x EXCEPT !.at = "login", !.hasError = FALSE]
    BY <1>1 DEF beforeEach
  <2> QED BY <1>1, <2>1 DEF Tab
<1>2. CASE hasLogin /\ x.permissions # {}
  <2>1. y = [x EXCEPT !.at = Resolve(x, next)]
    BY <1>2 DEF beforeEach
  <2> QED BY <1>2, <2>1 DEF Tab
<1>3. CASE hasLogin /\ x.permissions = {}
  <2>1. y = [x EXCEPT !.asks = @ \cup {next}]
    BY <1>3 DEF beforeEach
  <2> QED BY <1>3, <2>1 DEF Tab
<1> QED BY <1>1, <1>2, <1>3

\* What a tab shows or will show its user is what one of the targets leads this user to.
SeenTab(x, user) ==
  /\ x.who = Nobody => x.at \in {"login", "blank"}
  /\ x.who # Nobody => x.at \in Reach(x.who)
  /\ "login" \notin x.asks
  /\ user # Nobody => \A to \in x.asks : ShownTo(user, to) \in Reach(user)
VisitInv == OwnInv /\ \A t \in Tabs : SeenTab(tab[t], session)

\* For a page that knows its user an address leads to what this user is shown.
LEMMA PersonalResolve ==
  ASSUME NEW x, Personal(x), NEW to
  PROVE  Resolve(x, to) = ShownTo(x.who, to)
BY DEF Personal, Resolve, ShownTo

\* The guard keeps a tab's pages among those its user may see, if the address leads there.
LEMMA GuardSeen ==
  ASSUME NEW x \in Tab, NEW to \in Places, cookie \in BOOLEAN, SessionAssumption,
         OwnTab(x), SeenTab(x, session),
         NEW next, next = IF to = "login" THEN "home" ELSE to,
         \A u \in Users : u \in {x.who, session} => ShownTo(u, next) \in Reach(u),
         session \in Users \cup {Nobody},
         NEW y, y = beforeEach(cookie, x, to)
  PROVE  SeenTab(y, session) /\ y.who = x.who
<1>1. /\ y.who = x.who
      /\ ~cookie => y.at = "login" /\ y.asks = x.asks
      /\ cookie /\ x.permissions = {} => y.at = x.at /\ y.asks = x.asks \cup {next}
      /\ cookie /\ x.permissions # {} => y.at = Resolve(x, next) /\ y.asks = x.asks
  BY GuardLeads
<1>2. next # "login" /\ (session # Nobody => session \in Users)
  OBVIOUS
<1>3. CASE ~cookie
  <2>1. y.at = "login" /\ y.asks = x.asks /\ x.who = Nobody
    BY <1>1, <1>3 DEF OwnTab, Anonymous
  <2> QED BY <1>1, <2>1 DEF SeenTab
<1>4. CASE cookie /\ Anonymous(x)
  <2>1. y.at = x.at /\ y.asks = x.asks \cup {next} /\ x.who = Nobody
    BY <1>1, <1>4 DEF Anonymous
  <2> QED BY <1>1, <1>2, <2>1 DEF SeenTab
<1>5. CASE cookie /\ Personal(x)
  <2>1. x.permissions # {} /\ x.who \in Users /\ x.who # Nobody
    BY <1>5, GrantedTypes, SessionAssumption DEF Personal
  <2>2. y.at = ShownTo(x.who, next) /\ y.asks = x.asks
    BY <1>1, <1>5, <2>1, PersonalResolve
  <2>3. ShownTo(x.who, next) \in Reach(x.who)
    BY <2>1
  <2> QED BY <1>1, <2>1, <2>2, <2>3 DEF SeenTab
<1>6. cookie \/ ~cookie
  OBVIOUS
<1> QED BY <1>3, <1>4, <1>5, <1>6 DEF OwnTab

\* A step keeps what the tab shows among what its user may see, and the user it knows goes
\* with the page only.
LEMMA VisitSteps ==
  ASSUME OneTab, VisitInv, SessionNext
  PROVE  /\ VisitInv'
         /\ \A t \in Tabs : tab[t].who # Nobody => tab'[t].who \in {tab[t].who, Nobody}
<1> USE SessionAssumption DEF Move
<1> DEFINE Kept(t) == /\ SeenTab(tab[t], session)'
                      /\ tab[t].who # Nobody => tab'[t].who \in {tab[t].who, Nobody}
<1>1. OwnInv /\ OwnInv' /\ SessionTypeOK /\ SessionTypeOK'
  BY OwnSteps DEF VisitInv, OwnInv
<1> SUFFICES \A t \in Tabs : Kept(t)
  BY <1>1 DEF VisitInv
<1>2. CASE SessionExpires
  BY <1>2 DEF SessionExpires, VisitInv, SeenTab
<1> SUFFICES ASSUME NEW t \in Tabs, SessionStep(t) PROVE Kept(t)
  BY <1>2 DEF SessionNext, OneTab
<1> DEFINE x == tab[t]
<1>3. /\ x \in Tab /\ x.at \in Places /\ cookie \in BOOLEAN /\ OwnTab(x) /\ SeenTab(x, session)
      /\ session \in Users \cup {Nobody} /\ session' \in Users \cup {Nobody}
      /\ x.asks \subseteq Places /\ Targets \subseteq Places
  BY <1>1 DEF SessionTypeOK, Tab, Places, OwnInv, VisitInv
<1>4. ASSUME NEW y, tab' = [tab EXCEPT ![t] = y] PROVE tab'[t] = y
  BY <1>1, <1>4 DEF SessionTypeOK
<1>5. \A u : \A to \in Targets : ShownTo(u, to) \in Reach(u)
  BY DEF Reach
\* Where nothing but the guard is at work.
<1>6. ASSUME NEW p \in Tab, OwnTab(p), SeenTab(p, session), p.who \in {x.who, Nobody}, NEW to \in Places,
             NEW next, next = IF to = "login" THEN "home" ELSE to,
             \A u \in Users : u \in {p.who, session} => ShownTo(u, next) \in Reach(u),
             tab' = [tab EXCEPT ![t] = beforeEach(cookie, p, to)], UNCHANGED session
      PROVE  Kept(t)
  <2> DEFINE y == beforeEach(cookie, p, to)
  <2>1. SeenTab(y, session) /\ y.who = p.who
    BY <1>3, <1>6, GuardSeen
  <2>2. tab'[t] = y
    BY <1>4, <1>6
  <2> HIDE DEF y
  <2> QED BY <1>6, <2>1, <2>2 DEF SeenTab
\* Where the page keeps what it shows, knows and asks for.
<1>7. ASSUME NEW y, tab' = [tab EXCEPT ![t] = y], y.who = x.who, y.at = x.at, y.asks \subseteq x.asks,
             session' \in {session, Nobody} \/ x.asks = {}
      PROVE  Kept(t)
  <2>1. tab'[t] = y
    BY <1>4, <1>7
  <2> QED BY <1>3, <1>7, <2>1 DEF SeenTab
<1>8. ASSUME NEW to \in Targets, Navigate(t, to)
      PROVE  Kept(t)
  <2> DEFINE next == IF to = "login" THEN "home" ELSE to
  <2>1. next \in Targets
    OBVIOUS
  <2>2. \A u \in Users : u \in {x.who, session} => ShownTo(u, next) \in Reach(u)
    BY <1>5, <2>1
  <2>3. tab' = [tab EXCEPT ![t] = beforeEach(cookie, x, to)] /\ UNCHANGED session
    BY <1>8 DEF Navigate
  <2> QED BY <1>3, <1>6, <2>2, <2>3
<1>9. CASE Reload(t)
  <2> DEFINE next == IF x.at = "login" THEN "home" ELSE x.at
  <2>1. /\ Loaded \in Tab /\ OwnTab(Loaded) /\ Loaded.who = Nobody /\ SeenTab(Loaded, session)
    BY LoadedTypes DEF OwnTab, Anonymous, SeenTab, Loaded
  <2>2. ASSUME NEW u \in Users, u \in {Nobody, session} PROVE ShownTo(u, next) \in Reach(u)
    <3>1. CASE x.who = Nobody
      <4>1. next = "home"
        BY <1>3, <1>9, <3>1 DEF SeenTab, Reload
      <4> QED BY <1>5, <4>1
    <3>2. CASE x.who # Nobody
      <4>1. u = x.who /\ x.at # "login"
        BY <1>3, <2>2, <3>2 DEF OwnTab, Anonymous, Personal
      <4>2. x.at \in Reach(u) /\ next = x.at
        BY <1>3, <3>2, <4>1 DEF SeenTab
      <4> QED BY <4>2, ShownAgain
    <3> QED BY <3>1, <3>2
  <2>3. tab' = [tab EXCEPT ![t] = beforeEach(cookie, Loaded, x.at)] /\ UNCHANGED session
    BY <1>9 DEF Reload
  <2> HIDE DEF next
  <2>4. next = IF x.at = "login" THEN "home" ELSE x.at
    BY DEF next
  <2>5. \A u \in Users : u \in {Loaded.who, session} => ShownTo(u, next) \in Reach(u)
    BY <2>1, <2>2
  <2> QED BY <1>3, <1>6, <2>1, <2>3, <2>4, <2>5
<1>10. ASSUME Expel(t)
       PROVE  Kept(t)
  <2>1. tab'[t] = [Loaded EXCEPT !.at = "login"]
    BY <1>4, <1>10 DEF Expel, Expelled
  <2> QED BY <2>1 DEF SeenTab, Loaded
<1>11. ASSUME NEW to \in x.asks, getUserInfo(t, to)
       PROVE  Kept(t)
  <2> DEFINE a == [x EXCEPT !.asks = @ \ {to}]
             b == Informed(a, session)
             y == beforeEach(cookie, b, to)
  <2>1. a \in Tab /\ a.asks = x.asks \ {to}
    BY <1>3 DEF Tab
  <2>2. session \in Users /\ session # Nobody /\ cookie = TRUE /\ to \in Places /\ to # "login"
    BY <1>3, <1>11 DEF getUserInfo, OwnTab, SeenTab
  <2> HIDE DEF a
  <2>3. /\ b \in Tab /\ b.who = session /\ b.asks = x.asks \ {to}
        /\ b.permissions # {}
    BY <2>1, <2>2, InformedFields, GrantedTypes
  <2> HIDE DEF b
  <2>4. /\ y.who = session /\ y.at = Resolve(b, to) /\ y.asks = x.asks \ {to}
        /\ y.routes = b.routes
    <3>1. y = beforeEach(TRUE, b, to) /\ to = IF to = "login" THEN "home" ELSE to
      BY <2>2
    <3>2. /\ y.who = b.who /\ y.routes = b.routes
          /\ b.permissions # {} => y.at = Resolve(b, to) /\ y.asks = b.asks
      <4>1. b \in Tab /\ to \in Places
        BY <2>2, <2>3
      <4> HIDE DEF y
      <4> QED BY <3>1, <4>1, LoggedIn
    <3> QED BY <2>3, <3>2
  <2>5. tab'[t] = y /\ session' = session
    BY <1>4, <1>11 DEF getUserInfo, a, b
  <2> HIDE DEF y
  <2>7. Personal(y)
    BY <1>1, <2>2, <2>4, <2>5 DEF OwnInv, OwnTab, Anonymous
  <2>8. Resolve(b, to) = Resolve(y, to)
    BY <2>4 DEF Resolve
  <2>9. y.at = ShownTo(session, to)
    BY <2>4, <2>7, <2>8, PersonalResolve
  <2>10. y.at \in Reach(session)
    BY <1>3, <2>2, <2>9 DEF SeenTab
  <2>11. SeenTab(y, session)
    BY <1>3, <2>2, <2>4, <2>10 DEF SeenTab
  <2>12. x.who # Nobody => y.who = x.who
    BY <1>3, <2>2, <2>4 DEF OwnTab, Anonymous
  <2> QED BY <2>5, <2>11, <2>12 DEF SeenTab
<1>12. ASSUME NEW to \in x.asks, getUserInfoFails(t, to)
       PROVE  Kept(t)
  <2> DEFINE y == [x EXCEPT !.asks = @ \ {to}]
  <2>1. tab' = [tab EXCEPT ![t] = y] /\ session' = session
    BY <1>12 DEF getUserInfoFails
  <2>2. y.who = x.who /\ y.at = x.at /\ y.asks \subseteq x.asks
    BY <1>3 DEF Tab
  <2> HIDE DEF y
  <2> QED BY <1>7, <2>1, <2>2
<1>13. CASE handleLogin(t)
  <2> DEFINE y == [x EXCEPT !.reSubmit = TRUE]
  <2>1. tab' = [tab EXCEPT ![t] = y] /\ session' = session
    BY <1>13 DEF handleLogin
  <2>2. y.who = x.who /\ y.at = x.at /\ y.asks = x.asks
    BY <1>3 DEF Tab
  <2> HIDE DEF y
  <2> QED BY <1>7, <2>1, <2>2
<1>14. ASSUME NEW user \in Users, NEW to \in Targets, loginAnswered(t, user, to)
       PROVE  Kept(t)
  <2> DEFINE a == [x EXCEPT !.reSubmit = FALSE]
             next == IF to = "login" THEN "home" ELSE to
             y == beforeEach(TRUE, a, to)
  <2>1. Anonymous(x) /\ x.asks = {}
    BY <1>3, <1>14 DEF loginAnswered, OwnTab, Personal
  <2>2. a \in Tab /\ a.who = x.who /\ a.at = x.at /\ a.asks = {} /\ a.permissions = {}
    BY <1>3, <2>1 DEF Tab, Anonymous
  <2>3. next \in Targets /\ next # "login" /\ next = IF to = "login" THEN "home" ELSE to
    OBVIOUS
  <2> HIDE DEF a, next
  <2>4. y.who = x.who /\ y.at = x.at /\ y.asks = {next}
    <3>1. a \in Tab /\ to \in Places /\ next = IF to = "login" THEN "home" ELSE to
      BY <1>3, <2>2, <2>3
    <3>2. y.who = a.who /\ y.at = a.at /\ y.asks = a.asks \cup {next}
      <4>1. a.permissions = {} /\ y = beforeEach(TRUE, a, to)
        BY <2>2
      <4> HIDE DEF y
      <4> QED BY <3>1, <4>1, LoggedIn
    <3> QED BY <2>2, <3>2
  <2>5. tab'[t] = y
    BY <1>4, <1>14 DEF loginAnswered, a
  <2> HIDE DEF y
  <2>6. \A u : ShownTo(u, next) \in Reach(u)
    BY <1>5, <2>3
  <2> QED BY <1>3, <2>1, <2>3, <2>4, <2>5, <2>6 DEF SeenTab, Anonymous
<1>15. CASE loginFailed(t)
  <2> DEFINE y == [x EXCEPT !.reSubmit = FALSE, !.hasError = x.at = "login"]
  <2>1. tab' = [tab EXCEPT ![t] = y] /\ x.asks = {}
    BY <1>3, <1>15 DEF loginFailed, OwnTab
  <2>2. y.who = x.who /\ y.at = x.at /\ y.asks = x.asks
    BY <1>3 DEF Tab
  <2> HIDE DEF y
  <2> QED BY <1>7, <2>1, <2>2
<1>16. CASE logout(t)
  <2> DEFINE y == [x EXCEPT !.leaving = TRUE]
  <2>1. tab' = [tab EXCEPT ![t] = y] /\ session' = session
    BY <1>16 DEF logout
  <2>2. y.who = x.who /\ y.at = x.at /\ y.asks = x.asks
    BY <1>3 DEF Tab
  <2> HIDE DEF y
  <2> QED BY <1>7, <2>1, <2>2
<1>17. CASE clearSysSessionFails(t)
  <2> DEFINE y == [x EXCEPT !.leaving = FALSE]
  <2>1. tab' = [tab EXCEPT ![t] = y] /\ session' \in {session, Nobody}
    BY <1>17 DEF clearSysSessionFails
  <2>2. y.who = x.who /\ y.at = x.at /\ y.asks = x.asks
    BY <1>3 DEF Tab
  <2> HIDE DEF y
  <2> QED BY <1>7, <2>1, <2>2
<1>18. ASSUME NEW to \in x.asks, getUserInfoRefused(t, to)
       PROVE  Kept(t)
  BY <1>10, <1>18 DEF getUserInfoRefused
<1>19. CASE clearSysSession(t)
  BY <1>10, <1>19 DEF clearSysSession
<1> QED BY <1>8, <1>9, <1>11, <1>12, <1>13, <1>14, <1>15, <1>16, <1>17, <1>18, <1>19
        DEF SessionStep

\* A step of the tab is one of a visit: the answer about the user begins it, navigating goes on
\* with it, and loading the page again ends it.
LEMMA TabVisits ==
  ASSUME OneTab, VisitInv, [SessionNext]_sessionVars
  PROVE  [V!VisitNext]_(V!visitVars)
<1> USE SessionAssumption
<1>1. CASE UNCHANGED sessionVars
  BY <1>1 DEF sessionVars, V!visitVars, visiting
<1> SUFFICES ASSUME SessionNext PROVE V!VisitNext \/ UNCHANGED V!visitVars
  BY <1>1
<1>2. PICK t : Tabs = {t}
  BY DEF OneTab
<1> DEFINE x == tab[t]
           y == tab'[t]
<1>3. Me = t
  BY <1>2 DEF Me
<1>4. /\ x.who \in Users \cup {Nobody} /\ y.who \in Users \cup {Nobody}
      /\ x.who # Nobody => x.at \in Reach(x.who)
      /\ y.who # Nobody => y.at \in Reach(y.who)
      /\ x.who # Nobody => y.who \in {x.who, Nobody}
  <2>1. VisitInv' /\ (x.who # Nobody => y.who \in {x.who, Nobody})
    BY <1>2, VisitSteps
  <2> QED BY <1>2, <2>1 DEF VisitInv, SeenTab, OwnInv, SessionTypeOK, Tab
<1>5. /\ visiting <=> x.who # Nobody
      /\ visiting' <=> y.who # Nobody
      /\ tab[Me] = x /\ tab'[Me] = y
  BY <1>3 DEF visiting
<1>6. CASE x.who = Nobody /\ y.who = Nobody
  BY <1>5, <1>6 DEF V!visitVars
<1>7. CASE x.who = Nobody /\ y.who # Nobody
  <2>1. PICK to \in Targets : y.at = V!Shown(y.who, to)
    BY <1>4, <1>7, ShownSame DEF Reach
  <2>2. V!Enter(y.who, to)
    BY <1>5, <1>7, <2>1 DEF V!Enter
  <2> QED BY <1>4, <1>7, <2>2 DEF V!VisitNext
<1>8. CASE x.who # Nobody /\ y.who = x.who
  <2>1. PICK to \in Targets : y.at = V!Shown(x.who, to)
    BY <1>4, <1>8, ShownSame DEF Reach
  <2>2. CASE y.at = x.at
    BY <1>5, <1>8, <2>2 DEF V!visitVars
  <2>3. CASE y.at # x.at
    <3>1. V!Go(to)
      BY <1>5, <1>8, <2>1, <2>3 DEF V!Go
    <3> QED BY <3>1 DEF V!VisitNext
  <2> QED BY <2>2, <2>3
<1>9. CASE x.who # Nobody /\ y.who = Nobody
  <2>1. V!Leave
    BY <1>5, <1>9 DEF V!Leave
  <2> QED BY <2>1 DEF V!VisitNext
<1> QED BY <1>4, <1>6, <1>7, <1>8, <1>9

\* A tab works for one user from the answer about this user until the page is loaded again, and
\* shows this user only what one of the targets leads to with what was granted: what the pages
\* rely on (permission.js, route-menu.js).
THEOREM TabImplementsVisit == OneTab => (SessionSpec => VisitImplemented)
<1> SUFFICES ASSUME OneTab PROVE SessionSpec => VisitImplemented
  OBVIOUS
<1>1. SessionInit => VisitInv /\ V!VisitInit
  <2> SUFFICES ASSUME SessionInit PROVE VisitInv /\ V!VisitInit
    OBVIOUS
  <2>1. OwnInv
    BY OwnAtFirst
  <2>2. \A t \in Tabs : tab[t] = [Loaded EXCEPT !.at = "login"]
    BY DEF SessionInit
  <2>3. \A t \in Tabs : SeenTab(tab[t], session)
    BY <2>2 DEF SeenTab, Loaded
  <2>4. Me \in Tabs
    BY DEF OneTab, Me
  <2>5. tab[Me].who = Nobody
    BY <2>2, <2>4 DEF Loaded
  <2> QED BY <2>1, <2>3, <2>5 DEF VisitInv, V!VisitInit, visiting
<1>2. VisitInv /\ [SessionNext]_sessionVars => VisitInv' /\ [V!VisitNext]_(V!visitVars)
  <2>1. VisitInv /\ UNCHANGED sessionVars => VisitInv'
    BY DEF VisitInv, OwnInv, OwnTab, SessionTypeOK, SeenTab, sessionVars
  <2>2. VisitInv /\ SessionNext => VisitInv'
    BY VisitSteps
  <2> QED BY <2>1, <2>2, TabVisits
<1> QED BY <1>1, <1>2, PTL DEF SessionSpec, VisitImplemented, V!VisitSpec
=============================================================================
