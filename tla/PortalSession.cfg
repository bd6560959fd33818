\* One tab of a browser, an admin and a developer who log in and out, sessions that
\* expire, answers that are lost.
CONSTANTS
  Tabs = {t1}
  Users = {boss, dev}
  Admins = {boss}
  Nobody = Nobody
  Targets = {"home", "themeList", "clusterTransfer"}
  Patient = TRUE
SPECIFICATION SessionSpec
INVARIANTS
  SessionTypeOK
  OwnPermissions
  GrantedPagesRegistered
PROPERTY VisitImplemented
CHECK_DEADLOCK FALSE
