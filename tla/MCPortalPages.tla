---------------------------- MODULE MCPortalPages ----------------------------
(***************************************************************************)
(* An instance of the pages for TLC: two rows, an admin who applied for    *)
(* the approved one and a developer who applied for the other.             *)
(***************************************************************************)
EXTENDS PortalPages, TLC

CONSTANTS r1, r2, boss, dev

App == (r1 :> boss) @@ (r2 :> dev)

\* Every page of the model; "404" is reached by what a user is not granted.
Pages ==
  {"home", "themeList", "consumerList", "noticeList", "hostList", "serviceHome",
   "serviceAddHome", "instanceAddHome"} \cup DOMAIN TransferQueries \cup QueryRoutes

\* The instances of a service are alike.
Alike == Permutations(Instances)
=============================================================================
