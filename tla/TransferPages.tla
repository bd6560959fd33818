---------------------------- MODULE TransferPages ----------------------------
(***************************************************************************)
(* The pages that migrate clusters, topics and consumer groups             *)
(* (views/devops): rows are selected, a dialog asks for the target, and    *)
(* the migration is sent for the rows kept when the dialog was opened.     *)
(***************************************************************************)
EXTENDS PageParts

Migrations == {"migrateClusterTopicZk", "migrateClusterConsumerZk", "migrateZk"}
TransferQueries ==
  [clusterTransfer |-> "queryClusters", themeTransfer |-> "themeQuery",
   consumerTransfer |-> "consumerQuery"]

transferOpen(rows) ==
  /\ Uncovered /\ rows # {}
  /\ kept' = rows
  /\ dlg' = Opened(dlg, "sync", rows, FALSE)
  /\ UNCHANGED <<table, calls, picked, envList>>

\* Mutant: the table is asked for its selection again.
transferRequest_Picked(op) == [Request(op, "sync", dlg["sync"].rows) EXCEPT !.ids = picked]

\* What is migrated are the rows kept; the dialog only shows their names.
transferRequest(op) == [Request(op, "sync", dlg["sync"].rows) EXCEPT !.ids = kept]

beginTransfer(op) ==
  /\ dlg["sync"].visible /\ Room
  /\ Saving(calls, "sync", transferRequest(op), FALSE)
  /\ UNCHANGED <<table, kept, picked, envList>>
transferred(c) ==
  /\ page \in DOMAIN TransferQueries /\ c.op \in Migrations
  /\ Loading(calls \ {c}, TransferQueries[page])
  /\ dlg' = Closed(dlg, "sync", calls \ {c})
  /\ UNCHANGED <<kept, picked, envList>>

\* Clusters are migrated one at a time, their topics or their groups.
clusterTransferOpen == Cardinality(picked) = 1 /\ transferOpen(picked)
clusterTransfer ==
  /\ On("clusterTransfer")
  /\ \/ Search("queryClusters") \/ (\E rows \in SUBSET Rows : Select(rows))
     \/ clusterTransferOpen
     \/ beginTransfer("migrateClusterTopicZk") \/ beginTransfer("migrateClusterConsumerZk")
themeTransfer ==
  /\ On("themeTransfer")
  /\ \/ Search("themeQuery") \/ (\E rows \in SUBSET Rows : Select(rows))
     \/ transferOpen(picked) \/ beginTransfer("migrateZk")
consumerTransfer ==
  /\ On("consumerTransfer")
  /\ \/ Search("consumerQuery") \/ (\E rows \in SUBSET Rows : Select(rows))
     \/ transferOpen(picked) \/ beginTransfer("migrateZk")

TransferUser == clusterTransfer \/ themeTransfer \/ consumerTransfer
=============================================================================
