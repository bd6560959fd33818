-------------------------- MODULE MCKafkaConsumer --------------------------
(***************************************************************************)
(* Small consumer groups for TLC: two members that share the partitions.   *)
(***************************************************************************)
EXTENDS KafkaConsumer, TLC

CONSTANTS c1, c2, p1, p2

ConsumerPair == {c1, c2}
TwoPartitions == {p1, p2}
OnePartition == {p1}

\* Orderly: partition % executors.size(), here a pool for each partition.
OwnExecutor == [p \in Partitions |-> p]
\* Not orderly: executors holds one shared pool.
SharedExecutor == [p \in Partitions |-> "pool"]
SharedPool == {"pool"}

\* Members are interchangeable in what the safety properties say.
MemberSymmetry == Permutations(ConsumerPair)
=============================================================================
