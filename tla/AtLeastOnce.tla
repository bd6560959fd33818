---------------------------- MODULE AtLeastOnce ----------------------------
(***************************************************************************)
(* What a ZMS consumer group promises its application, without threads,    *)
(* queues, members or rebalances: every record a producer appended to a    *)
(* partition is given to the message listener at least once, and the       *)
(* offset the group commits for a partition never passes a record that no  *)
(* listener has been given.  The second half is what makes the first one   *)
(* survive a crash: a member that takes the partition over resumes at the  *)
(* committed offset and never looks below it.                              *)
(***************************************************************************)
EXTENDS Integers

CONSTANTS Partitions,   \* the partitions of the bound topic
          LogSize       \* how many records producers append to a partition

VARIABLES logEnd,       \* logEnd[p]: the records of p are 0 .. logEnd[p]-1
          handled,      \* the records some listener has been given
          committed     \* committed[p]: where a new owner of p resumes

promiseVars == <<logEnd, handled, committed>>

Record(p, o) == [partition |-> p, offset |-> o]

-----------------------------------------------------------------------------
Init ==
  /\ logEnd = [p \in Partitions |-> 0]
  /\ handled = {}
  /\ committed = [p \in Partitions |-> 0]

Append(p) ==
  /\ logEnd[p] < LogSize
  /\ logEnd' = [logEnd EXCEPT ![p] = @ + 1]
  /\ UNCHANGED <<handled, committed>>


\* Records that exist are handed over: one by one, or several by one call of a
\* batch listener.  Handing over a record again changes nothing.
Deliver ==
  /\ \E new \in SUBSET {Record(p, o) : p \in Partitions, o \in 0 .. LogSize - 1} :
       /\ \A r \in new : r.offset < logEnd[r.partition]
       /\ handled' = handled \cup new
  /\ UNCHANGED <<logEnd, committed>>

\* Offsets only move forward, and only over records that were handed over.
Commit ==
  /\ committed' \in [Partitions -> 0 .. LogSize]
  /\ \A p \in Partitions :
       /\ committed'[p] >= committed[p]
       /\ \A o \in 0 .. committed'[p] - 1 : Record(p, o) \in handled
  /\ UNCHANGED <<logEnd, handled>>

Next ==
  \/ \E p \in Partitions : Append(p)
  \/ Deliver
  \/ Commit

\* No appended record waits for ever.
Delivered ==
  \A p \in Partitions, o \in 0 .. LogSize - 1 :
     (o < logEnd[p]) ~> (Record(p, o) \in handled)

Safety == Init /\ [][Next]_promiseVars
Promise == Safety /\ Delivered
=============================================================================
