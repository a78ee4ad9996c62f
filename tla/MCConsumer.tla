----------------------------- MODULE MCConsumer -----------------------------
(***************************************************************************)
(* Instances of Consumer for TLC. The configurations choose the events:    *)
(*   watch    3 points for r1, at eleven                                   *)
(*   push     1 point for r1, in the next Redis window of the same hour    *)
(*   fork     2 points for r2                                              *)
(*   delete   no points, r2                                                *)
(*   nameless 1 point, without a repository name                           *)
(*   ghost    no points, without a repository name                         *)
(***************************************************************************)
EXTENDS ConsumerProperties

CONSTANTS watch, push, fork, delete, nameless, ghost, r1, r2, p1, p2, w1, w2

MCTypeOf ==
    [e \in Events |-> CASE e = watch -> "WatchEvent"
                        [] e = fork -> "ForkEvent"
                        [] e \in {delete, ghost} -> "DeleteEvent"
                        [] OTHER -> "PushEvent"]

MCRepoOf ==
    [e \in Events |-> CASE e \in {nameless, ghost} -> NoRepo
                        [] e \in {watch, push} -> r1
                        [] OTHER -> r2]

MCWindowOf == [e \in Events |-> IF e = watch THEN "11:00" ELSE "11:05"]

MCHourOf == [e \in Events |-> 11]

MCPartitionOf ==
    [e \in Events |-> IF e \in {watch, push, delete} \/ p2 \notin Partitions
                      THEN p1 ELSE p2]
=============================================================================
