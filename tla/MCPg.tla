-------------------------------- MODULE MCPg --------------------------------
(***************************************************************************)
(* A worker of the consumer and a replay, each with a pool of one          *)
(* connection. Events:                                                     *)
(*   watch  3 points for r1, at ten                                        *)
(*   push   1 point for r1, at eleven                                      *)
(*   fork   2 points for r2, at eleven                                     *)
(*   delete no points, r2, at eleven                                       *)
(***************************************************************************)
EXTENDS PgProperties

CONSTANTS watch, push, fork, delete, r1, r2, w1, replay

MCTypeOf ==
    [e \in Events |-> CASE e = watch -> "WatchEvent"
                        [] e = fork -> "ForkEvent"
                        [] e = delete -> "DeleteEvent"
                        [] OTHER -> "PushEvent"]

MCRepoOf == [e \in Events |-> IF e \in {watch, push} THEN r1 ELSE r2]

MCHourOf == [e \in Events |-> IF e = watch THEN 10 ELSE 11]

MCPoolOf == [s \in Sessions |-> IF s = replay THEN "replay" ELSE "consumer"]
=============================================================================
