------------------------------ MODULE Analytics ------------------------------
(***************************************************************************)
(* What the pipeline promises its readers, without offsets, queues,        *)
(* workers or failures. Events are published; a published event is counted *)
(* in the ranking at most once, and recorded in the history at most once;  *)
(* an event with weight is recorded only after it has been counted. At any *)
(* moment the ranking and the history show exactly the events counted and  *)
(* recorded so far.                                                        *)
(***************************************************************************)
EXTENDS Events

VARIABLES published, \* events somebody has published
          counted,   \* events in the ranking
          ranking,   \* repository -> score
          recorded,  \* events in the history
          history    \* repository -> hour -> score and number of events

vars == <<published, counted, ranking, recorded, history>>

Init ==
    /\ published = {}
    /\ counted = {}
    /\ ranking = [r \in Repos |-> 0]
    /\ recorded = {}
    /\ history = [r \in Repos |-> [h \in Hours |-> [score |-> 0, count |-> 0]]]

PublishEvent(e) ==
    /\ published' = published \union {e}
    /\ UNCHANGED <<counted, ranking, recorded, history>>

CountEvent(e) ==
    /\ e \in published \ counted
    /\ Weighted(e) /\ Complete(e)
    /\ counted' = counted \union {e}
    /\ ranking' = [ranking EXCEPT ![RepoOf[e]] = @ + EventScore(e)]
    /\ UNCHANGED <<published, recorded, history>>

RecordEvent(e) ==
    /\ e \in published \ recorded
    /\ Complete(e)
    /\ Weighted(e) => e \in counted
    /\ recorded' = recorded \union {e}
    /\ history' = IF Weighted(e)
                  THEN [history EXCEPT ![RepoOf[e]][HourOf[e]] =
                          [score |-> @.score + EventScore(e),
                           count |-> @.count + 1]]
                  ELSE history
    /\ UNCHANGED <<published, counted, ranking>>

Next == \E e \in Events : PublishEvent(e) \/ CountEvent(e) \/ RecordEvent(e)

Spec == Init /\ [][Next]_vars
=============================================================================
