------------------------------- MODULE Queries -------------------------------
(***************************************************************************)
(* The read queries of the API, as functions of the tables they read: the  *)
(* ranking and the recent list of internal/consumer/store.go and the three *)
(* statements of internal/persistence/store.go. Each is one command of     *)
(* Redis or one statement of PostgreSQL, so it sees one committed state.   *)
(*                                                                         *)
(* A repository is on a page of rankings when it has a row; rows that tie  *)
(* come in any order.                                                      *)
(***************************************************************************)
EXTENDS Events, Sequences

\* ORDER BY key DESC LIMIT limit.
Highest(S, key, limit) ==
    LET shown == 1..(IF limit < Cardinality(S) THEN limit ELSE Cardinality(S))
    IN  CHOOSE page \in [shown -> S] :
            /\ \A i, j \in shown :
                   i < j => page[i] # page[j] /\ key[page[i]] >= key[page[j]]
            /\ \A r \in S \ {page[i] : i \in shown} : \A i \in shown :
                   key[page[i]] >= key[r]

\* Every query has a default for limit <= 0.
OrDefault(limit, default) == IF limit <= 0 THEN default ELSE limit

\* SUM over the cells of a column of natural numbers, one element for each unit.
SumOf(column) ==
    Cardinality(UNION {{cell} \X (1..column[cell]) : cell \in DOMAIN column})

-----------------------------------------------------------------------------
(* Redis: ZREVRANGE and LRANGE.                                            *)

\* Mutant of TrendingRepos: ZRANGE in place of ZREVRANGE.
TrendingReposAscending(ranking, limit) ==
    LET page == Highest({r \in Repos : ranking[r] > 0},
                        [r \in Repos |-> -ranking[r]], OrDefault(limit, 10))
    IN  [i \in 1..Len(page) |-> [repo |-> page[i], score |-> ranking[page[i]]]]

TrendingRepos(ranking, limit) ==
    LET page == Highest({r \in Repos : ranking[r] > 0}, ranking, OrDefault(limit, 10))
    IN  [i \in 1..Len(page) |-> [repo |-> page[i], score |-> ranking[page[i]]]]

\* Mutant of RecentEvents: LRANGE 0 limit in place of limit-1.
RecentEventsOneMore(list, limit, most) ==
    LET shown == IF limit <= 0 \/ limit > most THEN most ELSE limit
    IN  SubSeq(list, 1, IF shown + 1 < Len(list) THEN shown + 1 ELSE Len(list))

\* The list has its newest event first; most is recentEventsLimit.
RecentEvents(list, limit, most) ==
    LET shown == IF limit <= 0 \/ limit > most THEN most ELSE limit
    IN  SubSeq(list, 1, IF shown < Len(list) THEN shown ELSE Len(list))

-----------------------------------------------------------------------------
(* PostgreSQL.                                                             *)

HasRow(table, r, h) == table[r][h].count > 0

RepoHistory(table, r, limit) ==
    LET page == Highest({h \in Hours : HasRow(table, r, h)}, [h \in Hours |-> h],
                        OrDefault(limit, 48))
    IN  [i \in 1..Len(page) |-> [hour  |-> page[i],
                                 score |-> table[r][page[i]].score,
                                 count |-> table[r][page[i]].count]]

\* Mutant of HistoricalTrending: WHERE on the newest hour in place of GROUP BY.
HistoricalTrendingOfLastHour(table, limit) ==
    LET hoursOf(r) == {h \in Hours : HasRow(table, r, h)}
        last(r) == {h \in hoursOf(r) : \A g \in hoursOf(r) : g <= h}
        score == [r \in Repos |-> SumOf([h \in last(r) |-> table[r][h].score])]
        count == [r \in Repos |-> SumOf([h \in last(r) |-> table[r][h].count])]
        page == Highest({r \in Repos : count[r] > 0}, score, OrDefault(limit, 10))
    IN  [i \in 1..Len(page) |-> [repo  |-> page[i],
                                 score |-> score[page[i]],
                                 count |-> count[page[i]]]]

\* GROUP BY repo_name over the snapshots.
HistoricalTrending(table, limit) ==
    LET score == [r \in Repos |-> SumOf([h \in Hours |-> table[r][h].score])]
        count == [r \in Repos |-> SumOf([h \in Hours |-> table[r][h].count])]
        page == Highest({r \in Repos : count[r] > 0}, score, OrDefault(limit, 10))
    IN  [i \in 1..Len(page) |-> [repo  |-> page[i],
                                 score |-> score[page[i]],
                                 count |-> count[page[i]]]]

\* The rows of aggregation_windows, each LEFT JOINed with its snapshots.
AggregationWindows(hours, table, limit) ==
    LET page == Highest(hours, [h \in Hours |-> h], OrDefault(limit, 24))
    IN  [i \in 1..Len(page) |->
            [hour   |-> page[i],
             events |-> SumOf([r \in Repos |-> table[r][page[i]].count]),
             repos  |-> Cardinality({r \in Repos : HasRow(table, r, page[i])})]]
=============================================================================
