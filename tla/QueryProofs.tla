----------------------------- MODULE QueryProofs -----------------------------
(***************************************************************************)
(* What the read queries return, for any table: the pages are in order,    *)
(* two pages can be compared place by place, and the sums of the           *)
(* historical queries count every row of metadata once.                    *)
(***************************************************************************)
EXTENDS Queries, HistoryProofs

-----------------------------------------------------------------------------
(* Induction over the subsets of a finite set.                             *)

\* Every subset is good when the empty one is and each other one is if it is
\* good without one of its elements.
LEMMA SubsetInduction ==
    ASSUME NEW S, IsFiniteSet(S), NEW Good, {} \in Good,
           \A T \in SUBSET S : T # {} =>
               \E x \in T : T \ {x} \in Good => T \in Good
    PROVE  SUBSET S \subseteq Good
<1> DEFINE Bad == (SUBSET S) \ Good
<1>1. Bad \subseteq FiniteSubsetsOf(S)
  BY FS_FiniteSubsetsOfFinite
<1>2. IsWellFoundedOn(StrictSubsetOrdering(S), FiniteSubsetsOf(S))
  BY FS_StrictSubsetOrderingWellFounded
<1>3. SUFFICES ASSUME Bad # {}
               PROVE  FALSE
  OBVIOUS
<1>4. PICK T \in Bad : \A U \in Bad : ~(<<U, T>> \in StrictSubsetOrdering(S))
  BY <1>1, <1>2, <1>3, WFMin
<1>5. T \in SUBSET S /\ T \notin Good /\ T # {}
  BY <1>4
<1>6. PICK x \in T : T \ {x} \in Good => T \in Good
  BY <1>5
<1>7. T \ {x} \in Bad /\ <<T \ {x}, T>> \in StrictSubsetOrdering(S)
  BY <1>5, <1>6 DEF StrictSubsetOrdering
<1> QED
  BY <1>4, <1>7

-----------------------------------------------------------------------------
(* Pages: ORDER BY ... DESC LIMIT, ZREVRANGE.                              *)

IsPage(page, S, key, n) ==
    /\ page \in [1..n -> S]
    /\ \A i, j \in 1..n : i < j => page[i] # page[j] /\ key[page[i]] >= key[page[j]]
    /\ \A r \in S \ {page[i] : i \in 1..n} : \A i \in 1..n : key[page[i]] >= key[r]

Shown(S, limit) == IF limit < Cardinality(S) THEN limit ELSE Cardinality(S)

\* A finite set of rows has a lowest one.
LEMMA LowestExists ==
    ASSUME NEW S, IsFiniteSet(S), NEW key, \A r \in S : key[r] \in Int
    PROVE  \A T \in SUBSET S : T # {} =>
               \E x \in T : \A y \in T : key[x] <= key[y]
<1> DEFINE Good == {T \in SUBSET S : T # {} =>
                        \E x \in T : \A y \in T : key[x] <= key[y]}
<1>1. {} \in Good
  OBVIOUS
<1>2. ASSUME NEW T \in SUBSET S, NEW z \in T, T \ {z} \in Good
      PROVE  T \in Good
  <2>1. CASE T \ {z} = {}
    <3>1. \A y \in T : y = z
      BY <2>1
    <3>2. key[z] <= key[z]
      OBVIOUS
    <3> QED
      BY <3>1, <3>2
  <2>2. CASE T \ {z} # {}
    <3>1. PICK x \in T \ {z} : \A y \in T \ {z} : key[x] <= key[y]
      BY <1>2, <2>2
    <3>2. CASE key[x] <= key[z]
      BY <3>1, <3>2
    <3>3. CASE ~(key[x] <= key[z])
      <4>1. \A y \in T : key[z] <= key[y]
        BY <3>1, <3>3
      <4> QED
        BY <4>1
    <3> QED
      BY <3>2, <3>3
  <2> QED
    BY <2>1, <2>2
<1>3. \A T \in SUBSET S : T # {} => \E x \in T : T \ {x} \in Good => T \in Good
  BY <1>2
<1> HIDE DEF Good
<1>4. SUBSET S \subseteq Good
  BY <1>1, <1>3, SubsetInduction
<1> QED
  BY <1>4 DEF Good

\* All its rows can be put in descending order.
LEMMA OrderExists ==
    ASSUME NEW S, IsFiniteSet(S), NEW key, \A r \in S : key[r] \in Int
    PROVE  \A T \in SUBSET S : \E page :
               /\ IsPage(page, T, key, Cardinality(T))
               /\ T = {page[i] : i \in 1..Cardinality(T)}
<1> DEFINE Good == {T \in SUBSET S : \E page :
                        /\ IsPage(page, T, key, Cardinality(T))
                        /\ T = {page[i] : i \in 1..Cardinality(T)}}
<1>1. {} \in Good
  <2>1. Cardinality({}) = 0 /\ 1..0 = {}
    BY FS_EmptySet
  <2>2. IsPage([x \in {} |-> x], {}, key, 0)
    BY <2>1 DEF IsPage
  <2>3. {} = {[x \in {} |-> x][i] : i \in 1..0}
    BY <2>1
  <2> QED
    BY <2>1, <2>2, <2>3
<1>2. ASSUME NEW T \in SUBSET S, NEW x \in T, \A y \in T : key[x] <= key[y],
             T \ {x} \in Good
      PROVE  T \in Good
  <2> DEFINE n == Cardinality(T \ {x})
  <2>1. /\ n \in Nat
        /\ Cardinality(T) = n + 1
    <3>1. IsFiniteSet(T \ {x})
      BY FS_Subset
    <3>2. T = (T \ {x}) \union {x}
      OBVIOUS
    <3> QED
      BY <3>1, <3>2, FS_AddElement, FS_CardinalityType
  <2>2. PICK page : /\ IsPage(page, T \ {x}, key, n)
                    /\ T \ {x} = {page[i] : i \in 1..n}
    BY <1>2
  <2> HIDE DEF n
  <2> DEFINE all == [i \in 1..(n + 1) |-> IF i = n + 1 THEN x ELSE page[i]]
  <2>3. /\ all[n + 1] = x
        /\ \A i \in 1..n : all[i] = page[i] /\ all[i] \in T \ {x}
    BY <2>1, <2>2 DEF IsPage
  <2>4. all \in [1..(n + 1) -> T]
    BY <2>1, <2>3
  <2>5. 1..(n + 1) = (1..n) \union {n + 1}
    BY <2>1
  <2> HIDE DEF all
  <2>6. T = {all[i] : i \in 1..(n + 1)}
    BY <2>2, <2>3, <2>5
  <2>7. ASSUME NEW i \in 1..(n + 1), NEW j \in 1..(n + 1), i < j
        PROVE  all[i] # all[j] /\ key[all[i]] >= key[all[j]]
    <3>1. i \in 1..n
      BY <2>1, <2>7
    <3>2. CASE j = n + 1
      BY <1>2, <2>3, <3>1, <3>2
    <3>3. CASE j \in 1..n
      BY <2>2, <2>3, <2>7, <3>1, <3>3 DEF IsPage
    <3> QED
      BY <2>5, <3>2, <3>3
  <2>8. IsPage(all, T, key, n + 1)
    BY <2>4, <2>6, <2>7 DEF IsPage
  <2> QED
    BY <2>1, <2>6, <2>8
<1>3. \A T \in SUBSET S : T # {} => \E x \in T : T \ {x} \in Good => T \in Good
  BY <1>2, LowestExists
<1> HIDE DEF Good
<1>4. SUBSET S \subseteq Good
  BY <1>1, <1>3, SubsetInduction
<1> QED
  BY <1>4 DEF Good

\* A query with a limit answers with the first rows of that order: its page is
\* full, in order and without duplicates, and no row it leaves out is higher.
LEMMA HighestIsPage ==
    ASSUME NEW S, IsFiniteSet(S), NEW key, \A r \in S : key[r] \in Int,
           NEW limit \in Nat
    PROVE  /\ Shown(S, limit) \in Nat
           /\ Shown(S, limit) <= Cardinality(S)
           /\ IsPage(Highest(S, key, limit), S, key, Shown(S, limit))
           /\ Len(Highest(S, key, limit)) = Shown(S, limit)
<1> DEFINE n == Shown(S, limit)
           size == Cardinality(S)
<1>1. size \in Nat /\ n \in Nat /\ n <= size
  BY FS_CardinalityType DEF Shown
<1>2. PICK order : /\ IsPage(order, S, key, size)
                   /\ S = {order[i] : i \in 1..size}
  BY OrderExists
<1>3. \E page \in [1..n -> S] :
          /\ \A i, j \in 1..n :
                 i < j => page[i] # page[j] /\ key[page[i]] >= key[page[j]]
          /\ \A r \in S \ {page[i] : i \in 1..n} : \A i \in 1..n :
                 key[page[i]] >= key[r]
  <2> HIDE DEF n, size
  <2> DEFINE page == [i \in 1..n |-> order[i]]
  <2>1. 1..n \subseteq 1..size
    BY <1>1
  <2>2. page \in [1..n -> S]
    BY <1>2, <2>1 DEF IsPage
  <2>3. \A i, j \in 1..n :
            i < j => page[i] # page[j] /\ key[page[i]] >= key[page[j]]
    BY <1>2, <2>1 DEF IsPage
  <2>4. ASSUME NEW r \in S \ {page[i] : i \in 1..n}, NEW i \in 1..n
        PROVE  key[page[i]] >= key[r]
    <3>1. PICK j \in 1..size : r = order[j]
      BY <1>2
    <3>2. j \notin 1..n
      BY <3>1
    <3>3. i < j
      BY <1>1, <3>2
    <3> QED
      BY <1>2, <2>1, <3>1, <3>3 DEF IsPage
  <2> HIDE DEF page
  <2> QED
    BY <2>2, <2>3, <2>4
<1>4. IsPage(Highest(S, key, limit), S, key, n)
  <2>1. Highest(S, key, limit) =
            CHOOSE page \in [1..n -> S] :
                /\ \A i, j \in 1..n :
                       i < j => page[i] # page[j] /\ key[page[i]] >= key[page[j]]
                /\ \A r \in S \ {page[i] : i \in 1..n} : \A i \in 1..n :
                       key[page[i]] >= key[r]
    BY DEF Highest, Shown
  <2> HIDE DEF n
  <2> QED
    BY <1>3, <2>1, Zenon DEF IsPage
<1>5. Len(Highest(S, key, limit)) = n
  <2> HIDE DEF n
  <2> QED
    BY <1>1, <1>4 DEF IsPage
<1> QED
  BY <1>1, <1>4, <1>5

\* Every row of a page that could show all of them is on it.
LEMMA PageIsFull ==
    ASSUME NEW S, IsFiniteSet(S), NEW key, NEW page,
           IsPage(page, S, key, Cardinality(S))
    PROVE  \A r \in S : \E i \in 1..Cardinality(S) : page[i] = r
<1> DEFINE n == Cardinality(S)
<1>1. n \in Nat
  BY FS_CardinalityType
<1>2. IsFiniteSet(1..n) /\ Cardinality(1..n) = n
  BY <1>1, FS_Interval
<1>3. page \in Injection(1..n, S)
  <2> HIDE DEF n
  <2>1. ASSUME NEW i \in 1..n, NEW j \in 1..n, page[i] = page[j]
        PROVE  i = j
    <3>1. ~(i < j) /\ ~(j < i)
      BY <2>1 DEF IsPage, n
    <3> QED
      BY <1>1, <3>1
  <2> QED
    BY <2>1 DEF Injection, IsInjective, IsPage, n
<1>4. page \in Surjection(1..n, S)
  BY <1>2, <1>3, FS_Injection
<1> QED
  BY <1>4 DEF Surjection

\* A page of fewer rows with lower keys stays below a page of more, place by
\* place: above its i-th key there are i rows, and the other page has them or
\* higher ones before its own place i.
LEMMA PagesInOrder ==
    ASSUME NEW T, IsFiniteSet(T), NEW S \in SUBSET T,
           NEW low, NEW high,
           \A r \in S : low[r] \in Int /\ low[r] <= high[r],
           \A r \in T : high[r] \in Int,
           NEW limit \in Nat
    PROVE  LET lower == Highest(S, low, limit)
               higher == Highest(T, high, limit)
           IN  /\ Len(lower) <= Len(higher)
               /\ Len(lower) \in Nat /\ Len(higher) \in Nat
               /\ \A i \in 1..Len(lower) : lower[i] \in S
               /\ \A i \in 1..Len(higher) : higher[i] \in T
               /\ \A i \in 1..Len(lower) : low[lower[i]] <= high[higher[i]]
<1> DEFINE lower == Highest(S, low, limit)
           higher == Highest(T, high, limit)
           m == Shown(S, limit)
           n == Shown(T, limit)
<1>1. /\ m \in Nat /\ Len(lower) = m
      /\ IsPage(lower, S, low, m)
  BY FS_Subset, HighestIsPage
<1>2. /\ n \in Nat /\ Len(higher) = n
      /\ IsPage(higher, T, high, n)
  BY HighestIsPage
<1>3. m <= n
  <2>1. /\ IsFiniteSet(S)
        /\ Cardinality(S) <= Cardinality(T)
    BY FS_Subset
  <2>2. Cardinality(S) \in Nat /\ Cardinality(T) \in Nat
    BY <2>1, FS_CardinalityType
  <2> QED
    BY <2>1, <2>2 DEF Shown
<1> HIDE DEF lower, higher, m, n
<1>4. ASSUME NEW i \in 1..m, ~(low[lower[i]] <= high[higher[i]])
      PROVE  FALSE
  <2>1. i \in 1..n
    BY <1>1, <1>2, <1>3
  <2>2. lower[i] \in S /\ higher[i] \in T
    BY <1>1, <1>2, <2>1 DEF IsPage
  <2>3. \A j \in 1..i : j \in 1..m /\ lower[j] \in S
    BY <1>1 DEF IsPage
  <2>4. ASSUME NEW j \in 1..i
        PROVE  \E k \in 1..(i - 1) : higher[k] = lower[j]
    <3>1. low[lower[j]] >= low[lower[i]]
      <4>1. CASE j = i
        BY <2>2, <4>1
      <4>2. CASE j < i
        BY <1>1, <2>3, <4>2 DEF IsPage
      <4> QED
        BY <4>1, <4>2
    <3>2. high[lower[j]] > high[higher[i]]
      <4>1. /\ low[lower[i]] \in Int /\ high[higher[i]] \in Int
            /\ low[lower[j]] \in Int /\ high[lower[j]] \in Int
            /\ low[lower[j]] <= high[lower[j]]
        BY <2>2, <2>3
      <4>2. low[lower[i]] > high[higher[i]]
        BY <1>4, <4>1
      <4> QED
        BY <3>1, <4>1, <4>2
    <3>3. lower[j] \in T
      BY <2>3
    <3>4. ~(high[higher[i]] >= high[lower[j]])
      BY <2>2, <3>2, <3>3
    <3>5. PICK k \in 1..n : lower[j] = higher[k]
      BY <1>2, <2>1, <3>3, <3>4 DEF IsPage
    <3>6. k # i
      BY <2>2, <3>4, <3>5
    <3>7. ~(i < k)
      BY <1>2, <2>1, <3>4, <3>5 DEF IsPage
    <3> QED
      BY <3>5, <3>6, <3>7
  <2> DEFINE place == [j \in 1..i |-> CHOOSE k \in 1..(i - 1) : higher[k] = lower[j]]
  <2>5. \A j \in 1..i : place[j] \in 1..(i - 1) /\ higher[place[j]] = lower[j]
    BY <2>4
  <2>6. place \in [1..i -> 1..(i - 1)]
    BY <2>5
  <2>7. /\ IsFiniteSet(1..i) /\ Cardinality(1..i) = i
        /\ IsFiniteSet(1..(i - 1)) /\ Cardinality(1..(i - 1)) = i - 1
    <3>1. i \in Int /\ i - 1 \in Int /\ i >= 1
      OBVIOUS
    <3>2. ASSUME NEW b \in Int, b >= 0
          PROVE  IsFiniteSet(1..b) /\ Cardinality(1..b) = b
      BY <3>2, FS_Interval
    <3> QED
      BY <3>1, <3>2
  <2> HIDE DEF place
  <2>8. PICK x \in 1..i, y \in 1..i : x # y /\ place[x] = place[y]
    <3>1. Cardinality(1..(i - 1)) < Cardinality(1..i)
      BY <2>7
    <3> QED
      BY <2>6, <2>7, <3>1, FS_PigeonHole
  <2>9. lower[x] = lower[y]
    BY <2>5, <2>8
  <2> QED
    <3>1. x < y \/ y < x
      BY <2>8
    <3> QED
      BY <1>1, <2>3, <2>9, <3>1 DEF IsPage
<1>5. \A i \in 1..m : low[lower[i]] <= high[higher[i]]
  BY <1>4
<1>6. /\ \A i \in 1..m : lower[i] \in S
      /\ \A i \in 1..n : higher[i] \in T
  BY <1>1, <1>2 DEF IsPage
<1> QED
  BY <1>1, <1>2, <1>3, <1>5, <1>6 DEF lower, higher

-----------------------------------------------------------------------------
(* Sums.                                                                   *)

\* A column that counts in each cell the elements that fall in it adds up to
\* the number of all elements.
LEMMA SumOfFibres ==
    ASSUME NEW A, IsFiniteSet(A), NEW C, NEW f \in [A -> C],
           NEW column, DOMAIN column = C,
           \A c \in C : column[c] = Cardinality({a \in A : f[a] = c})
    PROVE  SumOf(column) = Cardinality(A)
<1> DEFINE fibre(c) == {a \in A : f[a] = c}
           Units == UNION {{c} \X (1..column[c]) : c \in C}
           number == [c \in C |-> CHOOSE g : g \in Bijection(fibre(c), 1..column[c])]
           unit == [a \in A |-> <<f[a], number[f[a]][a]>>]
<1>1. \A c \in C : number[c] \in Bijection(fibre(c), 1..column[c])
  <2> SUFFICES ASSUME NEW c \in C
               PROVE  number[c] \in Bijection(fibre(c), 1..column[c])
    OBVIOUS
  <2>0. fibre(c) \in SUBSET A /\ column[c] = Cardinality(fibre(c))
    OBVIOUS
  <2>1. IsFiniteSet(fibre(c)) /\ column[c] \in Nat
    <3> HIDE DEF fibre
    <3> QED
      BY <2>0, FS_Subset, FS_CardinalityType
  <2>2. /\ IsFiniteSet(1..column[c])
        /\ Cardinality(1..column[c]) = Cardinality(fibre(c))
    <3> HIDE DEF fibre
    <3>1. ASSUME NEW n \in Nat
          PROVE  IsFiniteSet(1..n) /\ Cardinality(1..n) = n
      BY FS_Interval
    <3> QED
      BY <2>0, <2>1, <3>1
  <2>3. ExistsBijection(fibre(c), 1..column[c])
    <3> HIDE DEF fibre
    <3> QED
      BY <2>1, <2>2, FS_SameCardinalityBij
  <2> HIDE DEF fibre
  <2> QED
    BY <2>3 DEF ExistsBijection
<1> HIDE DEF number
<1>2. ASSUME NEW a \in A
      PROVE  /\ f[a] \in C /\ a \in fibre(f[a])
             /\ number[f[a]][a] \in 1..column[f[a]]
             /\ unit[a] = <<f[a], number[f[a]][a]>>
             /\ unit[a] \in Units
  <2>1. f[a] \in C /\ a \in fibre(f[a])
    OBVIOUS
  <2> HIDE DEF fibre
  <2>2. number[f[a]][a] \in 1..column[f[a]]
    BY <1>1, <2>1 DEF Bijection, Injection
  <2> QED
    BY <2>1, <2>2
<1>3. unit \in [A -> Units]
  BY <1>2
<1>4. ASSUME NEW a \in A, NEW b \in A, unit[a] = unit[b]
      PROVE  a = b
  <2>1. f[a] = f[b] /\ number[f[a]][a] = number[f[a]][b]
    BY <1>2, <1>4
  <2>2. a \in fibre(f[a]) /\ b \in fibre(f[a]) /\ f[a] \in C
    BY <2>1
  <2> HIDE DEF fibre
  <2> QED
    BY <1>1, <2>1, <2>2 DEF Bijection, Injection, IsInjective
<1>5. ASSUME NEW u \in Units
      PROVE  \E a \in A : unit[a] = u
  <2>1. PICK c \in C : u \in {c} \X (1..column[c])
    OBVIOUS
  <2>2. PICK i \in 1..column[c] : u = <<c, i>>
    BY <2>1
  <2>3. PICK a \in fibre(c) : number[c][a] = i
    BY <1>1 DEF Bijection, Surjection
  <2>4. a \in A /\ f[a] = c
    OBVIOUS
  <2> QED
    BY <1>2, <2>2, <2>3, <2>4
<1> HIDE DEF unit, Units
<1>6. ExistsBijection(A, Units)
  <2>1. unit \in Bijection(A, Units)
    BY <1>3, <1>4, <1>5 DEF Bijection, Injection, Surjection, IsInjective
  <2> QED
    BY <2>1 DEF ExistsBijection
<1>7. Cardinality(Units) = Cardinality(A)
  BY <1>6, FS_Bijection
<1> QED
  BY <1>7 DEF SumOf, Units

\* Two sets with nothing in common.
LEMMA DisjointUnion ==
    ASSUME NEW A, NEW B, IsFiniteSet(A), IsFiniteSet(B), A \cap B = {}
    PROVE  /\ IsFiniteSet(A \union B)
           /\ Cardinality(A \union B) = Cardinality(A) + Cardinality(B)
<1>1. Cardinality(A) \in Nat /\ Cardinality(B) \in Nat
  BY FS_CardinalityType
<1>2. Cardinality(A \cap B) = 0
  BY FS_EmptySet
<1>3. /\ IsFiniteSet(A \union B)
      /\ Cardinality(A \union B) =
             Cardinality(A) + Cardinality(B) - Cardinality(A \cap B)
  BY ONLY IsFiniteSet(A), IsFiniteSet(B), FS_Union
<1>4. ASSUME NEW a \in Nat, NEW b \in Nat
      PROVE  a + b - 0 = a + b
  OBVIOUS
<1> QED
  BY ONLY <1>1, <1>2, <1>3, <1>4

\* One element for each point that an event scores.
Points(S) == {u \in S \X (1..3) : EventScore(u[1]) >= u[2]}

LEMMA PointsAreTheScore ==
    ASSUME NEW S \in SUBSET Events
    PROVE  /\ IsFiniteSet(Points(S))
           /\ ScoreSum(S) = Cardinality(Points(S))
<1> DEFINE level(k) == {u \in S \X {k} : EventScore(u[1]) >= k}
<1>1. ASSUME NEW k \in 1..3
      PROVE  /\ IsFiniteSet(level(k))
             /\ Cardinality(level(k)) = Cardinality(Scoring(S, k))
             /\ Cardinality(level(k)) \in Nat
  <2> DEFINE pair == [e \in Scoring(S, k) |-> <<e, k>>]
  <2>1. pair \in Bijection(Scoring(S, k), level(k))
    <3>1. \A e \in Scoring(S, k) : pair[e] = <<e, k>> /\ pair[e] \in level(k)
      BY DEF Scoring
    <3>2. \A u \in level(k) : u[1] \in Scoring(S, k) /\ u = <<u[1], k>>
      BY DEF Scoring
    <3>3. pair \in [Scoring(S, k) -> level(k)]
      BY <3>1
    <3> HIDE DEF pair, level
    <3>4. \A u \in level(k) : \E e \in Scoring(S, k) : pair[e] = u
      BY <3>1, <3>2
    <3>5. \A e, g \in Scoring(S, k) : pair[e] = pair[g] => e = g
      BY <3>1
    <3> QED
      BY <3>3, <3>4, <3>5 DEF Bijection, Injection, Surjection, IsInjective
  <2> HIDE DEF pair, level
  <2>2. ExistsBijection(Scoring(S, k), level(k))
    BY <2>1 DEF ExistsBijection
  <2>3. IsFiniteSet(Scoring(S, k))
    BY ScoringFinite
  <2> QED
    BY <2>2, <2>3, FS_Bijection, FS_CardinalityType
<1>2. /\ Points(S) = (level(1) \union level(2)) \union level(3)
      /\ level(1) \cap level(2) = {}
      /\ (level(1) \union level(2)) \cap level(3) = {}
  <2>1. \A u : u \in Points(S) <=> u \in level(1) \/ u \in level(2) \/ u \in level(3)
    BY DEF Points
  <2>2. \A k \in 1..3 : \A u \in level(k) : u[2] = k
    OBVIOUS
  <2> HIDE DEF level
  <2> QED
    BY <2>1, <2>2
<1> HIDE DEF level
<1>3. /\ IsFiniteSet(level(1) \union level(2))
      /\ Cardinality(level(1) \union level(2)) =
             Cardinality(level(1)) + Cardinality(level(2))
  <2>1. IsFiniteSet(level(1)) /\ IsFiniteSet(level(2))
    BY <1>1
  <2> QED
    BY <1>2, <2>1, DisjointUnion
<1>4. /\ IsFiniteSet(Points(S))
      /\ Cardinality(Points(S)) =
             Cardinality(level(1)) + Cardinality(level(2)) + Cardinality(level(3))
  <2>1. IsFiniteSet(level(3))
    BY <1>1
  <2> QED
    BY <1>2, <1>3, <2>1, DisjointUnion
<1> QED
  BY <1>1, <1>4 DEF ScoreSum

\* More events do not score less, and an event with weight scores.
LEMMA ScoreSumGrows ==
    ASSUME NEW T \in SUBSET Events, NEW S \in SUBSET T
    PROVE  /\ ScoreSum(S) \in Nat /\ ScoreSum(T) \in Nat
           /\ ScoreSum(S) <= ScoreSum(T)
           /\ ScoreSum(S) > 0 <=> \E e \in S : Weighted(e)
<1>1. S \in SUBSET Events
  OBVIOUS
<1>2. /\ IsFiniteSet(Points(S)) /\ ScoreSum(S) = Cardinality(Points(S))
      /\ IsFiniteSet(Points(T)) /\ ScoreSum(T) = Cardinality(Points(T))
  BY <1>1, PointsAreTheScore
<1>3. Points(S) \subseteq Points(T)
  BY DEF Points
<1>4. Points(S) # {} <=> \E e \in S : Weighted(e)
  <2>1. ASSUME NEW e \in S, Weighted(e)
        PROVE  <<e, 1>> \in Points(S)
    BY <2>1, ScoreRange DEF Points, Weighted
  <2>2. ASSUME NEW u \in Points(S)
        PROVE  u[1] \in S /\ Weighted(u[1])
    <3>1. u[1] \in S /\ u[2] \in 1..3 /\ EventScore(u[1]) >= u[2]
      BY DEF Points
    <3>2. EventScore(u[1]) \in 0..3
      BY ScoreRange
    <3> QED
      BY <3>1, <3>2 DEF Weighted
  <2> QED
    BY <2>1, <2>2
<1> QED
  BY <1>2, <1>3, <1>4, FS_Subset, FS_CardinalityType, FS_EmptySet

-----------------------------------------------------------------------------
(* The columns of the historical store.                                    *)

\* The scores and counts of the snapshots of r, with an index set of its own:
\* hour gives each index its hour and meets every hour that has events.
IsColumn(score, count, S, r, row, C, hour) ==
    /\ \A h \in Hours : row[h] = ExpectedTotals(S, r, h)
    /\ hour \in [C -> Hours]
    /\ \A c, d \in C : hour[c] = hour[d] => c = d
    /\ \A e \in Scoring(OfRepo(S, r), 1) : \E c \in C : hour[c] = HourOf[e]
    /\ DOMAIN score = C /\ \A c \in C : score[c] = row[hour[c]].score
    /\ DOMAIN count = C /\ \A c \in C : count[c] = row[hour[c]].count

\* The snapshots of a repository add up to its weighted rows of metadata.
LEMMA HistorySums ==
    ASSUME NEW S \in SUBSET Events, NEW r, NEW row, NEW C, NEW hour,
           NEW score, NEW count, IsColumn(score, count, S, r, row, C, hour)
    PROVE  /\ SumOf(score) = ScoreSum(Scoring(OfRepo(S, r), 1))
           /\ SumOf(count) = Cardinality(Scoring(OfRepo(S, r), 1))
<1> USE DEF IsColumn
<1> DEFINE rows == Scoring(OfRepo(S, r), 1)
           part(c) == Scoring(OfRepoHour(S, r, hour[c]), 1)
           cell == [e \in rows |-> CHOOSE c \in C : hour[c] = HourOf[e]]
<1>1. /\ rows \in SUBSET Events /\ IsFiniteSet(rows)
      /\ IsFiniteSet(Points(rows)) /\ ScoreSum(rows) = Cardinality(Points(rows))
  <2>1. rows \in SUBSET Events
    BY DEF Scoring, OfRepo
  <2> HIDE DEF rows
  <2> QED
    BY <2>1, PointsAreTheScore, EventsAssumption, FS_Subset DEF EventsAssumption
<1>2. \A e \in rows : cell[e] \in C /\ hour[cell[e]] = HourOf[e]
  OBVIOUS
<1>3. cell \in [rows -> C]
  BY <1>2
<1>4. ASSUME NEW c \in C
      PROVE  /\ part(c) = {e \in rows : cell[e] = c}
             /\ part(c) \in SUBSET Events
             /\ score[c] = ScoreSum(part(c))
             /\ count[c] = Cardinality(part(c))
  <2>1. \A e : e \in part(c) <=> e \in rows /\ HourOf[e] = hour[c]
    BY DEF Scoring, OfRepo, OfRepoHour
  <2>2. row[hour[c]] = [score |-> ScoreSum(part(c)), count |-> Cardinality(part(c))]
    BY DEF ExpectedTotals
  <2> HIDE DEF rows, cell, part
  <2>3. /\ row[hour[c]].score = ScoreSum(part(c))
        /\ row[hour[c]].count = Cardinality(part(c))
    BY <2>2
  <2>4. part(c) = {e \in rows : cell[e] = c}
    BY <1>2, <2>1
  <2> QED
    BY <1>1, <2>3, <2>4
<1> HIDE DEF rows, part, cell
<1>5. SumOf(count) = Cardinality(rows)
  <2>1. \A c \in C : count[c] = Cardinality({e \in rows : cell[e] = c})
    BY <1>4
  <2> QED
    BY <1>1, <1>3, <2>1, SumOfFibres
<1>6. SumOf(score) = Cardinality(Points(rows))
  <2> DEFINE points == Points(rows)
             place == [u \in points |-> cell[u[1]]]
  <2>1. \A u \in points : u[1] \in rows
    BY DEF Points
  <2>2. place \in [points -> C]
    BY <1>3, <2>1
  <2>3. \A c \in C : score[c] = Cardinality({u \in points : place[u] = c})
    <3> TAKE c \in C
    <3>1. \A u : u \in Points(part(c)) <=> u \in points /\ cell[u[1]] = c
      BY <1>4 DEF Points
    <3>2. Points(part(c)) = {u \in points : place[u] = c}
      BY <3>1
    <3>3. score[c] = Cardinality(Points(part(c)))
      BY <1>4, PointsAreTheScore
    <3> QED
      BY <3>2, <3>3
  <2>4. IsFiniteSet(points)
    BY <1>1
  <2> HIDE DEF place, points
  <2>5. SumOf(score) = Cardinality(points)
    BY <2>2, <2>3, <2>4, SumOfFibres
  <2> QED
    BY <2>5 DEF points
<1> QED
  BY <1>1, <1>5, <1>6 DEF rows

\* GROUP BY repo_name: all hours of each repository.
LEMMA RankedSums ==
    ASSUME NEW S \in SUBSET Events, NEW r \in Repos, NEW table,
           \A h \in Hours : table[r][h] = ExpectedTotals(S, r, h)
    PROVE  /\ SumOf([h \in Hours |-> table[r][h].score]) =
                  ScoreSum(Scoring(OfRepo(S, r), 1))
           /\ SumOf([h \in Hours |-> table[r][h].count]) =
                  Cardinality(Scoring(OfRepo(S, r), 1))
<1> DEFINE row == table[r]
           hour == [h \in Hours |-> h]
           score == [h \in Hours |-> table[r][h].score]
           count == [h \in Hours |-> table[r][h].count]
<1>1. \A e \in Scoring(OfRepo(S, r), 1) : \E h \in Hours : hour[h] = HourOf[e]
  BY EventsAssumption DEF EventsAssumption, Scoring, OfRepo
<1>2. IsColumn(score, count, S, r, row, Hours, hour)
  BY <1>1 DEF IsColumn
<1> HIDE DEF row, hour, score, count
<1>3. /\ SumOf(score) = ScoreSum(Scoring(OfRepo(S, r), 1))
      /\ SumOf(count) = Cardinality(Scoring(OfRepo(S, r), 1))
  BY <1>2, HistorySums
<1> QED
  BY <1>3 DEF score, count

\* A repository is in the historical ranking when it has a weighted row.
LEMMA RankedRepos ==
    ASSUME NEW S \in SUBSET Events, NEW r
    PROVE  /\ Cardinality(Scoring(OfRepo(S, r), 1)) \in Nat
           /\ Cardinality(Scoring(OfRepo(S, r), 1)) > 0 <=>
                  \E e \in S : RepoOf[e] = r /\ Weighted(e)
<1>1. OfRepo(S, r) \in SUBSET Events
  BY DEF OfRepo
<1>2. /\ IsFiniteSet(Scoring(OfRepo(S, r), 1))
      /\ Cardinality(Scoring(OfRepo(S, r), 1)) \in Nat
  BY <1>1, ScoringFinite
<1>3. Scoring(OfRepo(S, r), 1) # {} <=> \E e \in S : RepoOf[e] = r /\ Weighted(e)
  <2>1. \A e : EventScore(e) >= 1 <=> Weighted(e)
    <3>1. \A e : EventScore(e) \in 0..3
      BY ScoreRange
    <3> QED
      BY <3>1 DEF Weighted
  <2> QED
    BY <2>1 DEF Scoring, OfRepo
<1> QED
  BY <1>2, <1>3, FS_EmptySet

\* Only finitely many repositories have events.
LEMMA RepositoriesFinite ==
    ASSUME NEW R, \A r \in R : \E e \in Events : RepoOf[e] = r
    PROVE  IsFiniteSet(R)
<1> DEFINE known == {e \in Events : RepoOf[e] \in R}
           name == [e \in known |-> RepoOf[e]]
<1>1. name \in Surjection(known, R)
  BY DEF Surjection
<1>2. IsFiniteSet(known)
  BY EventsAssumption, FS_Subset DEF EventsAssumption
<1> HIDE DEF known, name
<1> QED
  BY <1>1, <1>2, FS_Surjection

-----------------------------------------------------------------------------
(* The three historical queries together.                                  *)

\* ORDER BY window_start.
ByHour == [h \in Hours |-> h]

\* Each element of H once.
ShowsEach(page, H) ==
    /\ Len(page) \in Nat
    /\ page \in [1..Len(page) -> H]
    /\ \A i, j \in 1..Len(page) : page[i] = page[j] => i = j
    /\ \A h \in H : \E i \in 1..Len(page) : page[i] = h

\* There are no more hours with events than events: a page with that limit
\* shows each of them.
LEMMA HourPage ==
    ASSUME NEW H \in SUBSET {HourOf[e] : e \in Events}, NEW default \in Nat
    PROVE  ShowsEach(Highest(H, ByHour, OrDefault(Cardinality(Events), default)), H)
<1> DEFINE limit == OrDefault(Cardinality(Events), default)
           n == Shown(H, limit)
           page == Highest(H, ByHour, limit)
<1>1. IsFiniteSet(H) /\ Cardinality(H) <= Cardinality(Events)
  <2> DEFINE inH == {e \in Events : HourOf[e] \in H}
             hour == [e \in inH |-> HourOf[e]]
  <2>1. hour \in Surjection(inH, H)
    BY DEF Surjection
  <2>2. IsFiniteSet(inH) /\ Cardinality(inH) <= Cardinality(Events)
    BY EventsAssumption, FS_Subset DEF EventsAssumption
  <2> HIDE DEF inH, hour
  <2>3. IsFiniteSet(H) /\ Cardinality(H) <= Cardinality(inH)
    BY <2>1, <2>2, FS_Surjection
  <2>4. /\ Cardinality(H) \in Nat /\ Cardinality(inH) \in Nat
        /\ Cardinality(Events) \in Nat
    BY <2>2, <2>3, FS_CardinalityType, EventsAssumption DEF EventsAssumption
  <2> QED
    BY <2>2, <2>3, <2>4
<1>2. /\ Cardinality(H) \in Nat /\ Cardinality(Events) \in Nat
      /\ limit \in Nat
      /\ n = Cardinality(H)
  <2>1. Cardinality(H) \in Nat /\ Cardinality(Events) \in Nat
    BY <1>1, FS_CardinalityType, EventsAssumption DEF EventsAssumption
  <2> QED
    BY <1>1, <2>1 DEF OrDefault, Shown
<1>3. \A h \in H : ByHour[h] \in Int
  BY EventsAssumption DEF EventsAssumption, ByHour
<1> HIDE DEF limit, n
<1>4. IsPage(page, H, ByHour, n) /\ Len(page) = n
  BY <1>1, <1>2, <1>3, HighestIsPage DEF n
<1> HIDE DEF page
<1>5. \A h \in H : \E i \in 1..n : page[i] = h
  BY <1>1, <1>2, <1>4, PageIsFull
<1>6. \A i, j \in 1..n : page[i] = page[j] => i = j
  <2> SUFFICES ASSUME NEW i \in 1..n, NEW j \in 1..n, page[i] = page[j]
               PROVE  i = j
    OBVIOUS
  <2>1. ~(i < j) /\ ~(j < i)
    BY <1>4 DEF IsPage
  <2> QED
    BY <1>2, <2>1
<1> QED
  BY <1>2, <1>4, <1>5, <1>6 DEF IsPage, ShowsEach, page, limit

\* The points of a history add up to the weighted rows of its repository.
PointsAddUp(points, S, r) ==
    /\ SumOf([j \in 1..Len(points) |-> points[j].score]) =
           ScoreSum(Scoring(OfRepo(S, r), 1))
    /\ SumOf([j \in 1..Len(points) |-> points[j].count]) =
           Cardinality(Scoring(OfRepo(S, r), 1))

LEMMA HistoryAddsUp ==
    ASSUME NEW S \in SUBSET Events, NEW r \in Repos, NEW table,
           \A h \in Hours : table[r][h] = ExpectedTotals(S, r, h)
    PROVE  PointsAddUp(RepoHistory(table, r, Cardinality(Events)), S, r)
<1> DEFINE H == {h \in Hours : HasRow(table, r, h)}
           row == table[r]
           page == Highest(H, ByHour, OrDefault(Cardinality(Events), 48))
           points == RepoHistory(table, r, Cardinality(Events))
           score == [j \in 1..Len(points) |-> points[j].score]
           count == [j \in 1..Len(points) |-> points[j].count]
<1>1. ASSUME NEW h \in Hours
      PROVE  h \in H <=> \E e \in Scoring(OfRepo(S, r), 1) : HourOf[e] = h
  <2> DEFINE rows == Scoring(OfRepoHour(S, r, h), 1)
  <2>1. row[h] = [score |-> ScoreSum(rows), count |-> Cardinality(rows)]
    BY DEF ExpectedTotals
  <2>2. IsFiniteSet(rows) /\ Cardinality(rows) \in Nat
    <3>1. OfRepoHour(S, r, h) \in SUBSET Events
      BY DEF OfRepoHour
    <3> QED
      BY <3>1, ScoringFinite
  <2>3. \A e : e \in rows <=> e \in Scoring(OfRepo(S, r), 1) /\ HourOf[e] = h
    BY DEF Scoring, OfRepo, OfRepoHour
  <2> HIDE DEF rows
  <2>4. row[h].count = Cardinality(rows)
    BY <2>1
  <2>5. h \in H <=> rows # {}
    BY <2>2, <2>4, FS_EmptySet DEF HasRow
  <2> QED
    BY <2>3, <2>5
<1>2. \A e \in Scoring(OfRepo(S, r), 1) : e \in Events /\ HourOf[e] \in Hours
  BY EventsAssumption DEF EventsAssumption, Scoring, OfRepo
<1>3. H \in SUBSET Hours
  OBVIOUS
<1> HIDE DEF H
<1>4. H \in SUBSET {HourOf[e] : e \in Events}
  BY <1>1, <1>2, <1>3
<1>5. /\ Len(page) \in Nat
      /\ page \in [1..Len(page) -> H]
      /\ \A i, j \in 1..Len(page) : page[i] = page[j] => i = j
      /\ \A h \in H : \E i \in 1..Len(page) : page[i] = h
  <2>1. 48 \in Nat
    OBVIOUS
  <2>2. ShowsEach(page, H)
    BY <1>4, <2>1, HourPage
  <2> HIDE DEF page
  <2> QED
    BY <2>2 DEF ShowsEach
<1>6. points = [i \in 1..Len(page) |-> [hour  |-> page[i],
                                       score |-> row[page[i]].score,
                                       count |-> row[page[i]].count]]
  BY Zenon DEF RepoHistory, H, ByHour
<1> HIDE DEF page, points
<1>7. Len(points) = Len(page)
  BY <1>5, <1>6
<1>8. ASSUME NEW i \in 1..Len(page)
      PROVE  /\ score[i] = row[page[i]].score
             /\ count[i] = row[page[i]].count
  <2>1. points[i] = [hour |-> page[i], score |-> row[page[i]].score,
                     count |-> row[page[i]].count]
    BY <1>6
  <2>2. /\ points[i].score = row[page[i]].score
        /\ points[i].count = row[page[i]].count
    BY <2>1
  <2> QED
    BY <1>7, <2>2
<1>9. DOMAIN score = 1..Len(page) /\ DOMAIN count = 1..Len(page)
  BY <1>7
<1> HIDE DEF score, count
<1>10. IsColumn(score, count, S, r, row, 1..Len(page), page)
  <2>1. \A h \in Hours : row[h] = ExpectedTotals(S, r, h)
    OBVIOUS
  <2>2. \A e \in Scoring(OfRepo(S, r), 1) :
            \E i \in 1..Len(page) : page[i] = HourOf[e]
    BY <1>1, <1>2, <1>5
  <2>3. page \in [1..Len(page) -> Hours]
    BY <1>3, <1>5
  <2> HIDE DEF row
  <2> QED
    BY <1>5, <1>8, <1>9, <2>1, <2>2, <2>3 DEF IsColumn
<1> HIDE DEF row
<1>11. /\ SumOf(score) = ScoreSum(Scoring(OfRepo(S, r), 1))
       /\ SumOf(count) = Cardinality(Scoring(OfRepo(S, r), 1))
  BY <1>10, HistorySums
<1> QED
  BY <1>11 DEF score, count, points, PointsAddUp

\* The lines of the historical ranking are the sums of its repositories.
LinesAddUp(ranked, S) ==
    \A i \in 1..Len(ranked) :
        /\ ranked[i].repo \in Repos
        /\ ranked[i].score = ScoreSum(Scoring(OfRepo(S, ranked[i].repo), 1))
        /\ ranked[i].count = Cardinality(Scoring(OfRepo(S, ranked[i].repo), 1))

LEMMA RankingAddsUp ==
    ASSUME NEW S \in SUBSET Events, NEW table,
           \A r \in Repos, h \in Hours : table[r][h] = ExpectedTotals(S, r, h),
           NEW limit \in Nat
    PROVE  LinesAddUp(HistoricalTrending(table, limit), S)
<1> DEFINE rows(r) == Scoring(OfRepo(S, r), 1)
           score == [r \in Repos |-> SumOf([h \in Hours |-> table[r][h].score])]
           count == [r \in Repos |-> SumOf([h \in Hours |-> table[r][h].count])]
           R == {r \in Repos : count[r] > 0}
           page == Highest(R, score, OrDefault(limit, 10))
           ranked == HistoricalTrending(table, limit)
<1>1. \A r \in Repos : score[r] = ScoreSum(rows(r)) /\ count[r] = Cardinality(rows(r))
  <2> TAKE r \in Repos
  <2>1. \A h \in Hours : table[r][h] = ExpectedTotals(S, r, h)
    OBVIOUS
  <2>2. /\ SumOf([h \in Hours |-> table[r][h].score]) = ScoreSum(rows(r))
        /\ SumOf([h \in Hours |-> table[r][h].count]) = Cardinality(rows(r))
    BY <2>1, RankedSums
  <2> HIDE DEF rows
  <2> QED
    BY <2>2
<1>2. \A r \in Repos : /\ score[r] \in Nat
                       /\ r \in R => \E e \in Events : RepoOf[e] = r
  <2> TAKE r \in Repos
  <2>1. rows(r) \in SUBSET Events
    BY DEF Scoring, OfRepo
  <2>2. Cardinality(rows(r)) > 0 => \E e \in Events : RepoOf[e] = r
    <3>1. Cardinality(rows(r)) > 0 <=> \E e \in S : RepoOf[e] = r /\ Weighted(e)
      BY RankedRepos
    <3> HIDE DEF rows
    <3> QED
      BY <3>1
  <2> HIDE DEF rows, score, count
  <2>3. ScoreSum(rows(r)) \in Nat
    BY <2>1, ScoreSumGrows
  <2> QED
    BY <1>1, <2>2, <2>3
<1>3. IsFiniteSet(R)
  <2>1. \A r \in R : \E e \in Events : RepoOf[e] = r
    BY <1>2
  <2> HIDE DEF R
  <2> QED
    BY <2>1, RepositoriesFinite
<1>4. OrDefault(limit, 10) \in Nat
  BY DEF OrDefault
<1>5. ranked = [i \in 1..Len(page) |-> [repo  |-> page[i],
                                       score |-> score[page[i]],
                                       count |-> count[page[i]]]]
  BY Zenon DEF HistoricalTrending
<1>6. \A r \in R : r \in Repos /\ score[r] \in Int
  BY <1>2
<1> HIDE DEF rows, score, count, R
<1>7. /\ Len(page) \in Nat
      /\ page \in [1..Len(page) -> R]
  BY <1>3, <1>4, <1>6, HighestIsPage DEF IsPage
<1> HIDE DEF page, ranked
<1>8. Len(ranked) = Len(page)
  BY <1>5, <1>7
<1>9. ASSUME NEW i \in 1..Len(ranked)
      PROVE  /\ ranked[i].repo \in Repos
             /\ ranked[i].score = ScoreSum(rows(ranked[i].repo))
             /\ ranked[i].count = Cardinality(rows(ranked[i].repo))
  <2>1. ranked[i] = [repo |-> page[i], score |-> score[page[i]],
                     count |-> count[page[i]]]
    BY <1>5, <1>8
  <2>2. page[i] \in Repos
    BY <1>6, <1>7, <1>8
  <2>3. /\ ranked[i].repo = page[i] /\ ranked[i].score = score[page[i]]
        /\ ranked[i].count = count[page[i]]
    BY <2>1
  <2> QED
    BY <1>1, <2>2, <2>3
<1> QED
  BY <1>9 DEF LinesAddUp, rows, ranked

\* What a window joins: the weighted rows of its hour, in repositories that
\* have one.
LEMMA WindowTotals ==
    ASSUME NEW S \in SUBSET Events, \A e \in S : Complete(e), NEW table,
           NEW h \in Hours, \A r \in Repos : table[r][h] = ExpectedTotals(S, r, h)
    PROVE  /\ SumOf([r \in Repos |-> table[r][h].count]) =
                  Cardinality({e \in Scoring(S, 1) : HourOf[e] = h})
           /\ (\E e \in Scoring(S, 1) : HourOf[e] = h) =>
                  Cardinality({r \in Repos : HasRow(table, r, h)}) > 0
<1> DEFINE rows == {e \in Scoring(S, 1) : HourOf[e] = h}
           repo == [e \in rows |-> RepoOf[e]]
           count == [r \in Repos |-> table[r][h].count]
           R == {r \in Repos : HasRow(table, r, h)}
<1>1. IsFiniteSet(rows)
  <2>1. rows \in SUBSET Events
    BY DEF Scoring
  <2> HIDE DEF rows
  <2> QED
    BY <2>1, EventsAssumption, FS_Subset DEF EventsAssumption
<1>2. \A e \in rows : repo[e] = RepoOf[e] /\ RepoOf[e] \in Repos
  BY EventsAssumption DEF EventsAssumption, Complete, Scoring
<1>3. \A r \in Repos : count[r] = Cardinality({e \in rows : repo[e] = r})
  <2> TAKE r \in Repos
  <2> DEFINE part == Scoring(OfRepoHour(S, r, h), 1)
  <2>1. part = {e \in rows : repo[e] = r}
    BY <1>2 DEF Scoring, OfRepoHour
  <2>2. table[r][h] = [score |-> ScoreSum(part), count |-> Cardinality(part)]
    BY DEF ExpectedTotals
  <2> HIDE DEF part
  <2>3. table[r][h].count = Cardinality(part)
    BY <2>2
  <2> HIDE DEF rows, repo
  <2> QED
    BY <2>1, <2>3
<1>4. repo \in [rows -> Repos]
  BY <1>2
<1>5. DOMAIN count = Repos /\ \A r \in Repos : HasRow(table, r, h) <=> count[r] > 0
  BY DEF HasRow
<1>6. \A r : r \in R <=> r \in Repos /\ count[r] > 0
  BY <1>5
<1> HIDE DEF rows, repo, count, R
<1>7. SumOf(count) = Cardinality(rows)
  BY <1>1, <1>3, <1>4, <1>5, SumOfFibres
<1>8. \A r : r \in R <=> r \in Repos /\ \E e \in rows : repo[e] = r
  <2> SUFFICES ASSUME NEW r \in Repos
               PROVE  count[r] > 0 <=> \E e \in rows : repo[e] = r
    BY <1>6
  <2> DEFINE part == {e \in rows : repo[e] = r}
  <2>1. IsFiniteSet(part) /\ count[r] = Cardinality(part)
    BY <1>1, <1>3, FS_Subset
  <2>2. part # {} <=> \E e \in rows : repo[e] = r
    OBVIOUS
  <2> HIDE DEF part
  <2> QED
    BY <2>1, <2>2, FS_EmptySet, FS_CardinalityType
<1>9. IsFiniteSet(R)
  <2>1. \A e \in rows : e \in Events
    BY DEF rows, Scoring
  <2> QED
    BY <1>2, <1>8, <2>1, RepositoriesFinite
<1>10. rows # {} => Cardinality(R) > 0
  <2>1. rows # {} => R # {}
    BY <1>2, <1>8
  <2> QED
    BY <1>9, <2>1, FS_EmptySet, FS_CardinalityType
<1> QED
  BY <1>7, <1>10 DEF rows, count, R

\* The windows account for every weighted row, and none is empty.
EventsAddUp(shown, S) ==
    /\ SumOf([i \in 1..Len(shown) |-> shown[i].events]) = Cardinality(Scoring(S, 1))
    /\ \A i \in 1..Len(shown) : shown[i].repos > 0

LEMMA WindowsAddUp ==
    ASSUME NEW S \in SUBSET Events, \A e \in S : Complete(e), NEW table,
           \A r \in Repos, h \in Hours : table[r][h] = ExpectedTotals(S, r, h),
           NEW hours, hours = {HourOf[e] : e \in Scoring(S, 1)}
    PROVE  EventsAddUp(AggregationWindows(hours, table, Cardinality(Events)), S)
<1> DEFINE page == Highest(hours, ByHour, OrDefault(Cardinality(Events), 24))
           shown == AggregationWindows(hours, table, Cardinality(Events))
           rows == Scoring(S, 1)
           total(h) == SumOf([r \in Repos |-> table[r][h].count])
           repos(h) == Cardinality({r \in Repos : HasRow(table, r, h)})
           events == [i \in 1..Len(shown) |-> shown[i].events]
           place == [e \in rows |-> CHOOSE i \in 1..Len(page) : page[i] = HourOf[e]]
<1>1. /\ Len(page) \in Nat
      /\ page \in [1..Len(page) -> hours]
      /\ \A i, j \in 1..Len(page) : page[i] = page[j] => i = j
      /\ \A h \in hours : \E i \in 1..Len(page) : page[i] = h
  <2>1. 24 \in Nat
    OBVIOUS
  <2>2. hours \in SUBSET {HourOf[e] : e \in Events}
    BY DEF Scoring
  <2>3. ShowsEach(page, hours)
    BY <2>1, <2>2, HourPage
  <2> HIDE DEF page
  <2> QED
    BY <2>3 DEF ShowsEach
<1>2. shown = [i \in 1..Len(page) |-> [hour   |-> page[i],
                                      events |-> total(page[i]),
                                      repos  |-> repos(page[i])]]
  BY Zenon DEF AggregationWindows, ByHour
<1>3. \A e \in rows : e \in Events /\ HourOf[e] \in Hours /\ HourOf[e] \in hours
  BY EventsAssumption DEF EventsAssumption, Scoring
<1>4. ASSUME NEW h \in hours
      PROVE  /\ total(h) = Cardinality({e \in rows : HourOf[e] = h})
             /\ repos(h) > 0
  <2>1. h \in Hours /\ \E e \in rows : HourOf[e] = h
    BY <1>3
  <2>2. \A r \in Repos : table[r][h] = ExpectedTotals(S, r, h)
    BY <2>1
  <2> QED
    BY <2>1, <2>2, WindowTotals
<1> HIDE DEF total, repos, page, shown
<1>5. Len(shown) = Len(page)
  BY <1>1, <1>2
<1>6. ASSUME NEW i \in 1..Len(page)
      PROVE  /\ events[i] = Cardinality({e \in rows : HourOf[e] = page[i]})
             /\ shown[i].repos > 0
  <2>1. shown[i] = [hour |-> page[i], events |-> total(page[i]),
                    repos |-> repos(page[i])]
    BY <1>2
  <2>2. shown[i].events = total(page[i]) /\ shown[i].repos = repos(page[i])
    BY <2>1
  <2>3. events[i] = total(page[i])
    BY <1>5, <2>2
  <2>4. page[i] \in hours
    BY <1>1
  <2> HIDE DEF events, rows
  <2> QED
    BY <1>4, <2>2, <2>3, <2>4
<1>7. DOMAIN events = 1..Len(page)
  BY <1>5
<1>8. IsFiniteSet(rows)
  BY ScoringFinite
<1> HIDE DEF events, rows
<1>9. \A e \in rows : place[e] \in 1..Len(page) /\ page[place[e]] = HourOf[e]
  BY <1>1, <1>3
<1>10. place \in [rows -> 1..Len(page)]
  BY <1>9
<1> HIDE DEF place
<1>11. \A i \in 1..Len(page) : events[i] = Cardinality({e \in rows : place[e] = i})
  <2> TAKE i \in 1..Len(page)
  <2>1. {e \in rows : HourOf[e] = page[i]} = {e \in rows : place[e] = i}
    BY <1>1, <1>9
  <2> QED
    BY <1>6, <2>1
<1>12. SumOf(events) = Cardinality(rows)
  BY <1>7, <1>8, <1>10, <1>11, SumOfFibres
<1> QED
  BY <1>5, <1>6, <1>12 DEF events, rows, shown, EventsAddUp
=============================================================================
