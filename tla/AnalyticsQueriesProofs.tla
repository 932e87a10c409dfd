----------------------- MODULE AnalyticsQueriesProofs -----------------------
(***************************************************************************)
(* The answers of analytics-service and the figures of the dashboard agree *)
(* with each other for any rows, any table, any queries and any order of   *)
(* inserts and fetches.                                                    *)
(*                                                                         *)
(* Everything rests on one fact about GROUP BY: the groups part the rows   *)
(* of the filter, so a figure summed over the groups is the figure of all  *)
(* the rows, whatever the key (GroupsAddUp).                               *)
(***************************************************************************)
EXTENDS AnalyticsQueries, SumTheorems, TLAPS

-----------------------------------------------------------------------------
(* The aggregations.                                                       *)

TableOK == table \in [Rows -> Nat]

\* A set of rows has a count, and so has its volume.
LEMMA RowsOf ==
  ASSUME NEW S \in SUBSET Rows
  PROVE  IsFiniteSet(S)
BY AnalyticsQueriesAssumption, FS_Subset

\* Counts are numbers.
LEMMA CountType ==
  ASSUME TableOK, NEW S \in SUBSET Rows
  PROVE  CountOf(S) \in Nat
<1>1. IsFiniteSet(S) /\ \A r \in S : table[r] \in Nat /\ table[r] <= table[r]
  BY RowsOf DEF TableOK
<1>2. SumFunctionOnSet(table, S) \in Nat
  BY <1>1, SumMonotone
<1>3. QED
  BY <1>2 DEF CountOf

\* What is bigger counts more.
LEMMA CountMonotone ==
  ASSUME TableOK, NEW S \in SUBSET Rows, NEW R \in SUBSET S
  PROVE  CountOf(R) <= CountOf(S)
<1>1. IsFiniteSet(S) /\ \A r \in S : table[r] \in Nat /\ table[r] <= table[r]
  BY RowsOf DEF TableOK
<1>2. SumFunctionOnSet(table, R) <= SumFunctionOnSet(table, S)
  BY <1>1, SumMonotone
<1>3. QED
  BY <1>2 DEF CountOf

\* The rows of S with key k.
Group(S, key, k) == {r \in S : key[r] = k}

\* Groups with distinct keys that leave no row out.
Grouping(G, S, key) ==
  /\ IsFiniteSet(G)
  /\ \A g, h \in G : g.key = h.key => g = h
  /\ \A r \in S : \E g \in G : g.key = key[r]

\* A figure that is a sum over each group's rows adds up to the sum over all.
LEMMA GroupsAddUp ==
  ASSUME NEW S \in SUBSET Rows, NEW key, NEW v, \A r \in S : v[r] \in Int,
         NEW G, Grouping(G, S, key), NEW field,
         \A g \in G : g[field] = SumFunctionOnSet(v, Group(S, key, g.key))
  PROVE  Sum(G, field) = SumFunctionOnSet(v, S)
<1> DEFINE part == [g \in G |-> Group(S, key, g.key)]
           w == [g \in G |-> g[field]]
<1>1. \A g \in G : part[g] \subseteq S /\ w[g] = SumFunctionOnSet(v, part[g])
  BY DEF Group
<1>2. \A g, h \in G : g # h => part[g] \cap part[h] = {}
  BY DEF Group, Grouping
<1>3. AllParts(part, G) = S
  BY DEF AllParts, Group, Grouping
<1>4. Sum(G, field) = SumFunctionOnSet(w, G)
  BY DEF Sum, SumFunction
<1>5. IsFiniteSet(S) /\ IsFiniteSet(G)
  BY RowsOf DEF Grouping
<1> HIDE DEF part, w
<1>6. Disjoint(part, G, S)
  BY <1>1, <1>2 DEF Disjoint
<1>7. SumFunctionOnSet(w, G) = SumFunctionOnSet(v, AllParts(part, G))
  BY <1>1, <1>5, <1>6, SumOfParts
<1>8. QED
  BY <1>3, <1>4, <1>7

\* GROUP BY makes such groups.
LEMMA GroupByShape ==
  ASSUME NEW f, NEW key
  PROVE  /\ Selected(f) \in SUBSET Rows
         /\ Grouping(GroupBy(f, key), Selected(f), key)
         /\ \A g \in GroupBy(f, key) :
              /\ g.transaction_count = CountOf(Group(Selected(f), key, g.key))
              /\ g.total_volume = VolumeOf(Group(Selected(f), key, g.key))
<1> DEFINE S == Selected(f)
           group(k) == [key |-> k,
                        transaction_count |-> CountOf(Group(S, key, k)),
                        total_volume |-> VolumeOf(Group(S, key, k))]
           of == [r \in S |-> group(key[r])]
<1>1. S \in SUBSET Rows
  BY DEF Selected
<1>2. GroupBy(f, key) = {group(k) : k \in {key[r] : r \in S}}
  BY DEF GroupBy, Group
<1> HIDE DEF S
<1>3. GroupBy(f, key) = {of[r] : r \in S}
  BY <1>2
<1>4. IsFiniteSet({of[r] : r \in S})
  <2>1. IsFiniteSet(ImageOf(of, S))
    BY <1>1, RowsOf, FiniteImage
  <2>2. QED
    BY <2>1 DEF ImageOf
<1>5. ASSUME NEW g \in GroupBy(f, key) PROVE g = group(g.key)
  <2>1. PICK k \in {key[r] : r \in S} : g = group(k)
    BY <1>2
  <2>2. QED
    BY <2>1
<1>6. \A r \in S : of[r] \in GroupBy(f, key) /\ of[r].key = key[r]
  BY <1>3
<1>7. \A g, h \in GroupBy(f, key) : g.key = h.key => g = h
  <2> HIDE DEF group
  <2>1. QED
    BY <1>5
<1>8. \A g \in GroupBy(f, key) :
        /\ g.transaction_count = CountOf(Group(S, key, g.key))
        /\ g.total_volume = VolumeOf(Group(S, key, g.key))
  BY <1>5
<1>9. IsFiniteSet(GroupBy(f, key))
  BY <1>3, <1>4
<1>10. \A r \in S : \E g \in GroupBy(f, key) : g.key = key[r]
  BY <1>6
<1>11. QED
  BY <1>1, <1>7, <1>8, <1>9, <1>10 DEF Grouping, S

\* So its counts add up to the count of the filter, and so do its volumes.
LEMMA GroupByTotals ==
  ASSUME TableOK, NEW f, NEW key
  PROVE  /\ Sum(GroupBy(f, key), "transaction_count") = CountOf(Selected(f))
         /\ Sum(GroupBy(f, key), "total_volume") = VolumeOf(Selected(f))
<1> DEFINE G == GroupBy(f, key)
           S == Selected(f)
           worth == [r \in Rows |-> table[r] * r.amount]
<1>1. S \in SUBSET Rows /\ Grouping(G, S, key)
  BY GroupByShape
<1>2. \A r \in S : table[r] \in Int /\ worth[r] \in Int
  BY <1>1, AnalyticsQueriesAssumption DEF TableOK, RowType
<1>3. \A g \in G : g["transaction_count"] = SumFunctionOnSet(table, Group(S, key, g.key))
  BY GroupByShape DEF CountOf
<1>4. \A g \in G : g["total_volume"] = SumFunctionOnSet(worth, Group(S, key, g.key))
  BY GroupByShape DEF VolumeOf
<1> HIDE DEF G, S, worth
<1>5. Sum(G, "transaction_count") = SumFunctionOnSet(table, S)
  BY <1>1, <1>2, <1>3, GroupsAddUp
<1>6. Sum(G, "total_volume") = SumFunctionOnSet(worth, S)
  BY <1>1, <1>2, <1>4, GroupsAddUp
<1>7. QED
  BY <1>5, <1>6 DEF CountOf, VolumeOf, G, S, worth

\* The rows of S with each status.
LEMMA StatusesAddUp ==
  ASSUME TableOK, NEW S \in SUBSET Rows
  PROVE  /\ WithStatus(S, Completed) \in SUBSET Rows /\ WithStatus(S, Failed) \in SUBSET Rows
         /\ CountOf(S) = CountOf(WithStatus(S, Completed)) + CountOf(WithStatus(S, Failed))
<1> DEFINE C == WithStatus(S, Completed)
           F == WithStatus(S, Failed)
<1>1. C \in SUBSET Rows /\ F \in SUBSET Rows /\ S = C \union F /\ C \cap F = {}
  BY AnalyticsQueriesAssumption DEF WithStatus
<1> HIDE DEF C, F
<1>2. IsFiniteSet(C) /\ IsFiniteSet(F) /\ \A r \in C \union F : table[r] \in Int
  BY <1>1, RowsOf DEF TableOK
<1>3. SumFunctionOnSet(table, C \union F) = SumFunctionOnSet(table, C) + SumFunctionOnSet(table, F)
  BY <1>1, <1>2, SumUnion
<1>4. CountOf(S) = CountOf(C) + CountOf(F)
  BY <1>1, <1>3 DEF CountOf
<1>5. QED
  BY <1>1, <1>4 DEF C, F

\* The providers' groups are of the same rows.
LEMMA ProviderShape ==
  ASSUME NEW f
  PROVE  /\ Selected(f) \in SUBSET Rows
         /\ Grouping(Providers(f), Selected(f), Column("provider"))
         /\ \A g \in Providers(f) :
              LET S == Group(Selected(f), Column("provider"), g.key)
              IN  /\ g.total_transactions = CountOf(S)
                  /\ g.completed_transactions = CountOf(WithStatus(S, Completed))
                  /\ g.failed_transactions = CountOf(WithStatus(S, Failed))
         /\ Selected(f) = {} => Providers(f) = {}
<1> DEFINE S == Selected(f)
           key == Column("provider")
           group(k) == [key |-> k,
                        total_transactions |-> CountOf(Group(S, key, k)),
                        completed_transactions |-> CountOf(WithStatus(Group(S, key, k), Completed)),
                        failed_transactions |-> CountOf(WithStatus(Group(S, key, k), Failed))]
           of == [r \in S |-> group(key[r])]
<1>1. S \in SUBSET Rows
  BY DEF Selected
<1>2. \A r \in S : key[r] = r.is["provider"]
  BY <1>1 DEF Column
<1>3. \A p : {r \in Selected(f) : r.is["provider"] = p} = Group(S, key, p)
  BY <1>2 DEF Group
<1>4. Providers(f) = {group(p) : p \in {r.is["provider"] : r \in S}}
  BY <1>3 DEF Providers
<1> HIDE DEF S, key
<1>5. Providers(f) = {of[r] : r \in S}
  BY <1>2, <1>4
<1>6. IsFiniteSet(Providers(f))
  <2>1. IsFiniteSet(ImageOf(of, S))
    BY <1>1, RowsOf, FiniteImage
  <2>2. QED
    BY <1>5, <2>1 DEF ImageOf
<1>7. ASSUME NEW g \in Providers(f) PROVE g = group(g.key)
  <2>1. PICK k \in {r.is["provider"] : r \in S} : g = group(k)
    BY <1>4
  <2>2. QED
    BY <2>1
<1>8. \A r \in S : \E g \in Providers(f) : g.key = key[r]
  <2>1. \A r \in S : of[r] \in Providers(f) /\ of[r].key = key[r]
    BY <1>5
  <2>2. QED
    BY <2>1
<1>9. \A g, h \in Providers(f) : g.key = h.key => g = h
  <2> HIDE DEF group
  <2>1. QED
    BY <1>7
<1>10. \A g \in Providers(f) :
         /\ g.total_transactions = CountOf(Group(S, key, g.key))
         /\ g.completed_transactions = CountOf(WithStatus(Group(S, key, g.key), Completed))
         /\ g.failed_transactions = CountOf(WithStatus(Group(S, key, g.key), Failed))
  BY <1>7
<1>11. S = {} => Providers(f) = {}
  BY <1>5
<1>12. Grouping(Providers(f), S, key)
  BY <1>6, <1>8, <1>9 DEF Grouping
<1>13. QED
  BY <1>1, <1>10, <1>11, <1>12 DEF S, key

\* Nothing is counted only where nothing is selected.
LEMMA CountZero ==
  ASSUME TableOK, NEW f, CountOf(Selected(f)) = 0
  PROVE  Selected(f) = {}
<1> SUFFICES ASSUME NEW r \in Selected(f) PROVE FALSE
  OBVIOUS
<1>1. r \in Rows /\ table[r] \in Nat /\ table[r] > 0 /\ Selected(f) \in SUBSET Rows
  BY DEF Selected, TableOK
<1>2. CountOf({r}) <= CountOf(Selected(f))
  BY <1>1, CountMonotone
<1>3. SumFunctionOnSet(table, {} \union {r}) = table[r] + SumFunctionOnSet(table, {})
  <2>1. IsFiniteSet({}) /\ r \notin {} /\ \A y \in {} \union {r} : table[y] \in Int
    BY <1>1, FS_EmptySet
  <2>2. QED
    BY <2>1, SumAdd
<1>4. SumFunctionOnSet(table, {}) = 0
  BY SumEmpty
<1>5. {} \union {r} = {r}
  OBVIOUS
<1>6. CountOf({r}) = table[r]
  BY <1>1, <1>3, <1>4, <1>5 DEF CountOf
<1>7. QED
  BY <1>1, <1>2, <1>6

\* What the providers' groups add up to.
LEMMA ProviderTotals ==
  ASSUME TableOK, NEW f
  PROVE  /\ Sum(Providers(f), "total_transactions") = CountOf(Selected(f))
         /\ Sum(Providers(f), "completed_transactions") = CountOf(WithStatus(Selected(f), Completed))
         /\ CountOf(WithStatus(Selected(f), Completed)) \in 0 .. CountOf(Selected(f))
         /\ CountOf(Selected(f)) = 0 => Providers(f) = {}
         /\ \A g \in Providers(f) :
              g.total_transactions = g.completed_transactions + g.failed_transactions
<1> DEFINE G == Providers(f)
           S == Selected(f)
           C == WithStatus(S, Completed)
           key == Column("provider")
<1>1. S \in SUBSET Rows /\ C \in SUBSET S
  BY ProviderShape DEF WithStatus
<1>2. Grouping(G, S, key)
  BY ProviderShape
<1>3. \A g \in G : /\ g.total_transactions = CountOf(Group(S, key, g.key))
                   /\ g.completed_transactions = CountOf(WithStatus(Group(S, key, g.key), Completed))
                   /\ g.failed_transactions = CountOf(WithStatus(Group(S, key, g.key), Failed))
  BY ProviderShape
<1>4. Grouping(G, C, key)
  BY <1>1, <1>2 DEF Grouping
<1>5. \A k : WithStatus(Group(S, key, k), Completed) = Group(C, key, k)
  BY DEF WithStatus, Group
<1>6. \A k : Group(S, key, k) \in SUBSET Rows
  BY <1>1 DEF Group
<1>7. S = {} => G = {}
  BY ProviderShape
<1> HIDE DEF G, C, key
<1>8. \A r \in S : table[r] \in Int
  BY <1>1 DEF TableOK
<1>9. \A g \in G : g["total_transactions"] = SumFunctionOnSet(table, Group(S, key, g.key))
  BY <1>3 DEF CountOf
<1>10. \A g \in G : g["completed_transactions"] = SumFunctionOnSet(table, Group(C, key, g.key))
  BY <1>3, <1>5 DEF CountOf
<1>11. Sum(G, "total_transactions") = SumFunctionOnSet(table, S)
  BY <1>1, <1>2, <1>8, <1>9, GroupsAddUp
<1>12. Sum(G, "completed_transactions") = SumFunctionOnSet(table, C)
  <2>1. C \in SUBSET Rows /\ \A r \in C : table[r] \in Int
    BY <1>1, <1>8
  <2>2. QED
    BY <2>1, <1>4, <1>10, GroupsAddUp
<1>13. CountOf(C) \in 0 .. CountOf(S)
  BY <1>1, CountMonotone, CountType
<1>14. CountOf(S) = 0 => G = {}
  BY <1>7, CountZero
<1>15. \A g \in G : g.total_transactions = g.completed_transactions + g.failed_transactions
  BY <1>3, <1>6, StatusesAddUp
<1>16. QED
  BY <1>11, <1>12, <1>13, <1>14, <1>15 DEF CountOf, G, C

-----------------------------------------------------------------------------
(* The endpoints.                                                          *)

\* An endpoint refuses a query or answers it with its aggregation.
LEMMA Served ==
  ASSUME NEW q
  PROVE  /\ \A e \in Endpoints : Serve(e, q, Absent).code = IF FilterErrors(q) = {} THEN 200 ELSE 400
         /\ FilterErrors(q) = {} =>
              /\ Serve("corridors", q, Absent).body = Corridors(ParseFilter(q))
              /\ Serve("currencies", q, Absent).body = Currencies(ParseFilter(q))
              /\ Serve("countries", q, Absent).body = Countries(ParseFilter(q), "source")
              /\ Serve("countries", q, "destination").body
                   = Countries(ParseFilter(q), ParseCountryDirection("destination"))
              /\ Serve("providers", q, Absent).body = Providers(ParseFilter(q))
              /\ Serve("timeseries", q, Absent).body = TimeSeries(ParseFilter(q))
<1>1. Absent # Malformed /\ "destination" # Malformed
  BY AnalyticsQueriesAssumption
<1>2. CASE FilterErrors(q) # {}
  BY <1>2 DEF Serve, BadRequest
<1>3. CASE FilterErrors(q) = {}
  <2>1. \A e \in Endpoints : Serve(e, q, Absent).code = 200
    BY <1>1, <1>3 DEF Serve, OK
  <2>2. Serve("corridors", q, Absent).body = Corridors(ParseFilter(q))
    BY <1>3 DEF Serve, OK
  <2>3. Serve("currencies", q, Absent).body = Currencies(ParseFilter(q))
    BY <1>3 DEF Serve, OK
  <2>4. Serve("countries", q, Absent).body = Countries(ParseFilter(q), "source")
    BY <1>1, <1>3 DEF Serve, OK, ParseCountryDirection
  <2>5. Serve("countries", q, "destination").body
          = Countries(ParseFilter(q), ParseCountryDirection("destination"))
    BY <1>1, <1>3 DEF Serve, OK
  <2>6. Serve("providers", q, Absent).body = Providers(ParseFilter(q))
    BY <1>3 DEF Serve, OK
  <2>7. Serve("timeseries", q, Absent).body = TimeSeries(ParseFilter(q))
    BY <1>1, <1>3 DEF Serve, OK
  <2>8. QED
    BY <1>3, <2>1, <2>2, <2>3, <2>4, <2>5, <2>6, <2>7
<1>4. QED
  BY <1>2, <1>3

\* What AnswersAgree says of one query.
LEMMA QueryAgrees ==
  ASSUME TableOK, NEW q, FilterErrors(q) = {}
  PROVE  LET S == Selected(ParseFilter(q))
         IN  /\ \A e \in {"corridors", "currencies", "countries", "timeseries"} :
                  /\ Total(e, q, Absent, "transaction_count") = CountOf(S)
                  /\ Total(e, q, Absent, "total_volume") = VolumeOf(S)
             /\ Total("countries", q, "destination", "transaction_count") = CountOf(S)
             /\ Total("providers", q, Absent, "total_transactions") = CountOf(S)
             /\ \A p \in Serve("providers", q, Absent).body :
                  p.total_transactions = p.completed_transactions + p.failed_transactions
<1> DEFINE f == ParseFilter(q)
<1> HIDE DEF f
<1>1. /\ Sum(Corridors(f), "transaction_count") = CountOf(Selected(f))
      /\ Sum(Corridors(f), "total_volume") = VolumeOf(Selected(f))
  BY GroupByTotals DEF Corridors
<1>2. /\ Sum(Currencies(f), "transaction_count") = CountOf(Selected(f))
      /\ Sum(Currencies(f), "total_volume") = VolumeOf(Selected(f))
  BY GroupByTotals DEF Currencies
<1>3. \A d : /\ Sum(Countries(f, d), "transaction_count") = CountOf(Selected(f))
             /\ Sum(Countries(f, d), "total_volume") = VolumeOf(Selected(f))
  BY GroupByTotals DEF Countries
<1>4. /\ Sum(TimeSeries(f), "transaction_count") = CountOf(Selected(f))
      /\ Sum(TimeSeries(f), "total_volume") = VolumeOf(Selected(f))
  BY GroupByTotals DEF TimeSeries
<1>5. /\ Sum(Providers(f), "total_transactions") = CountOf(Selected(f))
      /\ \A p \in Providers(f) :
           p.total_transactions = p.completed_transactions + p.failed_transactions
  BY ProviderTotals
<1>6. /\ Total("corridors", q, Absent, "transaction_count") = CountOf(Selected(f))
      /\ Total("corridors", q, Absent, "total_volume") = VolumeOf(Selected(f))
  BY <1>1, Served DEF Total, f
<1>7. /\ Total("currencies", q, Absent, "transaction_count") = CountOf(Selected(f))
      /\ Total("currencies", q, Absent, "total_volume") = VolumeOf(Selected(f))
  BY <1>2, Served DEF Total, f
<1>8. /\ Total("countries", q, Absent, "transaction_count") = CountOf(Selected(f))
      /\ Total("countries", q, Absent, "total_volume") = VolumeOf(Selected(f))
      /\ Total("countries", q, "destination", "transaction_count") = CountOf(Selected(f))
  BY <1>3, Served DEF Total, f
<1>9. /\ Total("timeseries", q, Absent, "transaction_count") = CountOf(Selected(f))
      /\ Total("timeseries", q, Absent, "total_volume") = VolumeOf(Selected(f))
  BY <1>4, Served DEF Total, f
<1>10. /\ Total("providers", q, Absent, "total_transactions") = CountOf(Selected(f))
       /\ \A p \in Serve("providers", q, Absent).body :
            p.total_transactions = p.completed_transactions + p.failed_transactions
  BY <1>5, Served DEF Total, f
<1>11. QED
  BY <1>6, <1>7, <1>8, <1>9, <1>10 DEF f

\* Nothing but the rows' counts is needed.
LEMMA AgreeNow == TableOK => AnswersAgree
<1> SUFFICES ASSUME TableOK, NEW q \in Queries
             PROVE  LET one == Serve("corridors", q, Absent)
                    IN  /\ \A e \in Endpoints : Serve(e, q, Absent).code = one.code
                        /\ one.code = 200 =>
                             LET count == Total("corridors", q, Absent, "transaction_count")
                                 volume == Total("corridors", q, Absent, "total_volume")
                             IN  /\ \A e \in {"currencies", "countries", "timeseries"} :
                                      /\ Total(e, q, Absent, "transaction_count") = count
                                      /\ Total(e, q, Absent, "total_volume") = volume
                                 /\ Total("countries", q, "destination", "transaction_count") = count
                                 /\ Total("providers", q, Absent, "total_transactions") = count
                                 /\ \A p \in Serve("providers", q, Absent).body :
                                      p.total_transactions
                                        = p.completed_transactions + p.failed_transactions
  BY DEF AnswersAgree
<1>1. \A e \in Endpoints : Serve(e, q, Absent).code = IF FilterErrors(q) = {} THEN 200 ELSE 400
  BY Served
<1>2. "corridors" \in Endpoints
  BY DEF Endpoints
<1>3. CASE FilterErrors(q) # {}
  BY <1>1, <1>2, <1>3
<1>4. CASE FilterErrors(q) = {}
  BY <1>1, <1>2, <1>4, QueryAgrees
<1>5. QED
  BY <1>3, <1>4

-----------------------------------------------------------------------------
(* Ranges of dates.                                                        *)

\* The day of an instant starts no later than it, and the next one later.
LEMMA DayOfInstant ==
  ASSUME NEW at \in Nat, NEW d \in Nat \ {0}
  PROVE  /\ at \div d \in Int
         /\ (at \div d) * d <= at
         /\ at < (at \div d + 1) * d
OBVIOUS

\* A range of days holds an instant exactly when it holds its day.
LEMMA InRange ==
  ASSUME NEW at \in Nat, NEW a \in Int, NEW b \in Int
  PROVE  a * Day <= at /\ at < (b + 1) * Day <=> at \div Day \in a .. b
<1> DEFINE k == at \div Day
<1>1. k \in Int /\ k * Day <= at /\ at < (k + 1) * Day
  BY DayOfInstant, AnalyticsQueriesAssumption
<1> HIDE DEF k
<1>2. Day \in Nat \ {0} /\ k + 1 \in Int /\ b + 1 \in Int
  BY <1>1, AnalyticsQueriesAssumption
<1>3. a * Day < (k + 1) * Day <=> a < k + 1
  BY <1>1, <1>2, MultiplesInOrder
<1>4. k * Day < a * Day <=> k < a
  BY <1>1, <1>2, MultiplesInOrder
<1>5. k * Day < (b + 1) * Day <=> k < b + 1
  BY <1>1, <1>2, MultiplesInOrder
<1>6. (b + 1) * Day < (k + 1) * Day <=> b + 1 < k + 1
  BY <1>1, <1>2, MultiplesInOrder
<1>7. a * Day \in Int /\ k * Day \in Int /\ (k + 1) * Day \in Int /\ (b + 1) * Day \in Int
  BY <1>1, <1>2
<1>8. a * Day <= at <=> a <= k
  BY <1>1, <1>3, <1>4, <1>7
<1>9. at < (b + 1) * Day <=> k <= b
  BY <1>1, <1>5, <1>6, <1>7
<1>10. QED
  BY <1>1, <1>8, <1>9 DEF k

Dateless(q) == [q EXCEPT !.from = Absent, !.to = Absent]
DayOfRow == [r \in Rows |-> r.at \div Day]

\* The bounds of a query with two dates, and of the same query without them.
LEMMA Bounds ==
  ASSUME NEW q \in Queries, Sound(q), Given(q.from), Given(q.to), q.from > 0, q.to > 0
  PROVE  /\ q.from \in Int /\ q.to \in Int
         /\ ParseFilter(q) = [from |-> q.from * Day, to |-> (q.to + 1) * Day, is |-> q.is]
         /\ q.from * Day # 0 /\ (q.to + 1) * Day # 0
         /\ FilterErrors(q) = {} <=> q.from <= q.to
         /\ ParseFilter(Dateless(q)) = [from |-> 0, to |-> 0, is |-> q.is]
         /\ FilterErrors(Dateless(q)) = {}
<1>0. Day \in Nat \ {0} /\ q \in QueryType /\ Absent # Malformed
  BY AnalyticsQueriesAssumption
<1>1. q.from \in Nat \ {0} /\ q.to \in Nat \ {0}
  BY <1>0 DEF QueryType, Given
<1>2. From(q) = q.from * Day /\ To(q) = (q.to + 1) * Day
  BY DEF From, To
<1>3. 0 * Day < q.from * Day /\ 0 * Day < (q.to + 1) * Day
  <2>1. 0 < q.from /\ 0 < q.to + 1 /\ 0 \in Int /\ q.from \in Int /\ q.to + 1 \in Int
    BY <1>1
  <2>2. 0 * Day < q.from * Day
    BY <1>0, <2>1, MultiplesInOrder
  <2>3. 0 * Day < (q.to + 1) * Day
    BY <1>0, <2>1, MultiplesInOrder
  <2>4. QED
    BY <2>2, <2>3
<1>4. 0 * Day = 0
  BY <1>0
<1>5. q.from * Day # 0 /\ (q.to + 1) * Day # 0
  BY <1>3, <1>4
<1>6. q.from * Day < (q.to + 1) * Day <=> q.from < q.to + 1
  <2>1. q.from \in Int /\ q.to + 1 \in Int
    BY <1>1
  <2>2. QED
    BY <1>0, <2>1, MultiplesInOrder
<1>7. q.from < q.to + 1 <=> q.from <= q.to
  BY <1>1
<1>8. FilterErrors(q) = {} <=> q.from * Day < (q.to + 1) * Day
  <2>1. {d \in {"from", "to"} : q[d] = Malformed} = {}
    BY DEF Given
  <2>2. {k \in Dimensions \ {"provider"} : q.is[k] = Malformed} = {}
    BY DEF Sound
  <2>3. FilterErrors(q) = {d \in {"to"} : From(q) # Zero /\ To(q) # Zero /\ ~(From(q) < To(q))}
    BY <2>1, <2>2 DEF FilterErrors
  <2>4. "to" \in FilterErrors(q) <=> ~(q.from * Day < (q.to + 1) * Day)
    BY <1>2, <1>5, <2>3 DEF Zero
  <2>5. FilterErrors(q) \subseteq {"to"}
    BY <2>3
  <2>6. QED
    BY <2>4, <2>5
<1> DEFINE d == Dateless(q)
<1>9. d.from = Absent /\ d.to = Absent /\ d.is = q.is /\ d["from"] = Absent /\ d["to"] = Absent
  BY <1>0 DEF Dateless, QueryType
<1> HIDE DEF d
<1>10. From(d) = 0 /\ To(d) = 0
  BY <1>9 DEF From, To, Given, Zero
<1>11. FilterErrors(d) = {}
  <2>1. {x \in {"from", "to"} : d[x] = Malformed} = {}
    BY <1>0, <1>9
  <2>2. {k \in Dimensions \ {"provider"} : d.is[k] = Malformed} = {}
    BY <1>9 DEF Sound
  <2>3. QED
    BY <1>10, <2>1, <2>2 DEF FilterErrors, Zero
<1>12. ParseFilter(d) = [from |-> 0, to |-> 0, is |-> q.is]
  BY <1>9, <1>10 DEF ParseFilter
<1>13. q.from \in Int /\ q.to \in Int
  BY <1>1
<1>14. QED
  BY <1>2, <1>5, <1>6, <1>7, <1>8, <1>11, <1>12, <1>13 DEF ParseFilter, d

\* The rows of the range are those of its days.
LEMMA DaysOfRange ==
  ASSUME NEW q \in Queries, Sound(q), Given(q.from), Given(q.to), q.from > 0, q.to > 0
  PROVE  Selected(ParseFilter(q))
           = {r \in Selected(ParseFilter(Dateless(q))) : DayOfRow[r] \in q.from .. q.to}
<1> DEFINE a == q.from * Day
           b == (q.to + 1) * Day
<1>1. /\ q.from \in Int /\ q.to \in Int /\ a # 0 /\ b # 0
      /\ ParseFilter(q) = [from |-> a, to |-> b, is |-> q.is]
      /\ ParseFilter(Dateless(q)) = [from |-> 0, to |-> 0, is |-> q.is]
  BY Bounds
<1>2. ASSUME NEW r \in Rows
      PROVE  Selects(ParseFilter(q), r)
               <=> Selects(ParseFilter(Dateless(q)), r) /\ DayOfRow[r] \in q.from .. q.to
  <2>1. r.at \in Nat
    BY AnalyticsQueriesAssumption DEF RowType
  <2>2. a <= r.at /\ r.at < b <=> DayOfRow[r] \in q.from .. q.to
    BY <1>1, <2>1, InRange DEF DayOfRow
  <2> HIDE DEF a, b
  <2>3. Selects(ParseFilter(q), r)
          <=> /\ r.at >= a /\ r.at < b
              /\ \A k \in Dimensions : q.is[k] # Absent => r.is[k] = q.is[k]
    BY <1>1 DEF Selects, Zero
  <2>4. Selects(ParseFilter(Dateless(q)), r)
          <=> \A k \in Dimensions : q.is[k] # Absent => r.is[k] = q.is[k]
    BY <1>1 DEF Selects, Zero
  <2>5. a \in Int
    BY <1>1, AnalyticsQueriesAssumption DEF a
  <2>6. r.at >= a <=> a <= r.at
    BY <2>1, <2>5
  <2>7. QED
    BY <2>2, <2>3, <2>4, <2>6
<1>3. QED
  BY <1>2 DEF Selected

\* A bucket of the series counts the rows of its day.
LEMMA BucketCounts ==
  ASSUME TableOK, NEW q, FilterErrors(Dateless(q)) = {}, NEW d
  PROVE  Bucket(q, d) = CountOf(Group(Selected(ParseFilter(Dateless(q))), DayOfRow, d))
<1> DEFINE f == ParseFilter(Dateless(q))
           S == Selected(f)
           D == Group(S, DayOfRow, d)
           G == GroupBy(f, DayOfRow)
           H == {g \in G : g.key = d}
<1>1. Serve("timeseries", Dateless(q), Absent).body = G
  BY Served DEF TimeSeries, DayOfRow
<1>2. Bucket(q, d) = Sum(H, "transaction_count")
  BY <1>1 DEF Bucket, Dateless
<1>3. /\ S \in SUBSET Rows /\ Grouping(G, S, DayOfRow)
      /\ \A g \in G : g.transaction_count = CountOf(Group(S, DayOfRow, g.key))
  BY GroupByShape
<1>4. D \in SUBSET Rows /\ \A r \in D : table[r] \in Int
  BY <1>3 DEF Group, TableOK
<1> HIDE DEF f, S, G
<1>5. Grouping(H, D, DayOfRow)
  <2>1. IsFiniteSet(H)
    BY <1>3, FS_Subset DEF Grouping
  <2>2. QED
    BY <1>3, <2>1 DEF Grouping, Group
<1>6. Group(D, DayOfRow, d) = D
  BY DEF Group
<1>7. \A g \in H : g["transaction_count"] = SumFunctionOnSet(table, Group(D, DayOfRow, g.key))
  BY <1>3, <1>6 DEF CountOf
<1> HIDE DEF H, D
<1>8. Sum(H, "transaction_count") = SumFunctionOnSet(table, D)
  BY <1>4, <1>5, <1>7, GroupsAddUp
<1>9. QED
  BY <1>2, <1>8 DEF CountOf, D, S, f

\* The buckets of the range's days count its rows.
LEMMA RangeAddsUp ==
  ASSUME TableOK, NEW q \in Queries, Sound(q), Given(q.from), Given(q.to), q.from > 0, q.to > 0
  PROVE  SumFunction([d \in q.from .. q.to |-> Bucket(q, d)])
           = CountOf(Selected(ParseFilter(q)))
<1> DEFINE I == q.from .. q.to
           S == Selected(ParseFilter(Dateless(q)))
           part == [d \in I |-> Group(S, DayOfRow, d)]
           v == [d \in I |-> Bucket(q, d)]
<1>1. IsFiniteSet(I)
  BY Bounds, FS_Interval
<1>2. S \in SUBSET Rows /\ IsFiniteSet(S) /\ \A r \in S : table[r] \in Int
  BY GroupByShape, RowsOf DEF TableOK
<1>3. FilterErrors(Dateless(q)) = {}
  BY Bounds
<1>4. \A d \in I : part[d] = Group(S, DayOfRow, d) /\ v[d] = Bucket(q, d)
  OBVIOUS
<1>5. \A d \in I : v[d] = SumFunctionOnSet(table, part[d])
  BY <1>3, <1>4, BucketCounts DEF CountOf
<1>6. SumFunction(v) = SumFunctionOnSet(v, I)
  BY DEF SumFunction
<1>7. Selected(ParseFilter(q)) = {r \in S : DayOfRow[r] \in I}
  BY DaysOfRange
<1> HIDE DEF I, S, part, v
<1>8. Disjoint(part, I, S)
  BY <1>4 DEF Disjoint, Group
<1>9. AllParts(part, I) = Selected(ParseFilter(q))
  BY <1>4, <1>7 DEF AllParts, Group
<1>10. SumFunctionOnSet(v, I) = SumFunctionOnSet(table, AllParts(part, I))
  BY <1>1, <1>2, <1>5, <1>8, SumOfParts
<1>11. QED
  BY <1>6, <1>9, <1>10 DEF CountOf, v, I

\* Nothing but the rows' counts is needed for the days, either.
LEMMA DaysAddUpNow == TableOK => DaysAddUp
<1> SUFFICES ASSUME TableOK, NEW q \in Queries, Sound(q), Given(q.from), Given(q.to),
                    q.from > 0, q.to > 0
             PROVE  /\ Serve("corridors", q, Absent).code = 400 <=> q.from > q.to
                    /\ q.from <= q.to =>
                         Total("corridors", q, Absent, "transaction_count")
                           = SumFunction([d \in q.from .. q.to |-> Bucket(q, d)])
  BY DEF DaysAddUp
<1>1. q.from \in Int /\ q.to \in Int /\ (FilterErrors(q) = {} <=> q.from <= q.to)
  BY Bounds
<1>2. Serve("corridors", q, Absent).code = IF FilterErrors(q) = {} THEN 200 ELSE 400
  BY Served DEF Endpoints
<1>3. SumFunction([d \in q.from .. q.to |-> Bucket(q, d)]) = CountOf(Selected(ParseFilter(q)))
  BY RangeAddsUp
<1>4. ASSUME FilterErrors(q) = {}
      PROVE  Total("corridors", q, Absent, "transaction_count") = CountOf(Selected(ParseFilter(q)))
  BY <1>4, QueryAgrees
<1>5. q.from > q.to <=> ~(q.from <= q.to)
  BY <1>1
<1>6. QED
  BY <1>1, <1>2, <1>3, <1>4, <1>5

-----------------------------------------------------------------------------
(* The invariant.                                                          *)

\* The payments of a filter, counted now.
Now(q) == CountOf(Selected(ParseFilter(q)))

\* The payments an answer counts, and those it counts as completed.
Seen(e, x) == Sum(x.data, IF e = "corridors" THEN "transaction_count" ELSE "total_transactions")
SeenCompleted(x) == Sum(x.data, "completed_transactions")

CacheOK == cache = [e \in Sources |-> [q \in Filters |-> cache[e][q]]]

\* An answer counts what was there when it was read.
AnswerOK(e, q, x) ==
  x # None =>
    /\ x.of \in Nat /\ x.of <= batches
    /\ Seen(e, x) \in Nat /\ Seen(e, x) <= Now(q)
    /\ x.of = batches => Seen(e, x) = Now(q)
    /\ e = "providers" => /\ SeenCompleted(x) \in 0 .. Seen(e, x)
                          /\ Seen(e, x) = 0 => x.data = {}

\* Of two answers the later one counts no less, and two of one moment the same.
InOrder(c, p) ==
  c # None /\ p # None =>
    /\ c.of = p.of => Seen("corridors", c) = Seen("providers", p)
    /\ c.of < p.of => Seen("corridors", c) <= Seen("providers", p)

QueriesInv ==
  /\ TableOK /\ batches \in Nat /\ shown \in Filters /\ CacheOK
  /\ \A e \in Sources, q \in Filters : AnswerOK(e, q, cache[e][q])
  /\ \A q \in Filters : InOrder(cache["corridors"][q], cache["providers"][q])

\* A later answer of the same filter counts no less.
LEMMA AnswersInOrder ==
  ASSUME NEW q, NEW c, NEW p, AnswerOK("corridors", q, c), AnswerOK("providers", q, p),
         c.of = batches \/ p.of = batches
  PROVE  InOrder(c, p)
BY DEF AnswerOK, InOrder

\* The dashboard starts with no answer.
LEMMA InitEstablishes == Init => QueriesInv
<1> SUFFICES ASSUME Init PROVE QueriesInv
  OBVIOUS
<1>1. TableOK /\ batches \in Nat /\ shown \in Filters
  BY DEF Init, TableOK
<1>2. CacheOK
  BY DEF Init, CacheOK
<1>3. \A e \in Sources, q \in Filters : cache[e][q] = None
  BY DEF Init
<1>4. \A e \in Sources, q \in Filters : AnswerOK(e, q, cache[e][q])
  BY <1>3 DEF AnswerOK
<1>5. \A q \in Filters : InOrder(cache["corridors"][q], cache["providers"][q])
  BY <1>3 DEF InOrder, Sources
<1>6. QED
  BY <1>1, <1>2, <1>4, <1>5 DEF QueriesInv

\* One row more: no filter counts less.
LEMMA InsertGrows ==
  ASSUME TableOK, NEW r \in Rows, table' = [table EXCEPT ![r] = @ + 1]
  PROVE  /\ TableOK'
         /\ \A q : Now(q) \in Nat /\ Now(q)' \in Nat /\ Now(q) <= Now(q)'
<1>1. PICK T : T = table'
  OBVIOUS
<1>2. T \in [Rows -> Nat] /\ \A x \in Rows : table[x] \in Nat /\ T[x] \in Nat /\ table[x] <= T[x]
  BY <1>1 DEF TableOK
<1>3. TableOK'
  BY <1>1, <1>2 DEF TableOK
<1>4. ASSUME NEW q PROVE Now(q) \in Nat /\ Now(q)' \in Nat /\ Now(q) <= Now(q)'
  <2>1. PICK f : f = ParseFilter(q)
    OBVIOUS
  <2> DEFINE S == {x \in Rows : T[x] > 0 /\ Selects(f, x)}
             R == Selected(f)
  <2>2. S \in SUBSET Rows /\ R \in SUBSET S
    BY <1>2 DEF Selected
  <2>3. Now(q) = SumFunctionOnSet(table, R)
    BY <2>1 DEF Now, CountOf
  <2>4. Now(q)' = SumFunctionOnSet(T, S)
    BY <1>1, <2>1 DEF Now, CountOf, Selected
  <2> HIDE DEF S, R
  <2>5. IsFiniteSet(S) /\ (\A x \in R : table[x] \in Nat) /\ (\A x \in S : T[x] \in Nat)
        /\ (\A x \in R : table[x] <= T[x])
    BY <1>2, <2>2, RowsOf
  <2>6. /\ SumFunctionOnSet(table, R) \in Nat /\ SumFunctionOnSet(T, S) \in Nat
        /\ SumFunctionOnSet(table, R) <= SumFunctionOnSet(T, S)
    BY <2>2, <2>5, SumMonotone
  <2>7. QED
    BY <2>3, <2>4, <2>6
<1>5. QED
  BY <1>3, <1>4

\* Inserts leave every kept answer behind the table.
LEMMA InsertKeeps ==
  ASSUME QueriesInv, NEW r \in Rows, Insert(r)
  PROVE  QueriesInv'
<1>1. /\ TableOK /\ table' = [table EXCEPT ![r] = @ + 1]
      /\ batches \in Nat /\ batches' = batches + 1
      /\ shown' = shown /\ cache' = cache
  BY DEF QueriesInv, Insert
<1>2. TableOK' /\ \A q : Now(q) \in Nat /\ Now(q)' \in Nat /\ Now(q) <= Now(q)'
  BY <1>1, InsertGrows
<1>3. (shown \in Filters /\ CacheOK)'
  BY <1>1 DEF QueriesInv, CacheOK
<1>4. ASSUME NEW e \in Sources, NEW q \in Filters, NEW x, AnswerOK(e, q, x)
      PROVE  AnswerOK(e, q, x)'
  <2>1. AnswerOK(e, q, x)' <=>
          (x # None =>
             /\ x.of \in Nat /\ x.of <= batches'
             /\ Seen(e, x) \in Nat /\ Seen(e, x) <= Now(q)'
             /\ x.of = batches' => Seen(e, x) = Now(q)'
             /\ e = "providers" => /\ SeenCompleted(x) \in 0 .. Seen(e, x)
                                   /\ Seen(e, x) = 0 => x.data = {})
    BY DEF AnswerOK
  <2>2. CASE x = None
    BY <2>1, <2>2
  <2>3. CASE x # None
    <3>1. x.of \in Nat /\ x.of <= batches'  /\ x.of # batches'
      BY <1>1, <1>4, <2>3 DEF AnswerOK
    <3>2. Seen(e, x) \in Nat /\ Seen(e, x) <= Now(q)'
      <4>1. Seen(e, x) \in Nat /\ Seen(e, x) <= Now(q)
        BY <1>4, <2>3 DEF AnswerOK
      <4>2. Now(q) \in Nat /\ Now(q)' \in Nat /\ Now(q) <= Now(q)'
        BY <1>2
      <4>3. QED
        BY <4>1, <4>2
    <3>3. e = "providers" => SeenCompleted(x) \in 0 .. Seen(e, x) /\ (Seen(e, x) = 0 => x.data = {})
      BY <1>4, <2>3 DEF AnswerOK
    <3>4. QED
      BY <2>1, <3>1, <3>2, <3>3
  <2>4. QED
    BY <2>2, <2>3
<1>5. \A e \in Sources, q \in Filters : AnswerOK(e, q, cache[e][q])'
  <2> TAKE e \in Sources, q \in Filters
  <2>1. PICK x : x = cache[e][q]
    OBVIOUS
  <2>2. AnswerOK(e, q, x)
    BY <2>1 DEF QueriesInv
  <2>3. AnswerOK(e, q, x)'
    BY <1>4, <2>2
  <2>4. cache'[e][q] = x
    BY <1>1, <2>1
  <2>5. QED
    BY <2>3, <2>4
<1>6. \A q \in Filters : InOrder(cache["corridors"][q], cache["providers"][q])'
  BY <1>1 DEF QueriesInv
<1>7. QED
  BY <1>1, <1>2, <1>3, <1>5, <1>6 DEF QueriesInv

\* One entry of the cache is replaced.
Replaced(e, q, x) ==
  /\ cache'[e][q] = x
  /\ \A d \in Sources, p \in Filters : d # e \/ p # q => cache'[d][p] = cache[d][p]

\* Only the one entry is another.
LEMMA EntryReplaced ==
  ASSUME CacheOK, NEW e \in Sources, NEW q \in Filters, NEW x,
         cache' = [cache EXCEPT ![e][q] = x]
  PROVE  CacheOK' /\ Replaced(e, q, x)
<1>1. PICK C : C = cache'
  OBVIOUS
<1>2. \A d \in Sources : \A p \in Filters :
        C[d][p] = IF d = e /\ p = q THEN x ELSE cache[d][p]
  BY <1>1 DEF CacheOK
<1>3. C = [d \in Sources |-> [p \in Filters |-> C[d][p]]]
  BY <1>1 DEF CacheOK
<1>4. CacheOK'
  BY <1>1, <1>3 DEF CacheOK
<1>5. QED
  BY <1>1, <1>2, <1>4 DEF Replaced

\* An entry that is right for the table may replace any.
LEMMA ReplaceKeeps ==
  ASSUME QueriesInv, NEW e \in Sources, NEW x,
         x = None \/ (AnswerOK(e, shown, x) /\ x.of = batches),
         cache' = [cache EXCEPT ![e][shown] = x], UNCHANGED <<table, batches, shown>>
  PROVE  QueriesInv'
<1>1. CacheOK /\ shown \in Filters
  BY DEF QueriesInv
<1>2. CacheOK' /\ Replaced(e, shown, x)
  <2>1. PICK q \in Filters : q = shown
    BY <1>1
  <2>2. cache' = [cache EXCEPT ![e][q] = x]
    BY <2>1
  <2>3. CacheOK'
    BY <1>1, <2>2, EntryReplaced
  <2>4. Replaced(e, q, x)
    BY <1>1, <2>2, EntryReplaced
  <2>5. QED
    BY <2>1, <2>3, <2>4
<1>3. cache'[e][shown] = x
  BY <1>2 DEF Replaced
<1>4. \A d \in Sources, p \in Filters : d # e \/ p # shown => cache'[d][p] = cache[d][p]
  BY <1>2 DEF Replaced
<1>5. \A d \in Sources, p \in Filters : AnswerOK(d, p, cache'[d][p])
  <2> TAKE d \in Sources, p \in Filters
  <2>1. CASE d = e /\ p = shown
    BY <1>3, <2>1 DEF AnswerOK
  <2>2. CASE d # e \/ p # shown
    <3>1. AnswerOK(d, p, cache[d][p]) /\ cache'[d][p] = cache[d][p]
      BY <1>4, <2>2 DEF QueriesInv
    <3>2. QED
      BY <3>1
  <2>3. QED
    BY <2>1, <2>2
<1>6. "corridors" \in Sources /\ "providers" \in Sources /\ Sources = {"corridors", "providers"}
  BY DEF Sources
<1>7. \A p \in Filters : InOrder(cache'["corridors"][p], cache'["providers"][p])
  <2> TAKE p \in Filters
  <2>1. CASE p # shown
    <3>1. /\ cache'["corridors"][p] = cache["corridors"][p]
          /\ cache'["providers"][p] = cache["providers"][p]
      BY <1>4, <1>6, <2>1
    <3>2. QED
      BY <3>1 DEF QueriesInv
  <2>2. CASE p = shown /\ x = None
    BY <1>3, <1>6, <2>2 DEF InOrder
  <2>3. CASE p = shown /\ x # None
    <3>1. AnswerOK("corridors", p, cache'["corridors"][p])
      BY <1>5, <1>6
    <3>2. AnswerOK("providers", p, cache'["providers"][p])
      BY <1>5, <1>6
    <3>3. cache'["corridors"][p].of = batches \/ cache'["providers"][p].of = batches
      BY <1>3, <1>6, <2>3
    <3>4. QED
      BY <3>1, <3>2, <3>3, AnswersInOrder
  <2>4. QED
    BY <2>1, <2>2, <2>3
<1>8. \A d, p : AnswerOK(d, p, cache[d][p])' <=> AnswerOK(d, p, cache'[d][p])
  BY DEF AnswerOK, Now, CountOf, Selected
<1>9. \A d \in Sources, p \in Filters : AnswerOK(d, p, cache[d][p])'
  BY <1>5, <1>8
<1>10. (TableOK /\ batches \in Nat /\ shown \in Filters)'
  BY DEF QueriesInv, TableOK
<1>11. QED
  BY <1>2, <1>7, <1>9, <1>10 DEF QueriesInv

\* An answer that is read now is right.
LEMMA AnswerIsRight ==
  ASSUME TableOK, batches \in Nat, NEW e \in Sources, NEW q, FilterErrors(q) = {},
         NEW x, x = [data |-> Serve(e, q, Absent).body, of |-> batches]
  PROVE  AnswerOK(e, q, x)
<1> DEFINE S == Selected(ParseFilter(q))
<1>1. x.data = Serve(e, q, Absent).body /\ x.of = batches
  OBVIOUS
<1>2. Now(q) = CountOf(S) /\ S \in SUBSET Rows
  BY GroupByShape DEF Now
<1>3. CountOf(S) \in Nat
  BY <1>2, CountType
<1>4. Now(q) \in Nat
  BY <1>2, <1>3
<1>5. CASE e = "corridors"
  <2>1. Seen(e, x) = Now(q)
    BY <1>1, <1>2, <1>5, QueryAgrees DEF Seen, Total
  <2>2. QED
    BY <1>1, <1>4, <1>5, <2>1 DEF AnswerOK
<1>6. CASE e = "providers"
  <2>1. Seen(e, x) = Now(q)
    BY <1>1, <1>2, <1>6, QueryAgrees DEF Seen, Total
  <2>2. x.data = Providers(ParseFilter(q))
    BY <1>1, <1>6, Served
  <2>3. SeenCompleted(x) = CountOf(WithStatus(S, Completed))
    BY <2>2, ProviderTotals DEF SeenCompleted
  <2>4. SeenCompleted(x) \in 0 .. Seen(e, x)
    BY <1>2, <2>1, <2>3, ProviderTotals
  <2>5. Seen(e, x) = 0 => x.data = {}
    BY <1>2, <2>1, <2>2, ProviderTotals
  <2>6. QED
    BY <1>1, <1>4, <2>1, <2>4, <2>5 DEF AnswerOK
<1>7. QED
  BY <1>5, <1>6 DEF Sources

\* A failure leaves nothing to show.
LEMMA FetchFailsKeeps ==
  ASSUME QueriesInv, NEW e \in Sources, FetchFails(e)
  PROVE  QueriesInv'
<1>1. PICK x : x = None
  OBVIOUS
<1>2. cache' = [cache EXCEPT ![e][shown] = x] /\ UNCHANGED <<table, batches, shown>>
  BY <1>1 DEF FetchFails
<1>3. QED
  BY <1>1, <1>2, ReplaceKeeps

\* A fetch keeps what is right now, or nothing.
LEMMA FetchKeeps ==
  ASSUME QueriesInv, NEW e \in Sources, Fetch(e)
  PROVE  QueriesInv'
<1>1. PICK answer : answer = Serve(e, shown, Absent)
  OBVIOUS
<1>2. answer.code = IF FilterErrors(shown) = {} THEN 200 ELSE 400
  BY <1>1, Served DEF Sources, Endpoints
<1>3. UNCHANGED <<table, batches, shown>>
  BY DEF Fetch
<1>4. \A x : x = (IF answer.code = 200 THEN [data |-> answer.body, of |-> batches] ELSE None)
               => cache' = [cache EXCEPT ![e][shown] = x]
  BY <1>1 DEF Fetch
<1>5. CASE FilterErrors(shown) # {}
  <2>1. None = (IF answer.code = 200 THEN [data |-> answer.body, of |-> batches] ELSE None)
    BY <1>2, <1>5
  <2>2. cache' = [cache EXCEPT ![e][shown] = None]
    BY <1>4, <2>1
  <2>3. FetchFails(e)
    BY <1>3, <2>2 DEF FetchFails
  <2>4. QED
    BY <2>3, FetchFailsKeeps
<1>6. CASE FilterErrors(shown) = {}
  <2>1. PICK x : x = [data |-> answer.body, of |-> batches]
    OBVIOUS
  <2>2. x = (IF answer.code = 200 THEN [data |-> answer.body, of |-> batches] ELSE None)
    BY <1>2, <1>6, <2>1
  <2>3. cache' = [cache EXCEPT ![e][shown] = x]
    BY <1>4, <2>2
  <2>4. AnswerOK(e, shown, x) /\ x.of = batches
    <3>1. x.of = batches
      BY <2>1
    <3>2. PICK q : q = shown
      OBVIOUS
    <3>3. AnswerOK(e, q, x)
      BY <1>1, <1>6, <2>1, <3>2, AnswerIsRight DEF QueriesInv
    <3>4. QED
      BY <3>1, <3>2, <3>3
  <2>5. x = None \/ (AnswerOK(e, shown, x) /\ x.of = batches)
    BY <2>4
  <2>6. QED
    BY <1>3, <2>3, <2>5, ReplaceKeeps
<1>7. QED
  BY <1>5, <1>6

\* Which filter is on the page makes no difference.
LEMMA ShowKeeps ==
  ASSUME QueriesInv, shown' \in Filters, UNCHANGED <<table, batches, cache>>
  PROVE  QueriesInv'
<1>1. \A d, p : AnswerOK(d, p, cache[d][p])' <=> AnswerOK(d, p, cache[d][p])
  BY DEF AnswerOK, Now, CountOf, Selected
<1>2. QED
  BY <1>1 DEF QueriesInv, TableOK, CacheOK

\* The table counts, and every answer the dashboard has kept is what its
\* endpoint said of a table that has only grown since: answers of one moment
\* have one count, and a later answer of the same filter counts no less.
THEOREM AnswersKeptInOrder == Spec => []QueriesInv
<1>1. QueriesInv /\ [Next]_vars => QueriesInv'
  <2> SUFFICES ASSUME QueriesInv, [Next]_vars PROVE QueriesInv'
    OBVIOUS
  <2>1. ASSUME NEW r \in Rows, Insert(r) PROVE QueriesInv'
    BY <2>1, InsertKeeps
  <2>2. ASSUME NEW q \in Filters, Show(q) PROVE QueriesInv'
    BY <2>2, ShowKeeps DEF Show
  <2>3. ASSUME NEW e \in Sources, Fetch(e) PROVE QueriesInv'
    BY <2>3, FetchKeeps
  <2>4. ASSUME NEW e \in Sources, FetchFails(e) PROVE QueriesInv'
    BY <2>4, FetchFailsKeeps
  <2>5. CASE UNCHANGED vars
    BY <2>5, ShowKeeps DEF vars, QueriesInv
  <2>6. QED
    BY <2>1, <2>2, <2>3, <2>4, <2>5 DEF Next
<1>2. QED
  BY <1>1, InitEstablishes, PTL DEF Spec

\* A filter's counts and volumes are the same from every endpoint.
THEOREM AnswersAlwaysAgree == Spec => []AnswersAgree
<1>1. QueriesInv => AnswersAgree
  BY AgreeNow DEF QueriesInv
<1>2. QED
  BY <1>1, AnswersKeptInOrder, PTL

\* A range of dates counts what the time series shows for its days.
THEOREM DaysAlwaysAddUp == Spec => []DaysAddUp
<1>1. QueriesInv => DaysAddUp
  BY DaysAddUpNow DEF QueriesInv
<1>2. QED
  BY <1>1, AnswersKeptInOrder, PTL

\* A part of a whole, in percent.
LEMMA Percentage ==
  ASSUME NEW part \in Nat, NEW whole \in Nat \ {0}, part <= whole
  PROVE  (100 * part) \div whole \in 0 .. 100
<1>1. 100 * part \in Nat
  OBVIOUS
<1>2. PICK k \in Int : k = (100 * part) \div whole
  BY <1>1, DayOfInstant
<1>3. k * whole <= 100 * part /\ 100 * part < (k + 1) * whole
  BY <1>1, <1>2, DayOfInstant
<1>4. k * whole < 101 * whole /\ 0 * whole < (k + 1) * whole
  <2>1. 101 * whole = 100 * whole + whole /\ 0 * whole = 0 /\ k * whole \in Int
        /\ (k + 1) * whole \in Int
    OBVIOUS
  <2>2. QED
    BY <1>1, <1>3, <2>1
<1>5. k < 101
  BY <1>4, MultiplesInOrder
<1>6. 0 < k + 1
  <2>1. 0 \in Int /\ k + 1 \in Int
    OBVIOUS
  <2>2. QED
    BY <1>4, <2>1, MultiplesInOrder
<1>7. QED
  BY <1>2, <1>5, <1>6

\* What the invariant says of the two entries is what the page needs.
LEMMA AccountableNow == QueriesInv => OverviewAccountable
<1> DEFINE c == Entry("corridors")
           p == Entry("providers")
           counted == Sum(c.data, "transaction_count")
           total == Sum(p.data, "total_transactions")
           completed == Sum(p.data, "completed_transactions")
           count == IF total # 0 THEN total ELSE counted
<1> SUFFICES ASSUME QueriesInv, Displayed
             PROVE  /\ p.of = c.of => Overview.totalTransactions = counted
                    /\ p.of > c.of => Overview.totalTransactions >= counted
                    /\ \/ Overview.successRate \in 0 .. 100
                       \/ /\ Overview.successRate = NaN
                          /\ p.of < c.of
                          /\ p.data = {}
  BY DEF OverviewAccountable
<1>1. c # None /\ p # None
  BY DEF Displayed, Sources
<1>2. AnswerOK("corridors", shown, c) /\ AnswerOK("providers", shown, p) /\ InOrder(c, p)
  BY DEF QueriesInv, Entry, Sources
<1>3. /\ Overview.totalTransactions = count
      /\ Overview.successRate = CASE count = 0 -> 0
                                  [] count > 0 /\ total = 0 -> NaN
                                  [] OTHER -> (100 * completed) \div total
  BY DEF Overview, computeOverview
<1> HIDE DEF c, p
<1>4. c.of \in Nat /\ counted \in Nat
  BY <1>1, <1>2 DEF AnswerOK, Seen
<1>5. p.of \in Nat /\ total \in Nat /\ completed \in 0 .. total /\ (total = 0 => p.data = {})
  BY <1>1, <1>2 DEF AnswerOK, Seen, SeenCompleted
<1>6. /\ p.of = c.of => total = counted
      /\ c.of < p.of => counted <= total
  BY <1>1, <1>2 DEF InOrder, Seen
<1> HIDE DEF counted, total, completed
<1>7. p.of = c.of => count = counted
  BY <1>6
<1>8. p.of > c.of => count >= counted
  BY <1>4, <1>5, <1>6
<1>9. CASE total # 0
  <2>1. (100 * completed) \div total \in 0 .. 100
    BY <1>5, <1>9, Percentage
  <2>2. Overview.successRate = (100 * completed) \div total
    BY <1>3, <1>9
  <2>3. QED
    BY <1>3, <1>7, <1>8, <2>1, <2>2
<1>10. CASE total = 0 /\ counted = 0
  <2>1. Overview.successRate = 0
    BY <1>3, <1>10
  <2>2. QED
    BY <1>3, <1>7, <1>8, <2>1
<1>11. CASE total = 0 /\ counted # 0
  <2>1. Overview.successRate = NaN
    BY <1>3, <1>4, <1>11
  <2>2. p.of < c.of
    BY <1>4, <1>5, <1>6, <1>11
  <2>3. QED
    BY <1>3, <1>5, <1>7, <1>8, <1>11, <2>1, <2>2
<1>12. QED
  BY <1>9, <1>10, <1>11

\* The figures of the dashboard are of one moment or of two whose order shows.
THEOREM OverviewIsAccountable == Spec => []OverviewAccountable
<1>1. QED
  BY AccountableNow, AnswersKeptInOrder, PTL
=============================================================================
