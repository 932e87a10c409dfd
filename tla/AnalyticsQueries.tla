-------------------------- MODULE AnalyticsQueries --------------------------
(***************************************************************************)
(* analytics-service's API over payments_analytics, and the dashboard that *)
(* derives its figures from two of the answers.                            *)
(*                                                                         *)
(* The table only grows (module AnalyticsConsumer inserts the rows).  An   *)
(* endpoint's answer is a function of the raw query and of the table when  *)
(* it is read; the dashboard keeps each answer in TanStack Query's cache,  *)
(* so the answers it combines may be of different tables.                  *)
(*                                                                         *)
(* Instants count ticks; Go's zero time.Time is instant 0, and Day ticks   *)
(* make a day.  ORDER BY is left out: an answer is a set of groups.        *)
(***************************************************************************)
EXTENDS Integers, FiniteSets, Functions

CONSTANTS
  Rows,        \* the rows there may be, see RowType
  Queries,     \* the raw queries clients send, see QueryType
  Filters,     \* the queries the dashboard sends
  Values,      \* countries, currencies, providers and statuses
  Completed, Failed,  \* the two statuses rows have
  Absent,      \* a query parameter that is not given, or empty
  Malformed,   \* one that is not a date, or has the wrong shape
  None,        \* no answer in the cache
  Day,         \* ticks of a day
  MaxRows      \* bound on the rows inserted

Dimensions == {"source_country", "destination_country", "source_currency",
               "destination_currency", "provider", "status"}

RowType == [is : [Dimensions -> Values], at : Nat, amount : Nat]

QueryType == [from : Int \union {Absent, Malformed}, to : Int \union {Absent, Malformed},
              is : [Dimensions -> Values \union {Absent, Malformed}]]

ASSUME AnalyticsQueriesAssumption ==
  /\ Rows \subseteq RowType /\ IsFiniteSet(Rows)
  /\ \A r \in Rows : r.is["status"] \in {Completed, Failed}
  /\ Completed # Failed
  /\ Malformed \notin {Absent, "destination"}
  /\ Queries \subseteq QueryType
  /\ Filters \subseteq QueryType
  /\ Day \in Nat \ {0}
  /\ MaxRows \in Nat

VARIABLES
  table,       \* copies of each row in payments_analytics
  batches,     \* inserts so far
  shown,       \* the filters the dashboard shows
  cache        \* for each endpoint the overview uses and each filter, the
               \* answer it can show and how many inserts it has seen, or None

vars == <<table, batches, shown, cache>>

-----------------------------------------------------------------------------
(* domain.ParseFilter and its companions. *)

Zero == 0

Given(x) == x \notin {Absent, Malformed}

From(q) == IF Given(q.from) THEN q.from * Day ELSE Zero

\* Mutant: the bound is the start of the day itself.
ToSameDay(q) == IF Given(q.to) THEN q.to * Day ELSE Zero

\* "to" is inclusive: the bound is the start of the next day.
To(q) == IF Given(q.to) THEN (q.to + 1) * Day ELSE Zero

FilterErrors(q) ==
  {d \in {"from", "to"} : q[d] = Malformed}
    \union {d \in {"to"} : From(q) # Zero /\ To(q) # Zero /\ ~(From(q) < To(q))}
    \union {k \in Dimensions \ {"provider"} : q.is[k] = Malformed}

ParseFilter(q) == [from |-> From(q), to |-> To(q), is |-> q.is]

ParseCountryDirection(raw) == IF raw = Absent THEN "source" ELSE raw

\* filterConditions, and the WHERE made of them.
Selects(f, r) ==
  /\ f.from # Zero => r.at >= f.from
  /\ f.to # Zero => r.at < f.to
  /\ \A k \in Dimensions : f.is[k] # Absent => r.is[k] = f.is[k]

-----------------------------------------------------------------------------
(* The aggregations. *)

Selected(f) == {r \in Rows : table[r] > 0 /\ Selects(f, r)}

CountOf(S) == SumFunctionOnSet(table, S)
VolumeOf(S) == SumFunctionOnSet([r \in Rows |-> table[r] * r.amount], S)

\* GROUP BY key, a function on the rows, with count() and sum(source_amount).
GroupBy(f, key) ==
  {[key |-> k,
    transaction_count |-> CountOf({r \in Selected(f) : key[r] = k}),
    total_volume |-> VolumeOf({r \in Selected(f) : key[r] = k})] :
     k \in {key[r] : r \in Selected(f)}}

Column(k) == [r \in Rows |-> r.is[k]]

Corridors(f) ==
  GroupBy(f, [r \in Rows |-> <<r.is["source_country"], r.is["destination_country"]>>])

Currencies(f) == GroupBy(f, Column("source_currency"))

\* Mutant: the conditions of the filter are forgotten in one of the queries.
CountriesUnfiltered(f, direction) ==
  LET all == [from |-> Zero, to |-> Zero, is |-> [k \in Dimensions |-> Absent]]
  IN  GroupBy(all, Column(IF direction = "destination" THEN "destination_country"
                                                       ELSE "source_country"))

Countries(f, direction) ==
  GroupBy(f, Column(IF direction = "destination" THEN "destination_country"
                                                 ELSE "source_country"))

\* toStartOfDay(created_at), formatted as a date.
TimeSeries(f) == GroupBy(f, [r \in Rows |-> r.at \div Day])

WithStatus(S, status) == {r \in S : r.is["status"] = status}

Providers(f) ==
  {LET S == {r \in Selected(f) : r.is["provider"] = p}
   IN  [key |-> p,
        total_transactions |-> CountOf(S),
        completed_transactions |-> CountOf(WithStatus(S, Completed)),
        failed_transactions |-> CountOf(WithStatus(S, Failed))] :
     p \in {r.is["provider"] : r \in Selected(f)}}

-----------------------------------------------------------------------------
(* The endpoints.  A failing ClickHouse is the action FetchFails. *)

BadRequest == [code |-> 400]
OK(body) == [code |-> 200, body |-> body]

Endpoints == {"corridors", "currencies", "countries", "providers", "timeseries"}

\* "option" is the parameter "by" of countries and "interval" of timeseries.
Serve(endpoint, q, option) ==
  IF \/ FilterErrors(q) # {}
     \/ endpoint \in {"countries", "timeseries"} /\ option = Malformed
  THEN BadRequest
  ELSE LET f == ParseFilter(q)
       IN  OK(CASE endpoint = "corridors" -> Corridors(f)
                [] endpoint = "currencies" -> Currencies(f)
                [] endpoint = "countries" -> Countries(f, ParseCountryDirection(option))
                [] endpoint = "providers" -> Providers(f)
                [] endpoint = "timeseries" -> TimeSeries(f))

-----------------------------------------------------------------------------
(* The dashboard. *)

Sources == {"corridors", "providers"}

Init ==
  /\ table = [r \in Rows |-> 0]
  /\ batches = 0
  /\ shown \in Filters
  /\ cache = [e \in Sources |-> [q \in Filters |-> None]]

Insert(r) ==
  /\ batches < MaxRows
  /\ table' = [table EXCEPT ![r] = @ + 1]
  /\ batches' = batches + 1
  /\ UNCHANGED <<shown, cache>>

\* A filter is changed: other entries of the cache are shown.
Show(q) ==
  /\ shown' = q
  /\ UNCHANGED <<table, batches, cache>>

\* A query of the page is fetched: on mount, on focus, when stale, by refetch.
\* 400 is an ApiError.  The cache keeps the data it had, but the page shows the
\* error instead until a fetch succeeds and replaces them.
Fetch(e) ==
  LET answer == Serve(e, shown, Absent)
  IN  /\ cache' =
           [cache EXCEPT ![e][shown] =
              IF answer.code = 200
              THEN [data |-> answer.body, of |-> batches]
              ELSE None]
      /\ UNCHANGED <<table, batches, shown>>

\* ClickHouse or the network fails: 500, or no answer at all.
FetchFails(e) ==
  /\ cache' = [cache EXCEPT ![e][shown] = None]
  /\ UNCHANGED <<table, batches, shown>>

Next ==
  \/ \E r \in Rows : Insert(r)
  \/ \E q \in Filters : Show(q)
  \/ \E e \in Sources : Fetch(e) \/ FetchFails(e)

Spec == Init /\ [][Next]_vars

\* useOverview and KpiSection: the figures are on the page.
Entry(e) == cache[e][shown]
Displayed == \A e \in Sources : Entry(e) # None

NaN == -1

Sum(groups, field) == SumFunction([g \in groups |-> g[field]])

\* Mutant: the rate is of the transactions the corridors count.
overviewOfCorridors(corridors, providers) ==
  LET fromCorridors == Sum(corridors, "transaction_count")
      completed == Sum(providers, "completed_transactions")
  IN  [totalTransactions |-> fromCorridors,
       totalVolume |-> Sum(corridors, "total_volume"),
       successRate |-> IF fromCorridors = 0 THEN 0
                       ELSE (100 * completed) \div fromCorridors]

computeOverview(corridors, providers) ==
  LET fromCorridors == Sum(corridors, "transaction_count")
      total == Sum(providers, "total_transactions")
      completed == Sum(providers, "completed_transactions")
      count == IF total # 0 THEN total ELSE fromCorridors
  IN  [totalTransactions |-> count,
       totalVolume |-> Sum(corridors, "total_volume"),
       successRate |-> CASE count = 0 -> 0
                         [] count > 0 /\ total = 0 -> NaN
                         [] OTHER -> (100 * completed) \div total]

Overview == computeOverview(Entry("corridors").data, Entry("providers").data)

-----------------------------------------------------------------------------
(* Properties. *)

\* A query whose parameters other than the dates are well formed.
Sound(q) == \A k \in Dimensions \ {"provider"} : q.is[k] # Malformed

Total(endpoint, q, option, field) == Sum(Serve(endpoint, q, option).body, field)

\* The bucket of day d in the series without dates.
Bucket(q, d) ==
  Sum({g \in Serve("timeseries", [q EXCEPT !.from = Absent, !.to = Absent], Absent).body :
         g.key = d}, "transaction_count")

\* A range of dates selects whole days, both ends included: what is counted for
\* it is the sum of the buckets the time series shows for its days, and only a
\* range that ends before it starts is refused.  (Day 0 is Go's zero time, which
\* means "no bound".)
DaysAddUp ==
  \A q \in Queries :
    Sound(q) /\ Given(q.from) /\ Given(q.to) /\ q.from > 0 /\ q.to > 0 =>
      /\ Serve("corridors", q, Absent).code = 400 <=> q.from > q.to
      /\ q.from <= q.to =>
           Total("corridors", q, Absent, "transaction_count")
             = SumFunction([d \in q.from .. q.to |-> Bucket(q, d)])

\* Whatever the filter, the five aggregations are of the same payments: they
\* accept the same queries, their counts have one total and so have their
\* volumes, and a provider's payments are its completed and its failed ones.
AnswersAgree ==
  \A q \in Queries :
    LET one == Serve("corridors", q, Absent)
    IN  /\ \A e \in Endpoints : Serve(e, q, Absent).code = one.code
        /\ one.code = 200 =>
             LET count == Total("corridors", q, Absent, "transaction_count")
                 volume == Total("corridors", q, Absent, "total_volume")
             IN  /\ \A e \in {"currencies", "countries", "timeseries"} :
                      /\ Total(e, q, Absent, "transaction_count") = count
                      /\ Total(e, q, Absent, "total_volume") = volume
                 /\ Total("countries", q, "destination", "transaction_count") = count
                 /\ Total("providers", q, Absent, "total_transactions") = count
                 /\ \A p \in Serve("providers", q, Absent).body :
                      p.total_transactions
                        = p.completed_transactions + p.failed_transactions

\* The figures on the page are of one moment unless rows were inserted between
\* the two answers they are made of; then the success rate is still a
\* percentage, except that it is NaN when the providers' answer was empty and
\* older than the corridors'.
OverviewAccountable ==
  LET corridors == Entry("corridors")
      providers == Entry("providers")
      counted == Sum(corridors.data, "transaction_count")
  IN  Displayed =>
        /\ providers.of = corridors.of => Overview.totalTransactions = counted
        /\ providers.of > corridors.of => Overview.totalTransactions >= counted
        /\ \/ Overview.successRate \in 0 .. 100
           \/ /\ Overview.successRate = NaN
              /\ providers.of < corridors.of
              /\ providers.data = {}
=============================================================================
