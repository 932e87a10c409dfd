------------------------- MODULE MCAnalyticsQueries -------------------------
(* Values for the constants of AnalyticsQueries: three rows, the first and the
   last instant of day 2 and an instant of day 3, and queries with every pair
   of dates around them. *)
EXTENDS AnalyticsQueries

CONSTANTS CO, US, USD, COP, pa, pb

MCValues == {CO, US, USD, COP, pa, pb, Completed, Failed}

Payment(source, destination, provider, status) ==
  [k \in Dimensions |->
     CASE k = "source_country" -> source
       [] k = "destination_country" -> destination
       [] k = "source_currency" -> IF source = CO THEN COP ELSE USD
       [] k = "destination_currency" -> IF destination = CO THEN COP ELSE USD
       [] k = "provider" -> provider
       [] k = "status" -> status]

MCRows ==
  {[is |-> Payment(CO, US, pa, Completed), at |-> 2 * Day, amount |-> 3],
   [is |-> Payment(CO, CO, pb, Failed), at |-> 3 * Day - 1, amount |-> 5],
   [is |-> Payment(US, CO, pa, Failed), at |-> 3 * Day, amount |-> 7]}

NoFilter == [k \in Dimensions |-> Absent]

Only(k, v) == [NoFilter EXCEPT ![k] = v]

MCQueries ==
  [from : {Absent, Malformed} \union 1 .. 3, to : {Absent, -1} \union 1 .. 3,
   is : {NoFilter, Only("status", Failed), Only("source_currency", Malformed)}]

Everything == [from |-> Absent, to |-> Absent, is |-> NoFilter]

MCFilters == {Everything, [Everything EXCEPT !.from = 3]}
=============================================================================
