# A verification project for cross-border-payments-analytics

TLA+ models of the platform's three Go services, the TLC configurations that
check them on small instances, and TLAPS proofs of the properties that hold for
every instance. All paths below are relative to the repository; `ps/`, `pp/` and
`as/` stand for `backend/payments-service/`, `backend/payment-processor/` and
`backend/analytics-service/`.

## 1. The system

    POST /api/v1/transactions
      -> payments-service   one MariaDB transaction: transactions + outbox_events
           relay            polls outbox_events, publishes to Kafka payments.created
      -> payment-processor  consumer group -> worker pool -> payments.processed | payments.dlq
      -> analytics-service  consumer group -> batches -> ClickHouse payments_analytics
      -> GET /api/v1/analytics/* -> frontend

The services share no memory and no code. They meet at MariaDB (a handler and a
relay), at Kafka topics (the offsets a consumer group commits decide what is
delivered again) and at ClickHouse. Delivery is at-least-once on every link.

### Inventory

| Component | State it keeps | Operations | What makes it correct |
|---|---|---|---|
| payments-service, create (`ps/internal/application`, `ps/internal/repository/mariadb`) | rows of `transactions`, `outbox_events`; the open SQL transaction | `Execute`, `Create` | a payment exists exactly when its event does; one payment per idempotency key; the HTTP answer agrees with the database |
| payments-service, relay (`ps/internal/outbox`) | batch in hand, `status` of events | `Run`, `tick`, `publishOne`, `MarkOutboxEventPublished` | no event is marked that is not on the topic; every event is published in the end; a duplicate has a known cause |
| payments-service, producer (`ps/internal/kafka`) | sends in progress | `Publish`, `Close` | a send nobody waits for is not taken for a success or for a certain failure |
| payments-service, domain (`ps/internal/domain`) | none (values) | money and rate parsing, `Multiply`, validations, status transitions | what a text writes is what is stored; exact conversion, no wrap |
| payments-service, HTTP and main | process context | handlers, middleware, shutdown | stop the relay before closing the producer |
| payment-processor, pool (`pp/internal/workerpool`) | job channel, read-write lock, workers | `Execute`, `worker`, `Shutdown` | no send on a closed channel; a task runs at most once; Shutdown drains and returns |
| payment-processor, consumer (`pp/internal/kafka`, `pp/internal/processing`) | next, marked and committed offset of each partition; a task per worker | `ConsumeClaim`, `handleMessage`, `process`, `Retry`, `deadLetter` | a mark implies an outcome; one job in flight per partition; nothing is lost silently; a session that ends lets go |
| payment-processor, main and config | process state | stop consuming, drain, close | nobody meets a closed pool |
| analytics-service, consumer (`as/internal/kafka`) | the batch, offsets | `ConsumeClaim`, `flush`, `InsertBatch` | a mark implies a row; a session adds at most one row per message; every loss has a known cause |
| analytics-service, queries and HTTP (`as/internal/domain`, `as/internal/repository`, `as/internal/handlers`) | none (reads ClickHouse) | `ParseFilter`, five aggregations | a range of dates selects whole days; the five answers are about the same payments |
| frontend | query cache, mock data | fetch, `computeOverview` | the figures of one page do not contradict each other |
| scripts/seed | none | generate, load both databases | both databases get the same records |
| infrastructure, observability | declarative | - | - |

What is hard to test here: the order of the steps of concurrent handlers,
relays, claims, workers and a shutdown; crashes between two writes to different
systems; sends whose outcome is unknown; rebalances that redeliver a message
whose job still runs; and *offset marks*, which cover every earlier offset of
the partition and so couple messages the code treats one at a time. Numbers are
hard for another reason: one amount is a text, an int64, a DECIMAL and a text
again in six places, each with rules of its own. `PROJECT.json`
lists each hazard at the line where it bites, with the properties that watch it.

## 2. The modules

| Module | Models |
|---|---|
| `PaymentFeed` | what payments-service promises downstream: accept once per key, publish only what was accepted, publish all of it |
| `ConsumerFeed` | what a consuming service promises: record an outcome or give the message up for a named cause, commit only past such messages, settle all of them |
| `Outbox` | payments-service: handler, relay, producer, process; implements `PaymentFeed` |
| `WorkerPool` | the bounded pool of payment-processor on its own |
| `Processor` | payment-processor's consumer, composed with an instance of `WorkerPool`; implements `ConsumerFeed` |
| `AnalyticsConsumer` | analytics-service's consumer and batch insert; implements `ConsumerFeed` |
| `Pipeline` | the three contracts composed over the topics that connect the services |
| `PaymentData` | one payment's figures from the request to ClickHouse, through all three services |
| `AnalyticsQueries` | analytics-service's filters, aggregations and endpoints, and the dashboard's KPI cards over them |
| `WorkerPoolProofs`, `OutboxProofs`, `ProcessorProofs`, `AnalyticsConsumerProofs`, `PaymentDataProofs`, `AnalyticsQueriesProofs`, `PipelineProofs` | the theorems |
| `SumTheorems` | induction and recursion in a form the provers can use, division, sums over finite sets; for the proofs of `AnalyticsQueries` and `PaymentData` |
| `MC...` | values of the constants for TLC, one module for each module a run checks |

    PaymentFeed <- Outbox                    (FeedSpec)
    ConsumerFeed <- Processor = WorkerPool + consumer   (ContractSpec)
    ConsumerFeed <- AnalyticsConsumer                   (ContractSpec)
    Pipeline = PaymentFeed + ConsumerFeed + ConsumerFeed

Operators whose comment starts with "Mutant:" stand just before the definition
they could replace. Each is that definition with a plausible bug; none is part
of a specification. Replacing the definition by its mutant makes TLC find the
property named in `PROJECT.json` violated, which shows that the property watches
that line of the code. `"map"` in `PROJECT.json` leads from every definition to
the lines it models.

### Outbox and PaymentFeed

A *request* stands for the payment it asks for and for that payment's event
(both ids are fresh UUIDs). `request[r]` goes `new -> executed -> inserted ->
queued` through `Execute`, the two INSERTs and COMMIT, and ends `created` (201),
`invalid` (400), `conflict` (409), `error` (500) or `lost` (the process died).
`transactions` and `outbox` hold what is committed; what an open SQL transaction
wrote is implied by `request[r]`, and so is the lock InnoDB holds on the unique
key (`HoldsKey`), on which another INSERT of the key waits. COMMIT makes both
rows visible at once; `CommitUnknown` is a COMMIT that was applied while the
caller got an error.

Each task has a relay: `Tick` selects up to `BatchSize` pending events, oldest
first with ties in any order; `Publish`, `PublishFails` and `PublishAbandoned` are
what `Producer.Publish` can do, including the send left in its goroutine
(`inflight`) that may still `Land`; `ProducerRetry` is sarama sending a stored
event again within one `SendMessage` (`Retry.Max = 3`, not idempotent), while the
relay waits for it or after; `Mark` is the conditional UPDATE. A task can be cancelled, stop, crash and restart. `excused` counts, for
each event, the times its publish could not be recorded; it is a history
variable and guards nothing.

### WorkerPool

One action per channel or lock operation. `call[c]` is `submit` while `Execute`
holds the read lock at its first `select`, then `wait`, then what it returned.
`Enter` waits while Shutdown waits for the write lock, as Go's `RWMutex` makes
new readers do. A worker takes the head of the channel without looking at its
ctx, runs it and sends on the buffered result channel. `Shutdown` is three
steps: ask for the lock, close the channel when the last reader has left, and
return when every worker has.

### Processor

A delivery (partition, offset, session) is one call of the pool's `Execute`.
`claim[p]` is where the partition's goroutine is; `task[w]` is where each worker
is in `process`: decode, attempt, publish, dead-letter, return. `late` is the
processing timeout; the end of the session is the pool's `expired`. `marked` is
what the session would commit and `committed` what the broker has; a mark never
moves back. A session ends by a rebalance (the pool and its jobs live on), by
SIGTERM (then `Drain`, the pool's own shutdown and `Exit`) or by a crash. The
next one starts at the committed offsets. The producer is that of payments-service:
a publish may be left behind (`PublishAbandoned`, then `Land` or `Drop`), and sarama
may store an outcome more than once within one `SendMessage` (`ProducerRetry`).
`excused` counts both for each message; it guards nothing. An event's fields are reduced to its
kind: valid, invalid (decodes, refused by `DefaultProcessor`), malformed.

### AnalyticsConsumer

`pending[p]` is the batch: `outcomes` and `pending` of the code have the same
messages, so one sequence stands for both; `flush` is the insert, then one mark
at a time, or the drop. A message's kind says whether it is a row, is refused by
`toRow`, or is not JSON (the services never publish such a message themselves;
the code handles it and its tests send it). `InsertSkips` stores the good rows and
returns an error, as `InsertBatch` does. When the session is over either branch of the `select`
may win: `ReturnOnDone` forgets the batch, `ReturnOnClosed` flushes it first.

### ConsumerFeed and Pipeline

`ConsumerFeed` knows three things of a service: how often each message's outcome
is recorded, which messages were given up, and the committed offsets. For
`Processor`, `recorded` is the copies on the two output topics and `givenUp` the
messages logged as "not marked; will be redelivered". For `AnalyticsConsumer`,
`recorded` is the rows and `givenUp` is `Explained`: a malformed message, one of a
dropped batch, or one before a marked malformed message, in whose batch it may have
waited. `givenUp` does not mean lost: a message may be recorded before or after.

`Pipeline` has the topics as logs of payments. `Deliver` appends to
`payments.created`, `Process` turns one of its messages into one of an output
topic, `Store` turns one of those into a row; each is a step of the contract of
its service together with its effect on the next topic, so that the composition
inherits what the contracts promise and nothing else. `AnalyticsTopics` is the
subscription `main` makes; the contracts cannot tell whether it is complete.

### PaymentData

A text is a sequence of characters, because what the program accepts depends on
them: `parseFixedPoint` strips one sign, cuts at the first point, pads, and leaves
the rest to `strconv.ParseInt`, which accepts a sign of its own. A payment then
moves through `Create` (`Execute`, `NewTransaction`, the INSERTs), `Get`
(`FindByID` parses the columns back), `Process` (payment-processor's checks, its
answer or the dead letter) and `Store` (`toRow` and the DECIMAL columns of
ClickHouse). Every text of the messages is what `formatFixedPoint` writes. The
currencies are reduced to supported, well-formed and malformed; the other fields
to valid or not. `Overflow` assumes MariaDB's strict mode, its default: a value
out of a column's range fails the INSERT.

### AnalyticsQueries

A query is a record of raw parameters, each given, absent or malformed;
`ParseFilter`, `Selects` (the WHERE clause) and the five `GROUP BY`s are operators
over the bag of rows in `table`. `Serve` is a whole handler. The dashboard's state
is TanStack Query's cache: for each endpoint and filter the last answer, with the
number of inserts it had seen; a failed fetch hides the entry until the next one
succeeds. `Overview` is `computeOverview` over the two entries on the page. Go's
zero time means "no bound", so a date that is Go's zero time cannot be filtered
on; the properties leave out that day.

## 3. What the runs check

| Run | Instance | Result |
|---|---|---|
| `outbox` | 3 requests, 2 share a key, 2 tie on `created_at`; 1 task; batch of 2; 2 faults | passes |
| `two_relays` | 2 requests, 2 tasks, no fault | `DuplicatesExcused` violated |
| `worker_pool` | 3 calls, 2 workers, queue of 1 | passes |
| `processor` | valid then malformed message, 2 workers, 2 sessions, 1 fault | passes |
| `processor_live` | valid then invalid message, 1 worker, 2 sessions, 1 fault | passes |
| `processor_lost` | malformed then valid message, 1 worker, 1 session, 1 fault | `NoLostMessage` violated |
| `analytics` | 2 partitions: row + refused row, row + bad JSON; batch of 2; 2 sessions, 1 fault | passes |
| `analytics_failed_batch` | 3 messages, batch of 1, 1 fault | `FailedBatchIsRedelivered` violated |
| `payment_data` | every text of up to 4 of `- + . 5` as amount or as rate; 13 x 12 boundary amounts and rates; 14-bit integers, 3-digit columns, scales 2 and 1 | passes |
| `fx_overflow` | the same | `ConversionNeverOverflows` violated |
| `queries` | 3 possible rows, 2 inserts (of the same row or not), 75 queries, 2 filters on the page | passes |
| `pipeline` | 2 payments, 1 repetition or message given up | passes |

**Safety in `Outbox`.** `PaymentHasEvent` (the two writes are one), `OnePaymentPerKey` and `TruthfulResponses` (across retries, lost
acknowledgements and dead tasks), `MarkedIsOnTopic` (no loss),
`DuplicatesExcused` (copies on the topic or on their way never exceed one plus
the publishes that could not be recorded). **Liveness**: `OutboxDrains`,
`EveryRequestAnswered`. **Refinement**: `FeedSpec`, with `accepted` the committed
payments and `delivered` the copies on the topic, including its liveness; that
nothing is on the topic without a payment is part of it.

**WorkerPool.** `NoSendOnClosed`, `RunsAtMostOnce`, `HonestReturn`,
`ShutdownDrains`; `ShutdownReturns` and `ExecuteReturns` are the absence of
deadlock between senders on a full channel, workers and the lock.

**Processor.** `MarkedHasOutcome`, `OneJobPerPartition`, `NeverRejected`,
`OneOutcomePerRun` (the copies of an outcome, on the topics and on their way, never
exceed the runs of its tasks plus the publishes given up half-way and those sarama
sent again), and `LossIsLogged`: a message committed past without an
outcome has at least been logged as "not marked; will be redelivered".
`ContractSpec` is the refinement of `ConsumerFeed` (commits only past what is
settled, never back, every message settled in the end); `SessionEnds` says that a
rebalance never waits for a task.

**AnalyticsConsumer.** `MarkedIsStored`, `OneRowPerSession`,
`MarkStaysBehindBatch`, and `ContractSpec` with its three causes for a committed
message without a row.

**PaymentData.** `AmountsAsWritten` (an accepted text is stored as the number it
writes, doubled signs included), `RefusedForACause` (no plain positive decimal is
refused unless a figure does not fit), `ConversionExact` (half-up, up to the width
of the integer), `ReadBackIsTheAnswer`, `ProcessorAgrees` (what payments-service
accepts, payment-processor does not dead-letter for its figures), `DatabasesAgree`.
The expected values are computed by definitions of their own (`Magnitude`,
`ExactDestination`), not by the code's algorithm.

**AnalyticsQueries.** `DaysAddUp`: a range of dates counts what the time series
shows for its days, and is refused exactly when it ends before it starts.
`AnswersAgree`: the five endpoints accept the same queries and aggregate the same
payments. `OverviewAccountable`: the KPIs are of one moment, unless rows arrived
between the two answers; then the success rate is a percentage all the same, or
NaN in one named case. The code's comment says the two counts "never visibly
disagree once both have loaded": that is the first part.

**Pipeline.** `DrainedMeansCounted`: with no pending event and no lag the dashboard
counts exactly the accepted payments, but for the ones logged as given up.
`EveryPaymentCounted` is its liveness side.

### What the violations show

Each states something the repository says of itself and the code does not do;
`PROJECT.json` quotes the lines.

1. *Two relays.* Prod runs two tasks of payments-service, each with a relay;
   nothing claims rows, so events are published twice with no failure at all.
2. *Lost message.* An unmarked message is covered by the next mark of its
   partition. In the run the first message cannot be decoded and its one DLQ publish
   fails; the message after it is published and marked in the same session, and the
   first is neither recorded nor delivered again. (With a second session there is
   another way to the same loss: a claim whose session ends gives up on its ctx, and
   goes on to another message of the closing session. The run leaves it out.)
3. *Failed batch.* The same covering of earlier offsets in analytics-service, by
   the next batch's marks.
4. *Conversion.* The converted amount is cut to 64 bits: a large accepted amount
   at a large accepted rate is stored as a small one.

Further divergences the models contain, which no run isolates:

- A task whose caller has given up is still started if it was queued, although
  `pp/internal/workerpool/pool.go:96` says it is not (`GiveUp`, then `Take`; the
  properties of the pool allow it). The processor's task looks at its ctx itself,
  except for a malformed message.
- `docs/architecture.md:348` says offsets are marked only after their batch's
  insert. A malformed message is marked at once, and its mark covers the rows that
  wait in the batch (`Skip`). This is why `MarkStaysBehindBatch` speaks of partitions
  without such a message, and the third cause in `Explained`, which names every
  message before a marked malformed one.
- `as/migrations/001_create_payments_analytics.sql:27` says timestamps "round-trip
  exactly" between the databases. The message carries RFC3339 without a fraction:
  ClickHouse has whole seconds (`FormatTime`), and `DatabasesAgree` says so.
- `docs/architecture.md:259` says a failed publish of an outcome is retried. The
  producer's error is a plain one, `IsRetryable` is false for it, and the first
  failure goes to the DLQ (`AfterPublishError`, `IsRetryable` of `Processor`).
- The comment in `Multiply` says its operands are validated first; `Execute`
  multiplies before `NewTransaction` validates. Harmless, as `FieldErrors` refuses
  the operands afterwards.

### Bounds, and why they are enough

`MaxFaults` bounds crashes, signals, failures, repeated sends and unknown outcomes
together: with two, the outbox meets every pair (a lost acknowledgement and a
crash, a failed mark and a cancelled publish). After SIGTERM failures are free, because a
done ctx makes them certain rather than rare. `MaxSessions = 2` is one end of a
session and one redelivery: every property relates at most two deliveries of a
message. Two messages in a partition are the least for a mark to cover another
message; three are used where the second batch must be a different one. A queue
of one and two workers make senders block, run in parallel and be drained. Three
requests are a conflict, a retry and an independent event, more than a batch.
The counters `topic`, `inflight`, `excused` and `rows` are bounded
by these, not by guards of their own. Symmetry is not used: the runs with
liveness forbid it, and the others are small.

In `PaymentData` the scales and widths are far below the program's (2 and 8
digits, 64 bits, 18 digits), but in the same order: a column holds fewer values
than an integer, and a product exceeds both, so that every comparison of the code
falls on both sides of each limit; ties of the rounding, zero results, the largest
value of a column and the wrap all occur. Four characters are the least for two
signs, a point and a digit. Two inserted rows and two days are the least for an
answer older than another and for a range with an inside and an outside. In
`Pipeline`, `MaxFaults = 1` is one repetition or one loss at any of the three hops.

`CHECK_DEADLOCK FALSE` is set because the models stop when the bounded inputs,
sessions and faults are used up.

### Fairness

Weak fairness, on steps the runtime or the platform performs by itself: a
handler or claim goroutine that can run, a worker, the relay's ticker, the pool's
shutdown, the next session sarama starts, the restart ECS makes
(`infrastructure/modules/ecs-service`). Grouping a process's steps in one
weak-fairness condition assumes only that it takes *some* step; which branch of
a `select`, or whether a call fails, stays free. `Pipeline` assumes the promises of
the contracts it composes, each for one message, and `PaymentData` and
`AnalyticsQueries` state no liveness. Nothing is assumed of clients,
signals, rebalances, faults, left-behind or repeated sends or the auto-commit. That a task
ends is justified by `ProcessingTimeout`, which every publish observes.

## 4. What is proved

`tlapm` checks all of it for every value of the constants, from the assumptions
named beside them and nothing else: `OutboxAssumption`, `PoolAssumption`,
`ProcessorAssumption` and `AnalyticsAssumption` (types, non-empty sets, positive
sizes, finitely many workers; `config.Load` and `New` enforce them),
`PipelineAssumption` (finitely many payments), `PaymentDataAssumption` (requests of
any texts; positive scales; what a DECIMAL column holds fits the integers, as 18
digits fit 64 bits; `None` is not a request) and `AnalyticsQueriesAssumption`
(types; finitely many distinct rows, each completed or failed, the two statuses
payment-processor writes; distinct stand-ins for absent and malformed parameters). What a message is (`Kind`) is
arbitrary, and so are the numbers of sessions and faults that bound TLC's runs.

**WorkerPoolProofs.** `PoolInv` is `TypeOK` with four parts: `QueuedFresh` (a
queued call has not run, has no result, is queued once), `RunningOnce` (a running
call ran once and is on one worker), `CallAndTask` (where the caller stands
against where its task is) and `ClosedPool` (after the close nobody is at the
send; a worker that has left found the channel empty). The properties are not
inductive alone: that tasks run at most once needs to know that what is queued is
on no worker, and that Shutdown drains needs the exits' history. From it follow
`TypeCorrect`, `NeverSendsOnClosed`, `TasksRunAtMostOnce`, `ReturnsAreHonest`,
`ShutdownLeavesNothing`.

**OutboxProofs.** `OutboxInv` is `TypeOK`, the database part (`PaymentHasEvent`,
`NotYetPaid`: an open request has no payment; `KeyLock`: a lock holder has no
rival with its key, open or committed; `OnePaymentPerKey`, `TruthfulResponses`),
the relay part (what is in hand is a committed event; what is to be marked is on
the topic), `MarkedIsOnTopic` and `NoPhantomEvent`. It gives the theorems of the
same names, and `ImplementsFeed`: every step is a step of `PaymentFeed` or a
stutter (the safety half of `FeedSpec`).

`SingleRelayDuplicates` assumes one task, as the code's comment does, and adds
`OwnBatch` (what the one relay has in hand is still pending, without repeats) and
`CopiesBound` (the copies of an event, with the one just published but not yet
marked counted apart, are within its excuses). It is the positive side of the
`two_relays` violation.

**ProcessorProofs.** The consumer shares its pool with jobs of sessions that are
over, and a crash takes the pool away, so nothing about it is inductive without
the pool's own invariant. `ProcessorInv` contains `PoolInv` of `WorkerPoolProofs`,
instantiated with the deliveries as calls: every step of the consumer is a step
of the pool or leaves it alone (`PoolStep`), but for the crash, which is a fresh
pool. The other parts are

- `SessionInv`, `OpenInv`, `ExpiryInv`: no delivery of a session to come is in the
  pool, and the pool closes only after the last claim has returned; from this,
  that no message is rejected (`NeverMeetsClosed`);
- `JobInv`: what the pool holds of the live session is what its claims wait for.
  `OneJobEachPartition` follows, because a claim waits for one message;
- `OutcomeInv`: a nil implies an outcome all along its way, from the task's return
  through the result channel to the mark (`MarkedMeansOutcome`);
- `CountInv`: the copies of an outcome, on the topics and on their way, *and the
  workers that have yet to record theirs*, are within the runs and the publishes
  given up or sent again. The middle term makes it inductive: a publish takes a
  worker out of it and puts a copy in (`OneOutcomeEachRun`);
- `OffsetInv`: every message received, but for the one a claim waits for, has an
  outcome or was logged; so has every message the mark has passed
  (`EveryLossIsLogged`).

`ImplementsContract` is the safety half of `ContractSpec`: every step records an
outcome, gives a message up, commits past settled messages only, or stutters.

**AnalyticsConsumerProofs.** `AnalyticsInv` speaks of each partition by itself.
`BatchInv`: the batch is in order and holds messages received already, so a mark
passes its head only. `StoredInv`: what is about to be marked, or has been, has
its row (`MarkedMeansStored`). `RowsInv`: the session has added no row for what it
has not received or has not inserted yet, hence at most one for anything
(`OneRowEachSession`). `BehindInv` is `MarkBehindBatch`, per partition. `DoneInv`:
what was received is in the batch or done, and what the mark has passed is done,
*done* being stored, dropped or covered by a malformed message's mark. It gives
`ImplementsContract`, the safety half of `ContractSpec`. The lemmas about batches
(`AppendToBatch`, `TailOfBatch`) say what receiving and marking do to a sequence
in order.

**SumTheorems.** The library's induction theorems take an operator, which the
provers cannot instantiate; `SetInduction` and `FiniteInduction` say the same with
a set of numbers and a set of subsets, and are proved from the well-foundedness of
`<` on the naturals. On them rest the laws of `SumFunctionOnSet`, whose definition
takes the elements in an order CHOOSE picks: the equation it is defined by has one
solution (`SumExists`, `SumUnique`), any element may be taken first
(`SumAnyFirst`), sums over disjoint sets add (`SumUnion`, `SumOfParts`) and grow
with their terms (`SumMonotone`). `Recursion` says that a function given by a start
and a step exists, and so what its values are; `DivisionUnique`, that quotient and
remainder are what the equation of division makes them.

**AnalyticsQueriesProofs.** Two of the three properties hold for *any* table and need
no induction over behaviours. `AnswersAlwaysAgree`: the groups of a `GROUP BY` part
the rows of the filter (`GroupByShape`), so their figures add up to the filter's
whatever the key (`GroupsAddUp`), and five endpoints with one filter agree.
`DaysAlwaysAddUp`: a range of dates selects an instant exactly when it holds the
instant's day (`InRange`), so the days part the rows of the range.
`OverviewIsAccountable` is about answers of different moments. `QueriesInv` says of
each answer in the cache that it counts at most what its filter selects now, and
exactly that if no row came since, and of two answers of one filter that the later
counts no less. An insert preserves it because a table that grows never makes a
filter count less (`InsertGrows`), a fetch because the new answer is of now.

**PaymentDataProofs.** The difficulty is in the operators, whose inputs are texts of
any length. The lemmas go up in layers:

- powers and integers: the recursive functions `TenTo` and `TwoTo` have the values
  their equations give (`Powers`), `Int64` keeps what fits and is off by a multiple
  of `2^w` otherwise (`Int64Keeps`), and `Multiply` rounds half up
  (`MultiplyRounds`);
- digits: the value of a text of digits, by the induction Horner's rule asks for, and
  of two such texts joined; a numeral has the value it was made from;
- one decimal: what `formatFixedPoint` writes has its point in place
  (`FormatShape`), parses back to the same units (`FormattedParses`), passes
  payment-processor's pattern (`FormattedMatches`) and is worth the same in
  ClickHouse (`FormattedUnits`);
- any text: `ParseSigned` says what is left when `parseFixedPoint` succeeds on an
  arbitrary text: at most two signs, then digits with at most one point.
  `MagnitudeOf` says that the value Horner's rule computes is the sum of the digits
  at their places, which is how the property is stated; `WrapsAround` rules out the
  one case where a text with one sign could have come out positive, the negation of
  the least integer. `PlainParses` is the converse, for plain decimals that fit.

`DataInv` is then short: the row, the event, the outcome, the answer to GET and the
row of ClickHouse are all of the one accepted request, and a request that was refused
is one the code does not accept. It is inductive because each service reads only what
the one before it wrote, and gives the six properties the run checks
(`AmountsAlwaysAsWritten`, `NothingRefusedWithoutCause`, `ConversionAlwaysExact`,
`ReadBackAlwaysTheAnswer`, `ProcessorAlwaysAgrees`, `DatabasesAlwaysAgree`).
`FittingConversionIsExact` is the positive side of the `fx_overflow` violation: a
conversion that fits an integer is stored as it is.

**PipelineProofs.** `NothingMissing` is `DrainedMeansCounted` for any payments and
any number of repetitions and losses, from the three contracts alone.
`PipelineInv` follows a payment along its way: what is on a topic is about an
accepted payment (`OnlyAccepted`); what was delivered is on payments.created
(`DeliveredIsOn`); the outcome of a message is on an outcome topic, about the same
payment (`OutcomeIsOn`); what is settled exists (`SettledExists`); each group has
committed past settled messages only (`CommittedIsSettled`). With no lag, the last
turns "is on the topic" into "is settled" on both hops, and the step between the
hops is that every outcome topic is one the dashboard reads.

With the two `ImplementsContract` and `ImplementsFeed`, the steps the pipeline
composes are steps the three services are proved to take.

**Only model-checked.** Every invariant of the passing runs is a theorem. What is
left to TLC is all liveness (`OutboxDrains`, `EveryRequestAnswered`,
`ShutdownReturns`, `ExecuteReturns`, `SessionEnds`, `EveryPaymentCounted`, the
liveness halves of `FeedSpec` and `ContractSpec`), since fairness and ENABLED are out
of the prover's reach, and the four violations.

## 5. What is not modelled, and why

- `MarkCompleted`, `MarkFailed`, `transitionTo` and `UpdateStatus`: tests only
  call them, so a payment's status in MariaDB never changes.
- Health, readiness, CORS, correlation ids, logging, metrics, the 404 of GET: no
  state the properties speak of.
- ORDER BY, `failure_rate`, the floats and the formatting of the KPI cards
  (`successRate` is a whole percentage here, its NaN a value of its own).
- Configuration loading: it runs once, before anything is concurrent.
- The wire format, beyond whether a message decodes and is accepted, and the
  figures it carries.
- MariaDB, Kafka, sarama and ClickHouse themselves: by the outcomes the code can
  meet. Committed offsets do not go backwards, and a topic keeps what it
  acknowledged.
- Two members of one consumer group running at once: a partition moving to
  another member is a session that ends and another that starts, while the old
  member's jobs go on.
- The seed tool: sequential, run by hand, it fills both databases with one stream
  of pseudo-random records; nothing interleaves and randomness has no property
  TLC could check.
- The rest of the frontend (charts, forms, the mock of the payments list),
  Terraform, dashboards.

## 6. Plan

Done, in this order: `PaymentFeed` and `Outbox`; `WorkerPool`; `Processor` over
it; `AnalyticsConsumer`; the proofs of `WorkerPool` and `Outbox`; `ConsumerFeed`
with the two refinements; `PaymentData`; `AnalyticsQueries`; `Pipeline` and its
proof.

The proofs of `AnalyticsConsumer` and of `Processor` over the pool's invariant,
each with the safety half of its refinement; the laws of sums and the proofs of
`AnalyticsQueries`.

Last, `PaymentData`: the laws of powers, numerals and decimals, and its six
invariants.

Next: the positive side of the other violations, as `SingleRelayDuplicates` is for
`two_relays` and `FittingConversionIsExact` for `fx_overflow`: a run of
payment-processor that gives no message up commits past nothing without an outcome;
a run of analytics-service with no failed insert and no malformed message commits past
nothing without a row.

## 7. Running it

    tlc -config MCOutbox.cfg MCOutbox        # any run: the module and cfg of PROJECT.json
    tlapm OutboxProofs.tla
