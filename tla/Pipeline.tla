------------------------------ MODULE Pipeline ------------------------------
(***************************************************************************)
(* The three services end to end, each by its contract: payments-service   *)
(* (PaymentFeed, which Outbox implements) delivers accepted payments to    *)
(* payments.created; payment-processor (ConsumerFeed, which Processor      *)
(* implements) turns each message into an outcome on payments.processed or *)
(* payments.dlq; analytics-service (ConsumerFeed again, which              *)
(* AnalyticsConsumer implements) turns each outcome into a ClickHouse row. *)
(*                                                                         *)
(* The contracts say nothing of a message's content, nor that one          *)
(* service's output is the next one's input: that is what this adds.       *)
(* Every topic has one partition here.                                     *)
(***************************************************************************)
EXTENDS Naturals, Sequences, FiniteSets

CONSTANTS
  Payments,   \* the payments clients may ask for
  KeyOf,      \* the idempotency key of each of them
  MaxFaults   \* bound on repeated events, outcomes and rows, and on messages
              \* given up, together

ASSUME PipelineAssumption == IsFiniteSet(Payments) /\ MaxFaults \in Nat

Topics == {"created", "processed", "dlq"}

\* The topics the processor publishes outcomes to.
OutcomeTopics == {"processed", "dlq"}

\* Mutant: the dead letters are nobody's.
CompletedOnly == {"processed"}

\* The topics analytics-service subscribes to.
AnalyticsTopics == {"processed", "dlq"}

MaxLength == Cardinality(Payments) + MaxFaults

VARIABLES
  accepted,    \* the payments of the transactions table
  delivered,   \* copies of each payment's event on payments.created
  log,         \* each topic: the payments its messages are about
  outcomes,    \* copies of the outcome of each message of payments.created
  unprocessed, \* the messages the processor gave up
  processed,   \* the offset the processor's group has committed
  rows,        \* ClickHouse rows of each outcome message
  uncounted,   \* the messages analytics-service gave up
  counted,     \* the offsets the analytics group has committed
  faults       \* repetitions and messages given up so far

feedVars == <<accepted, delivered>>
processorVars == <<outcomes, unprocessed, processed>>
analyticsVars == <<rows, uncounted, counted>>
vars == <<feedVars, log, processorVars, analyticsVars, faults>>

Outbox == INSTANCE PaymentFeed

Processor == INSTANCE ConsumerFeed WITH
  Partitions <- {"created"}, Length <- MaxLength,
  recorded <- outcomes, givenUp <- unprocessed, committed <- processed

Analytics == INSTANCE ConsumerFeed WITH
  Partitions <- AnalyticsTopics, Length <- MaxLength,
  recorded <- rows, givenUp <- uncounted, committed <- counted

Init ==
  /\ Outbox!Init /\ Processor!Init /\ Analytics!Init
  /\ log = [t \in Topics |-> << >>]
  /\ faults = 0

-----------------------------------------------------------------------------
\* The message is on its topic, and the payment it is about.
Exists(m) == m[2] < Len(log[m[1]])
PaymentOf(m) == log[m[1]][m[2] + 1]

Publish(topic, p) == log' = [log EXCEPT ![topic] = Append(@, p)]

Fault == faults < MaxFaults /\ faults' = faults + 1

\* One more of something there already are n of.
Repeat(n) == IF n > 0 THEN Fault ELSE UNCHANGED faults

\* POST /payments commits the payment with its outbox event.
Accept(p) ==
  /\ Outbox!Accept(p)
  /\ UNCHANGED <<log, processorVars, analyticsVars, faults>>

\* The relay publishes an event, perhaps again.
Deliver(p) ==
  /\ Outbox!Deliver(p)
  /\ Repeat(delivered[p])
  /\ Publish("created", p)
  /\ UNCHANGED <<processorVars, analyticsVars>>

\* A message is processed, or dead-lettered, perhaps again; both publish an
\* outcome of the same payment.
Process(m) ==
  /\ Exists(m)
  /\ outcomes' = [outcomes EXCEPT ![m] = @ + 1]
  /\ UNCHANGED <<unprocessed, processed>>
  /\ Processor!Settle
  /\ Repeat(outcomes[m])
  /\ \E topic \in OutcomeTopics : Publish(topic, PaymentOf(m))
  /\ UNCHANGED <<feedVars, analyticsVars>>

\* Neither outcome could be published: "not marked; will be redelivered", and
\* a later mark goes past it.
GiveUp(m) ==
  /\ Exists(m) /\ m \notin unprocessed
  /\ unprocessed' = unprocessed \union {m}
  /\ UNCHANGED <<outcomes, processed>>
  /\ Processor!Settle
  /\ Fault
  /\ UNCHANGED <<feedVars, log, analyticsVars>>

CommitProcessed ==
  /\ \E n \in processed["created"] + 1 .. Len(log["created"]) :
       processed' = [processed EXCEPT !["created"] = n]
  /\ UNCHANGED <<outcomes, unprocessed>>
  /\ Processor!Commit
  /\ UNCHANGED <<feedVars, log, analyticsVars, faults>>

\* A batch with the message reaches ClickHouse, perhaps again.  (A batch is
\* its messages one after another here: the contract is about each.)
Store(m) ==
  /\ Exists(m)
  /\ rows' = [rows EXCEPT ![m] = @ + 1]
  /\ UNCHANGED <<uncounted, counted>>
  /\ Analytics!Settle
  /\ Repeat(rows[m])
  /\ UNCHANGED <<feedVars, log, processorVars>>

\* The message was malformed, or its batch failed and was dropped.
Drop(m) ==
  /\ Exists(m) /\ m \notin uncounted
  /\ uncounted' = uncounted \union {m}
  /\ UNCHANGED <<rows, counted>>
  /\ Analytics!Settle
  /\ Fault
  /\ UNCHANGED <<feedVars, log, processorVars>>

\* Mutant: messages are marked when they arrive, stored or not.
CommitDelivered ==
  /\ \E t \in AnalyticsTopics : \E n \in counted[t] + 1 .. Len(log[t]) :
       counted' = [counted EXCEPT ![t] = n]
  /\ UNCHANGED <<rows, uncounted, feedVars, log, processorVars, faults>>

CommitCounted ==
  /\ \E t \in AnalyticsTopics : \E n \in counted[t] + 1 .. Len(log[t]) :
       counted' = [counted EXCEPT ![t] = n]
  /\ UNCHANGED <<rows, uncounted>>
  /\ Analytics!Commit
  /\ UNCHANGED <<feedVars, log, processorVars, faults>>

SettleProcessor(m) == Process(m) \/ GiveUp(m)
SettleAnalytics(m) == Store(m) \/ Drop(m)

Next ==
  \/ \E p \in Payments : Accept(p) \/ Deliver(p)
  \/ \E m \in Processor!Messages : SettleProcessor(m)
  \/ \E m \in Analytics!Messages : SettleAnalytics(m)
  \/ CommitProcessed \/ CommitCounted

(***************************************************************************)
(* Each contract's own promise, and no more: the relay delivers every      *)
(* accepted payment once, and a service settles every message it has.      *)
(***************************************************************************)
Fairness ==
  /\ \A p \in Payments : WF_vars(delivered[p] = 0 /\ Deliver(p))
  /\ \A m \in Processor!Messages : WF_vars(~Processor!Settled(m) /\ SettleProcessor(m))
  /\ \A m \in Analytics!Messages : WF_vars(~Analytics!Settled(m) /\ SettleAnalytics(m))

Spec == Init /\ [][Next]_vars /\ Fairness

-----------------------------------------------------------------------------
(* Properties.                                                             *)

\* The dashboard's rows of payment p, and the services that gave p up.
Counted(p) ==
  \E m \in Analytics!Messages : Exists(m) /\ PaymentOf(m) = p /\ rows[m] > 0
GivenUp(p) ==
  \/ \E m \in unprocessed : PaymentOf(m) = p
  \/ \E m \in uncounted : PaymentOf(m) = p

\* No outbox event is pending and neither group lags.
Drained ==
  /\ \A p \in accepted : delivered[p] > 0
  /\ processed["created"] = Len(log["created"])
  /\ \A t \in AnalyticsTopics : counted[t] = Len(log[t])

\* What an operator reads off the lag: with nothing pending and no group
\* behind, the dashboard counts exactly the accepted payments, but for those
\* a service has logged as given up.  Holds across the three services.
DrainedMeansCounted ==
  /\ \A p \in Payments : Counted(p) => p \in accepted
  /\ Drained => \A p \in accepted : Counted(p) \/ GivenUp(p)

\* A payment the API has answered for reaches the dashboard in the end,
\* completed or failed, unless a service logs that it gave it up.
EveryPaymentCounted ==
  \A p \in Payments : p \in accepted ~> Counted(p) \/ GivenUp(p)
=============================================================================
