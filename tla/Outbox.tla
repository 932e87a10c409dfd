------------------------------- MODULE Outbox -------------------------------
(***************************************************************************)
(* payments-service: POST /transactions writes a payment and its outbox    *)
(* event in one MariaDB transaction; in each running task of the service a *)
(* relay polls the pending events, publishes them to payments.created and  *)
(* marks them published.                                                   *)
(*                                                                         *)
(* A request stands for the payment it asks for (its id is a fresh UUID)   *)
(* and for that payment's outbox event.  Two requests with one idempotency *)
(* key are a client's retry.  MariaDB, Kafka and sarama are external: they *)
(* are modelled by the outcomes the code can meet.                         *)
(***************************************************************************)
EXTENDS Naturals, Sequences, FiniteSets

CONSTANTS
  Requests,    \* the requests clients send
  Keys,        \* the idempotency keys they use
  KeyOf,       \* the key of each request
  CreatedAt,   \* the created_at Execute gives each; equal ones are a tie
  Tasks,       \* the tasks (processes) of payments-service
  Home,        \* the task the load balancer sends each request to
  BatchSize,   \* OUTBOX_BATCH_SIZE
  MaxFaults    \* bound on the faults of the environment

ASSUME OutboxAssumption ==
  /\ KeyOf \in [Requests -> Keys]
  /\ IsFiniteSet(Requests)
  /\ CreatedAt \in [Requests -> Nat]
  /\ Home \in [Requests -> Tasks]
  /\ BatchSize \in Nat \ {0}
  /\ MaxFaults \in Nat

VARIABLES
  request,       \* how far each request is in the handler, or its response
  transactions,  \* the committed rows of table transactions
  outbox,        \* the committed status of each row of outbox_events
  relay,         \* each task's relay: where it is in tick and what is left
  ctxDone,       \* has the task's context been cancelled (SIGTERM)?
  inflight,      \* SendMessage calls of each event nobody waits for any more
  topic,         \* copies of each event on payments.created
  excused,       \* publishes of each event that could not be recorded
  faults         \* faults so far

dbVars == <<transactions, outbox>>
relayVars == <<relay, ctxDone>>
kafkaVars == <<inflight, topic, excused>>
vars == <<request, dbVars, relayVars, kafkaVars, faults>>

-----------------------------------------------------------------------------
(* Types and derived state.                                                *)

Open == {"executed", "inserted", "queued"}
Answered == {"created", "invalid", "conflict", "error", "lost"}

\* Mutant: without the deferred Rollback a failed handler keeps its lock.
HoldsKeyAfterFail(r) == request[r] \in {"inserted", "queued", "error"}

\* The SQL transaction of r holds the lock on its unique key.
HoldsKey(r) == request[r] \in {"inserted", "queued"}

\* Mutant: the SELECT without its WHERE.
AllEvents == {e \in Requests : outbox[e] # "none"}

Pending == {e \in Requests : outbox[e] = "pending"}

Up(t) == relay[t].pc # "down"

Fault == faults < MaxFaults /\ faults' = faults + 1

\* A failure the environment may cause, free of charge once ctx is cancelled.
FaultOrCancelled(t) ==
  IF ctxDone[t] THEN UNCHANGED faults ELSE Fault

TypeOK ==
  /\ request \in [Requests -> {"new"} \union Open \union Answered]
  /\ transactions \subseteq Requests
  /\ outbox \in [Requests -> {"none", "pending", "published"}]
  /\ relay \in [Tasks -> [pc : {"idle", "publish", "mark", "stopped", "down"},
                          batch : Seq(Requests)]]
  /\ \A t \in Tasks :
       relay[t].pc \in {"publish", "mark"} <=> relay[t].batch # << >>
  /\ ctxDone \in [Tasks -> BOOLEAN]
  /\ inflight \in [Requests -> Nat]
  /\ topic \in [Requests -> Nat]
  /\ excused \in [Requests -> Nat]
  /\ faults \in 0 .. MaxFaults

Init ==
  /\ request = [r \in Requests |-> "new"]
  /\ transactions = {}
  /\ outbox = [r \in Requests |-> "none"]
  /\ relay = [t \in Tasks |-> [pc |-> "idle", batch |-> << >>]]
  /\ ctxDone = [t \in Tasks |-> FALSE]
  /\ inflight = [r \in Requests |-> 0]
  /\ topic = [r \in Requests |-> 0]
  /\ excused = [r \in Requests |-> 0]
  /\ faults = 0

-----------------------------------------------------------------------------
(* The create handler: CreateTransaction.Execute and the repository's      *)
(* Create.                                                                 *)

Goto(r, state) ==
  /\ request' = [request EXCEPT ![r] = state]
  /\ UNCHANGED <<relayVars, kafkaVars>>

\* An invalid body is answered 400 and writes nothing.
Reject(r) ==
  /\ request[r] = "new" /\ Up(Home[r]) /\ ~ctxDone[Home[r]]
  /\ Goto(r, "invalid")
  /\ UNCHANGED <<dbVars, faults>>

\* A valid body becomes a Transaction and an OutboxEvent, in memory.  The
\* server accepts no request once it shuts down.
Execute(r) ==
  /\ request[r] = "new" /\ Up(Home[r]) /\ ~ctxDone[Home[r]]
  /\ Goto(r, "executed")
  /\ UNCHANGED <<dbVars, faults>>

\* Mutant: no unique index on idempotency_key.
InsertWithoutIndex(r) ==
  /\ request[r] = "executed"
  /\ Goto(r, "inserted")
  /\ UNCHANGED <<dbVars, faults>>

\* INSERT INTO transactions: InnoDB makes it wait while another transaction
\* holds the same key.
InsertTransaction(r) ==
  /\ request[r] = "executed"
  /\ \A s \in Requests \ {r} : KeyOf[s] = KeyOf[r] =>
       ~HoldsKey(s) /\ s \notin transactions
  /\ Goto(r, "inserted")
  /\ UNCHANGED <<dbVars, faults>>

\* Mutant: a 409 for a key whose holder has not committed yet.
ConflictOnOpenKey(r) ==
  /\ request[r] = "executed"
  /\ \E s \in Requests : KeyOf[s] = KeyOf[r] /\ HoldsKey(s)
  /\ Goto(r, "conflict")
  /\ UNCHANGED <<dbVars, faults>>

\* The same INSERT against a committed row with the key: error 1062, 409.
Conflict(r) ==
  /\ request[r] = "executed"
  /\ \E s \in transactions : KeyOf[s] = KeyOf[r]
  /\ Goto(r, "conflict")
  /\ UNCHANGED <<dbVars, faults>>

\* Mutant: the event is inserted through r.db, outside the SQL transaction.
InsertEventAutocommit(r) ==
  /\ request[r] = "inserted"
  /\ outbox' = [outbox EXCEPT ![r] = "pending"]
  /\ Goto(r, "queued")
  /\ UNCHANGED <<transactions, faults>>

\* INSERT INTO outbox_events, in the same SQL transaction.
InsertEvent(r) ==
  /\ request[r] = "inserted"
  /\ Goto(r, "queued")
  /\ UNCHANGED <<dbVars, faults>>

\* Mutant: the event is left to a second SQL transaction.
CommitPaymentOnly(r) ==
  /\ transactions' = transactions \union {r}
  /\ UNCHANGED outbox

\* Both rows become visible at once.
ApplyCommit(r) ==
  /\ transactions' = transactions \union {r}
  /\ outbox' = [outbox EXCEPT ![r] = "pending"]

Commit(r) ==
  /\ request[r] = "queued"
  /\ ApplyCommit(r)
  /\ Goto(r, "created")
  /\ UNCHANGED faults

\* COMMIT was applied and its acknowledgement lost, or the process died
\* before it came: the caller gets a 500, or nothing, for a payment that exists.
CommitUnknown(r) ==
  /\ request[r] = "queued"
  /\ ApplyCommit(r)
  /\ Goto(r, "error")
  /\ Fault

\* BeginTx, an INSERT or COMMIT fails, or the client goes away: the deferred
\* Rollback undoes what was written.
Fail(r) ==
  /\ request[r] \in Open
  /\ Goto(r, "error")
  /\ Fault
  /\ UNCHANGED dbVars

-----------------------------------------------------------------------------
(* The relay.                                                              *)

\* What SELECT ... ORDER BY created_at LIMIT ? may return: ties in any order.
OldestFirst(rows, n) ==
  {b \in [1 .. n -> rows] :
     /\ \A i, j \in 1 .. n : i < j =>
          b[i] # b[j] /\ CreatedAt[b[i]] <= CreatedAt[b[j]]
     /\ \A e \in rows, i \in 1 .. n :
          (\A j \in 1 .. n : b[j] # e) => CreatedAt[b[i]] <= CreatedAt[e]}

BatchLen == IF Cardinality(Pending) < BatchSize THEN Cardinality(Pending)
                                                ELSE BatchSize

Batches == OldestFirst(Pending, BatchLen)

\* Mutant: the relay goes on to the next event of an exhausted batch.
AdvancePastEnd(t) ==
  relay' = [relay EXCEPT ![t] = [pc |-> "publish", batch |-> Tail(@.batch)]]

\* The range loop of tick goes on to the next event, whatever became of the
\* last one.
Advance(t) ==
  relay' = [relay EXCEPT ![t] =
    [pc |-> IF Len(@.batch) = 1 THEN "idle" ELSE "publish",
     batch |-> Tail(@.batch)]]

Current(t) == Head(relay[t].batch)

\* Mutant: the relay waits until it can fill a batch.
TickFullBatch(t) ==
  /\ relay[t].pc = "idle" /\ ~ctxDone[t]
  /\ Cardinality(Pending) >= BatchSize
  /\ \E b \in Batches : relay' = [relay EXCEPT ![t] = [pc |-> "publish", batch |-> b]]
  /\ UNCHANGED <<request, dbVars, ctxDone, kafkaVars, faults>>

\* A poll that finds nothing, or fails, changes nothing.
Tick(t) ==
  /\ relay[t].pc = "idle" /\ ~ctxDone[t]
  /\ Pending # {}
  /\ \E b \in Batches : relay' = [relay EXCEPT ![t] = [pc |-> "publish", batch |-> b]]
  /\ UNCHANGED <<request, dbVars, ctxDone, kafkaVars, faults>>

\* Publish returns nil: the event is on the topic.
Publish(t) ==
  /\ relay[t].pc = "publish"
  /\ topic' = [topic EXCEPT ![Current(t)] = @ + 1]
  /\ relay' = [relay EXCEPT ![t].pc = "mark"]
  /\ UNCHANGED <<request, dbVars, ctxDone, inflight, excused, faults>>

\* Mutant: publishOne does not return after a failed publish.
PublishFailsAndMarks(t) ==
  /\ relay[t].pc = "publish"
  /\ FaultOrCancelled(t)
  /\ relay' = [relay EXCEPT ![t].pc = "mark"]
  /\ UNCHANGED <<request, dbVars, ctxDone, kafkaVars>>

\* Publish returns an error and the event is not on the topic.
PublishFails(t) ==
  /\ relay[t].pc = "publish"
  /\ FaultOrCancelled(t)
  /\ Advance(t)
  /\ UNCHANGED <<request, dbVars, ctxDone, kafkaVars>>

\* Publish returns an error and SendMessage, left behind in its goroutine or
\* given up by sarama, may still reach the broker.
PublishAbandoned(t) ==
  /\ relay[t].pc = "publish"
  /\ FaultOrCancelled(t)
  /\ inflight' = [inflight EXCEPT ![Current(t)] = @ + 1]
  /\ excused' = [excused EXCEPT ![Current(t)] = @ + 1]
  /\ Advance(t)
  /\ UNCHANGED <<request, dbVars, ctxDone, topic>>

\* UPDATE ... WHERE id = ? AND status = 'pending'; zero rows is an error the
\* relay only logs.  With a cancelled ctx the UPDATE is not sent.
Mark(t) ==
  /\ relay[t].pc = "mark" /\ ~ctxDone[t]
  /\ outbox' = [outbox EXCEPT ![Current(t)] =
                  IF @ = "pending" THEN "published" ELSE @]
  /\ Advance(t)
  /\ UNCHANGED <<request, transactions, ctxDone, kafkaVars, faults>>

\* The UPDATE is not applied: the event will be published again.
MarkFails(t) ==
  /\ relay[t].pc = "mark"
  /\ FaultOrCancelled(t)
  /\ excused' = [excused EXCEPT ![Current(t)] = @ + 1]
  /\ Advance(t)
  /\ UNCHANGED <<request, dbVars, ctxDone, inflight, topic>>

\* Retry.Max without idempotence: the broker stored the message and sarama,
\* missing the acknowledgement, sends it again within the same SendMessage,
\* whether a relay waits for it or not.
ProducerRetry(e) ==
  /\ \E t \in Tasks :
       \/ relay[t].pc = "publish" /\ Current(t) = e
       \/ Up(t) /\ inflight[e] > 0
  /\ Fault
  /\ topic' = [topic EXCEPT ![e] = @ + 1]
  /\ excused' = [excused EXCEPT ![e] = @ + 1]
  /\ UNCHANGED <<request, dbVars, relayVars, inflight>>

\* A SendMessage nobody waits for reaches the broker, or does not.
Land(e) ==
  /\ inflight[e] > 0
  /\ inflight' = [inflight EXCEPT ![e] = @ - 1]
  /\ topic' = [topic EXCEPT ![e] = @ + 1]
  /\ UNCHANGED <<request, dbVars, relayVars, excused, faults>>

Drop(e) ==
  /\ inflight[e] > 0
  /\ inflight' = [inflight EXCEPT ![e] = @ - 1]
  /\ UNCHANGED <<request, dbVars, relayVars, topic, excused, faults>>

-----------------------------------------------------------------------------
(* The process: shutdown, crash and restart.                               *)

\* SIGTERM cancels the context the relay and the producer use.
Cancel(t) ==
  /\ Up(t) /\ ~ctxDone[t]
  /\ Fault
  /\ ctxDone' = [ctxDone EXCEPT ![t] = TRUE]
  /\ UNCHANGED <<request, dbVars, relay, kafkaVars>>

\* Run sees ctx.Done() between two ticks and returns.
Stop(t) ==
  /\ relay[t].pc = "idle" /\ ctxDone[t]
  /\ relay' = [relay EXCEPT ![t].pc = "stopped"]
  /\ UNCHANGED <<request, dbVars, ctxDone, kafkaVars, faults>>

\* The process is gone: its open SQL transactions are rolled back.
Die(t) ==
  /\ request' = [r \in Requests |->
       IF Home[r] = t /\ request[r] \in Open THEN "lost" ELSE request[r]]
  /\ relay' = [relay EXCEPT ![t] = [pc |-> "down", batch |-> << >>]]
  /\ ctxDone' = [ctxDone EXCEPT ![t] = FALSE]
  /\ UNCHANGED <<dbVars, topic>>

\* main returns after the relay has stopped and the HTTP server has shut
\* down, or after its timeout, with requests still open.
Exit(t) ==
  /\ relay[t].pc = "stopped"
  /\ Die(t)
  /\ UNCHANGED <<inflight, excused, faults>>

\* A crash.  Between Publish and Mark it is the duplicate window the package
\* comment accepts; during Publish the message may be on its way.
Crash(t) ==
  /\ Up(t)
  /\ Fault
  /\ Die(t)
  /\ IF relay[t].pc = "idle" \/ relay[t].pc = "stopped"
       THEN UNCHANGED <<inflight, excused>>
       ELSE /\ excused' = [excused EXCEPT ![Current(t)] = @ + 1]
            /\ inflight' = IF relay[t].pc = "mark" THEN inflight
                           ELSE [inflight EXCEPT ![Current(t)] = @ + 1]

\* ECS starts the task again.
Restart(t) ==
  /\ relay[t].pc = "down"
  /\ relay' = [relay EXCEPT ![t].pc = "idle"]
  /\ UNCHANGED <<request, dbVars, ctxDone, kafkaVars, faults>>

-----------------------------------------------------------------------------
HandlerStep(r) ==
  \/ InsertTransaction(r) \/ Conflict(r) \/ InsertEvent(r)
  \/ Commit(r) \/ CommitUnknown(r) \/ Fail(r)

RelayStep(t) ==
  \/ Tick(t)
  \/ Publish(t) \/ PublishFails(t) \/ PublishAbandoned(t)
  \/ Mark(t) \/ MarkFails(t)
  \/ Stop(t) \/ Exit(t) \/ Restart(t)

Next ==
  \/ \E r \in Requests : Reject(r) \/ Execute(r) \/ HandlerStep(r)
  \/ \E t \in Tasks : RelayStep(t) \/ Cancel(t) \/ Crash(t)
  \/ \E e \in Requests : Land(e) \/ Drop(e) \/ ProducerRetry(e)

(***************************************************************************)
(* Run's ticker and for loop keep the relay going, the handler goroutine   *)
(* runs to its end, and the orchestrator restarts a dead task.  Nothing    *)
(* obliges clients to send, faults to happen or lost sends to land.        *)
(***************************************************************************)
Fairness ==
  /\ \A r \in Requests : WF_vars(HandlerStep(r))
  /\ \A t \in Tasks : WF_vars(RelayStep(t))

Spec == Init /\ [][Next]_vars /\ Fairness

-----------------------------------------------------------------------------
(* Properties.                                                             *)

\* "A payment can never exist without a corresponding queued event" (Create),
\* nor an event without its payment.
PaymentHasEvent ==
  \A r \in Requests : r \in transactions <=> outbox[r] # "none"

\* One idempotency key never yields two payments, whatever retries and
\* crashes the clients and tasks go through.
OnePaymentPerKey ==
  \A r, s \in transactions : KeyOf[r] = KeyOf[s] => r = s

\* A 201 is a payment that exists, a 409 names a key that another payment
\* holds, and a 400 has written nothing.
TruthfulResponses ==
  \A r \in Requests :
    /\ request[r] = "created" => r \in transactions
    /\ request[r] = "conflict" =>
         r \notin transactions /\ \E s \in transactions : KeyOf[s] = KeyOf[r]
    /\ request[r] = "invalid" => r \notin transactions

\* An event is marked published only when it is on the topic: nothing is lost.
MarkedIsOnTopic ==
  \A e \in Requests : outbox[e] = "published" => topic[e] > 0

\* Nothing is on the topic, or on its way there, for a payment that was
\* rolled back.
NoPhantomEvent ==
  \A e \in Requests : topic[e] + inflight[e] > 0 => e \in transactions

\* A duplicate on the topic has an excuse: a crash, a failed mark, or a
\* publish whose outcome was not known.  A single relay alone never
\* publishes an event twice.
DuplicatesExcused ==
  \A e \in Requests : topic[e] + inflight[e] <= 1 + excused[e]

\* The relay drains the outbox: every committed event ends up published.
OutboxDrains ==
  \A e \in Requests : outbox[e] = "pending" ~> outbox[e] = "published"

\* No request waits forever, not even behind the lock of another request
\* with the same key or across the death of its task.
EveryRequestAnswered ==
  \A r \in Requests : request[r] \in Open ~> request[r] \in Answered

\* The service implements the feed it promises.
Feed == INSTANCE PaymentFeed WITH
  Payments <- Requests, accepted <- transactions, delivered <- topic
FeedSpec == Feed!Spec
=============================================================================
