----------------------------- MODULE Processor -----------------------------
(***************************************************************************)
(* payment-processor: a consumer group member.  Each assigned partition of *)
(* payments.created has a ConsumeClaim goroutine that hands one message at *)
(* a time to the shared worker pool (module WorkerPool) and marks it when  *)
(* its task returns nil; the task publishes the outcome to                 *)
(* payments.processed, or to payments.dlq.                                 *)
(*                                                                         *)
(* A session is one generation of the group: it ends with a rebalance, a   *)
(* SIGTERM or a crash, and the next one starts at the committed offsets,   *)
(* in this process or another.  Kafka and sarama are external.             *)
(***************************************************************************)
EXTENDS Naturals, Sequences, FiniteSets

CONSTANTS
  Partitions,    \* the partitions assigned to the member
  Length,        \* messages in each partition, at offsets 0 .. Length - 1
  Kind,          \* "valid", "invalid" or "malformed" for each message
  Workers, QueueSize, None,   \* of the pool
  MaxAttempts,   \* PAYMENT_MAX_RETRIES + 1
  MaxSessions,   \* bound on the sessions
  MaxFaults      \* bound on crashes, timeouts, failed and repeated sends

Offsets == 0 .. Length - 1
Messages == Partitions \X Offsets
Topics == {"processed", "dlq"}

\* A message as a session delivers it; each is one call of Execute.
Deliveries == [part : Partitions, off : Offsets, sess : 1 .. MaxSessions]

ASSUME ProcessorAssumption ==
  /\ Length \in Nat
  /\ Kind \in [Messages -> {"valid", "invalid", "malformed"}]
  /\ Workers # {} /\ IsFiniteSet(Workers)
  /\ QueueSize \in Nat \ {0}
  /\ None \notin Deliveries
  /\ MaxAttempts \in Nat \ {0}
  /\ MaxSessions \in Nat \ {0}
  /\ MaxFaults \in Nat

VARIABLES
  call, expired, jobs, worker, exited, result, runs, shutdown,  \* of the pool
  task,        \* where each worker is in process
  mode,        \* what the process is doing
  session,     \* the current session
  claim,       \* where each partition's ConsumeClaim is
  next,        \* the next offset of claim.Messages()
  marked,      \* the offset the session would commit
  committed,   \* the offset the broker has
  topic,       \* copies of each message's outcome on the output topics
  inflight,    \* SendMessage calls nobody waits for any more
  excused,     \* publishes of each message's outcome given up half-way or sent again
  acked,       \* messages MarkMessage was called for
  gaveUp,      \* messages logged as "not marked; will be redelivered"
  faults       \* faults so far

poolVars == <<call, expired, jobs, worker, exited, result, runs, shutdown>>
taskVars == <<task, topic, inflight, excused>>
groupVars == <<mode, session, claim, next, marked, committed>>
historyVars == <<acked, gaveUp>>

Pool == INSTANCE WorkerPool WITH Calls <- Deliveries

vars == <<poolVars, taskVars, groupVars, historyVars, faults>>

-----------------------------------------------------------------------------
(* Derived state.                                                          *)

Message(d) == <<d.part, d.off>>

\* The delivery partition p's ConsumeClaim is handling.
Current(p) == [part |-> p, off |-> next[p] - 1, sess |-> session]

InSession(s) == {d \in Deliveries : d.sess = s}

\* The ctx of process is done: ProcessingTimeout has passed or the session
\* is over.
Late(w) == task[w].late \/ worker[w] \in expired

Fault == faults < MaxFaults /\ faults' = faults + 1

FaultOrLate(w) == IF Late(w) THEN UNCHANGED faults ELSE Fault

NoTask == [pc |-> "none", attempt |-> 0, late |-> FALSE, verdict |-> "nil"]

TypeOK ==
  /\ Pool!TypeOK
  /\ task \in [Workers ->
       [pc : {"none", "decode", "attempt", "publish", "deadletter", "return"},
        attempt : 0 .. MaxAttempts, late : BOOLEAN, verdict : Pool!Verdicts]]
  /\ \A w \in Workers : task[w].pc = "none" <=> worker[w] = None
  /\ mode \in {"consuming", "rebalancing", "stopping", "draining", "down"}
  /\ session \in 1 .. MaxSessions
  /\ claim \in [Partitions -> {"loop", "handling", "returned"}]
  /\ next \in [Partitions -> 0 .. Length]
  /\ marked \in [Partitions -> 0 .. Length]
  /\ committed \in [Partitions -> 0 .. Length]
  /\ topic \in [Topics -> [Messages -> Nat]]
  /\ inflight \in [Topics -> [Messages -> Nat]]
  /\ excused \in [Messages -> Nat]
  /\ acked \subseteq Messages
  /\ gaveUp \subseteq Messages
  /\ faults \in 0 .. MaxFaults

Init ==
  /\ Pool!Init
  /\ task = [w \in Workers |-> NoTask]
  /\ mode = "consuming"
  /\ session = 1
  /\ claim = [p \in Partitions |-> "loop"]
  /\ next = [p \in Partitions |-> 0]
  /\ marked = [p \in Partitions |-> 0]
  /\ committed = [p \in Partitions |-> 0]
  /\ topic = [t \in Topics |-> [m \in Messages |-> 0]]
  /\ inflight = [t \in Topics |-> [m \in Messages |-> 0]]
  /\ excused = [m \in Messages |-> 0]
  /\ acked = {}
  /\ gaveUp = {}
  /\ faults = 0

-----------------------------------------------------------------------------
(* ConsumeClaim and handleMessage, one goroutine for each partition.       *)

\* Mutant: a message is marked when it is taken, before its task ran.
FetchAndMark(p) ==
  /\ mode \in {"consuming", "rebalancing", "stopping"}
  /\ claim[p] = "loop"
  /\ next[p] < Length
  /\ Pool!Enter([part |-> p, off |-> next[p], sess |-> session])
  /\ claim' = [claim EXCEPT ![p] = "handling"]
  /\ next' = [next EXCEPT ![p] = @ + 1]
  /\ marked' = [marked EXCEPT ![p] = next[p] + 1]
  /\ UNCHANGED <<taskVars, mode, session, committed, historyVars, faults>>

\* A message is taken from claim.Messages() and Execute entered.  The select
\* may prefer the message to a session context that is done.
Fetch(p) ==
  /\ mode \in {"consuming", "rebalancing", "stopping"}
  /\ claim[p] = "loop"
  /\ next[p] < Length
  /\ Pool!Enter([part |-> p, off |-> next[p], sess |-> session])
  /\ claim' = [claim EXCEPT ![p] = "handling"]
  /\ next' = [next EXCEPT ![p] = @ + 1]
  /\ UNCHANGED <<taskVars, mode, session, marked, committed, historyVars, faults>>

\* Mutant: the claim does not wait for the job it has submitted.
SubmitAndGoOn(p) ==
  /\ claim[p] = "handling"
  /\ Pool!Submit(Current(p))
  /\ claim' = [claim EXCEPT ![p] = "loop"]
  /\ UNCHANGED <<taskVars, mode, session, next, marked, committed, historyVars, faults>>

Submit(p) ==
  /\ claim[p] = "handling"
  /\ Pool!Submit(Current(p))
  /\ UNCHANGED <<taskVars, groupVars, historyVars, faults>>

\* The loop goes on to the next message whatever became of this one.
BackToLoop(p) ==
  /\ claim' = [claim EXCEPT ![p] = "loop"]
  /\ UNCHANGED <<taskVars, mode, session, next, committed, faults>>

\* Mutant: the error of the task is not looked at.
MarkWhateverResult(p) ==
  /\ claim[p] = "handling"
  /\ Pool!Receive(Current(p))
  /\ marked' = [marked EXCEPT ![p] = IF @ < next[p] THEN next[p] ELSE @]
  /\ acked' = acked \union {Message(Current(p))}
  /\ BackToLoop(p)
  /\ UNCHANGED gaveUp

\* The task returned nil: MarkMessage.  sarama never moves a mark back.
MarkMessage(p) ==
  /\ claim[p] = "handling"
  /\ Pool!Receive(Current(p))
  /\ result[Current(p)] = "nil"
  /\ marked' = [marked EXCEPT ![p] = IF @ < next[p] THEN next[p] ELSE @]
  /\ acked' = acked \union {Message(Current(p))}
  /\ BackToLoop(p)
  /\ UNCHANGED gaveUp

\* Execute returned an error, the task's or its own: "message not marked;
\* will be redelivered".
NotMarked(p) ==
  /\ claim[p] = "handling"
  /\ \/ Pool!Receive(Current(p)) /\ result[Current(p)] = "error"
     \/ Pool!GiveUp(Current(p))
  /\ gaveUp' = gaveUp \union {Message(Current(p))}
  /\ BackToLoop(p)
  /\ UNCHANGED <<marked, acked>>

\* Mutant: the loop watches the context of the process, not its session's.
ReturnOnSignalOnly(p) ==
  /\ mode = "stopping"
  /\ claim[p] = "loop"
  /\ claim' = [claim EXCEPT ![p] = "returned"]
  /\ UNCHANGED <<poolVars, taskVars, mode, session, next, marked, committed,
                 historyVars, faults>>

\* session.Context().Done(), or the closed message channel.
ReturnClaim(p) ==
  /\ mode \in {"rebalancing", "stopping"}
  /\ claim[p] = "loop"
  /\ claim' = [claim EXCEPT ![p] = "returned"]
  /\ UNCHANGED <<poolVars, taskVars, mode, session, next, marked, committed,
                 historyVars, faults>>

-----------------------------------------------------------------------------
(* process, deadLetter and Retry, on a worker.                             *)

\* Only DefaultProcessor's ctx error is wrapped as Retryable; what Publish
\* returns is a plain error, and a plain error is not retryable.
IsRetryable(err) == err = "ctx"

\* Where Retry may go after a failed attempt: to another one, or to the DLQ.
\* In the select over the backoff's timer and ctx.Done() the ctx can win only
\* when it is done; the shortest backoff lets the timer win as well.
AfterFailure(w, err) ==
  LET again == [task[w] EXCEPT !.pc = "attempt", !.attempt = @ + 1]
      stop == [task[w] EXCEPT !.pc = "deadletter"]
      more == IsRetryable(err) /\ task[w].attempt < MaxAttempts
  IN  IF ~more THEN {stop} ELSE IF Late(w) THEN {again, stop} ELSE {again}

\* The task goes on to one of the states T.
Step(w, T) ==
  /\ \E t \in T : task' = [task EXCEPT ![w] = t]
  /\ UNCHANGED <<poolVars, groupVars, historyVars>>

Take(w) ==
  /\ Pool!Take(w)
  /\ task' = [task EXCEPT ![w] = [NoTask EXCEPT !.pc = "decode", !.attempt = 1]]
  /\ UNCHANGED <<topic, inflight, excused, groupVars, historyVars, faults>>

\* ProcessingTimeout passes.
Timeout(w) ==
  /\ worker[w] # None /\ ~task[w].late
  /\ Fault
  /\ Step(w, {[task[w] EXCEPT !.late = TRUE]})
  /\ UNCHANGED <<topic, inflight, excused>>

KindOf(w) == Kind[Message(worker[w])]

Decode(w) ==
  /\ task[w].pc = "decode"
  /\ Step(w, {[task[w] EXCEPT !.pc =
                IF KindOf(w) = "malformed" THEN "deadletter" ELSE "attempt"]})
  /\ UNCHANGED <<topic, inflight, excused, faults>>

\* DefaultProcessor.Process: ctx first, then the event's own data.
Attempt(w) ==
  /\ task[w].pc = "attempt"
  /\ Step(w, IF Late(w) THEN AfterFailure(w, "ctx")
             ELSE IF KindOf(w) = "invalid" THEN AfterFailure(w, "invalid")
             ELSE {[task[w] EXCEPT !.pc = "publish"]})
  /\ UNCHANGED <<topic, inflight, excused, faults>>

\* The topic a worker is publishing to.
Target(w) == IF task[w].pc = "publish" THEN "processed" ELSE "dlq"

Publishing(w) == task[w].pc \in {"publish", "deadletter"}

Finished(w, verdict) == [task[w] EXCEPT !.pc = "return", !.verdict = verdict]

\* A failed DLQ publish is the one error process returns.
AfterPublishError(w) ==
  IF task[w].pc = "publish" THEN AfterFailure(w, "publish")
                            ELSE {Finished(w, "error")}

\* Mutant: a missing return, so that a success goes on to the DLQ.
PublishedFallsThrough(w) ==
  /\ Publishing(w)
  /\ topic' = [topic EXCEPT ![Target(w)][Message(worker[w])] = @ + 1]
  /\ Step(w, IF task[w].pc = "publish"
               THEN {[task[w] EXCEPT !.pc = "deadletter"]}
               ELSE {Finished(w, "nil")})
  /\ UNCHANGED <<inflight, excused, faults>>

\* Publish returns nil.
Published(w) ==
  /\ Publishing(w)
  /\ topic' = [topic EXCEPT ![Target(w)][Message(worker[w])] = @ + 1]
  /\ Step(w, {Finished(w, "nil")})
  /\ UNCHANGED <<inflight, excused, faults>>

\* Publish returns an error and nothing was stored.
PublishFails(w) ==
  /\ Publishing(w)
  /\ FaultOrLate(w)
  /\ Step(w, AfterPublishError(w))
  /\ UNCHANGED <<topic, inflight, excused>>

\* Publish returns an error, and SendMessage, left behind in its goroutine or
\* given up by sarama, may still reach the broker.
PublishAbandoned(w) ==
  /\ Publishing(w)
  /\ FaultOrLate(w)
  /\ inflight' = [inflight EXCEPT ![Target(w)][Message(worker[w])] = @ + 1]
  /\ excused' = [excused EXCEPT ![Message(worker[w])] = @ + 1]
  /\ Step(w, AfterPublishError(w))
  /\ UNCHANGED topic

\* Mutant: the task stays on after its worker has gone on.
ReturnKeepsTask(w) ==
  /\ task[w].pc = "return"
  /\ Pool!Finish(w, task[w].verdict)
  /\ UNCHANGED <<task, topic, inflight, excused, groupVars, historyVars, faults>>

\* The task returns to its worker.
Return(w) ==
  /\ task[w].pc = "return"
  /\ Pool!Finish(w, task[w].verdict)
  /\ task' = [task EXCEPT ![w] = NoTask]
  /\ UNCHANGED <<topic, inflight, excused, groupVars, historyVars, faults>>

\* Retry.Max without idempotence: the broker stored the outcome and sarama,
\* missing the acknowledgement, sends it again within the same SendMessage,
\* whether a worker waits for it or not.
ProducerRetry(t, m) ==
  /\ mode # "down"
  /\ \/ \E w \in Workers : Publishing(w) /\ Target(w) = t /\ Message(worker[w]) = m
     \/ inflight[t][m] > 0
  /\ Fault
  /\ topic' = [topic EXCEPT ![t][m] = @ + 1]
  /\ excused' = [excused EXCEPT ![m] = @ + 1]
  /\ UNCHANGED <<poolVars, task, inflight, groupVars, historyVars>>

\* A SendMessage nobody waits for is stored, or is not.
Land(t, m) ==
  /\ inflight[t][m] > 0
  /\ inflight' = [inflight EXCEPT ![t][m] = @ - 1]
  /\ topic' = [topic EXCEPT ![t][m] = @ + 1]
  /\ UNCHANGED <<poolVars, task, excused, groupVars, historyVars, faults>>

Drop(t, m) ==
  /\ inflight[t][m] > 0
  /\ inflight' = [inflight EXCEPT ![t][m] = @ - 1]
  /\ UNCHANGED <<poolVars, task, topic, excused, groupVars, historyVars, faults>>

-----------------------------------------------------------------------------
(* Sessions: RunConsumerGroup and sarama.                                  *)

\* Mutant: main shuts the pool down before consuming has stopped.
EndSessionAndPool(newMode) ==
  /\ mode = "consuming"
  /\ session < MaxSessions
  /\ mode' = newMode
  /\ expired' = expired \union InSession(session)
  /\ shutdown' = IF newMode = "stopping" THEN "closed" ELSE shutdown
  /\ UNCHANGED <<call, jobs, worker, exited, result, runs, taskVars, session,
                 claim, next, marked, committed, historyVars, faults>>

\* The context of every delivery of the session is done.
EndSession(newMode) ==
  /\ mode = "consuming"
  /\ session < MaxSessions
  /\ mode' = newMode
  /\ Pool!Expire(InSession(session))
  /\ UNCHANGED <<taskVars, session, claim, next, marked, committed, historyVars, faults>>

Rebalance == EndSession("rebalancing")

\* SIGTERM cancels consumeCtx, and the session's context with it.
Terminate == EndSession("stopping")

AutoCommit ==
  /\ mode # "down"
  /\ committed # marked
  /\ committed' = marked
  /\ UNCHANGED <<poolVars, taskVars, mode, session, claim, next, marked,
                 historyVars, faults>>

AllReturned == \A p \in Partitions : claim[p] = "returned"

\* Consume returns once every claim has, flushing the marks, and the for
\* loop joins the next generation.
NewSession ==
  /\ mode = "rebalancing" /\ AllReturned
  /\ committed' = marked
  /\ next' = marked
  /\ session' = session + 1
  /\ claim' = [p \in Partitions |-> "loop"]
  /\ mode' = "consuming"
  /\ UNCHANGED <<poolVars, taskVars, marked, historyVars, faults>>

\* main: consuming has stopped, so the pool is shut down.
Drain ==
  /\ mode = "stopping" /\ AllReturned
  /\ committed' = marked
  /\ mode' = "draining"
  /\ Pool!BeginShutdown
  /\ UNCHANGED <<taskVars, session, claim, next, marked, historyVars, faults>>

\* The pool's own steps of Shutdown, and its workers' exits.
ShutdownStep ==
  /\ Pool!CloseJobs \/ Pool!EndShutdown \/ \E w \in Workers : Pool!WorkerExit(w)
  /\ UNCHANGED <<taskVars, groupVars, historyVars, faults>>

\* The process is gone, its marks, its pool and the callers of Execute with
\* it; what its workers were sending may still arrive.
Die ==
  /\ mode' = "down"
  /\ call' = [d \in Deliveries |->
                IF call[d] \in {"submit", "wait"} THEN "ctx" ELSE call[d]]
  /\ marked' = committed
  /\ jobs' = << >>
  /\ worker' = [w \in Workers |-> None]
  /\ exited' = {}
  /\ shutdown' = "open"
  /\ task' = [w \in Workers |-> NoTask]
  /\ inflight' = [t \in Topics |-> [m \in Messages |-> inflight[t][m] +
       Cardinality({w \in Workers : /\ Publishing(w) /\ Target(w) = t
                                    /\ Message(worker[w]) = m})]]
  /\ UNCHANGED <<expired, result, runs, session, claim, next, committed,
                 topic, excused, historyVars>>

\* pool.Shutdown returned and main ends.
Exit ==
  /\ mode = "draining" /\ shutdown = "returned"
  /\ Die
  /\ UNCHANGED faults

\* A crash, or main's shutdownTimeout passing before the pool is drained.
Crash ==
  /\ mode # "down"
  /\ session < MaxSessions
  /\ Fault
  /\ Die

\* Mutant: the group starts at the newest offset, not at the committed one.
RestartAtNewest ==
  /\ mode = "down"
  /\ mode' = "consuming"
  /\ session' = session + 1
  /\ next' = [p \in Partitions |-> Length]
  /\ claim' = [p \in Partitions |-> "loop"]
  /\ UNCHANGED <<poolVars, taskVars, marked, committed, historyVars, faults>>

\* The task is started again, or another member takes the partitions over.
Restart ==
  /\ mode = "down"
  /\ mode' = "consuming"
  /\ session' = session + 1
  /\ next' = committed
  /\ claim' = [p \in Partitions |-> "loop"]
  /\ UNCHANGED <<poolVars, taskVars, marked, committed, historyVars, faults>>

-----------------------------------------------------------------------------
ClaimStep(p) ==
  \/ Fetch(p) \/ Submit(p) \/ MarkMessage(p) \/ NotMarked(p) \/ ReturnClaim(p)

TaskStep(w) ==
  \/ Take(w) \/ Decode(w) \/ Attempt(w) \/ Return(w)
  \/ Published(w) \/ PublishFails(w) \/ PublishAbandoned(w)

GroupStep == NewSession \/ Drain \/ ShutdownStep \/ Exit \/ Restart

Next ==
  \/ \E p \in Partitions : ClaimStep(p)
  \/ \E w \in Workers : TaskStep(w) \/ Timeout(w)
  \/ \E t \in Topics, m \in Messages : Land(t, m) \/ Drop(t, m) \/ ProducerRetry(t, m)
  \/ GroupStep \/ AutoCommit
  \/ Rebalance \/ Terminate \/ Crash

(***************************************************************************)
(* Goroutines that can run do; sarama starts the next session and the      *)
(* orchestrator the next process.  Rebalances, signals, crashes, timeouts, *)
(* failed and repeated sends are the environment's, a bounded number.      *)
(***************************************************************************)
Fairness ==
  /\ \A p \in Partitions : WF_vars(ClaimStep(p))
  /\ \A w \in Workers : WF_vars(TaskStep(w))
  /\ WF_vars(GroupStep)

Spec == Init /\ [][Next]_vars /\ Fairness

-----------------------------------------------------------------------------
(* Properties.                                                             *)

HasOutcome(m) == topic["processed"][m] + topic["dlq"][m] > 0

\* MarkMessage is called only for a message whose outcome is on one of the
\* output topics.
MarkedHasOutcome == \A m \in acked : HasOutcome(m)

\* "Never more than one in-flight job per partition": while the session is
\* live, the pool holds one job of each partition for it.  (Jobs of ended
\* sessions may still be there.)
OneJobPerPartition ==
  mode = "consuming" =>
    \A d, e \in InSession(session) :
      /\ d.part = e.part
      /\ Pool!Queued(d) \/ Pool!Running(d)
      /\ Pool!Queued(e) \/ Pool!Running(e)
      => d = e

\* main stops consuming before it shuts the pool down, so that no message
\* ever meets ErrPoolClosed.
NeverRejected == \A d \in Deliveries : call[d] # "closed"

\* A run of process records one outcome: every other copy is of a publish it
\* had given up on, or one sarama sent again for want of an acknowledgement.
OneOutcomePerRun ==
  \A m \in Messages :
    topic["processed"][m] + topic["dlq"][m]
      + inflight["processed"][m] + inflight["dlq"][m]
    <= Cardinality({d \in Deliveries : Message(d) = m /\ runs[d] > 0})
         + excused[m]

\* A message the group has committed past without an outcome was logged as
\* "not marked; will be redelivered": that branch is the only way to lose it.
LossIsLogged ==
  \A p \in Partitions : \A n \in 0 .. committed[p] - 1 :
    HasOutcome(<<p, n>>) \/ <<p, n>> \in gaveUp

\* The service keeps ConsumerFeed's promise to analytics-service, whatever
\* crashes, rebalances and timeouts come in between: it commits past a message
\* only when an outcome of it is on a topic or it was logged as "not marked;
\* will be redelivered", that branch being the only way to lose one; its commits
\* never go back; and every message is settled in the end.
Contract == INSTANCE ConsumerFeed WITH
  recorded <- [m \in Messages |-> topic["processed"][m] + topic["dlq"][m]],
  givenUp <- gaveUp
ContractSpec == Contract!Spec

\* A session that is over lets go of its claims: ConsumeClaim does not wait
\* for a task that still runs.
SessionEnds == mode \in {"rebalancing", "stopping"} ~> AllReturned \/ mode = "down"

\* "A later message can't be marked complete while an earlier one from the
\* same partition is still failed": the group never commits past a message
\* that has no outcome.
NoLostMessage ==
  \A p \in Partitions : \A n \in 0 .. committed[p] - 1 : HasOutcome(<<p, n>>)
=============================================================================
