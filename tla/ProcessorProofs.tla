-------------------------- MODULE ProcessorProofs --------------------------
(***************************************************************************)
(* The safety of payment-processor's consumer, for any partitions, any     *)
(* contents, any number of workers, attempts, sessions and faults; and     *)
(* that it keeps ConsumerFeed's promise.                                   *)
(*                                                                         *)
(* The consumer shares its pool with jobs of sessions that are over, and a *)
(* crash takes the pool away, so nothing here is inductive without the     *)
(* pool's own invariant (module WorkerPoolProofs) and without knowing      *)
(* which deliveries can be in the pool at all.                             *)
(***************************************************************************)
EXTENDS Processor, FiniteSetTheorems, TLAPS

PoolProofs == INSTANCE WorkerPoolProofs WITH Calls <- Deliveries

-----------------------------------------------------------------------------
(* The inductive invariant.                                                *)

\* A session after this one can start when this one is over; a claim that
\* handles a message has received it.
SessionInv ==
  /\ mode # "consuming" => session < MaxSessions
  /\ \A p \in Partitions : claim[p] = "handling" => next[p] >= 1

\* The pool is open until the last claim has returned: no call is rejected.
OpenInv ==
  /\ shutdown # "open" => mode = "draining"
  /\ NeverRejected

\* Deliveries of sessions to come are not in the pool, and while the session
\* is live its contexts are.
ExpiryInv ==
  /\ \A d \in Deliveries : call[d] # "idle" => d.sess <= session
  /\ \A d \in expired : d.sess <= session /\ (mode = "consuming" => d.sess < session)

\* While the session is live, what the pool holds of it is what its claims
\* wait for.
JobInv ==
  mode = "consuming" =>
    \A d \in InSession(session) :
      Pool!Queued(d) \/ Pool!Running(d) =>
        claim[d.part] = "handling" /\ d.off = next[d.part] - 1

\* A nil, from the task to the mark, means an outcome on a topic.
OutcomeInv ==
  /\ \A w \in Workers :
       task[w].pc = "return" /\ task[w].verdict = "nil" => HasOutcome(Message(worker[w]))
  /\ \A d \in Deliveries : result[d] = "nil" => HasOutcome(Message(d))
  /\ MarkedHasOutcome

\* The runs of a message's tasks, and the workers whose task has yet to record
\* its outcome.
RunsOf(m) == {d \in Deliveries : Message(d) = m /\ runs[d] > 0}
Recording(m) ==
  {w \in Workers : /\ task[w].pc \in {"decode", "attempt", "publish", "deadletter"}
                   /\ Message(worker[w]) = m}

CountInv ==
  \A m \in Messages :
    topic["processed"][m] + topic["dlq"][m]
      + inflight["processed"][m] + inflight["dlq"][m]
      + Cardinality(Recording(m))
    <= Cardinality(RunsOf(m)) + excused[m]

\* Message n of partition p has an outcome, or was logged as not marked.
Done(p, n) == HasOutcome(<<p, n>>) \/ <<p, n>> \in gaveUp

\* No message is passed over: those received are done, but for the one the
\* claim waits for, and so are those the mark has passed.
OffsetInv ==
  \A p \in Partitions :
    /\ committed[p] <= marked[p]
    /\ \A n \in 0 .. next[p] - 1 : (claim[p] = "handling" /\ n = next[p] - 1) \/ Done(p, n)
    /\ \A n \in 0 .. marked[p] - 1 : Done(p, n)

ProcessorInv ==
  /\ TypeOK
  /\ PoolProofs!PoolInv
  /\ SessionInv
  /\ OpenInv
  /\ ExpiryInv
  /\ JobInv
  /\ OutcomeInv
  /\ CountInv
  /\ OffsetInv

-----------------------------------------------------------------------------
(* The pool.                                                               *)

\* The step of the pool in a step of the consumer keeps the pool's invariant.
LEMMA PoolStep ==
  ASSUME PoolProofs!PoolInv, Pool!Next \/ UNCHANGED poolVars
  PROVE  PoolProofs!PoolInv'
<1>1. Pool!Next => PoolProofs!Next
  BY DEF Pool!Next, PoolProofs!Next, Pool!Enter, PoolProofs!Enter, Pool!CallStep, PoolProofs!CallStep,
    Pool!Submit, PoolProofs!Submit, Pool!GiveUp, PoolProofs!GiveUp, Pool!Receive, PoolProofs!Receive,
    Pool!Expire, PoolProofs!Expire, Pool!WorkerStep, PoolProofs!WorkerStep, Pool!Take, PoolProofs!Take,
    Pool!Finish, PoolProofs!Finish, Pool!WorkerExit, PoolProofs!WorkerExit, Pool!Verdicts, PoolProofs!Verdicts,
    Pool!BeginShutdown, PoolProofs!BeginShutdown, Pool!CloseJobs, PoolProofs!CloseJobs,
    Pool!EndShutdown, PoolProofs!EndShutdown, Pool!Closed, PoolProofs!Closed
<1>2. UNCHANGED poolVars => UNCHANGED PoolProofs!poolVars
  BY DEF poolVars, PoolProofs!poolVars
<1>3. [PoolProofs!Next]_(PoolProofs!poolVars)
  BY <1>1, <1>2
<1>4. PoolProofs!PoolInv /\ [PoolProofs!Next]_(PoolProofs!poolVars) => PoolProofs!PoolInv'
  <2>1. PoolProofs!PoolAssumption
    BY ProcessorAssumption DEF PoolProofs!PoolAssumption
  <2>2. QED
    BY <2>1, PoolProofs!NextPoolInv
<1>5. QED
  BY <1>3, <1>4

\* What the pool's invariant says of the deliveries.
LEMMA PoolFacts ==
  ASSUME PoolProofs!PoolInv
  PROVE  /\ Pool!TypeOK
         /\ \A d \in Deliveries : Pool!Queued(d) => runs[d] = 0 /\ result[d] = "none"
         /\ \A d \in Deliveries : Pool!Running(d) => runs[d] = 1 /\ result[d] = "none"
         /\ \A d \in Deliveries : call[d] \in {"idle", "submit", "closed"} =>
              runs[d] = 0 /\ ~Pool!Queued(d) /\ ~Pool!Running(d)
         /\ \A v, w \in Workers : worker[v] = worker[w] /\ worker[v] # None => v = w
<1> USE DEF PoolProofs!PoolInv
<1>1. Pool!TypeOK
  BY DEF PoolProofs!TypeOK, Pool!TypeOK, PoolProofs!Returned, Pool!Returned,
         PoolProofs!Verdicts, Pool!Verdicts
<1>2. \A d \in Deliveries : Pool!Queued(d) => runs[d] = 0 /\ result[d] = "none"
  BY DEF PoolProofs!QueuedFresh, Pool!Queued
<1>3. \A d \in Deliveries : Pool!Running(d) => runs[d] = 1 /\ result[d] = "none"
  BY ProcessorAssumption DEF PoolProofs!RunningOnce, Pool!Running
<1>4. \A d \in Deliveries : call[d] \in {"idle", "submit", "closed"} => runs[d] = 0 /\ ~Pool!Queued(d)
  BY DEF PoolProofs!CallAndTask, PoolProofs!Queued, Pool!Queued
<1>5. \A v, w \in Workers : worker[v] = worker[w] /\ worker[v] # None => v = w
  BY DEF PoolProofs!RunningOnce
<1>6. QED
  BY <1>1, <1>2, <1>3, <1>4, <1>5

-----------------------------------------------------------------------------
(* Claims and tasks.                                                       *)

\* The delivery a claim handles.
LEMMA CurrentType ==
  ASSUME TypeOK, SessionInv, NEW p \in Partitions, claim[p] = "handling"
  PROVE  /\ next[p] \in Nat \ {0} /\ next[p] - 1 \in Offsets
         /\ Current(p) \in Deliveries
         /\ Message(Current(p)) = <<p, next[p] - 1>>
         /\ Message(Current(p)) \in Messages
<1>1. next[p] \in 0 .. Length /\ next[p] >= 1 /\ Length \in Nat /\ session \in 1 .. MaxSessions
  BY ProcessorAssumption DEF TypeOK, SessionInv
<1>2. next[p] - 1 \in Offsets /\ next[p] \in Nat \ {0}
  BY <1>1 DEF Offsets
<1>3. Current(p) \in Deliveries
  BY <1>1, <1>2 DEF Current, Deliveries
<1>4. Message(Current(p)) = <<p, next[p] - 1>>
  BY DEF Message, Current
<1>5. QED
  BY <1>2, <1>3, <1>4 DEF Messages

\* The message a worker's task is about.
LEMMA WorkerType ==
  ASSUME TypeOK, NEW w \in Workers, task[w].pc # "none"
  PROVE  worker[w] \in Deliveries /\ Message(worker[w]) \in Messages
<1>1. worker[w] \in Deliveries
  BY DEF TypeOK, Pool!TypeOK
<1>2. QED
  BY <1>1 DEF Deliveries, Message, Messages

TaskStates ==
  [pc : {"none", "decode", "attempt", "publish", "deadletter", "return"},
   attempt : 0 .. MaxAttempts, late : BOOLEAN, verdict : Pool!Verdicts]

\* Where a task has yet to record its outcome.
Busy == {"decode", "attempt", "publish", "deadletter"}

\* Retry goes to another attempt, within MaxAttempts, or to the dead letters.
LEMMA AfterFailureType ==
  ASSUME TypeOK, NEW w \in Workers, task[w].pc # "none", NEW err, NEW t \in AfterFailure(w, err)
  PROVE  t \in TaskStates /\ t.pc \in {"attempt", "deadletter"}
<1>1. /\ task[w] \in TaskStates
      /\ task[w].attempt \in 0 .. MaxAttempts
      /\ MaxAttempts \in Nat
  BY ProcessorAssumption DEF TypeOK, TaskStates
<1> DEFINE again == [task[w] EXCEPT !.pc = "attempt", !.attempt = @ + 1]
           stop == [task[w] EXCEPT !.pc = "deadletter"]
<1>2. t = stop \/ (t = again /\ task[w].attempt < MaxAttempts)
  BY DEF AfterFailure
<1>3. stop \in TaskStates /\ stop.pc = "deadletter"
  BY <1>1 DEF TaskStates
<1>4. ASSUME task[w].attempt < MaxAttempts
      PROVE  again \in TaskStates /\ again.pc = "attempt"
  <2>1. task[w].attempt + 1 \in 0 .. MaxAttempts
    BY <1>1, <1>4
  <2>2. QED
    BY <1>1, <2>1 DEF TaskStates
<1>5. QED
  BY <1>2, <1>3, <1>4

\* A fault, or none, keeps the count in its bound.
LEMMA FaultsType ==
  ASSUME TypeOK, faults' = faults \/ Fault
  PROVE  faults' \in 0 .. MaxFaults
BY ProcessorAssumption DEF TypeOK, Fault

\* A task's own steps: what becomes of it, and that it returns nil only from a
\* publish that succeeded.
LEMMA TaskGoesOn ==
  ASSUME TypeOK, NEW w \in Workers,
         \/ Timeout(w) \/ Decode(w) \/ Attempt(w)
         \/ Published(w) \/ PublishFails(w) \/ PublishAbandoned(w)
  PROVE  /\ \E t \in TaskStates :
              /\ task' = [task EXCEPT ![w] = t]
              /\ task[w].pc # "none" /\ t.pc # "none"
              /\ \/ t.pc = task[w].pc /\ t.verdict = task[w].verdict /\ Timeout(w)
                 \/ task[w].pc \in Busy /\ t.pc \in Busy /\ ~Published(w)
                 \/ task[w].pc \in Busy /\ t.pc = "return" /\ t.verdict = "error" /\ ~Published(w)
                 \/ task[w].pc \in Busy /\ t.pc = "return" /\ t.verdict = "nil" /\ Published(w)
         /\ UNCHANGED <<poolVars, groupVars, historyVars>>
         /\ faults' \in 0 .. MaxFaults
<1>0. UNCHANGED <<poolVars, groupVars, historyVars>> /\ faults' \in 0 .. MaxFaults
  <2>1. faults' = faults \/ Fault
    BY DEF Timeout, Decode, Attempt, Published, PublishFails, PublishAbandoned, FaultOrLate
  <2>2. QED
    BY <2>1, FaultsType DEF Timeout, Decode, Attempt, Published, PublishFails, PublishAbandoned, Step
<1>1. task[w] \in TaskStates /\ \A v \in Pool!Verdicts : Finished(w, v) \in TaskStates
      /\ Finished(w, v).pc = "return" /\ Finished(w, v).verdict = v
  BY DEF TypeOK, TaskStates, Finished
<1>2. CASE Timeout(w)
  <2> DEFINE t == [task[w] EXCEPT !.late = TRUE]
  <2>1. task' = [task EXCEPT ![w] = t] /\ worker[w] # None
    BY <1>2 DEF Timeout, Step
  <2>2. t \in TaskStates /\ t.pc = task[w].pc /\ t.verdict = task[w].verdict
    BY <1>1 DEF TaskStates
  <2>3. task[w].pc # "none"
    BY <2>1 DEF TypeOK
  <2>4. QED
    BY <1>0, <1>2, <2>1, <2>2, <2>3
<1>3. CASE Decode(w)
  <2> DEFINE t == [task[w] EXCEPT !.pc = IF KindOf(w) = "malformed" THEN "deadletter" ELSE "attempt"]
  <2>1. task' = [task EXCEPT ![w] = t] /\ task[w].pc = "decode"
    BY <1>3 DEF Decode, Step
  <2>2. t \in TaskStates /\ t.pc \in {"deadletter", "attempt"}
    BY <1>1 DEF TaskStates
  <2>3. ~Published(w)
    BY <2>1 DEF Published, Publishing
  <2>4. QED
    BY <1>0, <2>1, <2>2, <2>3 DEF Busy
<1>4. CASE Attempt(w)
  <2> DEFINE go == [task[w] EXCEPT !.pc = "publish"]
  <2>1. /\ task[w].pc = "attempt"
        /\ \E t \in AfterFailure(w, "ctx") \union AfterFailure(w, "invalid") \union {go} :
             task' = [task EXCEPT ![w] = t]
    BY <1>4 DEF Attempt, Step
  <2>2. go \in TaskStates /\ go.pc = "publish"
    BY <1>1 DEF TaskStates
  <2>3. \A t \in AfterFailure(w, "ctx") \union AfterFailure(w, "invalid") :
          t \in TaskStates /\ t.pc \in {"attempt", "deadletter"}
    BY <2>1, AfterFailureType
  <2>4. ~Published(w)
    BY <2>1 DEF Published, Publishing
  <2>5. PICK t \in AfterFailure(w, "ctx") \union AfterFailure(w, "invalid") \union {go} :
             task' = [task EXCEPT ![w] = t]
    BY <2>1
  <2>6. t \in TaskStates /\ t.pc \in {"attempt", "deadletter", "publish"}
    BY <2>2, <2>3, <2>5
  <2>7. QED
    BY <1>0, <2>1, <2>4, <2>5, <2>6 DEF Busy
<1>5. CASE Published(w)
  <2>1. task' = [task EXCEPT ![w] = Finished(w, "nil")] /\ task[w].pc \in {"publish", "deadletter"}
    BY <1>5 DEF Published, Publishing, Step
  <2>2. "nil" \in Pool!Verdicts
    BY DEF Pool!Verdicts
  <2>3. QED
    BY <1>0, <1>1, <1>5, <2>1, <2>2 DEF Busy
<1>6. CASE (PublishFails(w) \/ PublishAbandoned(w)) /\ ~Published(w)
  <2>1. /\ task[w].pc \in {"publish", "deadletter"}
        /\ \E t \in AfterPublishError(w) : task' = [task EXCEPT ![w] = t]
    BY <1>6 DEF PublishFails, PublishAbandoned, Publishing, Step
  <2>2. PICK t \in AfterPublishError(w) : task' = [task EXCEPT ![w] = t]
    BY <2>1
  <2>3. t \in AfterFailure(w, "publish") \/ t = Finished(w, "error")
    BY <2>2 DEF AfterPublishError
  <2>4. "error" \in Pool!Verdicts
    BY DEF Pool!Verdicts
  <2>5. CASE t \in AfterFailure(w, "publish")
    <3>1. t \in TaskStates /\ t.pc \in {"attempt", "deadletter"}
      BY <2>1, <2>5, AfterFailureType
    <3>2. QED
      BY <1>0, <1>6, <2>1, <2>2, <3>1 DEF Busy
  <2>6. CASE t = Finished(w, "error")
    BY <1>0, <1>1, <1>6, <2>1, <2>2, <2>4, <2>6 DEF Busy
  <2>7. QED
    BY <2>3, <2>5, <2>6
<1>7. QED
  BY <1>2, <1>3, <1>4, <1>5, <1>6

\* A task's own steps that are not the worker's: none of them touches the pool.
TaskMove(w) ==
  \/ Timeout(w) \/ Decode(w) \/ Attempt(w)
  \/ Published(w) \/ PublishFails(w) \/ PublishAbandoned(w)

\* The steps, by what they have in common.
LEMMA StepCases ==
  ASSUME [Next]_vars
  PROVE  \/ UNCHANGED vars
         \/ \E p \in Partitions : Fetch(p) \/ Submit(p) \/ MarkMessage(p) \/ NotMarked(p) \/ ReturnClaim(p)
         \/ \E w \in Workers : Take(w) \/ TaskMove(w) \/ Return(w)
         \/ \E t \in Topics, m \in Messages : Land(t, m) \/ Drop(t, m) \/ ProducerRetry(t, m)
         \/ Rebalance \/ Terminate \/ AutoCommit \/ NewSession \/ Drain \/ ShutdownStep
         \/ Exit \/ Crash \/ Restart
BY DEF Next, ClaimStep, TaskStep, TaskMove, GroupStep

-----------------------------------------------------------------------------
(* The pool's invariant is kept, though contexts end many at once and the  *)
(* pool goes with its process.                                             *)

\* Whatever step is taken, of the pool or of the process it lives in.
LEMMA PoolKept ==
  ASSUME ProcessorInv, [Next]_vars
  PROVE  PoolProofs!PoolInv'
<1>0. PoolProofs!PoolInv /\ TypeOK
  BY DEF ProcessorInv
<1>1. CASE UNCHANGED poolVars
  BY <1>0, <1>1, PoolStep
<1>2. ASSUME NEW p \in Partitions, Fetch(p) \/ Submit(p) \/ MarkMessage(p) \/ NotMarked(p)
      PROVE  PoolProofs!PoolInv'
  <2>1. CASE Fetch(p)
    <3>1. \E d \in Deliveries : Pool!Enter(d)
      <4>1. next[p] \in Offsets /\ session \in 1 .. MaxSessions
        BY <1>0, <2>1, ProcessorAssumption DEF Fetch, Offsets, TypeOK
      <4>2. [part |-> p, off |-> next[p], sess |-> session] \in Deliveries
        BY <4>1 DEF Deliveries
      <4>3. QED
        BY <2>1, <4>2 DEF Fetch
    <3>2. QED
      BY <1>0, <3>1, PoolStep DEF Pool!Next
  <2>2. CASE Submit(p) \/ MarkMessage(p) \/ NotMarked(p)
    <3>1. Current(p) \in Deliveries
      BY <1>0, <2>2, CurrentType DEF ProcessorInv, Submit, MarkMessage, NotMarked
    <3>2. Pool!CallStep(Current(p))
      BY <2>2 DEF Submit, MarkMessage, NotMarked, Pool!CallStep
    <3>3. QED
      BY <1>0, <3>1, <3>2, PoolStep DEF Pool!Next
  <2>3. QED
    BY <1>2, <2>1, <2>2
<1>3. ASSUME NEW w \in Workers, Take(w) \/ Return(w)
      PROVE  PoolProofs!PoolInv'
  <2>1. task[w].verdict \in Pool!Verdicts
    BY <1>0 DEF TypeOK
  <2>2. Pool!WorkerStep(w)
    BY <1>3, <2>1 DEF Take, Return, Pool!WorkerStep
  <2>3. QED
    BY <1>0, <2>2, PoolStep DEF Pool!Next
<1>4. CASE Rebalance \/ Terminate
  <2>1. /\ expired' = expired \union InSession(session)
        /\ UNCHANGED <<call, jobs, worker, exited, result, runs, shutdown>>
    BY <1>4 DEF Rebalance, Terminate, EndSession, Pool!Expire
  <2>2. expired' \subseteq Deliveries
    BY <1>0, <2>1 DEF InSession, TypeOK, Pool!TypeOK
  <2>3. QED
    BY <1>0, <2>1, <2>2 DEF PoolProofs!PoolInv, PoolProofs!TypeOK, PoolProofs!QueuedFresh, PoolProofs!RunningOnce,
      PoolProofs!CallAndTask, PoolProofs!ClosedPool, PoolProofs!Queued, PoolProofs!Running, PoolProofs!Closed
<1>5. CASE Drain \/ ShutdownStep
  <2>1. Pool!Next
    BY <1>5 DEF Drain, ShutdownStep, Pool!Next, Pool!WorkerStep
  <2>2. QED
    BY <1>0, <2>1, PoolStep
<1>6. CASE Exit \/ Crash
  <2>1. /\ call' = [d \in Deliveries |-> IF call[d] \in {"submit", "wait"} THEN "ctx" ELSE call[d]]
        /\ jobs' = << >> /\ worker' = [w \in Workers |-> None] /\ exited' = {} /\ shutdown' = "open"
        /\ UNCHANGED <<expired, result, runs>>
    BY <1>6 DEF Exit, Crash, Die
  <2>2. PoolProofs!TypeOK'
    BY <1>0, <2>1, ProcessorAssumption DEF PoolProofs!PoolInv, PoolProofs!TypeOK, PoolProofs!Returned
  <2>3. PoolProofs!QueuedFresh' /\ PoolProofs!RunningOnce' /\ PoolProofs!ClosedPool'
    BY <1>0, <2>1 DEF PoolProofs!QueuedFresh, PoolProofs!RunningOnce, PoolProofs!ClosedPool, PoolProofs!Closed
  <2>4. PoolProofs!CallAndTask'
    BY <1>0, <2>1 DEF PoolProofs!PoolInv, PoolProofs!TypeOK, PoolProofs!Returned, PoolProofs!CallAndTask, PoolProofs!Queued
  <2>5. QED
    BY <2>2, <2>3, <2>4 DEF PoolProofs!PoolInv
<1>7. ASSUME NEW w \in Workers, TaskMove(w)
      PROVE  PoolProofs!PoolInv'
  BY <1>0, <1>1, <1>7, TaskGoesOn DEF TaskMove
<1>8. CASE \/ \E p \in Partitions : ReturnClaim(p)
           \/ \E t \in Topics, m \in Messages : Land(t, m) \/ Drop(t, m) \/ ProducerRetry(t, m)
           \/ AutoCommit \/ NewSession \/ Restart
  BY <1>1, <1>8 DEF ReturnClaim, Land, Drop, ProducerRetry, AutoCommit, NewSession, Restart
<1>9. CASE UNCHANGED vars
  BY <1>1, <1>9 DEF vars
<1>10. QED
  BY <1>2, <1>3, <1>4, <1>5, <1>6, <1>7, <1>8, <1>9, StepCases

-----------------------------------------------------------------------------
(* Types.                                                                  *)

TaskType ==
  /\ task \in [Workers -> TaskStates]
  /\ \A w \in Workers : task[w].pc = "none" <=> worker[w] = None

GroupType ==
  /\ mode \in {"consuming", "rebalancing", "stopping", "draining", "down"}
  /\ session \in 1 .. MaxSessions
  /\ claim \in [Partitions -> {"loop", "handling", "returned"}]
  /\ next \in [Partitions -> 0 .. Length]
  /\ marked \in [Partitions -> 0 .. Length]
  /\ committed \in [Partitions -> 0 .. Length]

CopiesType ==
  /\ topic \in [Topics -> [Messages -> Nat]]
  /\ inflight \in [Topics -> [Messages -> Nat]]
  /\ excused \in [Messages -> Nat]

\* A worker has a task while it runs a delivery.
LEMMA TaskTypeKept ==
  ASSUME ProcessorInv, [Next]_vars
  PROVE  TaskType'
<1>0. TaskType /\ PoolProofs!PoolInv /\ TypeOK
  BY DEF ProcessorInv, TypeOK, TaskType, TaskStates
<1>n. NoTask \in TaskStates /\ NoTask.pc = "none"
  BY ProcessorAssumption DEF NoTask, TaskStates, Pool!Verdicts
<1>1. CASE UNCHANGED <<task, worker>>
  BY <1>0, <1>1 DEF TaskType
<1>2. ASSUME NEW w \in Workers, Take(w)
      PROVE  TaskType'
  <2> DEFINE first == [NoTask EXCEPT !.pc = "decode", !.attempt = 1]
  <2>0. 1 \in 0 .. MaxAttempts
    BY ProcessorAssumption
  <2>1. first \in TaskStates /\ first.pc = "decode"
    BY <2>0 DEF NoTask, TaskStates, Pool!Verdicts
  <2>2. PICK h : h = Head(jobs)
    OBVIOUS
  <2>3. /\ worker' = [worker EXCEPT ![w] = h]
        /\ task' = [task EXCEPT ![w] = first]
    BY <1>2, <2>2 DEF Take, Pool!Take
  <2>4. h \in Deliveries /\ h # None
    BY <1>0, <1>2, <2>2, ProcessorAssumption DEF Take, Pool!Take, TypeOK, Pool!TypeOK
  <2>5. worker \in [Workers -> Deliveries \union {None}]
    BY <1>0 DEF TypeOK, Pool!TypeOK
  <2>6. QED
    BY <1>0, <2>1, <2>3, <2>4, <2>5 DEF TaskType
<1>3. ASSUME NEW w \in Workers, Return(w)
      PROVE  TaskType'
  <2>1. worker' = [worker EXCEPT ![w] = None] /\ task' = [task EXCEPT ![w] = NoTask]
    BY <1>3 DEF Return, Pool!Finish
  <2>2. worker \in [Workers -> Deliveries \union {None}]
    BY <1>0 DEF TypeOK, Pool!TypeOK
  <2>3. QED
    BY <1>0, <1>n, <2>1, <2>2 DEF TaskType
<1>4. ASSUME NEW w \in Workers, TaskMove(w)
      PROVE  TaskType'
  <2>1. PICK t \in TaskStates : task' = [task EXCEPT ![w] = t] /\ task[w].pc # "none" /\ t.pc # "none"
    BY <1>0, <1>4, TaskGoesOn DEF TaskMove
  <2>2. worker' = worker
    BY <1>0, <1>4, TaskGoesOn DEF TaskMove, poolVars
  <2>3. QED
    BY <1>0, <2>1, <2>2 DEF TaskType
<1>5. CASE Exit \/ Crash
  <2>1. worker' = [w \in Workers |-> None] /\ task' = [w \in Workers |-> NoTask]
    BY <1>5 DEF Exit, Crash, Die
  <2>2. QED
    BY <1>n, <2>1 DEF TaskType
<1>6. CASE \/ \E p \in Partitions : Fetch(p) \/ Submit(p) \/ MarkMessage(p) \/ NotMarked(p) \/ ReturnClaim(p)
           \/ \E t \in Topics, m \in Messages : Land(t, m) \/ Drop(t, m) \/ ProducerRetry(t, m)
           \/ Rebalance \/ Terminate \/ AutoCommit \/ NewSession \/ Drain \/ ShutdownStep \/ Restart
           \/ UNCHANGED vars
  <2>1. UNCHANGED <<task, worker>>
    BY <1>6 DEF Fetch, Submit, MarkMessage, NotMarked, ReturnClaim, BackToLoop, Land, Drop, ProducerRetry, Rebalance, Terminate,
      EndSession, AutoCommit, NewSession, Drain, ShutdownStep, Restart, vars, poolVars, taskVars, Pool!Enter, Pool!Submit,
      Pool!Receive, Pool!GiveUp, Pool!Expire, Pool!BeginShutdown, Pool!CloseJobs, Pool!EndShutdown, Pool!WorkerExit
  <2>2. QED
    BY <1>1, <2>1
<1>7. QED
  BY <1>2, <1>3, <1>4, <1>5, <1>6, StepCases

\* The group's variables: sessions and offsets stay in their bounds.
LEMMA GroupTypeKept ==
  ASSUME ProcessorInv, [Next]_vars
  PROVE  GroupType' /\ SessionInv'
<1>0. GroupType /\ SessionInv /\ TypeOK /\ Length \in Nat /\ MaxSessions \in Nat
  BY ProcessorAssumption DEF ProcessorInv, TypeOK, GroupType
<1>1. CASE UNCHANGED groupVars
  BY <1>0, <1>1 DEF GroupType, SessionInv, groupVars
<1>2. ASSUME NEW p \in Partitions, Fetch(p)
      PROVE  GroupType' /\ SessionInv'
  <2>1. next[p] \in 0 .. Length /\ next[p] < Length
    BY <1>0, <1>2 DEF GroupType, Fetch
  <2>2. next[p] + 1 \in 0 .. Length /\ next[p] + 1 >= 1
    BY <1>0, <2>1
  <2>3. QED
    BY <1>0, <1>2, <2>2 DEF GroupType, SessionInv, Fetch
<1>3. ASSUME NEW p \in Partitions, MarkMessage(p) \/ NotMarked(p) \/ ReturnClaim(p)
      PROVE  GroupType' /\ SessionInv'
  <2>1. /\ claim' = [claim EXCEPT ![p] = "loop"] \/ claim' = [claim EXCEPT ![p] = "returned"]
        /\ marked' = [marked EXCEPT ![p] = next[p]] \/ marked' = marked
        /\ UNCHANGED <<mode, session, next, committed>>
    BY <1>0, <1>3 DEF MarkMessage, NotMarked, ReturnClaim, BackToLoop, GroupType
  <2>2. QED
    BY <1>0, <2>1 DEF GroupType, SessionInv
<1>4. CASE Rebalance \/ Terminate \/ Drain \/ Exit \/ Crash
  <2>1. /\ session < MaxSessions
        /\ mode' \in {"rebalancing", "stopping", "draining", "down"}
        /\ marked' \in {marked, committed} /\ committed' \in {marked, committed}
        /\ UNCHANGED <<session, next, claim>>
    BY <1>0, <1>4 DEF Rebalance, Terminate, EndSession, Drain, Exit, Crash, Die, SessionInv
  <2>2. QED
    BY <1>0, <2>1 DEF GroupType, SessionInv
<1>5. CASE NewSession \/ Restart
  <2>1. /\ session < MaxSessions
        /\ mode' = "consuming" /\ session' = session + 1
        /\ claim' = [p \in Partitions |-> "loop"]
        /\ next' \in {marked, committed} /\ marked' = marked /\ committed' \in {marked, committed}
    BY <1>0, <1>5 DEF NewSession, Restart, SessionInv
  <2>2. session' \in 1 .. MaxSessions
    BY <1>0, <2>1 DEF GroupType
  <2>3. QED
    BY <1>0, <2>1, <2>2 DEF GroupType, SessionInv
<1>6. CASE AutoCommit
  BY <1>0, <1>6 DEF AutoCommit, GroupType, SessionInv
<1>7. ASSUME NEW w \in Workers, Take(w) \/ TaskMove(w) \/ Return(w)
      PROVE  GroupType' /\ SessionInv'
  BY <1>0, <1>1, <1>7, TaskGoesOn DEF Take, TaskMove, Return, groupVars
<1>8. CASE \/ \E p \in Partitions : Submit(p)
           \/ \E t \in Topics, m \in Messages : Land(t, m) \/ Drop(t, m) \/ ProducerRetry(t, m)
           \/ ShutdownStep \/ UNCHANGED vars
  BY <1>1, <1>8 DEF Submit, Land, Drop, ProducerRetry, ShutdownStep, vars, groupVars
<1>9. QED
  BY <1>2, <1>3, <1>4, <1>5, <1>6, <1>7, <1>8, StepCases

\* The copies of a message's outcome on both topics.
Copies(f, m) == f["processed"][m] + f["dlq"][m]

\* g has n copies of m's outcome on t, and is f elsewhere.
SetTo(g, f, t, m, n) ==
  f \in [Topics -> [Messages -> Nat]] /\ g = [f EXCEPT ![t][m] = n]

\* Copies are numbers.
LEMMA CopiesNat ==
  ASSUME NEW f, f \in [Topics -> [Messages -> Nat]], NEW m \in Messages
  PROVE  Copies(f, m) \in Nat
<1>1. "processed" \in Topics /\ "dlq" \in Topics
  BY DEF Topics
<1>2. f["processed"][m] \in Nat /\ f["dlq"][m] \in Nat
  BY <1>1
<1>3. QED
  BY <1>2 DEF Copies

\* The counts stay counts.
LEMMA SetToType ==
  ASSUME NEW f, NEW g, NEW t \in Topics, NEW m \in Messages, NEW n \in Nat, SetTo(g, f, t, m, n)
  PROVE  g \in [Topics -> [Messages -> Nat]]
BY DEF SetTo

\* The other messages keep their copies.
LEMMA CopiesElsewhere ==
  ASSUME NEW f, NEW g, NEW t \in Topics, NEW m \in Messages, NEW n \in Nat, SetTo(g, f, t, m, n),
         NEW x \in Messages, x # m
  PROVE  Copies(g, x) = Copies(f, x)
<1>1. f \in [Topics -> [Messages -> Nat]] /\ g = [f EXCEPT ![t][m] = n]
  BY DEF SetTo
<1>2. "processed" \in Topics /\ "dlq" \in Topics
  BY DEF Topics
<1>3. \A u \in Topics : g[u][x] = f[u][x]
  BY <1>1
<1>4. g["processed"][x] = f["processed"][x] /\ g["dlq"][x] = f["dlq"][x]
  BY <1>2, <1>3
<1>5. QED
  BY <1>4 DEF Copies

\* The copies of the message itself change by as much as its count.
LEMMA CopiesHere ==
  ASSUME NEW f, NEW g, NEW t \in Topics, NEW m \in Messages, NEW n \in Nat, SetTo(g, f, t, m, n)
  PROVE  Copies(g, m) + f[t][m] = Copies(f, m) + n
<1>1. f \in [Topics -> [Messages -> Nat]] /\ g = [f EXCEPT ![t][m] = n]
  BY DEF SetTo
<1>2. "processed" \in Topics /\ "dlq" \in Topics /\ t \in {"processed", "dlq"}
  BY DEF Topics
<1>3. \A u \in Topics : g[u][m] = IF u = t THEN n ELSE f[u][m]
  BY <1>1
<1>4. f["processed"][m] \in Nat /\ f["dlq"][m] \in Nat
  BY <1>1, <1>2
<1>5. CASE t = "processed"
  <2>1. g["processed"][m] = n /\ g["dlq"][m] = f["dlq"][m]
    BY <1>2, <1>3, <1>5
  <2>2. QED
    BY <1>4, <1>5, <2>1 DEF Copies
<1>6. CASE t = "dlq"
  <2>1. g["dlq"][m] = n /\ g["processed"][m] = f["processed"][m]
    BY <1>2, <1>3, <1>6
  <2>2. QED
    BY <1>4, <1>6, <2>1 DEF Copies
<1>7. QED
  BY <1>2, <1>5, <1>6

\* g has one copy more, or less, of m's outcome on t.
OneMore(g, f, t, m) == SetTo(g, f, t, m, f[t][m] + 1)
OneLess(g, f, t, m) == f[t][m] > 0 /\ SetTo(g, f, t, m, f[t][m] - 1)


\* One for m itself.
One(x, m) == IF x = m THEN 1 ELSE 0

\* One more copy leaves the counts of their type.
LEMMA OneMoreType ==
  ASSUME NEW f, NEW g, NEW t \in Topics, NEW m \in Messages, OneMore(g, f, t, m)
  PROVE  f \in [Topics -> [Messages -> Nat]] /\ g \in [Topics -> [Messages -> Nat]]
BY DEF OneMore, SetTo

\* Only the message itself has one more.
LEMMA OneMoreCopy ==
  ASSUME NEW f, NEW g, NEW t \in Topics, NEW m \in Messages, OneMore(g, f, t, m), NEW x \in Messages
  PROVE  Copies(g, x) = Copies(f, x) + One(x, m)
<1>1. f[t][m] \in Nat
  BY DEF OneMore, SetTo
<1>2. PICK n \in Nat : n = f[t][m] + 1
  BY <1>1
<1>3. SetTo(g, f, t, m, n)
  BY <1>2 DEF OneMore
<1>4. Copies(f, x) \in Nat /\ Copies(g, x) \in Nat
  <2>1. f \in [Topics -> [Messages -> Nat]] /\ g \in [Topics -> [Messages -> Nat]]
    BY OneMoreType
  <2>2. QED
    BY <2>1, CopiesNat
<1>5. CASE x = m
  <2>1. Copies(g, m) + f[t][m] = Copies(f, m) + n
    BY <1>3, CopiesHere
  <2>2. QED
    BY <1>1, <1>2, <1>4, <1>5, <2>1 DEF One
<1>6. CASE x # m
  <2>1. Copies(g, x) = Copies(f, x)
    BY <1>3, <1>6, CopiesElsewhere
  <2>2. QED
    BY <1>4, <1>6, <2>1 DEF One
<1>7. QED
  BY <1>5, <1>6

\* So does one less.
LEMMA OneLessType ==
  ASSUME NEW f, NEW g, NEW t \in Topics, NEW m \in Messages, OneLess(g, f, t, m)
  PROVE  f \in [Topics -> [Messages -> Nat]] /\ g \in [Topics -> [Messages -> Nat]]
BY DEF OneLess, SetTo

\* Only the message itself has one less.
LEMMA OneLessCopy ==
  ASSUME NEW f, NEW g, NEW t \in Topics, NEW m \in Messages, OneLess(g, f, t, m), NEW x \in Messages
  PROVE  Copies(g, x) + One(x, m) = Copies(f, x)
<1>1. f[t][m] \in Nat /\ f[t][m] > 0
  BY DEF OneLess, SetTo
<1>2. PICK n \in Nat : n = f[t][m] - 1
  BY <1>1
<1>3. SetTo(g, f, t, m, n)
  BY <1>2 DEF OneLess
<1>4. Copies(f, x) \in Nat /\ Copies(g, x) \in Nat
  <2>1. f \in [Topics -> [Messages -> Nat]] /\ g \in [Topics -> [Messages -> Nat]]
    BY OneLessType
  <2>2. QED
    BY <2>1, CopiesNat
<1>5. CASE x = m
  <2>1. Copies(g, m) + f[t][m] = Copies(f, m) + n
    BY <1>3, CopiesHere
  <2>2. QED
    BY <1>1, <1>2, <1>4, <1>5, <2>1 DEF One
<1>6. CASE x # m
  <2>1. Copies(g, x) = Copies(f, x)
    BY <1>3, <1>6, CopiesElsewhere
  <2>2. QED
    BY <1>4, <1>6, <2>1 DEF One
<1>7. QED
  BY <1>5, <1>6

\* The topics are appended to, one outcome at a time.
LEMMA TopicStep ==
  ASSUME ProcessorInv, [Next]_vars
  PROVE  \/ topic' = topic
         \/ \E t \in Topics, m \in Messages : OneMore(topic', topic, t, m)
<1>1. ASSUME NEW w \in Workers, Published(w)
      PROVE  \E t \in Topics, m \in Messages : OneMore(topic', topic, t, m)
  <2>1. Message(worker[w]) \in Messages
    BY <1>1, WorkerType DEF ProcessorInv, Published, Publishing
  <2>2. Target(w) \in Topics
    BY DEF Target, Topics
  <2>3. OneMore(topic', topic, Target(w), Message(worker[w]))
    BY <1>1, <2>1, <2>2 DEF Published, ProcessorInv, TypeOK, OneMore, SetTo
  <2>4. QED
    BY <2>1, <2>2, <2>3
<1>2. ASSUME NEW t \in Topics, NEW m \in Messages, Land(t, m) \/ ProducerRetry(t, m)
      PROVE  OneMore(topic', topic, t, m)
  BY <1>2 DEF Land, ProducerRetry, ProcessorInv, TypeOK, OneMore, SetTo
<1>3. ASSUME NEW w \in Workers, TaskMove(w), ~Published(w)
      PROVE  topic' = topic
  BY <1>3 DEF TaskMove, Timeout, Decode, Attempt, PublishFails, PublishAbandoned
<1>4. CASE \/ \E p \in Partitions : Fetch(p) \/ Submit(p) \/ MarkMessage(p) \/ NotMarked(p) \/ ReturnClaim(p)
           \/ \E w \in Workers : Take(w) \/ Return(w)
           \/ \E t \in Topics, m \in Messages : Drop(t, m)
           \/ Rebalance \/ Terminate \/ AutoCommit \/ NewSession \/ Drain \/ ShutdownStep
           \/ Exit \/ Crash \/ Restart \/ UNCHANGED vars
  BY <1>4 DEF Fetch, Submit, MarkMessage, NotMarked, ReturnClaim, BackToLoop, Take, Return, Drop, Rebalance, Terminate,
    EndSession, AutoCommit, NewSession, Drain, ShutdownStep, Exit, Crash, Die, Restart, vars, taskVars
<1>5. QED
  BY <1>1, <1>2, <1>3, <1>4, StepCases

\* So an outcome that is there stays there.
LEMMA OutcomeStays ==
  ASSUME ProcessorInv, [Next]_vars
  PROVE  /\ topic' \in [Topics -> [Messages -> Nat]]
         /\ \A m \in Messages : HasOutcome(m) => HasOutcome(m)'
<1>1. topic \in [Topics -> [Messages -> Nat]]
  BY DEF ProcessorInv, TypeOK
<1>2. CASE topic' = topic
  BY <1>1, <1>2 DEF HasOutcome
<1>3. CASE topic' # topic
  <2>1. PICK t \in Topics, m \in Messages : OneMore(topic', topic, t, m)
    BY <1>3, TopicStep
  <2>2. PICK g : g = topic'
    OBVIOUS
  <2>3. g \in [Topics -> [Messages -> Nat]]
    BY <2>1, <2>2, OneMoreType
  <2>4. \A x \in Messages : Copies(g, x) = Copies(topic, x) + One(x, m)
    BY <2>1, <2>2, OneMoreCopy
  <2>5. \A x \in Messages : Copies(topic, x) \in Nat /\ One(x, m) \in Nat
    <3>1. \A x \in Messages : Copies(topic, x) \in Nat
      BY <1>1, CopiesNat
    <3>2. QED
      BY <3>1 DEF One
  <2>6. \A x \in Messages : Copies(topic, x) > 0 => Copies(g, x) > 0
    BY <2>4, <2>5
  <2>7. \A x \in Messages : HasOutcome(x) <=> Copies(topic, x) > 0
    BY DEF HasOutcome, Copies
  <2>8. \A x \in Messages : HasOutcome(x)' <=> Copies(g, x) > 0
    BY <2>2 DEF HasOutcome, Copies
  <2>9. QED
    BY <2>2, <2>3, <2>6, <2>7, <2>8
<1>4. QED
  BY <1>2, <1>3

\* How many workers are publishing a message's outcome.
LEMMA SendersType ==
  ASSUME NEW t, NEW m
  PROVE  /\ IsFiniteSet({w \in Workers : Publishing(w) /\ Target(w) = t /\ Message(worker[w]) = m})
         /\ Cardinality({w \in Workers : Publishing(w) /\ Target(w) = t /\ Message(worker[w]) = m}) \in Nat
<1>1. {w \in Workers : Publishing(w) /\ Target(w) = t /\ Message(worker[w]) = m} \subseteq Workers
  OBVIOUS
<1>2. QED
  BY <1>1, ProcessorAssumption, FS_Subset, FS_CardinalityType

\* The publishes on their way and those excused, the marks and the logs of the
\* claims.
LEMMA CopiesTypeKept ==
  ASSUME ProcessorInv, [Next]_vars
  PROVE  /\ CopiesType'
         /\ acked' \subseteq Messages
         /\ gaveUp' \subseteq Messages
         /\ faults' \in 0 .. MaxFaults
<1>0. TypeOK /\ SessionInv /\ topic' \in [Topics -> [Messages -> Nat]]
  BY OutcomeStays DEF ProcessorInv
<1>i. /\ inflight \in [Topics -> [Messages -> Nat]] /\ excused \in [Messages -> Nat]
      /\ acked \subseteq Messages /\ gaveUp \subseteq Messages /\ faults \in 0 .. MaxFaults
  BY <1>0 DEF TypeOK
<1>1. CASE UNCHANGED <<inflight, excused, acked, gaveUp, faults>>
  BY <1>0, <1>i, <1>1 DEF CopiesType
<1>2. ASSUME NEW p \in Partitions, MarkMessage(p) \/ NotMarked(p)
      PROVE  CopiesType' /\ acked' \subseteq Messages /\ gaveUp' \subseteq Messages /\ faults' \in 0 .. MaxFaults
  <2>1. Message(Current(p)) \in Messages
    BY <1>0, <1>2, CurrentType DEF MarkMessage, NotMarked
  <2>2. /\ acked' \subseteq acked \union {Message(Current(p))}
        /\ gaveUp' \subseteq gaveUp \union {Message(Current(p))}
        /\ UNCHANGED <<inflight, excused, faults>>
    BY <1>2 DEF MarkMessage, NotMarked, BackToLoop, taskVars
  <2>3. QED
    BY <1>0, <1>i, <2>1, <2>2 DEF CopiesType
<1>3. ASSUME NEW w \in Workers, TaskMove(w)
      PROVE  CopiesType' /\ acked' \subseteq Messages /\ gaveUp' \subseteq Messages /\ faults' \in 0 .. MaxFaults
  <2>1. UNCHANGED <<acked, gaveUp>> /\ faults' \in 0 .. MaxFaults
    BY <1>0, <1>3, TaskGoesOn DEF TaskMove, historyVars
  <2>2. inflight' \in [Topics -> [Messages -> Nat]] /\ excused' \in [Messages -> Nat]
    <3>1. CASE PublishAbandoned(w)
      <4>1. Message(worker[w]) \in Messages
        BY <1>0, <3>1, WorkerType DEF PublishAbandoned, Publishing
      <4>2. inflight' = [inflight EXCEPT ![Target(w)][Message(worker[w])] = @ + 1]
        BY <3>1 DEF PublishAbandoned
      <4>3. Target(w) \in Topics
        BY DEF Target, Topics
      <4>4. inflight' \in [Topics -> [Messages -> Nat]]
        BY <1>i, <4>1, <4>2, <4>3
      <4>5. excused' = [excused EXCEPT ![Message(worker[w])] = @ + 1]
        BY <3>1 DEF PublishAbandoned
      <4>6. excused' \in [Messages -> Nat]
        BY <1>i, <4>1, <4>5
      <4>7. QED
        BY <4>4, <4>6
    <3>2. CASE ~PublishAbandoned(w)
      BY <1>3, <1>i, <3>2 DEF TaskMove, Timeout, Decode, Attempt, Published, PublishFails
    <3>3. QED
      BY <3>1, <3>2
  <2>3. QED
    BY <1>0, <1>i, <2>1, <2>2 DEF CopiesType
<1>4. ASSUME NEW t \in Topics, NEW m \in Messages, Land(t, m) \/ Drop(t, m)
      PROVE  CopiesType' /\ acked' \subseteq Messages /\ gaveUp' \subseteq Messages /\ faults' \in 0 .. MaxFaults
  <2>1. /\ inflight[t][m] > 0 /\ inflight' = [inflight EXCEPT ![t][m] = @ - 1]
        /\ UNCHANGED <<excused, acked, gaveUp, faults>>
    BY <1>4 DEF Land, Drop, historyVars
  <2>2. inflight[t][m] - 1 \in Nat
    BY <1>i, <2>1
  <2>3. inflight' \in [Topics -> [Messages -> Nat]]
    BY <1>i, <2>1, <2>2
  <2>4. QED
    BY <1>0, <1>i, <2>1, <2>3 DEF CopiesType
<1>5. ASSUME NEW t \in Topics, NEW m \in Messages, ProducerRetry(t, m)
      PROVE  CopiesType' /\ acked' \subseteq Messages /\ gaveUp' \subseteq Messages /\ faults' \in 0 .. MaxFaults
  <2>1. UNCHANGED <<inflight, acked, gaveUp>> /\ faults' \in 0 .. MaxFaults
    BY <1>0, <1>5, FaultsType DEF ProducerRetry, historyVars
  <2>2. excused' \in [Messages -> Nat]
    BY <1>i, <1>5 DEF ProducerRetry
  <2>3. QED
    BY <1>0, <1>i, <2>1, <2>2 DEF CopiesType
<1>6. CASE Exit \/ Crash
  <2>1. UNCHANGED <<excused, acked, gaveUp>> /\ faults' \in 0 .. MaxFaults
    BY <1>0, <1>6, FaultsType DEF Exit, Crash, Die, historyVars
  <2>2. inflight' = [t \in Topics |-> [m \in Messages |-> inflight[t][m] +
          Cardinality({w \in Workers : /\ Publishing(w) /\ Target(w) = t
                                       /\ Message(worker[w]) = m})]]
    BY <1>6 DEF Exit, Crash, Die
  <2>3. \A t \in Topics, m \in Messages : inflight[t][m] +
          Cardinality({w \in Workers : /\ Publishing(w) /\ Target(w) = t
                                       /\ Message(worker[w]) = m}) \in Nat
    <3>1. TAKE t \in Topics, m \in Messages
    <3>2. PICK n \in Nat : n = Cardinality({w \in Workers : /\ Publishing(w) /\ Target(w) = t
                                       /\ Message(worker[w]) = m})
      BY SendersType
    <3>3. inflight[t][m] \in Nat
      BY <1>i
    <3>4. QED
      BY <3>2, <3>3
  <2>4. inflight' \in [Topics -> [Messages -> Nat]]
    BY <2>2, <2>3
  <2>5. QED
    BY <1>0, <1>i, <2>1, <2>4 DEF CopiesType
<1>7. CASE \/ \E p \in Partitions : Fetch(p) \/ Submit(p) \/ ReturnClaim(p)
           \/ \E w \in Workers : Take(w) \/ Return(w)
           \/ Rebalance \/ Terminate \/ AutoCommit \/ NewSession \/ Drain \/ ShutdownStep \/ Restart
           \/ UNCHANGED vars
  <2>1. UNCHANGED <<inflight, excused, acked, gaveUp, faults>>
    BY <1>7 DEF Fetch, Submit, ReturnClaim, Take, Return, Rebalance, Terminate, EndSession, AutoCommit, NewSession,
      Drain, ShutdownStep, Restart, vars, taskVars, historyVars
  <2>2. QED
    BY <1>1, <2>1
<1>8. QED
  BY <1>2, <1>3, <1>4, <1>6, <1>7, <1>5, StepCases

\* Every variable keeps its type.
LEMMA TypeKept ==
  ASSUME ProcessorInv, [Next]_vars
  PROVE  TypeOK'
<1>1. Pool!TypeOK'
  BY PoolKept DEF PoolProofs!PoolInv, PoolProofs!TypeOK, Pool!TypeOK, PoolProofs!Returned, Pool!Returned,
         PoolProofs!Verdicts, Pool!Verdicts
<1>2. TaskType' /\ GroupType' /\ CopiesType'
  BY TaskTypeKept, GroupTypeKept, CopiesTypeKept
<1>3. acked' \subseteq Messages /\ gaveUp' \subseteq Messages /\ faults' \in 0 .. MaxFaults
  BY CopiesTypeKept
<1>4. QED
  BY <1>1, <1>2, <1>3 DEF TypeOK, TaskType, TaskStates, GroupType, CopiesType

-----------------------------------------------------------------------------
(* Sessions and the pool.                                                  *)

\* A step of a claim changes at most the call of one delivery of its session.
LEMMA ClaimCalls ==
  ASSUME ProcessorInv, NEW p \in Partitions,
         Fetch(p) \/ Submit(p) \/ MarkMessage(p) \/ NotMarked(p) \/ ReturnClaim(p)
  PROVE  /\ \/ call' = call
            \/ \E d \in InSession(session), c \in {"submit", "wait", "done", "ctx"} :
                 call' = [call EXCEPT ![d] = c]
         /\ UNCHANGED <<expired, worker, exited, result, runs, shutdown, mode, session>>
<1>0. TypeOK /\ SessionInv /\ OpenInv /\ session \in 1 .. MaxSessions
  BY DEF ProcessorInv, TypeOK
<1>1. CASE Fetch(p)
  <2> DEFINE d == [part |-> p, off |-> next[p], sess |-> session]
  <2>1. d \in InSession(session)
    BY <1>0, <1>1, ProcessorAssumption DEF Fetch, InSession, Deliveries, Offsets, TypeOK
  <2>2. call' = [call EXCEPT ![d] = "submit"]
    BY <1>0, <1>1 DEF Fetch, Pool!Enter, Pool!Closed, OpenInv
  <2>3. QED
    BY <1>1, <2>1, <2>2 DEF Fetch, Pool!Enter
<1>2. CASE Submit(p) \/ MarkMessage(p) \/ NotMarked(p)
  <2>1. Current(p) \in InSession(session)
    BY <1>0, <1>2, CurrentType DEF Submit, MarkMessage, NotMarked, InSession, Current
  <2>2. \E c \in {"submit", "wait", "done", "ctx"} : call' = [call EXCEPT ![Current(p)] = c]
    BY <1>2 DEF Submit, MarkMessage, NotMarked, Pool!Submit, Pool!Receive, Pool!GiveUp
  <2>3. QED
    BY <1>2, <2>1, <2>2 DEF Submit, MarkMessage, NotMarked, BackToLoop, groupVars, Pool!Submit, Pool!Receive, Pool!GiveUp
<1>3. CASE ReturnClaim(p)
  BY <1>3 DEF ReturnClaim, poolVars
<1>4. QED
  BY <1>1, <1>2, <1>3

\* The calls of other steps are as they were, but for a process that goes.
LEMMA OtherCalls ==
  ASSUME ProcessorInv, [Next]_vars
  PROVE  \/ \E p \in Partitions : Fetch(p) \/ Submit(p) \/ MarkMessage(p) \/ NotMarked(p) \/ ReturnClaim(p)
         \/ Rebalance \/ Terminate
         \/ /\ Exit \/ Crash
            /\ call' = [d \in Deliveries |-> IF call[d] \in {"submit", "wait"} THEN "ctx" ELSE call[d]]
            /\ shutdown' = "open" /\ mode' = "down" /\ UNCHANGED <<session, expired>>
         \/ /\ NewSession \/ Restart
            /\ mode \in {"rebalancing", "down"} /\ mode' = "consuming"
            /\ session' = session + 1
            /\ UNCHANGED <<poolVars, task>>
         \/ /\ Drain \/ ShutdownStep
            /\ mode' = "draining" /\ UNCHANGED <<call, session, expired, jobs, worker>>
         \/ /\ \/ AutoCommit \/ UNCHANGED vars
               \/ \E w \in Workers : Take(w) \/ TaskMove(w) \/ Return(w)
               \/ \E t \in Topics, m \in Messages : Land(t, m) \/ Drop(t, m) \/ ProducerRetry(t, m)
            /\ UNCHANGED <<call, shutdown, session, expired, mode, claim, next>>
<1>0. TypeOK /\ OpenInv
  BY DEF ProcessorInv
<1>1. CASE Exit \/ Crash
  BY <1>1 DEF Exit, Crash, Die
<1>2. CASE NewSession \/ Restart
  BY <1>2 DEF NewSession, Restart, taskVars
<1>3. CASE Drain
  BY <1>3 DEF Drain, Pool!BeginShutdown
<1>4. CASE ShutdownStep
  <2>1. shutdown # "open" /\ UNCHANGED <<call, mode, session, expired, jobs, worker>>
    BY <1>4 DEF ShutdownStep, groupVars, Pool!CloseJobs, Pool!EndShutdown, Pool!WorkerExit, Pool!Closed
  <2>2. QED
    BY <1>0, <1>4, <2>1 DEF OpenInv
<1>5. ASSUME NEW w \in Workers, Take(w) \/ TaskMove(w) \/ Return(w)
      PROVE  UNCHANGED <<call, shutdown, session, expired, mode, claim, next>>
  BY <1>0, <1>5, TaskGoesOn DEF Take, Return, TaskMove, groupVars, poolVars, Pool!Take, Pool!Finish
<1>6. ASSUME \/ AutoCommit \/ UNCHANGED vars
             \/ \E t \in Topics, m \in Messages : Land(t, m) \/ Drop(t, m) \/ ProducerRetry(t, m)
      PROVE  UNCHANGED <<call, shutdown, session, expired, mode, claim, next>>
  BY <1>6 DEF AutoCommit, Land, Drop, ProducerRetry, vars, groupVars, poolVars
<1>7. QED
  BY <1>1, <1>2, <1>3, <1>4, <1>5, <1>6, StepCases

\* The pool is shut down after the last claim has returned.
LEMMA OpenKept ==
  ASSUME ProcessorInv, [Next]_vars
  PROVE  OpenInv'
<1>0. OpenInv /\ TypeOK
  BY DEF ProcessorInv
<1>1. call \in [Deliveries -> {"idle", "submit", "wait"} \union Pool!Returned]
  BY <1>0 DEF TypeOK, Pool!TypeOK
<1>2. ASSUME NEW p \in Partitions,
             Fetch(p) \/ Submit(p) \/ MarkMessage(p) \/ NotMarked(p) \/ ReturnClaim(p)
      PROVE  OpenInv'
  <2>1. UNCHANGED <<shutdown, mode>>
    BY <1>2, ClaimCalls
  <2>2. \A d \in Deliveries : call'[d] # "closed"
    <3>1. CASE call' = call
      BY <1>0, <3>1 DEF OpenInv, NeverRejected
    <3>2. CASE \E d \in InSession(session), c \in {"submit", "wait", "done", "ctx"} :
                 call' = [call EXCEPT ![d] = c]
      BY <1>0, <1>1, <3>2 DEF OpenInv, NeverRejected
    <3>3. QED
      BY <1>2, <3>1, <3>2, ClaimCalls
  <2>3. QED
    BY <1>0, <2>1, <2>2 DEF OpenInv, NeverRejected
<1>3. CASE Rebalance \/ Terminate
  <2>1. mode = "consuming" /\ UNCHANGED <<call, shutdown>>
    BY <1>3 DEF Rebalance, Terminate, EndSession, Pool!Expire
  <2>2. QED
    BY <1>0, <2>1 DEF OpenInv, NeverRejected
<1>4. CASE /\ call' = [d \in Deliveries |-> IF call[d] \in {"submit", "wait"} THEN "ctx" ELSE call[d]]
           /\ shutdown' = "open"
  BY <1>0, <1>4 DEF OpenInv, NeverRejected
<1>5. CASE mode \in {"rebalancing", "down"} /\ UNCHANGED poolVars
  BY <1>0, <1>5 DEF OpenInv, NeverRejected, poolVars
<1>6. CASE mode' = "draining" /\ call' = call
  BY <1>0, <1>6 DEF OpenInv, NeverRejected
<1>7. CASE UNCHANGED <<call, shutdown, mode>>
  BY <1>0, <1>7 DEF OpenInv, NeverRejected
<1>8. QED
  BY <1>2, <1>3, <1>4, <1>5, <1>6, <1>7, OtherCalls

\* Only deliveries of sessions that have begun are with the pool, and only
\* those of sessions that are over have lost their context.
LEMMA ExpiryKept ==
  ASSUME ProcessorInv, [Next]_vars
  PROVE  ExpiryInv'
<1>0. ExpiryInv /\ TypeOK /\ session \in Nat /\ \A d \in Deliveries : d.sess \in Nat
  BY ProcessorAssumption DEF ProcessorInv, TypeOK, Deliveries
<1>1. /\ call \in [Deliveries -> {"idle", "submit", "wait"} \union Pool!Returned]
      /\ expired \subseteq Deliveries
  BY <1>0 DEF TypeOK, Pool!TypeOK
<1>2. ASSUME NEW p \in Partitions,
             Fetch(p) \/ Submit(p) \/ MarkMessage(p) \/ NotMarked(p) \/ ReturnClaim(p)
      PROVE  ExpiryInv'
  <2>1. UNCHANGED <<expired, mode, session>>
    BY <1>2, ClaimCalls
  <2>2. \A d \in Deliveries : call'[d] # "idle" => d.sess <= session
    <3>1. CASE call' = call
      BY <1>0, <3>1 DEF ExpiryInv
    <3>2. CASE \E d \in InSession(session), c \in {"submit", "wait", "done", "ctx"} :
                 call' = [call EXCEPT ![d] = c]
      <4>1. PICK d \in InSession(session), c \in {"submit", "wait", "done", "ctx"} :
                 call' = [call EXCEPT ![d] = c]
        BY <3>2
      <4>2. \A e \in Deliveries : e # d => call'[e] = call[e]
        BY <1>1, <4>1
      <4>3. d.sess <= session
        BY <1>0 DEF InSession
      <4>4. QED
        BY <1>0, <4>2, <4>3 DEF ExpiryInv
    <3>3. QED
      BY <1>2, <3>1, <3>2, ClaimCalls
  <2>3. QED
    BY <1>0, <2>1, <2>2 DEF ExpiryInv
<1>3. CASE Rebalance \/ Terminate
  <2>1. /\ mode' # "consuming" /\ UNCHANGED <<call, session>>
        /\ expired' = expired \union InSession(session)
    BY <1>3 DEF Rebalance, Terminate, EndSession, Pool!Expire
  <2>2. QED
    BY <1>0, <1>1, <2>1 DEF ExpiryInv, InSession
<1>4. CASE /\ call' = [d \in Deliveries |-> IF call[d] \in {"submit", "wait"} THEN "ctx" ELSE call[d]]
           /\ mode' = "down" /\ UNCHANGED <<session, expired>>
  BY <1>0, <1>1, <1>4 DEF ExpiryInv
<1>5. CASE session' = session + 1 /\ UNCHANGED poolVars
  <2>1. \A d \in Deliveries : d.sess <= session => d.sess <= session + 1 /\ d.sess < session + 1
    BY <1>0
  <2>2. QED
    BY <1>0, <1>1, <1>5, <2>1 DEF ExpiryInv, poolVars
<1>6. CASE mode' = "draining" /\ UNCHANGED <<call, session, expired>>
  BY <1>0, <1>6 DEF ExpiryInv
<1>7. CASE UNCHANGED <<call, session, expired, mode>>
  BY <1>0, <1>7 DEF ExpiryInv
<1>8. QED
  BY <1>2, <1>3, <1>4, <1>5, <1>6, <1>7, OtherCalls

\* What the pool holds after a step of it.
InPool(d) == Pool!Queued(d) \/ Pool!Running(d)

\* A send adds one delivery, and a worker's step none.
LEMMA SubmitHolds ==
  ASSUME TypeOK, NEW c \in Deliveries, Pool!Submit(c)
  PROVE  \A d \in Deliveries : InPool(d)' => InPool(d) \/ d = c
<1>1. jobs \in Seq(Deliveries) /\ jobs' = Append(jobs, c) /\ worker' = worker
  BY DEF TypeOK, Pool!TypeOK, Pool!Submit
<1>2. Len(jobs) \in Nat /\ Len(jobs') = Len(jobs) + 1
  BY <1>1
<1>3. \A i \in 1 .. Len(jobs') : (i \in 1 .. Len(jobs) /\ jobs'[i] = jobs[i]) \/ jobs'[i] = c
  BY <1>1, <1>2
<1>4. QED
  BY <1>1, <1>3 DEF InPool, Pool!Queued, Pool!Running

\* A worker takes what is queued and returns what it holds: nothing comes in.
LEMMA WorkerHolds ==
  ASSUME TypeOK, NEW w \in Workers, Pool!Take(w) \/ (\E v \in Pool!Verdicts : Pool!Finish(w, v))
  PROVE  \A d \in Deliveries : InPool(d)' => InPool(d)
<1>0. jobs \in Seq(Deliveries) /\ worker \in [Workers -> Deliveries \union {None}]
  BY DEF TypeOK, Pool!TypeOK
<1>1. CASE Pool!Take(w)
  <2>1. PICK h : h = Head(jobs)
    OBVIOUS
  <2>2. jobs # << >> /\ jobs' = Tail(jobs) /\ worker' = [worker EXCEPT ![w] = h]
    BY <1>1, <2>1 DEF Pool!Take
  <2>3. Len(jobs) \in Nat /\ Len(jobs) >= 1 /\ Len(jobs') = Len(jobs) - 1 /\ h = jobs[1]
    BY <1>0, <2>1, <2>2
  <2>4. \A i \in 1 .. Len(jobs') : i + 1 \in 1 .. Len(jobs) /\ jobs'[i] = jobs[i + 1]
    BY <1>0, <2>2, <2>3
  <2>5. \A d \in Deliveries : Pool!Queued(d)' => Pool!Queued(d)
    BY <2>4 DEF Pool!Queued
  <2>6. \A v \in Workers : worker'[v] = worker[v] \/ worker'[v] = h
    BY <1>0, <2>2
  <2>7. Pool!Queued(h)
    BY <2>3 DEF Pool!Queued
  <2>8. QED
    BY <2>5, <2>6, <2>7 DEF InPool, Pool!Running
<1>2. CASE \E v \in Pool!Verdicts : Pool!Finish(w, v)
  <2>1. jobs' = jobs /\ worker' = [worker EXCEPT ![w] = None]
    BY <1>2 DEF Pool!Finish
  <2>2. \A v \in Workers : worker'[v] = worker[v] \/ worker'[v] = None
    BY <1>0, <2>1
  <2>3. QED
    BY <2>1, <2>2, ProcessorAssumption DEF InPool, Pool!Queued, Pool!Running
<1>3. QED
  BY <1>1, <1>2

\* What the pool holds of the live session is what its claims wait for.
LEMMA JobKept ==
  ASSUME ProcessorInv, [Next]_vars
  PROVE  JobInv'
<1>0. /\ TypeOK /\ JobInv /\ ExpiryInv /\ SessionInv /\ PoolProofs!PoolInv
      /\ session \in Nat
      /\ claim \in [Partitions -> {"loop", "handling", "returned"}]
      /\ next \in [Partitions -> 0 .. Length]
  BY ProcessorAssumption DEF ProcessorInv, TypeOK
<1>s. SUFFICES ASSUME mode' = "consuming",
                      NEW d \in Deliveries, d.sess = session', InPool(d)'
               PROVE  claim'[d.part] = "handling" /\ d.off = next'[d.part] - 1
  BY DEF JobInv, InSession, InPool
<1>d. d.part \in Partitions
  BY DEF Deliveries
<1>1. ASSUME mode = "consuming", session' = session, InPool(d)
      PROVE  claim[d.part] = "handling" /\ d.off = next[d.part] - 1
  BY <1>0, <1>1, <1>s DEF JobInv, InSession, InPool
<1>2. CASE UNCHANGED <<jobs, worker>> /\ UNCHANGED <<mode, session, claim, next>>
  <2>1. InPool(d)
    BY <1>2, <1>s DEF InPool, Pool!Queued, Pool!Running
  <2>2. QED
    BY <1>1, <1>2, <1>s, <2>1
<1>3. ASSUME NEW p \in Partitions, Fetch(p)
      PROVE  claim'[d.part] = "handling" /\ d.off = next'[d.part] - 1
  <2>1. /\ UNCHANGED <<jobs, worker, mode, session>> /\ claim[p] = "loop"
        /\ claim' = [claim EXCEPT ![p] = "handling"] /\ next' = [next EXCEPT ![p] = @ + 1]
    BY <1>3 DEF Fetch, Pool!Enter
  <2>2. InPool(d)
    BY <2>1, <1>s DEF InPool, Pool!Queued, Pool!Running
  <2>3. claim[d.part] = "handling" /\ d.off = next[d.part] - 1
    BY <1>1, <1>s, <2>1, <2>2
  <2>4. QED
    BY <1>0, <1>d, <2>1, <2>3
<1>4. ASSUME NEW p \in Partitions, Submit(p)
      PROVE  claim'[d.part] = "handling" /\ d.off = next'[d.part] - 1
  <2>1. UNCHANGED <<mode, session, claim, next>> /\ claim[p] = "handling" /\ Pool!Submit(Current(p))
    BY <1>4 DEF Submit, groupVars
  <2>2. Current(p) \in Deliveries
    BY <1>0, <2>1, CurrentType
  <2>3. CASE InPool(d)
    BY <1>1, <1>s, <2>1, <2>3
  <2>4. CASE d = Current(p)
    BY <2>1, <2>4 DEF Current
  <2>5. QED
    BY <1>0, <1>s, <2>1, <2>2, <2>3, <2>4, SubmitHolds
<1>5. ASSUME NEW p \in Partitions, MarkMessage(p) \/ NotMarked(p)
      PROVE  claim'[d.part] = "handling" /\ d.off = next'[d.part] - 1
  <2>1. /\ UNCHANGED <<jobs, worker, mode, session, next>> /\ claim[p] = "handling"
        /\ claim' = [claim EXCEPT ![p] = "loop"]
        /\ Pool!Receive(Current(p)) \/ Pool!GiveUp(Current(p))
    BY <1>5 DEF MarkMessage, NotMarked, BackToLoop, Pool!Receive, Pool!GiveUp
  <2>2. Current(p) \in Deliveries /\ Current(p).sess = session
    BY <1>0, <2>1, CurrentType DEF Current
  <2>3. Pool!Receive(Current(p))
    BY <1>0, <1>s, <2>1, <2>2 DEF ExpiryInv, Pool!GiveUp
  <2>4. ~InPool(Current(p))
    BY <1>0, <2>2, <2>3, PoolFacts DEF InPool, Pool!Receive
  <2>5. InPool(d)
    BY <2>1, <1>s DEF InPool, Pool!Queued, Pool!Running
  <2>6. claim[d.part] = "handling" /\ d.off = next[d.part] - 1
    BY <1>1, <1>s, <2>1, <2>5
  <2>7. d.part # p
    <3>1. d.part = p => d = Current(p)
      BY <1>s, <2>1, <2>6 DEF Current, Deliveries
    <3>2. QED
      BY <2>4, <2>5, <3>1
  <2>8. QED
    BY <1>0, <1>d, <2>1, <2>6, <2>7
<1>6. ASSUME NEW w \in Workers, Take(w) \/ Return(w)
      PROVE  claim'[d.part] = "handling" /\ d.off = next'[d.part] - 1
  <2>1. UNCHANGED <<mode, session, claim, next>>
    BY <1>6 DEF Take, Return, groupVars
  <2>2. Pool!Take(w) \/ (\E v \in Pool!Verdicts : Pool!Finish(w, v))
    BY <1>0, <1>6 DEF Take, Return, TypeOK
  <2>3. InPool(d)
    BY <1>0, <1>s, <2>2, WorkerHolds
  <2>4. QED
    BY <1>1, <1>s, <2>1, <2>3
<1>7. CASE NewSession \/ Restart
  <2>1. session' = session + 1 /\ UNCHANGED <<jobs, worker>>
    BY <1>7 DEF NewSession, Restart, poolVars
  <2>2. ~(d.sess <= session)
    BY <1>0, <1>s, <2>1
  <2>3. call[d] = "idle"
    BY <1>0, <2>2 DEF ExpiryInv
  <2>4. InPool(d)
    BY <2>1, <1>s DEF InPool, Pool!Queued, Pool!Running
  <2>5. QED
    BY <1>0, <2>3, <2>4, PoolFacts DEF InPool
<1>8. ASSUME NEW w \in Workers, TaskMove(w)
      PROVE  claim'[d.part] = "handling" /\ d.off = next'[d.part] - 1
  BY <1>0, <1>2, <1>8, TaskGoesOn DEF TaskMove, poolVars, groupVars
<1>9. ~(\/ Rebalance \/ Terminate \/ Drain \/ ShutdownStep \/ Exit \/ Crash
        \/ \E p \in Partitions : ReturnClaim(p))
  <2>1. ~Rebalance /\ ~Terminate /\ ~Drain /\ ~Exit /\ ~Crash
    BY <1>s DEF Rebalance, Terminate, EndSession, Drain, Exit, Crash, Die
  <2>2. \A p \in Partitions : ~ReturnClaim(p)
    BY <1>s DEF ReturnClaim
  <2>3. ~ShutdownStep
    BY <1>s DEF ProcessorInv, OpenInv, ShutdownStep, groupVars, Pool!CloseJobs, Pool!EndShutdown, Pool!WorkerExit, Pool!Closed
  <2>4. QED
    BY <2>1, <2>2, <2>3
<1>10. CASE \/ AutoCommit \/ UNCHANGED vars
            \/ \E t \in Topics, m \in Messages : Land(t, m) \/ Drop(t, m) \/ ProducerRetry(t, m)
  BY <1>2, <1>10 DEF AutoCommit, Land, Drop, ProducerRetry, vars, poolVars, groupVars
<1>11. QED
  BY <1>3, <1>4, <1>5, <1>6, <1>7, <1>8, <1>9, <1>10, StepCases

-----------------------------------------------------------------------------
(* From the publish to the mark.                                           *)

\* The published message has an outcome before it is marked.
LEMMA PublishedOutcome ==
  ASSUME ProcessorInv, NEW w \in Workers, Published(w)
  PROVE  HasOutcome(Message(worker[w]))'
<1>1. Message(worker[w]) \in Messages /\ worker' = worker
  BY WorkerType DEF ProcessorInv, Published, Publishing, Step, poolVars
<1>2. topic \in [Topics -> [Messages -> Nat]] /\ Target(w) \in Topics
  BY DEF ProcessorInv, TypeOK, Target, Topics
<1>3. topic' = [topic EXCEPT ![Target(w)][Message(worker[w])] = @ + 1]
  BY DEF Published
<1>4. /\ topic'["processed"][Message(worker[w])] \in Nat
      /\ topic'["dlq"][Message(worker[w])] \in Nat
      /\ topic'[Target(w)][Message(worker[w])] >= 1
  BY <1>1, <1>2, <1>3 DEF Topics
<1>5. Message(worker[w])' = Message(worker[w])
  BY <1>1 DEF Message
<1>6. QED
  BY <1>4, <1>5 DEF HasOutcome, Target

\* The results of the tasks change where one returns.
LEMMA ResultStep ==
  ASSUME ProcessorInv, [Next]_vars
  PROVE  \/ result' = result
         \/ \E w \in Workers : Return(w)
<1>1. CASE \E p \in Partitions : Fetch(p) \/ Submit(p) \/ MarkMessage(p) \/ NotMarked(p) \/ ReturnClaim(p)
  BY <1>1, ClaimCalls
<1>2. ASSUME NEW w \in Workers, TaskMove(w)
      PROVE  result' = result
  BY <1>2, TaskGoesOn DEF ProcessorInv, TaskMove, poolVars
<1>3. CASE \/ \E w \in Workers : Take(w)
           \/ \E t \in Topics, m \in Messages : Land(t, m) \/ Drop(t, m) \/ ProducerRetry(t, m)
           \/ Rebalance \/ Terminate \/ AutoCommit \/ NewSession \/ Drain \/ ShutdownStep
           \/ Exit \/ Crash \/ Restart \/ UNCHANGED vars
  BY <1>3 DEF Take, Pool!Take, Land, Drop, ProducerRetry, Rebalance, Terminate, EndSession, Pool!Expire, AutoCommit, NewSession, Drain,
    Pool!BeginShutdown, ShutdownStep, Pool!CloseJobs, Pool!EndShutdown, Pool!WorkerExit, Exit, Crash, Die, Restart, vars, poolVars
<1>4. QED
  BY <1>1, <1>2, <1>3, StepCases

\* The marks change where a claim marks.
LEMMA MarkStep ==
  ASSUME ProcessorInv, [Next]_vars
  PROVE  \/ acked' = acked
         \/ \E p \in Partitions : MarkMessage(p)
<1>1. ASSUME NEW w \in Workers, TaskMove(w)
      PROVE  acked' = acked
  BY <1>1, TaskGoesOn DEF ProcessorInv, TaskMove, historyVars
<1>2. CASE \/ \E p \in Partitions : Fetch(p) \/ Submit(p) \/ NotMarked(p) \/ ReturnClaim(p)
           \/ \E w \in Workers : Take(w) \/ Return(w)
           \/ \E t \in Topics, m \in Messages : Land(t, m) \/ Drop(t, m) \/ ProducerRetry(t, m)
           \/ Rebalance \/ Terminate \/ AutoCommit \/ NewSession \/ Drain \/ ShutdownStep
           \/ Exit \/ Crash \/ Restart \/ UNCHANGED vars
  BY <1>2 DEF Fetch, Submit, NotMarked, ReturnClaim, Take, Return, Land, Drop, ProducerRetry, Rebalance, Terminate, EndSession,
    AutoCommit, NewSession, Drain, ShutdownStep, Exit, Crash, Die, Restart, vars, historyVars
<1>3. QED
  BY <1>1, <1>2, StepCases

\* How the tasks change.
LEMMA TaskStepCases ==
  ASSUME ProcessorInv, [Next]_vars
  PROVE  \/ UNCHANGED <<task, worker>>
         \/ \E w \in Workers : Take(w) \/ TaskMove(w) \/ Return(w)
         \/ Exit \/ Crash
<1>1. CASE \/ \E p \in Partitions : Fetch(p) \/ Submit(p) \/ MarkMessage(p) \/ NotMarked(p) \/ ReturnClaim(p)
           \/ \E t \in Topics, m \in Messages : Land(t, m) \/ Drop(t, m) \/ ProducerRetry(t, m)
           \/ Rebalance \/ Terminate \/ AutoCommit \/ NewSession \/ Drain \/ ShutdownStep \/ Restart
           \/ UNCHANGED vars
  BY <1>1 DEF Fetch, Submit, MarkMessage, NotMarked, ReturnClaim, BackToLoop, Land, Drop, ProducerRetry, Rebalance, Terminate,
      EndSession, AutoCommit, NewSession, Drain, ShutdownStep, Restart, vars, poolVars, taskVars, Pool!Enter, Pool!Submit,
      Pool!Receive, Pool!GiveUp, Pool!Expire, Pool!BeginShutdown, Pool!CloseJobs, Pool!EndShutdown, Pool!WorkerExit
<1>2. QED
  BY <1>1, StepCases

\* A nil means an outcome, in the task, in its result and in the mark.
LEMMA OutcomeKept ==
  ASSUME ProcessorInv, [Next]_vars
  PROVE  OutcomeInv'
<1>0. /\ TypeOK /\ SessionInv /\ OutcomeInv
      /\ task \in [Workers -> TaskStates]
      /\ worker \in [Workers -> Deliveries \union {None}]
      /\ result \in [Deliveries -> {"none"} \union Pool!Verdicts]
  BY DEF ProcessorInv, TypeOK, TaskStates, Pool!TypeOK
<1>m. \A d \in Deliveries : Message(d) \in Messages /\ Message(d)' = Message(d)
  BY DEF Deliveries, Message, Messages
<1>s. \A m \in Messages : HasOutcome(m) => HasOutcome(m)'
  BY OutcomeStays
<1>n. NoTask.pc = "none"
  BY DEF NoTask
<1>1. ASSUME NEW w \in Workers, task'[w].pc = "return", task'[w].verdict = "nil"
      PROVE  HasOutcome(Message(worker[w]))'
  <2>1. ASSUME task[w].pc = "return", task[w].verdict = "nil", worker'[w] = worker[w]
        PROVE  HasOutcome(Message(worker[w]))'
    <3>1. HasOutcome(Message(worker[w])) /\ Message(worker[w]) \in Messages
      BY <1>0, <2>1, WorkerType DEF OutcomeInv
    <3>2. HasOutcome(Message(worker[w]))'
      <4>1. Message(worker[w])' = Message(worker[w])
        BY <2>1 DEF Message
      <4>2. QED
        BY <1>s, <3>1, <4>1 DEF HasOutcome
    <3>3. QED
      BY <3>2
  <2>2. CASE UNCHANGED <<task, worker>>
    BY <1>1, <2>1, <2>2
  <2>3. ASSUME NEW v \in Workers, Take(v) \/ Return(v)
        PROVE  HasOutcome(Message(worker[w]))'
    <3>1. PICK t, h : /\ t.pc \in {"decode", "none"} /\ task' = [task EXCEPT ![v] = t]
                      /\ worker' = [worker EXCEPT ![v] = h]
      BY <1>n, <2>3 DEF Take, Return, NoTask, Pool!Take, Pool!Finish
    <3>2. w # v /\ task'[w] = task[w] /\ worker'[w] = worker[w]
      BY <1>0, <1>1, <3>1
    <3>3. QED
      BY <1>1, <2>1, <3>2
  <2>4. ASSUME NEW v \in Workers, TaskMove(v)
        PROVE  HasOutcome(Message(worker[w]))'
    <3>1. worker' = worker
      BY <1>0, <2>4, TaskGoesOn DEF TaskMove, poolVars
    <3>2. CASE w = v /\ Published(v)
      BY <3>2, PublishedOutcome
    <3>3. CASE ~(w = v /\ Published(v))
      <4>1. task[w].pc = "return" /\ task[w].verdict = "nil"
        BY <1>0, <1>1, <2>4, <3>3, TaskGoesOn DEF TaskMove, Busy
      <4>2. QED
        BY <2>1, <3>1, <4>1
    <3>4. QED
      BY <3>2, <3>3
  <2>5. ~Exit /\ ~Crash
    BY <1>1, <1>n DEF Exit, Crash, Die
  <2>6. QED
    BY <2>2, <2>3, <2>4, <2>5, TaskStepCases
<1>2. ASSUME NEW d \in Deliveries, result'[d] = "nil"
      PROVE  HasOutcome(Message(d))'
  <2>1. ASSUME result[d] = "nil"
        PROVE  HasOutcome(Message(d))'
    BY <1>0, <1>m, <1>s, <2>1 DEF OutcomeInv, HasOutcome
  <2>2. ASSUME NEW w \in Workers, Return(w), result[d] # "nil"
        PROVE  HasOutcome(Message(d))'
    <3>1. /\ task[w].pc = "return" /\ worker[w] \in Deliveries
          /\ result' = [result EXCEPT ![worker[w]] = task[w].verdict]
      BY <1>0, <2>2, WorkerType DEF Return, Pool!Finish
    <3>2. d = worker[w] /\ task[w].verdict = "nil"
      BY <1>0, <1>2, <2>2, <3>1
    <3>3. HasOutcome(Message(d))
      BY <1>0, <3>1, <3>2 DEF OutcomeInv
    <3>4. QED
      BY <1>m, <1>s, <3>3 DEF HasOutcome
  <2>3. QED
    BY <1>2, <2>1, <2>2, ResultStep
<1>3. ASSUME NEW m \in acked'
      PROVE  HasOutcome(m)'
  <2>1. CASE m \in acked
    BY <1>0, <1>s, <2>1 DEF OutcomeInv, MarkedHasOutcome, TypeOK
  <2>2. ASSUME NEW p \in Partitions, MarkMessage(p), m \notin acked
        PROVE  HasOutcome(m)'
    <3>1. /\ m = Message(Current(p)) /\ result[Current(p)] = "nil"
          /\ Current(p) \in Deliveries /\ m \in Messages
      BY <1>0, <1>3, <2>2, CurrentType DEF MarkMessage
    <3>2. HasOutcome(m)
      BY <1>0, <3>1 DEF OutcomeInv
    <3>3. QED
      BY <1>s, <3>1, <3>2
  <2>3. QED
    BY <1>3, <2>1, <2>2, MarkStep
<1>4. QED
  BY <1>1, <1>2, <1>3 DEF OutcomeInv, MarkedHasOutcome

-----------------------------------------------------------------------------
(* One outcome for each run.                                               *)

\* Sets of workers, and of deliveries of one message, are finite.
LEMMA FiniteWorkers ==
  ASSUME NEW W, W \subseteq Workers
  PROVE  IsFiniteSet(W) /\ Cardinality(W) \in Nat
BY ProcessorAssumption, FS_Subset, FS_CardinalityType

\* A message is delivered once per session, so finitely often.
LEMMA FiniteDeliveries ==
  ASSUME NEW m, NEW D, D \subseteq {d \in Deliveries : Message(d) = m}
  PROVE  IsFiniteSet(D) /\ Cardinality(D) \in Nat
<1> DEFINE f == [d \in D |-> d.sess]
<1>1. f \in [D -> 1 .. MaxSessions]
  BY DEF Deliveries
<1>2. ASSUME NEW d \in D, NEW e \in D, f[d] = f[e]
      PROVE  d = e
  <2>1. d.part = e.part /\ d.off = e.off /\ d.sess = e.sess
    BY <1>2 DEF Message
  <2>2. QED
    BY <2>1 DEF Deliveries
<1>3. f \in Injection(D, 1 .. MaxSessions)
  BY <1>1, <1>2 DEF Injection, IsInjective
<1>4. IsFiniteSet(1 .. MaxSessions)
  BY ProcessorAssumption, FS_Interval
<1>5. IsFiniteSet(D)
  BY <1>3, <1>4, FS_Injection
<1>6. QED
  BY <1>5, FS_CardinalityType

\* The numbers CountInv relates.
LEMMA Counts ==
  ASSUME TypeOK, NEW m \in Messages
  PROVE  /\ Copies(topic, m) \in Nat /\ Copies(inflight, m) \in Nat /\ excused[m] \in Nat
         /\ IsFiniteSet(Recording(m)) /\ Cardinality(Recording(m)) \in Nat
         /\ IsFiniteSet(RunsOf(m)) /\ Cardinality(RunsOf(m)) \in Nat
         /\ CountInv => Copies(topic, m) + Copies(inflight, m) + Cardinality(Recording(m))
                          <= Cardinality(RunsOf(m)) + excused[m]
<1>1. /\ topic["processed"][m] \in Nat /\ topic["dlq"][m] \in Nat
      /\ inflight["processed"][m] \in Nat /\ inflight["dlq"][m] \in Nat
      /\ excused[m] \in Nat
  BY DEF TypeOK, Topics
<1>2. IsFiniteSet(Recording(m)) /\ Cardinality(Recording(m)) \in Nat
  BY FiniteWorkers DEF Recording
<1>3. IsFiniteSet(RunsOf(m)) /\ Cardinality(RunsOf(m)) \in Nat
  BY FiniteDeliveries DEF RunsOf
<1>4. Copies(topic, m) \in Nat /\ Copies(inflight, m) \in Nat
  BY <1>1 DEF Copies
<1>5. CountInv => Copies(topic, m) + Copies(inflight, m) + Cardinality(Recording(m))
                    <= Cardinality(RunsOf(m)) + excused[m]
  BY <1>1, <1>2, <1>3 DEF CountInv, Copies
<1>6. QED
  BY <1>1, <1>2, <1>3, <1>4, <1>5

\* CountInv after a step, from the numbers after it.
CountOf(m) ==
  Copies(topic, m) + Copies(inflight, m) + Cardinality(Recording(m))
    <= Cardinality(RunsOf(m)) + excused[m]

\* The counts of every message together are the invariant.
LEMMA CountsAgain ==
  ASSUME TypeOK', \A m \in Messages : CountOf(m)'
  PROVE  CountInv'
<1>1. SUFFICES ASSUME NEW m \in Messages
               PROVE  topic'["processed"][m] + topic'["dlq"][m]
                        + inflight'["processed"][m] + inflight'["dlq"][m]
                        + Cardinality(Recording(m)')
                      <= Cardinality(RunsOf(m)') + excused'[m]
  BY DEF CountInv
<1>2. /\ topic'["processed"][m] \in Nat /\ topic'["dlq"][m] \in Nat
      /\ inflight'["processed"][m] \in Nat /\ inflight'["dlq"][m] \in Nat
      /\ excused'[m] \in Nat
  BY DEF TypeOK, Topics
<1>3. Cardinality(Recording(m)') \in Nat
  BY FiniteWorkers DEF Recording
<1>4. Cardinality(RunsOf(m)') \in Nat
  BY FiniteDeliveries DEF RunsOf, Message
<1>5. topic'["processed"][m] + topic'["dlq"][m] + (inflight'["processed"][m] + inflight'["dlq"][m])
        + Cardinality(Recording(m)') <= Cardinality(RunsOf(m)') + excused'[m]
  BY DEF CountOf, Copies
<1>6. QED
  BY <1>2, <1>3, <1>4, <1>5

\* A step that starts no run, records nothing and lets no publish go.
LEMMA CountSame ==
  ASSUME ProcessorInv, NEW m \in Messages, UNCHANGED <<topic, inflight, excused, runs>>,
         Recording(m)' = Recording(m)
  PROVE  CountOf(m)'
<1>1. CountOf(m)
  BY Counts DEF ProcessorInv, CountOf
<1>2. RunsOf(m)' = RunsOf(m)
  BY DEF RunsOf, Message
<1>3. QED
  BY <1>1, <1>2 DEF CountOf, Copies

\* A task that starts is a run, and has an outcome to record.
LEMMA CountTake ==
  ASSUME ProcessorInv, NEW w \in Workers, Take(w), NEW m \in Messages
  PROVE  CountOf(m)'
<1>0. /\ TypeOK /\ PoolProofs!PoolInv
      /\ task \in [Workers -> TaskStates]
      /\ worker \in [Workers -> Deliveries \union {None}]
      /\ runs \in [Deliveries -> Nat]
      /\ jobs \in Seq(Deliveries)
  BY DEF ProcessorInv, TypeOK, TaskStates, Pool!TypeOK
<1>1. PICK h : h = Head(jobs)
  OBVIOUS
<1>2. /\ worker[w] = None /\ jobs # << >>
      /\ worker' = [worker EXCEPT ![w] = h]
      /\ runs' = [runs EXCEPT ![h] = @ + 1]
      /\ UNCHANGED <<topic, inflight, excused>>
  BY <1>1 DEF Take, Pool!Take
<1>3. h \in Deliveries /\ Pool!Queued(h)
  BY <1>0, <1>1, <1>2 DEF Pool!Queued
<1>4. runs[h] = 0
  BY <1>0, <1>3, PoolFacts
<1>5. task[w].pc = "none"
  BY <1>0, <1>2 DEF TypeOK
<1>6. task'[w].pc = "decode" /\ \A v \in Workers : v # w => task'[v] = task[v]
  BY <1>0 DEF Take, NoTask
<1>7. worker'[w] = h /\ \A v \in Workers : v # w => worker'[v] = worker[v]
  BY <1>0, <1>2
<1>8. runs'[h] = 1 /\ \A d \in Deliveries : d # h => runs'[d] = runs[d]
  BY <1>0, <1>2, <1>3, <1>4
<1>9. CASE Message(h) = m
  <2>1. Recording(m)' = Recording(m) \union {w} /\ w \notin Recording(m)
    BY <1>5, <1>6, <1>7, <1>9 DEF Recording, Message
  <2>2. RunsOf(m)' = RunsOf(m) \union {h} /\ h \notin RunsOf(m)
    BY <1>3, <1>4, <1>8, <1>9 DEF RunsOf, Message
  <2>3. Cardinality(Recording(m)') = Cardinality(Recording(m)) + 1
    BY <1>0, <2>1, Counts, FS_AddElement
  <2>4. Cardinality(RunsOf(m)') = Cardinality(RunsOf(m)) + 1
    BY <1>0, <2>2, Counts, FS_AddElement
  <2>5. Copies(topic, m)' = Copies(topic, m) /\ Copies(inflight, m)' = Copies(inflight, m)
    BY <1>2 DEF Copies
  <2>6. Copies(topic, m) + Copies(inflight, m) + Cardinality(Recording(m))
          <= Cardinality(RunsOf(m)) + excused[m]
    BY <1>0, Counts DEF ProcessorInv
  <2>7. /\ Copies(topic, m) \in Nat /\ Copies(inflight, m) \in Nat /\ excused[m] \in Nat
        /\ Cardinality(Recording(m)) \in Nat /\ Cardinality(RunsOf(m)) \in Nat
    BY <1>0, Counts
  <2>8. excused'[m] = excused[m]
    BY <1>2
  <2>9. QED
    BY <2>3, <2>4, <2>5, <2>6, <2>7, <2>8 DEF CountOf
<1>10. CASE Message(h) # m
  <2>1. Recording(m)' = Recording(m)
    BY <1>5, <1>6, <1>7, <1>10 DEF Recording, Message
  <2>2. RunsOf(m)' = RunsOf(m)
    BY <1>8, <1>10 DEF RunsOf, Message
  <2>3. Copies(topic, m)' = Copies(topic, m) /\ Copies(inflight, m)' = Copies(inflight, m)
    BY <1>2 DEF Copies
  <2>4. QED
    BY <1>0, <1>2, <2>1, <2>2, <2>3, Counts DEF ProcessorInv, CountOf
<1>11. QED
  BY <1>9, <1>10

\* A task that returns has nothing left to record.
LEMMA CountReturn ==
  ASSUME ProcessorInv, NEW w \in Workers, Return(w), NEW m \in Messages
  PROVE  CountOf(m)'
<1>0. /\ task \in [Workers -> TaskStates]
      /\ worker \in [Workers -> Deliveries \union {None}]
  BY DEF ProcessorInv, TypeOK, TaskStates, Pool!TypeOK
<1>1. /\ task[w].pc = "return"
      /\ worker' = [worker EXCEPT ![w] = None]
      /\ task' = [task EXCEPT ![w] = NoTask]
      /\ UNCHANGED <<topic, inflight, excused, runs>>
  BY DEF Return, Pool!Finish
<1>2. task'[w].pc = "none" /\ \A v \in Workers : v # w => task'[v] = task[v] /\ worker'[v] = worker[v]
  BY <1>0, <1>1 DEF NoTask
<1>3. Recording(m)' = Recording(m)
  BY <1>1, <1>2 DEF Recording, Message
<1>4. QED
  BY <1>1, <1>3, CountSame

\* A task records its outcome by a publish, and then has nothing to record; or
\* gives the publish up, and has it still.
LEMMA CountMove ==
  ASSUME ProcessorInv, NEW w \in Workers, TaskMove(w), NEW m \in Messages
  PROVE  CountOf(m)'
<1>0. /\ TypeOK
      /\ task \in [Workers -> TaskStates]
      /\ worker \in [Workers -> Deliveries \union {None}]
  BY DEF ProcessorInv, TypeOK, TaskStates, Pool!TypeOK
<1>1. PICK t \in TaskStates :
        /\ task' = [task EXCEPT ![w] = t]
        /\ task[w].pc # "none" /\ t.pc # "none"
        /\ \/ t.pc = task[w].pc /\ Timeout(w)
           \/ task[w].pc \in Busy /\ t.pc \in Busy /\ ~Published(w)
           \/ task[w].pc \in Busy /\ t.pc = "return"
  BY <1>0, TaskGoesOn DEF TaskMove
<1>2. UNCHANGED <<worker, runs>>
  BY <1>0, TaskGoesOn DEF TaskMove, poolVars
<1>3. Message(worker[w]) \in Messages /\ Target(w) \in Topics
  BY <1>0, <1>1, WorkerType DEF Target, Topics
<1>4. RunsOf(m)' = RunsOf(m)
  BY <1>2 DEF RunsOf, Message
<1>5. Recording(m)' \subseteq Recording(m)
  BY <1>0, <1>1, <1>2 DEF Recording, Message, Busy
<1>6. /\ IsFiniteSet(Recording(m)) /\ IsFiniteSet(Recording(m)')
      /\ Cardinality(Recording(m)) \in Nat /\ Cardinality(Recording(m)') \in Nat
      /\ Cardinality(Recording(m)') <= Cardinality(Recording(m))
  <2>1. Recording(m)' \subseteq Workers /\ Recording(m) \subseteq Workers
    BY DEF Recording
  <2>2. QED
    BY <1>5, <2>1, FiniteWorkers, FS_Subset
<1>7. CASE Published(w)
  <2>1. OneMore(topic', topic, Target(w), Message(worker[w])) /\ UNCHANGED <<inflight, excused>>
    BY <1>0, <1>3, <1>7 DEF Published, TypeOK, OneMore, SetTo
  <2>2. Copies(topic', m) = Copies(topic, m) + One(m, Message(worker[w]))
    BY <1>3, <2>1, OneMoreCopy
  <2>3. Copies(inflight, m)' = Copies(inflight, m) /\ Copies(topic, m)' = Copies(topic', m)
    BY <2>1 DEF Copies
  <2>4. CASE m = Message(worker[w])
    <3>1. task' = [task EXCEPT ![w] = Finished(w, "nil")] /\ Finished(w, "nil").pc = "return"
          /\ task[w].pc \in {"publish", "deadletter"}
      BY <1>0, <1>7 DEF Published, Step, Finished, TaskStates, Publishing
    <3>2. task'[w].pc = "return" /\ \A v \in Workers : v # w => task'[v] = task[v]
      BY <1>0, <3>1
    <3>3. Recording(m)' = Recording(m) \ {w} /\ w \in Recording(m)
      BY <1>2, <2>4, <3>1, <3>2 DEF Recording, Message
    <3>4. Cardinality(Recording(m)') = Cardinality(Recording(m)) - 1
      BY <1>6, <3>3, FS_RemoveElement
    <3>5. QED
      BY <1>0, <1>4, <1>6, <2>1, <2>2, <2>3, <2>4, <3>4, Counts DEF ProcessorInv, CountOf, One
  <2>5. CASE m # Message(worker[w])
    BY <1>0, <1>4, <1>6, <2>1, <2>2, <2>3, <2>5, Counts DEF ProcessorInv, CountOf, One
  <2>6. QED
    BY <2>4, <2>5
<1>8. CASE PublishAbandoned(w)
  <2>1. /\ OneMore(inflight', inflight, Target(w), Message(worker[w])) /\ topic' = topic
        /\ excused' = [excused EXCEPT ![Message(worker[w])] = @ + 1]
    BY <1>0, <1>3, <1>8 DEF PublishAbandoned, TypeOK, OneMore, SetTo
  <2>2. Copies(inflight', m) = Copies(inflight, m) + One(m, Message(worker[w]))
    BY <1>3, <2>1, OneMoreCopy
  <2>3. Copies(topic, m)' = Copies(topic, m) /\ Copies(inflight, m)' = Copies(inflight', m)
    BY <2>1 DEF Copies
  <2>4. excused'[m] = excused[m] + One(m, Message(worker[w]))
    BY <1>0, <1>3, <2>1 DEF TypeOK, One
  <2>5. One(m, Message(worker[w])) \in Nat
    BY DEF One
  <2>6. QED
    BY <1>0, <1>4, <1>6, <2>1, <2>2, <2>3, <2>4, <2>5, Counts DEF ProcessorInv, CountOf
<1>9. CASE ~Published(w) /\ ~PublishAbandoned(w)
  <2>1. UNCHANGED <<topic, inflight, excused>>
    BY <1>9 DEF TaskMove, Timeout, Decode, Attempt, PublishFails
  <2>2. Copies(topic, m)' = Copies(topic, m) /\ Copies(inflight, m)' = Copies(inflight, m)
    BY <2>1 DEF Copies
  <2>3. QED
    BY <1>0, <1>4, <1>6, <2>1, <2>2, Counts DEF ProcessorInv, CountOf
<1>10. QED
  BY <1>7, <1>8, <1>9

\* A publish nobody waits for lands, or does not.
LEMMA CountLand ==
  ASSUME ProcessorInv, NEW t \in Topics, NEW x \in Messages, Land(t, x) \/ Drop(t, x), NEW m \in Messages
  PROVE  CountOf(m)'
<1>0. TypeOK
  BY DEF ProcessorInv
<1>1. OneLess(inflight', inflight, t, x) /\ UNCHANGED <<excused, task, worker, runs>>
  BY <1>0 DEF Land, Drop, TypeOK, OneLess, SetTo, poolVars
<1>2. Recording(m)' = Recording(m) /\ RunsOf(m)' = RunsOf(m)
  BY <1>1 DEF Recording, RunsOf, Message
<1>3. Copies(inflight', m) + One(m, x) = Copies(inflight, m)
  BY <1>1, OneLessCopy
<1>4. One(m, x) \in Nat
  BY DEF One
<1>5. Copies(inflight', m) \in Nat
  <2>1. inflight' \in [Topics -> [Messages -> Nat]]
    BY <1>1, OneLessType
  <2>2. QED
    BY <2>1, CopiesNat
<1>6. Copies(topic', m) = Copies(topic, m) + One(m, x) \/ topic' = topic
  <2>1. OneMore(topic', topic, t, x) \/ topic' = topic
    BY <1>0 DEF Land, Drop, TypeOK, OneMore, SetTo
  <2>2. ASSUME OneMore(topic', topic, t, x)
        PROVE  Copies(topic', m) = Copies(topic, m) + One(m, x)
    BY <2>2, OneMoreCopy
  <2>3. QED
    BY <2>1, <2>2
<1>7. Copies(inflight, m)' = Copies(inflight', m) /\ Copies(topic, m)' = Copies(topic', m)
  BY DEF Copies
<1>8. QED
  BY <1>0, <1>1, <1>2, <1>3, <1>4, <1>5, <1>6, <1>7, Counts DEF ProcessorInv, CountOf

\* An outcome sent again is one copy more, and one excused.
LEMMA CountRetry ==
  ASSUME ProcessorInv, NEW t \in Topics, NEW x \in Messages, ProducerRetry(t, x), NEW m \in Messages
  PROVE  CountOf(m)'
<1>0. TypeOK
  BY DEF ProcessorInv
<1>1. /\ OneMore(topic', topic, t, x)
      /\ excused' = [excused EXCEPT ![x] = @ + 1]
      /\ UNCHANGED <<inflight, task, worker, runs>>
  BY <1>0 DEF ProducerRetry, TypeOK, OneMore, SetTo, poolVars
<1>2. Recording(m)' = Recording(m) /\ RunsOf(m)' = RunsOf(m)
  BY <1>1 DEF Recording, RunsOf, Message
<1>3. Copies(topic', m) = Copies(topic, m) + One(m, x)
  BY <1>1, OneMoreCopy
<1>4. excused'[m] = excused[m] + One(m, x)
  BY <1>0, <1>1 DEF TypeOK, One
<1>5. One(m, x) \in Nat
  BY DEF One
<1>6. Copies(topic, m)' = Copies(topic', m) /\ Copies(inflight, m)' = Copies(inflight, m)
  BY <1>1 DEF Copies
<1>7. QED
  BY <1>0, <1>2, <1>3, <1>4, <1>5, <1>6, Counts DEF ProcessorInv, CountOf

\* When the process goes, what its workers were sending may still arrive; they
\* record nothing else.
LEMMA CountDie ==
  ASSUME ProcessorInv, Exit \/ Crash, NEW m \in Messages
  PROVE  CountOf(m)'
<1> DEFINE Senders(t) == {w \in Workers : Publishing(w) /\ Target(w) = t /\ Message(worker[w]) = m}
<1>0. TypeOK
  BY DEF ProcessorInv
<1>1. /\ inflight' = [t \in Topics |-> [x \in Messages |-> inflight[t][x] +
           Cardinality({w \in Workers : Publishing(w) /\ Target(w) = t /\ Message(worker[w]) = x})]]
      /\ task' = [w \in Workers |-> NoTask]
      /\ UNCHANGED <<topic, excused, runs>>
  BY DEF Exit, Crash, Die
<1>2. /\ inflight'["processed"][m] = inflight["processed"][m] + Cardinality(Senders("processed"))
      /\ inflight'["dlq"][m] = inflight["dlq"][m] + Cardinality(Senders("dlq"))
  BY <1>1 DEF Topics
<1>3. /\ IsFiniteSet(Senders("processed")) /\ IsFiniteSet(Senders("dlq"))
      /\ Cardinality(Senders("processed")) \in Nat /\ Cardinality(Senders("dlq")) \in Nat
  BY SendersType
<1>4. /\ Senders("processed") \union Senders("dlq") \subseteq Recording(m)
      /\ Senders("processed") \intersect Senders("dlq") = {}
  BY DEF Recording, Publishing
<1>5. Cardinality(Senders("processed")) + Cardinality(Senders("dlq")) <= Cardinality(Recording(m))
  <2>1. PICK S, T : S = Senders("processed") /\ T = Senders("dlq")
    OBVIOUS
  <2>2. Cardinality(S \union T) = Cardinality(S) + Cardinality(T) - Cardinality(S \intersect T)
    BY <1>3, <2>1, FS_Union
  <2>3. Cardinality(S \intersect T) = 0
    BY <1>4, <2>1, FS_EmptySet
  <2>4. IsFiniteSet(Recording(m)) /\ S \union T \subseteq Recording(m)
    BY <1>0, <1>4, <2>1, Counts
  <2>5. Cardinality(S \union T) <= Cardinality(Recording(m))
    BY <2>4, FS_Subset
  <2>6. Cardinality(S \union T) = Cardinality(S) + Cardinality(T)
    BY <1>3, <2>1, <2>2, <2>3
  <2>7. QED
    BY <2>1, <2>5, <2>6
<1>6. Recording(m)' = {} /\ RunsOf(m)' = RunsOf(m)
  BY <1>1 DEF Recording, RunsOf, Message, NoTask
<1>7. Cardinality(Recording(m)') = 0
  BY <1>6, FS_EmptySet
<1>8. Copies(topic, m)' = Copies(topic, m)
  BY <1>1 DEF Copies
<1>9. Copies(inflight, m)' = Copies(inflight, m) + Cardinality(Senders("processed")) + Cardinality(Senders("dlq"))
  <2>1. inflight["processed"][m] \in Nat /\ inflight["dlq"][m] \in Nat
    BY <1>0 DEF TypeOK, Topics
  <2>2. QED
    BY <1>2, <1>3, <2>1 DEF Copies
<1>10. CountOf(m)' <=> Copies(topic, m) + (Copies(inflight, m) + Cardinality(Senders("processed"))
                        + Cardinality(Senders("dlq"))) + 0 <= Cardinality(RunsOf(m)) + excused[m]
  BY <1>1, <1>6, <1>7, <1>8, <1>9 DEF CountOf
<1>11. QED
  BY <1>0, <1>3, <1>5, <1>10, Counts DEF ProcessorInv

\* The outcomes recorded, those on their way and those to come are no more than
\* the runs and the publishes given up or sent again.
LEMMA CountKept ==
  ASSUME ProcessorInv, [Next]_vars
  PROVE  CountInv'
<1>1. ASSUME NEW m \in Messages
      PROVE  CountOf(m)'
  <2>1. CASE \E w \in Workers : Take(w) \/ TaskMove(w) \/ Return(w)
    BY <2>1, CountTake, CountMove, CountReturn
  <2>2. CASE Exit \/ Crash
    BY <2>2, CountDie
  <2>3. CASE \E t \in Topics, x \in Messages : Land(t, x) \/ Drop(t, x)
    BY <2>3, CountLand
  <2>4. CASE \E t \in Topics, x \in Messages : ProducerRetry(t, x)
    BY <2>4, CountRetry
  <2>5. CASE \/ \E p \in Partitions : Fetch(p) \/ Submit(p) \/ MarkMessage(p) \/ NotMarked(p) \/ ReturnClaim(p)
             \/ Rebalance \/ Terminate \/ AutoCommit \/ NewSession \/ Drain \/ ShutdownStep \/ Restart
             \/ UNCHANGED vars
    <3>1. UNCHANGED <<topic, inflight, excused, runs, task, worker>>
      BY <2>5 DEF Fetch, Submit, MarkMessage, NotMarked, ReturnClaim, BackToLoop, Rebalance, Terminate,
        EndSession, AutoCommit, NewSession, Drain, ShutdownStep, Restart, vars, poolVars, taskVars, Pool!Enter, Pool!Submit,
        Pool!Receive, Pool!GiveUp, Pool!Expire, Pool!BeginShutdown, Pool!CloseJobs, Pool!EndShutdown, Pool!WorkerExit
    <3>2. Recording(m)' = Recording(m)
      BY <3>1 DEF Recording, Message
    <3>3. QED
      BY <3>1, <3>2, CountSame
  <2>6. QED
    BY <2>1, <2>2, <2>3, <2>5, <2>4, StepCases
<1>2. QED
  BY <1>1, TypeKept, CountsAgain

-----------------------------------------------------------------------------
(* Offsets.                                                                *)

\* What is done stays done.
LEMMA DoneStays ==
  ASSUME ProcessorInv, [Next]_vars
  PROVE  /\ gaveUp \subseteq gaveUp'
         /\ \A p \in Partitions, n \in Offsets : Done(p, n) => Done(p, n)'
<1>1. gaveUp \subseteq gaveUp'
  <2>1. ASSUME NEW w \in Workers, TaskMove(w)
        PROVE  gaveUp' = gaveUp
    BY <2>1, TaskGoesOn DEF ProcessorInv, TaskMove, historyVars
  <2>2. CASE \/ \E p \in Partitions : Fetch(p) \/ Submit(p) \/ MarkMessage(p) \/ NotMarked(p) \/ ReturnClaim(p)
             \/ \E w \in Workers : Take(w) \/ Return(w)
             \/ \E t \in Topics, m \in Messages : Land(t, m) \/ Drop(t, m) \/ ProducerRetry(t, m)
             \/ Rebalance \/ Terminate \/ AutoCommit \/ NewSession \/ Drain \/ ShutdownStep
             \/ Exit \/ Crash \/ Restart \/ UNCHANGED vars
    BY <2>2 DEF Fetch, Submit, MarkMessage, NotMarked, ReturnClaim, Take, Return, Land, Drop, ProducerRetry, Rebalance, Terminate, EndSession,
      AutoCommit, NewSession, Drain, ShutdownStep, Exit, Crash, Die, Restart, vars, historyVars
  <2>3. QED
    BY <2>1, <2>2, StepCases
<1>2. ASSUME NEW p \in Partitions, NEW n \in Offsets, Done(p, n)
      PROVE  Done(p, n)'
  <2>1. <<p, n>> \in Messages
    BY DEF Messages
  <2>2. HasOutcome(<<p, n>>) => HasOutcome(<<p, n>>)'
    BY <2>1, OutcomeStays
  <2>3. QED
    BY <1>1, <1>2, <2>2 DEF Done
<1>3. QED
  BY <1>1, <1>2

\* Nothing is passed over, in a session and from one to the next.
LEMMA OffsetKept ==
  ASSUME ProcessorInv, [Next]_vars
  PROVE  OffsetInv'
<1>0. /\ TypeOK /\ SessionInv /\ OutcomeInv /\ OffsetInv /\ Length \in Nat
      /\ claim \in [Partitions -> {"loop", "handling", "returned"}]
      /\ next \in [Partitions -> 0 .. Length]
      /\ marked \in [Partitions -> 0 .. Length]
      /\ committed \in [Partitions -> 0 .. Length]
  BY ProcessorAssumption DEF ProcessorInv, TypeOK
<1>d. \A p \in Partitions, n \in 0 .. Length - 1 : Done(p, n) => Done(p, n)'
  BY DoneStays DEF Offsets
<1>a. \A p \in Partitions : /\ \A n \in 0 .. next[p] - 1 : n \in 0 .. Length - 1
                            /\ \A n \in 0 .. marked[p] - 1 : n \in 0 .. Length - 1
  BY <1>0
<1> DEFINE Passed(p) ==
      /\ committed[p] <= marked[p]
      /\ \A n \in 0 .. next[p] - 1 : (claim[p] = "handling" /\ n = next[p] - 1) \/ Done(p, n)
      /\ \A n \in 0 .. marked[p] - 1 : Done(p, n)
<1>p. \A p \in Partitions : Passed(p)
  BY <1>0 DEF OffsetInv
<1>q. SUFFICES ASSUME NEW p \in Partitions
               PROVE  /\ committed'[p] <= marked'[p]
                      /\ \A n \in 0 .. next'[p] - 1 :
                           (claim'[p] = "handling" /\ n = next'[p] - 1) \/ Done(p, n)'
                      /\ \A n \in 0 .. marked'[p] - 1 : Done(p, n)'
  BY DEF OffsetInv
<1>r. /\ claim[p] # "handling" => \A n \in 0 .. next[p] - 1 : Done(p, n)'
      /\ \A n \in 0 .. next[p] - 1 : n = next[p] - 1 \/ Done(p, n)'
      /\ \A n \in 0 .. marked[p] - 1 : Done(p, n)'
      /\ committed[p] \in Nat /\ marked[p] \in Nat /\ next[p] \in Nat /\ committed[p] <= marked[p]
  BY <1>0, <1>a, <1>d, <1>p
<1> HIDE DEF Passed
<1>1. CASE claim'[p] = claim[p] /\ next'[p] = next[p] /\ marked'[p] = marked[p]
           /\ committed'[p] \in {committed[p], marked[p]}
  <2>1. \A n \in 0 .. next[p] - 1 : (claim[p] = "handling" /\ n = next[p] - 1) \/ Done(p, n)'
    BY <1>a, <1>d, <1>p DEF Passed
  <2>2. QED
    BY <1>1, <1>r, <2>1
<1>2. CASE UNCHANGED <<claim, next, marked>> /\ committed' \in {committed, marked}
  BY <1>1, <1>2
<1>3. ASSUME NEW q \in Partitions, Fetch(q)
      PROVE  /\ committed'[p] <= marked'[p]
             /\ \A n \in 0 .. next'[p] - 1 : (claim'[p] = "handling" /\ n = next'[p] - 1) \/ Done(p, n)'
             /\ \A n \in 0 .. marked'[p] - 1 : Done(p, n)'
  <2>1. /\ claim[q] = "loop" /\ claim' = [claim EXCEPT ![q] = "handling"]
        /\ next' = [next EXCEPT ![q] = @ + 1] /\ UNCHANGED <<marked, committed>>
    BY <1>3 DEF Fetch
  <2>2. CASE p = q
    <3>1. claim'[p] = "handling" /\ next'[p] = next[p] + 1 /\ claim[p] # "handling"
      BY <1>0, <2>1, <2>2
    <3>2. \A n \in 0 .. next[p] : n = next[p] \/ n \in 0 .. next[p] - 1
      BY <1>r
    <3>3. next[p] + 1 - 1 = next[p]
      BY <1>r
    <3>4. QED
      BY <1>r, <2>1, <3>1, <3>2, <3>3
  <2>3. CASE p # q
    BY <1>0, <1>1, <2>1, <2>3
  <2>4. QED
    BY <2>2, <2>3
<1>4. ASSUME NEW q \in Partitions, MarkMessage(q) \/ NotMarked(q)
      PROVE  /\ committed'[p] <= marked'[p]
             /\ \A n \in 0 .. next'[p] - 1 : (claim'[p] = "handling" /\ n = next'[p] - 1) \/ Done(p, n)'
             /\ \A n \in 0 .. marked'[p] - 1 : Done(p, n)'
  <2>1. /\ claim[q] = "handling" /\ claim' = [claim EXCEPT ![q] = "loop"]
        /\ UNCHANGED <<next, committed>>
        /\ \/ marked' = [marked EXCEPT ![q] = IF @ < next[q] THEN next[q] ELSE @]
           \/ marked' = marked
    BY <1>4 DEF MarkMessage, NotMarked, BackToLoop
  <2>2. /\ Current(q) \in Deliveries /\ Message(Current(q)) = <<q, next[q] - 1>>
        /\ Message(Current(q)) \in Messages /\ next[q] - 1 \in Offsets
    BY <1>0, <2>1, CurrentType
  <2>3. Done(q, next[q] - 1)'
    <3>1. CASE MarkMessage(q)
      <4>1. HasOutcome(<<q, next[q] - 1>>)
        BY <1>0, <2>2, <3>1 DEF MarkMessage, OutcomeInv
      <4>2. Done(q, next[q] - 1)
        BY <4>1 DEF Done
      <4>3. \A n \in 0 .. Length - 1 : n = next[q] - 1 => Done(q, n)'
        BY <1>d, <4>2
      <4>4. QED
        BY <2>1, <2>2, <4>3 DEF Offsets
    <3>2. CASE NotMarked(q)
      <4>1. <<q, next[q] - 1>> \in gaveUp'
        BY <2>2, <3>2 DEF NotMarked
      <4>2. QED
        BY <2>1, <4>1 DEF Done
    <3>3. QED
      BY <1>4, <3>1, <3>2
  <2>4. CASE p = q
    <3>1. \A n \in 0 .. next[p] - 1 : Done(p, n)'
      <4>1. TAKE n \in 0 .. next[p] - 1
      <4>2. CASE n = next[p] - 1
        BY <2>1, <2>3, <2>4, <4>2 DEF Done
      <4>3. CASE n # next[p] - 1
        BY <1>r, <4>3
      <4>4. QED
        BY <4>2, <4>3 DEF One
    <3>2. marked'[p] = marked[p] \/ (marked'[p] = next[p] /\ marked[p] < next[p])
      BY <1>0, <2>1, <2>4
    <3>3. QED
      BY <1>r, <2>1, <3>1, <3>2
  <2>5. CASE p # q
    BY <1>0, <1>1, <2>1, <2>5
  <2>6. QED
    BY <2>4, <2>5
<1>5. ASSUME NEW q \in Partitions, ReturnClaim(q)
      PROVE  /\ committed'[p] <= marked'[p]
             /\ \A n \in 0 .. next'[p] - 1 : (claim'[p] = "handling" /\ n = next'[p] - 1) \/ Done(p, n)'
             /\ \A n \in 0 .. marked'[p] - 1 : Done(p, n)'
  <2>1. /\ claim[q] = "loop" /\ claim' = [claim EXCEPT ![q] = "returned"]
        /\ UNCHANGED <<next, marked, committed>>
    BY <1>5 DEF ReturnClaim
  <2>2. CASE p = q
    BY <1>r, <2>1, <2>2
  <2>3. CASE p # q
    BY <1>0, <1>1, <2>1, <2>3
  <2>4. QED
    BY <2>2, <2>3
<1>6. CASE NewSession \/ Restart
  <2>1. /\ next'[p] <= marked[p] /\ next'[p] \in Nat /\ marked'[p] = marked[p]
        /\ committed'[p] \in {committed[p], marked[p]}
    BY <1>6, <1>r DEF NewSession, Restart
  <2>2. \A n \in 0 .. next'[p] - 1 : n \in 0 .. marked[p] - 1
    BY <1>r, <2>1
  <2>3. QED
    BY <1>r, <2>1, <2>2
<1>7. CASE Exit \/ Crash
  <2>1. UNCHANGED <<claim, next, committed>> /\ marked' = committed
    BY <1>7 DEF Exit, Crash, Die
  <2>2. \A n \in 0 .. committed[p] - 1 : n \in 0 .. marked[p] - 1
    BY <1>r
  <2>3. \A n \in 0 .. next[p] - 1 : (claim[p] = "handling" /\ n = next[p] - 1) \/ Done(p, n)'
    BY <1>a, <1>d, <1>p DEF Passed
  <2>4. QED
    BY <1>r, <2>1, <2>2, <2>3
<1>8. ASSUME NEW w \in Workers, TaskMove(w)
      PROVE  UNCHANGED <<claim, next, marked, committed>>
  BY <1>0, <1>8, TaskGoesOn DEF TaskMove, groupVars
<1>9. CASE \/ \E q \in Partitions : Submit(q)
           \/ \E w \in Workers : Take(w) \/ Return(w)
           \/ \E t \in Topics, m \in Messages : Land(t, m) \/ Drop(t, m) \/ ProducerRetry(t, m)
           \/ Rebalance \/ Terminate \/ AutoCommit \/ Drain \/ ShutdownStep \/ UNCHANGED vars
  <2>1. UNCHANGED <<claim, next, marked>> /\ committed' \in {committed, marked}
    BY <1>9 DEF Submit, Take, Return, Land, Drop, ProducerRetry, Rebalance, Terminate, EndSession, AutoCommit, Drain, ShutdownStep,
      vars, groupVars
  <2>2. QED
    BY <1>2, <2>1
<1>10. QED
  BY <1>2, <1>3, <1>4, <1>5, <1>6, <1>7, <1>8, <1>9, StepCases

-----------------------------------------------------------------------------
(* The theorems.                                                           *)

\* A consumer that has just started satisfies the invariant.
THEOREM InitInv == Init => ProcessorInv
<1> SUFFICES ASSUME Init PROVE ProcessorInv
  OBVIOUS
<1> USE DEF Init
<1>1. PoolProofs!PoolInv
  <2>1. PoolProofs!PoolAssumption
    BY ProcessorAssumption DEF PoolProofs!PoolAssumption
  <2>2. PoolProofs!Init
    BY DEF Pool!Init, PoolProofs!Init
  <2>3. PoolProofs!Init => PoolProofs!PoolInv
    BY <2>1, PoolProofs!InitPoolInv
  <2>4. QED
    BY <2>2, <2>3
<1>2. TypeOK
  <2>1. Pool!TypeOK
    BY <1>1 DEF PoolProofs!PoolInv, PoolProofs!TypeOK, Pool!TypeOK, PoolProofs!Returned, Pool!Returned,
      PoolProofs!Verdicts, Pool!Verdicts
  <2>2. 0 \in 0 .. Length /\ 1 \in 1 .. MaxSessions /\ 0 \in 0 .. MaxFaults /\ 0 \in 0 .. MaxAttempts
    BY ProcessorAssumption
  <2>3. NoTask \in TaskStates /\ NoTask.pc = "none"
    BY <2>2 DEF NoTask, TaskStates, Pool!Verdicts
  <2>4. TaskType
    BY <2>3 DEF TaskType, Pool!Init
  <2>5. GroupType
    BY <2>2 DEF GroupType
  <2>6. CopiesType
    BY DEF CopiesType
  <2>7. acked \subseteq Messages /\ gaveUp \subseteq Messages /\ faults \in 0 .. MaxFaults
    BY <2>2
  <2>8. QED
    BY <2>1, <2>4, <2>5, <2>6, <2>7 DEF TypeOK, TaskType, TaskStates, GroupType, CopiesType
<1>3. SessionInv /\ OpenInv /\ ExpiryInv /\ JobInv
  <2>1. SessionInv
    BY DEF SessionInv
  <2>2. OpenInv /\ ExpiryInv
    BY DEF OpenInv, NeverRejected, ExpiryInv, Pool!Init
  <2>3. JobInv
    <3>1. \A d \in Deliveries : call[d] = "idle"
      BY DEF Pool!Init
    <3>2. QED
      BY <1>1, <3>1, PoolFacts DEF JobInv, InSession
  <2>4. QED
    BY <2>1, <2>2, <2>3
<1>4. OutcomeInv
  BY DEF OutcomeInv, MarkedHasOutcome, NoTask, Pool!Init
<1>5. CountInv
  <2>1. SUFFICES ASSUME NEW m \in Messages
                 PROVE  0 + 0 + 0 + 0 + Cardinality(Recording(m)) <= Cardinality(RunsOf(m)) + 0
    BY DEF CountInv, Topics
  <2>2. Recording(m) = {} /\ RunsOf(m) = {}
    BY DEF Recording, RunsOf, NoTask, Pool!Init
  <2>3. Cardinality(Recording(m)) = 0 /\ Cardinality(RunsOf(m)) = 0
    BY <2>2, FS_EmptySet
  <2>4. QED
    BY <2>3
<1>6. OffsetInv
  BY DEF OffsetInv
<1>7. QED
  BY <1>1, <1>2, <1>3, <1>4, <1>5, <1>6 DEF ProcessorInv

\* Every step of the consumer, the pool and the group keeps it.
THEOREM NextKeepsInv == ProcessorInv /\ [Next]_vars => ProcessorInv'
<1> SUFFICES ASSUME ProcessorInv, [Next]_vars PROVE ProcessorInv'
  OBVIOUS
<1>1. TypeOK' /\ PoolProofs!PoolInv' /\ SessionInv'
  BY TypeKept, PoolKept, GroupTypeKept
<1>2. OpenInv' /\ ExpiryInv' /\ JobInv'
  BY OpenKept, ExpiryKept, JobKept
<1>3. OutcomeInv' /\ CountInv' /\ OffsetInv'
  BY OutcomeKept, CountKept, OffsetKept
<1>4. QED
  BY <1>1, <1>2, <1>3 DEF ProcessorInv

\* So it holds in every reachable state, for any constants.
THEOREM ProcessorInvariant == Spec => []ProcessorInv
BY InitInv, NextKeepsInv, PTL DEF Spec

\* Every variable keeps its type, the pool's channel its size and the attempts
\* their bound.
THEOREM TypeCorrect == Spec => []TypeOK
BY ProcessorInvariant, PTL DEF ProcessorInv

\* A message is marked only when its outcome is on one of the topics, whatever
\* the workers, the pool and the sessions do in between.
THEOREM MarkedMeansOutcome == Spec => []MarkedHasOutcome
<1>1. ProcessorInv => MarkedHasOutcome
  BY DEF ProcessorInv, OutcomeInv
<1>2. QED
  BY <1>1, ProcessorInvariant, PTL

\* While a session is live the pool holds one job of each partition for it.
THEOREM OneJobEachPartition == Spec => []OneJobPerPartition
<1>1. ProcessorInv => OneJobPerPartition
  <2> SUFFICES ASSUME ProcessorInv, mode = "consuming",
                      NEW d \in InSession(session), NEW e \in InSession(session), d.part = e.part,
                      Pool!Queued(d) \/ Pool!Running(d), Pool!Queued(e) \/ Pool!Running(e)
               PROVE  d = e
    BY DEF OneJobPerPartition
  <2>1. d.off = next[d.part] - 1 /\ e.off = next[e.part] - 1
    BY DEF ProcessorInv, JobInv
  <2>2. QED
    BY <2>1 DEF InSession, Deliveries
<1>2. QED
  BY <1>1, ProcessorInvariant, PTL

\* No message meets the closed pool: main stops consuming first.
THEOREM NeverMeetsClosed == Spec => []NeverRejected
<1>1. ProcessorInv => NeverRejected
  BY DEF ProcessorInv, OpenInv
<1>2. QED
  BY <1>1, ProcessorInvariant, PTL

\* The copies of a message's outcome, on the topics and on their way, are no
\* more than the runs of its tasks, the publishes given up half-way and those
\* sarama sent again.
THEOREM OneOutcomeEachRun == Spec => []OneOutcomePerRun
<1>1. ProcessorInv => OneOutcomePerRun
  <2> SUFFICES ASSUME ProcessorInv, NEW m \in Messages
               PROVE  topic["processed"][m] + topic["dlq"][m]
                        + inflight["processed"][m] + inflight["dlq"][m]
                      <= Cardinality(RunsOf(m)) + excused[m]
    BY DEF OneOutcomePerRun, RunsOf
  <2>1. /\ topic["processed"][m] \in Nat /\ topic["dlq"][m] \in Nat
        /\ inflight["processed"][m] \in Nat /\ inflight["dlq"][m] \in Nat
        /\ excused[m] \in Nat
    BY DEF ProcessorInv, TypeOK, Topics
  <2>2. Cardinality(Recording(m)) \in Nat /\ Cardinality(RunsOf(m)) \in Nat
    BY Counts DEF ProcessorInv
  <2>3. QED
    BY <2>1, <2>2 DEF ProcessorInv, CountInv
<1>2. QED
  BY <1>1, ProcessorInvariant, PTL

\* A message the group has committed past without an outcome was logged as
\* "not marked; will be redelivered".
THEOREM EveryLossIsLogged == Spec => []LossIsLogged
<1>1. ProcessorInv => LossIsLogged
  <2> SUFFICES ASSUME ProcessorInv, NEW p \in Partitions, NEW n \in 0 .. committed[p] - 1
               PROVE  Done(p, n)
    BY DEF LossIsLogged, Done
  <2>1. committed[p] \in 0 .. Length /\ marked[p] \in 0 .. Length /\ committed[p] <= marked[p]
    BY DEF ProcessorInv, TypeOK, OffsetInv
  <2>2. n \in 0 .. marked[p] - 1
    BY <2>1, ProcessorAssumption
  <2>3. QED
    BY <2>2 DEF ProcessorInv, OffsetInv
<1>2. QED
  BY <1>1, ProcessorInvariant, PTL

-----------------------------------------------------------------------------
(* The refinement.                                                         *)

\* What a step is to the next service: a commit up to the marks, or progress.
LEMMA StepShape ==
  ASSUME ProcessorInv, [Next]_vars
  PROVE  \/ committed' = marked /\ UNCHANGED <<topic, gaveUp>>
         \/ committed' = committed
<1>1. CASE AutoCommit \/ NewSession \/ Drain
  BY <1>1 DEF AutoCommit, NewSession, Drain, taskVars, historyVars
<1>2. ASSUME NEW w \in Workers, TaskMove(w)
      PROVE  committed' = committed
  BY <1>2, TaskGoesOn DEF ProcessorInv, TaskMove, groupVars
<1>3. CASE \/ \E p \in Partitions : Fetch(p) \/ Submit(p) \/ MarkMessage(p) \/ NotMarked(p) \/ ReturnClaim(p)
           \/ \E w \in Workers : Take(w) \/ Return(w)
           \/ \E t \in Topics, m \in Messages : Land(t, m) \/ Drop(t, m) \/ ProducerRetry(t, m)
           \/ Rebalance \/ Terminate \/ ShutdownStep \/ Exit \/ Crash \/ Restart \/ UNCHANGED vars
  BY <1>3 DEF Fetch, Submit, MarkMessage, NotMarked, BackToLoop, ReturnClaim, Take, Return, Land, Drop, ProducerRetry, Rebalance,
    Terminate, EndSession, ShutdownStep, Exit, Crash, Die, Restart, vars, groupVars
<1>4. QED
  BY <1>1, <1>2, <1>3, StepCases

\* Every step is a step of ConsumerFeed.
LEMMA NextRefines == ProcessorInv /\ [Next]_vars => Contract!Next
<1> SUFFICES ASSUME ProcessorInv, [Next]_vars PROVE Contract!Next
  OBVIOUS
<1>0. /\ topic \in [Topics -> [Messages -> Nat]] /\ Length \in Nat
      /\ Contract!Messages = Messages
      /\ \A p \in Partitions : committed[p] \in 0 .. Length /\ marked[p] \in 0 .. Length
  BY ProcessorAssumption DEF ProcessorInv, TypeOK, Contract!Messages, Messages, Offsets
<1>1. CASE committed' = marked /\ UNCHANGED <<topic, gaveUp>>
  <2>1. ASSUME NEW p \in Partitions
        PROVE  /\ committed'[p] \in committed[p] .. Length
               /\ \A n \in committed[p] .. committed'[p] - 1 :
                    topic["processed"][<<p, n>>] + topic["dlq"][<<p, n>>] > 0 \/ <<p, n>> \in gaveUp
    <3>1. committed[p] <= marked[p] /\ \A n \in 0 .. marked[p] - 1 : Done(p, n)
      BY DEF ProcessorInv, OffsetInv
    <3>2. committed'[p] = marked[p] /\ committed'[p] \in committed[p] .. Length
      BY <1>0, <1>1, <3>1
    <3>3. \A n \in committed[p] .. committed'[p] - 1 : n \in 0 .. marked[p] - 1
      BY <1>0, <3>2
    <3>4. QED
      BY <3>1, <3>2, <3>3 DEF Done, HasOutcome
  <2>2. \A p \in Partitions : \A n \in committed[p] .. committed'[p] - 1 : <<p, n>> \in Messages
    <3>0. TAKE p \in Partitions
    <3>1. TAKE n \in committed[p] .. committed'[p] - 1
    <3>2. n \in 0 .. Length - 1
      BY <1>0, <1>1
    <3>3. QED
      BY <3>2 DEF Messages, Offsets
  <2>3. \A p \in Partitions : \A n \in committed[p] .. committed'[p] - 1 : Contract!Settled(<<p, n>>)
    BY <2>1, <2>2 DEF Contract!Settled
  <2>4. Contract!Commit
    BY <1>1, <2>1, <2>3 DEF Contract!Commit
  <2>5. QED
    BY <2>4 DEF Contract!Next
<1>2. CASE committed' = committed
  <2>1. gaveUp \subseteq gaveUp' /\ gaveUp' \subseteq Messages
    BY DoneStays, CopiesTypeKept
  <2>2. \A m \in Messages : Copies(topic', m) \in {Copies(topic, m), Copies(topic, m) + 1}
    <3>1. CASE topic' = topic
      BY <3>1
    <3>2. CASE topic' # topic
      <4>1. PICK t \in Topics, x \in Messages : OneMore(topic', topic, t, x)
        BY <3>2, TopicStep
      <4>2. \A m \in Messages : Copies(topic', m) = Copies(topic, m) + One(m, x)
        BY <4>1, OneMoreCopy
      <4>3. \A m \in Messages : Copies(topic, m) \in Nat
        BY <1>0 DEF Copies, Topics
      <4>4. QED
        BY <4>2, <4>3 DEF One
    <3>3. QED
      BY <3>1, <3>2
  <2>3. \A m \in Messages :
          topic'["processed"][m] + topic'["dlq"][m]
            \in {topic["processed"][m] + topic["dlq"][m], topic["processed"][m] + topic["dlq"][m] + 1}
    BY <2>2 DEF Copies
  <2>4. Contract!Settle
    BY <1>0, <1>2, <2>1, <2>3 DEF Contract!Settle
  <2>5. QED
    BY <2>4 DEF Contract!Next
<1>3. QED
  BY <1>1, <1>2, StepShape

\* Safety half of ContractSpec: the group never commits past a message that has
\* no outcome and was not logged, and its commits never go back.
THEOREM ImplementsContract == Spec => Contract!Init /\ [][Contract!Next]_(Contract!feedVars)
<1>1. Init => Contract!Init
  <2> SUFFICES ASSUME Init PROVE Contract!Init
    OBVIOUS
  <2>1. \A m \in Messages : topic["processed"][m] + topic["dlq"][m] = 0
    BY DEF Init, Topics
  <2>2. QED
    BY <2>1 DEF Init, Contract!Init, Contract!Messages, Messages, Offsets
<1>2. QED
  BY <1>1, NextRefines, ProcessorInvariant, PTL DEF Spec
=============================================================================
