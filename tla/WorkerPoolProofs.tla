-------------------------- MODULE WorkerPoolProofs --------------------------
(***************************************************************************)
(* The safety of the worker pool, for any calls, any number of workers and *)
(* any size of the job channel.                                            *)
(*                                                                         *)
(* RunsAtMostOnce, HonestReturn and ShutdownDrains are not inductive: that *)
(* a task does not run twice depends on where the call, the channel, the   *)
(* workers and the result channel all are.  PoolInv follows one task       *)
(* through them: not submitted, queued, running, finished.                 *)
(***************************************************************************)
EXTENDS WorkerPool, TLAPS

-----------------------------------------------------------------------------
(* The inductive invariant.                                                *)

\* A call in the channel is there once and has not run.
QueuedFresh ==
  /\ \A i, j \in 1 .. Len(jobs) : jobs[i] = jobs[j] => i = j
  /\ \A i \in 1 .. Len(jobs) : runs[jobs[i]] = 0 /\ result[jobs[i]] = "none"

\* A call on a worker is on that worker only, was started once and has no
\* result yet.
RunningOnce ==
  /\ \A v, w \in Workers : worker[v] = worker[w] /\ worker[v] # None => v = w
  /\ \A w \in Workers : worker[w] # None =>
       runs[worker[w]] = 1 /\ result[worker[w]] = "none"

\* Where a task can be, by where its call is.
CallAndTask ==
  \A c \in Calls :
    /\ runs[c] \in {0, 1}
    /\ result[c] # "none" => runs[c] = 1
    /\ call[c] \in {"idle", "submit", "closed"} => runs[c] = 0 /\ ~Queued(c)
    /\ call[c] = "wait" => Queued(c) \/ Running(c) \/ result[c] # "none"
    /\ call[c] = "done" => result[c] # "none"

\* A closed pool has no sender, and a worker leaves only a drained one.
ClosedPool ==
  /\ Closed => \A c \in Calls : call[c] # "submit"
  /\ \A w \in exited : Closed /\ jobs = << >> /\ worker[w] = None
  /\ shutdown = "returned" => exited = Workers

PoolInv == TypeOK /\ QueuedFresh /\ RunningOnce /\ CallAndTask /\ ClosedPool

-----------------------------------------------------------------------------
(* The channel.                                                            *)

\* What the channel holds after a send.
LEMMA AppendElements ==
  ASSUME NEW S, NEW s \in Seq(S), NEW e \in S
  PROVE  /\ Append(s, e) \in Seq(S)
         /\ Len(Append(s, e)) = Len(s) + 1
         /\ Append(s, e)[Len(s) + 1] = e
         /\ \A i \in 1 .. Len(s) : Append(s, e)[i] = s[i]
  OBVIOUS

\* What the channel holds after a receive.
LEMMA TailElements ==
  ASSUME NEW S, NEW s \in Seq(S), s # << >>
  PROVE  /\ Head(s) \in S /\ Head(s) = s[1]
         /\ Len(s) \in Nat /\ Len(s) >= 1
         /\ Tail(s) \in Seq(S)
         /\ Len(Tail(s)) = Len(s) - 1
         /\ \A i \in 1 .. Len(s) - 1 : Tail(s)[i] = s[i + 1]
  OBVIOUS

-----------------------------------------------------------------------------
\* The invariant holds of a pool New has just returned.
LEMMA InitPoolInv == Init => PoolInv
  BY PoolAssumption DEF Init, PoolInv, TypeOK, QueuedFresh, RunningOnce,
     CallAndTask, ClosedPool, Queued, Running, Closed, Verdicts, Returned

\* Steps that leave the channel, the workers and the results alone.
LEMMA CallSteps ==
  ASSUME PoolInv, NEW c \in Calls,
         Enter(c) \/ GiveUp(c) \/ Receive(c) \/ Expire({c})
  PROVE  PoolInv'
<1> USE DEF PoolInv
<1>1. UNCHANGED <<jobs, worker, exited, result, runs, shutdown>>
  BY DEF Enter, GiveUp, Receive, Expire
<1>2. QueuedFresh' /\ RunningOnce'
  BY <1>1 DEF QueuedFresh, RunningOnce
<1>3. \A d \in Calls : (Queued(d)' <=> Queued(d)) /\ (Running(d)' <=> Running(d))
  BY <1>1 DEF Queued, Running
<1>4. TypeOK'
  BY <1>1 DEF TypeOK, Enter, GiveUp, Receive, Expire, Returned
<1>5. CASE Enter(c)
  <2>1. CallAndTask'
    BY <1>1, <1>3, <1>5 DEF Enter, CallAndTask, TypeOK
  <2>2. ClosedPool'
    BY <1>1, <1>5 DEF Enter, ClosedPool, TypeOK, Closed
  <2>3. QED
    BY <1>2, <1>4, <2>1, <2>2
<1>6. CASE GiveUp(c)
  <2>1. CallAndTask'
    BY <1>1, <1>3, <1>6 DEF GiveUp, CallAndTask, TypeOK
  <2>2. ClosedPool'
    BY <1>1, <1>6 DEF GiveUp, ClosedPool, TypeOK, Closed
  <2>3. QED
    BY <1>2, <1>4, <2>1, <2>2
<1>7. CASE Receive(c)
  <2>1. CallAndTask'
    BY <1>1, <1>3, <1>7 DEF Receive, CallAndTask, TypeOK
  <2>2. ClosedPool'
    BY <1>1, <1>7 DEF Receive, ClosedPool, TypeOK, Closed
  <2>3. QED
    BY <1>2, <1>4, <2>1, <2>2
<1>8. CASE Expire({c})
  <2>1. CallAndTask' /\ ClosedPool'
    BY <1>1, <1>3, <1>8 DEF Expire, CallAndTask, ClosedPool, Closed
  <2>2. QED
    BY <1>2, <1>4, <2>1
<1>9. QED
  BY <1>5, <1>6, <1>7, <1>8

\* A send: the call was not queued before, so the channel stays free of
\* duplicates.
LEMMA SubmitStep ==
  ASSUME PoolInv, NEW c \in Calls, Submit(c)
  PROVE  PoolInv'
<1> USE PoolAssumption DEF PoolInv
<1> DEFINE n == Len(jobs)
<1>1. /\ call[c] = "submit" /\ Len(jobs) < QueueSize
      /\ jobs' = Append(jobs, c)
      /\ call' = [call EXCEPT ![c] = "wait"]
      /\ UNCHANGED <<expired, worker, exited, result, runs, shutdown>>
  BY DEF Submit
<1>2. /\ jobs \in Seq(Calls) /\ n \in Nat
      /\ runs[c] = 0 /\ result[c] = "none"
      /\ \A i \in 1 .. n : jobs[i] # c
      /\ ~Closed
  BY <1>1 DEF TypeOK, CallAndTask, ClosedPool, Queued, Verdicts, Returned
<1>3. /\ jobs' \in Seq(Calls) /\ Len(jobs') = n + 1 /\ jobs'[n + 1] = c
      /\ \A i \in 1 .. n : jobs'[i] = jobs[i]
  BY <1>1, <1>2, AppendElements
<1> HIDE DEF n
<1>4. \A i \in 1 .. n + 1 : i = n + 1 \/ i \in 1 .. n
  BY <1>2
<1>5. TypeOK'
  BY <1>1, <1>2, <1>3 DEF TypeOK, n
<1>6. QueuedFresh'
  <2>1. \A i, j \in 1 .. n : jobs[i] = jobs[j] => i = j
    BY DEF QueuedFresh, n
  <2>2. \A i, j \in 1 .. n + 1 : jobs'[i] = jobs'[j] => i = j
    BY <1>2, <1>3, <1>4, <2>1
  <2>3. \A i \in 1 .. n + 1 : runs[jobs'[i]] = 0 /\ result[jobs'[i]] = "none"
    BY <1>2, <1>3, <1>4 DEF QueuedFresh, n
  <2>4. QED
    BY <1>1, <1>3, <2>2, <2>3 DEF QueuedFresh
<1>7. RunningOnce'
  BY <1>1 DEF RunningOnce
<1>8. CallAndTask'
  <2>1. \A d \in Calls : Queued(d)' <=> Queued(d) \/ d = c
    BY <1>2, <1>3, <1>4 DEF Queued, n
  <2>2. \A d \in Calls : Running(d)' <=> Running(d)
    BY <1>1 DEF Running
  <2>3. QED
    BY <1>1, <1>2, <2>1, <2>2 DEF CallAndTask, TypeOK
<1>9. ClosedPool'
  BY <1>1, <1>2 DEF ClosedPool, Closed, TypeOK
<1>10. QED
  BY <1>5, <1>6, <1>7, <1>8, <1>9

\* A receive: the head of the channel had not run, and is queued no more.
LEMMA TakeStep ==
  ASSUME PoolInv, NEW w \in Workers, Take(w)
  PROVE  PoolInv'
<1> USE PoolAssumption DEF PoolInv
<1> DEFINE n == Len(jobs)
<1> DEFINE c == Head(jobs)
<1>1. /\ worker[w] = None /\ w \notin exited /\ jobs # << >>
      /\ worker' = [worker EXCEPT ![w] = c]
      /\ runs' = [runs EXCEPT ![c] = @ + 1]
      /\ jobs' = Tail(jobs)
      /\ UNCHANGED <<call, expired, exited, result, shutdown>>
  BY DEF Take
<1>2. jobs \in Seq(Calls)
  BY DEF TypeOK
<1>3. /\ c \in Calls /\ c = jobs[1] /\ n \in Nat /\ n >= 1
      /\ jobs' \in Seq(Calls) /\ Len(jobs') = n - 1
      /\ \A i \in 1 .. n - 1 : jobs'[i] = jobs[i + 1]
  BY <1>1, <1>2, TailElements
<1> HIDE DEF c
<1>4. \A i \in 1 .. n - 1 : i + 1 \in 1 .. n /\ i + 1 # 1
  BY <1>3
<1>5. /\ runs[c] = 0 /\ result[c] = "none"
      /\ \A i \in 1 .. n - 1 : jobs'[i] # c
  BY <1>3, <1>4 DEF QueuedFresh
<1>6. \A v \in Workers : worker[v] # c
  BY <1>3, <1>5 DEF RunningOnce
<1>7. TypeOK'
  BY <1>1, <1>3, <1>5 DEF TypeOK
<1>8. QueuedFresh'
  <2>1. \A i \in 1 .. n - 1 : jobs'[i] \in Calls
    BY <1>3
  <2>2. \A i, j \in 1 .. n - 1 : jobs'[i] = jobs'[j] => i = j
    BY <1>3, <1>4 DEF QueuedFresh
  <2>3. \A i \in 1 .. n - 1 : runs'[jobs'[i]] = 0 /\ result'[jobs'[i]] = "none"
    BY <1>1, <1>3, <1>4, <1>5, <2>1 DEF QueuedFresh, TypeOK
  <2>4. QED
    BY <1>3, <2>2, <2>3 DEF QueuedFresh
<1>9. RunningOnce'
  BY <1>1, <1>3, <1>5, <1>6 DEF RunningOnce, TypeOK
<1>10. CallAndTask'
  <2>1. \A d \in Calls : Queued(d)' => Queued(d)
    BY <1>3, <1>4 DEF Queued
  <2>2. \A d \in Calls : Queued(d) => Queued(d)' \/ d = c
    <3> SUFFICES ASSUME NEW d \in Calls, NEW i \in 1 .. n, jobs[i] = d, d # c
                 PROVE  Queued(d)'
      BY DEF Queued
    <3>1. i - 1 \in 1 .. n - 1 /\ i = (i - 1) + 1
      BY <1>3
    <3>2. jobs'[i - 1] = d
      BY <1>3, <3>1
    <3>3. QED
      BY <1>3, <3>1, <3>2 DEF Queued
  <2>3. worker'[w] = c /\ Queued(c)
    BY <1>1, <1>3 DEF Queued, TypeOK
  <2>4. \A d \in Calls : Running(d) \/ d = c => Running(d)'
    <3>1. \A v \in Workers : worker[v] \in Calls => worker'[v] = worker[v]
      BY <1>1 DEF TypeOK
    <3>2. QED
      BY <2>3, <3>1 DEF Running
  <2>5. ASSUME NEW d \in Calls
        PROVE  /\ runs'[d] \in {0, 1}
               /\ result'[d] # "none" => runs'[d] = 1
               /\ call'[d] \in {"idle", "submit", "closed"} => runs'[d] = 0 /\ ~Queued(d)'
               /\ call'[d] = "wait" => Queued(d)' \/ Running(d)' \/ result'[d] # "none"
               /\ call'[d] = "done" => result'[d] # "none"
    <3>1. CASE d = c
      BY <3>1, <1>1, <1>3, <1>5, <2>1, <2>3, <2>4 DEF CallAndTask, TypeOK
    <3>2. CASE d # c
      BY <3>2, <1>1, <1>3, <2>1, <2>2, <2>4 DEF CallAndTask, TypeOK
    <3>3. QED
      BY <3>1, <3>2
  <2>6. QED
    BY <2>5 DEF CallAndTask
<1>11. ClosedPool'
  BY <1>1 DEF ClosedPool, Closed
<1>12. QED
  BY <1>7, <1>8, <1>9, <1>10, <1>11

\* The task's result is sent to a call nobody else runs.
LEMMA FinishStep ==
  ASSUME PoolInv, NEW w \in Workers, NEW verdict \in Verdicts, Finish(w, verdict)
  PROVE  PoolInv'
<1> USE PoolAssumption DEF PoolInv
<1> DEFINE c == worker[w]
<1>1. /\ c # None
      /\ result' = [result EXCEPT ![c] = verdict]
      /\ worker' = [worker EXCEPT ![w] = None]
      /\ UNCHANGED <<call, expired, jobs, exited, runs, shutdown>>
  BY DEF Finish
<1>2. c \in Calls /\ runs[c] = 1 /\ verdict # "none"
  BY <1>1 DEF TypeOK, RunningOnce, Verdicts
<1> HIDE DEF c
<1>3. TypeOK'
  BY <1>1, <1>2 DEF TypeOK
<1>4. QueuedFresh'
  <2>1. \A i \in 1 .. Len(jobs) : jobs[i] \in Calls /\ jobs[i] # c
    BY <1>2 DEF QueuedFresh, TypeOK
  <2>2. QED
    BY <1>1, <1>2, <2>1 DEF QueuedFresh, TypeOK
<1>5. RunningOnce'
  <2>1. \A v \in Workers : v # w /\ worker[v] # None => worker[v] \in Calls /\ worker[v] # c
    BY <1>1 DEF RunningOnce, TypeOK, c
  <2>2. QED
    BY <1>1, <1>2, <2>1 DEF RunningOnce, TypeOK
<1>6. CallAndTask'
  <2>1. \A d \in Calls : Queued(d)' <=> Queued(d)
    BY <1>1 DEF Queued
  <2>2. \A d \in Calls : Running(d) /\ d # c => Running(d)'
    BY <1>1 DEF Running, TypeOK, c
  <2>3. QED
    BY <1>1, <1>2, <2>1, <2>2 DEF CallAndTask, TypeOK
<1>7. ClosedPool'
  BY <1>1 DEF ClosedPool, Closed, TypeOK
<1>8. QED
  BY <1>3, <1>4, <1>5, <1>6, <1>7

\* Steps of Shutdown and the exits of the workers.
LEMMA ShutdownSteps ==
  ASSUME PoolInv,
         \/ BeginShutdown \/ CloseJobs \/ EndShutdown
         \/ \E w \in Workers : WorkerExit(w)
  PROVE  PoolInv'
<1> USE PoolAssumption DEF PoolInv, TypeOK, Queued, Running, Closed
<1>1. CASE BeginShutdown
  BY <1>1 DEF BeginShutdown, QueuedFresh, RunningOnce, CallAndTask, ClosedPool
<1>2. CASE CloseJobs
  BY <1>2 DEF CloseJobs, QueuedFresh, RunningOnce, CallAndTask, ClosedPool
<1>3. CASE EndShutdown
  BY <1>3 DEF EndShutdown, QueuedFresh, RunningOnce, CallAndTask, ClosedPool
<1>4. ASSUME NEW w \in Workers, WorkerExit(w)
      PROVE  PoolInv'
  BY <1>4 DEF WorkerExit, QueuedFresh, RunningOnce, CallAndTask, ClosedPool
<1>5. QED
  BY <1>1, <1>2, <1>3, <1>4

\* Every step of a call, a worker or Shutdown keeps it: PoolInv is inductive.
LEMMA NextPoolInv == PoolInv /\ [Next]_poolVars => PoolInv'
<1> SUFFICES ASSUME PoolInv, [Next]_poolVars
             PROVE  PoolInv'
  OBVIOUS
<1>1. CASE UNCHANGED poolVars
  BY <1>1 DEF poolVars, PoolInv, TypeOK, QueuedFresh, RunningOnce, CallAndTask,
     ClosedPool, Queued, Running, Closed
<1>2. ASSUME NEW c \in Calls, Enter(c) \/ CallStep(c) \/ Expire({c})
      PROVE  PoolInv'
  BY <1>2, CallSteps, SubmitStep DEF CallStep
<1>3. ASSUME NEW w \in Workers, WorkerStep(w)
      PROVE  PoolInv'
  BY <1>3, TakeStep, FinishStep, ShutdownSteps DEF WorkerStep
<1>4. CASE BeginShutdown \/ CloseJobs \/ EndShutdown
  BY <1>4, ShutdownSteps
<1>5. QED
  BY <1>1, <1>2, <1>3, <1>4 DEF Next

\* PoolInv holds in every reachable state of a pool of any size.
THEOREM PoolInvariant == Spec => []PoolInv
<1>1. QED
  BY InitPoolInv, NextPoolInv, PTL DEF Spec

-----------------------------------------------------------------------------
(* The properties.                                                         *)

\* Every variable of the pool keeps its type: the channel, above all, never
\* holds more than WORKER_QUEUE_SIZE jobs.
THEOREM TypeCorrect == Spec => []TypeOK
<1>1. PoolInv => TypeOK
  BY DEF PoolInv
<1>2. QED
  BY <1>1, PoolInvariant, PTL

\* Execute never sends on the closed channel, whatever the interleaving of
\* its callers with Shutdown.
THEOREM NeverSendsOnClosed == Spec => []NoSendOnClosed
<1>1. PoolInv => NoSendOnClosed
  BY DEF PoolInv, ClosedPool, NoSendOnClosed
<1>2. QED
  BY <1>1, PoolInvariant, PTL

\* No task is started twice.
THEOREM TasksRunAtMostOnce == Spec => []RunsAtMostOnce
<1>1. PoolInv => RunsAtMostOnce
  <2> SUFFICES ASSUME PoolInv
               PROVE  RunsAtMostOnce
    OBVIOUS
  <2>1. \A c \in Calls : runs[c] <= 1
    <3>1. \A c \in Calls : runs[c] \in {0, 1}
      BY Zenon DEF PoolInv, CallAndTask
    <3>2. 0 <= 1 /\ 1 <= 1
      OBVIOUS
    <3>3. QED
      BY <3>1, <3>2
  <2>2. \A c \in Calls : Queued(c) => runs[c] = 0
    BY DEF PoolInv, QueuedFresh, Queued
  <2>3. QED
    BY <2>1, <2>2 DEF PoolInv, QueuedFresh, RunsAtMostOnce
<1>2. QED
  BY <1>1, PoolInvariant, PTL

\* What Execute returns is the truth about its task.
THEOREM ReturnsAreHonest == Spec => []HonestReturn
<1>1. PoolInv => HonestReturn
  <2>1. ASSUME PoolInv, NEW c \in Calls, result[c] # "none"
        PROVE  ~Running(c)
    BY <2>1, PoolAssumption DEF PoolInv, RunningOnce, Running
  <2>2. QED
    BY <2>1 DEF PoolInv, CallAndTask, HonestReturn
<1>2. QED
  BY <1>1, PoolInvariant, PTL

\* When Shutdown returns, the channel is empty, the workers idle, and every
\* caller still waiting has its result.
THEOREM ShutdownLeavesNothing == Spec => []ShutdownDrains
<1>1. PoolInv => ShutdownDrains
  <2> SUFFICES ASSUME PoolInv, shutdown = "returned"
               PROVE  /\ jobs = << >>
                      /\ \A c \in Calls : ~Running(c) /\ (call[c] = "wait" => result[c] # "none")
    BY DEF ShutdownDrains
  <2>1. jobs = << >> /\ \A w \in Workers : worker[w] = None
    BY PoolAssumption DEF PoolInv, ClosedPool
  <2>2. \A c \in Calls : ~Running(c) /\ ~Queued(c)
    BY <2>1, PoolAssumption DEF Running, Queued
  <2>3. QED
    BY <2>1, <2>2 DEF PoolInv, CallAndTask
<1>2. QED
  BY <1>1, PoolInvariant, PTL
=============================================================================
