----------------------------- MODULE WorkerPool -----------------------------
(***************************************************************************)
(* payment-processor's bounded worker pool (internal/workerpool): calls of *)
(* Execute hand their task to a job channel of QueueSize, long-lived       *)
(* workers drain it, Shutdown closes the channel under the write lock and  *)
(* waits for the workers.                                                  *)
(*                                                                         *)
(* A call is one invocation of Execute: its task, its context and its      *)
(* buffered result channel.  What a task does is left to the module that   *)
(* uses the pool; here it ends with a nil or an error.                     *)
(***************************************************************************)
EXTENDS Naturals, Sequences

CONSTANTS
  Calls,       \* the invocations of Execute
  Workers,     \* WORKER_COUNT goroutines
  QueueSize,   \* WORKER_QUEUE_SIZE
  None         \* no call: an idle worker

\* New panics on a count or a size that is not positive.
ASSUME PoolAssumption ==
  /\ Workers # {}
  /\ QueueSize \in Nat \ {0}
  /\ None \notin Calls

VARIABLES
  call,       \* where each call is in Execute, or what it returned
  expired,    \* the calls whose ctx is done
  jobs,       \* the job channel
  worker,     \* the call whose task each worker runs
  exited,     \* the workers whose range loop has ended
  result,     \* each call's result channel
  runs,       \* how often each call's task was started
  shutdown    \* where the caller of Shutdown is

poolVars == <<call, expired, jobs, worker, exited, result, runs, shutdown>>

-----------------------------------------------------------------------------
Verdicts == {"nil", "error"}

\* Execute has returned.
Returned == {"done", "ctx", "closed"}

\* The channel is closed.
Closed == shutdown \in {"closed", "returned"}

Queued(c) == \E i \in 1 .. Len(jobs) : jobs[i] = c
Running(c) == \E w \in Workers : worker[w] = c

TypeOK ==
  /\ call \in [Calls -> {"idle", "submit", "wait"} \union Returned]
  /\ expired \subseteq Calls
  /\ jobs \in Seq(Calls)
  /\ Len(jobs) <= QueueSize
  /\ worker \in [Workers -> Calls \union {None}]
  /\ exited \subseteq Workers
  /\ result \in [Calls -> {"none"} \union Verdicts]
  /\ runs \in [Calls -> Nat]
  /\ shutdown \in {"open", "locking", "closed", "returned"}

Init ==
  /\ call = [c \in Calls |-> "idle"]
  /\ expired = {}
  /\ jobs = << >>
  /\ worker = [w \in Workers |-> None]
  /\ exited = {}
  /\ result = [c \in Calls |-> "none"]
  /\ runs = [c \in Calls |-> 0]
  /\ shutdown = "open"

-----------------------------------------------------------------------------
(* Execute.                                                                *)

\* RLock, which waits while Shutdown waits for the write lock, then the test
\* of closed.  A call in "submit" holds the read lock.
Enter(c) ==
  /\ call[c] = "idle"
  /\ shutdown # "locking"
  /\ call' = [call EXCEPT ![c] = IF Closed THEN "closed" ELSE "submit"]
  /\ UNCHANGED <<expired, jobs, worker, exited, result, runs, shutdown>>

\* Mutant: a channel that grows without bound.
SubmitUnbounded(c) ==
  /\ call[c] = "submit"
  /\ jobs' = Append(jobs, c)
  /\ call' = [call EXCEPT ![c] = "wait"]
  /\ UNCHANGED <<expired, worker, exited, result, runs, shutdown>>

\* The first select: the send, when the channel has room ...
Submit(c) ==
  /\ call[c] = "submit"
  /\ Len(jobs) < QueueSize
  /\ jobs' = Append(jobs, c)
  /\ call' = [call EXCEPT ![c] = "wait"]
  /\ UNCHANGED <<expired, worker, exited, result, runs, shutdown>>

\* Mutant: Execute submits the task again when its ctx ends the wait.
GiveUpAndResubmit(c) ==
  /\ call[c] \in {"submit", "wait"}
  /\ c \in expired
  /\ call' = [call EXCEPT ![c] = IF @ = "wait" THEN "submit" ELSE "ctx"]
  /\ UNCHANGED <<expired, jobs, worker, exited, result, runs, shutdown>>

\* ... or ctx.Done(): either may be taken when both are ready.  The second
\* select gives up on the result the same way.
GiveUp(c) ==
  /\ call[c] \in {"submit", "wait"}
  /\ c \in expired
  /\ call' = [call EXCEPT ![c] = "ctx"]
  /\ UNCHANGED <<expired, jobs, worker, exited, result, runs, shutdown>>

\* The second select: the result.
Receive(c) ==
  /\ call[c] = "wait"
  /\ result[c] # "none"
  /\ call' = [call EXCEPT ![c] = "done"]
  /\ UNCHANGED <<expired, jobs, worker, exited, result, runs, shutdown>>

\* The environment ends the contexts of some calls.
Expire(C) ==
  /\ expired' = expired \union C
  /\ UNCHANGED <<call, jobs, worker, exited, result, runs, shutdown>>

-----------------------------------------------------------------------------
(* A worker: for j := range jobs.                                          *)

\* Mutant: workers stop as soon as the pool is closed.
TakeUnlessClosed(w) ==
  /\ worker[w] = None /\ w \notin exited
  /\ jobs # << >> /\ ~Closed
  /\ worker' = [worker EXCEPT ![w] = Head(jobs)]
  /\ runs' = [runs EXCEPT ![Head(jobs)] = @ + 1]
  /\ jobs' = Tail(jobs)
  /\ UNCHANGED <<call, expired, exited, result, shutdown>>

\* It receives a job and starts its task, without a look at the job's ctx.
Take(w) ==
  /\ worker[w] = None /\ w \notin exited
  /\ jobs # << >>
  /\ worker' = [worker EXCEPT ![w] = Head(jobs)]
  /\ runs' = [runs EXCEPT ![Head(jobs)] = @ + 1]
  /\ jobs' = Tail(jobs)
  /\ UNCHANGED <<call, expired, exited, result, shutdown>>

\* Mutant: an unbuffered result channel, on which a worker waits for a
\* caller that may have given up.
FinishUnbuffered(w, verdict) ==
  /\ worker[w] # None
  /\ call[worker[w]] = "wait"
  /\ result' = [result EXCEPT ![worker[w]] = verdict]
  /\ worker' = [worker EXCEPT ![w] = None]
  /\ UNCHANGED <<call, expired, jobs, exited, runs, shutdown>>

\* Mutant: the result is dropped once the ctx is done.
FinishIfNotExpired(w, verdict) ==
  /\ worker[w] # None
  /\ result' = IF worker[w] \in expired THEN result
                ELSE [result EXCEPT ![worker[w]] = verdict]
  /\ worker' = [worker EXCEPT ![w] = None]
  /\ UNCHANGED <<call, expired, jobs, exited, runs, shutdown>>

\* The task returns; the send on the buffered channel never blocks.
Finish(w, verdict) ==
  /\ worker[w] # None
  /\ result' = [result EXCEPT ![worker[w]] = verdict]
  /\ worker' = [worker EXCEPT ![w] = None]
  /\ UNCHANGED <<call, expired, jobs, exited, runs, shutdown>>

\* Mutant: a worker leaves a closed channel without draining it.
WorkerExitEarly(w) ==
  /\ worker[w] = None /\ w \notin exited
  /\ Closed
  /\ exited' = exited \union {w}
  /\ UNCHANGED <<call, expired, jobs, worker, result, runs, shutdown>>

\* The channel is closed and drained: the loop ends and wg.Done runs.
WorkerExit(w) ==
  /\ worker[w] = None /\ w \notin exited
  /\ Closed /\ jobs = << >>
  /\ exited' = exited \union {w}
  /\ UNCHANGED <<call, expired, jobs, worker, result, runs, shutdown>>

-----------------------------------------------------------------------------
(* Shutdown.                                                               *)

\* closedMu.Lock() is called: from here on no new reader gets in.
BeginShutdown ==
  /\ shutdown = "open"
  /\ shutdown' = "locking"
  /\ UNCHANGED <<call, expired, jobs, worker, exited, result, runs>>

\* Mutant: the channel is closed without the write lock.
CloseUnderReaders ==
  /\ shutdown = "locking"
  /\ shutdown' = "closed"
  /\ UNCHANGED <<call, expired, jobs, worker, exited, result, runs>>

\* The last reader has left: closed is set and the channel closed.
CloseJobs ==
  /\ shutdown = "locking"
  /\ \A c \in Calls : call[c] # "submit"
  /\ shutdown' = "closed"
  /\ UNCHANGED <<call, expired, jobs, worker, exited, result, runs>>

\* wg.Wait() returns.
EndShutdown ==
  /\ shutdown = "closed"
  /\ exited = Workers
  /\ shutdown' = "returned"
  /\ UNCHANGED <<call, expired, jobs, worker, exited, result, runs>>

-----------------------------------------------------------------------------
CallStep(c) == Submit(c) \/ GiveUp(c) \/ Receive(c)

WorkerStep(w) ==
  \/ Take(w)
  \/ \E verdict \in Verdicts : Finish(w, verdict)
  \/ WorkerExit(w)

Next ==
  \/ \E c \in Calls : Enter(c) \/ CallStep(c) \/ Expire({c})
  \/ \E w \in Workers : WorkerStep(w)
  \/ BeginShutdown \/ CloseJobs \/ EndShutdown

(***************************************************************************)
(* Go runs every goroutine that can run, and a task stops in bounded time  *)
(* (each is under ProcessingTimeout).  Calls, expiring contexts and the    *)
(* call of Shutdown are the environment's choice.                          *)
(***************************************************************************)
Fairness ==
  /\ \A c \in Calls : WF_poolVars(CallStep(c))
  /\ \A w \in Workers : WF_poolVars(WorkerStep(w))
  /\ WF_poolVars(CloseJobs) /\ WF_poolVars(EndShutdown)

Spec == Init /\ [][Next]_poolVars /\ Fairness

-----------------------------------------------------------------------------
(* Properties.                                                             *)

\* No call is at its send when the channel is closed: the panic closedMu is
\* there to rule out.
NoSendOnClosed ==
  \A c \in Calls : call[c] = "submit" => ~Closed

\* The channel and the workers hold a task at most once between them, and
\* a task that has started is never queued again: tasks run at most once.
RunsAtMostOnce ==
  /\ \A c \in Calls : runs[c] <= 1
  /\ \A c \in Calls : Queued(c) => runs[c] = 0
  /\ \A i, j \in 1 .. Len(jobs) : jobs[i] = jobs[j] => i = j

\* What Execute returns is the truth about the task: a result only after the
\* task ran to its end, ErrPoolClosed only if it never will run, and while
\* the caller waits, its task is queued, running or finished.
HonestReturn ==
  \A c \in Calls :
    /\ call[c] = "done" => runs[c] = 1 /\ result[c] # "none" /\ ~Running(c)
    /\ call[c] \in {"idle", "submit", "closed"} => runs[c] = 0 /\ ~Queued(c)
    /\ call[c] = "wait" => Queued(c) \/ Running(c) \/ result[c] # "none"

\* When Shutdown returns nothing accepted is left undone.
ShutdownDrains ==
  shutdown = "returned" =>
    /\ jobs = << >>
    /\ \A c \in Calls : ~Running(c) /\ (call[c] = "wait" => result[c] # "none")

\* Shutdown ends, even when it finds the channel full and senders blocked on
\* it with the read lock held.
ShutdownReturns == shutdown = "locking" ~> shutdown = "returned"

\* A call that got in returns, with or without its ctx expiring.
ExecuteReturns ==
  \A c \in Calls : call[c] \in {"submit", "wait"} ~> call[c] \in Returned
=============================================================================
