------------------------- MODULE AnalyticsConsumer -------------------------
(***************************************************************************)
(* analytics-service's consumer: each assigned partition of                *)
(* payments.processed and payments.dlq has a ConsumeClaim goroutine that   *)
(* collects outcomes in a batch, inserts the batch into ClickHouse when it *)
(* is full or the ticker fires, and then marks its messages.               *)
(*                                                                         *)
(* Sessions are those of module Processor: one ends with a rebalance, a    *)
(* SIGTERM or a crash, and the next one starts at the committed offsets.   *)
(* Kafka, sarama and ClickHouse are external.                              *)
(***************************************************************************)
EXTENDS Naturals, Sequences

CONSTANTS
  Partitions,    \* the partitions assigned to the member, of both topics
  Length,        \* messages in each partition, at offsets 0 .. Length - 1
  Kind,          \* "row", "badrow" (toRow fails) or "malformed" (bad JSON)
  BatchMaxSize,
  MaxSessions,   \* bound on the sessions
  MaxFaults      \* bound on crashes and failed inserts

Offsets == 0 .. Length - 1
Messages == Partitions \X Offsets

ASSUME AnalyticsAssumption ==
  /\ Length \in Nat
  /\ Kind \in [Messages -> {"row", "badrow", "malformed"}]
  /\ BatchMaxSize \in Nat \ {0}
  /\ MaxSessions \in Nat \ {0}
  /\ MaxFaults \in Nat

VARIABLES
  mode,        \* what the process is doing
  session,     \* the current session
  claim,       \* where each partition's ConsumeClaim is
  closing,     \* the partitions whose message channel was seen closed
  next,        \* the next offset of claim.Messages()
  pending,     \* the batch: offsets not yet inserted, or not yet marked
  marked,      \* the offset the session would commit
  committed,   \* the offset the broker has
  rows,        \* rows of each message in payments_analytics
  acked,       \* messages MarkMessage was called for
  dropped,     \* messages of batches logged as "will be redelivered"
  faults       \* faults so far

claimVars == <<claim, closing, next, pending, marked>>
historyVars == <<acked, dropped>>
vars == <<mode, session, claimVars, committed, rows, historyVars, faults>>

-----------------------------------------------------------------------------
Live == mode \in {"consuming", "rebalancing", "stopping"}

\* The session's context is done.
Over == mode # "consuming"

Fault == faults < MaxFaults /\ faults' = faults + 1

FaultOrOver == IF Over THEN UNCHANGED faults ELSE Fault

Batch(p) == {pending[p][i] : i \in 1 .. Len(pending[p])}

KindOf(p, n) == Kind[<<p, n>>]

\* The messages of the batch toRow accepts.
GoodRows(p) == {<<p, n>> : n \in {o \in Batch(p) : KindOf(p, o) = "row"}}

TypeOK ==
  /\ mode \in {"consuming", "rebalancing", "stopping", "down"}
  /\ session \in 1 .. MaxSessions
  /\ claim \in [Partitions -> {"loop", "insert", "mark", "returned"}]
  /\ closing \subseteq Partitions
  /\ next \in [Partitions -> 0 .. Length]
  /\ pending \in [Partitions -> Seq(Offsets)]
  /\ \A p \in Partitions :
       /\ Len(pending[p]) <= BatchMaxSize
       /\ claim[p] = "loop" => Len(pending[p]) < BatchMaxSize
       /\ claim[p] = "insert" => pending[p] # << >>
  /\ marked \in [Partitions -> 0 .. Length]
  /\ committed \in [Partitions -> 0 .. Length]
  /\ rows \in [Messages -> Nat]
  /\ acked \subseteq Messages
  /\ dropped \subseteq Messages
  /\ faults \in 0 .. MaxFaults

Init ==
  /\ mode = "consuming"
  /\ session = 1
  /\ claim = [p \in Partitions |-> "loop"]
  /\ closing = {}
  /\ next = [p \in Partitions |-> 0]
  /\ pending = [p \in Partitions |-> << >>]
  /\ marked = [p \in Partitions |-> 0]
  /\ committed = [p \in Partitions |-> 0]
  /\ rows = [m \in Messages |-> 0]
  /\ acked = {}
  /\ dropped = {}
  /\ faults = 0

-----------------------------------------------------------------------------
(* ConsumeClaim's select.                                                  *)

\* sarama never moves a mark back.
MarkMessage(p, n) ==
  /\ marked' = [marked EXCEPT ![p] = IF @ < n + 1 THEN n + 1 ELSE @]
  /\ acked' = acked \union {<<p, n>>}

\* A message that is not JSON is marked at once, batch or no batch.
Skip(p) ==
  /\ Live
  /\ claim[p] = "loop"
  /\ next[p] < Length
  /\ KindOf(p, next[p]) = "malformed"
  /\ MarkMessage(p, next[p])
  /\ next' = [next EXCEPT ![p] = @ + 1]
  /\ UNCHANGED <<mode, session, claim, closing, pending, committed, rows,
                 dropped, faults>>

\* Mutant: an off-by-one in the test for a full batch.
CollectTooMany(p) ==
  /\ Live
  /\ claim[p] = "loop"
  /\ next[p] < Length
  /\ KindOf(p, next[p]) # "malformed"
  /\ pending' = [pending EXCEPT ![p] = Append(@, next[p])]
  /\ claim' = [claim EXCEPT ![p] =
       IF Len(pending[p]) + 1 > BatchMaxSize THEN "insert" ELSE "loop"]
  /\ next' = [next EXCEPT ![p] = @ + 1]
  /\ UNCHANGED <<mode, session, closing, marked, committed, rows, historyVars,
                 faults>>

\* Mutant: every message is marked when it is received.
CollectAndMark(p) ==
  /\ Live
  /\ claim[p] = "loop"
  /\ next[p] < Length
  /\ KindOf(p, next[p]) # "malformed"
  /\ pending' = [pending EXCEPT ![p] = Append(@, next[p])]
  /\ claim' = [claim EXCEPT ![p] =
       IF Len(pending[p]) + 1 >= BatchMaxSize THEN "insert" ELSE "loop"]
  /\ next' = [next EXCEPT ![p] = @ + 1]
  /\ MarkMessage(p, next[p])
  /\ UNCHANGED <<mode, session, closing, committed, rows, dropped, faults>>

\* Any other joins the batch, and a full batch is flushed.
Collect(p) ==
  /\ Live
  /\ claim[p] = "loop"
  /\ next[p] < Length
  /\ KindOf(p, next[p]) # "malformed"
  /\ pending' = [pending EXCEPT ![p] = Append(@, next[p])]
  /\ claim' = [claim EXCEPT ![p] =
       IF Len(pending[p]) + 1 >= BatchMaxSize THEN "insert" ELSE "loop"]
  /\ next' = [next EXCEPT ![p] = @ + 1]
  /\ UNCHANGED <<mode, session, closing, marked, committed, rows, historyVars,
                 faults>>

\* The ticker fires; an empty batch is not flushed.
Tick(p) ==
  /\ Live
  /\ claim[p] = "loop"
  /\ pending[p] # << >>
  /\ claim' = [claim EXCEPT ![p] = "insert"]
  /\ UNCHANGED <<mode, session, closing, next, pending, marked, committed,
                 rows, historyVars, faults>>

\* Mutant: what was received is marked on the way out.
ReturnAndMark(p) ==
  /\ mode \in {"rebalancing", "stopping"}
  /\ claim[p] = "loop"
  /\ claim' = [claim EXCEPT ![p] = "returned"]
  /\ pending' = [pending EXCEPT ![p] = << >>]
  /\ marked' = [marked EXCEPT ![p] = next[p]]
  /\ UNCHANGED <<mode, session, closing, next, committed, rows, historyVars,
                 faults>>

\* session.Context().Done(): the batch is forgotten.
ReturnOnDone(p) ==
  /\ mode \in {"rebalancing", "stopping"}
  /\ claim[p] = "loop"
  /\ claim' = [claim EXCEPT ![p] = "returned"]
  /\ pending' = [pending EXCEPT ![p] = << >>]
  /\ UNCHANGED <<mode, session, closing, next, marked, committed, rows,
                 historyVars, faults>>

\* The channel is closed: one last flush, then return.
ReturnOnClosed(p) ==
  /\ mode \in {"rebalancing", "stopping"}
  /\ claim[p] = "loop"
  /\ claim' = [claim EXCEPT ![p] = IF pending[p] = << >> THEN "returned" ELSE "insert"]
  /\ closing' = closing \union {p}
  /\ UNCHANGED <<mode, session, next, pending, marked, committed, rows,
                 historyVars, faults>>

-----------------------------------------------------------------------------
(* flush.                                                                  *)

\* Where flush returns to.
AfterFlush(p) == IF p \in closing THEN "returned" ELSE "loop"

\* InsertBatch returns nil: every message has become a row.
Insert(p) ==
  /\ claim[p] = "insert"
  /\ \A n \in Batch(p) : KindOf(p, n) = "row"
  /\ rows' = [m \in Messages |-> IF m \in GoodRows(p) THEN rows[m] + 1 ELSE rows[m]]
  /\ claim' = [claim EXCEPT ![p] = "mark"]
  /\ UNCHANGED <<mode, session, closing, next, pending, marked, committed,
                 historyVars, faults>>

\* MarkMessage for one message of the batch after another.
Mark(p) ==
  /\ claim[p] = "mark"
  /\ MarkMessage(p, Head(pending[p]))
  /\ pending' = [pending EXCEPT ![p] = Tail(@)]
  /\ claim' = [claim EXCEPT ![p] = IF Len(pending[p]) = 1 THEN AfterFlush(p) ELSE "mark"]
  /\ UNCHANGED <<mode, session, closing, next, committed, rows, dropped, faults>>

\* Mutant: the failed batch is kept and inserted again.
RetryBatch(p) ==
  /\ dropped' = dropped \union {<<p, n>> : n \in Batch(p)}
  /\ UNCHANGED <<mode, session, claimVars, committed, acked>>

\* The error branch: nothing is marked, and the batch is dropped.
DropBatch(p) ==
  /\ dropped' = dropped \union {<<p, n>> : n \in Batch(p)}
  /\ pending' = [pending EXCEPT ![p] = << >>]
  /\ claim' = [claim EXCEPT ![p] = AfterFlush(p)]
  /\ UNCHANGED <<mode, session, closing, next, marked, committed, acked>>

\* Mutant: the error branch goes on to the marks.
InsertFailsAndMarks(p) ==
  /\ claim[p] = "insert"
  /\ FaultOrOver
  /\ claim' = [claim EXCEPT ![p] = "mark"]
  /\ UNCHANGED <<mode, session, closing, next, pending, marked, committed,
                 rows, historyVars>>

\* PrepareBatch or Send fails; what was sent may be stored all the same.
InsertFails(p) ==
  /\ claim[p] = "insert"
  /\ FaultOrOver
  /\ \E stored \in {{}, GoodRows(p)} :
       rows' = [m \in Messages |-> IF m \in stored THEN rows[m] + 1 ELSE rows[m]]
  /\ DropBatch(p)

\* Some rows were skipped: the others are stored, and then an error returned.
InsertSkips(p) ==
  /\ claim[p] = "insert"
  /\ \E n \in Batch(p) : KindOf(p, n) = "badrow"
  /\ rows' = [m \in Messages |-> IF m \in GoodRows(p) THEN rows[m] + 1 ELSE rows[m]]
  /\ DropBatch(p)
  /\ UNCHANGED faults

-----------------------------------------------------------------------------
(* Sessions: RunConsumerGroup, main and sarama.                            *)

EndSession(newMode) ==
  /\ mode = "consuming"
  /\ session < MaxSessions
  /\ mode' = newMode
  /\ UNCHANGED <<session, claimVars, committed, rows, historyVars, faults>>

Rebalance == EndSession("rebalancing")
Terminate == EndSession("stopping")

AutoCommit ==
  /\ Live
  /\ committed # marked
  /\ committed' = marked
  /\ UNCHANGED <<mode, session, claimVars, rows, historyVars, faults>>

AllReturned == \A p \in Partitions : claim[p] = "returned"

StartSession(offsets) ==
  /\ mode' = "consuming"
  /\ session' = session + 1
  /\ claim' = [p \in Partitions |-> "loop"]
  /\ closing' = {}
  /\ next' = offsets
  /\ marked' = offsets
  /\ pending' = [p \in Partitions |-> << >>]
  /\ UNCHANGED <<rows, historyVars, faults>>

\* Consume returns once every claim has, flushing the marks, and the loop
\* joins the next generation.
NewSession ==
  /\ mode = "rebalancing" /\ AllReturned
  /\ committed' = marked
  /\ StartSession(marked)

\* The consumer has stopped, and main ends.
Exit ==
  /\ mode = "stopping" /\ AllReturned
  /\ committed' = marked
  /\ mode' = "down"
  /\ UNCHANGED <<session, claimVars, rows, historyVars, faults>>

\* A crash, or shutdownTimeout; an insert under way may be stored or not.
Crash ==
  /\ Live
  /\ session < MaxSessions
  /\ Fault
  /\ mode' = "down"
  /\ \E stored \in SUBSET {p \in Partitions : claim[p] = "insert"} :
       rows' = [m \in Messages |-> IF \E p \in stored : m \in GoodRows(p)
                                     THEN rows[m] + 1 ELSE rows[m]]
  /\ UNCHANGED <<session, claimVars, committed, historyVars>>

Restart ==
  /\ mode = "down"
  /\ StartSession(committed)
  /\ UNCHANGED committed

-----------------------------------------------------------------------------
FlushStep(p) ==
  Live /\ (Insert(p) \/ Mark(p) \/ InsertFails(p) \/ InsertSkips(p))

ClaimStep(p) ==
  \/ Skip(p) \/ Collect(p) \/ Tick(p) \/ ReturnOnDone(p) \/ ReturnOnClosed(p)
  \/ FlushStep(p)

Next ==
  \/ \E p \in Partitions : ClaimStep(p)
  \/ AutoCommit \/ Rebalance \/ Terminate \/ NewSession \/ Exit
  \/ Crash \/ Restart

(***************************************************************************)
(* A claim that can go on does: messages arrive, the ticker fires and      *)
(* ClickHouse answers; sarama starts the next session.  Rebalances,        *)
(* signals, crashes and failing inserts are the environment's.             *)
(***************************************************************************)
Fairness ==
  /\ \A p \in Partitions : WF_vars(ClaimStep(p))
  /\ WF_vars(NewSession) /\ WF_vars(Exit) /\ WF_vars(Restart)

Spec == Init /\ [][Next]_vars /\ Fairness

-----------------------------------------------------------------------------
(* Properties.                                                             *)

\* A message is marked only when its row is in ClickHouse; the one exception
\* is a message that could not be decoded.
MarkedIsStored ==
  \A m \in acked : Kind[m] = "malformed" \/ rows[m] > 0

\* "Duplicate analytical rows on redelivery": one session adds at most one
\* row for a message, so that copies come from redelivery alone.
OneRowPerSession == \A m \in Messages : rows[m] <= session

\* While nothing malformed is in a partition its mark stays behind the batch:
\* a crash then loses nothing of it.
MarkStaysBehindBatch ==
  \A p \in Partitions :
    (\A n \in Offsets : KindOf(p, n) # "malformed") =>
      \A n \in Batch(p) : marked[p] <= n

\* The messages that may have no row: malformed ones, those of a batch logged as
\* failed, and those in the batch when a later malformed message was marked.
Explained ==
  dropped \union
    {m \in Messages :
       \E n \in m[2] .. Length - 1 :
         KindOf(m[1], n) = "malformed" /\ <<m[1], n>> \in acked}

\* The service keeps ConsumerFeed's promise to its readers, whatever crashes and
\* rebalances come in between: the group commits past a message only when it
\* has its row or is one of those explained; its commits never go back; and
\* every message is settled in the end.
Contract == INSTANCE ConsumerFeed WITH recorded <- rows, givenUp <- Explained
ContractSpec == Contract!Spec

\* "If ClickHouse insertion fails, none of the batch's offsets are marked, so
\* every message in it is safely redelivered": the group does not commit past
\* a message of a failed batch that has no row.
FailedBatchIsRedelivered ==
  \A m \in dropped : rows[m] = 0 => committed[m[1]] <= m[2]
=============================================================================
