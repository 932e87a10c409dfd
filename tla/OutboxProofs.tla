---------------------------- MODULE OutboxProofs ----------------------------
(***************************************************************************)
(* The safety of payments-service's outbox, for any requests, any keys,    *)
(* any number of tasks, any batch size and any number of faults.           *)
(*                                                                         *)
(* The properties are not inductive by themselves: one payment per key     *)
(* rests on who holds the lock of the unique index, and nothing being lost *)
(* or made up on the topic rests on what the relays carry in memory.       *)
(***************************************************************************)
EXTENDS Outbox, FiniteSetTheorems, SequenceTheorems, TLAPS

-----------------------------------------------------------------------------
(* The inductive invariant.                                                *)

\* A request that has not reached COMMIT, or was refused, has no payment.
NotYetPaid ==
  \A r \in Requests :
    request[r] \in {"new", "executed", "inserted", "queued", "invalid", "conflict"}
      => r \notin transactions

\* The unique index: while a request holds its key, no other request holds it
\* and no payment has it.
KeyLock ==
  \A r, s \in Requests :
    HoldsKey(r) /\ KeyOf[s] = KeyOf[r] /\ s # r =>
      ~HoldsKey(s) /\ s \notin transactions

DbInv ==
  PaymentHasEvent /\ NotYetPaid /\ KeyLock /\ OnePaymentPerKey /\ TruthfulResponses

\* A relay carries events of committed payments only, and before it marks one
\* the event is on the topic.
RelayInv ==
  \A t \in Tasks :
    /\ \A i \in 1 .. Len(relay[t].batch) : relay[t].batch[i] \in transactions
    /\ relay[t].pc = "mark" => topic[Head(relay[t].batch)] > 0

OutboxInv == TypeOK /\ DbInv /\ RelayInv /\ MarkedIsOnTopic /\ NoPhantomEvent

-----------------------------------------------------------------------------
(* Sequences and batches.                                                  *)

\* The first event of a batch, and what is left when it is done.
LEMMA TailElements ==
  ASSUME NEW S, NEW s \in Seq(S), s # << >>
  PROVE  /\ Head(s) \in S /\ Head(s) = s[1]
         /\ Len(s) \in Nat /\ Len(s) >= 1
         /\ Tail(s) \in Seq(S)
         /\ Len(Tail(s)) = Len(s) - 1
         /\ \A i \in 1 .. Len(s) - 1 : Tail(s)[i] = s[i + 1]
         /\ Tail(s) # << >> <=> Len(s) # 1
<1>1. /\ Head(s) \in S /\ Head(s) = s[1]
      /\ Len(s) \in Nat /\ Len(s) >= 1
      /\ Tail(s) \in Seq(S)
      /\ Len(Tail(s)) = Len(s) - 1
      /\ \A i \in 1 .. Len(s) - 1 : Tail(s)[i] = s[i + 1]
  OBVIOUS
<1>2. Tail(s) = << >> <=> Len(Tail(s)) = 0
  BY <1>1, EmptySeq
<1>3. QED
  BY <1>1, <1>2

\* A function on 1 .. n is a sequence of length n.
LEMMA FunctionIsSeq ==
  ASSUME NEW S, NEW n \in Nat, NEW f \in [1 .. n -> S]
  PROVE  f \in Seq(S) /\ Len(f) = n
<1>1. f = [i \in 1 .. n |-> f[i]] /\ DOMAIN f = 1 .. n /\ \A i \in 1 .. n : f[i] \in S
  OBVIOUS
<1>2. [i \in 1 .. n |-> f[i]] \in Seq(S) /\ Len([i \in 1 .. n |-> f[i]]) = n
  BY <1>1
<1>3. QED
  BY <1>1, <1>2

\* What the SELECT returns is a non-empty sequence of distinct pending events.
LEMMA BatchElements ==
  ASSUME Pending # {}, NEW b \in Batches
  PROVE  /\ b \in Seq(Requests) /\ b # << >>
         /\ \A i \in 1 .. Len(b) : b[i] \in Pending
         /\ \A i, j \in 1 .. Len(b) : i < j => b[i] # b[j]
<1>1. IsFiniteSet(Pending)
  <2>1. IsFiniteSet(Requests) /\ Pending \in SUBSET Requests
    BY OutboxAssumption DEF Pending
  <2>2. QED
    BY <2>1, FS_Subset
<1>2. Cardinality(Pending) \in Nat /\ Cardinality(Pending) # 0
  BY <1>1, FS_CardinalityType, FS_EmptySet
<1>3. BatchLen \in Nat /\ BatchLen >= 1
  BY <1>2, OutboxAssumption DEF BatchLen
<1>4. /\ b \in [1 .. BatchLen -> Pending]
      /\ \A i, j \in 1 .. BatchLen : i < j => b[i] # b[j]
  BY DEF Batches, OldestFirst
<1>5. b \in [1 .. BatchLen -> Requests]
  BY <1>4 DEF Pending
<1>6. b \in Seq(Requests) /\ Len(b) = BatchLen
  BY <1>3, <1>5, FunctionIsSeq
<1>7. QED
  BY <1>3, <1>4, <1>6

\* A relay between tick and the end of its batch has an event in hand.
LEMMA InHand ==
  ASSUME TypeOK, NEW t \in Tasks, relay[t].pc \in {"publish", "mark"}
  PROVE  /\ relay[t].batch \in Seq(Requests) /\ relay[t].batch # << >>
         /\ Current(t) \in Requests /\ Current(t) = relay[t].batch[1]
         /\ 1 \in 1 .. Len(relay[t].batch)
<1>1. relay[t].batch \in Seq(Requests) /\ relay[t].batch # << >>
  BY DEF TypeOK
<1>2. QED
  BY <1>1, TailElements DEF Current

\* Advance leaves the other relays alone, and the rest of the batch.
LEMMA AdvanceStep ==
  ASSUME TypeOK, NEW t \in Tasks, relay[t].pc \in {"publish", "mark"}, Advance(t)
  PROVE  /\ relay' \in [Tasks -> [pc : {"idle", "publish", "mark", "stopped", "down"},
                                  batch : Seq(Requests)]]
         /\ \A u \in Tasks : relay'[u].pc \in {"publish", "mark"} <=> relay'[u].batch # << >>
         /\ \A u \in Tasks : u # t => relay'[u] = relay[u]
         /\ relay'[t].pc \in {"idle", "publish"}
         /\ Len(relay'[t].batch) = Len(relay[t].batch) - 1
         /\ Len(relay[t].batch) \in Nat
         /\ \A i \in 1 .. Len(relay[t].batch) - 1 :
              relay'[t].batch[i] = relay[t].batch[i + 1]
<1>1. /\ relay[t].batch \in Seq(Requests) /\ relay[t].batch # << >>
      /\ relay \in [Tasks -> [pc : {"idle", "publish", "mark", "stopped", "down"},
                              batch : Seq(Requests)]]
      /\ \A u \in Tasks : relay[u].pc \in {"publish", "mark"} <=> relay[u].batch # << >>
  BY DEF TypeOK
<1> DEFINE rest == Tail(relay[t].batch)
<1>2. /\ rest \in Seq(Requests)
      /\ Len(rest) = Len(relay[t].batch) - 1
      /\ Len(relay[t].batch) \in Nat
      /\ \A i \in 1 .. Len(relay[t].batch) - 1 : rest[i] = relay[t].batch[i + 1]
      /\ rest # << >> <=> Len(relay[t].batch) # 1
  BY <1>1, TailElements
<1> DEFINE new == [pc |-> IF Len(relay[t].batch) = 1 THEN "idle" ELSE "publish",
                   batch |-> rest]
<1>3. relay' = [relay EXCEPT ![t] = new]
  BY DEF Advance
<1>4. /\ new \in [pc : {"idle", "publish", "mark", "stopped", "down"}, batch : Seq(Requests)]
      /\ new.batch = rest /\ new.pc \in {"idle", "publish"}
      /\ new.pc \in {"publish", "mark"} <=> rest # << >>
  BY <1>2
<1> HIDE DEF rest, new
<1>5. relay'[t] = new /\ \A u \in Tasks : u # t => relay'[u] = relay[u]
  BY <1>1, <1>3
<1>6. relay' \in [Tasks -> [pc : {"idle", "publish", "mark", "stopped", "down"},
                            batch : Seq(Requests)]]
  BY <1>1, <1>3, <1>4
<1>7. \A u \in Tasks : relay'[u].pc \in {"publish", "mark"} <=> relay'[u].batch # << >>
  BY <1>1, <1>4, <1>5
<1>8. QED
  BY <1>2, <1>4, <1>5, <1>6, <1>7

-----------------------------------------------------------------------------
\* The invariant holds of a service with an empty database and idle relays.
LEMMA InitOutboxInv == Init => OutboxInv
<1> SUFFICES ASSUME Init PROVE OutboxInv
  OBVIOUS
<1> USE OutboxAssumption DEF Init
<1>1. TypeOK
  <2>1. \A t \in Tasks : relay[t].batch = << >> /\ relay[t].pc = "idle"
    OBVIOUS
  <2>2. relay \in [Tasks -> [pc : {"idle", "publish", "mark", "stopped", "down"},
                             batch : Seq(Requests)]]
    OBVIOUS
  <2>3. QED
    BY <2>1, <2>2 DEF TypeOK, Open, Answered
<1>2. DbInv
  BY DEF DbInv, PaymentHasEvent, NotYetPaid, KeyLock, OnePaymentPerKey,
     TruthfulResponses, HoldsKey
<1>3. RelayInv
  BY DEF RelayInv
<1>4. MarkedIsOnTopic /\ NoPhantomEvent
  BY DEF MarkedIsOnTopic, NoPhantomEvent
<1>5. QED
  BY <1>1, <1>2, <1>3, <1>4 DEF OutboxInv

-----------------------------------------------------------------------------
(* The handler.  Its steps leave the relays and the topic alone; what they *)
(* may disturb is who holds which key.                                     *)

\* A step that changes request[r] only, to a state without a payment.
LEMMA RequestSteps ==
  ASSUME OutboxInv, NEW r \in Requests,
         \/ Reject(r) \/ Execute(r) \/ InsertTransaction(r)
         \/ Conflict(r) \/ InsertEvent(r) \/ Fail(r)
  PROVE  OutboxInv'
<1> USE DEF OutboxInv
<1>1. /\ UNCHANGED <<dbVars, relayVars, kafkaVars>>
      /\ \E state \in {"invalid", "executed", "inserted", "conflict", "queued", "error"} :
           request' = [request EXCEPT ![r] = state]
      /\ faults' \in 0 .. MaxFaults
  BY OutboxAssumption DEF Reject, Execute, InsertTransaction, Conflict,
     InsertEvent, Fail, Goto, Fault, TypeOK
<1>2. TypeOK'
  BY <1>1 DEF TypeOK, dbVars, relayVars, kafkaVars, Open, Answered
<1>3. RelayInv' /\ MarkedIsOnTopic' /\ NoPhantomEvent'
  BY <1>1 DEF RelayInv, MarkedIsOnTopic, NoPhantomEvent, dbVars, relayVars, kafkaVars
<1>4. PaymentHasEvent' /\ OnePaymentPerKey'
  BY <1>1 DEF DbInv, PaymentHasEvent, OnePaymentPerKey, dbVars
<1> USE DEF DbInv, dbVars, TypeOK, Open
<1>5. CASE Reject(r)
  BY <1>2, <1>3, <1>4, <1>5 DEF Reject, Goto, NotYetPaid, KeyLock, HoldsKey, TruthfulResponses
<1>6. CASE Execute(r)
  BY <1>2, <1>3, <1>4, <1>6 DEF Execute, Goto, NotYetPaid, KeyLock, HoldsKey, TruthfulResponses
<1>7. CASE InsertTransaction(r)
  <2>1. \A s \in Requests \ {r} : KeyOf[s] = KeyOf[r] => ~HoldsKey(s) /\ s \notin transactions
    BY <1>7 DEF InsertTransaction
  <2>2. request' = [request EXCEPT ![r] = "inserted"] /\ r \notin transactions
    BY <1>7 DEF InsertTransaction, Goto, NotYetPaid
  <2>3. KeyLock'
    BY <1>1, <2>1, <2>2 DEF KeyLock, HoldsKey
  <2>4. NotYetPaid' /\ TruthfulResponses'
    BY <1>1, <2>2 DEF NotYetPaid, TruthfulResponses
  <2>5. QED
    BY <1>2, <1>3, <1>4, <2>3, <2>4
<1>8. CASE Conflict(r)
  <2>1. /\ request' = [request EXCEPT ![r] = "conflict"] /\ r \notin transactions
        /\ \E s \in transactions : KeyOf[s] = KeyOf[r]
    BY <1>8 DEF Conflict, Goto, NotYetPaid
  <2>2. KeyLock' /\ NotYetPaid'
    BY <1>1, <2>1 DEF KeyLock, HoldsKey, NotYetPaid
  <2>3. TruthfulResponses'
    BY <1>1, <2>1 DEF TruthfulResponses
  <2>4. QED
    BY <1>2, <1>3, <1>4, <2>2, <2>3
<1>9. CASE InsertEvent(r)
  <2>1. request' = [request EXCEPT ![r] = "queued"] /\ request[r] = "inserted"
    BY <1>9 DEF InsertEvent, Goto
  <2>2. \A s \in Requests : HoldsKey(s)' <=> HoldsKey(s)
    BY <2>1 DEF HoldsKey
  <2>3. KeyLock'
    BY <1>1, <2>2 DEF KeyLock
  <2>4. r \notin transactions
    BY <2>1 DEF NotYetPaid
  <2>5. NotYetPaid' /\ TruthfulResponses'
    BY <1>1, <2>1, <2>4 DEF NotYetPaid, TruthfulResponses
  <2>6. QED
    BY <1>2, <1>3, <1>4, <2>3, <2>5
<1>10. CASE Fail(r)
  BY <1>2, <1>3, <1>4, <1>10 DEF Fail, Goto, NotYetPaid, KeyLock, HoldsKey, TruthfulResponses
<1>11. QED
  BY <1>5, <1>6, <1>7, <1>8, <1>9, <1>10

\* COMMIT: the holder of the key becomes the one payment with it.
LEMMA CommitSteps ==
  ASSUME OutboxInv, NEW r \in Requests, Commit(r) \/ CommitUnknown(r)
  PROVE  OutboxInv'
<1> USE DEF OutboxInv
<1>1. /\ request[r] = "queued"
      /\ transactions' = transactions \union {r}
      /\ outbox' = [outbox EXCEPT ![r] = "pending"]
      /\ request' = [request EXCEPT ![r] = "created"]
           \/ request' = [request EXCEPT ![r] = "error"]
      /\ UNCHANGED <<relayVars, kafkaVars>>
      /\ faults' \in 0 .. MaxFaults
  BY OutboxAssumption DEF Commit, CommitUnknown, ApplyCommit, Goto, Fault, TypeOK
<1>2. HoldsKey(r) /\ r \notin transactions
  BY <1>1 DEF HoldsKey, DbInv, NotYetPaid
<1>3. \A s \in Requests : s # r /\ KeyOf[s] = KeyOf[r] => ~HoldsKey(s) /\ s \notin transactions
  BY <1>2 DEF DbInv, KeyLock
<1>4. TypeOK'
  BY <1>1 DEF TypeOK, relayVars, kafkaVars, Open, Answered
<1>5. PaymentHasEvent'
  BY <1>1 DEF DbInv, PaymentHasEvent, TypeOK
<1>6. NotYetPaid'
  BY <1>1 DEF DbInv, NotYetPaid, TypeOK
<1>7. KeyLock'
  BY <1>1, <1>3 DEF DbInv, KeyLock, HoldsKey, TypeOK
<1>8. OnePaymentPerKey'
  BY <1>1, <1>3 DEF DbInv, OnePaymentPerKey, TypeOK
<1>9. TruthfulResponses'
  BY <1>1 DEF DbInv, TruthfulResponses, TypeOK
<1>10. RelayInv'
  BY <1>1 DEF RelayInv, relayVars, kafkaVars
<1>11. MarkedIsOnTopic' /\ NoPhantomEvent'
  BY <1>1 DEF MarkedIsOnTopic, NoPhantomEvent, kafkaVars, TypeOK
<1>12. QED
  BY <1>4, <1>5, <1>6, <1>7, <1>8, <1>9, <1>10, <1>11 DEF DbInv

-----------------------------------------------------------------------------
(* The relay.  Its steps leave the requests alone, and of the database     *)
(* change only an event from pending to published.                         *)

\* A publish: the event is one of a committed payment.
LEMMA PublishSteps ==
  ASSUME OutboxInv, NEW t \in Tasks, Publish(t)
  PROVE  OutboxInv'
<1> USE DEF OutboxInv
<1> DEFINE e == relay[t].batch[1]
<1>1. relay[t].pc = "publish"
  BY DEF Publish
<1>2. /\ e \in Requests /\ e = Current(t) /\ e \in transactions
      /\ e = Head(relay[t].batch) /\ relay[t].batch # << >>
  BY <1>1, InHand DEF RelayInv, Current
<1>3. /\ topic' = [topic EXCEPT ![e] = @ + 1]
      /\ UNCHANGED <<request, transactions, outbox, ctxDone, inflight, excused, faults>>
      /\ relay' = [relay EXCEPT ![t].pc = "mark"]
  BY <1>2 DEF Publish, dbVars
<1> HIDE DEF e
<1>4. /\ topic' \in [Requests -> Nat]
      /\ topic'[e] > 0
      /\ \A d \in Requests : d # e => topic'[d] = topic[d]
      /\ \A d \in Requests : topic[d] > 0 => topic'[d] > 0
  <2>1. topic \in [Requests -> Nat] /\ topic' = [topic EXCEPT ![e] = @ + 1]
    BY <1>3 DEF TypeOK
  <2>2. topic' \in [Requests -> Nat] /\ topic'[e] = topic[e] + 1 /\ topic[e] \in Nat
    BY <1>2, <2>1
  <2>3. \A d \in Requests : d # e => topic'[d] = topic[d]
    BY <2>1
  <2>4. QED
    BY <1>2, <2>2, <2>3
<1>5. /\ relay' \in [Tasks -> [pc : {"idle", "publish", "mark", "stopped", "down"},
                               batch : Seq(Requests)]]
      /\ \A u \in Tasks : relay'[u].batch = relay[u].batch
      /\ \A u \in Tasks : u # t => relay'[u].pc = relay[u].pc
      /\ relay'[t].pc \in {"publish", "mark"}
  <2>1. relay \in [Tasks -> [pc : {"idle", "publish", "mark", "stopped", "down"},
                             batch : Seq(Requests)]]
    BY DEF TypeOK
  <2>2. QED
    BY <1>1, <1>3, <2>1
<1>6. TypeOK'
  BY <1>2, <1>3, <1>4, <1>5 DEF TypeOK
<1>7. DbInv'
  BY <1>3 DEF DbInv, PaymentHasEvent, NotYetPaid, KeyLock, HoldsKey,
     OnePaymentPerKey, TruthfulResponses
<1>8. RelayInv'
  <2>1. ASSUME NEW u \in Tasks, relay'[u].pc = "mark"
        PROVE  topic'[Head(relay'[u].batch)] > 0
    <3>1. CASE u = t
      BY <1>2, <1>4, <1>5, <3>1
    <3>2. CASE u # t
      <4>1. relay[u].pc = "mark" /\ Current(u) \in Requests
        BY <1>5, <2>1, <3>2, InHand
      <4>2. topic[Current(u)] > 0
        BY <4>1 DEF RelayInv, Current
      <4>3. QED
        BY <1>4, <1>5, <4>1, <4>2 DEF Current
    <3>3. QED
      BY <3>1, <3>2
  <2>2. QED
    BY <1>3, <1>5, <2>1 DEF RelayInv
<1>9. MarkedIsOnTopic'
  BY <1>3, <1>4 DEF MarkedIsOnTopic
<1>10. NoPhantomEvent'
  BY <1>2, <1>3, <1>4 DEF NoPhantomEvent, TypeOK
<1>11. QED
  BY <1>6, <1>7, <1>8, <1>9, <1>10

\* What every step that advances a relay keeps.
LEMMA AdvanceInv ==
  ASSUME OutboxInv, NEW t \in Tasks, relay[t].pc \in {"publish", "mark"}, Advance(t),
         UNCHANGED <<transactions, topic>>
  PROVE  RelayInv'
<1> USE DEF OutboxInv
<1>1. ASSUME NEW u \in Tasks
      PROVE  /\ \A i \in 1 .. Len(relay'[u].batch) : relay'[u].batch[i] \in transactions'
             /\ relay'[u].pc = "mark" => topic'[Head(relay'[u].batch)] > 0
  <2>1. CASE u = t
    <3>1. /\ relay'[t].pc # "mark"
          /\ Len(relay'[t].batch) = Len(relay[t].batch) - 1
          /\ Len(relay[t].batch) \in Nat
          /\ \A i \in 1 .. Len(relay[t].batch) - 1 :
               relay'[t].batch[i] = relay[t].batch[i + 1]
      BY AdvanceStep
    <3>2. \A i \in 1 .. Len(relay[t].batch) - 1 : i + 1 \in 1 .. Len(relay[t].batch)
      BY <3>1
    <3>3. QED
      BY <2>1, <3>1, <3>2 DEF RelayInv
  <2>2. CASE u # t
    BY <2>2, AdvanceStep DEF RelayInv
  <2>3. QED
    BY <2>1, <2>2
<1>2. QED
  BY <1>1 DEF RelayInv

\* A publish that failed: the relay goes on, and at most a SendMessage for the
\* event is left behind.  A mark that failed: the relay goes on.
LEMMA FailedSteps ==
  ASSUME OutboxInv, NEW t \in Tasks,
         PublishFails(t) \/ PublishAbandoned(t) \/ MarkFails(t)
  PROVE  OutboxInv'
<1> USE DEF OutboxInv
<1> DEFINE e == relay[t].batch[1]
<1>1. relay[t].pc \in {"publish", "mark"} /\ Advance(t)
  BY DEF PublishFails, PublishAbandoned, MarkFails
<1>2. e \in Requests /\ e = Current(t) /\ e \in transactions
  BY <1>1, InHand DEF RelayInv
<1>3. /\ UNCHANGED <<request, transactions, outbox, ctxDone, topic>>
      /\ inflight' = inflight \/ inflight' = [inflight EXCEPT ![e] = @ + 1]
      /\ excused' = excused \/ excused' = [excused EXCEPT ![e] = @ + 1]
      /\ faults' \in 0 .. MaxFaults
  <2>1. FaultOrCancelled(t) => faults' \in 0 .. MaxFaults
    BY OutboxAssumption DEF FaultOrCancelled, Fault, TypeOK
  <2>2. CASE PublishFails(t)
    BY <2>1, <2>2 DEF PublishFails, dbVars, kafkaVars
  <2>3. CASE PublishAbandoned(t)
    BY <1>2, <2>1, <2>3 DEF PublishAbandoned, dbVars
  <2>4. CASE MarkFails(t)
    BY <1>2, <2>1, <2>4 DEF MarkFails, dbVars
  <2>5. QED
    BY <2>2, <2>3, <2>4
<1> HIDE DEF e
<1>4. /\ inflight' \in [Requests -> Nat] /\ excused' \in [Requests -> Nat]
      /\ \A d \in Requests : d # e => inflight'[d] = inflight[d]
  <2>1. inflight \in [Requests -> Nat] /\ excused \in [Requests -> Nat]
    BY DEF TypeOK
  <2>2. /\ inflight' \in [Requests -> Nat]
        /\ \A d \in Requests : d # e => inflight'[d] = inflight[d]
    BY <1>2, <1>3, <2>1
  <2>3. excused' \in [Requests -> Nat]
    BY <1>2, <1>3, <2>1
  <2>4. QED
    BY <2>2, <2>3
<1>5. TypeOK'
  BY <1>1, <1>3, <1>4, AdvanceStep DEF TypeOK
<1>6. DbInv'
  BY <1>3 DEF DbInv, PaymentHasEvent, NotYetPaid, KeyLock, HoldsKey,
     OnePaymentPerKey, TruthfulResponses
<1>7. RelayInv'
  BY <1>1, <1>3, AdvanceInv
<1>8. MarkedIsOnTopic' /\ NoPhantomEvent'
  BY <1>2, <1>3, <1>4 DEF MarkedIsOnTopic, NoPhantomEvent
<1>9. QED
  BY <1>5, <1>6, <1>7, <1>8

\* The event a relay marks was published before.
LEMMA MarkStep ==
  ASSUME OutboxInv, NEW t \in Tasks, Mark(t)
  PROVE  OutboxInv'
<1> USE DEF OutboxInv
<1> DEFINE e == Current(t)
<1>1. relay[t].pc = "mark" /\ Advance(t)
  BY DEF Mark
<1>2. e \in Requests /\ e \in transactions /\ topic[e] > 0
  BY <1>1, InHand DEF RelayInv, Current
<1>3. /\ outbox' = [outbox EXCEPT ![e] = IF @ = "pending" THEN "published" ELSE @]
      /\ UNCHANGED <<request, transactions, ctxDone, inflight, topic, excused, faults>>
  BY DEF Mark, kafkaVars
<1> HIDE DEF e
<1>4. /\ outbox' \in [Requests -> {"none", "pending", "published"}]
      /\ \A d \in Requests : outbox'[d] # "none" <=> outbox[d] # "none"
      /\ \A d \in Requests : outbox'[d] = "published" => outbox[d] = "published" \/ d = e
  BY <1>2, <1>3 DEF TypeOK
<1>5. TypeOK'
  BY <1>1, <1>3, <1>4, AdvanceStep DEF TypeOK
<1>6. DbInv'
  <2>1. PaymentHasEvent'
    BY <1>3, <1>4 DEF DbInv, PaymentHasEvent
  <2>2. QED
    BY <1>3, <2>1 DEF DbInv, NotYetPaid, KeyLock, HoldsKey, OnePaymentPerKey,
       TruthfulResponses
<1>7. RelayInv'
  BY <1>1, <1>3, AdvanceInv
<1>8. MarkedIsOnTopic' /\ NoPhantomEvent'
  BY <1>2, <1>3, <1>4 DEF MarkedIsOnTopic, NoPhantomEvent
<1>9. QED
  BY <1>5, <1>6, <1>7, <1>8

\* A batch holds pending events, and those are events of committed payments.
LEMMA TickStep ==
  ASSUME OutboxInv, NEW t \in Tasks, Tick(t)
  PROVE  OutboxInv'
<1> USE DEF OutboxInv
<1>1. PICK b \in Batches : relay' = [relay EXCEPT ![t] = [pc |-> "publish", batch |-> b]]
  BY DEF Tick
<1>2. UNCHANGED <<request, dbVars, ctxDone, kafkaVars, faults>>
  BY DEF Tick
<1>3. /\ b \in Seq(Requests) /\ b # << >>
      /\ \A i \in 1 .. Len(b) : b[i] \in transactions
  <2>1. \A e \in Pending : e \in transactions
    BY DEF Pending, DbInv, PaymentHasEvent
  <2>2. QED
    BY <2>1, BatchElements DEF Tick
<1>4. /\ relay'[t] = [pc |-> "publish", batch |-> b]
      /\ \A u \in Tasks : u # t => relay'[u] = relay[u]
      /\ relay' \in [Tasks -> [pc : {"idle", "publish", "mark", "stopped", "down"},
                               batch : Seq(Requests)]]
  BY <1>1, <1>3 DEF TypeOK
<1>5. \A u \in Tasks : relay'[u].pc \in {"publish", "mark"} <=> relay'[u].batch # << >>
  <2>1. relay'[t].pc = "publish" /\ relay'[t].batch = b
    BY <1>4
  <2>2. \A u \in Tasks : relay[u].pc \in {"publish", "mark"} <=> relay[u].batch # << >>
    BY DEF TypeOK
  <2>3. QED
    BY <1>3, <1>4, <2>1, <2>2
<1>6. TypeOK'
  BY <1>2, <1>4, <1>5 DEF TypeOK, dbVars, kafkaVars
<1>7. DbInv' /\ MarkedIsOnTopic' /\ NoPhantomEvent'
  BY <1>2 DEF DbInv, PaymentHasEvent, NotYetPaid, KeyLock, HoldsKey,
     OnePaymentPerKey, TruthfulResponses, MarkedIsOnTopic, NoPhantomEvent, dbVars, kafkaVars
<1>8. RelayInv'
  BY <1>2, <1>3, <1>4 DEF RelayInv, dbVars, kafkaVars
<1>9. QED
  BY <1>6, <1>7, <1>8

\* A SendMessage nobody waits for, and one that sends its event again.
LEMMA LandSteps ==
  ASSUME OutboxInv, NEW e \in Requests, Land(e) \/ Drop(e) \/ ProducerRetry(e)
  PROVE  OutboxInv'
<1> USE DEF OutboxInv
<1>1. /\ e \in transactions
      /\ inflight' = inflight \/ (inflight[e] > 0 /\ inflight' = [inflight EXCEPT ![e] = @ - 1])
      /\ topic' = topic \/ topic' = [topic EXCEPT ![e] = @ + 1]
      /\ UNCHANGED <<request, transactions, outbox, relay, ctxDone>>
  <2>1. inflight[e] > 0 => e \in transactions
    BY DEF NoPhantomEvent, TypeOK
  <2>2. ASSUME NEW t \in Tasks, relay[t].pc = "publish", Current(t) = e
        PROVE  e \in transactions
    BY <2>2, InHand DEF RelayInv
  <2>3. CASE Land(e) \/ Drop(e)
    BY <2>1, <2>3 DEF Land, Drop, dbVars, relayVars
  <2>4. CASE ProducerRetry(e)
    BY <2>1, <2>2, <2>4 DEF ProducerRetry, dbVars, relayVars
  <2>5. QED
    BY <2>3, <2>4
<1>2. excused' \in [Requests -> Nat] /\ faults' \in 0 .. MaxFaults
  <2>1. faults \in 0 .. MaxFaults /\ excused \in [Requests -> Nat] /\ MaxFaults \in Nat
    BY OutboxAssumption DEF TypeOK
  <2>2. CASE Land(e) \/ Drop(e)
    BY <2>1, <2>2 DEF Land, Drop
  <2>3. CASE ProducerRetry(e)
    BY <2>1, <2>3 DEF ProducerRetry, Fault
  <2>4. QED
    BY <2>2, <2>3
<1>3. /\ inflight' \in [Requests -> Nat] /\ topic' \in [Requests -> Nat]
      /\ \A d \in Requests : d # e => topic'[d] = topic[d] /\ inflight'[d] = inflight[d]
      /\ \A d \in Requests : topic[d] > 0 => topic'[d] > 0
  <2>1. inflight \in [Requests -> Nat] /\ topic \in [Requests -> Nat]
    BY DEF TypeOK
  <2>2. /\ inflight' \in [Requests -> Nat]
        /\ \A d \in Requests : d # e => inflight'[d] = inflight[d]
    BY <1>1, <2>1
  <2>3. /\ topic' \in [Requests -> Nat]
        /\ \A d \in Requests : d # e => topic'[d] = topic[d]
        /\ \A d \in Requests : topic[d] > 0 => topic'[d] > 0
    BY <1>1, <2>1
  <2>4. QED
    BY <2>2, <2>3
<1>4. TypeOK'
  BY <1>1, <1>2, <1>3 DEF TypeOK
<1>5. DbInv'
  BY <1>1 DEF DbInv, PaymentHasEvent, NotYetPaid, KeyLock, HoldsKey,
     OnePaymentPerKey, TruthfulResponses
<1>6. RelayInv'
  <2>1. ASSUME NEW t \in Tasks, relay[t].pc = "mark"
        PROVE  topic'[Head(relay[t].batch)] > 0
    <3>1. Current(t) \in Requests /\ topic[Current(t)] > 0
      BY <2>1, InHand DEF RelayInv, Current
    <3>2. QED
      BY <1>3, <3>1 DEF Current
  <2>2. QED
    BY <1>1, <2>1 DEF RelayInv
<1>7. MarkedIsOnTopic'
  BY <1>1, <1>3 DEF MarkedIsOnTopic
<1>8. NoPhantomEvent'
  BY <1>1, <1>3 DEF NoPhantomEvent
<1>9. QED
  BY <1>4, <1>5, <1>6, <1>7, <1>8

-----------------------------------------------------------------------------
(* The process.                                                            *)

\* Steps that move a relay without an event to another place without one.
LEMMA ProcessSteps ==
  ASSUME OutboxInv, NEW t \in Tasks, Stop(t) \/ Restart(t) \/ Cancel(t)
  PROVE  OutboxInv'
<1> USE DEF OutboxInv
<1>1. /\ UNCHANGED <<request, transactions, outbox, inflight, topic, excused>>
      /\ ctxDone' \in [Tasks -> BOOLEAN]
      /\ faults' \in 0 .. MaxFaults
      /\ \/ relay' = relay
         \/ relay[t].pc = "idle" /\ relay' = [relay EXCEPT ![t].pc = "stopped"]
         \/ relay[t].pc = "down" /\ relay' = [relay EXCEPT ![t].pc = "idle"]
  <2>1. ctxDone \in [Tasks -> BOOLEAN] /\ faults \in 0 .. MaxFaults /\ MaxFaults \in Nat
    BY OutboxAssumption DEF TypeOK
  <2>2. CASE Stop(t)
    BY <2>1, <2>2 DEF Stop, dbVars, kafkaVars
  <2>3. CASE Restart(t)
    BY <2>1, <2>3 DEF Restart, dbVars, kafkaVars
  <2>4. CASE Cancel(t)
    BY <2>1, <2>4 DEF Cancel, Fault, dbVars, kafkaVars
  <2>5. QED
    BY <2>2, <2>3, <2>4
<1>2. /\ relay \in [Tasks -> [pc : {"idle", "publish", "mark", "stopped", "down"},
                              batch : Seq(Requests)]]
      /\ \A u \in Tasks : relay[u].pc \in {"publish", "mark"} <=> relay[u].batch # << >>
  BY DEF TypeOK
<1>3. /\ relay' \in [Tasks -> [pc : {"idle", "publish", "mark", "stopped", "down"},
                               batch : Seq(Requests)]]
      /\ \A u \in Tasks : relay'[u].batch = relay[u].batch
      /\ \A u \in Tasks : relay'[u].pc # relay[u].pc =>
           /\ relay[u].pc \notin {"publish", "mark"}
           /\ relay'[u].pc \notin {"publish", "mark"}
  <2>1. CASE relay' = relay
    BY <1>2, <2>1
  <2>2. CASE relay[t].pc = "idle" /\ relay' = [relay EXCEPT ![t].pc = "stopped"]
    BY <1>2, <2>2
  <2>3. CASE relay[t].pc = "down" /\ relay' = [relay EXCEPT ![t].pc = "idle"]
    BY <1>2, <2>3
  <2>4. QED
    BY <1>1, <2>1, <2>2, <2>3
<1>4. TypeOK'
  <2>1. \A u \in Tasks : relay'[u].pc \in {"publish", "mark"} <=> relay'[u].batch # << >>
    BY <1>2, <1>3
  <2>2. QED
    BY <1>1, <1>3, <2>1 DEF TypeOK
<1>5. DbInv' /\ MarkedIsOnTopic' /\ NoPhantomEvent'
  BY <1>1 DEF DbInv, PaymentHasEvent, NotYetPaid, KeyLock, HoldsKey,
     OnePaymentPerKey, TruthfulResponses, MarkedIsOnTopic, NoPhantomEvent
<1>6. RelayInv'
  BY <1>1, <1>3 DEF RelayInv
<1>7. QED
  BY <1>4, <1>5, <1>6

\* The death of a task: its requests and its batch are gone, and with them
\* the locks of its open SQL transactions.
LEMMA DieInv ==
  ASSUME OutboxInv, NEW t \in Tasks, Die(t),
         faults' \in 0 .. MaxFaults, excused' \in [Requests -> Nat],
         inflight' \in [Requests -> Nat],
         \A e \in Requests : inflight'[e] # inflight[e] => e \in transactions
  PROVE  OutboxInv'
<1> USE DEF OutboxInv
<1>1. /\ request' = [r \in Requests |->
                      IF Home[r] = t /\ request[r] \in Open THEN "lost" ELSE request[r]]
      /\ relay' = [relay EXCEPT ![t] = [pc |-> "down", batch |-> << >>]]
      /\ ctxDone' = [ctxDone EXCEPT ![t] = FALSE]
      /\ UNCHANGED <<transactions, outbox, topic>>
  BY DEF Die, dbVars
<1>2. \A r \in Requests : request'[r] = request[r] \/ request'[r] = "lost"
  BY <1>1
<1>3. /\ relay' \in [Tasks -> [pc : {"idle", "publish", "mark", "stopped", "down"},
                               batch : Seq(Requests)]]
      /\ relay'[t] = [pc |-> "down", batch |-> << >>]
      /\ \A u \in Tasks : u # t => relay'[u] = relay[u]
  BY <1>1, EmptySeq DEF TypeOK
<1>4. TypeOK'
  <2>1. request' \in [Requests -> {"new"} \union Open \union Answered]
    BY <1>1 DEF TypeOK, Answered
  <2>2. ctxDone' \in [Tasks -> BOOLEAN]
    BY <1>1 DEF TypeOK
  <2>3. \A u \in Tasks : relay'[u].pc \in {"publish", "mark"} <=> relay'[u].batch # << >>
    <3>1. \A u \in Tasks : relay[u].pc \in {"publish", "mark"} <=> relay[u].batch # << >>
      BY DEF TypeOK
    <3>2. relay'[t].pc = "down" /\ relay'[t].batch = << >>
      BY <1>3
    <3>3. QED
      BY <1>3, <3>1, <3>2
  <2>4. QED
    BY <1>1, <1>3, <2>1, <2>2, <2>3 DEF TypeOK
<1>5. DbInv'
  BY <1>1, <1>2 DEF DbInv, PaymentHasEvent, NotYetPaid, KeyLock, HoldsKey,
     OnePaymentPerKey, TruthfulResponses
<1>6. RelayInv'
  <2>1. Len(relay'[t].batch) = 0 /\ relay'[t].pc # "mark"
    BY <1>3, EmptySeq
  <2>2. QED
    BY <1>1, <1>3, <2>1 DEF RelayInv
<1>7. MarkedIsOnTopic'
  BY <1>1 DEF MarkedIsOnTopic
<1>8. NoPhantomEvent'
  BY <1>1 DEF NoPhantomEvent
<1>9. QED
  BY <1>4, <1>5, <1>6, <1>7, <1>8

\* A process that ends rolls its open SQL transactions back and forgets its
\* batch; the invariant does not notice.
LEMMA ExitStep ==
  ASSUME OutboxInv, NEW t \in Tasks, Exit(t)
  PROVE  OutboxInv'
<1>1. /\ Die(t) /\ UNCHANGED <<inflight, excused, faults>>
      /\ faults \in 0 .. MaxFaults
      /\ inflight \in [Requests -> Nat] /\ excused \in [Requests -> Nat]
  BY DEF Exit, OutboxInv, TypeOK
<1>2. QED
  BY <1>1, DieInv

\* A crash may leave behind a SendMessage of the event in hand.
LEMMA CrashStep ==
  ASSUME OutboxInv, NEW t \in Tasks, Crash(t)
  PROVE  OutboxInv'
<1> DEFINE e == Current(t)
<1>1. /\ TypeOK /\ MaxFaults \in Nat
      /\ inflight \in [Requests -> Nat] /\ excused \in [Requests -> Nat]
      /\ relay[t].pc \in {"idle", "publish", "mark", "stopped", "down"}
      /\ relay[t].pc # "down" /\ Die(t)
  BY OutboxAssumption DEF Crash, Up, OutboxInv, TypeOK
<1>2. faults' \in 0 .. MaxFaults
  BY <1>1 DEF Crash, Fault, TypeOK
<1>3. CASE relay[t].pc = "idle" \/ relay[t].pc = "stopped"
  <2>1. UNCHANGED <<inflight, excused>>
    BY <1>3 DEF Crash
  <2>2. QED
    BY <1>1, <1>2, <2>1, DieInv
<1>4. CASE relay[t].pc \in {"publish", "mark"}
  <2>1. e \in Requests /\ e \in transactions
    BY <1>1, <1>4, InHand DEF OutboxInv, RelayInv
  <2>2. /\ excused' = [excused EXCEPT ![e] = @ + 1]
        /\ inflight' = inflight \/ inflight' = [inflight EXCEPT ![e] = @ + 1]
    <3>1. ~(relay[t].pc = "idle" \/ relay[t].pc = "stopped")
      BY <1>4
    <3>2. QED
      BY <3>1, Zenon DEF Crash
  <2> HIDE DEF e
  <2>3. excused' \in [Requests -> Nat]
    BY <1>1, <2>1, <2>2
  <2>4. /\ inflight' \in [Requests -> Nat]
        /\ \A d \in Requests : inflight'[d] # inflight[d] => d \in transactions
    BY <1>1, <2>1, <2>2
  <2>5. QED
    BY <1>1, <1>2, <2>3, <2>4, DieInv
<1>5. QED
  BY <1>1, <1>3, <1>4

-----------------------------------------------------------------------------
\* Every step of a handler, a relay, a send or the environment keeps the
\* invariant: OutboxInv is inductive.
LEMMA NextOutboxInv == OutboxInv /\ [Next]_vars => OutboxInv'
<1> SUFFICES ASSUME OutboxInv, [Next]_vars
             PROVE  OutboxInv'
  OBVIOUS
<1>1. CASE UNCHANGED vars
  BY <1>1 DEF vars, dbVars, relayVars, kafkaVars, OutboxInv, TypeOK, DbInv,
     PaymentHasEvent, NotYetPaid, KeyLock, HoldsKey, OnePaymentPerKey,
     TruthfulResponses, RelayInv, MarkedIsOnTopic, NoPhantomEvent
<1>2. ASSUME NEW r \in Requests, Reject(r) \/ Execute(r) \/ HandlerStep(r)
      PROVE  OutboxInv'
  BY <1>2, RequestSteps, CommitSteps DEF HandlerStep
<1>3. ASSUME NEW t \in Tasks, RelayStep(t) \/ Cancel(t) \/ Crash(t)
      PROVE  OutboxInv'
  BY <1>3, TickStep, PublishSteps, FailedSteps, MarkStep, ProcessSteps,
     ExitStep, CrashStep DEF RelayStep
<1>4. ASSUME NEW e \in Requests, Land(e) \/ Drop(e) \/ ProducerRetry(e)
      PROVE  OutboxInv'
  BY <1>4, LandSteps
<1>5. QED
  BY <1>1, <1>2, <1>3, <1>4 DEF Next

\* OutboxInv holds in every reachable state, however many tasks run.
THEOREM OutboxInvariant == Spec => []OutboxInv
<1>1. QED
  BY InitOutboxInv, NextOutboxInv, PTL DEF Spec

-----------------------------------------------------------------------------
(* The properties.                                                         *)

\* Every variable keeps its type, and a relay is at an event exactly when its
\* batch has one.
THEOREM TypeCorrect == Spec => []TypeOK
<1>1. OutboxInv => TypeOK
  BY DEF OutboxInv
<1>2. QED
  BY <1>1, OutboxInvariant, PTL

\* A committed payment has its outbox event and an event its payment.
THEOREM PaymentsHaveEvents == Spec => []PaymentHasEvent
<1>1. OutboxInv => PaymentHasEvent
  BY DEF OutboxInv, DbInv
<1>2. QED
  BY <1>1, OutboxInvariant, PTL

\* Retries, concurrent requests and dying tasks never turn one idempotency
\* key into two payments.
THEOREM OneKeyOnePayment == Spec => []OnePaymentPerKey
<1>1. OutboxInv => OnePaymentPerKey
  BY DEF OutboxInv, DbInv
<1>2. QED
  BY <1>1, OutboxInvariant, PTL

\* What a client is told about its payment is true.
THEOREM ResponsesAreTruthful == Spec => []TruthfulResponses
<1>1. OutboxInv => TruthfulResponses
  BY DEF OutboxInv, DbInv
<1>2. QED
  BY <1>1, OutboxInvariant, PTL

\* An event marked published is on payments.created: no committed payment is
\* lost between the database and the topic, even with several relays.
THEOREM MarkedEventsAreOnTopic == Spec => []MarkedIsOnTopic
<1>1. OutboxInv => MarkedIsOnTopic
  BY DEF OutboxInv
<1>2. QED
  BY <1>1, OutboxInvariant, PTL

\* No event of a rolled-back payment reaches the topic.
THEOREM NoPhantoms == Spec => []NoPhantomEvent
<1>1. OutboxInv => NoPhantomEvent
  BY DEF OutboxInv
<1>2. QED
  BY <1>1, OutboxInvariant, PTL

-----------------------------------------------------------------------------
(* Duplicates.  With one relay, a copy of an event beyond the excused ones *)
(* is the one it was, or is about to be, marked published for.             *)

\* A publish of e that is recorded, or about to be.
Recorded(t, e) ==
  outbox[e] = "published" \/ (relay[t].pc = "mark" /\ Current(t) = e)

\* The batch of the only relay: distinct events that are still pending.
OwnBatch(t) ==
  /\ \A i \in 1 .. Len(relay[t].batch) : outbox[relay[t].batch[i]] = "pending"
  /\ \A i, j \in 1 .. Len(relay[t].batch) : i < j => relay[t].batch[i] # relay[t].batch[j]

CopiesBound(t) ==
  \A e \in Requests :
    topic[e] + inflight[e] <= excused[e] + (IF Recorded(t, e) THEN 1 ELSE 0)

OneRelayInv(t) == OutboxInv /\ OwnBatch(t) /\ CopiesBound(t)

\* What CopiesBound compares are numbers.
LEMMA CopiesAreNumbers ==
  ASSUME TypeOK
  PROVE  \A e \in Requests :
           topic[e] \in Nat /\ inflight[e] \in Nat /\ excused[e] \in Nat
  BY DEF TypeOK

\* CopiesBound depends on the four counters and on what is recorded.
LEMMA BoundKept ==
  ASSUME NEW t \in Tasks, OneRelayInv(t), OutboxInv',
         \A e \in Requests :
           \/ /\ topic'[e] + inflight'[e] <= topic[e] + inflight[e]
              /\ excused'[e] = excused[e]
              /\ Recorded(t, e) => Recorded(t, e)'
           \/ /\ topic'[e] + inflight'[e] <= topic[e] + inflight[e] + 1
              /\ excused'[e] = excused[e] + 1
              /\ Recorded(t, e) => Recorded(t, e)'
           \/ /\ topic'[e] + inflight'[e] <= topic[e] + inflight[e] + 1
              /\ excused'[e] = excused[e]
              /\ ~Recorded(t, e) /\ Recorded(t, e)'
           \/ /\ topic'[e] + inflight'[e] <= topic[e] + inflight[e]
              /\ excused'[e] = excused[e] + 1
  PROVE  CopiesBound(t)'
<1> SUFFICES ASSUME NEW e \in Requests
             PROVE  topic'[e] + inflight'[e]
                      <= excused'[e] + (IF Recorded(t, e)' THEN 1 ELSE 0)
  BY DEF CopiesBound
<1>1. /\ topic[e] \in Nat /\ inflight[e] \in Nat /\ excused[e] \in Nat
      /\ topic'[e] \in Nat /\ inflight'[e] \in Nat /\ excused'[e] \in Nat
  BY DEF OneRelayInv, OutboxInv, TypeOK
<1>2. topic[e] + inflight[e] <= excused[e] + (IF Recorded(t, e) THEN 1 ELSE 0)
  BY DEF OneRelayInv, CopiesBound
<1>3. QED
  BY <1>1, <1>2

\* The rest of a batch keeps what the batch had, while what is pending stays.
LEMMA RestOfBatch ==
  ASSUME NEW t \in Tasks, OneRelayInv(t), relay[t].pc \in {"publish", "mark"}, Advance(t),
         \A d \in Requests : d # Current(t) => outbox'[d] = outbox[d]
  PROVE  OwnBatch(t)'
<1> DEFINE b == relay[t].batch
<1> DEFINE c == relay'[t].batch
<1>1. TypeOK /\ OwnBatch(t)
  BY DEF OneRelayInv, OutboxInv
<1>2. b \in Seq(Requests) /\ Current(t) = b[1] /\ 1 \in 1 .. Len(b)
  BY <1>1, InHand
<1>3. /\ Len(b) \in Nat /\ Len(c) = Len(b) - 1
      /\ \A i \in 1 .. Len(b) - 1 : c[i] = b[i + 1]
  BY <1>1, AdvanceStep
<1>4. \A i \in 1 .. Len(b) - 1 :
        i + 1 \in 1 .. Len(b) /\ 1 < i + 1 /\ b[i + 1] \in Requests
  BY <1>2, <1>3, ElementOfSeq
<1>5. /\ \A i \in 1 .. Len(b) : outbox[b[i]] = "pending"
      /\ \A i, j \in 1 .. Len(b) : i < j => b[i] # b[j]
  BY <1>1 DEF OwnBatch
<1> HIDE DEF b, c
<1>6. \A i \in 1 .. Len(c) : outbox'[c[i]] = "pending"
  BY <1>2, <1>3, <1>4, <1>5
<1>7. \A i, j \in 1 .. Len(c) : i < j => c[i] # c[j]
  <2> SUFFICES ASSUME NEW i \in 1 .. Len(b) - 1, NEW j \in 1 .. Len(b) - 1, i < j
               PROVE  b[i + 1] # b[j + 1]
    BY <1>3
  <2>1. i + 1 < j + 1
    BY <1>3
  <2>2. QED
    BY <1>4, <1>5, <2>1
<1>8. QED
  BY <1>6, <1>7 DEF OwnBatch, c

\* The event in hand is pending; nothing else of the relay is recorded.
LEMMA InHandPending ==
  ASSUME NEW t \in Tasks, OneRelayInv(t), relay[t].pc \in {"publish", "mark"}
  PROVE  Current(t) \in Requests /\ outbox[Current(t)] = "pending"
<1>1. TypeOK /\ OwnBatch(t)
  BY DEF OneRelayInv, OutboxInv
<1>2. QED
  BY <1>1, InHand DEF OwnBatch

\* A handler's step publishes nothing, and only adds pending events.
LEMMA OneRelayHandler ==
  ASSUME NEW t \in Tasks, OneRelayInv(t), OutboxInv', NEW r \in Requests,
         Reject(r) \/ Execute(r) \/ HandlerStep(r)
  PROVE  OwnBatch(t)' /\ CopiesBound(t)'
<1>1. /\ UNCHANGED <<relay, inflight, topic, excused>>
      /\ \/ outbox' = outbox
         \/ r \notin transactions /\ outbox' = [outbox EXCEPT ![r] = "pending"]
  <2>1. CASE Commit(r) \/ CommitUnknown(r)
    BY <2>1 DEF Commit, CommitUnknown, ApplyCommit, Goto, relayVars, kafkaVars,
       OneRelayInv, OutboxInv, DbInv, NotYetPaid
  <2>2. CASE \/ Reject(r) \/ Execute(r) \/ InsertTransaction(r)
             \/ Conflict(r) \/ InsertEvent(r) \/ Fail(r)
    BY <2>2 DEF Reject, Execute, InsertTransaction, Conflict, InsertEvent, Fail,
       Goto, dbVars, relayVars, kafkaVars
  <2>3. QED
    BY <2>1, <2>2 DEF HandlerStep
<1>2. \A e \in Requests : outbox'[e] = outbox[e] \/ (outbox[e] = "none" /\ outbox'[e] = "pending")
  BY <1>1 DEF OneRelayInv, OutboxInv, DbInv, PaymentHasEvent, TypeOK
<1>3. relay[t].batch \in Seq(Requests)
  BY DEF OneRelayInv, OutboxInv, TypeOK
<1>4. OwnBatch(t)'
  BY <1>1, <1>2, <1>3, ElementOfSeq DEF OneRelayInv, OwnBatch
<1>5. \A e \in Requests : Recorded(t, e) => Recorded(t, e)'
  BY <1>1, <1>2 DEF Recorded, Current
<1>6. \A e \in Requests :
        /\ topic'[e] + inflight'[e] <= topic[e] + inflight[e]
        /\ excused'[e] = excused[e]
  BY <1>1, CopiesAreNumbers DEF OneRelayInv, OutboxInv
<1>7. QED
  BY <1>4, <1>5, <1>6, BoundKept

\* The relay publishes the event at the head of its own batch, which it has
\* not published before.
LEMMA OneRelayPublish ==
  ASSUME NEW t \in Tasks, OneRelayInv(t), OutboxInv', Publish(t)
  PROVE  OwnBatch(t)' /\ CopiesBound(t)'
<1>1. relay[t].pc = "publish"
  BY DEF Publish
<1>2. PICK e \in Requests : e = Current(t) /\ outbox[e] = "pending"
  BY <1>1, InHandPending
<1>3. /\ topic' = [topic EXCEPT ![e] = @ + 1]
      /\ relay' = [relay EXCEPT ![t].pc = "mark"]
      /\ UNCHANGED <<outbox, inflight, excused>>
  BY <1>2 DEF Publish, dbVars
<1>4. relay'[t].batch = relay[t].batch /\ relay'[t].pc = "mark"
  <2>1. relay \in [Tasks -> [pc : {"idle", "publish", "mark", "stopped", "down"},
                             batch : Seq(Requests)]]
    BY DEF OneRelayInv, OutboxInv, TypeOK
  <2>2. QED
    BY <1>3, <2>1
<1>5. OwnBatch(t)'
  BY <1>3, <1>4 DEF OneRelayInv, OwnBatch
<1>6. \A d \in Requests : Recorded(t, d) => Recorded(t, d)'
  BY <1>1, <1>3 DEF Recorded
<1>7. ~Recorded(t, e) /\ Recorded(t, e)'
  BY <1>1, <1>2, <1>3, <1>4 DEF Recorded, Current
<1>8. /\ topic'[e] = topic[e] + 1
      /\ \A d \in Requests : d # e => topic'[d] = topic[d]
      /\ \A d \in Requests : topic[d] \in Nat /\ inflight[d] \in Nat
  BY <1>2, <1>3 DEF OneRelayInv, OutboxInv, TypeOK
<1>9. QED
  BY <1>2, <1>3, <1>5, <1>6, <1>7, <1>8, BoundKept

\* The relay lets go of an event when it is marked, or when another publish
\* of it has an excuse.
LEMMA OneRelayAdvance ==
  ASSUME NEW t \in Tasks, OneRelayInv(t), OutboxInv',
         PublishFails(t) \/ PublishAbandoned(t) \/ Mark(t) \/ MarkFails(t)
  PROVE  OwnBatch(t)' /\ CopiesBound(t)'
<1>1. relay[t].pc \in {"publish", "mark"} /\ Advance(t)
  BY DEF PublishFails, PublishAbandoned, Mark, MarkFails
<1>2. PICK e \in Requests : e = Current(t) /\ outbox[e] = "pending"
  BY <1>1, InHandPending
<1>3. /\ UNCHANGED topic
      /\ \/ /\ relay[t].pc = "publish" /\ outbox' = outbox
            /\ \/ inflight' = inflight /\ excused' = excused
               \/ /\ inflight' = [inflight EXCEPT ![e] = @ + 1]
                  /\ excused' = [excused EXCEPT ![e] = @ + 1]
         \/ /\ outbox' = [outbox EXCEPT ![e] = "published"]
            /\ inflight' = inflight /\ excused' = excused
         \/ /\ outbox' = outbox /\ inflight' = inflight
            /\ excused' = [excused EXCEPT ![e] = @ + 1]
  BY <1>2 DEF PublishFails, PublishAbandoned, Mark, MarkFails, dbVars, kafkaVars
<1>4. /\ \A d \in Requests : Recorded(t, d) =>
           outbox[d] = "published" \/ (relay[t].pc = "mark" /\ d = e)
      /\ \A d \in Requests : outbox'[d] = "published" => Recorded(t, d)'
  BY <1>2 DEF Recorded
<1>5. /\ inflight \in [Requests -> Nat] /\ excused \in [Requests -> Nat]
      /\ outbox \in [Requests -> {"none", "pending", "published"}]
  BY DEF OneRelayInv, OutboxInv, TypeOK
<1>6. \A d \in Requests : d # e =>
        /\ outbox'[d] = outbox[d] /\ inflight'[d] = inflight[d]
        /\ excused'[d] = excused[d] /\ topic'[d] = topic[d]
        /\ Recorded(t, d) => Recorded(t, d)'
  BY <1>2, <1>3, <1>4, <1>5
<1>7. /\ topic'[e] = topic[e]
      /\ \/ /\ inflight'[e] = inflight[e] /\ excused'[e] = excused[e]
            /\ Recorded(t, e) => Recorded(t, e)'
         \/ /\ inflight'[e] = inflight[e] + 1 /\ excused'[e] = excused[e] + 1
            /\ Recorded(t, e) => Recorded(t, e)'
         \/ /\ inflight'[e] = inflight[e] /\ excused'[e] = excused[e] + 1
  <2>1. CASE relay[t].pc = "publish" /\ outbox' = outbox
    <3>1. ~Recorded(t, e)
      BY <1>2, <1>4, <2>1
    <3>2. \/ inflight' = inflight /\ excused' = excused
          \/ inflight' = [inflight EXCEPT ![e] = @ + 1] /\ excused' = [excused EXCEPT ![e] = @ + 1]
          \/ inflight' = inflight /\ excused' = [excused EXCEPT ![e] = @ + 1]
          \/ inflight' = inflight /\ excused' = excused
      BY <1>3
    <3>3. QED
      BY <1>2, <1>3, <1>5, <3>1, <3>2
  <2>2. CASE outbox' = [outbox EXCEPT ![e] = "published"] /\ inflight' = inflight /\ excused' = excused
    <3>1. Recorded(t, e)'
      BY <1>2, <1>4, <1>5, <2>2
    <3>2. QED
      BY <1>3, <2>2, <3>1
  <2>3. CASE outbox' = outbox /\ inflight' = inflight /\ excused' = [excused EXCEPT ![e] = @ + 1]
    BY <1>2, <1>3, <1>5, <2>3
  <2>4. QED
    BY <1>3, <2>1, <2>2, <2>3
<1>8. OwnBatch(t)'
  BY <1>1, <1>2, <1>6, RestOfBatch
<1>9. \A d \in Requests : topic[d] \in Nat /\ inflight[d] \in Nat
  BY CopiesAreNumbers DEF OneRelayInv, OutboxInv
<1>10. \A d \in Requests : d # e =>
         /\ topic'[d] + inflight'[d] <= topic[d] + inflight[d]
         /\ excused'[d] = excused[d]
         /\ Recorded(t, d) => Recorded(t, d)'
  BY <1>6, <1>9
<1>11. \/ /\ topic'[e] + inflight'[e] <= topic[e] + inflight[e]
          /\ excused'[e] = excused[e]
          /\ Recorded(t, e) => Recorded(t, e)'
       \/ /\ topic'[e] + inflight'[e] <= topic[e] + inflight[e] + 1
          /\ excused'[e] = excused[e] + 1
          /\ Recorded(t, e) => Recorded(t, e)'
       \/ /\ topic'[e] + inflight'[e] <= topic[e] + inflight[e]
          /\ excused'[e] = excused[e] + 1
  BY <1>2, <1>7, <1>9
<1>12. CASE /\ topic'[e] + inflight'[e] <= topic[e] + inflight[e]
            /\ excused'[e] = excused[e]
            /\ Recorded(t, e) => Recorded(t, e)'
  BY <1>8, <1>10, <1>12, BoundKept
<1>13. CASE /\ topic'[e] + inflight'[e] <= topic[e] + inflight[e] + 1
            /\ excused'[e] = excused[e] + 1
            /\ Recorded(t, e) => Recorded(t, e)'
  BY <1>8, <1>10, <1>13, BoundKept
<1>14. CASE /\ topic'[e] + inflight'[e] <= topic[e] + inflight[e]
            /\ excused'[e] = excused[e] + 1
  BY <1>8, <1>10, <1>14, BoundKept
<1>15. QED
  BY <1>11, <1>12, <1>13, <1>14

\* A new batch holds pending events, each of them once.
LEMMA OneRelayTick ==
  ASSUME NEW t \in Tasks, OneRelayInv(t), OutboxInv', Tick(t)
  PROVE  OwnBatch(t)' /\ CopiesBound(t)'
<1>1. PICK b \in Batches : relay' = [relay EXCEPT ![t] = [pc |-> "publish", batch |-> b]]
  BY DEF Tick
<1>2. relay'[t].batch = b
  BY <1>1 DEF OneRelayInv, OutboxInv, TypeOK
<1>3. relay[t].pc = "idle" /\ UNCHANGED <<outbox, inflight, topic, excused>>
  BY DEF Tick, dbVars, kafkaVars
<1>4. OwnBatch(t)'
  <2>1. /\ \A i \in 1 .. Len(b) : b[i] \in Pending
        /\ \A i, j \in 1 .. Len(b) : i < j => b[i] # b[j]
    BY BatchElements DEF Tick
  <2>2. QED
    BY <1>2, <1>3, <2>1 DEF OwnBatch, Pending
<1>5. \A e \in Requests : Recorded(t, e) => Recorded(t, e)'
  BY <1>3 DEF Recorded
<1>6. \A e \in Requests :
        /\ topic'[e] + inflight'[e] <= topic[e] + inflight[e]
        /\ excused'[e] = excused[e]
  BY <1>3, CopiesAreNumbers DEF OneRelayInv, OutboxInv
<1>7. QED
  BY <1>4, <1>5, <1>6, BoundKept

\* The relay's process starts, is told to stop, or stops, with nothing in hand.
LEMMA OneRelayProcess ==
  ASSUME NEW t \in Tasks, OneRelayInv(t), OutboxInv',
         Stop(t) \/ Restart(t) \/ Cancel(t) \/ Exit(t)
  PROVE  OwnBatch(t)' /\ CopiesBound(t)'
<1>1. /\ UNCHANGED <<outbox, inflight, topic, excused>>
      /\ \/ relay' = relay
         \/ /\ relay[t].pc \in {"idle", "stopped", "down"}
            /\ \E pc \in {"idle", "stopped", "down"} :
                 \/ relay' = [relay EXCEPT ![t].pc = pc]
                 \/ relay' = [relay EXCEPT ![t] = [pc |-> pc, batch |-> << >>]]
  BY DEF Stop, Restart, Cancel, Exit, Die, dbVars, kafkaVars
<1>2. relay \in [Tasks -> [pc : {"idle", "publish", "mark", "stopped", "down"},
                           batch : Seq(Requests)]]
  BY DEF OneRelayInv, OutboxInv, TypeOK
<1>3. /\ relay'[t].batch = relay[t].batch \/ relay'[t].batch = << >>
      /\ relay[t].pc = "mark" => relay' = relay
  <2>1. CASE relay' = relay
    BY <2>1
  <2>2. ASSUME NEW pc \in {"idle", "stopped", "down"}, relay' = [relay EXCEPT ![t].pc = pc]
        PROVE  relay'[t].batch = relay[t].batch
    BY <1>2, <2>2
  <2>3. ASSUME NEW pc \in {"idle", "stopped", "down"},
               relay' = [relay EXCEPT ![t] = [pc |-> pc, batch |-> << >>]]
        PROVE  relay'[t].batch = << >>
    BY <1>2, <2>3
  <2>4. QED
    BY <1>1, <2>1, <2>2, <2>3
<1>4. OwnBatch(t)'
  <2>1. CASE relay'[t].batch = relay[t].batch
    BY <1>1, <2>1 DEF OneRelayInv, OwnBatch
  <2>2. CASE relay'[t].batch = << >>
    BY <2>2, EmptySeq DEF OwnBatch
  <2>3. QED
    BY <1>3, <2>1, <2>2
<1>5. \A e \in Requests : Recorded(t, e) => Recorded(t, e)'
  BY <1>1, <1>3 DEF Recorded, Current
<1>6. \A e \in Requests :
        /\ topic'[e] + inflight'[e] <= topic[e] + inflight[e]
        /\ excused'[e] = excused[e]
  BY <1>1, CopiesAreNumbers DEF OneRelayInv, OutboxInv
<1>7. QED
  BY <1>4, <1>5, <1>6, BoundKept

\* A crash forgets what is in hand, which is excused.
LEMMA OneRelayCrash ==
  ASSUME NEW t \in Tasks, OneRelayInv(t), OutboxInv', Crash(t)
  PROVE  OwnBatch(t)' /\ CopiesBound(t)'
<1>1. /\ relay' = [relay EXCEPT ![t] = [pc |-> "down", batch |-> << >>]]
      /\ UNCHANGED <<outbox, topic>>
  BY DEF Crash, Die, dbVars
<1>2. relay'[t].batch = << >>
  BY <1>1 DEF OneRelayInv, OutboxInv, TypeOK
<1>3. OwnBatch(t)'
  BY <1>2, EmptySeq DEF OwnBatch
<1>4. relay[t].pc \in {"idle", "stopped", "publish", "mark"}
  BY DEF Crash, Up, OneRelayInv, OutboxInv, TypeOK
<1>5. CASE relay[t].pc = "idle" \/ relay[t].pc = "stopped"
  <2>1. UNCHANGED <<inflight, excused>>
    BY <1>5 DEF Crash
  <2>2. \A d \in Requests : Recorded(t, d) => Recorded(t, d)'
    BY <1>1, <1>5 DEF Recorded
  <2>3. QED
    BY <1>1, <1>3, <2>1, <2>2, BoundKept, CopiesAreNumbers DEF OneRelayInv, OutboxInv
<1>6. CASE relay[t].pc \in {"publish", "mark"}
  <2>1. PICK e \in Requests : e = Current(t) /\ outbox[e] = "pending"
    BY <1>6, InHandPending
  <2>2. /\ excused' = [excused EXCEPT ![e] = @ + 1]
        /\ \/ relay[t].pc = "mark" /\ inflight' = inflight
           \/ relay[t].pc = "publish" /\ inflight' = [inflight EXCEPT ![e] = @ + 1]
    <3>1. ~(relay[t].pc = "idle" \/ relay[t].pc = "stopped")
      BY <1>6
    <3>2. /\ excused' = [excused EXCEPT ![e] = @ + 1]
          /\ inflight' = IF relay[t].pc = "mark" THEN inflight
                         ELSE [inflight EXCEPT ![e] = @ + 1]
      BY <2>1, <3>1, Zenon DEF Crash
    <3>3. QED
      BY <1>6, <3>2
  <2>3. \A d \in Requests : Recorded(t, d) =>
          Recorded(t, d)' \/ (relay[t].pc = "mark" /\ d = e)
    BY <1>1, <2>1 DEF Recorded
  <2>4. /\ excused'[e] = excused[e] + 1
        /\ \A d \in Requests : d # e => inflight'[d] = inflight[d] /\ excused'[d] = excused[d]
        /\ \/ relay[t].pc = "mark" /\ inflight'[e] = inflight[e]
           \/ relay[t].pc = "publish" /\ inflight'[e] = inflight[e] + 1
    BY <2>1, <2>2 DEF OneRelayInv, OutboxInv, TypeOK
  <2>5. QED
    BY <1>1, <1>3, <2>1, <2>3, <2>4, BoundKept, CopiesAreNumbers DEF OneRelayInv, OutboxInv
<1>7. QED
  BY <1>4, <1>5, <1>6

\* A send that lands, or is lost, moves a copy that was already counted.
LEMMA OneRelayLand ==
  ASSUME NEW t \in Tasks, OneRelayInv(t), OutboxInv', NEW e \in Requests, Land(e) \/ Drop(e)
  PROVE  OwnBatch(t)' /\ CopiesBound(t)'
<1>1. /\ UNCHANGED <<outbox, relay, excused>>
      /\ inflight' = [inflight EXCEPT ![e] = @ - 1]
      /\ topic' = topic \/ topic' = [topic EXCEPT ![e] = @ + 1]
  BY DEF Land, Drop, dbVars, relayVars
<1>2. OwnBatch(t)'
  BY <1>1 DEF OneRelayInv, OwnBatch
<1>3. \A d \in Requests : Recorded(t, d) => Recorded(t, d)'
  BY <1>1 DEF Recorded, Current
<1>4. /\ inflight \in [Requests -> Nat] /\ topic \in [Requests -> Nat]
      /\ excused \in [Requests -> Nat]
  BY DEF OneRelayInv, OutboxInv, TypeOK
<1>5. \A d \in Requests : topic'[d] + inflight'[d] <= topic[d] + inflight[d]
  BY <1>1, <1>4
<1>6. QED
  BY <1>1, <1>2, <1>3, <1>5, BoundKept

\* An event sent once more is one copy more, and one excuse more.
LEMMA OneRelayRetry ==
  ASSUME NEW t \in Tasks, OneRelayInv(t), OutboxInv', NEW e \in Requests, ProducerRetry(e)
  PROVE  OwnBatch(t)' /\ CopiesBound(t)'
<1>1. /\ UNCHANGED <<outbox, relay, inflight>>
      /\ topic' = [topic EXCEPT ![e] = @ + 1]
      /\ excused' = [excused EXCEPT ![e] = @ + 1]
  BY DEF ProducerRetry, dbVars, relayVars
<1>2. OwnBatch(t)'
  BY <1>1 DEF OneRelayInv, OwnBatch
<1>3. \A d \in Requests : Recorded(t, d) => Recorded(t, d)'
  BY <1>1 DEF Recorded, Current
<1>4. /\ inflight \in [Requests -> Nat] /\ topic \in [Requests -> Nat]
      /\ excused \in [Requests -> Nat]
  BY DEF OneRelayInv, OutboxInv, TypeOK
<1>5. \A d \in Requests :
        \/ topic'[d] = topic[d] /\ excused'[d] = excused[d]
        \/ topic'[d] = topic[d] + 1 /\ excused'[d] = excused[d] + 1
  BY <1>1, <1>4
<1>6. \A d \in Requests :
        \/ topic'[d] + inflight'[d] <= topic[d] + inflight[d] /\ excused'[d] = excused[d]
        \/ topic'[d] + inflight'[d] <= topic[d] + inflight[d] + 1
             /\ excused'[d] = excused[d] + 1
  BY <1>1, <1>4, <1>5
<1>7. QED
  BY <1>2, <1>3, <1>6, BoundKept

\* With one task, every step keeps the copies of an event within its excuses.
LEMMA NextOneRelay ==
  ASSUME NEW t, Tasks = {t}, OneRelayInv(t), [Next]_vars
  PROVE  OneRelayInv(t)'
<1>1. OutboxInv'
  BY NextOutboxInv DEF OneRelayInv
<1>2. CASE UNCHANGED vars
  BY <1>1, <1>2 DEF vars, dbVars, relayVars, kafkaVars, OneRelayInv, OwnBatch,
     CopiesBound, Recorded, Current
<1>3. ASSUME NEW r \in Requests, Reject(r) \/ Execute(r) \/ HandlerStep(r)
      PROVE  OneRelayInv(t)'
  BY <1>1, <1>3, OneRelayHandler DEF OneRelayInv
<1>4. CASE RelayStep(t) \/ Cancel(t) \/ Crash(t)
  BY <1>1, <1>4, OneRelayTick, OneRelayPublish, OneRelayAdvance, OneRelayProcess,
     OneRelayCrash DEF RelayStep, OneRelayInv
<1>5. ASSUME NEW e \in Requests, Land(e) \/ Drop(e) \/ ProducerRetry(e)
      PROVE  OneRelayInv(t)'
  BY <1>1, <1>5, OneRelayLand, OneRelayRetry DEF OneRelayInv
<1>6. QED
  BY <1>2, <1>3, <1>4, <1>5 DEF Next

\* With a single task every duplicate on the topic is excused: the relay alone
\* never publishes an event twice.  The run with two tasks shows that the
\* hypothesis is needed.
THEOREM SingleRelayDuplicates ==
  ASSUME NEW t, Tasks = {t}
  PROVE  Spec => []DuplicatesExcused
<1>1. Init => OneRelayInv(t)
  <2> SUFFICES ASSUME Init PROVE OneRelayInv(t)
    OBVIOUS
  <2>1. OutboxInv
    BY InitOutboxInv
  <2>2. relay[t].batch = << >>
    BY DEF Init
  <2>3. OwnBatch(t)
    BY <2>2, EmptySeq DEF OwnBatch
  <2>4. CopiesBound(t)
    BY DEF Init, CopiesBound, Recorded
  <2>5. QED
    BY <2>1, <2>3, <2>4 DEF OneRelayInv
<1>2. OneRelayInv(t) /\ [Next]_vars => OneRelayInv(t)'
  BY NextOneRelay
<1>3. OneRelayInv(t) => DuplicatesExcused
  BY CopiesAreNumbers DEF OneRelayInv, OutboxInv, CopiesBound, DuplicatesExcused
<1>4. QED
  BY <1>1, <1>2, <1>3, PTL DEF Spec

-----------------------------------------------------------------------------
(* The abstract specification: every step of the service is one of the     *)
(* feed it promises, or a stutter.                                         *)

\* A COMMIT, acknowledged or not, is Accept of the feed.
LEMMA CommitRefines ==
  ASSUME OutboxInv, NEW r \in Requests, Commit(r) \/ CommitUnknown(r)
  PROVE  Feed!Accept(r)
<1>1. /\ HoldsKey(r) /\ transactions \subseteq Requests
      /\ transactions' = transactions \union {r} /\ UNCHANGED topic
      /\ r \notin transactions
  BY DEF Commit, CommitUnknown, ApplyCommit, Goto, HoldsKey, kafkaVars,
     OutboxInv, TypeOK, DbInv, NotYetPaid
<1>2. \A q \in transactions : KeyOf[q] # KeyOf[r]
  BY <1>1 DEF OutboxInv, DbInv, KeyLock
<1>3. QED
  BY <1>1, <1>2 DEF Feed!Accept

\* A copy that reaches the topic is Deliver of the feed.
LEMMA DeliverRefines ==
  ASSUME OutboxInv, NEW e \in Requests, e \in transactions,
         UNCHANGED transactions, topic' = [topic EXCEPT ![e] = @ + 1]
  PROVE  Feed!Deliver(e)
  BY DEF Feed!Deliver

\* Every step of the service is a step of the feed, or a stutter.
LEMMA NextRefines == OutboxInv /\ [Next]_vars => [Feed!Next]_Feed!feedVars
<1> SUFFICES ASSUME OutboxInv, [Next]_vars
             PROVE  Feed!Next \/ UNCHANGED <<transactions, topic>>
  BY DEF Feed!feedVars
<1>1. CASE UNCHANGED vars
  BY <1>1 DEF vars, dbVars, kafkaVars
<1>2. ASSUME NEW r \in Requests, Reject(r) \/ Execute(r) \/ HandlerStep(r)
      PROVE  Feed!Next \/ UNCHANGED <<transactions, topic>>
  <2>1. CASE Commit(r) \/ CommitUnknown(r)
    BY <2>1, CommitRefines DEF Feed!Next
  <2>2. CASE \/ Reject(r) \/ Execute(r) \/ InsertTransaction(r)
             \/ Conflict(r) \/ InsertEvent(r) \/ Fail(r)
    BY <2>2 DEF Reject, Execute, InsertTransaction, Conflict, InsertEvent, Fail,
       Goto, dbVars, kafkaVars
  <2>3. QED
    BY <1>2, <2>1, <2>2 DEF HandlerStep
<1>3. ASSUME NEW t \in Tasks, RelayStep(t) \/ Cancel(t) \/ Crash(t)
      PROVE  Feed!Next \/ UNCHANGED <<transactions, topic>>
  <2>1. CASE Publish(t)
    <3>1. relay[t].pc = "publish"
      BY <2>1 DEF Publish
    <3>2. Current(t) \in Requests /\ Current(t) \in transactions
      BY <3>1, InHand DEF OutboxInv, RelayInv
    <3>3. UNCHANGED transactions /\ topic' = [topic EXCEPT ![Current(t)] = @ + 1]
      BY <2>1 DEF Publish, dbVars
    <3>4. QED
      BY <3>2, <3>3, DeliverRefines DEF Feed!Next
  <2>2. CASE \/ Tick(t) \/ PublishFails(t) \/ PublishAbandoned(t) \/ Mark(t)
             \/ MarkFails(t) \/ Stop(t) \/ Restart(t) \/ Cancel(t)
    BY <2>2 DEF Tick, PublishFails, PublishAbandoned, Mark, MarkFails, Stop,
       Restart, Cancel, dbVars, kafkaVars
  <2>3. CASE Exit(t) \/ Crash(t)
    BY <2>3 DEF Exit, Crash, Die, dbVars
  <2>4. QED
    BY <1>3, <2>1, <2>2, <2>3 DEF RelayStep
<1>4. ASSUME NEW e \in Requests, Land(e) \/ Drop(e) \/ ProducerRetry(e)
      PROVE  Feed!Next \/ UNCHANGED <<transactions, topic>>
  <2>1. CASE Land(e) \/ ProducerRetry(e)
    <3>1. inflight[e] > 0 => e \in transactions
      BY DEF OutboxInv, NoPhantomEvent, TypeOK
    <3>2. ASSUME NEW t \in Tasks, relay[t].pc = "publish", Current(t) = e
          PROVE  e \in transactions
      BY <3>2, InHand DEF OutboxInv, RelayInv
    <3>3. e \in transactions
      BY <2>1, <3>1, <3>2 DEF Land, ProducerRetry
    <3>4. UNCHANGED transactions /\ topic' = [topic EXCEPT ![e] = @ + 1]
      BY <2>1 DEF Land, ProducerRetry, dbVars
    <3>5. QED
      BY <3>3, <3>4, DeliverRefines DEF Feed!Next
  <2>2. CASE Drop(e)
    BY <2>2 DEF Drop, dbVars
  <2>3. QED
    BY <1>4, <2>1, <2>2
<1>5. QED
  BY <1>1, <1>2, <1>3, <1>4 DEF Next

\* Safety half of the refinement: the outbox implements PaymentFeed, one
\* payment for each key, and on the topic events of accepted payments only.
THEOREM ImplementsFeed == Spec => Feed!Init /\ [][Feed!Next]_Feed!feedVars
<1>1. Init => Feed!Init
  BY DEF Init, Feed!Init
<1>2. QED
  BY <1>1, NextRefines, OutboxInvariant, PTL DEF Spec
=============================================================================
