--------------------------- MODULE PipelineProofs ---------------------------
(***************************************************************************)
(* The safety half of Pipeline, for any payments, keys and number of       *)
(* faults: the contracts of the three services together are enough for     *)
(* "no lag means nothing is missing".                                      *)
(***************************************************************************)
EXTENDS Pipeline, FiniteSetTheorems, TLAPS

TypeOK ==
  /\ accepted \in SUBSET Payments
  /\ delivered \in [Payments -> Nat]
  /\ log \in [Topics -> Seq(Payments)]
  /\ outcomes \in [Processor!Messages -> Nat]
  /\ unprocessed \in SUBSET Processor!Messages
  /\ processed \in [{"created"} -> 0 .. MaxLength]
  /\ rows \in [Analytics!Messages -> Nat]
  /\ uncounted \in SUBSET Analytics!Messages
  /\ counted \in [AnalyticsTopics -> 0 .. MaxLength]

\* Payment p is somewhere on topic t.
On(t, p) == \E n \in 1 .. Len(log[t]) : log[t][n] = p

\* Whatever is on a topic is about an accepted payment.
OnlyAccepted == \A t \in Topics : \A n \in 1 .. Len(log[t]) : log[t][n] \in accepted

DeliveredIsOn == \A p \in Payments : delivered[p] > 0 => On("created", p)

\* An outcome is on one of the outcome topics, about the payment of its message.
OutcomeIsOn ==
  \A m \in Processor!Messages :
    outcomes[m] > 0 =>
      /\ Exists(m)
      /\ \E t \in OutcomeTopics : On(t, PaymentOf(m))

SettledExists ==
  /\ \A m \in unprocessed : Exists(m)
  /\ \A m \in uncounted : Exists(m)
  /\ \A m \in Analytics!Messages : rows[m] > 0 => Exists(m)

\* The contracts' own promise about their offsets.
CommittedIsSettled ==
  /\ \A n \in 0 .. processed["created"] - 1 : Processor!Settled(<<"created", n>>)
  /\ \A t \in AnalyticsTopics : \A n \in 0 .. counted[t] - 1 : Analytics!Settled(<<t, n>>)

PipelineInv ==
  /\ TypeOK
  /\ OnlyAccepted
  /\ DeliveredIsOn
  /\ OutcomeIsOn
  /\ SettledExists
  /\ CommittedIsSettled

-----------------------------------------------------------------------------
\* The bound on a topic is a number: there are finitely many payments.
LEMMA MaxLengthType == MaxLength \in Nat
  BY PipelineAssumption, FS_CardinalityType DEF MaxLength

\* Publishing adds one message at the end of one topic.
LEMMA PublishAppends ==
  ASSUME log \in [Topics -> Seq(Payments)], NEW topic \in Topics,
         NEW p \in Payments, Publish(topic, p)
  PROVE  /\ log' \in [Topics -> Seq(Payments)]
         /\ \A t \in Topics : Len(log[t]) \in Nat /\ Len(log'[t]) \in Nat
         /\ \A t \in Topics : Len(log[t]) <= Len(log'[t])
         /\ \A t \in Topics : \A n \in 1 .. Len(log[t]) : log'[t][n] = log[t][n]
         /\ \A t \in Topics : \A n \in 1 .. Len(log'[t]) :
              n \in 1 .. Len(log[t]) \/ log'[t][n] = p
         /\ Len(log'[topic]) = Len(log[topic]) + 1
         /\ log'[topic][Len(log[topic]) + 1] = p
<1> DEFINE s == log[topic]
<1>1. s \in Seq(Payments)
  OBVIOUS
<1>2. /\ Append(s, p) \in Seq(Payments)
      /\ Len(s) \in Nat
      /\ Len(Append(s, p)) = Len(s) + 1
      /\ \A n \in 1 .. Len(s) : Append(s, p)[n] = s[n]
      /\ Append(s, p)[Len(s) + 1] = p
  BY <1>1
<1>3. log' = [log EXCEPT ![topic] = Append(s, p)]
  BY DEF Publish
<1> HIDE DEF s
<1>4. log'[topic] = Append(s, p) /\ \A t \in Topics \ {topic} : log'[t] = log[t]
  BY <1>3
<1>5. log' \in [Topics -> Seq(Payments)]
  BY <1>2, <1>3
<1>6. \A t \in Topics : Len(log[t]) \in Nat /\ Len(log'[t]) \in Nat
  BY <1>5
<1>7. s = log[topic]
  BY DEF s
<1>8. ASSUME NEW t \in Topics
      PROVE  /\ Len(log[t]) <= Len(log'[t])
             /\ \A n \in 1 .. Len(log[t]) : log'[t][n] = log[t][n]
             /\ \A n \in 1 .. Len(log'[t]) : n \in 1 .. Len(log[t]) \/ log'[t][n] = p
  <2>1. CASE t = topic
    BY <2>1, <1>2, <1>4, <1>7
  <2>2. CASE t # topic
    BY <2>2, <1>4, <1>6
  <2>3. QED
    BY <2>1, <2>2
<1>9. QED
  BY <1>2, <1>4, <1>5, <1>6, <1>7, <1>8

\* What is on a topic stays there, and messages keep their payments.
LEMMA PublishKeeps ==
  ASSUME log \in [Topics -> Seq(Payments)], NEW topic \in Topics,
         NEW p \in Payments, Publish(topic, p)
  PROVE  /\ \A t \in Topics, q \in Payments : On(t, q) => On(t, q)'
         /\ On(topic, p)'
         /\ \A t \in Topics : \A n \in Nat :
              Exists(<<t, n>>) => Exists(<<t, n>>)' /\ PaymentOf(<<t, n>>)' = PaymentOf(<<t, n>>)
<1>1. /\ \A t \in Topics : Len(log[t]) \in Nat /\ Len(log'[t]) \in Nat
      /\ \A t \in Topics : Len(log[t]) <= Len(log'[t])
      /\ \A t \in Topics : \A n \in 1 .. Len(log[t]) : log'[t][n] = log[t][n]
      /\ Len(log'[topic]) = Len(log[topic]) + 1
      /\ log'[topic][Len(log[topic]) + 1] = p
  BY PublishAppends
<1>2. \A t \in Topics, q \in Payments : On(t, q) => On(t, q)'
  BY <1>1 DEF On
<1>3. On(topic, p)'
  BY <1>1 DEF On
<1>4. \A t \in Topics : \A n \in Nat :
        Exists(<<t, n>>) => Exists(<<t, n>>)' /\ PaymentOf(<<t, n>>)' = PaymentOf(<<t, n>>)
  BY <1>1 DEF Exists, PaymentOf
<1>5. QED
  BY <1>2, <1>3, <1>4

\* A message of payments.created is a pair of that topic and an offset.
LEMMA CreatedMessage ==
  ASSUME NEW m \in Processor!Messages
  PROVE  m = <<"created", m[2]>> /\ m[2] \in Nat /\ m[2] \in 0 .. MaxLength - 1
  BY MaxLengthType DEF Processor!Messages

\* A message of the outcome topics is a pair of its topic and an offset.
LEMMA OutcomeMessage ==
  ASSUME NEW m \in Analytics!Messages
  PROVE  /\ m = <<m[1], m[2]>> /\ m[1] \in AnalyticsTopics /\ m[1] \in Topics
         /\ m[2] \in Nat /\ m[2] \in 0 .. MaxLength - 1
  BY MaxLengthType DEF Analytics!Messages, AnalyticsTopics, Topics

-----------------------------------------------------------------------------
\* Empty topics satisfy the invariant.
THEOREM InitInv == Init => PipelineInv
<1> SUFFICES ASSUME Init PROVE PipelineInv
  OBVIOUS
<1> USE DEF Init, Outbox!Init, Processor!Init, Analytics!Init
<1>1. TypeOK
  BY MaxLengthType DEF TypeOK
<1>2. \A t \in Topics : log[t] = << >> /\ Len(log[t]) = 0
  OBVIOUS
<1>3. OnlyAccepted /\ DeliveredIsOn /\ OutcomeIsOn /\ SettledExists
  BY <1>2 DEF OnlyAccepted, DeliveredIsOn, OutcomeIsOn, SettledExists
<1>4. CommittedIsSettled
  BY DEF CommittedIsSettled
<1>5. QED
  BY <1>1, <1>3, <1>4 DEF PipelineInv

\* A message on a topic is about one of the payments.
LEMMA PaymentOfType ==
  ASSUME log \in [Topics -> Seq(Payments)], NEW t \in Topics, NEW n \in Nat,
         Exists(<<t, n>>)
  PROVE  PaymentOf(<<t, n>>) \in Payments /\ n + 1 \in 1 .. Len(log[t])
<1>1. log[t] \in Seq(Payments) /\ Len(log[t]) \in Nat
  OBVIOUS
<1>2. n + 1 \in 1 .. Len(log[t])
  BY <1>1 DEF Exists
<1>3. QED
  BY <1>1, <1>2 DEF PaymentOf

\* Any publication keeps the outcomes that are on a topic on it, and the
\* settled messages on theirs.
LEMMA TopicsKept ==
  ASSUME PipelineInv, NEW topic \in Topics, NEW p \in Payments, Publish(topic, p)
  PROVE  /\ \A m \in Processor!Messages :
              outcomes[m] > 0 =>
                Exists(m)' /\ \E t \in OutcomeTopics : On(t, PaymentOf(m))'
         /\ \A m \in unprocessed : Exists(m)'
         /\ \A m \in uncounted : Exists(m)'
         /\ \A m \in Analytics!Messages : rows[m] > 0 => Exists(m)'
<1>1. /\ log \in [Topics -> Seq(Payments)]
      /\ unprocessed \subseteq Processor!Messages
      /\ uncounted \subseteq Analytics!Messages
  BY DEF PipelineInv, TypeOK
<1>2. /\ \A t \in Topics, q \in Payments : On(t, q) => On(t, q)'
      /\ \A t \in Topics : \A n \in Nat :
           Exists(<<t, n>>) => Exists(<<t, n>>)' /\ PaymentOf(<<t, n>>)' = PaymentOf(<<t, n>>)
  BY <1>1, PublishKeeps
<1>3. ASSUME NEW m \in Processor!Messages, Exists(m)
      PROVE  Exists(m)' /\ PaymentOf(m)' = PaymentOf(m) /\ PaymentOf(m) \in Payments
  <2>1. m = <<"created", m[2]>> /\ m[2] \in Nat /\ "created" \in Topics
    BY CreatedMessage DEF Topics
  <2>2. QED
    BY <1>1, <1>2, <1>3, <2>1, PaymentOfType
<1>4. ASSUME NEW m \in Analytics!Messages, Exists(m)
      PROVE  Exists(m)'
  <2>1. m = <<m[1], m[2]>> /\ m[2] \in Nat /\ m[1] \in Topics
    BY OutcomeMessage
  <2>2. QED
    BY <1>2, <1>4, <2>1
<1>5. ASSUME NEW m \in Processor!Messages, outcomes[m] > 0
      PROVE  Exists(m)' /\ \E t \in OutcomeTopics : On(t, PaymentOf(m))'
  <2>1. Exists(m) /\ \E t \in OutcomeTopics : On(t, PaymentOf(m))
    BY <1>5 DEF PipelineInv, OutcomeIsOn
  <2>2. PICK t \in OutcomeTopics : On(t, PaymentOf(m))
    BY <2>1
  <2>3. t \in Topics
    BY DEF OutcomeTopics, Topics
  <2>4. PaymentOf(m)' = PaymentOf(m) /\ PaymentOf(m) \in Payments /\ Exists(m)'
    BY <2>1, <1>3
  <2>5. On(t, PaymentOf(m))'
    <3>1. \A q \in Payments : On(t, q) => On(t, q)'
      BY <1>2, <2>3
    <3>2. QED
      BY <2>2, <2>4, <3>1 DEF On
  <2>6. QED
    BY <2>4, <2>5
<1>6. QED
  BY <1>1, <1>3, <1>4, <1>5 DEF PipelineInv, SettledExists

\* A new payment leaves every topic as it is: Accept of payments-service.
LEMMA AcceptKeepsInv ==
  ASSUME PipelineInv, NEW p \in Payments, Accept(p)
  PROVE  PipelineInv'
<1> USE DEF PipelineInv, Accept, processorVars, analyticsVars
<1>1. /\ accepted' = accepted \union {p}
      /\ UNCHANGED <<delivered, log, outcomes, unprocessed, processed, rows, uncounted, counted>>
  BY DEF Outbox!Accept
<1>2. TypeOK'
  BY <1>1 DEF TypeOK
<1>3. OnlyAccepted'
  BY <1>1 DEF OnlyAccepted
<1>4. DeliveredIsOn' /\ OutcomeIsOn' /\ SettledExists'
  BY <1>1 DEF DeliveredIsOn, OutcomeIsOn, SettledExists, On, Exists, PaymentOf
<1>5. CommittedIsSettled'
  BY <1>1 DEF CommittedIsSettled, Processor!Settled, Analytics!Settled
<1>6. QED
  BY <1>2, <1>3, <1>4, <1>5

\* The relay's publication: payments.created grows, the rest keeps its place.
LEMMA DeliverKeepsInv ==
  ASSUME PipelineInv, NEW p \in Payments, Deliver(p)
  PROVE  PipelineInv'
<1>1. /\ p \in accepted /\ delivered' = [delivered EXCEPT ![p] = @ + 1]
      /\ Publish("created", p)
      /\ UNCHANGED <<accepted, outcomes, unprocessed, processed, rows, uncounted, counted>>
  BY DEF Deliver, Outbox!Deliver, processorVars, analyticsVars
<1>2. TypeOK /\ "created" \in Topics
  BY DEF PipelineInv, Topics
<1>3. log \in [Topics -> Seq(Payments)]
  BY <1>2 DEF TypeOK
<1>4. TypeOK'
  <2>1. log' \in [Topics -> Seq(Payments)]
    BY <1>1, <1>2, <1>3, PublishAppends
  <2>2. QED
    BY <2>1, <1>1, <1>2 DEF TypeOK
<1>5. OnlyAccepted'
  <2>1. \A t \in Topics : \A n \in 1 .. Len(log'[t]) :
          \/ n \in 1 .. Len(log[t]) /\ log'[t][n] = log[t][n]
          \/ log'[t][n] = p
    BY <1>1, <1>2, <1>3, PublishAppends
  <2>2. QED
    BY <2>1, <1>1 DEF PipelineInv, OnlyAccepted
<1>6. /\ \A t \in Topics, q \in Payments : On(t, q) => On(t, q)'
      /\ On("created", p)'
      /\ \A t \in Topics : \A n \in Nat :
           Exists(<<t, n>>) => Exists(<<t, n>>)' /\ PaymentOf(<<t, n>>)' = PaymentOf(<<t, n>>)
  BY <1>1, <1>2, <1>3, PublishKeeps
<1>7. DeliveredIsOn'
  BY <1>1, <1>2, <1>6 DEF PipelineInv, DeliveredIsOn, TypeOK
<1>8. OutcomeIsOn' /\ SettledExists'
  BY <1>1, <1>2, TopicsKept DEF OutcomeIsOn, SettledExists
<1>9. CommittedIsSettled'
  BY <1>1 DEF PipelineInv, CommittedIsSettled, Processor!Settled, Analytics!Settled
<1>10. QED
  BY <1>4, <1>5, <1>7, <1>8, <1>9 DEF PipelineInv

\* An outcome published for a message: it is about the message's payment, and
\* lands on a topic the dashboard reads.
LEMMA ProcessKeepsInv ==
  ASSUME PipelineInv, NEW m \in Processor!Messages, Process(m)
  PROVE  PipelineInv'
<1>1. PICK topic \in OutcomeTopics : Publish(topic, PaymentOf(m))
  BY DEF Process
<1>2. /\ Exists(m)
      /\ outcomes' = [outcomes EXCEPT ![m] = @ + 1]
      /\ UNCHANGED <<accepted, delivered, unprocessed, processed, rows, uncounted, counted>>
  BY DEF Process, feedVars, analyticsVars
<1>3. TypeOK /\ topic \in Topics /\ "created" \in Topics
  BY DEF PipelineInv, Topics, OutcomeTopics
<1>4. log \in [Topics -> Seq(Payments)]
  BY <1>3 DEF TypeOK
<1>5. m = <<"created", m[2]>> /\ m[2] \in Nat
  BY CreatedMessage
<1>6. PaymentOf(m) \in Payments /\ PaymentOf(m) \in accepted
  <2>1. PaymentOf(m) \in Payments /\ m[2] + 1 \in 1 .. Len(log["created"])
    BY <1>2, <1>3, <1>4, <1>5, PaymentOfType
  <2>2. PaymentOf(m) = log["created"][m[2] + 1]
    BY <1>5 DEF PaymentOf
  <2>3. QED
    BY <2>1, <2>2, <1>3 DEF PipelineInv, OnlyAccepted
<1>7. PICK p \in Payments : p = PaymentOf(m) /\ p \in accepted /\ Publish(topic, p)
  BY <1>1, <1>6
<1>8. TypeOK'
  <2>1. log' \in [Topics -> Seq(Payments)]
    BY <1>3, <1>4, <1>7, PublishAppends
  <2>2. outcomes' \in [Processor!Messages -> Nat]
    BY <1>2, <1>3 DEF TypeOK
  <2>3. QED
    BY <2>1, <2>2, <1>2, <1>3 DEF TypeOK
<1>9. OnlyAccepted'
  <2>1. \A t \in Topics : \A n \in 1 .. Len(log'[t]) :
          \/ n \in 1 .. Len(log[t]) /\ log'[t][n] = log[t][n]
          \/ log'[t][n] = p
    <3>1. \A t \in Topics : \A n \in 1 .. Len(log[t]) : log'[t][n] = log[t][n]
      BY <1>3, <1>4, <1>7, PublishAppends
    <3>2. \A t \in Topics : \A n \in 1 .. Len(log'[t]) :
            n \in 1 .. Len(log[t]) \/ log'[t][n] = p
      BY <1>3, <1>4, <1>7, PublishAppends
    <3>3. QED
      BY <3>1, <3>2
  <2>2. QED
    BY <2>1, <1>2, <1>7 DEF PipelineInv, OnlyAccepted
<1>10. /\ \A t \in Topics, q \in Payments : On(t, q) => On(t, q)'
       /\ On(topic, p)'
       /\ \A t \in Topics : \A n \in Nat :
            Exists(<<t, n>>) => Exists(<<t, n>>)' /\ PaymentOf(<<t, n>>)' = PaymentOf(<<t, n>>)
  BY <1>3, <1>4, <1>7, PublishKeeps
<1>11. DeliveredIsOn'
  BY <1>2, <1>3, <1>10 DEF PipelineInv, DeliveredIsOn
<1>12. Exists(m)' /\ PaymentOf(m)' = p
  BY <1>2, <1>3, <1>5, <1>7, <1>10
<1>13. OutcomeIsOn'
  <2> SUFFICES ASSUME NEW k \in Processor!Messages, outcomes'[k] > 0
               PROVE  Exists(k)' /\ \E t \in OutcomeTopics : On(t, PaymentOf(k))'
    BY DEF OutcomeIsOn
  <2>1. CASE k = m
    <3>1. On(topic, PaymentOf(m))'
      BY <1>10, <1>12 DEF On
    <3>2. QED
      BY <2>1, <3>1, <1>1, <1>12
  <2>2. CASE k # m
    <3>1. outcomes[k] > 0
      BY <2>2, <1>2, <1>3 DEF TypeOK
    <3>2. QED
      BY <3>1, <1>3, <1>7, TopicsKept
  <2>3. QED
    BY <2>1, <2>2
<1>14. SettledExists'
  BY <1>2, <1>3, <1>7, TopicsKept DEF SettledExists
<1>15. CommittedIsSettled'
  <2>1. \A k \in Processor!Messages : outcomes[k] > 0 => outcomes'[k] > 0
    BY <1>2, <1>3 DEF TypeOK
  <2>2. \A n \in 0 .. processed["created"] - 1 : <<"created", n>> \in Processor!Messages
    BY <1>3, MaxLengthType DEF TypeOK, Processor!Messages
  <2>3. QED
    BY <1>2, <2>1, <2>2 DEF PipelineInv, CommittedIsSettled, Processor!Settled, Analytics!Settled
<1>16. QED
  BY <1>8, <1>9, <1>11, <1>13, <1>14, <1>15 DEF PipelineInv

\* A message given up by either service, or stored by the second: the topics
\* do not change, and what was settled stays so.
LEMMA SettleKeepsInv ==
  ASSUME PipelineInv,
         \/ \E m \in Processor!Messages : GiveUp(m)
         \/ \E m \in Analytics!Messages : Store(m) \/ Drop(m)
  PROVE  PipelineInv'
<1>1. TypeOK
  BY DEF PipelineInv
<1>2. UNCHANGED <<accepted, delivered, log, outcomes, processed, counted>>
  BY DEF GiveUp, Store, Drop, feedVars, processorVars, analyticsVars
<1>3. ASSUME NEW m \in Processor!Messages, GiveUp(m)
      PROVE  PipelineInv'
  <2>1. Exists(m) /\ unprocessed' = unprocessed \union {m} /\ UNCHANGED <<rows, uncounted>>
    BY <1>3 DEF GiveUp, analyticsVars
  <2>2. TypeOK' /\ OnlyAccepted' /\ DeliveredIsOn'
    BY <1>1, <1>2, <2>1 DEF PipelineInv, TypeOK, OnlyAccepted, DeliveredIsOn, On
  <2>3. OutcomeIsOn' /\ SettledExists'
    BY <1>2, <2>1 DEF PipelineInv, OutcomeIsOn, SettledExists, On, Exists, PaymentOf
  <2>4. CommittedIsSettled'
    BY <1>2, <2>1 DEF PipelineInv, CommittedIsSettled, Processor!Settled, Analytics!Settled
  <2>5. QED
    BY <2>2, <2>3, <2>4 DEF PipelineInv
<1>4. ASSUME NEW m \in Analytics!Messages, Store(m)
      PROVE  PipelineInv'
  <2>1. Exists(m) /\ rows' = [rows EXCEPT ![m] = @ + 1] /\ UNCHANGED <<unprocessed, uncounted>>
    BY <1>4 DEF Store, processorVars
  <2>2. rows' \in [Analytics!Messages -> Nat]
    BY <1>1, <2>1 DEF TypeOK
  <2>3. \A k \in Analytics!Messages : rows[k] > 0 => rows'[k] > 0
    BY <1>1, <2>1 DEF TypeOK
  <2>4. \A k \in Analytics!Messages : rows'[k] > 0 => rows[k] > 0 \/ k = m
    BY <1>1, <2>1 DEF TypeOK
  <2>5. TypeOK' /\ OnlyAccepted' /\ DeliveredIsOn'
    BY <1>1, <1>2, <2>1, <2>2 DEF PipelineInv, TypeOK, OnlyAccepted, DeliveredIsOn, On
  <2>6. OutcomeIsOn' /\ SettledExists'
    BY <1>2, <2>1, <2>4 DEF PipelineInv, OutcomeIsOn, SettledExists, On, Exists, PaymentOf
  <2>7. CommittedIsSettled'
    <3>1. \A t \in AnalyticsTopics : \A n \in 0 .. counted[t] - 1 : <<t, n>> \in Analytics!Messages
      BY <1>1, MaxLengthType DEF TypeOK, Analytics!Messages
    <3>2. QED
      BY <1>2, <2>1, <2>3, <3>1
      DEF PipelineInv, CommittedIsSettled, Processor!Settled, Analytics!Settled
  <2>8. QED
    BY <2>5, <2>6, <2>7 DEF PipelineInv
<1>5. ASSUME NEW m \in Analytics!Messages, Drop(m)
      PROVE  PipelineInv'
  <2>1. Exists(m) /\ uncounted' = uncounted \union {m} /\ UNCHANGED <<rows, unprocessed>>
    BY <1>5 DEF Drop, processorVars
  <2>2. TypeOK' /\ OnlyAccepted' /\ DeliveredIsOn'
    BY <1>1, <1>2, <2>1 DEF PipelineInv, TypeOK, OnlyAccepted, DeliveredIsOn, On
  <2>3. OutcomeIsOn' /\ SettledExists'
    BY <1>2, <2>1 DEF PipelineInv, OutcomeIsOn, SettledExists, On, Exists, PaymentOf
  <2>4. CommittedIsSettled'
    BY <1>2, <2>1 DEF PipelineInv, CommittedIsSettled, Processor!Settled, Analytics!Settled
  <2>5. QED
    BY <2>2, <2>3, <2>4 DEF PipelineInv
<1>6. QED
  BY <1>3, <1>4, <1>5

\* A commit moves an offset past settled messages only: each contract's promise.
LEMMA CommitKeepsInv ==
  ASSUME PipelineInv, CommitProcessed \/ CommitCounted
  PROVE  PipelineInv'
<1>1. TypeOK
  BY DEF PipelineInv
<1>2. UNCHANGED <<accepted, delivered, log, outcomes, unprocessed, rows, uncounted>>
  BY DEF CommitProcessed, CommitCounted, feedVars, processorVars, analyticsVars
<1>3. OnlyAccepted' /\ DeliveredIsOn' /\ OutcomeIsOn' /\ SettledExists'
  BY <1>2
  DEF PipelineInv, OnlyAccepted, DeliveredIsOn, OutcomeIsOn, SettledExists, On, Exists, PaymentOf
<1>4. ASSUME CommitProcessed
      PROVE  TypeOK' /\ CommittedIsSettled'
  <2>1. PICK n : processed' = [processed EXCEPT !["created"] = n]
    BY <1>4 DEF CommitProcessed
  <2>2. /\ processed'["created"] \in processed["created"] .. MaxLength
        /\ \A k \in processed["created"] .. processed'["created"] - 1 :
             Processor!Settled(<<"created", k>>)
        /\ UNCHANGED counted
    BY <1>4 DEF CommitProcessed, Processor!Commit, analyticsVars
  <2>3. processed["created"] \in 0 .. MaxLength
    BY <1>1 DEF TypeOK
  <2>4. processed' \in [{"created"} -> 0 .. MaxLength]
    BY <1>1, <2>1, <2>2, <2>3, MaxLengthType DEF TypeOK
  <2>5. TypeOK'
    BY <1>1, <1>2, <2>2, <2>4 DEF TypeOK
  <2>6. \A k \in 0 .. processed'["created"] - 1 : Processor!Settled(<<"created", k>>)
    <3>1. \A k \in 0 .. processed["created"] - 1 : Processor!Settled(<<"created", k>>)
      BY DEF PipelineInv, CommittedIsSettled
    <3>2. processed["created"] \in Nat /\ processed'["created"] \in Nat
      BY <2>2, <2>3, MaxLengthType
    <3>3. \A k \in 0 .. processed'["created"] - 1 :
            \/ k \in 0 .. processed["created"] - 1
            \/ k \in processed["created"] .. processed'["created"] - 1
      BY <3>2
    <3>4. QED
      BY <2>2, <3>1, <3>3
  <2>7. CommittedIsSettled'
    <3>1. \A t \in AnalyticsTopics : \A k \in 0 .. counted[t] - 1 : Analytics!Settled(<<t, k>>)
      BY DEF PipelineInv, CommittedIsSettled
    <3>2. QED
      BY <1>2, <2>2, <2>6, <3>1 DEF CommittedIsSettled, Processor!Settled, Analytics!Settled
  <2>8. QED
    BY <2>5, <2>7
<1>5. ASSUME CommitCounted
      PROVE  TypeOK' /\ CommittedIsSettled'
  <2>1. PICK t \in AnalyticsTopics : \E n : counted' = [counted EXCEPT ![t] = n]
    BY <1>5 DEF CommitCounted
  <2>2. /\ \A q \in AnalyticsTopics :
             /\ counted'[q] \in counted[q] .. MaxLength
             /\ \A k \in counted[q] .. counted'[q] - 1 : Analytics!Settled(<<q, k>>)
        /\ UNCHANGED processed
    BY <1>5 DEF CommitCounted, Analytics!Commit, processorVars
  <2>3. \A q \in AnalyticsTopics : counted[q] \in 0 .. MaxLength
    BY <1>1 DEF TypeOK
  <2>4. \A q \in AnalyticsTopics : counted'[q] \in 0 .. MaxLength
    BY <2>2, <2>3, MaxLengthType
  <2>5. counted' \in [AnalyticsTopics -> 0 .. MaxLength]
    BY <1>1, <2>1, <2>4 DEF TypeOK
  <2>6. TypeOK'
    BY <1>1, <1>2, <2>2, <2>5 DEF TypeOK
  <2>7. \A q \in AnalyticsTopics : \A k \in 0 .. counted'[q] - 1 : Analytics!Settled(<<q, k>>)
    <3>1. \A q \in AnalyticsTopics : \A k \in 0 .. counted[q] - 1 : Analytics!Settled(<<q, k>>)
      BY DEF PipelineInv, CommittedIsSettled
    <3>2. \A q \in AnalyticsTopics : counted[q] \in Nat /\ counted'[q] \in Nat
      BY <2>3, <2>4, MaxLengthType
    <3>3. \A q \in AnalyticsTopics : \A k \in 0 .. counted'[q] - 1 :
            \/ k \in 0 .. counted[q] - 1
            \/ k \in counted[q] .. counted'[q] - 1
      BY <3>2
    <3>4. QED
      BY <2>2, <3>1, <3>3
  <2>8. CommittedIsSettled'
    <3>1. \A k \in 0 .. processed["created"] - 1 : Processor!Settled(<<"created", k>>)
      BY DEF PipelineInv, CommittedIsSettled
    <3>2. QED
      BY <1>2, <2>2, <2>7, <3>1 DEF CommittedIsSettled, Processor!Settled, Analytics!Settled
  <2>9. QED
    BY <2>6, <2>8
<1>6. QED
  BY <1>3, <1>4, <1>5 DEF PipelineInv

-----------------------------------------------------------------------------
\* Every step of the three services keeps the invariant.
THEOREM NextKeepsInv == PipelineInv /\ [Next]_vars => PipelineInv'
<1> SUFFICES ASSUME PipelineInv, [Next]_vars PROVE PipelineInv'
  OBVIOUS
<1>1. CASE \E p \in Payments : Accept(p) \/ Deliver(p)
  BY <1>1, AcceptKeepsInv, DeliverKeepsInv
<1>2. CASE \E m \in Processor!Messages : SettleProcessor(m)
  BY <1>2, ProcessKeepsInv, SettleKeepsInv DEF SettleProcessor
<1>3. CASE \E m \in Analytics!Messages : SettleAnalytics(m)
  BY <1>3, SettleKeepsInv DEF SettleAnalytics
<1>4. CASE CommitProcessed \/ CommitCounted
  BY <1>4, CommitKeepsInv
<1>5. CASE UNCHANGED vars
  <2>1. UNCHANGED <<accepted, delivered, log, outcomes, unprocessed, processed,
                    rows, uncounted, counted>>
    BY <1>5 DEF vars, feedVars, processorVars, analyticsVars
  <2>2. QED
    BY <2>1
    DEF PipelineInv, TypeOK, OnlyAccepted, DeliveredIsOn, OutcomeIsOn, SettledExists,
        CommittedIsSettled, On, Exists, PaymentOf, Processor!Settled, Analytics!Settled
<1>6. QED
  BY <1>1, <1>2, <1>3, <1>4, <1>5 DEF Next

\* The invariant holds of every behaviour of the three contracts together.
THEOREM PipelineInvariant == Spec => []PipelineInv
BY InitInv, NextKeepsInv, PTL DEF Spec

\* A row is about an accepted payment: its message is on an outcome topic, and
\* everything on a topic is about an accepted payment.
LEMMA CountedIsAccepted ==
  ASSUME PipelineInv, NEW p \in Payments, Counted(p)
  PROVE  p \in accepted
<1>1. PICK m \in Analytics!Messages : Exists(m) /\ PaymentOf(m) = p
  BY DEF Counted
<1>2. m = <<m[1], m[2]>> /\ m[1] \in Topics /\ m[2] \in Nat
  BY OutcomeMessage
<1>3. log \in [Topics -> Seq(Payments)]
  BY DEF PipelineInv, TypeOK
<1>4. m[2] + 1 \in 1 .. Len(log[m[1]])
  BY <1>1, <1>2, <1>3, PaymentOfType
<1>5. QED
  BY <1>1, <1>2, <1>4 DEF PipelineInv, OnlyAccepted, PaymentOf

\* With no lag, what is on payments.created has an outcome or was given up.
LEMMA DrainedHasOutcome ==
  ASSUME PipelineInv, Drained, NEW p \in accepted
  PROVE  (\E t \in OutcomeTopics : On(t, p)) \/ GivenUp(p)
<1>1. p \in Payments /\ log \in [Topics -> Seq(Payments)] /\ delivered \in [Payments -> Nat]
  BY DEF PipelineInv, TypeOK
<1>2. On("created", p)
  BY <1>1 DEF PipelineInv, DeliveredIsOn, Drained
<1>3. PICK n \in 1 .. Len(log["created"]) : log["created"][n] = p
  BY <1>2 DEF On
<1>4. "created" \in Topics /\ Len(log["created"]) \in Nat
  BY <1>1 DEF Topics
<1>5. n - 1 \in 0 .. Len(log["created"]) - 1 /\ (n - 1) + 1 = n
  BY <1>4
<1> DEFINE m == <<"created", n - 1>>
<1>6. Processor!Settled(m)
  BY <1>5 DEF PipelineInv, CommittedIsSettled, Drained
<1>7. PaymentOf(m) = p
  BY <1>3, <1>5 DEF PaymentOf
<1>8. m \in Processor!Messages
  <2>1. processed["created"] \in 0 .. MaxLength
    BY DEF PipelineInv, TypeOK
  <2>2. QED
    BY <2>1, <1>4, <1>5, MaxLengthType DEF Processor!Messages, Drained
<1>9. CASE outcomes[m] > 0
  BY <1>7, <1>8, <1>9 DEF PipelineInv, OutcomeIsOn
<1>10. CASE m \in unprocessed
  BY <1>7, <1>10 DEF GivenUp
<1>11. QED
  BY <1>6, <1>9, <1>10 DEF Processor!Settled

\* With no lag, what is on an outcome topic has a row or was given up: the
\* analytics group reads every topic the processor writes.
LEMMA DrainedOutcomeCounted ==
  ASSUME PipelineInv, Drained, NEW t \in OutcomeTopics, NEW p \in Payments, On(t, p)
  PROVE  Counted(p) \/ GivenUp(p)
<1>1. t \in AnalyticsTopics /\ t \in Topics
  BY DEF OutcomeTopics, AnalyticsTopics, Topics
<1>2. log \in [Topics -> Seq(Payments)] /\ counted[t] \in 0 .. MaxLength
  BY <1>1 DEF PipelineInv, TypeOK
<1>3. PICK n \in 1 .. Len(log[t]) : log[t][n] = p
  BY DEF On
<1>4. Len(log[t]) \in Nat
  BY <1>1, <1>2
<1>5. n - 1 \in 0 .. Len(log[t]) - 1 /\ (n - 1) + 1 = n /\ n - 1 < Len(log[t])
  BY <1>4
<1> DEFINE m == <<t, n - 1>>
<1>6. Analytics!Settled(m)
  BY <1>1, <1>5 DEF PipelineInv, CommittedIsSettled, Drained
<1>7. PaymentOf(m) = p /\ Exists(m)
  BY <1>3, <1>5 DEF PaymentOf, Exists
<1>8. m \in Analytics!Messages
  BY <1>1, <1>2, <1>4, <1>5, MaxLengthType DEF Analytics!Messages, Drained
<1>9. CASE rows[m] > 0
  BY <1>7, <1>8, <1>9 DEF Counted
<1>10. CASE m \in uncounted
  BY <1>7, <1>10 DEF GivenUp
<1>11. QED
  BY <1>6, <1>9, <1>10 DEF Analytics!Settled

\* With nothing pending and no group behind, the dashboard counts exactly the
\* accepted payments, but for those a service has logged as given up: for any
\* number of payments, repetitions and losses.
THEOREM NothingMissing == Spec => []DrainedMeansCounted
<1>1. PipelineInv => DrainedMeansCounted
  <2> SUFFICES ASSUME PipelineInv PROVE DrainedMeansCounted
    OBVIOUS
  <2>1. \A p \in Payments : Counted(p) => p \in accepted
    BY CountedIsAccepted
  <2>2. ASSUME Drained, NEW p \in accepted
        PROVE  Counted(p) \/ GivenUp(p)
    <3>1. p \in Payments
      BY DEF PipelineInv, TypeOK
    <3>2. QED
      BY <2>2, <3>1, DrainedHasOutcome, DrainedOutcomeCounted
  <2>3. QED
    BY <2>1, <2>2 DEF DrainedMeansCounted
<1>2. QED
  BY <1>1, PipelineInvariant, PTL
=============================================================================
